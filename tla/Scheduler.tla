----------------------------- MODULE Scheduler -----------------------------
(* The frame loop of src/main.c: the processor runs a slice of cycles, then   *)
(* update_gba accounts for them to the timers, the serial port, the LCD and   *)
(* a sleeping processor, flags and raises interrupts, and sizes the next      *)
(* slice by the earliest event.  The interpreter loop is that of src/cpu.cc.  *)
(*                                                                            *)
(* Cycles are abstract: an instruction is its cost and its effect on the      *)
(* registers the loop reads.  HALT stands for STOP too, an empty ie for       *)
(* IME = 0, and a period for reload << prescale.                              *)
EXTENDS Integers

CONSTANTS
  HDraw,       \* cycles of a line before its hblank     (960)
  HBlank,      \* cycles of an hblank                     (272)
  Visible,     \* lines drawn                             (160)
  Lines,       \* lines of a frame                        (228)
  Overrun,     \* overrun of a slice that is accounted for (64)
  MaxSteal,    \* cycles a DMA may take from a slice       (64)
  NumTimers,   \* timers                                   (4)
  VCountSetting, \* the line of the vcount interrupt (DISPSTAT >> 8)
  LcdIrqs,     \* the LCD interrupts DISPSTAT enables
  Periods,     \* timer periods the game uses
  Costs,       \* cycles of an instruction
  Transfers,   \* cycles of a serial transfer
  Copies,      \* cycles of an immediate DMA
  Steals,      \* cycles of an LCD or sound DMA
  Masks,       \* values the game writes to IE
  Acts,        \* the kinds of instructions the game executes
  MaxStarts    \* bound: timer starts of one behaviour

TimerNames == <<"timer0", "timer1", "timer2", "timer3">>
Timers == 0 .. (NumTimers - 1)
TimerIrq(t) == TimerNames[t + 1]
Irqs == {"vblank", "hblank", "vcount", "serial"} \cup {TimerIrq(t) : t \in Timers}

ActNames == {"plain", "idle_loop", "start_timer", "stop_timer", "set_reload", "halt",
             "dma", "serial", "write_ie", "write_if", "mask", "unmask", "switch"}

ASSUME SchedulerAssumption ==
  /\ HDraw \in Nat /\ HBlank \in Nat /\ Overrun \in Nat /\ MaxSteal \in Nat
  /\ Overrun < HBlank /\ HBlank <= HDraw
  /\ Visible \in Nat \ {0} /\ Lines \in Nat /\ Visible < Lines
  /\ NumTimers \in 1 .. 4 /\ VCountSetting \in Nat
  /\ LcdIrqs \subseteq {"vblank", "hblank", "vcount"}
  /\ Periods \subseteq Nat \ {0} /\ Costs \subseteq Nat \ {0}
  /\ Transfers \subseteq Nat \ {0} /\ Copies \subseteq Nat \ {0} /\ Steals \subseteq Nat
  /\ Masks \subseteq SUBSET Irqs /\ {} \in Masks
  /\ Acts \subseteq ActNames
  /\ MaxStarts \in Nat

ASSUME PeriodsAssumption == Periods # {}

VARIABLES
  pc,      \* "go": an instruction runs next; "ran": the slice is tested; "frame"
  rem,     \* cycles_remaining
  exec,    \* execute_cycles
  lcd,     \* video_count and the LCD's part of DISPSTAT and VCOUNT
  timer,   \* timer[t]
  serial,  \* serial_irq_cycles
  halt,    \* reg[CPU_HALT_STATE]
  sleep,   \* reg[REG_SLEEP_CYCLES] without bit 31
  fresh,   \* bit 31 of reg[REG_SLEEP_CYCLES]
  pend,    \* REG_IF
  ie,      \* REG_IE while REG_IME is set, else empty
  masked,  \* the I flag of CPSR
  drawn,   \* history: lines drawn since the last frame was handed over
  spent,   \* history: cycles used since the last update, by the processor or a DMA
  owed,    \* history: cycles the processor still has to sleep for its DMA
  starts   \* history: timer starts so far (counts up to MaxStarts)

vars == <<pc, rem, exec, lcd, timer, serial, halt, sleep, fresh, pend, ie, masked,
          drawn, spent, owed, starts>>

cpuVars == <<pc, rem, spent>>
sleepVars == <<halt, sleep, fresh, owed>>

TimerRec == [mode : {"off", "prescale", "cascade"}, count : Int, period : Periods,
             irq : BOOLEAN]
LcdRec == [video : Int, hblank : BOOLEAN, vblank : BOOLEAN, vcount : 0 .. (Lines - 1)]

Init ==
  /\ pc = "go" /\ rem = HDraw /\ exec = HDraw
  /\ lcd = [video |-> HDraw, hblank |-> FALSE, vblank |-> FALSE, vcount |-> 0]
  /\ \E p \in Periods :
       timer = [t \in Timers |-> [mode |-> "off", count |-> p, period |-> p, irq |-> FALSE]]
  /\ serial = 0
  /\ halt = "ACTIVE" /\ sleep = 0 /\ fresh = FALSE
  /\ pend = {} /\ ie = {} /\ masked = FALSE
  /\ drawn = 0 /\ spent = 0 /\ owed = 0 /\ starts = 0

HasInterrupt(m, e, p) == ~m /\ e \cap p # {}

--------------------------------------------------------------------------
(* Instructions.  The interpreter tests the slice after each one, unless the  *)
(* instruction alerted an interrupt: then another one runs first.             *)

Executes(act, c) ==
  /\ act \in Acts /\ c \in Costs
  /\ halt = "ACTIVE"
  /\ pc = "go" \/ (pc = "ran" /\ rem > 0)
  /\ rem' = rem - c
  /\ spent' = spent + c
  /\ UNCHANGED <<lcd, drawn>>

Plain(c) ==
  /\ Executes("plain", c)
  /\ pc' = "ran"
  /\ UNCHANGED <<exec, timer, serial, pend, ie, masked, starts>> /\ UNCHANGED sleepVars

(* At the start of a known idle loop the rest of the slice is given away. *)
IdleLoop ==
  /\ "idle_loop" \in Acts /\ halt = "ACTIVE"
  /\ pc \in {"go", "ran"} /\ rem > 0
  /\ rem' = 0 /\ spent' = spent + rem /\ pc' = "ran"
  /\ UNCHANGED <<exec, lcd, drawn, timer, serial, pend, ie, masked, starts>>
  /\ UNCHANGED sleepVars

(* trigger_timer: a stopped timer starts with a full period, and the slice is *)
(* declared shorter; the processor runs on with the cycles it was given.      *)
StartTimer(c, t, mode, irq) ==
  /\ Executes("start_timer", c)
  /\ starts < MaxStarts
  /\ timer[t].mode = "off"
  /\ timer' = [timer EXCEPT ![t] = [mode |-> mode, count |-> timer[t].period,
                                    period |-> timer[t].period, irq |-> irq]]
  /\ exec' = IF timer[t].period < exec THEN timer[t].period ELSE exec
  /\ starts' = starts + 1
  /\ pc' = "ran"
  /\ UNCHANGED <<serial, pend, ie, masked>> /\ UNCHANGED sleepVars

StopTimer(c, t) ==
  /\ Executes("stop_timer", c)
  /\ timer[t].mode # "off"
  /\ timer' = [timer EXCEPT ![t].mode = "off"]
  /\ pc' = "ran"
  /\ UNCHANGED <<exec, serial, pend, ie, masked, starts>> /\ UNCHANGED sleepVars

(* count_timer: the new reload value counts from the next overflow. *)
SetReload(c, t, p) ==
  /\ Executes("set_reload", c)
  /\ timer' = [timer EXCEPT ![t].period = p]
  /\ pc' = "ran"
  /\ UNCHANGED <<exec, serial, pend, ie, masked, starts>> /\ UNCHANGED sleepVars

Halt(c) ==
  /\ Executes("halt", c)
  /\ halt' = "HALT"
  /\ pc' = "ran"
  /\ UNCHANGED <<exec, timer, serial, sleep, fresh, owed, pend, ie, masked, starts>>

(* trigger_dma with immediate start: the copy is made at once, and the        *)
(* processor sleeps for the cycles it takes, from the next update on.         *)
StartDma(c, n) ==
  /\ Executes("dma", c)
  /\ halt' = "DMA" /\ sleep' = n /\ fresh' = TRUE /\ owed' = n
  /\ pc' = "ran"
  /\ UNCHANGED <<exec, timer, serial, pend, ie, masked, starts>>

StartSerial(c, n) ==
  /\ Executes("serial", c)
  /\ serial = 0
  /\ serial' = n
  /\ pc' = "ran"
  /\ UNCHANGED <<exec, timer, pend, ie, masked, starts>> /\ UNCHANGED sleepVars

(* Writing IE or IME alerts when an interrupt is pending: the next            *)
(* instruction runs before the slice is tested.  Bound: a straight line of    *)
(* such writes overruns the slice only so far.                                *)
WriteIE(c, e) ==
  /\ Executes("write_ie", c)
  /\ rem > -Overrun
  /\ ie' = e
  /\ pc' = IF HasInterrupt(masked, e, pend) THEN "go" ELSE "ran"
  /\ UNCHANGED <<exec, timer, serial, pend, masked, starts>> /\ UNCHANGED sleepVars

WriteIF(c, i) ==
  /\ Executes("write_if", c)
  /\ i \in pend
  /\ pend' = pend \ {i}
  /\ pc' = "ran"
  /\ UNCHANGED <<exec, timer, serial, ie, masked, starts>> /\ UNCHANGED sleepVars

(* MSR or SWI, or the return from an exception, with no interrupt to take. *)
WriteMask(c, m) ==
  /\ Executes(IF m THEN "mask" ELSE "unmask", c)
  /\ ~HasInterrupt(m, ie, pend)
  /\ masked' = m
  /\ pc' = "ran"
  /\ UNCHANGED <<exec, timer, serial, pend, ie, starts>> /\ UNCHANGED sleepVars

(* A change between ARM and Thumb (BX, a Thumb SWI, a return to Thumb), and an *)
(* interrupt taken as CPSR is written, jump to the next instruction: the cost  *)
(* is not counted and the slice not tested.  Bound: not twice in a row, as a   *)
(* loop of nothing else would never end its slice.                             *)
SwitchState ==
  /\ "switch" \in Acts /\ halt = "ACTIVE"
  /\ pc = "ran" /\ rem > 0
  /\ pc' = "go"
  /\ masked' \in {masked, TRUE, HasInterrupt(FALSE, ie, pend)}
  /\ UNCHANGED <<rem, exec, lcd, timer, serial, pend, ie, drawn, spent, starts>>
  /\ UNCHANGED sleepVars

--------------------------------------------------------------------------
(* One iteration of update_gba.  irq_raised survives the iterations of one    *)
(* call in the code; flagging a pending interrupt again changes nothing while *)
(* the processor sleeps.                                                      *)

\* Mutant: the overrun of a slice is not limited.
CompletedInFull == exec - rem
Completed == exec - (IF rem > -Overrun THEN rem ELSE -Overrun)

\* What one iteration takes from timer t, if the timer before it overflows or not.
\* Mutant: timers stand still while the processor sleeps.
TakenWhileActive(t, carry) ==
  CASE timer[t].mode = "prescale" /\ halt = "ACTIVE" -> Completed
    [] timer[t].mode = "cascade" /\ carry -> 1
    [] OTHER -> 0
Taken(t, carry) ==
  CASE timer[t].mode = "prescale" -> Completed
    [] timer[t].mode = "cascade" /\ carry -> 1
    [] OTHER -> 0

Overflows ==
  LET over[t \in Timers] ==
        /\ timer[t].mode # "off"
        /\ timer[t].count - Taken(t, IF t = 0 THEN FALSE ELSE over[t - 1]) <= 0
  IN over

\* One period is added per iteration, however many were missed.
TimersAfter(over) ==
  [t \in Timers |->
     [timer[t] EXCEPT !.count =
        @ - Taken(t, IF t = 0 THEN FALSE ELSE over[t - 1])
          + (IF over[t] THEN timer[t].period ELSE 0)]]

\* Unsigned: a count that was taken below zero exceeds everything.
Below(count, cycles) == cycles < 0 \/ count <= cycles

SerialDone == serial > 0 /\ Below(serial, Completed)

LcdDue == lcd.video - Completed <= 0
FrameDone == LcdDue /\ lcd.hblank /\ lcd.vcount + 1 = Lines
\* Mutant: lines are drawn in vblank as well.
DrawsAnyLine == LcdDue /\ ~lcd.hblank
DrawsLine == LcdDue /\ ~lcd.hblank /\ ~lcd.vblank
NextLine == (lcd.vcount + 1) % Lines

LcdAfter ==
  LET left == lcd.video - Completed IN
  IF ~LcdDue THEN [lcd EXCEPT !.video = left]
  ELSE IF ~lcd.hblank THEN [lcd EXCEPT !.video = left + HBlank, !.hblank = TRUE]
  ELSE [video |-> left + HDraw, hblank |-> FALSE, vcount |-> NextLine,
        vblank |-> IF lcd.vcount + 1 = Visible THEN TRUE
                   ELSE lcd.vblank /\ lcd.vcount + 1 # Lines]

LcdRaised ==
  {i \in LcdIrqs :
     /\ LcdDue
     /\ \/ i = "hblank" /\ ~lcd.hblank
        \/ i = "vblank" /\ lcd.hblank /\ lcd.vcount + 1 = Visible
        \/ i = "vcount" /\ lcd.hblank /\ NextLine = VCountSetting}

Raised(over) ==
  LcdRaised
    \cup {TimerIrq(t) : t \in {u \in Timers : over[u] /\ timer[u].irq}}
    \cup {i \in {"serial"} : SerialDone}

\* Mutant: an interrupt wakes only a processor that is not halted.
WokenUnlessHalted(irq) == halt
Woken(irq) == IF irq /\ halt = "HALT" THEN "ACTIVE" ELSE halt

\* The first iteration after the DMA accounts for cycles that ran before it.
\* Mutant: those cycles count as slept.
SleepsAtOnce == IF Below(sleep, Completed) THEN 0 ELSE sleep - Completed
SleepLeft ==
  CASE fresh -> sleep
    [] ~fresh /\ Below(sleep, Completed) -> 0
    [] OTHER -> sleep - Completed

\* serial_next_event: no event while no transfer is under way.
\* Mutant: zero cycles left are taken for an event.
SerialEventAlways(left) == {left}
SerialEvent(left) == {n \in {left} : n > 0}

NonNegative(n) == IF n > 0 THEN n ELSE 0

Account(over, steal) ==
  LET irq == HasInterrupt(masked, ie, pend \cup Raised(over))
      done == Woken(irq) = "DMA" /\ SleepLeft = 0
      left == IF SerialDone THEN 0 ELSE IF serial > 0 THEN serial - Completed ELSE 0
      events == {NonNegative(LcdAfter.video)}
                  \cup SerialEvent(left)
                  \cup {n \in {SleepLeft} : Woken(irq) = "DMA" /\ ~done}
                  \cup {n \in {timer'[t].count : t \in
                                {u \in Timers : timer[u].mode = "prescale"}} : n >= 0}
      stolen == IF steal < MaxSteal THEN steal ELSE MaxSteal
  IN
  /\ timer' = TimersAfter(over)
  /\ serial' = left
  /\ lcd' = LcdAfter
  /\ drawn' = IF DrawsLine THEN drawn + 1 ELSE drawn
  /\ pend' = pend \cup Raised(over)
  /\ masked' = (masked \/ irq)
  /\ halt' = IF done THEN "ACTIVE" ELSE Woken(irq)
  /\ sleep' = IF Woken(irq) = "DMA" THEN SleepLeft ELSE sleep
  /\ fresh' = IF Woken(irq) = "DMA" THEN FALSE ELSE fresh
  /\ owed' = NonNegative(owed - NonNegative(Completed - spent))
  /\ exec' \in events /\ \A n \in events : exec' <= n
  /\ IF FrameDone
     THEN pc' = "frame" /\ rem' = 0
     ELSE IF halt' = "ACTIVE"
     THEN pc' = "go" /\ rem' = NonNegative(exec' - stolen)
     ELSE pc' = "ran" /\ rem' = 0
  /\ spent' = IF pc' = "go" THEN exec' - rem' ELSE 0

Update ==
  /\ pc \in {"go", "ran"}
  /\ halt # "ACTIVE" \/ (pc = "ran" /\ rem <= 0)
  /\ \E over \in {Overflows}, steal \in Steals :
       /\ steal > 0 => LcdDue \/ \E t \in Timers : over[t]
       /\ Account(over, steal)
  /\ UNCHANGED <<ie, starts>>

(* A completed frame returns to retro_run, which runs the next one with the   *)
(* whole slice execute_cycles holds.                                          *)
NextFrame ==
  /\ pc = "frame"
  /\ pc' = "go" /\ rem' = exec /\ drawn' = 0
  /\ UNCHANGED <<exec, lcd, timer, serial, pend, ie, masked, spent, starts>>
  /\ UNCHANGED sleepVars

Instruction ==
  \/ IdleLoop \/ SwitchState
  \/ \E c \in Costs :
       \/ Plain(c) \/ Halt(c)
       \/ \E t \in Timers :
            \/ \E mode \in {"prescale", "cascade"}, irq \in BOOLEAN : StartTimer(c, t, mode, irq)
            \/ StopTimer(c, t)
            \/ \E p \in Periods : SetReload(c, t, p)
       \/ \E n \in Copies : StartDma(c, n)
       \/ \E n \in Transfers : StartSerial(c, n)
       \/ \E e \in Masks : WriteIE(c, e)
       \/ \E i \in Irqs : WriteIF(c, i)
       \/ \E m \in BOOLEAN : WriteMask(c, m)

Next == Instruction \/ Update \/ NextFrame

Spec == Init /\ [][Next]_vars

(* The interpreter is one loop that never waits: some instruction, or an      *)
(* update, always follows; and the frontend asks for frame after frame.       *)
FairSpec == Spec /\ WF_vars(Instruction) /\ WF_vars(Update) /\ WF_vars(NextFrame)
--------------------------------------------------------------------------
(* Properties *)

\* The variables keep their types.
TypeOK ==
  /\ pc \in {"go", "ran", "frame"}
  /\ rem \in Int /\ exec \in Nat
  /\ lcd \in LcdRec
  /\ timer \in [Timers -> TimerRec]
  /\ serial \in Nat /\ sleep \in Nat
  /\ halt \in {"ACTIVE", "HALT", "DMA"}
  /\ fresh \in BOOLEAN /\ masked \in BOOLEAN
  /\ pend \subseteq Irqs /\ ie \subseteq Irqs
  /\ drawn \in Nat /\ spent \in Nat /\ owed \in Nat /\ starts \in Nat

\* The LCD's next event always lies ahead, by more than nothing: no slice, however
\* far an instruction overruns it, eats up a whole hblank, so no line and no
\* hblank is skipped (the reason for MAX(remaining_cycles, -64)).
VideoPending == lcd.video > 0 /\ exec <= lcd.video

\* The vblank flag of DISPSTAT always agrees with VCOUNT.
VBlankInStep == lcd.vblank <=> lcd.vcount >= Visible

\* A frame handed to the frontend has every visible line drawn exactly once.
FrameWhole == pc = "frame" => drawn = Visible

\* The processor wakes from an immediate DMA only after it slept all the cycles
\* of the copy, whatever part of the slice ran before the DMA.
SleptInFull == halt # "DMA" => owed = 0

\* completed_cycles is the "number of cycles we ask to run - cycles that we did not
\* execute": what the loop accounts for is what the processor ran.
CyclesAccounted == pc = "ran" /\ halt = "ACTIVE" /\ rem \in (-Overrun) .. 0 => Completed = spent

\* Frames go on for ever, whether the processor runs, is halted for good, or sleeps.
FramesGoOn == []<>(pc = "frame")

\* A halted processor whose vblank interrupt is enabled and not masked wakes up.
Waiting == halt = "HALT" /\ ~masked /\ "vblank" \in ie \cap LcdIrqs
HaltedWakesUp == Waiting ~> halt = "ACTIVE"

\* A running timer, or one that counts the overflows of a running timer, interrupts,
\* unless the game stops it first: a sleeping processor does not stop the timers, and
\* periods shorter than a slice, whose counts fall below zero, do not get stuck there.
Counts(t) ==
  \/ timer[t].mode = "prescale"
  \/ timer[t].mode = "cascade" /\ t > 0 /\ timer[t - 1].mode = "prescale"

TimersFire ==
  \A t \in Timers :
    (timer[t].irq /\ Counts(t)) ~> (TimerIrq(t) \in pend \/ ~Counts(t))

--------------------------------------------------------------------------
(* The inductive invariants behind VideoPending, FrameWhole and SleptInFull.  *)

\* Lines drawn so far are those the LCD is past.
DrawnSoFar ==
  /\ pc = "frame" => lcd.vcount = 0 /\ ~lcd.hblank /\ drawn = Visible
  /\ pc # "frame" =>
       drawn = IF lcd.vblank THEN Visible
               ELSE lcd.vcount + (IF lcd.hblank THEN 1 ELSE 0)

LcdInv == VideoPending /\ VBlankInStep /\ DrawnSoFar

\* A slice accounts for no more cycles than were used in it.
NoneGained ==
  /\ pc = "frame" => spent = 0
  /\ pc # "frame" /\ (halt = "ACTIVE" \/ fresh) => exec - rem <= spent

\* While the processor sleeps for a DMA nothing but sleep is accounted for.
SleepInv ==
  /\ fresh => halt = "DMA" /\ pc = "ran"
  /\ halt = "DMA" => owed <= sleep
  /\ halt = "DMA" /\ ~fresh => spent = 0 /\ (pc # "frame" => 0 <= rem /\ rem <= exec)

IInv == TypeOK /\ LcdInv /\ NoneGained /\ SleepInv /\ SleptInFull
=============================================================================
