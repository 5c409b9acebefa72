-------------------------- MODULE SchedulerProofs --------------------------
(* Proofs about Scheduler, for every length of a line, every number of lines  *)
(* and timers, and every instruction cost.                                    *)
EXTENDS Scheduler, TLAPS

\* The periods a game gives its timers are numbers.
LEMMA PeriodsAreInts == Periods \subseteq Int
<1>1. Periods \subseteq Nat \ {0}
  BY SchedulerAssumption
<1> QED
  BY <1>1

\* A timer has its interrupt.
LEMMA TimerIrqType ==
  ASSUME NEW t \in Timers
  PROVE  TimerIrq(t) \in Irqs
BY DEF Irqs

\* What an iteration accounts for: the cycles asked less those left, as far as the
\* overrun is accounted for.
LEMMA CompletedFacts ==
  ASSUME TypeOK
  PROVE  /\ Completed \in Int
         /\ Completed <= exec + Overrun
         /\ Completed <= exec - rem
         /\ rem >= 0 => Completed = exec - rem
BY SchedulerAssumption DEF TypeOK, Completed

\* The interpreter's instructions leave the LCD alone and only shorten the slice.
LEMMA InstructionFacts ==
  ASSUME TypeOK, Instruction
  PROVE  /\ UNCHANGED <<lcd, drawn>>
         /\ halt = "ACTIVE" /\ pc \in {"go", "ran"} /\ pc' \in {"go", "ran"}
         /\ exec' \in Nat /\ exec' <= exec
         /\ rem' \in Int /\ spent' \in Nat /\ spent' + rem' = spent + rem
         /\ halt' \in {"ACTIVE", "HALT", "DMA"} /\ sleep' \in Nat /\ owed' \in Nat
         /\ fresh' \in BOOLEAN
         /\ \/ UNCHANGED <<halt, sleep, fresh, owed>>
            \/ halt' = "HALT" /\ UNCHANGED <<sleep, fresh, owed>>
            \/ halt' = "DMA" /\ fresh' /\ owed' = sleep' /\ pc' = "ran"
<1> DEFINE Goal == /\ UNCHANGED <<lcd, drawn>>
                   /\ halt = "ACTIVE" /\ pc \in {"go", "ran"} /\ pc' \in {"go", "ran"}
                   /\ exec' \in Nat /\ exec' <= exec
                   /\ rem' \in Int /\ spent' \in Nat /\ spent' + rem' = spent + rem
                   /\ halt' \in {"ACTIVE", "HALT", "DMA"} /\ sleep' \in Nat /\ owed' \in Nat
                   /\ fresh' \in BOOLEAN
                   /\ \/ UNCHANGED <<halt, sleep, fresh, owed>>
                      \/ halt' = "HALT" /\ UNCHANGED <<sleep, fresh, owed>>
                      \/ halt' = "DMA" /\ fresh' /\ owed' = sleep' /\ pc' = "ran"
<1>1. ASSUME NEW c \in Costs, NEW act, Executes(act, c)
      PROVE  /\ halt = "ACTIVE" /\ pc \in {"go", "ran"}
             /\ UNCHANGED <<lcd, drawn>>
             /\ rem' \in Int /\ spent' \in Nat /\ spent' + rem' = spent + rem
  BY <1>1, SchedulerAssumption DEF Executes, TypeOK
<1>2. CASE IdleLoop
  BY <1>2 DEF IdleLoop, TypeOK, sleepVars
<1>3. ASSUME NEW c \in Costs, Plain(c) PROVE Goal
  BY <1>1, <1>3 DEF Plain, TypeOK, sleepVars
<1>4. ASSUME NEW c \in Costs, Halt(c) PROVE Goal
  BY <1>1, <1>4 DEF Halt, TypeOK
<1>5. ASSUME NEW c \in Costs, NEW t \in Timers, NEW m, NEW i, StartTimer(c, t, m, i)
      PROVE  Goal
  <2>1. timer[t].period \in Nat
    BY SchedulerAssumption DEF TypeOK, TimerRec
  <2> QED
    BY <1>1, <1>5, <2>1 DEF StartTimer, TypeOK, sleepVars
<1>6. ASSUME NEW c \in Costs, NEW t \in Timers, StopTimer(c, t) PROVE Goal
  BY <1>1, <1>6 DEF StopTimer, TypeOK, sleepVars
<1>7. ASSUME NEW c \in Costs, NEW t \in Timers, NEW p \in Periods, SetReload(c, t, p) PROVE Goal
  BY <1>1, <1>7 DEF SetReload, TypeOK, sleepVars
<1>8. ASSUME NEW c \in Costs, NEW n \in Copies, StartDma(c, n) PROVE Goal
  BY <1>1, <1>8, SchedulerAssumption DEF StartDma, TypeOK
<1>9. ASSUME NEW c \in Costs, NEW n \in Transfers, StartSerial(c, n) PROVE Goal
  BY <1>1, <1>9 DEF StartSerial, TypeOK, sleepVars
<1>10. ASSUME NEW c \in Costs, NEW e \in Masks, WriteIE(c, e) PROVE Goal
  BY <1>1, <1>10 DEF WriteIE, TypeOK, sleepVars
<1>11. ASSUME NEW c \in Costs, NEW i \in Irqs, WriteIF(c, i) PROVE Goal
  BY <1>1, <1>11 DEF WriteIF, TypeOK, sleepVars
<1>12. ASSUME NEW c \in Costs, NEW m \in BOOLEAN, WriteMask(c, m) PROVE Goal
  BY <1>1, <1>12 DEF WriteMask, TypeOK, sleepVars
<1>13. CASE SwitchState
  BY <1>13 DEF SwitchState, TypeOK, sleepVars
<1> QED
  BY <1>2, <1>3, <1>4, <1>5, <1>6, <1>7, <1>8, <1>9, <1>10, <1>11, <1>12, <1>13 DEF Instruction

\* What the game's instructions may do to the registers keeps their types.
LEMMA RegistersType ==
  ASSUME TypeOK, Instruction
  PROVE  /\ timer' \in [Timers -> TimerRec]
         /\ serial' \in Nat /\ masked' \in BOOLEAN /\ starts' \in Nat
         /\ pend' \subseteq Irqs /\ ie' \subseteq Irqs
<1> DEFINE Goal == /\ timer' \in [Timers -> TimerRec]
                   /\ serial' \in Nat /\ masked' \in BOOLEAN /\ starts' \in Nat
                   /\ pend' \subseteq Irqs /\ ie' \subseteq Irqs
<1>1. CASE IdleLoop
  BY <1>1 DEF IdleLoop, TypeOK
<1>2. ASSUME NEW c \in Costs, Plain(c) \/ Halt(c) PROVE Goal
  BY <1>2 DEF Plain, Halt, TypeOK
<1>3. ASSUME NEW c \in Costs, NEW t \in Timers, NEW m \in {"prescale", "cascade"},
             NEW i \in BOOLEAN, StartTimer(c, t, m, i)
      PROVE  Goal
  <2>0. timer[t] \in TimerRec
    BY DEF TypeOK
  <2>1. timer[t].period \in Periods /\ timer[t].period \in Int
    BY <2>0, PeriodsAreInts DEF TimerRec
  <2>2. [mode |-> m, count |-> timer[t].period, period |-> timer[t].period, irq |-> i] \in TimerRec
    BY <2>1 DEF TimerRec
  <2> QED
    BY <1>3, <2>2 DEF StartTimer, TypeOK
<1>4. ASSUME NEW c \in Costs, NEW t \in Timers, StopTimer(c, t) PROVE Goal
  <2>1. [timer[t] EXCEPT !.mode = "off"] \in TimerRec
    BY DEF TypeOK, TimerRec
  <2>2. timer' = [timer EXCEPT ![t] = [timer[t] EXCEPT !.mode = "off"]]
    BY <1>4 DEF StopTimer, TypeOK
  <2> QED
    BY <1>4, <2>1, <2>2 DEF StopTimer, TypeOK
<1>5. ASSUME NEW c \in Costs, NEW t \in Timers, NEW p \in Periods, SetReload(c, t, p) PROVE Goal
  <2>1. [timer[t] EXCEPT !.period = p] \in TimerRec
    BY DEF TypeOK, TimerRec
  <2>2. timer' = [timer EXCEPT ![t] = [timer[t] EXCEPT !.period = p]]
    BY <1>5 DEF SetReload, TypeOK
  <2> QED
    BY <1>5, <2>1, <2>2 DEF SetReload, TypeOK
<1>6. ASSUME NEW c \in Costs, NEW n \in Copies, StartDma(c, n) PROVE Goal
  BY <1>6 DEF StartDma, TypeOK
<1>7. ASSUME NEW c \in Costs, NEW n \in Transfers, StartSerial(c, n) PROVE Goal
  BY <1>7, SchedulerAssumption DEF StartSerial, TypeOK
<1>8. ASSUME NEW c \in Costs, NEW e \in Masks, WriteIE(c, e) PROVE Goal
  BY <1>8, SchedulerAssumption DEF WriteIE, TypeOK
<1>9. ASSUME NEW c \in Costs, NEW i \in Irqs, WriteIF(c, i) PROVE Goal
  BY <1>9 DEF WriteIF, TypeOK
<1>10. ASSUME NEW c \in Costs, NEW m \in BOOLEAN, WriteMask(c, m) PROVE Goal
  BY <1>10 DEF WriteMask, TypeOK
<1>11. CASE SwitchState
  <2>1. HasInterrupt(FALSE, ie, pend) \in BOOLEAN
    BY DEF HasInterrupt
  <2> QED
    BY <1>11, <2>1 DEF SwitchState, TypeOK
<1> QED
  BY <1>1, <1>2, <1>3, <1>4, <1>5, <1>6, <1>7, <1>8, <1>9, <1>10, <1>11 DEF Instruction

--------------------------------------------------------------------------
(* The update *)

\* The LCD after an iteration, when its last event was ahead.
LEMMA LcdFacts ==
  ASSUME TypeOK, VideoPending, VBlankInStep
  PROVE  /\ LcdAfter \in LcdRec
         /\ LcdAfter.video > 0
         /\ LcdAfter.vblank <=> LcdAfter.vcount >= Visible
         /\ ~LcdDue => /\ LcdAfter.hblank = lcd.hblank /\ LcdAfter.vcount = lcd.vcount
                       /\ LcdAfter.vblank = lcd.vblank
         /\ (LcdDue /\ ~lcd.hblank) => /\ LcdAfter.hblank /\ LcdAfter.vcount = lcd.vcount
                                       /\ LcdAfter.vblank = lcd.vblank
         /\ (LcdDue /\ lcd.hblank) =>
              /\ ~LcdAfter.hblank
              /\ LcdAfter.vcount = IF lcd.vcount + 1 = Lines THEN 0 ELSE lcd.vcount + 1
<1> DEFINE left == lcd.video - Completed
<1>1. /\ lcd.video \in Int /\ lcd.hblank \in BOOLEAN /\ lcd.vblank \in BOOLEAN
      /\ lcd.vcount \in 0 .. (Lines - 1) /\ lcd \in LcdRec
  BY DEF TypeOK, LcdRec
<1>2. Completed \in Int /\ Completed <= exec + Overrun
  BY CompletedFacts
<1>3. left \in Int /\ left >= -Overrun
  BY <1>1, <1>2, SchedulerAssumption DEF VideoPending, TypeOK
<1>4. left + HBlank > 0 /\ left + HDraw > 0
  BY <1>3, SchedulerAssumption
<1>5. LcdDue <=> left <= 0
  BY DEF LcdDue
<1>6. CASE ~LcdDue
  <2>1. LcdAfter = [lcd EXCEPT !.video = left]
    BY <1>6 DEF LcdAfter
  <2> QED
    BY <1>1, <1>3, <1>5, <1>6, <2>1 DEF LcdRec, VBlankInStep
<1>7. CASE LcdDue /\ ~lcd.hblank
  <2>1. LcdAfter = [lcd EXCEPT !.video = left + HBlank, !.hblank = TRUE]
    BY <1>7 DEF LcdAfter
  <2>2. left + HBlank \in Int
    BY <1>3, SchedulerAssumption
  <2> QED
    BY <1>1, <1>4, <1>7, <2>1, <2>2 DEF LcdRec, VBlankInStep
<1>8. CASE LcdDue /\ lcd.hblank
  <2> DEFINE vb == IF lcd.vcount + 1 = Visible THEN TRUE
                   ELSE lcd.vblank /\ lcd.vcount + 1 # Lines
  <2>1. LcdAfter = [video |-> left + HDraw, hblank |-> FALSE, vcount |-> NextLine, vblank |-> vb]
    BY <1>8 DEF LcdAfter
  <2>2. NextLine = IF lcd.vcount + 1 = Lines THEN 0 ELSE lcd.vcount + 1
    BY <1>1, SchedulerAssumption DEF NextLine
  <2>3. NextLine \in 0 .. (Lines - 1)
    BY <1>1, <2>2, SchedulerAssumption
  <2>4. vb \in BOOLEAN /\ (vb <=> NextLine >= Visible)
    <3>1. CASE lcd.vcount + 1 = Visible
      <4>1. NextLine = Visible
        BY <1>1, <2>2, <3>1, SchedulerAssumption
      <4>2. vb = TRUE
        BY <3>1
      <4> HIDE DEF vb
      <4> QED
        BY <4>1, <4>2, SchedulerAssumption
    <3>2. CASE lcd.vcount + 1 = Lines
      <4>1. NextLine = 0 /\ ~(NextLine >= Visible) /\ lcd.vcount + 1 # Visible
        BY <1>1, <2>2, <3>2, SchedulerAssumption
      <4>2. vb = FALSE
        BY <1>1, <3>2, <4>1
      <4> HIDE DEF vb
      <4> QED
        BY <4>1, <4>2
    <3>3. CASE lcd.vcount + 1 # Visible /\ lcd.vcount + 1 # Lines
      <4>1. NextLine = lcd.vcount + 1 /\ (NextLine >= Visible <=> lcd.vcount >= Visible)
        BY <1>1, <2>2, <3>3, SchedulerAssumption
      <4>2. vb = lcd.vblank
        BY <1>1, <3>3
      <4> HIDE DEF vb
      <4> QED
        BY <1>1, <4>1, <4>2 DEF VBlankInStep
    <3> QED
      BY <3>1, <3>2, <3>3
  <2>5. left + HDraw \in Int
    BY <1>3, SchedulerAssumption
  <2> HIDE DEF vb
  <2> QED
    BY <1>4, <1>8, <2>1, <2>2, <2>3, <2>4, <2>5 DEF LcdRec
<1> QED
  BY <1>6, <1>7, <1>8

\* Timers are timers after they ran.
LEMMA TimersAfterType ==
  ASSUME TypeOK, NEW over
  PROVE  TimersAfter(over) \in [Timers -> TimerRec]
<1> SUFFICES ASSUME NEW t \in Timers
             PROVE  [timer[t] EXCEPT !.count =
                       @ - Taken(t, IF t = 0 THEN FALSE ELSE over[t - 1])
                         + (IF over[t] THEN timer[t].period ELSE 0)] \in TimerRec
  BY DEF TimersAfter
<1>1. timer[t] \in TimerRec
  BY DEF TypeOK
<1>2. timer[t].count \in Int /\ timer[t].period \in Int
  <2>1. timer[t].count \in Int /\ timer[t].period \in Periods
    BY <1>1 DEF TimerRec
  <2> QED
    BY <2>1, PeriodsAreInts
<1>3. \A x : Taken(t, x) \in Int
  BY CompletedFacts DEF Taken
<1>4. (IF over[t] THEN timer[t].period ELSE 0) \in Int
  BY <1>2
<1>5. timer[t].count - Taken(t, IF t = 0 THEN FALSE ELSE over[t - 1])
        + (IF over[t] THEN timer[t].period ELSE 0) \in Int
  <2>1. \A a, b, c \in Int : a - b + c \in Int
    OBVIOUS
  <2> QED
    BY <1>2, <1>3, <1>4, <2>1
<1> QED
  BY <1>1, <1>5 DEF TimerRec

\* What the timers raise are interrupts.
LEMMA RaisedType ==
  ASSUME NEW over
  PROVE  Raised(over) \subseteq Irqs
BY SchedulerAssumption, TimerIrqType DEF Raised, LcdRaised, Irqs

\* How much of a sleep is left is a number, and less by what was completed.
LEMMA SleepLeftFacts ==
  ASSUME TypeOK
  PROVE  /\ SleepLeft \in Nat
         /\ fresh => SleepLeft = sleep
         /\ ~fresh => SleepLeft = 0 \/ SleepLeft = sleep - Completed
         /\ (~fresh /\ Completed >= 0) => SleepLeft >= sleep - Completed
BY CompletedFacts DEF TypeOK, SleepLeft, Below

\* What an update establishes, stated once for the lemmas below.
UpdateFacts ==
  /\ pc \in {"go", "ran"} /\ (halt # "ACTIVE" \/ (pc = "ran" /\ rem <= 0))
  /\ lcd' = LcdAfter
  /\ drawn' = IF DrawsLine THEN drawn + 1 ELSE drawn
  /\ exec' \in Nat /\ exec' <= LcdAfter.video
  /\ \/ /\ FrameDone
        /\ pc' = "frame" /\ rem' = 0 /\ spent' = 0
     \/ /\ ~FrameDone
        /\ \/ pc' = "go" /\ halt' = "ACTIVE" /\ rem' \in Nat /\ spent' = exec' - rem'
                         /\ spent' \in Nat
           \/ pc' = "ran" /\ halt' # "ACTIVE" /\ rem' = 0 /\ spent' = 0
  /\ owed' = NonNegative(owed - NonNegative(Completed - spent))
  /\ \/ /\ halt = "DMA" /\ SleepLeft = 0
        /\ halt' = "ACTIVE" /\ fresh' = FALSE /\ sleep' = 0
     \/ /\ halt = "DMA" /\ SleepLeft # 0
        /\ halt' = "DMA" /\ fresh' = FALSE /\ sleep' = SleepLeft
     \/ /\ halt # "DMA"
        /\ halt' \in {"ACTIVE", "HALT"} /\ UNCHANGED <<sleep, fresh>>

\* What an update does, with the types of what it leaves.
LEMMA UpdateDoes ==
  ASSUME TypeOK, VideoPending, VBlankInStep, Update
  PROVE  /\ UpdateFacts
         /\ timer' \in [Timers -> TimerRec] /\ serial' \in Nat
         /\ pend' \subseteq Irqs /\ masked' \in BOOLEAN
         /\ UNCHANGED <<ie, starts>>
<1>1. PICK over \in {Overflows}, steal \in Steals : Account(over, steal)
  BY DEF Update
<1> DEFINE irq == HasInterrupt(masked, ie, pend \cup Raised(over))
           left == IF SerialDone THEN 0 ELSE IF serial > 0 THEN serial - Completed ELSE 0
           stolen == IF steal < MaxSteal THEN steal ELSE MaxSteal
<1>2. timer' \in [Timers -> TimerRec]
  BY <1>1, TimersAfterType DEF Account
<1>3. left \in Nat /\ serial' = left
  BY <1>1, CompletedFacts DEF Account, SerialDone, Below, TypeOK
<1>4. LcdAfter.video \in Int /\ LcdAfter.video > 0
  BY LcdFacts DEF LcdRec
<1>5. exec' \in Nat /\ exec' <= LcdAfter.video
  <2>1. NonNegative(LcdAfter.video) = LcdAfter.video
    BY <1>4 DEF NonNegative
  <2>2. exec' <= LcdAfter.video
    BY <1>1, <2>1 DEF Account
  <2>3. \A t \in Timers : timer'[t].count \in Int
    BY <1>2 DEF TimerRec
  <2>4. exec' \in Nat
    BY <1>1, <1>3, <1>4, <2>1, <2>3, SleepLeftFacts DEF Account, SerialEvent
  <2> QED
    BY <2>2, <2>4
<1>6. stolen \in Nat
  BY SchedulerAssumption
<1>7. irq \in BOOLEAN
  BY DEF HasInterrupt
<1>8. /\ halt = "DMA" <=> Woken(irq) = "DMA"
      /\ halt # "DMA" => Woken(irq) \in {"ACTIVE", "HALT"}
  BY <1>7 DEF Woken, TypeOK
<1>9. /\ pend' \subseteq Irqs /\ masked' \in BOOLEAN
      /\ UNCHANGED <<ie, starts>>
  BY <1>1, RaisedType DEF Account, TypeOK, Update, HasInterrupt
<1>10. /\ pc \in {"go", "ran"} /\ (halt # "ACTIVE" \/ (pc = "ran" /\ rem <= 0))
       /\ spent' = IF pc' = "go" THEN exec' - rem' ELSE 0
  BY <1>1 DEF Update, Account
<1>11. pc' = "go" => rem' \in Nat /\ exec' - rem' \in Nat
  <2>1. pc' = "go" => rem' = NonNegative(exec' - stolen)
    BY <1>1 DEF Account
  <2> QED
    BY <1>5, <1>6, <2>1 DEF NonNegative
<1>12. \/ FrameDone /\ pc' = "frame" /\ rem' = 0
       \/ ~FrameDone /\ halt' = "ACTIVE" /\ pc' = "go"
       \/ ~FrameDone /\ halt' # "ACTIVE" /\ pc' = "ran" /\ rem' = 0
  BY <1>1 DEF Account
<1>13. \/ halt = "DMA" /\ SleepLeft = 0 /\ halt' = "ACTIVE" /\ fresh' = FALSE /\ sleep' = 0
       \/ halt = "DMA" /\ SleepLeft # 0 /\ halt' = "DMA" /\ fresh' = FALSE /\ sleep' = SleepLeft
       \/ halt # "DMA" /\ halt' \in {"ACTIVE", "HALT"} /\ UNCHANGED <<sleep, fresh>>
  BY <1>1, <1>8 DEF Account
<1>14. lcd' = LcdAfter /\ drawn' = (IF DrawsLine THEN drawn + 1 ELSE drawn)
       /\ owed' = NonNegative(owed - NonNegative(Completed - spent))
  BY <1>1 DEF Account
<1> QED
  BY <1>2, <1>3, <1>5, <1>9, <1>10, <1>11, <1>12, <1>13, <1>14 DEF UpdateFacts

\* Every step keeps the types.
LEMMA StepType == IInv /\ [Next]_vars => TypeOK'
<1> SUFFICES ASSUME IInv, [Next]_vars PROVE TypeOK'
  OBVIOUS
<1>0. TypeOK /\ VideoPending /\ VBlankInStep
  BY DEF IInv, LcdInv
<1>1. CASE Instruction
  BY <1>0, <1>1, InstructionFacts, RegistersType DEF TypeOK
<1>2. CASE Update
  <2>1. UpdateFacts
    BY <1>0, <1>2, UpdateDoes
  <2>2. /\ timer' \in [Timers -> TimerRec] /\ serial' \in Nat
        /\ pend' \subseteq Irqs /\ masked' \in BOOLEAN /\ UNCHANGED <<ie, starts>>
    BY <1>0, <1>2, UpdateDoes
  <2>3. lcd' \in LcdRec
    BY <1>0, <2>1, LcdFacts DEF UpdateFacts
  <2>4. owed' \in Nat /\ drawn' \in Nat
    BY <1>0, <2>1, CompletedFacts DEF UpdateFacts, NonNegative, TypeOK
  <2>5. sleep' \in Nat /\ fresh' \in BOOLEAN /\ halt' \in {"ACTIVE", "HALT", "DMA"}
    <3>1. SleepLeft \in Nat /\ sleep \in Nat /\ fresh \in BOOLEAN
      BY <1>0, SleepLeftFacts DEF TypeOK
    <3>2. \/ halt' = "ACTIVE" /\ fresh' = FALSE /\ sleep' = 0
          \/ halt' = "DMA" /\ fresh' = FALSE /\ sleep' = SleepLeft
          \/ halt' \in {"ACTIVE", "HALT"} /\ sleep' = sleep /\ fresh' = fresh
      BY <2>1 DEF UpdateFacts
    <3>3. fresh' = FALSE \/ fresh' = fresh
      BY <3>2
    <3>4. fresh' \in BOOLEAN
      BY <3>1, <3>3, Zenon
    <3>5. sleep' \in Nat
      BY <3>1, <3>2
    <3>6. halt' \in {"ACTIVE", "HALT", "DMA"}
      BY <3>2
    <3> QED
      BY <3>4, <3>5, <3>6
  <2>6. exec' \in Nat /\ rem' \in Int /\ spent' \in Nat /\ pc' \in {"go", "ran", "frame"}
    BY <2>1 DEF UpdateFacts
  <2> QED
    BY <1>0, <2>2, <2>3, <2>4, <2>5, <2>6 DEF TypeOK
<1>3. CASE NextFrame
  BY <1>0, <1>3 DEF NextFrame, TypeOK, sleepVars
<1>4. CASE UNCHANGED vars
  BY <1>0, <1>4 DEF vars, TypeOK
<1> QED
  BY <1>1, <1>2, <1>3, <1>4 DEF Next

\* Every step keeps the invariant of the display's periods.
LEMMA StepLcd == IInv /\ [Next]_vars => LcdInv'
<1> SUFFICES ASSUME IInv, [Next]_vars PROVE LcdInv'
  OBVIOUS
<1>0. TypeOK /\ VideoPending /\ VBlankInStep /\ DrawnSoFar
  BY DEF IInv, LcdInv
<1>1. CASE Instruction
  <2>1. /\ UNCHANGED <<lcd, drawn>> /\ exec' <= exec /\ exec' \in Nat
        /\ pc # "frame" /\ pc' # "frame"
    BY <1>0, <1>1, InstructionFacts
  <2> QED
    BY <1>0, <2>1 DEF LcdInv, VideoPending, VBlankInStep, DrawnSoFar, TypeOK, LcdRec
<1>2. CASE Update
  <2>1. UpdateFacts
    BY <1>0, <1>2, UpdateDoes
  <2>2. VideoPending' /\ VBlankInStep'
    BY <1>0, <2>1, LcdFacts DEF UpdateFacts, VideoPending, VBlankInStep
  <2>3. /\ lcd.hblank \in BOOLEAN /\ lcd.vcount \in 0 .. (Lines - 1) /\ drawn \in Nat
        /\ pc # "frame"
    BY <1>0, <2>1 DEF TypeOK, LcdRec, UpdateFacts
  <2>4. drawn = IF lcd.vcount >= Visible THEN Visible
                ELSE lcd.vcount + (IF lcd.hblank THEN 1 ELSE 0)
    BY <1>0, <2>3 DEF DrawnSoFar, VBlankInStep
  <2>5. /\ lcd'.vblank <=> lcd'.vcount >= Visible
        /\ lcd'.vcount \in 0 .. (Lines - 1) /\ lcd'.hblank \in BOOLEAN
    BY <1>0, <2>1, LcdFacts DEF UpdateFacts, LcdRec
  <2>6. CASE ~LcdDue
    <3>1. drawn' = drawn /\ pc' # "frame" /\ lcd'.hblank = lcd.hblank /\ lcd'.vcount = lcd.vcount
      BY <1>0, <2>1, <2>6, LcdFacts DEF UpdateFacts, DrawsLine, FrameDone
    <3>2. DrawnSoFar'
      BY <2>3, <2>4, <2>5, <3>1 DEF DrawnSoFar
    <3> QED
      BY <2>2, <3>2 DEF LcdInv
  <2>7. CASE LcdDue /\ ~lcd.hblank
    <3>1. /\ pc' # "frame" /\ lcd'.hblank /\ lcd'.vcount = lcd.vcount
          /\ drawn' = IF lcd.vcount >= Visible THEN drawn ELSE drawn + 1
      BY <1>0, <2>1, <2>7, LcdFacts DEF UpdateFacts, DrawsLine, FrameDone, VBlankInStep
    <3>2. DrawnSoFar'
      BY <2>3, <2>4, <2>5, <2>7, <3>1 DEF DrawnSoFar
    <3> QED
      BY <2>2, <3>2 DEF LcdInv
  <2>8. CASE LcdDue /\ lcd.hblank
    <3>1. /\ drawn' = drawn /\ ~lcd'.hblank
          /\ lcd'.vcount = IF lcd.vcount + 1 = Lines THEN 0 ELSE lcd.vcount + 1
          /\ pc' = "frame" <=> lcd.vcount + 1 = Lines
      BY <1>0, <2>1, <2>8, LcdFacts DEF UpdateFacts, DrawsLine, FrameDone
    <3>2. DrawnSoFar'
      <4>1. CASE lcd.vcount + 1 = Lines
        BY <2>3, <2>4, <2>8, <3>1, <4>1, SchedulerAssumption DEF DrawnSoFar
      <4>2. CASE lcd.vcount + 1 # Lines
        BY <2>3, <2>4, <2>5, <2>8, <3>1, <4>2, SchedulerAssumption DEF DrawnSoFar
      <4> QED
        BY <4>1, <4>2
    <3> QED
      BY <2>2, <3>2 DEF LcdInv
  <2> QED
    BY <2>6, <2>7, <2>8
<1>3. CASE NextFrame
  <2>1. /\ lcd' = lcd /\ exec' = exec /\ drawn' = 0 /\ pc = "frame" /\ pc' = "go"
    BY <1>3 DEF NextFrame
  <2>2. lcd.vcount = 0 /\ ~lcd.hblank /\ ~lcd.vblank
    BY <1>0, <2>1, SchedulerAssumption DEF DrawnSoFar, VBlankInStep
  <2> QED
    BY <1>0, <2>1, <2>2 DEF LcdInv, VideoPending, VBlankInStep, DrawnSoFar
<1>4. CASE UNCHANGED vars
  BY <1>0, <1>4 DEF vars, LcdInv, VideoPending, VBlankInStep, DrawnSoFar
<1> QED
  BY <1>1, <1>2, <1>3, <1>4 DEF Next

\* A DMA's sleep is paid by cycles in which the processor did not run.
LEMMA StepSleep == IInv /\ [Next]_vars => NoneGained' /\ SleepInv' /\ SleptInFull'
<1> SUFFICES ASSUME IInv, [Next]_vars PROVE NoneGained' /\ SleepInv' /\ SleptInFull'
  OBVIOUS
<1>0. /\ TypeOK /\ VideoPending /\ VBlankInStep
      /\ NoneGained /\ SleepInv /\ SleptInFull
  BY DEF IInv, LcdInv
<1>t. /\ rem \in Int /\ exec \in Nat /\ spent \in Nat /\ owed \in Nat /\ sleep \in Nat
      /\ halt \in {"ACTIVE", "HALT", "DMA"} /\ fresh \in BOOLEAN /\ pc \in {"go", "ran", "frame"}
  BY <1>0 DEF TypeOK
<1>1. CASE Instruction
  <2>1. /\ halt = "ACTIVE" /\ pc \in {"go", "ran"} /\ pc' \in {"go", "ran"}
        /\ exec' \in Nat /\ exec' <= exec
        /\ rem' \in Int /\ spent' \in Nat /\ spent' + rem' = spent + rem
        /\ sleep' \in Nat /\ owed' \in Nat
    BY <1>0, <1>1, InstructionFacts
  <2>2. \/ UNCHANGED <<halt, sleep, fresh, owed>>
        \/ halt' = "HALT" /\ UNCHANGED <<sleep, fresh, owed>>
        \/ halt' = "DMA" /\ fresh' /\ owed' = sleep' /\ pc' = "ran"
    BY <1>0, <1>1, InstructionFacts
  <2>3. ~fresh /\ owed = 0 /\ exec - rem <= spent
    BY <1>0, <2>1 DEF SleepInv, SleptInFull, NoneGained
  <2>4. exec' - rem' <= spent'
    <3>1. \A e, e1, r, r1, s, s1 \in Int :
            (e1 <= e /\ s1 + r1 = s + r /\ e - r <= s) => e1 - r1 <= s1
      OBVIOUS
    <3>2. /\ exec \in Int /\ exec' \in Int /\ rem \in Int /\ rem' \in Int
          /\ spent \in Int /\ spent' \in Int
      BY <1>t, <2>1
    <3> QED
      BY <2>1, <2>3, <3>1, <3>2
  <2>5. NoneGained'
    BY <2>1, <2>4 DEF NoneGained
  <2>6. SleepInv' /\ SleptInFull'
    BY <1>t, <2>1, <2>2, <2>3 DEF SleepInv, SleptInFull
  <2> QED
    BY <2>5, <2>6
<1>2. CASE Update
  <2>1. UpdateFacts
    BY <1>0, <1>2, UpdateDoes
  <2> DEFINE paid == NonNegative(Completed - spent)
  <2>2. Completed \in Int /\ Completed <= exec - rem /\ (rem >= 0 => Completed = exec - rem)
    BY <1>0, CompletedFacts
  <2>3. paid \in Nat /\ (Completed <= spent => paid = 0) /\ (Completed > spent => paid = Completed - spent)
    BY <1>t, <2>2 DEF NonNegative
  <2>4. owed' = IF owed > paid THEN owed - paid ELSE 0
    BY <1>t, <2>1, <2>3 DEF UpdateFacts, NonNegative
  <2>5. SleepLeft \in Nat
    BY <1>0, SleepLeftFacts
  <2>6. halt = "DMA" => owed' <= SleepLeft
    <3>1. CASE halt = "DMA" /\ fresh
      <4>1. SleepLeft = sleep /\ owed <= sleep
        BY <1>0, <3>1, SleepLeftFacts DEF SleepInv
      <4> QED
        BY <1>t, <2>3, <2>4, <4>1
    <3>2. CASE halt = "DMA" /\ ~fresh
      <4>1. spent = 0 /\ 0 <= rem /\ rem <= exec /\ owed <= sleep
        BY <1>0, <2>1, <3>2 DEF SleepInv, UpdateFacts
      <4>2. Completed >= 0
        BY <1>t, <2>2, <4>1
      <4>3. SleepLeft >= sleep - Completed
        BY <1>0, <3>2, <4>2, SleepLeftFacts
      <4>4. paid = Completed
        BY <1>t, <2>2, <2>3, <4>1, <4>2
      <4> HIDE DEF paid
      <4> QED
        BY <1>t, <2>2, <2>4, <2>5, <4>1, <4>3, <4>4
    <3> QED
      BY <1>t, <3>1, <3>2
  <2>7. halt # "DMA" => owed' = 0
    BY <1>0, <1>t, <2>3, <2>4 DEF SleptInFull
  <2>8. ~fresh' /\ (halt' = "DMA" => halt = "DMA" /\ sleep' = SleepLeft)
    BY <1>0, <1>t, <2>1 DEF UpdateFacts, SleepInv
  <2>9. halt' # "DMA" => owed' = 0
    BY <1>t, <2>1, <2>4, <2>5, <2>6, <2>7, <2>3 DEF UpdateFacts
  <2>10. halt' = "DMA" => owed' <= sleep' /\ spent' = 0 /\ (pc' # "frame" => rem' = 0)
    BY <2>1, <2>6, <2>8 DEF UpdateFacts
  <2>11. NoneGained'
    BY <2>1, <2>8 DEF UpdateFacts, NoneGained
  <2>12. exec' \in Nat
    BY <2>1 DEF UpdateFacts
  <2>13. SleepInv' /\ SleptInFull'
    BY <2>8, <2>9, <2>10, <2>12 DEF SleepInv, SleptInFull
  <2> QED
    BY <2>11, <2>13
<1>3. CASE NextFrame
  <2>1. /\ pc = "frame" /\ pc' = "go" /\ rem' = exec /\ exec' = exec /\ spent' = spent
        /\ UNCHANGED <<halt, sleep, fresh, owed>>
    BY <1>3 DEF NextFrame, sleepVars
  <2>2. ~fresh /\ spent = 0
    BY <1>0, <2>1 DEF SleepInv, NoneGained
  <2> QED
    BY <1>0, <1>t, <2>1, <2>2 DEF NoneGained, SleepInv, SleptInFull
<1>4. CASE UNCHANGED vars
  BY <1>0, <1>4 DEF vars, NoneGained, SleepInv, SleptInFull
<1> QED
  BY <1>1, <1>2, <1>3, <1>4 DEF Next

\* The invariant holds at the start.
LEMMA InvInit == Init => IInv
<1> SUFFICES ASSUME Init PROVE IInv
  OBVIOUS
<1>1. PICK p \in Periods :
        timer = [t \in Timers |-> [mode |-> "off", count |-> p, period |-> p, irq |-> FALSE]]
  BY DEF Init
<1>2. timer \in [Timers -> TimerRec]
  BY <1>1, SchedulerAssumption DEF TimerRec
<1>3. lcd \in LcdRec
  BY SchedulerAssumption DEF Init, LcdRec
<1>4. TypeOK
  <2>1. HDraw \in Nat /\ HDraw \in Int
    BY SchedulerAssumption
  <2> QED
    BY <1>2, <1>3, <2>1 DEF Init, TypeOK
<1>5. LcdInv
  BY SchedulerAssumption DEF Init, LcdInv, VideoPending, VBlankInStep, DrawnSoFar
<1>6. NoneGained /\ SleepInv /\ SleptInFull
  BY SchedulerAssumption DEF Init, NoneGained, SleepInv, SleptInFull
<1> QED
  BY <1>4, <1>5, <1>6 DEF IInv

\* The invariant always holds.
LEMMA InvAlways == Spec => []IInv
<1>1. IInv /\ [Next]_vars => IInv'
  BY StepType, StepLcd, StepSleep DEF IInv
<1> QED
  BY <1>1, InvInit, PTL DEF Spec

--------------------------------------------------------------------------
\* The variables keep their types.
THEOREM TypeCorrect == Spec => []TypeOK
<1>1. IInv => TypeOK
  BY DEF IInv
<1> QED
  BY <1>1, InvAlways, PTL

\* The next LCD event always lies ahead: no overrun swallows an hblank.
THEOREM VideoAlwaysPending == Spec => []VideoPending
<1>1. IInv => VideoPending
  BY DEF IInv, LcdInv
<1> QED
  BY <1>1, InvAlways, PTL

\* DISPSTAT's vblank flag and VCOUNT agree.
THEOREM VBlankAlwaysInStep == Spec => []VBlankInStep
<1>1. IInv => VBlankInStep
  BY DEF IInv, LcdInv
<1> QED
  BY <1>1, InvAlways, PTL

\* Every frame handed over has all its lines.
THEOREM FramesAreWhole == Spec => []FrameWhole
<1>1. IInv => FrameWhole
  BY DEF IInv, LcdInv, DrawnSoFar, FrameWhole
<1> QED
  BY <1>1, InvAlways, PTL

\* A DMA's cycles are slept in full.
THEOREM DmaSleptInFull == Spec => []SleptInFull
<1>1. IInv => SleptInFull
  BY DEF IInv
<1> QED
  BY <1>1, InvAlways, PTL
=============================================================================
