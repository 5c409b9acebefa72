------------------------------- MODULE Scaler -------------------------------
(***************************************************************************)
(* The scaler of the ESP32-S31 display (korvo1_scaler.c): a frame goes to  *)
(* the panel's only frame buffer by the processor, by the pixel            *)
(* accelerator, or strip by strip through two work buffers that an         *)
(* asynchronous DMA empties while the next strip is scaled.  A wait for    *)
(* the DMA may time out and the copy complete later.                       *)
(***************************************************************************)
EXTENDS Integers

CONSTANTS
  Strips,     \* strips of a frame (ESP32S31_GBA_HEIGHT / SRAM_SOURCE_ROWS)
  Rounds,     \* runs of a mode in the benchmark (1 + SCALE_BENCH_ITERATIONS)
  MaxScales   \* bound: frames

ASSUME ScalerAssumption ==
  Strips \in Nat \ {0} /\ Rounds \in Nat \ {0} /\ MaxScales \in Nat

VARIABLES
  requested,  \* ESP32S31_SCALER_MODE
  active_mode, \* the mode frames are scaled with
  gdma, ppa,  \* gdma_ready, ppa_ready
  test,       \* benchmark_pending, and the benchmark: mode tried, runs of it, output right
  passed,     \* the modes the benchmark has found usable
  pc,         \* where the call is
  running,    \* the mode scale_mode runs
  strip,      \* the strip being scaled
  slotAt,     \* the slot being waited for at the end
  good,       \* success so far
  pending, given,    \* of each slot: its flag and its semaphore
  buffer, target,    \* of each slot: the strip it holds, and where its copy goes
  flying,     \* slots whose copy is under way
  output,     \* the frame buffer: the frame and strip in each place
  picture,    \* number of the frame
  told        \* what the last call returned

setup == <<requested, active_mode, gdma, ppa>>
bench == <<test, passed>>
work == <<pending, given, buffer, target, flying>>
scalerVars == <<setup, bench, pc, running, strip, slotAt, good, work, output, picture, told>>

Slots == {0, 1}
Places == 0 .. Strips - 1
SlotOf(s) == s % 2
Modes == {"cpu", "gdma", "ppa"}
Whole(p) == [s \in Places |-> <<p, s>>]

\* esp32s31_korvo1_scaler_init: work buffers, DMA and accelerator may each be refused.
ScalerInit ==
  /\ requested \in Modes \cup {"auto"}
  /\ gdma \in BOOLEAN /\ (gdma => requested \in {"auto", "gdma"})
  /\ ppa \in BOOLEAN /\ (ppa => requested \in {"auto", "ppa"})
  /\ active_mode = IF (requested = "gdma" /\ gdma) \/ (requested = "ppa" /\ ppa)
            THEN requested ELSE "cpu"
  /\ test = [due |-> requested = "auto", trial |-> "none", round |-> 0, clean |-> TRUE]
  /\ passed = {}
  /\ pc = "idle" /\ running = "cpu" /\ strip = 0 /\ slotAt = 0 /\ good = TRUE
  /\ pending = [i \in Slots |-> FALSE] /\ given = [i \in Slots |-> FALSE]
  /\ buffer = [i \in Slots |-> <<0, 0>>] /\ target = [i \in Slots |-> 0] /\ flying = {}
  /\ output = Whole(0) /\ picture = 0 /\ told = FALSE
--------------------------------------------------------------------------
\* esp32s31_korvo1_scaler_scale: the first frame is the benchmark's, if one is due.
Scale ==
  /\ pc = "idle" /\ picture < MaxScales
  /\ picture' = picture + 1 /\ told' = FALSE
  /\ pc' = "begin"
  /\ IF test.due THEN /\ test' = [test EXCEPT !.trial = "cpu", !.round = 0]
                      /\ running' = "cpu"
     ELSE running' = active_mode /\ UNCHANGED test
  /\ UNCHANGED <<setup, passed, strip, slotAt, good, work, output>>

ScaleCpu ==
  /\ pc = "begin" /\ running = "cpu"
  /\ output' = Whole(picture) /\ good' = TRUE /\ pc' = "end"
  /\ UNCHANGED <<setup, bench, running, strip, slotAt, work, picture, told>>

\* The accelerator blocks until it is done; an error may leave the frame half written.
ScalePpa ==
  /\ pc = "begin" /\ running = "ppa" /\ pc' = "end"
  /\ \/ ppa /\ output' = Whole(picture) /\ good' = TRUE
     \/ /\ ppa /\ good' = FALSE
        /\ \E n \in Places :
             output' = [s \in Places |-> IF s < n THEN <<picture, s>> ELSE output[s]]
     \/ ~ppa /\ good' = FALSE /\ UNCHANGED output
  /\ UNCHANGED <<setup, bench, running, strip, slotAt, work, picture, told>>

ScaleGdma ==
  /\ pc = "begin" /\ running = "gdma"
  /\ good' = gdma /\ strip' = 0 /\ pc' = IF gdma THEN "claim" ELSE "end"
  /\ UNCHANGED <<setup, bench, running, slotAt, work, output, picture, told>>

\* Mutant: a wait that times out leaves the slot to the next strip.
TimeOutForgets(i) ==
  /\ pending[i] /\ ~given[i]
  /\ pending' = [pending EXCEPT ![i] = FALSE] /\ UNCHANGED given
\* wait_sram_slot: at once for a free slot, else until the semaphore is given, or until
\* SCALE_TIMEOUT_MS are over: the slot stays pending then.
Take(i) ==
  /\ pending[i] => given[i]
  /\ pending' = [pending EXCEPT ![i] = FALSE]
  /\ given' = [given EXCEPT ![i] = IF pending[i] THEN FALSE ELSE @]
TimeOut(i) ==
  /\ pending[i] /\ ~given[i]
  /\ UNCHANGED <<pending, given>>

Claim ==
  /\ pc = "claim"
  /\ \/ Take(SlotOf(strip)) /\ pc' = "fill" /\ UNCHANGED <<good, slotAt>>
     \/ TimeOut(SlotOf(strip)) /\ pc' = "drain" /\ good' = FALSE /\ slotAt' = 0
  /\ UNCHANGED <<setup, bench, running, strip, buffer, target, flying, output, picture, told>>

Fill ==
  /\ pc = "fill" /\ pc' = "queue"
  /\ buffer' = [buffer EXCEPT ![SlotOf(strip)] = <<picture, strip>>]
  /\ UNCHANGED <<setup, bench, running, strip, slotAt, good, pending, given, target, flying,
                 output, picture, told>>

\* esp_async_memcpy accepts the copy, or not.
Queue ==
  /\ pc = "queue"
  /\ \/ /\ flying' = flying \cup {SlotOf(strip)} /\ pc' = "mark"
        /\ target' = [target EXCEPT ![SlotOf(strip)] = strip]
        /\ UNCHANGED <<good, slotAt>>
     \/ good' = FALSE /\ pc' = "drain" /\ slotAt' = 0 /\ UNCHANGED <<flying, target>>
  /\ UNCHANGED <<setup, bench, running, strip, pending, given, buffer, output, picture, told>>

\* The flag is set after the copy was queued, which may be over by then.
Mark ==
  /\ pc = "mark"
  /\ pending' = [pending EXCEPT ![SlotOf(strip)] = TRUE]
  /\ strip' = strip + 1 /\ slotAt' = 0
  /\ pc' = IF strip + 1 = Strips THEN "drain" ELSE "claim"
  /\ UNCHANGED <<setup, bench, running, good, given, buffer, target, flying, output, picture,
                 told>>

\* Both slots are waited for, also after a failure.
Drain ==
  /\ pc = "drain"
  /\ \/ Take(slotAt) /\ UNCHANGED good
     \/ TimeOut(slotAt) /\ good' = FALSE
  /\ IF slotAt = 1 THEN pc' = "end" /\ UNCHANGED slotAt ELSE slotAt' = 1 /\ UNCHANGED pc
  /\ UNCHANGED <<setup, bench, running, strip, buffer, target, flying, output, picture, told>>

\* sram_copy_done, in an interrupt at any moment.
CopyDone ==
  \E i \in flying :
    /\ output' = [output EXCEPT ![target[i]] = buffer[i]]
    /\ flying' = flying \ {i}
    /\ given' = [given EXCEPT ![i] = TRUE]
    /\ UNCHANGED <<setup, bench, pc, running, strip, slotAt, good, pending, buffer, target,
                   picture, told>>

Return ==
  /\ pc = "end" /\ test.trial = "none"
  /\ told' = good /\ pc' = "idle"
  /\ UNCHANGED <<setup, bench, running, strip, slotAt, good, work, output, picture>>

\* benchmark_mode: the output of the first run is compared with the input; a mode that
\* fails a run, or did not match, is out.
NextTrial == CASE test.trial = "cpu" -> "gdma" [] test.trial = "gdma" -> "ppa" [] OTHER -> "none"

Judge ==
  /\ pc = "end" /\ test.trial # "none"
  /\ LET clean == IF test.round = 0 THEN output = Whole(picture) ELSE test.clean
         over == ~good \/ test.round + 1 = Rounds
     IN /\ test' = [test EXCEPT !.clean = clean, !.round = IF over THEN 0 ELSE @ + 1,
                                !.trial = IF over THEN NextTrial ELSE @]
        /\ passed' = IF over /\ good /\ clean THEN passed \cup {test.trial} ELSE passed
        /\ running' = IF over THEN NextTrial ELSE running
        /\ pc' = IF over /\ test.trial = "ppa" THEN "choose" ELSE "begin"
  /\ UNCHANGED <<setup, strip, slotAt, good, work, output, picture, told>>

\* benchmark_and_select: the fastest of them, whichever that is; the means of the others
\* are given up, and the frame is scaled once more.
Choose ==
  /\ pc = "choose"
  /\ active_mode' \in (IF passed = {} THEN {"cpu"} ELSE passed)
  /\ test' = [test EXCEPT !.due = FALSE]
  /\ ppa' = (ppa /\ active_mode' = "ppa")
  /\ running' = active_mode' /\ slotAt' = 0
  /\ pc' = IF active_mode' = "gdma" THEN "begin" ELSE "release"
  /\ UNCHANGED <<requested, gdma, passed, strip, good, work, output, picture, told>>

\* deinit_sram_gdma waits for the copies, but goes on without them: what is still under
\* way is cut off when the driver is uninstalled, before the buffers are freed.
Release ==
  /\ pc = "release"
  /\ IF slotAt = 0
     THEN /\ Take(0) \/ TimeOut(0)
          /\ slotAt' = 1 /\ UNCHANGED <<pc, gdma, flying>>
     ELSE /\ pending' = [i \in Slots |-> FALSE] /\ given' = [i \in Slots |-> FALSE]
          /\ flying' = {} /\ gdma' = FALSE /\ slotAt' = 0 /\ pc' = "begin"
  /\ UNCHANGED <<requested, active_mode, ppa, bench, running, strip, good, buffer, target, output,
                 picture, told>>

ScalerNext ==
  \/ Scale \/ ScaleCpu \/ ScalePpa \/ ScaleGdma
  \/ Claim \/ Fill \/ Queue \/ Mark \/ Drain \/ CopyDone
  \/ Return \/ Judge \/ Choose \/ Release

ScalerSpec == ScalerInit /\ [][ScalerNext]_scalerVars
--------------------------------------------------------------------------
(* Properties *)

\* The variables keep their types.
ScalerTypeOK ==
  /\ requested \in Modes \cup {"auto"} /\ active_mode \in Modes
  /\ gdma \in BOOLEAN /\ ppa \in BOOLEAN
  /\ test \in [due : BOOLEAN, trial : Modes \cup {"none"}, round : 0 .. Rounds - 1,
               clean : BOOLEAN]
  /\ passed \subseteq Modes
  /\ pc \in {"idle", "begin", "claim", "fill", "queue", "mark", "drain", "end", "choose",
             "release"}
  /\ running \in Modes \cup {"none"} /\ strip \in 0 .. Strips /\ slotAt \in Slots
  /\ good \in BOOLEAN /\ told \in BOOLEAN
  /\ pending \in [Slots -> BOOLEAN] /\ given \in [Slots -> BOOLEAN]
  /\ buffer \in [Slots -> Nat \X Nat] /\ target \in [Slots -> Places]
  /\ flying \subseteq Slots
  /\ output \in [Places -> Nat \X Nat] /\ picture \in 0 .. MaxScales

\* A frame reported as shown is in the frame buffer whole: no strip of an earlier frame
\* whose copy came late, none of a work buffer refilled too soon, none missing.
ShownWhole == told /\ pc = "idle" => output = Whole(picture)
=============================================================================
