----------------------------- MODULE LcdBounce -----------------------------
(* The display path of src/esp32s31/korvo1_lcd.c in bounce mode.  The         *)
(* emulator draws a frame into a render buffer and copies it to the only      *)
(* snapshot; the interrupt that fills the panel's bounce buffers reads one of *)
(* the two, a strip of rows at a time, and lays the FPS figure over it.       *)
(*                                                                            *)
(* The firmware runs on one core (CONFIG_FREERTOS_UNICORE), so an interrupt   *)
(* is a single step that comes between any two of the task's.                 *)
EXTENDS Integers, FiniteSets

CONSTANTS
  Height,    \* rows of a frame                                        (160)
  StripRows, \* LCD_BOUNCE_SOURCE_ROWS                                 (10)
  MaxFrames  \* bound: frames drawn

ASSUME LcdAssumption ==
  /\ Height \in Nat \ {0} /\ StripRows \in Nat \ {0}
  /\ \E k \in 1 .. Height : Height = k * StripRows
  /\ MaxFrames \in Nat

VARIABLES
  task,     \* what the emulator's task does next
  row,      \* the row it is at
  frame,    \* number of the frame it draws
  render,   \* render_buffer: the frame each row is of
  snapshot, \* snapshot_buffer, likewise
  copying,  \* snapshot_copying
  osd,      \* fps_osd: whether each is fully prepared
  current,  \* fps_osd_index
  valid,    \* fps_valid
  position, \* the first row of the strip that is filled next
  shown     \* the last strip: the frames of its rows, its overlay

taskVars == <<task, row, frame>>
overlay == <<osd, current, valid>>
panel == <<position, shown>>
lcdVars == <<taskVars, render, snapshot, copying, overlay, panel>>

Rows == 0 .. (Height - 1)
StripAt(first) == first .. (first + StripRows - 1)

LcdInit ==
  /\ task = "draw" /\ row = 0 /\ frame = 1
  /\ render = [r \in Rows |-> 0] /\ snapshot = [r \in Rows |-> 0]
  /\ copying = FALSE
  /\ osd = [i \in {0, 1} |-> FALSE] /\ current = 0 /\ valid = FALSE
  /\ position = 0 /\ shown = [frames |-> {0}, whole |-> TRUE]

--------------------------------------------------------------------------
(* The emulator's task *)

\* The renderer ends a row; the frame is handed to video_cb after the last.
Draw ==
  /\ task = "draw" /\ frame <= MaxFrames
  /\ render' = [render EXCEPT ![row] = frame]
  /\ IF row = Height - 1 THEN task' = "fps" /\ row' = 0
                         ELSE row' = row + 1 /\ UNCHANGED task
  /\ UNCHANGED <<frame, snapshot, copying, overlay, panel>>

\* update_fps: the frame does not end a window of FPS_WINDOW_US.
KeepFps ==
  /\ task = "fps"
  /\ task' = "present"
  /\ UNCHANGED <<row, frame, render, snapshot, copying, overlay, panel>>

\* Mutant: the overlay that is shown is rewritten.
Shown == current
Other == 1 - current

\* esp32s31_korvo1_lcd_set_fps_x10, one step per write the interrupt can see.
ClearOsd ==
  /\ task = "fps"
  /\ osd' = [osd EXCEPT ![Other] = FALSE]
  /\ task' = "prepare"
  /\ UNCHANGED <<row, frame, render, snapshot, copying, current, valid, panel>>

PrepareOsd ==
  /\ task = "prepare"
  /\ osd' = [osd EXCEPT ![Other] = TRUE]
  /\ task' = "publish"
  /\ UNCHANGED <<row, frame, render, snapshot, copying, current, valid, panel>>

PublishOsd ==
  /\ task = "publish"
  /\ current' = Other
  /\ task' = "validate"
  /\ UNCHANGED <<row, frame, render, snapshot, copying, osd, valid, panel>>

ValidateOsd ==
  /\ task = "validate"
  /\ valid' = TRUE
  /\ task' = "present"
  /\ UNCHANGED <<row, frame, render, snapshot, copying, osd, current, panel>>

\* Mutant: the interrupt is not told of the copy.
NotTold == FALSE
Told == TRUE

\* esp32s31_korvo1_lcd_present_rgb565
BeginCopy ==
  /\ task = "present"
  /\ copying' = Told
  /\ task' = "copy" /\ row' = 0
  /\ UNCHANGED <<frame, render, snapshot, overlay, panel>>

\* Mutant: the frame is handed over and not kept.
CopyNothing ==
  /\ task = "copy"
  /\ task' = "release" /\ row' = 0
  /\ UNCHANGED <<frame, render, snapshot, copying, overlay, panel>>

CopyRow ==
  /\ task = "copy"
  /\ snapshot' = [snapshot EXCEPT ![row] = render[row]]
  /\ IF row = Height - 1 THEN task' = "release" /\ row' = 0
                         ELSE row' = row + 1 /\ UNCHANGED task
  /\ UNCHANGED <<frame, render, copying, overlay, panel>>

EndCopy ==
  /\ task = "release"
  /\ copying' = FALSE
  /\ task' = "draw" /\ row' = 0 /\ frame' = frame + 1
  /\ UNCHANGED <<render, snapshot, overlay, panel>>

Emulator ==
  \/ Draw \/ KeepFps \/ ClearOsd \/ PrepareOsd \/ PublishOsd \/ ValidateOsd
  \/ BeginCopy \/ CopyRow \/ EndCopy

--------------------------------------------------------------------------
(* lcd_on_bounce_empty *)

\* Mutant: the scan does not start again at the top.
PlusStrip(first) == first + StripRows
NextStrip(first) == (first + StripRows) % Height

Source == IF copying THEN render ELSE snapshot

FillStrip ==
  /\ shown' = [frames |-> {Source[r] : r \in StripAt(position)},
               whole |-> ~valid \/ osd[current]]
  /\ position' = NextStrip(position)
  /\ UNCHANGED <<taskVars, render, snapshot, copying, overlay>>

LcdNext == Emulator \/ FillStrip
LcdSpec == LcdInit /\ [][LcdNext]_lcdVars

--------------------------------------------------------------------------
(* Properties *)

\* The variables keep their types; a strip starts at a multiple of its rows.
LcdTypeOK ==
  /\ task \in {"draw", "fps", "prepare", "publish", "validate", "present", "copy", "release"}
  /\ row \in Rows /\ frame \in Nat \ {0}
  /\ render \in [Rows -> Nat] /\ snapshot \in [Rows -> Nat]
  /\ copying \in BOOLEAN
  /\ osd \in [{0, 1} -> BOOLEAN] /\ current \in {0, 1} /\ valid \in BOOLEAN
  /\ position \in Rows /\ StripAt(position) \subseteq Rows
  /\ shown \in [frames : SUBSET Nat, whole : BOOLEAN]

\* "The ISR never samples a half-written snapshot": all rows of a strip are of
\* one frame, and a finished one, at whatever step the interrupt comes.
StripsWhole ==
  \E f \in 0 .. frame : shown.frames = {f} /\ (f = frame => task # "draw")

\* The FPS figure in a strip is never half prepared, although the two overlays
\* are rewritten in turn while strips are filled.
OverlayWhole == shown.whole

\* From one strip to the next the display stays with a frame or goes to a later
\* one; it never returns to an older, which the choice of the source could do.
NeverBackward ==
  [][\A f \in shown.frames, g \in shown'.frames : f <= g]_lcdVars
=============================================================================
