---------------------------- MODULE DisplayProofs ----------------------------
(* The display of the ESP32-S31.  Of its panel (LcdBounce), for frames and    *)
(* strips of any size: a strip is of one finished frame, its figure is whole, *)
(* and the display never goes back.  Of its scaler (Scaler), for any number   *)
(* of strips and frames and however late the copies come: what is reported as *)
(* shown is shown whole.                                                      *)
EXTENDS LcdBounce, Scaler, TLAPS

(* A buffer holds one frame; what the interrupt would show now.               *)
Holds(rows, f) == \A r \in Rows : rows[r] = f
Displayed == IF task \in {"copy", "release"} THEN frame ELSE frame - 1

Drawn == {"fps", "prepare", "publish", "validate", "present"}

VarTypes ==
  /\ task \in Drawn \cup {"draw", "copy", "release"}
  /\ row \in Rows /\ frame \in Nat \ {0}
  /\ render \in [Rows -> Nat] /\ snapshot \in [Rows -> Nat]
  /\ copying \in BOOLEAN
  /\ osd \in [{0, 1} -> BOOLEAN] /\ current \in {0, 1} /\ valid \in BOOLEAN

(* What the buffers hold at every step of the task.                           *)
Buffers ==
  /\ copying <=> task \in {"copy", "release"}
  /\ task \notin {"copy", "release"} => Holds(snapshot, frame - 1)
  /\ task # "draw" => Holds(render, frame)
  /\ task = "draw" => \A r \in Rows : r < row => render[r] = frame
  /\ task = "copy" => \A r \in Rows : r < row => snapshot[r] = frame
  /\ task = "release" => Holds(snapshot, frame)

Overlays ==
  /\ valid => osd[current]
  /\ task = "publish" => osd[1 - current]
  /\ task = "validate" => osd[current]

Aligned == \E j \in Nat : position = j * StripRows /\ position < Height

LastStrip ==
  /\ shown.whole \in BOOLEAN
  /\ shown = [frames |-> shown.frames, whole |-> shown.whole]
  /\ \E f \in Nat : shown.frames = {f} /\ f <= Displayed

Ind == VarTypes /\ Buffers /\ Overlays /\ Aligned /\ LastStrip /\ shown.whole

USE LcdAssumption

--------------------------------------------------------------------------
(* A strip that starts at a multiple of its rows ends inside the frame, for   *)
(* the rows of a frame are a whole number of strips.                          *)
LEMMA Multiples ==
  ASSUME NEW s \in Nat \ {0}, NEW j \in Nat, NEW k \in Nat, j * s < k * s
  PROVE  j * s + s <= k * s
<1>1. j < k
  <2>1. SUFFICES ASSUME k <= j PROVE k * s <= j * s
    OBVIOUS
  <2>2. PICK d \in Nat : j = k + d
    <3>1. j - k \in Nat /\ j = k + (j - k)
      BY <2>1
    <3> QED BY <3>1
  <2>3. j * s = k * s + d * s /\ d * s \in Nat
    BY <2>2
  <2> QED BY <2>3
<1>2. PICK d \in Nat : k = j + 1 + d
  <2>1. k - j - 1 \in Nat /\ k = j + 1 + (k - j - 1)
    BY <1>1
  <2> QED BY <2>1
<1>3. k * s = j * s + s + d * s /\ d * s \in Nat
  BY <1>2
<1> QED BY <1>3

\* A strip lies in the frame, and the next one begins where it ends.
LEMMA StripInFrame ==
  ASSUME NEW p \in Nat, NEW j \in Nat, p = j * StripRows, p < Height
  PROVE  /\ StripAt(p) \subseteq Rows
         /\ StripAt(p) # {}
         /\ \E i \in Nat : (p + StripRows) % Height = i * StripRows
         /\ (p + StripRows) % Height \in Nat
         /\ (p + StripRows) % Height < Height
<1>1. PICK k \in Nat : Height = k * StripRows
  OBVIOUS
<1>2. p + StripRows <= Height
  BY <1>1, Multiples
<1>3. p \in StripAt(p) /\ StripAt(p) \subseteq Rows
  BY <1>2 DEF StripAt, Rows
<1>4. CASE p + StripRows = Height
  <2>1. (p + StripRows) % Height = 0
    BY <1>4
  <2>2. 0 = 0 * StripRows
    OBVIOUS
  <2> QED BY <1>3, <2>1, <2>2
<1>5. CASE p + StripRows < Height
  <2>1. (p + StripRows) % Height = p + StripRows
    BY <1>5
  <2>2. j * StripRows + StripRows = (j + 1) * StripRows
    OBVIOUS
  <2>3. j + 1 \in Nat /\ p + StripRows \in Nat
    OBVIOUS
  <2>4. \E i \in Nat : (p + StripRows) % Height = i * StripRows
    BY <2>1, <2>2, <2>3
  <2> QED BY <1>3, <1>5, <2>1, <2>3, <2>4
<1> QED BY <1>2, <1>4, <1>5

--------------------------------------------------------------------------
(* The invariant                                                              *)

\* Before the first frame the invariant holds.
LEMMA Start == LcdInit => Ind
<1> SUFFICES ASSUME LcdInit PROVE Ind
  OBVIOUS
<1> USE DEF LcdInit
<1>1. VarTypes
  <2>1. 0 \in Rows
    BY DEF Rows
  <2>2. copying \in BOOLEAN /\ valid \in BOOLEAN
    BY Zenon
  <2> QED BY <2>1, <2>2 DEF VarTypes
<1>2. Buffers
  BY DEF Buffers, Holds, Rows
<1>3. Overlays
  BY DEF Overlays
<1>4. Aligned
  BY DEF Aligned
<1>5. LastStrip /\ shown.whole
  BY DEF LastStrip, Displayed
<1> QED BY <1>1, <1>2, <1>3, <1>4, <1>5 DEF Ind

(* The task leaves the panel alone, and what the interrupt would show never   *)
(* becomes older.                                                             *)
LEMMA Later ==
  ASSUME VarTypes, Emulator
  PROVE  Displayed <= Displayed' /\ Displayed' \in Nat /\ UNCHANGED panel
BY DEF VarTypes, Drawn, Emulator, Displayed, Draw, KeepFps, ClearOsd, PrepareOsd, PublishOsd,
       ValidateOsd, BeginCopy, CopyRow, EndCopy, panel, taskVars

\* A step of the emulator's task keeps it.
LEMMA TaskKeeps ==
  ASSUME Ind, Emulator
  PROVE  Ind'
<1> USE DEF Ind
<1>1. Aligned' /\ LastStrip' /\ shown'.whole
  <2>1. UNCHANGED <<position, shown>> /\ Displayed <= Displayed' /\ Displayed' \in Nat
    BY Later DEF panel
  <2>2. Aligned'
    BY <2>1 DEF Aligned
  <2>3. Displayed \in Int
    BY DEF Displayed, VarTypes
  <2>4. PICK f \in Nat : shown.frames = {f} /\ f <= Displayed
    BY DEF LastStrip
  <2>5. f <= Displayed'
    BY <2>1, <2>3, <2>4
  <2> QED BY <2>1, <2>2, <2>4, <2>5 DEF LastStrip
<1>2. CASE Draw
  <2>1. VarTypes'
    <3>1. render' \in [Rows -> Nat]
      BY <1>2 DEF Draw, VarTypes
    <3>2. task' \in {"draw", "fps"} /\ row' \in Rows
      BY <1>2, 0 \in Rows, SMTT(30) DEF Draw, VarTypes, Rows
    <3>3. UNCHANGED <<frame, snapshot, copying, osd, current, valid>>
      BY <1>2 DEF Draw, overlay
    <3> QED BY <3>1, <3>2, <3>3 DEF VarTypes, Drawn
  <2>2. Buffers'
    BY <1>2 DEF Draw, Buffers, VarTypes, Drawn, Holds, Rows
  <2>3. Overlays'
    BY <1>2 DEF Draw, Overlays, overlay
  <2> QED BY <1>1, <2>1, <2>2, <2>3
<1>3. CASE KeepFps
  <2>1. VarTypes' /\ Buffers'
    BY <1>3 DEF KeepFps, VarTypes, Drawn, Buffers, Holds, overlay
  <2>2. Overlays'
    BY <1>3 DEF KeepFps, Overlays, overlay
  <2> QED BY <1>1, <2>1, <2>2
<1>4. CASE ClearOsd
  <2>1. VarTypes' /\ Buffers'
    BY <1>4 DEF ClearOsd, VarTypes, Drawn, Buffers, Holds, Other
  <2>2. Overlays'
    BY <1>4 DEF ClearOsd, Overlays, VarTypes, Other
  <2> QED BY <1>1, <2>1, <2>2
<1>5. CASE PrepareOsd
  <2>1. VarTypes' /\ Buffers'
    BY <1>5 DEF PrepareOsd, VarTypes, Drawn, Buffers, Holds, Other
  <2>2. Overlays'
    BY <1>5 DEF PrepareOsd, Overlays, VarTypes, Other
  <2> QED BY <1>1, <2>1, <2>2
<1>6. CASE PublishOsd
  <2>1. VarTypes' /\ Buffers'
    BY <1>6 DEF PublishOsd, VarTypes, Drawn, Buffers, Holds, Other
  <2>2. Overlays'
    BY <1>6 DEF PublishOsd, Overlays, VarTypes, Other
  <2> QED BY <1>1, <2>1, <2>2
<1>7. CASE ValidateOsd
  <2>1. VarTypes' /\ Buffers'
    BY <1>7 DEF ValidateOsd, VarTypes, Drawn, Buffers, Holds
  <2>2. Overlays'
    BY <1>7 DEF ValidateOsd, Overlays
  <2> QED BY <1>1, <2>1, <2>2
<1>8. CASE BeginCopy
  <2>1. VarTypes'
    <3>1. task' = "copy" /\ row' \in Rows
      BY <1>8 DEF BeginCopy, Rows
    <3>2. copying' = TRUE /\ UNCHANGED <<frame, render, snapshot, osd, current, valid>>
      BY <1>8 DEF BeginCopy, Told, overlay
    <3> QED BY <3>1, <3>2 DEF VarTypes
  <2>2. Buffers'
    BY <1>8 DEF BeginCopy, Buffers, Drawn, Holds, Told, Rows
  <2>3. Overlays'
    BY <1>8 DEF BeginCopy, Overlays, overlay
  <2> QED BY <1>1, <2>1, <2>2, <2>3
<1>9. CASE CopyRow
  <2>1. VarTypes'
    <3>1. snapshot' \in [Rows -> Nat] /\ task' \in {"copy", "release"} /\ row' \in Rows
      BY <1>9, SMTT(30) DEF CopyRow, VarTypes, Rows
    <3>2. UNCHANGED <<frame, render, copying, osd, current, valid>>
      BY <1>9 DEF CopyRow, overlay
    <3> QED BY <3>1, <3>2 DEF VarTypes
  <2>2. Buffers'
    BY <1>9 DEF CopyRow, Buffers, VarTypes, Holds, Rows
  <2>3. Overlays'
    BY <1>9 DEF CopyRow, Overlays, overlay
  <2> QED BY <1>1, <2>1, <2>2, <2>3
<1>10. CASE EndCopy
  <2>1. VarTypes'
    <3>1. task' = "draw" /\ row' \in Rows /\ frame' \in Nat \ {0}
      BY <1>10 DEF EndCopy, VarTypes, Rows
    <3>2. copying' = FALSE /\ UNCHANGED <<render, snapshot, osd, current, valid>>
      BY <1>10 DEF EndCopy, overlay
    <3> QED BY <3>1, <3>2 DEF VarTypes
  <2>2. Buffers'
    BY <1>10 DEF EndCopy, Buffers, VarTypes, Holds, Rows
  <2>3. Overlays'
    BY <1>10 DEF EndCopy, Overlays, overlay
  <2> QED BY <1>1, <2>1, <2>2, <2>3
<1> QED BY <1>2, <1>3, <1>4, <1>5, <1>6, <1>7, <1>8, <1>9, <1>10 DEF Emulator

(* The interrupt reads the buffer that holds the frame to be displayed.       *)
LEMMA SourceHolds ==
  ASSUME Ind
  PROVE  Displayed \in Nat /\ Holds(Source, Displayed)
BY DEF Ind, VarTypes, Buffers, Displayed, Source, Holds, Drawn

\* A strip is shown whole and of the frame displayed, and leaves the task alone.
LEMMA StripShown ==
  ASSUME Ind, FillStrip
  PROVE  /\ shown' = [frames |-> {Displayed}, whole |-> TRUE]
         /\ Aligned'
         /\ UNCHANGED <<taskVars, render, snapshot, copying, overlay>>
<1>1. PICK j \in Nat : position = j * StripRows /\ position < Height
  BY DEF Ind, Aligned
<1>2. position \in Nat
  BY <1>1
<1>3. /\ StripAt(position) \subseteq Rows /\ StripAt(position) # {}
      /\ Aligned'
  BY <1>1, <1>2, StripInFrame DEF FillStrip, NextStrip, Aligned
<1>4. {Source[r] : r \in StripAt(position)} = {Displayed}
  BY <1>3, SourceHolds DEF Holds
<1>5. (~valid \/ osd[current]) = TRUE
  BY DEF Ind, Overlays, VarTypes
<1> QED BY <1>3, <1>4, <1>5 DEF FillStrip

\* A strip filled for the panel keeps the invariant.
LEMMA PanelKeeps ==
  ASSUME Ind, FillStrip
  PROVE  Ind'
<1>1. /\ shown' = [frames |-> {Displayed}, whole |-> TRUE]
      /\ Aligned'
      /\ UNCHANGED <<taskVars, render, snapshot, copying, overlay>>
  BY StripShown
<1>2. VarTypes' /\ Buffers' /\ Overlays' /\ Displayed' = Displayed
  BY <1>1 DEF Ind, VarTypes, Buffers, Holds, Overlays, Displayed, taskVars, overlay
<1>3. LastStrip' /\ shown'.whole
  BY <1>1, <1>2, SourceHolds DEF LastStrip
<1> QED BY <1>1, <1>2, <1>3 DEF Ind

\* Every step keeps it.
LEMMA Kept == Ind /\ [LcdNext]_lcdVars => Ind'
<1> SUFFICES ASSUME Ind, [LcdNext]_lcdVars PROVE Ind'
  OBVIOUS
<1>1. CASE Emulator
  BY <1>1, TaskKeeps
<1>2. CASE FillStrip
  BY <1>2, PanelKeeps
<1>3. CASE UNCHANGED lcdVars
  BY <1>3 DEF Ind, VarTypes, Buffers, Holds, Overlays, Aligned, LastStrip, Displayed,
     lcdVars, taskVars, overlay, panel
<1> QED BY <1>1, <1>2, <1>3 DEF LcdNext

THEOREM Invariant == LcdSpec => []Ind
BY Start, Kept, PTL DEF LcdSpec

--------------------------------------------------------------------------
(* The theorems                                                               *)

\* It contains the types.
LEMMA Typed == Ind => LcdTypeOK
<1> SUFFICES ASSUME Ind PROVE LcdTypeOK
  OBVIOUS
<1>1. PICK j \in Nat : position = j * StripRows /\ position < Height
  BY DEF Ind, Aligned
<1>2. position \in Rows /\ StripAt(position) \subseteq Rows
  BY <1>1, StripInFrame DEF Rows
<1>3. shown.frames \in SUBSET Nat
  BY DEF Ind, LastStrip
<1>4. shown \in [frames : SUBSET Nat, whole : BOOLEAN]
  BY <1>3 DEF Ind, LastStrip
<1> QED BY <1>2, <1>4 DEF Ind, VarTypes, Drawn, LcdTypeOK

(* The variables keep their types, and no strip runs over the last row.       *)
THEOREM PanelTyped == LcdSpec => []LcdTypeOK
BY Invariant, Typed, PTL

(* Wherever the interrupt comes between the steps of the emulator's task, the *)
(* rows of its strip are all of one frame, and of a finished one.             *)
THEOREM WholeStrips == LcdSpec => []StripsWhole
<1>1. Ind => StripsWhole
  <2> SUFFICES ASSUME Ind PROVE StripsWhole
    OBVIOUS
  <2>1. PICK f \in Nat : shown.frames = {f} /\ f <= Displayed
    BY DEF Ind, LastStrip
  <2>2. f \in 0 .. frame /\ (f = frame => task # "draw")
    BY <2>1 DEF Displayed, Ind, VarTypes
  <2> QED BY <2>1, <2>2 DEF StripsWhole
<1> QED BY <1>1, Invariant, PTL

(* The figure laid over a strip is wholly prepared.                           *)
THEOREM WholeOverlay == LcdSpec => []OverlayWhole
<1>1. Ind => OverlayWhole
  BY DEF Ind, OverlayWhole
<1> QED BY <1>1, Invariant, PTL

(* What is displayed never goes back to an older frame.                       *)
THEOREM Forward == LcdSpec => NeverBackward
<1>1. ASSUME Ind, [LcdNext]_lcdVars
      PROVE  \A f \in shown.frames, g \in shown'.frames : f <= g
  <2>1. PICK f \in Nat : shown.frames = {f} /\ f <= Displayed
    BY <1>1 DEF Ind, LastStrip
  <2>2. CASE FillStrip
    BY <1>1, <2>1, <2>2, StripShown
  <2>3. CASE Emulator \/ UNCHANGED lcdVars
    <3>1. shown' = shown
      BY <1>1, <2>3, Later DEF Ind, panel, lcdVars
    <3> QED BY <2>1, <3>1
  <2> QED BY <1>1, <2>2, <2>3 DEF LcdNext
<1>2. Ind /\ [LcdNext]_lcdVars => [\A f \in shown.frames, g \in shown'.frames : f <= g]_lcdVars
  BY <1>1
<1> QED BY <1>2, Invariant, PTL DEF LcdSpec, NeverBackward
-----------------------------------------------------------------------------

\* The copy of every slot under way carries a strip of the present picture to its place.
Fresh == \A i \in flying : buffer[i] = <<picture, target[i]>>
Right == output = Whole(picture) /\ Fresh

Claimed == pc \in {"fill", "queue", "mark"}
AtMark(i) == pc = "mark" /\ i = SlotOf(strip)

\* A slot is pending from its copy until the semaphore was taken, except for a moment.
Accounted ==
  /\ \A i \in flying : ~given[i]
  /\ \A i \in flying : pending[i] \/ AtMark(i)
  /\ \A i \in Slots : given[i] => pending[i] \/ AtMark(i)
  /\ Claimed => ~pending[SlotOf(strip)]

\* A strip always goes through the same slot: a late copy cannot overtake a newer one.
OwnSlot == \A i \in flying : SlotOf(target[i]) = i

\* The strips queued so far: each is in its place or under way, and nothing else is
\* under way to them.
SentTo == IF pc = "mark" THEN strip + 1 ELSE strip
OnItsWay(s) ==
  SlotOf(s) \in flying /\ target[SlotOf(s)] = s /\ buffer[SlotOf(s)] = <<picture, s>>
InRun == pc \in {"claim", "fill", "queue", "mark", "drain"}
RunRight ==
  InRun /\ good =>
    /\ \A s \in Places : s < SentTo => output[s] = <<picture, s>> \/ OnItsWay(s)
    /\ \A i \in flying : target[i] < SentTo => buffer[i] = <<picture, target[i]>>
RunShape ==
  /\ pc \in {"claim", "fill", "queue", "mark"} => good /\ strip < Strips
  /\ pc = "queue" \/ pc = "mark" => buffer[SlotOf(strip)] = <<picture, strip>>
  /\ pc = "drain" /\ good => strip = Strips /\ (slotAt = 1 => ~pending[0])

Settled ==
  /\ pc = "end" /\ good => Right
  /\ pc = "idle" /\ told => Right

\* Copies are under way only in DMA mode, and in the benchmark, which has one picture.
Confined ==
  /\ ~gdma => flying = {}
  /\ ~test.due /\ active_mode # "gdma" /\ pc # "release" => ~gdma
  /\ test.due /\ pc = "idle" => flying = {}
  /\ test.due /\ test.trial = "none" => pc \in {"idle", "choose"}
  /\ test.due => Fresh
  /\ pc = "begin" /\ running # "gdma" => Fresh
  /\ ~test.due => test.trial = "none"
  /\ InRun => gdma
  /\ pc = "choose" => test.due /\ test.trial = "none"
  /\ pc = "release" => ~test.due

IInv == ScalerTypeOK /\ Accounted /\ OwnSlot /\ RunRight /\ RunShape /\ Settled /\ Confined
--------------------------------------------------------------------------
\* Every strip has a slot.
LEMMA SlotOfType == \A s \in Nat : SlotOf(s) \in Slots
BY DEF SlotOf, Slots

\* The strips of a frame are numbers.
LEMMA PlacesNat == Places \subseteq Nat /\ Strips \in Nat
BY ScalerAssumption DEF Places

\* A whole picture has the frame buffer's type.
LEMMA WholeType == \A p \in Nat : Whole(p) \in [Places -> Nat \X Nat]
BY PlacesNat DEF Whole

\* A run of the benchmark that is not the last has a next.
LEMMA RoundType == \A r \in 0 .. Rounds - 1 : r + 1 # Rounds => r + 1 \in 0 .. Rounds - 1
BY ScalerAssumption

\* A wait that succeeds leaves the slot with no copy under way and its semaphore taken.
LEMMA TakeFrees ==
  ASSUME ScalerTypeOK, Accounted, pc # "mark", NEW i \in Slots, Take(i)
  PROVE  /\ i \notin flying /\ ~pending'[i] /\ ~given'[i]
         /\ \A j \in Slots : j # i => pending'[j] = pending[j] /\ given'[j] = given[j]
BY DEF ScalerTypeOK, Accounted, AtMark, Take
--------------------------------------------------------------------------
(* Types, in parts. *)
SetupType ==
  /\ requested \in Modes \cup {"auto"} /\ active_mode \in Modes
  /\ gdma \in BOOLEAN /\ ppa \in BOOLEAN /\ passed \subseteq Modes
TestType ==
  test \in [due : BOOLEAN, trial : Modes \cup {"none"}, round : 0 .. Rounds - 1,
            clean : BOOLEAN]
CallType ==
  /\ pc \in {"idle", "begin", "claim", "fill", "queue", "mark", "drain", "end", "choose",
             "release"}
  /\ running \in Modes \cup {"none"} /\ strip \in 0 .. Strips /\ slotAt \in Slots
  /\ good \in BOOLEAN /\ told \in BOOLEAN /\ picture \in 0 .. MaxScales
FlagsType == pending \in [Slots -> BOOLEAN] /\ given \in [Slots -> BOOLEAN]
CopyType ==
  buffer \in [Slots -> Nat \X Nat] /\ target \in [Slots -> Places] /\ flying \subseteq Slots
OutputType == output \in [Places -> Nat \X Nat]

\* Every step keeps the types.
LEMMA TypeStep == IInv /\ [ScalerNext]_scalerVars => ScalerTypeOK'
<1> SUFFICES ASSUME IInv, [ScalerNext]_scalerVars
             PROVE  SetupType' /\ TestType' /\ CallType' /\ FlagsType' /\ CopyType' /\ OutputType'
  BY DEF ScalerTypeOK, SetupType, TestType, CallType, FlagsType, CopyType, OutputType
<1> USE ScalerAssumption DEF ScalerTypeOK, IInv
<1>0. /\ SlotOf(strip) \in Slots /\ strip \in Nat /\ 0 \in Slots /\ 1 \in Slots
      /\ picture \in Nat
  BY SlotOfType, PlacesNat DEF Slots
<1>a. Whole(picture) \in [Places -> Nat \X Nat]
  BY WholeType, <1>0
<1>1. CASE Scale
  <2>1. SetupType'
    BY <1>1, <1>0 DEF SetupType, Scale, setup
  <2>2. FlagsType'
    BY <1>1, <1>0 DEF FlagsType, Scale, work
  <2>3. CopyType'
    BY <1>1, <1>0 DEF CopyType, Scale, work
  <2>4. OutputType'
    BY <1>1, <1>0 DEF OutputType, Scale
  <2>5. TestType'
    <3>1. 0 \in 0 .. Rounds - 1 /\ "cpu" \in Modes \cup {"none"}
      BY DEF Modes
    <3>2. CASE test.due
      BY <1>1, <3>1, <3>2 DEF TestType, Scale
    <3>3. CASE ~test.due
      BY <1>1, <3>3 DEF TestType, Scale
    <3> QED
      BY <3>2, <3>3
  <2>6. CallType'
    <3>1. picture + 1 \in 0 .. MaxScales
      BY <1>1 DEF Scale
    <3>2. running' \in Modes
      BY <1>1 DEF Scale, Modes
    <3> QED
      BY <1>1, <3>1, <3>2 DEF CallType, Scale
  <2> QED
    BY <2>1, <2>2, <2>3, <2>4, <2>5, <2>6
<1>2. CASE ScaleCpu
  <2>1. SetupType' /\ TestType' /\ CallType' /\ FlagsType' /\ CopyType'
    BY <1>2, <1>0 DEF SetupType, TestType, CallType, FlagsType, CopyType, ScaleCpu, setup,
       bench, work
  <2>2. OutputType'
    BY <1>2, <1>a DEF OutputType, ScaleCpu
  <2> QED
    BY <2>1, <2>2
<1>3. CASE ScalePpa
  <2>1. SetupType'
    BY <1>3, <1>0 DEF SetupType, ScalePpa, setup, bench
  <2>2. TestType'
    BY <1>3, <1>0 DEF TestType, ScalePpa, bench
  <2>3. CallType'
    BY <1>3, <1>0 DEF CallType, ScalePpa
  <2>4. FlagsType'
    BY <1>3, <1>0 DEF FlagsType, ScalePpa, work
  <2>5. CopyType'
    BY <1>3, <1>0 DEF CopyType, ScalePpa, work
  <2>6. OutputType'
    <3>1. \A s \in Places : <<picture, s>> \in Nat \X Nat
      BY <1>0, PlacesNat
    <3> QED
      BY <1>3, <1>a, <3>1 DEF OutputType, ScalePpa
  <2> QED
    BY <2>1, <2>2, <2>3, <2>4, <2>5, <2>6
<1>4. CASE ScaleGdma
  <2>1. SetupType' /\ TestType' /\ CallType' /\ FlagsType' /\ CopyType' /\ OutputType'
    BY <1>4, <1>0 DEF SetupType, TestType, CallType, FlagsType, CopyType, OutputType,
       ScaleGdma, setup, bench, work
  <2> QED
    BY <2>1
<1>5. CASE Claim
  <2>1. SetupType'
    BY <1>5, <1>0 DEF SetupType, Claim, setup, bench
  <2>2. TestType'
    BY <1>5, <1>0 DEF TestType, Claim, bench
  <2>3. CallType'
    BY <1>5, <1>0 DEF CallType, Claim
  <2>4. CopyType'
    BY <1>5, <1>0 DEF CopyType, Claim
  <2>5. OutputType'
    BY <1>5, <1>0 DEF OutputType, Claim
  <2>6. FlagsType'
    BY <1>5, <1>0 DEF FlagsType, Claim, Take, TimeOut
  <2> QED
    BY <2>1, <2>2, <2>3, <2>4, <2>5, <2>6
<1>6. CASE Fill
  <2>1. SetupType' /\ TestType' /\ CallType' /\ FlagsType' /\ OutputType'
    BY <1>6, <1>0 DEF SetupType, TestType, CallType, FlagsType, OutputType, Fill, setup, bench
  <2>2. CopyType'
    <3>1. <<picture, strip>> \in Nat \X Nat
      BY <1>0
    <3> QED
      BY <1>6, <1>0, <3>1 DEF CopyType, Fill
  <2> QED
    BY <2>1, <2>2
<1>7. CASE Queue
  <2>1. SetupType'
    BY <1>7, <1>0 DEF SetupType, Queue, setup, bench
  <2>2. TestType'
    BY <1>7, <1>0 DEF TestType, Queue, bench
  <2>3. CallType'
    BY <1>7, <1>0 DEF CallType, Queue
  <2>4. FlagsType'
    BY <1>7, <1>0 DEF FlagsType, Queue
  <2>5. OutputType'
    BY <1>7, <1>0 DEF OutputType, Queue
  <2>6. CopyType'
    <3>1. strip \in Places
      BY <1>7, PlacesNat DEF Queue, RunShape, Places
    <3>2. flying' \subseteq Slots
      BY <1>7, <1>0 DEF Queue
    <3>3. buffer' \in [Slots -> Nat \X Nat] /\ target' \in [Slots -> Places]
      BY <1>7, <1>0, <3>1 DEF Queue
    <3> QED
      BY <3>2, <3>3 DEF CopyType
  <2> QED
    BY <2>1, <2>2, <2>3, <2>4, <2>5, <2>6
<1>8. CASE Mark
  <2>1. SetupType' /\ TestType' /\ FlagsType' /\ CopyType' /\ OutputType'
    BY <1>8, <1>0 DEF SetupType, TestType, FlagsType, CopyType, OutputType, Mark, setup, bench
  <2>2. CallType'
    <3>1. strip + 1 \in 0 .. Strips
      BY <1>8, PlacesNat DEF Mark, RunShape
    <3> QED
      BY <1>8, <1>0, <3>1 DEF CallType, Mark, setup, bench
  <2> QED
    BY <2>1, <2>2
<1>9. CASE Drain
  <2>1. SetupType'
    BY <1>9, <1>0 DEF SetupType, Drain, setup, bench
  <2>2. TestType'
    BY <1>9, <1>0 DEF TestType, Drain, bench
  <2>3. CallType'
    BY <1>9, <1>0 DEF CallType, Drain
  <2>4. CopyType'
    BY <1>9, <1>0 DEF CopyType, Drain
  <2>5. OutputType'
    BY <1>9, <1>0 DEF OutputType, Drain
  <2>6. FlagsType'
    BY <1>9 DEF FlagsType, Drain, Take, TimeOut
  <2> QED
    BY <2>1, <2>2, <2>3, <2>4, <2>5, <2>6
<1>10. CASE CopyDone
  <2>1. SetupType' /\ TestType' /\ CallType' /\ CopyType'
    BY <1>10, <1>0 DEF SetupType, TestType, CallType, CopyType, CopyDone, setup, bench
  <2>2. FlagsType'
    BY <1>10 DEF FlagsType, CopyDone
  <2>3. OutputType'
    BY <1>10 DEF OutputType, CopyDone
  <2> QED
    BY <2>1, <2>2, <2>3
<1>11. CASE Return
  <2>1. SetupType' /\ TestType' /\ CallType' /\ FlagsType' /\ CopyType' /\ OutputType'
    BY <1>11, <1>0 DEF SetupType, TestType, CallType, FlagsType, CopyType, OutputType, Return,
       setup, bench, work
  <2> QED
    BY <2>1
<1>12. CASE Judge
  <2>1. SetupType' /\ CallType' /\ FlagsType' /\ CopyType' /\ OutputType'
    BY <1>12, <1>0 DEF SetupType, CallType, FlagsType, CopyType, OutputType, Judge, NextTrial,
       setup, work, Modes
  <2>2. TestType'
    <3> DEFINE clean == IF test.round = 0 THEN output = Whole(picture) ELSE test.clean
               over == ~good \/ test.round + 1 = Rounds
    <3>1. test' = [test EXCEPT !.clean = clean, !.round = IF over THEN 0 ELSE @ + 1,
                               !.trial = IF over THEN NextTrial ELSE @]
      BY <1>12 DEF Judge
    <3>2. clean \in BOOLEAN /\ NextTrial \in Modes \cup {"none"}
      BY DEF NextTrial, Modes
    <3>3. ~over => test.round + 1 # Rounds
      OBVIOUS
    <3>4. test.round \in 0 .. Rounds - 1 /\ 0 \in 0 .. Rounds - 1
      OBVIOUS
    <3>5. test.round + 1 # Rounds => test.round + 1 \in 0 .. Rounds - 1
      BY <3>4, RoundType
    <3>6. (IF over THEN 0 ELSE test.round + 1) \in 0 .. Rounds - 1
      BY <3>3, <3>4, <3>5
    <3> HIDE DEF clean, over
    <3> QED
      BY <3>1, <3>2, <3>6 DEF TestType
  <2> QED
    BY <2>1, <2>2
<1>13. CASE Choose
  <2>1. SetupType' /\ TestType' /\ CallType' /\ FlagsType' /\ CopyType' /\ OutputType'
    BY <1>13, <1>0 DEF SetupType, TestType, CallType, FlagsType, CopyType, OutputType, Choose,
       work, Modes
  <2> QED
    BY <2>1
<1>14. CASE Release
  <2>1. SetupType'
    BY <1>14, <1>0 DEF SetupType, Release, bench
  <2>2. TestType'
    BY <1>14, <1>0 DEF TestType, Release, bench
  <2>3. CallType'
    BY <1>14, <1>0 DEF CallType, Release
  <2>4. CopyType'
    BY <1>14, <1>0 DEF CopyType, Release
  <2>5. OutputType'
    BY <1>14, <1>0 DEF OutputType, Release
  <2>6. FlagsType'
    <3>1. CASE slotAt = 0
      BY <1>14, <1>0, <3>1 DEF FlagsType, Release, Take, TimeOut
    <3>2. CASE slotAt # 0
      <4>1. pending' = [i \in Slots |-> FALSE] /\ given' = [i \in Slots |-> FALSE]
        BY <1>14, <3>2, Zenon DEF Release
      <4>2. [i \in Slots |-> FALSE] \in [Slots -> BOOLEAN]
        OBVIOUS
      <4> QED
        BY <4>1, <4>2, Zenon DEF FlagsType
    <3> QED
      BY <3>1, <3>2
  <2> QED
    BY <2>1, <2>2, <2>3, <2>4, <2>5, <2>6
<1>15. CASE UNCHANGED scalerVars
  BY <1>15 DEF scalerVars, setup, bench, work, SetupType, TestType, CallType, FlagsType,
     CopyType, OutputType
<1> QED
  BY <1>1, <1>2, <1>3, <1>4, <1>5, <1>6, <1>7, <1>8, <1>9, <1>10, <1>11, <1>12, <1>13, <1>14,
     <1>15 DEF ScalerNext

--------------------------------------------------------------------------
(* The strengthening, part by part. *)

\* A step keeps the account of the slots.
LEMMA AccountedStep == IInv /\ ScalerTypeOK' /\ [ScalerNext]_scalerVars => Accounted'
<1> SUFFICES ASSUME IInv, ScalerTypeOK', [ScalerNext]_scalerVars PROVE Accounted'
  OBVIOUS
<1> USE SlotOfType, PlacesNat DEF IInv, ScalerTypeOK, Accounted, Claimed, AtMark
<1>1. CASE Scale
  BY <1>1 DEF Scale, work
<1>2. CASE ScaleCpu
  BY <1>2 DEF ScaleCpu, work
<1>3. CASE ScalePpa
  BY <1>3 DEF ScalePpa, work
<1>4. CASE ScaleGdma
  BY <1>4 DEF ScaleGdma, work
<1>5. CASE Claim
  <2>1. SlotOf(strip) \in Slots /\ strip' = strip /\ flying' = flying /\ pc = "claim"
    BY <1>5 DEF Claim
  <2>2. CASE Take(SlotOf(strip)) /\ pc' = "fill"
    <3>1. /\ pending' = [pending EXCEPT ![SlotOf(strip)] = FALSE]
          /\ given' = [given EXCEPT ![SlotOf(strip)] = IF pending[SlotOf(strip)] THEN FALSE ELSE @]
          /\ pending[SlotOf(strip)] => given[SlotOf(strip)]
      BY <2>2 DEF Take
    <3>2. SlotOf(strip) \notin flying
      BY <2>1, <3>1
    <3>3. pending'[SlotOf(strip)] = FALSE /\ given'[SlotOf(strip)] = FALSE
      BY <2>1, <3>1
    <3>4. \A j \in Slots : j # SlotOf(strip) => pending'[j] = pending[j] /\ given'[j] = given[j]
      BY <3>1
    <3> QED
      BY <2>1, <2>2, <3>2, <3>3, <3>4
  <2>3. CASE TimeOut(SlotOf(strip)) /\ pc' = "drain"
    BY <1>5, <2>1, <2>3 DEF Claim, TimeOut
  <2> QED
    BY <1>5, <2>2, <2>3 DEF Claim
<1>6. CASE Fill
  BY <1>6 DEF Fill
<1>7. CASE Queue
  <2>1. SlotOf(strip) \in Slots /\ strip' = strip /\ ~given[SlotOf(strip)]
    BY <1>7 DEF Queue
  <2> QED
    BY <1>7, <2>1 DEF Queue
<1>8. CASE Mark
  BY <1>8 DEF Mark
<1>9. CASE Drain
  <2>1. strip' = strip /\ flying' = flying /\ pc' \in {"drain", "end"} /\ pc = "drain"
    BY <1>9 DEF Drain
  <2>2. CASE Take(slotAt)
    <3>1. /\ ~pending'[slotAt] /\ ~given'[slotAt] /\ slotAt \notin flying
          /\ \A j \in Slots : j # slotAt => pending'[j] = pending[j] /\ given'[j] = given[j]
      BY <2>1, <2>2, TakeFrees
    <3> QED
      BY <2>1, <3>1
  <2>3. CASE TimeOut(slotAt)
    BY <1>9, <2>1, <2>3 DEF Drain, TimeOut
  <2> QED
    BY <1>9, <2>2, <2>3 DEF Drain
<1>10. CASE CopyDone
  <2>1. PICK i \in flying :
          /\ output' = [output EXCEPT ![target[i]] = buffer[i]]
          /\ flying' = flying \ {i}
          /\ given' = [given EXCEPT ![i] = TRUE]
          /\ UNCHANGED <<setup, bench, pc, running, strip, slotAt, good, pending, buffer,
                         target, picture, told>>
    BY <1>10 DEF CopyDone
  <2>2. pending[i] \/ AtMark(i)
    BY DEF AtMark
  <2>3. SlotOf(strip)' = SlotOf(strip) /\ pc' = pc /\ pending' = pending
    BY <2>1
  <2>4. \A j \in Slots : j # i => given'[j] = given[j]
    BY <2>1
  <2> QED
    BY <2>1, <2>2, <2>3, <2>4
<1>11. CASE Return
  BY <1>11 DEF Return, work
<1>12. CASE Judge
  BY <1>12 DEF Judge, work
<1>13. CASE Choose
  BY <1>13 DEF Choose, work
<1>14. CASE Release
  <2>1. strip' = strip /\ pc' \in {"release", "begin"}
    BY <1>14 DEF Release
  <2>2. CASE slotAt = 0 /\ Take(0)
    <3>1. flying' = flying
      BY <1>14, <2>2 DEF Release
    <3> QED
      BY <1>14, <2>1, <2>2, <3>1, TakeFrees DEF Release, Slots
  <2>3. CASE slotAt = 0 /\ TimeOut(0)
    BY <1>14, <2>1, <2>3 DEF Release, TimeOut
  <2>4. CASE slotAt # 0
    BY <1>14, <2>1, <2>4 DEF Release
  <2> QED
    BY <1>14, <2>2, <2>3, <2>4 DEF Release
<1>15. CASE UNCHANGED scalerVars
  BY <1>15 DEF scalerVars, setup, bench, work
<1> QED
  BY <1>1, <1>2, <1>3, <1>4, <1>5, <1>6, <1>7, <1>8, <1>9, <1>10, <1>11, <1>12, <1>13, <1>14,
     <1>15 DEF ScalerNext

\* A step keeps each copy in the slot of its strip.
LEMMA OwnSlotStep == IInv /\ ScalerTypeOK' /\ [ScalerNext]_scalerVars => OwnSlot'
<1> SUFFICES ASSUME IInv, ScalerTypeOK', [ScalerNext]_scalerVars PROVE OwnSlot'
  OBVIOUS
<1> USE SlotOfType, PlacesNat DEF IInv, ScalerTypeOK, OwnSlot
<1>1. CASE Scale
  BY <1>1 DEF Scale, work
<1>2. CASE ScaleCpu
  BY <1>2 DEF ScaleCpu, work
<1>3. CASE ScalePpa
  BY <1>3 DEF ScalePpa, work
<1>4. CASE ScaleGdma
  BY <1>4 DEF ScaleGdma, work
<1>5. CASE Claim
  BY <1>5 DEF Claim
<1>6. CASE Fill
  BY <1>6 DEF Fill
<1>7. CASE Queue
  <2>1. SlotOf(strip) \in Slots
    OBVIOUS
  <2>2. CASE /\ flying' = flying \cup {SlotOf(strip)}
             /\ target' = [target EXCEPT ![SlotOf(strip)] = strip]
    BY <2>1, <2>2
  <2>3. CASE UNCHANGED <<flying, target>>
    BY <2>3
  <2> QED
    BY <1>7, <2>2, <2>3 DEF Queue
<1>8. CASE Mark
  BY <1>8 DEF Mark
<1>9. CASE Drain
  BY <1>9 DEF Drain
<1>10. CASE CopyDone
  <2>1. flying' \subseteq flying /\ target' = target
    BY <1>10 DEF CopyDone
  <2> QED
    BY <2>1
<1>11. CASE Return
  BY <1>11 DEF Return, work
<1>12. CASE Judge
  BY <1>12 DEF Judge, work
<1>13. CASE Choose
  BY <1>13 DEF Choose, work
<1>14. CASE Release
  BY <1>14 DEF Release
<1>15. CASE UNCHANGED scalerVars
  BY <1>15 DEF scalerVars, setup, bench, work
<1> QED
  BY <1>1, <1>2, <1>3, <1>4, <1>5, <1>6, <1>7, <1>8, <1>9, <1>10, <1>11, <1>12, <1>13, <1>14,
     <1>15 DEF ScalerNext

\* A step of a run keeps the strips queued so far right.
LEMMA RunRightStep == IInv /\ ScalerTypeOK' /\ [ScalerNext]_scalerVars => RunRight'
<1> SUFFICES ASSUME IInv, ScalerTypeOK', [ScalerNext]_scalerVars PROVE RunRight'
  OBVIOUS
<1> USE SlotOfType, PlacesNat DEF IInv, ScalerTypeOK, RunRight, SentTo, OnItsWay, InRun
<1>1. CASE Scale
  BY <1>1 DEF Scale
<1>2. CASE ScaleCpu
  BY <1>2 DEF ScaleCpu
<1>3. CASE ScalePpa
  BY <1>3 DEF ScalePpa
<1>4. CASE ScaleGdma
  <2>1. strip' = 0 /\ pc' \in {"claim", "end"} /\ target' = target /\ target' \in [Slots -> Places]
    BY <1>4 DEF ScaleGdma, work
  <2>2. SentTo' = 0 /\ \A s \in Places : ~(s < 0)
    BY <2>1, PlacesNat DEF Places
  <2>3. \A i \in flying' : ~(target'[i] < 0)
    BY <2>1, <2>2
  <2> HIDE DEF SentTo
  <2> QED
    BY <2>2, <2>3
<1>5. CASE Claim
  BY <1>5 DEF Claim
<1>6. CASE Fill
  <2>1. SlotOf(strip) \in Slots /\ SlotOf(strip) \notin flying
    BY <1>6 DEF Fill, Accounted, Claimed, AtMark
  <2>2. \A j \in Slots : j # SlotOf(strip) => buffer'[j] = buffer[j]
    BY <1>6 DEF Fill
  <2>3. UNCHANGED <<strip, flying, target, output, picture, good>>
    BY <1>6 DEF Fill
  <2>4. SentTo = strip /\ SentTo' = strip
    BY <1>6, <2>3 DEF Fill
  <2> HIDE DEF SentTo
  <2>5. \A s \in Places : OnItsWay(s) => OnItsWay(s)'
    BY <2>1, <2>2, <2>3
  <2> QED
    BY <1>6, <2>1, <2>2, <2>3, <2>4, <2>5 DEF Fill
<1>7. CASE Queue
  <2>0. pc = "queue" /\ strip \in Nat /\ strip < Strips
    BY <1>7 DEF Queue, RunShape
  <2>1. SlotOf(strip) \in Slots /\ SlotOf(strip) \notin flying /\ strip \in Places
    <3>1. SlotOf(strip) \notin flying
      BY <2>0 DEF Accounted, Claimed, AtMark
    <3> QED
      BY <2>0, <3>1 DEF Places
  <2>2. buffer[SlotOf(strip)] = <<picture, strip>>
    BY <1>7 DEF Queue, RunShape
  <2>3. UNCHANGED <<strip, buffer, output, picture>>
    BY <1>7 DEF Queue
  <2>4. CASE pc' = "mark"
    <3>1. /\ flying' = flying \cup {SlotOf(strip)} /\ good' = good
          /\ target' = [target EXCEPT ![SlotOf(strip)] = strip]
      BY <1>7, <2>4 DEF Queue
    <3>2. SentTo = strip /\ SentTo' = strip + 1
      BY <1>7, <2>3, <2>4 DEF Queue
    <3> HIDE DEF SentTo
    <3>3. \A s \in Places : OnItsWay(s) => OnItsWay(s)'
      BY <2>1, <2>3, <3>1
    <3>4. OnItsWay(strip)'
      BY <2>1, <2>2, <2>3, <3>1
    <3>5. \A s \in Places : s < strip + 1 => s < strip \/ s = strip
      BY PlacesNat
    <3>6. \A s \in Places : s < SentTo' => output'[s] = <<picture', s>> \/ OnItsWay(s)'
      BY <1>7, <2>3, <3>2, <3>3, <3>4, <3>5 DEF Queue, RunShape
    <3>7. \A i \in flying : target'[i] = target[i] /\ target[i] # strip /\ target[i] \in Places
      BY <2>1, <3>1 DEF OwnSlot
    <3>8. \A i \in flying : target[i] < strip => buffer[i] = <<picture, target[i]>>
      BY <2>0, <3>2 DEF RunShape
    <3>9. SUFFICES ASSUME NEW i \in flying', target'[i] < SentTo'
                   PROVE buffer'[i] = <<picture', target'[i]>>
      BY <3>6
    <3>10. CASE i \in flying
      BY <2>3, <3>2, <3>5, <3>7, <3>8, <3>9, <3>10
    <3>11. CASE i = SlotOf(strip)
      BY <2>1, <2>2, <2>3, <3>1, <3>11
    <3> QED
      BY <3>1, <3>9, <3>10, <3>11
  <2>5. CASE pc' # "mark"
    BY <1>7, <2>5 DEF Queue
  <2> QED
    BY <2>4, <2>5
<1>8. CASE Mark
  BY <1>8 DEF Mark
<1>9. CASE Drain
  BY <1>9 DEF Drain
<1>10. CASE CopyDone
  <2>1. PICK i \in flying :
          /\ output' = [output EXCEPT ![target[i]] = buffer[i]]
          /\ flying' = flying \ {i}
          /\ given' = [given EXCEPT ![i] = TRUE]
          /\ UNCHANGED <<setup, bench, pc, running, strip, slotAt, good, pending, buffer,
                         target, picture, told>>
    BY <1>10 DEF CopyDone
  <2>2. SentTo' = SentTo /\ InRun' = InRun /\ good' = good /\ UNCHANGED <<picture, buffer, target>>
    BY <2>1
  <2> HIDE DEF SentTo, InRun
  <2>3. target[i] \in Places /\ SlotOf(target[i]) = i
    BY DEF OwnSlot
  <2>4. ASSUME InRun, good, NEW s \in Places, s < SentTo
        PROVE  output'[s] = <<picture', s>> \/ OnItsWay(s)'
    <3>1. CASE s = target[i]
      BY <2>1, <2>2, <2>3, <2>4, <3>1
    <3>2. CASE s # target[i]
      BY <2>1, <2>2, <2>3, <2>4, <3>2
    <3> QED
      BY <3>1, <3>2
  <2> QED
    BY <2>1, <2>2, <2>4
<1>11. CASE Return
  BY <1>11 DEF Return
<1>12. CASE Judge
  BY <1>12 DEF Judge
<1>13. CASE Choose
  BY <1>13 DEF Choose
<1>14. CASE Release
  BY <1>14 DEF Release
<1>15. CASE UNCHANGED scalerVars
  BY <1>15 DEF scalerVars, setup, bench, work
<1> QED
  BY <1>1, <1>2, <1>3, <1>4, <1>5, <1>6, <1>7, <1>8, <1>9, <1>10, <1>11, <1>12, <1>13, <1>14,
     <1>15 DEF ScalerNext

\* A step keeps the shape of a run.
LEMMA RunShapeStep == IInv /\ ScalerTypeOK' /\ [ScalerNext]_scalerVars => RunShape'
<1> SUFFICES ASSUME IInv, ScalerTypeOK', [ScalerNext]_scalerVars PROVE RunShape'
  OBVIOUS
<1> USE SlotOfType, PlacesNat DEF IInv, ScalerTypeOK, RunShape
<1>1. CASE Scale
  BY <1>1 DEF Scale
<1>2. CASE ScaleCpu
  BY <1>2 DEF ScaleCpu
<1>3. CASE ScalePpa
  BY <1>3 DEF ScalePpa
<1>4. CASE ScaleGdma
  BY <1>4 DEF ScaleGdma, work, Slots, Places
<1>5. CASE Claim
  BY <1>5 DEF Claim
<1>6. CASE Fill
  BY <1>6 DEF Fill
<1>7. CASE Queue
  BY <1>7 DEF Queue
<1>8. CASE Mark
  BY <1>8 DEF Mark
<1>9. CASE Drain
  <2>1. UNCHANGED <<strip, buffer, picture>> /\ pc' \in {"drain", "end"}
    BY <1>9 DEF Drain
  <2>2. CASE Take(slotAt) /\ good' = good
    BY <1>9, <2>1, <2>2, TakeFrees DEF Drain, Slots
  <2>3. CASE good' = FALSE
    BY <1>9, <2>1, <2>3 DEF Drain
  <2> QED
    BY <1>9, <2>2, <2>3 DEF Drain
<1>10. CASE CopyDone
  BY <1>10 DEF CopyDone
<1>11. CASE Return
  BY <1>11 DEF Return
<1>12. CASE Judge
  BY <1>12 DEF Judge
<1>13. CASE Choose
  BY <1>13 DEF Choose
<1>14. CASE Release
  BY <1>14 DEF Release
<1>15. CASE UNCHANGED scalerVars
  BY <1>15 DEF scalerVars, setup, bench, work
<1> QED
  BY <1>1, <1>2, <1>3, <1>4, <1>5, <1>6, <1>7, <1>8, <1>9, <1>10, <1>11, <1>12, <1>13, <1>14,
     <1>15 DEF ScalerNext

\* A step that ends a run well leaves the picture whole.
LEMMA SettledStep == IInv /\ ScalerTypeOK' /\ [ScalerNext]_scalerVars => Settled'
<1> SUFFICES ASSUME IInv, ScalerTypeOK', [ScalerNext]_scalerVars PROVE Settled'
  OBVIOUS
<1> USE SlotOfType, PlacesNat DEF IInv, ScalerTypeOK, Settled, Right, Fresh
<1>1. CASE Scale
  BY <1>1 DEF Scale
<1>2. CASE ScaleCpu
  BY <1>2 DEF ScaleCpu, work, Confined
<1>3. CASE ScalePpa
  BY <1>3 DEF ScalePpa, work, Confined
<1>4. CASE ScaleGdma
  BY <1>4 DEF ScaleGdma
<1>5. CASE Claim
  BY <1>5 DEF Claim
<1>6. CASE Fill
  BY <1>6 DEF Fill
<1>7. CASE Queue
  BY <1>7 DEF Queue
<1>8. CASE Mark
  BY <1>8 DEF Mark
<1>9. CASE Drain
  <2>1. /\ UNCHANGED <<strip, buffer, picture, flying, output, target, told>>
        /\ pc' \in {"drain", "end"}
    BY <1>9 DEF Drain
  <2>2. CASE pc' = "end" /\ good'
    <3>1. good /\ Take(slotAt) /\ slotAt = 1 /\ pc = "drain"
      BY <1>9, <2>2 DEF Drain
    <3>2. strip = Strips /\ ~pending[0] /\ 1 \in Slots
      BY <3>1 DEF RunShape, Slots
    <3>3. 0 \notin flying /\ 1 \notin flying
      BY <3>1, <3>2, TakeFrees DEF Accounted, AtMark, Slots
    <3>4. flying = {}
      BY <3>3 DEF Slots
    <3>5. \A s \in Places : s < SentTo
      BY <3>1, <3>2 DEF SentTo, Places
    <3>6. \A s \in Places : output[s] = <<picture, s>>
      BY <3>1, <3>4, <3>5 DEF RunRight, InRun, OnItsWay
    <3>7. output = Whole(picture)
      BY <3>6 DEF Whole
    <3> QED
      BY <2>1, <2>2, <3>4, <3>7 DEF Whole, Places
  <2>3. CASE ~(pc' = "end" /\ good')
    BY <2>1, <2>3
  <2> QED
    BY <2>2, <2>3
<1>10. CASE CopyDone
  <2>1. PICK i \in flying :
          /\ output' = [output EXCEPT ![target[i]] = buffer[i]]
          /\ flying' = flying \ {i}
          /\ given' = [given EXCEPT ![i] = TRUE]
          /\ UNCHANGED <<setup, bench, pc, running, strip, slotAt, good, pending, buffer,
                         target, picture, told>>
    BY <1>10 DEF CopyDone
  <2>2. Right => Right'
    <3>1. SUFFICES ASSUME Right PROVE Right'
      OBVIOUS
    <3>2. target[i] \in Places /\ buffer[i] = <<picture, target[i]>>
      BY <3>1
    <3>3. output' = output /\ picture' = picture
      BY <2>1, <3>1, <3>2 DEF Whole
    <3>4. Fresh'
      BY <2>1, <3>1
    <3> QED
      BY <3>1, <3>3, <3>4 DEF Whole
  <2> QED
    BY <2>1, <2>2
<1>11. CASE Return
  BY <1>11 DEF Return, work
<1>12. CASE Judge
  BY <1>12 DEF Judge
<1>13. CASE Choose
  BY <1>13 DEF Choose
<1>14. CASE Release
  BY <1>14 DEF Release
<1>15. CASE UNCHANGED scalerVars
  BY <1>15 DEF scalerVars, setup, bench, work
<1> QED
  BY <1>1, <1>2, <1>3, <1>4, <1>5, <1>6, <1>7, <1>8, <1>9, <1>10, <1>11, <1>12, <1>13, <1>14,
     <1>15 DEF ScalerNext

\* A step keeps copies confined to DMA mode and to the benchmark.
LEMMA ConfinedStep == IInv /\ ScalerTypeOK' /\ [ScalerNext]_scalerVars => Confined'
<1> SUFFICES ASSUME IInv, ScalerTypeOK', [ScalerNext]_scalerVars PROVE Confined'
  OBVIOUS
<1> USE SlotOfType, PlacesNat DEF IInv, ScalerTypeOK, Confined, Fresh, InRun
<1>1. CASE Scale
  <2>1. UNCHANGED <<active_mode, gdma, flying, buffer, target>> /\ pc = "idle" /\ pc' = "begin"
    BY <1>1 DEF Scale, setup, work
  <2>2. CASE test.due
    BY <1>1, <2>1, <2>2 DEF Scale
  <2>3. CASE ~test.due
    BY <1>1, <2>1, <2>3 DEF Scale
  <2> QED
    BY <2>2, <2>3
<1>2. CASE ScaleCpu
  BY <1>2 DEF ScaleCpu, setup, bench, work
<1>3. CASE ScalePpa
  BY <1>3 DEF ScalePpa, setup, bench, work
<1>4. CASE ScaleGdma
  BY <1>4 DEF ScaleGdma, setup, bench, work
<1>5. CASE Claim
  BY <1>5 DEF Claim, setup, bench
<1>6. CASE Fill
  <2>1. UNCHANGED <<setup, bench, running, target, flying, picture>> /\ pc = "fill" /\ pc' = "queue"
    BY <1>6 DEF Fill
  <2>2. SlotOf(strip) \notin flying
    BY <2>1 DEF Accounted, Claimed, AtMark
  <2>3. \A i \in flying : buffer'[i] = buffer[i]
    BY <1>6, <2>2 DEF Fill
  <2>4. Fresh => Fresh'
    BY <2>1, <2>3
  <2>5. Confined
    OBVIOUS
  <2> HIDE DEF Fresh, IInv, ScalerTypeOK
  <2> QED
    BY <2>1, <2>4, <2>5 DEF setup, bench
<1>7. CASE Queue
  <2>1. UNCHANGED <<setup, bench, running, buffer, picture>> /\ pc = "queue" /\ pc' \in {"mark", "drain"}
    BY <1>7 DEF Queue
  <2>2. buffer[SlotOf(strip)] = <<picture, strip>>
    BY <2>1 DEF RunShape
  <2>3. Fresh => Fresh'
    <3>1. CASE UNCHANGED <<flying, target>>
      BY <2>1, <3>1
    <3>2. CASE /\ flying' = flying \cup {SlotOf(strip)}
               /\ target' = [target EXCEPT ![SlotOf(strip)] = strip]
      BY <2>1, <2>2, <3>2
    <3> QED
      BY <1>7, <3>1, <3>2 DEF Queue
  <2>4. (~gdma => flying = {}) /\ gdma /\ gdma' = gdma /\ test' = test
    BY <2>1 DEF setup, bench
  <2>5. Confined
    OBVIOUS
  <2> HIDE DEF Fresh, IInv, ScalerTypeOK
  <2> QED
    BY <2>1, <2>3, <2>4, <2>5 DEF setup, bench
<1>8. CASE Mark
  BY <1>8 DEF Mark, setup, bench
<1>9. CASE Drain
  BY <1>9 DEF Drain, setup, bench
<1>10. CASE CopyDone
  <2>1. PICK i \in flying :
          /\ output' = [output EXCEPT ![target[i]] = buffer[i]]
          /\ flying' = flying \ {i}
          /\ given' = [given EXCEPT ![i] = TRUE]
          /\ UNCHANGED <<setup, bench, pc, running, strip, slotAt, good, pending, buffer,
                         target, picture, told>>
    BY <1>10 DEF CopyDone
  <2>2. Fresh => Fresh'
    BY <2>1
  <2> HIDE DEF Fresh
  <2> QED
    BY <2>1, <2>2 DEF setup, bench
<1>11. CASE Return
  BY <1>11 DEF Return, setup, bench, work
<1>12. CASE Judge
  <2>1. UNCHANGED <<active_mode, gdma, flying, buffer, target, picture>> /\ pc = "end"
    BY <1>12 DEF Judge, setup, work
  <2>2. test'.due = test.due /\ test.trial # "none" /\ test.due
    BY <1>12 DEF Judge
  <2>3. pc' \in {"begin", "choose"} /\ (pc' = "choose" => test'.trial = "none")
    BY <1>12 DEF Judge, NextTrial
  <2>4. test'.trial = "none" => pc' = "choose"
    BY <1>12 DEF Judge, NextTrial, Modes
  <2>5. Fresh /\ Fresh'
    BY <2>1, <2>2
  <2> HIDE DEF Fresh
  <2> QED
    BY <2>1, <2>2, <2>3, <2>4, <2>5
<1>13. CASE Choose
  <2>1. UNCHANGED <<gdma, flying, buffer, target, picture>> /\ pc' \in {"begin", "release"}
    BY <1>13 DEF Choose, work
  <2>2. test'.due = FALSE /\ test'.trial = test.trial
    BY <1>13 DEF Choose
  <2>3. test.trial = "none"
    BY <1>13 DEF Choose
  <2> QED
    BY <1>13, <2>1, <2>2, <2>3 DEF Choose
<1>14. CASE Release
  BY <1>14 DEF Release, bench
<1>15. CASE UNCHANGED scalerVars
  BY <1>15 DEF scalerVars, setup, bench, work
<1> QED
  BY <1>1, <1>2, <1>3, <1>4, <1>5, <1>6, <1>7, <1>8, <1>9, <1>10, <1>11, <1>12, <1>13, <1>14,
     <1>15 DEF ScalerNext

\* The strengthening holds at the start.
LEMMA InitInv == ScalerInit => IInv
<1> SUFFICES ASSUME ScalerInit PROVE IInv
  OBVIOUS
<1> USE ScalerAssumption, PlacesNat DEF ScalerInit
<1>1. 0 \in Places /\ 0 \in 0 .. Rounds - 1
  BY DEF Places
<1>0. Whole(0) \in [Places -> Nat \X Nat]
  BY WholeType
<1>2. SetupType
  BY DEF SetupType, Modes
<1>9. OutputType
  BY <1>0 DEF OutputType
<1>10. 0 \in 0 .. Strips /\ 0 \in 0 .. MaxScales /\ 0 \in Slots
  BY DEF Slots
<1>8. CallType
  BY <1>10 DEF CallType, Modes
<1>5. TestType
  BY <1>1 DEF TestType
<1>6. FlagsType /\ CopyType
  BY <1>1 DEF FlagsType, CopyType
<1>7. ScalerTypeOK
  BY <1>2, <1>5, <1>6, <1>8, <1>9 DEF ScalerTypeOK, SetupType, TestType, CallType, FlagsType,
     CopyType, OutputType
<1>3. Accounted /\ OwnSlot /\ RunRight /\ RunShape /\ Settled
  BY <1>1 DEF Accounted, Claimed, OwnSlot, RunRight, InRun, RunShape, Settled
<1>4. Confined
  BY DEF Confined, Fresh, InRun, Modes
<1> QED
  BY <1>7, <1>3, <1>4 DEF IInv

\* It is inductive.
THEOREM Inductive == ScalerSpec => []IInv
<1>1. IInv /\ [ScalerNext]_scalerVars => IInv'
  BY TypeStep, AccountedStep, OwnSlotStep, RunRightStep, RunShapeStep, SettledStep,
     ConfinedStep DEF IInv
<1> QED
  BY InitInv, <1>1, PTL DEF ScalerSpec

\* The variables keep their types, for every number of strips, rounds and frames.
THEOREM ScalerTyped == ScalerSpec => []ScalerTypeOK
<1>1. IInv => ScalerTypeOK
  BY DEF IInv
<1> QED
  BY Inductive, <1>1, PTL

\* esp32s31_korvo1_scaler_scale returns true only with the whole of this frame in the
\* frame buffer, however late the copies of this or an earlier frame complete.
THEOREM TrueMeansWhole == ScalerSpec => []ShownWhole
<1>1. IInv => ShownWhole
  BY DEF IInv, Settled, Right, ShownWhole
<1> QED
  BY Inductive, <1>1, PTL
=============================================================================
