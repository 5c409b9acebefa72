--------------------------- MODULE FirmwareProofs ---------------------------
(***************************************************************************)
(* The ESP32-S31 firmware, for any number of pads and of pages: what the   *)
(* tasks of the USB gamepads hold (Gamepads), what the loader stores and   *)
(* shows of a game (RomLoader), and the types of all its parts.            *)
(***************************************************************************)
EXTENDS MCFirmware, DisplayProofs, FiniteSetTheorems,
        SequenceTheorems, WellFoundedInduction, TLAPS

Opening == {"open", "find", "claim", "input", "output", "publish", "led", "submit"}
Parts == {"device", "interface", "input", "output"}
Phases == {"none", "idle", "flying", "down", "up", "done", "error", "gone"}

Messages == {"new", "gone"} \X Pads
Counts == [plugs : 0 .. MaxPlugs, reports : Nat, refusals : Nat]
HidTask == [step : {"wait", "open", "describe", "activate", "start"}, pad : Pads \cup {NoPad}]
XinputContext ==
  [device : Pads \cup {NoPad}, pending : Pads \cup {NoPad}, gone : BOOLEAN, phase : 0 .. 2]

BusTypes ==
  /\ attached \subseteq Pads /\ hids \subseteq Pads
  /\ counts \in Counts /\ messages \in Seq(Messages) /\ found \in Seq(Pads)

XinTypes ==
  /\ xtask \in {"look", "handle"} \cup Opening
  /\ xin \in XinputContext /\ moving \in [PadTransfers -> Phases]
  /\ claimed \in BOOLEAN /\ pressed \in BOOLEAN /\ torn \in BOOLEAN

HidTypes ==
  /\ htask \in HidTask
  /\ hactive \in Pads \cup {NoPad} /\ hconnected \in BOOLEAN /\ hopen \subseteq Pads

PadTypes == BusTypes /\ XinTypes /\ HidTypes

(* What the gamepad task has done of an opening, at each of its steps: the    *)
(* driver may have taken the interface away again.                            *)
HidSteps ==
  /\ htask.step # "wait" => htask.pad # NoPad
  /\ htask.step = "open" => hactive = NoPad /\ ~hconnected /\ hopen = {}
  /\ htask.step = "describe" => hactive = NoPad /\ ~hconnected /\ hopen \subseteq {htask.pad}
  /\ htask.step = "activate" => hactive = NoPad /\ hconnected /\ hopen \subseteq {htask.pad}
  /\ htask.step = "start" =>
       \/ hactive = htask.pad /\ hconnected /\ hopen \subseteq {htask.pad}
       \/ hactive = NoPad /\ ~hconnected /\ hopen = {}

(* A pad that was unplugged stays away: addresses are not given twice.        *)
Away(p) == p <= counts.plugs /\ p \notin attached

Notices ==
  /\ xin.device <= counts.plugs /\ xin.pending <= counts.plugs
  /\ attached \subseteq 1 .. counts.plugs
  /\ \A i \in 1 .. Len(messages) :
       /\ messages[i][2] <= counts.plugs
       /\ messages[i][1] = "gone" => messages[i][2] \notin attached

(* What the XInput task holds at each step of an opening.                     *)
HeldAt(step) ==
  {w \in Parts : /\ w = "device" => step # "open"
                 /\ w = "interface" => step \notin {"open", "find", "claim"}
                 /\ w = "input" => step \in {"output", "publish", "led", "submit"}
                 /\ w = "output" => step \in {"publish", "led", "submit"}}

(* The task's transfers and its holdings are in step with its program.        *)
OpeningPad ==
  /\ xin.device # NoPad /\ ~xin.gone /\ ~pressed
  /\ held = {xin.device} \X HeldAt(xtask)
  /\ claimed <=> "interface" \in HeldAt(xtask)
  /\ moving.input = IF "input" \in HeldAt(xtask) THEN "idle" ELSE "none"
  /\ xtask # "submit" => moving.output = IF "output" \in HeldAt(xtask) THEN "idle" ELSE "none"
  /\ xtask = "submit" => moving.output # "none"

GonePad ==
  /\ xin.gone => xin.device # NoPad /\ Away(xin.device)
  /\ xin.device # NoPad /\ Away(xin.device) => \A t \in PadTransfers : moving[t] # "flying"
  /\ xtask = "look" /\ xin.gone => \A t \in PadTransfers : moving[t] \in {"none", "idle"}

XinSteps ==
  ~torn => /\ xtask \in Opening => OpeningPad
           /\ GonePad
           /\ xtask \notin Opening =>
                IF xin.device = NoPad
                THEN held = {} /\ ~claimed /\ ~pressed /\ \A t \in PadTransfers : moving[t] = "none"
                ELSE held = {xin.device} \X Parts /\ claimed

PadInv == PadTypes /\ HidSteps /\ HidSettles /\ Notices /\ XinSteps

USE DEF Pads, NoPad, PadTransfers

(* Pads are numbered.                                                         *)
LEMMA Bound == MaxPlugs \in Nat
BY GamepadsAssumption

--------------------------------------------------------------------------
(* Before a pad is plugged in nothing is held and nothing shown.              *)
LEMMA PadStart == GamepadsInit => PadInv
<1> SUFFICES ASSUME GamepadsInit PROVE PadInv
  OBVIOUS
<1> USE DEF GamepadsInit
<1>1. BusTypes
  BY EmptySeq, Bound DEF BusTypes, Counts
<1>2. XinTypes
  <2>1. xin \in XinputContext
    BY DEF XinputContext
  <2> QED BY <2>1 DEF XinTypes, Phases
<1>3. HidTypes /\ HidSteps /\ HidSettles
  BY DEF HidTypes, HidTask, HidSteps, HidSettles
<1>4. Notices
  BY DEF Notices
<1>5. XinSteps
  BY DEF XinSteps, GonePad, Opening
<1> QED BY <1>1, <1>2, <1>3, <1>4, <1>5 DEF PadInv, PadTypes

(* A call that works or fails counts no pad.                                  *)
LEMMA CallCounts ==
  ASSUME BusTypes, UNCHANGED counts \/ \E p : Works(p) \/ Fails(p)
  PROVE  counts' \in Counts /\ counts'.plugs = counts.plugs
BY DEF BusTypes, Counts, Works, Fails

(* A queue with one more entry.                                               *)
LEMMA Queued ==
  ASSUME NEW S, NEW s \in Seq(S), NEW x \in S
  PROVE  /\ Append(s, x) \in Seq(S)
         /\ \A i \in 1 .. Len(Append(s, x)) :
              (i \in 1 .. Len(s) /\ Append(s, x)[i] = s[i]) \/ Append(s, x)[i] = x
BY AppendProperties, LenProperties

(* The gamepad task and its driver leave what the XInput task goes by, and    *)
(* the other way round.                                                       *)
LEMMA XinFrame ==
  ASSUME XinTypes, Notices, XinSteps, UNCHANGED <<attached, messages, xinVars>>,
         counts'.plugs = counts.plugs
  PROVE  XinTypes' /\ Notices' /\ XinSteps'
BY DEF XinTypes, Notices, XinSteps, OpeningPad, GonePad, Away, xinVars

\* What leaves the pads alone keeps what is known of them.
LEMMA HidFrame ==
  ASSUME HidTypes, HidSteps, HidSettles, UNCHANGED hidVars
  PROVE  HidTypes' /\ HidSteps' /\ HidSettles'
BY DEF HidTypes, HidSteps, HidSettles, hidVars

(* Each call of the gamepad task, and the callback of the driver at any       *)
(* moment, keep the account of the opening.                                   *)
LEMMA HidTaskKeeps == PadInv /\ (GamepadTask \/ HidDriver) => PadInv'
<1> SUFFICES ASSUME PadInv, GamepadTask \/ HidDriver PROVE PadInv'
  OBVIOUS
<1> USE DEF PadInv, PadTypes
<1>1. UNCHANGED counts \/ \E p : Works(p) \/ Fails(p)
  BY DEF GamepadTask, HidDriver, TakeFound, HidOpen, HidGivesUp, HidPublish, HidActivate, HidStart,
         HidStartFails, HidGone
<1>2. UNCHANGED <<attached, messages, hids, xinVars>> /\ (found' # found => TakeFound)
  BY DEF GamepadTask, HidDriver, TakeFound, HidOpen, HidGivesUp, HidPublish, HidActivate, HidStart,
         HidStartFails, HidGone, busVars
<1>3. XinTypes' /\ Notices' /\ XinSteps'
  BY <1>1, <1>2, CallCounts, XinFrame
<1>4. BusTypes'
  <2>1. found' \in Seq(Pads)
    BY <1>2, HeadTailProperties DEF TakeFound, BusTypes
  <2> QED BY <1>1, <1>2, <2>1, CallCounts DEF BusTypes
<1>5. HidTypes' /\ HidSteps' /\ HidSettles'
  <2> USE DEF HidTypes, HidTask, HidSteps, HidSettles
  <2>1. CASE TakeFound
    <3>1. Head(found) \in Pads
      BY <2>1, HeadTailProperties DEF TakeFound, BusTypes
    <3>2. CASE hactive = NoPad /\ Head(found) \in attached
      <4>1. hconnected' = FALSE /\ hopen' = {} /\ hactive' = NoPad
        BY <2>1, <3>2 DEF TakeFound
      <4>2. htask' = [step |-> "open", pad |-> Head(found)]
        BY <2>1, <3>2 DEF TakeFound
      <4>3. htask' \in HidTask /\ htask'.step = "open" /\ htask'.pad # NoPad
        BY <3>1, <4>2
      <4> HIDE DEF PadInv
      <4> QED BY <4>1, <4>3
    <3>3. CASE ~(hactive = NoPad /\ Head(found) \in attached)
      BY <2>1, <3>3 DEF TakeFound
    <3> QED BY <3>2, <3>3
  <2>2. CASE HidOpen
    BY <2>2 DEF HidOpen, HidStep, Works, BusTypes
  <2>3. CASE HidGivesUp
    BY <2>3 DEF HidGivesUp, HidDone
  <2>4. CASE HidPublish
    BY <2>4 DEF HidPublish, HidStep
  <2>5. CASE HidActivate
    BY <2>5 DEF HidActivate, HidStep
  <2>6. CASE HidStart
    <3>1. hactive = htask.pad /\ hconnected /\ hopen = {htask.pad} /\ htask.pad # NoPad
      BY <2>6 DEF HidStart
    <3> QED BY <2>6, <3>1 DEF HidStart, HidDone
  <2>7. CASE HidStartFails
    BY <2>7 DEF HidStartFails, HidDone
  <2>8. ASSUME NEW p \in hopen, HidGone(p)
        PROVE  HidTypes' /\ HidSteps' /\ HidSettles'
    BY <2>8 DEF HidGone
  <2> QED BY <2>1, <2>2, <2>3, <2>4, <2>5, <2>6, <2>7, <2>8 DEF GamepadTask, HidDriver
<1> QED BY <1>3, <1>4, <1>5

(* A pad comes, under an address that no notice and no device has.            *)
LEMMA PlugKeeps == PadInv /\ Plug => PadInv'
<1> SUFFICES ASSUME PadInv, Plug PROVE PadInv'
  OBVIOUS
<1> USE DEF PadInv, PadTypes
<1>1. HidTypes' /\ HidSteps' /\ HidSettles' /\ XinTypes'
  BY HidFrame DEF Plug, XinTypes, xinVars
<1>2. /\ counts'.plugs = counts.plugs + 1 /\ counts.plugs \in Nat /\ counts' \in Counts
      /\ counts.plugs + 1 \in Pads
  <2>1. counts \in Counts /\ counts.plugs < MaxPlugs
    BY DEF BusTypes, Plug
  <2>2. counts' = [counts EXCEPT !.plugs = counts.plugs + 1]
    BY DEF Plug
  <2> HIDE DEF PadInv
  <2> QED BY <2>1, <2>2, Bound DEF Counts
<1>3. /\ attached' = attached \cup {counts.plugs + 1} /\ UNCHANGED xinVars
      /\ messages' = Append(messages, <<"new", counts.plugs + 1>>)
      /\ hids' \subseteq hids \cup {counts.plugs + 1}
      /\ found' = found \/ found' = Append(found, counts.plugs + 1)
  BY DEF Plug
<1>4. /\ messages' \in Seq(Messages)
      /\ \A i \in 1 .. Len(messages') :
           \/ i \in 1 .. Len(messages) /\ messages'[i] = messages[i]
           \/ messages'[i] = <<"new", counts.plugs + 1>>
  <2>1. <<"new", counts.plugs + 1>> \in Messages
    BY <1>2 DEF Messages
  <2> QED BY <1>3, <2>1, Queued DEF BusTypes
<1>5. BusTypes'
  <2>1. found' \in Seq(Pads)
    <3>1. Append(found, counts.plugs + 1) \in Seq(Pads)
      BY <1>2, Queued DEF BusTypes
    <3> QED BY <1>3, <3>1 DEF BusTypes
  <2> QED BY <1>2, <1>3, <1>4, <2>1 DEF BusTypes
<1>6. Notices'
  <2>1. counts.plugs + 1 \notin 1 .. counts.plugs
    BY <1>2
  <2>2. xin.device \in Int /\ xin.pending \in Int
    BY DEF XinTypes, XinputContext
  <2>3. \A i \in 1 .. Len(messages) : messages[i][2] \in Int
    BY ElementOfSeq DEF BusTypes, Messages
  <2>4. ASSUME NEW i \in 1 .. Len(messages')
        PROVE  /\ messages'[i][2] <= counts'.plugs
               /\ messages'[i][1] = "gone" => messages'[i][2] \notin attached'
    <3>1. CASE i \in 1 .. Len(messages) /\ messages'[i] = messages[i]
      <4>1. /\ messages[i][2] \in Int /\ messages[i][2] <= counts.plugs
            /\ messages[i][1] = "gone" => messages[i][2] \notin attached
        BY <3>1, <2>3 DEF Notices
      <4> HIDE DEF PadInv
      <4> QED BY <1>2, <1>3, <3>1, <4>1
    <3>2. CASE messages'[i] = <<"new", counts.plugs + 1>>
      BY <1>2, <3>2
    <3> QED BY <1>4, <3>1, <3>2
  <2>5. xin'.device <= counts'.plugs /\ xin'.pending <= counts'.plugs
    BY <1>2, <1>3, <2>2 DEF Notices, xinVars
  <2>6. attached' \subseteq 1 .. counts'.plugs
    <3>1. attached \subseteq 1 .. counts.plugs
      BY DEF Notices
    <3>2. \A q \in 1 .. counts.plugs : q \in 1 .. counts.plugs + 1
      BY <1>2
    <3>3. counts.plugs + 1 \in 1 .. counts.plugs + 1
      BY <1>2
    <3> HIDE DEF PadInv
    <3> QED BY <1>2, <1>3, <3>1, <3>2, <3>3
  <2> QED BY <2>4, <2>5, <2>6 DEF Notices
<1>7. XinSteps'
  <2>1. xin.device \in Int
    BY DEF XinTypes, XinputContext
  <2>2. xin.device # NoPad => (Away(xin.device) <=> Away(xin.device)')
    <3>1. xin.device <= counts.plugs
      BY DEF Notices
    <3> HIDE DEF PadInv
    <3> QED BY <1>2, <1>3, <2>1, <3>1 DEF Away, xinVars
  <2> QED BY <1>3, <2>2 DEF XinSteps, OpeningPad, GonePad, xinVars
<1> QED BY <1>1, <1>5, <1>6, <1>7

(* A pad goes: what was on its way for it comes back.                         *)
LEMMA UnplugKeeps ==
  ASSUME PadInv, NEW p \in attached, Unplug(p)
  PROVE  PadInv'
<1> USE DEF PadInv, PadTypes
<1>1. HidTypes' /\ HidSteps' /\ HidSettles'
  BY HidFrame DEF Unplug
<1>2. p \in Pads /\ p <= counts.plugs /\ counts.plugs \in Nat
  <2>1. counts.plugs \in Nat /\ p \in Pads
    BY Bound DEF BusTypes, Counts
  <2> QED BY <2>1 DEF Notices
<1>3. /\ attached' = attached \ {p} /\ UNCHANGED <<hids, found, counts, xtask, xin, claimed>>
      /\ UNCHANGED <<pressed, held, torn>>
      /\ messages' = messages \/ messages' = Append(messages, <<"gone", p>>)
  BY DEF Unplug
<1>4. /\ messages' \in Seq(Messages)
      /\ \A i \in 1 .. Len(messages') :
           \/ i \in 1 .. Len(messages) /\ messages'[i] = messages[i]
           \/ messages'[i] = <<"gone", p>>
  <2>1. <<"gone", p>> \in Messages
    BY <1>2 DEF Messages
  <2>2. CASE messages' = messages
    BY <2>2 DEF BusTypes
  <2>3. CASE messages' = Append(messages, <<"gone", p>>)
    BY <2>1, <2>3, Queued DEF BusTypes
  <2> QED BY <1>3, <2>2, <2>3
<1>5. /\ moving' \in [PadTransfers -> Phases]
      /\ \A t \in PadTransfers :
           /\ moving'[t] = moving[t] \/ (moving[t] = "flying" /\ moving'[t] = "gone")
           /\ xin.device = p /\ <<p, "device">> \in held => moving'[t] # "flying"
  <2>0. moving \in [PadTransfers -> Phases]
    BY DEF XinTypes
  <2> HIDE DEF PadInv
  <2>1. CASE xin.device = p /\ <<p, "device">> \in held
    <3>1. moving' = [t \in PadTransfers |-> IF moving[t] = "flying" THEN "gone" ELSE moving[t]]
      BY <2>1 DEF Unplug
    <3> QED BY <2>0, <3>1 DEF Phases
  <2>2. CASE ~(xin.device = p /\ <<p, "device">> \in held)
    <3>1. moving' = moving
      BY <2>2 DEF Unplug
    <3> QED BY <2>0, <2>2, <3>1
  <2> QED BY <2>1, <2>2
<1>6. BusTypes' /\ XinTypes'
  BY <1>3, <1>4, <1>5 DEF BusTypes, XinTypes
<1>7. Notices'
  <2>4. ASSUME NEW i \in 1 .. Len(messages')
        PROVE  /\ messages'[i][2] <= counts'.plugs
               /\ messages'[i][1] = "gone" => messages'[i][2] \notin attached'
    BY <1>2, <1>3, <1>4 DEF Notices
  <2> QED BY <1>3, <2>4 DEF Notices
<1>8. XinSteps'
  <2> SUFFICES ASSUME ~torn PROVE XinSteps'
    BY <1>3 DEF XinSteps
  <2>1. ASSUME xtask \in Opening PROVE OpeningPad'
    BY <1>3, <1>5, <2>1 DEF OpeningPad, XinSteps
  <2>2. GonePad'
    <3>1. ASSUME xin.device # NoPad, Away(xin.device)', NEW t \in PadTransfers
          PROVE  moving'[t] # "flying"
      <4>1. CASE xin.device # p
        BY <1>3, <1>5, <3>1, <4>1 DEF XinSteps, GonePad, Away
      <4>2. CASE xin.device = p /\ <<p, "device">> \in held
        BY <1>5, <4>2
      <4>3. CASE xin.device = p /\ <<p, "device">> \notin held
        <5>1. moving[t] = "none"
          BY <3>1, <4>3 DEF XinSteps, OpeningPad, HeldAt, Parts, Opening, XinTypes
        <5> QED BY <1>5, <5>1
      <4> QED BY <4>1, <4>2, <4>3
    <3>2. xin.gone => Away(xin.device)'
      BY <1>3 DEF XinSteps, GonePad, Away
    <3> QED BY <1>3, <1>5, <3>1, <3>2 DEF XinSteps, GonePad
  <2>3. ASSUME xtask \notin Opening, xin.device = NoPad
        PROVE  \A t \in PadTransfers : moving'[t] = "none"
    BY <1>5, <2>3 DEF XinSteps
  <2> QED BY <1>3, <2>1, <2>2, <2>3 DEF XinSteps
<1> QED BY <1>1, <1>6, <1>7, <1>8

(* A transfer ends on the wire.                                               *)
LEMMA CompleteKeeps ==
  ASSUME PadInv, NEW t \in PadTransfers, NEW how \in {"down", "up", "done", "error"}, Complete(t, how)
  PROVE  PadInv'
<1> USE DEF PadInv, PadTypes
<1>1. HidTypes' /\ HidSteps' /\ HidSettles'
  BY HidFrame DEF Complete
<1>2. /\ UNCHANGED <<attached, hids, messages, found, xtask, xin, claimed, pressed, held, torn>>
      /\ counts' \in Counts /\ counts'.plugs = counts.plugs
  BY SMTT(30) DEF Complete, busVars, BusTypes, Counts
<1>3. /\ moving' \in [PadTransfers -> Phases] /\ moving[t] = "flying"
      /\ \A u \in PadTransfers : moving'[u] = IF u = t THEN how ELSE moving[u]
  BY DEF Complete, XinTypes, Phases
<1>4. BusTypes' /\ XinTypes' /\ Notices'
  BY <1>2, <1>3 DEF BusTypes, XinTypes, Notices
<1>5. XinSteps'
  <2>1. ASSUME ~torn, xtask \in Opening PROVE OpeningPad'
    BY <1>2, <1>3, <2>1 DEF XinSteps, OpeningPad
  <2>2. ASSUME ~torn PROVE GonePad'
    BY <1>2, <1>3, <2>2 DEF XinSteps, GonePad, Away
  <2> QED BY <1>2, <1>3, <2>1, <2>2 DEF XinSteps
<1> QED BY <1>1, <1>4, <1>5

(* The XInput task between its callbacks: it lets go of a pad, or takes one.  *)
LEMMA LookKeeps == PadInv /\ (Close \/ Look \/ HandleReturns) => PadInv'
<1> SUFFICES ASSUME PadInv, Close \/ Look \/ HandleReturns PROVE PadInv'
  OBVIOUS
<1> USE DEF PadInv, PadTypes
<1>1. UNCHANGED <<attached, hids, messages, found, counts, hidVars, torn>>
  BY DEF Close, Look, HandleReturns, busVars
<1>2. BusTypes' /\ HidTypes' /\ HidSteps' /\ HidSettles'
  BY <1>1, HidFrame DEF BusTypes
<1>3. CASE Close
  <2>1. /\ xtask' = "look" /\ xtask = "look" /\ xin.gone /\ pressed' = FALSE /\ claimed' = FALSE
        /\ held' = StillHeld(xin.device) /\ moving' = [t \in PadTransfers |-> "none"]
        /\ xin' = [xin EXCEPT !.device = NoPad, !.gone = FALSE]
    BY <1>3 DEF Close, ForgetPad
  <2>2. XinTypes'
    BY <1>1, <2>1 DEF XinTypes, XinputContext, Phases
  <2>3. Notices' /\ xin'.device = NoPad /\ xin'.gone = FALSE
    BY <1>1, <2>1, Bound DEF Notices, XinTypes, XinputContext, BusTypes, Counts
  <2>4. ASSUME ~torn PROVE held' = {}
    <3>1. held = {xin.device} \X Parts /\ \A t \in PadTransfers : moving[t] \in {"none", "idle"}
      BY <2>1, <2>4 DEF XinSteps, GonePad, Opening
    <3> QED BY <2>1, <3>1 DEF StillHeld, Underway
  <2>5. XinSteps'
    BY <1>1, <2>1, <2>3, <2>4 DEF XinSteps, GonePad, Opening
  <2> QED BY <1>2, <2>2, <2>3, <2>5
<1>4. CASE Look
  <2>1. /\ xtask = "look" /\ ~xin.gone /\ UNCHANGED <<moving, claimed, pressed, held>>
        /\ \/ /\ xin.pending # NoPad /\ xin.device = NoPad /\ xtask' = "open"
              /\ xin' = [xin EXCEPT !.pending = NoPad, !.device = xin.pending]
           \/ xtask' = "handle" /\ xin' = xin
    BY <1>4 DEF Look
  <2>2. CASE xtask' = "handle" /\ xin' = xin
    BY <1>1, <1>2, <2>1, <2>2 DEF XinTypes, Notices, XinSteps, GonePad, Away, Opening
  <2>3. CASE /\ xin.pending # NoPad /\ xin.device = NoPad /\ xtask' = "open"
             /\ xin' = [xin EXCEPT !.pending = NoPad, !.device = xin.pending]
    <3>1. XinTypes' /\ xin'.device = xin.pending /\ xin'.pending = NoPad /\ ~xin'.gone
      BY <1>1, <2>1, <2>3 DEF XinTypes, XinputContext, Opening
    <3>2. Notices'
      BY <1>1, <3>1, Bound DEF Notices, BusTypes, Counts
    <3>3. ASSUME ~torn
          PROVE  held = {} /\ ~claimed /\ ~pressed /\ \A t \in PadTransfers : moving[t] = "none"
      BY <2>1, <2>3, <3>3 DEF XinSteps, Opening
    <3>4. HeldAt("open") = {}
      BY DEF HeldAt, Parts
    <3>5. ASSUME ~torn PROVE OpeningPad' /\ GonePad'
      <4>1. held' = {xin'.device} \X HeldAt(xtask')
        BY <2>1, <2>3, <3>3, <3>4, <3>5
      <4>2. OpeningPad'
        BY <2>1, <2>3, <3>1, <3>3, <3>4, <3>5, <4>1 DEF OpeningPad
      <4>3. GonePad'
        BY <2>1, <2>3, <3>1, <3>3, <3>5 DEF GonePad
      <4> QED BY <4>2, <4>3
    <3>6. XinSteps'
      BY <1>1, <2>3, <3>5 DEF XinSteps, Opening
    <3> QED BY <1>2, <3>1, <3>2, <3>6
  <2> QED BY <2>1, <2>2, <2>3
<1>5. CASE HandleReturns
  <2>1. /\ xtask = "handle" /\ xtask' = "look" /\ UNCHANGED <<xin, moving, claimed, pressed, held>>
        /\ \A t \in PadTransfers : moving[t] \in {"none", "idle", "flying"}
    BY <1>5 DEF HandleReturns
  <2> QED BY <1>1, <1>2, <2>1 DEF XinTypes, Notices, XinSteps, GonePad, Away, Opening
<1> QED BY <1>3, <1>4, <1>5

(* What is held grows call by call.                                           *)
LEMMA HeldTable ==
  /\ HeldAt("open") = {} /\ HeldAt("find") = {"device"} /\ HeldAt("claim") = {"device"}
  /\ HeldAt("input") = {"device", "interface"}
  /\ HeldAt("output") = {"device", "interface", "input"}
  /\ HeldAt("publish") = Parts /\ HeldAt("led") = Parts /\ HeldAt("submit") = Parts
BY DEF HeldAt, Parts

(* The calls that open a pad, each with what it acquires.                     *)
LEMMA OpenKeeps ==
  ASSUME PadInv,
         \/ OpenDevice \/ FindInterface \/ ClaimInterface \/ Publish \/ SetLights \/ Submit
         \/ \E t \in PadTransfers : Allocate(t)
  PROVE  PadInv'
<1> USE DEF PadInv, PadTypes
<1>1. /\ xtask \in Opening /\ xtask' = Following[xtask]
      /\ UNCHANGED <<attached, hids, messages, found, torn, hidVars>>
  BY DEF OpenDevice, FindInterface, ClaimInterface, Publish, SetLights, Submit, Allocate, OpenStep,
         busVars, Opening
<1>2. counts' \in Counts /\ counts'.plugs = counts.plugs
  <2>1. UNCHANGED counts \/ \E p : Works(p) \/ Fails(p)
    BY DEF OpenDevice, FindInterface, ClaimInterface, Publish, SetLights, Submit, Allocate
  <2> QED BY <2>1, CallCounts
<1>3. BusTypes' /\ HidTypes' /\ HidSteps' /\ HidSettles'
  BY <1>1, <1>2, HidFrame DEF BusTypes
<1>4. xtask' \in {"handle"} \cup Opening
  BY <1>1 DEF Opening, Following
<1>5. xin' \in XinputContext /\ xin'.device = xin.device /\ xin'.pending = xin.pending
      /\ xin'.gone = xin.gone
  BY DEF OpenDevice, FindInterface, ClaimInterface, Publish, SetLights, Submit, Allocate, XinTypes,
         XinputContext
<1>6. XinTypes'
  BY <1>1, <1>4, <1>5, ZenonT(60)
     DEF OpenDevice, FindInterface, ClaimInterface, Publish, SetLights, Submit, Allocate, XinTypes, Phases
<1>7. Notices'
  BY <1>1, <1>2, <1>5 DEF Notices
<1>8. ASSUME ~torn
      PROVE  /\ GonePad' /\ xin.device # NoPad
             /\ xtask' \in Opening => OpeningPad'
             /\ xtask' = "handle" => held' = {xin.device} \X Parts /\ claimed'
  <2>0. OpeningPad /\ GonePad
    BY <1>1, <1>8 DEF XinSteps
  <2>1. /\ xin.device # NoPad /\ ~xin.gone /\ ~pressed /\ ~pressed'
        /\ held = {xin.device} \X HeldAt(xtask)
    BY <2>0 DEF OpeningPad, OpenDevice, FindInterface, ClaimInterface, Publish, SetLights, Submit,
       Allocate
  <2>2. GonePad'
    <3>1. ASSUME NEW t \in PadTransfers, moving'[t] = "flying"
          PROVE  moving[t] = "flying" \/ xin.device \in attached
      BY <3>1 DEF OpenDevice, FindInterface, ClaimInterface, Publish, SetLights, Submit, Allocate,
         XinTypes, Works
    <3> QED BY <1>1, <1>2, <1>5, <2>0, <2>1, <3>1 DEF GonePad, Away
  <2>3. CASE OpenDevice \/ FindInterface
    <3>1. /\ UNCHANGED <<claimed, moving>>
          /\ \/ xtask = "open" /\ xtask' = "find" /\ held' = held \cup {<<xin.device, "device">>}
             \/ xtask = "find" /\ xtask' = "claim" /\ held' = held
      BY <2>3 DEF OpenDevice, FindInterface, OpenStep, Following, Grant
    <3>2. held' = {xin.device} \X HeldAt(xtask')
      BY <2>1, <3>1, HeldTable
    <3> QED BY <1>5, <2>0, <2>1, <2>2, <3>1, <3>2, HeldTable DEF OpeningPad
  <2>4. CASE ClaimInterface
    <3>1. /\ UNCHANGED moving /\ claimed' = TRUE /\ xtask = "claim" /\ xtask' = "input"
          /\ held' = held \cup {<<xin.device, "interface">>}
      BY <2>4 DEF ClaimInterface, OpenStep, Following, Grant
    <3>2. held' = {xin.device} \X HeldAt(xtask')
      BY <2>1, <3>1, HeldTable
    <3> QED BY <1>5, <2>0, <2>1, <2>2, <3>1, <3>2, HeldTable DEF OpeningPad
  <2>5. ASSUME NEW t \in PadTransfers, Allocate(t)
        PROVE  xtask' \in Opening /\ OpeningPad'
    <3>1. /\ UNCHANGED claimed /\ moving' = [moving EXCEPT ![t] = "idle"]
          /\ held' = held \cup {<<xin.device, t>>}
          /\ \/ t = "input" /\ xtask = "input" /\ xtask' = "output"
             \/ t = "output" /\ xtask = "output" /\ xtask' = "publish"
      BY <2>5 DEF Allocate, OpenStep, Following, Grant
    <3>2. held' = {xin.device} \X HeldAt(xtask')
      BY <2>1, <3>1, HeldTable DEF Parts
    <3>3. moving'.input = "idle" /\ moving'.output = IF t = "output" THEN "idle" ELSE moving.output
      BY <2>0, <3>1, HeldTable DEF OpeningPad, XinTypes
    <3> QED BY <1>5, <2>0, <2>1, <2>2, <3>1, <3>2, <3>3, HeldTable DEF OpeningPad, Opening, Parts
  <2>6. CASE Publish \/ SetLights \/ Submit
    <3>1. /\ UNCHANGED <<claimed, held>>
          /\ \/ xtask = "publish" /\ xtask' = "led" /\ moving' = moving
             \/ /\ xtask = "led" /\ xtask' = "submit"
                /\ moving' = moving \/ moving' = [moving EXCEPT !.output = "flying"]
             \/ xtask = "submit" /\ xtask' = "handle"
      BY <2>6 DEF Publish, SetLights, Submit, OpenStep, Following
    <3>2. xtask # "submit" => moving'.input = moving.input /\ moving'.output # "none"
      BY <2>0, <3>1, HeldTable DEF OpeningPad, XinTypes, Parts
    <3> QED BY <1>5, <2>0, <2>1, <2>2, <3>1, <3>2, HeldTable DEF OpeningPad, Parts, Opening
  <2>7. "handle" \notin Opening
    BY DEF Opening
  <2> QED BY <2>1, <2>2, <2>3, <2>4, <2>5, <2>6, <2>7
<1>9. XinSteps'
  BY <1>1, <1>4, <1>5, <1>8 DEF XinSteps
<1> QED BY <1>3, <1>6, <1>7, <1>9

(* A call that fails, at whatever step: what was acquired is given back.      *)
LEMMA OpenFailsKeeps == PadInv /\ OpenFails => PadInv'
<1> SUFFICES ASSUME PadInv, OpenFails PROVE PadInv'
  OBVIOUS
<1> USE DEF PadInv, PadTypes
<1>1. /\ xtask \in Opening /\ xtask' = "handle"
      /\ UNCHANGED <<attached, hids, messages, found, pressed, hidVars>>
      /\ torn' = (torn \/ \E t \in PadTransfers : Underway(t))
      /\ held' = StillHeld(xin.device) /\ moving' = [t \in PadTransfers |-> "none"]
      /\ claimed' = FALSE /\ xin' = [xin EXCEPT !.device = NoPad]
  BY DEF OpenFails, ForgetPad, Opening, busVars
<1>2. counts' \in Counts /\ counts'.plugs = counts.plugs
  BY DEF OpenFails, Fails, BusTypes, Counts
<1>3. BusTypes' /\ HidTypes' /\ HidSteps' /\ HidSettles'
  BY <1>1, <1>2, HidFrame DEF BusTypes
<1>4. XinTypes' /\ xin'.device = NoPad /\ xin'.pending = xin.pending /\ xin'.gone = xin.gone
  BY <1>1 DEF XinTypes, XinputContext, Phases
<1>5. Notices'
  BY <1>1, <1>2, <1>4, Bound DEF Notices, BusTypes, Counts
<1>6. ASSUME ~torn' PROVE held' = {} /\ ~pressed' /\ ~xin'.gone
  <2>1. ~torn /\ \A t \in PadTransfers : ~Underway(t)
    BY <1>1, <1>6 DEF XinTypes
  <2>2. /\ held = {xin.device} \X HeldAt(xtask) /\ ~pressed /\ ~xin.gone
    BY <1>1, <2>1 DEF XinSteps, OpeningPad
  <2>3. held' = {}
    BY <1>1, <2>1, <2>2 DEF StillHeld
  <2> QED BY <1>1, <1>4, <2>2, <2>3
<1>7. XinSteps'
  BY <1>1, <1>4, <1>6 DEF XinSteps, GonePad, Opening
<1> QED BY <1>3, <1>4, <1>5, <1>7

(* What the host's callbacks do, in any order.                                *)
LEMMA MessageKeeps == PadInv /\ HandleMessage => PadInv'
<1> SUFFICES ASSUME PadInv, HandleMessage PROVE PadInv'
  OBVIOUS
<1> USE DEF PadInv, PadTypes
<1> DEFINE p == Head(messages)[2]
<1>1. /\ UNCHANGED <<attached, hids, found, counts, xtask, moving, claimed, pressed, held, torn>>
      /\ UNCHANGED hidVars /\ xtask = "handle" /\ messages # <<>> /\ messages' = Tail(messages)
  BY DEF HandleMessage
<1>2. /\ Head(messages) \in Messages /\ messages' \in Seq(Messages)
      /\ \A i \in 1 .. Len(messages') : i + 1 \in 1 .. Len(messages) /\ messages'[i] = messages[i + 1]
      /\ Head(messages) = messages[1] /\ 1 \in 1 .. Len(messages)
  BY <1>1, HeadTailProperties, EmptySeq, LenProperties DEF BusTypes
<1>3. BusTypes' /\ HidTypes' /\ HidSteps' /\ HidSettles'
  BY <1>1, <1>2, HidFrame DEF BusTypes
<1>4. p \in Pads /\ p <= counts.plugs /\ (Head(messages)[1] = "gone" => Away(p))
  BY <1>2 DEF Messages, Notices, Away
<1>5. \/ xin' = xin
      \/ xin' = [xin EXCEPT !.pending = p]
      \/ xin' = [xin EXCEPT !.gone = TRUE] /\ xin.device = p /\ Away(p)
  BY <1>4 DEF HandleMessage, NoteGone
<1>6. /\ xin' \in XinputContext /\ xin'.device = xin.device /\ xin'.pending \in {xin.pending, p}
      /\ xin'.gone = xin.gone \/ (xin'.gone /\ xin.device = p /\ Away(p))
  BY <1>4, <1>5 DEF XinTypes, XinputContext
<1>7. XinTypes'
  BY <1>1, <1>6 DEF XinTypes
<1>8. Notices'
  BY <1>1, <1>2, <1>4, <1>6 DEF Notices
<1>9. XinSteps'
  BY <1>1, <1>4, <1>6, Bound DEF XinSteps, GonePad, Opening, Away
<1> QED BY <1>3, <1>7, <1>8, <1>9

\* The end of a transfer keeps the invariant of the pads.
LEMMA DoneKeeps == PadInv /\ (InputDone \/ OutputDone) => PadInv'
<1> SUFFICES ASSUME PadInv, InputDone \/ OutputDone PROVE PadInv'
  OBVIOUS
<1> USE DEF PadInv, PadTypes
<1>1. /\ UNCHANGED <<attached, hids, messages, found, xtask, claimed, held, torn, hidVars>>
      /\ xtask = "handle"
  BY DEF InputDone, OutputDone, busVars
<1>2. counts' \in Counts /\ counts'.plugs = counts.plugs
  <2>1. UNCHANGED counts \/ \E q : Works(q) \/ Fails(q)
    BY DEF InputDone, OutputDone
  <2> QED BY <2>1, CallCounts
<1>3. BusTypes' /\ HidTypes' /\ HidSteps' /\ HidSettles'
  BY <1>1, <1>2, HidFrame DEF BusTypes
<1>4. \E t \in PadTransfers, how \in {"flying", "idle"} :
        /\ moving[t] \notin {"none", "idle", "flying"} /\ moving' = [moving EXCEPT ![t] = how]
        /\ how = "flying" => xin.device \in attached
  BY DEF InputDone, OutputDone, Works
<1>5. PICK t \in PadTransfers, how \in {"flying", "idle"} :
        /\ moving[t] \notin {"none", "idle", "flying"} /\ moving' = [moving EXCEPT ![t] = how]
        /\ how = "flying" => xin.device \in attached
  BY <1>4
<1>6. /\ xin' \in XinputContext /\ xin'.device = xin.device /\ xin'.pending = xin.pending
      /\ xin'.gone = xin.gone /\ pressed' \in BOOLEAN
  <2>1. xin \in XinputContext /\ pressed \in BOOLEAN
    BY DEF XinTypes
  <2>2. \/ xin' = xin
        \/ \E n \in {0, 2} : xin' = [xin EXCEPT !.phase = n]
    BY DEF InputDone, OutputDone
  <2>3. xin' \in XinputContext /\ \A f \in {"device", "pending", "gone"} : xin'[f] = xin[f]
    BY <2>1, <2>2 DEF XinputContext
  <2>4. pressed' \in BOOLEAN
    BY <2>1 DEF InputDone, OutputDone
  <2> QED BY <2>3, <2>4
<1>7. moving' \in [PadTransfers -> Phases] /\ \A u \in PadTransfers : u # t => moving'[u] = moving[u]
  BY <1>5 DEF XinTypes, Phases
<1>8. XinTypes' /\ Notices'
  BY <1>1, <1>2, <1>6, <1>7 DEF XinTypes, Notices
<1>9. XinSteps'
  <2>1. ASSUME ~torn PROVE xin.device # NoPad /\ GonePad'
    BY <1>1, <1>2, <1>5, <1>6, <1>7, <2>1 DEF XinSteps, GonePad, Opening, Away
  <2> QED BY <1>1, <1>6, <2>1 DEF XinSteps, Opening
<1> QED BY <1>3, <1>8, <1>9

--------------------------------------------------------------------------
\* Every step of the pads keeps their invariant.
LEMMA PadKept == PadInv /\ [GamepadsNext]_padVars => PadInv'
<1> SUFFICES ASSUME PadInv, [GamepadsNext]_padVars PROVE PadInv'
  OBVIOUS
<1>1. CASE UNCHANGED padVars
  BY <1>1 DEF PadInv, PadTypes, BusTypes, XinTypes, HidTypes, HidSteps, HidSettles, Notices, XinSteps,
     OpeningPad, GonePad, Away, padVars, busVars, xinVars, hidVars
<1>2. CASE XinputTask
  BY <1>2, LookKeeps, OpenKeeps, OpenFailsKeeps, MessageKeeps, DoneKeeps DEF XinputTask
<1>3. CASE \/ \E how \in {"down", "up", "error"} : Complete("input", how)
           \/ \E how \in {"done", "error"} : Complete("output", how)
  BY <1>3, CompleteKeeps
<1> QED BY <1>1, <1>2, <1>3, PlugKeeps, UnplugKeeps, HidTaskKeeps DEF GamepadsNext

(* The types of the gamepads' variables, the steps of both tasks and the      *)
(* notices of the host (korvo1_usb_xinput.c, korvo1_usb_gamepad.c) stay in    *)
(* agreement.                                                                 *)
THEOREM PadsInvariant == GamepadsSpec => []PadInv
<1> QED BY PadStart, PadKept, PTL DEF GamepadsSpec

\* The invariant of the pads contains their types.
LEMMA PadTypesOK == PadInv => GamepadsTypeOK
BY DEF PadInv, PadTypes, BusTypes, XinTypes, HidTypes, XinputContext, GamepadsTypeOK, Opening,
   Following

(* The gamepads' variables keep their types.                                  *)
THEOREM PadsTyped == GamepadsSpec => []GamepadsTypeOK
BY PadTypesOK, PadsInvariant, PTL

(* However many pads are plugged in and pulled out, and whatever call fails,  *)
(* close_xinput_device and open_xinput_device leave nothing held without a    *)
(* pad and no button pressed.                                                 *)
THEOREM PadsClean == GamepadsSpec => []ClosedIsClean
<1>1. PadInv => ClosedIsClean
  BY DEF PadInv, XinSteps, ClosedIsClean, Opening, Parts
<1> QED BY <1>1, PadsInvariant, PTL

(* Wherever hid_interface_callback comes between the steps of                 *)
(* open_hid_interface, the task ends with one open interface, or with none.   *)
THEOREM HidEnds == GamepadsSpec => []HidSettles
<1>1. PadInv => HidSettles
  BY DEF PadInv
<1> QED BY <1>1, PadsInvariant, PTL

(*--------------------------- the ROM loader ------------------------------*)

(* The page p was compared with those before it.                              *)
Scanned(p) ==
  /\ canon[p] \in 1 .. p /\ canon[canon[p]] = canon[p]
  /\ hash[canon[p]] = hash[p]

Planned == {"plan", "load", "compare", "erase", "verify", "map", "done"}
Placed == Planned \ {"plan"}
InFlash == {"compare", "erase", "verify"}

(* Pages that were loaded, or are in the flash ready to be mapped.            *)
Ready ==
  IF mode \in {"load"} \cup InFlash THEN 1 .. page - 1
  ELSE IF mode \in {"map", "done"} THEN 1 .. count
  ELSE {}

RomTypes ==
  /\ card \in Files
  /\ mode \in {"idle", "scan"} \cup Planned
  /\ page \in PageNums /\ count \in 0 .. MaxPages
  /\ hash \in [PageNums -> Nat] /\ canon \in [PageNums -> 0 .. MaxPages]
  /\ psram \in [PsramPool -> Contents \cup {Blank}]
  /\ flash \in [Partition -> Contents \cup {Blank, Torn}]
  /\ seen \in [PageNums -> Contents \cup {Blank}]
  /\ changes \in 0 .. MaxChanges

Pointers ==
  pointer \in [PageNums -> {NoPage} \cup ({"psram"} \X PsramPool) \cup ({"flash"} \X Partition)]

(* How far the scan and the plan are.                                         *)
Progress ==
  /\ mode \in {"scan"} \cup Planned => page <= count
  /\ mode = "scan" => \A p \in 1 .. page - 1 : Scanned(p)
  /\ mode \in Planned => \A p \in 1 .. count : Scanned(p)
  /\ mode \in Placed => Fits

(* What was read of a page has the hash of the scan, and is where its plan    *)
(* says it is.                                                                *)
Read(p) == seen[p] \in Contents /\ Hash[seen[p]] = hash[p]

Loaded(p) ==
  /\ Read(p)
  /\ Place(p)[1] = "psram" => pointer[p] = Place(p)
  /\ canon[p] = p => Stored(Place(p)) = seen[p]
  /\ mode = "done" => pointer[p] = Place(p)

(* A page on its way to the flash.                                            *)
ToFlash ==
  /\ canon[page] = page /\ Place(page)[1] = "flash" /\ Read(page)
  /\ mode = "erase" => flash[Slot] # seen[page]

RomInv ==
  /\ RomTypes /\ Pointers /\ Progress
  /\ \A p \in Ready : Loaded(p)
  /\ mode \in InFlash => ToFlash

--------------------------------------------------------------------------
\* The files of the card have pages, and not too many.
LEMMA Lengths ==
  /\ MaxPages \in Nat \ {0}
  /\ \A f \in Files : Len(f) \in 1 .. MaxPages /\ \A p \in 1 .. Len(f) : f[p] \in Contents
<1>1. \A f \in Files : f \in Seq(Contents) /\ Len(f) \in Nat \ {0}
  BY RomLoaderAssumption, EmptySeq, LenProperties
<1>2. MaxPages \in {Len(f) : f \in Files} /\ \A f \in Files : Len(f) <= MaxPages
  <2>1. \E n \in {Len(f) : f \in Files} : \A f \in Files : Len(f) <= n
    BY RomLoaderAssumption
  <2> QED BY <2>1 DEF MaxPages
<1> QED BY <1>1, <1>2, ElementOfSeq

(* Pages that are stored have slots of their own, counted from 0 on.          *)
LEMMA SlotOrder ==
  ASSUME count \in Nat, NEW p \in Canonical
  PROVE  /\ IsFiniteSet(Canonical) /\ Cardinality(Canonical) \in Nat
         /\ SlotsBefore(p) \in Nat /\ SlotsBefore(p) < Cardinality(Canonical)
         /\ \A q \in Canonical : q < p => SlotsBefore(q) < SlotsBefore(p)
<1> DEFINE B(r) == {q \in Canonical : q < r}
<1>1. IsFiniteSet(Canonical)
  <2>1. IsFiniteSet(1 .. count)
    BY FS_Interval
  <2>2. Canonical \in SUBSET (1 .. count)
    BY DEF Canonical
  <2> QED BY <2>1, <2>2, FS_Subset
<1>2. \A r : B(r) \in SUBSET Canonical /\ IsFiniteSet(B(r)) /\ Cardinality(B(r)) \in Nat
  BY <1>1, FS_Subset, FS_CardinalityType
<1>3. Canonical \subseteq Nat
  BY DEF Canonical
<1>4. Cardinality(Canonical) \in Nat
  BY <1>1, FS_CardinalityType
<1>5. Cardinality(B(p)) < Cardinality(Canonical)
  <2>1. p \in Canonical /\ p \notin B(p)
    BY <1>3
  <2>2. Cardinality(B(p)) <= Cardinality(Canonical) /\ B(p) # Canonical
    BY <1>1, <1>2, <2>1, FS_Subset
  <2>3. Cardinality(B(p)) # Cardinality(Canonical)
    BY <1>1, <1>2, <2>2, FS_Subset
  <2> QED BY <1>2, <1>4, <2>2, <2>3
<1>6. ASSUME NEW q \in Canonical, q < p PROVE Cardinality(B(q)) < Cardinality(B(p))
  <2>1. B(q) \in SUBSET B(p) /\ q \in B(p) /\ q \notin B(q)
    <3>1. \A r \in Canonical : r < q => r < p
      BY <1>3, <1>6
    <3>2. ~(q < q)
      BY <1>3
    <3> QED BY <1>6, <3>1, <3>2
  <2>2. Cardinality(B(q)) <= Cardinality(B(p)) /\ Cardinality(B(q)) # Cardinality(B(p))
    BY <1>2, <2>1, FS_Subset
  <2> QED BY <1>2, <2>2
<1> QED BY <1>1, <1>2, <1>4, <1>5, <1>6 DEF SlotsBefore

(* The place of a page that was planned, in the pool or in the partition; one *)
(* that is stored shares its own with none before it.                         *)
LEMMA PlaceType ==
  ASSUME RomTypes, Fits, \A p \in 1 .. count : Scanned(p), NEW p \in 1 .. count
  PROVE  /\ Place(p) \in ({"psram"} \X PsramPool) \cup ({"flash"} \X Partition)
         /\ Place(canon[p]) = Place(p) /\ canon[p] \in Canonical
         /\ Place(p)[1] = "flash" => Spill /\ Cardinality(Canonical) > PsramSlots
<1>1. count \in Nat
  BY Lengths DEF RomTypes
<1>2. canon[p] \in Canonical /\ canon[canon[p]] = canon[p]
  BY <1>1 DEF Scanned, Canonical
<1>3. Place(canon[p]) = Place(p)
  BY <1>2 DEF Place
<1> DEFINE n == SlotsBefore(canon[p])
<1>4. n \in Nat /\ n < Cardinality(Canonical) /\ Cardinality(Canonical) \in Nat
  BY <1>1, <1>2, SlotOrder
<1>5. Cardinality(Canonical) <= PsramSlots + (IF Spill THEN FlashSlots ELSE 0)
  BY DEF Fits, Capacity
<1>6. Place(p) = IF n < PsramSlots THEN <<"psram", n>> ELSE <<"flash", n - PsramSlots>>
  BY DEF Place
<1> HIDE DEF n
<1>7. CASE n < PsramSlots
  BY <1>2, <1>3, <1>4, <1>6, <1>7, RomLoaderAssumption DEF PsramPool
<1>8. CASE ~(n < PsramSlots)
  <2>1. Spill /\ Cardinality(Canonical) > PsramSlots /\ n - PsramSlots \in Partition
    BY <1>4, <1>5, <1>8, RomLoaderAssumption DEF Partition
  <2> QED BY <1>2, <1>3, <1>6, <1>8, <2>1
<1> QED BY <1>7, <1>8

\* Two pages with contents of their own have places of their own.
LEMMA PlaceOwn ==
  ASSUME RomTypes, NEW p \in Canonical, NEW q \in Canonical, Place(p) = Place(q)
  PROVE  p = q
<1>1. count \in Nat /\ p \in Nat /\ q \in Nat /\ canon[p] = p /\ canon[q] = q
  BY Lengths DEF RomTypes, Canonical
<1>2. SlotsBefore(p) \in Nat /\ SlotsBefore(q) \in Nat
  BY <1>1, SlotOrder
<1>3. SlotsBefore(p) = SlotsBefore(q)
  BY <1>1, <1>2, RomLoaderAssumption DEF Place
<1>4. ~(p < q) /\ ~(q < p)
  BY <1>1, <1>2, <1>3, SlotOrder
<1> QED BY <1>1, <1>4

(* What a step that leaves the scan's tables alone leaves.                    *)
LEMMA FileFrame ==
  ASSUME UNCHANGED file
  PROVE  /\ Canonical' = Canonical /\ Fits' = Fits
         /\ \A p : Scanned(p)' = Scanned(p) /\ Place(p)' = Place(p)
BY DEF file, Canonical, Fits, Capacity, Scanned, Place, SlotsBefore

\* A page stays loaded while nothing touches it or its place.
LEMMA LoadedFrame ==
  ASSUME UNCHANGED file, NEW p, Loaded(p), seen'[p] = seen[p], pointer'[p] = pointer[p],
         mode' # "done", canon[p] = p => Stored(Place(p))' = Stored(Place(p))
  PROVE  Loaded(p)'
BY FileFrame DEF Loaded, Read, file

(* A non-empty set of numbers has a least one.                                *)
LEMMA LeastOf ==
  ASSUME NEW S, S \subseteq Nat, S # {}
  PROVE  LET least == CHOOSE q \in S : \A r \in S : q <= r
         IN least \in S /\ \A r \in S : least <= r
<1>1. \E q \in S : \A r \in S : ~(<<r, q>> \in OpToRel(<, Nat))
  BY NatLessThanWellFounded, WFMin
<1>2. \A r, q \in S : <<r, q>> \in OpToRel(<, Nat) <=> r < q
  BY DEF OpToRel
<1>3. \E q \in S : \A r \in S : ~(r < q)
  BY <1>1, <1>2, Zenon
<1>4. \E q \in S : \A r \in S : q <= r
  BY <1>3
<1> QED BY <1>4

\* Before a card is read the invariant of the loader holds.
LEMMA RomStart == Init => RomInv
<1> SUFFICES ASSUME Init PROVE RomInv
  OBVIOUS
<1> USE Lengths, RomLoaderAssumption DEF Init, PageNums
<1>1. RomTypes
  BY DEF RomTypes
<1>2. Pointers
  BY DEF Pointers
<1>3. Progress /\ Ready = {}
  BY DEF Progress, Ready, Planned, Placed, InFlash
<1> QED BY <1>1, <1>2, <1>3 DEF RomInv, InFlash

(* A game is selected, a load is given up, power is lost: a new start.        *)
LEMMA AnewKeeps == RomInv /\ (Load \/ PowerLoss \/ Fail) => RomInv'
<1> SUFFICES ASSUME RomInv, Load \/ PowerLoss \/ Fail PROVE RomInv'
  OBVIOUS
<1> USE Lengths, RomLoaderAssumption DEF PageNums, RomInv
<1>1. mode' \in {"idle", "scan"} /\ Ready' = {} /\ changes' = changes /\ card' = card
  BY DEF Load, PowerLoss, Fail, Ready, InFlash, bounds
<1>2. RomTypes'
  <2>1. mode = "erase" => Slot \in Partition
    BY PlaceType, SMTT(30) DEF ToFlash, InFlash, Progress, Planned, Placed, RomTypes, Slot
  <2>2. flash' \in [Partition -> Contents \cup {Blank, Torn}]
    BY <2>1 DEF RomTypes, Load, PowerLoss, Fail
  <2>3. /\ count' \in 0 .. MaxPages /\ page' \in PageNums
        /\ hash' \in [PageNums -> Nat] /\ canon' \in [PageNums -> 0 .. MaxPages]
    <3>1. CASE Load
      BY <3>1 DEF RomTypes, Load
    <3>2. CASE PowerLoss
      BY <3>2 DEF PowerLoss
    <3>3. CASE Fail
      BY <3>3 DEF RomTypes, Fail, file
    <3> QED BY <3>1, <3>2, <3>3
  <2>4. /\ psram' \in [PsramPool -> Contents \cup {Blank}]
        /\ seen' \in [PageNums -> Contents \cup {Blank}]
    <3>1. CASE Load
      BY <3>1 DEF RomTypes, Load
    <3>2. CASE PowerLoss
      BY <3>2 DEF PowerLoss
    <3>3. CASE Fail
      BY <3>3 DEF RomTypes, Fail
    <3> QED BY <3>1, <3>2, <3>3
  <2> QED BY <1>1, <2>2, <2>3, <2>4 DEF RomTypes
<1>3. Pointers'
  BY DEF Pointers, Load, PowerLoss, Fail
<1>4. Progress'
  <2>1. mode' = "scan" => page' = 1 /\ count' = Len(card)
    BY DEF Load, PowerLoss, Fail
  <2> QED BY <1>1, <2>1, SMTT(30) DEF Progress, RomTypes, Planned, Placed
<1> QED BY <1>1, <1>2, <1>3, <1>4 DEF InFlash

\* A change of the card keeps the invariant of the loader.
LEMMA CardKeeps == RomInv /\ (\E f \in Files : ChangeCard(f)) => RomInv'
<1> SUFFICES ASSUME RomInv, NEW f \in Files, ChangeCard(f) PROVE RomInv'
  OBVIOUS
<1>1. UNCHANGED <<mode, page, count, hash, canon, pointer, psram, flash, seen>>
  BY DEF ChangeCard, file
<1>2. RomTypes'
  BY <1>1, RomLoaderAssumption DEF ChangeCard, RomTypes, RomInv
<1>3. UNCHANGED file
  BY <1>1 DEF file
<1>4. Pointers' /\ Progress' /\ Ready' = Ready
  BY <1>1, <1>3, FileFrame DEF Pointers, Progress, Ready, RomInv
<1>5. (mode \in InFlash => ToFlash) => (mode' \in InFlash => ToFlash')
  BY <1>1, <1>3, FileFrame DEF ToFlash, Slot, Read
<1>6. \A p : Loaded(p) => Loaded(p)'
  BY <1>1, <1>3, FileFrame DEF Loaded, Read, Stored
<1> QED BY <1>2, <1>4, <1>5, <1>6 DEF RomInv

(* A page is scanned: it is the first with its content, or its canonical page *)
(* is.                                                                        *)
LEMMA ScanKeeps == RomInv /\ ScanPage => RomInv'
<1> SUFFICES ASSUME RomInv, ScanPage PROVE RomInv'
  OBVIOUS
<1> USE DEF RomInv
<1> DEFINE same == {q \in 1 .. (page - 1) : canon[q] = q /\ Equal(q)}
           first == IF same = {} THEN page ELSE CHOOSE q \in same : \A r \in same : q <= r
<1>1. /\ mode = "scan" /\ Readable(page)
      /\ canon' = [canon EXCEPT ![page] = first]
      /\ hash' = [hash EXCEPT ![page] = Hash[card[page]]]
      /\ IF page = count THEN mode' = "plan" /\ UNCHANGED page
                         ELSE page' = page + 1 /\ UNCHANGED mode
      /\ UNCHANGED <<card, count, pointer, psram, flash, seen, changes>>
  BY DEF ScanPage, bounds
<1>2. /\ page \in Nat /\ page \in 1 .. MaxPages /\ count \in 0 .. MaxPages /\ MaxPages \in Nat
      /\ page <= count
      /\ card \in Files /\ card[page] \in Contents /\ Hash[card[page]] \in Nat
  <2>1. page \in 1 .. MaxPages /\ count \in 0 .. MaxPages /\ MaxPages \in Nat /\ page <= count
    BY <1>1, Lengths DEF RomTypes, PageNums, Progress
  <2>2. card \in Files /\ page \in 1 .. Len(card)
    BY <1>1, <2>1, Lengths DEF RomTypes, Readable
  <2>3. card[page] \in Contents
    BY <2>2, Lengths
  <2> QED BY <2>1, <2>2, <2>3, RomLoaderAssumption
<1>3. first \in 1 .. page /\ (first # page => first \in same)
  <2>1. same \subseteq Nat /\ same \subseteq 1 .. page - 1
    OBVIOUS
  <2>2. CASE same = {}
    BY <1>2, <2>2
  <2>3. CASE same # {}
    <3>1. first \in same
      BY <2>1, <2>3, LeastOf
    <3> QED BY <1>2, <2>1, <3>1
  <2> QED BY <2>2, <2>3
<1> HIDE DEF first
<1>4. RomTypes'
  <2>1. canon' \in [PageNums -> 0 .. MaxPages] /\ hash' \in [PageNums -> Nat]
    <3>1. first \in 0 .. MaxPages
      BY <1>2, <1>3
    <3> QED BY <1>1, <1>2, <3>1 DEF RomTypes
  <2>2. page' \in PageNums /\ mode' \in {"scan", "plan"}
    BY <1>1, <1>2 DEF PageNums
  <2> QED BY <1>1, <2>1, <2>2 DEF RomTypes, Planned
<1>5. ASSUME NEW p, p = page PROVE Scanned(p)'
  <2>1. canon'[page] = first /\ hash'[page] = Hash[card[page]]
    BY <1>1, <1>2 DEF RomTypes, PageNums
  <2>2. CASE first = page
    BY <1>2, <1>5, <2>1, <2>2 DEF Scanned
  <2>3. CASE first # page
    <3>1. /\ first \in 1 .. page - 1 /\ canon[first] = first /\ hash[first] = Hash[card[page]]
      BY <1>3, <2>3 DEF Equal
    <3>2. canon'[first] = canon[first] /\ hash'[first] = hash[first]
      BY <1>1, <1>2, <3>1 DEF RomTypes, PageNums
    <3> QED BY <1>2, <1>5, <2>1, <3>1, <3>2 DEF Scanned
  <2> QED BY <2>2, <2>3
<1>6. ASSUME NEW p \in 1 .. page - 1 PROVE Scanned(p)'
  <2>1. Scanned(p) /\ p \in PageNums /\ p # page /\ canon[p] \in PageNums /\ canon[p] # page
    BY <1>1, <1>2 DEF Progress, Scanned, PageNums
  <2>2. canon'[p] = canon[p] /\ canon'[canon[p]] = canon[canon[p]] /\ hash'[canon[p]] = hash[canon[p]]
        /\ hash'[p] = hash[p]
    BY <1>1, <1>2, <2>1 DEF RomTypes
  <2> QED BY <2>1, <2>2 DEF Scanned
<1>7. ASSUME NEW p \in 1 .. page PROVE Scanned(p)'
  BY <1>2, <1>5, <1>6
<1>8. Progress'
  BY <1>1, <1>2, <1>7 DEF Progress, Planned, Placed
<1>9. Ready' = {} /\ mode' \notin InFlash /\ Pointers'
  BY <1>1 DEF Ready, InFlash, Pointers
<1> QED BY <1>4, <1>8, <1>9

\* Planning where the pages go keeps it.
LEMMA PlanKeeps == RomInv /\ Plan => RomInv'
<1> SUFFICES ASSUME RomInv, Plan PROVE RomInv'
  OBVIOUS
<1> USE DEF RomInv
<1>1. /\ mode = "plan" /\ page' = 1 /\ mode' \in {"load", "idle"} /\ (mode' = "load" => Fits)
      /\ UNCHANGED <<card, count, hash, canon, pointer, psram, flash, seen, changes>>
  BY DEF Plan, file, bounds
<1>2. UNCHANGED file
  BY <1>1 DEF file
<1>3. RomTypes'
  BY <1>1, Lengths DEF RomTypes, PageNums, Planned
<1>4. count \in Nat /\ 1 <= count
  BY <1>1, Lengths DEF RomTypes, PageNums, Progress, Planned
<1>5. Progress'
  BY <1>1, <1>2, <1>4, FileFrame DEF Progress, Planned, Placed
<1>6. Ready' = {} /\ mode' \notin InFlash /\ Pointers'
  BY <1>1 DEF Ready, InFlash, Pointers
<1> QED BY <1>3, <1>5, <1>6

(* What every step of the load has in common.                                 *)
LEMMA LoadBasis ==
  ASSUME RomInv, mode \in Placed
  PROVE  /\ count \in Nat /\ page \in Nat /\ page \in 1 .. count /\ page \in PageNums
         /\ count <= MaxPages /\ MaxPages \in Nat
         /\ \A p \in 1 .. count :
              /\ p \in PageNums /\ canon[p] \in 1 .. p /\ Scanned(p)
              /\ Place(p) \in ({"psram"} \X PsramPool) \cup ({"flash"} \X Partition)
              /\ Place(canon[p]) = Place(p) /\ canon[p] \in Canonical
              /\ Place(p)[1] = "flash" => Spill /\ Cardinality(Canonical) > PsramSlots
         /\ Fits
<1>1. /\ count \in Nat /\ page \in Nat /\ page \in 1 .. count /\ page \in PageNums
      /\ count <= MaxPages /\ MaxPages \in Nat
  BY Lengths DEF RomInv, RomTypes, PageNums, Progress, Placed
<1>2. RomTypes /\ Fits /\ \A p \in 1 .. count : Scanned(p)
  BY DEF RomInv, Progress, Placed
<1>3. \A p \in 1 .. count : p \in PageNums /\ canon[p] \in 1 .. p
  BY <1>1, <1>2 DEF Scanned, PageNums
<1> QED BY <1>1, <1>2, <1>3, PlaceType

(* A page is in its place: the next one follows, or the mapping.              *)
LEMMA PageDone ==
  ASSUME RomInv, mode \in {"load"} \cup InFlash, NextPage, UNCHANGED file,
         \A p \in 1 .. page : Loaded(p)'
  PROVE  /\ Progress' /\ (\A p \in Ready' : Loaded(p)')
         /\ mode' \in {"load", "map"} /\ mode' \notin InFlash /\ page' \in PageNums
<1>1. mode \in Placed
  BY DEF Placed, Planned, InFlash
<1>2. /\ count \in Nat /\ page \in Nat /\ page \in 1 .. count /\ count <= MaxPages /\ MaxPages \in Nat
      /\ \A p \in 1 .. count : Scanned(p)
      /\ Fits
  BY <1>1, LoadBasis
<1>3. \/ page = count /\ mode' = "map" /\ page' = page
      \/ page # count /\ mode' = "load" /\ page' = page + 1
  BY DEF NextPage
<1>4. page' \in 1 .. count /\ page' \in PageNums /\ count' = count
  BY <1>2, <1>3 DEF PageNums, file
<1>5. Ready' = 1 .. page
  <2>1. 1 .. (page + 1) - 1 = 1 .. page
    BY <1>2
  <2> QED BY <1>3, <1>4, <2>1 DEF Ready, InFlash
<1>6. Progress'
  <2>1. Fits' /\ \A p \in 1 .. count' : Scanned(p)'
    BY <1>2, <1>4, FileFrame
  <2>2. page' <= count' /\ mode' # "scan"
    BY <1>2, <1>3, <1>4
  <2> QED BY <2>1, <2>2 DEF Progress
<1> QED BY <1>3, <1>4, <1>5, <1>6 DEF InFlash

(* The page is read again, with the hash it had.                              *)
LEMMA RereadReads ==
  ASSUME RomInv, Reread
  PROVE  /\ mode = "load" /\ mode \in Placed /\ Ready = 1 .. page - 1
         /\ seen' \in [PageNums -> Contents \cup {Blank}]
         /\ seen'[page] = card[page] /\ card[page] \in Contents /\ Hash[card[page]] = hash[page]
         /\ \A p \in Ready : seen'[p] = seen[p]
<1>1. mode = "load" /\ mode \in Placed /\ Ready = 1 .. page - 1
  BY DEF Reread, Ready, Placed, Planned
<1>2. page \in Nat /\ page \in PageNums /\ page \in 1 .. count /\ count <= MaxPages /\ count \in Nat
      /\ MaxPages \in Nat
  BY <1>1, LoadBasis
<1>3. card \in Files /\ page \in 1 .. Len(card)
  BY <1>2, Lengths DEF Reread, Readable, RomInv, RomTypes
<1>4. card[page] \in Contents /\ Hash[card[page]] = hash[page]
  BY <1>3, Lengths DEF Reread, ScannedHash
<1>5. seen' = [seen EXCEPT ![page] = card[page]] /\ seen \in [PageNums -> Contents \cup {Blank}]
  BY DEF Reread, RomInv, RomTypes
<1>6. \A p \in Ready : p # page /\ p \in PageNums
  BY <1>1, <1>2 DEF PageNums
<1> QED BY <1>1, <1>2, <1>4, <1>5, <1>6

\* A page that was seen before keeps it.
LEMMA DuplicateKeeps == RomInv /\ LoadDuplicate => RomInv'
<1> SUFFICES ASSUME RomInv, LoadDuplicate PROVE RomInv'
  OBVIOUS
<1>1. /\ Reread /\ canon[page] # page /\ NextPage
      /\ pointer' = IF Place(page)[1] = "psram"
                    THEN [pointer EXCEPT ![page] = pointer[canon[page]]] ELSE pointer
      /\ UNCHANGED <<card, file, psram, flash, changes>>
  BY DEF LoadDuplicate, bounds
<1>2. /\ mode = "load" /\ mode \in Placed /\ Ready = 1 .. page - 1
      /\ seen' \in [PageNums -> Contents \cup {Blank}]
      /\ seen'[page] = card[page] /\ card[page] \in Contents /\ Hash[card[page]] = hash[page]
      /\ \A p \in Ready : seen'[p] = seen[p]
  BY <1>1, RereadReads
<1>3. /\ page \in Nat /\ page \in PageNums /\ page \in 1 .. count
      /\ canon[page] \in 1 .. page /\ count <= MaxPages /\ MaxPages \in Nat /\ count \in Nat
      /\ Place(page) \in ({"psram"} \X PsramPool) \cup ({"flash"} \X Partition)
      /\ Place(canon[page]) = Place(page)
  BY <1>2, LoadBasis
<1>4. canon[page] \in Ready /\ canon[page] \in PageNums
  <2>1. canon[page] \in 1 .. page - 1
    BY <1>1, <1>3
  <2> QED BY <1>2, <1>3, <2>1 DEF PageNums
<1>5. pointer \in [PageNums -> {NoPage} \cup ({"psram"} \X PsramPool) \cup ({"flash"} \X Partition)]
  BY DEF RomInv, Pointers
<1>6. Place(page)[1] = "psram" => pointer'[page] = Place(page)
  BY <1>1, <1>3, <1>4, <1>5 DEF RomInv, Loaded
<1>7. Pointers'
  BY <1>1, <1>4, <1>5 DEF Pointers
<1>8. mode' \in {"load", "map"}
  BY <1>1 DEF NextPage
<1>9. ASSUME NEW p \in 1 .. page PROVE Loaded(p)'
  <2>1. CASE p \in Ready
    <3>1. pointer'[p] = pointer[p] /\ Stored(Place(p))' = Stored(Place(p)) /\ Loaded(p)
      <4>1. p # page
        BY <1>2, <1>3, <2>1
      <4>2. Place(p)' = Place(p)
        BY <1>1, FileFrame
      <4>3. Stored(Place(p))' = Stored(Place(p))
        BY <1>1, <4>2 DEF Stored
      <4> QED BY <1>1, <1>5, <2>1, <4>1, <4>3 DEF RomInv
    <3> QED BY <1>1, <1>2, <1>8, <2>1, <3>1, LoadedFrame
  <2>2. CASE p = page
    BY <1>1, <1>2, <1>6, <1>8, <2>2, FileFrame DEF Loaded, Read, file
  <2> QED BY <1>2, <1>3, <2>1, <2>2
<1>10. /\ Progress' /\ (\A p \in Ready' : Loaded(p)')
       /\ mode' \notin InFlash /\ page' \in PageNums
  BY <1>1, <1>2, <1>9, PageDone
<1>11. RomTypes'
  BY <1>1, <1>2, <1>8, <1>10 DEF RomInv, RomTypes, file, Planned
<1> QED BY <1>7, <1>10, <1>11 DEF RomInv

(* The slot of a page is not one of a page that is in its place.              *)
LEMMA SlotIsFree ==
  ASSUME RomInv, mode \in Placed, NEW p \in 1 .. count, p # page, canon[p] = p,
         canon[page] = page, Place(p)[1] = Place(page)[1]
  PROVE  Place(p)[2] # Place(page)[2]
<1>1. p \in Canonical /\ page \in Canonical
  BY LoadBasis
<1>2. /\ Place(p) \in ({"psram"} \X PsramPool) \cup ({"flash"} \X Partition)
      /\ Place(page) \in ({"psram"} \X PsramPool) \cup ({"flash"} \X Partition)
  BY LoadBasis
<1>3. Place(p) # Place(page)
  BY <1>1, PlaceOwn DEF RomInv
<1> QED BY <1>2, <1>3

\* A page that is loaded to the PSRAM keeps it.
LEMMA PsramKeeps == RomInv /\ LoadToPsram => RomInv'
<1> SUFFICES ASSUME RomInv, LoadToPsram PROVE RomInv'
  OBVIOUS
<1>1. /\ Reread /\ canon[page] = page /\ Place(page)[1] = "psram" /\ NextPage
      /\ psram' = [psram EXCEPT ![Place(page)[2]] = card[page]]
      /\ pointer' = [pointer EXCEPT ![page] = Place(page)]
      /\ UNCHANGED <<card, file, flash, changes>>
  BY DEF LoadToPsram, bounds
<1>2. /\ mode = "load" /\ mode \in Placed /\ Ready = 1 .. page - 1
      /\ seen' \in [PageNums -> Contents \cup {Blank}]
      /\ seen'[page] = card[page] /\ card[page] \in Contents /\ Hash[card[page]] = hash[page]
      /\ \A p \in Ready : seen'[p] = seen[p]
  BY <1>1, RereadReads
<1>3. /\ page \in Nat /\ page \in PageNums /\ page \in 1 .. count /\ count \in Nat
      /\ Place(page) \in {"psram"} \X PsramPool
  BY <1>1, <1>2, LoadBasis
<1>4. /\ pointer \in [PageNums -> {NoPage} \cup ({"psram"} \X PsramPool) \cup ({"flash"} \X Partition)]
      /\ psram \in [PsramPool -> Contents \cup {Blank}]
  BY DEF RomInv, Pointers, RomTypes
<1>5. psram' \in [PsramPool -> Contents \cup {Blank}] /\ psram'[Place(page)[2]] = card[page]
  BY <1>1, <1>2, <1>3, <1>4
<1>6. Pointers' /\ pointer'[page] = Place(page)
  BY <1>1, <1>3, <1>4 DEF Pointers
<1>7. mode' \in {"load", "map"}
  BY <1>1 DEF NextPage
<1>8. ASSUME NEW p \in 1 .. page PROVE Loaded(p)'
  <2>1. CASE p \in Ready
    <3>1. p # page /\ Loaded(p) /\ p \in 1 .. count
      BY <1>2, <1>3, <2>1 DEF RomInv
    <3>2. pointer'[p] = pointer[p]
      BY <1>1, <1>4, <3>1
    <3>3. ASSUME canon[p] = p PROVE Stored(Place(p))' = Stored(Place(p))
      <4>1. Place(p)' = Place(p)
        BY <1>1, FileFrame
      <4>2. /\ Place(p)[1] = "psram" => Place(p)[2] # Place(page)[2]
            /\ Place(p) \in ({"psram"} \X PsramPool) \cup ({"flash"} \X Partition)
        BY <1>1, <1>2, <3>1, <3>3, SlotIsFree, LoadBasis
      <4>3. Place(p)[1] = "psram" => psram'[Place(p)[2]] = psram[Place(p)[2]]
        BY <1>1, <1>4, <4>2
      <4> QED BY <1>1, <4>1, <4>3 DEF Stored
    <3> QED BY <1>1, <1>2, <1>7, <2>1, <3>1, <3>2, <3>3, LoadedFrame
  <2>2. CASE p = page
    <3>1. Place(p)' = Place(p)
      BY <1>1, FileFrame
    <3>2. Stored(Place(p))' = seen'[p]
      BY <1>1, <1>2, <1>5, <2>2, <3>1 DEF Stored
    <3>3. Read(p)'
      BY <1>1, <1>2, <2>2 DEF Read, file
    <3> QED BY <1>6, <1>7, <2>2, <3>1, <3>2, <3>3 DEF Loaded
  <2> QED BY <1>2, <1>3, <2>1, <2>2
<1>9. /\ Progress' /\ (\A p \in Ready' : Loaded(p)')
      /\ mode' \notin InFlash /\ page' \in PageNums
  BY <1>1, <1>2, <1>8, PageDone
<1>10. RomTypes'
  BY <1>1, <1>2, <1>5, <1>7, <1>9 DEF RomInv, RomTypes, file, Planned
<1> QED BY <1>6, <1>9, <1>10 DEF RomInv

(* The steps that leave the page where it is, on its way to the flash.        *)
LEMMA StayFrame ==
  ASSUME RomInv, mode \in {"load"} \cup InFlash, mode' \in InFlash, UNCHANGED <<page, file>>
  PROVE  Progress' /\ Ready' = 1 .. page - 1 /\ Ready = 1 .. page - 1
<1>1. mode \in Placed /\ Fits /\ page <= count /\ \A p \in 1 .. count : Scanned(p)
  BY DEF RomInv, Progress, Placed, Planned, InFlash
<1>2. Fits' /\ page' <= count' /\ \A p \in 1 .. count' : Scanned(p)'
  BY <1>1, FileFrame DEF file
<1> QED BY <1>2 DEF Progress, Ready, InFlash

\* A page that is to go to the flash keeps it.
LEMMA ToFlashKeeps == RomInv /\ LoadToFlash => RomInv'
<1> SUFFICES ASSUME RomInv, LoadToFlash PROVE RomInv'
  OBVIOUS
<1>1. /\ Reread /\ canon[page] = page /\ Place(page)[1] = "flash" /\ mode' = "compare"
      /\ UNCHANGED <<card, page, count, hash, canon, file, pointer, psram, flash, changes>>
  BY DEF LoadToFlash, bounds, file
<1>2. /\ mode = "load" /\ mode \in Placed /\ Ready = 1 .. page - 1
      /\ seen' \in [PageNums -> Contents \cup {Blank}]
      /\ seen'[page] = card[page] /\ card[page] \in Contents /\ Hash[card[page]] = hash[page]
      /\ \A p \in Ready : seen'[p] = seen[p]
  BY <1>1, RereadReads
<1>3. Progress' /\ Ready' = Ready
  BY <1>1, <1>2, StayFrame DEF InFlash
<1>4. \A p \in Ready : Loaded(p)'
  <2>1. \A p : Stored(Place(p))' = Stored(Place(p))
    BY <1>1, FileFrame DEF Stored
  <2>2. \A p \in Ready : Loaded(p)
    BY DEF RomInv
  <2> QED BY <1>1, <1>2, <2>1, <2>2, LoadedFrame
<1>5. ToFlash'
  BY <1>1, <1>2, FileFrame DEF ToFlash, Read
<1>6. RomTypes' /\ Pointers'
  BY <1>1, <1>2 DEF RomInv, RomTypes, Pointers, Planned
<1> QED BY <1>3, <1>4, <1>5, <1>6 DEF RomInv

(* A page that the flash holds, before or after it was written.               *)
LEMMA HeldKeeps ==
  ASSUME RomInv, mode \in InFlash, NextPage, flash[Slot] = seen[page],
         UNCHANGED <<card, file, pointer, psram, flash, seen, changes>>
  PROVE  RomInv'
<1>1. mode \in Placed /\ Ready = 1 .. page - 1 /\ ToFlash
  BY DEF InFlash, Placed, Planned, Ready, RomInv
<1>2. page \in Nat /\ page \in 1 .. count
  BY <1>1, LoadBasis
<1>3. mode' \in {"load", "map"}
  BY DEF NextPage
<1>4. \A p : Stored(Place(p))' = Stored(Place(p)) /\ Place(p)' = Place(p)
  BY FileFrame DEF Stored
<1>5. ASSUME NEW p \in 1 .. page PROVE Loaded(p)'
  <2>1. CASE p \in Ready
    <3>1. Loaded(p)
      BY <2>1 DEF RomInv
    <3> QED BY <1>3, <1>4, <3>1, LoadedFrame
  <2>2. CASE p = page
    <3>1. Stored(Place(p)) = seen[p]
      BY <1>1, <2>2 DEF ToFlash, Stored, Slot
    <3>2. Read(p)'
      BY <1>1, <2>2 DEF ToFlash, Read, file
    <3> QED BY <1>1, <1>3, <1>4, <2>2, <3>1, <3>2 DEF Loaded, ToFlash
  <2> QED BY <1>1, <1>2, <2>1, <2>2
<1>6. /\ Progress' /\ (\A p \in Ready' : Loaded(p)')
      /\ mode' \notin InFlash /\ page' \in PageNums
  BY <1>5, PageDone
<1>7. RomTypes' /\ Pointers'
  BY <1>3, <1>6 DEF RomInv, RomTypes, Pointers, file, Planned
<1> QED BY <1>6, <1>7 DEF RomInv

(* The flash of the page is erased and written, and no other.                 *)
LEMMA WrittenKeeps ==
  ASSUME RomInv, mode \in InFlash, mode' \in InFlash,
         NEW c \in Contents \cup {Blank, Torn}, flash' = [flash EXCEPT ![Slot] = c],
         mode' = "erase" => c # seen[page],
         UNCHANGED <<card, page, file, pointer, psram, seen, changes>>
  PROVE  RomInv'
<1>1. mode \in Placed /\ ToFlash
  BY DEF InFlash, Placed, Planned, RomInv
<1>2. /\ page \in Nat /\ page \in 1 .. count /\ count \in Nat
      /\ Place(page) \in {"flash"} \X Partition /\ Slot \in Partition
  BY <1>1, LoadBasis DEF ToFlash, Slot
<1>3. Progress' /\ Ready' = Ready /\ Ready = 1 .. page - 1
  BY StayFrame
<1>4. flash \in [Partition -> Contents \cup {Blank, Torn}]
  BY DEF RomInv, RomTypes
<1>5. flash' \in [Partition -> Contents \cup {Blank, Torn}] /\ flash'[Slot] = c
  BY <1>2, <1>4
<1>6. ASSUME NEW p \in Ready PROVE Loaded(p)'
  <2>1. p # page /\ Loaded(p) /\ p \in 1 .. count
    BY <1>2, <1>3 DEF RomInv
  <2>2. ASSUME canon[p] = p PROVE Stored(Place(p))' = Stored(Place(p))
    <3>1. Place(p)' = Place(p)
      BY FileFrame
    <3>2. /\ Place(p)[1] = "flash" => Place(p)[2] # Slot
          /\ Place(p) \in ({"psram"} \X PsramPool) \cup ({"flash"} \X Partition)
      BY <1>1, <2>1, <2>2, SlotIsFree, LoadBasis DEF ToFlash, Slot
    <3>3. Place(p)[1] = "flash" => flash'[Place(p)[2]] = flash[Place(p)[2]]
      BY <1>4, <3>2
    <3> QED BY <3>1, <3>3 DEF Stored
  <2> QED BY <2>1, <2>2, LoadedFrame DEF InFlash
<1>7. Slot' = Slot
  BY FileFrame DEF Slot
<1>8. ToFlash'
  <2>1. Place(page)' = Place(page)
    BY FileFrame
  <2>2. Read(page)'
    BY <1>1 DEF ToFlash, Read, file
  <2> QED BY <1>1, <1>5, <1>7, <2>1, <2>2 DEF ToFlash, file
<1>9. RomTypes' /\ Pointers'
  BY <1>5 DEF RomInv, RomTypes, Pointers, file, Planned, InFlash
<1> QED BY <1>3, <1>6, <1>8, <1>9 DEF RomInv

\* Comparing, erasing, writing and verifying a page of the flash keep it.
LEMMA FlashKeeps == RomInv /\ (Compare \/ Erase \/ Write \/ Verify) => RomInv'
<1> SUFFICES ASSUME RomInv, Compare \/ Erase \/ Write \/ Verify PROVE RomInv'
  OBVIOUS
<1>1. /\ UNCHANGED <<card, file, pointer, psram, seen, changes>> /\ mode \in InFlash
  BY DEF Compare, Erase, Write, Verify, bounds, InFlash
<1>2. ToFlash /\ seen[page] \in Contents
  BY <1>1 DEF RomInv, ToFlash, Read
<1>3. CASE NextPage /\ flash[Slot] = seen[page] /\ UNCHANGED flash
  BY <1>1, <1>3, HeldKeeps
<1>4. CASE Erase \/ Write
  <2>1. UNCHANGED page /\ \E c \in Contents \cup {Blank, Torn} :
          flash' = [flash EXCEPT ![Slot] = c] /\ (mode' = "erase" => c # seen[page])
    BY <1>2, <1>4, RomLoaderAssumption DEF Erase, Write
  <2>2. mode' \in InFlash
    BY <1>4 DEF Erase, Write, InFlash
  <2> QED BY <1>1, <2>1, <2>2, WrittenKeeps
<1>5. CASE Compare /\ flash[Slot] # seen[page]
  <2>1. UNCHANGED <<page, flash>> /\ mode' = "erase"
    BY <1>5 DEF Compare, Held
  <2>2. Progress' /\ Ready' = Ready
    BY <1>1, <2>1, StayFrame DEF InFlash
  <2>3. \A p \in Ready : Loaded(p)'
    <3>1. \A p : Stored(Place(p))' = Stored(Place(p))
      BY <1>1, <2>1, FileFrame DEF Stored
    <3>2. \A p \in Ready : Loaded(p)
      BY DEF RomInv
    <3> QED BY <1>1, <2>1, <3>1, <3>2, LoadedFrame
  <2>4. ToFlash'
    BY <1>1, <1>2, <1>5, <2>1, FileFrame DEF ToFlash, Read, Slot, file
  <2>5. RomTypes' /\ Pointers'
    BY <1>1, <2>1 DEF RomInv, RomTypes, Pointers, file, Planned
  <2> QED BY <2>2, <2>3, <2>4, <2>5 DEF RomInv
<1>6. CASE mode' = "idle" /\ UNCHANGED <<page, flash>>
  <2>1. RomTypes' /\ Pointers' /\ Ready' = {} /\ Progress'
    BY <1>1, <1>6 DEF RomInv, RomTypes, Pointers, file, Ready, Progress, InFlash, Planned, Placed
  <2> QED BY <1>6, <2>1 DEF RomInv, InFlash
<1>7. \/ NextPage /\ flash[Slot] = seen[page] /\ UNCHANGED flash
      \/ Erase \/ Write
      \/ Compare /\ flash[Slot] # seen[page]
      \/ mode' = "idle" /\ UNCHANGED <<page, flash>>
  BY DEF Compare, Verify, Held, Refused
<1> QED BY <1>3, <1>4, <1>5, <1>6, <1>7

\* Mapping the flash keeps it.
LEMMA MapKeeps == RomInv /\ MapFlash => RomInv'
<1> SUFFICES ASSUME RomInv, MapFlash PROVE RomInv'
  OBVIOUS
<1>1. /\ mode = "map" /\ mode' \in {"done", "idle"}
      /\ pointer' = [p \in PageNums |-> IF p <= count /\ Place(p)[1] = "flash"
                                        THEN Place(p) ELSE pointer[p]]
      /\ UNCHANGED <<card, page, file, psram, flash, seen, changes>>
  BY DEF MapFlash, bounds
<1>2. /\ mode \in Placed /\ Ready = 1 .. count
  BY <1>1 DEF Placed, Planned, Ready, InFlash
<1>3. /\ count \in Nat /\ Fits
      /\ \A p \in 1 .. count :
           /\ p \in PageNums /\ Scanned(p)
           /\ Place(p) \in ({"psram"} \X PsramPool) \cup ({"flash"} \X Partition)
  BY <1>2, LoadBasis
<1>4. PageNums \subseteq Nat
  BY DEF PageNums
<1>5. Pointers'
  <2>1. \A p \in PageNums : p <= count => p \in 1 .. count
    BY <1>3, Lengths DEF PageNums
  <2> QED BY <1>1, <1>3, <2>1 DEF RomInv, Pointers
<1>6. ASSUME NEW p \in 1 .. count PROVE Loaded(p)'
  <2>1. Loaded(p) /\ p <= count /\ p \in PageNums
    BY <1>2, <1>3 DEF RomInv
  <2>2. Place(p)' = Place(p) /\ Stored(Place(p))' = Stored(Place(p))
    BY <1>1, FileFrame DEF Stored
  <2>3. pointer'[p] = Place(p)
    BY <1>1, <1>3, <2>1 DEF Loaded
  <2>4. Read(p)' /\ canon'[p] = canon[p] /\ seen'[p] = seen[p]
    BY <1>1, <2>1 DEF Loaded, Read, file
  <2> QED BY <2>1, <2>2, <2>3, <2>4 DEF Loaded
<1>7. Ready' \subseteq 1 .. count /\ mode' \notin InFlash
  BY <1>1 DEF Ready, InFlash, file
<1>8. Progress'
  <2>1. Fits' /\ page' <= count' /\ \A p \in 1 .. count' : Scanned(p)'
    BY <1>1, <1>3, FileFrame DEF file, RomInv, Progress, Planned
  <2> QED BY <1>1, <2>1 DEF Progress
<1>9. RomTypes'
  BY <1>1 DEF RomInv, RomTypes, file, Planned
<1> QED BY <1>5, <1>6, <1>7, <1>8, <1>9 DEF RomInv

\* Every step of the loader keeps its invariant.
LEMMA RomKept == RomInv /\ [Next]_vars => RomInv'
<1> SUFFICES ASSUME RomInv, [Next]_vars PROVE RomInv'
  OBVIOUS
<1>1. CASE UNCHANGED vars
  <2>1. UNCHANGED <<card, mode, page, count, hash, canon, file, pointer, psram, flash, seen, changes>>
    BY <1>1 DEF vars, file, bounds
  <2>2. RomTypes' /\ Pointers' /\ Progress' /\ Ready' = Ready
    BY <2>1, FileFrame DEF RomInv, RomTypes, Pointers, Progress, Ready
  <2>3. \A p : Loaded(p) => Loaded(p)'
    BY <2>1, FileFrame DEF Loaded, Read, Stored
  <2>4. ToFlash => ToFlash'
    BY <2>1, FileFrame DEF ToFlash, Read, Slot
  <2> QED BY <2>1, <2>2, <2>3, <2>4 DEF RomInv
<1> QED BY <1>1, AnewKeeps, CardKeeps, ScanKeeps, PlanKeeps, DuplicateKeeps, PsramKeeps,
        ToFlashKeeps, FlashKeeps, MapKeeps DEF Next, Loading

(* The tables of the loader (s_page_hash, s_canonical_page, s_page_pointer),  *)
(* the pool and the partition agree at every step of a load.                  *)
THEOREM LoaderInvariant == Spec => []RomInv
<1> QED BY RomStart, RomKept, PTL DEF Spec

\* The invariant of the loader contains its types.
LEMMA RomTypesOK == RomInv => TypeOK
BY DEF RomInv, RomTypes, Pointers, TypeOK, Planned

(* The loader's variables keep their types.                                   *)
THEOREM LoaderTyped == Spec => []TypeOK
BY RomTypesOK, LoaderInvariant, PTL

(* Whatever the flash holds and whenever power is lost, prepare_flash_page    *)
(* erases and writes only what differs from the page that is to lie there, of *)
(* a game that needs the flash and is allowed to.                             *)
THEOREM FlashForReason == Spec => FlashChangedForReason
<1> DEFINE A == \A s \in Partition :
                  flash'[s] # flash[s] => /\ Spill
                                          /\ Cardinality(Canonical) > PsramSlots
                                          /\ Cardinality(Canonical) <= PsramSlots + FlashSlots
                                          /\ flash[s] # seen[page]
<1>1. RomInv /\ [Next]_vars => A
  <2> SUFFICES ASSUME RomInv, [Next]_vars, NEW s \in Partition, flash'[s] # flash[s]
               PROVE  /\ Spill
                      /\ Cardinality(Canonical) > PsramSlots
                      /\ Cardinality(Canonical) <= PsramSlots + FlashSlots
                      /\ flash[s] # seen[page]
    OBVIOUS
  <2>1. mode = "erase" /\ \E c : flash' = [flash EXCEPT ![Slot] = c]
    BY DEF Next, Loading, Load, ScanPage, Plan, LoadDuplicate, LoadToPsram, LoadToFlash, Compare,
       Erase, Write, Verify, MapFlash, Fail, ChangeCard, PowerLoss, vars
  <2>2. s = Slot /\ mode \in Placed /\ ToFlash
    BY <2>1 DEF RomInv, RomTypes, InFlash, Placed, Planned
  <2>3. /\ page \in 1 .. count /\ Fits /\ count \in Nat
        /\ Spill /\ Cardinality(Canonical) > PsramSlots
    BY <2>2, LoadBasis DEF ToFlash
  <2>4. Cardinality(Canonical) <= PsramSlots + FlashSlots
    BY <2>3 DEF Fits, Capacity
  <2> QED BY <2>1, <2>2, <2>3, <2>4 DEF ToFlash
<1>2. Spec => [][A]_vars
  BY <1>1, LoaderInvariant, PTL DEF Spec
<1> QED BY <1>2 DEF FlashChangedForReason

--------------------------------------------------------------------------
(* Pages that were read again.                                                *)
Had ==
  IF mode \in InFlash THEN 1 .. page
  ELSE IF mode = "load" THEN 1 .. page - 1
  ELSE IF mode \in {"map", "done"} THEN 1 .. count
  ELSE {}

(* A page is counted among them by the step that reads it again; one that has *)
(* an equal page before it is compared with that page in the same step.       *)
LEMMA HadStep ==
  ASSUME RomInv, [Next]_vars, Had' # {}
  PROVE  /\ UNCHANGED file /\ mode \in Planned
         /\ \A p \in Had' : \/ p \in Had /\ seen'[p] = seen[p]
                            \/ p = page /\ Reread /\ (canon[page] # page => LoadDuplicate)
<1> USE DEF Had, InFlash
<1>1. CASE UNCHANGED vars
  BY <1>1 DEF vars, file, Planned, RomInv, RomTypes
<1>2. CASE Load \/ ScanPage \/ Fail \/ PowerLoss \/ Plan
  BY <1>2 DEF Load, ScanPage, Fail, PowerLoss, Plan
<1>3. ASSUME mode \in Placed
      PROVE  /\ page \in Nat /\ count \in Nat
             /\ \A p \in 1 .. count : p \in PageNums /\ p \in Nat
  BY <1>3, LoadBasis
<1>4. CASE LoadDuplicate \/ LoadToPsram \/ LoadToFlash
  <2>1. Reread /\ UNCHANGED file /\ mode \in Planned
    BY <1>4, RereadReads DEF LoadDuplicate, LoadToPsram, LoadToFlash, Placed
  <2>2. mode = "load" /\ mode \in Placed /\ \A p \in 1 .. page - 1 : seen'[p] = seen[p]
    BY <2>1, RereadReads
  <2>3. Had' = 1 .. page
    BY <1>3, <1>4, <2>1, <2>2 DEF LoadDuplicate, LoadToPsram, LoadToFlash, NextPage, file
  <2>4. \A p \in 1 .. page : p = page \/ p \in 1 .. page - 1
    BY <1>3, <2>2
  <2>5. canon[page] # page => LoadDuplicate
    BY <1>4 DEF LoadToPsram, LoadToFlash
  <2>6. Had = 1 .. page - 1
    BY <2>2
  <2> QED
    <3> HIDE DEF Had, InFlash
    <3> QED BY <2>1, <2>2, <2>3, <2>4, <2>5, <2>6
<1>5. CASE Compare \/ Erase \/ Write \/ Verify
  <2>1. mode \in InFlash /\ mode \in Placed /\ UNCHANGED <<file, seen>>
    BY <1>5 DEF Compare, Erase, Write, Verify, Placed, Planned
  <2>2. \/ NextPage
        \/ mode' \in InFlash \cup {"idle"} /\ page' = page
    BY <1>5, <2>1 DEF Compare, Erase, Write, Verify, Refused
  <2>3. Had' = 1 .. page
    BY <1>3, <2>1, <2>2 DEF NextPage, file
  <2> QED BY <2>1, <2>3 DEF Placed
<1>6. CASE MapFlash
  BY <1>6 DEF MapFlash, Planned, file
<1>7. CASE \E f \in Files : ChangeCard(f)
  BY <1>7 DEF ChangeCard, Planned, file, RomInv, RomTypes
<1> QED BY <1>1, <1>2, <1>4, <1>5, <1>6, <1>7 DEF Next, Loading

(* What was read of a page was on a card at that page.                        *)
FromCard == \A p \in Had : \E f \in Files : p \in 1 .. Len(f) /\ seen[p] = f[p]

(* No two games have different pages with the same hash at the same place.    *)
TellsApart ==
  \A f, g \in Files : \A p \in (1 .. Len(f)) \cap (1 .. Len(g)) :
    Hash[f[p]] = Hash[g[p]] => f[p] = g[p]

(* Pages that are stored once for several were read alike.                    *)
SharedAlike == \A p \in Had : canon[p] # p => seen[canon[p]] = seen[p]

(* The pages the scan has compared, and what it knows of them when the card   *)
(* was not changed.                                                           *)
Compared ==
  IF mode = "scan" THEN 1 .. page - 1
  ELSE IF mode \in Planned THEN 1 .. count
  ELSE {}

OfCard(p) == card[canon[p]] = card[p] /\ hash[p] = Hash[card[p]]

SameCard ==
  /\ mode # "idle" => count = Len(card)
  /\ \A p \in Compared : OfCard(p)
  /\ \A p, q \in Compared : canon[p] = p /\ canon[q] = q /\ card[p] = card[q] => p = q
  /\ \A p \in Had : seen[p] = card[p]

CardInv == RomInv /\ FromCard /\ (changes = 0 => SameCard)

--------------------------------------------------------------------------
\* A page the game can have was read and has its place.
LEMMA HadReady ==
  ASSUME RomInv, NEW p \in Had
  PROVE  /\ p \in 1 .. count /\ p \in PageNums /\ p \in Nat /\ Read(p) /\ mode \in Placed
         /\ canon[p] \in 1 .. p /\ hash[canon[p]] = hash[p]
         /\ canon[p] # p => canon[p] \in Had
<1>1. mode \in Placed
  BY DEF Had, InFlash, Placed, Planned
<1>2. /\ page \in 1 .. count /\ count \in Nat /\ page \in Nat
      /\ \A q \in 1 .. count : q \in PageNums /\ q \in Nat /\ canon[q] \in 1 .. q /\ Scanned(q)
  BY <1>1, LoadBasis
<1>3. p \in 1 .. count /\ (p \in Ready \/ (mode \in InFlash /\ p = page))
  BY <1>2 DEF Had, Ready, InFlash
<1>4. Read(p)
  BY <1>3 DEF RomInv, Loaded, ToFlash
<1>5. p \in PageNums /\ p \in Nat /\ canon[p] \in 1 .. p /\ hash[canon[p]] = hash[p]
  BY <1>2, <1>3 DEF Scanned
<1>6. canon[p] # p => canon[p] \in Had
  BY <1>2, <1>3, <1>5 DEF Had, InFlash
<1> QED BY <1>1, <1>3, <1>4, <1>5, <1>6

\* Every step keeps the pages the game has as some card held them.
LEMMA FromCardKept == RomInv /\ FromCard /\ [Next]_vars => FromCard'
<1> SUFFICES ASSUME RomInv, FromCard, [Next]_vars, NEW p \in Had'
             PROVE  \E f \in Files : p \in 1 .. Len(f) /\ seen'[p] = f[p]
  BY DEF FromCard
<1>1. \/ p \in Had /\ seen'[p] = seen[p]
      \/ p = page /\ Reread
  BY HadStep
<1>2. CASE p = page /\ Reread
  <2>1. card \in Files /\ seen'[page] = card[page] /\ page \in PageNums
    BY <1>2, RereadReads DEF RomInv, RomTypes
  <2>2. page \in 1 .. Len(card)
    BY <1>2, <2>1, Lengths DEF Reread, Readable, PageNums
  <2> QED BY <1>2, <2>1, <2>2
<1> QED BY <1>1, <1>2 DEF FromCard

(* Only the scan compares pages, one in each step; the card is its own.       *)
LEMMA ScanSame ==
  ASSUME RomInv, SameCard, ScanPage
  PROVE  /\ mode' # "idle" /\ count' = Len(card')
         /\ \A p \in Compared' : OfCard(p)'
         /\ \A p, q \in Compared' : (canon[p] = p)' /\ (canon[q] = q)' /\ card'[p] = card'[q] => p = q
         /\ Had' = {}
<1> DEFINE same == {q \in 1 .. (page - 1) : canon[q] = q /\ Equal(q)}
           first == IF same = {} THEN page ELSE CHOOSE q \in same : \A r \in same : q <= r
<1>1. /\ mode = "scan" /\ Compared = 1 .. page - 1
      /\ canon' = [canon EXCEPT ![page] = first]
      /\ hash' = [hash EXCEPT ![page] = Hash[card[page]]]
      /\ IF page = count THEN mode' = "plan" /\ UNCHANGED page
                         ELSE page' = page + 1 /\ UNCHANGED mode
      /\ UNCHANGED <<card, count>>
  BY DEF ScanPage, Compared
<1>2. /\ page \in Nat /\ page \in PageNums /\ count \in Nat /\ page <= count
      /\ count <= MaxPages /\ MaxPages \in Nat
      /\ canon \in [PageNums -> 0 .. MaxPages] /\ hash \in [PageNums -> Nat]
  <2>1. page \in 1 .. MaxPages /\ count \in 0 .. MaxPages /\ page <= count
    BY <1>1 DEF RomInv, RomTypes, PageNums, Progress
  <2> QED BY <2>1, Lengths DEF RomInv, RomTypes, PageNums
<1>3. same \subseteq 1 .. page - 1 /\ same \subseteq Nat
  OBVIOUS
<1>4. same # {} => first \in same
  BY <1>3, LeastOf
<1>5. same = {} => first = page
  OBVIOUS
<1>6. \A q \in same : canon[q] = q /\ q \in 1 .. page - 1 /\ card[q] = card[page]
  BY DEF Equal
<1>7. \A q \in 1 .. page - 1 : canon[q] = q /\ card[q] = card[page] => q \in same
  <2>1. \A q \in 1 .. page - 1 : hash[q] = Hash[card[q]]
    BY <1>1 DEF SameCard, OfCard
  <2> QED BY <2>1 DEF Equal
<1> HIDE DEF same, first
<1>8. /\ \A p \in 1 .. page - 1 : p # page /\ p \in PageNums /\ canon'[p] = canon[p] /\ hash'[p] = hash[p]
      /\ canon'[page] = first /\ hash'[page] = Hash[card[page]]
  BY <1>1, <1>2 DEF PageNums
<1>9. Compared' = 1 .. page /\ mode' # "idle" /\ Had' = {}
  <2>1. 1 .. (page + 1) - 1 = 1 .. page
    BY <1>2
  <2> QED BY <1>1, <1>2, <2>1 DEF Compared, Had, Planned, InFlash
<1>10. \A p \in 1 .. page : p = page \/ p \in 1 .. page - 1
  BY <1>2
<1>11. ASSUME NEW p \in 1 .. page PROVE card[canon'[p]] = card[p] /\ hash'[p] = Hash[card[p]]
  <2>1. CASE p \in 1 .. page - 1
    BY <1>1, <1>8, <2>1 DEF SameCard, OfCard
  <2>2. CASE p = page
    BY <1>4, <1>5, <1>6, <1>8, <2>2
  <2> QED BY <1>10, <2>1, <2>2
<1>12. ASSUME NEW p \in 1 .. page, NEW q \in 1 .. page, canon'[p] = p, canon'[q] = q, card[p] = card[q]
       PROVE  p = q
  <2>1. CASE p \in 1 .. page - 1 /\ q \in 1 .. page - 1
    BY <1>1, <1>8, <1>12, <2>1 DEF SameCard
  <2>2. \A r \in 1 .. page - 1 : canon[r] = r /\ card[r] = card[page] => first # page
    BY <1>4, <1>6, <1>7, <1>8
  <2> QED BY <1>8, <1>10, <1>12, <2>1, <2>2
<1> QED BY <1>1, <1>9, <1>11, <1>12 DEF OfCard, SameCard

(* No other step compares a page, changes what is known of one, or reads one  *)
(* but at the place it is at.                                                 *)
LEMMA ElseSame ==
  ASSUME RomInv, SameCard, [Next]_vars, ~ScanPage, changes' = 0, changes = 0
  PROVE  /\ card' = card
         /\ mode' # "idle" => count' = Len(card)
         /\ Compared' = {} \/ (Compared' = Compared /\ UNCHANGED file)
<1>1. CASE UNCHANGED vars
  BY <1>1 DEF vars, file, SameCard, Compared
<1>2. CASE Load
  <2>1. Compared' = {} /\ count' = Len(card) /\ card' = card
    BY <1>2 DEF Load, Compared
  <2> QED BY <2>1
<1>3. CASE Fail \/ PowerLoss
  BY <1>3 DEF Fail, PowerLoss, Compared, Planned
<1>4. CASE \E f \in Files : ChangeCard(f)
  BY <1>4 DEF ChangeCard, RomInv, RomTypes
<1>5. CASE Loading
  <2>1. UNCHANGED file /\ card' = card /\ mode # "idle"
    BY <1>5 DEF Loading, Plan, LoadDuplicate, LoadToPsram, LoadToFlash, Compare, Erase, Write, Verify,
       MapFlash, Reread
  <2>2. mode \in Planned /\ mode' \in Planned \cup {"idle"}
    BY <1>5 DEF Loading, Plan, LoadDuplicate, LoadToPsram, LoadToFlash, Compare, Erase, Write, Verify,
       MapFlash, Reread, NextPage, Refused, Planned
  <2>3. count' = count /\ count = Len(card) /\ "scan" \notin Planned /\ "idle" \notin Planned
    BY <2>1 DEF file, SameCard, Planned
  <2>4. Compared = 1 .. count /\ (Compared' = {} \/ Compared' = 1 .. count)
    BY <2>2, <2>3 DEF Compared
  <2> QED BY <2>1, <2>3, <2>4
<1> QED BY <1>1, <1>2, <1>3, <1>4, <1>5 DEF Next

\* While the card was not changed, they are as this card holds them.
LEMMA SameCardKept ==
  RomInv /\ (changes = 0 => SameCard) /\ [Next]_vars => (changes' = 0 => SameCard')
<1> SUFFICES ASSUME RomInv, changes = 0 => SameCard, [Next]_vars, changes' = 0 PROVE SameCard'
  OBVIOUS
<1>1. changes = 0 /\ SameCard
  <2>1. changes \in Nat
    BY RomLoaderAssumption DEF RomInv, RomTypes
  <2>2. changes' = changes \/ changes' = changes + 1
    BY DEF Next, Loading, Load, ScanPage, Plan, LoadDuplicate, LoadToPsram, LoadToFlash, Compare,
       Erase, Write, Verify, MapFlash, Fail, ChangeCard, PowerLoss, vars, bounds
  <2> QED BY <2>1, <2>2
<1>2. CASE ScanPage
  BY <1>1, <1>2, ScanSame DEF SameCard
<1>3. CASE ~ScanPage
  <2>1. /\ card' = card
        /\ mode' # "idle" => count' = Len(card)
        /\ Compared' = {} \/ (Compared' = Compared /\ UNCHANGED file)
    BY <1>1, <1>3, ElseSame
  <2>2. \A p \in Compared' : OfCard(p)'
    BY <1>1, <2>1 DEF SameCard, OfCard, file
  <2>3. \A p, q \in Compared' : (canon[p] = p)' /\ (canon[q] = q)' /\ card'[p] = card'[q] => p = q
    BY <1>1, <2>1 DEF SameCard, file
  <2>4. \A p \in Had' : seen'[p] = card'[p]
    <3> SUFFICES ASSUME NEW p \in Had' PROVE seen'[p] = card'[p]
      OBVIOUS
    <3>1. \/ p \in Had /\ seen'[p] = seen[p]
          \/ p = page /\ Reread
      BY HadStep
    <3>2. Reread => seen'[page] = card[page]
      BY RereadReads
    <3> QED BY <1>1, <2>1, <3>1, <3>2 DEF SameCard
  <2> QED BY <2>1, <2>2, <2>3, <2>4 DEF SameCard
<1> QED BY <1>2, <1>3

\* Every step keeps the invariant of the card.
LEMMA CardKept == CardInv /\ [Next]_vars => CardInv'
BY RomKept, FromCardKept, SameCardKept DEF CardInv

\* The initial states satisfy it.
LEMMA CardStart == Init => CardInv
<1> SUFFICES ASSUME Init PROVE CardInv
  OBVIOUS
<1>1. RomInv
  BY RomStart
<1>2. Had = {} /\ Compared = {} /\ mode = "idle"
  BY DEF Init, Had, Compared, InFlash, Planned
<1> QED BY <1>1, <1>2 DEF CardInv, FromCard, SameCard

(* A page that is stored for another is read before it.                       *)
Before ==
  \A p \in Had : canon[p] # p =>
    /\ canon[p] \in Had /\ canon[p] \in 1 .. p /\ p \in Nat
    /\ Read(canon[p]) /\ hash[canon[p]] = hash[p]

\* A page that shares the place of another comes after it, with the same hash.
LEMMA ReadBefore == CardInv => Before /\ CardInv
BY HadReady DEF Before, CardInv

\* The same after a step.
LEMMA ReadBeforeThen == CardInv' => Before'
BY ReadBefore, PTL

(* A page was compared with the one that is stored for it in the step that    *)
(* read it, by what the card held then: that page was read before, and what   *)
(* was read of it had the same hash.                                          *)
LEMMA SharedKept ==
  ASSUME CardInv, CardInv', [Next]_vars, SharedAlike, TellsApart \/ changes' = 0
  PROVE  SharedAlike'
<1> SUFFICES ASSUME NEW p \in Had', canon'[p] # p PROVE seen'[canon'[p]] = seen'[p]
  BY DEF SharedAlike
<1>1. RomInv /\ canon' = canon /\ hash' = hash
  BY HadStep DEF CardInv, file
<1> DEFINE c == canon[p]
<1>2. /\ c \in Had' /\ c \in 1 .. p /\ p \in Nat /\ c # p
      /\ Hash[seen'[c]] = hash[c] /\ hash[c] = hash[p]
  BY <1>1, ReadBeforeThen DEF Before, Read
<1>3. \/ p \in Had /\ seen'[p] = seen[p]
      \/ p = page /\ Reread /\ LoadDuplicate
  BY <1>1, HadStep
<1>4. CASE p \in Had /\ seen'[p] = seen[p]
  <2>1. c \in Had /\ seen[c] = seen[p]
    BY <1>2, <1>4, ReadBefore DEF Before, SharedAlike
  <2>2. \/ seen'[c] = seen[c]
        \/ c = page /\ Reread
    BY <1>1, <1>2, HadStep
  <2>3. CASE c = page /\ Reread
    <3>1. Had = 1 .. page - 1 /\ page \in Nat
      BY <1>1, <2>3, RereadReads, LoadBasis DEF Had, InFlash
    <3> QED BY <2>1, <2>3, <3>1
  <2> QED BY <1>1, <1>4, <2>1, <2>2, <2>3
<1>5. CASE p = page /\ Reread /\ LoadDuplicate
  <2>1. /\ seen'[page] = card[page] /\ Hash[card[page]] = hash[page] /\ card \in Files
        /\ card[c] = card[page] /\ card' = card
    BY <1>1, <1>5, RereadReads DEF LoadDuplicate, RomInv, RomTypes
  <2>2. CASE changes' = 0
    <3>1. seen'[c] = card'[c]
      BY <1>2, <2>2 DEF CardInv, SameCard
    <3> QED BY <1>1, <1>5, <2>1, <3>1
  <2>3. CASE TellsApart
    <3>1. PICK f \in Files : c \in 1 .. Len(f) /\ seen'[c] = f[c]
      BY <1>2 DEF CardInv, FromCard
    <3>2. c \in 1 .. Len(card)
      BY <1>2, <1>5, <2>1, Lengths DEF Reread, Readable
    <3>3. Hash[f[c]] = Hash[card[c]]
      BY <1>2, <1>5, <2>1, <3>1
    <3>4. f[c] = card[c]
      BY <2>1, <2>3, <3>1, <3>2, <3>3 DEF TellsApart
    <3> QED BY <1>1, <1>5, <2>1, <3>1, <3>4
  <2> QED BY <2>2, <2>3
<1> QED BY <1>3, <1>4, <1>5

(* When a game is mapped, each of its pages leads to the place of the one     *)
(* that is stored for it.                                                     *)
LEMMA Mapped ==
  ASSUME CardInv, mode = "done"
  PROVE  /\ Had = 1 .. count /\ Compared = 1 .. count /\ count \in Nat
         /\ \A p \in 1 .. count :
              /\ pointer[p] = Place(canon[p]) /\ canon[p] \in Canonical
              /\ canon[canon[p]] = canon[p] /\ canon[p] \in 1 .. count
              /\ Stored(pointer[p]) = seen[canon[p]]
<1>1. mode \in Placed /\ Ready = 1 .. count /\ Had = 1 .. count /\ Compared = 1 .. count
  BY DEF Placed, Planned, Ready, Had, Compared, InFlash
<1>2. /\ count \in Nat
      /\ \A p \in 1 .. count : /\ canon[p] \in 1 .. p /\ Scanned(p)
                               /\ Place(canon[p]) = Place(p) /\ canon[p] \in Canonical
  BY <1>1, LoadBasis DEF CardInv
<1>3. \A p \in 1 .. count : Loaded(p)
  BY <1>1 DEF CardInv, RomInv
<1>4. \A p \in 1 .. count : pointer[p] = Place(p) /\ canon[p] \in 1 .. count
  BY <1>2, <1>3 DEF Loaded
<1>5. \A p \in 1 .. count : Stored(Place(canon[p])) = seen[canon[p]]
  BY <1>2, <1>3, <1>4 DEF Loaded, Scanned
<1> QED BY <1>1, <1>2, <1>4, <1>5 DEF Scanned

\* If pages that share a place were read alike, every page is mapped right.
LEMMA SharedMapped == CardInv /\ SharedAlike => MappedRight
<1> SUFFICES ASSUME CardInv, SharedAlike, mode = "done", NEW p \in 1 .. count
             PROVE  Stored(pointer[p]) = seen[p]
  BY DEF MappedRight
<1>1. Stored(pointer[p]) = seen[canon[p]] /\ p \in Had
  BY Mapped
<1> QED BY <1>1 DEF SharedAlike

\* Before a page is read none shares a place.
LEMMA SharedStart == Init => SharedAlike
BY DEF Init, SharedAlike, Had, InFlash

(* What runs is what was read: with games that have no different pages of the *)
(* same hash at one place, however often the card is changed while the loader *)
(* runs, power is lost, and whatever the flash held.                          *)
THEOREM MappedIsRead == ASSUME TellsApart PROVE Spec => []MappedRight
<1>1. CardInv /\ SharedAlike /\ CardInv' /\ [Next]_vars => SharedAlike'
  BY SharedKept
<1>2. Spec => []CardInv
  BY CardStart, CardKept, PTL DEF Spec
<1>3. Spec => []SharedAlike
  BY <1>1, <1>2, SharedStart, PTL DEF Spec
<1> QED BY <1>2, <1>3, SharedMapped, PTL

(* As long as the card is not changed, what runs is what was read, whatever   *)
(* hashes the pages have, and each content lies in one place of its own.      *)
THEOREM LoadedOnce == Spec => [](changes = 0 => LoadedRight)
<1> DEFINE Same == changes = 0 => SharedAlike
<1>1. CardInv /\ Same /\ CardInv' /\ [Next]_vars => Same'
  <2>1. CardInv /\ [Next]_vars /\ changes' = 0 => changes = 0
    <3> SUFFICES ASSUME CardInv, [Next]_vars, changes' = 0 PROVE changes = 0
      OBVIOUS
    <3>1. changes \in Nat
      BY RomLoaderAssumption DEF CardInv, RomInv, RomTypes
    <3>2. changes' = changes \/ changes' = changes + 1
      BY DEF Next, Loading, Load, ScanPage, Plan, LoadDuplicate, LoadToPsram, LoadToFlash, Compare,
         Erase, Write, Verify, MapFlash, Fail, ChangeCard, PowerLoss, vars, bounds
    <3> QED BY <3>1, <3>2
  <2> QED BY <2>1, SharedKept
<1>2. Spec => []CardInv
  BY CardStart, CardKept, PTL DEF Spec
<1>3. Spec => []Same
  <2>1. Init => Same
    BY SharedStart
  <2> HIDE DEF Same
  <2> QED BY <1>1, <1>2, <2>1, PTL DEF Spec
<1>4. CardInv /\ Same => (changes = 0 => LoadedRight)
  <2> SUFFICES ASSUME CardInv, SharedAlike, changes = 0 PROVE MappedRight /\ DedupExact
    BY DEF LoadedRight
  <2>1. MappedRight
    BY SharedMapped
  <2>2. DedupExact
    <3> SUFFICES ASSUME mode = "done", NEW p \in 1 .. count, NEW q \in 1 .. count
                 PROVE  pointer[p] = pointer[q] <=> seen[p] = seen[q]
      BY DEF DedupExact
    <3>1. RomTypes /\ SameCard
      BY DEF CardInv, RomInv
    <3>2. /\ seen[p] = card[p] /\ seen[q] = card[q]
          /\ card[canon[p]] = card[p] /\ card[canon[q]] = card[q]
          /\ canon[p] \in Compared /\ canon[q] \in Compared
      BY <3>1, Mapped DEF SameCard, OfCard
    <3>3. /\ pointer[p] = Place(canon[p]) /\ pointer[q] = Place(canon[q])
          /\ canon[p] \in Canonical /\ canon[q] \in Canonical
          /\ canon[canon[p]] = canon[p] /\ canon[canon[q]] = canon[q]
      BY Mapped
    <3>4. ASSUME pointer[p] = pointer[q] PROVE seen[p] = seen[q]
      BY <3>1, <3>2, <3>3, <3>4, PlaceOwn
    <3>5. ASSUME seen[p] = seen[q] PROVE pointer[p] = pointer[q]
      <4>1. canon[p] = canon[q]
        BY <3>1, <3>2, <3>3, <3>5 DEF SameCard
      <4> QED BY <3>3, <4>1
    <3> QED BY <3>4, <3>5
  <2> QED BY <2>1, <2>2
<1> QED BY <1>2, <1>3, <1>4, PTL

--------------------------------------------------------------------------
(* The four parts together *)

\* A step of the firmware is a step of one part and leaves the others alone.
LEMMA StepOfParts ==
  [FirmwareNext]_firmwareVars =>
    /\ [Next]_vars /\ [ScalerNext]_scalerVars
    /\ [LcdNext]_lcdVars /\ [GamepadsNext]_padVars
<1> SUFFICES ASSUME [FirmwareNext]_firmwareVars
             PROVE  /\ [Next]_vars /\ [ScalerNext]_scalerVars
                    /\ [LcdNext]_lcdVars /\ [GamepadsNext]_padVars
  OBVIOUS
<1>1. CASE UNCHANGED firmwareVars
  BY <1>1 DEF firmwareVars
<1>2. CASE Only("loader", Next, <<scalerVars, lcdVars, padVars>>)
  BY <1>2 DEF Only
<1>3. CASE Only("scaler", ScalerNext, <<vars, lcdVars, padVars>>)
  BY <1>3 DEF Only
<1>4. CASE Only("panel", LcdNext, <<vars, scalerVars, padVars>>)
  BY <1>4 DEF Only
<1>5. CASE Only("pads", GamepadsNext, <<vars, scalerVars, lcdVars>>)
  BY <1>5 DEF Only
<1> QED BY <1>1, <1>2, <1>3, <1>4, <1>5 DEF FirmwareNext

\* Every variable of the loader, of the scaler, of the panel and of the gamepads keeps its
\* type, for any card, number of strips, size of frame and number of pads.
THEOREM FirmwareTyped == FirmwareSpec => []FirmwareTypes
<1>1. FirmwareInit => RomInv /\ PadInv /\ ScalerInit /\ LcdInit
  BY RomStart, PadStart DEF FirmwareInit
<1>2. RomInv /\ [FirmwareNext]_firmwareVars => RomInv'
  BY RomKept, StepOfParts
<1>3. PadInv /\ [FirmwareNext]_firmwareVars => PadInv'
  BY PadKept, StepOfParts
<1>4. FirmwareSpec => []RomInv /\ []PadInv
  BY <1>1, <1>2, <1>3, PTL DEF FirmwareSpec
<1>5. FirmwareSpec => []ScalerTypeOK /\ []LcdTypeOK
  <2>1. FirmwareSpec => ScalerSpec /\ LcdSpec
    BY <1>1, StepOfParts, PTL DEF FirmwareSpec, ScalerSpec, LcdSpec
  <2> QED BY <2>1, ScalerTyped, PanelTyped
<1>6. RomInv /\ PadInv /\ ScalerTypeOK /\ LcdTypeOK => FirmwareTypes
  BY RomTypesOK, PadTypesOK DEF FirmwareTypes
<1> QED BY <1>4, <1>5, <1>6, PTL
=============================================================================
