------------------------------ MODULE Gamepads ------------------------------
(***************************************************************************)
(* USB gamepads of the ESP32-S31 firmware.  A task is a client of the USB  *)
(* host for wired XInput pads (korvo1_usb_xinput.c); beside it the HID     *)
(* driver calls back while another task opens what it found                *)
(* (korvo1_usb_gamepad.c).  The host and its driver are external.          *)
(***************************************************************************)
EXTENDS Integers, Sequences

CONSTANTS
  MaxPlugs,   \* bound: pads plugged in
  MaxReports, \* bound: reports and errors of transfers
  MaxRefusals \* bound: calls that fail with the pad still there

ASSUME GamepadsAssumption == {MaxPlugs, MaxReports, MaxRefusals} \subseteq Nat

VARIABLES
  attached, \* pads plugged in now
  hids,     \* those that are of the HID class, the others speak XInput
  counts,   \* pads plugged in, reports and refusals so far
  messages, \* of the host to the XInput client
  xtask,    \* what the XInput task does next
  xin,      \* xinput_context_t: device, pending_address, device_gone, output_phase
  moving,   \* where the input and the output transfer are
  claimed,  \* interface_claimed
  pressed,  \* s_stats.joypad_mask has a button
  held,     \* the host's account of what the client holds
  torn,     \* history: opening failed while the output transfer was on its way
  found,    \* s_event_queue: interfaces for the gamepad task to open
  htask,    \* what the gamepad task does next, with which interface
  hactive,  \* s_active_handle
  hconnected, \* s_stats.connected
  hopen     \* interfaces open in the HID driver

busVars == <<attached, hids, messages, found>>
xinVars == <<xtask, xin, moving, claimed, pressed, held, torn>>
hidVars == <<htask, hactive, hconnected, hopen>>
padVars == <<busVars, counts, xinVars, hidVars>>

Pads == 1 .. MaxPlugs   \* a pad is known by its address, which is not given twice
NoPad == 0
PadTransfers == {"input", "output"}

GamepadsInit ==
  /\ attached = {} /\ hids = {} /\ messages = <<>> /\ found = <<>>
  /\ counts = [plugs |-> 0, reports |-> 0, refusals |-> 0]
  /\ xtask = "look"
  /\ xin = [device |-> NoPad, pending |-> NoPad, gone |-> FALSE, phase |-> 0]
  /\ moving = [t \in PadTransfers |-> "none"] /\ claimed = FALSE
  /\ pressed = FALSE /\ held = {} /\ torn = FALSE
  /\ htask = [step |-> "wait", pad |-> NoPad]
  /\ hactive = NoPad /\ hconnected = FALSE /\ hopen = {}
--------------------------------------------------------------------------
(* The host: external *)

\* A pad is enumerated: every client is told, and the HID driver if the pad is of its class.
Plug ==
  /\ counts.plugs < MaxPlugs
  /\ LET p == counts.plugs + 1
     IN /\ counts' = [counts EXCEPT !.plugs = p]
        /\ attached' = attached \cup {p}
        /\ messages' = Append(messages, <<"new", p>>)
        /\ \/ hids' = hids \cup {p} /\ found' = Append(found, p)
           \/ UNCHANGED <<hids, found>>
  /\ UNCHANGED <<xinVars, hidVars>>

\* Its transfers come back, and the client that has it open is told.
Unplug(p) ==
  /\ attached' = attached \ {p}
  /\ IF xin.device = p /\ <<p, "device">> \in held
     THEN /\ moving' = [t \in PadTransfers |->
                          IF moving[t] = "flying" THEN "gone" ELSE moving[t]]
          /\ messages' = Append(messages, <<"gone", p>>)
     ELSE UNCHANGED <<moving, messages>>
  /\ UNCHANGED <<hids, found, counts, xtask, xin, claimed, pressed, held, torn, hidVars>>

\* A transfer completes, the input with a report of the buttons, or ends with an error.
Complete(t, how) ==
  /\ moving[t] = "flying" /\ counts.reports < MaxReports
  /\ moving' = [moving EXCEPT ![t] = how]
  /\ counts' = [counts EXCEPT !.reports = @ + 1]
  /\ UNCHANGED <<busVars, xtask, xin, claimed, pressed, held, torn, hidVars>>

\* A call that needs the pad fails when it is away, and may fail when it is not.
Works(p) == p \in attached /\ UNCHANGED counts
Fails(p) ==
  IF p \in attached
  THEN counts.refusals < MaxRefusals /\ counts' = [counts EXCEPT !.refusals = @ + 1]
  ELSE UNCHANGED counts

\* What is still held when a client frees all it holds of p: a transfer on its way is not
\* freed, nor its interface released, nor the device closed.
Underway(t) == moving[t] \notin {"none", "idle"}
StillHeld(p) ==
  {r \in held : \/ r[1] # p
                \/ \E t \in PadTransfers : Underway(t) /\ r[2] \in {t, "interface", "device"}}
--------------------------------------------------------------------------
(* The XInput task *)

\* close_xinput_device, and the end of an opening that failed.
ForgetPad ==
  /\ held' = StillHeld(xin.device)
  /\ moving' = [t \in PadTransfers |-> "none"]
  /\ claimed' = FALSE

\* Mutant: the buttons that were down stay down.
CloseHoldsButtons ==
  /\ xtask = "look" /\ xin.gone
  /\ ForgetPad
  /\ xin' = [xin EXCEPT !.device = NoPad, !.gone = FALSE]
  /\ UNCHANGED <<busVars, counts, xtask, pressed, torn, hidVars>>
Close ==
  /\ xtask = "look" /\ xin.gone
  /\ pressed' = FALSE
  /\ ForgetPad
  /\ xin' = [xin EXCEPT !.device = NoPad, !.gone = FALSE]
  /\ UNCHANGED <<busVars, counts, xtask, torn, hidVars>>

Look ==
  /\ xtask = "look" /\ ~xin.gone
  /\ IF xin.pending # NoPad /\ xin.device = NoPad
     THEN /\ xin' = [xin EXCEPT !.pending = NoPad, !.device = xin.pending]
          /\ xtask' = "open"
     ELSE xtask' = "handle" /\ UNCHANGED xin
  /\ UNCHANGED <<busVars, counts, moving, claimed, pressed, held, torn, hidVars>>

\* The calls of open_xinput_device, each with the one that follows it.
Following == [open |-> "find", find |-> "claim", claim |-> "input", input |-> "output",
              output |-> "publish", publish |-> "led", led |-> "submit", submit |-> "handle"]

\* The host gives the client something of the pad to hold.
Grant(what) == held' = held \cup {<<xin.device, what>>}

OpenStep(step) ==
  /\ xtask = step /\ xtask' = Following[step]
  /\ UNCHANGED <<busVars, torn, hidVars>>

OpenDevice ==
  /\ OpenStep("open") /\ Works(xin.device) /\ Grant("device")
  /\ UNCHANGED <<xin, moving, claimed, pressed>>

FindInterface ==
  /\ OpenStep("find") /\ xin.device \notin hids
  /\ UNCHANGED <<counts, xin, moving, claimed, pressed, held>>

ClaimInterface ==
  /\ OpenStep("claim") /\ Works(xin.device) /\ Grant("interface") /\ claimed' = TRUE
  /\ UNCHANGED <<xin, moving, pressed>>

Allocate(t) ==
  /\ OpenStep(t) /\ Grant(t) /\ moving' = [moving EXCEPT ![t] = "idle"]
  /\ UNCHANGED <<counts, xin, claimed, pressed>>

Publish ==
  /\ OpenStep("publish") /\ pressed' = FALSE
  /\ UNCHANGED <<counts, xin, moving, claimed, held>>

\* That the lights cannot be set is only logged.
SetLights ==
  /\ OpenStep("led")
  /\ \/ /\ Works(xin.device)
        /\ moving' = [moving EXCEPT !.output = "flying"]
        /\ xin' = [xin EXCEPT !.phase = 1]
     \/ /\ Fails(xin.device)
        /\ xin' = [xin EXCEPT !.phase = 0]
        /\ UNCHANGED moving
  /\ UNCHANGED <<claimed, pressed, held>>

Submit ==
  /\ OpenStep("submit") /\ Works(xin.device)
  /\ moving' = [moving EXCEPT !.input = "flying"]
  /\ UNCHANGED <<xin, claimed, pressed, held>>

\* A step fails: what the steps before it acquired is given back.
OpenFails ==
  /\ \/ xtask \in {"open", "claim", "submit"} /\ Fails(xin.device)
     \/ xtask = "find" /\ xin.device \in hids /\ UNCHANGED counts
     \/ /\ xtask \in PadTransfers /\ counts.refusals < MaxRefusals
        /\ counts' = [counts EXCEPT !.refusals = @ + 1]
  /\ ForgetPad
  /\ torn' = (torn \/ \E t \in PadTransfers : Underway(t))
  /\ xin' = [xin EXCEPT !.device = NoPad]
  /\ xtask' = "handle"
  /\ UNCHANGED <<busVars, pressed, hidVars>>
--------------------------------------------------------------------------
(* usb_host_client_handle_events: callbacks until there is nothing to call.  *)

\* Mutant: the notice is compared with the pad that waits.
NoteGoneOfPending(p) == p = xin.pending
NoteGone(p) == p = xin.device

\* xinput_client_callback.
HandleMessage ==
  /\ xtask = "handle" /\ messages # <<>>
  /\ LET what == Head(messages)[1]
         p == Head(messages)[2]
     IN xin' = IF what = "new" /\ xin.device = NoPad /\ xin.pending = NoPad
               THEN [xin EXCEPT !.pending = p]
               ELSE IF what = "gone" /\ NoteGone(p) THEN [xin EXCEPT !.gone = TRUE]
               ELSE xin
  /\ messages' = Tail(messages)
  /\ UNCHANGED <<attached, hids, found, counts, xtask, moving, claimed, pressed, held, torn,
                 hidVars>>

\* input_transfer_done: after a report the transfer is submitted again.
InputDone ==
  /\ xtask = "handle" /\ moving.input \in {"down", "up", "error", "gone"}
  /\ pressed' = IF moving.input \in {"down", "up"} THEN moving.input = "down" ELSE pressed
  /\ \/ /\ moving.input \in {"down", "up"} /\ Works(xin.device)
        /\ moving' = [moving EXCEPT !.input = "flying"]
     \/ /\ IF moving.input \in {"down", "up"} THEN Fails(xin.device) ELSE UNCHANGED counts
        /\ moving' = [moving EXCEPT !.input = "idle"]
  /\ UNCHANGED <<busVars, xtask, xin, claimed, held, torn, hidVars>>

\* output_transfer_done: after the lights the rumble is stopped.
OutputDone ==
  /\ xtask = "handle" /\ moving.output \in {"done", "error", "gone"}
  /\ LET again == moving.output = "done" /\ xin.phase = 1
     IN \/ /\ again /\ Works(xin.device)
           /\ moving' = [moving EXCEPT !.output = "flying"]
           /\ xin' = [xin EXCEPT !.phase = 2]
        \/ /\ IF again THEN Fails(xin.device) ELSE UNCHANGED counts
           /\ moving' = [moving EXCEPT !.output = "idle"]
           /\ xin' = [xin EXCEPT !.phase = 0]
  /\ UNCHANGED <<busVars, xtask, claimed, pressed, held, torn, hidVars>>

HandleReturns ==
  /\ xtask = "handle" /\ messages = <<>>
  /\ \A t \in PadTransfers : moving[t] \in {"none", "idle", "flying"}
  /\ xtask' = "look"
  /\ UNCHANGED <<busVars, counts, xin, moving, claimed, pressed, held, torn, hidVars>>
--------------------------------------------------------------------------
(* The gamepad task and the HID driver, which may call back between any two  *)
(* of its steps.                                                             *)

HidDone == htask' = [step |-> "wait", pad |-> NoPad]
HidStep(from, to) == htask.step = from /\ htask' = [htask EXCEPT !.step = to]

\* gamepad_task; a second interface is ignored.
TakeFound ==
  /\ htask.step = "wait" /\ found # <<>>
  /\ IF Head(found) \in attached /\ hactive = NoPad
     THEN htask' = [step |-> "open", pad |-> Head(found)]
     ELSE UNCHANGED htask
  /\ found' = Tail(found)
  /\ UNCHANGED <<attached, hids, messages, counts, xinVars, hactive, hconnected, hopen>>

\* open_hid_interface; what is not a gamepad is closed again.
HidOpen ==
  /\ HidStep("open", "describe") /\ Works(htask.pad)
  /\ hopen' = hopen \cup {htask.pad}
  /\ UNCHANGED <<busVars, xinVars, hactive, hconnected>>

HidGivesUp ==
  /\ \/ htask.step = "open" /\ Fails(htask.pad) /\ UNCHANGED hopen
     \/ htask.step = "describe" /\ UNCHANGED counts /\ hopen' = hopen \ {htask.pad}
  /\ HidDone
  /\ UNCHANGED <<busVars, xinVars, hactive, hconnected>>

HidPublish ==
  /\ HidStep("describe", "activate")
  /\ hconnected' = TRUE
  /\ UNCHANGED <<busVars, counts, xinVars, hactive, hopen>>

HidActivate ==
  /\ HidStep("activate", "start")
  /\ hactive' = htask.pad
  /\ UNCHANGED <<busVars, counts, xinVars, hconnected, hopen>>

\* Reports cannot be started from an interface that was closed meanwhile.
HidStart ==
  /\ htask.step = "start" /\ HidDone
  /\ htask.pad \in hopen /\ Works(htask.pad)
  /\ UNCHANGED <<busVars, xinVars, hactive, hconnected, hopen>>

\* Mutant: the handle stays.
StartFailsHalf ==
  /\ htask.step = "start" /\ HidDone
  /\ IF htask.pad \in hopen THEN Fails(htask.pad) ELSE UNCHANGED counts
  /\ hconnected' = FALSE /\ hopen' = hopen \ {htask.pad}
  /\ UNCHANGED <<busVars, xinVars, hactive>>
HidStartFails ==
  /\ htask.step = "start" /\ HidDone
  /\ IF htask.pad \in hopen THEN Fails(htask.pad) ELSE UNCHANGED counts
  /\ hconnected' = FALSE /\ hactive' = NoPad /\ hopen' = hopen \ {htask.pad}
  /\ UNCHANGED <<busVars, xinVars>>

\* hid_interface_callback, for an open interface whose pad is away.
HidGone(p) ==
  /\ p \in hopen \ attached
  /\ hopen' = hopen \ {p}
  /\ IF p = hactive THEN hconnected' = FALSE /\ hactive' = NoPad
                    ELSE UNCHANGED <<hconnected, hactive>>
  /\ UNCHANGED <<busVars, counts, xinVars, htask>>
--------------------------------------------------------------------------
XinputTask ==
  \/ Close \/ Look \/ OpenDevice \/ FindInterface \/ ClaimInterface
  \/ (\E t \in PadTransfers : Allocate(t))
  \/ Publish \/ SetLights \/ Submit \/ OpenFails
  \/ HandleMessage \/ InputDone \/ OutputDone \/ HandleReturns

GamepadTask ==
  TakeFound \/ HidOpen \/ HidGivesUp \/ HidPublish \/ HidActivate \/ HidStart \/ HidStartFails

HidDriver == \E p \in hopen : HidGone(p)

GamepadsNext ==
  \/ Plug \/ (\E p \in attached : Unplug(p))
  \/ (\E how \in {"down", "up", "error"} : Complete("input", how))
  \/ (\E how \in {"done", "error"} : Complete("output", how))
  \/ XinputTask \/ GamepadTask \/ HidDriver

\* The tasks and the driver get their turns.
GamepadsFairness == WF_padVars(XinputTask) /\ WF_padVars(GamepadTask) /\ WF_padVars(HidDriver)

GamepadsSpec == GamepadsInit /\ [][GamepadsNext]_padVars /\ GamepadsFairness
--------------------------------------------------------------------------
(* Properties *)

GamepadsTypeOK ==
  /\ attached \subseteq Pads /\ hids \subseteq Pads /\ hopen \subseteq Pads
  /\ xtask \in {"look", "handle"} \cup DOMAIN Following
  /\ xin.device \in Pads \cup {NoPad} /\ xin.pending \in Pads \cup {NoPad}
  /\ xin.phase \in 0 .. 2 /\ {claimed, pressed, torn, hconnected} \subseteq BOOLEAN
  /\ hactive \in Pads \cup {NoPad}

\* Without a pad the XInput client holds nothing of the host and presses no button, at
\* whatever step the opening of the last one failed or whenever it was unplugged; with one
\* it holds all it needs.  (Opening that fails with the light on its way is the exception.)
ClosedIsClean ==
  xtask \in {"look", "handle"} /\ ~torn =>
    IF xin.device = NoPad
    THEN held = {} /\ ~claimed /\ ~pressed /\ \A t \in PadTransfers : moving[t] = "none"
    ELSE held = {xin.device} \X {"device", "interface", "input", "output"} /\ claimed

\* Wherever the notice of an unplugged HID pad comes between the steps of its opening, the
\* task ends with an open interface shown as connected, or with none.
HidSettles ==
  htask.step = "wait" =>
    IF hactive = NoPad THEN ~hconnected /\ hopen = {} ELSE hconnected /\ hopen = {hactive}

\* A pad that is unplugged is let go for good by both tasks.
LetGo ==
  \A p \in Pads :
    (counts.plugs >= p /\ p \notin attached) ~> [](xin.device # p /\ hactive # p)
=============================================================================
