----------------------------- MODULE MCFirmware -----------------------------
(***************************************************************************)
(* The ESP32-S31 firmware, in small instances: the loading of a game, the  *)
(* scaler, the strips of the panel and the USB gamepads.  They share no    *)
(* state in the models, so that a behaviour follows one of them.           *)
(***************************************************************************)
EXTENDS RomLoader, Scaler, LcdBounce, Gamepads

VARIABLE part   \* the part the behaviour is of

firmwareVars == <<part, vars, scalerVars, lcdVars, padVars>>
FirmwareParts == {"loader", "scaler", "panel", "pads"}

Letters == {"a", "b", "c", "d"}

\* a and b have the same hash, c and d another.
Collide == [c \in Letters |-> IF c \in {"a", "b"} THEN 1 ELSE 2]

\* Games that fit the pool, that spill, and one that does not fit at all.
SomeGames == {<<"a", "a">>, <<"a", "b", "a", "b">>, <<"b", "c", "a", "d">>, <<"c", "a", "c">>}

\* The parts that are not followed are in one of their initial states.
FirmwareInit ==
  /\ part \in FirmwareParts
  /\ Init /\ ScalerInit /\ LcdInit /\ GamepadsInit
  /\ part # "loader" => card = <<"a", "a">> /\ flash = [s \in Partition |-> Blank]
  /\ part # "scaler" => requested = "cpu"

\* A step of one part: the variables of the others stay.
Only(p, step, others) == part = p /\ step /\ UNCHANGED <<part, others>>

FirmwareNext ==
  \/ Only("loader", Next, <<scalerVars, lcdVars, padVars>>)
  \/ Only("scaler", ScalerNext, <<vars, lcdVars, padVars>>)
  \/ Only("panel", LcdNext, <<vars, scalerVars, padVars>>)
  \/ Only("pads", GamepadsNext, <<vars, scalerVars, lcdVars>>)

\* The fairness of RomLoader and of Gamepads, of the part that is followed.
FirmwareFairness ==
  /\ WF_firmwareVars(Only("loader", Loading \/ Fail, <<scalerVars, lcdVars, padVars>>))
  /\ WF_firmwareVars(Only("pads", XinputTask, <<vars, scalerVars, lcdVars>>))
  /\ WF_firmwareVars(Only("pads", GamepadTask, <<vars, scalerVars, lcdVars>>))
  /\ WF_firmwareVars(Only("pads", HidDriver, <<vars, scalerVars, lcdVars>>))

FirmwareSpec == FirmwareInit /\ [][FirmwareNext]_firmwareVars /\ FirmwareFairness
--------------------------------------------------------------------------
\* The variables of every part keep their types.
FirmwareTypes == TypeOK /\ ScalerTypeOK /\ LcdTypeOK /\ GamepadsTypeOK
=============================================================================
