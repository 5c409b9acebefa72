------------------------------ MODULE MCCaches ------------------------------
(* Small instances of JitCache, of Dispatch and of the Translator.  Each      *)
(* stands alone: a behaviour of the composition is of one of them, as "part"  *)
(* says.                                                                      *)
EXTENDS MCJitCache, MCDispatch, MCTranslator

VARIABLE part

CachesInit ==
  /\ part \in {"ram", "dispatch", "block"}
  /\ Init /\ DispatchInit /\ TranslatorInit
  /\ part # "ram" => mem = [w \in Words |-> Op]
  /\ part # "dispatch" => text = [k \in RamKeys |-> 0]
  /\ part # "block" => gate = 0
CachesNext ==
  \/ part = "ram" /\ Next /\ UNCHANGED <<part, dispatchVars, scanVars, codeVars>>
  \/ part = "dispatch" /\ DispatchNext /\ UNCHANGED <<part, vars, scanVars, codeVars>>
  \/ part = "block" /\ TranslatorNext /\ UNCHANGED <<part, vars, dispatchVars>>
CachesSpec == CachesInit /\ [][CachesNext]_<<part, vars, dispatchVars, scanVars, codeVars>>

\* The variables of all three keep their types.
CacheTypes == TypeOK /\ DispatchTypeOK /\ TranslatorTypeOK

\* A tag leads to one block and covers it, and a lookup never runs out of tries.
LookupsRight == TagsRight /\ NoBadJump
=============================================================================
