------------------------------ MODULE MCDispatch ------------------------------
(* A small instance of Dispatch: "a" branches to "b", which calls the BIOS;    *)
(* "d" shares its place in the hash table with "a" and the target of SWI.      *)
EXTENDS Dispatch

RomExits(k) == CASE k = "a" -> "b" [] k \in {"b", "w"} -> Swi [] OTHER -> NoKey
BlockCost(k) == 2
HashOf(k) == IF k = "b" THEN 1 ELSE 0
SlotOf(k) == 0
===============================================================================
