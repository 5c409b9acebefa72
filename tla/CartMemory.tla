----------------------------- MODULE CartMemory -----------------------------
(***************************************************************************)
(* What a game expects of the memory in its cartridge, whatever protocol   *)
(* leads to it: cells that change only as asked, and requests that either  *)
(* take full effect or, when the exchange is broken off, none at all.      *)
(***************************************************************************)
EXTENDS Naturals

CONSTANT Idle   \* no request under way

VARIABLES
  cell,    \* the memory, cell by cell
  ask,     \* the request under way: [kind, cells, value], or Idle
  answer,  \* what the last read returned, for the cells it asked for
  breaks   \* how many requests were broken off

memVars == <<cell, ask, answer, breaks>>

MemInit == ask = Idle /\ answer = <<>> /\ breaks = 0

Ask == ask = Idle /\ ask' # Idle /\ UNCHANGED <<cell, answer, breaks>>

\* A write is done in all of its cells and in no other.
ServeWrite ==
  /\ ask # Idle /\ ask.kind = "write" /\ ask' = Idle
  /\ cell' = [c \in DOMAIN cell |-> IF c \in ask.cells THEN ask.value ELSE cell[c]]
  /\ UNCHANGED <<answer, breaks>>

\* A read returns what the cells hold.
ServeRead ==
  /\ ask # Idle /\ ask.kind = "read" /\ ask' = Idle
  /\ answer' = [c \in ask.cells |-> cell[c]]
  /\ UNCHANGED <<cell, breaks>>

BreakOff ==
  /\ ask # Idle /\ ask' = Idle
  /\ breaks' = breaks + 1
  /\ UNCHANGED <<cell, answer>>

MemNext == Ask \/ ServeWrite \/ ServeRead \/ BreakOff

MemSpec == MemInit /\ [][MemNext]_memVars
=============================================================================
