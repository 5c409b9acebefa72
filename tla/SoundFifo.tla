----------------------------- MODULE SoundFifo -----------------------------
(***************************************************************************)
(* A direct sound channel (sound.c): a timer plays one sample at a time    *)
(* from a ring, and has a DMA channel bring a burst when no more than half *)
(* of the ring is taken.  The ring does not count its samples: full and    *)
(* empty look alike, and the base moves on over a ring that is empty.      *)
(***************************************************************************)
EXTENDS Integers, FiniteSets

CONSTANTS
  Ring,       \* entries of the ring (32)
  Burst,      \* samples of a DMA (4 words of 4)
  Word,       \* samples of one write of the processor (4)
  MaxTicks,   \* bound: timer overflows
  MaxWrites   \* bound: register writes of the game

ASSUME FifoAssumption ==
  Word \in Nat \ {0} /\ Burst \in Nat \ {0} /\ Burst % Word = 0 /\ Ring = 2 * Burst

VARIABLES
  fifo, base, top,  \* the ring: the serial number of each sample, 0 for silence
  feed,     \* the DMA channel's start_type, direct_sound_channel and repeat_type
  queued,   \* history: samples written so far
  newest,   \* history: the latest sample played, or silenced
  steady,   \* history: ticks since the feed was last interfered with (up to Ring)
  fault,    \* history: what went wrong at the last step
  ticks, writes

fifoVars == <<fifo, base, top, feed, queued, newest, steady, fault, ticks, writes>>

NoFeed == [active |-> FALSE, attached |-> FALSE, repeat |-> FALSE]

FifoInit ==
  /\ fifo = [i \in 0 .. Ring - 1 |-> 0] /\ base = 0 /\ top = 0
  /\ feed = NoFeed
  /\ queued = 0 /\ newest = 0 /\ steady = 0 /\ fault = {} /\ ticks = 0 /\ writes = 0

\* Mutant: the top does not move past the last word.
QueueShort(n) ==
  LET taken == {(top + k) % Ring : k \in 0 .. n - 1}
  IN /\ fifo' = [i \in DOMAIN fifo |->
                   IF i \in taken THEN queued + 1 + ((i - top) % Ring) ELSE fifo[i]]
     /\ top' = (top + n - 1) % Ring
     /\ queued' = queued + n
     /\ fault' = {}
\* sound_timer_queue32: n samples at the top, whatever lies there.
Queue(n) ==
  LET taken == {(top + k) % Ring : k \in 0 .. n - 1}
  IN /\ fifo' = [i \in DOMAIN fifo |->
                   IF i \in taken THEN queued + 1 + ((i - top) % Ring) ELSE fifo[i]]
     /\ top' = (top + n) % Ring
     /\ queued' = queued + n
     /\ fault' = IF \E i \in taken : fifo[i] > newest' THEN {"overwritten"} ELSE {}

\* Samples in the ring that are still to be played.
Waiting == Cardinality({i \in DOMAIN fifo : fifo[i] > newest})

\* The processor fills the ring itself, as far as there is room.
WriteFifo ==
  /\ writes < MaxWrites /\ ~feed.attached /\ Waiting + Word <= Ring
  /\ UNCHANGED <<base, feed, newest, ticks>>
  /\ Queue(Word)
  /\ steady' = 0 /\ writes' = writes + 1

\* trigger_dma with start type "special": the channel is attached to the ring.
StartFeed ==
  /\ ~feed.active /\ writes < MaxWrites
  /\ \E r \in BOOLEAN : feed' = [active |-> TRUE, attached |-> TRUE, repeat |-> r]
  /\ steady' = 0 /\ fault' = {} /\ writes' = writes + 1
  /\ UNCHANGED <<fifo, base, top, queued, newest, ticks>>

StopFeed ==
  /\ feed.attached /\ writes < MaxWrites
  /\ feed' = [feed EXCEPT !.active = FALSE, !.attached = FALSE]
  /\ steady' = 0 /\ fault' = {} /\ writes' = writes + 1
  /\ UNCHANGED <<fifo, base, top, queued, newest, ticks>>

\* sound_reset_fifo silences what is in the ring; the indices stay.
ResetFifo ==
  /\ writes < MaxWrites
  /\ fifo' = [i \in DOMAIN fifo |-> 0]
  /\ newest' = queued
  /\ steady' = 0 /\ fault' = {} /\ writes' = writes + 1
  /\ UNCHANGED <<base, top, feed, queued, ticks>>

\* The DMA channel: four words to the ring; without repeat the channel is inactive
\* afterwards, but it stays attached.
Refill ==
  /\ Queue(Burst)
  /\ feed' = [feed EXCEPT !.active = feed.active /\ feed.repeat]

\* Mutant: the ring is refilled a word too early.
WantedEarly == (top - base') % Ring <= Burst + Word
Wanted == (top - base') % Ring <= Burst

\* sound_timer: a sample is played and the base moves on, then the ring is refilled.
SoundTimer ==
  /\ ticks < MaxTicks
  /\ LET sample == fifo[base] IN
       /\ base' = (base + 1) % Ring
       /\ newest' = IF sample > newest THEN sample ELSE newest
       /\ IF Wanted /\ feed.attached THEN Refill
          ELSE UNCHANGED <<fifo, top, feed, queued>> /\ fault' = {}
       /\ steady' = IF ~(feed.active /\ feed.repeat) THEN 0
                    ELSE IF steady = Ring /\ sample # newest + 1 THEN Ring + 1
                    ELSE IF steady < Ring THEN steady + 1 ELSE steady
  /\ ticks' = ticks + 1
  /\ UNCHANGED writes

FifoNext == WriteFifo \/ StartFeed \/ StopFeed \/ ResetFifo \/ SoundTimer

FifoSpec == FifoInit /\ [][FifoNext]_fifoVars
--------------------------------------------------------------------------
(* Properties *)

\* The variables keep their types.
FifoTypeOK ==
  /\ fifo \in [0 .. Ring - 1 -> Nat] /\ base \in 0 .. Ring - 1 /\ top \in 0 .. Ring - 1
  /\ feed \in [active : BOOLEAN, attached : BOOLEAN, repeat : BOOLEAN]
  /\ queued \in Nat /\ newest \in 0 .. queued /\ steady \in 0 .. Ring + 1

\* A burst never takes the place of samples still to be played, although the ring
\* cannot tell that it is full; not after silence, an underrun, or a new start either.
NeverOverwritten == fault = {}

\* Once the DMA has fed the ring for a round without interference, every sample that
\* was queued is played once and in order.
PlayedInOrder == steady # Ring + 1

\* No sample the game queued is lost in the ring, or played twice or early (sound_timer).
SamplesKept == NeverOverwritten /\ PlayedInOrder
=============================================================================
