------------------------------ MODULE MCDevices ------------------------------
(***************************************************************************)
(* The devices of the machine, in small instances: the paging of the ROM,  *)
(* the backup memory, the clock, a DMA channel, a ring of the sound, the   *)
(* link cable (two protocols) and the save states.  They share no state in *)
(* the models, so that a behaviour follows one of them.                    *)
(***************************************************************************)
EXTENDS Gamepak, Backup, Rtc, Dma, SoundFifo, Cable, AdvWars, Savestate

VARIABLE part   \* the device the behaviour is of

devicesVars == <<part, vars, backupVars, rtcVars, dmaVars, fifoVars, cableVars, awVars,
                 savestateVars>>
Parts == {"gamepak", "backup", "rtc", "dma", "fifo", "cable", "aw", "savestate"}

\* Code runs in the first page and in a mirror of the last.
TwoCodePages == {0, Window + 3}

\* A block with structure, and one whose last bit alone is set.
TwoPatterns == {[i \in 1 .. 64 |-> IF i % 3 = 0 THEN 1 ELSE 0],
                [i \in 1 .. 64 |-> IF i = 64 THEN 1 ELSE 0]}

\* The last second but one of a year, with values on both sides of a tens digit.
NewYearsEve == {<<124, 11, 31, 2, 23, 59, 8>>}

DevicesInit ==
  /\ part \in Parts
  /\ Init /\ BackupInit /\ RtcInit /\ DmaInit /\ FifoInit /\ CableInit /\ AdvWarsInit
  /\ SavestateInit
  /\ part # "backup" => kind = "sram"
  /\ part # "cable" => me = 0

\* A step of one device: the variables of the others stay.
Only(p, step, others) == part = p /\ step /\ UNCHANGED <<part, others>>

DevicesNext ==
  \/ Only("gamepak", Next,
          <<backupVars, rtcVars, dmaVars, fifoVars, cableVars, awVars, savestateVars>>)
  \/ Only("backup", BackupNext,
          <<vars, rtcVars, dmaVars, fifoVars, cableVars, awVars, savestateVars>>)
  \/ Only("rtc", RtcNext,
          <<vars, backupVars, dmaVars, fifoVars, cableVars, awVars, savestateVars>>)
  \/ Only("dma", DmaNext,
          <<vars, backupVars, rtcVars, fifoVars, cableVars, awVars, savestateVars>>)
  \/ Only("fifo", FifoNext,
          <<vars, backupVars, rtcVars, dmaVars, cableVars, awVars, savestateVars>>)
  \/ Only("cable", CableNext,
          <<vars, backupVars, rtcVars, dmaVars, fifoVars, awVars, savestateVars>>)
  \/ Only("aw", AdvWarsNext,
          <<vars, backupVars, rtcVars, dmaVars, fifoVars, cableVars, savestateVars>>)
  \/ Only("savestate", SavestateNext,
          <<vars, backupVars, rtcVars, dmaVars, fifoVars, cableVars, awVars>>)

DevicesSpec == DevicesInit /\ [][DevicesNext]_devicesVars /\ WF_vars(Paging)
--------------------------------------------------------------------------
\* The variables of every device keep their types.
DeviceTypes ==
  /\ TypeOK /\ BackupTypeOK /\ RtcTypeOK /\ DmaTypeOK /\ FifoTypeOK
  /\ CableTypeOK /\ AdvWarsTypeOK /\ SavestateTypeOK

\* What a game is shown of the others on the cable is what they sent, by either protocol
\* (serialpoke_ and serialaw_ in serial_proto.c), but for a 0 of a packet of Advance Wars
\* that is read where keys are expected: the code drops it.
OthersShown == PeersShown /\ Replayed
=============================================================================
