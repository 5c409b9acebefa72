--------------------------- MODULE DevicesProofs ---------------------------
(***************************************************************************)
(* Theorems about the devices of the machine, for every size of what they  *)
(* keep: the ring of a sound channel, the pages of the ROM, the documents  *)
(* of the save states, the frames of the link cable, the transfers of a    *)
(* DMA channel.                                                            *)
(***************************************************************************)
EXTENDS Gamepak, SoundFifo, Cable, Savestate, Dma, FiniteSetTheorems,
        SequenceTheorems, TLAPS

(*------------------------- a ring of the sound --------------------------*)

\* The sizes of the ring, as the assumption on the constants gives them.
LEMMA RingSize == Ring \in Nat \ {0} /\ Burst \in 1 .. Ring - 1 /\ Ring = Burst + Burst
BY FifoAssumption

Rem(a) == a % Ring

(* The remainder of a number that is less than a round away.                  *)
LEMMA Modulo ==
  ASSUME NEW a \in Int, -Ring <= a, a < 2 * Ring
  PROVE  /\ Rem(a) = IF a < 0 THEN a + Ring ELSE IF a < Ring THEN a ELSE a - Ring
         /\ Rem(a) \in 0 .. Ring - 1
<1> USE RingSize
<1>1. \A b \in 0 .. Ring - 1 : b % Ring = b /\ (b + Ring) % Ring = b /\ (b - Ring) % Ring = b
  <2> TAKE b \in 0 .. Ring - 1
  <2> QED OBVIOUS
<1> DEFINE r == IF a < 0 THEN a + Ring ELSE IF a < Ring THEN a ELSE a - Ring
<1>2. r \in 0 .. Ring - 1 /\ (a = r \/ a = r + Ring \/ a = r - Ring)
  OBVIOUS
<1> HIDE DEF r
<1>3. a % Ring = r
  BY <1>1, <1>2
<1> QED BY <1>2, <1>3 DEF r, Rem

(* How far a place of the ring is behind its top.                             *)
Behind(i) == Rem(top - 1 - i)

(* A place holds the sample its distance says, if that is still to be played  *)
(* after the sample s.                                                        *)
Ordered(s) ==
  \A i \in 0 .. Ring - 1 :
    IF Behind(i) < queued - s THEN fifo[i] = queued - Behind(i) ELSE fifo[i] <= s

(* While the channel is fed, the samples that are missing become fewer.       *)
Fed ==
  steady > 0 =>
    /\ feed.active /\ feed.repeat
    /\ queued - newest <= Behind(base) + 1
    /\ Behind(base) + 1 <= queued - newest + Ring - steady

FifoTypes ==
  /\ fifo \in [0 .. Ring - 1 -> Nat] /\ base \in 0 .. Ring - 1 /\ top \in 0 .. Ring - 1
  /\ feed \in [active : BOOLEAN, attached : BOOLEAN, repeat : BOOLEAN]
  /\ queued \in Nat /\ newest \in 0 .. queued /\ steady \in 0 .. Ring

FifoInv ==
  /\ FifoTypes
  /\ queued - newest <= Ring
  /\ Ordered(newest) /\ Fed
  /\ feed.active => feed.attached
  /\ fault = {}

--------------------------------------------------------------------------
(* Distances, without the remainder.                                          *)
LEMMA Distance ==
  ASSUME NEW a \in 0 .. Ring - 1, NEW b \in 0 .. Ring - 1
  PROVE  /\ Rem(a - 1 - b) = IF b < a THEN a - 1 - b ELSE a - 1 - b + Ring
         /\ Rem(a - b) = IF b <= a THEN a - b ELSE a - b + Ring
         /\ Rem(a + 1) = IF a + 1 = Ring THEN 0 ELSE a + 1
         /\ Rem(a + b) = IF a + b < Ring THEN a + b ELSE a + b - Ring
<1>1. /\ a - 1 - b \in Int /\ -Ring <= a - 1 - b /\ a - 1 - b < Ring
      /\ a - b \in Int /\ -Ring < a - b /\ a - b < Ring
      /\ a + 1 \in Int /\ 0 <= a + 1 /\ a + 1 <= Ring
      /\ a + b \in Int /\ 0 <= a + b /\ a + b < 2 * Ring
      /\ Ring \in Nat /\ Ring > 0
  BY RingSize
<1>2. Rem(a - 1 - b) = IF b < a THEN a - 1 - b ELSE a - 1 - b + Ring
  BY <1>1, Modulo
<1>3. Rem(a - b) = IF b <= a THEN a - b ELSE a - b + Ring
  BY <1>1, Modulo
<1>4. Rem(a + 1) = IF a + 1 = Ring THEN 0 ELSE a + 1
  BY <1>1, Modulo
<1>5. Rem(a + b) = IF a + b < Ring THEN a + b ELSE a + b - Ring
  BY <1>1, Modulo
<1> QED BY <1>2, <1>3, <1>4, <1>5

\* Distances in the ring are places of the ring.
LEMMA BehindType ==
  ASSUME NEW t \in 0 .. Ring - 1, NEW i \in 0 .. Ring - 1
  PROVE  Rem(t - 1 - i) \in 0 .. Ring - 1 /\ Rem(t + i) \in 0 .. Ring - 1
<1>1. /\ t - 1 - i \in Int /\ -Ring <= t - 1 - i /\ t - 1 - i < 2 * Ring
      /\ t + i \in Int /\ -Ring <= t + i /\ t + i < 2 * Ring
  BY RingSize
<1> QED BY <1>1, Modulo

\* The ring is in order when it is empty.
LEMMA FifoStart == FifoInit => FifoInv
<1> SUFFICES ASSUME FifoInit PROVE FifoInv
  OBVIOUS
<1>1. FifoTypes
  BY RingSize DEF FifoInit, FifoTypes, NoFeed
<1>2. \A i \in 0 .. Ring - 1 : Behind(i) \in 0 .. Ring - 1
  BY <1>1, BehindType DEF FifoTypes, Behind
<1>3. Ordered(newest)
  BY <1>2 DEF FifoInit, Ordered
<1>4. Fed /\ queued - newest <= Ring
  BY RingSize DEF FifoInit, Fed
<1> QED BY <1>1, <1>3, <1>4 DEF FifoInit, FifoInv, NoFeed

(* sound_timer_queue32: the samples take the places that are the farthest     *)
(* behind, and those hold none that is still to be played.                    *)
LEMMA QueueKeeps ==
  ASSUME FifoTypes, NEW n \in 1 .. Burst, Queue(n),
         newest' \in 0 .. queued, Ordered(newest'), queued - newest' + n <= Ring
  PROVE  /\ fifo' \in [0 .. Ring - 1 -> Nat] /\ top' \in 0 .. Ring - 1 /\ queued' = queued + n
         /\ \A i \in 0 .. Ring - 1 :
              Behind(i)' = IF Behind(i) + n < Ring THEN Behind(i) + n ELSE Behind(i) + n - Ring
         /\ Ordered(newest)' /\ fault' = {}
<1> DEFINE taken == {Rem(top + k) : k \in 0 .. n - 1}
           e(i) == Rem(i - top)
<1>1. /\ fifo' = [i \in 0 .. Ring - 1 |-> IF i \in taken THEN queued + 1 + e(i) ELSE fifo[i]]
      /\ fault' = IF \E i \in taken : fifo[i] > newest' THEN {"overwritten"} ELSE {}
  BY DEF Queue, FifoTypes, Rem
<1>0. top' = Rem(top + n) /\ queued' = queued + n
  BY DEF Queue, Rem
<1>2. /\ n \in Nat /\ n > 0 /\ n < Ring /\ Ring \in Nat /\ top \in 0 .. Ring - 1 /\ queued \in Nat
      /\ n \in 0 .. Ring - 1 /\ newest' \in Nat /\ newest' <= queued /\ queued - newest' + n <= Ring
  <2>1. n \in Nat /\ n > 0 /\ n < Ring /\ Ring \in Nat /\ n \in 0 .. Ring - 1
    BY RingSize
  <2>2. top \in 0 .. Ring - 1 /\ queued \in Nat
    BY DEF FifoTypes
  <2>3. newest' \in Nat /\ newest' <= queued
    BY <2>2
  <2> QED BY <2>1, <2>2, <2>3
<1>a. fifo \in [0 .. Ring - 1 -> Nat]
  BY DEF FifoTypes
<1>3. top' = (IF top + n < Ring THEN top + n ELSE top + n - Ring) /\ top' \in 0 .. Ring - 1
  <2>1. Rem(top + n) = (IF top + n < Ring THEN top + n ELSE top + n - Ring)
    BY <1>2, Distance
  <2> QED BY <1>0, <1>2, <2>1
<1>4. ASSUME NEW i \in 0 .. Ring - 1
      PROVE  /\ Behind(i) \in 0 .. Ring - 1 /\ e(i) \in 0 .. Ring - 1 /\ e(i) + Behind(i) = Ring - 1
             /\ Behind(i)' = IF Behind(i) + n < Ring THEN Behind(i) + n ELSE Behind(i) + n - Ring
             /\ i \in taken <=> e(i) < n
  <2>1. Behind(i) = IF i < top THEN top - 1 - i ELSE top - 1 - i + Ring
    BY <1>2, Distance DEF Behind
  <2>2. e(i) = IF top <= i THEN i - top ELSE i - top + Ring
    BY <1>2, Distance
  <2>3. Behind(i)' = IF i < top' THEN top' - 1 - i ELSE top' - 1 - i + Ring
    BY <1>3, Distance DEF Behind
  <2>4. ASSUME i \in taken PROVE e(i) < n
    <3>1. PICK k \in 0 .. n - 1 : i = Rem(top + k)
      BY <2>4
    <3>2. k \in 0 .. Ring - 1
      BY <1>2
    <3>3. i = IF top + k < Ring THEN top + k ELSE top + k - Ring
      BY <1>2, <3>1, <3>2, Distance
    <3> QED BY <1>2, <2>2, <3>3
  <2>5. ASSUME e(i) < n PROVE i \in taken
    <3>1. e(i) \in 0 .. Ring - 1 /\ e(i) \in 0 .. n - 1
      BY <1>2, <2>2, <2>5
    <3>2. Rem(top + e(i)) = i
      <4> HIDE DEF e
      <4>1. Rem(top + e(i)) = IF top + e(i) < Ring THEN top + e(i) ELSE top + e(i) - Ring
        BY <1>2, <3>1, Distance
      <4> QED BY <1>2, <2>2, <3>1, <4>1
    <3> QED BY <3>1, <3>2
  <2>6. Behind(i)' = IF Behind(i) + n < Ring THEN Behind(i) + n ELSE Behind(i) + n - Ring
    BY <1>2, <1>3, <2>1, <2>3
  <2>7. Behind(i) \in 0 .. Ring - 1 /\ e(i) \in 0 .. Ring - 1 /\ e(i) + Behind(i) = Ring - 1
    BY <1>2, <2>1, <2>2
  <2> QED BY <2>4, <2>5, <2>6, <2>7
<1>5. taken \subseteq 0 .. Ring - 1
  BY <1>2, Distance, BehindType
<1> HIDE DEF taken, e
<1>6. \A i \in 0 .. Ring - 1 : fifo'[i] = IF i \in taken THEN queued + 1 + e(i) ELSE fifo[i]
  BY <1>1
<1>7. fifo' \in [0 .. Ring - 1 -> Nat]
  <2>1. \A i \in 0 .. Ring - 1 : (IF i \in taken THEN queued + 1 + e(i) ELSE fifo[i]) \in Nat
    <3> SUFFICES ASSUME NEW i \in 0 .. Ring - 1
                 PROVE  queued + 1 + e(i) \in Nat /\ fifo[i] \in Nat
      OBVIOUS
    <3>1. e(i) \in Nat
      BY <1>4
    <3> QED BY <1>2, <1>a, <3>1
  <2> QED BY <1>1, <2>1
<1>8. ASSUME NEW i \in 0 .. Ring - 1
      PROVE  IF Behind(i) < queued - newest' THEN fifo[i] = queued - Behind(i) ELSE fifo[i] <= newest'
  BY DEF Ordered
<1>9. fault' = {}
  <2> SUFFICES ASSUME NEW i \in taken PROVE ~(fifo[i] > newest')
    BY <1>1
  <2>1. i \in 0 .. Ring - 1 /\ Behind(i) >= Ring - n /\ Behind(i) \in Nat
    BY <1>2, <1>4, <1>5
  <2>2. ~(Behind(i) < queued - newest')
    <3> DEFINE b == Behind(i)
               w == queued - newest'
    <3>1. w \in Int
      BY <1>2
    <3>3. w + n <= Ring
      BY <1>2
    <3>4. b \in Nat /\ b >= Ring - n
      BY <2>1
    <3> HIDE DEF b, w
    <3>2. ~(b < w)
      BY <1>2, <3>1, <3>3, <3>4
    <3> QED BY <3>2 DEF b, w
  <2>3. fifo[i] \in Nat /\ fifo[i] <= newest'
    BY <1>8, <1>a, <2>1, <2>2
  <2> QED BY <1>2, <2>3
<1>10. Ordered(newest)'
  <2> SUFFICES ASSUME NEW i \in 0 .. Ring - 1
               PROVE  IF Behind(i)' < queued' - newest'
                      THEN fifo'[i] = queued' - Behind(i)' ELSE fifo'[i] <= newest'
    BY DEF Ordered
  <2>1. CASE i \in taken
    <3>1. fifo'[i] = queued + 1 + e(i) /\ e(i) < n /\ e(i) + Behind(i) = Ring - 1 /\ e(i) \in Nat
      BY <1>4, <1>6, <2>1
    <3>2. Behind(i)' = n - 1 - e(i)
      BY <1>2, <1>4, <3>1
    <3> QED BY <1>0, <1>2, <3>1, <3>2
  <2>2. CASE i \notin taken
    <3>1. fifo'[i] = fifo[i] /\ ~(e(i) < n) /\ e(i) + Behind(i) = Ring - 1 /\ e(i) \in Nat
          /\ Behind(i) \in Nat
      BY <1>4, <1>6, <2>2
    <3>2. Behind(i)' = Behind(i) + n
      BY <1>2, <1>4, <3>1
    <3> QED BY <1>0, <1>2, <1>8, <3>1, <3>2
  <2> QED BY <2>1, <2>2
<1> QED BY <1>0, <1>3, <1>4, <1>7, <1>9, <1>10

(* What is still to be played is as much as the places that hold it.          *)
LEMMA WaitingAll ==
  ASSUME FifoInv
  PROVE  Waiting \in Nat /\ queued - newest <= Waiting
<1> DEFINE w == queued - newest
           S == {i \in 0 .. Ring - 1 : fifo[i] > newest}
           f == [k \in 0 .. w - 1 |-> Rem(top - 1 - k)]
<1>1. /\ w \in Nat /\ w <= Ring /\ Ring \in Nat /\ Ring > 0
      /\ top \in 0 .. Ring - 1 /\ queued \in Nat /\ newest \in Nat /\ queued = newest + w
  BY RingSize DEF FifoInv, FifoTypes
<1>2. Waiting = Cardinality(S)
  BY DEF Waiting, FifoInv, FifoTypes
<1>3. Ordered(newest)
  BY DEF FifoInv
<1> HIDE DEF w
<1>4. ASSUME NEW k \in 0 .. w - 1
      PROVE  Rem(top - 1 - k) \in S /\ Behind(Rem(top - 1 - k)) = k
  <2> DEFINE i == Rem(top - 1 - k)
  <2>1. k \in 0 .. Ring - 1 /\ k < w
    BY <1>1
  <2>2. i = IF k < top THEN top - 1 - k ELSE top - 1 - k + Ring
    BY <1>1, <2>1, Distance
  <2>3. i \in 0 .. Ring - 1
    BY <1>1, <2>1, BehindType
  <2> HIDE DEF i
  <2>4. Rem(top - 1 - i) = IF i < top THEN top - 1 - i ELSE top - 1 - i + Ring
    BY <1>1, <2>3, Distance
  <2>5. Behind(i) = k
    BY <1>1, <2>1, <2>2, <2>3, <2>4 DEF Behind
  <2>6. fifo[i] = queued - k
    BY <1>3, <2>1, <2>3, <2>5 DEF Ordered, w
  <2>7. fifo[i] > newest
    BY <1>1, <2>1, <2>6
  <2> QED BY <2>3, <2>5, <2>7 DEF i
<1>5. f \in Injection(0 .. w - 1, S)
  <2>1. f \in [0 .. w - 1 -> S]
    BY <1>4
  <2>2. \A a, b \in 0 .. w - 1 : f[a] = f[b] => a = b
    BY <1>4
  <2> QED BY <2>1, <2>2 DEF Injection, IsInjective
<1>6. IsFiniteSet(S)
  <2>1. IsFiniteSet(0 .. Ring - 1)
    BY <1>1, FS_Interval
  <2>2. S \in SUBSET (0 .. Ring - 1)
    OBVIOUS
  <2> QED BY <2>1, <2>2, FS_Subset
<1>7. Cardinality(0 .. w - 1) <= Cardinality(S)
  BY <1>5, <1>6, FS_Injection
<1>8. Cardinality(0 .. w - 1) = w
  <2>1. Cardinality(0 .. w - 1) = IF 0 > w - 1 THEN 0 ELSE w - 1 - 0 + 1
    BY <1>1, FS_Interval
  <2> QED BY <1>1, <2>1
<1>9. Cardinality(S) \in Nat
  BY <1>6, FS_CardinalityType
<1> QED BY <1>2, <1>7, <1>8, <1>9 DEF w

\* A write of samples by the processor keeps the ring in order.
LEMMA WriteKeeps == FifoInv /\ WriteFifo => FifoInv'
<1> SUFFICES ASSUME FifoInv, WriteFifo PROVE FifoInv'
  OBVIOUS
<1>1. /\ Waiting + Word <= Ring /\ UNCHANGED <<base, feed, newest>> /\ Queue(Word) /\ steady' = 0
  BY DEF WriteFifo
<1>2. Word \in 1 .. Burst
  BY FifoAssumption
<1>3. FifoTypes /\ newest' \in 0 .. queued /\ Ordered(newest')
  BY <1>1 DEF FifoInv, FifoTypes
<1>4. queued - newest' + Word <= Ring
  BY <1>1, <1>2, WaitingAll, RingSize DEF FifoInv, FifoTypes
<1>5. /\ fifo' \in [0 .. Ring - 1 -> Nat] /\ top' \in 0 .. Ring - 1 /\ queued' = queued + Word
      /\ Ordered(newest)' /\ fault' = {}
  BY <1>1, <1>2, <1>3, <1>4, QueueKeeps
<1> QED BY <1>1, <1>2, <1>3, <1>4, <1>5, RingSize DEF FifoInv, FifoTypes, Fed

\* Starting and stopping the DMA that feeds the ring keep it in order.
LEMMA FeedKeeps == FifoInv /\ (StartFeed \/ StopFeed) => FifoInv'
<1> SUFFICES ASSUME FifoInv, StartFeed \/ StopFeed PROVE FifoInv'
  OBVIOUS
<1>1. UNCHANGED <<fifo, base, top, queued, newest>> /\ steady' = 0 /\ fault' = {}
  BY DEF StartFeed, StopFeed
<1>2. /\ feed' \in [active : BOOLEAN, attached : BOOLEAN, repeat : BOOLEAN]
      /\ feed'.active => feed'.attached
  <2>1. CASE StartFeed
    BY <2>1 DEF StartFeed
  <2>2. CASE StopFeed
    <3>1. feed' = [feed EXCEPT !.active = FALSE, !.attached = FALSE]
      BY <2>2 DEF StopFeed
    <3> QED BY <3>1 DEF FifoInv, FifoTypes
  <2> QED BY <2>1, <2>2
<1>3. Ordered(newest)'
  BY <1>1 DEF FifoInv, Ordered, Behind
<1> QED BY <1>1, <1>2, <1>3, RingSize DEF FifoInv, FifoTypes, Fed

\* A reset of the ring leaves it empty and in order.
LEMMA ResetKeeps == FifoInv /\ ResetFifo => FifoInv'
<1> SUFFICES ASSUME FifoInv, ResetFifo PROVE FifoInv'
  OBVIOUS
<1>1. /\ fifo' = [i \in 0 .. Ring - 1 |-> 0] /\ newest' = queued /\ steady' = 0 /\ fault' = {}
      /\ UNCHANGED <<base, top, feed, queued>>
  BY DEF ResetFifo, FifoInv, FifoTypes
<1>2. queued \in Nat /\ top \in 0 .. Ring - 1
  BY DEF FifoInv, FifoTypes
<1>3. Ordered(newest)'
  <2> SUFFICES ASSUME NEW i \in 0 .. Ring - 1
               PROVE  IF Behind(i)' < queued' - newest'
                      THEN fifo'[i] = queued' - Behind(i)' ELSE fifo'[i] <= newest'
    BY DEF Ordered
  <2>1. Behind(i)' \in 0 .. Ring - 1
    BY <1>1, <1>2, BehindType DEF Behind
  <2> QED BY <1>1, <1>2, <2>1
<1>4. FifoTypes' /\ queued' - newest' <= Ring
  BY <1>1, <1>2, RingSize DEF FifoInv, FifoTypes
<1> QED BY <1>1, <1>3, <1>4 DEF FifoInv, Fed

(* A sample is played: the one at the base, and what it leaves to be played   *)
(* is no more than what the ring takes for its content.                       *)
LEMMA Played ==
  ASSUME FifoInv, SoundTimer
  PROVE  /\ base' \in 0 .. Ring - 1 /\ newest' \in newest .. queued
         /\ Rem(top - base') = Behind(base)
         /\ Ordered(newest')
         /\ queued - newest' = IF queued - newest <= Behind(base) THEN queued - newest
                               ELSE Behind(base)
         /\ queued - newest = Behind(base) + 1 => fifo[base] = newest + 1
<1> DEFINE b == Behind(base)
           w == queued - newest
<1>1. /\ Ring \in Nat /\ Ring > 0 /\ top \in 0 .. Ring - 1 /\ base \in 0 .. Ring - 1
      /\ queued \in Nat /\ newest \in Nat /\ newest <= queued /\ w \in Nat /\ queued = newest + w
  BY RingSize DEF FifoInv, FifoTypes
<1>2. base' = Rem(base + 1) /\ newest' = IF fifo[base] > newest THEN fifo[base] ELSE newest
  BY DEF SoundTimer, Rem
<1>3. b \in 0 .. Ring - 1
  BY <1>1, BehindType DEF Behind
<1>4. base' \in 0 .. Ring - 1 /\ Rem(top - base') = b
  <2>1. base' = IF base + 1 = Ring THEN 0 ELSE base + 1
    BY <1>1, <1>2, Distance
  <2>2. b = IF base < top THEN top - 1 - base ELSE top - 1 - base + Ring
    BY <1>1, Distance DEF Behind
  <2>3. base' \in 0 .. Ring - 1
    BY <1>1, <2>1
  <2>4. Rem(top - base') = IF base' <= top THEN top - base' ELSE top - base' + Ring
    BY <1>1, <2>3, Distance
  <2> HIDE DEF b
  <2> QED BY <1>1, <2>1, <2>2, <2>3, <2>4
<1>5. /\ b < w => fifo[base] = queued - b
      /\ ~(b < w) => fifo[base] <= newest
  BY <1>1 DEF FifoInv, Ordered
<1>6. fifo[base] \in Nat
  BY <1>1 DEF FifoInv, FifoTypes
<1> HIDE DEF b, w
<1>7. newest' \in Nat /\ newest <= newest' /\ newest' <= queued
  BY <1>1, <1>2, <1>3, <1>5, <1>6
<1>8. queued - newest' = IF w <= b THEN w ELSE b
  BY <1>1, <1>2, <1>3, <1>5, <1>6
<1>9. w = b + 1 => fifo[base] = newest + 1
  BY <1>1, <1>3, <1>5
<1>10. Ordered(newest')
  <2> SUFFICES ASSUME NEW i \in 0 .. Ring - 1
               PROVE  IF Behind(i) < queued - newest' THEN fifo[i] = queued - Behind(i)
                      ELSE fifo[i] <= newest'
    BY DEF Ordered
  <2>1. Behind(i) \in 0 .. Ring - 1 /\ fifo[i] \in Nat
    BY <1>1, BehindType DEF Behind, FifoInv, FifoTypes
  <2>2. IF Behind(i) < w THEN fifo[i] = queued - Behind(i) ELSE fifo[i] <= newest
    BY DEF FifoInv, Ordered, w
  <2> QED BY <1>1, <1>3, <1>7, <1>8, <2>1, <2>2
<1> QED BY <1>4, <1>7, <1>8, <1>9, <1>10 DEF b, w

\* The arithmetic of the newest sample: so far ahead of the last one played, and no further.
LEMMA Gap ==
  ASSUME NEW r \in Nat, NEW b \in Nat, NEW u \in Nat, NEW v \in Int, NEW far \in Int, NEW s \in Nat,
         v + b = u + far + 1, u <= b, b <= u + r - s
  PROVE  v <= far + 1 /\ far + 1 <= v + r - s
OBVIOUS

\* A tick of the timer, with the burst it may start, keeps the ring in order.
LEMMA TimerKeeps == FifoInv /\ SoundTimer => FifoInv'
<1> SUFFICES ASSUME FifoInv, SoundTimer PROVE FifoInv'
  OBVIOUS
<1> DEFINE b == Behind(base)
           w == queued - newest
           far == Rem(top' - 1 - base')
           u == queued - newest'
           v == queued' - newest'
<1>1. /\ Ring \in Nat /\ Burst \in Nat /\ Burst > 0 /\ Ring = Burst + Burst
      /\ top \in 0 .. Ring - 1 /\ base' \in 0 .. Ring - 1 /\ b \in 0 .. Ring - 1
      /\ queued \in Nat /\ newest \in Nat /\ w \in Nat /\ w <= Ring /\ steady \in 0 .. Ring
  <2>1. /\ top \in 0 .. Ring - 1 /\ base \in 0 .. Ring - 1
        /\ queued \in Nat /\ newest \in 0 .. queued /\ steady \in 0 .. Ring /\ w <= Ring
    BY DEF FifoInv, FifoTypes
  <2>2. b \in 0 .. Ring - 1
    BY <2>1, BehindType DEF Behind
  <2> HIDE DEF b
  <2> QED BY <2>1, <2>2, RingSize, Played
<1>2. /\ newest' \in Nat /\ newest <= newest' /\ newest' <= queued
      /\ u = IF w <= b THEN w ELSE b
      /\ w = b + 1 => fifo[base] = newest + 1
      /\ Rem(top - base') = b
  BY <1>1, Played
<1>3. Ordered(newest')
  BY Played
<1>4. /\ feed \in [active : BOOLEAN, attached : BOOLEAN, repeat : BOOLEAN]
      /\ feed.active => feed.attached
      /\ steady > 0 => /\ feed.active /\ feed.repeat
                       /\ w <= b + 1 /\ b + 1 <= w + Ring - steady
  BY DEF FifoInv, FifoTypes, Fed
<1>5. /\ steady' = IF ~(feed.active /\ feed.repeat) THEN 0
                   ELSE IF steady = Ring /\ fifo[base] # newest + 1 THEN Ring + 1
                   ELSE IF steady < Ring THEN steady + 1 ELSE steady
      /\ IF b <= Burst /\ feed.attached THEN Refill
         ELSE UNCHANGED <<fifo, top, feed, queued>> /\ fault' = {}
  BY <1>2 DEF SoundTimer, Wanted, Rem
<1>6. Rem(top - 1 - base') = IF b = 0 THEN Ring - 1 ELSE b - 1
  <2>1. Rem(top - base') = IF base' <= top THEN top - base' ELSE top - base' + Ring
    BY <1>1, Distance
  <2>2. Rem(top - 1 - base') = IF base' < top THEN top - 1 - base' ELSE top - 1 - base' + Ring
    BY <1>1, Distance
  <2> HIDE DEF b
  <2> QED BY <1>1, <1>2, <2>1, <2>2
<1> HIDE DEF b, w, far, u, v
<1>u. u \in Nat /\ u <= b
  BY <1>1, <1>2
<1>7. /\ FifoTypes' \/ steady' = Ring + 1
      /\ Ordered(newest)' /\ v <= Ring /\ fault' = {}
      /\ feed'.active => feed'.attached
      /\ feed.active /\ feed.repeat =>
           feed'.active /\ feed'.repeat /\ v + b = u + far + 1
  <2>0. steady' \in 0 .. Ring \/ steady' = Ring + 1
    BY <1>1, <1>5
  <2>1. CASE b <= Burst /\ feed.attached
    <3>1. Queue(Burst) /\ feed' = [feed EXCEPT !.active = feed.active /\ feed.repeat]
      BY <1>5, <2>1 DEF Refill
    <3>2. FifoTypes /\ newest' \in 0 .. queued /\ Burst \in 1 .. Burst /\ queued - newest' + Burst <= Ring
      <4>1. u + Burst <= Ring
        BY <1>1, <1>u, <2>1
      <4>2. FifoTypes /\ newest' \in 0 .. queued /\ Burst \in 1 .. Burst
        BY <1>1, <1>2 DEF FifoInv
      <4> QED BY <4>1, <4>2 DEF u
    <3>3. /\ fifo' \in [0 .. Ring - 1 -> Nat] /\ top' \in 0 .. Ring - 1 /\ queued' = queued + Burst
          /\ \A i \in 0 .. Ring - 1 :
               Behind(i)' = IF Behind(i) + Burst < Ring THEN Behind(i) + Burst
                            ELSE Behind(i) + Burst - Ring
          /\ Ordered(newest)' /\ fault' = {}
      BY <1>3, <3>1, <3>2, QueueKeeps
    <3>4. far = b + Burst - 1
      <4>1. far = LET d == Rem(top - 1 - base')
                  IN  IF d + Burst < Ring THEN d + Burst ELSE d + Burst - Ring
        BY <1>1, <3>3 DEF far, Behind
      <4> QED BY <1>1, <1>6, <2>1, <4>1
    <3>5. feed' \in [active : BOOLEAN, attached : BOOLEAN, repeat : BOOLEAN]
      BY <1>4, <3>1
    <3>6. feed'.active = (feed.active /\ feed.repeat) /\ feed'.attached = feed.attached
          /\ feed'.repeat = feed.repeat
      BY <1>4, <3>1
    <3>7. queued' \in Nat /\ newest' \in 0 .. queued' /\ v = u + Burst
      BY <1>1, <1>2, <3>3, SMTT(30) DEF u, v
    <3>8. v <= Ring /\ v + b = u + far + 1
      BY <1>1, <1>u, <2>1, <3>4, <3>7
    <3> QED BY <1>1, <1>4, <2>0, <3>3, <3>5, <3>6, <3>7, <3>8 DEF FifoTypes
  <2>2. CASE ~(b <= Burst /\ feed.attached)
    <3>1. UNCHANGED <<fifo, top, feed, queued>> /\ fault' = {}
      BY <1>5, <2>2
    <3>2. Ordered(newest)'
      BY <1>3, <3>1 DEF Ordered, Behind
    <3>3. far = IF b = 0 THEN Ring - 1 ELSE b - 1
      BY <1>6, <3>1 DEF far
    <3>4. feed.active => far = b - 1
      BY <1>1, <1>4, <2>2, <3>3
    <3>5. v = u /\ newest' \in 0 .. queued' /\ queued' \in Nat
      BY <1>1, <1>2, <3>1 DEF u, v
    <3>6. /\ v <= Ring
          /\ feed.active => v + b = u + far + 1
      BY <1>1, <1>u, <3>4, <3>5
    <3>7. /\ fifo' \in [0 .. Ring - 1 -> Nat] /\ top' \in 0 .. Ring - 1
          /\ feed' \in [active : BOOLEAN, attached : BOOLEAN, repeat : BOOLEAN]
      BY <3>1 DEF FifoInv, FifoTypes
    <3>8. FifoTypes' \/ steady' = Ring + 1
      BY <1>1, <2>0, <3>5, <3>7 DEF FifoTypes
    <3> QED BY <1>4, <3>1, <3>2, <3>6, <3>8
  <2> QED BY <2>1, <2>2
<1>8. steady' \in 0 .. Ring
  BY <1>1, <1>2, <1>4, <1>5
<1>9. Fed'
  <2> SUFFICES ASSUME steady' > 0
               PROVE  feed'.active /\ feed'.repeat /\ v <= far + 1 /\ far + 1 <= v + Ring - steady'
    BY DEF Fed, far, Behind, v
  <2>1. feed.active /\ feed.repeat
    BY <1>5
  <2>2. feed'.active /\ feed'.repeat /\ v + b = u + far + 1
    BY <1>7, <2>1
  <2>3. far \in 0 .. Ring - 1 /\ v \in Int
    <3>1. FifoTypes'
      BY <1>1, <1>7, <1>8
    <3>2. top' \in 0 .. Ring - 1 /\ queued' \in Nat
      BY <3>1 DEF FifoTypes
    <3>3. far \in 0 .. Ring - 1
      BY <1>1, <3>2, BehindType DEF far
    <3>4. v \in Int
      BY <1>2, <3>2 DEF v
    <3> QED BY <3>3, <3>4
  <2>4. steady' = IF steady < Ring THEN steady + 1 ELSE steady
    BY <1>1, <1>5, <1>8, <2>1
  <2>5. b <= u + Ring - steady'
    BY <1>1, <1>2, <1>4, <1>8, <2>4
  <2>6. v <= far + 1 /\ far + 1 <= v + Ring - steady'
    <3>1. Ring \in Nat /\ b \in Nat /\ u \in Nat /\ v \in Int /\ far \in Int /\ steady' \in Nat
      BY <1>1, <1>u, <1>8, <2>3
    <3> QED BY <1>u, <2>2, <2>5, <3>1, Gap
  <2> QED BY <2>2, <2>6
<1> QED BY <1>1, <1>7, <1>8, <1>9 DEF FifoInv, v

\* Every step of the ring keeps its invariant.
LEMMA FifoKept == FifoInv /\ [FifoNext]_fifoVars => FifoInv'
<1> SUFFICES ASSUME FifoInv, [FifoNext]_fifoVars PROVE FifoInv'
  OBVIOUS
<1>1. CASE UNCHANGED fifoVars
  BY <1>1 DEF fifoVars, FifoInv, FifoTypes, Ordered, Fed, Behind
<1> QED BY <1>1, WriteKeeps, FeedKeeps, ResetKeeps, TimerKeeps DEF FifoNext

(* The places of the ring hold what is still to be played at the distance     *)
(* from its top that sound_timer_queue32 gave them.                           *)
THEOREM RingInvariant == FifoSpec => []FifoInv
<1> QED BY FifoStart, FifoKept, PTL DEF FifoSpec

(* The variables of the ring keep their types.                                *)
THEOREM RingTyped == FifoSpec => []FifoTypeOK
<1>1. FifoInv => FifoTypeOK
  BY RingSize DEF FifoInv, FifoTypes, FifoTypeOK
<1> QED BY <1>1, RingInvariant, PTL

(* In a ring of any size that a burst fills by half, no burst and no write of *)
(* the processor takes the place of a sample that is still to be played, and  *)
(* a ring that the DMA feeds plays, after a round, each sample in its turn    *)
(* (sound_timer, sound_timer_queue32).                                        *)
THEOREM SamplesAreKept == FifoSpec => []SamplesKept
<1>1. FifoInv => SamplesKept
  BY RingSize DEF FifoInv, FifoTypes, SamplesKept, NeverOverwritten, PlayedInOrder
<1> QED BY <1>1, RingInvariant, PTL

(*-------------------------- pages of the ROM ----------------------------*)

(* The sizes the mirrors of map_rom_entry are right for: those of every       *)
(* cartridge whose ROM is a power of two.                                     *)
SizesDivide == \A n \in Sizes : Window % n = 0

(* Every entry of the queue but the tail links to another entry.              *)
Links ==
  /\ head \in Entries /\ tail \in Entries /\ head # tail
  /\ next \in [Entries -> 0 .. NumEntries]
  /\ \A e \in Entries : e # tail => next[e] \in Entries /\ next[e] # e

PageTypes ==
  /\ mode \in {"empty", "idle", "running", "evicting"}
  /\ use \in {"load", "data", "code", "frame"}
  /\ want \in Pages /\ size \in 1 .. Window /\ game \in Nat
  /\ phy \in [Entries -> Pages \cup {Null}]
  /\ map \in [Places -> Entries \cup {Null}]
  /\ buf \in [Entries -> [game : Nat, page : Nat, word : Pins \cup {RomWord}]]
  /\ sticky \subseteq Pages
  /\ pc \in CodePlaces \cup {Null} /\ block \in Entries
  /\ pins \in Pins /\ synced \in BOOLEAN

(* What a page is wanted for.                                                 *)
Wanting ==
  /\ size = 1 \/ size \in Sizes
  /\ pc # Null => PageOf(pc) < size
  /\ mode = "evicting" => want < size
  /\ mode = "evicting" /\ use = "load" => want < FirstPages(size)
  /\ mode = "evicting" /\ use \in {"code", "frame"} => pc # Null /\ want = PageOf(pc)
  /\ mode = "evicting" /\ use = "code" => PageOf(pc) \in sticky
  /\ synced => GpioOn

PagingInv == PageTypes /\ Links /\ Wanting

(* The queue before the first game and while its pages are filled in.         *)
FirstLoad ==
  /\ mode = "empty" <=> game = 0
  /\ game = 0 => want = 0 /\ \A p \in Places : map[p] = Null
  /\ game = 0 \/ (mode = "evicting" /\ use = "load") =>
       /\ head = want /\ (tail = NumEntries - 1 \/ tail < want) /\ synced = FALSE
       /\ \A e \in Entries : e >= want => phy[e] = Null
       /\ \A e \in Entries : e >= want /\ e < NumEntries - 1 => next[e] = e + 1
  /\ game = 1 /\ mode = "evicting" /\ use = "load" =>
       \A e \in Entries : e < FirstPages(size) => Holds(e, e)

(* What the queue's entries are recorded to hold is what they hold, and what  *)
(* is mapped leads to an entry that holds it.                                 *)
Recorded ==
  /\ \A e \in Entries : phy[e] # Null => Holds(e, phy[e])
  /\ \A p \in Places : Readable(p) /\ map[p] # Null => phy[map[p]] = PageOf(p)
  /\ synced /\ map[0] # Null => buf[map[0]].word = pins

(* The page code runs from is sticky, also while another is loaded.           *)
Running ==
  pc # Null /\ (mode = "running" \/ (mode = "evicting" /\ use = "data")) =>
    phy[block] = PageOf(pc) /\ PageOf(pc) \in sticky

OneGame == FirstLoad /\ Recorded /\ Running

--------------------------------------------------------------------------
\* A place of the window and its mirrors hold the same page.
LEMMA PageOfPlace ==
  /\ Window \in Nat /\ Window > 0
  /\ \A p \in Places : PageOf(p) \in Pages
  /\ \A i \in Pages : PageOf(i) = i /\ PageOf(Window + i) = i /\ PageOf(2 * Window + i) = i
  /\ \A p \in Places : \E i \in Pages : p \in {i, Window + i, 2 * Window + i}
  /\ 0 \in Places /\ 0 \in Pages /\ PageOf(0) = 0
<1>1. Window \in Nat /\ Window > 0
  BY GamepakAssumption
<1>2. \A p \in Places : PageOf(p) \in Pages
  BY <1>1 DEF Places, Pages, PageOf
<1>3. ASSUME NEW i \in Pages
      PROVE  PageOf(i) = i /\ PageOf(Window + i) = i /\ PageOf(2 * Window + i) = i
  <2>1. i \in 0 .. Window - 1
    BY DEF Pages
  <2>2. i % Window = i /\ (Window + i) % Window = i
    BY <1>1, <2>1
  <2>3. (2 * Window + i) % Window = i
    BY <1>1, <2>1
  <2> QED BY <2>2, <2>3 DEF PageOf
<1>4. ASSUME NEW p \in Places PROVE \E i \in Pages : p \in {i, Window + i, 2 * Window + i}
  <2>1. p \in Nat /\ p < 3 * Window
    BY <1>1 DEF Places
  <2>2. CASE p < Window
    BY <1>1, <2>1, <2>2 DEF Pages
  <2>3. CASE p >= Window /\ p < 2 * Window
    <3>1. p - Window \in Pages
      BY <1>1, <2>1, <2>3 DEF Pages
    <3> QED BY <1>1, <2>1, <3>1
  <2>4. CASE p >= 2 * Window
    <3>1. p - 2 * Window \in Pages
      BY <1>1, <2>1, <2>4 DEF Pages
    <3> QED BY <1>1, <2>1, <3>1
  <2> QED BY <1>1, <2>1, <2>2, <2>3, <2>4
<1>5. 0 \in Places /\ 0 \in Pages
  BY <1>1 DEF Places, Pages
<1> QED BY <1>1, <1>2, <1>3, <1>4, <1>5

(* A page is mapped where it is the page, whatever the size.                  *)
LEMMA MappedOwn ==
  ASSUME NEW p \in Places, NEW n \in 1 .. Window
  PROVE  p \in Mapped(PageOf(p), n)
<1>1. PICK i \in Pages : p \in {i, Window + i, 2 * Window + i}
  BY PageOfPlace
<1>2. PageOf(p) = i /\ 0 \in 0 .. Window - 1 /\ i \in Nat
  BY <1>1, PageOfPlace DEF Pages
<1>3. 0 * n = 0
  OBVIOUS
<1>4. \/ 0 * n < Window /\ p \in {i + 0 * n, Window + i + 0 * n}
      \/ 2 * (0 * n) < Window /\ p = 2 * Window + i + 0 * n
  BY <1>1, <1>2, <1>3, PageOfPlace
<1> QED BY <1>2, <1>4 DEF Mapped

(* A page of the ROM is mapped at no other page of it, when the size divides  *)
(* the window.                                                                *)
LEMMA MappedOnly ==
  ASSUME NEW n \in 1 .. Window, Window % n = 0, NEW idx \in 0 .. n - 1, NEW p \in Mapped(idx, n),
         PageOf(p) < n
  PROVE  PageOf(p) = idx
<1>1. /\ Window \in Nat /\ Window > 0 /\ n \in Nat /\ n > 0 /\ idx \in Nat /\ idx < n
  BY PageOfPlace
<1>2. PICK k \in 0 .. Window - 1 :
        \/ k * n < Window /\ p \in {idx + k * n, Window + idx + k * n}
        \/ 2 * (k * n) < Window /\ p = 2 * Window + idx + k * n
  BY DEF Mapped
<1>3. PICK q \in Nat : Window = q * n
  <2>1. Window = (Window \div n) * n + (Window % n) /\ Window \div n \in Nat
    BY <1>1
  <2> QED BY <1>1, <2>1
<1> DEFINE m == k * n
<1>4. m \in Nat /\ m < Window /\ p \in {idx + m, Window + (idx + m), 2 * Window + (idx + m)}
  <2>1. m \in Nat
    BY <1>1
  <2> HIDE DEF m
  <2>2. \/ m < Window /\ p \in {idx + m, Window + idx + m}
        \/ 2 * m < Window /\ p = 2 * Window + idx + m
    BY <1>2 DEF m
  <2> QED BY <1>1, <2>1, <2>2
<1>5. idx + m \in Pages
  <2>1. k < q
    BY <1>1, <1>3, <1>4
  <2>2. (k + 1) * n <= q * n
    BY <1>1, <2>1
  <2>3. m + n <= Window
    BY <1>1, <1>3, <2>2
  <2> HIDE DEF m
  <2> QED BY <1>1, <1>4, <2>3 DEF Pages
<1>6. PageOf(p) = idx + m
  BY <1>4, <1>5, PageOfPlace
<1>7. k = 0
  BY <1>1, <1>6
<1> QED BY <1>1, <1>6, <1>7

(* A round of the queue: the head goes behind the tail.                       *)
LEMMA RotateKeeps == Links /\ Rotate => Links' /\ head' = next[head] /\ tail' = head
<1> SUFFICES ASSUME Links, Rotate PROVE Links' /\ head' = next[head] /\ tail' = head
  OBVIOUS
<1>1. head' = next[head] /\ next' = [next EXCEPT ![tail] = head] /\ tail' = head
  BY DEF Rotate
<1>2. /\ head \in Entries /\ tail \in Entries /\ head # tail
      /\ next \in [Entries -> 0 .. NumEntries]
      /\ next[head] \in Entries /\ next[head] # head
  BY DEF Links
<1>3. Entries \subseteq 0 .. NumEntries
  BY GamepakAssumption DEF Entries
<1>4. next' \in [Entries -> 0 .. NumEntries]
  BY <1>1, <1>2, <1>3
<1>5. ASSUME NEW e \in Entries, e # tail' PROVE next'[e] \in Entries /\ next'[e] # e
  <2>1. CASE e = tail
    BY <1>1, <1>2, <2>1
  <2>2. CASE e # tail
    BY <1>1, <1>2, <2>2 DEF Links
  <2> QED BY <2>1, <2>2
<1> QED BY <1>1, <1>2, <1>4, <1>5 DEF Links

\* Before a game is loaded the paging is consistent.
LEMMA PagingStart == Init => PagingInv
<1> SUFFICES ASSUME Init PROVE PagingInv
  OBVIOUS
<1>1. /\ Window \in Nat /\ Window > 0 /\ NumEntries \in Nat /\ NumEntries > 1 /\ 0 \in CodePlaces
      /\ MaxPins \in Nat
  BY GamepakAssumption
<1>2. /\ mode = "empty" /\ use = "load" /\ want = 0 /\ size = 1 /\ game = 0
      /\ phy = [e \in Entries |-> Null]
      /\ map = [p \in Places |-> Null]
      /\ buf = [e \in Entries |-> [game |-> 0, page |-> 0, word |-> RomWord]]
      /\ sticky = {} /\ pc = 0 /\ block = 0 /\ pins = 0 /\ synced = FALSE
  BY DEF Init
<1>3. 0 \in Entries /\ 0 \in Pages /\ 0 \in Pins /\ 1 \in 1 .. Window
  BY <1>1 DEF Entries, Pages, Pins
<1>4. PageTypes
  BY <1>1, <1>2, <1>3 DEF PageTypes
<1>5. Links
  <2>1. next = [e \in Entries |-> e + 1] /\ head = 0 /\ tail = NumEntries - 1
    BY DEF Init
  <2>2. \A e \in Entries : e + 1 \in 0 .. NumEntries /\ e + 1 # e /\ (e # NumEntries - 1 => e + 1 \in Entries)
    BY <1>1 DEF Entries
  <2>3. NumEntries - 1 \in Entries /\ NumEntries - 1 # 0
    BY <1>1 DEF Entries
  <2> QED BY <1>3, <2>1, <2>2, <2>3 DEF Links
<1>6. Wanting
  BY <1>2, PageOfPlace DEF Wanting
<1> QED BY <1>4, <1>5, <1>6 DEF PagingInv

\* Loading a game keeps the paging consistent.
LEMMA GameKeeps == PagingInv /\ (\E n \in Sizes : LoadGame(n)) => PagingInv'
<1> SUFFICES ASSUME PagingInv, NEW n \in Sizes, LoadGame(n) PROVE PagingInv'
  OBVIOUS
<1>1. /\ mode' = "evicting" /\ use' = "load" /\ want' = 0 /\ size' = n /\ game' = game + 1
      /\ map' = [p \in Places |-> IF 2 * p < 5 * Window THEN Null ELSE map[p]]
      /\ buf' = [e \in Entries |->
                   IF e < FirstPages(n) THEN [game |-> game + 1, page |-> e, word |-> RomWord]
                   ELSE buf[e]]
      /\ pc' = 0 /\ pins' = 0 /\ synced' = FALSE
      /\ UNCHANGED <<next, phy, head, tail, sticky, block>>
  BY DEF LoadGame, queueVars
<1>2. n \in 1 .. Window /\ n > 0 /\ 0 \in CodePlaces /\ 0 \in Pins
  BY GamepakAssumption DEF Pins
<1>3. PageTypes'
  <2>1. map' \in [Places -> Entries \cup {Null}]
    BY <1>1 DEF PagingInv, PageTypes
  <2>2. buf' \in [Entries -> [game : Nat, page : Nat, word : Pins \cup {RomWord}]]
    <3>1. \A e \in Entries : [game |-> game + 1, page |-> e, word |-> RomWord] \in
                               [game : Nat, page : Nat, word : Pins \cup {RomWord}]
      BY DEF PagingInv, PageTypes, Entries
    <3>2. buf \in [Entries -> [game : Nat, page : Nat, word : Pins \cup {RomWord}]]
      BY DEF PagingInv, PageTypes
    <3> QED BY <1>1, <3>1, <3>2
  <2>3. /\ phy' \in [Entries -> Pages \cup {Null}] /\ sticky' \subseteq Pages /\ block' \in Entries
        /\ game' \in Nat
    BY <1>1 DEF PagingInv, PageTypes
  <2> QED BY <1>1, <1>2, <2>1, <2>2, <2>3, PageOfPlace DEF PageTypes
<1>4. Links'
  BY <1>1 DEF PagingInv, Links
<1>5. Wanting'
  <2>1. 0 < FirstPages(n)
    BY <1>2, GamepakAssumption DEF FirstPages
  <2>2. FirstPages(size)' = FirstPages(n)
    BY <1>1 DEF FirstPages
  <2> QED BY <1>1, <1>2, <2>1, <2>2, PageOfPlace DEF Wanting, PageOf
<1> QED BY <1>3, <1>4, <1>5 DEF PagingInv

(* A page is mapped to an entry.                                              *)
LEMMA InstallTypes ==
  ASSUME PagingInv, NEW b \in Entries, Install(b)
  PROVE  /\ mode = "evicting" /\ Links' /\ head' = next[head]
         /\ phy' \in [Entries -> Pages \cup {Null}]
         /\ map' \in [Places -> Entries \cup {Null}]
         /\ phy'[head] = want /\ \A e \in Entries : e # head => phy'[e] = phy[e]
         /\ ~(phy[head] >= 0 /\ phy[head] \in sticky)
         /\ \A p \in Places :
              map'[p] = IF p \in Mapped(want, size) THEN b
                        ELSE IF phy[head] >= 0 /\ p \in Mapped(phy[head], size) THEN Null ELSE map[p]
<1>1. /\ mode = "evicting" /\ ~Sticky(head) /\ Rotate
      /\ phy' = [phy EXCEPT ![head] = want]
      /\ map' = [p \in Places |-> IF p \in Mapped(want, size) THEN b ELSE AfterEviction(p)]
  BY DEF Install
<1>2. /\ want \in Pages /\ phy \in [Entries -> Pages \cup {Null}] /\ head \in Entries
      /\ map \in [Places -> Entries \cup {Null}] /\ Links
  BY DEF PagingInv, PageTypes, Links
<1>3. phy' \in [Entries -> Pages \cup {Null}] /\ phy'[head] = want
      /\ \A e \in Entries : e # head => phy'[e] = phy[e]
  BY <1>1, <1>2
<1>4. map' \in [Places -> Entries \cup {Null}]
  BY <1>1, <1>2 DEF AfterEviction
<1>5. \A p \in Places :
        map'[p] = IF p \in Mapped(want, size) THEN b
                  ELSE IF phy[head] >= 0 /\ p \in Mapped(phy[head], size) THEN Null ELSE map[p]
  BY <1>1 DEF AfterEviction
<1> QED BY <1>1, <1>2, <1>3, <1>4, <1>5, RotateKeeps DEF Sticky

\* Filling the buffers ahead keeps the paging consistent.
LEMMA FillKeeps == PagingInv /\ FillFirst => PagingInv'
<1> SUFFICES ASSUME PagingInv, FillFirst PROVE PagingInv'
  OBVIOUS
<1>1. /\ mode = "evicting" /\ use = "load" /\ Install(want)
      /\ \/ want + 1 < FirstPages(size) /\ want' = want + 1 /\ mode' = "evicting"
         \/ mode' = "idle" /\ want' = want
      /\ UNCHANGED <<use, size, game, buf, sticky, pc, block, pins, synced>>
  BY DEF FillFirst, Install
<1>2. /\ want \in Pages /\ want < FirstPages(size) /\ size \in 1 .. Window
      /\ Window \in Nat /\ NumEntries \in Nat
  BY <1>1, GamepakAssumption DEF PagingInv, PageTypes, Wanting
<1>3. want \in Entries /\ FirstPages(size) <= size /\ FirstPages(size) \in Nat
  BY <1>2 DEF FirstPages, Entries, Pages
<1>4. /\ Links' /\ phy' \in [Entries -> Pages \cup {Null}] /\ map' \in [Places -> Entries \cup {Null}]
  BY <1>1, <1>3, InstallTypes
<1>5. want' \in Pages /\ (mode' = "evicting" => want' < FirstPages(size) /\ want' < size)
  BY <1>1, <1>2, <1>3 DEF Pages
<1>6. /\ mode' \in {"idle", "evicting"} /\ use' = "load" /\ size' = size /\ game' \in Nat
      /\ buf' \in [Entries -> [game : Nat, page : Nat, word : Pins \cup {RomWord}]]
      /\ sticky' \subseteq Pages /\ pc' \in CodePlaces \cup {Null} /\ block' \in Entries
      /\ pins' \in Pins /\ synced' \in BOOLEAN
  BY <1>1 DEF PagingInv, PageTypes
<1>7. PageTypes'
  BY <1>2, <1>4, <1>5, <1>6 DEF PageTypes
<1>8. Wanting'
  <2>1. FirstPages(size)' = FirstPages(size) /\ (PageOf(pc) < size)' = (PageOf(pc) < size)
    BY <1>1 DEF FirstPages, PageOf
  <2> QED BY <1>1, <1>5, <1>6, <2>1 DEF PagingInv, Wanting
<1> QED BY <1>4, <1>7, <1>8 DEF PagingInv

\* Loading a page, with the eviction it may need, keeps the paging consistent.
LEMMA PageKeeps == PagingInv /\ LoadPage => PagingInv'
<1> SUFFICES ASSUME PagingInv, LoadPage PROVE PagingInv'
  OBVIOUS
<1>1. /\ mode = "evicting" /\ use # "load" /\ Install(head)
      /\ buf' = [buf EXCEPT ![head] = [game |-> game, page |-> want, word |-> GpioWord(want)]]
      /\ mode' = "running"
      /\ block' = IF use = "data" THEN block ELSE head
      /\ sticky' = IF use = "frame" THEN {PageOf(pc)} ELSE sticky
      /\ UNCHANGED <<use, want, size, game, pc, pins, synced>>
  BY DEF LoadPage, Install
<1>2. head \in Entries /\ want \in Pages /\ game \in Nat
  BY DEF PagingInv, PageTypes, Links
<1>3. Links' /\ phy' \in [Entries -> Pages \cup {Null}] /\ map' \in [Places -> Entries \cup {Null}]
  BY <1>1, <1>2, InstallTypes
<1>4. buf' \in [Entries -> [game : Nat, page : Nat, word : Pins \cup {RomWord}]]
  <2>1. GpioWord(want) \in Pins \cup {RomWord} /\ want \in Nat
    BY <1>2 DEF GpioWord, PagingInv, PageTypes, Pages
  <2>2. [game |-> game, page |-> want, word |-> GpioWord(want)] \in
          [game : Nat, page : Nat, word : Pins \cup {RomWord}]
    BY <1>2, <2>1
  <2>3. buf \in [Entries -> [game : Nat, page : Nat, word : Pins \cup {RomWord}]]
    BY DEF PagingInv, PageTypes
  <2> QED BY <1>1, <1>2, <2>2, <2>3
<1>5. sticky' \subseteq Pages
  <2>1. use = "frame" => want = PageOf(pc)
    BY <1>1 DEF PagingInv, Wanting
  <2> QED BY <1>1, <1>2, <2>1 DEF PagingInv, PageTypes
<1>6. /\ want' \in Pages /\ size' \in 1 .. Window /\ game' \in Nat /\ block' \in Entries
      /\ use' \in {"load", "data", "code", "frame"}
      /\ pc' \in CodePlaces \cup {Null} /\ pins' \in Pins /\ synced' \in BOOLEAN
  BY <1>1, <1>2 DEF PagingInv, PageTypes
<1>7. PageTypes'
  BY <1>1, <1>3, <1>4, <1>5, <1>6 DEF PageTypes
<1>8. Wanting'
  BY <1>1 DEF PagingInv, Wanting, PageOf
<1> QED BY <1>3, <1>7, <1>8 DEF PagingInv

(* The steps of the game and of the frame leave the queue and the map alone.  *)
LEMMA GameStep ==
  ASSUME PagingInv,
         \/ \E p \in Places : Read(p)
         \/ \E p \in CodePlaces : Run(p)
         \/ \E bit \in OtherBits : RunElsewhere(bit)
         \/ BeginFrame
         \/ EndFrame
         \/ \E v \in Pins : WriteGpio(v) \/ \E p \in CodePlaces : Restore(v, p)
  PROVE  PagingInv'
<1>1. UNCHANGED <<size, game, next, phy, head, tail, map>>
  BY DEF Read, Run, RunElsewhere, BeginFrame, EndFrame, WriteGpio, Restore, queueVars
<1>2. /\ mode \in {"idle", "running"} /\ CodePlaces \subseteq Places /\ OtherBits \subseteq Pages
      /\ mode' \in {"idle", "running", "evicting"} /\ use' \in {"load", "data", "code", "frame"}
  BY GamepakAssumption DEF Read, Run, RunElsewhere, BeginFrame, EndFrame, WriteGpio, Restore, Fault,
     PagingInv, PageTypes
<1>3. Links'
  BY <1>1 DEF PagingInv, Links
<1>4. /\ size' \in 1 .. Window /\ game' \in Nat
      /\ phy' \in [Entries -> Pages \cup {Null}] /\ map' \in [Places -> Entries \cup {Null}]
  BY <1>1 DEF PagingInv, PageTypes
<1>5. want' \in Pages
  BY <1>2, PageOfPlace, ZenonT(60)
     DEF Read, Run, RunElsewhere, BeginFrame, EndFrame, WriteGpio, Restore, Fault, PagingInv, PageTypes
<1>6. buf' \in [Entries -> [game : Nat, page : Nat, word : Pins \cup {RomWord}]]
  <2>1. buf \in [Entries -> [game : Nat, page : Nat, word : Pins \cup {RomWord}]]
    BY DEF PagingInv, PageTypes
  <2>2. ASSUME NEW v \in Pins, WriteGpio(v), map[0] # Null
        PROVE  buf' \in [Entries -> [game : Nat, page : Nat, word : Pins \cup {RomWord}]]
    <3>1. map[0] \in Entries /\ buf' = [buf EXCEPT ![map[0]].word = v]
      BY <2>2, PageOfPlace DEF WriteGpio, PagingInv, PageTypes
    <3> QED BY <2>1, <3>1
  <2>3. \/ buf' = buf
        \/ \E v \in Pins : WriteGpio(v) /\ map[0] # Null
    BY DEF Read, Run, RunElsewhere, BeginFrame, EndFrame, WriteGpio, Restore
  <2> QED BY <2>1, <2>2, <2>3
<1>7. sticky' \subseteq Pages
  <2>1. sticky \subseteq Pages /\ pc \in CodePlaces \cup {Null}
    BY DEF PagingInv, PageTypes
  <2>2. CASE \E p \in CodePlaces : Run(p)
    <3>1. PICK p \in CodePlaces : sticky' = sticky \cup {PageOf(p)}
      BY <2>2 DEF Run
    <3> QED BY <1>2, <2>1, <3>1, PageOfPlace
  <2>3. CASE BeginFrame
    <3>1. \/ sticky' = {PageOf(pc)} /\ pc # Null
          \/ sticky' = {}
          \/ \E bit \in OtherBits : sticky' = {bit}
      BY <2>3 DEF BeginFrame, StickyCleared
    <3> QED BY <1>2, <2>1, <3>1, PageOfPlace
  <2>4. CASE \E bit \in OtherBits : RunElsewhere(bit)
    BY <1>2, <2>1, <2>4 DEF RunElsewhere
  <2>5. \/ sticky' = sticky
        \/ \E p \in CodePlaces : Run(p)
        \/ \E bit \in OtherBits : RunElsewhere(bit)
        \/ BeginFrame
    BY DEF Read, EndFrame, WriteGpio, Restore
  <2> QED BY <2>1, <2>2, <2>3, <2>4, <2>5
<1>8. pc' \in CodePlaces \cup {Null} /\ pins' \in Pins /\ synced' \in BOOLEAN
  BY DEF Read, Run, RunElsewhere, BeginFrame, EndFrame, WriteGpio, Restore, PagingInv, PageTypes
<1>9. block' \in Entries
  BY <1>2 DEF Read, Run, RunElsewhere, BeginFrame, EndFrame, WriteGpio, Restore, PagingInv, PageTypes
<1>10. PageTypes'
  BY <1>2, <1>4, <1>5, <1>6, <1>7, <1>8, <1>9 DEF PageTypes
<1>11. Wanting'
  <2>1. (size = 1 \/ size \in Sizes)' /\ (pc # Null => PageOf(pc) < size)
    BY <1>1 DEF PagingInv, Wanting
  <2>2. pc' # Null => PageOf(pc') < size'
    <3>1. pc' = pc \/ pc' = Null \/ \E p \in CodePlaces : Readable(p) /\ pc' = p
      BY DEF Read, Run, RunElsewhere, BeginFrame, EndFrame, WriteGpio, Restore
    <3> QED BY <1>1, <2>1, <3>1 DEF Readable
  <2>3. mode' = "evicting" =>
          /\ want' < size' /\ use' # "load"
          /\ use' \in {"code", "frame"} => pc' # Null /\ want' = PageOf(pc')
          /\ use' = "code" => PageOf(pc') \in sticky'
    <3>1. CASE \E p \in Places : Read(p)
      BY <1>1, <3>1 DEF Read, Fault, Readable
    <3>2. CASE \E p \in CodePlaces : Run(p)
      <4>1. PICK p \in CodePlaces : Run(p)
        BY <3>2
      <4>2. /\ PageOf(p) < size /\ pc' = p /\ p \in Places /\ PageOf(p) \in sticky'
            /\ mode' = "evicting" => want' = PageOf(p) /\ use' = "code"
        BY <1>2, <4>1 DEF Run, Fault, Readable
      <4>3. p # Null
        BY <4>2 DEF Places, Null
      <4> QED BY <1>1, <4>2, <4>3
    <3>3. CASE BeginFrame
      BY <1>1, <1>2, <2>1, <3>3 DEF BeginFrame, Fault
    <3>4. CASE ~(BeginFrame \/ (\E p \in CodePlaces : Run(p)) \/ \E p \in Places : Read(p))
      BY <1>2, <3>4 DEF RunElsewhere, EndFrame, WriteGpio, Restore
    <3> QED BY <3>1, <3>2, <3>3, <3>4
  <2>4. synced' => GpioOn
    BY DEF Read, Run, RunElsewhere, BeginFrame, EndFrame, WriteGpio, Restore, PagingInv, Wanting
  <2>5. (PageOf(pc))' = PageOf(pc')
    BY DEF PageOf
  <2> QED BY <2>1, <2>2, <2>3, <2>4, <2>5 DEF Wanting
<1> QED BY <1>3, <1>10, <1>11 DEF PagingInv

\* Every step of the paging keeps its invariant.
LEMMA PagingKept == PagingInv /\ [Next]_vars => PagingInv'
<1> SUFFICES ASSUME PagingInv, [Next]_vars PROVE PagingInv'
  OBVIOUS
<1>1. CASE UNCHANGED vars
  <2>1. PageTypes'
    BY <1>1 DEF vars, queueVars, PagingInv, PageTypes
  <2>2. Links' /\ Wanting'
    BY <1>1 DEF vars, queueVars, PagingInv, Links, Wanting, PageOf, FirstPages
  <2> QED BY <2>1, <2>2 DEF PagingInv
<1>2. CASE SkipSticky
  <2>1. /\ Rotate
        /\ UNCHANGED <<mode, use, want, size, game, phy, map, buf, sticky, pc, block, pins, synced>>
    BY <1>2 DEF SkipSticky
  <2>2. PageTypes'
    BY <2>1 DEF PagingInv, PageTypes
  <2>3. Wanting' /\ Links'
    BY <2>1, RotateKeeps DEF PagingInv, Wanting, PageOf, FirstPages
  <2> QED BY <2>2, <2>3 DEF PagingInv
<1> QED BY <1>1, <1>2, GameKeeps, FillKeeps, PageKeeps, GameStep DEF Next, Paging

(* The variables of the paging keep their types, whatever games are loaded.   *)
THEOREM PagingTyped == Spec => []TypeOK
<1>1. PagingInv => TypeOK
  BY DEF PagingInv, PageTypes, Links, TypeOK
<1>2. Spec => []PagingInv
  BY PagingStart, PagingKept, PTL DEF Spec
<1> QED BY <1>1, <1>2, PTL

--------------------------------------------------------------------------
\* Before a game is loaded nothing of an earlier one is kept.
LEMMA OneGameStart == Init => OneGame
<1> SUFFICES ASSUME Init PROVE OneGame
  OBVIOUS
<1>1. /\ mode = "empty" /\ game = 0 /\ want = 0 /\ head = 0 /\ use = "load"
      /\ next = [e \in Entries |-> e + 1]
      /\ phy = [e \in Entries |-> Null] /\ map = [p \in Places |-> Null] /\ synced = FALSE
      /\ tail = NumEntries - 1
  BY DEF Init
<1>2. FirstLoad
  BY <1>1 DEF FirstLoad
<1>3. Recorded
  BY <1>1, PageOfPlace DEF Recorded
<1>4. Running
  BY <1>1 DEF Running
<1> QED BY <1>2, <1>3, <1>4 DEF OneGame

(* The first game: nothing is mapped, and the buffers hold its first pages.   *)
LEMMA GameStarts ==
  ASSUME PagingInv, OneGame, NEW n \in Sizes, LoadGame(n), game' <= 1
  PROVE  OneGame'
<1>1. /\ mode \in {"empty", "idle"}
      /\ mode' = "evicting" /\ use' = "load" /\ want' = 0 /\ size' = n /\ game' = game + 1
      /\ map' = [p \in Places |-> IF 2 * p < 5 * Window THEN Null ELSE map[p]]
      /\ buf' = [e \in Entries |->
                   IF e < FirstPages(n) THEN [game |-> game + 1, page |-> e, word |-> RomWord]
                   ELSE buf[e]]
      /\ synced' = FALSE
      /\ UNCHANGED <<next, phy, head, tail>>
  BY DEF LoadGame, queueVars
<1>2. game = 0 /\ game' = 1
  BY <1>1 DEF PagingInv, PageTypes
<1>3. /\ head = 0 /\ want = 0 /\ (tail = NumEntries - 1 \/ tail < 0)
      /\ \A p \in Places : map[p] = Null
      /\ \A e \in Entries : e \in Nat
      /\ \A e \in Entries : phy[e] = Null
      /\ \A e \in Entries : e < NumEntries - 1 => next[e] = e + 1
  BY <1>2 DEF OneGame, FirstLoad, Entries
<1>4. FirstLoad'
  <2>1. \A e \in Entries : e < FirstPages(n) => buf'[e].game = 1 /\ buf'[e].page = e
    BY <1>1, <1>2
  <2>2. FirstPages(size)' = FirstPages(n)
    BY <1>1 DEF FirstPages
  <2> QED BY <1>1, <1>2, <1>3, <2>1, <2>2 DEF FirstLoad, Holds
<1>5. Recorded'
  <2>1. \A p \in Places : map'[p] = Null
    BY <1>1, <1>3
  <2> QED BY <1>1, <1>3, <2>1, PageOfPlace DEF Recorded
<1>6. Running'
  BY <1>1 DEF Running
<1> QED BY <1>4, <1>5, <1>6 DEF OneGame

(* A page is mapped to the entry that is freed, and to none else.             *)
LEMMA InstallMaps ==
  ASSUME SizesDivide, PagingInv, Recorded, Install(head)
  PROVE  /\ \A p \in Places : PageOf(p) < size /\ map'[p] # Null =>
              \/ map'[p] = head /\ PageOf(p) = want
              \/ map'[p] # head /\ map'[p] = map[p] /\ PageOf(p) # want
         /\ \A p \in Places : PageOf(p) < size /\ map'[p] # Null => phy'[map'[p]] = PageOf(p)
<1>1. /\ mode = "evicting" /\ phy'[head] = want
      /\ \A e \in Entries : e # head => phy'[e] = phy[e]
      /\ \A p \in Places :
           map'[p] = IF p \in Mapped(want, size) THEN head
                     ELSE IF phy[head] >= 0 /\ p \in Mapped(phy[head], size) THEN Null ELSE map[p]
  BY InstallTypes DEF PagingInv, Links
<1>2. /\ size \in 1 .. Window /\ Window % size = 0 /\ want \in 0 .. size - 1
      /\ head \in Entries /\ map \in [Places -> Entries \cup {Null}]
      /\ phy \in [Entries -> Pages \cup {Null}]
  <2>1. size \in 1 .. Window /\ (size = 1 \/ size \in Sizes) /\ want \in Pages /\ want < size
    BY <1>1 DEF PagingInv, PageTypes, Wanting
  <2>2. Window % 1 = 0
    BY PageOfPlace
  <2>3. Window % size = 0
    BY <2>1, <2>2 DEF SizesDivide
  <2>4. want \in 0 .. size - 1
    BY <2>1, PageOfPlace DEF Pages
  <2> QED BY <2>1, <2>3, <2>4 DEF PagingInv, PageTypes, Links
<1> SUFFICES ASSUME NEW p \in Places, PageOf(p) < size, map'[p] # Null
             PROVE  /\ \/ map'[p] = head /\ PageOf(p) = want
                       \/ map'[p] # head /\ map'[p] = map[p] /\ PageOf(p) # want
                    /\ phy'[map'[p]] = PageOf(p)
  OBVIOUS
<1>3. CASE p \in Mapped(want, size)
  <2>1. PageOf(p) = want
    BY <1>2, <1>3, MappedOnly
  <2> QED BY <1>1, <1>3, <2>1
<1>4. CASE p \notin Mapped(want, size)
  <2>1. map'[p] = map[p] /\ ~(phy[head] >= 0 /\ p \in Mapped(phy[head], size))
    BY <1>1, <1>4
  <2>2. phy[map[p]] = PageOf(p) /\ map[p] \in Entries
    BY <1>2, <2>1 DEF Recorded, Readable
  <2>3. PageOf(p) >= 0 /\ p \in Mapped(PageOf(p), size)
    BY <1>2, PageOfPlace, MappedOwn DEF Pages
  <2>4. map[p] # head
    BY <2>1, <2>2, <2>3
  <2> QED BY <1>1, <1>4, <2>1, <2>2, <2>3, <2>4
<1> QED BY <1>3, <1>4

(* load_gamepak_raw: the entry that is freed is the buffer that is filled.    *)
LEMMA FillRecords ==
  ASSUME SizesDivide, PagingInv, OneGame, FillFirst, game <= 1
  PROVE  OneGame'
<1>1. /\ mode = "evicting" /\ use = "load" /\ Install(want)
      /\ \/ want + 1 < FirstPages(size) /\ want' = want + 1 /\ mode' = "evicting"
         \/ mode' = "idle" /\ want' = want
      /\ UNCHANGED <<use, size, game, buf, sticky, pc, block, pins, synced>>
  BY DEF FillFirst, Install
<1>2. /\ game = 1 /\ head = want /\ use' = "load" /\ (tail = NumEntries - 1 \/ tail < want)
      /\ synced = FALSE
      /\ \A e \in Entries : e >= want => phy[e] = Null
      /\ \A e \in Entries : e >= want /\ e < NumEntries - 1 => next[e] = e + 1
      /\ \A e \in Entries : e < FirstPages(size) => Holds(e, e)
  <2>1. game \in Nat /\ game # 0
    BY <1>1 DEF PagingInv, PageTypes, OneGame, FirstLoad
  <2>2. game = 1
    BY <2>1
  <2> QED BY <1>1, <2>2 DEF OneGame, FirstLoad
<1>3. /\ want \in Nat /\ want < FirstPages(size) /\ FirstPages(size) <= NumEntries
      /\ FirstPages(size) \in Nat
      /\ NumEntries \in Nat /\ want \in Entries /\ tail \in Entries /\ head # tail
  <2>1. want \in Pages /\ want < FirstPages(size) /\ size \in 1 .. Window
    BY <1>1 DEF PagingInv, PageTypes, Wanting
  <2>2. tail \in Entries /\ head # tail
    BY DEF PagingInv, Links
  <2>3. FirstPages(size) <= NumEntries /\ FirstPages(size) \in Nat
    BY <2>1, GamepakAssumption DEF FirstPages
  <2> QED BY <2>1, <2>2, <2>3, GamepakAssumption DEF Pages, Entries
<1>4. /\ phy'[want] = want /\ \A e \in Entries : e # want => phy'[e] = phy[e]
      /\ head' = next[want] /\ next' = [next EXCEPT ![tail] = head]
  BY <1>1, <1>2, <1>3, InstallTypes DEF Install, Rotate
<1>5. FirstLoad'
  <2>1. /\ FirstPages(size)' = FirstPages(size) /\ \A e : Holds(e, e)' = Holds(e, e)
    BY <1>1 DEF FirstPages, Holds
  <2>2. ASSUME mode' = "evicting"
        PROVE  /\ head' = want' /\ tail' < want' /\ synced' = FALSE
               /\ \A e \in Entries : e >= want' => phy'[e] = Null
               /\ \A e \in Entries : e >= want' /\ e < NumEntries - 1 => next'[e] = e + 1
    <3>1. want' = want + 1 /\ want + 1 < NumEntries
      BY <1>1, <1>3, <2>2
    <3>2. head' = want + 1
      BY <1>2, <1>3, <1>4, <3>1
    <3>3. \A e \in Entries : e >= want + 1 => e >= want /\ e # want
      BY <1>3 DEF Entries
    <3>4. \A e \in Entries : e >= want' => phy'[e] = Null
      BY <1>2, <1>4, <3>1, <3>3
    <3>5. \A e \in Entries : e >= want' /\ e < NumEntries - 1 => next'[e] = e + 1
      <4> SUFFICES ASSUME NEW e \in Entries, e >= want + 1, e < NumEntries - 1
                   PROVE  next'[e] = e + 1
        BY <3>1
      <4>1. next[e] = e + 1
        BY <1>2, <3>3
      <4>2. e # tail
        BY <1>2, <1>3 DEF Entries
      <4> QED BY <1>4, <4>1, <4>2 DEF PagingInv, Links
    <3>6. tail' = want /\ synced' = FALSE
      BY <1>1, <1>2 DEF Install, Rotate
    <3> QED BY <1>3, <3>1, <3>2, <3>4, <3>5, <3>6
  <2>3. mode' # "empty" /\ game' = 1
    BY <1>1, <1>2
  <2>4. \A e \in Entries : e < FirstPages(size)' => Holds(e, e)'
    BY <1>2, <2>1
  <2>5. mode' = "empty" <=> game' = 0
    BY <2>3
  <2>6. game' # 0
    BY <2>3
  <2> QED BY <2>2, <2>4, <2>5, <2>6 DEF FirstLoad
<1>6. Recorded'
  <2>1. Recorded /\ Install(head)
    BY <1>1, <1>2 DEF OneGame
  <2>2. /\ \A p \in Places : PageOf(p) < size /\ map'[p] # Null => phy'[map'[p]] = PageOf(p)
    BY <2>1, InstallMaps
  <2>3. \A e \in Entries : phy'[e] # Null => Holds(e, phy'[e])
    BY <1>2, <1>3, <1>4, <2>1 DEF Recorded
  <2>4. synced' = FALSE
    BY <1>1, <1>2
  <2> QED BY <1>1, <2>2, <2>3, <2>4 DEF Recorded, Holds, Readable
<1>7. Running'
  BY <1>1 DEF Running
<1> QED BY <1>5, <1>6, <1>7 DEF OneGame

(* load_gamepak_page: the entry holds the page, and shows the pins in it.     *)
LEMMA PageRecords ==
  ASSUME SizesDivide, PagingInv, OneGame, LoadPage
  PROVE  OneGame'
<1>1. /\ mode = "evicting" /\ use # "load" /\ Install(head)
      /\ buf' = [buf EXCEPT ![head] = [game |-> game, page |-> want, word |-> GpioWord(want)]]
      /\ mode' = "running"
      /\ block' = IF use = "data" THEN block ELSE head
      /\ sticky' = IF use = "frame" THEN {PageOf(pc)} ELSE sticky
      /\ UNCHANGED <<use, want, size, game, pc, pins, synced>>
  BY DEF LoadPage, Install
<1>2. /\ head \in Entries /\ want \in Pages /\ block \in Entries
      /\ buf \in [Entries -> [game : Nat, page : Nat, word : Pins \cup {RomWord}]]
      /\ map' \in [Places -> Entries \cup {Null}]
  BY <1>1, InstallTypes DEF PagingInv, PageTypes, Links
<1>3. /\ phy'[head] = want /\ \A e \in Entries : e # head => phy'[e] = phy[e]
      /\ ~(phy[head] >= 0 /\ phy[head] \in sticky)
  BY <1>1, <1>2, InstallTypes
<1>4. /\ buf'[head] = [game |-> game, page |-> want, word |-> GpioWord(want)]
      /\ \A e \in Entries : e # head => buf'[e] = buf[e]
  BY <1>1, <1>2
<1>5. FirstLoad'
  <2>1. game' # 0 /\ mode' = "running"
    BY <1>1 DEF OneGame, FirstLoad
  <2> QED BY <2>1 DEF FirstLoad
<1>6. /\ \A p \in Places : PageOf(p) < size /\ map'[p] # Null =>
           \/ map'[p] = head /\ PageOf(p) = want
           \/ map'[p] # head /\ map'[p] = map[p] /\ PageOf(p) # want
      /\ \A p \in Places : PageOf(p) < size /\ map'[p] # Null => phy'[map'[p]] = PageOf(p)
  BY <1>1, InstallMaps DEF OneGame
<1>7. Recorded'
  <2>1. \A e \in Entries : phy'[e] # Null => buf'[e].game = game /\ buf'[e].page = phy'[e]
    BY <1>3, <1>4 DEF OneGame, Recorded, Holds
  <2>2. ASSUME synced, map'[0] # Null PROVE buf'[map'[0]].word = pins
    <3>1. 0 \in Places /\ PageOf(0) = 0 /\ 0 < size
      BY PageOfPlace DEF PagingInv, PageTypes
    <3>2. CASE map'[0] = head /\ want = 0
      BY <1>4, <2>2, <3>2 DEF GpioWord, PagingInv, Wanting
    <3>3. CASE map'[0] # head /\ map'[0] = map[0]
      <4>1. map'[0] \in Entries
        BY <1>2, <2>2, <3>1
      <4> QED BY <1>4, <2>2, <3>3, <4>1 DEF OneGame, Recorded
    <3> QED BY <1>6, <2>2, <3>1, <3>2, <3>3
  <2> QED BY <1>1, <1>6, <2>1, <2>2 DEF Recorded, Holds, Readable
<1>8. Running'
  <2> SUFFICES ASSUME pc # Null PROVE phy'[block'] = PageOf(pc) /\ PageOf(pc) \in sticky'
    BY <1>1 DEF Running, PageOf
  <2>1. CASE use = "data"
    <3>1. phy[block] = PageOf(pc) /\ PageOf(pc) \in sticky
      BY <1>1, <2>1 DEF OneGame, Running
    <3>2. PageOf(pc) >= 0
      BY GamepakAssumption, PageOfPlace DEF PagingInv, PageTypes, Pages
    <3> QED BY <1>1, <1>2, <1>3, <2>1, <3>1, <3>2
  <2>2. CASE use # "data"
    <3>1. use \in {"code", "frame"} /\ want = PageOf(pc) /\ (use = "code" => PageOf(pc) \in sticky)
      BY <1>1, <2>2 DEF PagingInv, PageTypes, Wanting
    <3> QED BY <1>1, <1>3, <2>2, <3>1
  <2> QED BY <2>1, <2>2
<1> QED BY <1>5, <1>7, <1>8 DEF OneGame

(* The steps of the game and of the frame, between two loads.                 *)
LEMMA GameRecords ==
  ASSUME PagingInv, OneGame,
         \/ \E p \in Places : Read(p)
         \/ \E p \in CodePlaces : Run(p)
         \/ \E bit \in OtherBits : RunElsewhere(bit)
         \/ BeginFrame
         \/ EndFrame
         \/ \E v \in Pins : WriteGpio(v) \/ \E p \in CodePlaces : Restore(v, p)
  PROVE  OneGame'
<1>1. UNCHANGED <<size, game, next, phy, head, tail, map>> /\ mode \in {"idle", "running"}
  BY DEF Read, Run, RunElsewhere, BeginFrame, EndFrame, WriteGpio, Restore, queueVars
<1>2. mode' \in {"idle", "running", "evicting"} /\ (mode' = "evicting" => use' # "load")
  BY DEF Read, Run, RunElsewhere, BeginFrame, EndFrame, WriteGpio, Restore, Fault
<1>3. FirstLoad'
  <2>1. game' # 0 /\ mode' # "empty"
    BY <1>1, <1>2 DEF OneGame, FirstLoad
  <2> QED BY <1>2, <2>1 DEF FirstLoad
<1>4. CodePlaces \subseteq Places /\ 0 \in Places
  BY GamepakAssumption, PageOfPlace
<1>5. Recorded'
  <2>1. CASE \E v \in Pins : WriteGpio(v) /\ map[0] # Null
    <3>1. PICK v \in Pins : WriteGpio(v) /\ map[0] # Null
      BY <2>1
    <3>2. /\ buf' = [buf EXCEPT ![map[0]].word = v] /\ pins' = v /\ map[0] \in Entries
          /\ buf \in [Entries -> [game : Nat, page : Nat, word : Pins \cup {RomWord}]]
      BY <1>4, <3>1 DEF WriteGpio, PagingInv, PageTypes
    <3>3. /\ buf'[map[0]].word = v
          /\ \A e \in Entries : buf'[e].game = buf[e].game /\ buf'[e].page = buf[e].page
      BY <3>2
    <3> QED BY <1>1, <3>2, <3>3 DEF OneGame, Recorded, Holds, Readable
  <2>2. CASE buf' = buf /\ (synced' => (pins' = pins /\ synced' = synced) \/ map[0] = Null)
    BY <1>1, <2>2 DEF OneGame, Recorded, Holds, Readable
  <2>3. \/ buf' = buf /\ (synced' => (pins' = pins /\ synced' = synced) \/ map[0] = Null)
        \/ \E v \in Pins : WriteGpio(v) /\ map[0] # Null
    BY DEF Read, Run, RunElsewhere, BeginFrame, EndFrame, WriteGpio, Restore
  <2> QED BY <2>1, <2>2, <2>3
<1>6. Running'
  <2>1. ASSUME NEW p \in CodePlaces, Readable(p), map[p] # Null
        PROVE  phy[map[p]] = PageOf(p)
    BY <1>4, <2>1 DEF OneGame, Recorded
  <2>2. CASE \E p \in CodePlaces : Run(p)
    <3>1. PICK p \in CodePlaces : Run(p)
      BY <2>2
    <3>2. /\ Readable(p) /\ pc' = p /\ PageOf(p) \in sticky'
          /\ \/ map[p] # Null /\ block' = map[p]
             \/ mode' = "evicting" /\ use' = "code"
      BY <3>1 DEF Run, Fault
    <3> QED BY <1>1, <2>1, <3>2 DEF Running, PageOf
  <2>3. CASE BeginFrame
    <3>1. pc' = pc
      BY <2>3 DEF BeginFrame
    <3>2. CASE pc # Null /\ map[pc] # Null
      <4>1. block' = map[pc] /\ PageOf(pc) \in sticky'
        BY <2>3, <3>2 DEF BeginFrame
      <4>2. pc \in CodePlaces /\ Readable(pc)
        BY <3>2 DEF PagingInv, PageTypes, Wanting, Readable
      <4> QED BY <1>1, <2>1, <3>1, <3>2, <4>1, <4>2 DEF Running, PageOf
    <3>3. CASE ~(pc # Null /\ map[pc] # Null)
      BY <2>3, <3>1, <3>3 DEF BeginFrame, Fault, Running
    <3> QED BY <3>2, <3>3
  <2>4. CASE \E p \in Places : Read(p)
    BY <1>1, <2>4 DEF Read, Fault, OneGame, Running, PageOf
  <2>5. CASE \E bit \in OtherBits : RunElsewhere(bit)
    BY <2>5 DEF RunElsewhere, Running
  <2>6. CASE EndFrame \/ \E v \in Pins : WriteGpio(v) \/ \E p \in CodePlaces : Restore(v, p)
    <3>1. CASE mode' = "idle"
      BY <3>1 DEF Running
    <3>2. CASE \E v \in Pins : WriteGpio(v)
      BY <1>1, <3>2 DEF WriteGpio, OneGame, Running, PageOf
    <3> QED BY <2>6, <3>1, <3>2 DEF EndFrame, Restore
  <2> QED BY <2>2, <2>3, <2>4, <2>5, <2>6
<1> QED BY <1>3, <1>5, <1>6 DEF OneGame

\* While only one game has been loaded, every step keeps its pages and their bits.
LEMMA OneGameKept ==
  ASSUME SizesDivide, PagingInv, game <= 1 => OneGame, [Next]_vars, game' <= 1
  PROVE  OneGame'
<1>1. game <= 1 /\ OneGame
  <2>1. game' = game \/ game' = game + 1
    BY DEF Next, Paging, LoadGame, SkipSticky, FillFirst, LoadPage, Read, Run, RunElsewhere, BeginFrame,
       EndFrame, WriteGpio, Restore, vars
  <2>2. game \in Nat
    BY DEF PagingInv, PageTypes
  <2> QED BY <2>1, <2>2
<1>2. CASE UNCHANGED vars
  <2>1. FirstLoad' /\ Recorded' /\ Running'
    BY <1>1, <1>2 DEF vars, queueVars, OneGame, FirstLoad, Recorded, Running, Holds, Readable, PageOf,
       FirstPages
  <2> QED BY <2>1 DEF OneGame
<1>3. CASE SkipSticky
  <2>1. /\ mode = "evicting" /\ Sticky(head)
        /\ UNCHANGED <<mode, use, want, size, game, phy, map, buf, sticky, pc, block, pins, synced>>
    BY <1>3 DEF SkipSticky
  <2>2. phy[head] # Null /\ head \in Entries
    BY <2>1 DEF Sticky, Null, PagingInv, Links
  <2>3. game # 0 /\ use # "load"
    <3>1. want \in Nat
      BY DEF PagingInv, PageTypes, Pages
    <3> QED BY <1>1, <2>1, <2>2, <3>1 DEF OneGame, FirstLoad
  <2>4. FirstLoad'
    BY <2>1, <2>3 DEF FirstLoad
  <2>5. Recorded' /\ Running'
    BY <1>1, <2>1 DEF OneGame, Recorded, Running, Holds, Readable, PageOf
  <2> QED BY <2>4, <2>5 DEF OneGame
<1> QED BY <1>1, <1>2, <1>3, GameStarts, FillRecords, PageRecords, GameRecords DEF Next, Paging

(* What a game reads through any window is its own page, the GPIO registers   *)
(* read back, and the code block is that of the pc (load_gamepak_page,        *)
(* evict_gamepak_page, write_gpio): with buffers of any number, for a game    *)
(* whose size divides the window, until another game is loaded.               *)
THEOREM PagesAreRight ==
  ASSUME SizesDivide PROVE Spec => [](game <= 1 => PagesRight)
<1> DEFINE First == game <= 1 => OneGame
<1>1. Init => First
  BY OneGameStart
<1>2. PagingInv /\ First /\ [Next]_vars => First'
  BY OneGameKept
<1>3. PagingInv /\ First => (game <= 1 => PagesRight)
  <2> SUFFICES ASSUME PagingInv, OneGame, mode = "running" PROVE PagesRight
    BY DEF PagesRight, ReadsRight, GpioReadsBack, CodeInStep
  <2>1. Recorded /\ Running /\ phy \in [Entries -> Pages \cup {Null}] /\ block \in Entries
        /\ map \in [Places -> Entries \cup {Null}] /\ \A p \in Places : PageOf(p) \in Pages
    BY PageOfPlace DEF OneGame, PagingInv, PageTypes
  <2>2. Null \notin Pages
    BY DEF Pages, Null
  <2>3. ReadsRight
    BY <2>1, <2>2 DEF ReadsRight, Recorded
  <2>4. CodeInStep
    <3>1. pc # Null => pc \in Places
      BY GamepakAssumption DEF PagingInv, PageTypes
    <3> QED BY <2>1, <2>2, <3>1 DEF CodeInStep, Recorded, Running
  <2>5. GpioReadsBack
    BY <2>1 DEF GpioReadsBack, Recorded
  <2> QED BY <2>3, <2>4, <2>5 DEF PagesRight
<1>4. Spec => []PagingInv
  BY PagingStart, PagingKept, PTL DEF Spec
<1> HIDE DEF First
<1>5. Spec => []First
  BY <1>1, <1>2, <1>4, PTL DEF Spec
<1> QED BY <1>3, <1>4, <1>5, PTL

(*----------------------------- save states ------------------------------*)

(* The values of a sequence.                                                  *)
Values(s) == {s[i] : i \in 1 .. Len(s)}

\* The values of two sequences put together.
LEMMA BothValues ==
  ASSUME NEW S, NEW s \in Seq(S), NEW t \in Seq(S)
  PROVE  s \o t \in Seq(S) /\ Values(s \o t) = Values(s) \cup Values(t)
<1>1. /\ Len(s) \in Nat /\ Len(t) \in Nat /\ s \o t \in Seq(S) /\ Len(s \o t) = Len(s) + Len(t)
      /\ \A i \in 1 .. Len(s) : (s \o t)[i] = s[i]
      /\ \A i \in 1 .. Len(t) : (s \o t)[Len(s) + i] = t[i]
  OBVIOUS
<1>2. ASSUME NEW i \in 1 .. Len(s \o t) PROVE (s \o t)[i] \in Values(s) \cup Values(t)
  <2>1. CASE i \in 1 .. Len(s)
    BY <1>1, <2>1 DEF Values
  <2>2. CASE i \notin 1 .. Len(s)
    <3>1. i - Len(s) \in 1 .. Len(t) /\ i = Len(s) + (i - Len(s))
      BY <1>1, <2>2
    <3> QED BY <1>1, <3>1 DEF Values
  <2> QED BY <2>1, <2>2
<1>3. ASSUME NEW i \in 1 .. Len(s) PROVE s[i] \in Values(s \o t)
  <2>1. i \in 1 .. Len(s \o t)
    BY <1>1
  <2> QED BY <1>1, <2>1 DEF Values
<1>4. ASSUME NEW i \in 1 .. Len(t) PROVE t[i] \in Values(s \o t)
  <2>1. Len(s) + i \in 1 .. Len(s \o t)
    BY <1>1
  <2> QED BY <1>1, <2>1 DEF Values
<1> QED BY <1>1, <1>2, <1>3, <1>4 DEF Values

\* The values of a sequence of words, read as numbers.
LEMMA WordValues ==
  ASSUME NEW S, NEW s \in Seq(S), NEW R, \A x \in S : IntOf(x) \in R
  PROVE  /\ WordsOf(s) \in Seq(R)
         /\ Values(WordsOf(s)) = {IntOf(x) : x \in ToSet(s)}
<1>1. DOMAIN s = 1 .. Len(s) /\ Len(s) \in Nat /\ \A i \in 1 .. Len(s) : s[i] \in S
  OBVIOUS
<1>2. WordsOf(s) = [i \in 1 .. Len(s) |-> IntOf(s[i])]
  BY <1>1 DEF WordsOf
<1>3. WordsOf(s) \in Seq(R) /\ Len(WordsOf(s)) = Len(s)
  BY <1>1, <1>2
<1>4. Values(WordsOf(s)) = {IntOf(s[i]) : i \in 1 .. Len(s)}
  BY <1>2, <1>3 DEF Values
<1> QED BY <1>1, <1>3, <1>4 DEF ToSet

(* The readers read what the writers wrote, and the checks ask for no more.   *)
LEMMA OrderReadsAll ==
  /\ ReadOrder \in Seq(Written) /\ Len(ReadOrder) \in Nat
  /\ \A f \in Written : \E i \in 1 .. Len(ReadOrder) : ReadOrder[i] = f
  /\ Checked \subseteq Written
<1> DEFINE P1 == << IntOf("cpu"), ArrayOf("cpu"), IntOf("input"), IntOf("emu") >>
           P2 == << BytesOf("memory"), IntOf("memory"), IntOf("backup"), BytesOf("backup"),
                    ArrayOf("backup") >>
           P3 == << IntOf("sound"), BytesOf("sound") >>
           P4 == << IntOf("ds0"), BytesOf("ds0"), IntOf("ds1"), BytesOf("ds1") >>
           Names == {"cpu", "input", "emu", "memory", "backup", "sound"}
           T == {"timer0", "timer1", "timer2", "timer3"}
           D == {"dma0", "dma1", "dma2", "dma3"}
           G == {"gs0", "gs1", "gs2", "gs3"}
           W(N) == {IntOf(x) : x \in N}
<1>1. ToSet(Timers) = T /\ ToSet(DmaChannels) = D /\ ToSet(DirectSound) = {"ds0", "ds1"} /\ ToSet(Gbc) = G
  BY DEF ToSet, Timers, DmaChannels, DirectSound, Gbc
<1>2. Timers \in Seq(T) /\ DmaChannels \in Seq(D) /\ Gbc \in Seq(G)
  BY DEF Timers, DmaChannels, Gbc
<1>3. Written = W(Names) \cup W(T) \cup W(D) \cup W({"ds0", "ds1"}) \cup W(G)
                \cup {BytesOf(x) : x \in {"memory", "backup", "sound", "ds0", "ds1"}}
                \cup {ArrayOf(x) : x \in {"cpu", "backup"}}
  BY <1>1 DEF Written
<1>4. P1 \in Seq(Written) /\ P2 \in Seq(Written) /\ P3 \in Seq(Written) /\ P4 \in Seq(Written)
  BY <1>3
<1>5. /\ Values(P1) = {IntOf("cpu"), ArrayOf("cpu"), IntOf("input"), IntOf("emu")}
      /\ Values(P2) = {BytesOf("memory"), IntOf("memory"), IntOf("backup"), BytesOf("backup"),
                       ArrayOf("backup")}
      /\ Values(P3) = {IntOf("sound"), BytesOf("sound")}
      /\ Values(P4) = {IntOf("ds0"), BytesOf("ds0"), IntOf("ds1"), BytesOf("ds1")}
  BY DEF Values
<1>6. /\ WordsOf(Timers) \in Seq(Written) /\ Values(WordsOf(Timers)) = W(T)
      /\ WordsOf(DmaChannels) \in Seq(Written) /\ Values(WordsOf(DmaChannels)) = W(D)
      /\ WordsOf(Gbc) \in Seq(Written) /\ Values(WordsOf(Gbc)) = W(G)
  <2>1. \A x \in T \cup D \cup G : IntOf(x) \in Written
    BY <1>3
  <2>2. WordsOf(Timers) \in Seq(Written) /\ Values(WordsOf(Timers)) = W(T)
    BY <1>1, <1>2, <2>1, WordValues
  <2>3. WordsOf(DmaChannels) \in Seq(Written) /\ Values(WordsOf(DmaChannels)) = W(D)
    BY <1>1, <1>2, <2>1, WordValues
  <2>4. WordsOf(Gbc) \in Seq(Written) /\ Values(WordsOf(Gbc)) = W(G)
    BY <1>1, <1>2, <2>1, WordValues
  <2> QED BY <2>2, <2>3, <2>4
<1>7. ReadOrder = P1 \o WordsOf(Timers) \o P2 \o WordsOf(DmaChannels) \o P3 \o P4 \o WordsOf(Gbc)
  BY DEF ReadOrder
<1> HIDE DEF P1, P2, P3, P4, W
<1>8. /\ ReadOrder \in Seq(Written)
      /\ Values(ReadOrder) = Values(P1) \cup W(T) \cup Values(P2) \cup W(D) \cup Values(P3)
                             \cup Values(P4) \cup W(G)
  <2>1. /\ P1 \o WordsOf(Timers) \in Seq(Written)
        /\ Values(P1 \o WordsOf(Timers)) = Values(P1) \cup W(T)
    BY <1>4, <1>6, BothValues
  <2> DEFINE s1 == P1 \o WordsOf(Timers)
             s2 == s1 \o P2
             s3 == s2 \o WordsOf(DmaChannels)
             s4 == s3 \o P3
             s5 == s4 \o P4
             s6 == s5 \o WordsOf(Gbc)
  <2>a. s1 \in Seq(Written) /\ Values(s1) = Values(P1) \cup W(T)
    BY <2>1
  <2> HIDE DEF s1
  <2>2. s2 \in Seq(Written) /\ Values(s2) = Values(P1) \cup W(T) \cup Values(P2)
    BY <1>4, <2>a, BothValues
  <2> HIDE DEF s2
  <2>3. s3 \in Seq(Written) /\ Values(s3) = Values(P1) \cup W(T) \cup Values(P2) \cup W(D)
    BY <1>6, <2>2, BothValues
  <2> HIDE DEF s3
  <2>4. s4 \in Seq(Written) /\ Values(s4) = Values(P1) \cup W(T) \cup Values(P2) \cup W(D) \cup Values(P3)
    BY <1>4, <2>3, BothValues
  <2> HIDE DEF s4
  <2>5. s5 \in Seq(Written)
        /\ Values(s5) = Values(P1) \cup W(T) \cup Values(P2) \cup W(D) \cup Values(P3) \cup Values(P4)
    BY <1>4, <2>4, BothValues
  <2> HIDE DEF s5
  <2>6. s6 \in Seq(Written)
        /\ Values(s6) = Values(P1) \cup W(T) \cup Values(P2) \cup W(D) \cup Values(P3) \cup Values(P4)
                        \cup W(G)
    BY <1>6, <2>5, BothValues
  <2> QED BY <1>7, <2>6 DEF s1, s2, s3, s4, s5
<1>9. \A f \in Written : f \in Values(ReadOrder)
  BY <1>3, <1>5, <1>8 DEF W
<1>10. \A f \in Written : \E i \in 1 .. Len(ReadOrder) : ReadOrder[i] = f
  BY <1>9 DEF Values
<1>11. Checked \subseteq Written
  <2>1. /\ Visited(DmaChannels, 10) \subseteq D /\ Visited(DirectSound, 6) \subseteq {"ds0", "ds1"}
        /\ Visited(Gbc, 26) \subseteq G
    BY DEF Visited, DmaChannels, DirectSound, Gbc
  <2> QED BY <1>1, <1>3, <2>1 DEF Checked, W
<1> QED BY <1>8, <1>10, <1>11

(* How far a load is, and why it would have ended.                            *)
LoadInv ==
  /\ SavestateTypeOK
  /\ reading \in [what : {"idle", "read", "refused", "failed", "loaded"}, at : Nat]
  /\ reading.what = "read" => \A i \in 1 .. reading.at - 1 : machine[ReadOrder[i]] = "then"
  /\ reading.what = "loaded" => derived = "then" /\ \A f \in Written : machine[f] = "then"
  /\ reading.what \in {"refused", "failed"} => \E f \in Written : document[f] # "whole"

\* Before anything is read the invariant of loading holds.
LEMMA LoadStart == SavestateInit => LoadInv
<1> SUFFICES ASSUME SavestateInit PROVE LoadInv
  OBVIOUS
<1>1. 1 \in 1 .. Len(ReadOrder) + 1
  BY OrderReadsAll
<1> QED BY <1>1 DEF SavestateInit, LoadInv, SavestateTypeOK

\* Every step of saving and loading keeps that invariant.
LEMMA LoadKept == LoadInv /\ [SavestateNext]_savestateVars => LoadInv'
<1> SUFFICES ASSUME LoadInv, [SavestateNext]_savestateVars PROVE LoadInv'
  OBVIOUS
<1> USE DEF LoadInv, SavestateTypeOK
<1>0. Len(ReadOrder) \in Nat /\ \A i \in 1 .. Len(ReadOrder) : ReadOrder[i] \in Written
  BY OrderReadsAll
<1>1. CASE Save \/ PlayOn
  BY <1>1, <1>0 DEF Save, PlayOn
<1>2. CASE Another
  <2>1. PICK f \in Written, d \in Damages : document' = [document EXCEPT ![f] = d]
    BY <1>2, ZenonT(60) DEF Another
  <2> QED BY <1>2, <2>1 DEF Another
<1>3. CASE BeginLoad
  <2>1. ASSUME NEW f \in Checked, ~HasKey(f) PROVE \E g \in Written : document[g] # "whole"
    BY <2>1, OrderReadsAll DEF HasKey
  <2> QED BY <1>0, <1>3, <2>1 DEF BeginLoad
<1>4. CASE ReadField
  <2> DEFINE f == ReadOrder[reading.at]
  <2>1. /\ reading.what = "read" /\ reading.at \in 1 .. Len(ReadOrder) /\ f \in Written
        /\ UNCHANGED <<document, derived>>
    BY <1>0, <1>4 DEF ReadField
  <2>2. CASE CanRead(f)
    <3>1. /\ machine' = [machine EXCEPT ![f] = "then"]
          /\ reading' = [reading EXCEPT !.at = @ + 1]
      BY <1>4, <2>2 DEF ReadField
    <3>2. \A i \in 1 .. reading.at : machine'[ReadOrder[i]] = "then"
      <4> SUFFICES ASSUME NEW i \in 1 .. reading.at PROVE machine'[ReadOrder[i]] = "then"
        OBVIOUS
      <4>1. ReadOrder[i] \in Written /\ (i = reading.at \/ machine[ReadOrder[i]] = "then")
        BY <1>0, <2>1
      <4> QED BY <2>1, <3>1, <4>1
    <3>3. reading'.what = "read" /\ reading'.at = reading.at + 1
      BY <2>1, <3>1
    <3> QED BY <1>0, <2>1, <3>1, <3>2, <3>3
  <2>3. CASE ~CanRead(f)
    BY <1>4, <2>1, <2>3 DEF ReadField, CanRead
  <2> QED BY <2>2, <2>3
<1>5. CASE Derive
  <2>1. /\ reading.what = "read" /\ reading.at = Len(ReadOrder) + 1
        /\ reading' = [reading EXCEPT !.what = "loaded"]
        /\ derived' = "then" /\ UNCHANGED <<document, machine>>
    BY <1>0, <1>5 DEF Derive
  <2>2. \A f \in Written : machine[f] = "then"
    <3> SUFFICES ASSUME NEW f \in Written PROVE machine[f] = "then"
      OBVIOUS
    <3>1. PICK i \in 1 .. Len(ReadOrder) : ReadOrder[i] = f
      BY OrderReadsAll
    <3> QED BY <1>0, <2>1, <3>1
  <2> QED BY <2>1, <2>2
<1>6. CASE Return
  BY <1>0, <1>6 DEF Return
<1>7. CASE UNCHANGED savestateVars
  BY <1>7 DEF savestateVars
<1> QED BY <1>1, <1>2, <1>3, <1>4, <1>5, <1>6, <1>7 DEF SavestateNext

(* The variables of the save states keep their types.                         *)
THEOREM StatesTyped == SavestateSpec => []SavestateTypeOK
<1>1. LoadInv => SavestateTypeOK
  BY DEF LoadInv
<1> QED BY <1>1, LoadStart, LoadKept, PTL DEF SavestateSpec

(* A whole document is never refused, and gives back every field there is:    *)
(* the readers of all parts together read what the writers wrote, in          *)
(* whatever order, and what is derived is made anew (gba_load_state).         *)
THEOREM StatesRestored == SavestateSpec => []SavedIsRestored
<1>1. LoadInv => SavedIsRestored
  BY DEF LoadInv, SavedIsRestored, WholeDocument
<1> QED BY <1>1, LoadStart, LoadKept, PTL DEF SavestateSpec

(*--------------------- the link cable by Serial-Poke --------------------*)

PeerTypes ==
  [state : States, queue : Seq(Nat), recvd : BOOLEAN, timeout : Nat]
Packets == [1 .. Words -> Nat] \cup {<<>>}
SeenTypes ==
  [shown : Seq(Nat), packet : Packets, n : Nat, prev : Nat,
   lost : SUBSET Nat, torn : BOOLEAN]

CableTypes ==
  /\ me \in Consoles /\ state \in States
  /\ peer \in [Others -> PeerTypes] /\ seen \in [Others -> SeenTypes]
  /\ DOMAIN frame = {"offset", "sum", "words"}
  /\ frame.offset \in 0 .. Words /\ frame.words \in [1 .. Words -> Nat]
  /\ player \in [stage : {"shake", "talk"}, frames : Nat, data : BOOLEAN]
  /\ packets \in [Others -> Nat] /\ wrote \in Seq(Nat)

(* A frame is on its way: the next word is the one at the offset.             *)
InFrame == state = "CONNECTED" /\ frame.offset > 0

(* The words the game wrote in a frame are the first ones of its packet.      *)
Wrote ==
  InFrame => /\ Len(wrote) = frame.offset - 1
             /\ \A j \in 1 .. frame.offset - 1 : wrote[j] = frame.words[j]

(* The queue of a peer is in order, after what was shown; what is neither     *)
(* there nor shown is lost.                                                   *)
InOrder(i) ==
  /\ seen[i].n <= packets[i]
  /\ \A j \in 1 .. Len(peer[i].queue) :
       /\ peer[i].queue[j] \in seen[i].n + 1 .. packets[i]
       /\ \A k \in 1 .. j - 1 : peer[i].queue[k] < peer[i].queue[j]
  /\ \A m \in seen[i].n + 1 .. packets[i] : m \in Range(peer[i].queue) \cup seen[i].lost

(* The packet shown last came after the one before, and those between are     *)
(* lost.                                                                      *)
NoneSkipped(i) ==
  seen[i].n > 0 =>
    /\ seen[i].n > seen[i].prev
    /\ seen[i].prev + 1 .. seen[i].n - 1 \subseteq seen[i].lost

(* What was shown of a peer in this frame is the beginning of the first       *)
(* packet of its queue, or silence.                                           *)
ShownSoFar(i) ==
  InFrame =>
    /\ Len(seen[i].shown) = frame.offset - 1
    /\ peer[i].recvd => peer[i].queue # <<>>
    /\ ~seen[i].torn =>
         IF peer[i].recvd
         THEN /\ frame.offset > 1 => seen[i].packet = PacketWords(Head(peer[i].queue))
              /\ \A j \in 1 .. frame.offset - 1 :
                   seen[i].shown[j] = PacketWords(Head(peer[i].queue))[j]
         ELSE /\ seen[i].packet = <<>>
              /\ \A j \in 1 .. frame.offset - 1 : seen[i].shown[j] = 0

(* Between two frames: the last one was whole, or begins anew.                *)
ShownWhole(i) ==
  /\ frame.offset > 0 => Len(seen[i].shown) < Words
  /\ frame.offset = 0 /\ Len(seen[i].shown) = Words /\ ~seen[i].torn =>
       IF seen[i].packet = <<>>
       THEN seen[i].shown = Zeros
       ELSE seen[i].shown = seen[i].packet /\ seen[i].n > 0

OfPeer(i) == InOrder(i) /\ NoneSkipped(i) /\ ShownSoFar(i) /\ ShownWhole(i)

CableInv == CableTypes /\ Wrote /\ \A i \in Others : OfPeer(i)

(* What a turn of the own game may be: nothing for the frames, a new session, *)
(* the game starting over, or a word of a frame.                              *)
Idle ==
  /\ state' \in States /\ (state' = "CONNECTED" => state = "CONNECTED")
  /\ UNCHANGED <<peer, frame, sent, wrote, seen>>
Begins ==
  /\ state' = "CONNECTED" /\ frame' = [NewFrame EXCEPT !.words = frame.words]
  /\ UNCHANGED <<sent, wrote>>
  /\ \/ UNCHANGED <<peer, seen>>
     \/ /\ peer' = [i \in Others |-> [peer[i] EXCEPT !.queue = <<>>]]
        /\ seen' = [i \in Others |-> Lose(seen[i], peer[i])]
Restarts == state' = "HANDSHAKE" /\ NewHistory /\ UNCHANGED <<peer, frame>>
Clocked(w) ==
  /\ state = "CONNECTED" /\ state' = state
  /\ \/ frame.offset = 0 /\ StartFrame(w)
     \/ frame.offset # 0 /\ DataWord(w)

\* A console that is connected starts again, or clocks a word.
LEMMA ConnectedKinds ==
  ASSUME NEW w \in Nat, state = "CONNECTED", Connected(w)
  PROVE  Restarts \/ Clocked(w)
BY DEF Connected, Restarts, Clocked

\* The words a game may send are numbers.
LEMMA WordsOfGame == ASSUME CableTypes PROVE GameWords \subseteq Nat
<1>1. player.frames \in Nat /\ frame.offset \in Nat
  BY CableAssumption DEF CableTypes
<1>2. 10 * player.frames + frame.offset \in Nat
  BY <1>1
<1> QED BY <1>2 DEF GameWords, SLAVE_HANDSHAKE, MASTER_HANDSHAKE

\* A turn of the game is one of four, and lets the game go on.
LEMMA TurnKinds ==
  ASSUME CableTypes, Turn
  PROVE  /\ me' = me /\ packets' = packets
         /\ player' \in [stage : {"shake", "talk"}, frames : Nat, data : BOOLEAN]
         /\ \E w \in Nat : Idle \/ Begins \/ Restarts \/ Clocked(w)
<1>1. PICK w \in GameWords : (IF me = 0 THEN MasterSend(w) ELSE SlaveUpdate(w)) /\ GameGoesOn(w)
  BY DEF Turn
<1>2. w \in Nat
  BY WordsOfGame
<1>3. player' \in [stage : {"shake", "talk"}, frames : Nat, data : BOOLEAN]
  <2>1. player \in [stage : {"shake", "talk"}, frames : Nat, data : BOOLEAN]
    BY DEF CableTypes
  <2>2. \/ player' = player
        \/ \E s \in {"shake", "talk"} : player' = [player EXCEPT !.stage = s]
        \/ player' = [player EXCEPT !.data = FALSE]
        \/ player' = [player EXCEPT !.data = TRUE, !.frames = @ + 1]
    BY <1>1 DEF GameGoesOn
  <2>3. ASSUME NEW s \in {"shake", "talk"}, player' = [player EXCEPT !.stage = s]
        PROVE  player' \in [stage : {"shake", "talk"}, frames : Nat, data : BOOLEAN]
    BY <2>1, <2>3
  <2>4. ASSUME player' = [player EXCEPT !.data = TRUE, !.frames = @ + 1]
        PROVE  player' \in [stage : {"shake", "talk"}, frames : Nat, data : BOOLEAN]
    <3> DEFINE n == player.frames + 1
    <3>1. n \in Nat /\ player' = [player EXCEPT !.data = TRUE, !.frames = n]
      BY <2>1, <2>4
    <3> HIDE DEF n
    <3> QED BY <2>1, <3>1
  <2>5. ASSUME player' = [player EXCEPT !.data = FALSE]
        PROVE  player' \in [stage : {"shake", "talk"}, frames : Nat, data : BOOLEAN]
    BY <2>1, <2>5
  <2> QED BY <2>1, <2>2, <2>3, <2>4, <2>5
<1>4. me = 0 => Idle \/ Begins \/ Restarts \/ Clocked(w)
  <2> SUFFICES ASSUME me = 0 PROVE Idle \/ Begins \/ Restarts \/ Clocked(w)
    OBVIOUS
  <2>1. MasterSend(w)
    BY <1>1
  <2>2. CASE state = "PREINIT"
    BY <2>1, <2>2 DEF MasterSend, Idle, States
  <2>3. CASE state = "HANDSHAKE"
    BY <2>1, <2>3 DEF MasterSend, Idle, Begins, Enter, States
  <2>4. CASE state = "CONNECTED"
    BY <2>1, <2>4, <1>2, ConnectedKinds DEF MasterSend
  <2> QED BY <2>2, <2>3, <2>4 DEF CableTypes, States
<1>5. me # 0 => Idle \/ Begins \/ Restarts \/ Clocked(w)
  <2> SUFFICES ASSUME me # 0 PROVE Idle \/ Begins \/ Restarts \/ Clocked(w)
    OBVIOUS
  <2>1. SlaveUpdate(w)
    BY <1>1
  <2>2. state \in States
    BY DEF CableTypes
  <2>3. (Idle \/ Begins) \/ (Connected(w) /\ state = "CONNECTED")
    <3>1. CASE peer[0].state = "PREINIT" \/ (peer[0].state = "CONNECTED" /\ state = "PREINIT")
      BY <2>1, <2>2, <3>1 DEF SlaveUpdate, Idle, Begins, Enter, States
    <3> QED BY <2>1, <2>2 DEF SlaveUpdate, Idle, Begins, Enter, States
  <2> QED BY <2>3, <1>2, ConnectedKinds
<1> QED BY <1>2, <1>3, <1>4, <1>5 DEF Turn

Bare(s) == [s EXCEPT !.shown = <<>>, !.packet = <<>>, !.torn = FALSE]

\* Forgetting what was shown of a packet keeps the packets' numbers.
LEMMA BareSeen ==
  \A s \in SeenTypes :
    /\ Bare(s) \in SeenTypes
    /\ Bare(s).shown = <<>> /\ Bare(s).packet = <<>> /\ Bare(s).torn = FALSE
    /\ Bare(s).n = s.n /\ Bare(s).prev = s.prev /\ Bare(s).lost = s.lost
<1> TAKE s \in SeenTypes
<1>1. <<>> \in Seq(Nat) /\ <<>> \in Packets
  BY DEF Packets
<1> QED BY <1>1 DEF SeenTypes, Bare

\* The frame takes what is queued.
Taken(p) == [p EXCEPT !.recvd = p.queue # <<>>]

\* Taking a packet for a peer keeps its queue.
LEMMA TakenPeer ==
  \A p \in PeerTypes :
    /\ Taken(p) \in PeerTypes /\ Taken(p).queue = p.queue
    /\ Taken(p).recvd <=> p.queue # <<>>
<1> TAKE p \in PeerTypes
<1>1. CASE p.queue = <<>>
  <2>1. Taken(p) = [p EXCEPT !.recvd = FALSE]
    BY <1>1 DEF Taken
  <2> QED BY <2>1, <1>1 DEF PeerTypes
<1>2. CASE p.queue # <<>>
  <2>1. Taken(p) = [p EXCEPT !.recvd = TRUE]
    BY <1>2 DEF Taken
  <2> QED BY <2>1, <1>2 DEF PeerTypes
<1> QED BY <1>1, <1>2

\* The packets queued are dropped.
Emptied(p) == [p EXCEPT !.queue = <<>>]

\* Emptying a queue keeps the peer well formed.
LEMMA EmptiedPeer ==
  \A p \in PeerTypes : Emptied(p) \in PeerTypes /\ Emptied(p).queue = <<>>
<1> TAKE p \in PeerTypes
<1>1. <<>> \in Seq(Nat)
  OBVIOUS
<1> QED BY <1>1 DEF PeerTypes, Emptied

\* The initial states satisfy the invariant of the cable.
LEMMA CableStart == CableInit => CableInv
<1> SUFFICES ASSUME CableInit PROVE CableInv
  OBVIOUS
<1>1. CableTypes
  BY CableAssumption DEF CableInit, CableTypes, States, PeerTypes, Packets, SeenTypes, Unknown, Unseen,
     NewFrame, Zeros
<1>2. Wrote /\ frame.offset = 0 /\ ~InFrame
  BY DEF CableInit, Wrote, InFrame, NewFrame
<1>3. ASSUME NEW i \in Others PROVE OfPeer(i)
  <2>1. peer[i] = Unknown /\ seen[i] = Unseen /\ packets[i] = 0
    BY DEF CableInit
  <2>2. InOrder(i) /\ NoneSkipped(i)
    BY <2>1 DEF InOrder, NoneSkipped, Unknown, Unseen
  <2>3. ShownWhole(i)
    BY <2>1, <1>2, CableAssumption DEF ShownWhole, Unseen
  <2> QED BY <1>2, <2>2, <2>3 DEF OfPeer, ShownSoFar
<1> QED BY <1>1, <1>2, <1>3 DEF CableInv

(* The game stands still for the cable: nothing was shown or written.         *)
LEMMA IdleKeeps ==
  ASSUME CableInv, me' = me, packets' = packets, Idle,
         player' \in [stage : {"shake", "talk"}, frames : Nat, data : BOOLEAN]
  PROVE  CableInv'
<1>1. CableTypes'
  BY DEF CableInv, CableTypes, Idle, Others
<1>2. Wrote' /\ (InFrame' => InFrame)
  BY DEF CableInv, Wrote, InFrame, Idle
<1>3. ASSUME NEW i \in Others' PROVE OfPeer(i)'
  <2> i \in Others /\ OfPeer(i)
    BY DEF CableInv, Others
  <2> QED BY <1>2 DEF OfPeer, InOrder, NoneSkipped, ShownSoFar, ShownWhole, InFrame, Idle
<1> QED BY <1>1, <1>2, <1>3 DEF CableInv

(* The game starts over: the frame is left where it was, its histories begin  *)
(* anew.                                                                      *)
LEMMA RestartKeeps ==
  ASSUME CableInv, me' = me, packets' = packets, Restarts,
         player' \in [stage : {"shake", "talk"}, frames : Nat, data : BOOLEAN]
  PROVE  CableInv'
<1>0. \A i \in Others : seen'[i] = Bare(seen[i])
  BY DEF Restarts, NewHistory, Bare
<1>1. CableTypes'
  <2>1. seen' \in [Others -> SeenTypes]
    BY BareSeen DEF CableInv, CableTypes, Restarts, NewHistory, Bare
  <2>2. wrote' = <<>> /\ state' = "HANDSHAKE"
    BY DEF Restarts, NewHistory
  <2>3. wrote' \in Seq(Nat) /\ state' \in States
    BY <2>2 DEF States
  <2> QED BY <2>1, <2>3 DEF CableInv, CableTypes, Restarts, Others
<1>2. Wrote' /\ ~InFrame'
  BY DEF Wrote, InFrame, Restarts
<1>3. ASSUME NEW i \in Others' PROVE OfPeer(i)'
  <2>1. i \in Others /\ OfPeer(i) /\ seen[i] \in SeenTypes /\ seen'[i] \in SeenTypes
    BY <1>1 DEF CableInv, Others, CableTypes
  <2>2. seen'[i].shown = <<>> /\ seen'[i].n = seen[i].n /\ seen'[i].prev = seen[i].prev
        /\ seen'[i].lost = seen[i].lost
    BY <1>0, <2>1, BareSeen
  <2>3. (InOrder(i) /\ NoneSkipped(i))'
    BY <2>1, <2>2 DEF OfPeer, InOrder, NoneSkipped, Restarts
  <2>4. ShownWhole(i)'
    BY <2>2, CableAssumption DEF ShownWhole
  <2> QED BY <1>2, <2>3, <2>4 DEF OfPeer, ShownSoFar
<1> QED BY <1>1, <1>2, <1>3 DEF CableInv

\* What a peer loses is noted and nothing else.
LEMMA LostSeen ==
  \A s \in SeenTypes, p \in PeerTypes :
    /\ Lose(s, p) \in SeenTypes
    /\ Lose(s, p) = [s EXCEPT !.lost = s.lost \cup Range(p.queue)]
<1> TAKE s \in SeenTypes, p \in PeerTypes
<1>1. p.queue \in Seq(Nat)
  BY DEF PeerTypes
<1>2. Range(p.queue) \subseteq Nat
  BY <1>1 DEF Range
<1> QED BY <1>2 DEF Lose, SeenTypes

(* What is lost of a peer's queue was due.                                    *)
LEMMA LostInOrder ==
  ASSUME NEW i, InOrder(i), NoneSkipped(i), seen[i] \in SeenTypes, peer[i] \in PeerTypes,
         peer'[i].queue = <<>>, packets'[i] = packets[i],
         seen'[i].n = seen[i].n, seen'[i].prev = seen[i].prev,
         seen'[i].lost = seen[i].lost \cup Range(peer[i].queue)
  PROVE  InOrder(i)' /\ NoneSkipped(i)'
BY DEF InOrder, NoneSkipped

(* A new session: the frame that was on its way ends, the packets of the      *)
(* peers may be dropped.                                                      *)
LEMMA BeginKeeps ==
  ASSUME CableInv, me' = me, packets' = packets, Begins,
         player' \in [stage : {"shake", "talk"}, frames : Nat, data : BOOLEAN]
  PROVE  CableInv'
<1>1. frame' = [offset |-> 0, sum |-> 0, words |-> frame.words]
  BY DEF Begins, NewFrame
<1>2. Wrote' /\ ~InFrame' /\ frame'.offset = 0
  BY <1>1 DEF Wrote, InFrame
<1>3. ASSUME NEW i \in Others PROVE seen[i] \in SeenTypes /\ peer[i] \in PeerTypes
  BY DEF CableInv, CableTypes
<1>4. ASSUME NEW i \in Others
      PROVE  \/ peer'[i] = peer[i] /\ seen'[i] = seen[i]
             \/ peer'[i] = Emptied(peer[i]) /\ seen'[i] = Lose(seen[i], peer[i])
  BY DEF Begins, Emptied
<1>5. CableTypes'
  <2>1. \A i \in Others : seen'[i] \in SeenTypes
    BY <1>3, <1>4, LostSeen
  <2>3. \A i \in Others : peer'[i] \in PeerTypes
    BY <1>3, <1>4, EmptiedPeer
  <2>4. peer' \in [Others -> PeerTypes] /\ seen' \in [Others -> SeenTypes]
    BY <2>1, <2>3 DEF Begins, CableInv, CableTypes
  <2>5. /\ DOMAIN frame' = {"offset", "sum", "words"}
        /\ frame'.offset \in 0 .. Words /\ frame'.words \in [1 .. Words -> Nat]
    BY <1>1, CableAssumption DEF CableInv, CableTypes
  <2> QED BY <2>4, <2>5 DEF CableInv, CableTypes, Others, Begins, States
<1>6. ASSUME NEW i \in Others' PROVE OfPeer(i)'
  <2>1. i \in Others /\ OfPeer(i) /\ seen[i] \in SeenTypes /\ peer[i] \in PeerTypes
    BY <1>3 DEF CableInv, Others
  <2>2. /\ seen'[i].shown = seen[i].shown /\ seen'[i].torn = seen[i].torn
        /\ seen'[i].packet = seen[i].packet /\ seen'[i].n = seen[i].n
        /\ seen'[i].prev = seen[i].prev
    BY <2>1, <1>4, LostSeen, SMTT(30) DEF SeenTypes
  <2>3. (InOrder(i) /\ NoneSkipped(i))'
    <3>1. CASE peer'[i] = peer[i] /\ seen'[i] = seen[i]
      BY <2>1, <3>1 DEF OfPeer, InOrder, NoneSkipped
    <3>2. CASE peer'[i] = Emptied(peer[i]) /\ seen'[i] = Lose(seen[i], peer[i])
      <4>1. peer'[i].queue = <<>>
            /\ seen'[i].lost = seen[i].lost \cup Range(peer[i].queue)
        BY <2>1, <3>2, EmptiedPeer, LostSeen, SMTT(30) DEF SeenTypes
      <4> QED BY <2>1, <2>2, <4>1, LostInOrder DEF OfPeer
    <3> QED BY <2>1, <1>4, <3>1, <3>2
  <2>4. ShownWhole(i)'
    <3>1. ShownWhole(i) /\ frame.offset \in 0 .. Words
      BY <2>1 DEF OfPeer, CableInv, CableTypes
    <3> QED BY <3>1, <2>2, <1>2, CableAssumption DEF ShownWhole, Zeros
  <2> QED BY <1>2, <2>3, <2>4 DEF OfPeer, ShownSoFar
<1> QED BY <1>2, <1>5, <1>6 DEF CableInv

(* A frame begins: what is queued of a peer is what will be shown of it.      *)
LEMMA FrameStarts ==
  ASSUME CableInv, me' = me, packets' = packets, state = "CONNECTED", state' = state,
         NEW w \in Nat, StartFrame(w),
         player' \in [stage : {"shake", "talk"}, frames : Nat, data : BOOLEAN]
  PROVE  CableInv'
<1>1. /\ DOMAIN frame' = {"offset", "sum", "words"}
      /\ frame'.offset = 1 /\ frame'.words = frame.words
  BY DEF CableInv, CableTypes, StartFrame
<1>2. wrote' = <<>>
  BY DEF StartFrame, NewHistory
<1>3. Wrote'
  BY <1>1, <1>2 DEF Wrote
<1>4. ASSUME NEW i \in Others
      PROVE  /\ seen[i] \in SeenTypes /\ peer[i] \in PeerTypes
             /\ peer'[i] = Taken(peer[i]) /\ seen'[i] = Bare(seen[i])
  BY DEF CableInv, CableTypes, StartFrame, NewHistory, Taken, Bare
<1>5. CableTypes'
  <2>1. seen' \in [Others -> SeenTypes]
    <3>1. seen' = [i \in Others |-> Bare(seen[i])]
      BY DEF StartFrame, NewHistory, Bare
    <3> QED BY <3>1, <1>4, BareSeen
  <2>3. peer' \in [Others -> PeerTypes]
    BY <1>4, TakenPeer DEF StartFrame
  <2>4. wrote' \in Seq(Nat)
    BY <1>2
  <2>5. frame'.offset \in 0 .. Words
    BY <1>1, CableAssumption
  <2> QED BY <2>1, <2>3, <2>4, <2>5, <1>1 DEF CableInv, CableTypes, Others
<1>6. ASSUME NEW i \in Others' PROVE OfPeer(i)'
  <2>1. i \in Others /\ OfPeer(i) /\ seen[i] \in SeenTypes /\ peer[i] \in PeerTypes
    BY <1>4 DEF CableInv, Others
  <2>2. /\ seen'[i].shown = <<>> /\ seen'[i].torn = FALSE /\ seen'[i].packet = <<>>
        /\ seen'[i].n = seen[i].n /\ seen'[i].prev = seen[i].prev
        /\ seen'[i].lost = seen[i].lost
    BY <2>1, <1>4, BareSeen
  <2>3. peer'[i].queue = peer[i].queue /\ (peer'[i].recvd <=> peer[i].queue # <<>>)
    BY <2>1, <1>4, TakenPeer
  <2>4. (InOrder(i) /\ NoneSkipped(i))'
    BY <2>1, <2>2, <2>3 DEF OfPeer, InOrder, NoneSkipped
  <2>5. ShownWhole(i)'
    BY <2>2, <1>1, CableAssumption DEF ShownWhole
  <2>6. ShownSoFar(i)'
    BY <2>2, <2>3, <1>1 DEF ShownSoFar
  <2> QED BY <2>4, <2>5, <2>6 DEF OfPeer
<1> QED BY <1>3, <1>5, <1>6 DEF CableInv

\* Frames with the same words are the same.
LEMMA SameWords ==
  ASSUME NEW D, NEW a \in [D -> Nat], NEW b \in [D -> Nat], \A j \in D : a[j] = b[j]
  PROVE  a = b
OBVIOUS

\* A packet has its words.
LEMMA PacketTypes == \A n \in Nat : PacketWords(n) \in [1 .. Words -> Nat] /\ PacketWords(n) # <<>>
<1> TAKE n \in Nat
<1>1. PacketWords(n) \in [1 .. Words -> Nat]
  BY CableAssumption DEF PacketWords
<1>2. PacketWords(n) \in Seq(Nat) /\ Len(PacketWords(n)) = Words /\ Words # 0
  BY <1>1, CableAssumption
<1>3. Len(<<>>) = 0
  OBVIOUS
<1> QED BY <1>1, <1>2, <1>3

(* The first packet of a queue in order is the least; the others follow.      *)
LEMMA FirstOfQueue ==
  ASSUME NEW q \in Seq(Nat), q # <<>>,
         \A j \in 1 .. Len(q) : \A k \in 1 .. j - 1 : q[k] < q[j]
  PROVE  /\ Head(q) \in Nat /\ Head(q) = q[1] /\ Tail(q) \in Seq(Nat)
         /\ Len(Tail(q)) = Len(q) - 1
         /\ \A j \in 1 .. Len(q) - 1 : Tail(q)[j] = q[j + 1] /\ Head(q) < q[j + 1]
         /\ \A x \in Range(q) : x = Head(q) \/ (x \in Range(Tail(q)) /\ Head(q) < x)
<1>1. /\ Len(q) \in Nat /\ Len(q) >= 1 /\ Head(q) = q[1] /\ q[1] \in Nat
      /\ Tail(q) \in Seq(Nat) /\ Len(Tail(q)) = Len(q) - 1
      /\ \A j \in 1 .. Len(q) - 1 : Tail(q)[j] = q[j + 1]
  OBVIOUS
<1>2. \A j \in 1 .. Len(q) - 1 : Head(q) < q[j + 1]
  <2> TAKE j \in 1 .. Len(q) - 1
  <2>1. j + 1 \in 1 .. Len(q) /\ 1 \in 1 .. (j + 1) - 1
    BY <1>1
  <2> QED BY <2>1, <1>1
<1>3. ASSUME NEW x \in Range(q), x # Head(q)
      PROVE  x \in Range(Tail(q)) /\ Head(q) < x
  <2>1. PICK j \in 1 .. Len(q) : x = q[j]
    BY DEF Range
  <2>2. j # 1 /\ j - 1 \in 1 .. Len(q) - 1 /\ (j - 1) + 1 = j
    BY <2>1, <1>1, <1>3
  <2>3. x = Tail(q)[j - 1] /\ Head(q) < x
    BY <2>1, <2>2, <1>1, <1>2
  <2>4. j - 1 \in DOMAIN Tail(q)
    BY <2>2, <1>1
  <2> QED BY <2>3, <2>4 DEF Range
<1> QED BY <1>1, <1>2, <1>3

\* A word is noted of what is shown, and at the end of a frame the packet.
With(s, p, word) ==
  [s EXCEPT !.shown = Append(s.shown, word),
            !.packet = IF p.recvd THEN PacketWords(Head(p.queue)) ELSE s.packet]
Ended(s, p, word) == [With(s, p, word) EXCEPT !.n = Head(p.queue), !.prev = s.n]

\* What a word that is shown adds to the history of a peer.
LEMMA NotedSeen ==
  ASSUME NEW s \in SeenTypes, NEW p \in PeerTypes, NEW word \in Nat,
         p.recvd => p.queue # <<>>, NEW t,
         t = With(s, p, word) \/ (p.recvd /\ t = Ended(s, p, word))
  PROVE  /\ t \in SeenTypes /\ t.shown = Append(s.shown, word)
         /\ t.packet = (IF p.recvd THEN PacketWords(Head(p.queue)) ELSE s.packet)
         /\ t.lost = s.lost /\ t.torn = s.torn
         /\ t = With(s, p, word) => t.n = s.n /\ t.prev = s.prev
         /\ t = Ended(s, p, word) => t.n = Head(p.queue) /\ t.prev = s.n
<1>1. p.recvd => Head(p.queue) \in Nat
  BY DEF PeerTypes
<1>2. Append(s.shown, word) \in Seq(Nat)
  BY DEF SeenTypes
<1>3. (IF p.recvd THEN PacketWords(Head(p.queue)) ELSE s.packet) \in Packets
  BY <1>1, PacketTypes DEF SeenTypes, Packets
<1> DEFINE sh == Append(s.shown, word)
           pk == IF p.recvd THEN PacketWords(Head(p.queue)) ELSE s.packet
           u == With(s, p, word)
<1>4. u = [s EXCEPT !.shown = sh, !.packet = pk] /\ sh \in Seq(Nat) /\ pk \in Packets
  BY <1>2, <1>3 DEF With
<1> HIDE DEF sh, pk, u
<1>5. /\ u \in SeenTypes /\ u.shown = sh /\ u.packet = pk /\ u.lost = s.lost
      /\ u.torn = s.torn /\ u.n = s.n /\ u.prev = s.prev /\ s.n \in Nat
  BY <1>4 DEF SeenTypes
<1>6. Ended(s, p, word) = [u EXCEPT !.n = Head(p.queue), !.prev = s.n]
  BY DEF Ended, u
<1>7. CASE p.recvd /\ t = Ended(s, p, word)
  <2>1. /\ t \in SeenTypes /\ t.shown = u.shown /\ t.packet = u.packet /\ t.lost = u.lost
        /\ t.torn = u.torn /\ t.n = Head(p.queue) /\ t.prev = s.n
    BY <1>1, <1>5, <1>6, <1>7 DEF SeenTypes
  <2>2. t = u => t.n = s.n /\ t.prev = s.prev
    BY <1>5
  <2> QED BY <2>1, <2>2, <1>5 DEF sh, pk, u
<1>8. CASE t = With(s, p, word)
  <2>1. t = u
    BY <1>8 DEF u
  <2>2. t = Ended(s, p, word) => t.n = Head(p.queue) /\ t.prev = s.n
    BY <1>5, <1>6 DEF SeenTypes
  <2> QED BY <2>1, <2>2, <1>5 DEF sh, pk
<1> QED BY <1>7, <1>8

(* A packet that was shown to its end leaves the queue; those before it that  *)
(* were not shown are lost.                                                   *)
LEMMA ShownLeaves ==
  ASSUME NEW i, InOrder(i), seen[i] \in SeenTypes, peer[i] \in PeerTypes, packets[i] \in Nat,
         peer[i].queue # <<>>, peer'[i].queue = Tail(peer[i].queue), packets'[i] = packets[i],
         seen'[i].n = Head(peer[i].queue), seen'[i].prev = seen[i].n,
         seen'[i].lost = seen[i].lost
  PROVE  InOrder(i)' /\ NoneSkipped(i)' /\ seen'[i].n > 0
<1> DEFINE q == peer[i].queue
           n == seen[i].n
<1>1. q \in Seq(Nat) /\ n \in Nat
  BY DEF PeerTypes, SeenTypes
<1>2. /\ Head(q) \in Nat /\ Head(q) = q[1] /\ Tail(q) \in Seq(Nat)
      /\ Len(Tail(q)) = Len(q) - 1 /\ Len(q) \in Nat /\ Len(q) >= 1
      /\ \A j \in 1 .. Len(q) - 1 : Tail(q)[j] = q[j + 1] /\ Head(q) < q[j + 1]
      /\ \A x \in Range(q) : x = Head(q) \/ (x \in Range(Tail(q)) /\ Head(q) < x)
  <2>1. \A j \in 1 .. Len(q) : \A k \in 1 .. j - 1 : q[k] < q[j]
    BY DEF InOrder
  <2>2. q # <<>>
    OBVIOUS
  <2> HIDE DEF q
  <2>3. Len(q) \in Nat /\ Len(q) >= 1
    BY <1>1, <2>2
  <2> QED BY <1>1, <2>1, <2>2, <2>3, FirstOfQueue
<1>3. Head(q) \in n + 1 .. packets[i]
  BY <1>2 DEF InOrder
<1>4. ASSUME NEW j \in 1 .. Len(Tail(q))
      PROVE  /\ Tail(q)[j] \in Head(q) + 1 .. packets[i]
             /\ \A k \in 1 .. j - 1 : Tail(q)[k] < Tail(q)[j]
  <2>1. j \in 1 .. Len(q) - 1 /\ j + 1 \in 1 .. Len(q)
    BY <1>2
  <2>2. q[j + 1] \in n + 1 .. packets[i] /\ \A k \in 1 .. (j + 1) - 1 : q[k] < q[j + 1]
    BY <2>1 DEF InOrder
  <2>3. ASSUME NEW k \in 1 .. j - 1 PROVE Tail(q)[k] < Tail(q)[j]
    <3>1. k \in 1 .. Len(q) - 1 /\ k + 1 \in 1 .. (j + 1) - 1
      BY <2>1
    <3> QED BY <3>1, <2>1, <2>2, <1>2
  <2> QED BY <2>1, <2>2, <2>3, <1>1, <1>2, SMTT(30)
<1>5. ASSUME NEW m \in Head(q) + 1 .. packets[i]
      PROVE  m \in Range(Tail(q)) \cup seen[i].lost
  <2>1. m \in n + 1 .. packets[i] /\ m # Head(q)
    BY <1>1, <1>2, <1>3, SMTT(30)
  <2> QED BY <2>1, <1>2 DEF InOrder
<1>6. n + 1 .. Head(q) - 1 \subseteq seen[i].lost
  <2> SUFFICES ASSUME NEW m \in n + 1 .. Head(q) - 1 PROVE m \in seen[i].lost
    OBVIOUS
  <2>1. m \in n + 1 .. packets[i] /\ m < Head(q)
    BY <1>1, <1>2, <1>3, SMTT(30)
  <2>2. m \notin Range(q)
    BY <2>1, <1>2
  <2> QED BY <2>1, <2>2 DEF InOrder
<1>7. seen'[i].n <= packets[i] /\ seen'[i].n > seen'[i].prev /\ seen'[i].n > 0
  BY <1>1, <1>2, <1>3
<1>8. InOrder(i)'
  BY <1>4, <1>5, <1>7 DEF InOrder
<1>9. NoneSkipped(i)'
  BY <1>6, <1>7 DEF NoneSkipped
<1> QED BY <1>7, <1>8, <1>9

(* The word of a peer continues what was shown of it.                         *)
LEMMA WordFollows ==
  ASSUME CableInv, state = "CONNECTED", state' = state, packets' = packets, frame.offset # 0,
         NEW w \in Nat, DataWord(w), NEW i \in Others
  PROVE  /\ OfPeer(i)' /\ seen'[i] \in SeenTypes /\ peer'[i] \in PeerTypes
<1>1. /\ seen[i] \in SeenTypes /\ peer[i] \in PeerTypes /\ packets[i] \in Nat
      /\ OfPeer(i) /\ frame.offset \in 1 .. Words /\ InFrame
      /\ i # me /\ i \in Consoles /\ Words \in Nat
  <2>1. frame.offset \in 0 .. Words /\ Words \in Nat
    BY CableAssumption DEF CableInv, CableTypes
  <2>2. frame.offset \in 1 .. Words /\ InFrame
    BY <2>1 DEF InFrame
  <2>3. seen[i] \in SeenTypes /\ peer[i] \in PeerTypes /\ packets[i] \in Nat /\ OfPeer(i)
    BY DEF CableInv, CableTypes
  <2> QED BY <2>1, <2>2, <2>3 DEF Others
<1> DEFINE k == frame.offset
           over == k >= Words
           word == WordOf(i, w)
<1>2. /\ seen'[i] = IF over /\ peer[i].recvd
                     THEN Ended(seen[i], peer[i], word) ELSE With(seen[i], peer[i], word)
      /\ peer'[i] = IF over THEN Used(peer[i]) ELSE peer[i]
      /\ frame'.offset = IF over THEN 0 ELSE k + 1
  BY <1>1 DEF DataWord, Noted, With, Ended
<1>3. /\ peer[i].recvd => peer[i].queue # <<>> /\ Head(peer[i].queue) \in Nat
      /\ Len(seen[i].shown) = k - 1 /\ seen[i].shown \in Seq(Nat) /\ peer[i].recvd \in BOOLEAN
  BY <1>1, SMTT(30) DEF OfPeer, ShownSoFar, PeerTypes, SeenTypes
<1>4. /\ word = (IF peer[i].recvd THEN PacketWords(Head(peer[i].queue))[k] ELSE 0)
      /\ word \in Nat
  BY <1>1, <1>3, PacketTypes DEF WordOf
<1> HIDE DEF word
<1>5. over \in BOOLEAN /\ (over <=> k = Words)
  BY <1>1
<1> HIDE DEF over
<1>6. /\ seen'[i] \in SeenTypes /\ seen'[i].shown = Append(seen[i].shown, word)
      /\ seen'[i].packet =
           (IF peer[i].recvd THEN PacketWords(Head(peer[i].queue)) ELSE seen[i].packet)
      /\ seen'[i].lost = seen[i].lost /\ seen'[i].torn = seen[i].torn
      /\ seen'[i].n = (IF over /\ peer[i].recvd THEN Head(peer[i].queue) ELSE seen[i].n)
      /\ seen'[i].prev = (IF over /\ peer[i].recvd THEN seen[i].n ELSE seen[i].prev)
  <2>1. PICK s \in SeenTypes : s = seen[i]
    BY <1>1
  <2>2. PICK p \in PeerTypes : p = peer[i]
    BY <1>1
  <2>3. PICK v \in Nat : v = word
    BY <1>4
  <2>4. PICK t : t = seen'[i]
    OBVIOUS
  <2>5. p.recvd => p.queue # <<>>
    BY <1>3, <2>2
  <2>6. CASE over /\ peer[i].recvd
    <3>1. p.recvd /\ t = Ended(s, p, v)
      BY <1>2, <2>1, <2>2, <2>3, <2>4, <2>6
    <3>2. /\ t \in SeenTypes /\ t.shown = Append(s.shown, v)
          /\ t.packet = (IF p.recvd THEN PacketWords(Head(p.queue)) ELSE s.packet)
          /\ t.lost = s.lost /\ t.torn = s.torn
          /\ t.n = Head(p.queue) /\ t.prev = s.n
      BY <3>1, <2>5, NotedSeen
    <3> QED BY <2>1, <2>2, <2>3, <2>4, <2>6, <3>2
  <2>7. CASE ~(over /\ peer[i].recvd)
    <3>1. t = With(s, p, v)
      BY <1>2, <2>1, <2>2, <2>3, <2>4, <2>7
    <3>2. /\ t \in SeenTypes /\ t.shown = Append(s.shown, v)
          /\ t.packet = (IF p.recvd THEN PacketWords(Head(p.queue)) ELSE s.packet)
          /\ t.lost = s.lost /\ t.torn = s.torn
          /\ t.n = s.n /\ t.prev = s.prev
      BY <3>1, <2>5, NotedSeen
    <3> QED BY <2>1, <2>2, <2>3, <2>4, <2>7, <3>2
  <2> QED BY <2>6, <2>7
<1>7. peer'[i] \in PeerTypes /\ peer'[i].recvd = peer[i].recvd
      /\ peer'[i].queue = (IF over /\ peer[i].recvd THEN Tail(peer[i].queue) ELSE peer[i].queue)
  <2>1. peer[i].recvd => Tail(peer[i].queue) \in Seq(Nat)
    BY <1>1, <1>3 DEF PeerTypes
  <2> QED BY <2>1, <1>1, <1>2 DEF Used, PeerTypes
<1>8. /\ Len(seen'[i].shown) = k /\ seen'[i].shown[k] = word
      /\ \A j \in 1 .. k - 1 : seen'[i].shown[j] = seen[i].shown[j]
  BY <1>1, <1>3, <1>4, <1>6, SMTT(30)
<1>9. (InOrder(i) /\ NoneSkipped(i))' /\ (over /\ peer[i].recvd => seen'[i].n > 0)
  <2>1. CASE over /\ peer[i].recvd
    BY <2>1, <1>1, <1>3, <1>6, <1>7, ShownLeaves DEF OfPeer
  <2>2. CASE ~(over /\ peer[i].recvd)
    BY <2>2, <1>1, <1>6, <1>7 DEF OfPeer, InOrder, NoneSkipped
  <2> QED BY <2>1, <2>2
<1>10. ~seen[i].torn =>
         \A j \in 1 .. k : seen'[i].shown[j] =
            IF peer[i].recvd THEN PacketWords(Head(peer[i].queue))[j] ELSE 0
  <2> SUFFICES ASSUME ~seen[i].torn, NEW j \in 1 .. k
               PROVE  seen'[i].shown[j] =
                        IF peer[i].recvd THEN PacketWords(Head(peer[i].queue))[j] ELSE 0
    OBVIOUS
  <2>1. CASE j = k
    BY <2>1, <1>4, <1>8
  <2>2. CASE j # k
    <3>1. j \in 1 .. k - 1
      BY <2>2, <1>1
    <3> QED BY <3>1, <1>1, <1>8 DEF OfPeer, ShownSoFar
  <2> QED BY <2>1, <2>2
<1>11. ~seen[i].torn /\ ~peer[i].recvd => seen'[i].packet = <<>>
  BY <1>1, <1>6 DEF OfPeer, ShownSoFar
<1>12. CASE ~over
  <2>1. /\ frame'.offset = k + 1 /\ k < Words /\ peer'[i].queue = peer[i].queue
    BY <1>1, <1>2, <1>5, <1>7, <1>12
  <2>2. ShownWhole(i)'
    BY <2>1, <1>1, <1>8 DEF ShownWhole
  <2>3. ShownSoFar(i)'
    <3>1. frame'.offset - 1 = k /\ frame'.offset > 1 /\ seen'[i].torn = seen[i].torn
      BY <2>1, <1>1, <1>6
    <3>2. \A j \in 1 .. k : ~seen[i].torn =>
            seen'[i].shown[j] = IF peer'[i].recvd THEN PacketWords(Head(peer'[i].queue))[j] ELSE 0
      BY <2>1, <1>7, <1>10
    <3>3. /\ peer'[i].recvd => peer'[i].queue # <<>>
          /\ peer'[i].recvd => seen'[i].packet = PacketWords(Head(peer'[i].queue))
          /\ ~seen[i].torn /\ ~peer'[i].recvd => seen'[i].packet = <<>>
      BY <2>1, <1>3, <1>6, <1>7, <1>11
    <3> QED BY <3>1, <3>2, <3>3, <1>8 DEF ShownSoFar
  <2> QED BY <2>2, <2>3, <1>6, <1>7, <1>9 DEF OfPeer
<1>13. CASE over
  <2>1. frame'.offset = 0 /\ k = Words
    BY <1>2, <1>5, <1>13
  <2>2. ShownSoFar(i)'
    BY <2>1 DEF ShownSoFar, InFrame
  <2>3. ASSUME ~seen[i].torn
        PROVE  IF seen'[i].packet = <<>> THEN seen'[i].shown = Zeros
               ELSE seen'[i].shown = seen'[i].packet /\ seen'[i].n > 0
    <3>1. seen'[i].shown \in [1 .. Words -> Nat]
      <4>1. seen'[i].shown \in Seq(Nat) /\ Len(seen'[i].shown) = Words
        BY <2>1, <1>6, <1>8 DEF SeenTypes
      <4> QED BY <4>1
    <3>2. CASE peer[i].recvd
      <4>1. /\ PacketWords(Head(peer[i].queue)) \in [1 .. Words -> Nat]
            /\ seen'[i].packet = PacketWords(Head(peer[i].queue)) /\ seen'[i].packet # <<>>
        BY <3>2, <1>3, <1>6, PacketTypes
      <4>2. \A j \in 1 .. Words : seen'[i].shown[j] = PacketWords(Head(peer[i].queue))[j]
        BY <3>2, <2>1, <2>3, <1>10
      <4>3. seen'[i].shown = PacketWords(Head(peer[i].queue))
        <5> DEFINE D == 1 .. Words
        <5>1. PICK a \in [D -> Nat] : a = seen'[i].shown
          BY <3>1
        <5>2. PICK b \in [D -> Nat] : b = PacketWords(Head(peer[i].queue))
          BY <4>1
        <5>3. \A j \in D : a[j] = b[j]
          BY <4>2, <5>1, <5>2
        <5> HIDE DEF D
        <5>4. a = b
          BY <5>3, SameWords
        <5> QED BY <5>1, <5>2, <5>4
      <4> QED BY <4>1, <4>3, <3>2, <1>9, <1>13
    <3>3. CASE ~peer[i].recvd
      <4>1. \A j \in 1 .. Words : seen'[i].shown[j] = 0
        BY <3>3, <2>1, <2>3, <1>10
      <4> QED BY <4>1, <3>1, <3>3, <2>3, <1>11 DEF Zeros
    <3> QED BY <3>2, <3>3
  <2>4. ShownWhole(i)'
    BY <2>1, <2>3, <1>6 DEF ShownWhole
  <2> QED BY <2>2, <2>4, <1>6, <1>7, <1>9 DEF OfPeer
<1> QED BY <1>12, <1>13

\* A word of data keeps the invariant of the cable.
LEMMA WordKeeps ==
  ASSUME CableInv, me' = me, packets' = packets, state = "CONNECTED", state' = state,
         frame.offset # 0, NEW w \in Nat, DataWord(w),
         player' \in [stage : {"shake", "talk"}, frames : Nat, data : BOOLEAN]
  PROVE  CableInv'
<1> DEFINE k == frame.offset
<1>1. /\ k \in 1 .. Words /\ Words \in Nat /\ InFrame
      /\ wrote \in Seq(Nat) /\ frame.words \in [1 .. Words -> Nat]
  BY CableAssumption DEF CableInv, CableTypes, InFrame
<1>2. /\ DOMAIN frame' = {"offset", "sum", "words"}
      /\ frame'.words = [frame.words EXCEPT ![k] = w]
      /\ frame'.offset = (IF k >= Words THEN 0 ELSE k + 1)
      /\ wrote' = Append(wrote, w)
  BY DEF DataWord
<1>3. frame'.offset \in 0 .. Words /\ (frame'.offset # 0 => frame'.offset = k + 1)
  BY <1>1, <1>2
<1>4. frame'.words \in [1 .. Words -> Nat] /\ wrote' \in Seq(Nat)
  BY <1>1, <1>2
<1>5. /\ Len(wrote') = k /\ \A j \in 1 .. k : wrote'[j] = frame'.words[j]
  <2>1. Len(wrote) = k - 1 /\ \A j \in 1 .. k - 1 : wrote[j] = frame.words[j]
    BY <1>1 DEF CableInv, Wrote
  <2>2. Len(wrote') = k /\ wrote'[k] = w /\ \A j \in 1 .. k - 1 : wrote'[j] = wrote[j]
    BY <1>1, <1>2, <2>1
  <2>3. \A f \in [1 .. Words -> Nat], c \in 1 .. Words :
          /\ [f EXCEPT ![c] = w][c] = w
          /\ \A j \in 1 .. c - 1 : [f EXCEPT ![c] = w][j] = f[j]
    <3> TAKE f \in [1 .. Words -> Nat], c \in 1 .. Words
    <3>1. \A j \in 1 .. c - 1 : j \in 1 .. Words /\ j # c
      BY <1>1
    <3> QED BY <3>1
  <2>4. frame'.words[k] = w /\ \A j \in 1 .. k - 1 : frame'.words[j] = frame.words[j]
    <3>1. PICK f \in [1 .. Words -> Nat] : f = frame.words
      BY <1>1
    <3>2. PICK c \in 1 .. Words : c = k
      BY <1>1
    <3>3. PICK g : g = [f EXCEPT ![c] = w]
      OBVIOUS
    <3>4. g[c] = w /\ \A j \in 1 .. c - 1 : g[j] = f[j]
      BY <2>3, <3>3
    <3>5. frame'.words = g
      BY <1>2, <3>1, <3>2, <3>3
    <3> QED BY <3>1, <3>2, <3>4, <3>5
  <2>5. ASSUME NEW j \in 1 .. k PROVE wrote'[j] = frame'.words[j]
    <3>1. j = k \/ j \in 1 .. k - 1
      BY <1>1
    <3> QED BY <3>1, <2>1, <2>2, <2>4
  <2> QED BY <2>2, <2>5
<1>6. Wrote'
  <2>1. CASE frame'.offset = 0
    BY <2>1 DEF Wrote, InFrame
  <2>2. CASE frame'.offset # 0
    <3>1. PICK c \in Nat : c = k
      BY <1>1
    <3>2. PICK z : z = frame'.offset
      OBVIOUS
    <3>3. z = c + 1
      BY <2>2, <1>3, <3>1, <3>2
    <3>4. z - 1 = c
      BY <3>3
    <3>5. frame'.offset - 1 = k
      BY <3>1, <3>2, <3>4
    <3> QED BY <3>5, <1>5 DEF Wrote
  <2> QED BY <2>1, <2>2
<1>7. \A i \in Others : OfPeer(i)' /\ seen'[i] \in SeenTypes /\ peer'[i] \in PeerTypes
  BY WordFollows
<1>8. seen' \in [Others -> SeenTypes] /\ peer' \in [Others -> PeerTypes]
  <2>1. seen' = [i \in Others |-> seen'[i]]
    <3> DEFINE G(i) == Noted(seen[i], peer[i], [c \in Consoles |-> WordOf(c, w)][i],
                             frame.offset >= Words)
    <3>1. seen' = [i \in Others |-> G(i)]
      BY DEF DataWord
    <3> HIDE DEF G
    <3> QED BY <3>1
  <2>2. peer' = [i \in Others |-> peer'[i]]
    BY DEF DataWord, CableInv, CableTypes
  <2> QED BY <2>1, <2>2, <1>7
<1>9. CableTypes'
  BY <1>2, <1>3, <1>4, <1>8 DEF CableInv, CableTypes, Others
<1> QED BY <1>6, <1>7, <1>9 DEF CableInv, Others

\* What a queue holds after a packet was added.
LEMMA AppendedQueue ==
  ASSUME NEW q \in Seq(Nat), NEW n \in Nat
  PROVE  /\ Append(q, n) \in Seq(Nat) /\ Range(Append(q, n)) = Range(q) \cup {n}
         /\ Len(Append(q, n)) = Len(q) + 1 /\ Append(q, n)[Len(q) + 1] = n
         /\ \A j \in 1 .. Len(q) : Append(q, n)[j] = q[j] /\ Len(q) \in Nat
<1> DEFINE r == Append(q, n)
<1>1. /\ r \in Seq(Nat) /\ Len(r) = Len(q) + 1 /\ r[Len(q) + 1] = n /\ Len(q) \in Nat
      /\ \A j \in 1 .. Len(q) : r[j] = q[j]
  OBVIOUS
<1> HIDE DEF r
<1>2. DOMAIN q = 1 .. Len(q) /\ DOMAIN r = 1 .. Len(q) + 1
  BY <1>1
<1>3. ASSUME NEW x \in Range(q) PROVE x \in Range(r)
  <2>1. PICK j \in 1 .. Len(q) : x = q[j]
    BY <1>2 DEF Range
  <2>2. j \in DOMAIN r /\ x = r[j]
    BY <1>1, <1>2, <2>1
  <2> QED BY <2>2 DEF Range
<1>4. n \in Range(r)
  <2>1. Len(q) + 1 \in DOMAIN r
    BY <1>1, <1>2
  <2> QED BY <2>1, <1>1 DEF Range
<1>5. ASSUME NEW x \in Range(r), x # n PROVE x \in Range(q)
  <2>1. PICK j \in 1 .. Len(q) + 1 : x = r[j]
    BY <1>2 DEF Range
  <2>2. j \in 1 .. Len(q)
    BY <2>1, <1>1, <1>5
  <2> QED BY <2>1, <2>2, <1>1, <1>2 DEF Range
<1>6. Range(r) = Range(q) \cup {n}
  BY <1>3, <1>4, <1>5
<1> QED BY <1>1, <1>6 DEF r

\* The numbers of a run, when one more is added.
LEMMA OneMore ==
  /\ \A l, h \in Nat : \A x \in l + 1 .. h : x \in l + 1 .. h + 1 /\ x < h + 1
  /\ \A l, h \in Nat : l <= h => h + 1 \in l + 1 .. h + 1
  /\ \A l, h \in Nat : \A x \in l + 1 .. h + 1 : x = h + 1 \/ x \in l + 1 .. h
OBVIOUS

(* A packet comes: it is the last of the queue, or lost.                      *)
LEMMA ReceiveKeeps ==
  ASSUME CableInv, NEW a \in Others, NEW s \in States, NEW data \in BOOLEAN,
         Receive(a, s, data)
  PROVE  CableInv'
<1> DEFINE q == peer[a].queue
           n == packets[a] + 1
           full == Len(q) >= QueueMax
<1>1. /\ seen[a] \in SeenTypes /\ peer[a] \in PeerTypes /\ packets[a] \in Nat /\ OfPeer(a)
      /\ q \in Seq(Nat) /\ n \in Nat /\ seen[a].n \in Nat /\ seen[a].lost \subseteq Nat
  BY DEF CableInv, CableTypes, PeerTypes, SeenTypes
<1>2. UNCHANGED <<me, state, frame, player, wrote>>
  BY DEF Receive
<1>3. ASSUME NEW i \in Others, i # a
      PROVE  peer'[i] = peer[i] /\ seen'[i] = seen[i] /\ packets'[i] = packets[i]
  BY <1>3 DEF Receive, CableInv, CableTypes
<1>4. /\ peer'[a] \in PeerTypes /\ peer'[a].recvd = peer[a].recvd
      /\ peer'[a].queue = (IF data /\ ~full THEN Append(q, n) ELSE q)
  <2>1. Append(q, n) \in Seq(Nat)
    BY <1>1
  <2>2. peer'[a] = [peer[a] EXCEPT !.state = s, !.timeout = 0,
                      !.queue = IF data /\ ~full THEN Append(q, n) ELSE q]
    BY DEF Receive, CableInv, CableTypes, PeerTypes
  <2>3. PICK z \in Seq(Nat) : z = IF data /\ ~full THEN Append(q, n) ELSE q
    BY <1>1, <2>1
  <2>4. peer'[a] = [peer[a] EXCEPT !.state = s, !.timeout = 0, !.queue = z]
    BY <2>2, <2>3
  <2>5. /\ peer'[a] \in PeerTypes /\ peer'[a].recvd = peer[a].recvd
        /\ peer'[a].queue = z
    <3>1. PICK p \in PeerTypes : p = peer[a]
      BY <1>1
    <3>2. PICK t : t = [p EXCEPT !.state = s, !.timeout = 0, !.queue = z]
      OBVIOUS
    <3>3. t \in PeerTypes /\ t.recvd = p.recvd /\ t.queue = z
      BY <3>2 DEF PeerTypes
    <3> QED BY <3>1, <3>2, <3>3, <2>4
  <2> QED BY <2>3, <2>5
<1>5. /\ seen'[a] = [seen[a] EXCEPT !.lost = IF data /\ full THEN @ \cup {n} ELSE @]
      /\ packets'[a] = (IF data THEN n ELSE packets[a])
  BY DEF Receive, CableInv, CableTypes
<1>6. /\ seen'[a] \in SeenTypes /\ packets'[a] \in Nat
      /\ seen'[a].lost = (IF data /\ full THEN seen[a].lost \cup {n} ELSE seen[a].lost)
      /\ seen'[a].shown = seen[a].shown /\ seen'[a].torn = seen[a].torn
      /\ seen'[a].packet = seen[a].packet /\ seen'[a].n = seen[a].n
      /\ seen'[a].prev = seen[a].prev
  <2>1. PICK z : z = IF data /\ full THEN seen[a].lost \cup {n} ELSE seen[a].lost
    OBVIOUS
  <2>2. z \subseteq Nat /\ seen'[a] = [seen[a] EXCEPT !.lost = z]
    BY <2>1, <1>1, <1>5
  <2>3. packets'[a] \in Nat
    BY <1>1, <1>5
  <2>4. PICK t \in SeenTypes : t = seen[a]
    BY <1>1
  <2>5. PICK u : u = [t EXCEPT !.lost = z]
    OBVIOUS
  <2>6. /\ u \in SeenTypes /\ u.lost = z /\ u.shown = t.shown /\ u.torn = t.torn
        /\ u.packet = t.packet /\ u.n = t.n /\ u.prev = t.prev
    BY <2>2, <2>5 DEF SeenTypes
  <2>7. seen'[a] = u
    BY <2>2, <2>4, <2>5
  <2> QED BY <2>1, <2>3, <2>4, <2>6, <2>7
<1>7. CableTypes'
  <2>1. /\ peer' \in [Others -> PeerTypes] /\ seen' \in [Others -> SeenTypes]
        /\ packets' \in [Others -> Nat]
    <3>1. \A i \in Others :
            peer'[i] \in PeerTypes /\ seen'[i] \in SeenTypes /\ packets'[i] \in Nat
      BY <1>3, <1>4, <1>6 DEF CableInv, CableTypes
    <3>2. /\ peer' = [i \in Others |-> peer'[i]] /\ seen' = [i \in Others |-> seen'[i]]
          /\ packets' = [i \in Others |-> packets'[i]]
      BY DEF Receive, CableInv, CableTypes
    <3> QED BY <3>1, <3>2
  <2> QED BY <2>1, <1>2 DEF CableInv, CableTypes, Others
<1>8. Wrote'
  BY <1>2 DEF CableInv, Wrote, InFrame
<1>9. InOrder(a)'
  <2> DEFINE l == seen[a].n
             h == packets[a]
  <2>0. /\ l \in Nat /\ h \in Nat /\ l <= h /\ n = h + 1
        /\ \A j \in 1 .. Len(q) : q[j] \in l + 1 .. h /\ \A k \in 1 .. j - 1 : q[k] < q[j]
        /\ \A m \in l + 1 .. h : m \in Range(q) \cup seen[a].lost
    BY <1>1 DEF OfPeer, InOrder
  <2> HIDE DEF l, h
  <2>1. CASE data /\ ~full
    <3> DEFINE r == Append(q, n)
    <3>1. peer'[a].queue = r /\ packets'[a] = n /\ seen'[a].lost = seen[a].lost /\ seen'[a].n = l
      BY <2>1, <1>4, <1>5, <1>6 DEF l
    <3>2. /\ Range(r) = Range(q) \cup {n} /\ Len(r) = Len(q) + 1 /\ r[Len(q) + 1] = n
          /\ \A j \in 1 .. Len(q) : r[j] = q[j]
      BY <1>1, AppendedQueue
    <3>3. Len(q) \in Nat
      BY <1>1
    <3> HIDE DEF r, q, n
    <3>4. ASSUME NEW j \in 1 .. Len(r)
          PROVE  r[j] \in l + 1 .. n /\ \A k \in 1 .. j - 1 : r[k] < r[j]
      <4>1. CASE j = Len(q) + 1
        <5>1. r[j] = n /\ n \in l + 1 .. n
          BY <4>1, <3>2, <2>0, OneMore
        <5>2. ASSUME NEW k \in 1 .. j - 1 PROVE r[k] < n
          <6>1. k \in 1 .. Len(q)
            BY <4>1, <3>3
          <6> QED BY <6>1, <3>2, <2>0, OneMore
        <5> QED BY <5>1, <5>2
      <4>2. CASE j # Len(q) + 1
        <5>1. j \in 1 .. Len(q) /\ \A k \in 1 .. j - 1 : k \in 1 .. Len(q)
          BY <4>2, <3>2, <3>3
        <5>2. r[j] = q[j] /\ \A k \in 1 .. j - 1 : r[k] = q[k]
          BY <5>1, <3>2
        <5>3. q[j] \in l + 1 .. n
          BY <5>1, <2>0, OneMore
        <5> QED BY <5>1, <5>2, <5>3, <2>0
      <4> QED BY <4>1, <4>2
    <3>5. \A m \in l + 1 .. n : m \in Range(r) \cup seen[a].lost
      BY <3>2, <2>0, OneMore
    <3>6. l <= n
      BY <2>0
    <3> QED BY <3>1, <3>4, <3>5, <3>6 DEF InOrder
  <2>2. CASE data /\ full
    <3>1. /\ peer'[a].queue = q /\ packets'[a] = n
          /\ seen'[a].lost = seen[a].lost \cup {n} /\ seen'[a].n = l
      BY <2>2, <1>4, <1>5, <1>6 DEF l
    <3> HIDE DEF q, n
    <3>2. \A j \in 1 .. Len(q) : q[j] \in l + 1 .. n
      BY <2>0, OneMore
    <3>3. \A m \in l + 1 .. n : m \in Range(q) \cup (seen[a].lost \cup {n})
      BY <2>0, OneMore
    <3>4. l <= n
      BY <2>0
    <3> QED BY <3>1, <3>2, <3>3, <3>4, <2>0 DEF InOrder
  <2>3. CASE ~data
    BY <2>3, <1>1, <1>4, <1>5, <1>6 DEF OfPeer, InOrder
  <2> QED BY <2>1, <2>2, <2>3
<1>10. q # <<>> => peer'[a].queue # <<>> /\ Head(peer'[a].queue) = Head(q)
  BY <1>1, <1>4
<1>11. OfPeer(a)'
  <2>1. NoneSkipped(a)'
    BY <1>1, <1>6 DEF OfPeer, NoneSkipped, SeenTypes
  <2>2. ShownWhole(a)'
    BY <1>1, <1>2, <1>6 DEF OfPeer, ShownWhole
  <2>3. ShownSoFar(a)'
    BY <1>1, <1>2, <1>4, <1>6, <1>10 DEF OfPeer, ShownSoFar, InFrame
  <2> QED BY <1>9, <2>1, <2>2, <2>3 DEF OfPeer
<1>12. ASSUME NEW i \in Others, i # a PROVE OfPeer(i)'
  <2>1. OfPeer(i) /\ peer'[i] = peer[i] /\ seen'[i] = seen[i] /\ packets'[i] = packets[i]
    BY <1>3, <1>12 DEF CableInv
  <2>2. (InOrder(i) /\ NoneSkipped(i))'
    BY <2>1 DEF OfPeer, InOrder, NoneSkipped
  <2>3. (ShownSoFar(i) /\ ShownWhole(i))'
    BY <2>1, <1>2 DEF OfPeer, ShownSoFar, ShownWhole, InFrame
  <2> QED BY <2>2, <2>3 DEF OfPeer
<1> QED BY <1>2, <1>7, <1>8, <1>11, <1>12 DEF CableInv, Others

(* A frame of the machine passes: who was silent is forgotten.                *)
LEMMA UpdateKeeps == ASSUME CableInv, FrameUpdate PROVE CableInv'
<1>1. UNCHANGED <<me, state, frame, player, wrote, packets>>
  BY DEF FrameUpdate
<1>2. ASSUME NEW i \in Others
      PROVE  /\ seen[i] \in SeenTypes /\ peer[i] \in PeerTypes /\ OfPeer(i)
             /\ seen'[i] \in SeenTypes /\ peer'[i] \in PeerTypes /\ OfPeer(i)'
  <2>1. seen[i] \in SeenTypes /\ peer[i] \in PeerTypes /\ OfPeer(i)
    BY DEF CableInv, CableTypes
  <2>2. CASE peer[i].timeout >= Silence
    <3>1. /\ peer'[i] = Unknown
          /\ seen'[i] = [Lose(seen[i], peer[i]) EXCEPT !.torn = TRUE]
      BY <2>2 DEF FrameUpdate, Forget
    <3>2. peer'[i] \in PeerTypes /\ peer'[i].queue = <<>> /\ peer'[i].recvd = FALSE
      BY <3>1 DEF Unknown, PeerTypes, States
    <3>3. PICK u \in SeenTypes :
            /\ u = Lose(seen[i], peer[i])
            /\ u = [seen[i] EXCEPT !.lost = seen[i].lost \cup Range(peer[i].queue)]
      BY <2>1, LostSeen
    <3>4. /\ seen'[i] \in SeenTypes /\ seen'[i].torn = TRUE /\ seen'[i].n = u.n
          /\ seen'[i].prev = u.prev /\ seen'[i].lost = u.lost /\ seen'[i].shown = u.shown
      <4>1. PICK v : v = [u EXCEPT !.torn = TRUE]
        OBVIOUS
      <4>2. /\ v \in SeenTypes /\ v.torn = TRUE /\ v.n = u.n /\ v.prev = u.prev
            /\ v.lost = u.lost /\ v.shown = u.shown
        BY <4>1 DEF SeenTypes
      <4> QED BY <3>1, <3>3, <4>1, <4>2
    <3>5. /\ u.n = seen[i].n /\ u.prev = seen[i].prev /\ u.shown = seen[i].shown
          /\ u.lost = seen[i].lost \cup Range(peer[i].queue)
      BY <3>3, <2>1 DEF SeenTypes
    <3>6. (InOrder(i) /\ NoneSkipped(i))'
      BY <2>1, <3>2, <3>4, <3>5, <1>1, LostInOrder DEF OfPeer
    <3>7. ShownWhole(i)' /\ ShownSoFar(i)'
      BY <2>1, <3>2, <3>4, <3>5, <1>1 DEF OfPeer, ShownWhole, ShownSoFar, InFrame
    <3> QED BY <2>1, <3>2, <3>4, <3>6, <3>7 DEF OfPeer
  <2>3. CASE ~(peer[i].timeout >= Silence)
    <3>1. /\ seen'[i] = seen[i]
          /\ peer'[i] = peer[i] \/ peer'[i] = [peer[i] EXCEPT !.timeout = @ + 1]
      BY <2>3 DEF FrameUpdate
    <3>2. /\ peer'[i] \in PeerTypes /\ peer'[i].queue = peer[i].queue
          /\ peer'[i].recvd = peer[i].recvd
      BY <2>1, <3>1 DEF PeerTypes
    <3> QED BY <2>1, <3>1, <3>2, <1>1
            DEF OfPeer, InOrder, NoneSkipped, ShownSoFar, ShownWhole, InFrame
  <2> QED BY <2>2, <2>3
<1>3. peer' \in [Others -> PeerTypes] /\ seen' \in [Others -> SeenTypes]
  <2>1. peer' = [i \in Others |-> peer'[i]] /\ seen' = [i \in Others |-> seen'[i]]
    BY DEF FrameUpdate
  <2> QED BY <2>1, <1>2
<1>4. CableTypes' /\ Wrote'
  BY <1>1, <1>3 DEF CableInv, CableTypes, Wrote, InFrame, Others
<1> QED BY <1>1, <1>2, <1>4 DEF CableInv, Others

\* Every step of the cable keeps its invariant.
LEMMA CableKept == CableInv /\ [CableNext]_cableVars => CableInv'
<1> SUFFICES ASSUME CableInv, [CableNext]_cableVars PROVE CableInv'
  OBVIOUS
<1>1. CASE Turn
  <2>1. CableTypes
    BY DEF CableInv
  <2>2. PICK w \in Nat : Idle \/ Begins \/ Restarts \/ Clocked(w)
    BY <2>1, <1>1, TurnKinds
  <2>3. /\ me' = me /\ packets' = packets
        /\ player' \in [stage : {"shake", "talk"}, frames : Nat, data : BOOLEAN]
    BY <2>1, <1>1, TurnKinds
  <2>4. ASSUME Clocked(w) PROVE CableInv'
    BY <2>3, <2>4, FrameStarts, WordKeeps DEF Clocked
  <2> QED BY <2>2, <2>3, <2>4, IdleKeeps, BeginKeeps, RestartKeeps
<1>2. CASE FrameUpdate
  BY <1>2, UpdateKeeps
<1>3. CASE StartOver
  <2>1. UNCHANGED <<me, state, peer, frame, sent, wrote, packets, seen>>
    BY <1>3 DEF StartOver
  <2>2. player' \in [stage : {"shake", "talk"}, frames : Nat, data : BOOLEAN]
    BY <1>3 DEF StartOver, CableInv, CableTypes
  <2>3. Idle
    BY <2>1 DEF Idle, CableInv, CableTypes
  <2> QED BY <2>1, <2>2, <2>3, IdleKeeps
<1>4. CASE \E i \in Others, s \in States, data \in BOOLEAN : Receive(i, s, data)
  BY <1>4, ReceiveKeeps
<1>5. CASE UNCHANGED cableVars
  <2>1. Idle /\ me' = me /\ packets' = packets /\ player' = player
    BY <1>5 DEF cableVars, Idle, CableInv, CableTypes
  <2>2. player' \in [stage : {"shake", "talk"}, frames : Nat, data : BOOLEAN]
    BY <2>1 DEF CableInv, CableTypes
  <2> QED BY <2>1, <2>2, IdleKeeps
<1> QED BY <1>1, <1>2, <1>3, <1>4, <1>5 DEF CableNext

(* What the game sees of its peers is what they sent, frame by frame, however *)
(* many peers there are and however long a frame is.                          *)
THEOREM PeersAreShown == CableSpec => []PeersShown
<1>1. CableInv => PeersShown
  <2> SUFFICES ASSUME CableInv PROVE PeersShown
    OBVIOUS
  <2>1. HeldWhileShown
    BY DEF CableInv, OfPeer, ShownSoFar, InFrame, HeldWhileShown
  <2>2. FramesWhole
    <3> SUFFICES ASSUME frame.offset = 0, NEW i \in Others,
                        Len(seen[i].shown) = Words, ~seen[i].torn
                 PROVE  /\ seen[i].shown =
                              IF seen[i].packet = <<>> THEN Zeros ELSE seen[i].packet
                        /\ seen[i].packet # <<>> =>
                             /\ seen[i].n > seen[i].prev
                             /\ seen[i].prev + 1 .. seen[i].n - 1 \subseteq seen[i].lost
      BY DEF FramesWhole
    <3>1. ShownWhole(i) /\ NoneSkipped(i)
      BY DEF CableInv, OfPeer
    <3> QED BY <3>1 DEF ShownWhole, NoneSkipped
  <2> QED BY <2>1, <2>2 DEF PeersShown
<1> QED BY <1>1, CableStart, CableKept, PTL DEF CableSpec

(* A packet sent holds the words the game wrote in that frame, and no others. *)
THEOREM SentIsWritten == CableSpec => SentWhole
<1>1. CableInv /\ [CableNext]_cableVars => (sent' \notin {sent, <<>>} => sent' = wrote')
  <2> SUFFICES ASSUME CableInv, [CableNext]_cableVars, sent' # sent, sent' # <<>>
               PROVE  sent' = wrote'
    OBVIOUS
  <2>1. Turn
    BY DEF CableNext, FrameUpdate, StartOver, Receive, cableVars
  <2>2. PICK w \in Nat : Idle \/ Begins \/ Restarts \/ Clocked(w)
    BY <2>1, TurnKinds DEF CableInv
  <2>3. Clocked(w)
    BY <2>2 DEF Idle, Begins, Restarts, NewHistory
  <2>4. frame.offset # 0 /\ DataWord(w) /\ state = "CONNECTED"
    BY <2>3 DEF Clocked, StartFrame, NewHistory
  <2> DEFINE k == frame.offset
             mine == [frame.words EXCEPT ![k] = w]
  <2>5. k = Words /\ sent' = mine /\ wrote' = Append(wrote, w)
    <3>1. k \in 0 .. Words /\ Words \in Nat
      BY CableAssumption DEF CableInv, CableTypes
    <3>2. k >= Words /\ sent' = mine /\ wrote' = Append(wrote, w)
      BY <2>4 DEF DataWord
    <3> QED BY <3>1, <3>2
  <2>6. /\ wrote \in Seq(Nat) /\ Len(wrote) = Words - 1
        /\ frame.words \in [1 .. Words -> Nat] /\ Words \in Nat \ {0}
        /\ \A j \in 1 .. Words - 1 : wrote[j] = frame.words[j]
    BY <2>4, <2>5, CableAssumption, SMTT(30) DEF CableInv, CableTypes, Wrote, InFrame
  <2> DEFINE D == 1 .. Words
  <2>7. PICK a \in [D -> Nat] : a = wrote'
    <3>1. Append(wrote, w) \in Seq(Nat) /\ Len(Append(wrote, w)) = Words
      BY <2>6
    <3>2. wrote' \in Seq(Nat) /\ Len(wrote') = Words
      BY <2>5, <3>1
    <3> QED BY <3>2
  <2>8. PICK b \in [D -> Nat] : b = mine
    BY <2>6
  <2>9. ASSUME NEW j \in D PROVE a[j] = b[j]
    <3>1. CASE j = Words
      BY <3>1, <2>5, <2>6, <2>7, <2>8
    <3>2. CASE j # Words
      BY <3>2, <2>5, <2>6, <2>7, <2>8, SMTT(30)
    <3> QED BY <3>1, <3>2
  <2> HIDE DEF D
  <2>10. a = b
    BY <2>9, SameWords
  <2> QED BY <2>5, <2>7, <2>8, <2>10
<1> QED BY <1>1, CableStart, CableKept, PTL DEF CableSpec, SentWhole

(*----------------------------- a DMA channel -----------------------------*)
(* A transfer is compared with its units one by one.  Within a region, and   *)
(* within each of its neighbours, every address is of the same kind, and no  *)
(* transfer is longer than half a region: so a side that leaves its region   *)
(* crosses one boundary, which lies between two units, and the units on      *)
(* either side of the cut agree on their region.                             *)

\* A quotient is the number it is between.
LEMMA DivIs ==
  ASSUME NEW R \in Nat \ {0}, NEW q \in Int, NEW a \in Int, q * R <= a, a < q * R + R
  PROVE  a \div R = q
OBVIOUS

\* The sizes of a channel, as the assumption on the constants gives them.
LEMMA DmaSizes ==
  /\ RegionSize \in Nat \ {0} /\ RegionSize % 4 = 0 /\ FullLength \in Nat \ {0}
  /\ 8 * FullLength <= RegionSize /\ MaxPrograms \in Nat
BY DmaAssumption

\* The entry of the region map beyond the memory.
LEMMA TopRegion == RegionMap[17] = "bus"
BY DEF RegionMap

\* Beyond the memory, on either side, lies nothing.
LEMMA Clamped ==
  ASSUME NEW a \in Int
  PROVE  RegionOf(Clamp(a)) = RegionAt(a)
<1>1. RegionSize \in Nat \ {0}
  BY DmaSizes
<1>2. (16 * RegionSize) \div RegionSize = 16
  BY <1>1, DivIs
<1> QED BY <1>1, <1>2, TopRegion DEF RegionOf, Clamp, RegionAt

\* The region an address lies in, from its first byte B, and those before and after it:
\* all of a region is of a kind.
Based(p, B) ==
  /\ B \in Int /\ B <= p /\ p < B + RegionSize /\ p % RegionSize = p - B /\ B % 4 = 0

Flat(C) ==
  \A a, b \in Int : /\ C <= a /\ a < C + RegionSize /\ C <= b /\ b < C + RegionSize
                      => RegionAt(a) = RegionAt(b)

Around(p, B) ==
  Based(p, B) /\ Flat(B) /\ Flat(B + RegionSize) /\ Flat(B - RegionSize)

\* Multiples of a multiple of four are multiples of four.
LEMMA FourTimes ==
  ASSUME NEW R \in Nat, R % 4 = 0, NEW q \in Int
  PROVE  (q * R) % 4 = 0
<1> PICK k \in Int : R = 4 * k
  OBVIOUS
<1> PICK x \in Int : x = q * k
  OBVIOUS
<1>1. q * R = 4 * x
  OBVIOUS
<1>2. (4 * x) % 4 = 0
  OBVIOUS
<1> QED BY <1>1, <1>2

\* The first bytes of the neighbours of a region.
LEMMA NextBase ==
  ASSUME NEW R \in Nat \ {0}, NEW q \in Int
  PROVE  (q + 1) * R = q * R + R /\ (q - 1) * R = q * R - R
OBVIOUS

\* Every address has its region, and that has neighbours.
LEMMA Neighbours ==
  ASSUME NEW p \in 0 .. 16 * RegionSize - 1
  PROVE  \E B : Around(p, B)
<1>1. RegionSize \in Nat \ {0} /\ RegionSize % 4 = 0
  BY DmaSizes
<1> PICK q : q = p \div RegionSize
  OBVIOUS
<1> PICK B : B = q * RegionSize
  OBVIOUS
<1>2. /\ p \in Int /\ q \in Int /\ B \in Int /\ B <= p /\ p < B + RegionSize
      /\ p % RegionSize = p - B
  BY <1>1
<1>3. B % 4 = 0
  BY <1>1, <1>2, FourTimes
<1>4. q \in 0 .. 15 /\ B <= 15 * RegionSize /\ 0 <= B
  BY <1>1, <1>2
<1>5. /\ q < 15 => B + RegionSize + RegionSize <= 16 * RegionSize
      /\ q = 15 => B + RegionSize = 16 * RegionSize
      /\ q > 0 => B - RegionSize >= 0
      /\ q = 0 => B = 0
  BY <1>1, <1>4
<1>6. ASSUME NEW a \in Int, B <= a, a < B + RegionSize
      PROVE  RegionAt(a) = RegionMap[q + 1]
  <2>1. a \div RegionSize = q
    BY <1>1, <1>2, <1>6, DivIs
  <2> QED BY <1>1, <1>4, <1>6, <2>1 DEF RegionAt, RegionOf
<1>7. ASSUME NEW a \in Int, B + RegionSize <= a, a < B + RegionSize + RegionSize
      PROVE  RegionAt(a) = IF q = 15 THEN "bus" ELSE RegionMap[q + 2]
  <2>1. a \div RegionSize = q + 1
    <3> PICK j : j = q + 1
      OBVIOUS
    <3>1. j \in Int /\ j * RegionSize <= a /\ a < j * RegionSize + RegionSize
      BY <1>1, <1>2, <1>7, NextBase
    <3> QED BY <1>1, <1>7, <3>1, DivIs
  <2> QED BY <1>1, <1>4, <1>5, <1>7, <2>1 DEF RegionAt, RegionOf
<1>8. ASSUME NEW a \in Int, B - RegionSize <= a, a < B
      PROVE  RegionAt(a) = IF q = 0 THEN "bus" ELSE RegionMap[q]
  <2>1. a \div RegionSize = q - 1
    <3> PICK j : j = q - 1
      OBVIOUS
    <3>1. j \in Int /\ j * RegionSize <= a /\ a < j * RegionSize + RegionSize
      BY <1>1, <1>2, <1>8, NextBase
    <3> QED BY <1>1, <1>8, <3>1, DivIs
  <2> QED BY <1>1, <1>4, <1>5, <1>8, <2>1 DEF RegionAt, RegionOf
<1>9. Based(p, B)
  BY <1>2, <1>3 DEF Based
<1>10. Flat(B)
  BY <1>6 DEF Flat
<1>11. Flat(B + RegionSize)
  <2> HIDE DEF RegionAt
  <2> QED BY <1>7 DEF Flat
<1>12. Flat(B - RegionSize)
  <2> SUFFICES ASSUME NEW a \in Int, NEW b \in Int, B - RegionSize <= a, a < B,
                      B - RegionSize <= b, b < B
               PROVE  RegionAt(a) = RegionAt(b)
    BY <1>1, <1>2 DEF Flat
  <2> QED BY <1>8
<1> QED BY <1>9, <1>10, <1>11, <1>12 DEF Around

Steps == {-4, -2, 0, 2, 4}

\* An end of a transfer that stays in its kind of region.
LEMMA InSide ==
  ASSUME NEW p \in 0 .. 16 * RegionSize - 1, NEW n \in 1 .. FullLength, NEW s \in Steps,
         RegionAt(p) = RegionAt(p + n * s), NEW i \in 1 .. n
  PROVE  RegionAt(p + (i - 1) * s) = RegionAt(p)
<1>1. /\ p \in Int /\ i \in Int /\ n \in Int /\ n >= 1 /\ 8 * n <= RegionSize
      /\ i >= 1 /\ i <= n
      /\ RegionSize \in Int
  BY DmaSizes
<1>2. PICK B : Around(p, B)
  BY Neighbours
<1> PICK a, e : a = p + (i - 1) * s /\ e = p + n * s
  OBVIOUS
<1>3. CASE s = 0
  BY <1>1, <1>3
<1>4. CASE s \in {2, 4}
  <2>1. a \in Int /\ e \in Int /\ p <= a /\ a < e /\ e < p + RegionSize
    BY <1>1, <1>4
  <2> QED BY <1>1, <1>2, <2>1 DEF Around, Based, Flat
<1>5. CASE s \in {-2, -4}
  <2>1. a \in Int /\ e \in Int /\ e < a /\ a <= p /\ p - RegionSize < e
    BY <1>1, <1>5
  <2> QED BY <1>1, <1>2, <2>1 DEF Around, Based, Flat
<1> QED BY <1>3, <1>4, <1>5 DEF Steps

\* Whole units make up the way to a boundary.
LEMMA WholeUnits ==
  ASSUME NEW a \in Int, NEW b \in Int, NEW u \in {2, 4}, a % u = 0, b % u = 0
  PROVE  \E m \in Int : a - b = m * u
<1>1. CASE u = 2
  <2> PICK x \in Int, y \in Int : a = 2 * x /\ b = 2 * y
    BY <1>1
  <2>1. a - b = (x - y) * 2 /\ x - y \in Int
    OBVIOUS
  <2> QED BY <1>1, <2>1
<1>2. CASE u = 4
  <2> PICK x \in Int, y \in Int : a = 4 * x /\ b = 4 * y
    BY <1>2
  <2>1. a - b = (x - y) * 4 /\ x - y \in Int
    OBVIOUS
  <2> QED BY <1>2, <2>1
<1> QED BY <1>1, <1>2

\* What a multiple of four is a multiple of.
LEMMA OfFour ==
  ASSUME NEW a \in Int, NEW u \in {2, 4}, a % 4 = 0
  PROVE  a % u = 0
OBVIOUS

Whole(a, u) == \E m \in Int : a = m * u

\* So do they the way to the end of a region.
LEMMA UnitsToEnd ==
  ASSUME NEW B \in Int, NEW R \in Int, NEW p \in Int, NEW u \in {2, 4},
         B % 4 = 0, R % 4 = 0, p % u = 0
  PROVE  Whole(B + R - p, u)
<1>1. B % u = 0 /\ R % u = 0 /\ 0 % u = 0
  BY OfFour
<1>2. \E m \in Int : B - p = m * u
  BY <1>1, WholeUnits
<1>3. \E k \in Int : R - 0 = k * u
  BY <1>1, WholeUnits
<1> PICK m \in Int, k \in Int : B - p = m * u /\ R - 0 = k * u
  BY <1>2, <1>3
<1>4. B + R - p = (m + k) * u /\ m + k \in Int
  OBVIOUS
<1> QED BY <1>4 DEF Whole

UpCut(p, n, u, m) ==
  /\ RegionSize - (p % RegionSize) = m * u
  /\ \A i \in 1 .. m : RegionAt(p + (i - 1) * u) = RegionAt(p)
  /\ \A i \in m + 1 .. n : RegionAt(p + (i - 1) * u) = RegionAt(p + m * u)

\* A transfer that goes up and leaves the region is cut at its end.
LEMMA CutUp ==
  ASSUME NEW p \in 0 .. 16 * RegionSize - 1, NEW n \in 1 .. FullLength, NEW u \in {2, 4},
         p % u = 0, RegionAt(p) # RegionAt(p + n * u)
  PROVE  \E m \in 1 .. n : UpCut(p, n, u, m)
<1>1. /\ p \in Int /\ n \in Int /\ n >= 1 /\ 8 * n <= RegionSize /\ RegionSize \in Int
      /\ RegionSize % 4 = 0 /\ RegionSize > 0
  BY DmaSizes
<1>2. PICK B : Around(p, B)
  BY Neighbours
<1>3. B \in Int /\ B <= p /\ p < B + RegionSize /\ p % RegionSize = p - B /\ B % 4 = 0
  BY <1>2 DEF Around, Based
<1>4. PICK m \in Int : B + RegionSize - p = m * u
  <2>1. B \in Int /\ RegionSize \in Int /\ p \in Int /\ p % u = 0
    BY <1>1, <1>3
  <2>2. Whole(B + RegionSize - p, u)
    BY <1>1, <1>3, <2>1, UnitsToEnd
  <2> QED BY <2>2 DEF Whole
<1>5. ~(p + n * u < B + RegionSize)
  <2> SUFFICES ASSUME p + n * u < B + RegionSize
               PROVE  RegionAt(p) = RegionAt(p + n * u)
    OBVIOUS
  <2> PICK e : e = p + n * u
    OBVIOUS
  <2>1. e \in Int /\ B <= e /\ e < B + RegionSize
    BY <1>1, <1>3
  <2> QED BY <1>1, <1>2, <1>3, <2>1 DEF Around, Flat
<1>6. m \in 1 .. n
  BY <1>1, <1>3, <1>4, <1>5
<1>7. ASSUME NEW i \in 1 .. m
      PROVE  RegionAt(p + (i - 1) * u) = RegionAt(p)
  <2> PICK a : a = p + (i - 1) * u
    OBVIOUS
  <2>1. a \in Int /\ B <= a /\ a < B + RegionSize
    BY <1>1, <1>3, <1>4, <1>6
  <2> QED BY <1>1, <1>2, <1>3, <2>1 DEF Around, Flat
<1>8. ASSUME NEW i \in m + 1 .. n
      PROVE  RegionAt(p + (i - 1) * u) = RegionAt(p + m * u)
  <2> PICK a, e : a = p + (i - 1) * u /\ e = p + m * u
    OBVIOUS
  <2>1. /\ a \in Int /\ B + RegionSize <= a /\ a < B + RegionSize + RegionSize
        /\ e = B + RegionSize
    BY <1>1, <1>3, <1>4, <1>6
  <2> QED BY <1>1, <1>2, <1>3, <2>1 DEF Around, Flat
<1>9. RegionSize - (p % RegionSize) = m * u
  BY <1>1, <1>3, <1>4
<1> QED BY <1>6, <1>7, <1>8, <1>9 DEF UpCut

DownCut(p, n, u, m) ==
  /\ p % RegionSize = m * u
  /\ RegionAt(p) = RegionAt(p - (n - 1) * u) =>
       /\ m = n - 1
       /\ \A i \in 1 .. n : RegionAt(p - (i - 1) * u) = RegionAt(p)

\* One that goes down is cut at the first byte of the region: the unit that lies there
\* goes with what lies before it, which shows unless it is the last one.
LEMMA CutDown ==
  ASSUME NEW p \in 0 .. 16 * RegionSize - 1, NEW n \in 1 .. FullLength, NEW u \in {2, 4},
         p % u = 0, RegionAt(p) # RegionAt(p - n * u)
  PROVE  \E m \in 0 .. n - 1 : DownCut(p, n, u, m)
<1>1. /\ p \in Int /\ n \in Int /\ n >= 1 /\ 8 * n <= RegionSize /\ RegionSize \in Int
      /\ RegionSize > 0
  BY DmaSizes
<1>2. PICK B : Around(p, B)
  BY Neighbours
<1>3. B \in Int /\ B <= p /\ p < B + RegionSize /\ p % RegionSize = p - B /\ B % 4 = 0
  BY <1>2 DEF Around, Based
<1>4. PICK m \in Int : p - B = m * u
  <2>1. B % u = 0
    BY <1>3, OfFour
  <2>2. \E m \in Int : p - B = m * u
    BY <1>1, <1>3, <2>1, WholeUnits
  <2> QED BY <2>2
<1>5. p - n * u < B
  <2> SUFFICES ASSUME B <= p - n * u
               PROVE  RegionAt(p) = RegionAt(p - n * u)
    BY <1>1, <1>3
  <2> PICK e : e = p - n * u
    OBVIOUS
  <2>1. e \in Int /\ B <= e /\ e < B + RegionSize
    BY <1>1, <1>3
  <2> QED BY <1>1, <1>2, <1>3, <2>1 DEF Around, Flat
<1>6. m \in 0 .. n - 1
  BY <1>1, <1>3, <1>4, <1>5
<1>7. ASSUME RegionAt(p) = RegionAt(p - (n - 1) * u)
      PROVE  m = n - 1 /\ \A i \in 1 .. n : RegionAt(p - (i - 1) * u) = RegionAt(p)
  <2>1. B <= p - (n - 1) * u
    <3> SUFFICES ASSUME p - (n - 1) * u < B
                 PROVE  RegionAt(p - (n - 1) * u) = RegionAt(p - n * u)
      BY <1>1, <1>3, <1>7
    <3> PICK a, e : a = p - (n - 1) * u /\ e = p - n * u
      OBVIOUS
    <3>1. /\ a \in Int /\ e \in Int /\ B - RegionSize <= a /\ a < B
          /\ B - RegionSize <= e /\ e < B
      BY <1>1, <1>3, <1>5
    <3>2. \A x, y \in Int : B - RegionSize <= x /\ x < B /\ B - RegionSize <= y /\ y < B
                               => RegionAt(x) = RegionAt(y)
      BY <1>1, <1>2, <1>3 DEF Around, Flat
    <3> QED BY <3>1, <3>2
  <2>2. m = n - 1
    BY <1>1, <1>3, <1>4, <1>6, <2>1
  <2>3. ASSUME NEW i \in 1 .. n
        PROVE  RegionAt(p - (i - 1) * u) = RegionAt(p)
    <3> PICK a : a = p - (i - 1) * u
      OBVIOUS
    <3>1. a \in Int /\ B <= a /\ a < B + RegionSize
      BY <1>1, <1>3, <2>1
    <3> QED BY <1>1, <1>2, <1>3, <3>1 DEF Around, Flat
  <2> QED BY <2>2, <2>3
<1>8. p % RegionSize = m * u
  BY <1>3, <1>4
<1> QED BY <1>6, <1>7, <1>8 DEF DownCut

\* A side of a transfer whose first m units lie in the region of the first, and the
\* others in that of the first of them.
Side(p, g, m, n) ==
  /\ \A i \in 1 .. m : RegionAt(p + (i - 1) * g) = RegionAt(p)
  /\ \A i \in m + 1 .. n : RegionAt(p + (i - 1) * g) = RegionAt(p + m * g)

\* The first m units of a side of n, of u bytes and s apart, reach the boundary.
SideCut(p, s, n, u, m) ==
  /\ (IF s < 0 THEN p % RegionSize ELSE RegionSize - (p % RegionSize)) = m * u
  /\ (s < 0 => RegionAt(p) = RegionAt(p - (n - 1) * u)) => Side(p, s, m, n)

\* Where the side of a transfer is cut, and that the pieces know their regions: going
\* down only if the last unit lies in the first one's.
LEMMA CutSide ==
  ASSUME NEW p \in 0 .. 16 * RegionSize - 1, NEW n \in 1 .. FullLength, NEW u \in {2, 4},
         NEW s \in {u, -u}, p % u = 0, RegionAt(p) # RegionAt(p + n * s)
  PROVE  \E m \in 0 .. n : SideCut(p, s, n, u, m)
<1>1. n \in Int /\ n >= 1
  BY DmaSizes
<1>2. CASE s = u
  <2>1. RegionAt(p) # RegionAt(p + n * u)
    BY <1>2
  <2>2. PICK m \in 1 .. n : UpCut(p, n, u, m)
    BY <2>1, CutUp
  <2>3. m \in 0 .. n /\ ~(s < 0)
    BY <1>1, <1>2
  <2> QED BY <1>2, <2>2, <2>3 DEF UpCut, SideCut, Side
<1>3. CASE s = -u
  <2>1. \A i \in Int : p + i * s = p - i * u
    BY <1>3, DmaSizes
  <2>5. RegionAt(p) # RegionAt(p - n * u)
    BY <1>1, <2>1
  <2>2. PICK m \in 0 .. n - 1 : DownCut(p, n, u, m)
    BY <2>5, CutDown
  <2>3. m \in 0 .. n /\ s < 0
    BY <1>1, <1>3
  <2>4. ASSUME RegionAt(p) = RegionAt(p - (n - 1) * u)
        PROVE  Side(p, s, m, n)
    <3>1. m = n - 1 /\ \A i \in 1 .. n : RegionAt(p - (i - 1) * u) = RegionAt(p)
      BY <2>2, <2>4 DEF DownCut
    <3>2. \A i \in 1 .. n : i - 1 \in Int /\ p + (i - 1) * s = p - (i - 1) * u
      BY <1>1, <2>1
    <3>3. \A i \in 1 .. m : i \in 1 .. n
      BY <1>1, <3>1
    <3>4. \A i \in m + 1 .. n : i - 1 = m
      BY <1>1, <3>1
    <3>5. \A i \in 1 .. m : RegionAt(p + (i - 1) * s) = RegionAt(p)
      BY <3>1, <3>2, <3>3
    <3> QED BY <3>4, <3>5 DEF Side
  <2> QED BY <2>2, <2>3, <2>4 DEF DownCut, SideCut
<1> QED BY <1>2, <1>3

(* What was moved, unit by unit. *)

\* The units that land, when the first m of them go to one region and the others to
\* another.
LEMMA TwoRuns ==
  ASSUME NEW t, NEW n \in Nat, NEW m \in 0 .. n, t.of.length = n, NEW A \in BOOLEAN,
         NEW B \in BOOLEAN,
         \A i \in 1 .. m : Writable(Unit(t, i).to) = A,
         \A i \in m + 1 .. n : Writable(Unit(t, i).to) = B,
         t.moved = (IF A THEN [i \in 1 .. m |-> Unit(t, i)] ELSE <<>>)
                   \o (IF B THEN [i \in 1 .. n - m |-> Unit(t, m + i)] ELSE <<>>)
  PROVE  UnitByUnit(t)
<1> DEFINE L(i) == Landing(t, i)
<1>1. \A i \in 1 .. n : L(i) = {j \in 1 .. i : IF j <= m THEN A ELSE B}
  BY DEF Landing
<1>2. L(n) = {j \in 1 .. n : IF j <= m THEN A ELSE B}
  BY DEF Landing
<1> HIDE DEF L
<1>3. CASE A /\ B
  <2>1. \A i \in 1 .. n : L(i) = 1 .. i
    BY <1>1, <1>3
  <2>2. L(n) = 1 .. n
    BY <1>2, <1>3
  <2>3. \A i \in 0 .. n : Cardinality(1 .. i) = i
    BY FS_Interval
  <2>4. Len(t.moved) = n /\ \A i \in 1 .. n : t.moved[i] = Unit(t, i)
    BY <1>3
  <2>5. Len(t.moved) = Cardinality(L(n))
    BY <2>2, <2>3, <2>4
  <2>6. ASSUME NEW i \in L(n)
        PROVE  t.moved[Cardinality(L(i))] = Unit(t, i)
    <3>1. i \in 1 .. n /\ L(i) = 1 .. i
      BY <2>1, <2>2
    <3>2. Cardinality(L(i)) = i
      BY <2>3, <3>1
    <3> QED BY <2>4, <3>1, <3>2
  <2> QED BY <2>5, <2>6 DEF UnitByUnit, L
<1>4. CASE A /\ ~B
  <2>1. ASSUME NEW i \in 1 .. m
        PROVE  L(i) = 1 .. i
    <3>1. i \in 1 .. n /\ \A j \in 1 .. i : j <= m
      OBVIOUS
    <3>2. L(i) = {j \in 1 .. i : IF j <= m THEN A ELSE B}
      BY <1>1, <3>1
    <3>3. {j \in 1 .. i : IF j <= m THEN A ELSE B} = {j \in 1 .. i : TRUE}
      BY <1>4, <3>1, Zenon
    <3> QED BY <3>2, <3>3
  <2>2. L(n) = 1 .. m
    BY <1>2, <1>4
  <2>3. \A i \in 0 .. n : Cardinality(1 .. i) = i
    BY FS_Interval
  <2>4. Len(t.moved) = m /\ \A i \in 1 .. m : t.moved[i] = Unit(t, i)
    BY <1>4
  <2>5. Len(t.moved) = Cardinality(L(n))
    BY <2>2, <2>3, <2>4
  <2>6. ASSUME NEW i \in L(n)
        PROVE  t.moved[Cardinality(L(i))] = Unit(t, i)
    <3>1. i \in 1 .. m /\ i \in 0 .. n
      BY <2>2
    <3>2. Cardinality(L(i)) = i
      BY <2>1, <2>3, <3>1
    <3> QED BY <2>4, <3>1, <3>2
  <2> QED BY <2>5, <2>6 DEF UnitByUnit, L
<1>5. CASE ~A /\ B
  <2>1. ASSUME NEW i \in m + 1 .. n
        PROVE  L(i) = m + 1 .. i
    <3>1. i \in 1 .. n
      OBVIOUS
    <3>2. L(i) = {j \in 1 .. i : IF j <= m THEN A ELSE B}
      BY <1>1, <3>1
    <3>3. {j \in 1 .. i : IF j <= m THEN A ELSE B} = {j \in 1 .. i : ~(j <= m)}
      BY <1>5, Zenon
    <3>4. {j \in 1 .. i : ~(j <= m)} = m + 1 .. i
      OBVIOUS
    <3> QED BY <3>2, <3>3, <3>4
  <2>2. L(n) = m + 1 .. n
    BY <1>2, <1>5
  <2>3. ASSUME NEW i \in m .. n
        PROVE  Cardinality(m + 1 .. i) = i - m
    <3>1. Cardinality(m + 1 .. i) = IF m + 1 > i THEN 0 ELSE i - (m + 1) + 1
      BY FS_Interval
    <3> QED BY <3>1
  <2>4. Len(t.moved) = n - m /\ \A i \in 1 .. n - m : t.moved[i] = Unit(t, m + i)
    BY <1>5
  <2>5. \A i \in m + 1 .. n : i - m \in 1 .. n - m /\ m + (i - m) = i
    OBVIOUS
  <2>6. \A i \in m + 1 .. n : t.moved[i - m] = Unit(t, i)
    BY <2>4, <2>5
  <2>7. Len(t.moved) = Cardinality(L(n))
    BY <2>2, <2>3, <2>4
  <2>8. ASSUME NEW i \in L(n)
        PROVE  t.moved[Cardinality(L(i))] = Unit(t, i)
    <3>1. i \in m + 1 .. n /\ i \in m .. n
      BY <2>2
    <3>2. Cardinality(L(i)) = i - m
      BY <2>1, <2>3, <3>1
    <3> QED BY <2>6, <3>1, <3>2
  <2> QED BY <2>7, <2>8 DEF UnitByUnit, L
<1>6. CASE ~A /\ ~B
  <2>1. L(n) = {}
    BY <1>2, <1>6
  <2>2. Len(t.moved) = 0
    BY <1>6
  <2> QED BY <2>1, <2>2, FS_EmptySet DEF UnitByUnit, L
<1> QED BY <1>3, <1>4, <1>5, <1>6

Dmas == [start : Starts, src : Int, dst : Int, sdir : Dirs, ddir : Dirs, wide : BOOLEAN,
         length : 0 .. FullLength, repeat : BOOLEAN]

\* How far a pointer goes with a unit.
Go(d, dir) == UnitSize(d) * Stride(dir)

\* A pointer stays, or goes up or down by a unit.
LEMMA Going ==
  ASSUME NEW d \in Dmas, NEW dir \in Dirs
  PROVE  /\ UnitSize(d) \in {2, 4} /\ Go(d, dir) \in {0, UnitSize(d), -UnitSize(d)}
         /\ Stride(dir) \in {-1, 0, 1} /\ Go(d, dir) \in Int
         /\ \A k \in Int : k * UnitSize(d) * Stride(dir) = k * Go(d, dir)
<1>1. UnitSize(d) \in {2, 4} /\ Stride(dir) \in {-1, 0, 1}
  BY DEF Dmas, UnitSize, Stride
<1>2. \A u \in {2, 4}, x \in {-1, 0, 1} :
        u * x \in {0, u, -u} /\ u * x \in Int /\ \A k \in Int : k * u * x = k * (u * x)
  OBVIOUS
<1> QED BY <1>1, <1>2 DEF Go

\* The two descriptions of a channel differ in their pointers.
Moved(d, e) ==
  /\ e \in Dmas /\ e.start = d.start /\ e.sdir = d.sdir /\ e.ddir = d.ddir
  /\ e.wide = d.wide /\ e.length = d.length /\ e.repeat = d.repeat

\* What Left leaves of a channel: its pointers have moved, and nothing else.
LEMMA LeftIs ==
  ASSUME NEW d \in Dmas, NEW a \in Int, NEW b \in Int, NEW k \in Int
  PROVE  /\ Moved(d, Left(d, a, b, k))
         /\ Left(d, a, b, k).src = a + k * Go(d, d.sdir)
         /\ Left(d, a, b, k).dst = IF d.ddir = "reload" THEN d.dst ELSE b + k * Go(d, d.ddir)
<1>1. d.sdir \in Dirs /\ d.ddir \in Dirs
  BY DEF Dmas
<1>2. PICK x, y : x = a + k * Go(d, d.sdir) /\ y = b + k * Go(d, d.ddir)
  OBVIOUS
<1>3. x \in Int /\ y \in Int
  BY <1>1, <1>2, Going
<1>4. Left(d, a, b, k) =
        [d EXCEPT !.src = x, !.dst = IF d.ddir = "reload" THEN d.dst ELSE y]
  BY <1>1, <1>2, Going DEF Left
<1> QED BY <1>2, <1>3, <1>4 DEF Dmas, Moved

\* Pointers do not change how far a pointer goes.
LEMMA SameGo ==
  ASSUME NEW d, NEW e, Moved(d, e)
  PROVE  UnitSize(e) = UnitSize(d) /\ \A dir : Go(e, dir) = Go(d, dir)
BY DEF Moved, UnitSize, Go

\* The units of a piece that is copied from the region of a to the region of b.
Piece(d, a, b, k) ==
  [i \in 1 .. k |-> [src |-> a + (i - 1) * Go(d, d.sdir), from |-> RegionAt(a),
                     dst |-> b + (i - 1) * Go(d, d.ddir), to |-> RegionAt(b)]]

Copied(d, a, b, k) == IF Writable(RegionAt(b)) THEN Piece(d, a, b, k) ELSE <<>>

\* A piece is copied whole, or, to a region that cannot be written, not at all.
LEMMA OneCopy ==
  ASSUME NEW s, NEW a, NEW b, NEW k, s.dma.sdir # "reload"
  PROVE  Copy(s, a, b, k) = IF Writable(RegionAt(b))
                            THEN [dma |-> Left(s.dma, a, b, k),
                                  moved |-> s.moved \o Piece(s.dma, a, b, k)]
                            ELSE s
BY Zenon DEF Copy, Piece, Go, RegionAt

\* How many units a piece adds.
LEMMA PieceLen ==
  ASSUME NEW d, NEW a, NEW b, NEW k \in Nat
  PROVE  /\ Len(Copied(d, a, b, k)) = IF Writable(RegionAt(b)) THEN k ELSE 0
         /\ Copied(d, a, b, k) \o <<>> = Copied(d, a, b, k)
         /\ <<>> \o Copied(d, a, b, k) = Copied(d, a, b, k)
         /\ \E S : Copied(d, a, b, k) \in Seq(S)
<1> DEFINE f(i) == [src |-> a + (i - 1) * Go(d, d.sdir), from |-> RegionAt(a),
                    dst |-> b + (i - 1) * Go(d, d.ddir), to |-> RegionAt(b)]
<1> DEFINE S == {f(i) : i \in 1 .. k}
<1> DEFINE P == [i \in 1 .. k |-> f(i)]
<1>1. Piece(d, a, b, k) = P
  BY DEF Piece
<1>2. \A i \in 1 .. k : f(i) \in S
  OBVIOUS
<1> HIDE DEF f, S
<1>3. P \in Seq(S) /\ Len(P) = k
  BY <1>2
<1>4. P \o <<>> = P /\ <<>> \o P = P
  BY <1>3, ConcatEmptySeq
<1>5. <<>> \in Seq(S) /\ Len(<<>>) = 0 /\ <<>> \o <<>> = <<>>
  BY ConcatEmptySeq
<1> HIDE DEF P
<1> QED BY <1>1, <1>3, <1>4, <1>5 DEF Copied

\* What one piece leaves.
CopyLeaves(d, mv, a, b, k, e) ==
  /\ Copy([dma |-> d, moved |-> mv], a, b, k) =
       [dma |-> e, moved |-> mv \o Copied(d, a, b, k)]
  /\ Moved(d, e)
  /\ IF Writable(RegionAt(b))
     THEN /\ e.src = a + k * Go(d, d.sdir)
          /\ e.dst = IF d.ddir = "reload" THEN d.dst ELSE b + k * Go(d, d.ddir)
     ELSE e = d

\* A piece leaves a channel.
LEMMA CopyStep ==
  ASSUME NEW d \in Dmas, NEW mv, NEW a \in Int, NEW b \in Int, NEW k \in Nat,
         d.sdir # "reload", mv \o <<>> = mv
  PROVE  \E e \in Dmas : CopyLeaves(d, mv, a, b, k, e)
<1> DEFINE s0 == [dma |-> d, moved |-> mv]
<1>1. s0.dma = d /\ s0.moved = mv
  OBVIOUS
<1> HIDE DEF s0
<1>2. Copy(s0, a, b, k) = IF Writable(RegionAt(b))
                          THEN [dma |-> Left(d, a, b, k), moved |-> mv \o Piece(d, a, b, k)]
                          ELSE s0
  BY <1>1, OneCopy
<1>3. CASE Writable(RegionAt(b))
  <2>1. Copy(s0, a, b, k) = [dma |-> Left(d, a, b, k), moved |-> mv \o Copied(d, a, b, k)]
    BY <1>2, <1>3 DEF Copied
  <2>2. Left(d, a, b, k) \in Dmas /\ Moved(d, Left(d, a, b, k))
    BY LeftIs DEF Moved
  <2>3. CopyLeaves(d, mv, a, b, k, Left(d, a, b, k))
    <3>1. /\ Left(d, a, b, k).src = a + k * Go(d, d.sdir)
          /\ Left(d, a, b, k).dst =
               IF d.ddir = "reload" THEN d.dst ELSE b + k * Go(d, d.ddir)
      BY LeftIs
    <3> QED BY <1>3, <2>1, <2>2, <3>1, Zenon DEF s0, CopyLeaves
  <2> QED BY <2>2, <2>3
<1>4. CASE ~Writable(RegionAt(b))
  <2>1. Copy(s0, a, b, k) = [dma |-> d, moved |-> mv \o Copied(d, a, b, k)]
    BY <1>2, <1>4 DEF Copied, s0
  <2>2. Moved(d, d)
    BY DEF Moved
  <2>3. CopyLeaves(d, mv, a, b, k, d)
    BY <1>4, <2>1, <2>2 DEF s0, CopyLeaves
  <2> QED BY <2>3
<1> QED BY <1>3, <1>4

\* What two leave: if every unit has landed, the pointers are at the end.
CutInTwo(d, a, b, m, k) ==
  Copy(Copy([dma |-> d, moved |-> <<>>], a, b, m),
       a + m * Go(d, d.sdir), b + m * Go(d, d.ddir), k)

BothCopied(d, a, b, m, k) ==
  Copied(d, a, b, m) \o Copied(d, a + m * Go(d, d.sdir), b + m * Go(d, d.ddir), k)

CutLeavesIt(d, a, b, m, k, e) ==
  /\ CutInTwo(d, a, b, m, k) = [dma |-> e, moved |-> BothCopied(d, a, b, m, k)]
  /\ Moved(d, e)
  /\ Len(BothCopied(d, a, b, m, k)) = m + k =>
       /\ e.src = a + (m + k) * Go(d, d.sdir)
       /\ e.dst = IF d.ddir = "reload" THEN d.dst ELSE b + (m + k) * Go(d, d.ddir)

\* Two pieces do.
LEMMA CutLeaves ==
  ASSUME NEW d \in Dmas, d.sdir # "reload", NEW a \in Int, NEW b \in Int, NEW m \in Nat,
         NEW k \in Nat, m + k > 0
  PROVE  \E e \in Dmas : CutLeavesIt(d, a, b, m, k, e)
<1>1. d.sdir \in Dirs /\ d.ddir \in Dirs
  BY DEF Dmas
<1> DEFINE gs == Go(d, d.sdir)
           gd == Go(d, d.ddir)
           a2 == a + m * gs
           b2 == b + m * gd
           P1 == Copied(d, a, b, m)
           P2 == Copied(d, a2, b2, k)
<1>2. gs \in Int /\ gd \in Int
  BY <1>1, Going
<1> HIDE DEF gs, gd
<1>3. a2 \in Int /\ b2 \in Int
  BY <1>2
<1>a. /\ a2 + k * gs = a + (m + k) * gs /\ b2 + k * gd = b + (m + k) * gd
      /\ k = 0 => a2 = a + (m + k) * gs /\ b2 = b + (m + k) * gd
      /\ m = 0 => a2 = a /\ b2 = b
  BY <1>2
<1> HIDE DEF a2, b2
<1>4. PICK e1 \in Dmas : CopyLeaves(d, <<>>, a, b, m, e1)
  <2>1. <<>> \o <<>> = <<>>
    BY ConcatEmptySeq
  <2> QED BY <2>1, CopyStep
<1>11. /\ Copy([dma |-> d, moved |-> <<>>], a, b, m) = [dma |-> e1, moved |-> <<>> \o P1]
       /\ Moved(d, e1)
       /\ IF Writable(RegionAt(b))
          THEN /\ e1.src = a2
               /\ e1.dst = IF d.ddir = "reload" THEN d.dst ELSE b2
          ELSE e1 = d
  BY <1>4 DEF CopyLeaves, gs, gd, a2, b2
<1>5. P1 \o <<>> = P1 /\ <<>> \o P1 = P1
  BY PieceLen
<1>6. e1.sdir = d.sdir /\ e1.ddir = d.ddir /\ Go(e1, e1.sdir) = gs /\ Go(e1, e1.ddir) = gd
  BY <1>11, SameGo DEF Moved, gs, gd
<1>7. Copied(e1, a2, b2, k) = P2
  BY <1>6 DEF Copied, Piece, gs, gd
<1> HIDE DEF P1, P2
<1>8. PICK e \in Dmas : CopyLeaves(e1, P1, a2, b2, k, e)
  <2>1. e1.sdir # "reload"
    BY <1>6
  <2> QED BY <1>3, <1>5, <2>1, CopyStep
<1>12. /\ Copy([dma |-> e1, moved |-> P1], a2, b2, k) = [dma |-> e, moved |-> P1 \o P2]
       /\ Moved(e1, e)
       /\ IF Writable(RegionAt(b2))
          THEN /\ e.src = a2 + k * gs
               /\ e.dst = IF e1.ddir = "reload" THEN e1.dst ELSE b2 + k * gd
          ELSE e = e1
  BY <1>6, <1>7, <1>8 DEF CopyLeaves
<1>9. Moved(d, e)
  BY <1>11, <1>12 DEF Moved
<1>10. ASSUME Len(P1 \o P2) = m + k
       PROVE  /\ e.src = a + (m + k) * gs
              /\ e.dst = IF d.ddir = "reload" THEN d.dst ELSE b + (m + k) * gd
  <2>1. /\ Len(P1) = IF Writable(RegionAt(b)) THEN m ELSE 0
        /\ Len(P2) = IF Writable(RegionAt(b2)) THEN k ELSE 0
    BY PieceLen DEF P1, P2
  <2>2. Len(P1 \o P2) = Len(P1) + Len(P2)
    <3>1. (\E S : P1 \in Seq(S)) /\ (\E S : P2 \in Seq(S))
      BY PieceLen DEF P1, P2
    <3> PICK S1, S2 : P1 \in Seq(S1) /\ P2 \in Seq(S2)
      BY <3>1
    <3>2. P1 \in Seq(S1 \cup S2) /\ P2 \in Seq(S1 \cup S2)
      OBVIOUS
    <3> QED BY <3>2
  <2>3. CASE Writable(RegionAt(b2)) /\ Writable(RegionAt(b))
    BY <1>11, <1>6, <1>12, <1>a, <2>3
  <2>4. CASE Writable(RegionAt(b2)) /\ ~Writable(RegionAt(b))
    <3>1. m = 0
      BY <1>10, <2>1, <2>2, <2>4
    <3> QED BY <1>11, <1>6, <1>12, <1>a, <2>4, <3>1
  <2>5. CASE ~Writable(RegionAt(b2))
    <3>1. k = 0 /\ Writable(RegionAt(b))
      BY <1>10, <2>1, <2>2, <2>5
    <3> QED BY <1>11, <1>6, <1>12, <1>a, <2>5, <3>1
  <2> QED BY <2>3, <2>4, <2>5
<1> QED
  <2>1. Copy(Copy([dma |-> d, moved |-> <<>>], a, b, m), a2, b2, k)
          = [dma |-> e, moved |-> P1 \o P2]
    BY <1>5, <1>11, <1>12
  <2> QED BY <1>9, <1>10, <2>1 DEF P1, P2, a2, b2, gs, gd, CutLeavesIt, CutInTwo, BothCopied

\* The unit i of a transfer, from how far its pointers go.
LEMMA UnitIs ==
  ASSUME NEW t, t.of \in Dmas, NEW i \in Int, NEW a, NEW b,
         a = t.src + (i - 1) * Go(t.of, t.of.sdir), b = t.dst + (i - 1) * Go(t.of, t.of.ddir)
  PROVE  Unit(t, i) = [src |-> a, from |-> RegionAt(a), dst |-> b, to |-> RegionAt(b)]
<1>1. t.of.sdir \in Dirs /\ t.of.ddir \in Dirs /\ i - 1 \in Int
  BY DEF Dmas
<1>2. /\ (i - 1) * UnitSize(t.of) * Stride(t.of.sdir) = (i - 1) * Go(t.of, t.of.sdir)
      /\ (i - 1) * UnitSize(t.of) * Stride(t.of.ddir) = (i - 1) * Go(t.of, t.of.ddir)
  BY <1>1, Going
<1> QED BY <1>2, Zenon DEF Unit

\* Two pieces that know their regions move the units one transfer would.
LEMMA SidesRight ==
  ASSUME NEW t, t.of \in Dmas, t.src \in Int, t.dst \in Int, NEW m \in 0 .. t.of.length,
         Side(t.src, Go(t.of, t.of.sdir), m, t.of.length),
         Side(t.dst, Go(t.of, t.of.ddir), m, t.of.length),
         t.moved = Copied(t.of, t.src, t.dst, m)
                   \o Copied(t.of, t.src + m * Go(t.of, t.of.sdir),
                             t.dst + m * Go(t.of, t.of.ddir), t.of.length - m)
  PROVE  UnitByUnit(t)
<1> DEFINE d == t.of
           n == t.of.length
           gs == Go(d, d.sdir)
           gd == Go(d, d.ddir)
           a == t.src
           b == t.dst
           A == Writable(RegionAt(b))
           B == Writable(RegionAt(b + m * gd))
<1>1. gs \in Int /\ gd \in Int /\ n \in Nat /\ a \in Int /\ b \in Int /\ m \in Int
  BY Going, DmaSizes DEF Dmas
<1>2. Side(a, gs, m, n) /\ Side(b, gd, m, n)
  OBVIOUS
<1>3. \A i \in Int :
        Unit(t, i) = [src |-> a + (i - 1) * gs, from |-> RegionAt(a + (i - 1) * gs),
                      dst |-> b + (i - 1) * gd, to |-> RegionAt(b + (i - 1) * gd)]
  BY UnitIs
<1>4. t.moved = Copied(d, a, b, m) \o Copied(d, a + m * gs, b + m * gd, n - m)
  OBVIOUS
<1>5. /\ \A k : Piece(d, a, b, k) =
             [i \in 1 .. k |-> [src |-> a + (i - 1) * gs, from |-> RegionAt(a),
                                dst |-> b + (i - 1) * gd, to |-> RegionAt(b)]]
      /\ \A k : Piece(d, a + m * gs, b + m * gd, k) =
             [i \in 1 .. k |->
               [src |-> a + m * gs + (i - 1) * gs, from |-> RegionAt(a + m * gs),
                dst |-> b + m * gd + (i - 1) * gd, to |-> RegionAt(b + m * gd)]]
  BY DEF Piece
<1> HIDE DEF d, n, gs, gd, a, b
<1>6. Piece(d, a, b, m) = [i \in 1 .. m |-> Unit(t, i)]
  <2>1. ASSUME NEW i \in 1 .. m
        PROVE  [src |-> a + (i - 1) * gs, from |-> RegionAt(a),
                dst |-> b + (i - 1) * gd, to |-> RegionAt(b)] = Unit(t, i)
    <3>1. /\ RegionAt(a + (i - 1) * gs) = RegionAt(a)
          /\ RegionAt(b + (i - 1) * gd) = RegionAt(b)
      BY <1>2, Zenon DEF Side
    <3>2. i \in Int
      BY <1>1
    <3> QED BY <1>3, <3>1, <3>2, Zenon
  <2>2. Piece(d, a, b, m) =
          [i \in 1 .. m |-> [src |-> a + (i - 1) * gs, from |-> RegionAt(a),
                             dst |-> b + (i - 1) * gd, to |-> RegionAt(b)]]
    BY <1>5, Zenon
  <2> QED BY <2>1, <2>2, Zenon
<1>7. Piece(d, a + m * gs, b + m * gd, n - m) = [i \in 1 .. n - m |-> Unit(t, m + i)]
  <2>1. ASSUME NEW i \in 1 .. n - m
        PROVE  [src |-> a + m * gs + (i - 1) * gs, from |-> RegionAt(a + m * gs),
                dst |-> b + m * gd + (i - 1) * gd, to |-> RegionAt(b + m * gd)]
                 = Unit(t, m + i)
    <3>1. m + i \in Int /\ m + i \in m + 1 .. n
      BY <1>1
    <3>2. /\ a + (m + i - 1) * gs = a + m * gs + (i - 1) * gs
          /\ b + (m + i - 1) * gd = b + m * gd + (i - 1) * gd
      BY <1>1
    <3>3. /\ RegionAt(a + (m + i - 1) * gs) = RegionAt(a + m * gs)
          /\ RegionAt(b + (m + i - 1) * gd) = RegionAt(b + m * gd)
      BY <1>2, <3>1 DEF Side
    <3> QED BY <1>3, <3>1, <3>2, <3>3
  <2>2. Piece(d, a + m * gs, b + m * gd, n - m) =
          [i \in 1 .. n - m |->
            [src |-> a + m * gs + (i - 1) * gs, from |-> RegionAt(a + m * gs),
             dst |-> b + m * gd + (i - 1) * gd, to |-> RegionAt(b + m * gd)]]
    BY <1>5, Zenon
  <2> QED BY <2>1, <2>2, Zenon
<1>8. t.moved = (IF A THEN [i \in 1 .. m |-> Unit(t, i)] ELSE <<>>)
                \o (IF B THEN [i \in 1 .. n - m |-> Unit(t, m + i)] ELSE <<>>)
  BY <1>4, <1>6, <1>7, Zenon DEF Copied
<1>9. /\ \A i \in 1 .. m : Writable(Unit(t, i).to) = A
      /\ \A i \in m + 1 .. n : Writable(Unit(t, i).to) = B
  <2>1. \A i \in 1 .. m : Unit(t, i).to = RegionAt(b)
    BY <1>2, <1>3 DEF Side
  <2>2. ASSUME NEW i \in m + 1 .. n
        PROVE  Unit(t, i).to = RegionAt(b + m * gd)
    <3>1. i \in Int
      BY <1>1
    <3> QED BY <1>2, <1>3, <3>1 DEF Side
  <2> QED BY <2>1, <2>2
<1>10. A \in BOOLEAN /\ B \in BOOLEAN
  BY DEF Writable
<1>11. n = t.of.length /\ m \in 0 .. n
  BY DEF n
<1> QED BY <1>1, <1>8, <1>9, <1>10, <1>11, TwoRuns

Memory == 0 .. 16 * RegionSize - 1

\* A side that ends in its region can be cut anywhere.
LEMMA StaySide ==
  ASSUME NEW p \in Memory, NEW n \in 1 .. FullLength, NEW u \in {2, 4}, NEW g \in {0, u, -u},
         RegionAt(p) = RegionAt(p + n * g), NEW m \in 0 .. n
  PROVE  Side(p, g, m, n)
<1>1. g \in Steps /\ n \in Int /\ m \in Int
  BY DmaSizes DEF Steps
<1>2. \A i \in 1 .. n : RegionAt(p + (i - 1) * g) = RegionAt(p)
  BY <1>1, InSide DEF Memory
<1>3. \A i \in 1 .. m : i \in 1 .. n
  BY <1>1
<1>4. ASSUME NEW i \in m + 1 .. n
      PROVE  RegionAt(p + (i - 1) * g) = RegionAt(p + m * g)
  <2>1. i \in 1 .. n /\ m + 1 \in 1 .. n /\ (m + 1) - 1 = m
    BY <1>1
  <2>2. RegionAt(p + ((m + 1) - 1) * g) = RegionAt(p)
    BY <1>2, <2>1
  <2> QED BY <1>2, <2>1, <2>2
<1> QED BY <1>2, <1>3, <1>4 DEF Side

\* One that leaves its region is cut at the boundary, between two units.
LEMMA CrossSide ==
  ASSUME NEW d \in Dmas, d.length \in 1 .. FullLength, NEW dir \in Dirs, NEW p \in Memory,
         p % UnitSize(d) = 0, RegionAt(p) # RegionAt(p + d.length * Go(d, dir))
  PROVE  \E m \in 0 .. d.length :
           /\ ToBoundary(p, dir) = m * UnitSize(d)
           /\ (dir = "decrement" =>
                 RegionAt(p) = RegionAt(p - (d.length - 1) * UnitSize(d))) =>
                Side(p, Go(d, dir), m, d.length)
<1> DEFINE u == UnitSize(d)
           g == Go(d, dir)
           n == d.length
<1>1. u \in {2, 4} /\ g \in {0, u, -u} /\ g \in Int /\ n \in Int /\ p \in Int
  BY Going, DmaSizes DEF Memory
<1>2. dir = "decrement" <=> g < 0
  BY <1>1 DEF Go, Stride, Dirs
<1>3. n \in 1 .. FullLength /\ p % u = 0 /\ RegionAt(p) # RegionAt(p + n * g)
  OBVIOUS
<1> HIDE DEF u, g, n
<1>4. g \in {u, -u}
  <2> SUFFICES ASSUME g = 0
               PROVE  FALSE
    BY <1>1
  <2>1. p + n * g = p
    BY <1>1
  <2> QED BY <1>3, <2>1
<1>5. PICK m \in 0 .. n : SideCut(p, g, n, u, m)
  BY <1>1, <1>3, <1>4, CutSide DEF Memory
<1>6. ToBoundary(p, dir) = m * u
  BY <1>2, <1>5 DEF ToBoundary, SideCut
<1>7. (dir = "decrement" => RegionAt(p) = RegionAt(p - (n - 1) * u)) => Side(p, g, m, n)
  BY <1>2, <1>5 DEF SideCut
<1> QED BY <1>6, <1>7 DEF u, g, n

\* Where a side ends.
LEMMA EndIs ==
  ASSUME NEW d \in Dmas, NEW dir \in Dirs, NEW p \in Memory
  PROVE  /\ RegionOf(p) = RegionAt(p)
         /\ RegionOf(Clamp(p + d.length * UnitSize(d) * Stride(dir)))
              = RegionAt(p + d.length * Go(d, dir))
<1>1. d.length \in Int /\ p \in Int /\ p >= 0 /\ p < 16 * RegionSize
  BY DmaSizes DEF Dmas, Memory
<1>2. d.length * UnitSize(d) * Stride(dir) = d.length * Go(d, dir)
  BY <1>1, Going
<1>3. d.length * Go(d, dir) \in Int
  BY <1>1, Going
<1>4. RegionOf(Clamp(p + d.length * Go(d, dir))) = RegionAt(p + d.length * Go(d, dir))
  BY <1>1, <1>3, Clamped
<1>5. ~(p < 0 \/ p >= 16 * RegionSize)
  BY <1>1, DmaSizes
<1>6. RegionOf(p) = RegionAt(p)
  BY <1>5 DEF RegionAt
<1> QED BY <1>2, <1>4, <1>6

\* Bytes and units.
LEMMA UnitBytes ==
  ASSUME NEW n \in Int, NEW m \in Int, NEW u \in {2, 4}
  PROVE  (m * u) \div u = m /\ (n * u - m * u) \div u = n - m
<1>1. CASE u = 2
  BY <1>1
<1>2. CASE u = 4
  BY <1>2
<1> QED BY <1>1, <1>2

\* A transfer that leaves e, moved what it should and stopped where it should.
Moves(d, src, dst, r, e) ==
  LET t == [of |-> d, src |-> src, dst |-> dst, moved |-> r.moved]
      go(dir) == d.length * UnitSize(d) * Stride(dir)
  IN /\ r.dma = e /\ Moved(d, e)
     /\ Regular(t) => UnitByUnit(t)
     /\ Len(r.moved) = d.length =>
          /\ e.src = src + go(d.sdir)
          /\ e.dst = IF d.ddir = "reload" THEN d.dst ELSE dst + go(d.ddir)

\* One that moves nothing, though it should have.
LEMMA MovesNothing ==
  ASSUME NEW d \in Dmas, d.length \in 1 .. FullLength, NEW src \in Memory, NEW dst \in Memory,
         ~Regular([of |-> d, src |-> src, dst |-> dst, moved |-> <<>>])
  PROVE  Moves(d, src, dst, [dma |-> d, moved |-> <<>>], d)
<1>1. d.length # 0
  BY DmaSizes
<1>2. Moved(d, d)
  BY DEF Moved
<1>3. Len(<<>>) = 0
  OBVIOUS
<1>4. [dma |-> d, moved |-> <<>>].dma = d /\ [dma |-> d, moved |-> <<>>].moved = <<>>
  OBVIOUS
<1> QED BY <1>1, <1>2, <1>3, <1>4, Zenon DEF Moves

\* One that is cut in two at the unit m, where both sides may be cut.
LEMMA MovesCut ==
  ASSUME NEW d \in Dmas, d.length \in 1 .. FullLength, d.sdir # "reload",
         NEW src \in Memory, NEW dst \in Memory, NEW m \in 0 .. d.length, NEW r,
         r = CutInTwo(d, src, dst, m, d.length - m),
         Regular([of |-> d, src |-> src, dst |-> dst, moved |-> r.moved]) =>
           /\ Side(src, Go(d, d.sdir), m, d.length)
           /\ Side(dst, Go(d, d.ddir), m, d.length)
  PROVE  \E e \in Dmas : Moves(d, src, dst, r, e)
<1> DEFINE n == d.length
           gs == Go(d, d.sdir)
           gd == Go(d, d.ddir)
           P == BothCopied(d, src, dst, m, n - m)
           t == [of |-> d, src |-> src, dst |-> dst, moved |-> P]
<1>1. /\ src \in Int /\ dst \in Int /\ n \in Nat /\ n > 0 /\ m \in Nat /\ n - m \in Nat
      /\ m + (n - m) = n /\ d.sdir \in Dirs /\ d.ddir \in Dirs
  BY DmaSizes DEF Memory, Dmas
<1>2. PICK e \in Dmas :
        /\ r = [dma |-> e, moved |-> P]
        /\ Moved(d, e)
        /\ Len(P) = n => /\ e.src = src + n * gs
                         /\ e.dst = IF d.ddir = "reload" THEN d.dst ELSE dst + n * gd
  <2>1. PICK e \in Dmas : CutLeavesIt(d, src, dst, m, n - m, e)
    BY <1>1, CutLeaves
  <2> QED BY <1>1, <2>1 DEF CutLeavesIt
<1>3. /\ d.length * UnitSize(d) * Stride(d.sdir) = n * gs
      /\ d.length * UnitSize(d) * Stride(d.ddir) = n * gd
  <2>1. d.length \in Int
    BY <1>1
  <2>2. d.length * UnitSize(d) * Stride(d.sdir) = d.length * Go(d, d.sdir)
    BY <1>1, <2>1, Going
  <2>3. d.length * UnitSize(d) * Stride(d.ddir) = d.length * Go(d, d.ddir)
    BY <1>1, <2>1, Going
  <2> QED BY <2>2, <2>3
<1>4. r.moved = P /\ r.dma = e
  BY <1>2
<1>5. Regular(t) => UnitByUnit(t)
  <2> SUFFICES ASSUME Regular(t)
               PROVE  UnitByUnit(t)
    OBVIOUS
  <2>1. Side(src, gs, m, n) /\ Side(dst, gd, m, n)
    BY <1>4
  <2>2. t.of = d /\ t.src = src /\ t.dst = dst /\ t.moved = P
    OBVIOUS
  <2> HIDE DEF t
  <2>3. /\ t.of \in Dmas /\ t.src \in Int /\ t.dst \in Int /\ m \in 0 .. t.of.length
        /\ Side(t.src, Go(t.of, t.of.sdir), m, t.of.length)
        /\ Side(t.dst, Go(t.of, t.of.ddir), m, t.of.length)
        /\ t.moved = Copied(t.of, t.src, t.dst, m)
                     \o Copied(t.of, t.src + m * Go(t.of, t.of.sdir),
                               t.dst + m * Go(t.of, t.of.ddir), t.of.length - m)
    BY <1>1, <2>1, <2>2 DEF BothCopied
  <2> QED BY <2>3, SidesRight
<1>6. Moves(d, src, dst, r, e)
  <2> HIDE DEF P
  <2> QED BY <1>2, <1>3, <1>4, <1>5, Zenon DEF Moves
<1> QED BY <1>6

\* One that is not cut.
LEMMA MovesWhole ==
  ASSUME NEW d \in Dmas, d.length \in 1 .. FullLength, d.sdir # "reload",
         NEW src \in Memory, NEW dst \in Memory, NEW r,
         r = Copy([dma |-> d, moved |-> <<>>], src, dst, d.length),
         Side(src, Go(d, d.sdir), d.length, d.length),
         Side(dst, Go(d, d.ddir), d.length, d.length)
  PROVE  \E e \in Dmas : Moves(d, src, dst, r, e)
<1> DEFINE n == d.length
           gs == Go(d, d.sdir)
           gd == Go(d, d.ddir)
           P == Copied(d, src, dst, n)
           t == [of |-> d, src |-> src, dst |-> dst, moved |-> P]
<1>1. /\ src \in Int /\ dst \in Int /\ n \in Nat /\ n > 0 /\ n - n = 0
      /\ d.sdir \in Dirs /\ d.ddir \in Dirs /\ n \in 0 .. n
  BY DmaSizes DEF Memory, Dmas
<1>2. P \o <<>> = P /\ <<>> \o P = P /\ Len(P) = IF Writable(RegionAt(dst)) THEN n ELSE 0
  BY <1>1, PieceLen
<1>3. PICK e \in Dmas : CopyLeaves(d, <<>>, src, dst, n, e)
  <2>1. <<>> \o <<>> = <<>>
    BY ConcatEmptySeq
  <2> QED BY <1>1, <2>1, CopyStep
<1>4. /\ r = [dma |-> e, moved |-> P] /\ Moved(d, e)
      /\ Len(P) = n => /\ e.src = src + n * gs
                       /\ e.dst = IF d.ddir = "reload" THEN d.dst ELSE dst + n * gd
  BY <1>1, <1>2, <1>3 DEF CopyLeaves
<1>5. /\ d.length * UnitSize(d) * Stride(d.sdir) = n * gs
      /\ d.length * UnitSize(d) * Stride(d.ddir) = n * gd
  <2>1. d.length \in Int
    BY <1>1
  <2>2. d.length * UnitSize(d) * Stride(d.sdir) = d.length * Go(d, d.sdir)
    BY <1>1, <2>1, Going
  <2>3. d.length * UnitSize(d) * Stride(d.ddir) = d.length * Go(d, d.ddir)
    BY <1>1, <2>1, Going
  <2> QED BY <2>2, <2>3
<1>6. r.moved = P /\ r.dma = e
  BY <1>4
<1>7. UnitByUnit(t)
  <2>1. \A a, b : Copied(d, a, b, 0) = <<>>
    BY DEF Copied, Piece
  <2>2. P = Copied(d, src, dst, n) \o Copied(d, src + n * gs, dst + n * gd, n - n)
    BY <1>1, <1>2, <2>1
  <2>3. t.of = d /\ t.src = src /\ t.dst = dst /\ t.moved = P
    OBVIOUS
  <2> HIDE DEF t, P
  <2>4. /\ t.of \in Dmas /\ t.src \in Int /\ t.dst \in Int /\ n \in 0 .. t.of.length
        /\ Side(t.src, Go(t.of, t.of.sdir), n, t.of.length)
        /\ Side(t.dst, Go(t.of, t.of.ddir), n, t.of.length)
        /\ t.moved = Copied(t.of, t.src, t.dst, n)
                     \o Copied(t.of, t.src + n * Go(t.of, t.of.sdir),
                               t.dst + n * Go(t.of, t.of.ddir), t.of.length - n)
    BY <1>1, <2>2, <2>3
  <2> QED BY <2>4, SidesRight
<1>8. Moves(d, src, dst, r, e)
  <2> HIDE DEF P
  <2> QED BY <1>4, <1>5, <1>6, <1>7, Zenon DEF Moves
<1> QED BY <1>8

\* However it is cut.
LEMMA PiecesMove ==
  ASSUME NEW d \in Dmas, d.length \in 1 .. FullLength, NEW src \in Memory, NEW dst \in Memory,
         src % UnitSize(d) = 0, dst % UnitSize(d) = 0
  PROVE  \E e \in Dmas : Moves(d, src, dst, Pieces(d, src, dst), e)
<1> DEFINE n == d.length
           u == UnitSize(d)
           gs == Go(d, d.sdir)
           gd == Go(d, d.ddir)
           s0 == [dma |-> d, moved |-> <<>>]
           r == Pieces(d, src, dst)
           inSource == RegionAt(src) = RegionAt(src + n * gs)
           inDest == RegionAt(dst) = RegionAt(dst + n * gd)
           Cut(f) == Copy(Copy(s0, src, dst, f \div u),
                          src + f * Stride(d.sdir), dst + f * Stride(d.ddir),
                          (n * u - f) \div u)
           R(mv) == [of |-> d, src |-> src, dst |-> dst, moved |-> mv]
<1>1. /\ d.sdir \in Dirs /\ d.ddir \in Dirs /\ n \in Int
      /\ u \in {2, 4} /\ gs \in {0, u, -u} /\ gd \in {0, u, -u}
  BY Going, DmaSizes DEF Dmas
<1>2. /\ RegionOf(src) = RegionAt(src) /\ RegionOf(dst) = RegionAt(dst)
      /\ RegionOf(Clamp(src + n * u * Stride(d.sdir))) = RegionAt(src + n * gs)
      /\ RegionOf(Clamp(dst + n * u * Stride(d.ddir))) = RegionAt(dst + n * gd)
  BY <1>1, EndIs
<1>3. r = CASE inSource /\ inDest -> Copy(s0, src, dst, n)
            [] inSource /\ ~inDest -> Cut(ToBoundary(dst, d.ddir))
            [] ~inSource /\ inDest -> Cut(ToBoundary(src, d.sdir))
            [] OTHER -> s0
  BY <1>2, Zenon DEF Pieces
<1>4. \A mv : Regular(R(mv)) =>
        /\ d.sdir # "reload"
        /\ inSource \/ inDest
        /\ d.sdir = "decrement" => RegionAt(src) = RegionAt(src - (n - 1) * u)
        /\ d.ddir = "decrement" => RegionAt(dst) = RegionAt(dst - (n - 1) * u)
  BY <1>2 DEF Regular
<1> HIDE DEF r, s0
<1>5. CASE d.sdir = "reload"
  <2>1. s0.dma.sdir = "reload"
    BY <1>5 DEF s0
  <2>2. \A a, b, k : Copy(s0, a, b, k) = s0
    BY <2>1, Zenon DEF Copy
  <2>3. r = s0
    BY <1>3, <2>2, Zenon
  <2>4. ~Regular(R(<<>>))
    BY <1>4, <1>5
  <2> QED BY <2>3, <2>4, MovesNothing DEF r, s0
<1>6. ASSUME d.sdir # "reload", NEW m \in 0 .. n
      PROVE  Cut(m * u) = CutInTwo(d, src, dst, m, n - m)
  <2>1. m \in Int /\ (m * u) \div u = m /\ (n * u - m * u) \div u = n - m
    BY <1>1, UnitBytes
  <2>2. m * u * Stride(d.sdir) = m * gs
    BY <1>1, <2>1, Going
  <2>3. m * u * Stride(d.ddir) = m * gd
    BY <1>1, <2>1, Going
  <2> QED BY <2>1, <2>2, <2>3, Zenon DEF CutInTwo, s0
<1>7. CASE d.sdir # "reload" /\ inSource /\ inDest
  <2>1. r = Copy(s0, src, dst, n)
    BY <1>3, <1>7
  <2>2. Side(src, gs, n, n) /\ Side(dst, gd, n, n)
    BY <1>1, <1>7, StaySide
  <2> QED BY <1>7, <2>1, <2>2, MovesWhole DEF r, s0
<1>8. CASE d.sdir # "reload" /\ inSource /\ ~inDest
  <2>1. PICK m \in 0 .. n :
          /\ ToBoundary(dst, d.ddir) = m * u
          /\ (d.ddir = "decrement" => RegionAt(dst) = RegionAt(dst - (n - 1) * u)) =>
               Side(dst, gd, m, n)
    BY <1>1, <1>8, CrossSide
  <2>2. r = CutInTwo(d, src, dst, m, n - m)
    BY <1>3, <1>6, <1>8, <2>1
  <2>3. Side(src, gs, m, n)
    BY <1>1, <1>8, StaySide
  <2>4. Regular(R(r.moved)) => Side(src, gs, m, n) /\ Side(dst, gd, m, n)
    BY <1>4, <2>1, <2>3
  <2> QED BY <1>8, <2>2, <2>4, MovesCut DEF r
<1>9. CASE d.sdir # "reload" /\ ~inSource /\ inDest
  <2>1. PICK m \in 0 .. n :
          /\ ToBoundary(src, d.sdir) = m * u
          /\ (d.sdir = "decrement" => RegionAt(src) = RegionAt(src - (n - 1) * u)) =>
               Side(src, gs, m, n)
    BY <1>1, <1>9, CrossSide
  <2>2. r = CutInTwo(d, src, dst, m, n - m)
    BY <1>3, <1>6, <1>9, <2>1
  <2>3. Side(dst, gd, m, n)
    BY <1>1, <1>9, StaySide
  <2>4. Regular(R(r.moved)) => Side(src, gs, m, n) /\ Side(dst, gd, m, n)
    BY <1>4, <2>1, <2>3
  <2> QED BY <1>9, <2>2, <2>4, MovesCut DEF r
<1>10. CASE ~inSource /\ ~inDest
  <2>1. r = s0
    BY <1>3, <1>10
  <2>2. ~Regular(R(<<>>))
    BY <1>4, <1>10
  <2> QED BY <2>1, <2>2, MovesNothing DEF r, s0
<1> QED BY <1>5, <1>7, <1>8, <1>9, <1>10

\* The address a transfer starts at is aligned and lies in the memory.
LEMMA AlignedIs ==
  ASSUME NEW d \in Dmas, NEW a \in Int
  PROVE  /\ Aligned(a % (16 * RegionSize), d) \in Memory
         /\ Aligned(a % (16 * RegionSize), d) % UnitSize(d) = 0
<1>1. RegionSize \in Nat \ {0}
  BY DmaSizes
<1> PICK M \in Nat \ {0} : M = 16 * RegionSize
  BY <1>1
<1> PICK p : p = a % M
  OBVIOUS
<1>2. p \in 0 .. M - 1
  OBVIOUS
<1>3. \A x \in Nat, u \in {2, 4} : x - (x % u) \in 0 .. x /\ (x - (x % u)) % u = 0
  <2> TAKE x \in Nat, u \in {2, 4}
  <2>1. CASE u = 2
    BY <2>1
  <2>2. CASE u = 4
    BY <2>2
  <2> QED BY <2>1, <2>2
<1>4. UnitSize(d) \in {2, 4}
  BY DEF UnitSize
<1>5. Aligned(p, d) \in 0 .. p /\ Aligned(p, d) % UnitSize(d) = 0
  BY <1>2, <1>3, <1>4 DEF Aligned
<1> QED BY <1>2, <1>5 DEF Memory

\* The control register shows whether the channel is active, and an active channel knows
\* how much to move.
DmaInv ==
  /\ dma \in Dmas /\ programs \in 0 .. MaxPrograms
  /\ enabled = (dma.start # "INACTIVE")
  /\ dma.start # "INACTIVE" => dma.length \in 1 .. FullLength
  /\ CutRight /\ GoesOn

\* What holds of the channel's last transfer when it is over.
LEMMA TransferRight ==
  ASSUME NEW d \in Dmas, d.length \in 1 .. FullLength, d.start # "INACTIVE", Transfer(d),
         programs' \in 0 .. MaxPrograms
  PROVE  DmaInv'
<1> PICK src, dst : /\ src = Aligned(d.src % (16 * RegionSize), d)
                    /\ dst = Aligned(d.dst % (16 * RegionSize), d)
  OBVIOUS
<1>1. /\ src \in Memory /\ dst \in Memory
      /\ src % UnitSize(d) = 0 /\ dst % UnitSize(d) = 0
  BY AlignedIs DEF Dmas
<1> PICK r : r = Pieces(d, src, dst)
  OBVIOUS
<1>2. PICK e \in Dmas : Moves(d, src, dst, r, e)
  BY <1>1, PiecesMove
<1> PICK t : t = [of |-> d, src |-> src, dst |-> dst, moved |-> r.moved]
  OBVIOUS
<1> PICK ends \in BOOLEAN : ends = (~d.repeat \/ d.start = "IMMEDIATE")
  OBVIOUS
<1>3. /\ dma' = IF ends THEN [e EXCEPT !.start = "INACTIVE"] ELSE e
      /\ enabled' = (~ends)
      /\ last' = t
  BY <1>2 DEF Transfer, Moves
<1>4. /\ t.of = d /\ t.src = src /\ t.dst = dst /\ t.moved = r.moved
      /\ e.start # "INACTIVE" /\ e.length \in 1 .. FullLength
  BY <1>2 DEF Moves, Moved
<1>5. /\ dma' \in Dmas /\ (~ends => dma' = e)
      /\ enabled' = (dma'.start # "INACTIVE")
      /\ dma'.start # "INACTIVE" => dma'.length \in 1 .. FullLength
  BY <1>3, <1>4 DEF Dmas, Starts
<1>6. CutRight'
  <2>1. Regular(t) => UnitByUnit(t)
    BY <1>2, Zenon DEF Moves
  <2> QED BY <1>3, <2>1 DEF CutRight
<1>7. GoesOn'
  <2>1. Len(t.moved) = d.length =>
          /\ e.src = src + d.length * UnitSize(d) * Stride(d.sdir)
          /\ e.dst = IF d.ddir = "reload" THEN d.dst
                     ELSE dst + d.length * UnitSize(d) * Stride(d.ddir)
    BY <1>2, <1>4, Zenon DEF Moves
  <2> QED BY <1>3, <1>4, <1>5, <2>1, Zenon DEF GoesOn
<1> QED BY <1>5, <1>6, <1>7 DEF DmaInv

\* A channel that was never used satisfies the invariant.
LEMMA DmaInit_Inv ==
  ASSUME DmaInit
  PROVE  DmaInv
<1>1. dma \in Dmas /\ dma.start = "INACTIVE"
  BY DmaSizes DEF DmaInit, Dmas, Starts, Dirs
<1>2. enabled = FALSE /\ last = Nothing /\ programs = 0
  BY DEF DmaInit
<1>3. enabled = (dma.start # "INACTIVE")
  BY <1>1, <1>2
<1>4. CutRight /\ GoesOn
  BY <1>2, <1>3, Zenon DEF CutRight, GoesOn
<1>5. programs \in 0 .. MaxPrograms
  BY <1>2, DmaSizes
<1> QED BY <1>1, <1>3, <1>4, <1>5, Zenon DEF DmaInv

\* Every step of a channel keeps the invariant.
LEMMA DmaNext_Inv ==
  ASSUME DmaInv, [DmaNext]_dmaVars
  PROVE  DmaInv'
<1>1. /\ dma \in Dmas /\ programs \in 0 .. MaxPrograms /\ MaxPrograms \in Nat
      /\ FullLength \in Nat \ {0}
  BY DmaSizes DEF DmaInv
<1>2. CASE Enable
  <2>1. PICK s \in Sources, d \in Destinations, n \in Lengths, sdir \in Dirs, ddir \in Dirs,
             wide \in BOOLEAN, repeat \in BOOLEAN, start \in Starts \ {"INACTIVE", "SPECIAL"} :
          LET c == Programmed([start |-> start, src |-> s, dst |-> d, sdir |-> sdir,
                               ddir |-> ddir, wide |-> wide, length |-> n,
                               repeat |-> repeat])
          IN IF start = "IMMEDIATE" THEN Transfer(c)
             ELSE dma' = c /\ enabled' = TRUE /\ last' = Nothing
    BY <1>2 DEF Enable
  <2> PICK c : c = Programmed([start |-> start, src |-> s, dst |-> d, sdir |-> sdir,
                               ddir |-> ddir, wide |-> wide, length |-> n,
                               repeat |-> repeat])
    OBVIOUS
  <2>2. s \in Int /\ d \in Int /\ n \in 0 .. FullLength - 1
    BY DmaAssumption
  <2>3. c \in Dmas /\ c.length \in 1 .. FullLength /\ c.start # "INACTIVE"
    BY <1>1, <2>2 DEF Programmed, Dmas, Starts
  <2>4. programs' \in 0 .. MaxPrograms
    BY <1>1, <1>2 DEF Enable
  <2>5. IF start = "IMMEDIATE" THEN Transfer(c)
        ELSE dma' = c /\ enabled' = TRUE /\ last' = Nothing
    BY <2>1
  <2>6. CASE start = "IMMEDIATE"
    BY <2>3, <2>4, <2>5, <2>6, TransferRight
  <2>7. CASE start # "IMMEDIATE"
    BY <2>3, <2>4, <2>5, <2>7 DEF DmaInv, CutRight, GoesOn
  <2> QED BY <2>6, <2>7
<1>3. CASE Disable
  <2>1. /\ dma' = [dma EXCEPT !.start = "INACTIVE"] /\ enabled' = FALSE
        /\ last' = last /\ programs' = programs
    BY <1>3 DEF Disable
  <2>2. dma' \in Dmas /\ dma'.start = "INACTIVE"
    BY <1>1, <2>1 DEF Dmas, Starts
  <2>3. CutRight'
    BY <2>1 DEF DmaInv, CutRight
  <2>4. GoesOn'
    BY <2>1, <2>2 DEF GoesOn
  <2> QED BY <1>1, <2>1, <2>2, <2>3, <2>4 DEF DmaInv
<1>4. CASE HBlank \/ VBlank
  <2>1. Transfer(dma) /\ programs' = programs /\ dma.start # "INACTIVE"
    BY <1>4 DEF HBlank, VBlank
  <2>2. dma.length \in 1 .. FullLength /\ programs' \in 0 .. MaxPrograms
    BY <1>1, <2>1 DEF DmaInv
  <2> QED BY <1>1, <2>1, <2>2, TransferRight
<1>5. CASE UNCHANGED dmaVars
  BY <1>5 DEF dmaVars, DmaInv, CutRight, GoesOn
<1> QED BY <1>2, <1>3, <1>4, <1>5 DEF DmaNext

\* A DMA channel, for every size of a region, every length, every direction and every
\* sequence of transfers that are started, repeated and stopped (trigger_dma,
\* dma_transfer): a transfer moves the units it should, each once and as the region it
\* lies in, however it is cut at a boundary, and leaves its pointers where the next one
\* has to start.
THEOREM TransfersMoveRight == DmaSpec => [](DmaTypeOK /\ MovesRight)
<1>1. DmaInv => DmaTypeOK /\ MovesRight
  BY DmaSizes DEF DmaInv, DmaTypeOK, MovesRight, Dmas
<1> QED BY <1>1, DmaInit_Inv, DmaNext_Inv, PTL DEF DmaSpec
=============================================================================
