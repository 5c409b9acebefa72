--------------------------------- MODULE Dma ---------------------------------
(***************************************************************************)
(* A DMA channel (trigger_dma and dma_transfer in gba_memory.c): when it   *)
(* starts and stops, and which units it moves.  A transfer is made in      *)
(* pieces, each by a loop written for the region its first unit lies in;   *)
(* the model keeps, for every unit, the regions the loop took it for.      *)
(* Regions are RegionSize bytes instead of 16 MB.                          *)
(***************************************************************************)
EXTENDS Integers, Sequences, FiniteSets

CONSTANTS
  RegionSize,   \* bytes of a region (0x1000000)
  Chan,         \* the channel
  FullLength,   \* what a length of 0 means (0x4000, or 0x10000 for channel 3)
  Sources, Destinations, Lengths,   \* what the game writes to the registers
  MaxPrograms   \* bound: writes that start a transfer

ASSUME DmaAssumption ==
  /\ RegionSize \in Nat \ {0} /\ RegionSize % 4 = 0
  /\ Chan \in 0 .. 3 /\ FullLength \in 1 .. RegionSize \div 8
  /\ Sources \cup Destinations \subseteq 0 .. 16 * RegionSize - 1
  /\ Lengths \subseteq 0 .. FullLength - 1 /\ MaxPrograms \in Nat

VARIABLES
  dma,      \* the channel's dma_transfer_type
  enabled,  \* bit 15 of its control register
  last,     \* history: the last transfer, and what it moved
  programs  \* history: transfers the game started

dmaVars == <<dma, enabled, last, programs>>

Dirs == {"increment", "decrement", "fixed", "reload"}
Starts == {"IMMEDIATE", "VBLANK", "HBLANK", "SPECIAL", "INACTIVE"}
Nothing == [moved |-> <<>>]

DmaInit ==
  /\ dma = [start |-> "INACTIVE", src |-> 0, dst |-> 0, sdir |-> "increment",
            ddir |-> "increment", wide |-> FALSE, length |-> 0, repeat |-> FALSE]
  /\ enabled = FALSE /\ last = Nothing /\ programs = 0
--------------------------------------------------------------------------
(* dma_transfer *)

\* dma_region_map: what lies in each region; the last entry is beyond the memory.
RegionMap ==
  <<"bus", "bus", "ewram", "iwram", "io", "palette", "vram", "oam">>
  \o [i \in 1 .. 5 |-> "gamepak"] \o <<"ext", "ext", "ext", "bus">>
RegionOf(a) == RegionMap[a \div RegionSize + 1]

\* MIN(0x10000000, p) of an unsigned number: a pointer below 0 wraps to the top.
Clamp(p) == IF p < 0 \/ p > 16 * RegionSize THEN 16 * RegionSize ELSE p

Stride(dir) == CASE dir = "decrement" -> -1 [] dir = "fixed" -> 0 [] OTHER -> 1
UnitSize(d) == IF d.wide THEN 4 ELSE 2

\* The pointers a loop leaves behind.
\* Mutant: a destination that is to be reloaded goes on.
LeftAtEnd(d, src, dst, n) ==
  [d EXCEPT !.src = src + n * UnitSize(d) * Stride(d.sdir),
            !.dst = dst + n * UnitSize(d) * Stride(d.ddir)]
Left(d, src, dst, n) ==
  [d EXCEPT !.src = src + n * UnitSize(d) * Stride(d.sdir),
            !.dst = IF d.ddir = "reload" THEN d.dst ELSE dst + n * UnitSize(d) * Stride(d.ddir)]

\* One piece: no region can be copied to the ROM or to nowhere, and from a forbidden
\* source direction nothing is.  A loop that runs leaves the pointers where it stops.
Writable(region) == region \notin {"bus", "gamepak"}

Copy(s, src, dst, n) ==
  LET d == s.dma
      reads == IF src < 0 \/ src >= 16 * RegionSize THEN "bus" ELSE RegionOf(src)
      writes == IF dst < 0 \/ dst >= 16 * RegionSize THEN "bus" ELSE RegionOf(dst)
      step(dir) == UnitSize(d) * Stride(dir)
  IN IF d.sdir = "reload" \/ ~Writable(writes) THEN s
     ELSE [dma |-> Left(d, src, dst, n),
           moved |-> s.moved \o
             [i \in 1 .. n |-> [src |-> src + (i - 1) * step(d.sdir), from |-> reads,
                                dst |-> dst + (i - 1) * step(d.ddir), to |-> writes]]]

\* The bytes up to the boundary that a pointer is moving to.
\* Mutant: the first byte beyond it is counted too.
PastBoundary(p, dir) ==
  IF dir = "decrement" THEN (p % RegionSize) + 2 ELSE RegionSize - (p % RegionSize) + 2
ToBoundary(p, dir) ==
  IF dir = "decrement" THEN p % RegionSize ELSE RegionSize - (p % RegionSize)

\* A transfer that crosses a boundary is cut there in two; when both ends cross one,
\* nothing is copied.
Pieces(d, src, dst) ==
  LET bytes == d.length * UnitSize(d)
      inSource == RegionOf(src) = RegionOf(Clamp(src + bytes * Stride(d.sdir)))
      inDest == RegionOf(dst) = RegionOf(Clamp(dst + bytes * Stride(d.ddir)))
      s0 == [dma |-> d, moved |-> <<>>]
      Cut(first) ==
        Copy(Copy(s0, src, dst, first \div UnitSize(d)),
             src + first * Stride(d.sdir), dst + first * Stride(d.ddir),
             (bytes - first) \div UnitSize(d))
  IN CASE inSource /\ inDest -> Copy(s0, src, dst, d.length)
       [] inSource /\ ~inDest -> Cut(ToBoundary(dst, d.ddir))
       [] ~inSource /\ inDest -> Cut(ToBoundary(src, d.sdir))
       [] OTHER -> s0

Aligned(p, d) == p - (p % UnitSize(d))

\* The pieces, then the end of a transfer that is not repeated.
Transfer(d) ==
  LET src == Aligned(d.src % (16 * RegionSize), d)
      dst == Aligned(d.dst % (16 * RegionSize), d)
      s == Pieces(d, src, dst)
      ends == ~d.repeat \/ d.start = "IMMEDIATE"
  IN /\ dma' = IF ends THEN [s.dma EXCEPT !.start = "INACTIVE"] ELSE s.dma
     /\ enabled' = (~ends)
     /\ last' = [of |-> d, src |-> src, dst |-> dst, moved |-> s.moved]
--------------------------------------------------------------------------
(* trigger_dma: a write of the control register.  While the channel is active *)
(* a write that enables it changes nothing.                                   *)
Programmed(c) ==
  [c EXCEPT !.length = IF c.length = 0 THEN FullLength ELSE c.length]

Enable ==
  /\ dma.start = "INACTIVE" /\ programs < MaxPrograms
  /\ \E s \in Sources, d \in Destinations, n \in Lengths, sdir, ddir \in Dirs,
        wide, repeat \in BOOLEAN, start \in Starts \ {"INACTIVE", "SPECIAL"} :
       LET c == Programmed([start |-> start, src |-> s, dst |-> d, sdir |-> sdir,
                            ddir |-> ddir, wide |-> wide, length |-> n,
                            repeat |-> repeat])
       IN IF start = "IMMEDIATE" THEN Transfer(c)
          ELSE dma' = c /\ enabled' = TRUE /\ last' = Nothing
  /\ programs' = programs + 1

Disable ==
  /\ dma.start # "INACTIVE"
  /\ dma' = [dma EXCEPT !.start = "INACTIVE"] /\ enabled' = FALSE
  /\ UNCHANGED <<last, programs>>

\* update_gba at the end of a visible line and of the last one.
HBlank == dma.start = "HBLANK" /\ Transfer(dma) /\ UNCHANGED programs
VBlank == dma.start = "VBLANK" /\ Transfer(dma) /\ UNCHANGED programs

DmaNext == Enable \/ Disable \/ HBlank \/ VBlank

DmaSpec == DmaInit /\ [][DmaNext]_dmaVars
--------------------------------------------------------------------------
(* Properties *)

\* The variables keep their types.
DmaTypeOK ==
  /\ dma.start \in Starts /\ dma.sdir \in Dirs /\ dma.ddir \in Dirs
  /\ dma.wide \in BOOLEAN /\ dma.repeat \in BOOLEAN /\ dma.length \in 0 .. FullLength
  /\ dma.src \in Int /\ dma.dst \in Int
  /\ enabled \in BOOLEAN /\ programs \in 0 .. MaxPrograms

\* What lies at an address, nothing beyond the memory.
RegionAt(a) == IF a < 0 \/ a >= 16 * RegionSize THEN "bus" ELSE RegionOf(a)

\* The unit i of a transfer, in the regions its two ends lie in.
Unit(t, i) ==
  LET d == t.of
      a == t.src + (i - 1) * UnitSize(d) * Stride(d.sdir)
      b == t.dst + (i - 1) * UnitSize(d) * Stride(d.ddir)
  IN [src |-> a, from |-> RegionAt(a), dst |-> b, to |-> RegionAt(b)]

\* Of the first i units, those that can be written.
Landing(t, i) == {j \in 1 .. i : Writable(Unit(t, j).to)}

\* It moved each of them, in order, and nothing else.
UnitByUnit(t) ==
  /\ Len(t.moved) = Cardinality(Landing(t, t.of.length))
  /\ \A i \in Landing(t, t.of.length) : t.moved[Cardinality(Landing(t, i))] = Unit(t, i)

\* Known limits: at most one side may cross a boundary (a comment in the code says so),
\* and not downwards, where the unit at the boundary goes with the wrong piece.
Regular(t) ==
  LET d == t.of
      end(p, dir) == RegionOf(Clamp(p + d.length * UnitSize(d) * Stride(dir)))
  IN /\ d.sdir # "reload"
     /\ RegionOf(t.src) = end(t.src, d.sdir) \/ RegionOf(t.dst) = end(t.dst, d.ddir)
     /\ d.sdir = "decrement" => RegionAt(t.src) = RegionAt(t.src - (d.length - 1) * UnitSize(d))
     /\ d.ddir = "decrement" => RegionAt(t.dst) = RegionAt(t.dst - (d.length - 1) * UnitSize(d))

\* A transfer cut in two moves the units one transfer would, each once, in its place,
\* and read and written as the region it lies in.
CutRight == last # Nothing /\ Regular(last) => UnitByUnit(last)

\* A repeated transfer goes on where it stopped, or from the same destination if the
\* game asked to reload it; the control register shows whether more is to come.
GoesOn ==
  /\ enabled = (dma.start # "INACTIVE")
  /\ last # Nothing /\ last.of.repeat /\ enabled /\ Len(last.moved) = last.of.length =>
       LET d == last.of IN
       /\ dma.src = last.src + d.length * UnitSize(d) * Stride(d.sdir)
       /\ dma.dst = IF d.ddir = "reload" THEN d.dst
                    ELSE last.dst + d.length * UnitSize(d) * Stride(d.ddir)

\* However a transfer is cut or repeated (dma_transfer), it moves the units it should, and
\* leaves the channel where the next one has to start.
MovesRight == CutRight /\ GoesOn
=============================================================================
