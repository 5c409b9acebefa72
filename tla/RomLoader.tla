----------------------------- MODULE RomLoader -----------------------------
(* The loader of src/esp32s31/gamepak_runtime.c: it copies a game from the TF *)
(* card, storing pages with the same content once, to a pool in PSRAM and,    *)
(* when that is full, to a flash partition that keeps what it holds over a    *)
(* loss of power.  The card may be changed while the loader runs.             *)
EXTENDS Integers, Sequences, FiniteSets

CONSTANTS
  Contents,   \* contents of a 32 KB page
  Hash,       \* esp32s31_runtime_page_hash of each content
  Files,      \* games a card may hold, as sequences of contents
  PsramSlots, \* psram_capacity_pages
  FlashSlots, \* pages of the flash partition
  Spill,      \* GPSP_ESP32S31_FLASH_SPILL
  MaxChanges, \* bound: changes of the card
  MaxLosses   \* bound: losses of power

Blank == "blank"   \* an erased slot
Torn == "torn"     \* a slot of which some sectors are written, or written badly
NoPage == <<"none", 0>>

ASSUME RomLoaderAssumption ==
  /\ Hash \in [Contents -> Nat]
  /\ Files \subseteq Seq(Contents) /\ <<>> \notin Files
  /\ \E f \in Files : \A g \in Files : Len(g) <= Len(f)   \* at most 1024 pages
  /\ PsramSlots \in Nat /\ FlashSlots \in Nat /\ Spill \in BOOLEAN
  /\ MaxChanges \in Nat /\ MaxLosses \in Nat
  /\ {Blank, Torn} \cap Contents = {}

VARIABLES
  card,    \* the file on the card
  mode,    \* what the loader does
  page,    \* the page it is at
  count,   \* page_count
  hash,    \* s_page_hash
  canon,   \* s_canonical_page
  pointer, \* s_page_pointer
  psram,   \* the pool
  flash,   \* the partition
  seen,    \* scan_page(): history of the pages read by load_pages
  changes, losses

file == <<count, hash, canon>>
bounds == <<changes, losses>>
vars == <<card, mode, page, file, pointer, psram, flash, seen, bounds>>

MaxPages == CHOOSE n \in {Len(f) : f \in Files} : \A f \in Files : Len(f) <= n
PageNums == 1 .. MaxPages
PsramPool == 0 .. (PsramSlots - 1)
Partition == 0 .. (FlashSlots - 1)

Init ==
  /\ card \in Files
  /\ mode = "idle" /\ page = 1 /\ count = 0
  /\ hash = [p \in PageNums |-> 0] /\ canon = [p \in PageNums |-> 0]
  /\ pointer = [p \in PageNums |-> NoPage]
  /\ psram = [s \in PsramPool |-> Blank]
  /\ flash \in [Partition -> Contents \cup {Blank}]
  /\ seen = [p \in PageNums |-> Blank]
  /\ changes = 0 /\ losses = 0

Readable(p) == p <= Len(card)

--------------------------------------------------------------------------
(* esp32s31_runtime_plan_pages *)

Canonical == {p \in 1 .. count : canon[p] = p}

SlotsBefore(p) == Cardinality({q \in Canonical : q < p})

Place(p) ==
  LET n == SlotsBefore(canon[p])
  IN  IF n < PsramSlots THEN <<"psram", n>> ELSE <<"flash", n - PsramSlots>>

Capacity == PsramSlots + (IF Spill THEN FlashSlots ELSE 0)
Fits == Cardinality(Canonical) <= Capacity

--------------------------------------------------------------------------
(* esp32s31_runtime_gamepak_load *)

\* A game is selected; the first call after power-on, or after a failure or a
\* game whose header was refused.
Load ==
  /\ mode \in {"idle", "done"}
  /\ mode' = "scan" /\ page' = 1 /\ count' = Len(card)
  /\ hash' = [p \in PageNums |-> 0] /\ canon' = [p \in PageNums |-> 0]
  /\ pointer' = [p \in PageNums |-> NoPage]
  /\ seen' = [p \in PageNums |-> Blank]
  /\ UNCHANGED <<card, psram, flash, bounds>>

\* Mutant: a page is compared with the one before it only.
EqualNeighbour(q) == q = page - 1 /\ card[q] = card[page]
Equal(q) == hash[q] = Hash[card[page]] /\ card[q] = card[page]

ScanPage ==
  /\ mode = "scan" /\ Readable(page)
  /\ LET same == {q \in 1 .. (page - 1) : canon[q] = q /\ Equal(q)}
     IN  canon' = [canon EXCEPT ![page] =
                     IF same = {} THEN page ELSE CHOOSE q \in same : \A r \in same : q <= r]
  /\ hash' = [hash EXCEPT ![page] = Hash[card[page]]]
  /\ IF page = count THEN mode' = "plan" /\ UNCHANGED page
                     ELSE page' = page + 1 /\ UNCHANGED mode
  /\ UNCHANGED <<card, count, pointer, psram, flash, seen, bounds>>

Plan ==
  /\ mode = "plan"
  /\ mode' = IF Fits THEN "load" ELSE "idle"
  /\ page' = 1
  /\ UNCHANGED <<card, file, pointer, psram, flash, seen, bounds>>

NextPage ==
  IF page = count THEN mode' = "map" /\ UNCHANGED page
                  ELSE mode' = "load" /\ page' = page + 1

\* Mutant: the hash of the scan is not looked at again.
AnyHash(c) == TRUE
ScannedHash(c) == Hash[c] = hash[page]

\* The page is read again.
Reread ==
  /\ mode = "load" /\ Readable(page) /\ ScannedHash(card[page])
  /\ seen' = [seen EXCEPT ![page] = card[page]]

LoadDuplicate ==
  /\ Reread
  /\ canon[page] # page
  /\ card[canon[page]] = card[page]
  /\ pointer' = IF Place(page)[1] = "psram"
                THEN [pointer EXCEPT ![page] = pointer[canon[page]]] ELSE pointer
  /\ NextPage
  /\ UNCHANGED <<card, file, psram, flash, bounds>>

LoadToPsram ==
  /\ Reread
  /\ canon[page] = page /\ Place(page)[1] = "psram"
  /\ psram' = [psram EXCEPT ![Place(page)[2]] = card[page]]
  /\ pointer' = [pointer EXCEPT ![page] = Place(page)]
  /\ NextPage
  /\ UNCHANGED <<card, file, flash, bounds>>

LoadToFlash ==
  /\ Reread
  /\ canon[page] = page /\ Place(page)[1] = "flash"
  /\ mode' = "compare"
  /\ UNCHANGED <<card, page, file, pointer, psram, flash, bounds>>

\* A page that cannot be read or has changed since the scan, an error of the
\* card, the flash or the mapping: the load is given up.
Fail ==
  /\ mode \in {"scan", "load", "compare", "erase", "write", "verify", "map"}
  /\ mode' = "idle"
  /\ UNCHANGED <<card, page, file, pointer, psram, flash, seen, bounds>>

--------------------------------------------------------------------------
(* prepare_flash_page *)

Slot == Place(page)[2]

\* Mutant: a block is always written.
NeverHeld == FALSE
Held == flash[Slot] = seen[page]

Compare ==
  /\ mode = "compare"
  /\ IF Held THEN NextPage ELSE mode' = "erase" /\ UNCHANGED page
  /\ UNCHANGED <<card, file, pointer, psram, flash, seen, bounds>>

Erase ==
  /\ mode = "erase" /\ flash[Slot] # Blank
  /\ flash' = [flash EXCEPT ![Slot] = Blank]
  /\ UNCHANGED <<card, mode, page, file, pointer, psram, seen, bounds>>

\* The sectors of an erased slot are written; bad cells show when they are read.
Write ==
  /\ mode = "erase" /\ flash[Slot] = Blank
  /\ \E c \in {seen[page], Torn} : flash' = [flash EXCEPT ![Slot] = c]
  /\ mode' = "verify"
  /\ UNCHANGED <<card, page, file, pointer, psram, seen, bounds>>

\* Mutant: a slot that was written badly is written again.
TriesAgain == "erase"
Refused == "idle"

Verify ==
  /\ mode = "verify"
  /\ IF flash[Slot] = seen[page] THEN NextPage ELSE mode' = Refused /\ UNCHANGED page
  /\ UNCHANGED <<card, file, pointer, psram, flash, seen, bounds>>

--------------------------------------------------------------------------

\* map_flash_pages: the partition is mapped as a whole.
MapFlash ==
  /\ mode = "map"
  /\ pointer' = [p \in PageNums |-> IF p <= count /\ Place(p)[1] = "flash"
                                    THEN Place(p) ELSE pointer[p]]
  /\ mode' = IF \A p \in 1 .. count : pointer'[p] # NoPage THEN "done" ELSE "idle"
  /\ UNCHANGED <<card, page, file, psram, flash, seen, bounds>>

ChangeCard(f) ==
  /\ changes < MaxChanges
  /\ changes' = changes + 1 /\ card' = f
  /\ UNCHANGED <<mode, page, file, pointer, psram, flash, seen, losses>>

\* Power is lost: the flash is all that remains.
PowerLoss ==
  /\ losses < MaxLosses
  /\ losses' = losses + 1
  /\ mode' = "idle" /\ page' = 1 /\ count' = 0
  /\ hash' = [p \in PageNums |-> 0] /\ canon' = [p \in PageNums |-> 0]
  /\ pointer' = [p \in PageNums |-> NoPage]
  /\ psram' = [s \in PsramPool |-> Blank]
  /\ seen' = [p \in PageNums |-> Blank]
  /\ flash' = IF mode = "erase" THEN [flash EXCEPT ![Slot] = Torn] ELSE flash
  /\ UNCHANGED <<card, changes>>

Loading ==
  \/ ScanPage \/ Plan \/ LoadDuplicate \/ LoadToPsram \/ LoadToFlash
  \/ Compare \/ Erase \/ Write \/ Verify \/ MapFlash

Next ==
  \/ Load \/ Loading \/ Fail
  \/ \E f \in Files : ChangeCard(f)
  \/ PowerLoss

Spec == Init /\ [][Next]_vars

\* The loader is one task without waits: it goes on, or gives up when it cannot.
FairSpec == Spec /\ WF_vars(Loading \/ Fail)

--------------------------------------------------------------------------
(* Properties *)

\* The variables keep their types; pointers lead into the pool or the partition.
TypeOK ==
  /\ card \in Files
  /\ mode \in {"idle", "scan", "plan", "load", "compare", "erase", "verify", "map", "done"}
  /\ page \in PageNums /\ count \in 0 .. MaxPages
  /\ hash \in [PageNums -> Nat] /\ canon \in [PageNums -> 0 .. MaxPages]
  /\ pointer \in [PageNums -> {NoPage} \cup ({"psram"} \X PsramPool) \cup ({"flash"} \X Partition)]
  /\ psram \in [PsramPool -> Contents \cup {Blank}]
  /\ flash \in [Partition -> Contents \cup {Blank, Torn}]
  /\ seen \in [PageNums -> Contents \cup {Blank}]

Stored(at) ==
  CASE at[1] = "psram" -> psram[at[2]]
    [] at[1] = "flash" -> flash[at[2]]
    [] OTHER -> Blank

\* A game that was loaded shows, page by page, what the card held when it was
\* loaded, whatever was in the flash, however often power was lost before.
MappedRight == mode = "done" => \A p \in 1 .. count : Stored(pointer[p]) = seen[p]

\* "A duplicate logical page never consumes another flash slot", and pages that
\* only share their hash have slots of their own.
DedupExact ==
  mode = "done" =>
    \A p, q \in 1 .. count : pointer[p] = pointer[q] <=> seen[p] = seen[q]

\* The game that runs is the one that was read, each of its pages held once
\* (load_pages, esp32s31_runtime_plan_pages).
LoadedRight == MappedRight /\ DedupExact

\* The flash is changed only when the game does not fit in PSRAM, is allowed to
\* spill and fits in both; "equal blocks are left untouched".
FlashChangedForReason ==
  [][\A s \in Partition :
       flash'[s] # flash[s] =>
         /\ Spill
         /\ Cardinality(Canonical) > PsramSlots
         /\ Cardinality(Canonical) <= PsramSlots + FlashSlots
         /\ flash[s] # seen[page]]_vars

\* Every load ends.
LoadEnds == mode \notin {"idle", "done"} ~> mode \in {"idle", "done"}
=============================================================================
