------------------------------ MODULE Savestate ------------------------------
(***************************************************************************)
(* Save states (savestate.c and the three functions each part has for its  *)
(* own section): writing the document, and loading one, which is checked   *)
(* first and then read straight into the machine, field by field.          *)
(* A section's fields of one kind are written, checked and read alike: one *)
(* stands for them all.                                                    *)
(***************************************************************************)
EXTENDS Integers, Sequences, FiniteSets, SequencesExt

CONSTANTS
  Damages, \* what can be wrong with a field: "missing" (or of another type), "size"
  MaxBad   \* bound: fields of a document with which something is wrong

ASSUME SavestateAssumption == Damages \subseteq {"missing", "size"} /\ MaxBad \in Nat

VARIABLES
  document, \* of each field: whole, or what is wrong with it
  machine,  \* of each field: the moment its value is of
  derived,  \* the moment palette_ram_converted and the translated code are of
  reading   \* what the call does, and the field it is at

savestateVars == <<document, machine, derived, reading>>

IntOf(section) == <<section, "word">>
BytesOf(section) == <<section, "block">>  \* read by bson_read_bytes, which compares the size
ArrayOf(section) == <<section, "array">>  \* read by bson_read_int32_array, which does not

Timers == << "timer0", "timer1", "timer2", "timer3" >>
DmaChannels == << "dma0", "dma1", "dma2", "dma3" >>
DirectSound == << "ds0", "ds1" >>
Gbc == << "gs0", "gs1", "gs2", "gs3" >>

WordsOf(sections) == [i \in DOMAIN sections |-> IntOf(sections[i])]

\* The fields in the order in which the parts read them.
\* Mutant: the reader of the sound forgets the sample FIFO of the second channel.
OrderShort == << IntOf("cpu"), ArrayOf("cpu"), IntOf("input"), IntOf("emu") >> \o WordsOf(Timers)
  \o << BytesOf("memory"), IntOf("memory"), IntOf("backup"), BytesOf("backup"), ArrayOf("backup") >>
  \o WordsOf(DmaChannels) \o << IntOf("sound"), BytesOf("sound") >>
  \o << IntOf("ds0"), BytesOf("ds0"), IntOf("ds1") >> \o WordsOf(Gbc)
ReadOrder == << IntOf("cpu"), ArrayOf("cpu"), IntOf("input"), IntOf("emu") >> \o WordsOf(Timers)
  \o << BytesOf("memory"), IntOf("memory"), IntOf("backup"), BytesOf("backup"), ArrayOf("backup") >>
  \o WordsOf(DmaChannels) \o << IntOf("sound"), BytesOf("sound") >>
  \o << IntOf("ds0"), BytesOf("ds0"), IntOf("ds1"), BytesOf("ds1") >> \o WordsOf(Gbc)

\* What gba_save_state writes.
Written ==
  {IntOf(s) : s \in {"cpu", "input", "emu", "memory", "backup", "sound"}
             \cup ToSet(Timers) \cup ToSet(DmaChannels) \cup ToSet(DirectSound) \cup ToSet(Gbc)}
  \cup {BytesOf(s) : s \in {"memory", "backup", "sound"} \cup ToSet(DirectSound)}
  \cup {ArrayOf(s) : s \in {"cpu", "backup"}}

\* The sections a loop checks when the loop over the n names inside it counts with the same
\* variable: after the first section the count is at n.
Visited(sections, n) == {sections[i] : i \in {j \in DOMAIN sections : j = 1 \/ j = n + 2}}

\* What the check functions ask for.
Checked ==
  LET dma == Visited(DmaChannels, 10)
      ds == Visited(DirectSound, 6)
      gs == Visited(Gbc, 26)
  IN {IntOf(s) : s \in {"cpu", "input", "emu", "memory", "backup", "sound"}
                \cup ToSet(Timers) \cup dma \cup ds \cup gs}
     \cup {BytesOf(s) : s \in {"memory", "backup", "sound"} \cup ds}
     \cup {ArrayOf(s) : s \in {"cpu", "backup"}}

\* bson_contains_key compares the type and not the size.
HasKey(f) == document[f] # "missing"

\* The readers of bytes compare the size as well.
CanRead(f) == document[f] = "whole"

SavestateInit ==
  /\ document = [f \in Written |-> "missing"]
  /\ machine = [f \in Written |-> "now"] /\ derived = "now"
  /\ reading = [what |-> "idle", at |-> 1]
--------------------------------------------------------------------------
\* gba_save_state.
Save ==
  /\ reading.what = "idle"
  /\ document' = [f \in Written |-> "whole"]
  /\ machine' = [f \in Written |-> "then"] /\ derived' = "then"
  /\ UNCHANGED reading

\* The game goes on.
PlayOn ==
  /\ reading.what = "idle"
  /\ machine' = [f \in Written |-> "now"] /\ derived' = "now"
  /\ UNCHANGED <<document, reading>>

\* A document from elsewhere: a field is not there, or its bytes are too few or too many.
Another ==
  /\ reading.what = "idle"
  /\ Cardinality({f \in Written : document[f] # "whole"}) < MaxBad
  /\ \E f \in Written, d \in Damages :
       /\ d = "size" => f[2] = "block"
       /\ document' = [document EXCEPT ![f] = d]
  /\ UNCHANGED <<machine, derived, reading>>

\* gba_load_state: size, magic, version and the five checks.
BeginLoad ==
  /\ reading.what = "idle"
  /\ reading' = [what |-> IF \A f \in Checked : HasKey(f) THEN "read" ELSE "refused", at |-> 1]
  /\ UNCHANGED <<document, machine, derived>>

\* One field; the first that cannot be read ends the load.
ReadField ==
  /\ reading.what = "read" /\ reading.at <= Len(ReadOrder)
  /\ LET f == ReadOrder[reading.at]
     IN IF CanRead(f)
        THEN /\ machine' = [machine EXCEPT ![f] = "then"]
             /\ reading' = [reading EXCEPT !.at = @ + 1]
        ELSE /\ reading' = [reading EXCEPT !.what = "failed"]
             /\ UNCHANGED machine
  /\ UNCHANGED <<document, derived>>

\* What is not in the document is made anew.
Derive ==
  /\ reading.what = "read" /\ reading.at > Len(ReadOrder)
  /\ derived' = "then"
  /\ reading' = [reading EXCEPT !.what = "loaded"]
  /\ UNCHANGED <<document, machine>>

Return ==
  /\ reading.what \in {"refused", "failed", "loaded"}
  /\ reading' = [what |-> "idle", at |-> 1]
  /\ UNCHANGED <<document, machine, derived>>

SavestateNext == Save \/ PlayOn \/ Another \/ BeginLoad \/ ReadField \/ Derive \/ Return

SavestateSpec == SavestateInit /\ [][SavestateNext]_savestateVars
--------------------------------------------------------------------------
(* Properties *)

SavestateTypeOK ==
  /\ document \in [Written -> {"whole"} \cup Damages \cup {"missing"}]
  /\ machine \in [Written -> {"then", "now"}] /\ derived \in {"then", "now"}
  /\ reading.at \in 1 .. Len(ReadOrder) + 1

WholeDocument == \A f \in Written : document[f] = "whole"

\* A whole document is loaded, and then every field, with what is derived from them, is of
\* the moment it was saved.
SavedIsRestored ==
  /\ WholeDocument => reading.what \notin {"refused", "failed"}
  /\ reading.what = "loaded" => /\ derived = "then"
                                /\ \A f \in Written : machine[f] = "then"

\* "Validate that the state file makes sense before unconditionally reading it": what passes
\* the checks can be read to the end (savestate.c:124, 138).
ValidatedIsRead == reading.what # "failed"
=============================================================================
