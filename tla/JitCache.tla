------------------------------ MODULE JitCache ------------------------------
(* The cache of code translated from RAM in src/cpu_threaded.c.  A shadow of  *)
(* the RAM tags every location: data, code, or the number of the block that   *)
(* starts there.  Blocks grow from the bottom of the cache, the table of      *)
(* their offsets from its top.  Translating a block translates the blocks it  *)
(* branches to; a store to tagged RAM, or a full cache, flushes everything.   *)
(*                                                                            *)
(* One RAM region (IWRAM and EWRAM are treated alike) and one instruction set *)
(* are modelled; a location is one instruction.  The recursion of the code is *)
(* a stack of blocks whose external exits are being linked.                   *)
EXTENDS Integers, Sequences, FiniteSets

CONSTANTS
  First, Last,  \* the locations the game uses for code
  Target(_),    \* the location an instruction branches to, or Nowhere
  Insns,        \* instructions
  Exits,        \* those that may leave the block (arm_exit_point)
  Ends,         \* those that always do (arm_opcode_unconditional_branch)
  MaxBlock,     \* HOST_MAX_BLOCK_SIZE
  MaxExits,     \* MAX_EXITS
  Size,         \* RAM_TRANSLATION_CACHE_SIZE
  Threshold,    \* TRANSLATION_CACHE_LIMIT_THRESHOLD
  TagCost,      \* sizeof(ramtag_type)
  Prologue,     \* block_prologue_size
  InsnCost,     \* code of an instruction, at most
  GateCost,     \* code that ends a block (generate_translation_gate)
  Align, Slack, \* locations in 16 bytes and in 8 bytes
  MaxTries,     \* tries of block_lookup_address_arm          (4)
  MaxWrites     \* bound: times the game changes the RAM

Words == First .. Last
Nowhere == -1

ASSUME JitCacheAssumption ==
  /\ First \in Nat /\ Last \in Nat /\ First <= Last
  /\ Exits \subseteq Insns /\ Ends \subseteq Exits
  /\ \A i \in Insns : Target(i) \in Words \cup {Nowhere}
  /\ \A i \in Insns \ Exits : Target(i) = Nowhere
  /\ MaxBlock \in Nat \ {0} /\ MaxExits \in Nat \ {0}
  /\ Size \in Nat /\ Threshold \in Nat /\ Threshold <= Size
  /\ TagCost \in Nat \ {0} /\ Prologue \in Nat /\ InsnCost \in Nat \ {0} /\ GateCost \in Nat
  /\ Prologue + InsnCost <= Threshold /\ GateCost <= Threshold /\ TagCost <= Threshold
  /\ Align \in Nat \ {0} /\ Slack \in Nat \ {0} /\ MaxTries \in Nat \ {0}
  /\ MaxWrites \in Nat

Data == 0
Code == -1
Tags == 1 .. (Size + 1)
Places == 0 .. Size

VARIABLES
  mem,    \* the RAM: an instruction for each location
  tag,    \* the shadow of the RAM
  ntags,  \* tags given out: (INITIAL_TOP_TAG - ram_block_tag) / 2
  off,    \* the table: ramtag_type.offset_arm, 0 for none
  cache,  \* the block that starts at an offset, if one does
  ptr,    \* ram_translation_ptr
  lo, hi, \* iwram_code_min, iwram_code_max
  want,   \* the location block_lookup_address_arm looks up, or Nowhere
  tries,  \* its failed tries
  stack,  \* the blocks being linked: offset, and exits not yet linked
  top,    \* history: where the last translation stopped, plus the table it had
  writes  \* history: changes of the RAM so far (counts up to MaxWrites)

tagVars == <<tag, ntags, off>>
vars == <<mem, tagVars, cache, ptr, lo, hi, want, tries, stack, top, writes>>

Empty == [pc |-> Nowhere, text |-> <<>>, link |-> <<>>]
Whole == Last + 1

(* init_dynarec_caches: the limits span the whole RAM. *)
Init ==
  /\ mem \in [Words -> Insns]
  /\ tag = [w \in Words |-> Data] /\ ntags = 0
  /\ off = [k \in Tags |-> 0]
  /\ cache = [o \in Places |-> Empty]
  /\ ptr = 0 /\ lo = 0 /\ hi = Whole
  /\ want = Nowhere /\ tries = 0 /\ stack = <<>> /\ top = 0
  /\ writes = 0

Valid(k) == k > Data
Least(S) == CHOOSE n \in S : \A m \in S : n <= m

--------------------------------------------------------------------------
(* scan_block: a block goes on to an instruction that always leaves it, past  *)
(* such an instruction when an earlier exit branches behind it.  The search   *)
(* for one passes over the exit recorded last.                                *)
Recorded(w, n) == {p \in w .. (w + n - 1) : Target(mem[p]) # Nowhere}

Joined(w, n) ==
  \E p \in Recorded(w, n) :
    /\ \E q \in Recorded(w, n) : p < q
    /\ Target(mem[p]) = w + n

StopsAfter(w, n) ==
  \/ n = MaxBlock \/ w + n > Last
  \/ /\ mem[w + n - 1] \in Ends
     /\ ~Joined(w, n)
  \/ /\ mem[w + n - 1] \in Exits
     /\ Cardinality(Recorded(w, n)) = MaxExits

IsBlock(w, n) == (\A k \in 1 .. (n - 1) : ~StopsAfter(w, k)) /\ StopsAfter(w, n)

\* Exits that leave a block of n instructions, the others are patched within it.
External(w, n) == {p \in Recorded(w, n) : Target(mem[p]) \notin w .. (w + n - 1)}

--------------------------------------------------------------------------
(* flush_translation_cache_ram: the shadow is cleared where code was seen.    *)
\* Mutant: the tag of the last instruction is not cleared.
ClearedShort(from, to) ==
  CASE to = 0 -> {}
    [] to # 0 /\ to > from -> {w \in Words : from - (from % Align) <= w /\ w < to}
    [] OTHER -> Words
Cleared(from, to) ==
  CASE to = 0 -> {}
    [] to # 0 /\ to > from -> {w \in Words : from - (from % Align) <= w /\ w < to + Slack}
    [] OTHER -> Words

\* Mutant: the least location is kept as a signed number.
FlushSigned(tags, from, to) ==
  /\ tag' = [w \in Words |-> IF w \in Cleared(from, to) THEN Data ELSE tags[w]]
  /\ ntags' = 0 /\ ptr' = 0
  /\ lo' = -1 /\ hi' = 0
\* Mutant: code goes on where the cache was full.
FlushInPlace(tags, from, to) ==
  /\ tag' = [w \in Words |-> IF w \in Cleared(from, to) THEN Data ELSE tags[w]]
  /\ ntags' = 0 /\ ptr' = ptr
  /\ lo' = Whole /\ hi' = 0
Flush(tags, from, to) ==
  /\ tag' = [w \in Words |-> IF w \in Cleared(from, to) THEN Data ELSE tags[w]]
  /\ ntags' = 0 /\ ptr' = 0
  /\ lo' = Whole /\ hi' = 0

\* A translation that does not fit flushes; all the callers return false.
GiveUp ==
  /\ stack' = <<>>
  /\ tries' = tries + 1
  /\ want' = IF tries + 1 = MaxTries THEN Nowhere ELSE want

--------------------------------------------------------------------------
(* block_lookup_translate *)

Found(w) == Valid(tag[w]) /\ off[tag[w]] # 0

TagOf(w) == IF Valid(tag[w]) THEN tag[w] ELSE ntags + 1
\* Mutant: ram_block_tag is not moved on.
TagsKept(w) == ntags
TagsWith(w) == IF Valid(tag[w]) THEN ntags ELSE ntags + 1
\* Mutant: the table is left out of the limit.
LimitWithoutTable(w) == Size - Threshold
Limit(w) == Size - Threshold - TagCost * TagsWith(w)
WithTag(w) == [tag EXCEPT ![w] = TagOf(w)]

\* Scanning tags the instructions of a block, not the blocks that start in it.
\* Mutant: only the start of a block is tagged.
ScannedStart(w, n) == WithTag(w)
Scanned(w, n) ==
  [v \in Words |-> IF v \in w .. (w + n - 1) /\ WithTag(w)[v] = Data THEN Code
                   ELSE WithTag(w)[v]]

After(n) == ptr + Prologue + n * InsnCost
Fits(w, n) == After(n) <= Limit(w) /\ After(n) + GateCost <= Limit(w)
\* The limit is seen to be passed after m of n instructions, or after the gate.
Emitted(w, n, m) ==
  /\ \A k \in 1 .. (m - 1) : After(k) <= Limit(w)
  /\ After(m) > Limit(w) \/ m = n
EmittedTo(w, m) == IF After(m) > Limit(w) THEN After(m) ELSE After(m) + GateCost
Smaller(a, b) == IF a < b THEN a ELSE b
Larger(a, b) == IF a > b THEN a ELSE b

Tagged(w) == off' = [off EXCEPT ![TagOf(w)] = ptr + Prologue]

Written(from, to, o, block) ==
  [p \in Places |-> IF p = o THEN block
                    ELSE IF from <= p /\ p < to THEN Empty ELSE cache[p]]

\* The cache is full before the block is begun.
NoRoom(w) ==
  /\ ptr > Limit(w)
  /\ Tagged(w)
  /\ Flush(WithTag(w), lo, hi) /\ GiveUp
  /\ top' = ptr + TagCost * TagsWith(w)
  /\ UNCHANGED <<mem, cache, writes>>

\* It turns out to be full while the block is emitted, or with its gate.
Overrun(w) ==
  \E n \in 1 .. MaxBlock, m \in 1 .. MaxBlock :
    /\ IsBlock(w, n) /\ m <= n
    /\ ptr <= Limit(w) /\ ~Fits(w, n) /\ Emitted(w, n, m)
    /\ Tagged(w)
    /\ Flush(Scanned(w, n), Smaller(lo, w), Larger(hi, w + m - 1)) /\ GiveUp
    /\ top' = EmittedTo(w, m) + TagCost * TagsWith(w)
    /\ cache' = Written(ptr, EmittedTo(w, m), Nowhere, Empty)
    /\ UNCHANGED <<mem, writes>>

Translate(w) ==
  \E n \in 1 .. MaxBlock :
    /\ IsBlock(w, n)
    /\ ptr <= Limit(w) /\ Fits(w, n)
    /\ Tagged(w)
    /\ tag' = Scanned(w, n) /\ ntags' = TagsWith(w)
    /\ lo' = Smaller(lo, w) /\ hi' = Larger(hi, w + n - 1)
    /\ ptr' = After(n) + GateCost /\ top' = ptr' + TagCost * ntags'
    /\ cache' = Written(ptr, ptr', ptr + Prologue,
                        [pc |-> w, text |-> [i \in 1 .. n |-> mem[w + i - 1]],
                         link |-> [p \in External(w, n) |-> Nowhere]])
    /\ stack' = Append(stack, [at |-> ptr + Prologue, todo |-> External(w, n)])
    /\ UNCHANGED <<mem, want, tries, writes>>

Depth == Len(stack)
Exit == Least(stack[Depth].todo)

\* The location the code is about to look up.
Wanted ==
  IF want = Nowhere THEN {}
  ELSE IF stack = <<>> THEN {want}
  ELSE IF stack[Depth].todo = {} THEN {}
  ELSE {Target(mem[Exit])}

LookUp == \E w \in Wanted : ~Found(w) /\ (NoRoom(w) \/ Overrun(w) \/ Translate(w))

Patched(s, o) ==
  /\ cache' = [cache EXCEPT ![s[Len(s)].at].link[Least(s[Len(s)].todo)] = o]
  /\ stack' = [s EXCEPT ![Len(s)].todo = @ \ {Least(@)}]

\* The target of an exit has been translated before.
LinkExit ==
  /\ want # Nowhere /\ stack # <<>>
  /\ \E w \in Wanted : Found(w) /\ Patched(stack, off[tag[w]])
  /\ UNCHANGED <<mem, tagVars, ptr, lo, hi, want, tries, top, writes>>

\* A block all of whose exits are linked is returned to the block that wants it.
LinkBlock ==
  /\ Depth > 1 /\ stack[Depth].todo = {}
  /\ Patched(SubSeq(stack, 1, Depth - 1), stack[Depth].at)
  /\ UNCHANGED <<mem, tagVars, ptr, lo, hi, want, tries, top, writes>>

\* ... or to the game.
Return ==
  /\ want # Nowhere
  /\ \/ stack = <<>> /\ Found(want)
     \/ Depth = 1 /\ stack[1].todo = {}
  /\ want' = Nowhere /\ stack' = <<>> /\ tries' = 0
  /\ UNCHANGED <<mem, tagVars, cache, ptr, lo, hi, top, writes>>

--------------------------------------------------------------------------
(* The game *)

Running == want = Nowhere /\ tries = 0

\* block_lookup_address_arm, for an indirect branch.
Jump(w) ==
  /\ Running
  /\ want' = w
  /\ UNCHANGED <<mem, tagVars, cache, ptr, lo, hi, tries, stack, top, writes>>

\* A store, or a DMA to several locations, flushes when it wrote over code; the
\* code goes on with a lookup.
Store(from, to, i) ==
  /\ Running /\ writes < MaxWrites
  /\ writes' = writes + 1
  /\ mem' = [w \in Words |-> IF w \in from .. to THEN i ELSE mem[w]]
  /\ IF \E w \in from .. to : tag[w] # Data
     THEN Flush(tag, lo, hi) ELSE UNCHANGED <<tag, ntags, ptr, lo, hi>>
  /\ UNCHANGED <<off, cache, want, tries, stack, top>>

\* flush_dynarec_caches: a save state was loaded, or the interpreter ran.
Reload ==
  /\ Running /\ writes < MaxWrites
  /\ writes' = writes + 1
  /\ mem' \in [Words -> Insns]
  /\ Flush(tag, 0, Whole)
  /\ UNCHANGED <<off, cache, want, tries, stack, top>>

Next ==
  \/ LookUp \/ LinkExit \/ LinkBlock \/ Return \/ Reload
  \/ \E w \in Words : Jump(w)
  \/ \E from, to \in Words, i \in Insns : from <= to /\ Store(from, to, i)

Spec == Init /\ [][Next]_vars
--------------------------------------------------------------------------
(* Properties *)

\* The variables keep their types.
TypeOK ==
  /\ mem \in [Words -> Insns]
  /\ tag \in [Words -> {Code, Data} \cup Tags]
  /\ ntags \in Nat /\ ptr \in Nat /\ top \in Nat /\ writes \in Nat
  /\ off \in [Tags -> Nat]
  /\ lo \in 0 .. Whole /\ hi \in 0 .. Whole
  /\ want \in Words \cup {Nowhere} /\ tries \in 0 .. MaxTries

\* Emitted code never runs into the table of offsets that grows towards it, also when
\* a translation is only found not to fit after it was written.
NoOverrun ==
  /\ ptr + TagCost * ntags <= Size
  /\ top <= Size

\* What a lookup finds is the translation of what the location holds now, and its
\* exits lead to translations of what their targets hold now: "on writes that
\* overwrite code, cache is flushed and execution re-started".
Fresh(o, w) ==
  /\ o \in Places /\ cache[o].pc = w
  /\ \A i \in DOMAIN cache[o].text : cache[o].text[i] = mem[w + i - 1]

CodeFresh ==
  \A w \in Words : Found(w) =>
    LET o == off[tag[w]] IN
    /\ Fresh(o, w)
    /\ \A p \in DOMAIN cache[o].link :
         \/ cache[o].link[p] = Nowhere /\ stack # <<>>
         \/ Fresh(cache[o].link[p], Target(mem[p]))

\* Every location a translation was made from is tagged, so that a store to it is seen.
CodeTagged ==
  \A w \in Words : Found(w) =>
    \A i \in DOMAIN cache[off[tag[w]]].text : tag[w + i - 1] # Data

\* Two locations never share an entry of the table.
NoSharedTag ==
  \A v, w \in Words : Valid(tag[v]) /\ tag[v] = tag[w] => v = w

\* A lookup that fails, fails because the cache was full: the flush makes room, and
\* block_lookup_address_arm does not run out of tries ("bad jump").
NoBadJump == tries < MaxTries

\* A tag leads to the one block that starts where it stands, and a store to any
\* instruction of a block meets a tag (smc_write and block_lookup_translate).
TagsRight == NoSharedTag /\ CodeTagged
=============================================================================
