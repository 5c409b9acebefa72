--------------------------- MODULE JitCacheProofs ---------------------------
(* JitCache for caches, blocks and code of any size: emitted code never       *)
(* reaches the table of offsets, however blocks nest and wherever the limit   *)
(* is found to be passed; and what a lookup finds is the translation of what  *)
(* the RAM holds, with every location of it tagged.                           *)
EXTENDS JitCache, WellFoundedInduction, TLAPS

(* Code kept stays the threshold below the table, which leaves room for what  *)
(* is written before the limit is looked at again.                            *)
CacheInv ==
  /\ ptr \in Nat /\ ntags \in Nat /\ top \in Nat
  /\ ptr + Threshold + TagCost * ntags <= Size
  /\ top <= Size

USE JitCacheAssumption

\* The table with one more tag: allocate_tag adds at most one entry.
LEMMA Table ==
  ASSUME ntags \in Nat, NEW w
  PROVE  /\ TagsWith(w) \in Nat /\ TagCost * TagsWith(w) \in Nat
         /\ TagCost * ntags \in Nat
         /\ TagCost * TagsWith(w) <= TagCost * ntags + TagCost
         /\ Limit(w) = Size - Threshold - TagCost * TagsWith(w)
<1>1. TagsWith(w) \in {ntags, ntags + 1}
  BY DEF TagsWith
<1>2. TagCost * (ntags + 1) = TagCost * ntags + TagCost
  OBVIOUS
<1>3. TagCost * ntags \in Nat /\ TagCost * (ntags + 1) \in Nat
  OBVIOUS
<1>4. Limit(w) = Size - Threshold - TagCost * TagsWith(w)
  BY DEF Limit
<1> QED BY <1>1, <1>2, <1>3, <1>4

\* Each instruction of translate_block_arm's loop adds its code.
LEMMA OneMore ==
  ASSUME ptr \in Nat, NEW m \in Nat \ {0}
  PROVE  /\ After(m) \in Nat /\ After(m - 1) \in Nat
         /\ After(m) = After(m - 1) + InsnCost
         /\ After(1) = ptr + Prologue + InsnCost
<1>1. m * InsnCost \in Nat /\ (m - 1) * InsnCost \in Nat
  OBVIOUS
<1>2. m * InsnCost = (m - 1) * InsnCost + InsnCost
  OBVIOUS
<1>3. 1 * InsnCost = InsnCost
  OBVIOUS
<1> QED BY <1>1, <1>2, <1>3 DEF After

\* Code that passes the limit passes it by no more than the threshold.
LEMMA PassedBy ==
  ASSUME ptr \in Nat, ntags \in Nat, NEW w, NEW n \in Nat \ {0}, NEW m \in 1 .. n,
         ptr <= Limit(w), Emitted(w, n, m)
  PROVE  EmittedTo(w, m) \in Nat /\ EmittedTo(w, m) <= Limit(w) + Threshold
<1>1. Limit(w) \in Int
  BY Table
<1>2. m \in Nat \ {0}
  OBVIOUS
<1>3. After(m) \in Nat /\ After(m - 1) \in Nat /\ After(m) = After(m - 1) + InsnCost
      /\ After(1) = ptr + Prologue + InsnCost
  BY <1>2, OneMore
<1>4. After(m) <= Limit(w) + Prologue + InsnCost
  <2>1. CASE m = 1
    BY <2>1, <1>1, <1>3
  <2>2. CASE m # 1
    <3>1. m - 1 \in 1 .. (m - 1)
      BY <2>2
    <3>2. After(m - 1) <= Limit(w)
      BY <3>1 DEF Emitted
    <3> QED BY <3>2, <1>1, <1>3
  <2> QED BY <2>1, <2>2
<1>5. CASE After(m) > Limit(w)
  BY <1>5, <1>1, <1>3, <1>4 DEF EmittedTo
<1>6. CASE ~(After(m) > Limit(w))
  BY <1>6, <1>1, <1>3 DEF EmittedTo
<1> QED BY <1>5, <1>6

\* The caches are consistent when they are empty.
LEMMA InitCache == Init => CacheInv
<1>1. TagCost * 0 = 0
  OBVIOUS
<1> QED BY <1>1 DEF Init, CacheInv

\* A flush leaves an empty cache.
LEMMA FlushedCache ==
  ASSUME NEW tags, NEW from, NEW to, Flush(tags, from, to), top' \in Nat, top' <= Size
  PROVE  CacheInv'
<1>1. ptr' = 0 /\ ntags' = 0
  BY DEF Flush
<1>2. TagCost * 0 = 0
  OBVIOUS
<1> QED BY <1>1, <1>2 DEF CacheInv

\* Every step keeps the caches consistent.
LEMMA NextCache == CacheInv /\ [Next]_vars => CacheInv'
<1> SUFFICES ASSUME CacheInv, [Next]_vars PROVE CacheInv'
  OBVIOUS
<1>0. ptr \in Nat /\ ntags \in Nat /\ top \in Nat
      /\ ptr + Threshold + TagCost * ntags <= Size /\ top <= Size
  BY DEF CacheInv
<1>1. ASSUME NEW w, NoRoom(w) PROVE CacheInv'
  <2>1. top' = ptr + TagCost * TagsWith(w)
    BY <1>1 DEF NoRoom
  <2>2. top' \in Nat /\ top' <= Size
    BY <2>1, <1>0, Table
  <2>3. Flush(WithTag(w), lo, hi)
    BY <1>1 DEF NoRoom
  <2> QED BY <2>2, <2>3, FlushedCache
<1>2. ASSUME NEW w, Overrun(w) PROVE CacheInv'
  <2>1. PICK n \in 1 .. MaxBlock, m \in 1 .. MaxBlock :
          /\ m <= n /\ ptr <= Limit(w) /\ Emitted(w, n, m)
          /\ Flush(Scanned(w, n), Smaller(lo, w), Larger(hi, w + m - 1))
          /\ top' = EmittedTo(w, m) + TagCost * TagsWith(w)
    BY <1>2 DEF Overrun
  <2>2. n \in Nat \ {0} /\ m \in 1 .. n
    BY <2>1
  <2>3. EmittedTo(w, m) \in Nat /\ EmittedTo(w, m) <= Limit(w) + Threshold
    BY <2>1, <2>2, <1>0, PassedBy
  <2>4. top' \in Nat /\ top' <= Size
    BY <2>1, <2>3, <1>0, Table
  <2> QED BY <2>1, <2>4, FlushedCache
<1>3. ASSUME NEW w, Translate(w) PROVE CacheInv'
  <2>1. PICK n \in 1 .. MaxBlock :
          /\ After(n) + GateCost <= Limit(w)
          /\ ntags' = TagsWith(w)
          /\ ptr' = After(n) + GateCost /\ top' = ptr' + TagCost * ntags'
    BY <1>3 DEF Translate, Fits
  <2>2. After(n) \in Nat
    BY <1>0, OneMore
  <2>3. ptr' + Threshold + TagCost * ntags' <= Size
    BY <2>1, <2>2, <1>0, Table
  <2>4. ntags' \in Nat /\ ptr' \in Nat /\ TagCost * ntags' \in Nat
    BY <2>1, <2>2, <1>0, Table
  <2> QED BY <2>1, <2>3, <2>4 DEF CacheInv
<1>4. CASE LookUp
  BY <1>4, <1>1, <1>2, <1>3 DEF LookUp
<1>5. CASE LinkExit
  BY <1>5, <1>0 DEF LinkExit, tagVars, CacheInv
<1>6. CASE LinkBlock
  BY <1>6, <1>0 DEF LinkBlock, tagVars, CacheInv
<1>7. CASE Return
  BY <1>7, <1>0 DEF Return, tagVars, CacheInv
<1>8. CASE Reload
  <2>1. Flush(tag, 0, Whole) /\ top' = top
    BY <1>8 DEF Reload
  <2> QED BY <2>1, <1>0, FlushedCache
<1>9. ASSUME NEW w \in Words, Jump(w) PROVE CacheInv'
  BY <1>9, <1>0 DEF Jump, tagVars, CacheInv
<1>10. ASSUME NEW from, NEW to, NEW i, Store(from, to, i) PROVE CacheInv'
  <2>1. top' = top
    BY <1>10 DEF Store
  <2>2. CASE Flush(tag, lo, hi)
    BY <2>1, <2>2, <1>0, FlushedCache
  <2>3. CASE ntags' = ntags /\ ptr' = ptr
    BY <2>1, <2>3, <1>0 DEF CacheInv
  <2> QED BY <1>10, <2>2, <2>3 DEF Store
<1>11. CASE UNCHANGED vars
  BY <1>11, <1>0 DEF vars, tagVars, CacheInv
<1> QED BY <1>4, <1>5, <1>6, <1>7, <1>8, <1>9, <1>10, <1>11 DEF Next

\* The caches are always consistent.
LEMMA CacheAlways == Spec => []CacheInv
BY InitCache, NextCache, PTL DEF Spec

\* Code emitted into the RAM cache (ram_translation_ptr) never runs into the table of
\* offsets that grows down from its end (get_ram_tag): not the code that is kept, nor
\* the code of a translation that translate_block_arm finds too long and gives up.
THEOREM CodeBelowTable == Spec => []NoOverrun
<1>1. CacheInv => NoOverrun
  <2> SUFFICES ASSUME CacheInv PROVE NoOverrun
    OBVIOUS
  <2>1. TagCost * ntags \in Nat
    BY DEF CacheInv
  <2> QED BY <2>1 DEF CacheInv, NoOverrun
<1> QED BY <1>1, CacheAlways, PTL

--------------------------------------------------------------------------
(* The blocks that are kept, and the tags that lead to them *)

Begun(o) == o \in Places /\ o < ptr /\ cache[o].pc # Nowhere

\* An offset is that of the block translated for a location.
Leads(o, w) == o \in Places /\ o < ptr /\ cache[o].pc = w

\* A block has the instructions of the RAM from its location on, and all are tagged.
Translated(o) ==
  LET b == cache[o] IN
  /\ b = [pc |-> b.pc, text |-> b.text, link |-> b.link]
  /\ b.link = [p \in DOMAIN b.link |-> b.link[p]]
  /\ b.pc \in Words
  /\ \A i \in DOMAIN b.text :
       /\ b.pc + i - 1 \in Words
       /\ b.text[i] = mem[b.pc + i - 1] /\ tag[b.pc + i - 1] # Data

\* An exit leads to its target's block, or is still to be linked by a caller.
Linked(o) ==
  LET b == cache[o] IN
  \A p \in DOMAIN b.link :
    /\ p \in Words /\ tag[p] # Data /\ Target(mem[p]) \in Words
    /\ \/ b.link[p] = Nowhere /\ \E j \in DOMAIN stack : stack[j].at = o /\ p \in stack[j].todo
       \/ Leads(b.link[p], Target(mem[p]))

Blocks == \A o \in Places : Begun(o) => Translated(o) /\ Linked(o)

\* The tags that are given out lie where code was seen, and lead to their blocks.
TagInv ==
  /\ \A v \in Words : Valid(tag[v]) => tag[v] <= ntags /\ lo <= v /\ v <= hi
  /\ \A v, w \in Words : Valid(tag[v]) /\ tag[v] = tag[w] => v = w
  /\ \A w \in Words : Found(w) => Leads(off[tag[w]], w)

\* Each block being linked was begun for the exit its caller is about to link.
Frames ==
  /\ stack \in Seq([at : Places, todo : SUBSET Words])
  /\ want = Nowhere => stack = <<>>
  /\ \A j \in 1 .. Len(stack) :
       Begun(stack[j].at) /\ stack[j].todo \subseteq DOMAIN cache[stack[j].at].link
  /\ \A j \in 1 .. Len(stack) - 1 :
       stack[j].todo # {} /\ cache[stack[j + 1].at].pc = Target(mem[Least(stack[j].todo)])

CacheTypeInv ==
  /\ TypeOK
  /\ DOMAIN cache = Places
  /\ want # Nowhere => tries < MaxTries
  /\ \A o \in Places : cache[o].pc \in Words \cup {Nowhere}

FreshInv == CacheInv /\ CacheTypeInv /\ TagInv /\ Blocks /\ Frames

\* A translation that finds no room for its block's tag lies where a flush will clear it.
RoomForTag ==
  \A w \in Wanted : ~Found(w) /\ ptr > Limit(w) => w \in Cleared(lo, hi)

\* Words, their offsets and the size of the memory, from the constants.
LEMMA Locations ==
  /\ Words \subseteq Nat /\ Nowhere \notin Words /\ Nowhere \in Int
  /\ \A w \in Words : First <= w /\ w <= Last
  /\ Places \subseteq Nat /\ \A o \in Places : o # Nowhere
  /\ Whole \in Nat /\ Whole = Last + 1
BY DEF Words, Nowhere, Places, Whole

\* The least of a set of numbers is one of them.
LEMMA LeastIn ==
  ASSUME NEW S, S \subseteq Nat, S # {}
  PROVE  Least(S) \in S
<1>1. \E q \in S : \A r \in S : ~(<<r, q>> \in OpToRel(<, Nat))
  BY NatLessThanWellFounded, WFMin
<1>2. \A r, q \in S : <<r, q>> \in OpToRel(<, Nat) <=> r < q
  BY DEF OpToRel
<1>3. \E q \in S : \A r \in S : ~(r < q)
  BY <1>1, <1>2, Zenon
<1>4. \E q \in S : \A r \in S : q <= r
  BY <1>3
<1> QED BY <1>4 DEF Least

\* flush_translation_cache_ram clears every tag given out, when no code lies at offset 0.
LEMMA ClearsSeen ==
  ASSUME First > 0, NEW from \in 0 .. Whole, NEW to \in 0 .. Whole,
         NEW v \in Words, from <= v, v <= to
  PROVE  v \in Cleared(from, to)
<1>1. from \in Nat /\ to \in Nat /\ v \in Nat /\ v > 0 /\ to # 0
  BY Locations
<1> DEFINE r == from % Align
<1>2. r \in Nat
  BY <1>1
<1>3. from - r <= v /\ v < to + Slack
  <2> HIDE DEF r
  <2> QED BY <1>1, <1>2
<1> QED BY <1>1, <1>3 DEF Cleared

\* A flush of every tag given out leaves no block and no tag.
LEMMA FlushFresh ==
  ASSUME FreshInv, CacheInv',
         NEW tags \in [Words -> {Code, Data} \cup Tags], NEW from, NEW to,
         \A v \in Words : Valid(tags[v]) => v \in Cleared(from, to),
         Flush(tags, from, to), stack' = <<>>,
         mem' \in [Words -> Insns], off' \in [Tags -> Nat],
         want' \in Words \cup {Nowhere}, tries' \in 0 .. MaxTries, writes' \in Nat,
         want' # Nowhere => tries' < MaxTries,
         DOMAIN cache' = Places, \A o \in Places : cache'[o].pc \in Words \cup {Nowhere}
  PROVE  FreshInv'
<1>1. /\ tag' = [w \in Words |-> IF w \in Cleared(from, to) THEN Data ELSE tags[w]]
      /\ ntags' = 0 /\ ptr' = 0 /\ lo' = Whole /\ hi' = 0
  BY DEF Flush
<1>2. \A v \in Words : ~Valid(tag'[v])
  BY <1>1 DEF Valid, Data
<1>3. CacheTypeInv'
  BY <1>1, Locations DEF CacheTypeInv, TypeOK, CacheInv, Data
<1>4. TagInv'
  BY <1>2 DEF TagInv, Found
<1>5. Blocks' /\ Frames'
  BY <1>1, Locations DEF Blocks, Begun, Frames
<1> QED BY <1>3, <1>4, <1>5 DEF FreshInv

\* No code is stale when there is none.
LEMMA FreshStart == Init => FreshInv
<1> SUFFICES ASSUME Init PROVE FreshInv
  OBVIOUS
<1>1. CacheTypeInv
  BY Locations DEF Init, CacheTypeInv, TypeOK, Data, Empty
<1>2. TagInv
  BY DEF Init, TagInv, Found, Valid, Data
<1>3. Blocks /\ Frames
  BY Locations DEF Init, Blocks, Begun, Frames
<1> QED BY <1>1, <1>2, <1>3, InitCache DEF FreshInv

\* The location that is looked up is one of the code's.
LEMMA WantedWord ==
  ASSUME FreshInv, NEW w \in Wanted
  PROVE  /\ w \in Words /\ want # Nowhere /\ want \in Words
         /\ Depth \in Nat
         /\ stack # <<>> => /\ Depth > 0 /\ stack[Depth] \in [at : Places, todo : SUBSET Words]
                            /\ stack[Depth].todo # {} /\ Exit \in stack[Depth].todo
                            /\ w = Target(mem[Exit])
<1>1. want # Nowhere /\ want \in Words /\ stack \in Seq([at : Places, todo : SUBSET Words])
  BY DEF Wanted, FreshInv, CacheTypeInv, TypeOK, Frames
<1>2. Depth \in Nat
  BY <1>1 DEF Depth
<1>3. CASE stack = <<>>
  BY <1>1, <1>2, <1>3 DEF Wanted
<1>4. CASE stack # <<>>
  <2>1. Depth > 0 /\ Depth \in 1 .. Len(stack)
    BY <1>1, <1>2, <1>4 DEF Depth
  <2>2. stack[Depth] \in [at : Places, todo : SUBSET Words]
    <3> DEFINE S == [at : Places, todo : SUBSET Words]
    <3>1. stack \in Seq(S)
      BY <1>1
    <3> HIDE DEF S
    <3>2. stack[Depth] \in S
      BY <3>1, <2>1
    <3> QED BY <3>2 DEF S
  <2>3. stack[Depth].todo # {} /\ w = Target(mem[Exit])
    BY <1>1, <1>4 DEF Wanted
  <2>4. Exit \in stack[Depth].todo
    BY <2>2, <2>3, Locations, LeastIn DEF Exit
  <2>5. /\ Begun(stack[Depth].at)
        /\ stack[Depth].todo \subseteq DOMAIN cache[stack[Depth].at].link
    BY <2>1 DEF FreshInv, Frames
  <2>6. Linked(stack[Depth].at)
    BY <2>2, <2>5 DEF FreshInv, Blocks
  <2>7. w \in Words
    BY <2>3, <2>4, <2>5, <2>6 DEF Linked
  <2> QED BY <1>1, <1>2, <1>4, <2>1, <2>2, <2>3, <2>4, <2>7
<1> QED BY <1>3, <1>4

\* A new tag is an entry of the table, and no other location has it.
LEMMA NewTag ==
  ASSUME FreshInv, NEW w \in Words
  PROVE  /\ ntags \in Nat /\ TagOf(w) \in Tags /\ TagsWith(w) \in Nat
         /\ TagOf(w) <= TagsWith(w) /\ ntags <= TagsWith(w)
         /\ Valid(TagOf(w))
         /\ WithTag(w) \in [Words -> {Code, Data} \cup Tags]
         /\ WithTag(w)[w] = TagOf(w) /\ \A v \in Words : v # w => WithTag(w)[v] = tag[v]
         /\ \A v \in Words : v # w => tag[v] # TagOf(w)
<1>1. ntags \in Nat /\ tag \in [Words -> {Code, Data} \cup Tags]
  BY DEF FreshInv, CacheTypeInv, TypeOK
<1>2. ntags <= Size
  <2>1. ntags <= TagCost * ntags
    BY <1>1
  <2>2. TagCost * ntags \in Nat
    BY <1>1
  <2> QED BY <2>1, <2>2, <1>1 DEF FreshInv, CacheInv
<1>3. CASE Valid(tag[w])
  <2>1. tag[w] \in Tags /\ tag[w] <= ntags
    BY <1>1, <1>3 DEF Valid, Data, Code, FreshInv, TagInv
  <2>2. \A v \in Words : v # w => tag[v] # tag[w]
    BY <1>3 DEF FreshInv, TagInv
  <2> QED BY <1>1, <1>3, <2>1, <2>2 DEF TagOf, TagsWith, WithTag
<1>4. CASE ~Valid(tag[w])
  <2>1. ntags + 1 \in Tags /\ Valid(ntags + 1)
    BY <1>1, <1>2 DEF Tags, Valid, Data
  <2>2. \A v \in Words : tag[v] # ntags + 1
    <3> SUFFICES ASSUME NEW v \in Words, tag[v] = ntags + 1 PROVE FALSE
      OBVIOUS
    <3>1. Valid(tag[v])
      BY <2>1
    <3>2. tag[v] <= ntags
      BY <3>1 DEF FreshInv, TagInv
    <3> QED BY <3>2, <1>1
  <2> QED BY <1>1, <1>4, <2>1, <2>2 DEF TagOf, TagsWith, WithTag
<1> QED BY <1>3, <1>4

\* A block of n instructions lies in the RAM, and scanning tags it, and nothing else anew.
LEMMA ScanTags ==
  ASSUME FreshInv, NEW w \in Words, NEW n \in 1 .. MaxBlock, IsBlock(w, n)
  PROVE  /\ n \in Nat /\ n > 0 /\ w .. (w + n - 1) \subseteq Words
         /\ Scanned(w, n) \in [Words -> {Code, Data} \cup Tags]
         /\ \A v \in Words : v # w => Scanned(w, n)[v] = tag[v] \/ Scanned(w, n)[v] = Code
         /\ \A v \in Words : tag[v] # Data => v = w \/ Scanned(w, n)[v] = tag[v]
         /\ Scanned(w, n)[w] = TagOf(w)
         /\ \A v \in w .. (w + n - 1) : Scanned(w, n)[v] # Data
<1>1. n \in Nat /\ n > 0 /\ w \in Nat
  BY Locations
<1>2. w + n - 1 <= Last
  <2> SUFFICES ASSUME w + n - 1 > Last PROVE FALSE
    BY <1>1
  <2>1. w <= Last
    BY Locations
  <2>2. n - 1 \in 1 .. (n - 1)
    BY <1>1, <2>1
  <2>3. StopsAfter(w, n - 1)
    BY <1>1, <2>1 DEF StopsAfter
  <2> QED BY <2>2, <2>3 DEF IsBlock
<1>3. w .. (w + n - 1) \subseteq Words
  BY <1>1, <1>2, Locations DEF Words
<1>4. /\ WithTag(w) \in [Words -> {Code, Data} \cup Tags]
      /\ WithTag(w)[w] = TagOf(w) /\ \A v \in Words : v # w => WithTag(w)[v] = tag[v]
      /\ TagOf(w) # Data
  BY NewTag DEF Valid, Data
<1>5. Code # Data
  BY DEF Code, Data
<1> QED BY <1>1, <1>3, <1>4, <1>5 DEF Scanned

\* The cache has no room for a block: its tag goes with the others.
LEMMA NoRoomKeeps ==
  ASSUME FreshInv, First > 0, RoomForTag, NEW w \in Wanted, ~Found(w), NoRoom(w), CacheInv'
  PROVE  FreshInv'
<1>1. w \in Words /\ want # Nowhere /\ want \in Words
  BY WantedWord
<1>2. /\ Tagged(w) /\ Flush(WithTag(w), lo, hi) /\ GiveUp /\ ptr > Limit(w)
      /\ mem' = mem /\ cache' = cache /\ writes' = writes
  BY DEF NoRoom
<1>3. ptr \in Nat /\ tries \in 0 .. MaxTries /\ tries < MaxTries /\ off \in [Tags -> Nat]
      /\ mem \in [Words -> Insns] /\ writes \in Nat /\ lo \in 0 .. Whole /\ hi \in 0 .. Whole
      /\ DOMAIN cache = Places /\ \A o \in Places : cache[o].pc \in Words \cup {Nowhere}
  BY <1>1 DEF FreshInv, CacheTypeInv, TypeOK
<1>4. WithTag(w) \in [Words -> {Code, Data} \cup Tags] /\ TagOf(w) \in Tags
  BY <1>1, NewTag
<1>5. ASSUME NEW v \in Words, Valid(WithTag(w)[v]) PROVE v \in Cleared(lo, hi)
  <2>1. CASE v = w
    BY <1>2, <2>1 DEF RoomForTag
  <2>2. CASE v # w
    <3>1. Valid(tag[v])
      BY <1>1, <1>5, <2>2, NewTag
    <3>2. lo <= v /\ v <= hi
      BY <3>1 DEF FreshInv, TagInv
    <3> QED BY <3>2, <1>3, ClearsSeen
  <2> QED BY <2>1, <2>2
<1>6. off' \in [Tags -> Nat]
  BY <1>2, <1>3, <1>4 DEF Tagged
<1>7. stack' = <<>> /\ tries' \in 0 .. MaxTries /\ want' \in Words \cup {Nowhere}
      /\ (want' # Nowhere => tries' < MaxTries)
  BY <1>1, <1>2, <1>3 DEF GiveUp
<1> QED BY <1>2, <1>3, <1>4, <1>5, <1>6, <1>7, FlushFresh

\* The block turns out too long: of its tags only those of code it did not emit may stay,
\* and those are no block's.
LEMMA OverrunKeeps ==
  ASSUME FreshInv, First > 0, NEW w \in Wanted, Overrun(w), CacheInv'
  PROVE  FreshInv'
<1>1. w \in Words /\ want # Nowhere /\ want \in Words
  BY WantedWord
<1>2. PICK n \in 1 .. MaxBlock, m \in 1 .. MaxBlock :
        /\ IsBlock(w, n) /\ m <= n
        /\ Tagged(w) /\ GiveUp
        /\ Flush(Scanned(w, n), Smaller(lo, w), Larger(hi, w + m - 1))
        /\ cache' = Written(ptr, EmittedTo(w, m), Nowhere, Empty)
        /\ mem' = mem /\ writes' = writes
  BY DEF Overrun
<1>3. tries \in 0 .. MaxTries /\ tries < MaxTries /\ off \in [Tags -> Nat] /\ ptr \in Nat
      /\ mem \in [Words -> Insns] /\ writes \in Nat /\ lo \in 0 .. Whole /\ hi \in 0 .. Whole
      /\ DOMAIN cache = Places /\ \A o \in Places : cache[o].pc \in Words \cup {Nowhere}
  BY <1>1 DEF FreshInv, CacheTypeInv, TypeOK
<1>4. TagOf(w) \in Tags /\ Scanned(w, n) \in [Words -> {Code, Data} \cup Tags]
  BY <1>1, <1>2, NewTag, ScanTags
<1> DEFINE from == Smaller(lo, w)
           to == Larger(hi, w + m - 1)
<1>5. w + m - 1 \in Words /\ w <= w + m - 1
  <2>1. w .. (w + n - 1) \subseteq Words /\ w \in Nat
    BY <1>1, <1>2, ScanTags, Locations
  <2>2. w + m - 1 \in w .. (w + n - 1)
    BY <1>2, <2>1
  <2> QED BY <2>1, <2>2
<1>6. /\ from \in 0 .. Whole /\ to \in 0 .. Whole
      /\ from <= lo /\ hi <= to /\ from <= w /\ w <= to
  BY <1>1, <1>3, <1>5, Locations DEF Smaller, Larger
<1> HIDE DEF from, to
<1>7. ASSUME NEW v \in Words, Valid(Scanned(w, n)[v]) PROVE v \in Cleared(from, to)
  <2>1. from <= v /\ v <= to
    <3>1. CASE v = w
      BY <1>6, <3>1
    <3>2. CASE v # w
      <4>1. Valid(tag[v])
        <5>1. Scanned(w, n)[v] = tag[v] \/ Scanned(w, n)[v] = Code
          BY <1>1, <1>2, <3>2, ScanTags
        <5> QED BY <1>7, <5>1 DEF Valid, Code, Data
      <4>2. lo <= v /\ v <= hi
        BY <4>1 DEF FreshInv, TagInv
      <4> QED BY <4>2, <1>3, <1>6, Locations
    <3> QED BY <3>1, <3>2
  <2> QED BY <2>1, <1>6, ClearsSeen
<1>8. off' \in [Tags -> Nat]
  BY <1>2, <1>3, <1>4 DEF Tagged
<1>9. stack' = <<>> /\ tries' \in 0 .. MaxTries /\ want' \in Words \cup {Nowhere}
      /\ (want' # Nowhere => tries' < MaxTries)
  BY <1>1, <1>2, <1>3 DEF GiveUp
<1>10. DOMAIN cache' = Places /\ \A o \in Places : cache'[o].pc \in Words \cup {Nowhere}
  BY <1>2, <1>3, Locations DEF Written, Empty
<1>11. Flush(Scanned(w, n), from, to)
  BY <1>2 DEF from, to
<1> QED BY <1>2, <1>3, <1>4, <1>7, <1>8, <1>9, <1>10, <1>11, FlushFresh

\* Blocks stay, and their exits lead where they led, when the cache below ptr, the RAM
\* under them and the tags of it stay.
LEMMA BlockStays ==
  ASSUME NEW o, Begun(o), Translated(o), ptr \in Nat, ptr' \in Nat, ptr <= ptr',
         cache'[o] = cache[o],
         \A v \in Words : tag[v] # Data => tag'[v] # Data /\ mem'[v] = mem[v]
  PROVE  Begun(o)' /\ Translated(o)'
<1>1. Begun(o)'
  BY Locations DEF Begun
<1>2. Translated(o)'
  BY DEF Translated
<1> QED BY <1>1, <1>2

\* The size of the table of tags is a number.
LEMMA TableSize == \A k \in Nat : TagCost * k \in Nat
OBVIOUS

\* Code that leaves the threshold free lies below the table of tags.
LEMMA BelowTable ==
  ASSUME NEW p \in Nat, NEW k \in Nat, p + Threshold + k <= Size
  PROVE  p <= Size
OBVIOUS

LeadsNext(o, w) == o \in Places /\ o < ptr' /\ cache'[o].pc = w

\* A block is begun behind the others, its exits wait on the stack, and its location is
\* tagged with its number.
LEMMA TranslateKeeps ==
  ASSUME FreshInv, NEW w \in Wanted, ~Found(w), Translate(w), CacheInv'
  PROVE  FreshInv'
<1>1. w \in Words /\ want # Nowhere /\ want \in Words /\ Depth \in Nat
  BY WantedWord
<1>2. PICK n \in 1 .. MaxBlock :
        /\ IsBlock(w, n) /\ Tagged(w)
        /\ tag' = Scanned(w, n) /\ ntags' = TagsWith(w)
        /\ lo' = Smaller(lo, w) /\ hi' = Larger(hi, w + n - 1)
        /\ ptr' = After(n) + GateCost
        /\ cache' = Written(ptr, ptr', ptr + Prologue,
                            [pc |-> w, text |-> [i \in 1 .. n |-> mem[w + i - 1]],
                             link |-> [p \in External(w, n) |-> Nowhere]])
        /\ stack' = Append(stack, [at |-> ptr + Prologue, todo |-> External(w, n)])
        /\ mem' = mem /\ want' = want /\ tries' = tries /\ writes' = writes
  BY DEF Translate
<1>3. tries \in 0 .. MaxTries /\ tries < MaxTries /\ off \in [Tags -> Nat] /\ ptr \in Nat
      /\ mem \in [Words -> Insns] /\ writes \in Nat /\ lo \in 0 .. Whole /\ hi \in 0 .. Whole
      /\ DOMAIN cache = Places /\ \A o \in Places : cache[o].pc \in Words \cup {Nowhere}
      /\ stack \in Seq([at : Places, todo : SUBSET Words])
  BY <1>1 DEF FreshInv, CacheTypeInv, TypeOK, Frames
<1>0. PICK at : at = ptr + Prologue
  OBVIOUS
<1> DEFINE block == [pc |-> w, text |-> [i \in 1 .. n |-> mem[w + i - 1]],
                     link |-> [p \in External(w, n) |-> Nowhere]]
\* where the block lies
<1>4. ptr <= at /\ at < ptr' /\ at \in Places /\ ptr' \in Nat
  <2>1. n \in Nat /\ n > 0
    BY <1>1, <1>2, ScanTags
  <2>2. n * InsnCost \in Nat /\ n * InsnCost > 0
    BY <2>1
  <2>3. ptr' = ptr + Prologue + n * InsnCost + GateCost
    BY <1>2 DEF After
  <2>4. ptr' <= Size
    <3>1. ptr' \in Nat /\ ntags' \in Nat /\ ptr' + Threshold + TagCost * ntags' <= Size
      BY DEF CacheInv
    <3>2. TagCost * ntags' \in Nat
      BY <3>1, TableSize
    <3> QED BY <3>1, <3>2, BelowTable
  <2>5. ASSUME NEW code \in Nat, code > 0, ptr' = ptr + Prologue + code + GateCost
        PROVE  ptr <= at /\ at < ptr' /\ at \in 0 .. Size /\ ptr' \in Nat
    BY <1>0, <1>3, <2>4, <2>5
  <2> QED BY <2>2, <2>3, <2>5 DEF Places
<1>5. /\ cache'[at] = block
      /\ \A o \in Places : o < ptr => cache'[o] = cache[o]
      /\ \A o \in Places : o # at /\ o < ptr' =>
           (cache'[o] = cache[o] /\ o < ptr) \/ cache'[o] = Empty
      /\ DOMAIN cache' = Places
  <2> HIDE DEF block
  <2>1. cache' = Written(ptr, ptr', at, block)
    BY <1>0, <1>2 DEF block
  <2>2. \A o \in Places : o \in Nat
    BY Locations
  <2>3. cache' = [o \in Places |-> IF o = at THEN block
                    ELSE IF ptr <= o /\ o < ptr' THEN Empty ELSE cache[o]]
    BY <2>1 DEF Written
  <2>4. ASSUME NEW o \in Places, o < ptr PROVE cache'[o] = cache[o]
    <3>1. o # at /\ ~(ptr <= o)
      BY <1>3, <1>4, <2>2, <2>4
    <3> QED BY <2>3, <3>1
  <2>5. ASSUME NEW o \in Places, o # at, o < ptr'
        PROVE  (cache'[o] = cache[o] /\ o < ptr) \/ cache'[o] = Empty
    <3>1. CASE ptr <= o
      BY <2>3, <2>5, <3>1
    <3>2. CASE o < ptr
      BY <2>4, <3>2
    <3> QED BY <1>3, <2>2, <3>1, <3>2
  <2>6. cache'[at] = block
    BY <1>4, <2>3
  <2>7. DOMAIN cache' = Places
    BY <2>3
  <2> QED BY <2>4, <2>5, <2>6, <2>7
\* what it is tagged with
<1>6. /\ n \in Nat /\ n > 0 /\ w .. (w + n - 1) \subseteq Words
      /\ tag' \in [Words -> {Code, Data} \cup Tags]
      /\ \A v \in Words : v # w => tag'[v] = tag[v] \/ tag'[v] = Code
      /\ \A v \in Words : tag[v] # Data => v = w \/ tag'[v] = tag[v]
      /\ tag'[w] = TagOf(w)
      /\ \A v \in w .. (w + n - 1) : tag'[v] # Data
  BY <1>1, <1>2, ScanTags
<1>7. /\ TagOf(w) \in Tags /\ TagsWith(w) \in Nat /\ ntags \in Nat
      /\ TagOf(w) <= TagsWith(w) /\ ntags <= TagsWith(w) /\ Valid(TagOf(w))
      /\ \A v \in Words : v # w => tag[v] # TagOf(w)
  BY <1>1, NewTag
<1>8. \A v \in Words : v # w /\ Valid(tag'[v]) => tag'[v] = tag[v] /\ Valid(tag[v])
  BY <1>6 DEF Valid, Code, Data
<1>9. \A v \in Words : tag[v] # Data => tag'[v] # Data /\ mem'[v] = mem[v]
  BY <1>2, <1>6, <1>7 DEF Valid, Data
<1>10. w + n - 1 \in Words /\ w <= w + n - 1
  <2>1. w \in Nat
    BY <1>1, Locations
  <2>2. w + n - 1 \in w .. (w + n - 1)
    BY <1>6, <2>1
  <2> QED BY <1>6, <2>1, <2>2
<1>11. /\ lo' \in 0 .. Whole /\ hi' \in 0 .. Whole
       /\ lo' <= lo /\ hi <= hi' /\ lo' <= w /\ w <= hi'
  <2>1. /\ Smaller(lo, w) \in 0 .. Whole /\ Larger(hi, w + n - 1) \in 0 .. Whole
        /\ Smaller(lo, w) <= lo /\ hi <= Larger(hi, w + n - 1)
        /\ Smaller(lo, w) <= w /\ w <= Larger(hi, w + n - 1)
    BY <1>1, <1>3, <1>10, Locations DEF Smaller, Larger
  <2> QED BY <1>2, <2>1
<1>12. CacheTypeInv'
  <2>1. off' \in [Tags -> Nat]
    BY <1>2, <1>3, <1>7 DEF Tagged
  <2>2. \A o \in Places : cache'[o].pc \in Words \cup {Nowhere}
    <3> SUFFICES ASSUME NEW o \in Places PROVE cache'[o].pc \in Words \cup {Nowhere}
      OBVIOUS
    <3>1. cache'[o] = block \/ cache'[o] = Empty \/ cache'[o] = cache[o]
      BY <1>2 DEF Written
    <3> QED BY <1>1, <1>3, <3>1 DEF Empty
  <2>3. top' \in Nat /\ ntags' \in Nat
    BY DEF CacheInv
  <2>4. want' \in Words \cup {Nowhere} /\ tries' \in 0 .. MaxTries /\ tries' < MaxTries
        /\ mem' \in [Words -> Insns] /\ writes' \in Nat
    BY <1>1, <1>2, <1>3
  <2> QED BY <1>4, <1>5, <1>6, <1>11, <2>1, <2>2, <2>3, <2>4 DEF CacheTypeInv, TypeOK
<1>13. \A o : \A v : Leads(o, v) => LeadsNext(o, v)
  BY <1>3, <1>4, <1>5, Locations DEF Leads, LeadsNext
<1>14. LeadsNext(at, w)
  BY <1>4, <1>5 DEF LeadsNext
<1>15. TagInv'
  <2>1. \A v \in Words : Valid(tag'[v]) => tag'[v] <= ntags' /\ lo' <= v /\ v <= hi'
    <3> SUFFICES ASSUME NEW v \in Words, Valid(tag'[v])
                 PROVE  tag'[v] <= ntags' /\ lo' <= v /\ v <= hi'
      OBVIOUS
    <3>1. CASE v = w
      BY <1>2, <1>6, <1>7, <1>11, <3>1
    <3>2. CASE v # w
      <4>1. tag'[v] = tag[v] /\ Valid(tag[v])
        BY <1>8, <3>2
      <4>2. tag[v] <= ntags /\ lo <= v /\ v <= hi /\ tag[v] \in Int /\ v \in Int
        BY <4>1, Locations DEF FreshInv, TagInv, CacheTypeInv, TypeOK, Tags, Code, Data
      <4>3. ntags <= ntags' /\ ntags' \in Nat
        BY <1>2, <1>7
      <4> QED BY <1>3, <1>7, <1>11, <4>1, <4>2, <4>3, SMTT(30)
    <3> QED BY <3>1, <3>2
  <2>2. \A v, u \in Words : Valid(tag'[v]) /\ tag'[v] = tag'[u] => v = u
    <3> SUFFICES ASSUME NEW v \in Words, NEW u \in Words, Valid(tag'[v]), tag'[v] = tag'[u],
                        v # u
                 PROVE  FALSE
      OBVIOUS
    <3>1. CASE v # w /\ u # w
      BY <1>8, <3>1 DEF FreshInv, TagInv
    <3>2. CASE v = w \/ u = w
      BY <1>6, <1>7, <1>8, <3>2
    <3> QED BY <3>1, <3>2
  <2>3. \A v \in Words : Found(v)' => Leads(off[tag[v]], v)'
    <3> SUFFICES ASSUME NEW v \in Words, Valid(tag'[v]), off'[tag'[v]] # 0
                 PROVE  LeadsNext(off'[tag'[v]], v)
      BY DEF Found, Leads, LeadsNext
    <3>1. off' = [off EXCEPT ![TagOf(w)] = at]
      BY <1>0, <1>2 DEF Tagged
    <3>2. CASE v = w
      BY <1>3, <1>6, <1>7, <1>14, <3>1, <3>2
    <3>3. CASE v # w
      <4>1. tag'[v] = tag[v] /\ Valid(tag[v]) /\ tag[v] # TagOf(w)
        BY <1>7, <1>8, <3>3
      <4>2. off'[tag'[v]] = off[tag[v]]
        BY <1>3, <3>1, <4>1
      <4>3. Leads(off[tag[v]], v)
        BY <4>1, <4>2 DEF Found, FreshInv, TagInv
      <4> QED BY <1>13, <4>2, <4>3
    <3> QED BY <3>2, <3>3
  <2> QED BY <2>1, <2>2, <2>3 DEF TagInv
\* the exits of the block
<1>16. \A p \in External(w, n) :
         p \in w .. (w + n - 1) /\ p \in Words /\ Target(mem[p]) \in Words
  BY <1>3, <1>6 DEF External, Recorded
<1> DEFINE S == [at : Places, todo : SUBSET Words]
           f == [at |-> at, todo |-> External(w, n)]
<1>17. /\ Len(stack') = Len(stack) + 1 /\ Len(stack) \in Nat
       /\ \A j \in 1 .. Len(stack) : stack'[j] = stack[j]
       /\ stack'[Len(stack) + 1].at = at /\ stack'[Len(stack) + 1].todo = External(w, n)
       /\ stack' \in Seq(S)
  <2>1. /\ f \in S /\ stack \in Seq(S) /\ stack' = Append(stack, f)
        /\ f.at = at /\ f.todo = External(w, n)
    BY <1>0, <1>2, <1>3, <1>4, <1>16
  <2> HIDE DEF f, S
  <2> QED BY <2>1
<1> HIDE DEF S, f
<1>18. ASSUME NEW o \in Places, Begun(o)' PROVE Translated(o)' /\ Linked(o)'
  <2>1. CASE o = at
    <3>1. cache'[o] = block
      BY <1>5, <2>1
    <3>2. Translated(o)'
      <4>1. /\ block = [pc |-> block.pc, text |-> block.text, link |-> block.link]
            /\ block.link = [p \in DOMAIN block.link |-> block.link[p]]
            /\ block.pc = w
        OBVIOUS
      <4>2. ASSUME NEW i \in DOMAIN block.text
            PROVE  /\ w + i - 1 \in Words /\ block.text[i] = mem'[w + i - 1]
                   /\ tag'[w + i - 1] # Data
        <5>1. i \in 1 .. n /\ block.text[i] = mem[w + i - 1]
          OBVIOUS
        <5>2. w + i - 1 \in w .. (w + n - 1)
          BY <1>1, <1>6, <5>1, Locations
        <5> QED BY <1>2, <1>6, <5>1, <5>2
      <4> HIDE DEF block
      <4> QED BY <1>1, <3>1, <4>1, <4>2 DEF Translated
    <3>3. Linked(o)'
      <4>1. /\ DOMAIN block.link = External(w, n)
            /\ \A p \in External(w, n) : block.link[p] = Nowhere
        OBVIOUS
      <4> HIDE DEF block
      <4>2. /\ Len(stack) + 1 \in DOMAIN stack' /\ stack'[Len(stack) + 1].at = o
            /\ stack'[Len(stack) + 1].todo = External(w, n)
        BY <1>17, <2>1
      <4>3. ASSUME NEW p \in External(w, n)
            PROVE  /\ p \in Words /\ tag'[p] # Data /\ Target(mem'[p]) \in Words
                   /\ \E j \in DOMAIN stack' : stack'[j].at = o /\ p \in stack'[j].todo
        BY <1>2, <1>6, <1>16, <4>2
      <4> QED BY <3>1, <4>1, <4>3 DEF Linked
    <3> QED BY <3>2, <3>3
  <2>2. CASE o # at
    <3>1. cache'[o] = cache[o] /\ o < ptr
      BY <1>5, <1>18, <2>2 DEF Begun, Empty
    <3>2. Begun(o)
      BY <1>18, <3>1 DEF Begun
    <3>3. Translated(o) /\ Linked(o)
      BY <3>2 DEF FreshInv, Blocks
    <3>4. Translated(o)'
      <4>1. ptr <= ptr'
        BY <1>3, <1>4, Locations
      <4> QED BY <1>3, <1>4, <1>9, <3>1, <3>2, <3>3, <4>1, BlockStays
    <3>5. Linked(o)'
      <4>1. \A j \in DOMAIN stack : j \in DOMAIN stack' /\ stack'[j] = stack[j]
        BY <1>3, <1>17, SMTT(30)
      <4> SUFFICES ASSUME NEW p \in DOMAIN cache[o].link
                   PROVE  /\ p \in Words /\ tag'[p] # Data /\ Target(mem'[p]) \in Words
                          /\ \/ /\ cache[o].link[p] = Nowhere
                                /\ \E j \in DOMAIN stack' : stack'[j].at = o /\ p \in stack'[j].todo
                             \/ LeadsNext(cache[o].link[p], Target(mem'[p]))
        BY <3>1 DEF Linked, Leads, LeadsNext
      <4>2. /\ p \in Words /\ tag[p] # Data /\ Target(mem[p]) \in Words
            /\ \/ /\ cache[o].link[p] = Nowhere
                  /\ \E j \in DOMAIN stack : stack[j].at = o /\ p \in stack[j].todo
               \/ Leads(cache[o].link[p], Target(mem[p]))
        BY <3>3 DEF Linked
      <4>3. tag'[p] # Data /\ mem'[p] = mem[p]
        BY <1>9, <4>2
      <4>4. CASE Leads(cache[o].link[p], Target(mem[p]))
        BY <1>13, <4>2, <4>3, <4>4
      <4> QED BY <4>1, <4>2, <4>3, <4>4
    <3> QED BY <3>4, <3>5
  <2> QED BY <2>1, <2>2
<1>19. Frames'
  <2>1. ASSUME NEW j \in 1 .. Len(stack')
        PROVE  /\ Begun(stack[j].at)'
               /\ stack'[j].todo \subseteq DOMAIN cache'[stack'[j].at].link
    <3>1. CASE j = Len(stack) + 1
      <4>1. stack'[j].at = at /\ stack'[j].todo = External(w, n)
        BY <1>17, <3>1
      <4>2. cache'[at].pc = w /\ DOMAIN cache'[at].link = External(w, n)
        BY <1>5
      <4> QED BY <1>1, <1>4, <4>1, <4>2, Locations DEF Begun
    <3>2. CASE j \in 1 .. Len(stack)
      <4>1. /\ stack'[j] = stack[j] /\ Begun(stack[j].at)
            /\ stack[j].todo \subseteq DOMAIN cache[stack[j].at].link
        BY <1>17, <3>2 DEF FreshInv, Frames
      <4>2. cache'[stack[j].at] = cache[stack[j].at]
        BY <1>5, <4>1 DEF Begun
      <4>3. stack[j].at < ptr' /\ stack[j].at \in Places /\ cache[stack[j].at].pc # Nowhere
        <5>1. stack[j].at < ptr /\ stack[j].at \in Places /\ cache[stack[j].at].pc # Nowhere
          BY <4>1 DEF Begun
        <5>2. \A o \in Places : o < ptr => o < ptr'
          BY <1>3, <1>4, Locations, SMTT(30)
        <5> QED BY <5>1, <5>2
      <4>4. Begun(stack[j].at)'
        BY <4>1, <4>2, <4>3 DEF Begun
      <4> QED BY <4>1, <4>2, <4>4
    <3> QED BY <1>17, <3>1, <3>2
  <2>2. ASSUME NEW j \in 1 .. Len(stack') - 1
        PROVE  /\ stack'[j].todo # {}
               /\ cache'[stack'[j + 1].at].pc = Target(mem'[Least(stack'[j].todo)])
    <3>1. CASE j = Len(stack)
      <4>1. stack # <<>> /\ Depth = j
        BY <1>17, <3>1 DEF Depth
      <4>2. stack[j].todo # {} /\ w = Target(mem[Least(stack[j].todo)])
        BY <4>1, WantedWord DEF Exit
      <4>3. stack'[j] = stack[j] /\ stack'[j + 1].at = at /\ cache'[at].pc = w
        <5>1. j \in 1 .. Len(stack)
          BY <1>17, <3>1
        <5> QED BY <1>5, <1>17, <3>1, <5>1
      <4> QED BY <1>2, <4>2, <4>3
    <3>2. CASE j \in 1 .. Len(stack) - 1
      <4>1. j \in 1 .. Len(stack) /\ j + 1 \in 1 .. Len(stack)
        BY <1>17, <3>2
      <4>2. /\ stack'[j] = stack[j] /\ stack'[j + 1] = stack[j + 1]
            /\ Begun(stack[j + 1].at)
            /\ stack[j].todo # {} /\ cache[stack[j + 1].at].pc = Target(mem[Least(stack[j].todo)])
        BY <1>17, <3>2, <4>1 DEF FreshInv, Frames
      <4>3. cache'[stack[j + 1].at] = cache[stack[j + 1].at]
        BY <1>5, <4>2 DEF Begun
      <4> QED BY <1>2, <4>2, <4>3
    <3> QED BY <1>17, <3>1, <3>2
  <2>3. stack' \in Seq([at : Places, todo : SUBSET Words])
    BY <1>17 DEF S
  <2>4. want' # Nowhere
    BY <1>1, <1>2
  <2> QED BY <2>1, <2>2, <2>3, <2>4 DEF Frames
<1> QED BY <1>12, <1>15, <1>18, <1>19 DEF FreshInv, Blocks

\* The exit of a block on the stack is patched: s are the blocks that go on being linked.
LEMMA PatchKeeps ==
  ASSUME FreshInv, CacheInv', want # Nowhere,
         NEW s \in Seq([at : Places, todo : SUBSET Words]), s # <<>>, Len(s) <= Len(stack),
         \A j \in 1 .. Len(s) : s[j] = stack[j],
         \A j \in 1 .. Len(stack) : j > Len(s) => stack[j].todo = {},
         s[Len(s)].todo # {},
         NEW o, Leads(o, Target(mem[Least(s[Len(s)].todo)])), Patched(s, o),
         UNCHANGED <<mem, tagVars, ptr, lo, hi, want, tries, top, writes>>
  PROVE  FreshInv'
<1> DEFINE d == Len(s)
           S == [at : Places, todo : SUBSET Words]
<1>1. PICK a, p : a = s[d].at /\ p = Least(s[d].todo)
  OBVIOUS
<1>2. d \in Nat /\ d > 0 /\ d \in 1 .. Len(stack) /\ s[d] = stack[d] /\ s[d] \in S /\ s \in Seq(S)
      /\ stack \in Seq(S) /\ Len(stack) \in Nat
  <2>1. stack \in Seq(S) /\ s \in Seq(S)
    BY DEF FreshInv, Frames
  <2> HIDE DEF S
  <2>2. d \in Nat /\ d > 0 /\ d \in 1 .. Len(stack) /\ d \in 1 .. Len(s) /\ Len(stack) \in Nat
    BY <2>1
  <2>3. s[d] \in S
    BY <2>1, <2>2
  <2> QED BY <2>1, <2>2, <2>3
<1>3. /\ Begun(a) /\ s[d].todo \subseteq DOMAIN cache[a].link
      /\ p \in s[d].todo /\ a \in Places
  <2>1. Begun(stack[d].at) /\ stack[d].todo \subseteq DOMAIN cache[stack[d].at].link
    BY <1>2 DEF FreshInv, Frames
  <2>2. s[d].todo \subseteq Nat
    BY <1>2, Locations
  <2> QED BY <1>1, <1>2, <2>1, <2>2, LeastIn DEF Begun
<1>4. /\ mem' = mem /\ tag' = tag /\ ntags' = ntags /\ off' = off /\ ptr' = ptr
      /\ lo' = lo /\ hi' = hi /\ want' = want /\ tries' = tries /\ top' = top /\ writes' = writes
  BY DEF tagVars
\* the block
<1>5. /\ DOMAIN cache' = Places
      /\ \A x \in Places : x # a => cache'[x] = cache[x]
      /\ cache'[a].pc = cache[a].pc /\ cache'[a].text = cache[a].text
      /\ cache'[a] = [pc |-> cache'[a].pc, text |-> cache'[a].text, link |-> cache'[a].link]
      /\ DOMAIN cache'[a].link = DOMAIN cache[a].link
      /\ cache'[a].link = [r \in DOMAIN cache'[a].link |-> cache'[a].link[r]]
      /\ cache'[a].link[p] = o
      /\ \A r \in DOMAIN cache[a].link : r # p => cache'[a].link[r] = cache[a].link[r]
  <2>1. cache' = [cache EXCEPT ![a].link[p] = o]
    BY <1>1 DEF Patched
  <2>2. /\ cache[a] = [pc |-> cache[a].pc, text |-> cache[a].text, link |-> cache[a].link]
        /\ cache[a].link = [r \in DOMAIN cache[a].link |-> cache[a].link[r]]
        /\ p \in DOMAIN cache[a].link /\ DOMAIN cache = Places
    BY <1>3 DEF FreshInv, Blocks, Translated, CacheTypeInv
  <2> DEFINE pc0 == cache[a].pc
             text0 == cache[a].text
             link0 == cache[a].link
             link1 == [link0 EXCEPT ![p] = o]
  <2>3. /\ link1[p] = o /\ DOMAIN link1 = DOMAIN link0
        /\ link1 = [r \in DOMAIN link1 |-> link1[r]]
        /\ \A r \in DOMAIN link0 : r # p => link1[r] = link0[r]
    BY <2>2
  <2>4. /\ cache'[a] = [pc |-> pc0, text |-> text0, link |-> link1]
        /\ DOMAIN cache' = Places /\ \A x \in Places : x # a => cache'[x] = cache[x]
    BY <1>3, <2>1, <2>2
  <2> HIDE DEF pc0, text0, link1
  <2>5. /\ cache'[a].pc = pc0 /\ cache'[a].text = text0 /\ cache'[a].link = link1
        /\ cache'[a] = [pc |-> cache'[a].pc, text |-> cache'[a].text, link |-> cache'[a].link]
    BY <2>4
  <2> QED BY <2>3, <2>4, <2>5 DEF pc0, text0
\* the stack
<1>6. /\ Len(stack') = d /\ stack' \in Seq(S)
      /\ \A j \in 1 .. d : j # d => stack'[j] = stack[j]
      /\ stack'[d].at = a /\ stack'[d].todo = s[d].todo \ {p}
  <2>1. stack' = [s EXCEPT ![d].todo = s[d].todo \ {p}]
    BY <1>1 DEF Patched
  <2> DEFINE g == [s[d] EXCEPT !.todo = s[d].todo \ {p}]
  <2>2. g \in S /\ g.at = a /\ g.todo = s[d].todo \ {p} /\ stack' = [s EXCEPT ![d] = g]
    BY <1>1, <1>2, <2>1
  <2>3. d \in 1 .. Len(s)
    BY <1>2
  <2> HIDE DEF g, S
  <2> QED BY <1>2, <2>2, <2>3
<1>7. \A x \in Places : cache'[x].pc = cache[x].pc
  BY <1>5
<1>8. \A x, v : Leads(x, v) => LeadsNext(x, v)
  BY <1>4, <1>7 DEF Leads, LeadsNext
<1>9. CacheTypeInv'
  BY <1>4, <1>5, <1>7, ZenonT(60) DEF FreshInv, CacheTypeInv, TypeOK
<1>10. TagInv'
  <2>1. \A w \in Words : Found(w)' => Leads(off[tag[w]], w)'
    BY <1>4, <1>8 DEF FreshInv, TagInv, Found, Leads, LeadsNext
  <2> QED BY <1>4, <2>1 DEF FreshInv, TagInv
<1>11. ASSUME NEW x \in Places, Begun(x)' PROVE Translated(x)' /\ Linked(x)'
  <2>1. Begun(x) /\ Translated(x) /\ Linked(x)
    BY <1>4, <1>7, <1>11 DEF Begun, FreshInv, Blocks
  <2>2. Translated(x)'
    BY <1>4, <1>5, <2>1 DEF Translated
  <2>3. Linked(x)'
    <3>1. DOMAIN cache'[x].link = DOMAIN cache[x].link
      BY <1>5
    <3> SUFFICES ASSUME NEW r \in DOMAIN cache[x].link
                 PROVE  /\ r \in Words /\ tag'[r] # Data /\ Target(mem'[r]) \in Words
                        /\ \/ /\ cache'[x].link[r] = Nowhere
                              /\ \E j \in DOMAIN stack' : stack'[j].at = x /\ r \in stack'[j].todo
                           \/ LeadsNext(cache'[x].link[r], Target(mem'[r]))
      BY <3>1 DEF Linked, Leads, LeadsNext
    <3>2. /\ r \in Words /\ tag[r] # Data /\ Target(mem[r]) \in Words
          /\ \/ /\ cache[x].link[r] = Nowhere
                /\ \E j \in DOMAIN stack : stack[j].at = x /\ r \in stack[j].todo
             \/ Leads(cache[x].link[r], Target(mem[r]))
      BY <2>1 DEF Linked
    <3>3. CASE x = a /\ r = p
      BY <1>1, <1>4, <1>5, <1>8, <3>2, <3>3
    <3>4. CASE ~(x = a /\ r = p)
      <4>1. cache'[x].link[r] = cache[x].link[r]
        BY <1>5, <3>4
      <4>2. CASE Leads(cache[x].link[r], Target(mem[r]))
        BY <1>4, <1>8, <3>2, <4>1, <4>2
      <4>3. ASSUME cache[x].link[r] = Nowhere,
                   NEW j \in DOMAIN stack, stack[j].at = x, r \in stack[j].todo
            PROVE  \E i \in DOMAIN stack' : stack'[i].at = x /\ r \in stack'[i].todo
        <5>1. j \in 1 .. d
          BY <1>2, <4>3
        <5>2. DOMAIN stack' = 1 .. d
          BY <1>6
        <5>3. CASE j = d
          BY <1>1, <1>2, <1>6, <3>4, <4>3, <5>1, <5>2, <5>3
        <5>4. CASE j # d
          BY <1>6, <4>3, <5>1, <5>2, <5>4
        <5> QED BY <5>3, <5>4
      <4> QED BY <1>4, <3>2, <4>1, <4>2, <4>3
    <3> QED BY <3>3, <3>4
  <2> QED BY <2>2, <2>3
<1>12. Frames'
  <2>1. ASSUME NEW j \in 1 .. d
        PROVE  /\ Begun(stack[j].at)'
               /\ stack'[j].todo \subseteq DOMAIN cache'[stack'[j].at].link
    <3>1. /\ Begun(stack[j].at) /\ stack[j].todo \subseteq DOMAIN cache[stack[j].at].link
      BY <1>2 DEF FreshInv, Frames
    <3>2. stack'[j].at = stack[j].at /\ stack'[j].todo \subseteq stack[j].todo
      BY <1>1, <1>2, <1>6
    <3>3. DOMAIN cache'[stack[j].at].link = DOMAIN cache[stack[j].at].link
      BY <1>5, <3>1 DEF Begun
    <3> QED BY <1>4, <1>7, <3>1, <3>2, <3>3 DEF Begun
  <2>2. ASSUME NEW j \in 1 .. d - 1
        PROVE  /\ stack'[j].todo # {}
               /\ cache'[stack'[j + 1].at].pc = Target(mem'[Least(stack'[j].todo)])
    <3>1. j \in 1 .. Len(stack) - 1 /\ j \in 1 .. d /\ j # d /\ j + 1 \in 1 .. d
          /\ j + 1 \in 1 .. Len(stack)
      BY <1>2
    <3>2. /\ stack[j].todo # {} /\ Begun(stack[j + 1].at)
          /\ cache[stack[j + 1].at].pc = Target(mem[Least(stack[j].todo)])
      BY <3>1 DEF FreshInv, Frames
    <3>3. stack'[j] = stack[j] /\ stack'[j + 1].at = stack[j + 1].at
      BY <1>1, <1>2, <1>6, <3>1
    <3> QED BY <1>4, <1>7, <3>2, <3>3 DEF Begun
  <2>3. stack' \in Seq([at : Places, todo : SUBSET Words])
    BY <1>6
  <2>4. want' # Nowhere
    BY <1>4
  <2> HIDE DEF S
  <2> QED BY <1>6, <2>1, <2>2, <2>3, <2>4 DEF Frames
<1> QED BY <1>9, <1>10, <1>11, <1>12 DEF FreshInv, Blocks

\* Linking an exit of a block keeps code fresh.
LEMMA LinkExitKeeps == FreshInv /\ CacheInv' /\ LinkExit => FreshInv'
<1> SUFFICES ASSUME FreshInv, CacheInv', LinkExit PROVE FreshInv'
  OBVIOUS
<1>1. PICK w \in Wanted : Found(w) /\ Patched(stack, off[tag[w]])
  BY DEF LinkExit
<1>2. /\ w \in Words /\ want # Nowhere /\ stack # <<>> /\ stack[Depth].todo # {}
      /\ w = Target(mem[Least(stack[Depth].todo)])
  BY WantedWord DEF LinkExit, Exit
<1>3. Leads(off[tag[w]], w)
  BY <1>1, <1>2 DEF FreshInv, TagInv
<1>4. stack \in Seq([at : Places, todo : SUBSET Words])
  BY DEF FreshInv, Frames
<1>5. Len(stack) \in Nat
  BY <1>4
<1>6. /\ Len(stack) <= Len(stack)
      /\ \A j \in 1 .. Len(stack) : j > Len(stack) => stack[j].todo = {}
  BY <1>5
<1>7. UNCHANGED <<mem, tagVars, ptr, lo, hi, want, tries, top, writes>>
  BY DEF LinkExit
<1> DEFINE o == off[tag[w]]
<1>8. /\ Leads(o, Target(mem[Least(stack[Len(stack)].todo)])) /\ Patched(stack, o)
      /\ stack[Len(stack)].todo # {}
  BY <1>1, <1>2, <1>3 DEF Depth
<1> QED BY <1>2, <1>4, <1>6, <1>7, <1>8, PatchKeeps

\* Linking to a block keeps code fresh.
LEMMA LinkBlockKeeps == FreshInv /\ CacheInv' /\ LinkBlock => FreshInv'
<1> SUFFICES ASSUME FreshInv, CacheInv', LinkBlock PROVE FreshInv'
  OBVIOUS
<1> DEFINE S == [at : Places, todo : SUBSET Words]
           d == Len(stack)
           s == SubSeq(stack, 1, d - 1)
           o == stack[d].at
<1>1. /\ d > 1 /\ stack[d].todo = {} /\ Patched(s, o)
      /\ UNCHANGED <<mem, tagVars, ptr, lo, hi, want, tries, top, writes>>
  BY DEF LinkBlock, Depth
<1>2. stack \in Seq(S)
  BY DEF FreshInv, Frames
<1> HIDE DEF S
<1>3. d \in Nat
  BY <1>2
<1>4. s \in Seq(S) /\ Len(s) = d - 1 /\ \A j \in 1 .. d - 1 : s[j] = stack[j]
  BY <1>1, <1>2, <1>3
<1>5. s # <<>>
  <2>1. Len(s) > 0
    BY <1>1, <1>3, <1>4
  <2> HIDE DEF s
  <2> QED BY <2>1
<1>6. want # Nowhere
  <2>1. stack # <<>>
    BY <1>1, <1>3
  <2> QED BY <2>1 DEF FreshInv, Frames
<1>7. d - 1 \in 1 .. d - 1 /\ d - 1 \in 1 .. d /\ d \in 1 .. d /\ (d - 1) + 1 = d
  BY <1>1, <1>3
<1>8. s[d - 1] = stack[d - 1]
  BY <1>4, <1>7
<1>9. stack[d - 1].todo # {} /\ cache[o].pc = Target(mem[Least(stack[d - 1].todo)])
  BY <1>7 DEF FreshInv, Frames
<1>10. Begun(o)
  BY <1>7 DEF FreshInv, Frames
<1>11. Leads(o, Target(mem[Least(s[Len(s)].todo)])) /\ s[Len(s)].todo # {}
  BY <1>4, <1>8, <1>9, <1>10 DEF Leads, Begun
<1>12. \A j \in 1 .. d : j > d - 1 => stack[j].todo = {}
  <2> SUFFICES ASSUME NEW j \in 1 .. d, j > d - 1 PROVE stack[j].todo = {}
    OBVIOUS
  <2>1. j = d
    BY <1>3
  <2> QED BY <1>1, <2>1
<1>13. \A j \in 1 .. Len(stack) : j > Len(s) => stack[j].todo = {}
  BY <1>4, <1>12
<1>14. \A j \in 1 .. Len(s) : s[j] = stack[j]
  BY <1>4
<1>15. Len(s) <= Len(stack) /\ s \in Seq([at : Places, todo : SUBSET Words])
  BY <1>3, <1>4 DEF S
<1> HIDE DEF s, o
<1> QED BY <1>1, <1>5, <1>6, <1>11, <1>13, <1>14, <1>15, PatchKeeps

\* The block that was wanted has all its exits linked, and so have those it was begun for.
LEMMA ReturnKeeps == FreshInv /\ CacheInv' /\ Return => FreshInv'
<1> SUFFICES ASSUME FreshInv, CacheInv', Return PROVE FreshInv'
  OBVIOUS
<1>1. /\ want' = Nowhere /\ stack' = <<>> /\ tries' = 0
      /\ mem' = mem /\ tag' = tag /\ ntags' = ntags /\ off' = off /\ cache' = cache
      /\ ptr' = ptr /\ lo' = lo /\ hi' = hi /\ top' = top /\ writes' = writes
  BY DEF Return, tagVars
<1>2. \A j \in DOMAIN stack : stack[j].todo = {}
  <2>1. CASE stack = <<>>
    BY <2>1
  <2>2. CASE Depth = 1 /\ stack[1].todo = {}
    <3>1. stack \in Seq([at : Places, todo : SUBSET Words])
      BY DEF FreshInv, Frames
    <3>2. DOMAIN stack = 1 .. 1
      BY <2>2, <3>1 DEF Depth
    <3> QED BY <2>2, <3>2
  <2> QED BY <2>1, <2>2 DEF Return
<1>3. CacheTypeInv'
  BY <1>1 DEF FreshInv, CacheTypeInv, TypeOK
<1>4. \A x, v : Leads(x, v) => LeadsNext(x, v)
  BY <1>1 DEF Leads, LeadsNext
<1>5. TagInv'
  BY <1>1, <1>4 DEF FreshInv, TagInv, Found, Leads, LeadsNext
<1>6. Blocks'
  <2> SUFFICES ASSUME NEW x \in Places, Begun(x)' PROVE Translated(x)' /\ Linked(x)'
    BY DEF Blocks
  <2>1. Begun(x) /\ Translated(x) /\ Linked(x)
    BY <1>1 DEF Begun, FreshInv, Blocks
  <2>2. Translated(x)'
    BY <1>1, <2>1 DEF Translated
  <2>3. \A p \in DOMAIN cache[x].link :
          p \in Words /\ tag[p] # Data /\ Target(mem[p]) \in Words
          /\ Leads(cache[x].link[p], Target(mem[p]))
    BY <1>2, <2>1 DEF Linked
  <2>4. Linked(x)'
    BY <1>1, <1>4, <2>3 DEF Linked, Leads, LeadsNext
  <2> QED BY <2>2, <2>4
<1>7. Frames'
  BY <1>1 DEF Frames
<1> QED BY <1>3, <1>5, <1>6, <1>7 DEF FreshInv

\* A jump keeps code fresh.
LEMMA JumpKeeps ==
  ASSUME FreshInv, CacheInv', NEW w \in Words, Jump(w)
  PROVE  FreshInv'
<1>1. /\ want = Nowhere /\ tries = 0 /\ want' = w
      /\ mem' = mem /\ tag' = tag /\ ntags' = ntags /\ off' = off /\ cache' = cache
      /\ ptr' = ptr /\ lo' = lo /\ hi' = hi /\ tries' = tries /\ stack' = stack
      /\ top' = top /\ writes' = writes
  BY DEF Jump, Running, tagVars
<1>2. CacheTypeInv'
  BY <1>1 DEF FreshInv, CacheTypeInv, TypeOK
<1>3. TagInv' /\ Blocks'
  BY <1>1 DEF FreshInv, TagInv, Found, Leads, Blocks, Begun, Translated, Linked
<1>4. Frames'
  BY <1>1, Locations DEF FreshInv, Frames, Begun
<1> QED BY <1>2, <1>3, <1>4 DEF FreshInv

\* A store that writes over no tagged location changes no block; one that does flushes.
LEMMA StoreKeeps ==
  ASSUME FreshInv, CacheInv', First > 0,
         NEW from \in Words, NEW to \in Words, NEW i \in Insns, Store(from, to, i)
  PROVE  FreshInv'
<1>1. /\ want = Nowhere /\ tries = 0 /\ stack = <<>>
      /\ mem' = [w \in Words |-> IF w \in from .. to THEN i ELSE mem[w]]
      /\ off' = off /\ cache' = cache /\ want' = want /\ tries' = tries /\ stack' = stack
      /\ top' = top /\ writes' = writes + 1
  BY DEF Store, Running, FreshInv, Frames
<1>2. /\ mem \in [Words -> Insns] /\ tag \in [Words -> {Code, Data} \cup Tags] /\ writes \in Nat
      /\ lo \in 0 .. Whole /\ hi \in 0 .. Whole /\ off \in [Tags -> Nat]
      /\ DOMAIN cache = Places /\ \A o \in Places : cache[o].pc \in Words \cup {Nowhere}
  BY DEF FreshInv, CacheTypeInv, TypeOK
<1>3. mem' \in [Words -> Insns]
  BY <1>1, <1>2
<1>4. CASE Flush(tag, lo, hi)
  <2>1. \A v \in Words : Valid(tag[v]) => v \in Cleared(lo, hi)
    BY <1>2, ClearsSeen DEF FreshInv, TagInv
  <2>2. /\ stack' = <<>> /\ off' \in [Tags -> Nat] /\ writes' \in Nat
        /\ want' = Nowhere /\ tries' \in 0 .. MaxTries
        /\ DOMAIN cache' = Places /\ \A o \in Places : cache'[o].pc \in Words \cup {Nowhere}
    BY <1>1, <1>2
  <2> QED BY <1>2, <1>3, <1>4, <2>1, <2>2, FlushFresh
<1>5. CASE /\ \A w \in from .. to : tag[w] = Data
           /\ tag' = tag /\ ntags' = ntags /\ ptr' = ptr /\ lo' = lo /\ hi' = hi
  <2>1. \A v \in Words : tag[v] # Data => mem'[v] = mem[v]
    BY <1>1, <1>2, <1>5
  <2>2. CacheTypeInv'
    BY <1>1, <1>2, <1>3, <1>5 DEF FreshInv, CacheTypeInv, TypeOK
  <2>3. TagInv'
    BY <1>1, <1>5 DEF FreshInv, TagInv, Found, Leads
  <2>4. Blocks'
    <3> SUFFICES ASSUME NEW x \in Places, Begun(x)' PROVE Translated(x)' /\ Linked(x)'
      BY DEF Blocks
    <3>1. Begun(x) /\ Translated(x) /\ Linked(x)
      BY <1>1, <1>5 DEF Begun, FreshInv, Blocks
    <3>2. Translated(x)'
      BY <1>1, <1>5, <2>1, <3>1 DEF Translated
    <3>3. Linked(x)'
      BY <1>1, <1>5, <2>1, <3>1 DEF Linked, Leads
    <3> QED BY <3>2, <3>3
  <2>5. Frames'
    BY <1>1 DEF Frames
  <2> QED BY <2>2, <2>3, <2>4, <2>5 DEF FreshInv
<1> QED BY <1>4, <1>5 DEF Store

\* Other contents of the memory, with the flush they bring, keep code fresh.
LEMMA ReloadKeeps == FreshInv /\ CacheInv' /\ Reload => FreshInv'
<1> SUFFICES ASSUME FreshInv, CacheInv', Reload PROVE FreshInv'
  OBVIOUS
<1>1. /\ want = Nowhere /\ tries = 0 /\ stack = <<>>
      /\ mem' \in [Words -> Insns] /\ Flush(tag, 0, Whole)
      /\ off' = off /\ cache' = cache /\ want' = want /\ tries' = tries /\ stack' = stack
      /\ writes' = writes + 1
  BY DEF Reload, Running, FreshInv, Frames
<1>2. /\ tag \in [Words -> {Code, Data} \cup Tags] /\ writes \in Nat /\ off \in [Tags -> Nat]
      /\ DOMAIN cache = Places /\ \A o \in Places : cache[o].pc \in Words \cup {Nowhere}
  BY DEF FreshInv, CacheTypeInv, TypeOK
<1>3. \A v \in Words : v \in Cleared(0, Whole)
  <2>1. Whole # 0 /\ Whole > 0 /\ 0 - (0 % Align) <= 0
    BY Locations
  <2>2. \A v \in Words : v \in Nat /\ v < Whole + Slack
    BY Locations
  <2> DEFINE r == 0 - (0 % Align)
  <2>3. r \in Int /\ r <= 0
    BY <2>1
  <2> HIDE DEF r
  <2>4. \A v \in Words : r <= v
    BY <2>2, <2>3
  <2> QED BY <2>1, <2>2, <2>4 DEF Cleared, r
<1> QED BY <1>1, <1>2, <1>3, FlushFresh

\* Every step keeps code fresh while there is room for tags.
LEMMA FreshKept == FreshInv /\ RoomForTag /\ [Next]_vars /\ First > 0 => FreshInv'
<1> SUFFICES ASSUME FreshInv, RoomForTag, [Next]_vars, First > 0 PROVE FreshInv'
  OBVIOUS
<1>1. CacheInv'
  BY NextCache DEF FreshInv
<1>2. CASE LookUp
  BY <1>1, <1>2, NoRoomKeeps, OverrunKeeps, TranslateKeeps DEF LookUp
<1>3. ASSUME NEW w \in Words, Jump(w) PROVE FreshInv'
  BY <1>1, <1>3, JumpKeeps
<1>4. ASSUME NEW from \in Words, NEW to \in Words, NEW i \in Insns, Store(from, to, i)
      PROVE  FreshInv'
  BY <1>1, <1>4, StoreKeeps
<1>5. CASE UNCHANGED vars
  <2>1. /\ mem' = mem /\ tag' = tag /\ ntags' = ntags /\ off' = off /\ cache' = cache
        /\ ptr' = ptr /\ lo' = lo /\ hi' = hi /\ want' = want /\ tries' = tries
        /\ stack' = stack /\ top' = top /\ writes' = writes
    BY <1>5 DEF vars, tagVars
  <2>2. CacheTypeInv' /\ TagInv'
    BY <2>1 DEF FreshInv, CacheTypeInv, TypeOK, TagInv, Found, Leads
  <2>3. Blocks' /\ Frames'
    BY <2>1 DEF FreshInv, Blocks, Begun, Translated, Linked, Leads, Frames
  <2> QED BY <1>1, <2>2, <2>3 DEF FreshInv
<1> QED BY <1>1, <1>2, <1>3, <1>4, <1>5, LinkExitKeeps, LinkBlockKeeps, ReturnKeeps, ReloadKeeps
        DEF Next

\* What the tags and the blocks are worth at every step.
LEMMA FreshMeans == FreshInv => TypeOK /\ CodeFresh /\ TagsRight
<1> SUFFICES ASSUME FreshInv PROVE TypeOK /\ CodeFresh /\ TagsRight
  OBVIOUS
<1>1. ASSUME NEW o, NEW w, Leads(o, w), w \in Words
      PROVE  Fresh(o, w) /\ \A i \in DOMAIN cache[o].text : tag[w + i - 1] # Data
  <2>1. Begun(o) /\ o \in Places /\ cache[o].pc = w
    BY <1>1, Locations DEF Leads, Begun
  <2>2. Translated(o)
    BY <2>1 DEF FreshInv, Blocks
  <2> QED BY <2>1, <2>2 DEF Translated, Fresh
<1>2. ASSUME NEW w \in Words, Found(w)
      PROVE  /\ Leads(off[tag[w]], w) /\ Linked(off[tag[w]])
  <2>1. Leads(off[tag[w]], w)
    BY <1>2 DEF FreshInv, TagInv
  <2>2. Begun(off[tag[w]]) /\ off[tag[w]] \in Places
    BY <2>1, Locations DEF Leads, Begun
  <2> QED BY <2>1, <2>2 DEF FreshInv, Blocks
<1>3. CodeFresh
  <2> SUFFICES ASSUME NEW w \in Words, Found(w)
               PROVE  /\ Fresh(off[tag[w]], w)
                      /\ \A p \in DOMAIN cache[off[tag[w]]].link :
                           \/ cache[off[tag[w]]].link[p] = Nowhere /\ stack # <<>>
                           \/ Fresh(cache[off[tag[w]]].link[p], Target(mem[p]))
    BY DEF CodeFresh
  <2> DEFINE o == off[tag[w]]
  <2>1. Leads(o, w) /\ Linked(o)
    BY <1>2
  <2> HIDE DEF o
  <2>2. ASSUME NEW p \in DOMAIN cache[o].link
        PROVE  \/ cache[o].link[p] = Nowhere /\ stack # <<>>
               \/ Fresh(cache[o].link[p], Target(mem[p]))
    BY <1>1, <2>1, <2>2 DEF Linked
  <2> QED BY <1>1, <2>1, <2>2 DEF o
<1>4. TagsRight
  <2>1. NoSharedTag
    BY DEF FreshInv, TagInv, NoSharedTag
  <2>2. CodeTagged
    BY <1>1, <1>2 DEF CodeTagged
  <2> QED BY <2>1, <2>2 DEF TagsRight
<1> QED BY <1>3, <1>4 DEF FreshInv, CacheTypeInv

\* In a cache of any size and for any code, what block_lookup_translate finds is the
\* translation of what the RAM holds, exits included: across nested translations, stores,
\* flushes of a full cache and reloads.  Two things the code does not see to are assumed,
\* both in section 4 of the README: that no code lies at offset 0 of the region, and that a
\* translation which finds no room for its tag is where code was seen before.
THEOREM CodeIsFresh ==
  ASSUME First > 0
  PROVE  Spec /\ []RoomForTag => []CodeFresh
<1>1. FreshInv /\ RoomForTag /\ [Next]_vars => FreshInv'
  BY FreshKept
<1>2. FreshInv => CodeFresh
  BY FreshMeans
<1> QED BY <1>1, <1>2, FreshStart, PTL DEF Spec

\* Under the same two assumptions every location a block was made from is tagged, so that
\* smc_write sees a store to it, and no tag is given to two blocks.
THEOREM TagsAreRight ==
  ASSUME First > 0
  PROVE  Spec /\ []RoomForTag => [](TypeOK /\ TagsRight)
<1>1. FreshInv /\ RoomForTag /\ [Next]_vars => FreshInv'
  BY FreshKept
<1>2. FreshInv => TypeOK /\ TagsRight
  BY FreshMeans
<1> QED BY <1>1, <1>2, FreshStart, PTL DEF Spec
=============================================================================
