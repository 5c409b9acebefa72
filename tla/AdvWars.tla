------------------------------ MODULE AdvWars ------------------------------
(***************************************************************************)
(* The link cable of Advance Wars (serial_proto.c): two consoles send each *)
(* other packets, agree to synchronise, and then exchange groups of keys.  *)
(* Each game is clocked word by word; its console collects whole packets   *)
(* for the network and plays those of the other back, a word at a time.    *)
(***************************************************************************)
EXTENDS Integers, Sequences, SequencesExt

CONSTANTS
  QueueWords, \* words queued for a peer, and one more (MAX_FPACK)         (512)
  PackTail,      \* words after a packet (PACK_TAIL_SZ)                    (1 or 2)
  MaxItems,   \* bound: packets and groups of keys of both games
  MaxFlight   \* bound: messages under way to a console before the other goes on

ASSUME AdvWarsAssumption ==
  /\ QueueWords \in Nat \ {0} /\ PackTail \in {1, 2}
  /\ {MaxItems, MaxFlight} \subseteq Nat

VARIABLES
  aw,     \* serstate.aw of each console: its own entry and the other's
  under,  \* messages under way to each console
  sawSync, \* SIOMULTI of the other holds CMD_SYNC, what a game waits for
  awGame, \* each game: what it does, its packets so far, the words of the present one
  said,   \* history: the packets and groups the game finished
  gone,   \* history: of these, the ones that never will be shown
  played  \* history: the words of the other that were shown, Lost for one that was not

awVars == <<aw, under, sawSync, awGame, said, gone, played>>

Pair == {0, 1}
Peer(i) == 1 - i

CmdNone == 32767       \* 0x7FFF
CmdNop == 24575        \* 0x5FFF
CmdSync == 22136       \* 0x5678
PacketStart == 20224   \* 0x4F00
PacketCmd == 20479     \* 0x4FFF
KeyBase == 32768       \* 0x8000
KeyLast == 40704       \* 0x9F00

IsStart(w) == w \div 256 = 79
IsKeyWord(w) == w \in KeyBase .. KeyLast
HighBits(w) == w - (w % 1024)
\* What the game is shown when there is nothing of the peer to show; KeyBase stands for the
\* high bits of its own last command.
IsFiller(w) == w \in {CmdNone, CmdSync, KeyBase}

NoPeer == [state |-> "PACKETXG", queue |-> <<>>, recvd |-> 0]

AdvWarsInit ==
  /\ aw = [i \in Pair |-> [state |-> "PACKETXG", pstate |-> "COMMANDS", data |-> <<>>,
                           peer |-> NoPeer]]
  /\ under = [i \in Pair |-> <<>>]
  /\ sawSync = [i \in Pair |-> FALSE]
  /\ awGame = [i \in Pair |-> [does |-> "idle", items |-> 0, words |-> <<>>]]
  /\ said = [i \in Pair |-> <<>>] /\ gone = [i \in Pair |-> {}]
  /\ played = [i \in Pair |-> <<>>]
--------------------------------------------------------------------------
(* Playing the peer's packets back.  A packet is queued as its length and its *)
(* words; recvd is the place of the next word, 0 between packets.             *)

Place(p) == IF p.recvd = 0 /\ p.queue # <<>> THEN 1 ELSE p.recvd
\* data[n], counted from 0
WordAt(p, n) == p.queue[n + 1]
NextPacket(p) == [p EXCEPT !.recvd = 0, !.queue = SubSeq(@, p.queue[1] + 2, Len(@))]

\* process_awpeer_val: keys follow each other without a gap; 0 is nothing.
PlayKey(p) ==
  LET n == Place(p) IN
  IF n = 0 THEN [word |-> 0, peer |-> p]
  ELSE [word |-> WordAt(p, n),
        peer |-> IF n >= p.queue[1] THEN NextPacket(p) ELSE [p EXCEPT !.recvd = n + 1]]

\* process_awpeer: an empty word follows a packet.
\* Mutant: it stands in the place of the last.
PlayWordShort(p, idle) ==
  LET n == Place(p) IN
  IF n > 0 /\ n >= p.queue[1] THEN [word |-> CmdNone, peer |-> NextPacket(p)]
  ELSE IF n > 0 THEN [word |-> WordAt(p, n), peer |-> [p EXCEPT !.recvd = n + 1]]
  ELSE [word |-> IF idle /\ p.state = "SYNC" THEN CmdSync ELSE CmdNone, peer |-> p]
PlayWord(p, idle) ==
  LET n == Place(p) IN
  IF n > 0 /\ n > p.queue[1] THEN [word |-> CmdNone, peer |-> NextPacket(p)]
  ELSE IF n > 0 THEN [word |-> WordAt(p, n), peer |-> [p EXCEPT !.recvd = n + 1]]
  ELSE [word |-> IF idle /\ p.state = "SYNC" THEN CmdSync ELSE CmdNone, peer |-> p]
--------------------------------------------------------------------------
(* A word of the game.  A turn is the console after it, what the game is shown*)
(* of the other, whether a word of the queue was taken and not shown (lost, a *)
(* history), and the messages it sends.                                       *)

Unwritten == -1   \* nothing is written to SIOMULTI
AwTurn(c) == [c |-> c, show |-> Unwritten, lost |-> FALSE, send |-> <<>>]
\* The command of a message is used for a packet alone, whose command is PacketCmd.
Message(s, words) == [state |-> s, words |-> words]

\* STATE_SYNC: wait for the other.  A slave whose game goes on is shown nothing here.
SyncWord(i, c, w) ==
  LET waits == w \in {CmdSync, CmdNop}
      next == IF waits THEN c ELSE [c EXCEPT !.state = "INTERSYNC", !.data = <<>>]
  IN IF w = CmdNone THEN AwTurn([c EXCEPT !.state = "PACKETXG"])
     ELSE [c |-> next,
           lost |-> FALSE,
           show |-> IF i # 0 /\ ~waits THEN Unwritten
                    ELSE IF c.peer.state = "PACKETXG" THEN CmdNone ELSE CmdSync,
           send |-> <<Message(next.state, <<>>)>>]

\* STATE_INTERSYNC: keys are collected until a word without one.
\* Where process_awpeer_val gives 0 the game is shown the high bits of its own last command:
\* the peer has no key, or the word taken from its queue is a 0, which no key is but a word
\* of a packet may be.
KeyWord(c, w) ==
  LET play == PlayKey(c.peer)
      shown == [AwTurn([c EXCEPT !.peer = play.peer])
                  EXCEPT !.show = IF play.word = 0 THEN KeyBase ELSE play.word,
                         !.lost = Place(c.peer) # 0 /\ play.word = 0]
  IN IF IsKeyWord(w) /\ w # HighBits(w) THEN [shown EXCEPT !.c.data = Append(@, w)]
     ELSE IF IsKeyWord(w)
     THEN [shown EXCEPT !.c.data = <<>>, !.send = <<Message("INTERSYNC", c.data)>>]
     ELSE IF w = CmdNop THEN shown
     ELSE AwTurn([c EXCEPT !.state = "PACKETXG"])

\* STATE_PACKETXG: commands are told to the other, packets collected and sent whole.
Collected(c, w) ==
  IF c.pstate = "PACKET_HDR"
  THEN AwTurn([c EXCEPT !.pstate = "PACKET_BODY", !.data = <<w % 256>>])
  ELSE IF c.pstate = "PACKET_BODY"
  THEN LET all == Append(c.data, w) IN
       IF Len(all) = c.data[1] + PackTail + 1
       THEN [AwTurn([c EXCEPT !.pstate = "COMMANDS", !.data = <<>>])
               EXCEPT !.send = <<Message("PACKETXG", all)>>]
       ELSE AwTurn([c EXCEPT !.data = all])
  ELSE IF IsStart(w) THEN AwTurn([c EXCEPT !.pstate = "PACKET_HDR"])
  ELSE IF w = CmdSync /\ c.peer.queue = <<>> THEN AwTurn([c EXCEPT !.state = "SYNC"])
  ELSE [AwTurn(c) EXCEPT !.send = <<Message("PACKETXG", <<>>)>>]

\* Both look at the parsing of the master's entry, which no slave has.
PacketWord(i, c, w) ==
  LET t == Collected(c, w)
      play == PlayWord(c.peer, i # 0 \/ t.c.pstate = "COMMANDS")
  IN [t EXCEPT !.c.peer = play.peer, !.show = play.word]

\* serialaw_master_send: one state has its say.
AwMasterSend(c, w) ==
  CASE c.state = "SYNC" -> SyncWord(0, c, w)
    [] c.state = "INTERSYNC" -> KeyWord(c, w)
    [] OTHER -> PacketWord(0, c, w)

\* serialaw_update: the state a slave came to has its say in the same turn.
AwSlaveUpdate(c, w) ==
  LET t == IF c.state = "SYNC" THEN SyncWord(1, c, w) ELSE AwTurn(c)
      u == CASE t.c.state = "INTERSYNC" -> KeyWord(t.c, w)
             [] t.c.state = "PACKETXG" -> PacketWord(1, t.c, w)
             [] OTHER -> t
  IN IF t.c.state = "SYNC" THEN t ELSE [u EXCEPT !.send = t.send \o u.send]
--------------------------------------------------------------------------
(* The game.  A packet has one word between its length and its tail; one of   *)
(* the words after its length is 0.                                           *)

ItemWord(n, k) == 16 * n + k
PacketLength == 1
BodyWords == PacketLength + PackTail

\* Words a game may write: it goes on from the synchronisation when it saw the other's,
\* and first writes a word without keys.
AwGameWords(i) ==
  LET p == awGame[i]
      more == awGame[0].items + awGame[1].items < MaxItems
  IN CASE p.does = "idle" -> {CmdNone, CmdSync} \cup (IF more THEN {PacketStart} ELSE {})
       [] p.does = "head" -> {PacketLength}
       [] p.does = "body" -> IF Contains(p.words, 0) THEN {ItemWord(p.items, Len(p.words))}
                             ELSE IF Len(p.words) = BodyWords + 1 THEN {0}
                             ELSE {ItemWord(p.items, Len(p.words)), 0}
       [] p.does = "sync" -> {CmdSync, CmdNone} \cup
                             (IF sawSync[i] THEN {CmdNop, KeyBase} ELSE {})
       [] OTHER -> {CmdNop, CmdNone, KeyBase} \cup
                   (IF p.words = <<>> /\ more
                    THEN {KeyBase + ItemWord(p.items + 1, 0)}
                    ELSE IF Len(p.words) = 1 THEN {KeyBase + ItemWord(p.items, 1)} ELSE {})

\* The game after it wrote w.
GameAfter(p, w) ==
  CASE p.does = "idle" /\ w = PacketStart ->
         [does |-> "head", items |-> p.items + 1, words |-> <<>>]
    [] p.does = "head" -> [p EXCEPT !.does = "body", !.words = <<PacketCmd, w>>]
    [] p.does = "body" ->
         IF Len(p.words) = BodyWords + 1
         THEN [p EXCEPT !.does = "idle", !.words = <<>>]
         ELSE [p EXCEPT !.words = Append(@, w)]
    [] w = CmdNone -> [p EXCEPT !.does = "idle", !.words = <<>>]
    [] w = CmdSync -> [p EXCEPT !.does = "sync"]
    [] p.does = "keys" /\ w > KeyBase ->
         [p EXCEPT !.words = Append(@, w), !.items = IF p.words = <<>> THEN @ + 1 ELSE @]
    [] w = KeyBase -> [p EXCEPT !.does = "keys", !.words = <<>>]
    [] OTHER -> p

\* The words of a packet or group that w finishes.
Finished(p, w) ==
  IF p.does = "body" /\ GameAfter(p, w).does = "idle" THEN <<Append(p.words, w)>>
  ELSE IF p.does = "keys" /\ w = KeyBase /\ p.words # <<>> THEN <<p.words>>
  ELSE <<>>

\* What becomes of the words that were taken from the queue so far, after turn t.
Lost == -2
PlayedAfter(words, t) ==
  IF t.lost THEN Append(words, Lost)
  ELSE IF t.show = Unwritten \/ IsFiller(t.show) THEN words
  ELSE Append(words, t.show)

AwGameTurn(i) ==
  \E w \in AwGameWords(i) :
    LET t == IF i = 0 THEN AwMasterSend(aw[0], w) ELSE AwSlaveUpdate(aw[1], w) IN
    /\ Len(under[Peer(i)]) < MaxFlight
    /\ aw' = [aw EXCEPT ![i] = t.c]
    /\ under' = [under EXCEPT ![Peer(i)] = @ \o t.send]
    /\ sawSync' = [sawSync EXCEPT ![i] = IF t.show = Unwritten THEN @
                                        ELSE t.show = CmdSync]
    /\ awGame' = [awGame EXCEPT ![i] = GameAfter(@, w)]
    /\ said' = [said EXCEPT ![i] = @ \o Finished(awGame[i], w)]
    /\ played' = [played EXCEPT ![i] = PlayedAfter(@, t)]
    /\ UNCHANGED gone
--------------------------------------------------------------------------
(* serialaw_net_receive: the network keeps messages in order and loses none.  *)

\* A packet is shown with its command, a group of keys is not.
Content(m) ==
  IF m.words = <<>> THEN <<>>
  ELSE IF m.state = "PACKETXG" THEN <<PacketCmd>> \o m.words ELSE m.words

\* There must be two words and room for them.
Kept(p, m) ==
  /\ m.state # "SYNC" /\ Len(m.words) >= 2
  /\ Len(p.queue) + 1 + Len(Content(m)) < QueueWords

AwReceive(i) ==
  /\ under[i] # <<>>
  /\ LET m == Head(under[i])
         p == aw[i].peer
     IN /\ aw' = [aw EXCEPT
              ![i].peer.state = m.state,
              ![i].peer.queue = IF Kept(p, m) THEN @ \o <<Len(Content(m))>> \o Content(m)
                                ELSE @]
        /\ gone' = [gone EXCEPT
              ![Peer(i)] = IF m.words # <<>> /\ ~Kept(p, m)
                           THEN @ \cup {Content(m)} ELSE @]
  /\ under' = [under EXCEPT ![i] = Tail(@)]
  /\ UNCHANGED <<sawSync, awGame, said, played>>

AdvWarsNext == \E i \in Pair : AwGameTurn(i) \/ AwReceive(i)

AdvWarsSpec == AdvWarsInit /\ [][AdvWarsNext]_awVars
--------------------------------------------------------------------------
(* Properties *)

\* The variables keep their types.
AdvWarsTypeOK ==
  \A i \in Pair :
    /\ {aw[i].state, aw[i].peer.state} \subseteq {"PACKETXG", "SYNC", "INTERSYNC"}
    /\ aw[i].pstate \in {"COMMANDS", "PACKET_HDR", "PACKET_BODY"}
    /\ Len(aw[i].peer.queue) < QueueWords /\ aw[i].peer.recvd \in Nat
    /\ awGame[i].does \in {"idle", "head", "body", "sync", "keys"}
    /\ awGame[i].items \in 0 .. MaxItems

\* The words of a peer's queue, without the lengths; -1 where a length runs past its end.
Unpacked(q) ==
  LET from[k \in 1 .. Len(q) + 1] ==
        IF k > Len(q) THEN <<>>
        ELSE IF k + q[k] > Len(q) THEN <<-1>>
        ELSE SubSeq(q, k + 1, k + q[k]) \o from[k + q[k] + 1]
  IN from[1]

\* The words of the peer's queue that are still to be shown.
ToPlay(p) ==
  LET all == Unpacked(p.queue)
  IN IF p.recvd = 0 THEN all ELSE SubSeq(all, p.recvd, Len(all))

\* The words console i is shown of the other, those queued and those under way are together
\* all that the other's game finished but what was dropped whole, in order and each once,
\* whichever states the two consoles went through meanwhile.  The exception is a 0 of a
\* packet that is read where keys are expected: it is taken from the queue and filler is
\* shown in its place (process_awpeer_val(i) ?: ...).
Replayed ==
  \A i \in Pair :
    LET shown == played[i] \o ToPlay(aw[i].peer)
                   \o FlattenSeq([k \in 1 .. Len(under[i]) |-> Content(under[i][k])])
        meant == FlattenSeq(SelectSeq(said[Peer(i)], LAMBDA words : words \notin gone[Peer(i)]))
    IN /\ Len(shown) = Len(meant)
       /\ \A k \in DOMAIN meant :
            shown[k] = meant[k] \/ (shown[k] = Lost /\ meant[k] = 0)
=============================================================================
