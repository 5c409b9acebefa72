-------------------------------- MODULE Cable --------------------------------
(***************************************************************************)
(* The link cable by Serial-Poke (serial_proto.c): consoles exchange frames*)
(* of words over a network while each game believes to be clocked word by  *)
(* word.  The model is of one console, master or slave; what the others    *)
(* send comes at any time.                                                 *)
(***************************************************************************)
EXTENDS Integers, Sequences, Functions

CONSTANTS
  Consoles,   \* 0 is the master; netplay_client_id of the others
  Roles,      \* consoles the model is of
  Words,      \* words of a frame                                          (8)
  QueueMax,   \* packets held for a peer (MAX_QPACK)                       (128)
  Tokens,     \* handshake words that restart it (SEQ_HANDSHAKE_TOKENS)    (18)
  Silence,    \* frames until a silent peer is forgotten (MAX_FRAME_TIMEOUT, 240)
  MaxPackets, \* bound: packets of each peer
  MaxFrames,  \* bound: frames with data of the own game
  MaxStarts   \* bound: times the own game starts over

ASSUME CableAssumption ==
  /\ 0 \in Consoles /\ Consoles \subseteq 0 .. 3 /\ Roles \subseteq Consoles
  /\ {Words, QueueMax, Tokens, Silence} \subseteq Nat \ {0}
  /\ {MaxPackets, MaxFrames, MaxStarts} \subseteq Nat

VARIABLES
  me,      \* netplay_client_id
  state,   \* peer[me].state
  peer,    \* peer[] of the others: state, queued packets, recvd, timeout
  frame,   \* offset, checksum, and the words of the own frame
  hscnt,   \* handshake words in a row while connected
  multi,   \* SIOMULTI0..3
  player,  \* the own game: what it does, its frames with data, whether this is one
  starts,
  sent,    \* history: the packet sent in the present frame, if any
  wrote,   \* history: the words the game wrote in the present frame
  packets, \* history: packets that came from each peer
  seen     \* history: what was shown of each peer in this frame and before; what never will be

cableVars ==
  <<me, state, peer, frame, hscnt, multi, player, starts, sent, wrote, packets, seen>>

SLAVE_HANDSHAKE == 900
MASTER_HANDSHAKE == 800
NobodyThere == 999     \* 0xFFFF

States == {"PREINIT", "HANDSHAKE", "CONNECTED"}
Unknown == [state |-> "PREINIT", queue |-> <<>>, recvd |-> FALSE, timeout |-> 0]
Zeros == [j \in 1 .. Words |-> 0]
NewFrame == [offset |-> 0, sum |-> 0, words |-> Zeros]
Unseen == [shown |-> <<>>, packet |-> <<>>, n |-> 0, prev |-> 0,
           lost |-> {}, torn |-> FALSE]
Others == Consoles \ {me}

CableInit ==
  /\ me \in Roles /\ state = "PREINIT"
  /\ peer = [i \in Others |-> Unknown]
  /\ frame = NewFrame /\ hscnt = 0
  /\ multi = [i \in Consoles |-> 0]
  /\ player = [stage |-> "shake", frames |-> 0, data |-> FALSE] /\ starts = 0
  /\ sent = <<>> /\ wrote = <<>>
  /\ packets = [i \in Others |-> 0]
  /\ seen = [i \in Others |-> Unseen]
--------------------------------------------------------------------------
(* serialpoke_net_receive: the network keeps messages in order and loses none.*)

\* The words of the n-th packet of a peer.
PacketWords(n) == [j \in 1 .. Words |-> 10 * n + j]

\* A packet that comes when the queue is full is dropped.
Receive(i, s, data) ==
  /\ data => s = "CONNECTED" /\ packets[i] < MaxPackets
  /\ LET full == Len(peer[i].queue) >= QueueMax
         n == packets[i] + 1
     IN /\ peer' = [peer EXCEPT
              ![i].state = s, ![i].timeout = 0,
              ![i].queue = IF data /\ ~full THEN Append(@, n) ELSE @]
        /\ seen' = [seen EXCEPT ![i].lost = IF data /\ full THEN @ \cup {n} ELSE @]
  /\ packets' = [packets EXCEPT ![i] = IF data THEN @ + 1 ELSE @]
  /\ UNCHANGED <<me, state, frame, hscnt, multi, player, starts, sent, wrote>>

\* The packets queued for p go unseen.
Lose(s, p) == [s EXCEPT !.lost = @ \cup Range(p.queue)]

\* serialpoke_frame_update: who was silent for too long is forgotten, also in the middle
\* of a frame.
\* Mutant: all but that a packet of it is being shown.
ForgetHalf(p) == [Unknown EXCEPT !.recvd = p.recvd]
Forget(p) == Unknown

FrameUpdate ==
  /\ \E i \in Others : peer[i] # Unknown
  /\ LET late == {i \in Others : peer[i].timeout >= Silence}
     IN /\ peer' = [i \in Others |->
                      IF i \in late THEN Forget(peer[i])
                      ELSE IF peer[i] = Unknown THEN Unknown
                      ELSE [peer[i] EXCEPT !.timeout = @ + 1]]
        /\ seen' = [i \in Others |->
                      IF i \in late THEN [Lose(seen[i], peer[i]) EXCEPT !.torn = TRUE]
                      ELSE seen[i]]
  /\ UNCHANGED <<me, state, frame, hscnt, multi, player, starts, sent, wrote, packets>>
--------------------------------------------------------------------------
(* Connected: a word with the checksum of the last frame, then the data.      *)

\* The histories of a frame begin anew.
NewHistory ==
  /\ sent' = <<>> /\ wrote' = <<>>
  /\ seen' = [i \in Others |->
                [seen[i] EXCEPT !.shown = <<>>, !.packet = <<>>, !.torn = FALSE]]

StartFrame(w) ==
  /\ multi' = [i \in Consoles |-> IF me = 0 /\ i = 0 THEN w ELSE frame.sum]
  /\ peer' = [i \in Others |-> [peer[i] EXCEPT !.recvd = peer[i].queue # <<>>]]
  /\ frame' = [frame EXCEPT !.offset = 1, !.sum = 0]
  /\ NewHistory

\* What is shown for console i while the own game sends w.
WordOf(i, w) ==
  IF i = me THEN w
  ELSE IF peer[i].recvd THEN PacketWords(Head(peer[i].queue))[frame.offset]
  ELSE 0

\* Mutant: a packet that came during the frame is taken for the one that was shown.
UsedAny(p) == IF p.queue # <<>> THEN [p EXCEPT !.queue = Tail(p.queue)] ELSE p
Used(p) == IF p.recvd THEN [p EXCEPT !.queue = Tail(p.queue)] ELSE p

\* What was shown of a peer so far, of which packet, and which one was shown before.
Noted(s, p, word, over) ==
  LET t == [s EXCEPT !.shown = Append(s.shown, word),
                     !.packet = IF p.recvd THEN PacketWords(Head(p.queue)) ELSE s.packet]
  IN IF over /\ p.recvd
     THEN [t EXCEPT !.n = Head(p.queue), !.prev = s.n]
     ELSE t

DataWord(w) ==
  LET word == [i \in Consoles |-> WordOf(i, w)]
      over == frame.offset >= Words
      mine == [frame.words EXCEPT ![frame.offset] = w]
  IN /\ multi' = word
     /\ frame' = [words |-> mine,
                  sum |-> frame.sum + FoldFunction(+, 0, word),
                  offset |-> IF over THEN 0 ELSE frame.offset + 1]
     /\ peer' = IF over THEN [i \in Others |-> Used(peer[i])] ELSE peer
     /\ seen' = [i \in Others |-> Noted(seen[i], peer[i], word[i], over)]
     /\ wrote' = Append(wrote, w)
     /\ sent' = IF over /\ mine # Zeros THEN mine ELSE sent

\* Too many handshake words in a row: the game starts over.
Connected(w) ==
  LET tokens == IF w = SLAVE_HANDSHAKE THEN hscnt + 1 ELSE 0
  IN /\ hscnt' = tokens
     /\ IF tokens > Tokens
        THEN /\ state' = "HANDSHAKE"
             /\ multi' = [multi EXCEPT ![me] = w]
             /\ NewHistory
             /\ UNCHANGED <<peer, frame>>
        ELSE /\ IF frame.offset = 0 THEN StartFrame(w) ELSE DataWord(w)
             /\ UNCHANGED state

\* What a console pretends that the others answered in the handshake.
Answer(i) == IF peer[i].state = "HANDSHAKE" THEN SLAVE_HANDSHAKE ELSE NobodyThere

\* A new session begins with a new frame.
\* Mutant: in the middle of the frame the last one was left in.
EnterMidFrame == state' = "CONNECTED" /\ hscnt' = 0 /\ UNCHANGED frame
Enter == state' = "CONNECTED" /\ hscnt' = 0 /\ frame' = [NewFrame EXCEPT !.words = frame.words]
--------------------------------------------------------------------------
(* serialpoke_master_send: the master's game transfers a word.                *)
MasterSend(w) ==
  \/ /\ state = "PREINIT"
     /\ IF w = SLAVE_HANDSHAKE
        THEN state' = "HANDSHAKE" /\ multi' = [i \in Consoles |-> IF i = 0 THEN w ELSE 0]
        ELSE multi' = [multi EXCEPT ![0] = w] /\ UNCHANGED state
     /\ UNCHANGED <<peer, frame, hscnt, sent, wrote, seen>>
  \/ /\ state = "HANDSHAKE"
     /\ multi' = [i \in Consoles |-> IF i = 0 THEN w ELSE Answer(i)]
     /\ IF w = MASTER_HANDSHAKE
        THEN /\ Enter
             /\ peer' = [i \in Others |-> [peer[i] EXCEPT !.queue = <<>>]]
             /\ seen' = [i \in Others |-> Lose(seen[i], peer[i])]
        ELSE UNCHANGED <<state, peer, frame, hscnt, seen>>
     /\ UNCHANGED <<sent, wrote>>
  \/ state = "CONNECTED" /\ Connected(w)

(* serialpoke_update: a slave's turn, several times a frame.                  *)
SlaveUpdate(w) ==
  LET master == peer[0].state
  IN \/ /\ master = "PREINIT" \/ (master = "CONNECTED" /\ state = "PREINIT")
        /\ multi' = [multi EXCEPT ![me] = w]
        /\ UNCHANGED <<state, peer, frame, hscnt, sent, wrote, seen>>
     \/ /\ master = "HANDSHAKE"
        /\ state' = IF w = SLAVE_HANDSHAKE THEN "HANDSHAKE" ELSE "PREINIT"
        /\ multi' = [i \in Consoles |-> IF i = me THEN w ELSE Answer(i)]
        /\ UNCHANGED <<peer, frame, hscnt, sent, wrote, seen>>
     \/ /\ master = "CONNECTED" /\ state = "HANDSHAKE"
        /\ Enter
        /\ multi' = [i \in Consoles |->
                       IF i = 0 THEN MASTER_HANDSHAKE ELSE IF i = me THEN w ELSE Answer(i)]
        /\ UNCHANGED <<peer, sent, wrote, seen>>
     \/ master = "CONNECTED" /\ state = "CONNECTED" /\ Connected(w)
--------------------------------------------------------------------------
(* The game: it sends handshakes until it sees the others', then frames.      *)
SomeoneReady == \E i \in Others : multi[i] = SLAVE_HANDSHAKE

GameWords ==
  IF player.stage = "talk"
  THEN {IF player.data THEN 10 * player.frames + frame.offset ELSE 0}
  ELSE {SLAVE_HANDSHAKE} \cup
       (IF me # 0 THEN {0} ELSE IF SomeoneReady THEN {MASTER_HANDSHAKE} ELSE {})

\* A frame begins with the checksum: the game decides then whether it has data to send.
GameGoesOn(w) ==
  LET begins == w = MASTER_HANDSHAKE \/ (me # 0 /\ multi'[0] = MASTER_HANDSHAKE)
  IN \/ /\ player.stage = "shake"
        /\ player' = [player EXCEPT !.stage = IF begins THEN "talk" ELSE "shake"]
     \/ /\ player.stage = "talk"
        /\ \/ frame'.offset # 1 /\ UNCHANGED player
           \/ frame'.offset = 1 /\ player' = [player EXCEPT !.data = FALSE]
           \/ /\ frame'.offset = 1 /\ player.frames < MaxFrames
              /\ player' = [player EXCEPT !.data = TRUE, !.frames = @ + 1]

Turn ==
  /\ \E w \in GameWords :
       /\ IF me = 0 THEN MasterSend(w) ELSE SlaveUpdate(w)
       /\ GameGoesOn(w)
  /\ UNCHANGED <<me, starts, packets>>

StartOver ==
  /\ player.stage = "talk" /\ starts < MaxStarts
  /\ player' = [player EXCEPT !.stage = "shake", !.data = FALSE]
  /\ starts' = starts + 1
  /\ UNCHANGED <<me, state, peer, frame, hscnt, multi, sent, wrote, packets, seen>>

CableNext ==
  \/ Turn \/ FrameUpdate \/ StartOver
  \/ \E i \in Others, s \in States, data \in BOOLEAN : Receive(i, s, data)

CableSpec == CableInit /\ [][CableNext]_cableVars
--------------------------------------------------------------------------
(* Properties *)

\* The variables keep their types.
CableTypeOK ==
  /\ state \in States
  /\ frame.offset \in 0 .. Words /\ frame.sum \in Nat /\ hscnt \in 0 .. Tokens + 1
  /\ player.stage \in {"shake", "talk"} /\ player.frames \in 0 .. MaxFrames
  /\ \A i \in Others :
       /\ peer[i].state \in States
       /\ Len(peer[i].queue) <= QueueMax /\ peer[i].timeout \in 0 .. Silence

\* A packet that is being shown is there until the end of the frame, whatever comes or
\* times out meanwhile: the count of queued packets never goes below zero.
HeldWhileShown ==
  \A i \in Others : frame.offset > 0 /\ state = "CONNECTED" /\ peer[i].recvd =>
    peer[i].queue # <<>>

\* In a whole frame the game is shown one packet of each peer, word for word, or silence;
\* the packets come in the order they were sent, each once, and none is left out but those
\* dropped because the queue was full, the peer forgotten or the session new.
FramesWhole ==
  frame.offset = 0 =>
    \A i \in Others :
      LET s == seen[i] IN
      Len(s.shown) = Words /\ ~s.torn =>
        /\ s.shown = IF s.packet = <<>> THEN Zeros ELSE s.packet
        /\ s.packet # <<>> => s.n > s.prev /\ s.prev + 1 .. s.n - 1 \subseteq s.lost

\* What the game sees of its peers is what they sent, frame by frame, though packets come,
\* and peers are forgotten, between any two words (serialpoke_master_send and _update).
PeersShown == HeldWhileShown /\ FramesWhole

\* A packet sent holds the words the game wrote in that frame, and no others.
SentWhole == [][sent' \notin {sent, <<>>} => sent' = wrote']_cableVars
=============================================================================
