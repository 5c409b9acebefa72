------------------------------- MODULE Rfu -------------------------------
(* The wireless adapter (RFU) as src/rfu.c emulates it over netplay: every    *)
(* node runs one emulated adapter, and the adapters of one netplay session    *)
(* exchange packets to host, to join, to leave and to send data.              *)
(*                                                                            *)
(* The module is about the state that the packets and the game's commands     *)
(* change: who hosts, which slot of a host belongs to whom, which host a      *)
(* client believes in, and the packets queued on both sides.  The word by     *)
(* word SPI dialogue that carries a command is left to the link level; here   *)
(* a command is one step, as it is in rfu_process_command.                    *)
EXTENDS Naturals, Sequences, FiniteSets

CONSTANTS
  Nodes,      \* the netplay clients, each with one adapter
  Zero,       \* the node whose netplay client id is 0, the id a cleared slot holds
  NumSlots,   \* client slots of a host                                  (4)
  QLen,       \* packets a slot, or a client, keeps unread               (4)
  ClientTTL,  \* frames without a packet after which a slot is cleared   (240)
  PeerTTL,    \* frames a received broadcast stays valid                 (255)
  Announce,   \* frames between two broadcasts of a host                 (30)
  DevIds,     \* the device ids new_devid draws from          (1 .. 0xffff)
  NoId,       \* the device id of an empty slot                          (0)
  Data,       \* payloads, with a byte count of 1 to 90
  LongData,   \* those of more than 16 bytes, which a client does not send
  Empty,      \* the payload of no bytes
  Cmds,       \* Cmds[n]: the commands the game of node n uses
  MaxCmds,    \* bound: commands and resets of one behaviour, all nodes together
  MaxNet      \* bound: packets in a channel before its sender waits

CmdNames == {"reset", "host_start", "host_stop", "connect", "concompl",
             "send", "rtx_wait", "recv", "disconnect"}

Slots == 0 .. (NumSlots - 1)
Payload == Data \cup {Empty}

ASSUME ConstantsAssumption ==
  /\ Zero \in Nodes
  /\ NumSlots \in Nat \ {0} /\ QLen \in Nat \ {0}
  /\ ClientTTL \in Nat \ {0} /\ PeerTTL \in Nat \ {0} /\ Announce \in Nat
  /\ NoId \notin DevIds
  /\ Empty \notin Data /\ LongData \subseteq Data
  /\ Cmds \in [Nodes -> SUBSET CmdNames]
  /\ MaxCmds \in Nat /\ MaxNet \in Nat \ {0}

VARIABLES
  on,      \* on[n]: rfu_comstate is past RFU_COMSTATE_RESET
  st,      \* st[n]: rfu_state
  hdev,    \* hdev[n]: rfu_host.devid
  txttl,   \* txttl[n]: rfu_host.tx_ttl, Announce standing for every value from it on
  slot,    \* slot[n][i]: rfu_host.clients[i]
  cli,     \* cli[n]: rfu_client
  heard,   \* heard[n][p]: rfu_peer_bcst[p], valid while its ttl is not 0
  txbuf,   \* txbuf[n]: rfu_tx_buf
  net,     \* net[s][d]: packets under way from s to d, in the order sent
  issued,  \* history: the device ids drawn so far, and for whom
  cmds     \* history: commands so far (counts up to MaxCmds)

vars == <<on, st, hdev, txttl, slot, cli, heard, txbuf, net, issued, cmds>>

--------------------------------------------------------------------------
(* Data *)

MsgType == {"BROADCAST", "CONNECT_REQ", "CONNECT_ACK", "CONNECT_NACK",
            "DISCONNECT", "HOST_SEND", "CLIENT_SEND", "CLIENT_ACK"}

Msg == [type : MsgType, devid : DevIds \cup {NoId}, slot : Slots, data : Payload]

\* A queued packet remembers who sent it; the code keeps only its bytes.
Packet == [from : Nodes, data : Data]

SlotRec == [devid : DevIds \cup {NoId}, cid : Nodes, ttl : 0 .. (ClientTTL - 1),
            q : Seq(Packet)]
ClientRec == [devid : DevIds \cup {NoId}, clnum : Slots, host : Nodes, q : Seq(Packet)]

PeerRec == [devid : DevIds \cup {NoId}, ttl : 0 .. PeerTTL]

\* Ids are issued to a hosting session (client = host) or to a client's slot.
Issue == [id : DevIds, host : Nodes, slot : Slots, client : Nodes]
Issued(d, h, i, c) == issued \cup {[id |-> d, host |-> h, slot |-> i, client |-> c]}

FreeSlot == [devid |-> NoId, cid |-> Zero, ttl |-> 0, q |-> <<>>]
NoClient == [devid |-> NoId, clnum |-> 0, host |-> Zero, q |-> <<>>]
NoPeer == [devid |-> NoId, ttl |-> 0]

Notice(type, d, i) == [type |-> type, devid |-> d, slot |-> i, data |-> Empty]
DataMsg(type, d, i, p) == [type |-> type, devid |-> d, slot |-> i, data |-> p]

Occupied(h, i) == slot[h][i].devid # NoId
\* Mutant: a slot counts only while its client was heard since the last frame.
ListsFresh(h, c) ==
  \E i \in Slots : Occupied(h, i) /\ slot[h][i].cid = c /\ slot[h][i].ttl = 0
Lists(h, c) == \E i \in Slots : Occupied(h, i) /\ slot[h][i].cid = c

\* A packet is kept when it has bytes and the queue a free place.
Enqueue(q, s, p) ==
  IF p # Empty /\ Len(q) < QLen THEN Append(q, [from |-> s, data |-> p]) ELSE q

Dequeue(q) == IF q = <<>> THEN q ELSE Tail(q)

\* netpacket_send; a node is not connected to itself.
Post(f, s, d, m) == IF s = d THEN f ELSE [f EXCEPT ![s][d] = Append(@, m)]

\* The head of the channel from s to n is handed to rfu_net_receive.
Arrives(s, n, type) == net[s][n] # <<>> /\ Head(net[s][n]).type = type
Consumed(s, n) == [net EXCEPT ![s][n] = Tail(@)]

\* Bound: a game's command, or a frame, waits while the node's channels are full.
Room(n) == \A d \in Nodes : Len(net[n][d]) < MaxNet

\* A command reaches rfu_process_command only once the adapter left reset.
Command(n, name) ==
  /\ name \in Cmds[n]
  /\ on[n]
  /\ cmds < MaxCmds
  /\ Room(n)
  /\ cmds' = cmds + 1

\* new_devid draws a random id; that two draws differ is an assumption.
NewDevid(d) == d \in DevIds /\ \A r \in issued : r.id # d

--------------------------------------------------------------------------
Init ==
  /\ on = [n \in Nodes |-> FALSE]
  /\ st = [n \in Nodes |-> "IDLE"]
  /\ hdev = [n \in Nodes |-> NoId]
  /\ txttl = [n \in Nodes |-> 0]
  /\ slot = [n \in Nodes |-> [i \in Slots |-> FreeSlot]]
  /\ cli = [n \in Nodes |-> NoClient]
  /\ heard = [n \in Nodes |-> [p \in Nodes |-> NoPeer]]
  /\ txbuf = [n \in Nodes |-> Empty]
  /\ net = [s \in Nodes |-> [d \in Nodes |-> <<>>]]
  /\ issued = {}
  /\ cmds = 0

(* The game pulls the reset pin.  rfu_client and rfu_tx_buf keep their values. *)
Reset(n) ==
  /\ "reset" \in Cmds[n] /\ cmds < MaxCmds
  /\ on[n]
  /\ on' = [on EXCEPT ![n] = FALSE]
  /\ st' = [st EXCEPT ![n] = "IDLE"]
  /\ hdev' = [hdev EXCEPT ![n] = NoId]
  /\ txttl' = [txttl EXCEPT ![n] = 0]
  /\ slot' = [slot EXCEPT ![n] = [i \in Slots |-> FreeSlot]]
  /\ heard' = [heard EXCEPT ![n] = [p \in Nodes |-> NoPeer]]
  /\ cmds' = cmds + 1
  /\ UNCHANGED <<cli, txbuf, net, issued>>

(* The game's login words take the adapter out of reset. *)
Handshake(n) ==
  /\ ~on[n]
  /\ on' = [on EXCEPT ![n] = TRUE]
  /\ UNCHANGED <<st, hdev, txttl, slot, cli, heard, txbuf, net, issued, cmds>>

--------------------------------------------------------------------------
(* Commands of the game: rfu_process_command.  A command that only reads, or  *)
(* that is refused, changes none of this state and is not an action.          *)

(* Host mode starts from idle with a fresh id and cleared slots; in any other *)
(* state but client the command only asks for an immediate broadcast.         *)
HostStart(n) ==
  /\ Command(n, "host_start")
  /\ st[n] # "CLIENT"
  /\ IF st[n] = "IDLE"
     THEN \E d \in DevIds :
            /\ NewDevid(d)
            /\ hdev' = [hdev EXCEPT ![n] = d]
            /\ issued' = Issued(d, n, 0, n)
            /\ slot' = [slot EXCEPT ![n] = [i \in Slots |-> FreeSlot]]
            /\ st' = [st EXCEPT ![n] = "HOST"]
     ELSE UNCHANGED <<st, hdev, slot, issued>>
  /\ txttl' = [txttl EXCEPT ![n] = Announce]
  /\ UNCHANGED <<on, cli, heard, txbuf, net>>

\* Mutant: hosting stops whether clients are connected or not.
HostStopAnyway(n) ==
  /\ Command(n, "host_stop")
  /\ st[n] = "HOST"
  /\ st' = [st EXCEPT ![n] = "IDLE"]
  /\ UNCHANGED <<on, hdev, txttl, slot, cli, heard, txbuf, net, issued>>

(* A host without clients goes idle; with clients it goes on hosting. *)
HostStop(n) ==
  /\ Command(n, "host_stop")
  /\ st[n] = "HOST"
  /\ \A i \in Slots : ~Occupied(n, i)
  /\ st' = [st EXCEPT ![n] = "IDLE"]
  /\ UNCHANGED <<on, hdev, txttl, slot, cli, heard, txbuf, net, issued>>

(* The game asks to join the session of peer p, whose broadcast is still      *)
(* valid.  Only a host refuses: a client may ask while it is connected.       *)
Connect(n, p) ==
  /\ Command(n, "connect")
  /\ st[n] # "HOST"
  /\ heard[n][p].ttl > 0
  /\ net' = Post(net, n, p, Notice("CONNECT_REQ", heard[n][p].devid, 0))
  /\ st' = [st EXCEPT ![n] = "CONNECTING"]
  /\ UNCHANGED <<on, hdev, txttl, slot, cli, heard, txbuf, issued>>

(* Connection complete: without a connection the attempt is abandoned. *)
ConCompl(n) ==
  /\ Command(n, "concompl")
  /\ st[n] \in {"IDLE", "CONNECTING"}
  /\ st' = [st EXCEPT ![n] = "IDLE"]
  /\ UNCHANGED <<on, hdev, txttl, slot, cli, heard, txbuf, net, issued>>

\* What SEND_DATA and RTX_WAIT put on the network for payload p.
Transmitted(n, p) ==
  CASE st[n] = "HOST" ->
         [net EXCEPT ![n] = [d \in Nodes |->
            IF d # n /\ Lists(n, d)
            THEN Append(net[n][d], DataMsg("HOST_SEND", NoId, 0, p))
            ELSE net[n][d]]]
    [] st[n] = "CLIENT" /\ p \notin LongData ->
         Post(net, n, cli[n].host,
              DataMsg("CLIENT_SEND", cli[n].devid, cli[n].clnum, p))
    [] OTHER -> net

(* SEND_DATA and SEND_DATAW load the transmit buffer, then transmit it. *)
SendData(n, p) ==
  /\ Command(n, "send")
  /\ st[n] \in {"HOST", "CLIENT"}
  /\ txbuf' = [txbuf EXCEPT ![n] = p]
  /\ net' = Transmitted(n, p)
  /\ UNCHANGED <<on, st, hdev, txttl, slot, cli, heard, issued>>

(* RTX_WAIT transmits what the buffer holds, whoever it was meant for. *)
RtxWait(n) ==
  /\ Command(n, "rtx_wait")
  /\ st[n] \in {"HOST", "CLIENT"}
  /\ net' = Transmitted(n, txbuf[n])
  /\ UNCHANGED <<on, st, hdev, txttl, slot, cli, heard, txbuf, issued>>

(* A host reads the front packet of every occupied slot, a client its own. *)
RecvData(n) ==
  /\ Command(n, "recv")
  /\ \/ /\ st[n] = "HOST"
        /\ slot' = [slot EXCEPT ![n] = [i \in Slots |->
                      IF Occupied(n, i)
                      THEN [slot[n][i] EXCEPT !.q = Dequeue(@)]
                      ELSE slot[n][i]]]
        /\ UNCHANGED cli
     \/ /\ st[n] = "CLIENT"
        /\ cli' = [cli EXCEPT ![n].q = Dequeue(@)]
        /\ UNCHANGED slot
  /\ UNCHANGED <<on, st, hdev, txttl, heard, txbuf, net, issued>>

(* A client leaves its host. *)
ClientDisconnect(n) ==
  /\ Command(n, "disconnect")
  /\ st[n] = "CLIENT"
  /\ net' = Post(net, n, cli[n].host,
                 Notice("DISCONNECT", cli[n].devid, cli[n].clnum))
  /\ st' = [st EXCEPT ![n] = "IDLE"]
  /\ UNCHANGED <<on, hdev, txttl, slot, cli, heard, txbuf, issued>>

(* A host drops the client of slot i.  The notice goes to the slot's netplay  *)
(* id whether the slot is occupied or not: a free slot holds id 0.  A mask of *)
(* several slots is the same as one command per slot.                         *)
HostDisconnect(n, i) ==
  /\ Command(n, "disconnect")
  /\ st[n] = "HOST"
  /\ net' = Post(net, n, slot[n][i].cid, Notice("DISCONNECT", slot[n][i].devid, i))
  /\ slot' = [slot EXCEPT ![n][i] = FreeSlot]
  /\ UNCHANGED <<on, st, hdev, txttl, cli, heard, txbuf, issued>>

--------------------------------------------------------------------------
(* Once per video frame: rfu_frame_update. *)

Expired(h, i) == Occupied(h, i) /\ slot[h][i].ttl + 1 >= ClientTTL
\* Mutant: the last frame of a peer's life is not counted.
AgedButOne(peer) == [peer EXCEPT !.ttl = IF @ > 1 THEN @ - 1 ELSE @]
Aged(peer) == [peer EXCEPT !.ttl = IF @ > 0 THEN @ - 1 ELSE @]

FrameUpdate(n) ==
  /\ on[n]
  /\ Room(n)
  /\ heard' = [heard EXCEPT ![n] = [p \in Nodes |-> Aged(heard[n][p])]]
  /\ IF st[n] = "HOST"
     THEN /\ txttl' = [txttl EXCEPT ![n] = IF @ >= Announce THEN 0 ELSE @ + 1]
          /\ net' = IF txttl[n] >= Announce
                    THEN [net EXCEPT ![n] = [d \in Nodes |->
                            IF d = n THEN net[n][d]
                            ELSE Append(net[n][d], Notice("BROADCAST", hdev[n], 0))]]
                    ELSE net
          /\ slot' = [slot EXCEPT ![n] = [i \in Slots |->
                        IF Expired(n, i) THEN FreeSlot
                        ELSE IF Occupied(n, i) THEN [slot[n][i] EXCEPT !.ttl = @ + 1]
                        ELSE slot[n][i]]]
     ELSE UNCHANGED <<txttl, net, slot>>
  /\ UNCHANGED <<on, st, hdev, cli, txbuf, issued, cmds>>

--------------------------------------------------------------------------
(* Packets: rfu_net_receive, one action per packet type.  Handlers run in any *)
(* adapter state, a device in reset included.                                 *)

RecvBroadcast(s, n) ==
  /\ Arrives(s, n, "BROADCAST")
  /\ heard' = [heard EXCEPT ![n][s] =
                 [devid |-> Head(net[s][n]).devid, ttl |-> PeerTTL]]
  /\ net' = Consumed(s, n)
  /\ UNCHANGED <<on, st, hdev, txttl, slot, cli, txbuf, issued, cmds>>

\* The first free slot, as the search in index order finds it.
FirstFree(h, i) == ~Occupied(h, i) /\ \A j \in Slots : j < i => Occupied(h, j)

\* A request of a client that is listed already gets no answer.
IgnoreConnectReq(s, n) ==
  /\ Arrives(s, n, "CONNECT_REQ")
  /\ st[n] = "HOST" /\ Lists(n, s)
  /\ net' = Consumed(s, n)
  /\ UNCHANGED <<on, st, hdev, txttl, slot, cli, heard, txbuf, issued, cmds>>

\* Mutant: the client gets the id of the session instead of one of its own.
AcceptWithSessionId(s, n) ==
  /\ Arrives(s, n, "CONNECT_REQ")
  /\ st[n] = "HOST" /\ ~Lists(n, s)
  /\ \E i \in Slots :
       /\ FirstFree(n, i)
       /\ slot' = [slot EXCEPT ![n][i] = [@ EXCEPT !.devid = hdev[n], !.cid = s]]
       /\ net' = Post(Consumed(s, n), n, s, Notice("CONNECT_ACK", hdev[n], i))
  /\ UNCHANGED <<on, st, hdev, txttl, cli, heard, txbuf, issued, cmds>>

AcceptConnectReq(s, n) ==
  /\ Arrives(s, n, "CONNECT_REQ")
  /\ st[n] = "HOST" /\ ~Lists(n, s)
  /\ \E i \in Slots, d \in DevIds :
       /\ FirstFree(n, i)
       /\ NewDevid(d)
       /\ issued' = Issued(d, n, i, s)
       /\ slot' = [slot EXCEPT ![n][i] = [@ EXCEPT !.devid = d, !.cid = s]]
       /\ net' = Post(Consumed(s, n), n, s, Notice("CONNECT_ACK", d, i))
  /\ UNCHANGED <<on, st, hdev, txttl, cli, heard, txbuf, cmds>>

\* Mutant: only a host answers.
RejectWhenFull(s, n) ==
  /\ Arrives(s, n, "CONNECT_REQ")
  /\ \/ st[n] # "HOST"
     \/ ~Lists(n, s) /\ \A i \in Slots : Occupied(n, i)
  /\ net' = IF st[n] = "HOST"
            THEN Post(Consumed(s, n), n, s, Notice("CONNECT_NACK", NoId, 0))
            ELSE Consumed(s, n)
  /\ UNCHANGED <<on, st, hdev, txttl, slot, cli, heard, txbuf, issued, cmds>>

RejectConnectReq(s, n) ==
  /\ Arrives(s, n, "CONNECT_REQ")
  /\ \/ st[n] # "HOST"
     \/ ~Lists(n, s) /\ \A i \in Slots : Occupied(n, i)
  /\ net' = Post(Consumed(s, n), n, s, Notice("CONNECT_NACK", NoId, 0))
  /\ UNCHANGED <<on, st, hdev, txttl, slot, cli, heard, txbuf, issued, cmds>>

(* The sender becomes the host, whichever host was asked last. *)
RecvConnectAck(s, n) ==
  /\ Arrives(s, n, "CONNECT_ACK")
  /\ IF st[n] = "CONNECTING"
     THEN /\ cli' = [cli EXCEPT ![n] =
                       [devid |-> Head(net[s][n]).devid, clnum |-> Head(net[s][n]).slot,
                        host |-> s, q |-> <<>>]]
          /\ st' = [st EXCEPT ![n] = "CLIENT"]
     ELSE UNCHANGED <<cli, st>>
  /\ net' = Consumed(s, n)
  /\ UNCHANGED <<on, hdev, txttl, slot, heard, txbuf, issued, cmds>>

RecvConnectNack(s, n) ==
  /\ Arrives(s, n, "CONNECT_NACK")
  /\ st' = [st EXCEPT ![n] = IF @ = "CONNECTING" THEN "IDLE" ELSE @]
  /\ net' = Consumed(s, n)
  /\ UNCHANGED <<on, hdev, txttl, slot, cli, heard, txbuf, issued, cmds>>

\* Mutant: the id in the notice is not compared.
RecvDisconnectAnyId(s, n) ==
  /\ Arrives(s, n, "DISCONNECT")
  /\ LET m == Head(net[s][n]) IN
       /\ slot' = IF st[n] = "HOST" THEN [slot EXCEPT ![n][m.slot] = FreeSlot] ELSE slot
       /\ cli' = IF st[n] = "CLIENT" THEN [cli EXCEPT ![n] = NoClient] ELSE cli
       /\ st' = IF st[n] = "CLIENT" THEN [st EXCEPT ![n] = "IDLE"] ELSE st
  /\ net' = Consumed(s, n)
  /\ UNCHANGED <<on, hdev, txttl, heard, txbuf, issued, cmds>>

\* A host clears the slot the notice names if the id is still that slot's.
RecvDisconnect(s, n) ==
  /\ Arrives(s, n, "DISCONNECT")
  /\ LET m == Head(net[s][n]) IN
       /\ slot' = IF st[n] = "HOST" /\ slot[n][m.slot].devid = m.devid
                  THEN [slot EXCEPT ![n][m.slot] = FreeSlot]
                  ELSE slot
       /\ cli' = IF st[n] = "CLIENT" THEN [cli EXCEPT ![n] = NoClient] ELSE cli
       /\ st' = IF st[n] = "CLIENT" THEN [st EXCEPT ![n] = "IDLE"] ELSE st
  /\ net' = Consumed(s, n)
  /\ UNCHANGED <<on, hdev, txttl, heard, txbuf, issued, cmds>>

(* A client acknowledges to the sender and queues the packet if it can. *)
RecvHostSend(s, n) ==
  /\ Arrives(s, n, "HOST_SEND")
  /\ IF st[n] = "CLIENT"
     THEN /\ cli' = [cli EXCEPT ![n].q = Enqueue(@, s, Head(net[s][n]).data)]
          /\ net' = Post(Consumed(s, n), n, s,
                         Notice("CLIENT_ACK", cli[n].devid, cli[n].clnum))
     ELSE /\ net' = Consumed(s, n)
          /\ UNCHANGED cli
  /\ UNCHANGED <<on, st, hdev, txttl, slot, heard, txbuf, issued, cmds>>

\* Mutant: the slot number alone decides.
SpeaksForSlot(n, m) == st[n] = "HOST" /\ Occupied(n, m.slot)

\* The slot's id decides whether the packet is of the present occupant.
Speaks(n, m) == st[n] = "HOST" /\ slot[n][m.slot].devid = m.devid

RecvClientSend(s, n) ==
  /\ Arrives(s, n, "CLIENT_SEND")
  /\ LET m == Head(net[s][n]) IN
       slot' = IF Speaks(n, m)
               THEN [slot EXCEPT ![n][m.slot] =
                       [@ EXCEPT !.ttl = 0,
                                 !.q = Enqueue(slot[n][m.slot].q, s, m.data)]]
               ELSE slot
  /\ net' = Consumed(s, n)
  /\ UNCHANGED <<on, st, hdev, txttl, cli, heard, txbuf, issued, cmds>>

RecvClientAck(s, n) ==
  /\ Arrives(s, n, "CLIENT_ACK")
  /\ LET m == Head(net[s][n]) IN
       slot' = IF Speaks(n, m) THEN [slot EXCEPT ![n][m.slot].ttl = 0] ELSE slot
  /\ net' = Consumed(s, n)
  /\ UNCHANGED <<on, st, hdev, txttl, cli, heard, txbuf, issued, cmds>>

--------------------------------------------------------------------------
GameStep(n) ==
  \/ Reset(n) \/ HostStart(n) \/ HostStop(n) \/ ConCompl(n)
  \/ RtxWait(n) \/ RecvData(n) \/ ClientDisconnect(n)
  \/ \E p \in Nodes : Connect(n, p)
  \/ \E p \in Data : SendData(n, p)
  \/ \E i \in Slots : HostDisconnect(n, i)

Receive(s, n) ==
  \/ RecvBroadcast(s, n) \/ IgnoreConnectReq(s, n) \/ AcceptConnectReq(s, n)
  \/ RejectConnectReq(s, n) \/ RecvConnectAck(s, n) \/ RecvConnectNack(s, n)
  \/ RecvDisconnect(s, n) \/ RecvHostSend(s, n) \/ RecvClientSend(s, n)
  \/ RecvClientAck(s, n)

Next ==
  \/ \E n \in Nodes : GameStep(n) \/ Handshake(n) \/ FrameUpdate(n)
  \/ \E s, n \in Nodes : Receive(s, n)

Spec == Init /\ [][Next]_vars

(* Every emulator goes on drawing frames and its netplay session goes on      *)
(* delivering: retro_run is called per frame, and packets are sent reliable.  *)
Fairness ==
  /\ \A n \in Nodes : WF_vars(FrameUpdate(n)) /\ WF_vars(Handshake(n))
  /\ \A s, n \in Nodes : WF_vars(Receive(s, n))

FairSpec == Spec /\ Fairness
--------------------------------------------------------------------------
(* Properties *)

\* The variables keep their types; queues keep their size, and a client is
\* dropped before its count of silent frames reaches the limit.
TypeOK ==
  /\ on \in [Nodes -> BOOLEAN]
  /\ st \in [Nodes -> {"IDLE", "HOST", "CONNECTING", "CLIENT"}]
  /\ hdev \in [Nodes -> DevIds \cup {NoId}]
  /\ txttl \in [Nodes -> 0 .. Announce]
  /\ slot \in [Nodes -> [Slots -> SlotRec]]
  /\ \A n \in Nodes, i \in Slots : Len(slot[n][i].q) <= QLen
  /\ cli \in [Nodes -> ClientRec]
  /\ \A n \in Nodes : Len(cli[n].q) <= QLen
  /\ heard \in [Nodes -> [Nodes -> PeerRec]]
  /\ txbuf \in [Nodes -> Payload]
  /\ net \in [Nodes -> [Nodes -> Seq(Msg)]]
  /\ issued \in SUBSET Issue
  /\ cmds \in Nat

\* Slots are occupied only while hosting: whatever way an adapter stops being a
\* host (reset, HOST_STOP), it left no client listed behind (rfu.c HOST_STOP keeps
\* hosting while a slot is taken), so no later role answers for old clients.
SlotsOnlyWhenHosting ==
  \A h \in Nodes, i \in Slots : Occupied(h, i) => st[h] = "HOST" /\ on[h]

\* A host never lists one client in two slots, however often the client asks
\* again after leaving, a reset or a lost session ("Ensure this client is not
\* already connected!").
OneSlotPerClient ==
  \A h \in Nodes, i, j \in Slots :
    Occupied(h, i) /\ Occupied(h, j) /\ slot[h][i].cid = slot[h][j].cid => i = j

\* What a host reads from a slot was sent by the slot's present client: packets of
\* an earlier occupant that arrive late are refused ("Validate the slot with
\* device ID").
SlotDataFromItsClient ==
  \A h \in Nodes, i \in Slots :
    Occupied(h, i) => \A k \in 1 .. Len(slot[h][i].q) :
                         slot[h][i].q[k].from = slot[h][i].cid

\* No two connected clients hold the same place: same host, slot and device id.
NoSharedSlot ==
  \A c1, c2 \in Nodes :
    /\ st[c1] = "CLIENT" /\ st[c2] = "CLIENT"
    /\ cli[c1].host = cli[c2].host
    /\ cli[c1].clnum = cli[c2].clnum
    /\ cli[c1].devid = cli[c2].devid
    => c1 = c2

\* Connections are one to one: a slot has one client, a client one slot (rfu_net_receive).
OnePlaceEach == NoSharedSlot /\ OneSlotPerClient

\* No packet of another node changes an occupied slot: neither a late notice of
\* the slot's former client nor a stray one clears it, refreshes its time to live
\* or queues data in it.
SlotTouched(s, h, i) ==
  Receive(s, h) /\ Occupied(h, i) /\ slot'[h][i] # slot[h][i] => s = slot[h][i].cid

SlotTouchedByItsClient ==
  [][\A s, h \in Nodes, i \in Slots : SlotTouched(s, h, i)]_vars

\* What a client reads as host data was sent by its host ("Data received from the
\* host (accumulated)", "Host to client data send").
ClientDataFromHost ==
  \A c \in Nodes : st[c] = "CLIENT" =>
    \A k \in 1 .. Len(cli[c].q) : cli[c].q[k].from = cli[c].host

\* A slot whose client does not know of it, or has left, is free again one day:
\* the frame count runs out, since nobody else can refresh it.
KnowsSlot(h, i, d) ==
  \E c \in Nodes : st[c] = "CLIENT" /\ cli[c].devid = d /\ cli[c].host = h

GhostSlotFreed ==
  \A h \in Nodes, i \in Slots, d \in DevIds :
    (slot[h][i].devid = d /\ ~KnowsSlot(h, i, d))
      ~> (slot[h][i].devid # d \/ KnowsSlot(h, i, d))

\* A session that is over disappears from every list of broadcasting peers.
DeadSessionForgotten ==
  \A h, c \in Nodes :
    <>[](st[h] # "HOST") => <>[](heard[c][h].ttl = 0)

\* A connection request under way is answered, unless the host lists the client
\* already: a client does not stay in CONNECTING because its host was full, had
\* stopped hosting, or was reset.
Requesting(c, h) ==
  /\ st[c] = "CONNECTING"
  /\ \E k \in 1 .. Len(net[c][h]) : net[c][h][k].type = "CONNECT_REQ"

RequestAnswered ==
  \A c, h \in Nodes :
    (Requesting(c, h) /\ ~Lists(h, c)) ~> (st[c] # "CONNECTING" \/ Lists(h, c))

--------------------------------------------------------------------------
(* The inductive invariant behind the safety properties: every id a slot, a   *)
(* client or a packet carries was drawn for exactly that host, slot and       *)
(* client, and no id was drawn twice.                                         *)

InChannel(f, s, d) == {f[s][d][k] : k \in 1 .. Len(f[s][d])}

Is(d, h, i, c) == [id |-> d, host |-> h, slot |-> i, client |-> c] \in issued

IdsUnique == \A r1, r2 \in issued : r1.id = r2.id => r1 = r2

SlotsIssued ==
  \A h \in Nodes, i \in Slots :
    Occupied(h, i) => Is(slot[h][i].devid, h, i, slot[h][i].cid)

ClientsIssued ==
  \A c \in Nodes :
    st[c] = "CLIENT" => Is(cli[c].devid, cli[c].host, cli[c].clnum, c)

PacketIssued(m, s, d) ==
  /\ m.type = "CONNECT_ACK" => Is(m.devid, s, m.slot, d)
  /\ m.type = "CLIENT_SEND" => Is(m.devid, d, m.slot, s)
  /\ m.type = "CLIENT_ACK" => \E h \in Nodes, i \in Slots : Is(m.devid, h, i, s)
  /\ m.type = "DISCONNECT" => \/ m.devid = NoId
                              \/ Is(m.devid, d, m.slot, s)
                              \/ Is(m.devid, s, m.slot, d)

PacketsIssued ==
  \A s, d \in Nodes : \A m \in InChannel(net, s, d) : PacketIssued(m, s, d)

HostsAreOn == \A h \in Nodes : st[h] = "HOST" => on[h]

FreeSlotsEmpty == \A h \in Nodes, i \in Slots : Occupied(h, i) \/ slot[h][i].q = <<>>

IInv ==
  /\ TypeOK
  /\ IdsUnique /\ SlotsIssued /\ ClientsIssued /\ PacketsIssued
  /\ HostsAreOn /\ SlotsOnlyWhenHosting /\ OneSlotPerClient
  /\ FreeSlotsEmpty /\ SlotDataFromItsClient
=============================================================================
