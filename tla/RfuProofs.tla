------------------------------ MODULE RfuProofs ------------------------------
(* Proofs about Rfu, for any number of nodes, slots, ids and payloads.         *)
EXTENDS Rfu, TLAPS

Network == [Nodes -> [Nodes -> Seq(Msg)]]

--------------------------------------------------------------------------
(* Channels *)

\* The network is well typed.
LEMMA NetworkType ==
  ASSUME TypeOK
  PROVE  net \in Network
  BY DEF TypeOK, Network

\* A notice is a message.
LEMMA NoticeType ==
  ASSUME NEW t \in MsgType, NEW d \in DevIds \cup {NoId}, NEW i \in Slots
  PROVE  Notice(t, d, i) \in Msg
  BY DEF Notice, Msg, Payload

\* There is a slot 0.
LEMMA ZeroSlot == 0 \in Slots
  BY ConstantsAssumption DEF Slots

\* An element of a queue to which one was added.
LEMMA AppendElement ==
  ASSUME NEW q \in Seq(Msg), NEW x \in Msg, NEW k \in 1 .. Len(Append(q, x))
  PROVE  Append(q, x)[k] = x \/ (k \in 1 .. Len(q) /\ Append(q, x)[k] = q[k])
  OBVIOUS

\* Sending adds one packet, at most, to one channel.
LEMMA PostFacts ==
  ASSUME NEW f \in Network, NEW s \in Nodes, NEW d \in Nodes, NEW m \in Msg
  PROVE  /\ Post(f, s, d, m) \in Network
         /\ \A a, b \in Nodes :
              InChannel(Post(f, s, d, m), a, b) \subseteq
                InChannel(f, a, b) \cup (IF a = s /\ b = d THEN {m} ELSE {})
<1>1. CASE s = d
  BY <1>1 DEF Post, InChannel
<1>2. CASE s # d
  <2> DEFINE g == [f EXCEPT ![s][d] = Append(@, m)]
  <2>1. Post(f, s, d, m) = g
    BY <1>2 DEF Post
  <2>2. g \in Network
    BY DEF Network
  <2>3. ASSUME NEW a \in Nodes, NEW b \in Nodes
        PROVE  InChannel(g, a, b) \subseteq
                 InChannel(f, a, b) \cup (IF a = s /\ b = d THEN {m} ELSE {})
    <3>1. CASE a = s /\ b = d
      <4>1. g[a][b] = Append(f[a][b], m) /\ f[a][b] \in Seq(Msg)
        BY <3>1 DEF Network
      <4> QED
        BY <3>1, <4>1 DEF InChannel
    <3>2. CASE ~(a = s /\ b = d)
      <4>1. g[a][b] = f[a][b]
        BY <3>2 DEF Network
      <4> QED
        BY <4>1 DEF InChannel
    <3> QED
      BY <3>1, <3>2
  <2> QED
    BY <2>1, <2>2, <2>3
<1> QED
  BY <1>1, <1>2

\* Receiving takes the head, a packet that was in the channel, and adds none.
LEMMA ConsumedFacts ==
  ASSUME net \in Network, NEW s \in Nodes, NEW n \in Nodes, net[s][n] # <<>>
  PROVE  /\ Consumed(s, n) \in Network
         /\ Head(net[s][n]) \in Msg
         /\ Head(net[s][n]) \in InChannel(net, s, n)
         /\ \A a, b \in Nodes : InChannel(Consumed(s, n), a, b) \subseteq InChannel(net, a, b)
<1>1. net[s][n] \in Seq(Msg)
  BY DEF Network
<1>2. Consumed(s, n) \in Network
  BY <1>1 DEF Network, Consumed
<1>3. Head(net[s][n]) \in Msg
  BY <1>1
<1>4. Head(net[s][n]) \in InChannel(net, s, n)
  BY <1>1 DEF InChannel
<1>5. ASSUME NEW a \in Nodes, NEW b \in Nodes
      PROVE  InChannel(Consumed(s, n), a, b) \subseteq InChannel(net, a, b)
  <2>1. CASE a = s /\ b = n
    <3>1. Consumed(s, n)[a][b] = Tail(net[a][b])
      BY <2>1 DEF Consumed, Network
    <3>2. \A k \in 1 .. Len(Tail(net[a][b])) :
            k + 1 \in 1 .. Len(net[a][b]) /\ Tail(net[a][b])[k] = net[a][b][k + 1]
      BY <1>1, <2>1
    <3> QED
      BY <3>1, <3>2 DEF InChannel
  <2>2. CASE ~(a = s /\ b = n)
    <3>1. Consumed(s, n)[a][b] = net[a][b]
      BY <2>2 DEF Consumed, Network
    <3> QED
      BY <3>1 DEF InChannel
  <2> QED
    BY <2>1, <2>2
<1> QED
  BY <1>2, <1>3, <1>4, <1>5

\* A packet queue keeps its type and its bound, and takes from one sender only.
LEMMA EnqueueFacts ==
  ASSUME NEW q \in Seq(Packet), Len(q) <= QLen, NEW s \in Nodes, NEW p \in Payload
  PROVE  /\ Enqueue(q, s, p) \in Seq(Packet)
         /\ Len(Enqueue(q, s, p)) <= QLen
         /\ \A k \in 1 .. Len(Enqueue(q, s, p)) :
              \/ Enqueue(q, s, p)[k].from = s
              \/ k \in 1 .. Len(q) /\ Enqueue(q, s, p)[k] = q[k]
<1>1. CASE p # Empty /\ Len(q) < QLen
  <2>1. [from |-> s, data |-> p] \in Packet
    BY <1>1 DEF Packet, Payload
  <2>2. Enqueue(q, s, p) = Append(q, [from |-> s, data |-> p])
    BY <1>1 DEF Enqueue
  <2> QED
    BY <1>1, <2>1, <2>2, ConstantsAssumption
<1>2. CASE ~(p # Empty /\ Len(q) < QLen)
  BY <1>2 DEF Enqueue
<1> QED
  BY <1>1, <1>2

\* A queue without its head.
LEMMA DequeueFacts ==
  ASSUME NEW q \in Seq(Packet), Len(q) <= QLen
  PROVE  /\ Dequeue(q) \in Seq(Packet)
         /\ Len(Dequeue(q)) <= QLen
         /\ \A k \in 1 .. Len(Dequeue(q)) :
              k + 1 \in 1 .. Len(q) /\ Dequeue(q)[k] = q[k + 1]
<1>1. CASE q = <<>>
  BY <1>1 DEF Dequeue
<1>2. CASE q # <<>>
  BY <1>2, ConstantsAssumption DEF Dequeue
<1> QED
  BY <1>1, <1>2

--------------------------------------------------------------------------
(* Type correctness *)

\* The values of what is not in use are well typed.
LEMMA FreeTypes ==
  /\ FreeSlot \in SlotRec /\ FreeSlot.q = <<>> /\ FreeSlot.devid = NoId
  /\ NoClient \in ClientRec /\ NoClient.q = <<>>
  /\ NoPeer \in PeerRec
BY ZeroSlot, ConstantsAssumption DEF FreeSlot, NoClient, NoPeer, SlotRec, ClientRec, PeerRec

THEOREM InitType == Init => TypeOK
BY FreeTypes, ConstantsAssumption DEF Init, TypeOK, Payload

\* A transmission leaves a network.
LEMMA TransmittedType ==
  ASSUME TypeOK, NEW n \in Nodes, NEW p \in Payload
  PROVE  Transmitted(n, p) \in Network
<1>1. net \in Network /\ cli[n] \in ClientRec
  BY DEF TypeOK, Network
<1>2. CASE st[n] = "HOST"
  <2>1. DataMsg("HOST_SEND", NoId, 0, p) \in Msg
    BY ZeroSlot DEF DataMsg, Msg, MsgType
  <2> QED
    BY <1>1, <1>2, <2>1 DEF Transmitted, Network
<1>3. CASE st[n] = "CLIENT" /\ p \notin LongData
  <2>1. DataMsg("CLIENT_SEND", cli[n].devid, cli[n].clnum, p) \in Msg /\ cli[n].host \in Nodes
    BY <1>1 DEF DataMsg, Msg, MsgType, ClientRec
  <2>2. Transmitted(n, p) =
          Post(net, n, cli[n].host, DataMsg("CLIENT_SEND", cli[n].devid, cli[n].clnum, p))
    BY <1>3 DEF Transmitted
  <2> QED
    BY <1>1, <2>1, <2>2, PostFacts
<1>4. CASE st[n] # "HOST" /\ ~(st[n] = "CLIENT" /\ p \notin LongData)
  BY <1>1, <1>4 DEF Transmitted
<1> QED
  BY <1>2, <1>3, <1>4

\* A client that was just heard is alive.
LEMMA FreshTTL == 0 \in 0 .. (ClientTTL - 1)
  BY ConstantsAssumption

\* Replacing one slot by a well-formed one.
LEMMA OneSlotChanged ==
  ASSUME TypeOK, NEW n \in Nodes, NEW i \in Slots, NEW r \in SlotRec, Len(r.q) <= QLen,
         slot' = [slot EXCEPT ![n][i] = r]
  PROVE  /\ slot' \in [Nodes -> [Slots -> SlotRec]]
         /\ \A h \in Nodes, j \in Slots :
              slot'[h][j] = IF h = n /\ j = i THEN r ELSE slot[h][j]
         /\ \A h \in Nodes, j \in Slots : Len(slot'[h][j].q) <= QLen
<1>1. slot \in [Nodes -> [Slots -> SlotRec]]
  BY DEF TypeOK
<1>2. \A h \in Nodes, j \in Slots :
        slot'[h][j] = IF h = n /\ j = i THEN r ELSE slot[h][j]
  BY <1>1
<1>3. slot' \in [Nodes -> [Slots -> SlotRec]]
  BY <1>1
<1> QED
  BY <1>2, <1>3 DEF TypeOK

\* Clearing all slots of a node keeps the slots' types.
LEMMA ClearedSlots ==
  ASSUME TypeOK, NEW n \in Nodes,
         slot' = [slot EXCEPT ![n] = [i \in Slots |-> FreeSlot]]
  PROVE  /\ slot' \in [Nodes -> [Slots -> SlotRec]]
         /\ \A m \in Nodes, i \in Slots : Len(slot'[m][i].q) <= QLen
<1>1. slot \in [Nodes -> [Slots -> SlotRec]]
  BY DEF TypeOK
<1>2. \A m \in Nodes, i \in Slots :
        slot'[m][i] = IF m = n THEN FreeSlot ELSE slot[m][i]
  BY <1>1
<1>3. Len(FreeSlot.q) <= QLen
  BY FreeTypes, ConstantsAssumption
<1>4. \A m \in Nodes, i \in Slots : Len(slot'[m][i].q) <= QLen
  BY <1>2, <1>3 DEF TypeOK
<1> QED
  BY <1>1, <1>4, FreeTypes

\* Whatever the game commands, the types are kept.
LEMMA GameStepType ==
  ASSUME TypeOK, NEW n \in Nodes, GameStep(n)
  PROVE  TypeOK'
<1>1. CASE Reset(n)
  <2>1. /\ slot' \in [Nodes -> [Slots -> SlotRec]]
        /\ \A m \in Nodes, i \in Slots : Len(slot'[m][i].q) <= QLen
    BY <1>1, ClearedSlots DEF Reset
  <2>2. heard' \in [Nodes -> [Nodes -> PeerRec]]
    BY <1>1, FreeTypes DEF TypeOK, Reset
  <2>3. on' \in [Nodes -> BOOLEAN] /\ txttl' \in [Nodes -> 0 .. Announce] /\ cmds' \in Nat
    BY <1>1, ConstantsAssumption DEF TypeOK, Reset
  <2> QED
    BY <1>1, <2>1, <2>2, <2>3 DEF TypeOK, Reset
<1>2. CASE HostStart(n)
  <2>1. CASE st[n] = "IDLE"
    <3>1. PICK d \in DevIds : issued' = Issued(d, n, 0, n) /\ hdev' = [hdev EXCEPT ![n] = d]
      BY <1>2, <2>1 DEF HostStart
    <3>2. issued' \in SUBSET Issue
      BY <3>1, ZeroSlot DEF TypeOK, Issued, Issue
    <3>3. /\ slot' \in [Nodes -> [Slots -> SlotRec]]
          /\ \A m \in Nodes, i \in Slots : Len(slot'[m][i].q) <= QLen
      BY <1>2, <2>1, ClearedSlots DEF HostStart
    <3>4. txttl' \in [Nodes -> 0 .. Announce] /\ cmds' \in Nat
      BY <1>2, ConstantsAssumption DEF TypeOK, HostStart, Command
    <3>5. st' \in [Nodes -> {"IDLE", "HOST", "CONNECTING", "CLIENT"}]
      BY <1>2, <2>1 DEF TypeOK, HostStart
    <3>6. hdev' \in [Nodes -> DevIds \cup {NoId}]
      BY <3>1 DEF TypeOK
    <3> QED
      BY <1>2, <3>2, <3>3, <3>4, <3>5, <3>6 DEF TypeOK, HostStart
  <2>2. CASE st[n] # "IDLE"
    BY <1>2, <2>2, ConstantsAssumption DEF TypeOK, HostStart, Command
  <2> QED
    BY <2>1, <2>2
<1>3. CASE HostStop(n)
  BY <1>3 DEF TypeOK, HostStop, Command
<1>4. CASE ConCompl(n)
  BY <1>4 DEF TypeOK, ConCompl, Command
<1>5. CASE RtxWait(n)
  <2>1. txbuf[n] \in Payload
    BY DEF TypeOK
  <2>2. Transmitted(n, txbuf[n]) \in Network
    BY <2>1, TransmittedType
  <2> QED
    BY <1>5, <2>2 DEF TypeOK, RtxWait, Command, Network
<1>6. CASE RecvData(n)
  <2>1. CASE st[n] = "HOST"
    <3> DEFINE new(i) == IF Occupied(n, i) THEN [slot[n][i] EXCEPT !.q = Dequeue(@)]
                         ELSE slot[n][i]
    <3>1. slot' = [slot EXCEPT ![n] = [i \in Slots |-> new(i)]] /\ UNCHANGED cli
      BY <1>6, <2>1 DEF RecvData
    <3>2. ASSUME NEW i \in Slots
          PROVE  new(i) \in SlotRec /\ Len(new(i).q) <= QLen
      <4>1. slot[n][i] \in SlotRec /\ slot[n][i].q \in Seq(Packet) /\ Len(slot[n][i].q) <= QLen
        BY DEF TypeOK, SlotRec
      <4>2. Dequeue(slot[n][i].q) \in Seq(Packet) /\ Len(Dequeue(slot[n][i].q)) <= QLen
        BY <4>1, DequeueFacts
      <4> QED
        BY <4>1, <4>2 DEF SlotRec
    <3>3. slot' \in [Nodes -> [Slots -> SlotRec]]
      BY <3>1, <3>2 DEF TypeOK
    <3>4. \A m \in Nodes, i \in Slots : Len(slot'[m][i].q) <= QLen
      BY <3>1, <3>2 DEF TypeOK
    <3> QED
      BY <1>6, <3>1, <3>3, <3>4 DEF TypeOK, RecvData, Command
  <2>2. CASE st[n] # "HOST"
    <3>1. cli[n] \in ClientRec /\ cli[n].q \in Seq(Packet) /\ Len(cli[n].q) <= QLen
      BY DEF TypeOK, ClientRec
    <3>2. Dequeue(cli[n].q) \in Seq(Packet) /\ Len(Dequeue(cli[n].q)) <= QLen
      BY <3>1, DequeueFacts
    <3>3. [cli[n] EXCEPT !.q = Dequeue(@)] \in ClientRec
      BY <3>1, <3>2 DEF ClientRec
    <3>4. cli' = [cli EXCEPT ![n] = [cli[n] EXCEPT !.q = Dequeue(@)]] /\ UNCHANGED slot
      BY <1>6, <2>2 DEF RecvData
    <3>5. /\ cli' \in [Nodes -> ClientRec]
          /\ \A m \in Nodes : Len(cli'[m].q) <= QLen
      BY <3>1, <3>2, <3>3, <3>4 DEF TypeOK
    <3> QED
      BY <1>6, <3>4, <3>5 DEF TypeOK, RecvData, Command
  <2> QED
    BY <2>1, <2>2
<1>7. CASE ClientDisconnect(n)
  <2>1. cli[n] \in ClientRec
    BY DEF TypeOK
  <2>2. Notice("DISCONNECT", cli[n].devid, cli[n].clnum) \in Msg /\ cli[n].host \in Nodes
    BY <2>1, NoticeType DEF ClientRec, MsgType
  <2>3. net' \in Network
    BY <1>7, <2>2, PostFacts, NetworkType DEF ClientDisconnect
  <2> QED
    BY <1>7, <2>3 DEF TypeOK, ClientDisconnect, Command, Network
<1>8. ASSUME NEW p \in Nodes, Connect(n, p)
      PROVE  TypeOK'
  <2>1. Notice("CONNECT_REQ", heard[n][p].devid, 0) \in Msg
    <3>1. heard[n][p].devid \in DevIds \cup {NoId}
      BY DEF TypeOK, PeerRec
    <3> QED
      BY <3>1, ZeroSlot, NoticeType DEF MsgType
  <2>2. net' \in Network
    BY <1>8, <2>1, PostFacts, NetworkType DEF Connect
  <2> QED
    BY <1>8, <2>2, SMTT(30) DEF TypeOK, Connect, Command, Network
<1>9. ASSUME NEW p \in Data, SendData(n, p)
      PROVE  TypeOK'
  <2>1. p \in Payload
    BY DEF Payload
  <2>2. Transmitted(n, p) \in Network
    BY <2>1, TransmittedType
  <2>3. net' \in Network /\ txbuf' \in [Nodes -> Payload] /\ cmds' \in Nat
    BY <1>9, <2>1, <2>2 DEF TypeOK, SendData, Command
  <2> QED
    BY <1>9, <2>3 DEF TypeOK, SendData, Network
<1>10. ASSUME NEW i \in Slots, HostDisconnect(n, i)
       PROVE  TypeOK'
  <2>1. slot[n][i] \in SlotRec
    BY DEF TypeOK
  <2>2. Notice("DISCONNECT", slot[n][i].devid, i) \in Msg /\ slot[n][i].cid \in Nodes
    BY <2>1, NoticeType DEF SlotRec, MsgType
  <2>3. net' \in Network
    BY <1>10, <2>2, PostFacts, NetworkType DEF HostDisconnect
  <2>4. slot' \in [Nodes -> [Slots -> SlotRec]]
    BY <1>10, FreeTypes DEF HostDisconnect, TypeOK
  <2>5. \A m \in Nodes, j \in Slots : Len(slot'[m][j].q) <= QLen
    BY <1>10, FreeTypes, ConstantsAssumption DEF HostDisconnect, TypeOK
  <2> QED
    BY <1>10, <2>3, <2>4, <2>5 DEF TypeOK, HostDisconnect, Command, Network
<1> QED
  BY <1>1, <1>2, <1>3, <1>4, <1>5, <1>6, <1>7, <1>8, <1>9, <1>10 DEF GameStep

\* Whatever packet arrives, the types are kept.
LEMMA ReceiveType ==
  ASSUME TypeOK, NEW s \in Nodes, NEW n \in Nodes, Receive(s, n)
  PROVE  TypeOK'
<1> DEFINE m == Head(net[s][n])
<1>1. net[s][n] # <<>>
  BY DEF Receive, RecvBroadcast, IgnoreConnectReq, AcceptConnectReq, RejectConnectReq,
         RecvConnectAck, RecvConnectNack, RecvDisconnect, RecvHostSend, RecvClientSend,
         RecvClientAck, Arrives
<1>2. Consumed(s, n) \in Network /\ m \in Msg
  BY <1>1, ConsumedFacts, NetworkType
<1>3. m.devid \in DevIds \cup {NoId} /\ m.slot \in Slots /\ m.data \in Payload
  BY <1>2 DEF Msg
<1>4. /\ \A i \in Slots : slot[n][i] \in SlotRec /\ Len(slot[n][i].q) <= QLen
      /\ cli[n] \in ClientRec /\ Len(cli[n].q) <= QLen
  BY DEF TypeOK
<1>5. Len(<<>>) <= QLen
  BY ConstantsAssumption
<1>6. CASE RecvBroadcast(s, n)
  <2>1. [devid |-> m.devid, ttl |-> PeerTTL] \in PeerRec
    BY <1>3, ConstantsAssumption DEF PeerRec
  <2>2. heard' \in [Nodes -> [Nodes -> PeerRec]]
    BY <1>6, <2>1 DEF RecvBroadcast, TypeOK
  <2> QED
    BY <1>2, <1>6, <2>2 DEF RecvBroadcast, TypeOK, Network
<1>7. CASE IgnoreConnectReq(s, n)
  BY <1>2, <1>7 DEF IgnoreConnectReq, TypeOK, Network
<1>8. CASE AcceptConnectReq(s, n)
  <2>1. PICK i \in Slots, d \in DevIds :
          /\ issued' = Issued(d, n, i, s)
          /\ slot' = [slot EXCEPT ![n][i] = [@ EXCEPT !.devid = d, !.cid = s]]
          /\ net' = Post(Consumed(s, n), n, s, Notice("CONNECT_ACK", d, i))
    BY <1>8 DEF AcceptConnectReq
  <2>2. issued' \in SUBSET Issue
    BY <2>1 DEF TypeOK, Issued, Issue
  <2>3. Notice("CONNECT_ACK", d, i) \in Msg
    BY NoticeType DEF MsgType
  <2>4. net' \in Network
    BY <1>2, <2>1, <2>3, PostFacts
  <2> DEFINE r == [slot[n][i] EXCEPT !.devid = d, !.cid = s]
  <2>5. r \in SlotRec /\ Len(r.q) <= QLen
    BY <1>4 DEF SlotRec
  <2>6. slot' = [slot EXCEPT ![n][i] = r]
    BY <2>1 DEF TypeOK, SlotRec
  <2>7. /\ slot' \in [Nodes -> [Slots -> SlotRec]]
        /\ \A h \in Nodes, j \in Slots : Len(slot'[h][j].q) <= QLen
    BY <2>5, <2>6, OneSlotChanged
  <2> QED
    BY <1>8, <2>2, <2>4, <2>7 DEF AcceptConnectReq, TypeOK, Network
<1>9. CASE RejectConnectReq(s, n)
  <2>1. Notice("CONNECT_NACK", NoId, 0) \in Msg
    BY NoticeType, ZeroSlot DEF MsgType
  <2>2. net' \in Network
    BY <1>2, <1>9, <2>1, PostFacts DEF RejectConnectReq
  <2> QED
    BY <1>9, <2>2 DEF RejectConnectReq, TypeOK, Network
<1>10. CASE RecvConnectAck(s, n)
  <2>1. [devid |-> m.devid, clnum |-> m.slot, host |-> s, q |-> <<>>] \in ClientRec
    BY <1>3 DEF ClientRec
  <2>2. CASE st[n] = "CONNECTING"
    <3>1. cli' = [cli EXCEPT ![n] =
                    [devid |-> m.devid, clnum |-> m.slot, host |-> s, q |-> <<>>]]
      BY <1>10, <2>2 DEF RecvConnectAck
    <3>2. cli' \in [Nodes -> ClientRec] /\ \A c \in Nodes : Len(cli'[c].q) <= QLen
      BY <1>5, <2>1, <3>1 DEF TypeOK
    <3> QED
      BY <1>2, <1>10, <2>2, <3>2 DEF RecvConnectAck, TypeOK, Network
  <2>3. CASE st[n] # "CONNECTING"
    BY <1>2, <1>10, <2>3 DEF RecvConnectAck, TypeOK, Network
  <2> QED
    BY <2>2, <2>3
<1>11. CASE RecvConnectNack(s, n)
  BY <1>2, <1>11 DEF RecvConnectNack, TypeOK, Network
<1>12. CASE RecvDisconnect(s, n)
  <2>1. /\ slot' \in [Nodes -> [Slots -> SlotRec]]
        /\ \A h \in Nodes, j \in Slots : Len(slot'[h][j].q) <= QLen
    BY <1>3, <1>5, <1>12, FreeTypes DEF RecvDisconnect, TypeOK
  <2>2. cli' \in [Nodes -> ClientRec] /\ \A c \in Nodes : Len(cli'[c].q) <= QLen
    BY <1>5, <1>12, FreeTypes DEF RecvDisconnect, TypeOK
  <2> QED
    BY <1>2, <1>12, <2>1, <2>2 DEF RecvDisconnect, TypeOK, Network
<1>13. CASE RecvHostSend(s, n)
  <2>1. CASE st[n] = "CLIENT"
    <3> DEFINE q == Enqueue(cli[n].q, s, m.data)
    <3>1. q \in Seq(Packet) /\ Len(q) <= QLen
      BY <1>3, <1>4, EnqueueFacts DEF ClientRec
    <3>2. cli' = [cli EXCEPT ![n] = [cli[n] EXCEPT !.q = q]]
      BY <1>13, <2>1 DEF RecvHostSend, TypeOK
    <3>3. [cli[n] EXCEPT !.q = q] \in ClientRec
      BY <1>4, <3>1 DEF ClientRec
    <3>4. cli' \in [Nodes -> ClientRec]
      BY <3>2, <3>3 DEF TypeOK
    <3>5. \A c \in Nodes : cli'[c].q = IF c = n THEN q ELSE cli[c].q
      BY <1>4, <3>2 DEF TypeOK, ClientRec
    <3>6. Notice("CLIENT_ACK", cli[n].devid, cli[n].clnum) \in Msg
      BY <1>4, NoticeType DEF ClientRec, MsgType
    <3>7. net' \in Network
      BY <1>2, <1>13, <2>1, <3>6, PostFacts DEF RecvHostSend
    <3>8. \A c \in Nodes : Len(cli'[c].q) <= QLen
      BY <3>1, <3>5 DEF TypeOK
    <3> QED
      BY <1>13, <3>4, <3>7, <3>8 DEF RecvHostSend, TypeOK, Network
  <2>2. CASE st[n] # "CLIENT"
    BY <1>2, <1>13, <2>2 DEF RecvHostSend, TypeOK, Network
  <2> QED
    BY <2>1, <2>2
<1>14. CASE RecvClientSend(s, n)
  <2>1. CASE Speaks(n, m)
    <3> DEFINE q == Enqueue(slot[n][m.slot].q, s, m.data)
               r == [slot[n][m.slot] EXCEPT !.ttl = 0, !.q = q]
    <3>1. q \in Seq(Packet) /\ Len(q) <= QLen
      BY <1>3, <1>4, EnqueueFacts DEF SlotRec
    <3>2. r \in SlotRec /\ r.q = q
      BY <1>3, <1>4, <3>1, FreshTTL DEF SlotRec
    <3>3. slot' = [slot EXCEPT ![n][m.slot] = r]
      BY <1>14, <2>1 DEF RecvClientSend
    <3>4. /\ slot' \in [Nodes -> [Slots -> SlotRec]]
          /\ \A h \in Nodes, j \in Slots : Len(slot'[h][j].q) <= QLen
      BY <1>3, <3>1, <3>2, <3>3, OneSlotChanged
    <3> QED
      BY <1>2, <1>14, <3>4 DEF RecvClientSend, TypeOK, Network
  <2>2. CASE ~Speaks(n, m)
    BY <1>2, <1>14, <2>2 DEF RecvClientSend, TypeOK, Network
  <2> QED
    BY <2>1, <2>2
<1>15. CASE RecvClientAck(s, n)
  <2>1. CASE Speaks(n, m)
    <3> DEFINE r == [slot[n][m.slot] EXCEPT !.ttl = 0]
    <3>1. r \in SlotRec /\ Len(r.q) <= QLen
      BY <1>3, <1>4, FreshTTL DEF SlotRec
    <3>2. slot' = [slot EXCEPT ![n][m.slot] = r]
      BY <1>3, <1>15, <2>1 DEF RecvClientAck, TypeOK
    <3>3. /\ slot' \in [Nodes -> [Slots -> SlotRec]]
          /\ \A h \in Nodes, j \in Slots : Len(slot'[h][j].q) <= QLen
      BY <1>3, <3>1, <3>2, OneSlotChanged
    <3> QED
      BY <1>2, <1>15, <3>3 DEF RecvClientAck, TypeOK, Network
  <2>2. CASE ~Speaks(n, m)
    BY <1>2, <1>15, <2>2 DEF RecvClientAck, TypeOK, Network
  <2> QED
    BY <2>1, <2>2
<1> QED
  BY <1>6, <1>7, <1>8, <1>9, <1>10, <1>11, <1>12, <1>13, <1>14, <1>15 DEF Receive

\* A frame ages peers and slots within their bounds.
LEMMA FrameType ==
  ASSUME TypeOK, NEW n \in Nodes, FrameUpdate(n)
  PROVE  TypeOK'
<1>1. heard' \in [Nodes -> [Nodes -> PeerRec]]
  <2>1. ASSUME NEW p \in PeerRec PROVE Aged(p) \in PeerRec
    BY ConstantsAssumption DEF PeerRec, Aged
  <2>2. \A p \in Nodes : Aged(heard[n][p]) \in PeerRec
    BY <2>1 DEF TypeOK
  <2> QED
    BY <2>2 DEF FrameUpdate, TypeOK
<1>2. CASE st[n] = "HOST"
  <2> DEFINE new(i) == IF Expired(n, i) THEN FreeSlot
                       ELSE IF Occupied(n, i) THEN [slot[n][i] EXCEPT !.ttl = @ + 1]
                       ELSE slot[n][i]
  <2>1. \A i \in Slots : new(i) \in SlotRec /\ (new(i).q = <<>> \/ new(i).q = slot[n][i].q)
    <3>1. ASSUME NEW i \in Slots
          PROVE  new(i) \in SlotRec /\ (new(i).q = <<>> \/ new(i).q = slot[n][i].q)
      <4>1. slot[n][i] \in SlotRec
        BY DEF TypeOK
      <4>2. CASE Occupied(n, i) /\ ~Expired(n, i)
        <5>1. slot[n][i].ttl + 1 \in 0 .. (ClientTTL - 1)
          BY <4>1, <4>2, ConstantsAssumption DEF Expired, SlotRec
        <5>2. new(i) = [slot[n][i] EXCEPT !.ttl = slot[n][i].ttl + 1]
          BY <4>2
        <5> QED
          BY <4>1, <5>1, <5>2 DEF SlotRec
      <4>3. CASE ~Occupied(n, i) \/ Expired(n, i)
        BY <4>1, <4>3, FreeTypes
      <4> QED
        BY <4>2, <4>3
    <3> QED
      BY <3>1
  <2>2. slot' = [slot EXCEPT ![n] = [i \in Slots |-> new(i)]]
    BY <1>2 DEF FrameUpdate
  <2>3. slot' \in [Nodes -> [Slots -> SlotRec]]
    BY <2>1, <2>2 DEF TypeOK
  <2>4. \A h \in Nodes, j \in Slots : slot'[h][j].q = <<>> \/ slot'[h][j].q = slot[h][j].q
    BY <2>1, <2>2 DEF TypeOK
  <2>5. Len(<<>>) <= QLen
    BY ConstantsAssumption
  <2>6. \A h \in Nodes, j \in Slots : Len(slot'[h][j].q) <= QLen
    BY <2>4, <2>5 DEF TypeOK
  <2>7. txttl' \in [Nodes -> 0 .. Announce]
    <3>1. (IF txttl[n] >= Announce THEN 0 ELSE txttl[n] + 1) \in 0 .. Announce
      BY ConstantsAssumption DEF TypeOK
    <3> QED
      BY <1>2, <3>1 DEF FrameUpdate, TypeOK
  <2>8. Notice("BROADCAST", hdev[n], 0) \in Msg
    BY ZeroSlot, NoticeType DEF MsgType, TypeOK
  <2>9. net' \in Network
    <3> DEFINE told(d) == IF d = n THEN net[n][d]
                          ELSE Append(net[n][d], Notice("BROADCAST", hdev[n], 0))
    <3>1. \A d \in Nodes : told(d) \in Seq(Msg)
      BY <2>8 DEF TypeOK
    <3>2. net' = net \/ net' = [net EXCEPT ![n] = [d \in Nodes |-> told(d)]]
      BY <1>2 DEF FrameUpdate
    <3>3. [d \in Nodes |-> told(d)] \in [Nodes -> Seq(Msg)]
      BY <3>1
    <3> HIDE DEF told
    <3> QED
      BY <3>2, <3>3, NetworkType DEF Network
  <2> QED
    BY <1>1, <2>3, <2>6, <2>7, <2>9 DEF FrameUpdate, TypeOK, Network
<1>3. CASE st[n] # "HOST"
  BY <1>1, <1>3 DEF FrameUpdate, TypeOK
<1> QED
  BY <1>2, <1>3

\* Every step keeps the types.
LEMMA StepType == TypeOK /\ [Next]_vars => TypeOK'
<1> SUFFICES ASSUME TypeOK, [Next]_vars PROVE TypeOK'
  OBVIOUS
<1>1. CASE UNCHANGED vars
  BY <1>1 DEF vars, TypeOK
<1>2. ASSUME NEW n \in Nodes, GameStep(n) PROVE TypeOK'
  BY <1>2, GameStepType
<1>3. ASSUME NEW n \in Nodes, Handshake(n) PROVE TypeOK'
  BY <1>3 DEF Handshake, TypeOK
<1>4. ASSUME NEW n \in Nodes, FrameUpdate(n) PROVE TypeOK'
  BY <1>4, FrameType
<1>5. ASSUME NEW s \in Nodes, NEW n \in Nodes, Receive(s, n) PROVE TypeOK'
  BY <1>5, ReceiveType
<1> QED
  BY <1>1, <1>2, <1>3, <1>4, <1>5 DEF Next

\* The variables keep their types: queues their size, counters their limits.
THEOREM TypeCorrect == Spec => []TypeOK
<1>1. Init => TypeOK
  BY InitType
<1>2. TypeOK /\ [Next]_vars => TypeOK'
  BY StepType
<1> QED
  BY <1>1, <1>2, PTL DEF Spec

--------------------------------------------------------------------------
(* Who speaks for a slot: an id names one host, one slot and one client.       *)

IdsInOrder == IdsUnique /\ SlotsIssued /\ ClientsIssued /\ PacketsIssued

\* Who speaks with the identity of a slot is the client of that slot.
LEMMA SpeakerIsClient ==
  ASSUME TypeOK, IdsInOrder, NEW s \in Nodes, NEW n \in Nodes, NEW m \in InChannel(net, s, n),
         m.type \in {"CLIENT_SEND", "CLIENT_ACK", "DISCONNECT"},
         m.slot \in Slots, Occupied(n, m.slot), slot[n][m.slot].devid = m.devid
  PROVE  s = slot[n][m.slot].cid
<1>1. Is(m.devid, n, m.slot, slot[n][m.slot].cid)
  BY DEF IdsInOrder, SlotsIssued
<1>2. \A h, c \in Nodes, i \in Slots :
        Is(m.devid, h, i, c) => h = n /\ c = slot[n][m.slot].cid
  BY <1>1 DEF IdsInOrder, IdsUnique, Is
<1>3. m.devid # NoId
  BY DEF Occupied
<1>4. PacketIssued(m, s, n)
  BY DEF IdsInOrder, PacketsIssued
<1> QED
  BY <1>2, <1>3, <1>4 DEF PacketIssued

--------------------------------------------------------------------------
(* What a step does to the slots: only an accepted request gives a slot to a   *)
(* client; every other step frees a slot, or keeps its client and takes from   *)
(* its queue or adds a packet of that client.                                  *)

Kept(h, i) ==
  \/ slot'[h][i] = FreeSlot
  \/ /\ slot'[h][i].devid = slot[h][i].devid
     /\ slot'[h][i].cid = slot[h][i].cid
     /\ \/ slot'[h][i].q = slot[h][i].q
        \/ slot'[h][i].q = Dequeue(slot[h][i].q)
        \/ /\ Occupied(h, i)
           /\ \E p \in Payload :
                slot'[h][i].q = Enqueue(slot[h][i].q, slot[h][i].cid, p)

SlotsKept == \A h \in Nodes, i \in Slots : Kept(h, i)

SameClients ==
  \A h \in Nodes, i \in Slots :
    Occupied(h, i)' => /\ Occupied(h, i)
                       /\ slot'[h][i].devid = slot[h][i].devid
                       /\ slot'[h][i].cid = slot[h][i].cid

\* Slots that are kept or emptied keep their clients.
LEMMA KeptClients == SlotsKept => SameClients
  BY FreeTypes DEF SlotsKept, Kept, SameClients, Occupied

\* A node that clears its slots keeps those of the others.
LEMMA ClearedSame ==
  ASSUME TypeOK, NEW n \in Nodes,
         slot' = [slot EXCEPT ![n] = [i \in Slots |-> FreeSlot]]
  PROVE  SlotsKept /\ \A i \in Slots : ~Occupied(n, i)'
<1>1. \A m \in Nodes, i \in Slots :
        slot'[m][i] = IF m = n THEN FreeSlot ELSE slot[m][i]
  BY DEF TypeOK
<1> QED
  BY <1>1, FreeTypes DEF SlotsKept, Kept, Occupied

\* A slot whose queue or time to live is replaced keeps its client.
LEMMA SameFields ==
  ASSUME NEW r \in SlotRec, NEW q, NEW t
  PROVE  /\ [r EXCEPT !.q = q].devid = r.devid /\ [r EXCEPT !.q = q].cid = r.cid
         /\ [r EXCEPT !.q = q].q = q
         /\ [r EXCEPT !.ttl = t].devid = r.devid /\ [r EXCEPT !.ttl = t].cid = r.cid
         /\ [r EXCEPT !.ttl = t].q = r.q
         /\ [r EXCEPT !.ttl = t, !.q = q].devid = r.devid
         /\ [r EXCEPT !.ttl = t, !.q = q].cid = r.cid
         /\ [r EXCEPT !.ttl = t, !.q = q].q = q
  BY DEF SlotRec

\* A client's queue changes nothing else of it.
LEMMA SameClientFields ==
  ASSUME NEW r \in ClientRec, NEW q
  PROVE  LET new == [r EXCEPT !.q = q] IN
           /\ new.devid = r.devid /\ new.clnum = r.clnum /\ new.host = r.host
           /\ new.q = q
  BY DEF ClientRec

\* What a game does gives no slot to a client.
LEMMA GameSlots ==
  ASSUME TypeOK, NEW n \in Nodes, GameStep(n)
  PROVE  SlotsKept
<1>1. CASE Reset(n)
  BY <1>1, ClearedSame DEF Reset
<1>2. CASE HostStart(n)
  <2>1. CASE st[n] = "IDLE"
    BY <1>2, <2>1, ClearedSame DEF HostStart
  <2>2. CASE st[n] # "IDLE"
    BY <1>2, <2>2 DEF HostStart, SlotsKept, Kept
  <2> QED
    BY <2>1, <2>2
<1>3. CASE RecvData(n)
  <2>1. CASE st[n] = "HOST"
    <3> DEFINE f == [i \in Slots |-> IF Occupied(n, i)
                                    THEN [slot[n][i] EXCEPT !.q = Dequeue(@)]
                                    ELSE slot[n][i]]
    <3>1. slot' = [slot EXCEPT ![n] = f]
      BY <1>3, <2>1 DEF RecvData
    <3>2. \A i \in Slots : /\ f[i].devid = slot[n][i].devid /\ f[i].cid = slot[n][i].cid
                           /\ f[i].q = slot[n][i].q \/ f[i].q = Dequeue(slot[n][i].q)
      <4>1. \A i \in Slots : slot[n][i] \in SlotRec
        BY DEF TypeOK
      <4> QED
        BY <4>1, SameFields
    <3> HIDE DEF f
    <3>3. \A m \in Nodes, i \in Slots : slot'[m][i] = IF m = n THEN f[i] ELSE slot[m][i]
      BY <3>1 DEF TypeOK
    <3> QED
      BY <3>2, <3>3 DEF SlotsKept, Kept
  <2>2. CASE st[n] # "HOST"
    BY <1>3, <2>2 DEF RecvData, SlotsKept, Kept
  <2> QED
    BY <2>1, <2>2
<1>4. ASSUME NEW i \in Slots, HostDisconnect(n, i) PROVE SlotsKept
  <2>1. \A h \in Nodes, j \in Slots :
          slot'[h][j] = IF h = n /\ j = i THEN FreeSlot ELSE slot[h][j]
    BY <1>4 DEF HostDisconnect, TypeOK
  <2> QED
    BY <2>1, FreeTypes DEF SlotsKept, Kept
<1>5. CASE UNCHANGED slot
  BY <1>5 DEF SlotsKept, Kept
<1>6. (HostStop(n) \/ ConCompl(n) \/ RtxWait(n) \/ ClientDisconnect(n)) => UNCHANGED slot
  BY DEF HostStop, ConCompl, RtxWait, ClientDisconnect
<1>7. ASSUME NEW p \in Nodes, Connect(n, p) PROVE UNCHANGED slot
  BY <1>7 DEF Connect
<1>8. ASSUME NEW p \in Data, SendData(n, p) PROVE UNCHANGED slot
  BY <1>8 DEF SendData
<1> QED
  BY <1>1, <1>2, <1>3, <1>4, <1>5, <1>6, <1>7, <1>8 DEF GameStep

\* The update of a frame gives no slot to a client.
LEMMA FrameSlots ==
  ASSUME TypeOK, NEW n \in Nodes, FrameUpdate(n)
  PROVE  SlotsKept
<1>1. CASE st[n] = "HOST"
  <2> DEFINE f == [i \in Slots |->
                     IF Expired(n, i) THEN FreeSlot
                     ELSE IF Occupied(n, i) THEN [slot[n][i] EXCEPT !.ttl = @ + 1]
                     ELSE slot[n][i]]
  <2>1. slot' = [slot EXCEPT ![n] = f]
    BY <1>1 DEF FrameUpdate
  <2>2. \A i \in Slots : slot[n][i] \in SlotRec
    BY DEF TypeOK
  <2>3. \A i \in Slots : \/ f[i] = FreeSlot
                         \/ /\ f[i].devid = slot[n][i].devid /\ f[i].cid = slot[n][i].cid
                            /\ f[i].q = slot[n][i].q
    BY <2>2, SameFields
  <2> HIDE DEF f
  <2>4. \A m \in Nodes, i \in Slots : slot'[m][i] = IF m = n THEN f[i] ELSE slot[m][i]
    BY <2>1 DEF TypeOK
  <2> QED
    BY <2>3, <2>4 DEF SlotsKept, Kept
<1>2. CASE st[n] # "HOST"
  BY <1>2 DEF FrameUpdate, SlotsKept, Kept
<1> QED
  BY <1>1, <1>2

\* The three packets that may change an occupied slot.
LEMMA ReceiveSlots ==
  ASSUME TypeOK, IdsInOrder, NEW s \in Nodes, NEW n \in Nodes, Receive(s, n)
  PROVE  SlotsKept \/ AcceptConnectReq(s, n)
<1> DEFINE m == Head(net[s][n])
<1>1. CASE RecvDisconnect(s, n)
  <2>1. \A h \in Nodes, j \in Slots : slot'[h][j] = FreeSlot \/ slot'[h][j] = slot[h][j]
    BY <1>1 DEF RecvDisconnect, TypeOK
  <2> QED
    BY <2>1, FreeTypes DEF SlotsKept, Kept
<1>2. CASE RecvClientSend(s, n) \/ RecvClientAck(s, n)
  <2>1. net[s][n] # <<>> /\ m.type \in {"CLIENT_SEND", "CLIENT_ACK"}
    BY <1>2 DEF RecvClientSend, RecvClientAck, Arrives
  <2>2. m \in Msg /\ m \in InChannel(net, s, n)
    BY <2>1, ConsumedFacts, NetworkType
  <2>3. m.slot \in Slots /\ m.data \in Payload
    BY <2>2 DEF Msg
  <2>4. slot[n][m.slot] \in SlotRec
    BY <2>3 DEF TypeOK
  <2>5. CASE Speaks(n, m) /\ RecvClientSend(s, n)
    <3> DEFINE r == [slot[n][m.slot] EXCEPT !.ttl = 0, !.q = Enqueue(slot[n][m.slot].q, s, m.data)]
    <3>1. slot' = [slot EXCEPT ![n][m.slot] = r]
      BY <2>5 DEF RecvClientSend
    <3>2. /\ r.devid = slot[n][m.slot].devid /\ r.cid = slot[n][m.slot].cid
          /\ r.q = Enqueue(slot[n][m.slot].q, s, m.data)
      BY <2>4, SameFields
    <3>3. Occupied(n, m.slot) => s = slot[n][m.slot].cid
      BY <2>1, <2>2, <2>3, <2>5, SpeakerIsClient DEF Speaks
    <3>4. Occupied(n, m.slot)
      <4>1. PacketIssued(m, s, n)
        BY <2>2 DEF IdsInOrder, PacketsIssued
      <4>2. \E h, c \in Nodes, i \in Slots : Is(m.devid, h, i, c)
        BY <2>1, <2>3, <4>1 DEF PacketIssued
      <4>3. m.devid \in DevIds
        BY <4>2 DEF Is, TypeOK, Issue
      <4> QED
        BY <2>5, <4>3, ConstantsAssumption DEF Speaks, Occupied
    <3> HIDE DEF r
    <3>5. \A h \in Nodes, j \in Slots :
            slot'[h][j] = IF h = n /\ j = m.slot THEN r ELSE slot[h][j]
      BY <3>1 DEF TypeOK
    <3>6. slot'[n][m.slot].q = Enqueue(slot[n][m.slot].q, slot[n][m.slot].cid, m.data)
      BY <2>3, <3>2, <3>3, <3>4, <3>5
    <3>7. Kept(n, m.slot)
      BY <2>3, <3>2, <3>4, <3>5, <3>6 DEF Kept
    <3>8. ASSUME NEW h \in Nodes, NEW j \in Slots, ~(h = n /\ j = m.slot) PROVE Kept(h, j)
      BY <3>5, <3>8 DEF Kept
    <3> QED
      BY <3>7, <3>8 DEF SlotsKept
  <2>6. CASE Speaks(n, m) /\ RecvClientAck(s, n)
    <3> DEFINE r == [slot[n][m.slot] EXCEPT !.ttl = 0]
    <3>1. slot' = [slot EXCEPT ![n][m.slot] = r]
      BY <2>3, <2>6 DEF RecvClientAck, TypeOK
    <3>2. r.devid = slot[n][m.slot].devid /\ r.cid = slot[n][m.slot].cid /\ r.q = slot[n][m.slot].q
      BY <2>4, SameFields
    <3> HIDE DEF r
    <3>3. \A h \in Nodes, j \in Slots :
            slot'[h][j] = IF h = n /\ j = m.slot THEN r ELSE slot[h][j]
      BY <3>1 DEF TypeOK
    <3> QED
      BY <3>2, <3>3 DEF SlotsKept, Kept
  <2>7. CASE ~Speaks(n, m)
    BY <1>2, <2>7 DEF RecvClientSend, RecvClientAck, SlotsKept, Kept
  <2> QED
    BY <1>2, <2>5, <2>6, <2>7
<1>3. CASE UNCHANGED slot
  BY <1>3 DEF SlotsKept, Kept
<1>4. (RecvBroadcast(s, n) \/ IgnoreConnectReq(s, n) \/ RejectConnectReq(s, n)
         \/ RecvConnectAck(s, n) \/ RecvConnectNack(s, n) \/ RecvHostSend(s, n)) => UNCHANGED slot
  BY DEF RecvBroadcast, IgnoreConnectReq, RejectConnectReq, RecvConnectAck,
         RecvConnectNack, RecvHostSend
<1> QED
  BY <1>1, <1>2, <1>3, <1>4 DEF Receive

--------------------------------------------------------------------------
(* Device ids: drawn once, and carried only by whom they were drawn for.       *)

\* An identity is issued by one that is new, or none is.
LEMMA Issuers ==
  ASSUME [Next]_vars
  PROVE  \/ UNCHANGED issued
         \/ \E d \in DevIds, h, c \in Nodes, i \in Slots :
              NewDevid(d) /\ issued' = Issued(d, h, i, c)
<1>1. CASE UNCHANGED vars
  BY <1>1 DEF vars
<1>2. ASSUME NEW n \in Nodes, GameStep(n)
      PROVE  \/ UNCHANGED issued
             \/ \E d \in DevIds : NewDevid(d) /\ issued' = Issued(d, n, 0, n)
  <2>1. CASE HostStart(n)
    BY <2>1 DEF HostStart
  <2>2. CASE Reset(n) \/ HostStop(n) \/ ConCompl(n) \/ RtxWait(n) \/ RecvData(n)
             \/ ClientDisconnect(n)
    BY <2>2 DEF Reset, HostStop, ConCompl, RtxWait, RecvData, ClientDisconnect
  <2>3. ASSUME NEW p \in Nodes, Connect(n, p) PROVE UNCHANGED issued
    BY <2>3 DEF Connect
  <2>4. ASSUME NEW p \in Data, SendData(n, p) PROVE UNCHANGED issued
    BY <2>4 DEF SendData
  <2>5. ASSUME NEW i \in Slots, HostDisconnect(n, i) PROVE UNCHANGED issued
    BY <2>5 DEF HostDisconnect
  <2> QED
    BY <1>2, <2>1, <2>2, <2>3, <2>4, <2>5 DEF GameStep
<1>3. ASSUME NEW n \in Nodes, Handshake(n) \/ FrameUpdate(n)
      PROVE  UNCHANGED issued
  BY <1>3 DEF Handshake, FrameUpdate
<1>4. ASSUME NEW s \in Nodes, NEW n \in Nodes, Receive(s, n)
      PROVE  \/ UNCHANGED issued
             \/ \E d \in DevIds, i \in Slots : NewDevid(d) /\ issued' = Issued(d, n, i, s)
  <2>1. CASE AcceptConnectReq(s, n)
    BY <2>1 DEF AcceptConnectReq
  <2>2. CASE ~AcceptConnectReq(s, n)
    BY <1>4, <2>2 DEF Receive, RecvBroadcast, IgnoreConnectReq, RejectConnectReq,
       RecvConnectAck, RecvConnectNack, RecvDisconnect, RecvHostSend, RecvClientSend,
       RecvClientAck
  <2> QED
    BY <2>1, <2>2
<1> QED
  BY <1>1, <1>2, <1>3, <1>4, ZeroSlot DEF Next

\* Identities are never taken back, and no two are the same.
LEMMA IssuedGrows ==
  ASSUME IdsUnique, [Next]_vars
  PROVE  issued \subseteq issued' /\ IdsUnique'
<1>1. CASE UNCHANGED issued
  BY <1>1 DEF IdsUnique
<1>2. ASSUME NEW d \in DevIds, NEW h \in Nodes, NEW c \in Nodes, NEW i \in Slots,
             NewDevid(d), issued' = Issued(d, h, i, c)
      PROVE  issued \subseteq issued' /\ IdsUnique'
  BY <1>2 DEF IdsUnique, Issued, NewDevid
<1> QED
  BY <1>1, <1>2, Issuers

\* Every step keeps the identities of slots issued.
LEMMA SlotsIssuedStep ==
  ASSUME TypeOK, IdsInOrder, [Next]_vars
  PROVE  SlotsIssued'
<1>1. issued \subseteq issued'
  BY IssuedGrows DEF IdsInOrder
<1>2. CASE SlotsKept
  BY <1>1, <1>2, KeptClients DEF IdsInOrder, SlotsIssued, SameClients, Is, Occupied
<1>3. ASSUME NEW s \in Nodes, NEW n \in Nodes, AcceptConnectReq(s, n)
      PROVE  SlotsIssued'
  <2>1. PICK i \in Slots, d \in DevIds :
          /\ issued' = Issued(d, n, i, s)
          /\ slot' = [slot EXCEPT ![n][i] = [@ EXCEPT !.devid = d, !.cid = s]]
    BY <1>3 DEF AcceptConnectReq
  <2> DEFINE r == [slot[n][i] EXCEPT !.devid = d, !.cid = s]
  <2>r. r.devid = d /\ r.cid = s
    BY DEF TypeOK, SlotRec
  <2>t. slot' = [slot EXCEPT ![n][i] = r]
    BY <2>1
  <2> HIDE DEF r
  <2>2. /\ slot'[n][i].devid = d /\ slot'[n][i].cid = s
        /\ \A h \in Nodes, j \in Slots : ~(h = n /\ j = i) => slot'[h][j] = slot[h][j]
    BY <2>r, <2>t DEF TypeOK
  <2>3. Is(d, n, i, s)'
    BY <2>1 DEF Is, Issued
  <2> QED
    BY <1>1, <2>2, <2>3 DEF IdsInOrder, SlotsIssued, Occupied, Is
<1>4. CASE UNCHANGED slot
  BY <1>1, <1>4 DEF IdsInOrder, Occupied, SlotsIssued, Is
<1>5. CASE Next
  <2>1. ASSUME NEW n \in Nodes, GameStep(n) PROVE SlotsKept
    BY <2>1, GameSlots
  <2>2. ASSUME NEW n \in Nodes, Handshake(n) PROVE UNCHANGED slot
    BY <2>2 DEF Handshake
  <2>3. ASSUME NEW n \in Nodes, FrameUpdate(n) PROVE SlotsKept
    BY <2>3, FrameSlots
  <2>4. ASSUME NEW s \in Nodes, NEW n \in Nodes, Receive(s, n)
        PROVE  SlotsKept \/ AcceptConnectReq(s, n)
    BY <2>4, ReceiveSlots
  <2> QED
    BY <1>2, <1>3, <1>4, <1>5, <2>1, <2>2, <2>3, <2>4 DEF Next
<1> QED
  BY <1>4, <1>5 DEF vars

\* Every step keeps the identities of clients issued.
LEMMA ClientsIssuedStep ==
  ASSUME TypeOK, IdsUnique, ClientsIssued, PacketsIssued, [Next]_vars
  PROVE  ClientsIssued'
<1> DEFINE Same(c) == /\ st[c] = "CLIENT"
                      /\ cli'[c].devid = cli[c].devid
                      /\ cli'[c].clnum = cli[c].clnum
                      /\ cli'[c].host = cli[c].host
<1>1. issued \subseteq issued'
  BY IssuedGrows
<1>2. \A c \in Nodes : cli[c] \in ClientRec
  BY DEF TypeOK
<1> SUFFICES ASSUME NEW c \in Nodes, st'[c] = "CLIENT"
             PROVE  Same(c) \/ Is(cli[c].devid, cli[c].host, cli[c].clnum, c)'
  BY <1>1 DEF ClientsIssued, Is
<1>3. CASE UNCHANGED <<st, cli>>
  BY <1>3
<1>4. ASSUME NEW n \in Nodes, GameStep(n) PROVE Same(c)
  <2>1. CASE UNCHANGED cli /\ (UNCHANGED st \/ \E x \in {"IDLE", "HOST", "CONNECTING"} :
                                                st' = [st EXCEPT ![n] = x])
    BY <2>1 DEF TypeOK
  <2>2. CASE RecvData(n)
    <3> DEFINE new == [cli[n] EXCEPT !.q = Dequeue(cli[n].q)]
    <3>1. UNCHANGED st /\ (UNCHANGED cli \/ cli' = [cli EXCEPT ![n] = new])
      BY <2>2 DEF RecvData, TypeOK
    <3>2. new.devid = cli[n].devid /\ new.clnum = cli[n].clnum /\ new.host = cli[n].host
      BY <1>2, SameClientFields
    <3> HIDE DEF new
    <3>3. UNCHANGED st /\ (cli'[c] = cli[c] \/ (c = n /\ cli'[c] = new))
      BY <3>1 DEF TypeOK
    <3> QED
      BY <3>2, <3>3
  <2>3. (Reset(n) \/ HostStart(n) \/ HostStop(n) \/ ConCompl(n) \/ RtxWait(n)
           \/ ClientDisconnect(n))
          => UNCHANGED cli /\ (UNCHANGED st \/ \E x \in {"IDLE", "HOST", "CONNECTING"} :
                                                st' = [st EXCEPT ![n] = x])
    BY DEF Reset, HostStart, HostStop, ConCompl, RtxWait, ClientDisconnect
  <2>4. ASSUME NEW p \in Nodes, Connect(n, p)
        PROVE  UNCHANGED cli /\ st' = [st EXCEPT ![n] = "CONNECTING"]
    BY <2>4 DEF Connect
  <2>5. ASSUME NEW p \in Data, SendData(n, p) PROVE UNCHANGED <<cli, st>>
    BY <2>5 DEF SendData
  <2>6. ASSUME NEW i \in Slots, HostDisconnect(n, i) PROVE UNCHANGED <<cli, st>>
    BY <2>6 DEF HostDisconnect
  <2> QED
    BY <1>4, <2>1, <2>2, <2>3, <2>4, <2>5, <2>6 DEF GameStep
<1>5. ASSUME NEW n \in Nodes, Handshake(n) \/ FrameUpdate(n)
      PROVE  UNCHANGED <<st, cli>>
  BY <1>5 DEF Handshake, FrameUpdate
<1>6. ASSUME NEW s \in Nodes, NEW n \in Nodes, Receive(s, n)
      PROVE  Same(c) \/ Is(cli[c].devid, cli[c].host, cli[c].clnum, c)'
  <2> DEFINE m == Head(net[s][n])
  <2>1. CASE RecvConnectAck(s, n) /\ st[n] = "CONNECTING"
    <3>1. m \in InChannel(net, s, n) /\ m.type = "CONNECT_ACK"
      BY <2>1, ConsumedFacts, NetworkType DEF RecvConnectAck, Arrives
    <3>2. Is(m.devid, s, m.slot, n)
      BY <3>1 DEF PacketsIssued, PacketIssued
    <3>3. cli' = [cli EXCEPT ![n] = [devid |-> m.devid, clnum |-> m.slot, host |-> s, q |-> <<>>]]
      BY <2>1 DEF RecvConnectAck
    <3>4. st' = [st EXCEPT ![n] = "CLIENT"]
      BY <2>1 DEF RecvConnectAck
    <3>5. CASE c = n
      <4>1. cli'[c].devid = m.devid /\ cli'[c].host = s /\ cli'[c].clnum = m.slot
        BY <3>3, <3>5 DEF TypeOK
      <4>2. Is(m.devid, s, m.slot, c)
        BY <3>2, <3>5
      <4>3. [id |-> m.devid, host |-> s, slot |-> m.slot, client |-> c] \in issued'
        BY <1>1, <4>2 DEF Is
      <4> QED
        BY <4>1, <4>3 DEF Is
    <3>6. CASE c # n
      BY <3>3, <3>4, <3>6 DEF TypeOK
    <3> QED
      BY <3>5, <3>6
  <2>2. CASE RecvHostSend(s, n)
    <3> DEFINE new == [cli[n] EXCEPT !.q = Enqueue(cli[n].q, s, m.data)]
    <3>1. UNCHANGED st /\ (UNCHANGED cli \/ cli' = [cli EXCEPT ![n] = new])
      BY <2>2 DEF RecvHostSend, TypeOK
    <3>2. new.devid = cli[n].devid /\ new.clnum = cli[n].clnum /\ new.host = cli[n].host
      BY <1>2, SameClientFields
    <3> HIDE DEF new
    <3>3. UNCHANGED st /\ (cli'[c] = cli[c] \/ (c = n /\ cli'[c] = new))
      BY <3>1 DEF TypeOK
    <3> QED
      BY <3>2, <3>3
  <2>3. CASE RecvDisconnect(s, n)
    BY <2>3 DEF RecvDisconnect, TypeOK
  <2>4. CASE RecvConnectNack(s, n)
    BY <2>4 DEF RecvConnectNack, TypeOK
  <2>5. (RecvBroadcast(s, n) \/ IgnoreConnectReq(s, n) \/ AcceptConnectReq(s, n)
           \/ RejectConnectReq(s, n) \/ RecvClientSend(s, n) \/ RecvClientAck(s, n)
           \/ (RecvConnectAck(s, n) /\ st[n] # "CONNECTING"))
          => UNCHANGED <<st, cli>>
    BY DEF RecvBroadcast, IgnoreConnectReq, AcceptConnectReq, RejectConnectReq,
           RecvClientSend, RecvClientAck, RecvConnectAck
  <2> QED
    BY <1>3, <1>6, <2>1, <2>2, <2>3, <2>4, <2>5 DEF Receive
<1> QED
  BY <1>3, <1>4, <1>5, <1>6 DEF Next, vars

\* A packet that carries an issued identity goes on doing so.
LEMMA StillIssued ==
  ASSUME issued \subseteq issued', NEW m, NEW a \in Nodes, NEW b \in Nodes,
         PacketIssued(m, a, b)
  PROVE  PacketIssued(m, a, b)'
  BY DEF PacketIssued, Is

\* Every packet under way after a step was under way before it or is in order.
NewInOrder ==
  \A a, b \in Nodes : \A m \in InChannel(net', a, b) :
    m \in InChannel(net, a, b) \/ PacketIssued(m, a, b)

\* One packet sent on any number of channels.
LEMMA Broadcasted ==
  ASSUME TypeOK, NEW x \in Msg,
         \A a, b \in Nodes : net'[a][b] = net[a][b] \/ net'[a][b] = Append(net[a][b], x)
  PROVE  \A a, b \in Nodes : \A m \in InChannel(net', a, b) :
           m \in InChannel(net, a, b) \/ m = x
<1> SUFFICES ASSUME NEW a \in Nodes, NEW b \in Nodes, NEW m \in InChannel(net', a, b)
             PROVE  m \in InChannel(net, a, b) \/ m = x
  OBVIOUS
<1>1. net[a][b] \in Seq(Msg)
  BY DEF TypeOK
<1>2. CASE net'[a][b] = net[a][b]
  BY <1>2 DEF InChannel
<1>3. CASE net'[a][b] = Append(net[a][b], x)
  <2>1. PICK k \in 1 .. Len(Append(net[a][b], x)) : m = Append(net[a][b], x)[k]
    BY <1>3 DEF InChannel
  <2>2. m = x \/ (k \in 1 .. Len(net[a][b]) /\ m = net[a][b][k])
    BY <1>1, <2>1, AppendElement
  <2> QED
    BY <2>2 DEF InChannel
<1> QED
  BY <1>2, <1>3

\* What a client transmits carries its identity.
LEMMA TransmittedInOrder ==
  ASSUME TypeOK, ClientsIssued, NEW n \in Nodes, NEW p \in Payload,
         net' = Transmitted(n, p)
  PROVE  NewInOrder
<1>1. CASE st[n] = "HOST"
  <2> DEFINE x == DataMsg("HOST_SEND", NoId, 0, p)
             f == [d \in Nodes |-> IF d # n /\ Lists(n, d) THEN Append(net[n][d], x)
                                                           ELSE net[n][d]]
  <2>0. x \in Msg
    BY ZeroSlot DEF DataMsg, Msg, MsgType
  <2>1. \A a, b \in Nodes : PacketIssued(x, a, b)
    BY DEF DataMsg, PacketIssued
  <2>2. net' = [net EXCEPT ![n] = f]
    BY <1>1 DEF Transmitted
  <2>3. \A b \in Nodes : f[b] = net[n][b] \/ f[b] = Append(net[n][b], x)
    OBVIOUS
  <2> HIDE DEF f, x
  <2>4. ASSUME NEW a \in Nodes, NEW b \in Nodes
        PROVE  net'[a][b] = net[a][b] \/ net'[a][b] = Append(net[a][b], x)
    BY <2>2, <2>3 DEF TypeOK
  <2>5. \A a, b \in Nodes : \A m \in InChannel(net', a, b) :
          m \in InChannel(net, a, b) \/ m = x
    BY <2>0, <2>4, Broadcasted
  <2> QED
    BY <2>1, <2>5 DEF NewInOrder
<1>2. CASE st[n] = "CLIENT" /\ p \notin LongData
  <2> DEFINE x == DataMsg("CLIENT_SEND", cli[n].devid, cli[n].clnum, p)
  <2>1. x \in Msg /\ cli[n].host \in Nodes
    BY DEF TypeOK, DataMsg, Msg, MsgType, ClientRec
  <2>2. PacketIssued(x, n, cli[n].host)
    BY <1>2 DEF DataMsg, PacketIssued, ClientsIssued
  <2>3. net' = Post(net, n, cli[n].host, x)
    BY <1>2 DEF Transmitted
  <2> HIDE DEF x
  <2> QED
    BY <2>1, <2>2, <2>3, PostFacts, NetworkType DEF NewInOrder
<1>3. CASE st[n] # "HOST" /\ ~(st[n] = "CLIENT" /\ p \notin LongData)
  BY <1>3 DEF Transmitted, NewInOrder
<1> QED
  BY <1>1, <1>2, <1>3

\* What a game transmits carries issued identities.
LEMMA GamePackets ==
  ASSUME TypeOK, SlotsIssued, ClientsIssued, NEW n \in Nodes, GameStep(n)
  PROVE  NewInOrder
<1>1. CASE UNCHANGED net
  BY <1>1 DEF NewInOrder
<1>2. CASE RtxWait(n)
  <2>1. txbuf[n] \in Payload
    BY DEF TypeOK
  <2> QED
    BY <1>2, <2>1, TransmittedInOrder DEF RtxWait
<1>3. CASE ClientDisconnect(n)
  <2> DEFINE x == Notice("DISCONNECT", cli[n].devid, cli[n].clnum)
  <2>1. x \in Msg /\ cli[n].host \in Nodes
    BY NoticeType DEF TypeOK, MsgType, ClientRec
  <2>2. PacketIssued(x, n, cli[n].host)
    BY <1>3 DEF Notice, PacketIssued, ClientsIssued, ClientDisconnect
  <2>3. net' = Post(net, n, cli[n].host, x)
    BY <1>3 DEF ClientDisconnect
  <2> HIDE DEF x
  <2> QED
    BY <2>1, <2>2, <2>3, PostFacts, NetworkType DEF NewInOrder
<1>4. ASSUME NEW p \in Nodes, Connect(n, p) PROVE NewInOrder
  <2> DEFINE x == Notice("CONNECT_REQ", heard[n][p].devid, 0)
  <2>1. x \in Msg
    BY NoticeType, ZeroSlot DEF TypeOK, MsgType, PeerRec
  <2>2. PacketIssued(x, n, p)
    BY DEF Notice, PacketIssued
  <2>3. net' = Post(net, n, p, x)
    BY <1>4 DEF Connect
  <2> HIDE DEF x
  <2> QED
    BY <2>1, <2>2, <2>3, PostFacts, NetworkType DEF NewInOrder
<1>5. ASSUME NEW p \in Data, SendData(n, p) PROVE NewInOrder
  BY <1>5, TransmittedInOrder DEF SendData, Payload
<1>6. ASSUME NEW i \in Slots, HostDisconnect(n, i) PROVE NewInOrder
  <2> DEFINE x == Notice("DISCONNECT", slot[n][i].devid, i)
  <2>1. x \in Msg /\ slot[n][i].cid \in Nodes
    <3>1. slot[n][i] \in SlotRec
      BY DEF TypeOK
    <3>2. slot[n][i].devid \in DevIds \cup {NoId} /\ slot[n][i].cid \in Nodes
      BY <3>1 DEF SlotRec
    <3> QED
      BY <3>2, NoticeType DEF MsgType
  <2>2. PacketIssued(x, n, slot[n][i].cid)
    BY DEF Notice, PacketIssued, SlotsIssued, Occupied
  <2>3. net' = Post(net, n, slot[n][i].cid, x)
    BY <1>6 DEF HostDisconnect
  <2> HIDE DEF x
  <2> QED
    BY <2>1, <2>2, <2>3, PostFacts, NetworkType DEF NewInOrder
<1>7. (Reset(n) \/ HostStart(n) \/ HostStop(n) \/ ConCompl(n) \/ RecvData(n)) => UNCHANGED net
  BY DEF Reset, HostStart, HostStop, ConCompl, RecvData
<1> QED
  BY <1>1, <1>2, <1>3, <1>4, <1>5, <1>6, <1>7 DEF GameStep

\* What the update of a frame transmits does.
LEMMA FramePackets ==
  ASSUME TypeOK, NEW n \in Nodes, FrameUpdate(n)
  PROVE  NewInOrder
<1> DEFINE x == Notice("BROADCAST", hdev[n], 0)
           f == [d \in Nodes |-> IF d = n THEN net[n][d] ELSE Append(net[n][d], x)]
<1>0. x \in Msg
  BY ZeroSlot, NoticeType DEF MsgType, TypeOK
<1>1. \A a, b \in Nodes : PacketIssued(x, a, b)
  BY DEF Notice, PacketIssued
<1>2. net' = net \/ net' = [net EXCEPT ![n] = f]
  BY DEF FrameUpdate
<1>3. \A b \in Nodes : f[b] = net[n][b] \/ f[b] = Append(net[n][b], x)
  OBVIOUS
<1> HIDE DEF f, x
<1>4. ASSUME NEW a \in Nodes, NEW b \in Nodes
      PROVE  net'[a][b] = net[a][b] \/ net'[a][b] = Append(net[a][b], x)
  BY <1>2, <1>3 DEF TypeOK
<1>5. \A a, b \in Nodes : \A m \in InChannel(net', a, b) :
        m \in InChannel(net, a, b) \/ m = x
  BY <1>0, <1>4, Broadcasted
<1> QED
  BY <1>1, <1>5 DEF NewInOrder

\* A packet sent in answer to one that is consumed.
LEMMA Answered ==
  ASSUME TypeOK, NEW s \in Nodes, NEW n \in Nodes, net[s][n] # <<>>, NEW x \in Msg,
         PacketIssued(x, n, s)', net' = Post(Consumed(s, n), n, s, x)
  PROVE  \A a, b \in Nodes : \A m \in InChannel(net', a, b) :
           m \in InChannel(net, a, b) \/ PacketIssued(m, a, b)'
<1>1. /\ Consumed(s, n) \in Network
      /\ \A a, b \in Nodes : InChannel(Consumed(s, n), a, b) \subseteq InChannel(net, a, b)
  BY ConsumedFacts, NetworkType
<1>2. \A a, b \in Nodes :
        InChannel(net', a, b) \subseteq
          InChannel(Consumed(s, n), a, b) \cup (IF a = n /\ b = s THEN {x} ELSE {})
  BY <1>1, PostFacts
<1> QED
  BY <1>1, <1>2

\* What a node answers does.
LEMMA ReceivePackets ==
  ASSUME TypeOK, ClientsIssued, issued \subseteq issued',
         NEW s \in Nodes, NEW n \in Nodes, Receive(s, n)
  PROVE  \A a, b \in Nodes : \A m \in InChannel(net', a, b) :
           m \in InChannel(net, a, b) \/ PacketIssued(m, a, b)'
<1>1. net[s][n] # <<>>
  BY DEF Receive, RecvBroadcast, IgnoreConnectReq, AcceptConnectReq, RejectConnectReq,
         RecvConnectAck, RecvConnectNack, RecvDisconnect, RecvHostSend, RecvClientSend,
         RecvClientAck, Arrives
<1>2. CASE net' = Consumed(s, n)
  BY <1>1, <1>2, ConsumedFacts, NetworkType
<1>3. CASE AcceptConnectReq(s, n)
  <2>1. PICK i \in Slots, d \in DevIds :
          /\ issued' = Issued(d, n, i, s)
          /\ net' = Post(Consumed(s, n), n, s, Notice("CONNECT_ACK", d, i))
    BY <1>3 DEF AcceptConnectReq
  <2> DEFINE x == Notice("CONNECT_ACK", d, i)
  <2>2. x \in Msg
    BY NoticeType DEF MsgType
  <2>3. PacketIssued(x, n, s)'
    BY <2>1 DEF Notice, PacketIssued, Is, Issued
  <2> HIDE DEF x
  <2> QED
    BY <1>1, <2>1, <2>2, <2>3, Answered DEF x
<1>4. CASE RejectConnectReq(s, n)
  <2> DEFINE x == Notice("CONNECT_NACK", NoId, 0)
  <2>1. x \in Msg /\ PacketIssued(x, n, s)'
    BY NoticeType, ZeroSlot DEF MsgType, Notice, PacketIssued
  <2>2. net' = Post(Consumed(s, n), n, s, x)
    BY <1>4 DEF RejectConnectReq
  <2> HIDE DEF x
  <2> QED
    BY <1>1, <2>1, <2>2, Answered
<1>5. CASE RecvHostSend(s, n)
  <2>1. CASE st[n] = "CLIENT"
    <3> DEFINE x == Notice("CLIENT_ACK", cli[n].devid, cli[n].clnum)
    <3>1. cli[n] \in ClientRec
      BY DEF TypeOK
    <3>2. x \in Msg
      BY <3>1, NoticeType DEF MsgType, ClientRec
    <3>3. Is(cli[n].devid, cli[n].host, cli[n].clnum, n)
      BY <2>1 DEF ClientsIssued
    <3>4. [id |-> cli[n].devid, host |-> cli[n].host, slot |-> cli[n].clnum, client |-> n]
            \in issued'
      BY <3>3 DEF Is
    <3>5. x.type = "CLIENT_ACK" /\ x.devid = cli[n].devid
      BY DEF Notice
    <3>6. net' = Post(Consumed(s, n), n, s, x)
      BY <1>5, <2>1 DEF RecvHostSend
    <3> HIDE DEF x
    <3>7. PICK y \in Msg : y = x
      BY <3>2
    <3>8. PacketIssued(y, n, s)'
      BY <3>1, <3>4, <3>5, <3>7 DEF PacketIssued, Is, ClientRec
    <3> QED
      BY <1>1, <3>6, <3>7, <3>8, Answered
  <2>2. CASE st[n] # "CLIENT"
    BY <1>2, <1>5, <2>2 DEF RecvHostSend
  <2> QED
    BY <2>1, <2>2
<1>6. (RecvBroadcast(s, n) \/ IgnoreConnectReq(s, n) \/ RecvConnectAck(s, n)
         \/ RecvConnectNack(s, n) \/ RecvDisconnect(s, n) \/ RecvClientSend(s, n)
         \/ RecvClientAck(s, n)) => net' = Consumed(s, n)
  BY DEF RecvBroadcast, IgnoreConnectReq, RecvConnectAck, RecvConnectNack, RecvDisconnect,
         RecvClientSend, RecvClientAck
<1> QED
  BY <1>2, <1>3, <1>4, <1>5, <1>6 DEF Receive

\* Every step keeps the identities of packets issued.
LEMMA PacketsIssuedStep ==
  ASSUME TypeOK, IdsUnique, SlotsIssued, ClientsIssued, PacketsIssued, [Next]_vars
  PROVE  PacketsIssued'
<1>1. issued \subseteq issued'
  BY IssuedGrows
<1> SUFFICES ASSUME NEW a \in Nodes, NEW b \in Nodes, NEW m \in InChannel(net', a, b)
             PROVE  m \in InChannel(net, a, b) \/ PacketIssued(m, a, b)'
  BY <1>1, StillIssued DEF PacketsIssued
<1>2. CASE NewInOrder
  BY <1>1, <1>2, StillIssued DEF NewInOrder
<1>3. CASE UNCHANGED net
  BY <1>3
<1>4. ASSUME NEW n \in Nodes, GameStep(n) PROVE NewInOrder
  BY <1>4, GamePackets
<1>5. ASSUME NEW n \in Nodes, Handshake(n) PROVE UNCHANGED net
  BY <1>5 DEF Handshake
<1>6. ASSUME NEW n \in Nodes, FrameUpdate(n) PROVE NewInOrder
  BY <1>6, FramePackets
<1>7. ASSUME NEW s \in Nodes, NEW n \in Nodes, Receive(s, n)
      PROVE  m \in InChannel(net, a, b) \/ PacketIssued(m, a, b)'
  BY <1>1, <1>7, ReceivePackets
<1> QED
  BY <1>2, <1>3, <1>4, <1>5, <1>6, <1>7 DEF Next, vars

IdsInv == TypeOK /\ IdsInOrder

\* Every step keeps types and identities.
LEMMA IdsStep == IdsInv /\ [Next]_vars => IdsInv'
<1> SUFFICES ASSUME IdsInv, [Next]_vars PROVE IdsInv'
  OBVIOUS
<1>1. TypeOK'
  BY StepType DEF IdsInv
<1>2. IdsUnique'
  BY IssuedGrows DEF IdsInv, IdsInOrder
<1>3. SlotsIssued'
  BY SlotsIssuedStep DEF IdsInv
<1>4. ClientsIssued'
  BY ClientsIssuedStep DEF IdsInv, IdsInOrder
<1>5. PacketsIssued'
  BY PacketsIssuedStep DEF IdsInv, IdsInOrder
<1> QED
  BY <1>1, <1>2, <1>3, <1>4, <1>5 DEF IdsInv, IdsInOrder

\* They hold before the first identity is issued.
LEMMA IdsInit == Init => IdsInv
<1> SUFFICES ASSUME Init PROVE IdsInv
  OBVIOUS
<1>1. TypeOK
  BY InitType
<1>2. IdsUnique
  BY DEF Init, IdsUnique
<1>3. SlotsIssued
  BY FreeTypes DEF Init, SlotsIssued, Occupied
<1>4. ClientsIssued
  BY DEF Init, ClientsIssued
<1>5. PacketsIssued
  BY DEF Init, PacketsIssued, InChannel
<1> QED
  BY <1>1, <1>2, <1>3, <1>4, <1>5 DEF IdsInv, IdsInOrder

\* They always hold.
LEMMA IdsAlways == Spec => []IdsInv
<1>1. QED
  BY IdsInit, IdsStep, PTL DEF Spec

\* No two connected clients hold one place: a client's place carries an id that
\* was drawn for it alone.
THEOREM NoPlaceShared == Spec => []NoSharedSlot
<1>1. IdsInv => NoSharedSlot
  BY DEF IdsInv, IdsInOrder, ClientsIssued, IdsUnique, Is, NoSharedSlot
<1> QED
  BY <1>1, IdsAlways, PTL

\* Only its own client changes an occupied slot of a host through the network.
THEOREM SlotsTouchedByTheirClients == Spec => SlotTouchedByItsClient
<1> DEFINE Touch == \A s, h \in Nodes, i \in Slots : SlotTouched(s, h, i)
<1>1. IdsInv /\ [Next]_vars => [Touch]_vars
  <2> SUFFICES ASSUME IdsInv, NEW s \in Nodes, NEW n \in Nodes, NEW i \in Slots,
                      Receive(s, n), Occupied(n, i), slot'[n][i] # slot[n][i]
               PROVE  s = slot[n][i].cid
    BY DEF SlotTouched
  <2> DEFINE m == Head(net[s][n])
  <2>1. CASE AcceptConnectReq(s, n)
    <3>1. PICK j \in Slots, d \in DevIds :
            /\ FirstFree(n, j)
            /\ slot' = [slot EXCEPT ![n][j] = [@ EXCEPT !.devid = d, !.cid = s]]
      BY <2>1 DEF AcceptConnectReq
    <3>2. i # j
      BY <3>1 DEF FirstFree
    <3> QED
      BY <3>1, <3>2 DEF IdsInv, TypeOK
  <2>2. CASE RecvDisconnect(s, n) \/ RecvClientSend(s, n) \/ RecvClientAck(s, n)
    <3>1. net[s][n] # <<>> /\ m.type \in {"CLIENT_SEND", "CLIENT_ACK", "DISCONNECT"}
      BY <2>2 DEF RecvDisconnect, RecvClientSend, RecvClientAck, Arrives
    <3>2. m \in Msg /\ m \in InChannel(net, s, n)
      BY <3>1, ConsumedFacts, NetworkType DEF IdsInv
    <3>3. m.slot \in Slots
      BY <3>2 DEF Msg
    <3>4. PICK r : slot' = slot \/ slot' = [slot EXCEPT ![n][m.slot] = r]
      BY <2>2, <3>3 DEF RecvDisconnect, RecvClientSend, RecvClientAck, IdsInv, TypeOK
    <3>5. i = m.slot
      BY <3>3, <3>4 DEF IdsInv, TypeOK
    <3>6. slot[n][m.slot].devid = m.devid
      BY <2>2 DEF RecvDisconnect, RecvClientSend, RecvClientAck, Speaks
    <3> QED
      BY <3>1, <3>2, <3>3, <3>5, <3>6, SpeakerIsClient DEF IdsInv
  <2>3. CASE UNCHANGED slot
    BY <2>3
  <2>4. (RecvBroadcast(s, n) \/ IgnoreConnectReq(s, n) \/ RejectConnectReq(s, n)
           \/ RecvConnectAck(s, n) \/ RecvConnectNack(s, n) \/ RecvHostSend(s, n))
          => UNCHANGED slot
    BY DEF RecvBroadcast, IgnoreConnectReq, RejectConnectReq, RecvConnectAck,
           RecvConnectNack, RecvHostSend
  <2> QED
    BY <2>1, <2>2, <2>3, <2>4 DEF Receive
<1> QED
  BY <1>1, IdsAlways, PTL DEF Spec, SlotTouchedByItsClient

--------------------------------------------------------------------------
(* The rest of the invariant: slots and their queues.                          *)

\* Hosting adapters are out of reset, and only they have clients listed.
LEMMA HostingStep ==
  ASSUME IdsInv, HostsAreOn, SlotsOnlyWhenHosting, [Next]_vars
  PROVE  HostsAreOn' /\ SlotsOnlyWhenHosting'
<1> DEFINE Goal == HostsAreOn' /\ SlotsOnlyWhenHosting'
<1>0. TypeOK /\ IdsInOrder
  BY DEF IdsInv
<1>1. CASE SameClients /\ UNCHANGED on /\ \A h \in Nodes : st'[h] = "HOST" <=> st[h] = "HOST"
  BY <1>1 DEF HostsAreOn, SlotsOnlyWhenHosting, SameClients, Occupied
<1>2. ASSUME NEW n \in Nodes, GameStep(n) PROVE Goal
  <2>1. SameClients
    BY <1>0, <1>2, GameSlots, KeptClients
  <2>2. CASE Reset(n)
    <3>1. \A i \in Slots : ~Occupied(n, i)'
      BY <1>0, <2>2, ClearedSame DEF Reset
    <3>2. st'[n] = "IDLE" /\ \A h \in Nodes \ {n} : st'[h] = st[h] /\ on'[h] = on[h]
      BY <1>0, <2>2 DEF Reset, TypeOK
    <3> QED
      BY <2>1, <3>1, <3>2 DEF HostsAreOn, SlotsOnlyWhenHosting, SameClients
  <2>3. CASE HostStart(n)
    <3>1. st' = st \/ st' = [st EXCEPT ![n] = "HOST"]
      BY <2>3 DEF HostStart
    <3>2. on' = on /\ on[n]
      BY <2>3 DEF HostStart, Command
    <3> QED
      BY <1>0, <2>1, <3>1, <3>2 DEF HostsAreOn, SlotsOnlyWhenHosting, SameClients, TypeOK
  <2>4. CASE HostStop(n)
    <3>1. \A i \in Slots : ~Occupied(n, i)
      BY <2>4 DEF HostStop
    <3>2. st' = [st EXCEPT ![n] = "IDLE"] /\ on' = on
      BY <2>4 DEF HostStop
    <3> QED
      BY <1>0, <2>1, <3>1, <3>2 DEF HostsAreOn, SlotsOnlyWhenHosting, SameClients, TypeOK
  <2>5. CASE UNCHANGED on /\ (UNCHANGED st \/ (st[n] # "HOST" /\ \E x \in {"IDLE", "CONNECTING"} :
                                                 st' = [st EXCEPT ![n] = x]))
    BY <1>0, <1>1, <2>1, <2>5 DEF TypeOK
  <2>6. (ConCompl(n) \/ RtxWait(n) \/ RecvData(n) \/ ClientDisconnect(n))
          => UNCHANGED on /\ (UNCHANGED st \/ (st[n] # "HOST" /\ \E x \in {"IDLE", "CONNECTING"} :
                                                 st' = [st EXCEPT ![n] = x]))
    BY DEF ConCompl, RtxWait, RecvData, ClientDisconnect
  <2>7. ASSUME NEW p \in Nodes, Connect(n, p)
        PROVE  UNCHANGED on /\ st[n] # "HOST" /\ st' = [st EXCEPT ![n] = "CONNECTING"]
    BY <2>7 DEF Connect
  <2>8. ASSUME NEW p \in Data, SendData(n, p) PROVE UNCHANGED <<on, st>>
    BY <2>8 DEF SendData
  <2>9. ASSUME NEW i \in Slots, HostDisconnect(n, i) PROVE UNCHANGED <<on, st>>
    BY <2>9 DEF HostDisconnect
  <2> QED
    BY <1>2, <2>2, <2>3, <2>4, <2>5, <2>6, <2>7, <2>8, <2>9 DEF GameStep
<1>3. ASSUME NEW n \in Nodes, Handshake(n) PROVE Goal
  <2>1. on' = [on EXCEPT ![n] = TRUE] /\ UNCHANGED <<st, slot>>
    BY <1>3 DEF Handshake
  <2> QED
    BY <1>0, <2>1 DEF HostsAreOn, SlotsOnlyWhenHosting, Occupied, TypeOK
<1>4. ASSUME NEW n \in Nodes, FrameUpdate(n) PROVE Goal
  <2>1. SameClients
    BY <1>0, <1>4, FrameSlots, KeptClients
  <2> QED
    BY <1>1, <1>4, <2>1 DEF FrameUpdate
<1>5. ASSUME NEW s \in Nodes, NEW n \in Nodes, Receive(s, n) PROVE Goal
  <2>1. CASE AcceptConnectReq(s, n)
    <3>1. UNCHANGED <<on, st>> /\ st[n] = "HOST"
      BY <2>1 DEF AcceptConnectReq
    <3>2. PICK i \in Slots, d \in DevIds :
            slot' = [slot EXCEPT ![n][i] = [@ EXCEPT !.devid = d, !.cid = s]]
      BY <2>1 DEF AcceptConnectReq
    <3>3. \A h \in Nodes \ {n} : slot'[h] = slot[h]
      BY <1>0, <3>2 DEF TypeOK
    <3> QED
      BY <3>1, <3>3 DEF HostsAreOn, SlotsOnlyWhenHosting, Occupied
  <2>2. CASE ~AcceptConnectReq(s, n)
    <3>1. SameClients
      BY <1>0, <1>5, <2>2, ReceiveSlots, KeptClients
    <3>2. UNCHANGED on
      BY <1>5 DEF Receive, RecvBroadcast, IgnoreConnectReq, AcceptConnectReq, RejectConnectReq,
         RecvConnectAck, RecvConnectNack, RecvDisconnect, RecvHostSend, RecvClientSend,
         RecvClientAck
    <3>3. UNCHANGED st \/ \E x \in {"IDLE", "CLIENT"} : st[n] # "HOST" /\ st' = [st EXCEPT ![n] = x]
      BY <1>0, <1>5 DEF Receive, RecvBroadcast, IgnoreConnectReq, AcceptConnectReq,
         RejectConnectReq, RecvConnectAck, RecvConnectNack, RecvDisconnect, RecvHostSend,
         RecvClientSend, RecvClientAck, TypeOK
    <3> QED
      BY <1>0, <1>1, <3>1, <3>2, <3>3 DEF TypeOK
  <2> QED
    BY <2>1, <2>2
<1>6. CASE UNCHANGED vars
  BY <1>1, <1>6 DEF vars, SameClients, Occupied
<1> QED
  BY <1>2, <1>3, <1>4, <1>5, <1>6 DEF Next

\* Every step but an accepted request keeps the slots in the sense of SlotsKept.
LEMMA SlotsKeptOrAccepted ==
  ASSUME IdsInv, [Next]_vars
  PROVE  SlotsKept \/ \E s, n \in Nodes : AcceptConnectReq(s, n)
<1>0. TypeOK /\ IdsInOrder
  BY DEF IdsInv
<1>1. CASE UNCHANGED slot
  BY <1>1 DEF SlotsKept, Kept
<1>2. ASSUME NEW n \in Nodes, GameStep(n) PROVE SlotsKept
  BY <1>0, <1>2, GameSlots
<1>3. ASSUME NEW n \in Nodes, Handshake(n) PROVE UNCHANGED slot
  BY <1>3 DEF Handshake
<1>4. ASSUME NEW n \in Nodes, FrameUpdate(n) PROVE SlotsKept
  BY <1>0, <1>4, FrameSlots
<1>5. ASSUME NEW s \in Nodes, NEW n \in Nodes, Receive(s, n)
      PROVE  SlotsKept \/ AcceptConnectReq(s, n)
  BY <1>0, <1>5, ReceiveSlots
<1> QED
  BY <1>1, <1>2, <1>3, <1>4, <1>5 DEF Next, vars

\* The slot an accepted request fills, and its empty queue.
LEMMA AcceptedSlot ==
  ASSUME TypeOK, FreeSlotsEmpty, NEW s \in Nodes, NEW n \in Nodes, AcceptConnectReq(s, n)
  PROVE  \E i \in Slots :
           /\ ~Occupied(n, i)
           /\ slot'[n][i].cid = s /\ slot'[n][i].q = <<>> /\ Occupied(n, i)'
           /\ \A h \in Nodes, j \in Slots : ~(h = n /\ j = i) => slot'[h][j] = slot[h][j]
<1>1. PICK i \in Slots, d \in DevIds :
        /\ FirstFree(n, i)
        /\ slot' = [slot EXCEPT ![n][i] = [@ EXCEPT !.devid = d, !.cid = s]]
  BY DEF AcceptConnectReq
<1> DEFINE r == [slot[n][i] EXCEPT !.devid = d, !.cid = s]
<1>2. slot[n][i] \in SlotRec
  BY DEF TypeOK
<1>3. r.devid = d /\ r.cid = s /\ r.q = slot[n][i].q
  BY <1>2 DEF SlotRec
<1>4. slot' = [slot EXCEPT ![n][i] = r]
  BY <1>1
<1>5. ~Occupied(n, i) /\ slot[n][i].q = <<>>
  BY <1>1 DEF FirstFree, FreeSlotsEmpty
<1> HIDE DEF r
<1>6. slot'[n][i] = r /\ \A h \in Nodes, j \in Slots : ~(h = n /\ j = i) => slot'[h][j] = slot[h][j]
  BY <1>4 DEF TypeOK
<1> QED
  BY <1>3, <1>5, <1>6, ConstantsAssumption DEF Occupied

\* No step gives a client a second slot.
LEMMA OneSlotStep ==
  ASSUME IdsInv, FreeSlotsEmpty, OneSlotPerClient, [Next]_vars
  PROVE  OneSlotPerClient'
<1>1. CASE SlotsKept
  BY <1>1, KeptClients DEF SameClients, OneSlotPerClient
<1>2. ASSUME NEW s \in Nodes, NEW n \in Nodes, AcceptConnectReq(s, n)
      PROVE  OneSlotPerClient'
  <2>1. PICK i \in Slots :
           /\ slot'[n][i].cid = s
           /\ \A h \in Nodes, j \in Slots : ~(h = n /\ j = i) => slot'[h][j] = slot[h][j]
    BY <1>2, AcceptedSlot DEF IdsInv
  <2>2. \A j \in Slots : Occupied(n, j) => slot[n][j].cid # s
    BY <1>2 DEF AcceptConnectReq, Lists
  <2> QED
    BY <2>1, <2>2 DEF OneSlotPerClient, Occupied
<1> QED
  BY <1>1, <1>2, SlotsKeptOrAccepted

\* Every step keeps the queues of free slots empty.
LEMMA FreeSlotsEmptyStep ==
  ASSUME IdsInv, FreeSlotsEmpty, [Next]_vars
  PROVE  FreeSlotsEmpty'
<1>1. CASE SlotsKept
  <2> SUFFICES ASSUME NEW h \in Nodes, NEW i \in Slots
               PROVE  Occupied(h, i)' \/ slot'[h][i].q = <<>>
    BY DEF FreeSlotsEmpty
  <2>1. Kept(h, i)
    BY <1>1 DEF SlotsKept
  <2> QED
    BY <2>1, FreeTypes DEF Kept, FreeSlotsEmpty, Occupied, Dequeue
<1>2. ASSUME NEW s \in Nodes, NEW n \in Nodes, AcceptConnectReq(s, n)
      PROVE  FreeSlotsEmpty'
  <2>1. PICK i \in Slots :
           /\ Occupied(n, i)'
           /\ \A h \in Nodes, j \in Slots : ~(h = n /\ j = i) => slot'[h][j] = slot[h][j]
    BY <1>2, AcceptedSlot DEF IdsInv
  <2> QED
    BY <2>1 DEF FreeSlotsEmpty, Occupied
<1> QED
  BY <1>1, <1>2, SlotsKeptOrAccepted

\* A queue that only its slot's client appended to.
LEMMA SlotDataStep ==
  ASSUME IdsInv, FreeSlotsEmpty, SlotDataFromItsClient, [Next]_vars
  PROVE  SlotDataFromItsClient'
<1> DEFINE Own(r) == \A k \in 1 .. Len(r.q) : r.q[k].from = r.cid
<1>1. CASE SlotsKept
  <2> SUFFICES ASSUME NEW h \in Nodes, NEW i \in Slots, Occupied(h, i)'
               PROVE  Own(slot'[h][i])
    BY DEF SlotDataFromItsClient
  <2> DEFINE q == slot[h][i].q
             c == slot[h][i].cid
  <2>1. q \in Seq(Packet) /\ Len(q) <= QLen /\ c \in Nodes
    BY DEF IdsInv, TypeOK, SlotRec
  <2>2. Occupied(h, i) /\ slot'[h][i].cid = c
    BY <1>1, KeptClients DEF SameClients
  <2>3. \A k \in 1 .. Len(q) : q[k].from = c
    BY <2>2 DEF SlotDataFromItsClient
  <2>4. \/ slot'[h][i].q = q \/ slot'[h][i].q = Dequeue(q)
        \/ \E p \in Payload : slot'[h][i].q = Enqueue(q, c, p)
    BY <1>1, FreeTypes DEF SlotsKept, Kept, Occupied
  <2>5. CASE slot'[h][i].q = q
    BY <2>2, <2>3, <2>5
  <2>6. CASE slot'[h][i].q = Dequeue(q)
    <3>1. \A k \in 1 .. Len(Dequeue(q)) : Dequeue(q)[k].from = c
      BY <2>1, <2>3, DequeueFacts
    <3> QED
      BY <2>2, <2>6, <3>1
  <2>7. ASSUME NEW p \in Payload, slot'[h][i].q = Enqueue(q, c, p)
        PROVE  Own(slot'[h][i])
    <3>1. \A k \in 1 .. Len(Enqueue(q, c, p)) : Enqueue(q, c, p)[k].from = c
      <4>1. \A k \in 1 .. Len(Enqueue(q, c, p)) :
              \/ Enqueue(q, c, p)[k].from = c
              \/ k \in 1 .. Len(q) /\ Enqueue(q, c, p)[k] = q[k]
        BY <2>1, EnqueueFacts
      <4>2. \A k \in 1 .. Len(q) : q[k].from = c
        BY <2>3
      <4> QED
        BY <4>1, <4>2
    <3> QED
      BY <2>2, <2>7, <3>1
  <2> QED
    BY <2>4, <2>5, <2>6, <2>7
<1>2. ASSUME NEW s \in Nodes, NEW n \in Nodes, AcceptConnectReq(s, n)
      PROVE  SlotDataFromItsClient'
  <2>1. PICK i \in Slots :
           /\ slot'[n][i].q = <<>>
           /\ \A h \in Nodes, j \in Slots : ~(h = n /\ j = i) => slot'[h][j] = slot[h][j]
    BY <1>2, AcceptedSlot DEF IdsInv
  <2> QED
    BY <2>1 DEF SlotDataFromItsClient, Occupied
<1> QED
  BY <1>1, <1>2, SlotsKeptOrAccepted

\* Every step keeps the whole invariant.
LEMMA InvStep == IInv /\ [Next]_vars => IInv'
<1> SUFFICES ASSUME IInv, [Next]_vars PROVE IInv'
  OBVIOUS
<1>1. IdsInv
  BY DEF IInv, IdsInv, IdsInOrder
<1>2. IdsInv'
  BY <1>1, IdsStep
<1>3. HostsAreOn' /\ SlotsOnlyWhenHosting'
  BY <1>1, HostingStep DEF IInv
<1>4. FreeSlotsEmpty' /\ OneSlotPerClient' /\ SlotDataFromItsClient'
  BY <1>1, FreeSlotsEmptyStep, OneSlotStep, SlotDataStep DEF IInv
<1> QED
  BY <1>2, <1>3, <1>4 DEF IInv, IdsInv, IdsInOrder

\* The whole invariant holds at the start.
LEMMA InvInit == Init => IInv
<1> SUFFICES ASSUME Init PROVE IInv
  OBVIOUS
<1>1. IdsInv
  BY IdsInit
<1>2. \A h \in Nodes, i \in Slots : ~Occupied(h, i) /\ slot[h][i].q = <<>> /\ st[h] = "IDLE"
  BY FreeTypes DEF Init, Occupied
<1>3. HostsAreOn /\ FreeSlotsEmpty
  BY <1>2, ZeroSlot DEF HostsAreOn, FreeSlotsEmpty
<1>4. SlotsOnlyWhenHosting /\ OneSlotPerClient /\ SlotDataFromItsClient
  BY <1>2 DEF SlotsOnlyWhenHosting, OneSlotPerClient, SlotDataFromItsClient
<1> QED
  BY <1>1, <1>3, <1>4 DEF IInv, IdsInv, IdsInOrder

\* The whole invariant always holds.
LEMMA InvAlways == Spec => []IInv
<1>1. QED
  BY InvInit, InvStep, PTL DEF Spec

\* An adapter that is not hosting lists no clients.
THEOREM SlotsBelongToHosts == Spec => []SlotsOnlyWhenHosting
<1>1. IInv => SlotsOnlyWhenHosting
  BY DEF IInv
<1> QED
  BY <1>1, InvAlways, PTL

\* A host lists a client once.
THEOREM ClientsListedOnce == Spec => []OneSlotPerClient
<1>1. IInv => OneSlotPerClient
  BY DEF IInv
<1> QED
  BY <1>1, InvAlways, PTL

\* What a host reads from a slot was sent by the slot's client.
THEOREM SlotDataIsTheClients == Spec => []SlotDataFromItsClient
<1>1. IInv => SlotDataFromItsClient
  BY DEF IInv
<1> QED
  BY <1>1, InvAlways, PTL

\* Connections are one to one, for any number of adapters and slots.
THEOREM PlacesApart == Spec => []OnePlaceEach
BY NoPlaceShared, ClientsListedOnce, PTL DEF OnePlaceEach
=============================================================================
