------------------------- MODULE PersistentProtocol -------------------------
(***************************************************************************)
(* PersistentProtocol of base/parts/ipc/common/ipc.net.ts: the two ends of *)
(* the connection between a window and a remote server.  The protocol      *)
(* outlives its socket: messages are numbered, acknowledged and kept until *)
(* acknowledged, and a reconnection puts both ends on a new socket and     *)
(* writes again what the other end may not have got.                       *)
(*                                                                         *)
(* A socket is an epoch; epoch 0 is the first connection.  The handshake   *)
(* of a reconnection (remoteAgentConnection.ts on the client,              *)
(* remoteExtensionHostAgentServer.ts and extensionHostProcess.ts on the    *)
(* server) is modelled as far as it decides when the two ends switch       *)
(* sockets and what each reads and writes meanwhile.                       *)
(*                                                                         *)
(* Time is left out: a timer that is set may fire at any moment, so every  *)
(* behaviour of the real delays is included.                               *)
(***************************************************************************)
EXTENDS Naturals, Sequences

CONSTANTS
  Data,          \* what send() may carry
  NoData,        \* the empty buffer of the other message types
  MaxEpoch,      \* bound: how many reconnections the client starts
  MaxSend,       \* bound: how many messages each end sends
  MaxInFlight,   \* bound: no keep alive is sent when so much is under way
  Lossy,         \* the network drops messages: the case ReplayRequest is for
  HandsOff       \* the server hands the socket to the extension host process

Client == "client"
Server == "server"
Sides == {Client, Server}
Peer(s) == IF s = Client THEN Server ELSE Client

ASSUME ConstantsAssumption ==
  /\ NoData \notin Data
  /\ MaxEpoch \in Nat /\ MaxInFlight \in Nat
  /\ MaxSend \in [Sides -> Nat]
  /\ Lossy \in BOOLEAN /\ HandsOff \in BOOLEAN

Epochs == 0 .. MaxEpoch

Types == {"Regular", "Control", "Ack", "ReplayRequest", "Pause", "Resume",
          "KeepAlive"}

Message ==
  [type : Types, id : Nat, ack : Nat, data : Data \cup {NoData}]

\* Every message but a regular one has id 0 and no data that matters here.
Signal(type, ack) == [type |-> type, id |-> 0, ack |-> ack, data |-> NoData]

VARIABLES
  isReconnecting,  \* between beginAcceptReconnection and endAcceptReconnection
  outgoingMsgId,   \* number of the last message sent
  outgoingAckId,   \* highest acknowledgement received
  unack,           \* _outgoingUnackMsg: messages kept to be sent again
  incomingMsgId,   \* number of the last message accepted
  incomingAckId,   \* highest acknowledgement sent
  ackTimer,        \* _incomingAckTimeout is set
  unackTimer,      \* _outgoingAckTimeout is set
  timedOut,        \* onSocketTimeout has fired for the current socket
  replayAsked,     \* a ReplayRequest was sent less than 10s ago
  sock,            \* the epoch an end reads from and writes to
  writer,          \* ProtocolWriter: buffered messages, write timer, paused
  wire,            \* wire[e][s]: what s has written to socket e, not yet read
  phase,           \* the server's side of socket e
  sent,            \* history: the data given to send()
  received         \* history: the data onMessage has fired with

outVars     == <<outgoingMsgId, outgoingAckId, unack>>
inVars      == <<incomingMsgId, incomingAckId>>
timerVars   == <<unackTimer, timedOut>>
historyVars == <<sent, received>>
vars == <<isReconnecting, outVars, inVars, ackTimer, timerVars, replayAsked,
          sock, writer, wire, phase, historyVars>>

(***************************************************************************)
(* ProtocolWriter                                                          *)
(***************************************************************************)
Writer == [buf : Seq(Message), timer : BOOLEAN, paused : BOOLEAN]

NewWriter == [buf |-> <<>>, timer |-> FALSE, paused |-> FALSE]

\* write(), for each of msgs: the first one into an empty buffer sets the timer.
Write(w, msgs) ==
  [w EXCEPT !.buf = @ \o msgs,
            !.timer = @ \/ (w.buf = <<>> /\ msgs # <<>>)]

PauseWriter(w) == [w EXCEPT !.paused = TRUE]
\* Mutant: resume() only clears the flag.
ResumeWithoutScheduling(w) == [w EXCEPT !.paused = FALSE]
ResumeWriter(w) == [w EXCEPT !.paused = FALSE, !.timer = TRUE]

\* _writeNow(): a paused writer keeps its buffer.
Flushed(w) == IF w.paused THEN <<>> ELSE w.buf
AfterFlush(w) == IF w.paused THEN w ELSE [w EXCEPT !.buf = <<>>]

(***************************************************************************)
(* Sockets.  The client never returns to a socket it left; the server may  *)
(* still take over one that the client has given up.                       *)
(***************************************************************************)
Phases == {"idle", "connecting", "accepted", "attached", "left"}

MayStillBeRead(e, s) == IF s = Client THEN phase[e] # "left" ELSE sock[Client] = e

Put(w, e, s, msgs) ==
  IF MayStillBeRead(e, s) THEN [w EXCEPT ![e][s] = @ \o msgs] ELSE w

(***************************************************************************)
(* Messages kept until they are acknowledged                               *)
(***************************************************************************)
\* Mutant: the message with the acknowledged id itself is kept.
PrefixBelowAck(q, ack) ==
  CHOOSE k \in 0 .. Len(q) : /\ \A i \in 1 .. k : q[i].id < ack
                             /\ k < Len(q) => ack <= q[k + 1].id

\* The pop() loop of _receiveMessage stops at the first id above ack.
AckedPrefix(q, ack) ==
  CHOOSE k \in 0 .. Len(q) : /\ \A i \in 1 .. k : q[i].id <= ack
                             /\ k < Len(q) => ack < q[k + 1].id

\* Mutant: any new acknowledgement empties the queue.
DropAll(q, ack) == <<>>
DropAcked(q, ack) == SubSeq(q, AckedPrefix(q, ack) + 1, Len(q))

AcceptAck(s, ack) ==
  IF ack > outgoingAckId[s]
  THEN /\ outgoingAckId' = [outgoingAckId EXCEPT ![s] = ack]
       /\ unack' = [unack EXCEPT ![s] = DropAcked(@, ack)]
  ELSE UNCHANGED <<outgoingAckId, unack>>

\* _recvAckCheck: make sure somebody notices when no acknowledgement comes.
\* (Messages just written have not waited for 20s, so it sets the timer.)
\* Mutant: the check still sees the reconnection that is just ending.
RecvAckCheckTooEarly(s) ==
  unackTimer' = [unackTimer EXCEPT ![s] =
                   @ \/ (outgoingMsgId'[s] > outgoingAckId'[s] /\ ~isReconnecting[s])]

RecvAckCheck(s) ==
  unackTimer' = [unackTimer EXCEPT ![s] =
                   @ \/ (outgoingMsgId'[s] > outgoingAckId'[s] /\ ~isReconnecting'[s])]

(***************************************************************************)
(* The initial state: epoch 0 is up.  With a hand-off the client was told  *)
(* to pause and the extension host process has just sent Resume.           *)
(***************************************************************************)
Init ==
  /\ isReconnecting = [s \in Sides |-> FALSE]
  /\ outgoingMsgId = [s \in Sides |-> 0]
  /\ outgoingAckId = [s \in Sides |-> 0]
  /\ unack = [s \in Sides |-> <<>>]
  /\ incomingMsgId = [s \in Sides |-> 0]
  /\ incomingAckId = [s \in Sides |-> 0]
  /\ ackTimer = [s \in Sides |-> FALSE]
  /\ unackTimer = [s \in Sides |-> FALSE]
  /\ timedOut = [s \in Sides |-> FALSE]
  /\ replayAsked = [s \in Sides |-> FALSE]
  /\ sock = [s \in Sides |-> 0]
  /\ writer = [s \in Sides |->
                 IF ~HandsOff THEN NewWriter
                 ELSE IF s = Client THEN PauseWriter(NewWriter)
                 ELSE Write(NewWriter, <<Signal("Resume", 0)>>)]
  /\ wire = [e \in Epochs |-> [s \in Sides |-> <<>>]]
  /\ phase = [e \in Epochs |-> IF e = 0 THEN "attached" ELSE "idle"]
  /\ sent = [s \in Sides |-> <<>>]
  /\ received = [s \in Sides |-> <<>>]

(***************************************************************************)
(* Sending                                                                 *)
(***************************************************************************)
NextMessage(s, d) ==
  [type |-> "Regular", id |-> outgoingMsgId[s] + 1, ack |-> incomingMsgId[s],
   data |-> d]

\* send(): while reconnecting the message is only kept.
Send(s, d) ==
  /\ outgoingMsgId[s] < MaxSend[s]
  /\ LET m == NextMessage(s, d)
     IN  /\ outgoingMsgId' = [outgoingMsgId EXCEPT ![s] = m.id]
         /\ incomingAckId' = [incomingAckId EXCEPT ![s] = incomingMsgId[s]]
         /\ unack' = [unack EXCEPT ![s] = Append(@, m)]
         /\ writer' = IF isReconnecting[s] THEN writer
                      ELSE [writer EXCEPT ![s] = Write(@, <<m>>)]
  /\ sent' = [sent EXCEPT ![s] = Append(@, d)]
  /\ UNCHANGED <<isReconnecting, outgoingAckId, incomingMsgId, ackTimer,
                 replayAsked, sock, wire, phase, received>>
  /\ \/ RecvAckCheck(s) /\ UNCHANGED timedOut
     \/ \* an older message has timed out, and does so again
        /\ unack[s] # <<>> /\ ~unackTimer[s] /\ ~isReconnecting[s]
        /\ timedOut' = [timedOut EXCEPT ![s] = TRUE]
        /\ UNCHANGED unackTimer

\* _sendKeepAlive() writes even while reconnecting, and looks for a dead socket.
SendKeepAlive(s) ==
  /\ Len(writer[s].buf) + Len(wire[sock[s]][s]) < MaxInFlight
  /\ incomingAckId' = [incomingAckId EXCEPT ![s] = incomingMsgId[s]]
  /\ writer' = [writer EXCEPT ![s] =
                  Write(@, <<Signal("KeepAlive", incomingMsgId[s])>>)]
  /\ \/ UNCHANGED timedOut
     \/ ~isReconnecting[s] /\ timedOut' = [timedOut EXCEPT ![s] = TRUE]
  /\ UNCHANGED <<isReconnecting, outVars, incomingMsgId, ackTimer, unackTimer,
                 replayAsked, sock, wire, phase, historyVars>>

\* The write timer fires.
WriteNow(s) ==
  /\ writer[s].timer
  /\ writer' = [writer EXCEPT ![s] = [AfterFlush(@) EXCEPT !.timer = FALSE]]
  /\ wire' = Put(wire, sock[s], s, Flushed(writer[s]))
  /\ UNCHANGED <<isReconnecting, outVars, inVars, ackTimer, timerVars,
                 replayAsked, sock, phase, historyVars>>

SendAck(s) ==
  IF incomingMsgId[s] <= incomingAckId[s]
  THEN UNCHANGED <<incomingAckId, writer>>
  ELSE /\ incomingAckId' = [incomingAckId EXCEPT ![s] = incomingMsgId[s]]
       /\ writer' = [writer EXCEPT ![s] =
                       Write(@, <<Signal("Ack", incomingMsgId[s])>>)]

\* The _incomingAckTimeout timer fires: _sendAckCheck (which may also set the
\* timer again, changing nothing).
AckTimeout(s) ==
  /\ ackTimer[s]
  /\ ackTimer' = [ackTimer EXCEPT ![s] = FALSE]
  /\ SendAck(s)
  /\ UNCHANGED <<isReconnecting, outVars, incomingMsgId, timerVars,
                 replayAsked, sock, wire, phase, historyVars>>

\* The _outgoingAckTimeout timer fires: nothing to wait for, or time out (the
\* third outcome of _recvAckCheck, setting the timer again, changes nothing).
UnackTimeout(s) ==
  /\ unackTimer[s]
  /\ unackTimer' = [unackTimer EXCEPT ![s] = FALSE]
  /\ timedOut' = IF outgoingMsgId[s] <= outgoingAckId[s] \/ isReconnecting[s]
                 THEN timedOut ELSE [timedOut EXCEPT ![s] = TRUE]
  /\ UNCHANGED <<isReconnecting, outVars, inVars, ackTimer, replayAsked, sock,
                 writer, wire, phase, historyVars>>

(***************************************************************************)
(* Receiving: _receiveMessage                                              *)
(***************************************************************************)
Incoming(s) == wire[sock[s]][Peer(s)]

\* The part common to all types: the message is read and its ack accepted.
Take(s, type) ==
  /\ Incoming(s) # <<>>
  /\ Head(Incoming(s)).type = type
  /\ wire' = [wire EXCEPT ![sock[s]][Peer(s)] = Tail(@)]
  /\ AcceptAck(s, Head(Incoming(s)).ack)
  /\ UNCHANGED <<outgoingMsgId, sock, phase, sent>>

\* Mutant: what was received before is accepted again.
IsNextOrOld(s, m) == m.id <= incomingMsgId[s] + 1
IsNext(s, m) == m.id = incomingMsgId[s] + 1

ReceiveNext(s) ==
  /\ Take(s, "Regular")
  /\ LET m == Head(Incoming(s))
     IN  /\ IsNext(s, m)
         /\ incomingMsgId' = [incomingMsgId EXCEPT ![s] = m.id]
         /\ received' = [received EXCEPT ![s] = Append(@, m.data)]
  /\ ackTimer' = [ackTimer EXCEPT ![s] = TRUE]
  /\ UNCHANGED <<isReconnecting, incomingAckId, timerVars, replayAsked, writer>>

\* A message received before: its sender has not got the acknowledgement.
ReceiveAgain(s) ==
  /\ Take(s, "Regular")
  /\ Head(Incoming(s)).id <= incomingMsgId[s]
  /\ UNCHANGED <<isReconnecting, inVars, ackTimer, timerVars, replayAsked,
                 writer, received>>

\* Messages are missing: ask for them, at most once every 10s.
ReceiveGap(s) ==
  /\ Take(s, "Regular")
  /\ Head(Incoming(s)).id > incomingMsgId[s] + 1
  /\ replayAsked' = [replayAsked EXCEPT ![s] = TRUE]
  /\ writer' = IF replayAsked[s] THEN writer
               ELSE [writer EXCEPT ![s] = Write(@, <<Signal("ReplayRequest", 0)>>)]
  /\ UNCHANGED <<isReconnecting, inVars, ackTimer, timerVars, received>>

ReceiveReplayRequest(s) ==
  /\ Take(s, "ReplayRequest")
  /\ writer' = [writer EXCEPT ![s] = Write(@, unack'[s])]
  /\ UNCHANGED <<isReconnecting, inVars, ackTimer, timedOut, replayAsked, received>>
  /\ RecvAckCheck(s)

ReceivePause(s) ==
  /\ Take(s, "Pause")
  /\ writer' = [writer EXCEPT ![s] = PauseWriter(@)]
  /\ UNCHANGED <<isReconnecting, inVars, ackTimer, timerVars, replayAsked,
                 received>>

ReceiveResume(s) ==
  /\ Take(s, "Resume")
  /\ writer' = [writer EXCEPT ![s] = ResumeWriter(@)]
  /\ UNCHANGED <<isReconnecting, inVars, ackTimer, timerVars, replayAsked,
                 received>>

\* Only the acknowledgement of these counts.
ReceiveAck(s) ==
  /\ \E type \in {"Ack", "KeepAlive"} : Take(s, type)
  /\ UNCHANGED <<isReconnecting, inVars, ackTimer, timerVars, replayAsked,
                 writer, received>>

(***************************************************************************)
(* Reconnection                                                            *)
(***************************************************************************)
\* beginAcceptReconnection: the timeouts of the old socket are forgotten, its
\* reader is disposed, and so is its writer, which flushes first.
Begin(s, e) ==
  /\ timedOut' = [timedOut EXCEPT ![s] = FALSE]
  /\ replayAsked' = [replayAsked EXCEPT ![s] = FALSE]
  /\ sock' = [sock EXCEPT ![s] = e]

LeaveSocket(w, s) ==
  [Put(w, sock[s], s, Flushed(writer[s])) EXCEPT ![sock[s]][Peer(s)] = <<>>]

\* What endAcceptReconnection writes: everything received so far is
\* acknowledged once more, everything unacknowledged is sent once more.
\* Mutant: only the acknowledgement.
ResentAck(s) == <<Signal("Ack", incomingMsgId[s])>>
\* Mutant: only the messages.
ResentMessages(s) == unack'[s]
Resent(s) == <<Signal("Ack", incomingMsgId[s])>> \o unack'[s]

\* Client: a reconnection attempt has opened a socket and begins.
Reconnect(e) ==
  /\ e = sock[Client] + 1
  /\ Begin(Client, e)
  /\ isReconnecting' = [isReconnecting EXCEPT ![Client] = TRUE]
  /\ wire' = LeaveSocket(wire, Client)
  /\ writer' = [writer EXCEPT ![Client] = NewWriter]
  /\ phase' = [phase EXCEPT ![e] = "connecting"]
  /\ UNCHANGED <<outVars, inVars, ackTimer, unackTimer, historyVars>>

\* Client: the server has answered the handshake.  Unless the attempt has timed
\* out meanwhile and nobody listens, endAcceptReconnection follows.
ReceiveControl(s) ==
  /\ Take(s, "Control")
  /\ \/ /\ isReconnecting[s]
        /\ isReconnecting' = [isReconnecting EXCEPT ![s] = FALSE]
        /\ incomingAckId' = [incomingAckId EXCEPT ![s] = incomingMsgId[s]]
        /\ writer' = [writer EXCEPT ![s] = Write(@, Resent(s))]
        /\ RecvAckCheck(s)
     \/ UNCHANGED <<isReconnecting, incomingAckId, writer, unackTimer>>
  /\ UNCHANGED <<incomingMsgId, ackTimer, timedOut, replayAsked, received>>

\* Server: the handshake of socket e succeeds.  The handshake protocol has
\* dropped the first k messages it read, and it answers with msgs.
Answered(e, k, msgs) ==
  LET w == Put(wire, e, Server, msgs)
  IN  [w EXCEPT ![e][Client] = SubSeq(@, k + 1, Len(@))]

\* Server: acceptReconnection.  The first n messages of w are the initial chunk,
\* read between begin- and endAcceptReconnection, all in one turn; the client
\* is still reconnecting and has written nothing but acknowledgements.  extra
\* is what the extension host process sends next.
Attach(e, n, w, extra) ==
  LET chunk == SubSeq(w[e][Client], 1, n)
  IN  /\ \A i \in 1 .. n : chunk[i].type \in {"Ack", "KeepAlive"}
      /\ AcceptAck(Server, IF n = 0 THEN 0 ELSE chunk[n].ack)
      /\ Begin(Server, e)
      /\ incomingAckId' = [incomingAckId EXCEPT ![Server] = incomingMsgId[Server]]
      /\ writer' = [writer EXCEPT ![Server] =
                       Write(NewWriter, Resent(Server) \o extra)]
      /\ wire' = LeaveSocket([w EXCEPT ![e][Client] = SubSeq(@, n + 1, Len(@))],
                             Server)
      /\ phase' = [phase EXCEPT ![e] = "attached", ![sock[Server]] = "left"]
      /\ UNCHANGED <<isReconnecting, outgoingMsgId, incomingMsgId, ackTimer,
                     historyVars>>
      /\ RecvAckCheck(Server)

\* Server, a management connection: _handleConnectionType, then
\* ManagementConnection.acceptReconnection in the same turn.
AcceptManagement(e) ==
  /\ ~HandsOff
  /\ phase[e] = "connecting"
  /\ \E k, n \in 0 .. Len(wire[e][Client]) :
       /\ k + n <= Len(wire[e][Client])
       /\ Attach(e, n, Answered(e, k, <<Signal("Control", 0)>>), <<>>)

\* Server, an extension host connection: the client is told to hold back its
\* writes, and the socket goes to the extension host process ...
AcceptExtensionHost(e) ==
  /\ HandsOff
  /\ phase[e] = "connecting"
  /\ \E k \in 0 .. Len(wire[e][Client]) :
       wire' = Answered(e, k, <<Signal("Pause", 0), Signal("Control", 0)>>)
  /\ phase' = [phase EXCEPT ![e] = "accepted"]
  /\ UNCHANGED <<isReconnecting, outVars, inVars, ackTimer, timerVars,
                 replayAsked, sock, writer, historyVars>>

\* ... which takes it over and tells the client to go on.
AttachExtensionHost(e) ==
  /\ phase[e] = "accepted"
  /\ \E n \in 0 .. Len(wire[e][Client]) :
       Attach(e, n, wire, <<Signal("Resume", 0)>>)

(***************************************************************************)
(* The network and the clock                                               *)
(***************************************************************************)
Lose(s) ==
  /\ Lossy
  /\ Incoming(s) # <<>>
  /\ wire' = [wire EXCEPT ![sock[s]][Peer(s)] = Tail(@)]
  /\ UNCHANGED <<isReconnecting, outVars, inVars, ackTimer, timerVars,
                 replayAsked, sock, writer, phase, historyVars>>

\* 10s have passed since the last ReplayRequest.
ReplayWindowElapses(s) ==
  /\ replayAsked[s]
  /\ replayAsked' = [replayAsked EXCEPT ![s] = FALSE]
  /\ UNCHANGED <<isReconnecting, outVars, inVars, ackTimer, timerVars, sock,
                 writer, wire, phase, historyVars>>

Receive(s) ==
  \/ ReceiveNext(s) \/ ReceiveAgain(s) \/ ReceiveGap(s)
  \/ ReceiveReplayRequest(s) \/ ReceivePause(s) \/ ReceiveResume(s)
  \/ ReceiveAck(s) \/ ReceiveControl(s)

Next ==
  \/ \E s \in Sides :
       \/ \E d \in Data : Send(s, d)
       \/ SendKeepAlive(s) \/ WriteNow(s)
       \/ AckTimeout(s) \/ UnackTimeout(s)
       \/ Receive(s) \/ Lose(s) \/ ReplayWindowElapses(s)
  \/ \E e \in Epochs :
       \/ Reconnect(e) \/ AcceptManagement(e)
       \/ AcceptExtensionHost(e) \/ AttachExtensionHost(e)

Spec == Init /\ [][Next]_vars

(***************************************************************************)
(* Fairness.  setTimeout callbacks do fire, and a socket that stays open   *)
(* delivers what was written to it.  Nothing is assumed of the user, of    *)
(* the network's connections, or of the reconnection attempts.             *)
(***************************************************************************)
Fairness ==
  \A s \in Sides :
    WF_vars(WriteNow(s)) /\ WF_vars(Receive(s)) /\ WF_vars(AckTimeout(s))

FairSpec == Spec /\ Fairness

(***************************************************************************)
(* Properties                                                              *)
(***************************************************************************)
TypeOK ==
  /\ isReconnecting \in [Sides -> BOOLEAN]
  /\ outgoingMsgId \in [Sides -> Nat] /\ outgoingAckId \in [Sides -> Nat]
  /\ unack \in [Sides -> Seq(Message)]
  /\ incomingMsgId \in [Sides -> Nat] /\ incomingAckId \in [Sides -> Nat]
  /\ ackTimer \in [Sides -> BOOLEAN] /\ unackTimer \in [Sides -> BOOLEAN]
  /\ timedOut \in [Sides -> BOOLEAN] /\ replayAsked \in [Sides -> BOOLEAN]
  /\ sock \in [Sides -> Epochs]
  /\ writer \in [Sides -> Writer]
  /\ wire \in [Epochs -> [Sides -> Seq(Message)]]
  /\ phase \in [Epochs -> Phases]
  /\ sent \in [Sides -> Seq(Data)] /\ received \in [Sides -> Seq(Data)]

Channel == INSTANCE FifoChannel
             WITH Senders <- Sides, delivered <- [s \in Sides |-> received[Peer(s)]]

\* What one end gives to onMessage is what the other handed to send(), in
\* order, nothing twice, nothing skipped, across any number of reconnections.
ChannelSpec == Channel!Spec

\* The queue of unacknowledged messages is exactly the ids above the last
\* acknowledgement: unacknowledgedCount counts it, and peek()! in
\* _recvAckCheck never finds it empty.
UnackWindow ==
  \A s \in Sides :
    /\ Len(unack[s]) + outgoingAckId[s] = outgoingMsgId[s]
    /\ \A i \in DOMAIN unack[s] : unack[s][i].id = outgoingAckId[s] + i

\* A message the other end has not accepted is still kept for resending.
NothingForgotten ==
  \A s \in Sides : \A id \in incomingMsgId[Peer(s)] + 1 .. outgoingMsgId[s] :
    \E i \in DOMAIN unack[s] :
      unack[s][i].id = id /\ unack[s][i].data = sent[s][id]

\* What an end has still to read from the socket it is on.
Stream(s) ==
  IF sock[Peer(s)] = sock[s] THEN Incoming(s) \o writer[Peer(s)].buf
  ELSE Incoming(s)

\* On a network that loses nothing, no message ever arrives before its
\* predecessor, whatever is lost with the sockets: a reconnection resends all
\* that is needed and ReplayRequest is never used.
GapFree ==
  ~Lossy =>
    \A s \in Sides : \A i \in DOMAIN Stream(s) :
      LET m == Stream(s)[i]
      IN  m.type = "Regular" =>
            \/ m.id <= incomingMsgId[s] + 1
            \/ \E j \in 1 .. i - 1 : /\ Stream(s)[j].type = "Regular"
                                    /\ Stream(s)[j].id >= m.id - 1

\* While a message is unacknowledged somebody watches: the timer of
\* _recvAckCheck is set, unless onSocketTimeout has already fired.
WatchdogArmed ==
  \A s \in Sides :
    unack[s] # <<>> /\ ~isReconnecting[s] => unackTimer[s] \/ timedOut[s]

Connected ==
  /\ sock[Client] = sock[Server]
  /\ phase[sock[Client]] = "attached"
  /\ ~isReconnecting[Client]

\* Once the connection stays up, everything sent so far arrives and is
\* acknowledged, even if the acknowledgements went to a lost socket.
EventuallyDelivered ==
  <>[]Connected =>
    \A s \in Sides : []<>(received[Peer(s)] = sent[s] /\ unack[s] = <<>>)
=============================================================================
