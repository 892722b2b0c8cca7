---------------------- MODULE PersistentProtocol_proofs ----------------------
(***************************************************************************)
(* Proofs about PersistentProtocol, for any Data, any bounds, a lossy or a *)
(* reliable network, with and without the hand-off.                        *)
(***************************************************************************)
EXTENDS PersistentProtocol, SequenceTheorems, TLAPS

(***************************************************************************)
(* The inductive invariant.                                                *)
(***************************************************************************)
\* Faithful[s] is what end s may have written: it acknowledges no more than s
\* says it has, and a regular message carries what was sent under its number.
Faithful ==
  [s \in Sides |->
     {m \in Message :
        /\ m.ack <= incomingAckId[s]
        /\ m.type = "Regular" => /\ m.id \in 1 .. outgoingMsgId[s]
                                 /\ m.data = sent[s][m.id]}]

\* Nothing else is kept, buffered or under way, on any socket.
AllFaithful ==
  \A s \in Sides :
    /\ unack[s] \in Seq(Faithful[s])
    /\ writer[s].buf \in Seq(Faithful[s])
    /\ \A e \in Epochs : wire[e][s] \in Seq(Faithful[s])

\* The counters of the two ends: nobody acknowledges what was not accepted,
\* accepts what was not sent, or has got an acknowledgement nobody gave.
Counters ==
  \A s \in Sides :
    /\ Len(sent[s]) = outgoingMsgId[s]
    /\ Len(received[s]) = incomingMsgId[s]
    /\ incomingAckId[s] <= incomingMsgId[s]
    /\ incomingMsgId[s] <= outgoingMsgId[Peer(s)]
    /\ outgoingAckId[s] <= incomingAckId[Peer(s)]

\* The queue holds the regular messages above the last acknowledgement.
Window ==
  \A s \in Sides :
    /\ Len(unack[s]) + outgoingAckId[s] = outgoingMsgId[s]
    /\ \A i \in 1 .. Len(unack[s]) :
         unack[s][i].id = outgoingAckId[s] + i /\ unack[s][i].type = "Regular"

\* What was accepted is a prefix of what the other end sent.
Prefix ==
  \A s \in Sides : \A i \in 1 .. incomingMsgId[s] :
    received[s][i] = sent[Peer(s)][i]

IInv == TypeOK /\ AllFaithful /\ Counters /\ Window /\ Prefix

(***************************************************************************)
(* Facts about sides, writers and wires.                                   *)
(***************************************************************************)
LEMMA PeerFacts ==
  \A s \in Sides : Peer(s) \in Sides /\ Peer(s) # s /\ Peer(Peer(s)) = s
BY DEF Sides, Peer, Client, Server

LEMMA SignalType ==
  \A type \in Types, ack \in Nat : Signal(type, ack) \in Message
BY DEF Signal, Message

LEMMA OneMessage ==
  ASSUME NEW G, NEW m \in G
  PROVE  <<m>> \in Seq(G)
OBVIOUS

LEMMA WriteType ==
  ASSUME NEW G \in SUBSET Message, NEW w \in Writer, w.buf \in Seq(G),
         NEW msgs \in Seq(G)
  PROVE  Write(w, msgs) \in Writer /\ Write(w, msgs).buf \in Seq(G)
<1>1. w.buf \o msgs \in Seq(G)
  BY ConcatProperties
<1>2. w.buf \o msgs \in Seq(Message)
  BY <1>1, SeqMonotonic
<1> QED BY <1>1, <1>2 DEF Write, Writer

\* Wires whose every message is taken from F.
WiresOf(F) ==
  {w \in [Epochs -> [Sides -> Seq(Message)]] :
     \A e \in Epochs : \A s \in Sides : w[e][s] \in Seq(F[s])}

LEMMA PutType ==
  ASSUME NEW F \in [Sides -> SUBSET Message], NEW w \in WiresOf(F),
         NEW e \in Epochs, NEW s \in Sides, NEW msgs \in Seq(F[s])
  PROVE  Put(w, e, s, msgs) \in WiresOf(F)
<1>1. w[e][s] \o msgs \in Seq(F[s])
  BY ConcatProperties DEF WiresOf
<1>2. w[e][s] \o msgs \in Seq(Message)
  BY <1>1, SeqMonotonic
<1> QED BY <1>1, <1>2 DEF Put, WiresOf

LEMMA CutType ==
  ASSUME NEW F \in [Sides -> SUBSET Message], NEW w \in WiresOf(F),
         NEW e \in Epochs, NEW s \in Sides, NEW q \in Seq(F[s])
  PROVE  [w EXCEPT ![e][s] = q] \in WiresOf(F)
<1>1. q \in Seq(Message)
  BY SeqMonotonic
<1> QED BY <1>1 DEF WiresOf

LEMMA SuffixType ==
  ASSUME NEW G, NEW q \in Seq(G), NEW k \in Nat
  PROVE  SubSeq(q, k + 1, Len(q)) \in Seq(G)
<1>1. \A i \in k + 1 .. Len(q) : q[i] \in G
  OBVIOUS
<1> QED BY <1>1, SubSeqProperties, LenProperties

LEMMA FlushType ==
  ASSUME NEW G \in SUBSET Message, NEW w \in Writer, w.buf \in Seq(G)
  PROVE  /\ Flushed(w) \in Seq(G)
         /\ AfterFlush(w) \in Writer
         /\ AfterFlush(w).buf \in Seq(G)
<1>1. <<>> \in Seq(G) /\ <<>> \in Seq(Message)
  OBVIOUS
<1>2. [w EXCEPT !.buf = <<>>] \in Writer /\ [w EXCEPT !.buf = <<>>].buf = <<>>
  BY <1>1 DEF Writer
<1> QED BY <1>1, <1>2 DEF Flushed, AfterFlush

LEMMA LeaveType ==
  ASSUME TypeOK, NEW F \in [Sides -> SUBSET Message], NEW w \in WiresOf(F),
         NEW s \in Sides, writer[s].buf \in Seq(F[s])
  PROVE  LeaveSocket(w, s) \in WiresOf(F)
<1>1. Flushed(writer[s]) \in Seq(F[s])
  BY FlushType DEF TypeOK
<1>2. sock[s] \in Epochs /\ Peer(s) \in Sides
  BY PeerFacts DEF TypeOK
<1>3. Put(w, sock[s], s, Flushed(writer[s])) \in WiresOf(F)
  BY <1>1, <1>2, PutType
<1>4. <<>> \in Seq(F[Peer(s)])
  OBVIOUS
<1> QED BY <1>2, <1>3, <1>4, CutType DEF LeaveSocket

\* Faithful as a type, and what the invariant says with it.
LEMMA FaithfulType ==
  ASSUME TypeOK
  PROVE  Faithful \in [Sides -> SUBSET Message]
BY DEF Faithful

LEMMA AllFaithfulMeans ==
  ASSUME TypeOK
  PROVE  AllFaithful <=> /\ \A s \in Sides : /\ unack[s] \in Seq(Faithful[s])
                                             /\ writer[s].buf \in Seq(Faithful[s])
                         /\ wire \in WiresOf(Faithful)
BY DEF AllFaithful, WiresOf, TypeOK

\* A step that only adds to what was sent and acknowledged keeps messages faithful.
LEMMA FaithfulGrows ==
  ASSUME TypeOK, incomingAckId' \in [Sides -> Nat], Counters,
         NEW s \in Sides,
         incomingAckId[s] <= incomingAckId'[s],
         \/ /\ sent'[s] = sent[s] /\ outgoingMsgId'[s] = outgoingMsgId[s]
         \/ \E d \in Data : /\ sent'[s] = Append(sent[s], d)
                            /\ outgoingMsgId'[s] = outgoingMsgId[s] + 1
  PROVE  /\ Faithful[s] \subseteq Faithful'[s]
         /\ Seq(Faithful[s]) \subseteq Seq(Faithful'[s])
<1>1. \A i \in 1 .. outgoingMsgId[s] :
        i \in 1 .. outgoingMsgId'[s] /\ sent'[s][i] = sent[s][i]
  <2>1. CASE sent'[s] = sent[s] /\ outgoingMsgId'[s] = outgoingMsgId[s]
    BY <2>1
  <2>2. CASE \E d \in Data : /\ sent'[s] = Append(sent[s], d)
                              /\ outgoingMsgId'[s] = outgoingMsgId[s] + 1
    <3>1. PICK d \in Data : /\ sent'[s] = Append(sent[s], d)
                            /\ outgoingMsgId'[s] = outgoingMsgId[s] + 1
      BY <2>2
    <3>2. outgoingMsgId[s] \in Nat /\ sent[s] \in Seq(Data)
          /\ Len(sent[s]) = outgoingMsgId[s]
      BY DEF TypeOK, Counters
    <3> QED BY <3>1, <3>2, AppendProperties
  <2> QED BY <2>1, <2>2
<1>2. \A m \in Message : m.ack <= incomingAckId[s] => m.ack <= incomingAckId'[s]
  BY DEF TypeOK, Message
<1>3. Faithful[s] \subseteq Faithful'[s]
  BY <1>1, <1>2 DEF Faithful
<1> QED BY <1>3, SeqMonotonic

LEMMA WiresGrow ==
  ASSUME NEW F \in [Sides -> SUBSET Message], NEW G \in [Sides -> SUBSET Message],
         \A s \in Sides : F[s] \subseteq G[s]
  PROVE  WiresOf(F) \subseteq WiresOf(G)
<1>1. \A s \in Sides : Seq(F[s]) \subseteq Seq(G[s])
  BY SeqMonotonic
<1> QED BY <1>1 DEF WiresOf

\* How AllFaithful is carried over a step: writers, wires and queues of the new
\* state hold what was faithful before or is now.
LEMMA AllFaithfulStep ==
  ASSUME TypeOK', \A s \in Sides : unack'[s] \in Seq(Faithful'[s]),
         \A s \in Sides : writer'[s].buf \in Seq(Faithful'[s]),
         wire' \in WiresOf(Faithful')
  PROVE  AllFaithful'
BY DEF AllFaithful, WiresOf

(***************************************************************************)
(* Acknowledgements.                                                       *)
(***************************************************************************)
\* On a queue of consecutive ids the pop() loop removes exactly the messages
\* up to the acknowledged one.
LEMMA AckedPrefixOfWindow ==
  ASSUME NEW q \in Seq(Message), NEW base \in Nat, NEW ack \in Nat,
         base < ack, ack <= base + Len(q),
         \A i \in 1 .. Len(q) : q[i].id = base + i
  PROVE  AckedPrefix(q, ack) = ack - base
<1> DEFINE P(k) == /\ \A i \in 1 .. k : q[i].id <= ack
                   /\ k < Len(q) => ack < q[k + 1].id
<1>1. Len(q) \in Nat
  BY LenProperties
<1>2. ack - base \in 0 .. Len(q) /\ P(ack - base)
  <2>1. PICK n \in 1 .. Len(q) : n = ack - base
    BY <1>1
  <2>2. \A i \in 1 .. n : i \in 1 .. Len(q) /\ q[i].id = base + i
    BY <1>1, <2>1
  <2>3. n < Len(q) => n + 1 \in 1 .. Len(q) /\ q[n + 1].id = base + (n + 1)
    BY <1>1, <2>1
  <2>4. P(n)
    BY <1>1, <2>1, <2>2, <2>3
  <2> QED BY <1>1, <2>1, <2>4
<1>3. \A k \in 0 .. Len(q) : P(k) => k = ack - base
  <2> SUFFICES ASSUME NEW k \in 0 .. Len(q), P(k) PROVE k = ack - base
    OBVIOUS
  <2>1. CASE k < ack - base
    BY <1>1, <2>1
  <2>2. CASE k > ack - base
    <3>1. k \in 1 .. k /\ k \in 1 .. Len(q)
      BY <1>1, <2>2
    <3>2. q[k].id <= ack /\ q[k].id = base + k
      BY <3>1
    <3> QED BY <2>2, <3>2
  <2> QED BY <1>1, <2>1, <2>2
<1>4. AckedPrefix(q, ack) = CHOOSE k \in 0 .. Len(q) : P(k)
  BY DEF AckedPrefix
<1> HIDE DEF P
<1> QED BY <1>2, <1>3, <1>4

LEMMA DropAckedOfWindow ==
  ASSUME NEW G \in SUBSET Message, NEW q \in Seq(G), NEW base \in Nat,
         NEW ack \in Nat, base < ack, ack <= base + Len(q),
         \A i \in 1 .. Len(q) : q[i].id = base + i
  PROVE  /\ DropAcked(q, ack) \in Seq(G)
         /\ Len(DropAcked(q, ack)) + ack = base + Len(q)
         /\ \A i \in 1 .. Len(DropAcked(q, ack)) :
              DropAcked(q, ack)[i] = q[i + (ack - base)]
<1> DEFINE k == ack - base
<1>1. q \in Seq(Message)
  BY SeqMonotonic
<1>2. AckedPrefix(q, ack) = k
  BY <1>1, AckedPrefixOfWindow
<1>3. Len(q) \in Nat /\ k \in 1 .. Len(q)
  BY LenProperties
<1>4. \A i \in k + 1 .. Len(q) : q[i] \in G
  BY <1>3
<1>5. /\ SubSeq(q, k + 1, Len(q)) \in Seq(G)
      /\ Len(SubSeq(q, k + 1, Len(q)))
           = IF k + 1 <= Len(q) THEN Len(q) - (k + 1) + 1 ELSE 0
      /\ \A i \in 1 .. Len(q) - (k + 1) + 1 :
           SubSeq(q, k + 1, Len(q))[i] = q[(k + 1) + i - 1]
  BY <1>3, <1>4, SubSeqProperties
<1> QED BY <1>2, <1>3, <1>5 DEF DropAcked

\* The queues of the new state are faithful windows above what was
\* acknowledged, and nothing unaccepted was.
QueuesKept ==
  /\ outgoingAckId' \in [Sides -> Nat]
  /\ unack' \in [Sides -> Seq(Message)]
  /\ \A r \in Sides :
       /\ unack'[r] \in Seq(Faithful[r])
       /\ outgoingAckId'[r] <= incomingAckId[Peer(r)]
       /\ Len(unack'[r]) + outgoingAckId'[r] = outgoingMsgId[r]
       /\ \A i \in 1 .. Len(unack'[r]) :
            /\ unack'[r][i].id = outgoingAckId'[r] + i
            /\ unack'[r][i].type = "Regular"

LEMMA QueuesUnchanged ==
  ASSUME IInv, UNCHANGED <<outgoingAckId, unack>>
  PROVE  QueuesKept
BY DEF QueuesKept, IInv, TypeOK, AllFaithful, Counters, Window

\* Whatever the other end acknowledges, the queue stays the window.
LEMMA AcceptAckStep ==
  ASSUME IInv, NEW s \in Sides, NEW ack \in Nat, ack <= incomingAckId[Peer(s)],
         AcceptAck(s, ack)
  PROVE  QueuesKept
<1> USE DEF IInv, QueuesKept
<1>1. CASE ack > outgoingAckId[s]
  <2> DEFINE q == unack[s]  base == outgoingAckId[s]
  <2>1. /\ Faithful[s] \in SUBSET Message /\ q \in Seq(Faithful[s])
        /\ base \in Nat /\ base < ack
        /\ \A i \in 1 .. Len(q) : q[i].id = base + i /\ q[i].type = "Regular"
    BY <1>1, FaithfulType DEF AllFaithful, TypeOK, Window
  <2>2. ack <= base + Len(q)
    <3>1. Peer(s) \in Sides /\ Peer(Peer(s)) = s
      BY PeerFacts
    <3>2. ack <= outgoingMsgId[s]
      BY <3>1 DEF TypeOK, Counters
    <3> QED BY <2>1, <3>2, LenProperties DEF Window, TypeOK
  <2>3. /\ DropAcked(q, ack) \in Seq(Faithful[s])
        /\ Len(DropAcked(q, ack)) + ack = base + Len(q)
        /\ \A i \in 1 .. Len(DropAcked(q, ack)) :
             DropAcked(q, ack)[i] = q[i + (ack - base)]
    BY <2>1, <2>2, DropAckedOfWindow
  <2>4. /\ outgoingAckId' = [outgoingAckId EXCEPT ![s] = ack]
        /\ unack' = [unack EXCEPT ![s] = DropAcked(q, ack)]
    BY <1>1 DEF AcceptAck
  <2>5. DropAcked(q, ack) \in Seq(Message)
    BY <2>1, <2>3, SeqMonotonic
  <2>6. outgoingAckId' \in [Sides -> Nat] /\ unack' \in [Sides -> Seq(Message)]
    BY <2>4, <2>5 DEF TypeOK
  <2>7. ASSUME NEW r \in Sides
        PROVE  /\ unack'[r] \in Seq(Faithful[r])
               /\ outgoingAckId'[r] <= incomingAckId[Peer(r)]
               /\ Len(unack'[r]) + outgoingAckId'[r] = outgoingMsgId[r]
               /\ \A i \in 1 .. Len(unack'[r]) :
                    /\ unack'[r][i].id = outgoingAckId'[r] + i
                    /\ unack'[r][i].type = "Regular"
    <3>1. CASE r # s
      BY <2>4, <3>1 DEF AllFaithful, Counters, Window, TypeOK
    <3>2. CASE r = s
      <4>1. unack'[s] = DropAcked(q, ack) /\ outgoingAckId'[s] = ack
        BY <2>4 DEF TypeOK
      <4>2. Len(DropAcked(q, ack)) \in Nat /\ Len(q) \in Nat
        BY <2>1, <2>3, LenProperties
      <4>3. Len(DropAcked(q, ack)) + ack = outgoingMsgId[s]
        BY <2>3 DEF Window, TypeOK
      <4>4. ASSUME NEW i \in 1 .. Len(DropAcked(q, ack))
            PROVE  /\ DropAcked(q, ack)[i].id = ack + i
                   /\ DropAcked(q, ack)[i].type = "Regular"
        <5>1. PICK j \in 1 .. Len(q) : j = i + (ack - base)
          BY <2>1, <2>3, <4>2
        <5>2. DropAcked(q, ack)[i] = q[j]
          BY <2>3, <5>1
        <5>3. q[j].id = base + j /\ q[j].type = "Regular"
          BY <2>1, <5>1
        <5> HIDE DEF q
        <5> QED BY <2>1, <5>1, <5>2, <5>3
      <4> HIDE DEF q, base
      <4> QED BY <2>3, <3>2, <4>1, <4>3, <4>4
    <3> QED BY <3>1, <3>2
  <2> QED BY <2>6, <2>7
<1>2. CASE ~(ack > outgoingAckId[s])
  BY <1>2, QueuesUnchanged DEF AcceptAck
<1> QED BY <1>1, <1>2

(***************************************************************************)
(* Steps that send nothing new and accept nothing new.                     *)
(***************************************************************************)
LEMMA QuietStep ==
  ASSUME IInv, TypeOK', QueuesKept,
         UNCHANGED <<outgoingMsgId, sent, incomingMsgId, received>>,
         \A s \in Sides : incomingAckId[s] <= incomingAckId'[s],
         \A s \in Sides : incomingAckId'[s] <= incomingMsgId[s],
         \A s \in Sides : writer'[s].buf \in Seq(Faithful'[s]),
         wire' \in WiresOf(Faithful')
  PROVE  IInv'
<1> USE DEF IInv
<1>1. \A s \in Sides : Seq(Faithful[s]) \subseteq Seq(Faithful'[s])
  BY FaithfulGrows DEF TypeOK
<1>2. \A s \in Sides : unack'[s] \in Seq(Faithful'[s])
  BY <1>1 DEF QueuesKept
<1>3. AllFaithful'
  BY <1>2, AllFaithfulStep
<1>4. Counters'
  <2> SUFFICES ASSUME NEW s \in Sides
               PROVE  /\ Len(sent[s]) = outgoingMsgId[s]
                      /\ Len(received[s]) = incomingMsgId[s]
                      /\ incomingAckId'[s] <= incomingMsgId[s]
                      /\ incomingMsgId[s] <= outgoingMsgId[Peer(s)]
                      /\ outgoingAckId'[s] <= incomingAckId'[Peer(s)]
    BY DEF Counters
  <2>1. Peer(s) \in Sides
    BY PeerFacts
  <2>2. /\ outgoingAckId'[s] \in Nat
        /\ incomingAckId[Peer(s)] \in Nat
        /\ incomingAckId'[Peer(s)] \in Nat
    BY <2>1 DEF TypeOK
  <2>3. outgoingAckId'[s] <= incomingAckId'[Peer(s)]
    BY <2>1, <2>2 DEF QueuesKept
  <2> QED BY <2>3 DEF Counters
<1>5. Window'
  BY DEF Window, QueuesKept
<1>6. Prefix'
  BY DEF Prefix
<1> QED BY <1>3, <1>4, <1>5, <1>6

\* When the acknowledgements given do not change either, faithful stays faithful.
LEMMA SilentStep ==
  ASSUME IInv, TypeOK', QueuesKept,
         UNCHANGED <<outgoingMsgId, sent, incomingMsgId, incomingAckId, received>>,
         \A s \in Sides : writer'[s].buf \in Seq(Faithful[s]),
         wire' \in WiresOf(Faithful)
  PROVE  IInv'
<1>1. Faithful' = Faithful
  BY DEF Faithful
<1>2. \A s \in Sides : /\ incomingAckId[s] <= incomingAckId'[s]
                       /\ incomingAckId'[s] <= incomingMsgId[s]
  BY DEF IInv, TypeOK, Counters
<1> QED BY <1>1, <1>2, QuietStep

LEMMA WiresAreFaithful == IInv => wire \in WiresOf(Faithful)
BY AllFaithfulMeans DEF IInv

\* Writing a signal that acknowledges what end s says it has acknowledged.
LEMMA SignalFaithful ==
  ASSUME NEW s \in Sides, NEW type \in Types \ {"Regular"},
         NEW ack \in Nat, ack <= incomingAckId[s]
  PROVE  <<Signal(type, ack)>> \in Seq(Faithful[s])
<1>1. Signal(type, ack) \in Message
  BY SignalType
<1>2. Signal(type, ack) \in Faithful[s]
  BY <1>1 DEF Faithful, Signal
<1> QED BY <1>2, OneMessage

LEMMA StepUnackTimeout ==
  ASSUME IInv, NEW s \in Sides, UnackTimeout(s)
  PROVE  IInv'
<1>1. TypeOK'
  BY DEF IInv, TypeOK, UnackTimeout, outVars, inVars, historyVars
<1> QED BY <1>1, QueuesUnchanged, SilentStep, WiresAreFaithful
        DEF UnackTimeout, outVars, inVars, historyVars, IInv, AllFaithful

LEMMA StepReplayWindowElapses ==
  ASSUME IInv, NEW s \in Sides, ReplayWindowElapses(s)
  PROVE  IInv'
<1>1. TypeOK'
  BY DEF IInv, TypeOK, ReplayWindowElapses, outVars, inVars, timerVars, historyVars
<1> QED BY <1>1, QueuesUnchanged, SilentStep, WiresAreFaithful
        DEF ReplayWindowElapses, outVars, inVars, historyVars, IInv, AllFaithful

LEMMA StepWriteNow ==
  ASSUME IInv, NEW s \in Sides, WriteNow(s)
  PROVE  IInv'
<1> USE DEF IInv
<1>1. /\ Flushed(writer[s]) \in Seq(Faithful[s])
      /\ AfterFlush(writer[s]) \in Writer
      /\ AfterFlush(writer[s]).buf \in Seq(Faithful[s])
  BY FlushType, FaithfulType DEF TypeOK, AllFaithful
<1>2. wire' \in WiresOf(Faithful)
  BY <1>1, PutType, FaithfulType, WiresAreFaithful DEF WriteNow, TypeOK
<1>3. /\ [AfterFlush(writer[s]) EXCEPT !.timer = FALSE] \in Writer
      /\ [AfterFlush(writer[s]) EXCEPT !.timer = FALSE].buf \in Seq(Faithful[s])
  BY <1>1 DEF Writer
<1>4. writer' \in [Sides -> Writer]
  BY <1>3 DEF WriteNow, TypeOK
<1>5. \A r \in Sides : writer'[r].buf \in Seq(Faithful[r])
  BY <1>3 DEF WriteNow, TypeOK, AllFaithful
<1>6. TypeOK'
  BY <1>2, <1>4 DEF TypeOK, WriteNow, WiresOf, outVars, inVars, timerVars, historyVars
<1> QED BY <1>2, <1>5, <1>6, QueuesUnchanged, SilentStep
        DEF WriteNow, outVars, inVars, historyVars

LEMMA StepLose ==
  ASSUME IInv, NEW s \in Sides, Lose(s)
  PROVE  IInv'
<1> USE DEF IInv
<1>1. sock[s] \in Epochs /\ Peer(s) \in Sides
  BY PeerFacts DEF TypeOK
<1>2. Tail(Incoming(s)) \in Seq(Faithful[Peer(s)])
  BY <1>1, HeadTailProperties DEF Lose, Incoming, AllFaithful
<1>3. wire' = [wire EXCEPT ![sock[s]][Peer(s)] = Tail(Incoming(s))]
  BY <1>1 DEF Lose, Incoming, TypeOK
<1>4. wire' \in WiresOf(Faithful)
  BY <1>1, <1>2, <1>3, CutType, FaithfulType, WiresAreFaithful
<1>5. TypeOK'
  BY <1>4 DEF TypeOK, Lose, WiresOf, outVars, inVars, timerVars, historyVars
<1> QED BY <1>4, <1>5, QueuesUnchanged, SilentStep
        DEF Lose, outVars, inVars, historyVars, AllFaithful

(***************************************************************************)
(* Steps that bring the acknowledgement given up to date.                  *)
(***************************************************************************)
LEMMA AckGiven ==
  ASSUME IInv, NEW s \in Sides, UNCHANGED <<outgoingMsgId, sent>>,
         incomingAckId' = [incomingAckId EXCEPT ![s] = incomingMsgId[s]]
  PROVE  /\ incomingAckId' \in [Sides -> Nat]
         /\ \A r \in Sides : /\ incomingAckId[r] <= incomingAckId'[r]
                             /\ incomingAckId'[r] <= incomingMsgId[r]
         /\ \A r \in Sides : Seq(Faithful[r]) \subseteq Seq(Faithful'[r])
         /\ Faithful' \in [Sides -> SUBSET Message]
         /\ wire \in WiresOf(Faithful')
         /\ \A type \in Types \ {"Regular"} :
              <<Signal(type, incomingMsgId[s])>> \in Seq(Faithful'[s])
<1> USE DEF IInv
<1>1. incomingAckId' \in [Sides -> Nat]
  BY DEF TypeOK
<1>2. \A r \in Sides : /\ incomingAckId[r] <= incomingAckId'[r]
                       /\ incomingAckId'[r] <= incomingMsgId[r]
  BY DEF TypeOK, Counters
<1>3. \A r \in Sides : /\ Faithful[r] \subseteq Faithful'[r]
                       /\ Seq(Faithful[r]) \subseteq Seq(Faithful'[r])
  BY <1>1, <1>2, FaithfulGrows
<1>4. Faithful' \in [Sides -> SUBSET Message]
  BY DEF Faithful
<1>5. wire \in WiresOf(Faithful')
  BY <1>3, <1>4, WiresGrow, FaithfulType, WiresAreFaithful
<1>6. ASSUME NEW type \in Types \ {"Regular"}
      PROVE  <<Signal(type, incomingMsgId[s])>> \in Seq(Faithful'[s])
  <2>1. incomingMsgId[s] \in Nat /\ incomingAckId'[s] = incomingMsgId[s]
    BY DEF TypeOK
  <2>2. Signal(type, incomingMsgId[s]) \in Message
    BY <2>1, SignalType
  <2>3. Signal(type, incomingMsgId[s]) \in Faithful'[s]
    BY <2>1, <2>2 DEF Faithful, Signal
  <2> QED BY <2>3, OneMessage
<1> QED BY <1>1, <1>2, <1>3, <1>4, <1>5, <1>6

\* One end writes faithful messages, the other's writer stays.
LEMMA WritersStep ==
  ASSUME IInv, NEW s \in Sides, NEW F \in [Sides -> SUBSET Message],
         \A r \in Sides : Seq(Faithful[r]) \subseteq Seq(F[r]),
         NEW msgs \in Seq(F[s]),
         writer' = [writer EXCEPT ![s] = Write(@, msgs)]
  PROVE  /\ writer' \in [Sides -> Writer]
         /\ \A r \in Sides : writer'[r].buf \in Seq(F[r])
<1> USE DEF IInv
<1>1. \A r \in Sides : writer[r] \in Writer /\ writer[r].buf \in Seq(F[r])
  BY DEF TypeOK, AllFaithful
<1>2. Write(writer[s], msgs) \in Writer /\ Write(writer[s], msgs).buf \in Seq(F[s])
  BY <1>1, WriteType
<1> QED BY <1>1, <1>2 DEF TypeOK

\* A message with the acknowledgement end s now gives is written.
LEMMA AckWritten ==
  ASSUME IInv, NEW s \in Sides, UNCHANGED <<outgoingMsgId, sent>>,
         incomingAckId' = [incomingAckId EXCEPT ![s] = incomingMsgId[s]],
         NEW msgs \in Seq(Faithful'[s]),
         writer' = [writer EXCEPT ![s] = Write(@, msgs)]
  PROVE  /\ writer' \in [Sides -> Writer]
         /\ \A r \in Sides : writer'[r].buf \in Seq(Faithful'[r])
<1> DEFINE F == Faithful'
<1>1. F \in [Sides -> SUBSET Message] /\ \A r \in Sides : Seq(Faithful[r]) \subseteq Seq(F[r])
  BY AckGiven
<1>2. msgs \in Seq(F[s])
  OBVIOUS
<1>3. writer' \in [Sides -> Writer] /\ \A r \in Sides : writer'[r].buf \in Seq(F[r])
  <2> HIDE DEF F
  <2> QED BY <1>1, <1>2, WritersStep
<1> QED BY <1>3

LEMMA StepSendKeepAlive ==
  ASSUME IInv, NEW s \in Sides, SendKeepAlive(s)
  PROVE  IInv'
<1> USE DEF IInv
<1> DEFINE msgs == <<Signal("KeepAlive", incomingMsgId[s])>>
<1>1. /\ UNCHANGED <<outgoingMsgId, sent>>
      /\ incomingAckId' = [incomingAckId EXCEPT ![s] = incomingMsgId[s]]
      /\ writer' = [writer EXCEPT ![s] = Write(@, msgs)]
      /\ UNCHANGED <<outgoingAckId, unack, incomingMsgId, received, wire>>
  BY DEF SendKeepAlive, outVars, historyVars
<1>2. msgs \in Seq(Faithful'[s])
  BY <1>1, AckGiven DEF Types
<1>3. /\ writer' \in [Sides -> Writer]
      /\ \A r \in Sides : writer'[r].buf \in Seq(Faithful'[r])
  BY <1>1, <1>2, AckWritten
<1>4. TypeOK'
  BY <1>1, <1>3, AckGiven DEF TypeOK, SendKeepAlive, outVars, historyVars
<1> QED BY <1>1, <1>3, <1>4, AckGiven, QueuesUnchanged, QuietStep

LEMMA StepAckTimeout ==
  ASSUME IInv, NEW s \in Sides, AckTimeout(s)
  PROVE  IInv'
<1> USE DEF IInv
<1> DEFINE msgs == <<Signal("Ack", incomingMsgId[s])>>
<1>1. UNCHANGED <<outgoingMsgId, sent, outgoingAckId, unack, incomingMsgId, received,
                  wire>>
  BY DEF AckTimeout, outVars, historyVars
<1>2. CASE UNCHANGED <<incomingAckId, writer>>
  <2>1. TypeOK'
    BY <1>1, <1>2 DEF TypeOK, AckTimeout, timerVars
  <2> QED BY <1>1, <1>2, <2>1, QueuesUnchanged, SilentStep, WiresAreFaithful
          DEF AllFaithful
<1>3. CASE /\ incomingAckId' = [incomingAckId EXCEPT ![s] = incomingMsgId[s]]
           /\ writer' = [writer EXCEPT ![s] = Write(@, msgs)]
  <2>1. msgs \in Seq(Faithful'[s])
    BY <1>1, <1>3, AckGiven DEF Types
  <2>2. /\ writer' \in [Sides -> Writer]
        /\ \A r \in Sides : writer'[r].buf \in Seq(Faithful'[r])
    BY <1>1, <1>3, <2>1, AckWritten
  <2>3. TypeOK'
    BY <1>1, <1>3, <2>2, AckGiven DEF TypeOK, AckTimeout, timerVars
  <2> QED BY <1>1, <1>3, <2>2, <2>3, AckGiven, QueuesUnchanged, QuietStep
<1> QED BY <1>2, <1>3 DEF AckTimeout, SendAck

(***************************************************************************)
(* Receiving.                                                              *)
(***************************************************************************)
LEMMA TakeStep ==
  ASSUME IInv, NEW s \in Sides, NEW type \in Types, Take(s, type)
  PROVE  /\ Head(Incoming(s)) \in Faithful[Peer(s)]
         /\ Head(Incoming(s)).type = type
         /\ QueuesKept
         /\ wire' \in WiresOf(Faithful)
         /\ UNCHANGED <<outgoingMsgId, sock, phase, sent>>
<1> USE DEF IInv
<1>1. sock[s] \in Epochs /\ Peer(s) \in Sides
  BY PeerFacts DEF TypeOK
<1>2. /\ Incoming(s) \in Seq(Faithful[Peer(s)])
      /\ Incoming(s) # <<>>
  BY <1>1 DEF Take, Incoming, AllFaithful
<1>3. /\ Head(Incoming(s)) \in Faithful[Peer(s)]
      /\ Tail(Incoming(s)) \in Seq(Faithful[Peer(s)])
  BY <1>2, HeadTailProperties
<1>4. wire' = [wire EXCEPT ![sock[s]][Peer(s)] = Tail(Incoming(s))]
  BY <1>1 DEF Take, Incoming, TypeOK
<1>5. wire' \in WiresOf(Faithful)
  BY <1>1, <1>3, <1>4, CutType, FaithfulType, WiresAreFaithful
<1>6. /\ Head(Incoming(s)).ack \in Nat
      /\ Head(Incoming(s)).ack <= incomingAckId[Peer(s)]
  BY <1>1, <1>3 DEF Faithful, Message
<1>7. QueuesKept
  BY <1>6, AcceptAckStep DEF Take
<1> QED BY <1>3, <1>5, <1>7 DEF Take

\* Receiving what leaves the writer alone and is not new.
LEMMA StepReceiveSilently ==
  ASSUME IInv, NEW s \in Sides, ReceiveAgain(s) \/ ReceiveAck(s)
  PROVE  IInv'
<1>1. PICK type \in Types : Take(s, type)
  BY DEF ReceiveAgain, ReceiveAck, Types
<1>2. UNCHANGED <<isReconnecting, inVars, ackTimer, timerVars, replayAsked,
                  writer, received>>
  BY DEF ReceiveAgain, ReceiveAck
<1>3. TypeOK'
  BY <1>1, <1>2, TakeStep
  DEF IInv, TypeOK, inVars, timerVars, WiresOf, QueuesKept
<1> QED BY <1>1, <1>2, <1>3, TakeStep, SilentStep DEF IInv, AllFaithful, inVars

LEMMA StepReceivePauseResume ==
  ASSUME IInv, NEW s \in Sides, ReceivePause(s) \/ ReceiveResume(s)
  PROVE  IInv'
<1> USE DEF IInv
<1>1. PICK type \in Types : Take(s, type)
  BY DEF ReceivePause, ReceiveResume, Types
<1>2. UNCHANGED <<isReconnecting, inVars, ackTimer, timerVars, replayAsked,
                  received>>
  BY DEF ReceivePause, ReceiveResume
<1>3. /\ writer' \in [Sides -> Writer]
      /\ \A r \in Sides : writer'[r].buf = writer[r].buf
  <2>1. /\ PauseWriter(writer[s]) \in Writer
        /\ PauseWriter(writer[s]).buf = writer[s].buf
        /\ ResumeWriter(writer[s]) \in Writer
        /\ ResumeWriter(writer[s]).buf = writer[s].buf
    <3> DEFINE w == writer[s]
    <3>1. w \in Writer
      BY DEF TypeOK
    <3> HIDE DEF w
    <3>2. PauseWriter(w) \in Writer /\ PauseWriter(w).buf = w.buf
      BY <3>1 DEF PauseWriter, Writer
    <3>3. ResumeWriter(w) \in Writer /\ ResumeWriter(w).buf = w.buf
      BY <3>1 DEF ResumeWriter, Writer
    <3> QED BY <3>2, <3>3 DEF w
  <2>2. PICK w \in Writer : w.buf = writer[s].buf /\ writer' = [writer EXCEPT ![s] = w]
    BY <2>1 DEF ReceivePause, ReceiveResume
  <2> QED BY <2>2 DEF TypeOK
<1>4. TypeOK'
  BY <1>1, <1>2, <1>3, TakeStep DEF TypeOK, inVars, timerVars, WiresOf, QueuesKept
<1> QED BY <1>1, <1>2, <1>3, <1>4, TakeStep, SilentStep DEF AllFaithful, inVars

\* Receiving what makes end s write msgs, giving no new acknowledgement.
LEMMA StepReceiveGap ==
  ASSUME IInv, NEW s \in Sides, ReceiveGap(s)
  PROVE  IInv'
<1> USE DEF IInv
<1> DEFINE msgs == <<Signal("ReplayRequest", 0)>>
<1>1. Take(s, "Regular") /\ "Regular" \in Types
  BY DEF ReceiveGap, Types
<1>2. UNCHANGED <<isReconnecting, inVars, ackTimer, timerVars, received>>
  BY DEF ReceiveGap
<1>3. msgs \in Seq(Faithful[s])
  <2>1. 0 <= incomingAckId[s]
    BY DEF TypeOK
  <2> QED BY <2>1, SignalFaithful DEF Types
<1>4. /\ writer' \in [Sides -> Writer]
      /\ \A r \in Sides : writer'[r].buf \in Seq(Faithful[r])
  <2>1. CASE writer' = writer
    BY <2>1 DEF TypeOK, AllFaithful
  <2>2. CASE writer' = [writer EXCEPT ![s] = Write(@, msgs)]
    BY <1>3, <2>2, WritersStep, FaithfulType
  <2> QED BY <2>1, <2>2 DEF ReceiveGap
<1>5. replayAsked' \in [Sides -> BOOLEAN]
  BY DEF ReceiveGap, TypeOK
<1>6. TypeOK'
  BY <1>1, <1>2, <1>4, <1>5, TakeStep
  DEF TypeOK, inVars, timerVars, WiresOf, QueuesKept
<1> QED BY <1>1, <1>2, <1>4, <1>6, TakeStep, SilentStep DEF inVars

LEMMA RecvAckCheckType ==
  ASSUME TypeOK, NEW s \in Sides, RecvAckCheck(s)
  PROVE  unackTimer' \in [Sides -> BOOLEAN]
BY DEF TypeOK, RecvAckCheck

LEMMA StepReceiveReplayRequest ==
  ASSUME IInv, NEW s \in Sides, ReceiveReplayRequest(s)
  PROVE  IInv'
<1> USE DEF IInv
<1>1. Take(s, "ReplayRequest") /\ "ReplayRequest" \in Types
  BY DEF ReceiveReplayRequest, Types
<1>2. UNCHANGED <<isReconnecting, inVars, ackTimer, timedOut, replayAsked, received>>
  BY DEF ReceiveReplayRequest
<1>3. unack'[s] \in Seq(Faithful[s])
  BY <1>1, TakeStep DEF QueuesKept
<1>4. /\ writer' \in [Sides -> Writer]
      /\ \A r \in Sides : writer'[r].buf \in Seq(Faithful[r])
  BY <1>3, WritersStep, FaithfulType DEF ReceiveReplayRequest
<1>5. unackTimer' \in [Sides -> BOOLEAN]
  BY RecvAckCheckType DEF ReceiveReplayRequest
<1>6. TypeOK'
  BY <1>1, <1>2, <1>4, <1>5, TakeStep DEF TypeOK, inVars, WiresOf, QueuesKept
<1> QED BY <1>1, <1>2, <1>4, <1>6, TakeStep, SilentStep DEF inVars

LEMMA StepReceiveNext ==
  ASSUME IInv, NEW s \in Sides, ReceiveNext(s)
  PROVE  IInv'
<1> USE DEF IInv
<1> DEFINE m == Head(Incoming(s))
<1>1. Take(s, "Regular") /\ "Regular" \in Types
  BY DEF ReceiveNext, Types
<1>2. /\ UNCHANGED <<isReconnecting, incomingAckId, timerVars, replayAsked, writer>>
      /\ m.id = incomingMsgId[s] + 1
      /\ incomingMsgId' = [incomingMsgId EXCEPT ![s] = m.id]
      /\ received' = [received EXCEPT ![s] = Append(@, m.data)]
      /\ ackTimer' = [ackTimer EXCEPT ![s] = TRUE]
  BY DEF ReceiveNext, IsNext
<1>3. /\ Peer(s) \in Sides
      /\ m.id \in 1 .. outgoingMsgId[Peer(s)]
      /\ m.data = sent[Peer(s)][m.id]
  BY <1>1, TakeStep, PeerFacts DEF Faithful
<1>4. m.data \in Data
  <2>1. sent[Peer(s)] \in Seq(Data) /\ Len(sent[Peer(s)]) = outgoingMsgId[Peer(s)]
    BY <1>3 DEF TypeOK, Counters
  <2> QED BY <1>3, <2>1
<1>5. incomingMsgId' \in [Sides -> Nat] /\ received' \in [Sides -> Seq(Data)]
  BY <1>2, <1>4 DEF TypeOK
<1>6. TypeOK'
  BY <1>1, <1>2, <1>5, TakeStep DEF TypeOK, timerVars, WiresOf, QueuesKept
<1>7. Faithful' = Faithful
  BY <1>1, <1>2, TakeStep DEF Faithful
<1>8. AllFaithful'
  BY <1>1, <1>2, <1>6, <1>7, TakeStep, AllFaithfulStep DEF QueuesKept, AllFaithful
<1>9. Window'
  BY <1>1, TakeStep DEF Window, QueuesKept
<1>10. ASSUME NEW r \in Sides
       PROVE  /\ Len(received'[r]) = incomingMsgId'[r]
              /\ \A i \in 1 .. incomingMsgId'[r] : received'[r][i] = sent[Peer(r)][i]
  <2>1. CASE r = s
    <3>1. /\ received[s] \in Seq(Data) /\ incomingMsgId[s] \in Nat
          /\ Len(received[s]) = incomingMsgId[s]
          /\ received'[s] = Append(received[s], m.data)
          /\ incomingMsgId'[s] = incomingMsgId[s] + 1
      BY <1>2 DEF TypeOK, Counters
    <3>2. /\ Len(received'[s]) = incomingMsgId[s] + 1
          /\ \A i \in 1 .. incomingMsgId[s] : received'[s][i] = received[s][i]
          /\ received'[s][incomingMsgId[s] + 1] = m.data
      BY <1>4, <3>1, AppendProperties
    <3>3. \A i \in 1 .. incomingMsgId[s] : received[s][i] = sent[Peer(s)][i]
      BY DEF Prefix
    <3>4. ASSUME NEW i \in 1 .. incomingMsgId[s] + 1
          PROVE  received'[s][i] = sent[Peer(s)][i]
      <4>1. CASE i = incomingMsgId[s] + 1
        BY <1>2, <1>3, <3>2, <4>1
      <4>2. CASE i \in 1 .. incomingMsgId[s]
        BY <3>2, <3>3, <4>2
      <4> QED BY <3>1, <4>1, <4>2
    <3> QED BY <2>1, <3>1, <3>2, <3>4
  <2>2. CASE r # s
    BY <1>2, <2>2 DEF TypeOK, Counters, Prefix
  <2> QED BY <2>1, <2>2
<1>11. Prefix'
  BY <1>1, <1>10, TakeStep DEF Prefix
<1>12. ASSUME NEW r \in Sides
       PROVE  /\ incomingAckId[r] <= incomingMsgId'[r]
              /\ incomingMsgId'[r] <= outgoingMsgId[Peer(r)]
  <2>1. /\ incomingAckId[r] \in Nat /\ incomingMsgId[r] \in Nat /\ outgoingMsgId[Peer(s)] \in Nat
        /\ incomingMsgId \in [Sides -> Nat]
    BY <1>3 DEF TypeOK
  <2>2. incomingAckId[r] <= incomingMsgId[r] /\ incomingMsgId[r] <= outgoingMsgId[Peer(r)]
    BY DEF Counters
  <2>3. CASE r = s
    <3>1. incomingMsgId'[r] = m.id /\ m.id = incomingMsgId[r] + 1
      BY <1>2, <2>1, <2>3
    <3> QED BY <1>3, <2>1, <2>2, <2>3, <3>1
  <2>4. CASE r # s
    <3>1. incomingMsgId'[r] = incomingMsgId[r]
      BY <1>2, <2>1, <2>4
    <3> QED BY <2>2, <3>1
  <2> QED BY <2>3, <2>4
<1>13. ASSUME NEW r \in Sides
       PROVE  /\ Len(sent[r]) = outgoingMsgId[r]
              /\ outgoingAckId'[r] <= incomingAckId[Peer(r)]
  BY <1>1, TakeStep DEF Counters, QueuesKept
<1>14. Counters'
  BY <1>1, <1>2, <1>10, <1>12, <1>13, TakeStep DEF Counters
<1> QED BY <1>6, <1>8, <1>9, <1>11, <1>14

(***************************************************************************)
(* Reconnection.                                                           *)
(***************************************************************************)
LEMMA ResentType ==
  ASSUME NEW s \in Sides, NEW G, <<Signal("Ack", incomingMsgId[s])>> \in Seq(G),
         unack'[s] \in Seq(G)
  PROVE  Resent(s) \in Seq(G)
BY ConcatProperties DEF Resent

LEMMA StepReceiveControl ==
  ASSUME IInv, NEW s \in Sides, ReceiveControl(s)
  PROVE  IInv'
<1> USE DEF IInv
<1>1. Take(s, "Control") /\ "Control" \in Types
  BY DEF ReceiveControl, Types
<1>2. UNCHANGED <<incomingMsgId, ackTimer, timedOut, replayAsked, received>>
  BY DEF ReceiveControl
<1>3. CASE UNCHANGED <<isReconnecting, incomingAckId, writer, unackTimer>>
  <2>1. TypeOK'
    BY <1>1, <1>2, <1>3, TakeStep DEF TypeOK, WiresOf, QueuesKept
  <2> QED BY <1>1, <1>2, <1>3, <2>1, TakeStep, SilentStep DEF AllFaithful
<1>4. CASE /\ isReconnecting[s]
           /\ isReconnecting' = [isReconnecting EXCEPT ![s] = FALSE]
           /\ incomingAckId' = [incomingAckId EXCEPT ![s] = incomingMsgId[s]]
           /\ writer' = [writer EXCEPT ![s] = Write(@, Resent(s))]
           /\ RecvAckCheck(s)
  <2>1. UNCHANGED <<outgoingMsgId, sent>> /\ QueuesKept
    BY <1>1, TakeStep
  <2>2. <<Signal("Ack", incomingMsgId[s])>> \in Seq(Faithful'[s])
    BY <1>4, <2>1, AckGiven DEF Types
  <2>3. unack'[s] \in Seq(Faithful'[s])
    BY <1>4, <2>1, AckGiven DEF QueuesKept
  <2>4. Resent(s) \in Seq(Faithful'[s])
    BY <2>2, <2>3, ResentType
  <2>5. /\ writer' \in [Sides -> Writer]
        /\ \A r \in Sides : writer'[r].buf \in Seq(Faithful'[r])
    BY <1>4, <2>1, <2>4, AckGiven, WritersStep
  <2>6. \A r \in Sides : /\ incomingAckId[r] <= incomingAckId'[r]
                         /\ incomingAckId'[r] <= incomingMsgId[r]
    BY <1>4, <2>1, AckGiven
  <2>7. \A r \in Sides : Faithful[r] \subseteq Faithful'[r]
    BY <1>4, <2>1, <2>6, AckGiven, FaithfulGrows
  <2>8. wire' \in WiresOf(Faithful')
    BY <1>1, <1>4, <2>1, <2>7, TakeStep, AckGiven, WiresGrow, FaithfulType
  <2>9. TypeOK'
    BY <1>1, <1>2, <1>4, <2>1, <2>5, TakeStep, AckGiven, RecvAckCheckType
    DEF TypeOK, WiresOf, QueuesKept
  <2> QED BY <1>2, <2>1, <2>5, <2>6, <2>8, <2>9, QuietStep
<1> QED BY <1>3, <1>4 DEF ReceiveControl

LEMMA NewWriterType == NewWriter \in Writer /\ \A G : NewWriter.buf \in Seq(G)
BY DEF NewWriter, Writer

LEMMA StepReconnect ==
  ASSUME IInv, NEW e \in Epochs, Reconnect(e)
  PROVE  IInv'
<1> USE DEF IInv
<1>1. Client \in Sides
  BY DEF Sides
<1>2. wire' \in WiresOf(Faithful)
  BY <1>1, LeaveType, FaithfulType, WiresAreFaithful DEF Reconnect, AllFaithful
<1>3. writer' = [writer EXCEPT ![Client] = NewWriter]
  BY DEF Reconnect
<1>4. /\ writer' \in [Sides -> Writer]
      /\ \A r \in Sides : writer'[r].buf \in Seq(Faithful[r])
  BY <1>3, NewWriterType DEF TypeOK, AllFaithful
<1>5. TypeOK'
  BY <1>1, <1>2, <1>4 DEF TypeOK, Reconnect, Begin, Phases, WiresOf, outVars, inVars,
                    historyVars
<1> QED BY <1>2, <1>4, <1>5, QueuesUnchanged, SilentStep
        DEF Reconnect, outVars, inVars, historyVars

LEMMA AnsweredType ==
  ASSUME IInv, NEW e \in Epochs, NEW k \in 0 .. Len(wire[e][Client]),
         NEW msgs \in Seq(Faithful[Server])
  PROVE  /\ Answered(e, k, msgs) \in WiresOf(Faithful)
         /\ Len(Answered(e, k, msgs)[e][Client]) = Len(wire[e][Client]) - k
<1> DEFINE w == Put(wire, e, Server, msgs)
<1>1. Client \in Sides /\ Server \in Sides /\ Client # Server
  BY DEF Sides, Client, Server
<1>2. w \in WiresOf(Faithful)
  BY <1>1, PutType, FaithfulType, WiresAreFaithful DEF IInv
<1>3. w[e][Client] = wire[e][Client]
  BY <1>1 DEF Put, IInv, TypeOK
<1>4. /\ w[e][Client] \in Seq(Faithful[Client])
      /\ Len(w[e][Client]) \in Nat /\ k \in Nat /\ k <= Len(w[e][Client])
  BY <1>1, <1>2, <1>3, LenProperties DEF WiresOf
<1>5. SubSeq(w[e][Client], k + 1, Len(w[e][Client])) \in Seq(Faithful[Client])
  BY <1>4, SuffixType
<1>6. Len(SubSeq(w[e][Client], k + 1, Len(w[e][Client]))) = Len(w[e][Client]) - k
  <2>1. \A i \in k + 1 .. Len(w[e][Client]) : w[e][Client][i] \in Faithful[Client]
    BY <1>4
  <2>2. Len(SubSeq(w[e][Client], k + 1, Len(w[e][Client])))
          = IF k + 1 <= Len(w[e][Client]) THEN Len(w[e][Client]) - (k + 1) + 1 ELSE 0
    BY <1>4, <2>1, SubSeqProperties
  <2> QED BY <1>4, <2>2
<1>7. Answered(e, k, msgs)
        = [w EXCEPT ![e][Client] = SubSeq(w[e][Client], k + 1, Len(w[e][Client]))]
  BY <1>1, <1>2 DEF Answered, WiresOf
<1>8. Answered(e, k, msgs) \in WiresOf(Faithful)
  <2>1. Faithful \in [Sides -> SUBSET Message]
    BY FaithfulType DEF IInv
  <2>2. \A q \in Seq(Faithful[Client]) : [w EXCEPT ![e][Client] = q] \in WiresOf(Faithful)
    BY <1>1, <1>2, <2>1, CutType
  <2> QED BY <1>5, <1>7, <2>2
<1>9. Answered(e, k, msgs)[e][Client]
        = SubSeq(w[e][Client], k + 1, Len(w[e][Client]))
  BY <1>1, <1>2, <1>7 DEF WiresOf
<1> HIDE DEF w
<1> QED BY <1>3, <1>6, <1>8, <1>9

LEMMA StepAcceptExtensionHost ==
  ASSUME IInv, NEW e \in Epochs, AcceptExtensionHost(e)
  PROVE  IInv'
<1> USE DEF IInv
<1> DEFINE msgs == <<Signal("Pause", 0), Signal("Control", 0)>>
<1>1. msgs \in Seq(Faithful[Server])
  <2>1. Server \in Sides /\ 0 <= incomingAckId[Server]
    BY DEF TypeOK, Sides
  <2>2. Signal("Pause", 0) \in Faithful[Server]
    BY <2>1, SignalType DEF Faithful, Signal, Types
  <2>3. Signal("Control", 0) \in Faithful[Server]
    BY <2>1, SignalType DEF Faithful, Signal, Types
  <2>4. \A G : \A a, b \in G : <<a, b>> \in Seq(G)
    OBVIOUS
  <2> QED BY <2>2, <2>3, <2>4
<1>2. PICK k \in 0 .. Len(wire[e][Client]) : wire' = Answered(e, k, msgs)
  BY DEF AcceptExtensionHost
<1>3. wire' \in WiresOf(Faithful)
  BY <1>1, <1>2, AnsweredType
<1>4. TypeOK'
  BY <1>3 DEF TypeOK, AcceptExtensionHost, WiresOf, Phases, outVars, inVars, timerVars,
              historyVars
<1> QED BY <1>3, <1>4, QueuesUnchanged, SilentStep
        DEF AcceptExtensionHost, outVars, inVars, historyVars, AllFaithful

LEMMA AttachStep ==
  ASSUME IInv, NEW e \in Epochs, NEW w \in WiresOf(Faithful),
         NEW n \in 0 .. Len(w[e][Client]),
         NEW extra, extra \in Seq(Faithful'[Server]),
         Attach(e, n, w, extra)
  PROVE  IInv'
<1> USE DEF IInv
<1> DEFINE chunk == SubSeq(w[e][Client], 1, n)
           ack == IF n = 0 THEN 0 ELSE chunk[n].ack
<1>1. /\ Client \in Sides /\ Server \in Sides
      /\ Peer(Server) = Client /\ Peer(Client) = Server
  BY DEF Sides, Client, Server, Peer
<1>2. /\ UNCHANGED <<isReconnecting, outgoingMsgId, incomingMsgId, ackTimer, sent,
                     received>>
      /\ AcceptAck(Server, ack)
      /\ incomingAckId' = [incomingAckId EXCEPT ![Server] = incomingMsgId[Server]]
      /\ writer' = [writer EXCEPT ![Server] = Write(NewWriter, Resent(Server) \o extra)]
      /\ wire' = LeaveSocket([w EXCEPT ![e][Client] = SubSeq(@, n + 1, Len(@))],
                             Server)
      /\ RecvAckCheck(Server)
  BY DEF Attach, historyVars
<1>3. w[e][Client] \in Seq(Faithful[Client]) /\ Len(w[e][Client]) \in Nat
  BY <1>1, LenProperties DEF WiresOf
<1>4. ack \in Nat /\ ack <= incomingAckId[Peer(Server)]
  <2>1. CASE n = 0
    BY <1>1, <2>1 DEF TypeOK
  <2>2. CASE n # 0
    <3>1. n \in 1 .. Len(w[e][Client]) /\ n \in 1 .. n
      BY <1>3, <2>2
    <3>2. w[e][Client][n] \in Faithful[Client]
      BY <1>3, <3>1, ElementOfSeq
    <3>3. \A i \in 1 .. n : w[e][Client][i] \in Faithful[Client]
      BY <1>3, <3>1
    <3>4. chunk[n] = w[e][Client][n]
      BY <3>1, <3>3, SubSeqProperties
    <3>5. ack = w[e][Client][n].ack
      BY <2>2, <3>4
    <3> HIDE DEF ack, chunk
    <3> QED BY <1>1, <3>2, <3>5 DEF Faithful, Message
  <2> QED BY <2>1, <2>2
<1>5. QueuesKept
  BY <1>1, <1>2, <1>4, AcceptAckStep
<1>6. <<Signal("Ack", incomingMsgId[Server])>> \in Seq(Faithful'[Server])
  BY <1>1, <1>2, AckGiven DEF Types
<1>7. unack'[Server] \in Seq(Faithful'[Server])
  BY <1>1, <1>2, <1>5, AckGiven DEF QueuesKept
<1>8. Resent(Server) \o extra \in Seq(Faithful'[Server])
  BY <1>1, <1>6, <1>7, ResentType, ConcatProperties
<1>9. /\ Faithful' \in [Sides -> SUBSET Message]
      /\ \A r \in Sides : Seq(Faithful[r]) \subseteq Seq(Faithful'[r])
      /\ \A r \in Sides : /\ incomingAckId[r] <= incomingAckId'[r]
                          /\ incomingAckId'[r] <= incomingMsgId[r]
      /\ incomingAckId' \in [Sides -> Nat]
  BY <1>1, <1>2, AckGiven
<1>10. /\ writer' \in [Sides -> Writer]
       /\ \A r \in Sides : writer'[r].buf \in Seq(Faithful'[r])
  <2>1. Faithful'[Server] \in SUBSET Message
    BY <1>1, <1>9
  <2>2. /\ Write(NewWriter, Resent(Server) \o extra) \in Writer
        /\ Write(NewWriter, Resent(Server) \o extra).buf \in Seq(Faithful'[Server])
    BY <1>8, <2>1, NewWriterType, WriteType
  <2>3. \A r \in Sides : writer[r] \in Writer /\ writer[r].buf \in Seq(Faithful'[r])
    BY <1>9 DEF TypeOK, AllFaithful
  <2> QED BY <1>2, <2>2, <2>3 DEF TypeOK
<1>11. wire' \in WiresOf(Faithful')
  <2> DEFINE q == SubSeq(w[e][Client], n + 1, Len(w[e][Client]))
             v == [w EXCEPT ![e][Client] = q]
  <2>1. q \in Seq(Faithful[Client])
    <3>1. n \in Nat
      BY <1>3
    <3> QED BY <1>3, <3>1, SuffixType
  <2>2. Faithful \in [Sides -> SUBSET Message]
    BY FaithfulType
  <2>3. v \in WiresOf(Faithful)
    <3> HIDE DEF q
    <3> QED BY <1>1, <2>1, <2>2, CutType
  <2>4. wire' = LeaveSocket(v, Server)
    BY <1>2, Zenon
  <2>5. writer[Server].buf \in Seq(Faithful[Server])
    BY <1>1 DEF AllFaithful
  <2> HIDE DEF v
  <2>6. wire' \in WiresOf(Faithful)
    BY <1>1, <2>2, <2>3, <2>4, <2>5, LeaveType
  <2>7. \A r \in Sides : Faithful[r] \subseteq Faithful'[r]
    BY <1>2, <1>9, FaithfulGrows
  <2> QED BY <1>9, <2>2, <2>6, <2>7, WiresGrow
<1>12. TypeOK'
  <2>1. unackTimer' \in [Sides -> BOOLEAN]
    BY <1>1, <1>2, RecvAckCheckType
  <2>2. /\ timedOut' \in [Sides -> BOOLEAN] /\ replayAsked' \in [Sides -> BOOLEAN]
        /\ sock' \in [Sides -> Epochs] /\ phase' \in [Epochs -> Phases]
    BY <1>1 DEF Attach, Begin, TypeOK, Phases
  <2> HIDE DEF ack
  <2> QED BY <1>2, <1>5, <1>9, <1>10, <1>11, <2>1, <2>2 DEF TypeOK, QueuesKept, WiresOf
<1> HIDE DEF ack
<1> QED BY <1>2, <1>5, <1>9, <1>10, <1>11, <1>12, QuietStep

LEMMA StepAcceptManagement ==
  ASSUME IInv, NEW e \in Epochs, AcceptManagement(e)
  PROVE  IInv'
<1> USE DEF IInv
<1> DEFINE msgs == <<Signal("Control", 0)>>
<1>1. Server \in Sides /\ Client \in Sides
  BY DEF Sides
<1>2. msgs \in Seq(Faithful[Server])
  <2>1. 0 <= incomingAckId[Server]
    BY <1>1 DEF TypeOK
  <2> QED BY <1>1, <2>1, SignalFaithful DEF Types
<1>3. PICK k \in 0 .. Len(wire[e][Client]), n \in 0 .. Len(wire[e][Client]) :
        /\ k + n <= Len(wire[e][Client])
        /\ Attach(e, n, Answered(e, k, msgs), <<>>)
  BY DEF AcceptManagement
<1>4. /\ Answered(e, k, msgs) \in WiresOf(Faithful)
      /\ Len(Answered(e, k, msgs)[e][Client]) = Len(wire[e][Client]) - k
  BY <1>2, AnsweredType
<1>5. n \in 0 .. Len(Answered(e, k, msgs)[e][Client])
  <2>1. Len(wire[e][Client]) \in Nat
    BY <1>1, LenProperties DEF TypeOK
  <2> QED BY <1>3, <1>4, <2>1
<1>6. <<>> \in Seq(Faithful'[Server])
  OBVIOUS
<1> HIDE DEF msgs
<1> QED BY <1>3, <1>4, <1>5, <1>6, AttachStep

LEMMA StepAttachExtensionHost ==
  ASSUME IInv, NEW e \in Epochs, AttachExtensionHost(e)
  PROVE  IInv'
<1> USE DEF IInv
<1> DEFINE msgs == <<Signal("Resume", 0)>>
<1>1. PICK n \in 0 .. Len(wire[e][Client]) : Attach(e, n, wire, msgs)
  BY DEF AttachExtensionHost
<1>2. Server \in Sides
  BY DEF Sides
<1>3. msgs \in Seq(Faithful[Server])
  <2>1. 0 <= incomingAckId[Server]
    BY <1>2 DEF TypeOK
  <2> QED BY <1>2, <2>1, SignalFaithful DEF Types
<1>4. msgs \in Seq(Faithful'[Server])
  BY <1>1, <1>2, <1>3, AckGiven DEF Attach, historyVars
<1> HIDE DEF msgs
<1> QED BY <1>1, <1>4, WiresAreFaithful, AttachStep

(***************************************************************************)
(* Sending.                                                                *)
(***************************************************************************)
LEMMA StepSend ==
  ASSUME IInv, NEW s \in Sides, NEW d \in Data, Send(s, d)
  PROVE  IInv'
<1> USE DEF IInv
<1> DEFINE m == NextMessage(s, d)
<1>1. /\ m.type = "Regular" /\ m.id = outgoingMsgId[s] + 1
      /\ m.ack = incomingMsgId[s] /\ m.data = d
      /\ m \in Message
  BY DEF NextMessage, Message, Types, TypeOK
<1>2. /\ outgoingMsgId' = [outgoingMsgId EXCEPT ![s] = outgoingMsgId[s] + 1]
      /\ incomingAckId' = [incomingAckId EXCEPT ![s] = incomingMsgId[s]]
      /\ unack' = [unack EXCEPT ![s] = Append(@, m)]
      /\ writer' = IF isReconnecting[s] THEN writer
                   ELSE [writer EXCEPT ![s] = Write(@, <<m>>)]
      /\ sent' = [sent EXCEPT ![s] = Append(@, d)]
      /\ UNCHANGED <<isReconnecting, outgoingAckId, incomingMsgId, ackTimer,
                     replayAsked, sock, wire, phase, received>>
  BY <1>1 DEF Send
<1> HIDE DEF m
<1>3. /\ outgoingMsgId' \in [Sides -> Nat] /\ incomingAckId' \in [Sides -> Nat]
      /\ unack' \in [Sides -> Seq(Message)] /\ sent' \in [Sides -> Seq(Data)]
      /\ outgoingMsgId'[s] = outgoingMsgId[s] + 1
      /\ incomingAckId'[s] = incomingMsgId[s]
      /\ unack'[s] = Append(unack[s], m)
      /\ sent'[s] = Append(sent[s], d)
      /\ \A r \in Sides : r # s => /\ outgoingMsgId'[r] = outgoingMsgId[r]
                                    /\ incomingAckId'[r] = incomingAckId[r]
                                    /\ unack'[r] = unack[r]
                                    /\ sent'[r] = sent[r]
  BY <1>1, <1>2 DEF TypeOK
<1>4. /\ sent[s] \in Seq(Data) /\ unack[s] \in Seq(Message)
      /\ outgoingMsgId[s] \in Nat /\ Len(sent[s]) = outgoingMsgId[s]
      /\ Len(sent'[s]) = outgoingMsgId[s] + 1
      /\ \A i \in 1 .. outgoingMsgId[s] : sent'[s][i] = sent[s][i]
      /\ sent'[s][outgoingMsgId[s] + 1] = d
  BY <1>3, AppendProperties DEF TypeOK, Counters
\* The counters as numbers, before and after.
<1>17. \A r \in Sides :
         /\ Peer(r) \in Sides
         /\ outgoingMsgId[r] \in Nat /\ outgoingMsgId'[r] \in Nat
         /\ incomingAckId[r] \in Nat /\ incomingAckId'[r] \in Nat
         /\ incomingMsgId[r] \in Nat /\ outgoingAckId[r] \in Nat
  BY <1>3, PeerFacts DEF TypeOK
<1>18. \A r \in Sides :
         /\ Len(sent[r]) = outgoingMsgId[r] /\ Len(received[r]) = incomingMsgId[r]
         /\ incomingAckId[r] <= incomingMsgId[r]
         /\ incomingMsgId[r] <= outgoingMsgId[Peer(r)]
         /\ outgoingAckId[r] <= incomingAckId[Peer(r)]
  BY DEF Counters
<1>19. \A r \in Sides :
         /\ incomingAckId'[r] = incomingMsgId[r] \/ incomingAckId'[r] = incomingAckId[r]
         /\ outgoingMsgId'[r] = outgoingMsgId[r] + 1 \/ outgoingMsgId'[r] = outgoingMsgId[r]
  BY <1>3
<1>5. \A r \in Sides : incomingAckId[r] <= incomingAckId'[r]
  <2> SUFFICES ASSUME NEW r \in Sides PROVE incomingAckId[r] <= incomingAckId'[r]
    OBVIOUS
  <2>1. incomingAckId[r] <= incomingMsgId[r]
    BY <1>18
  <2>2. incomingAckId[r] \in Nat /\ incomingMsgId[r] \in Nat
    BY <1>17
  <2>3. incomingAckId'[r] = incomingMsgId[r] \/ incomingAckId'[r] = incomingAckId[r]
    BY <1>19
  <2> QED BY <2>1, <2>2, <2>3
<1>6. \A r \in Sides : Faithful[r] \subseteq Faithful'[r]
  <2>1. \A r \in Sides :
          \/ sent'[r] = sent[r] /\ outgoingMsgId'[r] = outgoingMsgId[r]
          \/ \E x \in Data : /\ sent'[r] = Append(sent[r], x)
                             /\ outgoingMsgId'[r] = outgoingMsgId[r] + 1
    BY <1>3
  <2> QED BY <1>3, <1>5, <2>1, FaithfulGrows
<1>7. m \in Faithful'[s]
  <2>1. m.ack <= incomingAckId'[s]
    BY <1>1, <1>3 DEF TypeOK
  <2>2. m.id \in 1 .. outgoingMsgId'[s] /\ m.data = sent'[s][m.id]
    BY <1>1, <1>3, <1>4
  <2> QED BY <1>1, <2>1, <2>2 DEF Faithful
<1>8. /\ Faithful \in [Sides -> SUBSET Message]
      /\ Faithful' \in [Sides -> SUBSET Message]
      /\ \A r \in Sides : Seq(Faithful[r]) \subseteq Seq(Faithful'[r])
  <2>1. Faithful' \in [Sides -> SUBSET Message]
    BY DEF Faithful
  <2> QED BY <1>6, <2>1, FaithfulType, SeqMonotonic
<1>9. /\ writer' \in [Sides -> Writer]
      /\ \A r \in Sides : writer'[r].buf \in Seq(Faithful'[r])
  <2>1. CASE writer' = writer
    BY <1>8, <2>1 DEF TypeOK, AllFaithful
  <2>2. CASE writer' = [writer EXCEPT ![s] = Write(@, <<m>>)]
    <3>1. <<m>> \in Seq(Faithful'[s])
      BY <1>7, OneMessage
    <3> QED BY <1>8, <2>2, <3>1, WritersStep
  <2> QED BY <1>2, <2>1, <2>2
<1>10. TypeOK'
  <2>1. unackTimer' \in [Sides -> BOOLEAN] /\ timedOut' \in [Sides -> BOOLEAN]
    BY DEF Send, RecvAckCheck, TypeOK
  <2> QED BY <1>2, <1>3, <1>9, <2>1 DEF TypeOK
<1>11. \A r \in Sides : unack'[r] \in Seq(Faithful'[r])
  <2>1. \A r \in Sides : unack[r] \in Seq(Faithful'[r])
    BY <1>8 DEF AllFaithful
  <2>2. Append(unack[s], m) \in Seq(Faithful'[s])
    BY <1>7, <2>1, AppendProperties
  <2> QED BY <1>3, <2>1, <2>2
<1>12. wire' \in WiresOf(Faithful')
  BY <1>2, <1>6, <1>8, WiresGrow, WiresAreFaithful
<1>13. AllFaithful'
  BY <1>9, <1>10, <1>11, <1>12, AllFaithfulStep
<1>14. Counters'
  <2> SUFFICES ASSUME NEW r \in Sides
               PROVE  /\ Len(sent'[r]) = outgoingMsgId'[r]
                      /\ Len(received[r]) = incomingMsgId[r]
                      /\ incomingAckId'[r] <= incomingMsgId[r]
                      /\ incomingMsgId[r] <= outgoingMsgId'[Peer(r)]
                      /\ outgoingAckId[r] <= incomingAckId'[Peer(r)]
    BY <1>2 DEF Counters
  <2>1. Len(sent'[r]) = outgoingMsgId'[r]
    BY <1>3, <1>4, <1>18
  <2>2. Len(received[r]) = incomingMsgId[r]
    BY <1>18
  <2>3. incomingAckId'[r] <= incomingMsgId[r]
    <3>1. incomingAckId[r] <= incomingMsgId[r]
      BY <1>18
    <3>2. incomingAckId[r] \in Nat /\ incomingMsgId[r] \in Nat
      BY <1>17
    <3>3. incomingAckId'[r] = incomingMsgId[r] \/ incomingAckId'[r] = incomingAckId[r]
      BY <1>19
    <3> QED BY <3>1, <3>2, <3>3
  <2>4. incomingMsgId[r] <= outgoingMsgId'[Peer(r)]
    <3>1. incomingMsgId[r] <= outgoingMsgId[Peer(r)]
      BY <1>18
    <3>2. incomingMsgId[r] \in Nat /\ outgoingMsgId[Peer(r)] \in Nat
      BY <1>17
    <3>3. \/ outgoingMsgId'[Peer(r)] = outgoingMsgId[Peer(r)] + 1
          \/ outgoingMsgId'[Peer(r)] = outgoingMsgId[Peer(r)]
      BY <1>17, <1>19
    <3> QED BY <3>1, <3>2, <3>3
  <2>5. outgoingAckId[r] <= incomingAckId'[Peer(r)]
    <3>1. outgoingAckId[r] <= incomingAckId[Peer(r)]
      BY <1>18
    <3>2. incomingAckId[Peer(r)] <= incomingAckId'[Peer(r)]
      BY <1>5, <1>17
    <3>3. /\ outgoingAckId[r] \in Nat /\ incomingAckId[Peer(r)] \in Nat
          /\ incomingAckId'[Peer(r)] \in Nat
      BY <1>17
    <3> QED BY <3>1, <3>2, <3>3
  <2> QED BY <2>1, <2>2, <2>3, <2>4, <2>5
<1>15. Window'
  <2> SUFFICES ASSUME NEW r \in Sides
               PROVE  /\ Len(unack'[r]) + outgoingAckId[r] = outgoingMsgId'[r]
                      /\ \A i \in 1 .. Len(unack'[r]) :
                           /\ unack'[r][i].id = outgoingAckId[r] + i
                           /\ unack'[r][i].type = "Regular"
    BY <1>2 DEF Window
  <2>1. CASE r # s
    <3>1. unack'[r] = unack[r] /\ outgoingMsgId'[r] = outgoingMsgId[r]
      BY <1>3, <2>1
    <3> QED BY <3>1 DEF Window
  <2>2. CASE r = s
    <3>1. /\ Len(unack'[s]) = Len(unack[s]) + 1 /\ Len(unack[s]) \in Nat
          /\ \A i \in 1 .. Len(unack[s]) : unack'[s][i] = unack[s][i]
          /\ unack'[s][Len(unack[s]) + 1] = m
      BY <1>1, <1>3, <1>4, AppendProperties, LenProperties
    <3>2. /\ Len(unack[s]) + outgoingAckId[s] = outgoingMsgId[s]
          /\ outgoingAckId[s] \in Nat
      BY DEF Window, TypeOK
    <3>3. ASSUME NEW i \in 1 .. Len(unack[s]) + 1
          PROVE  /\ unack'[s][i].id = outgoingAckId[s] + i
                 /\ unack'[s][i].type = "Regular"
      <4>1. CASE i = Len(unack[s]) + 1
        <5>1. unack'[s][i] = m
          BY <3>1, <4>1
        <5>2. outgoingMsgId[s] + 1 = outgoingAckId[s] + i
          <6>1. outgoingMsgId[s] \in Nat
            BY <1>17
          <6>2. Len(unack[s]) \in Nat
            BY <3>1
          <6> QED BY <3>2, <4>1, <6>1, <6>2
        <5> QED BY <1>1, <5>1, <5>2
      <4>2. CASE i \in 1 .. Len(unack[s])
        BY <3>1, <4>2 DEF Window
      <4> QED BY <3>1, <4>1, <4>2
    <3>4. Len(unack'[s]) + outgoingAckId[s] = outgoingMsgId'[s]
      <4>1. outgoingMsgId'[s] = outgoingMsgId[s] + 1
        BY <1>3
      <4> QED BY <1>17, <3>1, <3>2, <4>1
    <3>5. ASSUME NEW i \in 1 .. Len(unack'[s])
          PROVE  /\ unack'[s][i].id = outgoingAckId[s] + i
                 /\ unack'[s][i].type = "Regular"
      <4>1. i \in 1 .. Len(unack[s]) + 1
        BY <3>1
      <4> QED BY <3>3, <4>1
    <3>6. CASE r = s
      <4> QED BY <3>4, <3>5, <3>6, Zenon
    <3> QED BY <2>2, <3>6
  <2> QED BY <2>1, <2>2
<1>16. Prefix'
  <2> SUFFICES ASSUME NEW r \in Sides, NEW i \in 1 .. incomingMsgId[r]
               PROVE  received[r][i] = sent'[Peer(r)][i]
    BY <1>2 DEF Prefix
  <2>1. Peer(r) \in Sides /\ i \in 1 .. outgoingMsgId[Peer(r)]
    <3>1. Peer(r) \in Sides /\ incomingMsgId[r] <= outgoingMsgId[Peer(r)]
      BY PeerFacts DEF Counters
    <3>2. incomingMsgId[r] \in Nat /\ outgoingMsgId[Peer(r)] \in Nat
      BY <3>1 DEF TypeOK
    <3> QED BY <3>1, <3>2
  <2>2. received[r][i] = sent[Peer(r)][i]
    BY DEF Prefix
  <2> QED BY <1>3, <1>4, <2>1, <2>2
<1> QED BY <1>10, <1>13, <1>14, <1>15, <1>16

(***************************************************************************)
(* The invariant holds in every reachable state.                           *)
(***************************************************************************)
LEMMA InitIInv == Init => IInv
<1> SUFFICES ASSUME Init PROVE IInv
  OBVIOUS
<1> USE DEF Init
<1>1. \A s \in Sides : incomingAckId[s] = 0 /\ Peer(s) \in Sides
  BY PeerFacts
<1>2. Signal("Resume", 0) \in Message /\ \A s \in Sides : Signal("Resume", 0) \in Faithful[s]
  BY <1>1, SignalType DEF Faithful, Signal, Types
<1>3. \A s \in Sides : <<Signal("Resume", 0)>> \in Seq(Faithful[s])
  BY <1>2, OneMessage
<1>4. \A s \in Sides : Faithful[s] \in SUBSET Message
  BY DEF Faithful
<1>5. \A s \in Sides : writer[s] \in Writer /\ writer[s].buf \in Seq(Faithful[s])
  <2> SUFFICES ASSUME NEW s \in Sides
               PROVE  writer[s] \in Writer /\ writer[s].buf \in Seq(Faithful[s])
    OBVIOUS
  <2>1. CASE writer[s] = NewWriter
    BY <2>1, NewWriterType
  <2>2. CASE writer[s] = PauseWriter(NewWriter)
    <3>1. /\ PauseWriter(NewWriter) \in Writer
          /\ PauseWriter(NewWriter).buf = NewWriter.buf
      BY NewWriterType DEF PauseWriter, Writer
    <3> QED BY <2>2, <3>1, NewWriterType
  <2>3. CASE writer[s] = Write(NewWriter, <<Signal("Resume", 0)>>)
    BY <1>3, <1>4, <2>3, NewWriterType, WriteType
  <2> QED BY <2>1, <2>2, <2>3
<1>6. TypeOK
  <2>1. 0 \in Epochs
    BY ConstantsAssumption DEF Epochs
  <2>2. writer \in [Sides -> Writer]
    BY <1>5
  <2>3. phase \in [Epochs -> Phases]
    BY DEF Phases
  <2>4. /\ unack \in [Sides -> Seq(Message)]
        /\ wire \in [Epochs -> [Sides -> Seq(Message)]]
        /\ sent \in [Sides -> Seq(Data)] /\ received \in [Sides -> Seq(Data)]
    <3>1. \A S : <<>> \in Seq(S)
      OBVIOUS
    <3> QED BY <3>1
  <2> QED BY <2>1, <2>2, <2>3, <2>4 DEF TypeOK
<1>7. AllFaithful
  <2>1. \A s \in Sides : <<>> \in Seq(Faithful[s])
    OBVIOUS
  <2> QED BY <1>5, <2>1 DEF AllFaithful
<1>8. Counters /\ Window /\ Prefix
  BY <1>1 DEF Counters, Window, Prefix
<1> QED BY <1>6, <1>7, <1>8 DEF IInv

LEMMA StutterIInv ==
  ASSUME IInv, UNCHANGED vars
  PROVE  IInv'
<1> USE DEF vars, outVars, inVars, timerVars, historyVars, IInv
<1>1. TypeOK'
  BY DEF TypeOK
<1> QED BY <1>1, QueuesUnchanged, SilentStep, WiresAreFaithful DEF AllFaithful

LEMMA NextIInv == IInv /\ [Next]_vars => IInv'
<1> SUFFICES ASSUME IInv, [Next]_vars PROVE IInv'
  OBVIOUS
<1>1. CASE UNCHANGED vars
  BY <1>1, StutterIInv
<1>2. ASSUME NEW s \in Sides, NEW d \in Data, Send(s, d) PROVE IInv'
  BY <1>2, StepSend
<1>3. ASSUME NEW s \in Sides,
             \/ SendKeepAlive(s) \/ WriteNow(s) \/ AckTimeout(s) \/ UnackTimeout(s)
             \/ Lose(s) \/ ReplayWindowElapses(s)
      PROVE  IInv'
  BY <1>3, StepSendKeepAlive, StepWriteNow, StepAckTimeout, StepUnackTimeout,
     StepLose, StepReplayWindowElapses
<1>4. ASSUME NEW s \in Sides, Receive(s) PROVE IInv'
  BY <1>4, StepReceiveNext, StepReceiveSilently, StepReceiveGap,
     StepReceiveReplayRequest, StepReceivePauseResume, StepReceiveControl DEF Receive
<1>5. ASSUME NEW e \in Epochs,
             \/ Reconnect(e) \/ AcceptManagement(e)
             \/ AcceptExtensionHost(e) \/ AttachExtensionHost(e)
      PROVE  IInv'
  BY <1>5, StepReconnect, StepAcceptManagement, StepAcceptExtensionHost,
     StepAttachExtensionHost
<1> QED BY <1>1, <1>2, <1>3, <1>4, <1>5 DEF Next

THEOREM Invariance == Spec => []IInv
BY InitIInv, NextIInv, PTL DEF Spec

(***************************************************************************)
(* What follows.                                                           *)
(***************************************************************************)
\* Every variable keeps its type; in particular what onMessage fires with is
\* always something that was sent, never the empty buffer of a signal.
THEOREM TypeCorrect == Spec => []TypeOK
<1>1. IInv => TypeOK
  BY DEF IInv
<1> QED BY <1>1, Invariance, PTL

\* The queue of unacknowledged messages is exactly the ids above the last
\* acknowledgement, so peek()! in _recvAckCheck never finds it empty.
THEOREM WindowCorrect == Spec => []UnackWindow
<1>1. IInv => UnackWindow
  <2> SUFFICES ASSUME IInv, NEW s \in Sides
               PROVE  /\ Len(unack[s]) + outgoingAckId[s] = outgoingMsgId[s]
                      /\ \A i \in DOMAIN unack[s] :
                           unack[s][i].id = outgoingAckId[s] + i
    BY DEF UnackWindow
  <2>1. DOMAIN unack[s] = 1 .. Len(unack[s])
    BY DEF IInv, TypeOK
  <2> QED BY <2>1 DEF IInv, Window
<1> QED BY <1>1, Invariance, PTL

\* Whatever sockets are lost and whenever ends reconnect: a message the other
\* end has not accepted is still kept, with its data, for resending.
THEOREM NothingIsForgotten == Spec => []NothingForgotten
<1>1. IInv => NothingForgotten
  <2> SUFFICES ASSUME IInv, NEW s \in Sides,
                      NEW id \in incomingMsgId[Peer(s)] + 1 .. outgoingMsgId[s]
               PROVE  \E i \in DOMAIN unack[s] :
                        unack[s][i].id = id /\ unack[s][i].data = sent[s][id]
    BY DEF NothingForgotten
  <2> USE DEF IInv
  <2>1. Peer(s) \in Sides /\ Peer(Peer(s)) = s
    BY PeerFacts
  <2>2. /\ outgoingAckId[s] \in Nat /\ outgoingMsgId[s] \in Nat
        /\ incomingAckId[Peer(s)] \in Nat /\ incomingMsgId[Peer(s)] \in Nat
        /\ unack[s] \in Seq(Message)
    BY <2>1 DEF TypeOK
  <2>3. outgoingAckId[s] <= incomingMsgId[Peer(s)]
    <3>1. /\ outgoingAckId[s] <= incomingAckId[Peer(s)]
          /\ incomingAckId[Peer(s)] <= incomingMsgId[Peer(s)]
      BY <2>1 DEF Counters
    <3> QED BY <2>2, <3>1
  <2>4. Len(unack[s]) + outgoingAckId[s] = outgoingMsgId[s] /\ Len(unack[s]) \in Nat
    BY <2>2, LenProperties DEF Window
  <2>5. PICK i \in 1 .. Len(unack[s]) : i = id - outgoingAckId[s]
    BY <2>2, <2>3, <2>4
  <2>6. unack[s][i].id = outgoingAckId[s] + i /\ unack[s][i].type = "Regular"
    BY DEF Window
  <2>7. unack[s][i] \in Faithful[s]
    BY DEF AllFaithful
  <2>8. unack[s][i].id = id
    BY <2>2, <2>5, <2>6
  <2>9. unack[s][i].data = sent[s][id]
    BY <2>6, <2>7, <2>8 DEF Faithful
  <2> QED BY <2>2, <2>8, <2>9
<1> QED BY <1>1, Invariance, PTL

(***************************************************************************)
(* The protocol implements the channel.                                    *)
(***************************************************************************)
\* Delivery under the refinement mapping.
Delivered == [s \in Sides |-> received[Peer(s)]]

LEMMA InitChannel == Init => Channel!Init
BY PeerFacts DEF Init, Channel!Init

\* A step that accepts a message delivers the next one that was sent.
LEMMA DeliverChannel ==
  ASSUME IInv, NEW s \in Sides, ReceiveNext(s)
  PROVE  Channel!Deliver(Peer(s))
<1> USE DEF IInv
<1> DEFINE m == Head(Incoming(s))
<1>1. Take(s, "Regular") /\ "Regular" \in Types
  BY DEF ReceiveNext, Types
<1>2. /\ m.id = incomingMsgId[s] + 1
      /\ received' = [received EXCEPT ![s] = Append(@, m.data)]
  BY DEF ReceiveNext, IsNext
<1>3. /\ m.id \in 1 .. outgoingMsgId[Peer(s)]
      /\ m.data = sent[Peer(s)][m.id]
  BY <1>1, TakeStep, PeerFacts DEF Faithful
<1>4. sent' = sent
  BY <1>1, TakeStep
<1> HIDE DEF m
<1>5. /\ Peer(s) \in Sides /\ Peer(Peer(s)) = s
      /\ \A r \in Sides : Peer(r) = s => r = Peer(s)
  BY PeerFacts
<1>6. /\ Len(received[s]) = incomingMsgId[s] /\ Len(sent[Peer(s)]) = outgoingMsgId[Peer(s)]
      /\ incomingMsgId[s] \in Nat /\ outgoingMsgId[Peer(s)] \in Nat
  BY <1>5 DEF Counters, TypeOK
<1>7. Delivered[Peer(s)] = received[s]
  BY <1>5 DEF Delivered
<1>8. Len(Delivered[Peer(s)]) < Len(sent[Peer(s)])
  BY <1>2, <1>3, <1>6, <1>7
<1>9. m.data = sent[Peer(s)][Len(Delivered[Peer(s)]) + 1]
  BY <1>2, <1>3, <1>6, <1>7
<1>10. Delivered' = [Delivered EXCEPT ![Peer(s)] = Append(@, m.data)]
  BY <1>2, <1>5, PeerFacts DEF Delivered, TypeOK
<1> QED BY <1>4, <1>8, <1>9, <1>10 DEF Channel!Deliver, Delivered

LEMMA SendChannel ==
  ASSUME NEW s \in Sides, NEW d \in Data, Send(s, d)
  PROVE  Channel!Send(s, d)
BY DEF Send, Channel!Send

\* Every step is a step of the channel or leaves it alone.
LEMMA NextChannel == IInv /\ [Next]_vars => [Channel!Next]_(Channel!vars)
<1> SUFFICES ASSUME IInv, [Next]_vars PROVE [Channel!Next]_(Channel!vars)
  OBVIOUS
<1>1. CASE UNCHANGED historyVars
  BY <1>1 DEF historyVars, Channel!vars
<1>2. ASSUME NEW s \in Sides, ReceiveNext(s) PROVE Channel!Next
  BY <1>2, DeliverChannel, PeerFacts DEF Channel!Next
<1>3. ASSUME NEW s \in Sides, NEW d \in Data, Send(s, d) PROVE Channel!Next
  BY <1>3, SendChannel DEF Channel!Next
<1>4. ASSUME NEW s \in Sides,
             \/ ReceiveAgain(s) \/ ReceiveGap(s) \/ ReceiveReplayRequest(s)
             \/ ReceivePause(s) \/ ReceiveResume(s) \/ ReceiveAck(s)
             \/ ReceiveControl(s)
      PROVE  UNCHANGED historyVars
  BY <1>4 DEF ReceiveAgain, ReceiveGap, ReceiveReplayRequest, ReceivePause,
     ReceiveResume, ReceiveAck, ReceiveControl, Take, historyVars
<1>5. ASSUME NEW s \in Sides,
             \/ SendKeepAlive(s) \/ WriteNow(s) \/ AckTimeout(s) \/ UnackTimeout(s)
             \/ Lose(s) \/ ReplayWindowElapses(s)
      PROVE  UNCHANGED historyVars
  BY <1>5 DEF SendKeepAlive, WriteNow, AckTimeout, UnackTimeout, Lose,
     ReplayWindowElapses
<1>6. ASSUME NEW e \in Epochs,
             \/ Reconnect(e) \/ AcceptManagement(e)
             \/ AcceptExtensionHost(e) \/ AttachExtensionHost(e)
      PROVE  UNCHANGED historyVars
  BY <1>6 DEF Reconnect, AcceptManagement, AcceptExtensionHost,
     AttachExtensionHost, Attach
<1>7. CASE UNCHANGED vars
  BY <1>1, <1>7 DEF vars
<1> QED BY <1>1, <1>2, <1>3, <1>4, <1>5, <1>6, <1>7 DEF Next, Receive

\* In order, nothing twice, nothing skipped, for every number of messages,
\* reconnections and losses.
THEOREM Refinement == Spec => ChannelSpec
<1>1. Init => Channel!Init
  BY InitChannel
<1>2. IInv /\ [Next]_vars => [Channel!Next]_(Channel!vars)
  BY NextChannel
<1> QED BY <1>1, <1>2, Invariance, PTL DEF Spec, ChannelSpec, Channel!Spec

(***************************************************************************)
(* Somebody watches                                                        *)
(***************************************************************************)
\* Ends that are quiet about acknowledgements watch as before.
LEMMA StillWatched ==
  ASSUME IInv, IInv', WatchdogArmed, NEW s \in Sides,
         outgoingMsgId'[s] = outgoingMsgId[s],
         outgoingAckId[s] <= outgoingAckId'[s],
         isReconnecting[s] => isReconnecting'[s],
         unackTimer[s] => unackTimer'[s], timedOut[s] => timedOut'[s]
  PROVE  unack'[s] # <<>> /\ ~isReconnecting'[s] => unackTimer'[s] \/ timedOut'[s]
<1> SUFFICES ASSUME unack'[s] # <<>>
             PROVE  unack[s] # <<>>
  BY DEF WatchdogArmed
<1>1. /\ unack'[s] \in Seq(Message) /\ unack[s] \in Seq(Message)
      /\ outgoingAckId[s] \in Nat /\ outgoingAckId'[s] \in Nat /\ outgoingMsgId[s] \in Nat
  BY DEF IInv, TypeOK
<1>2. /\ Len(unack'[s]) + outgoingAckId'[s] = outgoingMsgId[s]
      /\ Len(unack[s]) + outgoingAckId[s] = outgoingMsgId[s]
  BY DEF IInv, Window
<1>3. Len(unack'[s]) # 0 /\ Len(unack'[s]) \in Nat
  BY <1>1, EmptySeq, LenProperties
<1>4. Len(unack[s]) # 0
  BY <1>1, <1>2, <1>3
<1> QED BY <1>1, <1>4, EmptySeq

\* _recvAckCheck sets the timer for what is not acknowledged.
LEMMA WatchedFromNow ==
  ASSUME IInv', NEW s \in Sides, unackTimer \in [Sides -> BOOLEAN], RecvAckCheck(s)
  PROVE  unack'[s] # <<>> /\ ~isReconnecting'[s] => unackTimer'[s]
<1> SUFFICES ASSUME unack'[s] # <<>>
             PROVE  outgoingMsgId'[s] > outgoingAckId'[s]
  BY DEF RecvAckCheck
<1>1. unack'[s] \in Seq(Message) /\ outgoingAckId'[s] \in Nat
  BY DEF IInv, TypeOK
<1>2. Len(unack'[s]) + outgoingAckId'[s] = outgoingMsgId'[s]
  BY DEF IInv, Window
<1>3. Len(unack'[s]) # 0 /\ Len(unack'[s]) \in Nat
  BY <1>1, EmptySeq, LenProperties
<1> QED BY <1>1, <1>2, <1>3

\* Accepting an acknowledgement only moves forward.
LEMMA AcksGrow ==
  ASSUME IInv, NEW s \in Sides, NEW ack \in Nat, AcceptAck(s, ack), NEW r \in Sides
  PROVE  outgoingAckId[r] <= outgoingAckId'[r]
<1>1. outgoingAckId \in [Sides -> Nat]
  BY DEF IInv, TypeOK
<1>2. CASE ack > outgoingAckId[s]
  BY <1>1, <1>2 DEF AcceptAck
<1>3. CASE ~(ack > outgoingAckId[s])
  BY <1>1, <1>3 DEF AcceptAck
<1> QED BY <1>2, <1>3

LEMMA TakeAcks ==
  ASSUME IInv, NEW s \in Sides, NEW type \in Types, Take(s, type), NEW r \in Sides
  PROVE  outgoingAckId[r] <= outgoingAckId'[r] /\ outgoingMsgId' = outgoingMsgId
<1>1. Head(Incoming(s)) \in Faithful[Peer(s)]
  BY TakeStep
<1>2. Head(Incoming(s)).ack \in Nat
  BY <1>1, PeerFacts DEF Faithful, Message
<1> QED BY <1>2, AcksGrow DEF Take

LEMMA ReceiveWatched ==
  ASSUME IInv, IInv', WatchdogArmed, NEW s \in Sides, Receive(s)
  PROVE  WatchdogArmed'
<1>1. PICK type \in Types : Take(s, type)
  BY DEF Receive, ReceiveNext, ReceiveAgain, ReceiveGap, ReceiveReplayRequest, ReceivePause,
     ReceiveResume, ReceiveAck, ReceiveControl, Types
<1>2. \A r \in Sides : outgoingAckId[r] <= outgoingAckId'[r] /\ outgoingMsgId'[r] = outgoingMsgId[r]
  BY <1>1, TakeAcks
<1>3. /\ unackTimer \in [Sides -> BOOLEAN] /\ timedOut \in [Sides -> BOOLEAN]
      /\ isReconnecting \in [Sides -> BOOLEAN]
  BY DEF IInv, TypeOK
<1>4. timedOut' = timedOut
  BY DEF Receive, ReceiveNext, ReceiveAgain, ReceiveGap, ReceiveReplayRequest, ReceivePause,
     ReceiveResume, ReceiveAck, ReceiveControl, timerVars
<1>5. CASE UNCHANGED <<unackTimer, isReconnecting>>
  BY <1>2, <1>4, <1>5, StillWatched DEF WatchdogArmed
<1>6. CASE RecvAckCheck(s) /\ \A r \in Sides : r # s => isReconnecting'[r] = isReconnecting[r]
  <2> SUFFICES ASSUME NEW r \in Sides
               PROVE  unack'[r] # <<>> /\ ~isReconnecting'[r] => unackTimer'[r] \/ timedOut'[r]
    BY DEF WatchdogArmed
  <2>1. CASE r = s
    BY <1>3, <1>6, <2>1, WatchedFromNow
  <2>2. CASE r # s
    <3>1. unackTimer'[r] = unackTimer[r]
      BY <1>3, <1>6, <2>2 DEF RecvAckCheck
    <3> QED BY <1>2, <1>4, <1>6, <2>2, <3>1, StillWatched
  <2> QED BY <2>1, <2>2
<1>7. \/ UNCHANGED <<unackTimer, isReconnecting>>
      \/ RecvAckCheck(s) /\ \A r \in Sides : r # s => isReconnecting'[r] = isReconnecting[r]
  <2>1. CASE ReceiveControl(s)
    BY <1>3, <2>1 DEF ReceiveControl
  <2>2. CASE ReceiveReplayRequest(s)
    BY <2>2 DEF ReceiveReplayRequest
  <2> QED BY <2>1, <2>2 DEF Receive, ReceiveNext, ReceiveAgain, ReceiveGap, ReceivePause,
            ReceiveResume, ReceiveAck, timerVars
<1> QED BY <1>5, <1>6, <1>7

LEMMA SendWatched ==
  ASSUME IInv, IInv', WatchdogArmed, NEW s \in Sides, NEW d \in Data, Send(s, d)
  PROVE  WatchdogArmed'
<1>1. /\ unackTimer \in [Sides -> BOOLEAN] /\ timedOut \in [Sides -> BOOLEAN]
      /\ outgoingMsgId \in [Sides -> Nat] /\ unack \in [Sides -> Seq(Message)]
      /\ outgoingAckId \in [Sides -> Nat]
  BY DEF IInv, TypeOK
<1>2. /\ isReconnecting' = isReconnecting /\ outgoingAckId' = outgoingAckId
      /\ \A r \in Sides : r # s => unack'[r] = unack[r] /\ outgoingMsgId'[r] = outgoingMsgId[r]
  BY <1>1 DEF Send
<1> SUFFICES ASSUME NEW r \in Sides
             PROVE  unack'[r] # <<>> /\ ~isReconnecting'[r] => unackTimer'[r] \/ timedOut'[r]
  BY DEF WatchdogArmed
<1>3. CASE RecvAckCheck(s) /\ UNCHANGED timedOut
  <2>1. CASE r = s
    BY <1>1, <1>3, <2>1, WatchedFromNow
  <2>2. CASE r # s
    <3>1. unackTimer'[r] = unackTimer[r]
      BY <1>1, <1>3, <2>2 DEF RecvAckCheck
    <3> QED BY <1>2, <1>3, <2>2, <3>1 DEF WatchdogArmed
  <2> QED BY <2>1, <2>2
<1>4. CASE timedOut' = [timedOut EXCEPT ![s] = TRUE] /\ UNCHANGED unackTimer
  BY <1>1, <1>2, <1>4 DEF WatchdogArmed
<1> QED BY <1>3, <1>4 DEF Send

LEMMA TimersWatched ==
  ASSUME IInv, IInv', WatchdogArmed, NEW s \in Sides,
         \/ SendKeepAlive(s) \/ WriteNow(s) \/ AckTimeout(s) \/ UnackTimeout(s)
         \/ Lose(s) \/ ReplayWindowElapses(s) \/ UNCHANGED vars
  PROVE  WatchdogArmed'
<1>1. /\ unackTimer \in [Sides -> BOOLEAN] /\ timedOut \in [Sides -> BOOLEAN]
      /\ outgoingAckId \in [Sides -> Nat] /\ outgoingMsgId \in [Sides -> Nat]
      /\ unack \in [Sides -> Seq(Message)]
  BY DEF IInv, TypeOK
<1>2. unack' = unack /\ isReconnecting' = isReconnecting
  BY DEF SendKeepAlive, WriteNow, AckTimeout, UnackTimeout, Lose, ReplayWindowElapses, vars, outVars
<1>3. CASE UNCHANGED timerVars
  BY <1>2, <1>3 DEF WatchdogArmed, timerVars
<1>4. CASE SendKeepAlive(s)
  BY <1>1, <1>2, <1>4 DEF SendKeepAlive, WatchdogArmed
<1>5. CASE UnackTimeout(s)
  <2>1. ASSUME unack[s] # <<>> PROVE ~(outgoingMsgId[s] <= outgoingAckId[s])
    <3>1. Len(unack[s]) # 0 /\ Len(unack[s]) \in Nat
      BY <1>1, <2>1, EmptySeq, LenProperties
    <3> QED BY <1>1, <3>1 DEF IInv, Window
  <2> QED BY <1>1, <1>2, <1>5, <2>1 DEF UnackTimeout, WatchdogArmed
<1> QED BY <1>3, <1>4, <1>5 DEF WriteNow, AckTimeout, Lose, ReplayWindowElapses, vars

LEMMA AttachWatched ==
  ASSUME IInv, IInv', WatchdogArmed, NEW e, NEW n, NEW w, NEW extra, Attach(e, n, w, extra)
  PROVE  WatchdogArmed'
<1>1. unackTimer \in [Sides -> BOOLEAN] /\ timedOut \in [Sides -> BOOLEAN]
  BY DEF IInv, TypeOK
<1>2. /\ isReconnecting' = isReconnecting /\ RecvAckCheck(Server)
      /\ timedOut' = [timedOut EXCEPT ![Server] = FALSE]
  BY DEF Attach, Begin
<1> SUFFICES ASSUME NEW r \in Sides
             PROVE  unack'[r] # <<>> /\ ~isReconnecting'[r] => unackTimer'[r] \/ timedOut'[r]
  BY DEF WatchdogArmed
<1>3. CASE r = Server
  BY <1>1, <1>2, <1>3, WatchedFromNow
<1>4. CASE r # Server
  <2>1. unackTimer'[r] = unackTimer[r] /\ timedOut'[r] = timedOut[r]
    BY <1>1, <1>2, <1>4 DEF RecvAckCheck
  <2>2. unack'[r] = unack[r]
    <3>1. PICK ack : AcceptAck(Server, ack)
      BY DEF Attach
    <3>2. unack \in [Sides -> Seq(Message)]
      BY DEF IInv, TypeOK
    <3> QED BY <1>4, <3>1, <3>2 DEF AcceptAck
  <2> QED BY <1>2, <2>1, <2>2 DEF WatchdogArmed
<1> QED BY <1>3, <1>4

LEMMA ReconnectWatched ==
  ASSUME IInv, WatchdogArmed, NEW e, Reconnect(e) \/ AcceptExtensionHost(e)
  PROVE  WatchdogArmed'
<1>1. timedOut \in [Sides -> BOOLEAN] /\ isReconnecting \in [Sides -> BOOLEAN]
  BY DEF IInv, TypeOK
<1>2. CASE Reconnect(e)
  <2>1. /\ unack' = unack /\ unackTimer' = unackTimer
        /\ timedOut' = [timedOut EXCEPT ![Client] = FALSE]
        /\ isReconnecting' = [isReconnecting EXCEPT ![Client] = TRUE]
    BY <1>2 DEF Reconnect, Begin, outVars
  <2> QED BY <1>1, <2>1 DEF WatchdogArmed
<1>3. CASE AcceptExtensionHost(e)
  BY <1>3 DEF AcceptExtensionHost, outVars, timerVars, WatchdogArmed
<1> QED BY <1>2, <1>3

\* While a message is unacknowledged somebody watches: however timers, sends,
\* acknowledgements and reconnections follow each other, a message kept by an
\* end that is not reconnecting has its timer, or onSocketTimeout has fired.
THEOREM SomebodyWatches == Spec => []WatchdogArmed
<1>1. Init => WatchdogArmed
  BY DEF Init, WatchdogArmed
<1>2. IInv /\ IInv' /\ WatchdogArmed /\ [Next]_vars => WatchdogArmed'
  <2> SUFFICES ASSUME IInv, IInv', WatchdogArmed, [Next]_vars PROVE WatchdogArmed'
    OBVIOUS
  <2>1. ASSUME NEW e \in Epochs, AcceptManagement(e) \/ AttachExtensionHost(e)
        PROVE  WatchdogArmed'
    BY <2>1, AttachWatched DEF AcceptManagement, AttachExtensionHost
  <2>2. CASE UNCHANGED vars
    BY <2>2, TimersWatched DEF Sides
  <2> QED BY <2>1, <2>2, SendWatched, TimersWatched, ReceiveWatched, ReconnectWatched DEF Next
<1> QED BY <1>1, <1>2, Invariance, PTL DEF Spec

(***************************************************************************)
(* A network that loses nothing                                            *)
(***************************************************************************)
IsRegular(m) == m.type = "Regular"
NoRegular(q) == \A i \in 1 .. Len(q) : ~IsRegular(q[i])

\* Who has accepted n messages and reads q gets as far as message m.
Covers(q, n, m) == m <= n \/ \E i \in 1 .. Len(q) : IsRegular(q[i]) /\ m <= q[i].id

\* Who has accepted n messages finds none in q before its predecessor.
Gapless(q, n) ==
  \A i \in 1 .. Len(q) :
    IsRegular(q[i]) => \/ q[i].id <= n + 1
                       \/ \E j \in 1 .. i - 1 : IsRegular(q[j]) /\ q[i].id - 1 <= q[j].id

\* A socket is idle until the client opens it; the server is on the attached one.
SocketPhases ==
  /\ isReconnecting[Server] = FALSE
  /\ \A e \in Epochs :
       /\ phase[e] = "attached" <=> e = sock[Server]
       /\ phase[e] = "idle" <=> sock[Client] < e
       /\ phase[e] = "idle" => \A s \in Sides : wire[e][s] = <<>>

\* Nobody ever asks for a replay.
Unasked(q) == \A i \in 1 .. Len(q) : q[i].type # "ReplayRequest"
NoReplay ==
  \A s \in Sides : Unasked(writer[s].buf) /\ \A e \in Epochs : Unasked(wire[e][s])

\* Until the server has taken a socket over the client writes no messages to
\* it: at first it is reconnecting, then it is told to pause before it is told
\* that it is connected.
Pausing == Signal("Pause", 0)
Connecting == Signal("Control", 0)
HeldBack ==
  /\ \A e \in Epochs : phase[e] \in {"connecting", "accepted"} => NoRegular(wire[e][Client])
  /\ isReconnecting[Client] => NoRegular(writer[Client].buf)
  /\ phase[sock[Client]] = "connecting" =>
       isReconnecting[Client] /\ wire[sock[Client]][Server] = <<>>
  /\ phase[sock[Client]] = "accepted" =>
       \/ isReconnecting[Client] /\ wire[sock[Client]][Server] = <<Pausing, Connecting>>
       \/ /\ writer[Client].paused
          /\ \/ wire[sock[Client]][Server] = <<>>
             \/ isReconnecting[Client] /\ wire[sock[Client]][Server] = <<Connecting>>

\* What an end has written to the socket it is on.
Out(s) == wire[sock[s]][s] \o writer[s].buf

\* No gaps towards the server, now and on the socket it may take over ...
ToServer ==
  /\ Gapless(wire[sock[Server]][Client], incomingMsgId[Server])
  /\ phase[sock[Client]] # "left" =>
       /\ Gapless(Out(Client), incomingMsgId[Server])
       /\ ~isReconnecting[Client] =>
            Covers(Out(Client), incomingMsgId[Server], outgoingMsgId[Client])

\* ... nor towards the client.
ToClient ==
  /\ Gapless(wire[sock[Client]][Server], incomingMsgId[Client])
  /\ sock[Client] = sock[Server] =>
       /\ Gapless(Out(Server), incomingMsgId[Client])
       /\ Covers(Out(Server), incomingMsgId[Client], outgoingMsgId[Server])

RInv == SocketPhases /\ NoReplay /\ HeldBack /\ ToServer /\ ToClient

(***************************************************************************)
(* Sequences of messages                                                   *)
(***************************************************************************)
LEMMA IdType ==
  ASSUME NEW q \in Seq(Message), NEW i \in 1 .. Len(q)
  PROVE  q[i].id \in Nat
<1>1. q[i] \in Message
  BY ElementOfSeq
<1>2. \A m \in Message : m.id \in Nat
  BY DEF Message
<1> QED BY <1>1, <1>2

LEMMA CatFacts ==
  ASSUME NEW p \in Seq(Message), NEW q \in Seq(Message)
  PROVE  /\ p \o q \in Seq(Message)
         /\ Len(p) \in Nat /\ Len(q) \in Nat /\ Len(p \o q) = Len(p) + Len(q)
         /\ \A i \in 1 .. Len(p) : i \in 1 .. Len(p \o q) /\ (p \o q)[i] = p[i]
         /\ \A i \in 1 .. Len(q) : Len(p) + i \in 1 .. Len(p \o q) /\ (p \o q)[Len(p) + i] = q[i]
         /\ \A k \in 1 .. Len(p \o q) : k \in 1 .. Len(p) \/ \E i \in 1 .. Len(q) : k = Len(p) + i
<1>1. /\ p \o q \in Seq(Message) /\ Len(p) \in Nat /\ Len(q) \in Nat /\ Len(p \o q) = Len(p) + Len(q)
      /\ \A i \in 1 .. Len(p) + Len(q) : (p \o q)[i] = IF i <= Len(p) THEN p[i] ELSE q[i - Len(p)]
  BY ConcatProperties, LenProperties
<1>2. \A i \in 1 .. Len(p) : i \in 1 .. Len(p \o q) /\ (p \o q)[i] = p[i]
  BY <1>1
<1>3. ASSUME NEW i \in 1 .. Len(q)
      PROVE  Len(p) + i \in 1 .. Len(p \o q) /\ (p \o q)[Len(p) + i] = q[i]
  <2>1. Len(p) + i \in 1 .. Len(p) + Len(q) /\ ~(Len(p) + i <= Len(p)) /\ (Len(p) + i) - Len(p) = i
    BY <1>1
  <2> QED BY <1>1, <2>1
<1>4. ASSUME NEW k \in 1 .. Len(p \o q), k \notin 1 .. Len(p)
      PROVE  \E i \in 1 .. Len(q) : k = Len(p) + i
  <2>1. k - Len(p) \in 1 .. Len(q) /\ k = Len(p) + (k - Len(p))
    BY <1>1, <1>4
  <2> QED BY <2>1
<1> QED BY <1>1, <1>2, <1>3, <1>4

LEMMA NoRegularCat ==
  ASSUME NEW p \in Seq(Message), NEW q \in Seq(Message), NoRegular(p), NoRegular(q)
  PROVE  NoRegular(p \o q)
BY CatFacts DEF NoRegular

LEMMA QuietIsGapless ==
  ASSUME NEW p \in Seq(Message), NoRegular(p), NEW n \in Nat
  PROVE  Gapless(p, n)
BY DEF NoRegular, Gapless

LEMMA GaplessPrefix ==
  ASSUME NEW p \in Seq(Message), NEW q \in Seq(Message), NEW n \in Nat, Gapless(p \o q, n)
  PROVE  Gapless(p, n)
<1> SUFFICES ASSUME NEW i \in 1 .. Len(p), IsRegular(p[i]), ~(p[i].id <= n + 1)
             PROVE  \E j \in 1 .. i - 1 : IsRegular(p[j]) /\ p[i].id - 1 <= p[j].id
  BY DEF Gapless
<1>1. i \in 1 .. Len(p \o q) /\ (p \o q)[i] = p[i]
  BY CatFacts
<1>2. PICK j \in 1 .. i - 1 : IsRegular((p \o q)[j]) /\ p[i].id - 1 <= (p \o q)[j].id
  BY <1>1 DEF Gapless
<1>3. j \in 1 .. Len(p)
  BY CatFacts
<1>4. (p \o q)[j] = p[j]
  BY <1>3, CatFacts
<1> QED BY <1>2, <1>4

LEMMA GaplessCat ==
  ASSUME NEW p \in Seq(Message), NEW q \in Seq(Message), NEW n \in Nat, Gapless(p, n),
         \A i \in 1 .. Len(q) :
           IsRegular(q[i]) => \/ Covers(p, n, q[i].id - 1)
                              \/ \E j \in 1 .. i - 1 : IsRegular(q[j]) /\ q[i].id - 1 <= q[j].id
  PROVE  Gapless(p \o q, n)
<1> SUFFICES ASSUME NEW k \in 1 .. Len(p \o q), IsRegular((p \o q)[k]), ~((p \o q)[k].id <= n + 1)
             PROVE  \E j \in 1 .. k - 1 : IsRegular((p \o q)[j]) /\ (p \o q)[k].id - 1 <= (p \o q)[j].id
  BY DEF Gapless
<1>1. CASE k \in 1 .. Len(p)
  <2>1. (p \o q)[k] = p[k]
    BY <1>1, CatFacts
  <2>2. PICK j \in 1 .. k - 1 : IsRegular(p[j]) /\ p[k].id - 1 <= p[j].id
    BY <1>1, <2>1 DEF Gapless
  <2>3. j \in 1 .. Len(p)
    BY <1>1, CatFacts
  <2>4. (p \o q)[j] = p[j]
    BY <2>3, CatFacts
  <2> QED BY <2>1, <2>2, <2>4
<1>2. CASE \E i \in 1 .. Len(q) : k = Len(p) + i
  <2>1. PICK i \in 1 .. Len(q) : k = Len(p) + i
    BY <1>2
  <2>2. (p \o q)[k] = q[i] /\ Len(p) \in Nat /\ Len(q) \in Nat
    BY <2>1, CatFacts
  <2>3. q[i].id \in Nat
    BY IdType
  <2>4. CASE \E j \in 1 .. i - 1 : IsRegular(q[j]) /\ q[i].id - 1 <= q[j].id
    <3>1. PICK j \in 1 .. i - 1 : IsRegular(q[j]) /\ q[i].id - 1 <= q[j].id
      BY <2>4
    <3>2. j \in 1 .. Len(q) /\ Len(p) + j \in 1 .. k - 1
      BY <2>1, <2>2
    <3>3. (p \o q)[Len(p) + j] = q[j]
      BY <3>2, CatFacts
    <3> QED BY <2>2, <3>1, <3>2, <3>3
  <2>5. CASE Covers(p, n, q[i].id - 1)
    <3>1. ~(q[i].id - 1 <= n)
      BY <2>2, <2>3
    <3>2. PICK j \in 1 .. Len(p) : IsRegular(p[j]) /\ q[i].id - 1 <= p[j].id
      BY <2>5, <3>1 DEF Covers
    <3>3. j \in 1 .. k - 1 /\ (p \o q)[j] = p[j]
      BY <2>1, <2>2, CatFacts
    <3> QED BY <2>2, <3>2, <3>3
  <2> QED BY <2>2, <2>4, <2>5
<1>3. k \in 1 .. Len(p) \/ \E i \in 1 .. Len(q) : k = Len(p) + i
  BY CatFacts
<1> QED BY <1>1, <1>2, <1>3

LEMMA CoversCat ==
  ASSUME NEW p \in Seq(Message), NEW q \in Seq(Message), NEW n, NEW m,
         Covers(p, n, m) \/ Covers(q, n, m)
  PROVE  Covers(p \o q, n, m)
<1>1. CASE m <= n
  BY <1>1 DEF Covers
<1>2. CASE \E i \in 1 .. Len(p) : IsRegular(p[i]) /\ m <= p[i].id
  BY <1>2, CatFacts DEF Covers
<1>3. CASE \E i \in 1 .. Len(q) : IsRegular(q[i]) /\ m <= q[i].id
  <2>1. PICK i \in 1 .. Len(q) : IsRegular(q[i]) /\ m <= q[i].id
    BY <1>3
  <2>2. Len(p) + i \in 1 .. Len(p \o q) /\ (p \o q)[Len(p) + i] = q[i]
    BY CatFacts
  <2> QED BY <2>1, <2>2 DEF Covers
<1> QED BY <1>1, <1>2, <1>3 DEF Covers

\* What is not a message does not matter, at the end or at the front.
LEMMA QuietEnd ==
  ASSUME NEW p \in Seq(Message), NEW q \in Seq(Message), NEW n \in Nat, Gapless(p, n), NoRegular(q)
  PROVE  Gapless(p \o q, n)
BY GaplessCat DEF NoRegular

LEMMA QuietFront ==
  ASSUME NEW p \in Seq(Message), NEW q \in Seq(Message), NEW n \in Nat, NoRegular(p)
  PROVE  /\ Gapless(p \o q, n) => Gapless(q, n)
         /\ \A m \in Nat : Covers(p \o q, n, m) => Covers(q, n, m)
<1>1. ASSUME Gapless(p \o q, n) PROVE Gapless(q, n)
  <2> SUFFICES ASSUME NEW i \in 1 .. Len(q), IsRegular(q[i]), ~(q[i].id <= n + 1)
               PROVE  \E j \in 1 .. i - 1 : IsRegular(q[j]) /\ q[i].id - 1 <= q[j].id
    BY DEF Gapless
  <2>1. Len(p) + i \in 1 .. Len(p \o q) /\ (p \o q)[Len(p) + i] = q[i] /\ Len(p) \in Nat /\ Len(q) \in Nat
    BY CatFacts
  <2>2. PICK k \in 1 .. (Len(p) + i) - 1 : IsRegular((p \o q)[k]) /\ q[i].id - 1 <= (p \o q)[k].id
    <3> DEFINE c == Len(p) + i
    <3>1. c \in 1 .. Len(p \o q) /\ IsRegular((p \o q)[c]) /\ ~((p \o q)[c].id <= n + 1)
      BY <2>1
    <3>2. \E k \in 1 .. c - 1 : IsRegular((p \o q)[k]) /\ (p \o q)[c].id - 1 <= (p \o q)[k].id
      BY <1>1, <3>1 DEF Gapless
    <3> QED BY <2>1, <3>2
  <2>3. k \notin 1 .. Len(p)
    BY <2>2, CatFacts DEF NoRegular
  <2>4. k - Len(p) \in 1 .. i - 1 /\ k = Len(p) + (k - Len(p)) /\ k - Len(p) \in 1 .. Len(q)
    BY <2>1, <2>2, <2>3
  <2>5. (p \o q)[k] = q[k - Len(p)]
    BY <2>4, CatFacts
  <2> QED BY <2>2, <2>4, <2>5
<1>2. ASSUME NEW m \in Nat, Covers(p \o q, n, m) PROVE Covers(q, n, m)
  <2>1. CASE m <= n
    BY <2>1 DEF Covers
  <2>2. CASE \E k \in 1 .. Len(p \o q) : IsRegular((p \o q)[k]) /\ m <= (p \o q)[k].id
    <3>1. PICK k \in 1 .. Len(p \o q) : IsRegular((p \o q)[k]) /\ m <= (p \o q)[k].id
      BY <2>2
    <3>2. k \notin 1 .. Len(p)
      BY <3>1, CatFacts DEF NoRegular
    <3>3. PICK i \in 1 .. Len(q) : k = Len(p) + i
      BY <3>2, CatFacts
    <3>4. (p \o q)[k] = q[i]
      BY <3>3, CatFacts
    <3> QED BY <3>1, <3>4 DEF Covers
  <2> QED BY <1>2, <2>1, <2>2 DEF Covers
<1> QED BY <1>1, <1>2

\* The head is read, and n has become n2.
LEMMA TailGapless ==
  ASSUME NEW q \in Seq(Message), q # <<>>, NEW n \in Nat, NEW n2 \in Nat, n <= n2,
         IsRegular(Head(q)) => Head(q).id <= n2
  PROVE  /\ Gapless(q, n) => Gapless(Tail(q), n2)
         /\ \A m \in Nat : Covers(q, n, m) => Covers(Tail(q), n2, m)
<1>1. /\ Tail(q) \in Seq(Message) /\ Len(q) \in Nat \ {0} /\ Len(Tail(q)) = Len(q) - 1
      /\ \A i \in 1 .. Len(Tail(q)) : Tail(q)[i] = q[i + 1] /\ i + 1 \in 1 .. Len(q)
      /\ Head(q) = q[1]
  BY HeadTailProperties, LenProperties, EmptySeq
<1>2. \A i \in 1 .. Len(q) : q[i].id \in Nat
  BY IdType
<1>3. ASSUME Gapless(q, n) PROVE Gapless(Tail(q), n2)
  <2> SUFFICES ASSUME NEW i \in 1 .. Len(Tail(q)), IsRegular(Tail(q)[i]), ~(Tail(q)[i].id <= n2 + 1)
               PROVE  \E j \in 1 .. i - 1 : IsRegular(Tail(q)[j]) /\ Tail(q)[i].id - 1 <= Tail(q)[j].id
    BY DEF Gapless
  <2>1. Tail(q)[i] = q[i + 1] /\ i + 1 \in 1 .. Len(q) /\ q[i + 1].id \in Nat
    BY <1>1, <1>2
  <2>2. ~(q[i + 1].id <= n + 1)
    BY <2>1
  <2>3. PICK j \in 1 .. i : IsRegular(q[j]) /\ q[i + 1].id - 1 <= q[j].id
    BY <1>3, <2>1, <2>2 DEF Gapless
  <2>4. j # 1
    <3>1. q[1].id \in Nat
      BY <1>1, <1>2
    <3> QED BY <1>1, <2>1, <2>3, <3>1
  <2>5. j - 1 \in 1 .. i - 1 /\ (j - 1) + 1 = j /\ j - 1 \in 1 .. Len(Tail(q))
    BY <1>1, <2>3, <2>4
  <2>6. Tail(q)[j - 1] = q[j]
    BY <1>1, <2>5
  <2> QED BY <2>1, <2>3, <2>5, <2>6
<1>4. ASSUME NEW m \in Nat, Covers(q, n, m) PROVE Covers(Tail(q), n2, m)
  <2>1. CASE m <= n2
    BY <2>1 DEF Covers
  <2>2. CASE ~(m <= n2)
    <3>1. ~(m <= n)
      BY <2>2
    <3>2. PICK k \in 1 .. Len(q) : IsRegular(q[k]) /\ m <= q[k].id
      BY <1>4, <3>1 DEF Covers
    <3>3. k # 1
      <4>1. q[1].id \in Nat
        BY <1>1, <1>2
      <4> QED BY <1>1, <2>2, <3>2, <4>1
    <3>4. k - 1 \in 1 .. Len(Tail(q)) /\ (k - 1) + 1 = k
      BY <1>1, <3>2, <3>3
    <3>5. Tail(q)[k - 1] = q[k]
      BY <1>1, <3>4
    <3> QED BY <3>2, <3>4, <3>5 DEF Covers
  <2> QED BY <2>1, <2>2
<1> QED BY <1>3, <1>4

LEMMA MoreAccepted ==
  ASSUME NEW q \in Seq(Message), NEW n \in Nat, NEW n2 \in Nat, n <= n2
  PROVE  /\ Gapless(q, n) => Gapless(q, n2)
         /\ \A m \in Nat : Covers(q, n, m) => Covers(q, n2, m)
<1>1. \A i \in 1 .. Len(q) : q[i].id \in Nat
  BY IdType
<1>2. Gapless(q, n) => Gapless(q, n2)
  BY <1>1 DEF Gapless
<1>3. \A m \in Nat : Covers(q, n, m) => Covers(q, n2, m)
  BY DEF Covers
<1> QED BY <1>2, <1>3

\* Consecutive messages from where the other end is, or before.
LEMMA ResendGapless ==
  ASSUME NEW p \in Seq(Message), NEW q \in Seq(Message), NEW n \in Nat, NEW base \in Nat, base <= n,
         \A i \in 1 .. Len(q) : q[i].id = base + i /\ q[i].type = "Regular", Gapless(p, n)
  PROVE  Gapless(p \o q, n) /\ Covers(p \o q, n, base + Len(q))
<1>1. Len(q) \in Nat
  BY LenProperties
<1>2. ASSUME NEW i \in 1 .. Len(q)
      PROVE  \/ Covers(p, n, q[i].id - 1)
             \/ \E j \in 1 .. i - 1 : IsRegular(q[j]) /\ q[i].id - 1 <= q[j].id
  <2>1. CASE i = 1
    BY <2>1 DEF Covers
  <2>2. CASE i # 1
    <3>1. i - 1 \in 1 .. i - 1 /\ i - 1 \in 1 .. Len(q)
      BY <1>1, <2>2
    <3>2. q[i - 1].id = base + (i - 1) /\ q[i].id = base + i /\ IsRegular(q[i - 1])
      BY <3>1 DEF IsRegular
    <3>3. q[i].id - 1 <= q[i - 1].id
      BY <1>1, <3>2
    <3> QED BY <3>1, <3>2, <3>3
  <2> QED BY <2>1, <2>2
<1>3. Gapless(p \o q, n)
  BY <1>2, GaplessCat
<1>4. Covers(q, n, base + Len(q))
  <2>1. CASE Len(q) = 0
    BY <2>1 DEF Covers
  <2>2. CASE Len(q) # 0
    <3>1. Len(q) \in 1 .. Len(q)
      BY <1>1, <2>2
    <3>2. q[Len(q)].id = base + Len(q) /\ IsRegular(q[Len(q)])
      BY <3>1 DEF IsRegular
    <3>3. base + Len(q) <= q[Len(q)].id
      BY <1>1, <3>2
    <3> QED BY <3>1, <3>2, <3>3 DEF Covers
  <2> QED BY <2>1, <2>2
<1> QED BY <1>3, <1>4, CoversCat

LEMMA NextGapless ==
  ASSUME NEW p \in Seq(Message), NEW m \in Message, NEW n \in Nat, Gapless(p, n),
         IsRegular(m), Covers(p, n, m.id - 1)
  PROVE  Gapless(p \o <<m>>, n) /\ Covers(p \o <<m>>, n, m.id)
<1> DEFINE q == <<m>>
<1>1. q \in Seq(Message) /\ Len(q) = 1 /\ q[1] = m /\ m.id \in Nat
  BY DEF Message
<1> HIDE DEF q
<1>2. \A i \in 1 .. Len(q) : i = 1
  BY <1>1
<1>3. Gapless(p \o q, n)
  BY <1>1, <1>2, GaplessCat
<1>4. Covers(q, n, m.id)
  BY <1>1 DEF Covers
<1>5. Covers(p \o q, n, m.id)
  BY <1>1, <1>4, CoversCat
<1> QED BY <1>3, <1>5 DEF q

(***************************************************************************)
(* What a step writes                                                      *)
(***************************************************************************)
LEMMA Typed ==
  ASSUME IInv
  PROVE  \A s \in Sides :
           /\ Peer(s) \in Sides /\ sock[s] \in Epochs
           /\ writer[s] \in Writer /\ writer[s].buf \in Seq(Message)
           /\ \A e \in Epochs : wire[e][s] \in Seq(Message)
           /\ Out(s) \in Seq(Message)
           /\ incomingMsgId[s] \in Nat /\ outgoingMsgId[s] \in Nat
           /\ unack[s] \in Seq(Message)
<1> SUFFICES ASSUME NEW s \in Sides
             PROVE  /\ Peer(s) \in Sides /\ sock[s] \in Epochs
                    /\ writer[s] \in Writer /\ writer[s].buf \in Seq(Message)
                    /\ \A e \in Epochs : wire[e][s] \in Seq(Message)
                    /\ Out(s) \in Seq(Message)
                    /\ incomingMsgId[s] \in Nat /\ outgoingMsgId[s] \in Nat
                    /\ unack[s] \in Seq(Message)
  OBVIOUS
<1>1. /\ Peer(s) \in Sides /\ sock[s] \in Epochs /\ writer[s] \in Writer
      /\ \A e \in Epochs : wire[e][s] \in Seq(Message)
      /\ incomingMsgId[s] \in Nat /\ outgoingMsgId[s] \in Nat /\ unack[s] \in Seq(Message)
  BY PeerFacts DEF IInv, TypeOK
<1>2. writer[s].buf \in Seq(Message)
  BY <1>1 DEF Writer
<1>3. Out(s) \in Seq(Message)
  BY <1>1, <1>2, CatFacts DEF Out
<1> QED BY <1>1, <1>2, <1>3

\* What an end may add to its buffer: signals, the next message, or everything
\* unacknowledged once more; a message only kept while it reconnects.
Adds(s, msgs) ==
  /\ msgs \in Seq(Message)
  /\ \A i \in 1 .. Len(msgs) : msgs[i].type # "ReplayRequest"
  /\ \/ /\ NoRegular(msgs)
        /\ isReconnecting'[s] = isReconnecting[s]
        /\ outgoingMsgId'[s] = outgoingMsgId[s] \/ isReconnecting[s]
     \/ /\ \E m \in Message : msgs = <<m>> /\ IsRegular(m) /\ m.id = outgoingMsgId'[s]
        /\ outgoingMsgId'[s] = outgoingMsgId[s] + 1
        /\ ~isReconnecting[s] /\ ~isReconnecting'[s]
     \/ /\ msgs = Resent(s)
        /\ outgoingMsgId'[s] = outgoingMsgId[s]
        /\ incomingMsgId'[Peer(s)] = incomingMsgId[Peer(s)]
        /\ ~isReconnecting'[s]

LEMMA AckIsQuiet ==
  ASSUME IInv, NEW s \in Sides, NEW type \in Types \ {"Regular", "ReplayRequest"}, NEW ack \in Nat
  PROVE  /\ <<Signal(type, ack)>> \in Seq(Message) /\ NoRegular(<<Signal(type, ack)>>)
         /\ \A i \in 1 .. Len(<<Signal(type, ack)>>) : <<Signal(type, ack)>>[i].type # "ReplayRequest"
<1>1. Signal(type, ack) \in Message /\ Signal(type, ack).type = type
  BY SignalType DEF Signal
<1> QED BY <1>1 DEF NoRegular, IsRegular

\* Everything unacknowledged once more leaves no gap, whatever was lost before.
LEMMA ResentGapless ==
  ASSUME IInv, IInv', NEW s \in Sides, NEW p \in Seq(Message), Gapless(p, incomingMsgId[Peer(s)]),
         outgoingMsgId'[s] = outgoingMsgId[s], incomingMsgId'[Peer(s)] = incomingMsgId[Peer(s)]
  PROVE  /\ Gapless(p \o Resent(s), incomingMsgId[Peer(s)])
         /\ Covers(p \o Resent(s), incomingMsgId[Peer(s)], outgoingMsgId'[s])
<1> DEFINE n == incomingMsgId[Peer(s)]
           a == <<Signal("Ack", incomingMsgId[s])>>
           q == unack'[s]
           base == outgoingAckId'[s]
<1>1. a \in Seq(Message) /\ NoRegular(a) /\ n \in Nat
  BY Typed, AckIsQuiet DEF Types
<1>2. q \in Seq(Message) /\ base \in Nat
  BY DEF IInv, TypeOK
<1>3. Len(q) + base = outgoingMsgId'[s] /\ Len(q) \in Nat
  BY <1>2, LenProperties DEF IInv, Window
<1>4. \A i \in 1 .. Len(q) : q[i].id = base + i /\ q[i].type = "Regular"
  BY DEF IInv, Window
<1>5. base <= n
  <2>1. Peer(s) \in Sides
    BY PeerFacts
  <2>2. /\ base <= incomingAckId'[Peer(s)] /\ incomingAckId'[Peer(s)] <= incomingMsgId'[Peer(s)]
        /\ incomingAckId'[Peer(s)] \in Nat
    BY <2>1 DEF IInv, TypeOK, Counters
  <2> QED BY <1>1, <1>2, <2>2
<1>6. Resent(s) = a \o q
  BY DEF Resent
<1> HIDE DEF a, q, base
<1>7. p \o a \in Seq(Message) /\ Gapless(p \o a, n)
  BY <1>1, QuietEnd, CatFacts
<1>8. Gapless((p \o a) \o q, n) /\ Covers((p \o a) \o q, n, base + Len(q))
  BY <1>1, <1>2, <1>4, <1>5, <1>7, ResendGapless
<1>9. (p \o a) \o q = p \o Resent(s)
  BY <1>1, <1>2, <1>6, ConcatAssociative
<1>10. base + Len(q) = outgoingMsgId'[s]
  BY <1>2, <1>3
<1> QED BY <1>8, <1>9, <1>10

\* After them the stream has no gap still.
LEMMA AddsGapless ==
  ASSUME IInv, IInv', NEW s \in Sides, NEW msgs, Adds(s, msgs), NEW p \in Seq(Message),
         Gapless(p, incomingMsgId[Peer(s)]),
         ~isReconnecting[s] => Covers(p, incomingMsgId[Peer(s)], outgoingMsgId[s])
  PROVE  /\ Gapless(p \o msgs, incomingMsgId[Peer(s)])
         /\ ~isReconnecting'[s] => Covers(p \o msgs, incomingMsgId[Peer(s)], outgoingMsgId'[s])
<1> DEFINE n == incomingMsgId[Peer(s)]
<1>1. n \in Nat /\ msgs \in Seq(Message) /\ outgoingMsgId[s] \in Nat
  BY Typed DEF Adds
<1>2. CASE /\ NoRegular(msgs) /\ isReconnecting'[s] = isReconnecting[s]
           /\ outgoingMsgId'[s] = outgoingMsgId[s] \/ isReconnecting[s]
  <2>1. Gapless(p \o msgs, n)
    BY <1>1, <1>2, QuietEnd
  <2>2. ~isReconnecting[s] => Covers(p \o msgs, n, outgoingMsgId[s])
    BY <1>1, CoversCat
  <2> QED BY <1>2, <2>1, <2>2
<1>3. CASE /\ \E m \in Message : msgs = <<m>> /\ IsRegular(m) /\ m.id = outgoingMsgId'[s]
           /\ outgoingMsgId'[s] = outgoingMsgId[s] + 1
           /\ ~isReconnecting[s] /\ ~isReconnecting'[s]
  <2>1. PICK m \in Message : msgs = <<m>> /\ IsRegular(m) /\ m.id = outgoingMsgId'[s]
    BY <1>3
  <2>2. m.id - 1 = outgoingMsgId[s]
    BY <1>1, <1>3, <2>1
  <2>3. Covers(p, n, m.id - 1)
    BY <1>3, <2>2
  <2>4. Gapless(p \o <<m>>, n) /\ Covers(p \o <<m>>, n, m.id)
    BY <1>1, <2>1, <2>3, NextGapless
  <2> QED BY <2>1, <2>4
<1>4. CASE /\ msgs = Resent(s)
           /\ outgoingMsgId'[s] = outgoingMsgId[s]
           /\ incomingMsgId'[Peer(s)] = incomingMsgId[Peer(s)]
           /\ ~isReconnecting'[s]
  BY <1>4, ResentGapless
<1> QED BY <1>2, <1>3, <1>4 DEF Adds

\* No writes, or only signals: nothing that has to be numbered.
LEMMA NothingAdded ==
  ASSUME NEW s \in Sides, isReconnecting'[s] = isReconnecting[s],
         outgoingMsgId'[s] = outgoingMsgId[s] \/ isReconnecting[s]
  PROVE  Adds(s, <<>>)
<1>1. <<>> \in Seq(Message) /\ Len(<<>>) = 0
  OBVIOUS
<1> QED BY <1>1 DEF Adds, NoRegular

LEMMA SignalAdded ==
  ASSUME IInv, NEW s \in Sides, isReconnecting'[s] = isReconnecting[s], outgoingMsgId'[s] = outgoingMsgId[s],
         NEW type \in Types \ {"Regular", "ReplayRequest"}, NEW ack \in Nat
  PROVE  Adds(s, <<Signal(type, ack)>>)
BY AckIsQuiet DEF Adds

LEMMA ResentAdded ==
  ASSUME IInv, IInv', NEW s \in Sides, outgoingMsgId'[s] = outgoingMsgId[s],
         incomingMsgId'[Peer(s)] = incomingMsgId[Peer(s)], ~isReconnecting'[s]
  PROVE  Adds(s, Resent(s))
<1> DEFINE a == <<Signal("Ack", incomingMsgId[s])>>
           q == unack'[s]
<1>1. /\ a \in Seq(Message) /\ \A i \in 1 .. Len(a) : a[i].type # "ReplayRequest"
  BY Typed, AckIsQuiet DEF Types
<1>2. q \in Seq(Message) /\ \A i \in 1 .. Len(q) : q[i].type # "ReplayRequest"
  BY DEF IInv, TypeOK, Window
<1>3. Resent(s) = a \o q
  BY DEF Resent
<1> HIDE DEF a, q
<1>4. /\ a \o q \in Seq(Message) /\ \A i \in 1 .. Len(a \o q) : (a \o q)[i].type # "ReplayRequest"
  BY <1>1, <1>2, CatFacts
<1> QED BY <1>3, <1>4 DEF Adds

(***************************************************************************)
(* The invariant of the two directions, step by step.                      *)
(***************************************************************************)
\* An end writes to its buffer and nothing else happens to its stream.
Buffers(s, msgs) ==
  /\ writer'[s].buf = writer[s].buf \o msgs
  /\ \A e \in Epochs : wire'[e][s] = wire[e][s]

LEMMA BufferedOut ==
  ASSUME IInv, NEW s \in Sides, NEW msgs \in Seq(Message), Buffers(s, msgs), sock'[s] = sock[s]
  PROVE  Out(s)' = Out(s) \o msgs
<1>1. /\ writer[s].buf \in Seq(Message) /\ wire[sock[s]][s] \in Seq(Message)
      /\ sock[s] \in Epochs
  BY Typed
<1>2. Out(s)' = wire[sock[s]][s] \o (writer[s].buf \o msgs)
  BY <1>1 DEF Out, Buffers
<1> DEFINE p == wire[sock[s]][s]  b == writer[s].buf
<1>3. p \o (b \o msgs) = (p \o b) \o msgs
  <2>1. p \in Seq(Message) /\ b \in Seq(Message)
    BY <1>1
  <2> HIDE DEF p, b
  <2> QED BY <2>1, ConcatAssociative
<1> QED BY <1>2, <1>3 DEF Out

\* A part that is not about messages may be put in front, or dropped there.
LEMMA QuietAside ==
  ASSUME NEW p \in Seq(Message), NEW r \in Seq(Message), NEW q \in Seq(Message), NEW n \in Nat,
         NoRegular(p), NoRegular(r)
  PROVE  /\ Gapless(p \o q, n) => Gapless(r \o q, n)
         /\ \A m \in Nat : Covers(p \o q, n, m) => Covers(r \o q, n, m)
<1>1. ASSUME Gapless(p \o q, n) PROVE Gapless(r \o q, n)
  <2>1. Gapless(q, n)
    BY <1>1, QuietFront
  <2>2. Gapless(r, n)
    BY QuietIsGapless
  <2>3. \A i \in 1 .. Len(q) : q[i].id \in Nat
    BY IdType
  <2>4. \A i \in 1 .. Len(q) :
          IsRegular(q[i]) => \/ Covers(r, n, q[i].id - 1)
                             \/ \E j \in 1 .. i - 1 : IsRegular(q[j]) /\ q[i].id - 1 <= q[j].id
    BY <2>1, <2>3 DEF Gapless, Covers
  <2> QED BY <2>2, <2>4, GaplessCat
<1>2. ASSUME NEW m \in Nat, Covers(p \o q, n, m) PROVE Covers(r \o q, n, m)
  BY <1>2, QuietFront, CoversCat
<1> QED BY <1>1, <1>2

LEMMA ClientWrites ==
  ASSUME IInv, IInv', RInv, UNCHANGED <<sock, phase>>, NEW msgs, Adds(Client, msgs), Buffers(Client, msgs),
         incomingMsgId'[Server] = incomingMsgId[Server]
  PROVE  ToServer'
<1>1. Client \in Sides /\ Peer(Client) = Server /\ Server \in Sides
  BY DEF Sides, Peer
<1>2. msgs \in Seq(Message) /\ Out(Client) \in Seq(Message)
  BY <1>1, Typed DEF Adds
<1>3. Out(Client)' = Out(Client) \o msgs
  BY <1>1, <1>2, BufferedOut
<1>4. wire'[sock'[Server]][Client] = wire[sock[Server]][Client]
  BY <1>1, Typed DEF Buffers
<1>5. phase[sock[Client]] # "left" =>
        /\ Gapless(Out(Client) \o msgs, incomingMsgId[Server])
        /\ ~isReconnecting'[Client] =>
             Covers(Out(Client) \o msgs, incomingMsgId[Server], outgoingMsgId'[Client])
  BY <1>1, <1>2, AddsGapless DEF RInv, ToServer
<1> QED BY <1>3, <1>4, <1>5 DEF RInv, ToServer

LEMMA ServerWrites ==
  ASSUME IInv, IInv', RInv, UNCHANGED <<sock, phase>>, NEW msgs, Adds(Server, msgs), Buffers(Server, msgs),
         incomingMsgId'[Client] = incomingMsgId[Client], isReconnecting'[Server] = FALSE
  PROVE  ToClient'
<1>1. Client \in Sides /\ Peer(Server) = Client /\ Server \in Sides
  BY DEF Sides, Peer, Server, Client
<1>2. msgs \in Seq(Message) /\ Out(Server) \in Seq(Message)
  BY <1>1, Typed DEF Adds
<1>3. Out(Server)' = Out(Server) \o msgs
  BY <1>1, <1>2, BufferedOut
<1>4. wire'[sock'[Client]][Server] = wire[sock[Client]][Server]
  BY <1>1, Typed DEF Buffers
<1>5. sock[Client] = sock[Server] =>
        /\ Gapless(Out(Server) \o msgs, incomingMsgId[Client])
        /\ Covers(Out(Server) \o msgs, incomingMsgId[Client], outgoingMsgId'[Server])
  BY <1>1, <1>2, AddsGapless DEF RInv, ToClient, SocketPhases
<1> QED BY <1>3, <1>4, <1>5 DEF RInv, ToClient

\* An end reads a message of the other one.
Reads(s) ==
  /\ Incoming(s) # <<>>
  /\ wire' = [wire EXCEPT ![sock[s]][Peer(s)] = Tail(@)]
  /\ writer'[Peer(s)] = writer[Peer(s)]
  /\ outgoingMsgId'[Peer(s)] = outgoingMsgId[Peer(s)]
  /\ isReconnecting'[Peer(s)] = isReconnecting[Peer(s)]
  /\ incomingMsgId[s] <= incomingMsgId'[s]
  /\ IsRegular(Head(Incoming(s))) => Head(Incoming(s)).id <= incomingMsgId'[s]

LEMMA TailOut ==
  ASSUME IInv, NEW s \in Sides, Reads(s), UNCHANGED sock
  PROVE  /\ wire'[sock[s]][Peer(s)] = Tail(wire[sock[s]][Peer(s)])
         /\ wire[sock[s]][Peer(s)] # <<>> /\ wire[sock[s]][Peer(s)] \in Seq(Message)
         /\ Incoming(s) = wire[sock[s]][Peer(s)]
         /\ sock[Peer(s)] = sock[s] => /\ Out(Peer(s))' = Tail(Out(Peer(s)))
                                       /\ Out(Peer(s)) # <<>>
                                       /\ Head(Out(Peer(s))) = Head(Incoming(s))
         /\ sock[Peer(s)] # sock[s] => Out(Peer(s))' = Out(Peer(s))
<1> DEFINE r == Peer(s)  q == wire[sock[s]][r]
<1>1. r \in Sides /\ sock[s] \in Epochs /\ sock[r] \in Epochs /\ q \in Seq(Message) /\ writer[r].buf \in Seq(Message)
  BY Typed, PeerFacts
<1>2. wire \in [Epochs -> [Sides -> Seq(Message)]]
  BY DEF IInv, TypeOK
<1>3. q # <<>> /\ Incoming(s) = q
  BY DEF Reads, Incoming
<1>4. /\ wire'[sock[s]][r] = Tail(q)
      /\ \A e \in Epochs : e # sock[s] => wire'[e][r] = wire[e][r]
  BY <1>1, <1>2 DEF Reads
<1>5. ASSUME sock[r] = sock[s]
      PROVE  Out(r)' = Tail(Out(r)) /\ Out(r) # <<>> /\ Head(Out(r)) = Head(q)
  <2>1. Out(r) = q \o writer[r].buf /\ Out(r)' = Tail(q) \o writer[r].buf
    BY <1>4, <1>5 DEF Out, Reads
  <2> HIDE DEF q, r
  <2>2. /\ Tail(q) \o writer[r].buf = Tail(q \o writer[r].buf)
        /\ q \o writer[r].buf # <<>> /\ Head(q \o writer[r].buf) = Head(q)
    BY <1>1, <1>3, ConcatProperties, HeadTailProperties, EmptySeq, LenProperties
  <2> QED BY <2>1, <2>2
<1>6. ASSUME sock[r] # sock[s]
      PROVE  Out(r)' = Out(r)
  BY <1>1, <1>4, <1>6 DEF Out, Reads
<1> QED BY <1>1, <1>3, <1>4, <1>5, <1>6

LEMMA ServerReads ==
  ASSUME IInv, IInv', RInv, UNCHANGED <<sock, phase>>, Reads(Server)
  PROVE  ToServer'
<1>1. Client \in Sides /\ Peer(Server) = Client /\ Server \in Sides
  BY DEF Sides, Peer, Server, Client
<1> DEFINE n == incomingMsgId[Server]  n2 == incomingMsgId'[Server]  q == wire[sock[Server]][Client]
<1>2. n \in Nat /\ n2 \in Nat /\ n <= n2 /\ outgoingMsgId[Client] \in Nat
  BY <1>1 DEF IInv, TypeOK, Reads
<1>3. /\ wire'[sock[Server]][Client] = Tail(q) /\ q # <<>> /\ q \in Seq(Message)
      /\ Incoming(Server) = q
      /\ sock[Client] = sock[Server] => /\ Out(Client)' = Tail(Out(Client)) /\ Out(Client) # <<>>
                                        /\ Head(Out(Client)) = Head(q)
      /\ sock[Client] # sock[Server] => Out(Client)' = Out(Client)
  BY <1>1, TailOut
<1>4. IsRegular(Head(q)) => Head(q).id <= n2
  BY <1>3 DEF Reads
<1>5. Gapless(Tail(q), n2)
  BY <1>2, <1>3, <1>4, TailGapless DEF RInv, ToServer
<1>6. Out(Client) \in Seq(Message)
  BY <1>1, Typed
<1>7. ASSUME phase[sock[Client]] # "left"
      PROVE  /\ Gapless(Out(Client)', n2)
             /\ ~isReconnecting[Client] => Covers(Out(Client)', n2, outgoingMsgId[Client])
  <2>1. /\ Gapless(Out(Client), n)
        /\ ~isReconnecting[Client] => Covers(Out(Client), n, outgoingMsgId[Client])
    BY <1>7 DEF RInv, ToServer
  <2>2. CASE sock[Client] = sock[Server]
    <3>1. /\ Gapless(Tail(Out(Client)), n2)
          /\ ~isReconnecting[Client] => Covers(Tail(Out(Client)), n2, outgoingMsgId[Client])
      BY <1>2, <1>3, <1>4, <1>6, <2>1, <2>2, TailGapless
    <3> QED BY <1>3, <2>2, <3>1
  <2>3. CASE sock[Client] # sock[Server]
    <3>1. /\ Gapless(Out(Client), n2)
          /\ ~isReconnecting[Client] => Covers(Out(Client), n2, outgoingMsgId[Client])
      BY <1>2, <1>6, <2>1, MoreAccepted
    <3> QED BY <1>3, <2>3, <3>1
  <2> QED BY <2>2, <2>3
<1>8. isReconnecting'[Client] = isReconnecting[Client] /\ outgoingMsgId'[Client] = outgoingMsgId[Client]
  BY <1>1 DEF Reads
<1> QED BY <1>3, <1>5, <1>7, <1>8 DEF ToServer

LEMMA ClientReads ==
  ASSUME IInv, IInv', RInv, UNCHANGED <<sock, phase>>, Reads(Client)
  PROVE  ToClient'
<1>1. Client \in Sides /\ Peer(Client) = Server /\ Server \in Sides
  BY DEF Sides, Peer, Server, Client
<1> DEFINE n == incomingMsgId[Client]  n2 == incomingMsgId'[Client]  q == wire[sock[Client]][Server]
<1>2. n \in Nat /\ n2 \in Nat /\ n <= n2 /\ outgoingMsgId[Server] \in Nat
  BY <1>1 DEF IInv, TypeOK, Reads
<1>3. /\ wire'[sock[Client]][Server] = Tail(q) /\ q # <<>> /\ q \in Seq(Message)
      /\ Incoming(Client) = q
      /\ sock[Server] = sock[Client] => /\ Out(Server)' = Tail(Out(Server)) /\ Out(Server) # <<>>
                                        /\ Head(Out(Server)) = Head(q)
  BY <1>1, TailOut
<1>4. IsRegular(Head(q)) => Head(q).id <= n2
  BY <1>3 DEF Reads
<1>5. Gapless(Tail(q), n2)
  BY <1>2, <1>3, <1>4, TailGapless DEF RInv, ToClient
<1>6. Out(Server) \in Seq(Message)
  BY <1>1, Typed
<1>7. ASSUME sock[Client] = sock[Server]
      PROVE  Gapless(Out(Server)', n2) /\ Covers(Out(Server)', n2, outgoingMsgId[Server])
  <2>1. Gapless(Out(Server), n) /\ Covers(Out(Server), n, outgoingMsgId[Server])
    BY <1>7 DEF RInv, ToClient
  <2>2. Gapless(Tail(Out(Server)), n2) /\ Covers(Tail(Out(Server)), n2, outgoingMsgId[Server])
    BY <1>2, <1>3, <1>4, <1>6, <1>7, <2>1, TailGapless
  <2> QED BY <1>3, <1>7, <2>2
<1>8. outgoingMsgId'[Server] = outgoingMsgId[Server]
  BY <1>1 DEF Reads
<1> QED BY <1>3, <1>5, <1>7, <1>8 DEF ToClient

(***************************************************************************)
(* Steps that only add to a buffer                                         *)
(***************************************************************************)
LEMMA StepBuffers ==
  ASSUME IInv, IInv', RInv, NEW s \in Sides, NEW msgs, Adds(s, msgs),
         UNCHANGED <<sock, phase, wire, isReconnecting, incomingMsgId>>,
         writer'[s].buf = writer[s].buf \o msgs, writer'[s].paused = writer[s].paused,
         writer'[Peer(s)] = writer[Peer(s)], outgoingMsgId'[Peer(s)] = outgoingMsgId[Peer(s)]
  PROVE  RInv'
<1>1. /\ Client \in Sides /\ Server \in Sides /\ Peer(Client) = Server /\ Peer(Server) = Client
      /\ s = Client \/ s = Server
  BY DEF Sides, Peer, Client, Server
<1>2. Buffers(s, msgs) /\ msgs \in Seq(Message) /\ writer[s].buf \in Seq(Message)
  BY Typed DEF Buffers, Adds
<1>3. SocketPhases'
  BY DEF RInv, SocketPhases
<1>4. NoReplay'
  <2>1. \A i \in 1 .. Len(writer'[s].buf) : writer'[s].buf[i].type # "ReplayRequest"
    <3> DEFINE b == writer[s].buf
    <3>1. b \in Seq(Message) /\ \A i \in 1 .. Len(b) : b[i].type # "ReplayRequest"
      BY <1>2 DEF RInv, NoReplay, Unasked
    <3>2. \A i \in 1 .. Len(msgs) : msgs[i].type # "ReplayRequest"
      BY DEF Adds
    <3> HIDE DEF b
    <3>3. \A i \in 1 .. Len(b \o msgs) : (b \o msgs)[i].type # "ReplayRequest"
      BY <1>2, <3>1, <3>2, CatFacts
    <3> QED BY <3>3 DEF b
  <2>2. \A i \in 1 .. Len(writer'[Peer(s)].buf) : writer'[Peer(s)].buf[i].type # "ReplayRequest"
    <3>1. Peer(s) \in Sides
      BY PeerFacts
    <3>2. \A i \in 1 .. Len(writer[Peer(s)].buf) : writer[Peer(s)].buf[i].type # "ReplayRequest"
      BY <3>1 DEF RInv, NoReplay, Unasked
    <3> QED BY <3>2
  <2>3. \A r \in Sides : r = s \/ r = Peer(s)
    BY <1>1 DEF Sides
  <2>4. \A r \in Sides : \A e \in Epochs : \A i \in 1 .. Len(wire'[e][r]) : wire'[e][r][i].type # "ReplayRequest"
    BY DEF RInv, NoReplay, Unasked
  <2> QED BY <2>1, <2>2, <2>3, <2>4 DEF NoReplay, Unasked
<1>5. HeldBack'
  <2>1. isReconnecting[Client] => NoRegular(writer'[Client].buf)
    <3>1. CASE s = Client
      <4>1. isReconnecting[Client] => NoRegular(msgs) /\ NoRegular(writer[Client].buf)
        BY <3>1 DEF Adds, RInv, HeldBack
      <4> QED BY <1>2, <3>1, <4>1, NoRegularCat
    <3>2. CASE s = Server
      BY <1>1, <3>2 DEF RInv, HeldBack
    <3> QED BY <1>1, <3>1, <3>2
  <2>2. writer'[Client].paused = writer[Client].paused
    BY <1>1
  <2> QED BY <2>1, <2>2 DEF RInv, HeldBack
<1>6. CASE s = Client
  <2>1. ToServer'
    BY <1>1, <1>2, <1>6, ClientWrites
  <2>2. ToClient'
    BY <1>1, <1>6 DEF RInv, ToClient, Out
  <2> QED BY <1>3, <1>4, <1>5, <2>1, <2>2 DEF RInv
<1>7. CASE s = Server
  <2>1. ToClient'
    BY <1>1, <1>2, <1>7, ServerWrites DEF RInv, SocketPhases
  <2>2. ToServer'
    BY <1>1, <1>7 DEF RInv, ToServer, Out
  <2> QED BY <1>3, <1>4, <1>5, <2>1, <2>2 DEF RInv
<1> QED BY <1>1, <1>6, <1>7

LEMMA WriterOf ==
  ASSUME IInv, NEW s \in Sides, NEW msgs \in Seq(Message),
         writer' = [writer EXCEPT ![s] = Write(@, msgs)]
  PROVE  /\ writer'[s].buf = writer[s].buf \o msgs /\ writer'[s].paused = writer[s].paused
         /\ writer'[Peer(s)] = writer[Peer(s)]
<1>1. writer \in [Sides -> Writer] /\ writer[s] \in Writer /\ Peer(s) \in Sides /\ Peer(s) # s
  BY PeerFacts, Typed DEF IInv, TypeOK
<1>2. Write(writer[s], msgs).buf = writer[s].buf \o msgs /\ Write(writer[s], msgs).paused = writer[s].paused
  BY <1>1 DEF Write, Writer
<1> QED BY <1>1, <1>2

\* An empty addition.
LEMMA StepBuffersNothing ==
  ASSUME IInv, IInv', RInv,
         UNCHANGED <<sock, phase, wire, writer, isReconnecting, incomingMsgId, outgoingMsgId>>
  PROVE  RInv'
<1>1. Client \in Sides /\ Adds(Client, <<>>)
  BY NothingAdded DEF Sides
<1>2. writer[Client].buf \o <<>> = writer[Client].buf
  BY <1>1, Typed, ConcatEmptySeq
<1> QED BY <1>1, <1>2, StepBuffers

LEMMA ReliableTimers ==
  ASSUME IInv, IInv', RInv, NEW s \in Sides,
         \/ SendKeepAlive(s) \/ AckTimeout(s) \/ UnackTimeout(s) \/ ReplayWindowElapses(s)
         \/ UNCHANGED vars
  PROVE  RInv'
<1> DEFINE KA == <<Signal("KeepAlive", incomingMsgId[s])>>
           AK == <<Signal("Ack", incomingMsgId[s])>>
<1>1. UNCHANGED <<sock, phase, wire, isReconnecting, incomingMsgId, outgoingMsgId>>
  BY DEF SendKeepAlive, AckTimeout, UnackTimeout, ReplayWindowElapses, vars, inVars, outVars
<1>2. CASE UNCHANGED writer
  BY <1>1, <1>2, StepBuffersNothing
<1>3. Adds(s, KA) /\ Adds(s, AK) /\ KA \in Seq(Message) /\ AK \in Seq(Message)
  BY <1>1, Typed, SignalAdded DEF Types, Adds
<1>4. CASE writer' = [writer EXCEPT ![s] = Write(@, KA)]
  <2>1. /\ writer'[s].buf = writer[s].buf \o KA /\ writer'[s].paused = writer[s].paused
        /\ writer'[Peer(s)] = writer[Peer(s)]
    BY <1>3, <1>4, WriterOf
  <2> QED BY <1>1, <1>3, <2>1, StepBuffers
<1>5. CASE writer' = [writer EXCEPT ![s] = Write(@, AK)]
  <2>1. /\ writer'[s].buf = writer[s].buf \o AK /\ writer'[s].paused = writer[s].paused
        /\ writer'[Peer(s)] = writer[Peer(s)]
    BY <1>3, <1>5, WriterOf
  <2> QED BY <1>1, <1>3, <2>1, StepBuffers
<1>6. CASE SendKeepAlive(s)
  BY <1>4, <1>6 DEF SendKeepAlive
<1>7. CASE AckTimeout(s)
  BY <1>2, <1>5, <1>7 DEF AckTimeout, SendAck
<1>8. CASE UnackTimeout(s) \/ ReplayWindowElapses(s) \/ UNCHANGED vars
  BY <1>2, <1>8 DEF UnackTimeout, ReplayWindowElapses, vars
<1> QED BY <1>6, <1>7, <1>8

LEMMA ReliableSend ==
  ASSUME IInv, IInv', RInv, NEW s \in Sides, NEW d \in Data, Send(s, d)
  PROVE  RInv'
<1> DEFINE m == NextMessage(s, d)
<1>1. /\ UNCHANGED <<sock, phase, wire, isReconnecting, incomingMsgId>>
      /\ outgoingMsgId' = [outgoingMsgId EXCEPT ![s] = m.id]
      /\ writer' = IF isReconnecting[s] THEN writer ELSE [writer EXCEPT ![s] = Write(@, <<m>>)]
  BY DEF Send
<1>2. /\ outgoingMsgId \in [Sides -> Nat] /\ incomingMsgId[s] \in Nat /\ outgoingMsgId[s] + 1 \in Nat
      /\ Peer(s) \in Sides /\ Peer(s) # s
  <2>1. outgoingMsgId \in [Sides -> Nat] /\ incomingMsgId[s] \in Nat
    BY DEF IInv, TypeOK
  <2> QED BY <2>1, PeerFacts
<1>3. m \in Message /\ m.id = outgoingMsgId[s] + 1 /\ IsRegular(m) /\ m.type # "ReplayRequest"
  BY <1>2 DEF NextMessage, Message, Types, IsRegular
<1> HIDE DEF m
<1>4. outgoingMsgId'[s] = outgoingMsgId[s] + 1 /\ outgoingMsgId'[Peer(s)] = outgoingMsgId[Peer(s)]
  BY <1>1, <1>2, <1>3
<1>5. CASE isReconnecting[s]
  <2>1. Adds(s, <<>>)
    BY <1>1, <1>5, NothingAdded
  <2>2. writer[s].buf \o <<>> = writer[s].buf
    BY Typed, ConcatEmptySeq
  <2> QED BY <1>1, <1>4, <1>5, <2>1, <2>2, StepBuffers
<1>6. CASE ~isReconnecting[s]
  <2>1. <<m>> \in Seq(Message) /\ \A i \in 1 .. Len(<<m>>) : <<m>>[i].type # "ReplayRequest"
    BY <1>3
  <2>2. Adds(s, <<m>>)
    BY <1>1, <1>3, <1>4, <1>6, <2>1 DEF Adds
  <2>3. /\ writer'[s].buf = writer[s].buf \o <<m>> /\ writer'[s].paused = writer[s].paused
        /\ writer'[Peer(s)] = writer[Peer(s)]
    BY <1>1, <1>6, <2>1, WriterOf
  <2> QED BY <1>1, <1>4, <2>2, <2>3, StepBuffers
<1> QED BY <1>5, <1>6

(***************************************************************************)
(* Receiving                                                               *)
(***************************************************************************)
\* What Receive(s) does to the streams, to pausing and to reconnecting.
Answers(s) ==
  /\ Reads(s)
  /\ UNCHANGED <<sock, phase>>
  /\ incomingMsgId'[Peer(s)] = incomingMsgId[Peer(s)]
  /\ \E msgs : Adds(s, msgs) /\ writer'[s].buf = writer[s].buf \o msgs
  /\ Head(Incoming(s)).type = "Pause" => writer'[s].paused
  /\ Head(Incoming(s)).type # "Resume" /\ writer[s].paused => writer'[s].paused
  /\ isReconnecting'[s] => isReconnecting[s]
  /\ Head(Incoming(s)).type # "Control" => isReconnecting'[s] = isReconnecting[s]

LEMMA HeadInOrder ==
  ASSUME IInv, RInv, NEW s \in Sides, Incoming(s) # <<>>
  PROVE  /\ IsRegular(Head(Incoming(s))) => Head(Incoming(s)).id <= incomingMsgId[s] + 1
         /\ Head(Incoming(s)).type # "ReplayRequest"
<1>1. Gapless(Incoming(s), incomingMsgId[s])
  BY DEF RInv, ToServer, ToClient, Incoming, Sides, Peer, Client, Server
<1>2. Incoming(s) \in Seq(Message)
  BY Typed DEF Incoming
<1>3. Head(Incoming(s)) = Incoming(s)[1] /\ 1 \in 1 .. Len(Incoming(s))
  BY <1>2, EmptySeq, LenProperties, HeadTailProperties
<1>4. \A j \in 1 .. 1 - 1 : FALSE
  OBVIOUS
<1>5. Incoming(s)[1].type # "ReplayRequest"
  BY <1>3, Typed DEF RInv, NoReplay, Unasked, Incoming
<1> QED BY <1>1, <1>3, <1>4, <1>5 DEF Gapless

LEMMA TakeReads ==
  ASSUME IInv, NEW s \in Sides, NEW type \in Types, Take(s, type),
         writer'[Peer(s)] = writer[Peer(s)],
         isReconnecting'[Peer(s)] = isReconnecting[Peer(s)],
         incomingMsgId[s] <= incomingMsgId'[s],
         type = "Regular" => Head(Incoming(s)).id <= incomingMsgId'[s]
  PROVE  Reads(s) /\ UNCHANGED <<sock, phase, outgoingMsgId>> /\ Head(Incoming(s)).type = type
BY DEF Take, Reads, IsRegular

LEMMA ReceiveAnswers ==
  ASSUME IInv, IInv', RInv, NEW s \in Sides, Receive(s)
  PROVE  Answers(s)
<1> DEFINE h == Head(Incoming(s))
<1>1. /\ writer \in [Sides -> Writer] /\ isReconnecting \in [Sides -> BOOLEAN]
      /\ incomingMsgId \in [Sides -> Nat] /\ Peer(s) \in Sides /\ Peer(s) # s
      /\ writer[s] \in Writer
  BY PeerFacts DEF IInv, TypeOK
<1>2. \A i \in Sides : incomingMsgId[i] \in Nat /\ incomingMsgId[i] <= incomingMsgId[i]
  BY <1>1
<1>3. writer[s].buf \o <<>> = writer[s].buf
  BY Typed, ConcatEmptySeq
<1>4. Incoming(s) # <<>>
  BY DEF Receive, ReceiveNext, ReceiveAgain, ReceiveGap, ReceiveReplayRequest, ReceivePause,
     ReceiveResume, ReceiveAck, ReceiveControl, Take
<1>5. IsRegular(h) => h.id <= incomingMsgId[s] + 1
  BY <1>4, HeadInOrder
<1>6. h.type # "ReplayRequest"
  BY <1>4, HeadInOrder
<1>7. CASE ReceiveNext(s)
  <2>1. /\ Take(s, "Regular") /\ UNCHANGED <<isReconnecting, writer>>
        /\ incomingMsgId' = [incomingMsgId EXCEPT ![s] = h.id] /\ h.id = incomingMsgId[s] + 1
    BY <1>7 DEF ReceiveNext, IsNext
  <2>2. /\ incomingMsgId'[s] = h.id /\ incomingMsgId[s] <= incomingMsgId'[s] /\ h.id <= h.id
        /\ incomingMsgId'[Peer(s)] = incomingMsgId[Peer(s)]
    BY <1>1, <2>1
  <2>3. Reads(s) /\ UNCHANGED <<sock, phase, outgoingMsgId>> /\ h.type = "Regular"
    BY <2>1, <2>2, TakeReads DEF Types
  <2>4. Adds(s, <<>>)
    BY <2>1, <2>3, NothingAdded
  <2> QED BY <1>3, <2>1, <2>2, <2>3, <2>4 DEF Answers
<1>8. CASE ReceiveAgain(s)
  <2>1. /\ Take(s, "Regular") /\ UNCHANGED <<isReconnecting, writer, incomingMsgId>>
        /\ h.id <= incomingMsgId[s]
    BY <1>8 DEF ReceiveAgain, inVars
  <2>2. Reads(s) /\ UNCHANGED <<sock, phase, outgoingMsgId>> /\ h.type = "Regular"
    BY <1>2, <2>1, TakeReads DEF Types
  <2>3. Adds(s, <<>>)
    BY <2>1, <2>2, NothingAdded
  <2> QED BY <1>3, <2>1, <2>2, <2>3 DEF Answers
<1>9. CASE ReceiveGap(s)
  <2>1. h.type = "Regular" /\ h.id > incomingMsgId[s] + 1
    BY <1>9 DEF ReceiveGap, Take
  <2>2. h.id \in Nat
    <3>1. Incoming(s) \in Seq(Message)
      BY Typed DEF Incoming
    <3>2. h \in Message
      BY <1>4, <3>1
    <3> QED BY <3>2 DEF Message
  <2> QED BY <1>1, <1>5, <2>1, <2>2 DEF IsRegular
<1>10. CASE ReceiveReplayRequest(s)
  BY <1>6, <1>10 DEF ReceiveReplayRequest, Take
<1>11. CASE ReceivePause(s) \/ ReceiveResume(s)
  <2>1. PICK type \in {"Pause", "Resume"} :
          /\ Take(s, type)
          /\ writer' = [writer EXCEPT ![s] = IF type = "Pause" THEN PauseWriter(@) ELSE ResumeWriter(@)]
    BY <1>11 DEF ReceivePause, ReceiveResume
  <2>2. UNCHANGED <<isReconnecting, incomingMsgId>>
    BY <1>11 DEF ReceivePause, ReceiveResume, inVars
  <2>3. type \in Types /\ type # "Regular"
    BY DEF Types
  <2>4. /\ writer'[Peer(s)] = writer[Peer(s)]
        /\ writer'[s] = IF type = "Pause" THEN PauseWriter(writer[s]) ELSE ResumeWriter(writer[s])
    BY <1>1, <2>1
  <2>5. Reads(s) /\ UNCHANGED <<sock, phase, outgoingMsgId>> /\ h.type = type
    BY <1>2, <2>1, <2>2, <2>3, <2>4, TakeReads
  <2>6. Adds(s, <<>>)
    BY <2>2, <2>5, NothingAdded
  <2>7. PauseWriter(writer[s]).buf = writer[s].buf /\ PauseWriter(writer[s]).paused
    BY <1>1 DEF PauseWriter, Writer
  <2>8. ResumeWriter(writer[s]).buf = writer[s].buf
    BY <1>1 DEF ResumeWriter, Writer
  <2> QED BY <1>3, <2>2, <2>4, <2>5, <2>6, <2>7, <2>8 DEF Answers
<1>12. CASE ReceiveAck(s)
  <2>1. PICK type \in {"Ack", "KeepAlive"} : Take(s, type)
    BY <1>12 DEF ReceiveAck
  <2>2. UNCHANGED <<isReconnecting, writer, incomingMsgId>>
    BY <1>12 DEF ReceiveAck, inVars
  <2>3. Reads(s) /\ UNCHANGED <<sock, phase, outgoingMsgId>> /\ h.type = type
    BY <1>2, <2>1, <2>2, TakeReads DEF Types
  <2>4. Adds(s, <<>>)
    BY <2>2, <2>3, NothingAdded
  <2> QED BY <1>3, <2>1, <2>2, <2>3, <2>4 DEF Answers
<1>13. CASE ReceiveControl(s)
  <2>1. Take(s, "Control") /\ UNCHANGED incomingMsgId
    BY <1>13 DEF ReceiveControl
  <2>2. CASE UNCHANGED <<isReconnecting, writer>>
    <3>1. Reads(s) /\ UNCHANGED <<sock, phase, outgoingMsgId>> /\ h.type = "Control"
      BY <1>2, <2>1, <2>2, TakeReads DEF Types
    <3>2. Adds(s, <<>>)
      BY <2>2, <3>1, NothingAdded
    <3> QED BY <1>3, <2>1, <2>2, <3>1, <3>2 DEF Answers
  <2>3. CASE /\ isReconnecting[s] /\ isReconnecting' = [isReconnecting EXCEPT ![s] = FALSE]
             /\ writer' = [writer EXCEPT ![s] = Write(@, Resent(s))]
    <3>1. ~isReconnecting'[s] /\ isReconnecting'[Peer(s)] = isReconnecting[Peer(s)]
      BY <1>1, <2>3
    <3>2. writer'[Peer(s)] = writer[Peer(s)]
      BY <1>1, <2>3
    <3>3. Reads(s) /\ UNCHANGED <<sock, phase, outgoingMsgId>> /\ h.type = "Control"
      BY <1>2, <2>1, <3>1, <3>2, TakeReads DEF Types
    <3>4. Adds(s, Resent(s)) /\ Resent(s) \in Seq(Message)
      BY <2>1, <3>1, <3>3, ResentAdded DEF Adds
    <3>5. writer'[s].buf = writer[s].buf \o Resent(s) /\ writer'[s].paused = writer[s].paused
      BY <2>3, <3>4, WriterOf
    <3> QED BY <2>1, <2>3, <3>1, <3>3, <3>4, <3>5 DEF Answers
  <2> QED BY <1>13, <2>2, <2>3 DEF ReceiveControl
<1> QED BY <1>7, <1>8, <1>9, <1>10, <1>11, <1>12, <1>13 DEF Receive

LEMMA TailFacts ==
  ASSUME NEW q \in Seq(Message), q # <<>>
  PROVE  /\ Tail(q) \in Seq(Message)
         /\ \A i \in 1 .. Len(Tail(q)) : i + 1 \in 1 .. Len(q) /\ Tail(q)[i] = q[i + 1]
         /\ NoRegular(q) => NoRegular(Tail(q))
<1>1. /\ Tail(q) \in Seq(Message) /\ Len(q) \in Nat \ {0} /\ Len(Tail(q)) = Len(q) - 1
      /\ \A i \in 1 .. Len(Tail(q)) : Tail(q)[i] = q[i + 1] /\ i + 1 \in 1 .. Len(q)
  BY HeadTailProperties, LenProperties, EmptySeq
<1> QED BY <1>1 DEF NoRegular

LEMMA ReliableReceive ==
  ASSUME IInv, IInv', RInv, NEW s \in Sides, Receive(s)
  PROVE  RInv'
<1>1. /\ Client \in Sides /\ Server \in Sides /\ Peer(Client) = Server /\ Peer(Server) = Client
      /\ (s = Client \/ s = Server) /\ Client # Server
  BY DEF Sides, Peer, Client, Server
<1>2. Answers(s)
  BY ReceiveAnswers
<1> DEFINE q == wire[sock[s]][Peer(s)]
<1>3. /\ q # <<>> /\ q \in Seq(Message) /\ Incoming(s) = q
      /\ wire'[sock[s]][Peer(s)] = Tail(q)
      /\ \A e \in Epochs : \A r \in Sides : e # sock[s] \/ r # Peer(s) => wire'[e][r] = wire[e][r]
      /\ sock[s] \in Epochs /\ sock' = sock /\ phase' = phase
      /\ \A e \in Epochs : wire'[e][s] = wire[e][s]
  <2>1. wire \in [Epochs -> [Sides -> Seq(Message)]] /\ sock[s] \in Epochs /\ Peer(s) \in Sides /\ Peer(s) # s
    BY PeerFacts DEF IInv, TypeOK
  <2>2. wire' = [wire EXCEPT ![sock[s]][Peer(s)] = Tail(@)] /\ q # <<>> /\ Incoming(s) = q
    BY <1>2 DEF Answers, Reads, Incoming
  <2> QED BY <1>2, <2>1, <2>2 DEF Answers
<1>4. PICK msgs : Adds(s, msgs) /\ writer'[s].buf = writer[s].buf \o msgs
  BY <1>2 DEF Answers
<1>5. /\ msgs \in Seq(Message) /\ writer[s].buf \in Seq(Message) /\ Buffers(s, msgs)
      /\ writer'[Peer(s)] = writer[Peer(s)]
  BY <1>2, <1>3, <1>4, Typed DEF Adds, Buffers, Answers, Reads
<1>6. isReconnecting'[Client] => isReconnecting[Client]
  BY <1>1, <1>2 DEF Answers, Reads
<1>7. isReconnecting'[Server] = FALSE
  <2>1. isReconnecting[Server] = FALSE
    BY DEF RInv, SocketPhases
  <2>2. isReconnecting' \in [Sides -> BOOLEAN]
    BY DEF IInv, TypeOK
  <2>3. ~isReconnecting'[Server]
    BY <1>1, <1>2, <2>1 DEF Answers, Reads
  <2> QED BY <1>1, <2>2, <2>3
<1>8. /\ Tail(q) \in Seq(Message) /\ NoRegular(q) => NoRegular(Tail(q))
      /\ \A i \in 1 .. Len(Tail(q)) : i + 1 \in 1 .. Len(q) /\ Tail(q)[i] = q[i + 1]
  BY <1>3, TailFacts
<1>9. SocketPhases'
  <2>1. phase[sock[s]] # "idle"
    BY <1>1, <1>3 DEF RInv, SocketPhases, IInv, TypeOK, Epochs
  <2>2. \A e \in Epochs : phase[e] = "idle" => \A r \in Sides : wire'[e][r] = wire[e][r]
    BY <1>3, <2>1
  <2> QED BY <1>3, <1>7, <2>2 DEF RInv, SocketPhases
<1>10. NoReplay'
  <2>1. \A i \in 1 .. Len(writer'[s].buf) : writer'[s].buf[i].type # "ReplayRequest"
    <3> DEFINE b == writer[s].buf
    <3>1. b \in Seq(Message) /\ \A i \in 1 .. Len(b) : b[i].type # "ReplayRequest"
      BY <1>5 DEF RInv, NoReplay, Unasked
    <3>2. \A i \in 1 .. Len(msgs) : msgs[i].type # "ReplayRequest"
      BY <1>4 DEF Adds
    <3> HIDE DEF b
    <3>3. \A i \in 1 .. Len(b \o msgs) : (b \o msgs)[i].type # "ReplayRequest"
      BY <1>5, <3>1, <3>2, CatFacts
    <3> QED BY <1>4, <3>3 DEF b
  <2>2. \A i \in 1 .. Len(writer'[Peer(s)].buf) : writer'[Peer(s)].buf[i].type # "ReplayRequest"
    <3>1. Peer(s) \in Sides
      BY PeerFacts
    <3>2. \A i \in 1 .. Len(writer[Peer(s)].buf) : writer[Peer(s)].buf[i].type # "ReplayRequest"
      BY <3>1 DEF RInv, NoReplay, Unasked
    <3> QED BY <1>5, <3>2
  <2>3. \A r \in Sides : r = s \/ r = Peer(s)
    BY <1>1 DEF Sides
  <2>4. \A r \in Sides : \A e \in Epochs : \A i \in 1 .. Len(wire'[e][r]) : wire'[e][r][i].type # "ReplayRequest"
    <3> SUFFICES ASSUME NEW r \in Sides, NEW e \in Epochs, NEW i \in 1 .. Len(wire'[e][r])
                 PROVE  wire'[e][r][i].type # "ReplayRequest"
      OBVIOUS
    <3>1. CASE e = sock[s] /\ r = Peer(s)
      <4>1. Peer(s) \in Sides
        BY PeerFacts
      <4>2. \A j \in 1 .. Len(q) : q[j].type # "ReplayRequest"
        BY <1>3, <4>1 DEF RInv, NoReplay, Unasked
      <4>3. wire'[e][r] = Tail(q)
        BY <1>3, <3>1
      <4> QED BY <1>8, <4>2, <4>3
    <3>2. CASE ~(e = sock[s] /\ r = Peer(s))
      <4>1. wire'[e][r] = wire[e][r]
        BY <1>3, <3>2
      <4> QED BY <4>1 DEF RInv, NoReplay, Unasked
    <3> QED BY <3>1, <3>2
  <2> QED BY <2>1, <2>2, <2>3, <2>4 DEF NoReplay, Unasked
<1>11. isReconnecting'[Client] => NoRegular(writer'[Client].buf)
  <2>1. CASE s = Client
    <3> SUFFICES ASSUME isReconnecting'[Client] PROVE NoRegular(writer'[Client].buf)
      OBVIOUS
    <3>1. NoRegular(msgs) /\ NoRegular(writer[Client].buf)
      BY <1>4, <1>6, <2>1 DEF Adds, RInv, HeldBack
    <3> QED BY <1>4, <1>5, <2>1, <3>1, NoRegularCat
  <2>2. CASE s = Server
    BY <1>1, <1>5, <1>6, <2>2 DEF RInv, HeldBack
  <2> QED BY <1>1, <2>1, <2>2
<1>12. \A e \in Epochs : phase[e] \in {"connecting", "accepted"} => NoRegular(wire'[e][Client])
  <2> SUFFICES ASSUME NEW e \in Epochs, phase[e] \in {"connecting", "accepted"}
               PROVE  NoRegular(wire'[e][Client])
    OBVIOUS
  <2>1. NoRegular(wire[e][Client])
    BY DEF RInv, HeldBack
  <2> QED BY <1>1, <1>3, <1>8, <2>1
<1>13. HeldBack'
  <2> DEFINE e == sock[Client]
  <2>1. e \in Epochs
    BY <1>1, Typed
  <2>2. CASE s = Server
    <3>1. e # sock[Server] \/ phase[e] = "attached"
      BY <2>1 DEF RInv, SocketPhases
    <3>2. /\ wire'[e][Server] = wire[e][Server] /\ writer'[Client] = writer[Client]
          /\ isReconnecting'[Client] = isReconnecting[Client]
      BY <1>1, <1>2, <1>3, <1>5, <2>1, <2>2 DEF Answers, Reads
    <3> QED BY <1>3, <1>11, <1>12, <3>2 DEF RInv, HeldBack
  <2>3. CASE s = Client
    <3>1. wire[e][Server] # <<>> /\ wire'[e][Server] = Tail(wire[e][Server]) /\ Incoming(Client) = wire[e][Server]
      BY <1>1, <1>3, <2>3
    <3>2. phase[e] # "connecting"
      BY <3>1 DEF RInv, HeldBack
    <3>3. ASSUME phase[e] = "accepted"
          PROVE  /\ writer'[Client].paused
                 /\ \/ wire'[e][Server] = <<>>
                    \/ isReconnecting'[Client] /\ wire'[e][Server] = <<Connecting>>
      <4>1. Pausing.type = "Pause" /\ Connecting.type = "Control"
        BY DEF Pausing, Connecting, Signal
      <4>2. CASE isReconnecting[Client] /\ wire[e][Server] = <<Pausing, Connecting>>
        <5>1. Head(wire[e][Server]) = Pausing /\ Tail(wire[e][Server]) = <<Connecting>>
          BY <4>2
        <5>2. Head(Incoming(Client)).type = "Pause"
          BY <3>1, <4>1, <5>1
        <5>3. writer'[Client].paused /\ isReconnecting'[Client] = isReconnecting[Client]
          BY <1>2, <2>3, <5>2 DEF Answers
        <5> QED BY <3>1, <4>2, <5>1, <5>3
      <4>3. CASE writer[Client].paused /\ wire[e][Server] = <<Connecting>>
        <5>1. Head(wire[e][Server]) = Connecting /\ Tail(wire[e][Server]) = <<>>
          BY <4>3
        <5>2. Head(Incoming(Client)).type = "Control"
          BY <3>1, <4>1, <5>1
        <5>3. writer'[Client].paused
          BY <1>2, <2>3, <4>3, <5>2 DEF Answers
        <5> QED BY <3>1, <5>1, <5>3
      <4> QED BY <3>1, <3>3, <4>2, <4>3 DEF RInv, HeldBack
    <3> QED BY <1>3, <1>11, <1>12, <3>2, <3>3 DEF HeldBack
  <2> QED BY <1>1, <2>2, <2>3
<1>14. ToServer' /\ ToClient'
  <2>1. CASE s = Client
    <3>1. ToClient'
      BY <1>2, <1>3, <2>1, ClientReads DEF Answers
    <3>2. incomingMsgId'[Server] = incomingMsgId[Server]
      BY <1>1, <1>2, <2>1 DEF Answers
    <3>3. ToServer'
      BY <1>3, <1>4, <1>5, <2>1, <3>2, ClientWrites
    <3> QED BY <3>1, <3>3
  <2>2. CASE s = Server
    <3>1. ToServer'
      BY <1>2, <1>3, <2>2, ServerReads DEF Answers
    <3>2. incomingMsgId'[Client] = incomingMsgId[Client]
      BY <1>1, <1>2, <2>2 DEF Answers
    <3>3. ToClient'
      BY <1>3, <1>4, <1>5, <1>7, <2>2, <3>2, ServerWrites
    <3> QED BY <3>1, <3>3
  <2> QED BY <1>1, <2>1, <2>2
<1> QED BY <1>9, <1>10, <1>13, <1>14 DEF RInv

(***************************************************************************)
(* Writing to a socket, and leaving one                                    *)
(***************************************************************************)
LEMMA UnaskedCat ==
  ASSUME NEW p \in Seq(Message), NEW q \in Seq(Message), Unasked(p), Unasked(q)
  PROVE  Unasked(p \o q)
<1>1. ASSUME NEW k \in 1 .. Len(p \o q) PROVE (p \o q)[k].type # "ReplayRequest"
  <2>1. k \in 1 .. Len(p) \/ \E i \in 1 .. Len(q) : k = Len(p) + i
    BY CatFacts
  <2>2. CASE k \in 1 .. Len(p)
    BY <2>2, CatFacts DEF Unasked
  <2>3. ASSUME NEW i \in 1 .. Len(q), k = Len(p) + i
        PROVE  (p \o q)[k].type # "ReplayRequest"
    <3>1. (p \o q)[k] = q[i]
      BY <2>3, CatFacts
    <3> QED BY <3>1 DEF Unasked
  <2> QED BY <2>1, <2>2, <2>3
<1> QED BY <1>1 DEF Unasked

\* The socket of an end is open.
LEMMA NotIdle ==
  ASSUME IInv, RInv, NEW s \in Sides
  PROVE  phase[sock[s]] # "idle"
<1>1. s = Client \/ s = Server
  BY DEF Sides
<1>2. sock[s] \in Epochs /\ ~(sock[s] < sock[s])
  BY Typed DEF Epochs
<1>3. CASE s = Client
  BY <1>2, <1>3 DEF RInv, SocketPhases
<1>4. CASE s = Server
  BY <1>2, <1>4 DEF RInv, SocketPhases
<1> QED BY <1>1, <1>3, <1>4

LEMMA FlushedFacts ==
  ASSUME IInv, RInv, NEW s \in Sides
  PROVE  /\ Flushed(writer[s]) \in Seq(Message) /\ wire[sock[s]][s] \o Flushed(writer[s]) \in Seq(Message)
         /\ Unasked(wire[sock[s]][s] \o Flushed(writer[s]))
         /\ \A n \in Nat : Gapless(Out(s), n) => Gapless(wire[sock[s]][s] \o Flushed(writer[s]), n)
         /\ s = Client /\ phase[sock[s]] \in {"connecting", "accepted"} =>
              NoRegular(wire[sock[s]][s] \o Flushed(writer[s]))
<1> DEFINE p == wire[sock[s]][s]  b == writer[s].buf  f == Flushed(writer[s])
<1>1. p \in Seq(Message) /\ b \in Seq(Message) /\ sock[s] \in Epochs /\ <<>> \in Seq(Message)
  BY Typed
<1>2. f = b \/ f = <<>>
  BY DEF Flushed
<1>3. Unasked(p) /\ Unasked(b)
  BY <1>1 DEF RInv, NoReplay
<1>4. Out(s) = p \o b
  BY DEF Out
<1>5. writer[s].paused => f = <<>>
  BY DEF Flushed
<1>6. s = Client /\ phase[sock[s]] \in {"connecting", "accepted"} =>
        NoRegular(p) /\ (NoRegular(b) \/ writer[s].paused)
  BY <1>1 DEF RInv, HeldBack
<1> HIDE DEF p, b, f
<1>7. /\ p \o b \in Seq(Message) /\ p \o <<>> = p
  BY <1>1, CatFacts, ConcatEmptySeq
<1>8. Unasked(p \o b)
  BY <1>1, <1>3, UnaskedCat
<1>9. \A n \in Nat : Gapless(p \o b, n) => Gapless(p, n)
  BY <1>1, GaplessPrefix
<1>10. f \in Seq(Message) /\ p \o f \in Seq(Message) /\ Unasked(p \o f)
  BY <1>1, <1>2, <1>3, <1>7, <1>8
<1>11. \A n \in Nat : Gapless(p \o b, n) => Gapless(p \o f, n)
  BY <1>2, <1>7, <1>9
<1>12. NoRegular(p) /\ (NoRegular(b) \/ writer[s].paused) => NoRegular(p \o f)
  BY <1>1, <1>2, <1>5, <1>7, NoRegularCat
<1> QED BY <1>4, <1>6, <1>10, <1>11, <1>12 DEF p, b, f

LEMMA ReliableWriteNow ==
  ASSUME IInv, IInv', RInv, NEW s \in Sides, WriteNow(s)
  PROVE  RInv'
<1>1. /\ Client \in Sides /\ Server \in Sides /\ Peer(Client) = Server /\ Peer(Server) = Client
      /\ (s = Client \/ s = Server) /\ Client # Server
      /\ Peer(s) \in Sides /\ Peer(s) # s /\ \A r \in Sides : r = s \/ r = Peer(s)
  BY DEF Sides, Peer, Client, Server
<1> DEFINE o == sock[s]  p == wire[o][s]  f == Flushed(writer[s])  rest == AfterFlush(writer[s]).buf
<1>2. /\ writer \in [Sides -> Writer] /\ writer[s] \in Writer /\ o \in Epochs
      /\ p \in Seq(Message) /\ writer[s].buf \in Seq(Message) /\ <<>> \in Seq(Message)
      /\ wire \in [Epochs -> [Sides -> Seq(Message)]]
  <2>1. writer \in [Sides -> Writer] /\ wire \in [Epochs -> [Sides -> Seq(Message)]]
    BY DEF IInv, TypeOK
  <2> QED BY <2>1, Typed
<1>3. UNCHANGED <<sock, phase, isReconnecting, incomingMsgId, outgoingMsgId>>
  BY DEF WriteNow, inVars, outVars
<1>4. /\ writer'[s].buf = rest /\ writer'[s].paused = writer[s].paused
      /\ writer'[Peer(s)] = writer[Peer(s)]
  <2>1. AfterFlush(writer[s]) \in Writer /\ AfterFlush(writer[s]).paused = writer[s].paused
    BY <1>2 DEF AfterFlush, Writer
  <2>2. /\ [AfterFlush(writer[s]) EXCEPT !.timer = FALSE].buf = rest
        /\ [AfterFlush(writer[s]) EXCEPT !.timer = FALSE].paused = writer[s].paused
    BY <2>1 DEF Writer
  <2>3. /\ writer'[s] = [AfterFlush(writer[s]) EXCEPT !.timer = FALSE]
        /\ writer'[Peer(s)] = writer[Peer(s)]
    BY <1>1, <1>2 DEF WriteNow
  <2> QED BY <2>2, <2>3
<1>5. (f = writer[s].buf /\ rest = <<>>) \/ (f = <<>> /\ rest = writer[s].buf)
  BY <1>2 DEF Flushed, AfterFlush, Writer
<1>6. /\ wire'[o][s] = IF MayStillBeRead(o, s) THEN p \o f ELSE p
      /\ \A e \in Epochs : \A r \in Sides : e # o \/ r # s => wire'[e][r] = wire[e][r]
  <2>1. wire' = IF MayStillBeRead(o, s) THEN [wire EXCEPT ![o][s] = p \o f] ELSE wire
    BY DEF WriteNow, Put
  <2> HIDE DEF p, f
  <2> QED BY <1>1, <1>2, <2>1 DEF p
<1>7. /\ f \in Seq(Message) /\ p \o f \in Seq(Message) /\ Unasked(p \o f)
      /\ \A n \in Nat : Gapless(Out(s), n) => Gapless(p \o f, n)
      /\ s = Client /\ phase[o] \in {"connecting", "accepted"} => NoRegular(p \o f)
  BY FlushedFacts
<1>8. NoRegular(writer[s].buf) => NoRegular(rest)
  BY <1>5 DEF NoRegular
<1>9. Unasked(rest)
  <2>1. Unasked(writer[s].buf)
    BY DEF RInv, NoReplay
  <2>2. Unasked(<<>>)
    BY DEF Unasked
  <2> QED BY <1>5, <2>1, <2>2
<1>10. MayStillBeRead(o, s) => Out(s)' = Out(s)
  <2>1. Out(s) = p \o writer[s].buf
    BY DEF Out
  <2>2. MayStillBeRead(o, s) => Out(s)' = (p \o f) \o rest
    BY <1>3, <1>4, <1>6 DEF Out
  <2>3. (p \o f) \o rest = p \o writer[s].buf
    <3> DEFINE b == writer[s].buf
    <3>1. b \in Seq(Message) /\ ((f = b /\ rest = <<>>) \/ (f = <<>> /\ rest = b))
      BY <1>2, <1>5
    <3> HIDE DEF p, f, rest, b
    <3>2. p \o b \in Seq(Message) /\ (p \o b) \o <<>> = p \o b /\ p \o <<>> = p
      BY <1>2, <3>1, CatFacts, ConcatEmptySeq
    <3>3. (p \o f) \o rest = p \o b
      BY <3>1, <3>2
    <3> QED BY <3>3 DEF p, f, rest, b
  <2> QED BY <2>1, <2>2, <2>3
<1> HIDE DEF p, f, rest
<1>11. phase[o] # "idle"
  BY NotIdle
<1>12. SocketPhases'
  <2>1. \A e \in Epochs : phase[e] = "idle" => \A r \in Sides : wire'[e][r] = wire[e][r]
    BY <1>6, <1>11
  <2> QED BY <1>3, <2>1 DEF RInv, SocketPhases
<1>13. NoReplay'
  <2>1. \A r \in Sides : Unasked(writer'[r].buf)
    BY <1>1, <1>4, <1>9 DEF RInv, NoReplay
  <2>2. \A r \in Sides : \A e \in Epochs : Unasked(wire'[e][r])
    <3>1. Unasked(wire'[o][s])
      BY <1>2, <1>6, <1>7 DEF RInv, NoReplay, p
    <3> QED BY <1>6, <3>1 DEF RInv, NoReplay
  <2> QED BY <2>1, <2>2 DEF NoReplay
<1>14. HeldBack'
  <2>1. \A e \in Epochs : phase[e] \in {"connecting", "accepted"} => NoRegular(wire'[e][Client])
    <3> SUFFICES ASSUME NEW e \in Epochs, phase[e] \in {"connecting", "accepted"}
                 PROVE  NoRegular(wire'[e][Client])
      OBVIOUS
    <3>1. NoRegular(wire[e][Client])
      BY DEF RInv, HeldBack
    <3>2. CASE e = o /\ s = Client
      BY <1>6, <1>7, <3>1, <3>2 DEF p
    <3>3. CASE ~(e = o /\ s = Client)
      BY <1>1, <1>6, <3>1, <3>3
    <3> QED BY <3>2, <3>3
  <2>2. isReconnecting[Client] => NoRegular(writer'[Client].buf)
    BY <1>1, <1>4, <1>8 DEF RInv, HeldBack
  <2>3. writer'[Client].paused = writer[Client].paused
    BY <1>1, <1>4
  <2>4. phase[sock[Client]] \in {"connecting", "accepted"} =>
          wire'[sock[Client]][Server] = wire[sock[Client]][Server]
    <3>1. s = Server => phase[o] = "attached"
      BY <1>2 DEF RInv, SocketPhases
    <3>2. sock[Client] \in Epochs
      BY <1>1, Typed
    <3> QED BY <1>1, <1>6, <3>1, <3>2
  <2> QED BY <1>3, <2>1, <2>2, <2>3, <2>4 DEF RInv, HeldBack
<1>15. ToServer'
  <2>1. sock[Server] \in Epochs /\ sock[Client] \in Epochs /\ incomingMsgId[Server] \in Nat
    BY <1>1, Typed
  <2>2. Gapless(wire'[sock[Server]][Client], incomingMsgId[Server])
    <3>1. Gapless(wire[sock[Server]][Client], incomingMsgId[Server])
      BY DEF RInv, ToServer
    <3>2. CASE s = Client /\ sock[Server] = o
      <4>1. phase[o] # "left"
        BY <2>1, <3>2 DEF RInv, SocketPhases
      <4>2. Gapless(Out(Client), incomingMsgId[Server])
        BY <3>2, <4>1 DEF RInv, ToServer
      <4> QED BY <1>6, <1>7, <2>1, <3>1, <3>2, <4>2 DEF p
    <3>3. CASE ~(s = Client /\ sock[Server] = o)
      BY <1>1, <1>6, <2>1, <3>1, <3>3
    <3> QED BY <3>2, <3>3
  <2>3. phase[sock[Client]] # "left" => Out(Client)' = Out(Client)
    <3>1. CASE s = Client
      BY <1>10, <3>1 DEF MayStillBeRead
    <3>2. CASE s = Server
      BY <1>1, <1>3, <1>4, <1>6, <2>1, <3>2 DEF Out
    <3> QED BY <1>1, <3>1, <3>2
  <2> QED BY <1>3, <2>2, <2>3 DEF RInv, ToServer
<1>16. ToClient'
  <2>1. sock[Server] \in Epochs /\ sock[Client] \in Epochs /\ incomingMsgId[Client] \in Nat
    BY <1>1, Typed
  <2>2. Gapless(wire'[sock[Client]][Server], incomingMsgId[Client])
    <3>1. Gapless(wire[sock[Client]][Server], incomingMsgId[Client])
      BY DEF RInv, ToClient
    <3>2. CASE s = Server /\ sock[Client] = o
      <4>1. Gapless(Out(Server), incomingMsgId[Client])
        BY <3>2 DEF RInv, ToClient
      <4> QED BY <1>6, <1>7, <2>1, <3>1, <3>2, <4>1 DEF p
    <3>3. CASE ~(s = Server /\ sock[Client] = o)
      BY <1>1, <1>6, <2>1, <3>1, <3>3
    <3> QED BY <3>2, <3>3
  <2>3. sock[Client] = sock[Server] => Out(Server)' = Out(Server)
    <3>1. CASE s = Server
      BY <1>1, <1>10, <3>1 DEF MayStillBeRead
    <3>2. CASE s = Client
      BY <1>1, <1>3, <1>4, <1>6, <2>1, <3>2 DEF Out
    <3> QED BY <1>1, <3>1, <3>2
  <2> QED BY <1>3, <2>2, <2>3 DEF RInv, ToClient
<1> QED BY <1>12, <1>13, <1>14, <1>15, <1>16 DEF RInv

LEMMA LeftWires ==
  ASSUME IInv, NEW w \in [Epochs -> [Sides -> Seq(Message)]], NEW s \in Sides, wire' = LeaveSocket(w, s)
  PROVE  /\ wire'[sock[s]][Peer(s)] = <<>>
         /\ wire'[sock[s]][s] = IF MayStillBeRead(sock[s], s) THEN w[sock[s]][s] \o Flushed(writer[s])
                                ELSE w[sock[s]][s]
         /\ \A e \in Epochs : e # sock[s] => \A r \in Sides : wire'[e][r] = w[e][r]
<1> DEFINE f == Flushed(writer[s])  o == sock[s]  v == Put(w, o, s, f)
<1>1. o \in Epochs /\ Peer(s) \in Sides /\ Peer(s) # s /\ f \in Seq(Message)
  <2>1. f = writer[s].buf \/ f = <<>>
    BY DEF Flushed
  <2>2. <<>> \in Seq(Message)
    OBVIOUS
  <2> QED BY <2>1, <2>2, Typed, PeerFacts
<1>2. v = IF MayStillBeRead(o, s) THEN [w EXCEPT ![o][s] = w[o][s] \o f] ELSE w
  BY DEF Put
<1>3. w[o][s] \o f \in Seq(Message)
  BY <1>1, CatFacts
<1>4. /\ v \in [Epochs -> [Sides -> Seq(Message)]]
      /\ v[o][s] = IF MayStillBeRead(o, s) THEN w[o][s] \o f ELSE w[o][s]
      /\ \A e \in Epochs : e # o => \A r \in Sides : v[e][r] = w[e][r]
  <2> HIDE DEF v, f
  <2> QED BY <1>1, <1>2, <1>3
<1>5. wire' = [v EXCEPT ![o][Peer(s)] = <<>>]
  BY DEF LeaveSocket
<1> HIDE DEF v, f
<1> QED BY <1>1, <1>4, <1>5 DEF f

LEMMA ReliableReconnect ==
  ASSUME IInv, IInv', RInv, NEW e \in Epochs, Reconnect(e)
  PROVE  RInv'
<1> DEFINE o == sock[Client]
<1>1. /\ Client \in Sides /\ Server \in Sides /\ Peer(Client) = Server /\ Client # Server
      /\ \A r \in Sides : r = Client \/ r = Server
  BY DEF Sides, Peer, Client, Server
<1>2. /\ wire \in [Epochs -> [Sides -> Seq(Message)]] /\ phase \in [Epochs -> Phases]
      /\ sock \in [Sides -> Epochs] /\ writer \in [Sides -> Writer] /\ isReconnecting \in [Sides -> BOOLEAN]
      /\ \A r \in Sides : incomingMsgId[r] \in Nat
  BY DEF IInv, TypeOK
<1>3. o \in Epochs /\ o \in Nat /\ e = o + 1 /\ sock[Server] \in Epochs
  BY <1>1, <1>2 DEF Reconnect, Epochs
<1>4. /\ sock' = [sock EXCEPT ![Client] = e] /\ phase' = [phase EXCEPT ![e] = "connecting"]
      /\ writer' = [writer EXCEPT ![Client] = NewWriter]
      /\ isReconnecting' = [isReconnecting EXCEPT ![Client] = TRUE]
      /\ UNCHANGED <<incomingMsgId, outgoingMsgId>> /\ wire' = LeaveSocket(wire, Client)
  BY DEF Reconnect, Begin, outVars, inVars
<1>5. /\ sock'[Client] = e /\ sock'[Server] = sock[Server]
      /\ isReconnecting'[Client] /\ isReconnecting'[Server] = isReconnecting[Server]
      /\ writer'[Client].buf = <<>> /\ writer'[Server] = writer[Server]
      /\ phase'[e] = "connecting" /\ \A x \in Epochs : x # e => phase'[x] = phase[x]
  BY <1>1, <1>2, <1>4 DEF NewWriter
<1>6. phase[e] = "idle" /\ wire[e][Client] = <<>> /\ wire[e][Server] = <<>> /\ e # sock[Server]
  <2>1. phase[e] = "idle"
    BY <1>3 DEF RInv, SocketPhases
  <2> QED BY <1>1, <1>3, <2>1, NotIdle DEF RInv, SocketPhases
<1>7. /\ wire'[o][Server] = <<>>
      /\ wire'[o][Client] = IF MayStillBeRead(o, Client) THEN wire[o][Client] \o Flushed(writer[Client])
                            ELSE wire[o][Client]
      /\ \A x \in Epochs : x # o => \A r \in Sides : wire'[x][r] = wire[x][r]
  BY <1>1, <1>2, <1>4, LeftWires
<1>8. wire'[e][Client] = <<>> /\ wire'[e][Server] = <<>>
  BY <1>1, <1>3, <1>6, <1>7
<1>9. /\ Unasked(wire'[o][Client])
      /\ phase[o] \in {"connecting", "accepted"} => NoRegular(wire'[o][Client])
      /\ phase[o] = "attached" => Gapless(wire'[o][Client], incomingMsgId[Server])
  <2> DEFINE p == wire[o][Client]  pf == wire[o][Client] \o Flushed(writer[Client])
  <2>1. /\ Unasked(pf)
        /\ \A n \in Nat : Gapless(Out(Client), n) => Gapless(pf, n)
        /\ phase[o] \in {"connecting", "accepted"} => NoRegular(pf)
    BY <1>1, FlushedFacts
  <2>2. Unasked(p) /\ (phase[o] \in {"connecting", "accepted"} => NoRegular(p))
    BY <1>1, <1>3 DEF RInv, NoReplay, HeldBack
  <2>3. ASSUME phase[o] = "attached"
        PROVE  Gapless(p, incomingMsgId[Server]) /\ Gapless(Out(Client), incomingMsgId[Server])
    <3>1. o = sock[Server]
      BY <1>3, <2>3 DEF RInv, SocketPhases
    <3> QED BY <2>3, <3>1 DEF RInv, ToServer
  <2> HIDE DEF p, pf
  <2> QED BY <1>1, <1>2, <1>7, <2>1, <2>2, <2>3 DEF p, pf
<1>10. SocketPhases'
  <2> SUFFICES ASSUME NEW x \in Epochs
               PROVE  /\ phase'[x] = "attached" <=> x = sock'[Server]
                      /\ phase'[x] = "idle" <=> sock'[Client] < x
                      /\ phase'[x] = "idle" => \A s \in Sides : wire'[x][s] = <<>>
    BY <1>5 DEF RInv, SocketPhases
  <2>1. CASE x = e
    BY <1>3, <1>5, <1>6, <2>1 DEF Epochs
  <2>2. CASE x # e
    <3>1. phase'[x] = phase[x] /\ sock'[Server] = sock[Server] /\ sock'[Client] = o + 1 /\ x # o + 1
      BY <1>3, <1>5, <2>2
    <3>2. /\ phase[x] = "attached" <=> x = sock[Server]
          /\ phase[x] = "idle" <=> o < x
          /\ phase[x] = "idle" => \A s \in Sides : wire[x][s] = <<>>
      BY DEF RInv, SocketPhases
    <3>3. x \in Nat /\ (o < x <=> o + 1 < x)
      BY <1>3, <3>1 DEF Epochs
    <3>4. phase[x] = "idle" => \A s \in Sides : wire'[x][s] = <<>>
      BY <1>3, <1>7, <3>2
    <3> QED BY <3>1, <3>2, <3>3, <3>4
  <2> QED BY <2>1, <2>2
<1>11. NoReplay'
  <2>1. Unasked(<<>>)
    BY DEF Unasked
  <2>2. \A r \in Sides : Unasked(writer'[r].buf)
    BY <1>1, <1>5, <2>1 DEF RInv, NoReplay
  <2>3. \A r \in Sides : Unasked(wire'[o][r])
    BY <1>1, <1>7, <1>9, <2>1
  <2>4. \A r \in Sides : \A x \in Epochs : Unasked(wire'[x][r])
    BY <1>7, <2>3 DEF RInv, NoReplay
  <2> QED BY <2>2, <2>4 DEF NoReplay
<1>12. NoRegular(<<>>) /\ \A n \in Nat : Gapless(<<>>, n)
  BY DEF NoRegular, Gapless
<1>13. HeldBack'
  <2>1. \A x \in Epochs : phase'[x] \in {"connecting", "accepted"} => NoRegular(wire'[x][Client])
    <3> SUFFICES ASSUME NEW x \in Epochs, phase'[x] \in {"connecting", "accepted"}
                 PROVE  NoRegular(wire'[x][Client])
      OBVIOUS
    <3>1. CASE x = e
      BY <1>8, <1>12, <3>1
    <3>2. CASE x # e /\ x = o
      BY <1>5, <1>9, <3>2
    <3>3. CASE x # e /\ x # o
      BY <1>1, <1>5, <1>7, <3>3 DEF RInv, HeldBack
    <3> QED BY <3>1, <3>2, <3>3
  <2> QED BY <1>5, <1>8, <1>12, <2>1 DEF HeldBack
<1>14. ToServer'
  <2>1. Gapless(wire'[sock[Server]][Client], incomingMsgId[Server])
    <3>1. CASE sock[Server] = o
      BY <1>3, <1>9, <3>1 DEF RInv, SocketPhases
    <3>2. CASE sock[Server] # o
      BY <1>1, <1>3, <1>7, <3>2 DEF RInv, ToServer
    <3> QED BY <3>1, <3>2
  <2>2. Out(Client)' = <<>>
    BY <1>5, <1>8 DEF Out
  <2> QED BY <1>1, <1>2, <1>4, <1>5, <1>12, <2>1, <2>2 DEF ToServer
<1>15. ToClient'
  BY <1>1, <1>2, <1>4, <1>5, <1>6, <1>8, <1>12 DEF ToClient
<1> QED BY <1>10, <1>11, <1>13, <1>14, <1>15 DEF RInv

\* What is left of a queue of signals holds no messages either.
LEMMA SuffixQuiet ==
  ASSUME NEW q \in Seq(Message), NEW k \in Nat
  PROVE  /\ SubSeq(q, k + 1, Len(q)) \in Seq(Message)
         /\ NoRegular(q) => NoRegular(SubSeq(q, k + 1, Len(q)))
         /\ Unasked(q) => Unasked(SubSeq(q, k + 1, Len(q)))
<1> DEFINE r == SubSeq(q, k + 1, Len(q))
<1>1. Len(q) \in Nat /\ r \in Seq(Message)
  BY LenProperties, SuffixType
<1>2. \A i \in 1 .. Len(r) : \E j \in 1 .. Len(q) : r[i] = q[j]
  <2>1. /\ Len(r) = IF k + 1 <= Len(q) THEN Len(q) - (k + 1) + 1 ELSE 0
        /\ \A i \in 1 .. Len(r) : r[i] = q[(k + 1) + i - 1]
    <3>1. \A i \in k + 1 .. Len(q) : q[i] \in Message
      BY <1>1
    <3>2. /\ Len(r) = IF k + 1 <= Len(q) THEN Len(q) - (k + 1) + 1 ELSE 0
          /\ \A i \in 1 .. Len(q) - (k + 1) + 1 : r[i] = q[(k + 1) + i - 1]
      BY <1>1, <3>1, SubSeqProperties
    <3> QED BY <1>1, <3>2
  <2> SUFFICES ASSUME NEW i \in 1 .. Len(r) PROVE \E j \in 1 .. Len(q) : r[i] = q[j]
    OBVIOUS
  <2>2. (k + 1) + i - 1 \in 1 .. Len(q)
    BY <1>1, <2>1
  <2> QED BY <2>1, <2>2
<1> HIDE DEF r
<1> QED BY <1>1, <1>2 DEF NoRegular, Unasked, r

\* The wires w when the server has read k messages from socket e and answered.
IsAnswered(w, e, k, msgs) ==
  /\ w \in [Epochs -> [Sides -> Seq(Message)]]
  /\ w[e][Client] = SubSeq(wire[e][Client], k + 1, Len(wire[e][Client]))
  /\ w[e][Server] = IF sock[Client] = e THEN wire[e][Server] \o msgs ELSE wire[e][Server]
  /\ \A x \in Epochs : x # e => \A r \in Sides : w[x][r] = wire[x][r]

LEMMA AnsweredWires ==
  ASSUME IInv, NEW e \in Epochs, NEW k \in Nat, NEW msgs \in Seq(Message),
         NEW w, w = Answered(e, k, msgs)
  PROVE  IsAnswered(w, e, k, msgs)
<1> DEFINE v == Put(wire, e, Server, msgs)
           q == SubSeq(wire[e][Client], k + 1, Len(wire[e][Client]))
<1>1. /\ Client \in Sides /\ Server \in Sides /\ Client # Server
      /\ wire \in [Epochs -> [Sides -> Seq(Message)]]
  BY DEF Sides, Client, Server, IInv, TypeOK
<1>2. wire[e][Server] \o msgs \in Seq(Message) /\ q \in Seq(Message)
  BY <1>1, CatFacts, SuffixQuiet
<1>3. v = IF sock[Client] = e THEN [wire EXCEPT ![e][Server] = wire[e][Server] \o msgs] ELSE wire
  BY <1>1 DEF Put, MayStillBeRead
<1>4. /\ v \in [Epochs -> [Sides -> Seq(Message)]]
      /\ v[e][Server] = IF sock[Client] = e THEN wire[e][Server] \o msgs ELSE wire[e][Server]
      /\ v[e][Client] = wire[e][Client]
      /\ \A x \in Epochs : x # e => \A r \in Sides : v[x][r] = wire[x][r]
  <2> HIDE DEF v
  <2> QED BY <1>1, <1>2, <1>3
<1>5. w = [v EXCEPT ![e][Client] = q]
  <2>1. w = [v EXCEPT ![e][Client] = SubSeq(v[e][Client], k + 1, Len(v[e][Client]))]
    BY DEF Answered
  <2> HIDE DEF v
  <2> QED BY <1>4, <2>1
<1> HIDE DEF v
<1> QED BY <1>1, <1>2, <1>4, <1>5 DEF q, IsAnswered

LEMMA Regroup ==
  ASSUME NEW p \in Seq(Message), NEW q \in Seq(Message), NEW r \in Seq(Message)
  PROVE  p \o (q \o r) = (p \o q) \o r
BY ConcatAssociative

\* The client's stream when the handshake has read some signals from its wire.
LEMMA AfterHandshake ==
  ASSUME IInv, RInv, NEW e \in Epochs, phase[e] \in {"connecting", "accepted"}, sock[Client] = e,
         NEW q \in Seq(Message), NoRegular(q), wire'[e][Client] = q,
         UNCHANGED <<incomingMsgId, outgoingMsgId, isReconnecting>>,
         writer'[Client] = writer[Client], sock'[Client] = sock[Client]
  PROVE  /\ Gapless(Out(Client)', incomingMsgId[Server])
         /\ ~isReconnecting[Client] =>
              Covers(Out(Client)', incomingMsgId[Server], outgoingMsgId[Client])
<1> DEFINE p == wire[e][Client]  b == writer[Client].buf
<1>1. /\ p \in Seq(Message) /\ b \in Seq(Message)
      /\ incomingMsgId[Server] \in Nat /\ outgoingMsgId[Client] \in Nat
  BY Typed DEF Sides
<1>2. NoRegular(p)
  BY DEF RInv, HeldBack
<1>3. Out(Client) = p \o b /\ Out(Client)' = q \o b
  BY DEF Out
<1>4. /\ Gapless(Out(Client), incomingMsgId[Server])
      /\ ~isReconnecting[Client] => Covers(Out(Client), incomingMsgId[Server], outgoingMsgId[Client])
  BY DEF RInv, ToServer
<1> HIDE DEF p, b
<1> QED BY <1>1, <1>2, <1>3, <1>4, QuietAside

LEMMA ReliableAcceptExtensionHost ==
  ASSUME IInv, IInv', RInv, NEW e \in Epochs, AcceptExtensionHost(e)
  PROVE  RInv'
<1> DEFINE msgs == <<Signal("Pause", 0), Signal("Control", 0)>>
<1>1. /\ Client \in Sides /\ Server \in Sides /\ Client # Server
      /\ \A r \in Sides : r = Client \/ r = Server
      /\ phase \in [Epochs -> Phases] /\ \A r \in Sides : sock[r] \in Epochs
      /\ \A x \in Epochs : \A r \in Sides : wire[x][r] \in Seq(Message)
  BY DEF Sides, Client, Server, IInv, TypeOK
<1>2. msgs \in Seq(Message) /\ NoRegular(msgs) /\ Unasked(msgs)
  <2>1. Signal("Pause", 0) \in Message /\ Signal("Control", 0) \in Message
    BY SignalType DEF Types
  <2>2. Signal("Pause", 0).type = "Pause" /\ Signal("Control", 0).type = "Control"
    BY DEF Signal
  <2> QED BY <2>1, <2>2 DEF NoRegular, Unasked, IsRegular
<1>3. PICK k \in 0 .. Len(wire[e][Client]) : wire' = Answered(e, k, msgs)
  BY DEF AcceptExtensionHost
<1>4. k \in Nat
  BY <1>1, LenProperties
<1>5. /\ phase[e] = "connecting" /\ phase' = [phase EXCEPT ![e] = "accepted"]
      /\ UNCHANGED <<sock, writer, isReconnecting, incomingMsgId, outgoingMsgId>>
  BY DEF AcceptExtensionHost, inVars, outVars
<1> DEFINE q == SubSeq(wire[e][Client], k + 1, Len(wire[e][Client]))
<1>6. q \in Seq(Message) /\ NoRegular(q) /\ Unasked(q)
  <2>1. NoRegular(wire[e][Client]) /\ Unasked(wire[e][Client])
    BY <1>1, <1>5 DEF RInv, HeldBack, NoReplay
  <2> QED BY <1>1, <1>4, <2>1, SuffixQuiet
<1>7. /\ wire'[e][Client] = q
      /\ wire'[e][Server] = IF sock[Client] = e THEN wire[e][Server] \o msgs ELSE wire[e][Server]
      /\ \A x \in Epochs : x # e => \A r \in Sides : wire'[x][r] = wire[x][r]
  <2> HIDE DEF msgs
  <2>1. IsAnswered(wire', e, k, msgs)
    BY <1>2, <1>3, <1>4, AnsweredWires
  <2> QED BY <2>1 DEF IsAnswered
<1> DEFINE Answer == wire[e][Server] \o msgs
<1>8. Unasked(Answer) /\ (sock[Client] = e => Answer = msgs /\ isReconnecting[Client])
  <2>1. Unasked(wire[e][Server]) /\ wire[e][Server] \in Seq(Message)
    BY <1>1 DEF RInv, NoReplay
  <2>2. sock[Client] = e => wire[e][Server] = <<>> /\ isReconnecting[Client]
    BY <1>5 DEF RInv, HeldBack
  <2>3. <<>> \o msgs = msgs
    BY <1>2, ConcatEmptySeq
  <2> HIDE DEF msgs
  <2> QED BY <1>2, <2>1, <2>2, <2>3, UnaskedCat
<1>9. /\ e # sock[Server]
      /\ phase'[e] = "accepted" /\ \A x \in Epochs : x # e => phase'[x] = phase[x]
  BY <1>1, <1>5 DEF RInv, SocketPhases
<1> HIDE DEF q, msgs
<1>10. SocketPhases'
  <2>1. \A x \in Epochs : phase'[x] = "idle" => \A s \in Sides : wire'[x][s] = <<>>
    BY <1>7, <1>9 DEF RInv, SocketPhases
  <2>2. \A x \in Epochs : phase'[x] = "idle" <=> phase[x] = "idle"
    BY <1>5, <1>9
  <2>3. \A x \in Epochs : phase'[x] = "attached" <=> phase[x] = "attached"
    BY <1>5, <1>9
  <2> QED BY <1>5, <2>1, <2>2, <2>3 DEF RInv, SocketPhases
<1>11. NoReplay'
  <2>1. \A x \in Epochs : \A r \in Sides : Unasked(wire'[x][r])
    BY <1>1, <1>6, <1>7, <1>8 DEF RInv, NoReplay
  <2> QED BY <1>5, <2>1 DEF RInv, NoReplay
<1>12. HeldBack'
  <2>1. \A x \in Epochs : phase'[x] \in {"connecting", "accepted"} => NoRegular(wire'[x][Client])
    BY <1>1, <1>6, <1>7, <1>9 DEF RInv, HeldBack
  <2>2. CASE sock[Client] = e
    <3>1. wire'[e][Server] = <<Pausing, Connecting>>
      BY <1>7, <1>8, <2>2 DEF msgs, Pausing, Connecting
    <3> QED BY <1>5, <1>8, <1>9, <2>1, <2>2, <3>1 DEF RInv, HeldBack
  <2>3. CASE sock[Client] # e
    <3>1. phase'[sock[Client]] = phase[sock[Client]] /\ wire'[sock[Client]][Server] = wire[sock[Client]][Server]
      BY <1>1, <1>7, <1>9, <2>3
    <3> QED BY <1>5, <2>1, <3>1 DEF RInv, HeldBack
  <2> QED BY <2>2, <2>3
<1>13. ToServer'
  <2>1. Gapless(wire'[sock[Server]][Client], incomingMsgId[Server])
    BY <1>1, <1>7, <1>9 DEF RInv, ToServer
  <2>2. CASE sock[Client] = e
    <3>1. /\ Gapless(Out(Client)', incomingMsgId[Server])
          /\ ~isReconnecting[Client] => Covers(Out(Client)', incomingMsgId[Server], outgoingMsgId[Client])
      BY <1>5, <1>6, <1>7, <2>2, AfterHandshake
    <3> QED BY <1>5, <2>1, <3>1 DEF ToServer
  <2>3. CASE sock[Client] # e
    <3>1. phase'[sock[Client]] = phase[sock[Client]] /\ Out(Client)' = Out(Client)
      BY <1>1, <1>5, <1>7, <1>9, <2>3 DEF Out
    <3> QED BY <1>5, <2>1, <3>1 DEF RInv, ToServer
  <2> QED BY <2>2, <2>3
<1>14. ToClient'
  <2>1. Gapless(wire'[sock[Client]][Server], incomingMsgId[Client])
    <3>1. CASE sock[Client] = e
      <4>1. wire'[e][Server] = msgs /\ incomingMsgId[Client] \in Nat
        BY <1>1, <1>7, <1>8, <3>1, Typed
      <4> QED BY <1>2, <3>1, <4>1, QuietIsGapless
    <3>2. CASE sock[Client] # e
      BY <1>1, <1>7, <3>2 DEF RInv, ToClient
    <3> QED BY <3>1, <3>2
  <2>2. Out(Server)' = Out(Server)
    BY <1>1, <1>5, <1>7, <1>9 DEF Out
  <2> QED BY <1>5, <2>1, <2>2 DEF RInv, ToClient
<1> QED BY <1>10, <1>11, <1>12, <1>13, <1>14 DEF RInv

LEMMA ReliableAttach ==
  ASSUME IInv, IInv', RInv, NEW e \in Epochs, phase[e] \in {"connecting", "accepted"},
         NEW w \in [Epochs -> [Sides -> Seq(Message)]], NEW n \in Nat,
         NEW c \in Seq(Message), NoRegular(c), Unasked(c),
         NEW extra \in Seq(Message), NoRegular(extra), Unasked(extra),
         NoRegular(w[e][Client]), Unasked(w[e][Client]), w[e][Server] = wire[e][Server] \o c,
         \A x \in Epochs : x # e => \A r \in Sides : w[x][r] = wire[x][r],
         Attach(e, n, w, extra)
  PROVE  RInv'
<1> DEFINE o == sock[Server]
           q == SubSeq(w[e][Client], n + 1, Len(w[e][Client]))
           v == [w EXCEPT ![e][Client] = q]
<1>1. /\ Client \in Sides /\ Server \in Sides /\ Client # Server
      /\ Peer(Server) = Client /\ Peer(Client) = Server
      /\ \A r \in Sides : r = Client \/ r = Server
  BY DEF Sides, Peer, Client, Server
<1>2. /\ phase \in [Epochs -> Phases] /\ sock \in [Sides -> Epochs] /\ writer \in [Sides -> Writer]
      /\ \A x \in Epochs : \A r \in Sides : wire[x][r] \in Seq(Message)
      /\ \A r \in Sides : incomingMsgId[r] \in Nat /\ sock[r] \in Epochs
  <2>1. phase \in [Epochs -> Phases] /\ sock \in [Sides -> Epochs] /\ writer \in [Sides -> Writer]
    BY DEF IInv, TypeOK
  <2> QED BY <2>1, Typed
<1>3. /\ UNCHANGED <<isReconnecting, outgoingMsgId, incomingMsgId>>
      /\ sock' = [sock EXCEPT ![Server] = e]
      /\ writer' = [writer EXCEPT ![Server] = Write(NewWriter, Resent(Server) \o extra)]
      /\ phase' = [phase EXCEPT ![e] = "attached", ![o] = "left"]
      /\ wire' = LeaveSocket([w EXCEPT ![e][Client] = SubSeq(@, n + 1, Len(@))], Server)
  BY DEF Attach, Begin
<1>4. phase[o] = "attached" /\ e # o /\ o \in Epochs
  BY <1>1, <1>2 DEF RInv, SocketPhases
<1>5. /\ sock'[Server] = e /\ sock'[Client] = sock[Client] /\ writer'[Client] = writer[Client]
      /\ phase'[e] = "attached" /\ phase'[o] = "left"
      /\ \A x \in Epochs : x # e /\ x # o => phase'[x] = phase[x]
  BY <1>1, <1>2, <1>3, <1>4
<1>6. q \in Seq(Message) /\ NoRegular(q) /\ Unasked(q)
  BY <1>1, SuffixQuiet
<1>7. /\ v \in [Epochs -> [Sides -> Seq(Message)]]
      /\ v[e][Client] = q /\ v[e][Server] = wire[e][Server] \o c
      /\ \A x \in Epochs : x # e => \A r \in Sides : v[x][r] = wire[x][r]
  <2> HIDE DEF q
  <2> QED BY <1>1, <1>6
<1>8. wire' = LeaveSocket(v, Server)
  BY <1>3, Zenon
<1> HIDE DEF q, v
<1>9. /\ wire'[o][Client] = <<>>
      /\ wire'[o][Server] = IF MayStillBeRead(o, Server) THEN wire[o][Server] \o Flushed(writer[Server])
                            ELSE wire[o][Server]
      /\ \A x \in Epochs : x # o => \A r \in Sides : wire'[x][r] = v[x][r]
  <2>1. /\ wire'[o][Peer(Server)] = <<>>
        /\ wire'[o][Server] = IF MayStillBeRead(o, Server) THEN v[o][Server] \o Flushed(writer[Server])
                              ELSE v[o][Server]
        /\ \A x \in Epochs : x # o => \A r \in Sides : wire'[x][r] = v[x][r]
    BY <1>1, <1>7, <1>8, LeftWires
  <2>2. v[o][Server] = wire[o][Server]
    BY <1>1, <1>4, <1>7
  <2> QED BY <1>1, <2>1, <2>2
<1>10. /\ wire'[e][Client] = q /\ wire'[e][Server] = wire[e][Server] \o c
       /\ \A x \in Epochs : x # o /\ x # e => \A r \in Sides : wire'[x][r] = wire[x][r]
  <2>1. \A r \in Sides : wire'[e][r] = v[e][r]
    BY <1>4, <1>9
  <2>2. wire'[e][Client] = q /\ wire'[e][Server] = wire[e][Server] \o c
    BY <1>1, <1>7, <2>1
  <2>3. ASSUME NEW x \in Epochs, x # o, x # e, NEW r \in Sides
        PROVE  wire'[x][r] = wire[x][r]
    <3>1. wire'[x][r] = v[x][r]
      BY <1>9, <2>3
    <3>2. v[x][r] = wire[x][r]
      BY <1>7, <2>3
    <3> QED BY <3>1, <3>2
  <2> QED BY <2>2, <2>3
<1>11. /\ Unasked(wire'[o][Server])
       /\ sock[Client] = o => Gapless(wire'[o][Server], incomingMsgId[Client])
  <2>1. /\ Unasked(wire[o][Server] \o Flushed(writer[Server]))
        /\ \A i \in Nat : Gapless(Out(Server), i) => Gapless(wire[o][Server] \o Flushed(writer[Server]), i)
    BY <1>1, FlushedFacts
  <2>2. Unasked(wire[o][Server])
    BY <1>1, <1>4 DEF RInv, NoReplay
  <2>3. sock[Client] = o => Gapless(Out(Server), incomingMsgId[Client]) /\ MayStillBeRead(o, Server)
    BY <1>1 DEF RInv, ToClient, MayStillBeRead
  <2> QED BY <1>1, <1>2, <1>9, <2>1, <2>2, <2>3
<1>12. /\ Resent(Server) \in Seq(Message) /\ Unasked(Resent(Server))
       /\ writer'[Server].buf = Resent(Server) \o extra
  <2>1. isReconnecting'[Server] = FALSE
    BY <1>3 DEF RInv, SocketPhases
  <2>2. Adds(Server, Resent(Server))
    BY <1>1, <1>3, <2>1, ResentAdded
  <2>3. Resent(Server) \in Seq(Message) /\ Unasked(Resent(Server))
    BY <2>2 DEF Adds, Unasked
  <2> DEFINE r == Resent(Server) \o extra
  <2>4. r \in Seq(Message)
    BY <2>3, CatFacts
  <2> HIDE DEF r
  <2>5. Write(NewWriter, r).buf = r
    <3>1. <<>> \o r = r
      BY <2>4, ConcatEmptySeq
    <3> QED BY <3>1 DEF Write, NewWriter
  <2>6. writer'[Server] = Write(NewWriter, r)
    BY <1>1, <1>2, <1>3 DEF r
  <2> QED BY <2>3, <2>5, <2>6 DEF r
<1>13. SocketPhases'
  <2>1. \A x \in Epochs : phase'[x] = "attached" <=> x = sock'[Server]
    <3>1. ASSUME NEW x \in Epochs, x # e, x # o
          PROVE  phase'[x] # "attached"
      <4>1. phase[x] # "attached"
        BY <3>1 DEF RInv, SocketPhases
      <4> QED BY <1>5, <3>1, <4>1
    <3> QED BY <1>4, <1>5, <3>1
  <2>2. \A x \in Epochs : phase'[x] = "idle" <=> phase[x] = "idle"
    BY <1>4, <1>5
  <2>3. \A x \in Epochs : phase'[x] = "idle" => \A s \in Sides : wire'[x][s] = <<>>
    <3>1. ASSUME NEW x \in Epochs, phase'[x] = "idle", NEW s \in Sides
          PROVE  wire'[x][s] = <<>>
      <4>1. x # e /\ x # o
        BY <1>5, <3>1
      <4>2. wire[x][s] = <<>>
        BY <2>2, <3>1 DEF RInv, SocketPhases
      <4> QED BY <1>10, <4>1, <4>2
    <3> QED BY <3>1
  <2> QED BY <1>3, <1>5, <2>1, <2>2, <2>3 DEF RInv, SocketPhases
<1>14. NoReplay'
  <2>1. Unasked(wire'[e][Server])
    <3>1. Unasked(wire[e][Server]) /\ wire[e][Server] \in Seq(Message)
      BY <1>1, <1>2 DEF RInv, NoReplay
    <3> QED BY <1>10, <3>1, UnaskedCat
  <2>2. Unasked(writer'[Server].buf)
    BY <1>12, UnaskedCat
  <2>3. Unasked(<<>>)
    BY DEF Unasked
  <2>4. \A r \in Sides : Unasked(writer'[r].buf)
    BY <1>1, <1>5, <2>2 DEF RInv, NoReplay
  <2>5. \A r \in Sides : Unasked(wire'[e][r]) /\ Unasked(wire'[o][r])
    BY <1>1, <1>6, <1>9, <1>10, <1>11, <2>1, <2>3
  <2>6. \A r \in Sides : \A x \in Epochs : Unasked(wire'[x][r])
    BY <1>10, <2>5 DEF RInv, NoReplay
  <2> QED BY <2>4, <2>6 DEF NoReplay
<1>15. HeldBack'
  <2>1. \A x \in Epochs : phase'[x] \in {"connecting", "accepted"} =>
          /\ x # e /\ x # o /\ phase[x] = phase'[x]
          /\ wire'[x][Client] = wire[x][Client] /\ wire'[x][Server] = wire[x][Server]
    BY <1>1, <1>5, <1>10
  <2>2. sock[Client] \in Epochs
    BY <1>1, <1>2
  <2>3. \A x \in Epochs : phase'[x] \in {"connecting", "accepted"} => NoRegular(wire'[x][Client])
    BY <2>1 DEF RInv, HeldBack
  <2>4. isReconnecting'[Client] = isReconnecting[Client] /\ writer'[Client] = writer[Client]
    BY <1>3, <1>5
  <2>5. phase'[sock[Client]] = "connecting" =>
          isReconnecting[Client] /\ wire'[sock[Client]][Server] = <<>>
    BY <2>1, <2>2 DEF RInv, HeldBack
  <2>6. phase'[sock[Client]] = "accepted" =>
          \/ isReconnecting[Client] /\ wire'[sock[Client]][Server] = <<Pausing, Connecting>>
          \/ /\ writer[Client].paused
             /\ \/ wire'[sock[Client]][Server] = <<>>
                \/ isReconnecting[Client] /\ wire'[sock[Client]][Server] = <<Connecting>>
    BY <2>1, <2>2 DEF RInv, HeldBack
  <2>7. isReconnecting[Client] => NoRegular(writer[Client].buf)
    BY DEF RInv, HeldBack
  <2> QED BY <1>5, <2>3, <2>4, <2>5, <2>6, <2>7 DEF HeldBack, Pausing, Connecting
<1>16. ToServer'
  <2>1. Gapless(wire'[e][Client], incomingMsgId[Server])
    BY <1>1, <1>2, <1>6, <1>10, QuietIsGapless
  <2>2. CASE sock[Client] = e
    <3>1. /\ Gapless(Out(Client)', incomingMsgId[Server])
          /\ ~isReconnecting[Client] => Covers(Out(Client)', incomingMsgId[Server], outgoingMsgId[Client])
      BY <1>3, <1>5, <1>6, <1>10, <2>2, AfterHandshake
    <3> QED BY <1>3, <1>5, <2>1, <3>1 DEF ToServer
  <2>3. CASE sock[Client] = o
    BY <1>3, <1>5, <2>1, <2>3 DEF ToServer
  <2>4. CASE sock[Client] # e /\ sock[Client] # o
    <3>1. /\ phase'[sock[Client]] = phase[sock[Client]]
          /\ wire'[sock[Client]][Client] = wire[sock[Client]][Client]
      BY <1>1, <1>2, <1>5, <1>10, <2>4
    <3>2. Out(Client)' = Out(Client)
      BY <1>5, <3>1 DEF Out
    <3> QED BY <1>3, <1>5, <2>1, <3>1, <3>2 DEF RInv, ToServer
  <2> QED BY <2>2, <2>3, <2>4
<1>17. ToClient'
  <2>1. CASE sock[Client] = e
    <3> DEFINE p == wire'[e][Server]  i == incomingMsgId[Client]
    <3>1. p \in Seq(Message) /\ Gapless(p, i) /\ i \in Nat
      <4>1. wire[e][Server] \in Seq(Message) /\ i \in Nat /\ p = wire[e][Server] \o c
        BY <1>1, <1>2, <1>10
      <4>2. Gapless(wire[e][Server], i)
        BY <2>1 DEF RInv, ToClient
      <4> HIDE DEF p, i
      <4> QED BY <4>1, <4>2, QuietEnd, CatFacts
    <3>2. Out(Server)' = p \o (Resent(Server) \o extra)
      BY <1>5, <1>12 DEF Out
    <3>3. i = incomingMsgId[Peer(Server)]
      BY <1>1
    <3> HIDE DEF p, i
    <3>4. Gapless(p \o Resent(Server), i) /\ Covers(p \o Resent(Server), i, outgoingMsgId'[Server])
      BY <1>1, <1>3, <3>1, <3>3, ResentGapless
    <3>5. p \o Resent(Server) \in Seq(Message)
      BY <1>12, <3>1, CatFacts
    <3>6. /\ Gapless((p \o Resent(Server)) \o extra, i)
          /\ Covers((p \o Resent(Server)) \o extra, i, outgoingMsgId'[Server])
      BY <3>1, <3>4, <3>5, QuietEnd, CoversCat
    <3>7. p \o (Resent(Server) \o extra) = (p \o Resent(Server)) \o extra
      <4> DEFINE r == Resent(Server)
      <4>1. r \in Seq(Message)
        BY <1>12
      <4> HIDE DEF r
      <4>2. p \o (r \o extra) = (p \o r) \o extra
        BY <3>1, <4>1, Regroup
      <4> QED BY <4>2 DEF r
    <3> QED BY <1>3, <1>5, <2>1, <3>1, <3>2, <3>6, <3>7 DEF ToClient, p, i
  <2>2. CASE sock[Client] # e
    <3>1. Gapless(wire'[sock[Client]][Server], incomingMsgId[Client])
      BY <1>1, <1>2, <1>10, <1>11, <2>2 DEF RInv, ToClient
    <3> QED BY <1>3, <1>5, <2>2, <3>1 DEF ToClient
  <2> QED BY <2>1, <2>2
<1> QED BY <1>13, <1>14, <1>15, <1>16, <1>17 DEF RInv

LEMMA ReliableAccept ==
  ASSUME IInv, IInv', RInv, NEW e \in Epochs, AcceptManagement(e) \/ AttachExtensionHost(e)
  PROVE  RInv'
<1> DEFINE control == <<Signal("Control", 0)>>
           resume == <<Signal("Resume", 0)>>
<1>1. /\ Client \in Sides /\ Server \in Sides /\ Client # Server
      /\ wire \in [Epochs -> [Sides -> Seq(Message)]] /\ wire[e][Client] \in Seq(Message)
      /\ wire[e][Server] \in Seq(Message)
  BY DEF Sides, Client, Server, IInv, TypeOK
<1>2. /\ control \in Seq(Message) /\ NoRegular(control) /\ Unasked(control)
      /\ resume \in Seq(Message) /\ NoRegular(resume) /\ Unasked(resume)
  <2>1. /\ Signal("Control", 0) \in Message /\ Signal("Resume", 0) \in Message
        /\ Signal("Control", 0).type = "Control" /\ Signal("Resume", 0).type = "Resume"
    BY SignalType DEF Signal, Types
  <2> QED BY <2>1 DEF NoRegular, Unasked, IsRegular
<1>3. <<>> \in Seq(Message) /\ NoRegular(<<>>) /\ Unasked(<<>>)
  BY DEF NoRegular, Unasked
<1>4. phase[e] \in {"connecting", "accepted"} => NoRegular(wire[e][Client]) /\ Unasked(wire[e][Client])
  BY <1>1 DEF RInv, HeldBack, NoReplay
<1>5. wire[e][Server] \o <<>> = wire[e][Server]
  BY <1>1, ConcatEmptySeq
<1>6. CASE AcceptManagement(e)
  <2>1. phase[e] = "connecting"
    BY <1>6 DEF AcceptManagement
  <2>2. PICK k \in 0 .. Len(wire[e][Client]), n \in 0 .. Len(wire[e][Client]) :
          Attach(e, n, Answered(e, k, control), <<>>)
    BY <1>6 DEF AcceptManagement
  <2>3. k \in Nat /\ n \in Nat
    BY <1>1, LenProperties
  <2> DEFINE w == Answered(e, k, control)
  <2> HIDE DEF control
  <2>4. w = Answered(e, k, control)
    OBVIOUS
  <2>5. Attach(e, n, w, <<>>)
    BY <2>2
  <2> HIDE DEF w
  <2>6. /\ w \in [Epochs -> [Sides -> Seq(Message)]]
        /\ w[e][Client] = SubSeq(wire[e][Client], k + 1, Len(wire[e][Client]))
        /\ w[e][Server] = IF sock[Client] = e THEN wire[e][Server] \o control ELSE wire[e][Server]
        /\ \A x \in Epochs : x # e => \A r \in Sides : w[x][r] = wire[x][r]
    <3>1. control \in Seq(Message)
      BY <1>2
    <3>2. IsAnswered(w, e, k, control)
      BY <2>3, <2>4, <3>1, AnsweredWires
    <3> QED BY <3>2 DEF IsAnswered
  <2>7. NoRegular(w[e][Client]) /\ Unasked(w[e][Client])
    BY <1>1, <1>4, <2>1, <2>3, <2>6, SuffixQuiet
  <2>8. \/ w[e][Server] = wire[e][Server] \o control
        \/ w[e][Server] = wire[e][Server] \o <<>>
    BY <1>5, <2>6
  <2>9. CASE w[e][Server] = wire[e][Server] \o control
    BY <1>2, <1>3, <2>1, <2>3, <2>5, <2>6, <2>7, <2>9, ReliableAttach
  <2>10. CASE w[e][Server] = wire[e][Server] \o <<>>
    BY <1>3, <2>1, <2>3, <2>5, <2>6, <2>7, <2>10, ReliableAttach
  <2> QED BY <2>8, <2>9, <2>10
<1>7. CASE AttachExtensionHost(e)
  <2>1. phase[e] = "accepted"
    BY <1>7 DEF AttachExtensionHost
  <2>2. PICK n \in 0 .. Len(wire[e][Client]) : Attach(e, n, wire, resume)
    BY <1>7 DEF AttachExtensionHost
  <2>3. n \in Nat
    BY <1>1, LenProperties
  <2> HIDE DEF resume
  <2> QED BY <1>1, <1>2, <1>3, <1>4, <1>5, <2>1, <2>2, <2>3, ReliableAttach
<1> QED BY <1>6, <1>7

(***************************************************************************)
(* No gaps                                                                 *)
(***************************************************************************)
LEMMA InitRInv == Init => RInv
<1> SUFFICES ASSUME Init PROVE RInv
  OBVIOUS
<1>1. /\ Client \in Sides /\ Server \in Sides /\ Client # Server /\ 0 \in Epochs
      /\ \A r \in Sides : r = Client \/ r = Server
  BY ConstantsAssumption DEF Sides, Client, Server, Epochs
<1>2. /\ \A s \in Sides : /\ sock[s] = 0 /\ isReconnecting[s] = FALSE
                          /\ incomingMsgId[s] = 0 /\ outgoingMsgId[s] = 0
                          /\ \A e \in Epochs : wire[e][s] = <<>>
      /\ \A e \in Epochs : phase[e] = IF e = 0 THEN "attached" ELSE "idle"
      /\ phase[0] = "attached"
  BY <1>1 DEF Init
<1>3. /\ writer[Client].buf = <<>>
      /\ writer[Server].buf = <<>> \/ writer[Server].buf = <<Signal("Resume", 0)>>
  <2>1. CASE HandsOff
    <3>1. writer[Client] = PauseWriter(NewWriter) /\ writer[Server] = Write(NewWriter, <<Signal("Resume", 0)>>)
      BY <1>1, <2>1 DEF Init
    <3>2. PauseWriter(NewWriter).buf = <<>>
      BY DEF PauseWriter, NewWriter
    <3> DEFINE r == <<Signal("Resume", 0)>>
    <3>3. r \in Seq({Signal("Resume", 0)})
      OBVIOUS
    <3> HIDE DEF r
    <3>4. Write(NewWriter, r).buf = r
      <4>1. <<>> \o r = r
        BY <3>3, ConcatEmptySeq
      <4> QED BY <4>1 DEF Write, NewWriter
    <3> QED BY <3>1, <3>2, <3>4 DEF r
  <2>2. CASE ~HandsOff
    <3>1. writer[Client] = NewWriter /\ writer[Server] = NewWriter
      BY <1>1, <2>2 DEF Init
    <3> QED BY <3>1 DEF NewWriter
  <2> QED BY <2>1, <2>2
<1>4. Unasked(<<>>) /\ NoRegular(<<>>) /\ <<>> \in Seq(Message)
  BY DEF Unasked, NoRegular
<1>5. /\ Unasked(writer[Server].buf) /\ NoRegular(writer[Server].buf)
      /\ writer[Server].buf \in Seq(Message)
  <2> DEFINE r == <<Signal("Resume", 0)>>
  <2>1. r \in Seq(Message) /\ Unasked(r) /\ NoRegular(r)
    <3>1. Signal("Resume", 0) \in Message /\ Signal("Resume", 0).type = "Resume"
      BY SignalType DEF Signal, Types
    <3> QED BY <3>1 DEF NoRegular, Unasked, IsRegular
  <2> HIDE DEF r
  <2> QED BY <1>3, <1>4, <2>1 DEF r
<1>6. SocketPhases
  <2>1. \A e \in Epochs : (e = 0 <=> phase[e] = "attached") /\ (phase[e] = "idle" <=> 0 < e)
    BY <1>2 DEF Epochs
  <2> QED BY <1>1, <1>2, <2>1 DEF SocketPhases
<1>7. NoReplay
  BY <1>1, <1>2, <1>3, <1>4, <1>5 DEF NoReplay
<1>8. HeldBack
  BY <1>1, <1>2, <1>3, <1>4 DEF HeldBack
<1>9. /\ Out(Client) = <<>> /\ Out(Server) = writer[Server].buf
  <2>1. Out(Client) = <<>> \o <<>> /\ Out(Server) = <<>> \o writer[Server].buf
    BY <1>1, <1>2, <1>3 DEF Out
  <2> QED BY <1>4, <1>5, <2>1, ConcatEmptySeq
<1>10. /\ \A n \in Nat : Gapless(<<>>, n) /\ Gapless(writer[Server].buf, n)
       /\ \A q : Covers(q, 0, 0)
  <2>1. \A q : Covers(q, 0, 0)
    BY DEF Covers
  <2> QED BY <1>4, <1>5, <2>1, QuietIsGapless
<1>11. ToServer /\ ToClient
  BY <1>1, <1>2, <1>9, <1>10 DEF ToServer, ToClient
<1> QED BY <1>6, <1>7, <1>8, <1>11 DEF RInv

LEMMA NextRInv ==
  ASSUME ~Lossy, IInv, IInv', RInv, [Next]_vars
  PROVE  RInv'
<1>1. CASE UNCHANGED vars
  BY <1>1, ReliableTimers DEF Sides
<1>2. ASSUME NEW s \in Sides, Lose(s) PROVE FALSE
  BY <1>2 DEF Lose
<1> QED BY <1>1, <1>2, ReliableSend, ReliableTimers, ReliableWriteNow, ReliableReceive, ReliableReconnect,
           ReliableAcceptExtensionHost, ReliableAccept DEF Next

LEMMA RInvGapFree == ASSUME IInv, RInv PROVE GapFree
<1> SUFFICES ASSUME NEW s \in Sides, NEW i \in DOMAIN Stream(s), IsRegular(Stream(s)[i]),
                    ~(Stream(s)[i].id <= incomingMsgId[s] + 1)
             PROVE  \E j \in 1 .. i - 1 : /\ Stream(s)[j].type = "Regular"
                                         /\ Stream(s)[j].id >= Stream(s)[i].id - 1
  BY DEF GapFree, IsRegular
<1>1. /\ Client \in Sides /\ Server \in Sides /\ Peer(Client) = Server /\ Peer(Server) = Client
      /\ s = Client \/ s = Server
  BY DEF Sides, Peer, Client, Server
<1>2. Stream(s) \in Seq(Message)
  BY <1>1, Typed, CatFacts DEF Stream, Incoming
<1>3. Gapless(Stream(s), incomingMsgId[s])
  <2>1. CASE sock[Peer(s)] = sock[s]
    <3>1. Stream(s) = Out(Peer(s))
      BY <2>1 DEF Stream, Incoming, Out
    <3>2. CASE s = Client
      BY <1>1, <2>1, <3>1, <3>2 DEF RInv, ToClient
    <3>3. CASE s = Server
      <4>1. phase[sock[Client]] # "left"
        BY <1>1, <2>1, <3>3, Typed DEF RInv, SocketPhases
      <4> QED BY <1>1, <2>1, <3>1, <3>3, <4>1 DEF RInv, ToServer
    <3> QED BY <1>1, <3>2, <3>3
  <2>2. CASE sock[Peer(s)] # sock[s]
    BY <1>1, <2>2 DEF Stream, Incoming, RInv, ToServer, ToClient
  <2> QED BY <2>1, <2>2
<1>4. i \in 1 .. Len(Stream(s))
  BY <1>2, LenProperties
<1>5. PICK j \in 1 .. i - 1 : IsRegular(Stream(s)[j]) /\ Stream(s)[i].id - 1 <= Stream(s)[j].id
  BY <1>3, <1>4 DEF Gapless
<1>6. j \in 1 .. Len(Stream(s))
  BY <1>2, <1>4, LenProperties
<1>7. Stream(s)[i].id \in Nat /\ Stream(s)[j].id \in Nat
  BY <1>2, <1>4, <1>6, IdType
<1> QED BY <1>5, <1>7 DEF IsRegular

\* On a network that loses nothing, no message ever arrives before its
\* predecessor, whatever is lost with the sockets: what endAcceptReconnection
\* resends closes every gap, the writer is paused for the hand-off before the
\* client resends, and ReplayRequest is never used.
THEOREM NoGaps == Spec => []GapFree
<1>1. CASE Lossy
  <2>1. GapFree
    BY <1>1 DEF GapFree
  <2> QED BY <2>1, PTL
<1>2. CASE ~Lossy
  <2>1. Init => RInv
    BY InitRInv
  <2>2. IInv /\ IInv' /\ RInv /\ [Next]_vars => RInv'
    BY <1>2, NextRInv
  <2>3. IInv /\ RInv => GapFree
    BY RInvGapFree
  <2> QED BY <2>1, <2>2, <2>3, Invariance, PTL DEF Spec
<1> QED BY <1>1, <1>2
=============================================================================
