------------------------ MODULE SharedStorage_proofs ------------------------
(***************************************************************************)
(* Proofs about SharedStorage: no window is left behind, for any number of *)
(* windows, keys and values, and whatever windows open, close and crash.   *)
(*                                                                         *)
(* And, at the end, proofs about ReleaseNotice, which is built on it: a    *)
(* window asks once a day, checks every day, and a dismissal stays.        *)
(***************************************************************************)
EXTENDS ReleaseNotice, SequenceTheorems, TLAPS

(***************************************************************************)
(* Queues of messages                                                      *)
(***************************************************************************)
\* A new message about k is the last one about k.
LEMMA AppendSays ==
  ASSUME NEW S, NEW q \in Seq(S), NEW m \in S, NEW k, k \in DOMAIN m.changes
  PROVE  /\ ~Silent(Append(q, m), k)
         /\ \A v : LastSays(Append(q, m), k, v) <=> m.changes[k] = v
<1> DEFINE p == Append(q, m)
<1>1. /\ Len(p) = Len(q) + 1 /\ Len(q) \in Nat
      /\ DOMAIN p = 1 .. Len(p)
      /\ p[Len(p)] = m
  BY AppendProperties, LenProperties
<1>2. ~Silent(p, k)
  BY <1>1 DEF Silent
<1>3. ASSUME NEW v, m.changes[k] = v PROVE LastSays(p, k, v)
  <2>1. Len(p) \in DOMAIN p /\ \A j \in DOMAIN p : ~(j > Len(p))
    BY <1>1
  <2> QED BY <1>1, <1>3, <2>1 DEF LastSays
<1>4. ASSUME NEW v, LastSays(p, k, v) PROVE m.changes[k] = v
  <2>1. PICK i \in DOMAIN p :
          /\ k \in DOMAIN p[i].changes /\ p[i].changes[k] = v
          /\ \A j \in DOMAIN p : j > i => k \notin DOMAIN p[j].changes
    BY <1>4 DEF LastSays
  <2>2. i = Len(p)
    BY <1>1, <2>1
  <2> QED BY <1>1, <2>1, <2>2
<1> QED BY <1>2, <1>3, <1>4

\* What is in a queue after a message was appended, or read.
LEMMA AppendElements ==
  ASSUME NEW S, NEW q \in Seq(S), NEW m \in S, NEW i \in DOMAIN Append(q, m)
  PROVE  (i \in DOMAIN q /\ Append(q, m)[i] = q[i]) \/ Append(q, m)[i] = m
<1>1. /\ Len(Append(q, m)) = Len(q) + 1 /\ Len(q) \in Nat
      /\ DOMAIN Append(q, m) = 1 .. Len(Append(q, m)) /\ DOMAIN q = 1 .. Len(q)
      /\ Append(q, m)[Len(Append(q, m))] = m
      /\ \A j \in 1 .. Len(q) : Append(q, m)[j] = q[j]
  BY AppendProperties, LenProperties
<1> QED BY <1>1

LEMMA TailElements ==
  ASSUME NEW S, NEW q \in Seq(S), q # <<>>, NEW i \in DOMAIN Tail(q)
  PROVE  i + 1 \in DOMAIN q /\ Tail(q)[i] = q[i + 1]
BY HeadTailProperties, LenProperties, EmptySeq

\* A new message about something else changes nothing for k.
LEMMA AppendKeeps ==
  ASSUME NEW S, NEW q \in Seq(S), NEW m \in S, NEW k, k \notin DOMAIN m.changes
  PROVE  /\ Silent(Append(q, m), k) <=> Silent(q, k)
         /\ \A v : LastSays(Append(q, m), k, v) <=> LastSays(q, k, v)
<1> DEFINE p == Append(q, m)
<1>1. /\ Len(p) = Len(q) + 1 /\ Len(q) \in Nat
      /\ DOMAIN p = 1 .. Len(p) /\ DOMAIN q = 1 .. Len(q)
      /\ p[Len(p)] = m
      /\ \A i \in 1 .. Len(q) : p[i] = q[i]
  BY AppendProperties, LenProperties
<1>2. \A i \in DOMAIN p : i \in DOMAIN q \/ i = Len(p)
  BY <1>1
<1>3. \A i \in DOMAIN q : i \in DOMAIN p /\ p[i] = q[i]
  BY <1>1
<1>4. Silent(p, k) <=> Silent(q, k)
  BY <1>1, <1>2, <1>3 DEF Silent
<1>5. ASSUME NEW v, LastSays(p, k, v) PROVE LastSays(q, k, v)
  <2>1. PICK i \in DOMAIN p :
          /\ k \in DOMAIN p[i].changes /\ p[i].changes[k] = v
          /\ \A j \in DOMAIN p : j > i => k \notin DOMAIN p[j].changes
    BY <1>5 DEF LastSays
  <2>2. i \in DOMAIN q
    BY <1>1, <1>2, <2>1
  <2> QED BY <1>3, <2>1, <2>2 DEF LastSays
<1>6. ASSUME NEW v, LastSays(q, k, v) PROVE LastSays(p, k, v)
  <2>1. PICK i \in DOMAIN q :
          /\ k \in DOMAIN q[i].changes /\ q[i].changes[k] = v
          /\ \A j \in DOMAIN q : j > i => k \notin DOMAIN q[j].changes
    BY <1>6 DEF LastSays
  <2>2. \A j \in DOMAIN p : j > i => k \notin DOMAIN p[j].changes
    BY <1>1, <1>2, <1>3, <2>1
  <2> QED BY <1>3, <2>1, <2>2 DEF LastSays
<1> QED BY <1>4, <1>5, <1>6

\* Reading the first message.
LEMMA TailSays ==
  ASSUME NEW S, NEW q \in Seq(S), q # <<>>, NEW k
  PROVE  /\ Silent(q, k) => Silent(Tail(q), k) /\ k \notin DOMAIN Head(q).changes
         /\ Silent(Tail(q), k) /\ k \notin DOMAIN Head(q).changes => Silent(q, k)
         /\ \A v : LastSays(q, k, v) =>
              \/ LastSays(Tail(q), k, v)
              \/ /\ Silent(Tail(q), k)
                 /\ k \in DOMAIN Head(q).changes /\ Head(q).changes[k] = v
<1> DEFINE t == Tail(q)
<1>1. /\ Len(q) \in Nat \ {0} /\ Len(t) = Len(q) - 1
      /\ DOMAIN q = 1 .. Len(q) /\ DOMAIN t = 1 .. Len(t)
      /\ Head(q) = q[1]
      /\ \A i \in 1 .. Len(t) : t[i] = q[i + 1]
  BY HeadTailProperties, LenProperties, EmptySeq
<1>2. \A i \in DOMAIN t : i + 1 \in DOMAIN q /\ t[i] = q[i + 1]
  BY <1>1
<1>3. \A i \in DOMAIN q : i = 1 \/ (i - 1 \in DOMAIN t /\ t[i - 1] = q[i])
  BY <1>1
<1>4. 1 \in DOMAIN q /\ Head(q) = q[1]
  BY <1>1
<1>5. Silent(q, k) <=> Silent(t, k) /\ k \notin DOMAIN Head(q).changes
  BY <1>2, <1>3, <1>4 DEF Silent
<1>6. ASSUME NEW v, LastSays(q, k, v)
      PROVE  \/ LastSays(t, k, v)
             \/ /\ Silent(t, k)
                /\ k \in DOMAIN Head(q).changes /\ Head(q).changes[k] = v
  <2>1. PICK i \in DOMAIN q :
          /\ k \in DOMAIN q[i].changes /\ q[i].changes[k] = v
          /\ \A j \in DOMAIN q : j > i => k \notin DOMAIN q[j].changes
    BY <1>6 DEF LastSays
  <2>2. CASE i = 1
    <3>1. \A j \in DOMAIN t : j + 1 \in DOMAIN q /\ j + 1 > 1 /\ t[j] = q[j + 1]
      BY <1>1
    <3>2. Silent(t, k)
      BY <2>1, <2>2, <3>1 DEF Silent
    <3> QED BY <1>4, <2>1, <2>2, <3>2
  <2>3. CASE i # 1
    <3>1. i - 1 \in DOMAIN t /\ t[i - 1] = q[i]
      BY <1>3, <2>3
    <3>2. \A j \in DOMAIN t : j > i - 1 => j + 1 \in DOMAIN q /\ j + 1 > i /\ t[j] = q[j + 1]
      BY <1>1, <2>1
    <3>3. \A j \in DOMAIN t : j > i - 1 => k \notin DOMAIN t[j].changes
      BY <2>1, <3>2
    <3> QED BY <2>1, <3>1, <3>3 DEF LastSays
  <2> QED BY <2>2, <2>3
<1> QED BY <1>5, <1>6

\* An empty queue says nothing.
LEMMA EmptySays ==
  ASSUME NEW k
  PROVE  Silent(<<>>, k) /\ \A v : ~LastSays(<<>>, k, v)
BY DEF Silent, LastSays

\* What is silent has no last word.
LEMMA SilentOrSays ==
  ASSUME NEW q, NEW k, NEW v, Silent(q, k)
  PROVE  ~LastSays(q, k, v)
BY DEF Silent, LastSays

(***************************************************************************)
(* Types                                                                   *)
(***************************************************************************)
LEMMA ChangesIntro ==
  ASSUME NEW D, D \subseteq Keys, NEW f \in [D -> Value]
  PROVE  f \in Changes
BY DEF Changes

LEMMA ChangesElim ==
  ASSUME NEW c \in Changes
  PROVE  DOMAIN c \subseteq Keys /\ \A k \in DOMAIN c : c[k] \in Value
<1>1. PICK D \in SUBSET Keys : c \in [D -> Value]
  BY DEF Changes
<1> QED BY <1>1

LEMMA ChangesTypes ==
  /\ NoChange \in Changes
  /\ Rows \subseteq Changes
  /\ \A c \in Changes, k \in Keys, v \in Value : With(c, k, v) \in Changes
  /\ \A r \in Rows, c \in Changes : Merge(r, c) \in Rows
<1>1. NoChange \in Changes
  <2>1. NoChange \in [{} -> Value]
    BY DEF NoChange
  <2> QED BY <2>1, ChangesIntro
<1>2. Rows \subseteq Changes
  BY ChangesIntro DEF Rows
<1>3. ASSUME NEW c \in Changes, NEW k \in Keys, NEW v \in Value
      PROVE  With(c, k, v) \in Changes
  <2>1. DOMAIN c \subseteq Keys /\ \A x \in DOMAIN c : c[x] \in Value
    BY ChangesElim
  <2>2. With(c, k, v) \in [DOMAIN c \cup {k} -> Value]
    BY <2>1 DEF With
  <2>3. DOMAIN c \cup {k} \subseteq Keys
    BY <2>1
  <2> QED BY <2>2, <2>3, ChangesIntro
<1>4. ASSUME NEW r \in Rows, NEW c \in Changes PROVE Merge(r, c) \in Rows
  <2>1. \A x \in DOMAIN c : c[x] \in Value
    BY ChangesElim
  <2>2. \A x \in Keys : r[x] \in Value
    BY DEF Rows
  <2> QED BY <2>1, <2>2 DEF Merge, Rows
<1> QED BY <1>1, <1>2, <1>3, <1>4

\* Messages made of well-typed changes are well-typed.
LEMMA MessageTypes ==
  ASSUME NEW c \in Changes
  PROVE  /\ Message("updateItems", c) \in Call
         /\ Message("listen", NoChange) \in Call
         /\ Message("getItems", NoChange) \in Call
         /\ \A t \in {"items", "done", "change"} : Message(t, c) \in Answer
BY ChangesTypes DEF Message, Call, Answer

\* A queue keeps its type when a message is read from it or appended to it.
LEMMA QueueTypes ==
  ASSUME NEW S, NEW q \in Seq(S)
  PROVE  /\ \A m \in S : Append(q, m) \in Seq(S)
         /\ q # <<>> => Head(q) \in S /\ Tail(q) \in Seq(S)
BY AppendProperties, HeadTailProperties

\* The answer to getItems has all rows, that to updateItems none.
AnswersFit ==
  \A w \in Windows : \A i \in DOMAIN toWindow[w] :
    /\ toWindow[w][i].type = "items" => toWindow[w][i].changes \in Rows
    /\ toWindow[w][i].type = "done" => toWindow[w][i].changes = NoChange

LEMMA TypesInit == Init => TypeOK
<1> SUFFICES ASSUME Init PROVE TypeOK
  OBVIOUS
<1>1. Nothing \in Rows /\ NoChange \in Changes
  BY ChangesTypes DEF Nothing, Rows, Value
<1>2. \A S : <<>> \in Seq(S)
  BY EmptySeq
<1> QED BY <1>1, <1>2 DEF Init, TypeOK, Statuses

LEMMA TypesRequest ==
  ASSUME TypeOK, Request
  PROVE  TypeOK'
<1> USE DEF TypeOK
<1>0. NoChange \in Changes /\ Nothing \in Rows /\ \A S : <<>> \in Seq(S)
  BY ChangesTypes, EmptySeq DEF Nothing, Rows, Value
<1>1. ASSUME NEW w \in Windows, Open(w) PROVE TypeOK'
  <2>1. <<Message("listen", NoChange), Message("getItems", NoChange)>> \in Seq(Call)
    BY <1>0, MessageTypes
  <2> QED BY <1>1, <2>1 DEF Open, Statuses
<1>2. ASSUME NEW w \in Windows, Close(w) PROVE TypeOK'
  BY <1>2 DEF Close, channelVars, Statuses
<1>3. ASSUME NEW w \in Windows, Crash(w) PROVE TypeOK'
  BY <1>0, <1>3 DEF Crash, Gone, Statuses
<1>4. ASSUME NEW w \in Windows, NEW k \in Keys, NEW v \in Value, Set(w, k, v)
      PROVE  TypeOK'
  <2>1. With(pending[w], k, v) \in Changes
    BY ChangesTypes
  <2>2. pending' \in [Windows -> Changes]
    BY <1>4, <2>1 DEF Set
  <2>3. cache' \in [Windows -> Rows]
    BY <1>4 DEF Set, Rows
  <2> QED BY <1>4, <2>2, <2>3 DEF Set, channelVars
<1>5. ASSUME NEW k \in Keys, NEW v \in Value, StoreInMain(k, v) PROVE TypeOK'
  <2>1. main' \in Rows
    BY <1>5 DEF StoreInMain, Rows
  <2> QED BY <1>5, <2>1 DEF StoreInMain, windowVars, channelVars
<1> QED BY <1>1, <1>2, <1>3, <1>4, <1>5 DEF Request

LEMMA TypesPropagate ==
  ASSUME TypeOK, AnswersFit, Propagate
  PROVE  TypeOK'
<1> USE DEF TypeOK
<1>0. NoChange \in Changes /\ Nothing \in Rows /\ \A S : <<>> \in Seq(S)
  BY ChangesTypes, EmptySeq DEF Nothing, Rows, Value
<1>1. CASE FireChange
  <2>1. Event \in Changes
    <3>1. Event \in [changed -> Value]
      BY DEF Event, Rows
    <3> QED BY <3>1, ChangesIntro
  <2>2. Message("change", Event) \in Answer
    BY <2>1, MessageTypes
  <2>3. \A w \in Windows : Append(toWindow[w], Message("change", Event)) \in Seq(Answer)
    BY <2>2, QueueTypes
  <2>4. toWindow' \in [Windows -> Seq(Answer)]
    BY <1>1, <2>3 DEF FireChange
  <2> QED BY <1>1, <2>4 DEF FireChange, windowVars
<1>2. ASSUME NEW w \in Windows, Flush(w) PROVE TypeOK'
  <2>1. Append(toMain[w], Message("updateItems", pending[w])) \in Seq(Call)
    BY MessageTypes, QueueTypes
  <2> QED BY <1>0, <1>2, <2>1 DEF Flush
<1>3. ASSUME NEW w \in Windows, Closed(w) PROVE TypeOK'
  BY <1>0, <1>3 DEF Closed, Gone, Statuses
<1>4. ASSUME NEW w \in Windows, NEW type, Receive(w, type)
      PROVE  /\ toWindow' \in [Windows -> Seq(Answer)]
             /\ Head(toWindow[w]) \in Answer
  BY <1>4, QueueTypes DEF Receive
<1>5. ASSUME NEW w \in Windows, NEW type, Handle(w, type)
      PROVE  /\ toMain' \in [Windows -> Seq(Call)]
             /\ Head(toMain[w]) \in Call
  BY <1>5, QueueTypes DEF Handle
<1>6. ASSUME NEW w \in Windows, ReceiveItems(w) PROVE TypeOK'
  <2>1. /\ 1 \in DOMAIN toWindow[w] /\ Head(toWindow[w]) = toWindow[w][1]
        /\ Head(toWindow[w]).type = "items"
    BY <1>6, HeadTailProperties, LenProperties, EmptySeq DEF ReceiveItems, Receive
  <2>2. Head(toWindow[w]).changes \in Rows
    BY <2>1 DEF AnswersFit
  <2>3. toWindow' \in [Windows -> Seq(Answer)]
    BY <1>4, <1>6 DEF ReceiveItems
  <2> QED BY <1>6, <2>2, <2>3 DEF ReceiveItems, Receive, Statuses
<1>7. ASSUME NEW w \in Windows, ReceiveDone(w) PROVE TypeOK'
  <2>1. toWindow' \in [Windows -> Seq(Answer)]
    BY <1>4, <1>7 DEF ReceiveDone
  <2> QED BY <1>7, <2>1 DEF ReceiveDone, Receive
<1>8. ASSUME NEW w \in Windows, ReceiveChange(w) PROVE TypeOK'
  <2>1. toWindow' \in [Windows -> Seq(Answer)] /\ Head(toWindow[w]) \in Answer
    BY <1>4, <1>8 DEF ReceiveChange
  <2>2. Merge(cache[w], Head(toWindow[w]).changes) \in Rows
    BY <2>1, ChangesTypes DEF Answer
  <2> QED BY <1>8, <2>1, <2>2 DEF ReceiveChange, Receive
<1>9. ASSUME NEW w \in Windows, HandleListen(w) PROVE TypeOK'
  <2>1. toMain' \in [Windows -> Seq(Call)]
    BY <1>5, <1>9 DEF HandleListen
  <2> QED BY <1>9, <2>1 DEF HandleListen, Handle, windowVars
<1>10. ASSUME NEW w \in Windows, NEW answer \in Answer, Reply(w, answer)
       PROVE  toWindow' \in [Windows -> Seq(Answer)]
  BY <1>10, QueueTypes DEF Reply
<1>11. ASSUME NEW w \in Windows, HandleGetItems(w) PROVE TypeOK'
  <2>1. Message("items", main) \in Answer
    BY ChangesTypes, MessageTypes
  <2>2. toMain' \in [Windows -> Seq(Call)] /\ toWindow' \in [Windows -> Seq(Answer)]
    BY <1>5, <1>10, <1>11, <2>1 DEF HandleGetItems
  <2> QED BY <1>11, <2>2 DEF HandleGetItems, Handle, windowVars
<1>12. ASSUME NEW w \in Windows, HandleUpdate(w) PROVE TypeOK'
  <2>1. Message("done", NoChange) \in Answer
    BY <1>0, MessageTypes
  <2>2. /\ toMain' \in [Windows -> Seq(Call)] /\ toWindow' \in [Windows -> Seq(Answer)]
        /\ Head(toMain[w]).changes \in Changes
    BY <1>5, <1>10, <1>12, <2>1 DEF HandleUpdate, Call
  <2>3. main' \in Rows
    BY <1>12, <2>2, ChangesTypes DEF HandleUpdate
  <2>4. changed' \in SUBSET Keys
    BY <1>12, <2>2, ChangesElim DEF HandleUpdate, Differing
  <2> QED BY <1>12, <2>2, <2>3, <2>4 DEF HandleUpdate, Handle, windowVars
<1> QED
  BY <1>1, <1>2, <1>3, <1>6, <1>7, <1>8, <1>9, <1>11, <1>12 DEF Propagate, Step

(***************************************************************************)
(* The inductive invariant                                                 *)
(***************************************************************************)
\* Whoever has anything to read has a listener, and hears of every change.
Listeners ==
  \A w \in Windows :
    /\ status[w] \in {"open", "closing"} => listening[w]
    /\ toWindow[w] # <<>> => listening[w]
    /\ status[w] = "opening" /\ ~listening[w] => Head(toMain[w]).type = "listen"
    /\ status[w] = "closed" => ~listening[w]

\* The last word about a key is true, or another one follows.
NewsIsTrue ==
  \A w \in Windows, k \in Keys :
    k \notin changed /\ ~Silent(toWindow[w], k) =>
      LastSays(toWindow[w], k, main[k])

\* Only updates carry changes to the main process.
CallsFit ==
  \A w \in Windows : \A i \in DOMAIN toMain[w] :
    toMain[w][i].type # "updateItems" => toMain[w][i].changes = NoChange

\* When nothing more is to come, a window shows what the main process has, or
\* the last change of its own, which the main process is still to hear of.
OwnOrMain ==
  \A w \in Windows, k \in Keys :
    status[w] = "open" /\ k \notin changed /\ Silent(toWindow[w], k) =>
      \/ cache[w][k] = main[k]
      \/ k \in DOMAIN pending[w] /\ pending[w][k] = cache[w][k]
      \/ k \notin DOMAIN pending[w] /\ LastSays(toMain[w], k, cache[w][k])

Delivery == TypeOK /\ AnswersFit /\ Listeners /\ NewsIsTrue /\ OwnOrMain

LEMMA InitDelivery == Init => Delivery
<1> SUFFICES ASSUME Init PROVE Delivery
  OBVIOUS
<1>1. TypeOK
  BY TypesInit
<1>2. \A w \in Windows : toWindow[w] = <<>>
  BY DEF Init
<1>3. AnswersFit
  BY <1>2 DEF AnswersFit
<1>4. Listeners
  BY <1>2 DEF Listeners, Init
<1>5. \A w \in Windows, k \in Keys : Silent(toWindow[w], k)
  BY <1>2, EmptySays
<1>6. NewsIsTrue
  BY <1>5 DEF NewsIsTrue
<1>7. OwnOrMain
  BY DEF OwnOrMain, Init
<1> QED BY <1>1, <1>3, <1>4, <1>6, <1>7 DEF Delivery

(***************************************************************************)
(* What the windows do                                                     *)
(***************************************************************************)
\* A window that goes, in order or not, leaves nothing behind.
LEMMA GoneInv ==
  ASSUME Delivery, NEW w \in Windows, Gone(w), TypeOK'
  PROVE  Delivery'
<1> USE DEF Delivery
<1>1. toWindow'[w] = <<>> /\ \A x \in Windows \ {w} : toWindow'[x] = toWindow[x]
  BY DEF Gone, TypeOK
<1>2. AnswersFit'
  BY <1>1 DEF AnswersFit
<1>3. NewsIsTrue'
  <2> SUFFICES ASSUME NEW x \in Windows, NEW k \in Keys,
                      k \notin changed', ~Silent(toWindow'[x], k)
               PROVE  LastSays(toWindow'[x], k, main'[k])
    BY DEF NewsIsTrue
  <2>1. x # w
    BY <1>1, EmptySays
  <2> QED BY <1>1, <2>1 DEF Gone, NewsIsTrue
<1>4. Listeners'
  BY <1>1 DEF Gone, Listeners, TypeOK
<1>5. OwnOrMain'
  BY DEF Gone, OwnOrMain, TypeOK
<1> QED BY <1>2, <1>3, <1>4, <1>5

\* Windows that open, close or go, and clients that change something there.
LEMMA RequestInv ==
  ASSUME Delivery, Request
  PROVE  Delivery'
<1> USE DEF Delivery
<1>0. TypeOK'
  BY TypesRequest
<1>1. ASSUME NEW w \in Windows, Open(w) PROVE Delivery'
  <2>1. Head(toMain'[w]).type = "listen"
    BY <1>1 DEF Open, TypeOK, Message
  <2>2. AnswersFit' /\ NewsIsTrue'
    BY <1>1 DEF Open, AnswersFit, NewsIsTrue
  <2>3. Listeners'
    BY <1>1, <2>1 DEF Open, Listeners, TypeOK
  <2>4. OwnOrMain'
    BY <1>1 DEF Open, OwnOrMain, TypeOK
  <2> QED BY <1>0, <2>2, <2>3, <2>4
<1>2. ASSUME NEW w \in Windows, Close(w) PROVE Delivery'
  <2>1. AnswersFit' /\ NewsIsTrue'
    BY <1>2 DEF Close, channelVars, AnswersFit, NewsIsTrue
  <2>2. Listeners'
    BY <1>2 DEF Close, channelVars, Listeners, TypeOK
  <2>3. OwnOrMain'
    BY <1>2 DEF Close, channelVars, OwnOrMain, TypeOK
  <2> QED BY <1>0, <2>1, <2>2, <2>3
<1>3. ASSUME NEW w \in Windows, Crash(w) PROVE Delivery'
  BY <1>0, <1>3, GoneInv DEF Crash
<1>4. ASSUME NEW w \in Windows, NEW k \in Keys, NEW v \in Value, Set(w, k, v)
      PROVE  Delivery'
  <2>1. AnswersFit' /\ NewsIsTrue' /\ Listeners'
    BY <1>4 DEF Set, channelVars, AnswersFit, NewsIsTrue, Listeners
  <2>2. OwnOrMain'
    <3> SUFFICES ASSUME NEW x \in Windows, NEW c \in Keys,
                        status'[x] = "open", c \notin changed', Silent(toWindow'[x], c)
                 PROVE  \/ cache'[x][c] = main'[c]
                        \/ c \in DOMAIN pending'[x] /\ pending'[x][c] = cache'[x][c]
                        \/ c \notin DOMAIN pending'[x] /\ LastSays(toMain'[x], c, cache'[x][c])
      BY DEF OwnOrMain
    <3>1. UNCHANGED <<main, changed, status, toMain, toWindow>>
      BY <1>4 DEF Set, channelVars
    <3>2. CASE x = w /\ c = k
      <4>1. pending'[w] = With(pending[w], k, v) /\ cache'[w][k] = v
        BY <1>4 DEF Set, TypeOK, Rows
      <4> QED BY <3>2, <4>1 DEF With
    <3>3. CASE ~(x = w /\ c = k)
      <4>1. cache'[x][c] = cache[x][c]
        BY <1>4, <3>3 DEF Set, TypeOK, Rows
      <4>2. /\ c \in DOMAIN pending'[x] <=> c \in DOMAIN pending[x]
            /\ c \in DOMAIN pending[x] => pending'[x][c] = pending[x][c]
        BY <1>4, <3>3 DEF Set, TypeOK, With
      <4> QED BY <3>1, <4>1, <4>2 DEF OwnOrMain
    <3> QED BY <3>2, <3>3
  <2> QED BY <1>0, <2>1, <2>2
<1>5. ASSUME NEW k \in Keys, NEW v \in Value, StoreInMain(k, v) PROVE Delivery'
  <2>1. /\ UNCHANGED <<status, cache, pending, listening, toMain, toWindow>>
        /\ changed' = changed \cup {k}
        /\ \A c \in Keys \ {k} : main'[c] = main[c]
    BY <1>5 DEF StoreInMain, windowVars, channelVars, TypeOK, Rows
  <2>2. AnswersFit' /\ Listeners'
    BY <2>1 DEF AnswersFit, Listeners
  <2>3. NewsIsTrue'
    BY <2>1 DEF NewsIsTrue
  <2>4. OwnOrMain'
    BY <2>1 DEF OwnOrMain
  <2> QED BY <1>0, <2>2, <2>3, <2>4
<1> QED
  BY <1>0, <1>1, <1>2, <1>3, <1>4, <1>5 DEF Request

\* A window reads a message: of news that are true, the last word stays true.
LEMMA ReadNews ==
  ASSUME Delivery, NEW w \in Windows, NEW type, Receive(w, type)
  PROVE  /\ AnswersFit' /\ NewsIsTrue'
         /\ listening[w]
         /\ \A k \in Keys :
              k \notin changed /\ Silent(toWindow'[w], k)
                /\ k \in DOMAIN Head(toWindow[w]).changes =>
                  Head(toWindow[w]).changes[k] = main[k]
<1> USE DEF Delivery
<1> DEFINE q == toWindow[w]
<1>1. /\ q \in Seq(Answer) /\ q # <<>>
      /\ toWindow'[w] = Tail(q)
      /\ \A x \in Windows \ {w} : toWindow'[x] = toWindow[x]
      /\ UNCHANGED <<main, changed>>
  BY DEF Receive, TypeOK
<1>2. \A i \in DOMAIN Tail(q) : i + 1 \in DOMAIN q /\ Tail(q)[i] = q[i + 1]
  BY <1>1, HeadTailProperties, LenProperties, EmptySeq
<1>3. AnswersFit'
  <2> SUFFICES ASSUME NEW x \in Windows, NEW i \in DOMAIN toWindow'[x]
               PROVE  LET a == toWindow'[x][i]
                      IN  /\ a.type = "items" => a.changes \in Rows
                          /\ a.type = "done" => a.changes = NoChange
    BY DEF AnswersFit
  <2>1. CASE x = w
    <3>1. i + 1 \in DOMAIN q /\ toWindow'[x][i] = q[i + 1]
      BY <1>1, <1>2, <2>1
    <3> QED BY <3>1 DEF AnswersFit
  <2>2. CASE x # w
    BY <1>1, <2>2 DEF AnswersFit
  <2> QED BY <2>1, <2>2
<1>4. ASSUME NEW k \in Keys, k \notin changed
      PROVE  /\ ~Silent(Tail(q), k) => LastSays(Tail(q), k, main[k])
             /\ Silent(Tail(q), k) /\ k \in DOMAIN Head(q).changes =>
                  Head(q).changes[k] = main[k]
  <2>1. ~Silent(q, k) => LastSays(q, k, main[k])
    BY <1>4 DEF NewsIsTrue
  <2>2. /\ Silent(q, k) => Silent(Tail(q), k) /\ k \notin DOMAIN Head(q).changes
        /\ LastSays(q, k, main[k]) =>
             \/ LastSays(Tail(q), k, main[k])
             \/ Silent(Tail(q), k) /\ Head(q).changes[k] = main[k]
    BY <1>1, TailSays
  <2>3. Silent(Tail(q), k) => ~LastSays(Tail(q), k, main[k])
    BY SilentOrSays
  <2> QED BY <2>1, <2>2, <2>3
<1>5. NewsIsTrue'
  <2> SUFFICES ASSUME NEW x \in Windows, NEW k \in Keys,
                      k \notin changed', ~Silent(toWindow'[x], k)
               PROVE  LastSays(toWindow'[x], k, main'[k])
    BY DEF NewsIsTrue
  <2>1. CASE x = w
    BY <1>1, <1>4, <2>1
  <2>2. CASE x # w
    BY <1>1, <2>2 DEF NewsIsTrue
  <2> QED BY <2>1, <2>2
<1>6. listening[w]
  BY <1>1 DEF Listeners
<1> QED BY <1>1, <1>3, <1>4, <1>5, <1>6

LEMMA ReceiveInv ==
  ASSUME Delivery, TypeOK', NEW w \in Windows,
         ReceiveItems(w) \/ ReceiveDone(w) \/ ReceiveChange(w)
  PROVE  Delivery'
<1> USE DEF Delivery
<1> DEFINE m == Head(toWindow[w])
<1>1. PICK type : Receive(w, type)
  BY DEF ReceiveItems, ReceiveDone, ReceiveChange
<1>2. /\ UNCHANGED <<main, changed, pending, listening, toMain>>
      /\ \A x \in Windows \ {w} : /\ toWindow'[x] = toWindow[x]
                                  /\ status'[x] = status[x] /\ cache'[x] = cache[x]
      /\ toWindow[w] \in Seq(Answer) /\ toWindow[w] # <<>>
      /\ toWindow'[w] = Tail(toWindow[w])
  BY <1>1 DEF Receive, ReceiveItems, ReceiveDone, ReceiveChange, TypeOK
<1>3. /\ AnswersFit' /\ NewsIsTrue' /\ listening[w]
      /\ \A k \in Keys :
           k \notin changed /\ Silent(toWindow'[w], k) /\ k \in DOMAIN m.changes =>
             m.changes[k] = main[k]
  BY <1>1, ReadNews
<1>4. status'[w] = status[w] \/ status'[w] = "open"
  BY DEF ReceiveItems, ReceiveDone, ReceiveChange, TypeOK
<1>5. Listeners'
  BY <1>2, <1>3, <1>4 DEF Listeners
<1>6. ASSUME NEW k \in Keys, status'[w] = "open", k \notin changed,
             Silent(toWindow'[w], k)
      PROVE  \/ cache'[w][k] = main[k]
             \/ /\ status[w] = "open" /\ k \notin DOMAIN m.changes
                /\ cache'[w][k] = cache[w][k]
  <2>1. CASE ReceiveItems(w)
    <3>1. m.type = "items" /\ m = toWindow[w][1] /\ 1 \in DOMAIN toWindow[w]
      BY <1>2, <2>1, HeadTailProperties, LenProperties, EmptySeq DEF ReceiveItems, Receive
    <3>2. m.changes \in Rows
      BY <3>1 DEF AnswersFit
    <3>3. cache'[w] = m.changes
      BY <2>1 DEF ReceiveItems, TypeOK
    <3> QED BY <1>3, <1>6, <3>2, <3>3 DEF Rows
  <2>2. CASE ReceiveChange(w)
    <3>1. status[w] = "open" /\ cache'[w] = Merge(cache[w], m.changes)
      BY <1>6, <2>2 DEF ReceiveChange, TypeOK
    <3> QED BY <1>3, <1>6, <3>1 DEF Merge
  <2>3. CASE ReceiveDone(w)
    <3>1. status[w] = "open" /\ cache'[w] = cache[w]
      BY <1>6, <2>3 DEF ReceiveDone
    <3>2. m.type = "done" /\ m = toWindow[w][1] /\ 1 \in DOMAIN toWindow[w]
      BY <1>2, <2>3, HeadTailProperties, LenProperties, EmptySeq DEF ReceiveDone, Receive
    <3>3. m.changes = NoChange
      BY <3>2 DEF AnswersFit
    <3> QED BY <3>1, <3>3 DEF NoChange
  <2> QED BY <2>1, <2>2, <2>3
<1>7. OwnOrMain'
  <2> SUFFICES ASSUME NEW x \in Windows, NEW k \in Keys,
                      status'[x] = "open", k \notin changed', Silent(toWindow'[x], k)
               PROVE  \/ cache'[x][k] = main'[k]
                      \/ k \in DOMAIN pending'[x] /\ pending'[x][k] = cache'[x][k]
                      \/ k \notin DOMAIN pending'[x] /\ LastSays(toMain'[x], k, cache'[x][k])
    BY DEF OwnOrMain
  <2>1. CASE x # w
    BY <1>2, <2>1 DEF OwnOrMain
  <2>2. CASE x = w /\ cache'[w][k] = main[k]
    BY <1>2, <2>2
  <2>3. CASE /\ x = w /\ status[w] = "open" /\ k \notin DOMAIN m.changes
             /\ cache'[w][k] = cache[w][k]
    <3>1. Silent(toWindow[w], k)
      BY <1>2, <2>3, TailSays
    <3> QED BY <1>2, <2>3, <3>1 DEF OwnOrMain
  <2> QED BY <1>2, <1>6, <2>1, <2>2, <2>3
<1> QED BY <1>3, <1>5, <1>7

LEMMA FlushInv ==
  ASSUME Delivery, TypeOK', NEW w \in Windows, Flush(w)
  PROVE  Delivery'
<1> USE DEF Delivery
<1>1. /\ UNCHANGED <<main, changed, status, cache, listening, toWindow>>
      /\ pending'[w] = NoChange
      /\ toMain'[w] = Append(toMain[w], Message("updateItems", pending[w]))
      /\ \A x \in Windows \ {w} : toMain'[x] = toMain[x] /\ pending'[x] = pending[x]
  BY DEF Flush, TypeOK
<1>2. AnswersFit' /\ NewsIsTrue'
  BY <1>1 DEF AnswersFit, NewsIsTrue
<1>3. Listeners'
  BY <1>1 DEF Listeners, Flush
<1>4. OwnOrMain'
  <2> SUFFICES ASSUME NEW x \in Windows, NEW k \in Keys,
                      status'[x] = "open", k \notin changed', Silent(toWindow'[x], k)
               PROVE  \/ cache'[x][k] = main'[k]
                      \/ k \in DOMAIN pending'[x] /\ pending'[x][k] = cache'[x][k]
                      \/ k \notin DOMAIN pending'[x] /\ LastSays(toMain'[x], k, cache'[x][k])
    BY DEF OwnOrMain
  <2>1. CASE x # w
    BY <1>1, <2>1 DEF OwnOrMain
  <2>2. CASE x = w
    <3> DEFINE m == Message("updateItems", pending[w])
    <3>1. m \in Call /\ m.changes = pending[w] /\ toMain[w] \in Seq(Call)
      BY MessageTypes DEF Message, TypeOK
    <3>2. k \notin DOMAIN pending'[w]
      BY <1>1 DEF NoChange
    <3>3. CASE k \in DOMAIN pending[w]
      <4>1. LastSays(toMain'[w], k, cache[w][k]) <=> pending[w][k] = cache[w][k]
        BY <1>1, <3>1, <3>3, AppendSays
      <4> QED BY <1>1, <2>2, <3>2, <3>3, <4>1 DEF OwnOrMain
    <3>4. CASE k \notin DOMAIN pending[w]
      <4>1. LastSays(toMain'[w], k, cache[w][k]) <=> LastSays(toMain[w], k, cache[w][k])
        BY <1>1, <3>1, <3>4, AppendKeeps
      <4> QED BY <1>1, <2>2, <3>2, <3>4, <4>1 DEF OwnOrMain
    <3> QED BY <3>3, <3>4
  <2> QED BY <2>1, <2>2
<1> QED BY <1>2, <1>3, <1>4

(***************************************************************************)
(* What the main process does                                              *)
(***************************************************************************)
\* The windows that have a listener hear of all keys that have changed.
LEMMA FireInv ==
  ASSUME Delivery, TypeOK', FireChange
  PROVE  Delivery'
<1> USE DEF Delivery
<1> DEFINE m == Message("change", Event)
<1>1. /\ UNCHANGED <<main, status, cache, pending, listening, toMain>>
      /\ changed' = {}
      /\ \A x \in Windows : toWindow'[x] = IF listening[x] THEN Append(toWindow[x], m)
                                          ELSE toWindow[x]
  BY DEF FireChange, windowVars, TypeOK
<1>2. /\ m.type = "change" /\ DOMAIN m.changes = changed
      /\ \A k \in changed : m.changes[k] = main[k]
  BY DEF Message, Event
<1>3. m \in Answer
  <2>1. Event \in [changed -> Value]
    BY DEF Event, TypeOK, Rows
  <2>2. Event \in Changes
    BY <2>1, ChangesIntro DEF TypeOK
  <2> QED BY <2>2, MessageTypes
<1>4. \A x \in Windows : toWindow[x] \in Seq(Answer)
  BY DEF TypeOK
<1>5. \A x \in Windows : ~listening[x] => toWindow[x] = <<>>
  BY DEF Listeners
<1>6. AnswersFit'
  <2> SUFFICES ASSUME NEW x \in Windows, NEW i \in DOMAIN toWindow'[x]
               PROVE  LET a == toWindow'[x][i]
                      IN  /\ a.type = "items" => a.changes \in Rows
                          /\ a.type = "done" => a.changes = NoChange
    BY DEF AnswersFit
  <2>1. \/ i \in DOMAIN toWindow[x] /\ toWindow'[x][i] = toWindow[x][i]
        \/ toWindow'[x][i] = m
    <3>1. CASE listening[x]
      <4>1. toWindow'[x] = Append(toWindow[x], m) /\ toWindow[x] \in Seq(Answer)
        BY <1>1, <1>4, <3>1
      <4> QED BY <1>3, <4>1, AppendElements
    <3>2. CASE ~listening[x]
      BY <1>1, <3>2
    <3> QED BY <3>1, <3>2
  <2> QED BY <1>2, <2>1 DEF AnswersFit
<1>7. Listeners'
  <2>1. \A x \in Windows : toWindow'[x] # <<>> => listening[x]
    BY <1>1, <1>5
  <2> QED BY <1>1, <2>1 DEF Listeners
<1>8. ASSUME NEW x \in Windows, NEW k \in Keys, listening[x]
      PROVE  /\ k \in changed => /\ ~Silent(toWindow'[x], k)
                                 /\ LastSays(toWindow'[x], k, main[k])
             /\ k \notin changed =>
                  /\ Silent(toWindow'[x], k) <=> Silent(toWindow[x], k)
                  /\ LastSays(toWindow'[x], k, main[k]) <=> LastSays(toWindow[x], k, main[k])
  <2>1. toWindow'[x] = Append(toWindow[x], m)
    BY <1>1, <1>8
  <2>2. CASE k \in changed
    BY <1>2, <1>3, <1>4, <2>1, <2>2, AppendSays
  <2>3. CASE k \notin changed
    BY <1>2, <1>3, <1>4, <2>1, <2>3, AppendKeeps
  <2> QED BY <2>2, <2>3
<1>9. NewsIsTrue'
  <2> SUFFICES ASSUME NEW x \in Windows, NEW k \in Keys, ~Silent(toWindow'[x], k)
               PROVE  LastSays(toWindow'[x], k, main'[k])
    BY DEF NewsIsTrue
  <2>1. CASE listening[x]
    BY <1>1, <1>8, <2>1 DEF NewsIsTrue
  <2>2. CASE ~listening[x]
    <3>1. toWindow'[x] = <<>>
      BY <1>1, <1>5, <2>2
    <3> QED BY <3>1, EmptySays
  <2> QED BY <2>1, <2>2
<1>10. OwnOrMain'
  <2> SUFFICES ASSUME NEW x \in Windows, NEW k \in Keys,
                      status'[x] = "open", Silent(toWindow'[x], k)
               PROVE  \/ cache'[x][k] = main'[k]
                      \/ k \in DOMAIN pending'[x] /\ pending'[x][k] = cache'[x][k]
                      \/ k \notin DOMAIN pending'[x] /\ LastSays(toMain'[x], k, cache'[x][k])
    BY DEF OwnOrMain
  <2>1. listening[x]
    BY <1>1 DEF Listeners
  <2>2. k \notin changed /\ Silent(toWindow[x], k)
    BY <1>8, <2>1
  <2> QED BY <1>1, <2>2 DEF OwnOrMain
<1> QED BY <1>6, <1>7, <1>9, <1>10

LEMMA ListenInv ==
  ASSUME Delivery, TypeOK', CallsFit, NEW w \in Windows, HandleListen(w)
  PROVE  Delivery'
<1> USE DEF Delivery
<1>1. /\ UNCHANGED <<main, changed, status, cache, pending, toWindow>>
      /\ listening'[w] = (status[w] # "closed")
      /\ \A x \in Windows \ {w} : listening'[x] = listening[x] /\ toMain'[x] = toMain[x]
      /\ toMain[w] \in Seq(Call) /\ toMain[w] # <<>>
      /\ Head(toMain[w]).type = "listen" /\ toMain'[w] = Tail(toMain[w])
  BY DEF HandleListen, Handle, windowVars, TypeOK
<1>2. AnswersFit' /\ NewsIsTrue'
  BY <1>1 DEF AnswersFit, NewsIsTrue
<1>3. Listeners'
  BY <1>1 DEF Listeners
<1>4. OwnOrMain'
  <2> SUFFICES ASSUME NEW x \in Windows, NEW k \in Keys,
                      status'[x] = "open", k \notin changed', Silent(toWindow'[x], k)
               PROVE  \/ cache'[x][k] = main'[k]
                      \/ k \in DOMAIN pending'[x] /\ pending'[x][k] = cache'[x][k]
                      \/ k \notin DOMAIN pending'[x] /\ LastSays(toMain'[x], k, cache'[x][k])
    BY DEF OwnOrMain
  <2>1. CASE x # w
    BY <1>1, <2>1 DEF OwnOrMain
  <2>2. CASE x = w
    <3>1. Head(toMain[w]) = toMain[w][1] /\ 1 \in DOMAIN toMain[w]
      BY <1>1, HeadTailProperties, LenProperties, EmptySeq
    <3>2. k \notin DOMAIN Head(toMain[w]).changes
      BY <1>1, <3>1 DEF CallsFit, NoChange
    <3>3. LastSays(toMain[w], k, cache[w][k]) => LastSays(toMain'[w], k, cache[w][k])
      BY <1>1, <3>2, TailSays
    <3> QED BY <1>1, <2>2, <3>3 DEF OwnOrMain
  <2> QED BY <2>1, <2>2
<1> QED BY <1>2, <1>3, <1>4

\* The values a window asks for are the true ones.
LEMMA ItemsInv ==
  ASSUME Delivery, TypeOK', CallsFit, NEW w \in Windows, HandleGetItems(w)
  PROVE  Delivery'
<1> USE DEF Delivery
<1> DEFINE m == Message("items", main)
<1>1. /\ UNCHANGED <<main, changed, status, cache, pending, listening>>
      /\ toWindow'[w] = IF status[w] = "closed" THEN toWindow[w] ELSE Append(toWindow[w], m)
      /\ \A x \in Windows \ {w} : toWindow'[x] = toWindow[x] /\ toMain'[x] = toMain[x]
      /\ toMain[w] \in Seq(Call) /\ toMain[w] # <<>>
      /\ Head(toMain[w]).type = "getItems" /\ toMain'[w] = Tail(toMain[w])
      /\ toWindow[w] \in Seq(Answer)
  BY DEF HandleGetItems, Handle, Reply, windowVars, TypeOK
<1>2. m \in Answer /\ m.type = "items" /\ m.changes = main
  BY ChangesTypes, MessageTypes DEF TypeOK, Message
<1>3. DOMAIN main = Keys /\ main \in Rows
  BY DEF TypeOK, Rows
<1>4. status[w] # "closed" => listening[w]
  BY <1>1 DEF Listeners, TypeOK, Statuses
<1>5. AnswersFit'
  <2> SUFFICES ASSUME NEW x \in Windows, NEW i \in DOMAIN toWindow'[x]
               PROVE  LET a == toWindow'[x][i]
                      IN  /\ a.type = "items" => a.changes \in Rows
                          /\ a.type = "done" => a.changes = NoChange
    BY DEF AnswersFit
  <2>1. \/ i \in DOMAIN toWindow[x] /\ toWindow'[x][i] = toWindow[x][i]
        \/ toWindow'[x][i] = m
    <3>1. CASE x = w /\ status[w] # "closed"
      <4>1. toWindow'[x] = Append(toWindow[w], m)
        BY <1>1, <3>1
      <4>2. i \in DOMAIN Append(toWindow[w], m)
        BY <4>1
      <4>3. \/ i \in DOMAIN toWindow[w] /\ Append(toWindow[w], m)[i] = toWindow[w][i]
            \/ Append(toWindow[w], m)[i] = m
        BY <1>1, <1>2, <4>2, AppendElements
      <4> QED BY <3>1, <4>1, <4>3
    <3>2. CASE ~(x = w /\ status[w] # "closed")
      BY <1>1, <3>2
    <3> QED BY <3>1, <3>2
  <2> QED BY <1>2, <1>3, <2>1 DEF AnswersFit
<1>6. Listeners'
  BY <1>1, <1>4 DEF Listeners
<1>7. ASSUME NEW k \in Keys, status[w] # "closed"
      PROVE  ~Silent(toWindow'[w], k) /\ LastSays(toWindow'[w], k, main[k])
  BY <1>1, <1>2, <1>3, <1>7, AppendSays
<1>8. NewsIsTrue'
  <2> SUFFICES ASSUME NEW x \in Windows, NEW k \in Keys,
                      k \notin changed', ~Silent(toWindow'[x], k)
               PROVE  LastSays(toWindow'[x], k, main'[k])
    BY DEF NewsIsTrue
  <2>1. CASE x = w /\ status[w] # "closed"
    BY <1>1, <1>7, <2>1
  <2>2. CASE ~(x = w /\ status[w] # "closed")
    BY <1>1, <2>2 DEF NewsIsTrue
  <2> QED BY <2>1, <2>2
<1>9. OwnOrMain'
  <2> SUFFICES ASSUME NEW x \in Windows, NEW k \in Keys,
                      status'[x] = "open", k \notin changed', Silent(toWindow'[x], k)
               PROVE  \/ cache'[x][k] = main'[k]
                      \/ k \in DOMAIN pending'[x] /\ pending'[x][k] = cache'[x][k]
                      \/ k \notin DOMAIN pending'[x] /\ LastSays(toMain'[x], k, cache'[x][k])
    BY DEF OwnOrMain
  <2>1. x # w
    BY <1>1, <1>7
  <2> QED BY <1>1, <2>1 DEF OwnOrMain
<1> QED BY <1>5, <1>6, <1>8, <1>9

\* An update changes what the main process has, and then all will hear of it,
\* or it says what the main process has already.
LEMMA UpdateInv ==
  ASSUME Delivery, TypeOK', NEW w \in Windows, HandleUpdate(w)
  PROVE  Delivery'
<1> USE DEF Delivery
<1> DEFINE c == Head(toMain[w]).changes
           m == Message("done", NoChange)
<1>1. /\ UNCHANGED <<status, cache, pending, listening>>
      /\ toWindow'[w] = IF status[w] = "closed" THEN toWindow[w] ELSE Append(toWindow[w], m)
      /\ \A x \in Windows \ {w} : toWindow'[x] = toWindow[x] /\ toMain'[x] = toMain[x]
      /\ toMain[w] \in Seq(Call) /\ toMain[w] # <<>>
      /\ Head(toMain[w]).type = "updateItems" /\ toMain'[w] = Tail(toMain[w])
      /\ toWindow[w] \in Seq(Answer)
      /\ main' = Merge(main, c) /\ changed' = changed \cup Differing(main, c)
  BY DEF HandleUpdate, Handle, Reply, windowVars, TypeOK
<1>2. m \in Answer /\ m.type = "done" /\ m.changes = NoChange
  BY ChangesTypes, MessageTypes DEF Message
<1>3. \A k \in Keys : k \notin changed' =>
        /\ k \notin changed /\ main'[k] = main[k]
        /\ k \in DOMAIN c => c[k] = main[k]
  BY <1>1 DEF Merge, Differing
<1>4. status[w] # "closed" => listening[w]
  BY <1>1 DEF Listeners, TypeOK, Statuses
<1>5. AnswersFit'
  <2> SUFFICES ASSUME NEW x \in Windows, NEW i \in DOMAIN toWindow'[x]
               PROVE  LET a == toWindow'[x][i]
                      IN  /\ a.type = "items" => a.changes \in Rows
                          /\ a.type = "done" => a.changes = NoChange
    BY DEF AnswersFit
  <2>1. \/ i \in DOMAIN toWindow[x] /\ toWindow'[x][i] = toWindow[x][i]
        \/ toWindow'[x][i] = m
    <3>1. CASE x = w /\ status[w] # "closed"
      <4>1. toWindow'[x] = Append(toWindow[w], m)
        BY <1>1, <3>1
      <4>2. i \in DOMAIN Append(toWindow[w], m)
        BY <4>1
      <4>3. \/ i \in DOMAIN toWindow[w] /\ Append(toWindow[w], m)[i] = toWindow[w][i]
            \/ Append(toWindow[w], m)[i] = m
        BY <1>1, <1>2, <4>2, AppendElements
      <4> QED BY <3>1, <4>1, <4>3
    <3>2. CASE ~(x = w /\ status[w] # "closed")
      BY <1>1, <3>2
    <3> QED BY <3>1, <3>2
  <2> QED BY <1>2, <2>1 DEF AnswersFit
<1>6. Listeners'
  BY <1>1, <1>4 DEF Listeners
<1>7. \A x \in Windows, k \in Keys :
        /\ Silent(toWindow'[x], k) <=> Silent(toWindow[x], k)
        /\ \A v : LastSays(toWindow'[x], k, v) <=> LastSays(toWindow[x], k, v)
  <2> SUFFICES ASSUME NEW k \in Keys
               PROVE  /\ Silent(toWindow'[w], k) <=> Silent(toWindow[w], k)
                      /\ \A v : LastSays(toWindow'[w], k, v) <=> LastSays(toWindow[w], k, v)
    BY <1>1
  <2>1. k \notin DOMAIN m.changes
    BY <1>2 DEF NoChange
  <2> QED BY <1>1, <1>2, <2>1, AppendKeeps
<1>8. NewsIsTrue'
  BY <1>3, <1>7 DEF NewsIsTrue
<1>9. OwnOrMain'
  <2> SUFFICES ASSUME NEW x \in Windows, NEW k \in Keys,
                      status'[x] = "open", k \notin changed', Silent(toWindow'[x], k)
               PROVE  \/ cache'[x][k] = main'[k]
                      \/ k \in DOMAIN pending'[x] /\ pending'[x][k] = cache'[x][k]
                      \/ k \notin DOMAIN pending'[x] /\ LastSays(toMain'[x], k, cache'[x][k])
    BY DEF OwnOrMain
  <2>1. \/ cache[x][k] = main[k]
        \/ k \in DOMAIN pending[x] /\ pending[x][k] = cache[x][k]
        \/ k \notin DOMAIN pending[x] /\ LastSays(toMain[x], k, cache[x][k])
    BY <1>1, <1>3, <1>7 DEF OwnOrMain
  <2>2. LastSays(toMain[x], k, cache[x][k]) =>
          LastSays(toMain'[x], k, cache[x][k]) \/ cache[x][k] = main[k]
    <3>1. CASE x # w
      BY <1>1, <3>1
    <3>2. CASE x = w
      <4>1. LastSays(toMain[w], k, cache[w][k]) =>
              \/ LastSays(toMain'[w], k, cache[w][k])
              \/ k \in DOMAIN c /\ c[k] = cache[w][k]
        BY <1>1, TailSays
      <4> QED BY <1>3, <3>2, <4>1
    <3> QED BY <3>1, <3>2
  <2> QED BY <1>1, <1>3, <2>1, <2>2
<1> QED BY <1>5, <1>6, <1>8, <1>9

(***************************************************************************)
(* The theorems                                                            *)
(***************************************************************************)
IInv == Delivery /\ CallsFit

LEMMA CallsInv ==
  ASSUME TypeOK, CallsFit, Request \/ Propagate
  PROVE  CallsFit'
<1>1. ASSUME NEW w \in Windows, toMain'[w] = toMain[w],
             NEW i \in DOMAIN toMain'[w], toMain'[w][i].type # "updateItems"
      PROVE  toMain'[w][i].changes = NoChange
  BY <1>1 DEF CallsFit
<1>2. ASSUME NEW w \in Windows, NEW type, Handle(w, type) PROVE CallsFit'
  <2>1. /\ toMain[w] \in Seq(Call) /\ toMain[w] # <<>> /\ toMain'[w] = Tail(toMain[w])
        /\ \A x \in Windows \ {w} : toMain'[x] = toMain[x]
    BY <1>2 DEF Handle, TypeOK
  <2> SUFFICES ASSUME NEW x \in Windows, NEW i \in DOMAIN toMain'[x],
                      toMain'[x][i].type # "updateItems"
               PROVE  toMain'[x][i].changes = NoChange
    BY DEF CallsFit
  <2>2. CASE x # w
    BY <1>1, <2>1, <2>2
  <2>3. CASE x = w
    <3>1. i + 1 \in DOMAIN toMain[w] /\ toMain'[x][i] = toMain[w][i + 1]
      BY <2>1, <2>3, TailElements
    <3> QED BY <3>1 DEF CallsFit
  <2> QED BY <2>2, <2>3
<1>3. ASSUME NEW w \in Windows, Open(w) PROVE CallsFit'
  <2>1. /\ \A i \in DOMAIN toMain'[w] : toMain'[w][i].changes = NoChange
        /\ \A x \in Windows \ {w} : toMain'[x] = toMain[x]
    BY <1>3 DEF Open, TypeOK, Message
  <2> QED BY <2>1 DEF CallsFit
<1>4. ASSUME NEW w \in Windows, Flush(w) PROVE CallsFit'
  <2> DEFINE m == Message("updateItems", pending[w])
  <2>1. /\ toMain[w] \in Seq(Call) /\ toMain'[w] = Append(toMain[w], m)
        /\ m \in Call /\ m.type = "updateItems"
        /\ \A x \in Windows \ {w} : toMain'[x] = toMain[x]
    BY <1>4, MessageTypes DEF Flush, TypeOK, Message
  <2> SUFFICES ASSUME NEW x \in Windows, NEW i \in DOMAIN toMain'[x],
                      toMain'[x][i].type # "updateItems"
               PROVE  toMain'[x][i].changes = NoChange
    BY DEF CallsFit
  <2>2. CASE x # w
    BY <1>1, <2>1, <2>2
  <2>3. CASE x = w
    <3>1. i \in DOMAIN Append(toMain[w], m) /\ toMain'[x][i] = Append(toMain[w], m)[i]
      BY <2>1, <2>3
    <3>2. \/ i \in DOMAIN toMain[w] /\ Append(toMain[w], m)[i] = toMain[w][i]
          \/ Append(toMain[w], m)[i] = m
      BY <2>1, <3>1, AppendElements
    <3> QED BY <2>1, <3>1, <3>2 DEF CallsFit
  <2> QED BY <2>2, <2>3
<1>5. CASE toMain' = toMain
  BY <1>5 DEF CallsFit
<1>6. Request => toMain' = toMain \/ \E w \in Windows : Open(w)
  BY DEF Request, Close, Crash, Gone, Set, StoreInMain, channelVars
<1>7. ASSUME NEW w \in Windows, Step(w)
      PROVE  toMain' = toMain \/ Flush(w) \/ \E type : Handle(w, type)
  <2>1. ReceiveItems(w) \/ ReceiveDone(w) \/ ReceiveChange(w) => toMain' = toMain
    BY DEF ReceiveItems, ReceiveDone, ReceiveChange, Receive
  <2>2. HandleListen(w) \/ HandleGetItems(w) \/ HandleUpdate(w) => \E type : Handle(w, type)
    BY DEF HandleListen, HandleGetItems, HandleUpdate
  <2>3. Closed(w) => toMain' = toMain
    BY DEF Closed, Gone
  <2> QED BY <1>7, <2>1, <2>2, <2>3 DEF Step
<1>8. FireChange => toMain' = toMain
  BY DEF FireChange
<1> QED BY <1>2, <1>3, <1>4, <1>5, <1>6, <1>7, <1>8 DEF Propagate

LEMMA NextIInv ==
  ASSUME IInv, [Request \/ Propagate]_sharedVars
  PROVE  IInv'
<1>1. Delivery /\ CallsFit /\ TypeOK /\ AnswersFit
  BY DEF IInv, Delivery
<1>2. CASE Request
  BY <1>1, <1>2, RequestInv, CallsInv DEF IInv
<1>3. CASE Propagate
  <2>1. TypeOK' /\ CallsFit'
    BY <1>1, <1>3, TypesPropagate, CallsInv
  <2>2. ASSUME NEW w \in Windows, Step(w) PROVE Delivery'
    BY <1>1, <2>1, <2>2, FlushInv, GoneInv, ReceiveInv, ListenInv, ItemsInv, UpdateInv
       DEF Step, Closed
  <2>3. CASE FireChange
    BY <1>1, <2>1, <2>3, FireInv DEF IInv
  <2> QED BY <1>3, <2>1, <2>2, <2>3 DEF IInv, Propagate
<1>4. CASE UNCHANGED sharedVars
  BY <1>1, <1>4 DEF IInv, Delivery, TypeOK, AnswersFit, CallsFit, Listeners,
     NewsIsTrue, OwnOrMain, Silent, LastSays, sharedVars, windowVars, channelVars
<1> QED BY <1>2, <1>3, <1>4

\* The invariant holds in every state: types, what messages carry, who has a
\* listener, that the last word about a key is true, and what a window shows.
THEOREM Invariance == Spec => []IInv
<1>1. Init => IInv
  <2>1. Init => CallsFit
    BY DEF Init, CallsFit
  <2> QED BY <2>1, InitDelivery DEF IInv
<1>2. IInv /\ [Request \/ Propagate]_sharedVars => IInv'
  BY NextIInv
<1> QED BY <1>1, <1>2, PTL DEF Spec

\* Every variable keeps its type.
THEOREM TypeCorrect == Spec => []TypeOK
<1>1. IInv => TypeOK
  BY DEF IInv, Delivery
<1> QED BY <1>1, Invariance, PTL

\* No window is left behind: without changes under way or events due, every
\* window shows, or is about to read, what the main process has.
THEOREM NobodyIsLeftBehind == Spec => []NoneLeftBehind
<1>1. IInv => NoneLeftBehind
  <2> SUFFICES ASSUME IInv, NEW w \in Windows, NEW k \in Keys,
                      status[w] = "open", Written(w, k), k \notin changed
               PROVE  \/ Silent(toWindow[w], k) /\ cache[w][k] = main[k]
                      \/ LastSays(toWindow[w], k, main[k])
    BY DEF NoneLeftBehind
  <2>1. ~LastSays(toMain[w], k, cache[w][k])
    BY SilentOrSays DEF Written
  <2> QED BY <2>1 DEF IInv, Delivery, NewsIsTrue, OwnOrMain, Written
<1> QED BY <1>1, Invariance, PTL

(***************************************************************************)
(* The release notice.  ReleaseNotice extends SharedStorage with the users *)
(* of two of its keys, and its invariant rests on the one above.           *)
(***************************************************************************)
Elements(q) == {q[i] : i \in DOMAIN q}

\* A window has one call of a kind under way at most, or its answer.
Free(q, type) == \A i \in DOMAIN q : q[i].type # type
AtMostOne(q, type) == \A i, j \in DOMAIN q : q[i].type = type /\ q[j].type = type => i = j
Exchange(w, call, answer, waits) ==
  /\ AtMostOne(toMain[w], call) /\ AtMostOne(toWindow[w], answer)
  /\ Free(toMain[w], call) \/ Free(toWindow[w], answer)
  /\ ~waits => Free(toMain[w], call) /\ Free(toWindow[w], answer)
Exchanges ==
  \A w \in Windows : /\ Exchange(w, "updateItems", "done", busy[w])
                     /\ Exchange(w, "getItems", "items", status[w] = "opening")

\* A window that has no values yet, or no more, has no changes; only an open
\* one has looked.
Phases ==
  /\ \A w \in Windows : status[w] \in {"closed", "opening"} => pending[w] = NoChange /\ ~busy[w]
  /\ \A w \in looked : status[w] = "open"

\* What is on its way is news: between two ticks of the clock, and between two
\* dismissals, everybody changes a key to the same value.
Newest(k) == IF k = LastCheck THEN now ELSE lastDismissed
SaysNewest(changes) == \A k \in DOMAIN changes : changes[k] = Newest(k)
OnlyNews ==
  /\ \A k \in changed : main[k] = Newest(k)
  /\ \A w \in Windows :
       /\ SaysNewest(pending[w])
       /\ \A m \in Elements(toMain[w]) : SaysNewest(m.changes)
       /\ \A m \in Elements(toWindow[w]) : m.type # "items" => SaysNewest(m.changes)

\* A dismissal has reached the main process, or is on its way there.
OnItsWay(w, k) == k \in DOMAIN pending[w] \/ ~Silent(toMain[w], k)
DismissalKept ==
  \/ lastDismissed = 0 \/ main[DismissedTag] = lastDismissed
  \/ \E w \in Windows : OnItsWay(w, DismissedTag)

\* The time of a check is an hour.
Hour == Nat \cup {Unset}
Hours ==
  /\ main[LastCheck] \in Hour
  /\ \A w \in Windows :
       /\ cache[w][LastCheck] \in Hour
       /\ \A m \in Elements(toWindow[w]) : m.type = "items" => m.changes[LastCheck] \in Hour

\* A window that has looked knows of a check today, of its own or another's.
Looked == allowed => \A w \in looked : ~IsCheckDue(cache[w][LastCheck])

\* A window that has asked within a day finds that in the storage, whatever
\* comes from there, and also when it is closed and opened again.
Since(w, t) == t # Unset /\ now - age[w] <= t /\ t <= now
Remembered ==
  \A w \in Windows : age[w] < CheckInterval =>
    /\ Since(w, main[LastCheck]) \/ OnItsWay(w, LastCheck)
    /\ status[w] = "open" => Since(w, cache[w][LastCheck])
    /\ \A m \in Elements(toWindow[w]) : m.type = "items" => Since(w, m.changes[LastCheck])

NoticeTypes ==
  /\ now \in 0 .. MaxTime /\ allowed \in BOOLEAN
  /\ looked \in SUBSET Windows /\ asking \in [Windows -> Nat]
  /\ latest \in 0 .. MaxRelease
  /\ notices \in SUBSET (Windows \X (1 .. MaxRelease))
  /\ age \in [Windows -> 0 .. CheckInterval]
  /\ lastDismissed \in 0 .. MaxRelease

NoticeInv ==
  /\ IInv /\ NoticeTypes /\ Exchanges /\ Phases /\ OnlyNews /\ DismissalKept
  /\ Hours /\ Looked /\ Remembered

(***************************************************************************)
(* What is read from a queue or appended to it                             *)
(***************************************************************************)
LEMMA ReadFromQueue ==
  ASSUME NEW S, NEW q \in Seq(S), q # <<>>
  PROVE  /\ Head(q) \in Elements(q) /\ Elements(Tail(q)) \subseteq Elements(q)
         /\ \A type : Free(q, type) => Free(Tail(q), type) /\ Head(q).type # type
         /\ \A type : AtMostOne(q, type) => AtMostOne(Tail(q), type)
         /\ \A type : AtMostOne(q, type) /\ Head(q).type = type => Free(Tail(q), type)
         /\ \A k : k \notin DOMAIN Head(q).changes => (Silent(Tail(q), k) <=> Silent(q, k))
<1>1. /\ Tail(q) \in Seq(S) /\ Len(q) \in Nat \ {0} /\ Len(Tail(q)) = Len(q) - 1
      /\ Head(q) = q[1] /\ DOMAIN q = 1 .. Len(q) /\ DOMAIN Tail(q) = 1 .. Len(Tail(q))
      /\ \A i \in 1 .. Len(Tail(q)) : Tail(q)[i] = q[i + 1]
  BY HeadTailProperties, LenProperties, EmptySeq
<1>2. /\ 1 \in DOMAIN q
      /\ \A i \in DOMAIN Tail(q) : i + 1 \in DOMAIN q /\ Tail(q)[i] = q[i + 1] /\ i + 1 # 1
      /\ \A i, j \in DOMAIN Tail(q) : i + 1 = j + 1 => i = j
      /\ \A i \in DOMAIN q : i # 1 => i - 1 \in DOMAIN Tail(q) /\ Tail(q)[i - 1] = q[i]
  BY <1>1
<1>3. Head(q) \in Elements(q) /\ Elements(Tail(q)) \subseteq Elements(q)
  BY <1>1, <1>2 DEF Elements
<1>4. \A type : Free(q, type) => Free(Tail(q), type) /\ Head(q).type # type
  BY <1>1, <1>2 DEF Free
<1>5. \A type : AtMostOne(q, type) => AtMostOne(Tail(q), type)
  BY <1>2 DEF AtMostOne
<1>6. \A type : AtMostOne(q, type) /\ Head(q).type = type => Free(Tail(q), type)
  BY <1>1, <1>2 DEF AtMostOne, Free
<1>7. \A k : k \notin DOMAIN Head(q).changes => (Silent(Tail(q), k) <=> Silent(q, k))
  <2> SUFFICES ASSUME NEW k, k \notin DOMAIN Head(q).changes
               PROVE  Silent(Tail(q), k) <=> Silent(q, k)
    OBVIOUS
  <2>1. k \notin DOMAIN q[1].changes
    BY <1>1
  <2>2. ASSUME Silent(Tail(q), k), NEW i \in DOMAIN q
        PROVE  k \notin DOMAIN q[i].changes
    <3>1. CASE i = 1
      BY <2>1, <3>1
    <3>2. CASE i # 1
      <4>1. i - 1 \in DOMAIN Tail(q) /\ Tail(q)[i - 1] = q[i]
        BY <1>2, <3>2
      <4>2. k \notin DOMAIN Tail(q)[i - 1].changes
        BY <2>2, <4>1 DEF Silent
      <4> QED BY <4>1, <4>2
    <3> QED BY <3>1, <3>2
  <2>3. ASSUME Silent(q, k), NEW i \in DOMAIN Tail(q)
        PROVE  k \notin DOMAIN Tail(q)[i].changes
    <3>1. i + 1 \in DOMAIN q /\ Tail(q)[i] = q[i + 1]
      BY <1>2
    <3> QED BY <2>3, <3>1 DEF Silent
  <2> QED BY <2>2, <2>3 DEF Silent
<1> QED BY <1>3, <1>4, <1>5, <1>6, <1>7

LEMMA AppendedToQueue ==
  ASSUME NEW S, NEW q \in Seq(S), NEW m \in S
  PROVE  /\ Elements(Append(q, m)) = Elements(q) \cup {m}
         /\ \A type : Free(q, type) /\ m.type # type => Free(Append(q, m), type)
         /\ \A type : AtMostOne(q, type) /\ (m.type # type \/ Free(q, type)) =>
                        AtMostOne(Append(q, m), type)
         /\ \A k : Silent(Append(q, m), k) <=> Silent(q, k) /\ k \notin DOMAIN m.changes
<1> DEFINE p == Append(q, m)
<1>1. /\ Len(p) = Len(q) + 1 /\ Len(q) \in Nat
      /\ DOMAIN p = 1 .. Len(p) /\ DOMAIN q = 1 .. Len(q)
      /\ p[Len(p)] = m /\ \A i \in 1 .. Len(q) : p[i] = q[i]
  BY AppendProperties, LenProperties
<1>2. DOMAIN p = DOMAIN q \cup {Len(p)} /\ Len(p) \notin DOMAIN q
  BY <1>1
<1>3. \A i \in DOMAIN q : p[i] = q[i]
  BY <1>1
<1> HIDE DEF p
<1>4. Elements(p) = Elements(q) \cup {m}
  BY <1>1, <1>2, <1>3 DEF Elements
<1>5. \A type : Free(q, type) /\ m.type # type => Free(p, type)
  BY <1>1, <1>2, <1>3 DEF Free
<1>6. \A type : AtMostOne(q, type) /\ (m.type # type \/ Free(q, type)) => AtMostOne(p, type)
  BY <1>1, <1>2, <1>3 DEF AtMostOne, Free
<1>7. \A k : Silent(p, k) <=> Silent(q, k) /\ k \notin DOMAIN m.changes
  BY <1>1, <1>2, <1>3 DEF Silent
<1> QED BY <1>4, <1>5, <1>6, <1>7 DEF p

LEMMA EmptyQueue ==
  /\ Elements(<<>>) = {}
  /\ \A type : Free(<<>>, type) /\ AtMostOne(<<>>, type)
BY DEF Elements, Free, AtMostOne

\* The types of what the invariant of the storage says about queues.
LEMMA Queues ==
  ASSUME IInv
  PROVE  /\ \A w \in Windows :
              /\ toMain[w] \in Seq(Call) /\ toWindow[w] \in Seq(Answer)
              /\ pending[w] \in Changes /\ cache[w] \in Rows /\ busy[w] \in BOOLEAN
              /\ status[w] \in Statuses
              /\ \A m \in Elements(toMain[w]) :
                   m \in Call /\ (m.type # "updateItems" => m.changes = NoChange)
              /\ \A m \in Elements(toWindow[w]) :
                   /\ m \in Answer /\ DOMAIN m.changes \subseteq Keys
                   /\ m.type = "items" => m.changes \in Rows
                   /\ m.type = "done" => m.changes = NoChange
         /\ main \in Rows /\ changed \subseteq Keys
<1>1. TypeOK /\ AnswersFit /\ CallsFit
  BY DEF IInv, Delivery
<1>2. \A S : \A q \in Seq(S) : \A m \in Elements(q) : m \in S
  BY DEF Elements
<1>3. \A m \in Answer : DOMAIN m.changes \subseteq Keys
  BY ChangesElim DEF Answer
<1>4. ASSUME NEW w \in Windows
      PROVE  /\ toMain[w] \in Seq(Call) /\ toWindow[w] \in Seq(Answer)
             /\ pending[w] \in Changes /\ cache[w] \in Rows /\ busy[w] \in BOOLEAN
             /\ status[w] \in Statuses
  BY <1>1 DEF TypeOK
<1>5. ASSUME NEW w \in Windows
      PROVE  /\ \A m \in Elements(toMain[w]) :
                  m \in Call /\ (m.type # "updateItems" => m.changes = NoChange)
             /\ \A m \in Elements(toWindow[w]) :
                  /\ m \in Answer /\ DOMAIN m.changes \subseteq Keys
                  /\ m.type = "items" => m.changes \in Rows
                  /\ m.type = "done" => m.changes = NoChange
  <2>1. \A m \in Elements(toMain[w]) : m \in Call /\ (m.type # "updateItems" => m.changes = NoChange)
    BY <1>1, <1>2, <1>4 DEF CallsFit, Elements
  <2>2. \A m \in Elements(toWindow[w]) :
          /\ m \in Answer
          /\ m.type = "items" => m.changes \in Rows
          /\ m.type = "done" => m.changes = NoChange
    BY <1>1, <1>2, <1>4 DEF AnswersFit, Elements
  <2> QED BY <1>3, <2>1, <2>2
<1> QED BY <1>1, <1>4, <1>5 DEF TypeOK

\* Who calls for nothing has no changes on their way.
LEMMA FreeIsSilent ==
  ASSUME IInv, NEW w \in Windows, Free(toMain[w], "updateItems"), NEW k
  PROVE  Silent(toMain[w], k)
<1>1. \A i \in DOMAIN toMain[w] : toMain[w][i].changes = NoChange
  BY DEF IInv, CallsFit, Free
<1> QED BY <1>1 DEF Silent, NoChange

\* Hours, and what is newest of a check.
LEMMA Numbers ==
  ASSUME NoticeTypes
  PROVE  /\ now \in Nat /\ now # Unset /\ now \in Values /\ CheckInterval \in Nat \ {0}
         /\ \A w \in Windows : age[w] \in Nat /\ Since(w, now)
         /\ ~IsCheckDue(now) /\ now \in Hour
         /\ LastCheck \in Keys /\ DismissedTag \in Keys /\ LastCheck # DismissedTag
         /\ Newest(LastCheck) = now /\ Newest(DismissedTag) = lastDismissed
<1>1. /\ now \in 0 .. MaxTime /\ MaxTime \in Nat /\ CheckInterval \in Nat \ {0}
      /\ 0 .. MaxTime \subseteq Values /\ Keys = {LastCheck, DismissedTag}
      /\ age \in [Windows -> 0 .. CheckInterval]
  BY NoticeAssumption DEF NoticeTypes
<1>2. now \in Nat /\ now \in Values /\ now # Unset
  BY <1>1, ConstantsAssumption
<1>3. \A w \in Windows : age[w] \in Nat
  BY <1>1
<1>4. LastCheck # DismissedTag
  BY DEF LastCheck, DismissedTag
<1>5. ~IsCheckDue(now) /\ \A w \in Windows : Since(w, now)
  BY <1>1, <1>2, <1>3 DEF IsCheckDue, Since
<1> QED BY <1>1, <1>2, <1>3, <1>4, <1>5 DEF Hour, Newest

(***************************************************************************)
(* The storage                                                             *)
(***************************************************************************)
\* A change is news, comes from pending ones, or was there before.
StepOfStorage ==
  /\ \A k \in changed' : (k \in changed /\ main'[k] = main[k]) \/ main'[k] = Newest(k)
  /\ \A k \in Keys : main'[k] = main[k] \/ main'[k] = Newest(k)
  /\ \A w \in Windows :
       /\ pending'[w] \in {pending[w], NoChange}
       /\ \A m \in Elements(toMain'[w]) :
            m \in Elements(toMain[w]) \/ m.changes \in {pending[w], NoChange}
       /\ \A m \in Elements(toWindow'[w]) :
            \/ m \in Elements(toWindow[w])
            \/ m.type # "items" /\ SaysNewest(m.changes)
            \/ m.type = "items" /\ m.changes = main /\ \A k \in Keys : ~OnItsWay(w, k)
       /\ \/ cache'[w][LastCheck] \in {cache[w][LastCheck], now}
             /\ (status'[w] = "open" => status[w] = "open")
          \/ /\ status[w] = "opening"
             /\ \E m \in Elements(toWindow[w]) : m.type = "items" /\ cache'[w] = m.changes
          \/ status'[w] = "closed" /\ cache'[w] = Nothing
       /\ \A k \in Keys : OnItsWay(w, k) => OnItsWay(w, k)' \/ main'[k] = Newest(k)

LEMMA StorageKeeps ==
  ASSUME NoticeInv, IInv', UNCHANGED noticeVars, StepOfStorage, Exchanges', Phases'
  PROVE  NoticeInv'
<1>1. /\ now' = now /\ allowed' = allowed /\ looked' = looked /\ asking' = asking
      /\ latest' = latest /\ notices' = notices /\ age' = age /\ lastDismissed' = lastDismissed
  BY DEF noticeVars
<1>2. NoticeTypes'
  BY <1>1 DEF NoticeInv, NoticeTypes
<1>3. NoticeTypes /\ IInv /\ LastCheck \in Keys /\ DismissedTag \in Keys
  BY Numbers DEF NoticeInv
<1>4. OnlyNews'
  <2>1. \A k \in changed' : main'[k] = Newest(k)
    BY DEF StepOfStorage, NoticeInv, OnlyNews
  <2>2. SaysNewest(NoChange)
    BY DEF SaysNewest, NoChange
  <2>3. ASSUME NEW w \in Windows
        PROVE  /\ SaysNewest(pending'[w])
               /\ \A m \in Elements(toMain'[w]) : SaysNewest(m.changes)
               /\ \A m \in Elements(toWindow'[w]) : m.type # "items" => SaysNewest(m.changes)
    BY <2>2 DEF StepOfStorage, NoticeInv, OnlyNews
  <2>4. \A k : Newest(k)' = Newest(k)
    BY <1>1 DEF Newest
  <2> QED BY <2>1, <2>3, <2>4 DEF OnlyNews, SaysNewest, Elements
<1>5. DismissalKept'
  <2>1. CASE lastDismissed = 0
    BY <1>1, <2>1 DEF DismissalKept
  <2>2. CASE main[DismissedTag] = lastDismissed
    BY <1>1, <1>3, <2>2, Numbers DEF StepOfStorage, DismissalKept
  <2>3. ASSUME NEW w \in Windows, OnItsWay(w, DismissedTag) PROVE DismissalKept'
    BY <1>1, <1>3, <2>3, Numbers DEF StepOfStorage, DismissalKept
  <2> QED BY <2>1, <2>2, <2>3 DEF NoticeInv, DismissalKept
<1>6. Hours'
  <2>1. main'[LastCheck] \in Hour
    BY <1>3, Numbers DEF StepOfStorage, NoticeInv, Hours
  <2>2. ASSUME NEW w \in Windows PROVE cache'[w][LastCheck] \in Hour
    <3>1. Nothing[LastCheck] \in Hour
      BY <1>3 DEF Nothing, Hour
    <3> QED BY <1>3, <3>1, Numbers DEF StepOfStorage, NoticeInv, Hours
  <2>3. ASSUME NEW w \in Windows, NEW m \in Elements(toWindow'[w]), m.type = "items"
        PROVE  m.changes[LastCheck] \in Hour
    BY <2>3 DEF StepOfStorage, NoticeInv, Hours
  <2> QED BY <2>1, <2>2, <2>3 DEF Hours, Elements
<1>7. Looked'
  <2> SUFFICES ASSUME allowed, NEW w \in looked PROVE ~IsCheckDue(cache'[w][LastCheck])
    BY <1>1 DEF Looked, IsCheckDue
  <2>1. w \in Windows /\ status[w] = "open" /\ status'[w] = "open"
    BY <1>1, <1>3 DEF NoticeInv, Phases, NoticeTypes
  <2>2. cache'[w][LastCheck] \in {cache[w][LastCheck], now}
    BY <2>1 DEF StepOfStorage
  <2> QED BY <1>3, <2>2, Numbers DEF NoticeInv, Looked
<1>8. Remembered'
  <2> SUFFICES ASSUME NEW w \in Windows, age[w] < CheckInterval
               PROVE  /\ Since(w, main'[LastCheck]) \/ OnItsWay(w, LastCheck)'
                      /\ status'[w] = "open" => Since(w, cache'[w][LastCheck])
                      /\ \A m \in Elements(toWindow'[w]) :
                           m.type = "items" => Since(w, m.changes[LastCheck])
    BY <1>1 DEF Remembered, Since, Elements
  <2>1. /\ Since(w, main[LastCheck]) \/ OnItsWay(w, LastCheck)
        /\ status[w] = "open" => Since(w, cache[w][LastCheck])
        /\ \A m \in Elements(toWindow[w]) : m.type = "items" => Since(w, m.changes[LastCheck])
    BY DEF NoticeInv, Remembered
  <2>2. Since(w, now) /\ Newest(LastCheck) = now
    BY <1>3, Numbers
  <2>3. Since(w, main'[LastCheck]) \/ OnItsWay(w, LastCheck)'
    BY <1>3, <2>1, <2>2 DEF StepOfStorage
  <2>4. status'[w] = "open" => Since(w, cache'[w][LastCheck])
    BY <2>1, <2>2 DEF StepOfStorage
  <2>5. ASSUME NEW m \in Elements(toWindow'[w]), m.type = "items"
        PROVE  Since(w, m.changes[LastCheck])
    BY <1>3, <2>1, <2>5 DEF StepOfStorage
  <2> QED BY <2>3, <2>4, <2>5
<1> QED BY <1>2, <1>4, <1>5, <1>6, <1>7, <1>8 DEF NoticeInv

\* What is pending is sent.
LEMMA FlushKeeps ==
  ASSUME NoticeInv, IInv', UNCHANGED noticeVars, NEW w \in Windows, Flush(w)
  PROVE  NoticeInv'
<1> DEFINE m == Message("updateItems", pending[w])
<1>1. /\ IInv /\ TypeOK /\ toMain[w] \in Seq(Call) /\ pending[w] \in Changes
  BY Queues DEF NoticeInv, IInv, Delivery
<1>2. /\ UNCHANGED <<main, changed, status, cache, listening, toWindow, looked>>
      /\ pending'[w] = NoChange /\ toMain'[w] = Append(toMain[w], m)
      /\ ~busy[w] /\ busy'[w] /\ status[w] \in {"open", "closing"}
      /\ \A x \in Windows \ {w} :
           toMain'[x] = toMain[x] /\ pending'[x] = pending[x] /\ busy'[x] = busy[x]
  BY <1>1 DEF Flush, TypeOK, noticeVars
<1>3. m \in Call /\ m.type = "updateItems" /\ m.changes = pending[w]
  BY <1>1, MessageTypes DEF Message
<1> HIDE DEF m
<1>4. /\ Elements(toMain'[w]) = Elements(toMain[w]) \cup {m}
      /\ \A type : Free(toMain[w], type) /\ m.type # type => Free(toMain'[w], type)
      /\ \A type : AtMostOne(toMain[w], type) /\ (m.type # type \/ Free(toMain[w], type)) =>
                     AtMostOne(toMain'[w], type)
      /\ \A k : Silent(toMain'[w], k) <=> Silent(toMain[w], k) /\ k \notin DOMAIN m.changes
  BY <1>1, <1>2, <1>3, AppendedToQueue
<1>5. StepOfStorage
  BY <1>1, <1>2, <1>3, <1>4 DEF StepOfStorage, NoticeInv, OnlyNews, OnItsWay
<1>6. Exchanges'
  BY <1>2, <1>3, <1>4 DEF NoticeInv, Exchanges, Exchange
<1>7. Phases'
  BY <1>2 DEF NoticeInv, Phases
<1> QED BY <1>5, <1>6, <1>7, StorageKeeps

\* A window is closed when it has nothing left to say.
LEMMA ClosedKeeps ==
  ASSUME NoticeInv, IInv', UNCHANGED noticeVars, NEW w \in Windows, Closed(w)
  PROVE  NoticeInv'
<1>1. /\ UNCHANGED <<main, changed, toMain, looked, pending, busy>>
      /\ status[w] = "closing" /\ status'[w] = "closed" /\ cache'[w] = Nothing
      /\ pending[w] = NoChange /\ ~busy[w] /\ toWindow'[w] = <<>>
      /\ \A x \in Windows \ {w} :
           toWindow'[x] = toWindow[x] /\ status'[x] = status[x] /\ cache'[x] = cache[x]
  BY DEF NoticeInv, IInv, Delivery, TypeOK, Closed, Gone, noticeVars
<1>2. StepOfStorage
  BY <1>1, EmptyQueue DEF StepOfStorage, NoticeInv, OnlyNews, OnItsWay
<1>3. Exchanges'
  <2> SUFFICES ASSUME NEW x \in Windows
               PROVE  /\ Exchange(x, "updateItems", "done", busy[x])'
                      /\ Exchange(x, "getItems", "items", status[x] = "opening")'
    BY DEF Exchanges
  <2>1. /\ Exchange(x, "updateItems", "done", busy[x])
        /\ Exchange(x, "getItems", "items", status[x] = "opening")
    BY DEF NoticeInv, Exchanges
  <2>2. CASE x # w
    <3>1. /\ toMain'[x] = toMain[x] /\ toWindow'[x] = toWindow[x]
          /\ status'[x] = status[x] /\ busy'[x] = busy[x]
      BY <1>1, <2>2
    <3> QED BY <2>1, <3>1 DEF Exchange
  <2>3. CASE x = w
    <3>1. /\ toMain'[x] = toMain[x] /\ toWindow'[x] = <<>> /\ ~busy[x] /\ status[x] # "opening"
      BY <1>1, <2>3
    <3> QED BY <2>1, <3>1, EmptyQueue DEF Exchange
  <2> QED BY <2>2, <2>3
<1>4. Phases'
  <2>1. \A x \in looked : x \in Windows /\ status[x] = "open"
    BY DEF NoticeInv, NoticeTypes, Phases
  <2>2. \A x \in looked : x # w /\ status'[x] = "open"
    BY <1>1, <2>1
  <2> QED BY <1>1, <2>2 DEF NoticeInv, Phases
<1> QED BY <1>2, <1>3, <1>4, StorageKeeps

\* A window that opens asks for what there is.
LEMMA OpenKeeps ==
  ASSUME NoticeInv, IInv', UNCHANGED noticeVars, NEW w \in Windows, Open(w)
  PROVE  NoticeInv'
<1> DEFINE q == <<Message("listen", NoChange), Message("getItems", NoChange)>>
<1>1. /\ UNCHANGED <<main, changed, cache, pending, busy, listening, toWindow, looked>>
      /\ status[w] = "closed" /\ status'[w] = "opening"
      /\ toMain[w] = <<>> /\ toMain'[w] = q
      /\ \A x \in Windows \ {w} : toMain'[x] = toMain[x] /\ status'[x] = status[x]
  BY DEF NoticeInv, IInv, Delivery, TypeOK, Open, noticeVars
<1>2. /\ \A m \in Elements(q) : m.changes = NoChange
      /\ Free(q, "updateItems") /\ AtMostOne(q, "updateItems") /\ AtMostOne(q, "getItems")
  BY DEF Elements, Free, AtMostOne, Message
<1> HIDE DEF q
<1>3. Free(toMain[w], "updateItems") /\ AtMostOne(toMain[w], "updateItems")
      /\ Free(toMain[w], "getItems") /\ \A k : Silent(toMain[w], k)
  BY <1>1, EmptyQueue, EmptySays
<1>4. StepOfStorage
  BY <1>1, <1>2, <1>3 DEF StepOfStorage, NoticeInv, OnlyNews, OnItsWay, Phases, NoChange
<1>5. Exchanges'
  <2> SUFFICES ASSUME NEW x \in Windows
               PROVE  /\ Exchange(x, "updateItems", "done", busy[x])'
                      /\ Exchange(x, "getItems", "items", status[x] = "opening")'
    BY DEF Exchanges
  <2>1. /\ Exchange(x, "updateItems", "done", busy[x])
        /\ Exchange(x, "getItems", "items", status[x] = "opening")
    BY DEF NoticeInv, Exchanges
  <2>2. CASE x # w
    <3>1. /\ toMain'[x] = toMain[x] /\ toWindow'[x] = toWindow[x]
          /\ status'[x] = status[x] /\ busy'[x] = busy[x]
      BY <1>1, <2>2
    <3> QED BY <2>1, <3>1 DEF Exchange
  <2>3. CASE x = w
    <3>1. /\ toMain'[x] = q /\ toWindow'[x] = toWindow[x] /\ busy'[x] = busy[x]
          /\ status[x] # "opening" /\ status'[x] = "opening" /\ Free(toWindow[x], "items")
          /\ ~busy[x] /\ Free(toWindow[x], "done")
      BY <1>1, <2>1, <2>3 DEF NoticeInv, Phases, Exchange
    <3> QED BY <1>2, <2>1, <3>1 DEF Exchange
  <2> QED BY <2>2, <2>3
<1>6. Phases'
  <2>1. \A x \in looked : x \in Windows /\ status[x] = "open"
    BY DEF NoticeInv, NoticeTypes, Phases
  <2>2. \A x \in looked : x # w /\ status'[x] = "open"
    BY <1>1, <2>1
  <2> QED BY <1>1, <2>2 DEF NoticeInv, Phases
<1> QED BY <1>4, <1>5, <1>6, StorageKeeps

\* What a window reads was sent by an exchange under way.
LEMMA ReadingKeeps ==
  ASSUME NoticeInv, NEW w \in Windows, NEW type \in {"items", "done", "change"},
         Receive(w, type)
  PROVE  LET m == Head(toWindow[w])
         IN  /\ UNCHANGED <<main, changed, pending, listening, toMain>>
             /\ toWindow'[w] = Tail(toWindow[w])
             /\ \A x \in Windows \ {w} : toWindow'[x] = toWindow[x]
             /\ m \in Elements(toWindow[w]) /\ m.type = type /\ m \in Answer
             /\ Elements(toWindow'[w]) \subseteq Elements(toWindow[w])
             /\ \A t : Free(toWindow[w], t) => Free(toWindow'[w], t)
             /\ \A t : AtMostOne(toWindow[w], t) => AtMostOne(toWindow'[w], t)
             /\ type = "items" =>
                  status[w] = "opening" /\ Free(toMain[w], "getItems") /\ Free(toWindow'[w], "items")
             /\ type = "done" =>
                  busy[w] /\ Free(toMain[w], "updateItems") /\ Free(toWindow'[w], "done")
<1> DEFINE m == Head(toWindow[w])
<1>1. /\ toWindow[w] \in Seq(Answer) /\ toWindow \in [Windows -> Seq(Answer)]
      /\ toWindow[w] # <<>> /\ m.type = type
      /\ toWindow' = [toWindow EXCEPT ![w] = Tail(toWindow[w])]
      /\ UNCHANGED <<main, changed, pending, listening, toMain>>
  BY DEF Receive, NoticeInv, IInv, Delivery, TypeOK
<1>2. /\ toWindow'[w] = Tail(toWindow[w])
      /\ \A x \in Windows \ {w} : toWindow'[x] = toWindow[x]
  BY <1>1
<1>3. /\ m \in Elements(toWindow[w]) /\ Elements(Tail(toWindow[w])) \subseteq Elements(toWindow[w])
      /\ \A t : Free(toWindow[w], t) => Free(Tail(toWindow[w]), t) /\ m.type # t
      /\ \A t : AtMostOne(toWindow[w], t) => AtMostOne(Tail(toWindow[w]), t)
      /\ \A t : AtMostOne(toWindow[w], t) /\ m.type = t => Free(Tail(toWindow[w]), t)
  BY <1>1, ReadFromQueue
<1>4. m \in Answer
  BY <1>3, Queues DEF NoticeInv
<1>5. Exchange(w, "updateItems", "done", busy[w]) /\ Exchange(w, "getItems", "items", status[w] = "opening")
  BY DEF NoticeInv, Exchanges
<1> HIDE DEF m
<1>6. type = "items" =>
        status[w] = "opening" /\ Free(toMain[w], "getItems") /\ Free(toWindow'[w], "items")
  BY <1>1, <1>2, <1>3, <1>5 DEF Exchange
<1>7. type = "done" =>
        busy[w] /\ Free(toMain[w], "updateItems") /\ Free(toWindow'[w], "done")
  BY <1>1, <1>2, <1>3, <1>5 DEF Exchange
<1> QED BY <1>1, <1>2, <1>3, <1>4, <1>6, <1>7 DEF m

\* The values a window asked for have come.
LEMMA ReceiveItemsKeeps ==
  ASSUME NoticeInv, IInv', UNCHANGED noticeVars, NEW w \in Windows, ReceiveItems(w)
  PROVE  NoticeInv'
<1> DEFINE m == Head(toWindow[w])
<1>1. Receive(w, "items") /\ looked' = looked /\ UNCHANGED busy
  BY DEF ReceiveItems, noticeVars
<1>2. /\ status'[w] = "open" /\ cache'[w] = m.changes
      /\ \A x \in Windows \ {w} : status'[x] = status[x] /\ cache'[x] = cache[x]
  BY DEF ReceiveItems, NoticeInv, IInv, Delivery, TypeOK
<1>3. /\ UNCHANGED <<main, changed, pending, listening, toMain>>
      /\ toWindow'[w] = Tail(toWindow[w])
      /\ \A x \in Windows \ {w} : toWindow'[x] = toWindow[x]
      /\ m \in Elements(toWindow[w]) /\ m.type = "items"
      /\ Elements(toWindow'[w]) \subseteq Elements(toWindow[w])
      /\ Free(toWindow[w], "done") => Free(toWindow'[w], "done")
      /\ AtMostOne(toWindow[w], "done") => AtMostOne(toWindow'[w], "done")
      /\ AtMostOne(toWindow[w], "items") => AtMostOne(toWindow'[w], "items")
      /\ status[w] = "opening" /\ Free(toMain[w], "getItems") /\ Free(toWindow'[w], "items")
  BY <1>1, ReadingKeeps
<1> HIDE DEF m
<1>4. StepOfStorage
  BY <1>1, <1>2, <1>3 DEF StepOfStorage, NoticeInv, OnlyNews, OnItsWay
<1>5. Exchanges'
  <2> SUFFICES ASSUME NEW x \in Windows
               PROVE  /\ Exchange(x, "updateItems", "done", busy[x])'
                      /\ Exchange(x, "getItems", "items", status[x] = "opening")'
    BY DEF Exchanges
  <2>1. /\ Exchange(x, "updateItems", "done", busy[x])
        /\ Exchange(x, "getItems", "items", status[x] = "opening")
    BY DEF NoticeInv, Exchanges
  <2>2. CASE x # w
    <3>1. /\ toMain'[x] = toMain[x] /\ toWindow'[x] = toWindow[x]
          /\ status'[x] = status[x] /\ busy'[x] = busy[x]
      BY <1>1, <1>2, <1>3, <2>2
    <3> QED BY <2>1, <3>1 DEF Exchange
  <2>3. CASE x = w
    <3>1. toMain'[x] = toMain[x] /\ busy'[x] = busy[x]
      BY <1>1, <1>3
    <3> QED BY <1>3, <2>1, <2>3, <3>1 DEF Exchange
  <2> QED BY <2>2, <2>3
<1>6. Phases'
  <2>1. \A x \in looked : x \in Windows /\ status[x] = "open"
    BY DEF NoticeInv, NoticeTypes, Phases
  <2>2. \A x \in looked : status'[x] = "open"
    BY <1>2, <2>1
  <2> QED BY <1>1, <1>2, <1>3, <2>2 DEF NoticeInv, Phases
<1> QED BY <1>4, <1>5, <1>6, StorageKeeps

\* An update was answered.
LEMMA ReceiveDoneKeeps ==
  ASSUME NoticeInv, IInv', UNCHANGED noticeVars, NEW w \in Windows, ReceiveDone(w)
  PROVE  NoticeInv'
<1>1. Receive(w, "done") /\ looked' = looked /\ UNCHANGED <<status, cache>>
  BY DEF ReceiveDone, noticeVars
<1>2. /\ ~busy'[w] /\ \A x \in Windows \ {w} : busy'[x] = busy[x]
  BY DEF ReceiveDone, NoticeInv, IInv, Delivery, TypeOK
<1>3. /\ UNCHANGED <<main, changed, pending, listening, toMain>>
      /\ \A x \in Windows \ {w} : toWindow'[x] = toWindow[x]
      /\ Elements(toWindow'[w]) \subseteq Elements(toWindow[w])
      /\ Free(toWindow[w], "items") => Free(toWindow'[w], "items")
      /\ AtMostOne(toWindow[w], "done") => AtMostOne(toWindow'[w], "done")
      /\ AtMostOne(toWindow[w], "items") => AtMostOne(toWindow'[w], "items")
      /\ Free(toMain[w], "updateItems") /\ Free(toWindow'[w], "done")
  BY <1>1, ReadingKeeps
<1>4. StepOfStorage
  BY <1>1, <1>2, <1>3 DEF StepOfStorage, NoticeInv, OnlyNews, OnItsWay
<1>5. Exchanges'
  <2> SUFFICES ASSUME NEW x \in Windows
               PROVE  /\ Exchange(x, "updateItems", "done", busy[x])'
                      /\ Exchange(x, "getItems", "items", status[x] = "opening")'
    BY DEF Exchanges
  <2>1. /\ Exchange(x, "updateItems", "done", busy[x])
        /\ Exchange(x, "getItems", "items", status[x] = "opening")
    BY DEF NoticeInv, Exchanges
  <2>2. CASE x # w
    <3>1. /\ toMain'[x] = toMain[x] /\ toWindow'[x] = toWindow[x]
          /\ status'[x] = status[x] /\ busy'[x] = busy[x]
      BY <1>1, <1>2, <1>3, <2>2
    <3> QED BY <2>1, <3>1 DEF Exchange
  <2>3. CASE x = w
    <3>1. toMain'[x] = toMain[x] /\ status'[x] = status[x]
      BY <1>1, <1>3
    <3> QED BY <1>2, <1>3, <2>1, <2>3, <3>1 DEF Exchange
  <2> QED BY <2>2, <2>3
<1>6. Phases'
  BY <1>1, <1>2, <1>3 DEF NoticeInv, Phases
<1> QED BY <1>4, <1>5, <1>6, StorageKeeps

\* News is read.
LEMMA ReceiveChangeKeeps ==
  ASSUME NoticeInv, IInv', UNCHANGED noticeVars, NEW w \in Windows, ReceiveChange(w)
  PROVE  NoticeInv'
<1> DEFINE m == Head(toWindow[w])
<1>1. Receive(w, "change") /\ looked' = looked /\ UNCHANGED <<status, busy>>
  BY DEF ReceiveChange, noticeVars
<1>2. /\ cache'[w] \in {cache[w], Merge(cache[w], m.changes)}
      /\ \A x \in Windows \ {w} : cache'[x] = cache[x]
  BY DEF ReceiveChange, NoticeInv, IInv, Delivery, TypeOK
<1>3. /\ UNCHANGED <<main, changed, pending, listening, toMain>>
      /\ \A x \in Windows \ {w} : toWindow'[x] = toWindow[x]
      /\ m \in Elements(toWindow[w]) /\ m.type = "change"
      /\ Elements(toWindow'[w]) \subseteq Elements(toWindow[w])
      /\ \A t : Free(toWindow[w], t) => Free(toWindow'[w], t)
      /\ \A t : AtMostOne(toWindow[w], t) => AtMostOne(toWindow'[w], t)
  BY <1>1, ReadingKeeps
<1> HIDE DEF m
<1>4. NoticeTypes /\ LastCheck \in Keys /\ Newest(LastCheck) = now
  BY Numbers DEF NoticeInv
<1>5. SaysNewest(m.changes)
  BY <1>3 DEF NoticeInv, OnlyNews
<1>6. cache'[w][LastCheck] \in {cache[w][LastCheck], now}
  BY <1>2, <1>4, <1>5 DEF Merge, SaysNewest
<1>7. StepOfStorage
  BY <1>1, <1>2, <1>3, <1>6 DEF StepOfStorage, NoticeInv, OnlyNews, OnItsWay
<1>8. Exchanges'
  <2> SUFFICES ASSUME NEW x \in Windows
               PROVE  /\ Exchange(x, "updateItems", "done", busy[x])'
                      /\ Exchange(x, "getItems", "items", status[x] = "opening")'
    BY DEF Exchanges
  <2>1. /\ Exchange(x, "updateItems", "done", busy[x])
        /\ Exchange(x, "getItems", "items", status[x] = "opening")
    BY DEF NoticeInv, Exchanges
  <2>2. /\ toMain'[x] = toMain[x] /\ status'[x] = status[x] /\ busy'[x] = busy[x]
        /\ \A t : Free(toWindow[x], t) => Free(toWindow'[x], t)
        /\ \A t : AtMostOne(toWindow[x], t) => AtMostOne(toWindow'[x], t)
    BY <1>1, <1>3
  <2> QED BY <2>1, <2>2 DEF Exchange
<1>9. Phases'
  BY <1>1, <1>3 DEF NoticeInv, Phases
<1> QED BY <1>7, <1>8, <1>9, StorageKeeps

\* What the main process reads was sent by an exchange under way; only updates
\* say anything.
LEMMA HandlingKeeps ==
  ASSUME NoticeInv, NEW w \in Windows, NEW type \in {"listen", "getItems", "updateItems"},
         Handle(w, type)
  PROVE  LET m == Head(toMain[w])
         IN  /\ UNCHANGED <<status, cache, pending, busy>>
             /\ toMain'[w] = Tail(toMain[w])
             /\ \A x \in Windows \ {w} : toMain'[x] = toMain[x]
             /\ m \in Elements(toMain[w]) /\ m.type = type /\ m \in Call
             /\ Elements(toMain'[w]) \subseteq Elements(toMain[w])
             /\ \A t : Free(toMain[w], t) => Free(toMain'[w], t)
             /\ \A t : AtMostOne(toMain[w], t) => AtMostOne(toMain'[w], t)
             /\ \A k : k \notin DOMAIN m.changes => (Silent(toMain'[w], k) <=> Silent(toMain[w], k))
             /\ type # "updateItems" => \A k : k \notin DOMAIN m.changes
             /\ type = "getItems" =>
                  status[w] = "opening" /\ Free(toMain'[w], "getItems") /\ Free(toWindow[w], "items")
             /\ type = "updateItems" =>
                  busy[w] /\ Free(toMain'[w], "updateItems") /\ Free(toWindow[w], "done")
<1> DEFINE m == Head(toMain[w])
<1>1. /\ toMain[w] \in Seq(Call) /\ toMain \in [Windows -> Seq(Call)]
      /\ toMain[w] # <<>> /\ m.type = type
      /\ toMain' = [toMain EXCEPT ![w] = Tail(toMain[w])]
      /\ UNCHANGED <<status, cache, pending, busy>>
  BY DEF Handle, windowVars, NoticeInv, IInv, Delivery, TypeOK
<1>2. /\ toMain'[w] = Tail(toMain[w])
      /\ \A x \in Windows \ {w} : toMain'[x] = toMain[x]
  BY <1>1
<1>3. /\ m \in Elements(toMain[w]) /\ Elements(Tail(toMain[w])) \subseteq Elements(toMain[w])
      /\ \A t : Free(toMain[w], t) => Free(Tail(toMain[w]), t) /\ m.type # t
      /\ \A t : AtMostOne(toMain[w], t) => AtMostOne(Tail(toMain[w]), t)
      /\ \A t : AtMostOne(toMain[w], t) /\ m.type = t => Free(Tail(toMain[w]), t)
      /\ \A k : k \notin DOMAIN m.changes => (Silent(Tail(toMain[w]), k) <=> Silent(toMain[w], k))
  BY <1>1, ReadFromQueue
<1>4. m \in Call /\ (m.type # "updateItems" => m.changes = NoChange)
  BY <1>3, Queues DEF NoticeInv
<1>5. type # "updateItems" => \A k : k \notin DOMAIN m.changes
  BY <1>1, <1>4 DEF NoChange
<1>6. Exchange(w, "updateItems", "done", busy[w]) /\ Exchange(w, "getItems", "items", status[w] = "opening")
  BY DEF NoticeInv, Exchanges
<1> HIDE DEF m
<1>7. type = "getItems" =>
        status[w] = "opening" /\ Free(toMain'[w], "getItems") /\ Free(toWindow[w], "items")
  BY <1>1, <1>2, <1>3, <1>6 DEF Exchange
<1>8. type = "updateItems" =>
        busy[w] /\ Free(toMain'[w], "updateItems") /\ Free(toWindow[w], "done")
  BY <1>1, <1>2, <1>3, <1>6 DEF Exchange
<1> QED BY <1>1, <1>2, <1>3, <1>4, <1>5, <1>7, <1>8 DEF m

\* The listener is there.
LEMMA HandleListenKeeps ==
  ASSUME NoticeInv, IInv', UNCHANGED noticeVars, NEW w \in Windows, HandleListen(w)
  PROVE  NoticeInv'
<1>1. Handle(w, "listen") /\ looked' = looked /\ UNCHANGED <<main, changed, toWindow>>
  BY DEF HandleListen, noticeVars
<1>2. /\ UNCHANGED <<status, cache, pending, busy>>
      /\ \A x \in Windows \ {w} : toMain'[x] = toMain[x]
      /\ Elements(toMain'[w]) \subseteq Elements(toMain[w])
      /\ \A t : Free(toMain[w], t) => Free(toMain'[w], t)
      /\ \A t : AtMostOne(toMain[w], t) => AtMostOne(toMain'[w], t)
      /\ \A k : Silent(toMain'[w], k) <=> Silent(toMain[w], k)
  BY <1>1, HandlingKeeps
<1>3. StepOfStorage
  BY <1>1, <1>2 DEF StepOfStorage, NoticeInv, OnlyNews, OnItsWay
<1>4. Exchanges'
  <2> SUFFICES ASSUME NEW x \in Windows
               PROVE  /\ Exchange(x, "updateItems", "done", busy[x])'
                      /\ Exchange(x, "getItems", "items", status[x] = "opening")'
    BY DEF Exchanges
  <2>1. /\ Exchange(x, "updateItems", "done", busy[x])
        /\ Exchange(x, "getItems", "items", status[x] = "opening")
    BY DEF NoticeInv, Exchanges
  <2>2. /\ toWindow'[x] = toWindow[x] /\ status'[x] = status[x] /\ busy'[x] = busy[x]
        /\ \A t : Free(toMain[x], t) => Free(toMain'[x], t)
        /\ \A t : AtMostOne(toMain[x], t) => AtMostOne(toMain'[x], t)
    BY <1>1, <1>2
  <2> QED BY <2>1, <2>2 DEF Exchange
<1>5. Phases'
  BY <1>1, <1>2 DEF NoticeInv, Phases
<1> QED BY <1>3, <1>4, <1>5, StorageKeeps

\* A window that opens gets what there is; it has no changes of its own.
LEMMA HandleGetItemsKeeps ==
  ASSUME NoticeInv, IInv', UNCHANGED noticeVars, NEW w \in Windows, HandleGetItems(w)
  PROVE  NoticeInv'
<1> DEFINE a == Message("items", main)
<1>1. Handle(w, "getItems") /\ looked' = looked /\ UNCHANGED <<main, changed>>
  BY DEF HandleGetItems, noticeVars
<1>2. /\ UNCHANGED <<status, cache, pending, busy>>
      /\ \A x \in Windows \ {w} : toMain'[x] = toMain[x]
      /\ Elements(toMain'[w]) \subseteq Elements(toMain[w])
      /\ \A t : Free(toMain[w], t) => Free(toMain'[w], t)
      /\ \A t : AtMostOne(toMain[w], t) => AtMostOne(toMain'[w], t)
      /\ \A k : Silent(toMain'[w], k) <=> Silent(toMain[w], k)
      /\ status[w] = "opening" /\ Free(toMain'[w], "getItems") /\ Free(toWindow[w], "items")
  BY <1>1, HandlingKeeps
<1>3. /\ toWindow[w] \in Seq(Answer) /\ main \in Rows
  BY Queues DEF NoticeInv
<1>4. a \in Answer /\ a.type = "items" /\ a.changes = main
  BY <1>3, ChangesTypes, MessageTypes DEF Message
<1>5. /\ toWindow'[w] = Append(toWindow[w], a)
      /\ \A x \in Windows \ {w} : toWindow'[x] = toWindow[x]
  BY <1>2 DEF HandleGetItems, Reply, NoticeInv, IInv, Delivery, TypeOK
<1> HIDE DEF a
<1>6. /\ Elements(toWindow'[w]) = Elements(toWindow[w]) \cup {a}
      /\ \A type : Free(toWindow[w], type) /\ a.type # type => Free(toWindow'[w], type)
      /\ \A type : AtMostOne(toWindow[w], type) /\ (a.type # type \/ Free(toWindow[w], type)) =>
                     AtMostOne(toWindow'[w], type)
  BY <1>3, <1>4, <1>5, AppendedToQueue
<1>7. \A k : ~OnItsWay(w, k)
  <2>1. pending[w] = NoChange /\ ~busy[w]
    BY <1>2 DEF NoticeInv, Phases
  <2>2. Free(toMain[w], "updateItems")
    BY <2>1 DEF NoticeInv, Exchanges, Exchange
  <2> QED BY <2>1, <2>2, FreeIsSilent DEF OnItsWay, NoChange, NoticeInv
<1>8. StepOfStorage
  BY <1>1, <1>2, <1>4, <1>5, <1>6, <1>7 DEF StepOfStorage, NoticeInv, OnlyNews, OnItsWay
<1>9. Exchanges'
  <2> SUFFICES ASSUME NEW x \in Windows
               PROVE  /\ Exchange(x, "updateItems", "done", busy[x])'
                      /\ Exchange(x, "getItems", "items", status[x] = "opening")'
    BY DEF Exchanges
  <2>1. /\ Exchange(x, "updateItems", "done", busy[x])
        /\ Exchange(x, "getItems", "items", status[x] = "opening")
    BY DEF NoticeInv, Exchanges
  <2>2. status'[x] = status[x] /\ busy'[x] = busy[x]
    BY <1>2
  <2>3. CASE x # w
    <3>1. toMain'[x] = toMain[x] /\ toWindow'[x] = toWindow[x]
      BY <1>2, <1>5, <2>3
    <3> QED BY <2>1, <2>2, <3>1 DEF Exchange
  <2>4. CASE x = w
    <3>1. Exchange(x, "updateItems", "done", busy[x])'
      BY <1>2, <1>4, <1>6, <2>1, <2>2, <2>4 DEF Exchange
    <3>2. Exchange(x, "getItems", "items", status[x] = "opening")'
      BY <1>2, <1>4, <1>6, <2>1, <2>2, <2>4 DEF Exchange
    <3> QED BY <3>1, <3>2
  <2> QED BY <2>3, <2>4
<1>10. Phases'
  BY <1>1, <1>2 DEF NoticeInv, Phases
<1> QED BY <1>8, <1>9, <1>10, StorageKeeps

\* An update that arrives is news.
LEMMA HandleUpdateKeeps ==
  ASSUME NoticeInv, IInv', UNCHANGED noticeVars, NEW w \in Windows, HandleUpdate(w)
  PROVE  NoticeInv'
<1> DEFINE m == Head(toMain[w])
           a == Message("done", NoChange)
<1>1. /\ Handle(w, "updateItems") /\ looked' = looked
      /\ main' = Merge(main, m.changes) /\ changed' = changed \cup Differing(main, m.changes)
  BY DEF HandleUpdate, noticeVars
<1>2. /\ UNCHANGED <<status, cache, pending, busy>>
      /\ \A x \in Windows \ {w} : toMain'[x] = toMain[x]
      /\ m \in Elements(toMain[w]) /\ m \in Call
      /\ Elements(toMain'[w]) \subseteq Elements(toMain[w])
      /\ \A t : Free(toMain[w], t) => Free(toMain'[w], t)
      /\ \A t : AtMostOne(toMain[w], t) => AtMostOne(toMain'[w], t)
      /\ \A k : k \notin DOMAIN m.changes => (Silent(toMain'[w], k) <=> Silent(toMain[w], k))
      /\ busy[w] /\ Free(toMain'[w], "updateItems") /\ Free(toWindow[w], "done")
  BY <1>1, HandlingKeeps
<1>3. /\ toWindow[w] \in Seq(Answer) /\ main \in Rows /\ changed \subseteq Keys
      /\ status[w] \in Statuses
  BY Queues DEF NoticeInv
<1>4. /\ a \in Answer /\ a.type = "done" /\ a.changes = NoChange
  BY ChangesTypes, MessageTypes DEF Message
<1>5. SaysNewest(NoChange)
  BY DEF SaysNewest, NoChange
<1>6. /\ toWindow'[w] = Append(toWindow[w], a)
      /\ \A x \in Windows \ {w} : toWindow'[x] = toWindow[x]
  <2>1. status[w] # "closed"
    BY <1>2 DEF NoticeInv, Phases
  <2> QED BY <2>1 DEF HandleUpdate, Reply, NoticeInv, IInv, Delivery, TypeOK
<1>7. DOMAIN m.changes \subseteq Keys
  BY <1>2, ChangesElim DEF Call
<1> HIDE DEF a, m
<1>8. /\ Elements(toWindow'[w]) = Elements(toWindow[w]) \cup {a}
      /\ \A type : Free(toWindow[w], type) /\ a.type # type => Free(toWindow'[w], type)
      /\ \A type : AtMostOne(toWindow[w], type) /\ (a.type # type \/ Free(toWindow[w], type)) =>
                     AtMostOne(toWindow'[w], type)
  BY <1>3, <1>4, <1>6, AppendedToQueue
<1>9. \A k \in DOMAIN m.changes : m.changes[k] = Newest(k)
  BY <1>2 DEF NoticeInv, OnlyNews, SaysNewest
<1>10. \A k \in Keys : /\ k \in DOMAIN m.changes => main'[k] = Newest(k)
                       /\ k \notin DOMAIN m.changes => main'[k] = main[k]
  BY <1>1, <1>9 DEF Merge
<1>11. StepOfStorage
  <2>1. \A k \in changed' : (k \in changed /\ main'[k] = main[k]) \/ main'[k] = Newest(k)
    BY <1>1, <1>3, <1>7, <1>10 DEF Differing
  <2>2. \A k \in Keys : main'[k] = main[k] \/ main'[k] = Newest(k)
    BY <1>10
  <2>3. ASSUME NEW x \in Windows
        PROVE  \A n \in Elements(toWindow'[x]) :
                 n \in Elements(toWindow[x]) \/ (n.type # "items" /\ SaysNewest(n.changes))
    <3>1. a.type # "items" /\ SaysNewest(a.changes)
      BY <1>4, <1>5
    <3>2. \A n \in Elements(toWindow'[x]) : n \in Elements(toWindow[x]) \/ n = a
      BY <1>6, <1>8
    <3> QED BY <3>1, <3>2
  <2>4. ASSUME NEW x \in Windows, NEW k \in Keys, OnItsWay(x, k)
        PROVE  OnItsWay(x, k)' \/ main'[k] = Newest(k)
    BY <1>2, <1>10, <2>4 DEF OnItsWay
  <2>5. ASSUME NEW x \in Windows
        PROVE  \A n \in Elements(toMain'[x]) : n \in Elements(toMain[x])
    BY <1>2
  <2> QED BY <1>2, <2>1, <2>2, <2>3, <2>4, <2>5 DEF StepOfStorage
<1>12. Exchanges'
  <2> SUFFICES ASSUME NEW x \in Windows
               PROVE  /\ Exchange(x, "updateItems", "done", busy[x])'
                      /\ Exchange(x, "getItems", "items", status[x] = "opening")'
    BY DEF Exchanges
  <2>1. /\ Exchange(x, "updateItems", "done", busy[x])
        /\ Exchange(x, "getItems", "items", status[x] = "opening")
    BY DEF NoticeInv, Exchanges
  <2>2. status'[x] = status[x] /\ busy'[x] = busy[x]
    BY <1>2
  <2>3. CASE x # w
    <3>1. toMain'[x] = toMain[x] /\ toWindow'[x] = toWindow[x]
      BY <1>2, <1>6, <2>3
    <3> QED BY <2>1, <2>2, <3>1 DEF Exchange
  <2>4. CASE x = w
    <3>1. Exchange(x, "updateItems", "done", busy[x])'
      BY <1>2, <1>4, <1>8, <2>1, <2>2, <2>4 DEF Exchange
    <3>2. Exchange(x, "getItems", "items", status[x] = "opening")'
      BY <1>2, <1>4, <1>8, <2>1, <2>2, <2>4 DEF Exchange
    <3> QED BY <3>1, <3>2
  <2> QED BY <2>3, <2>4
<1>13. Phases'
  BY <1>1, <1>2 DEF NoticeInv, Phases
<1> QED BY <1>11, <1>12, <1>13, StorageKeeps

\* What the windows are told is news.
LEMMA FireChangeKeeps ==
  ASSUME NoticeInv, IInv', UNCHANGED noticeVars, FireChange
  PROVE  NoticeInv'
<1> DEFINE a == Message("change", Event)
<1>1. /\ UNCHANGED <<main, status, cache, pending, busy, toMain, looked>> /\ changed' = {}
      /\ \A x \in Windows : toWindow'[x] = IF listening[x] THEN Append(toWindow[x], a)
                                           ELSE toWindow[x]
  BY DEF FireChange, windowVars, noticeVars
<1>2. /\ main \in Rows /\ changed \subseteq Keys /\ \A x \in Windows : toWindow[x] \in Seq(Answer)
  BY Queues DEF NoticeInv
<1>3. Event \in Changes
  <2>1. Event \in [changed -> Value]
    BY <1>2 DEF Event, Rows
  <2> QED BY <1>2, <2>1, ChangesIntro
<1>4. a \in Answer /\ a.type = "change" /\ SaysNewest(a.changes)
  <2>1. a \in Answer /\ a.type = "change" /\ a.changes = Event
    BY <1>3, MessageTypes DEF Message
  <2> QED BY <2>1 DEF SaysNewest, Event, NoticeInv, OnlyNews
<1> HIDE DEF a
<1>5. ASSUME NEW x \in Windows
      PROVE  /\ \A m \in Elements(toWindow'[x]) : m \in Elements(toWindow[x]) \/ m = a
             /\ \A type : Free(toWindow[x], type) /\ a.type # type => Free(toWindow'[x], type)
             /\ \A type : AtMostOne(toWindow[x], type) /\ a.type # type =>
                            AtMostOne(toWindow'[x], type)
  <2>1. CASE listening[x]
    <3>1. toWindow'[x] = Append(toWindow[x], a) /\ toWindow[x] \in Seq(Answer)
      BY <1>1, <1>2, <2>1
    <3> QED BY <1>4, <3>1, AppendedToQueue
  <2>2. CASE ~listening[x]
    BY <1>1, <2>2
  <2> QED BY <2>1, <2>2
<1>6. StepOfStorage
  BY <1>1, <1>4, <1>5 DEF StepOfStorage, OnItsWay
<1>7. Exchanges'
  <2> SUFFICES ASSUME NEW x \in Windows
               PROVE  /\ Exchange(x, "updateItems", "done", busy[x])'
                      /\ Exchange(x, "getItems", "items", status[x] = "opening")'
    BY DEF Exchanges
  <2>1. /\ Exchange(x, "updateItems", "done", busy[x])
        /\ Exchange(x, "getItems", "items", status[x] = "opening")
    BY DEF NoticeInv, Exchanges
  <2>2. /\ toMain'[x] = toMain[x] /\ status'[x] = status[x] /\ busy'[x] = busy[x]
        /\ \A type \in {"done", "items"} :
             /\ Free(toWindow[x], type) => Free(toWindow'[x], type)
             /\ AtMostOne(toWindow[x], type) => AtMostOne(toWindow'[x], type)
    BY <1>1, <1>4, <1>5
  <2> QED BY <2>1, <2>2 DEF Exchange
<1>8. Phases'
  BY <1>1 DEF NoticeInv, Phases
<1> QED BY <1>6, <1>7, <1>8, StorageKeeps

\* Everything that follows by itself in the storage.
LEMMA PropagateKeeps ==
  ASSUME NoticeInv, IInv', UNCHANGED noticeVars, Propagate
  PROVE  NoticeInv'
<1>1. CASE FireChange
  BY <1>1, FireChangeKeeps
<1>2. ASSUME NEW w \in Windows, Step(w) PROVE NoticeInv'
  BY <1>2, FlushKeeps, ClosedKeeps, ReceiveItemsKeeps, ReceiveDoneKeeps, ReceiveChangeKeeps,
     HandleListenKeeps, HandleGetItemsKeeps, HandleUpdateKeeps DEF Step
<1> QED BY <1>1, <1>2 DEF Propagate

(***************************************************************************)
(* The notice                                                              *)
(***************************************************************************)
\* When the storage has settled nothing is on its way, and all windows show
\* the same.
LEMMA SettledShows ==
  ASSUME NoticeInv, Settled
  PROVE  /\ changed = {}
         /\ \A w \in Windows :
              /\ pending[w] = NoChange /\ Elements(toMain[w]) = {} /\ Elements(toWindow[w]) = {}
              /\ \A k : ~OnItsWay(w, k)
              /\ status[w] = "open" => \A k \in Keys : cache[w][k] = main[k]
<1>1. IInv /\ changed = {}
  BY DEF NoticeInv, Settled
<1>2. ASSUME NEW w \in Windows
      PROVE  /\ pending[w] = NoChange /\ Elements(toMain[w]) = {} /\ Elements(toWindow[w]) = {}
             /\ \A k : ~OnItsWay(w, k)
  BY EmptyQueue, EmptySays DEF Settled, OnItsWay, NoChange
<1>3. ASSUME NEW w \in Windows, status[w] = "open", NEW k \in Keys
      PROVE  cache[w][k] = main[k]
  <2>1. /\ pending[w] = NoChange /\ toMain[w] = <<>> /\ toWindow[w] = <<>>
    BY DEF Settled
  <2>2. k \notin DOMAIN pending[w] /\ Silent(toWindow[w], k) /\ ~LastSays(toMain[w], k, cache[w][k])
    BY <2>1, EmptySays DEF NoChange
  <2> QED BY <1>1, <1>3, <2>2 DEF IInv, Delivery, OwnOrMain
<1> QED BY <1>1, <1>2, <1>3

\* Steps that leave the storage, the clock and the dismissals alone.
LEMMA QuietKeeps ==
  ASSUME NoticeInv, UNCHANGED <<sharedVars, now, age, lastDismissed>>, IInv', NoticeTypes', Looked',
         \A w \in looked' : status[w] = "open"
  PROVE  NoticeInv'
<1>1. /\ now' = now /\ age' = age /\ lastDismissed' = lastDismissed
      /\ UNCHANGED <<main, changed, status, cache, pending, busy, toMain, toWindow>>
  BY DEF sharedVars, windowVars, channelVars
<1>2. Exchanges'
  BY <1>1 DEF NoticeInv, Exchanges, Exchange, Free, AtMostOne
<1>3. Phases'
  BY <1>1 DEF NoticeInv, Phases
<1>4. OnlyNews'
  BY <1>1 DEF NoticeInv, OnlyNews, SaysNewest, Newest, Elements
<1>5. DismissalKept'
  BY <1>1 DEF NoticeInv, DismissalKept, OnItsWay, Silent
<1>6. Hours'
  BY <1>1 DEF NoticeInv, Hours, Elements
<1>7. Remembered'
  BY <1>1 DEF NoticeInv, Remembered, Since, OnItsWay, Silent, Elements
<1> QED BY <1>2, <1>3, <1>4, <1>5, <1>6, <1>7 DEF NoticeInv

\* The clock moves when the storage has settled.
LEMMA ClockKeeps ==
  ASSUME NoticeInv, Settled, UNCHANGED <<sharedVars, lastDismissed>>, IInv', NoticeTypes', looked' = {},
         \A w \in Windows : age'[w] < CheckInterval =>
           /\ age[w] < CheckInterval
           /\ \A t \in Hour : Since(w, t) => Since(w, t)'
  PROVE  NoticeInv'
<1>1. /\ lastDismissed' = lastDismissed
      /\ UNCHANGED <<main, changed, status, cache, pending, busy, toMain, toWindow>>
  BY DEF sharedVars, windowVars, channelVars
<1>2. Exchanges'
  BY <1>1 DEF NoticeInv, Exchanges, Exchange, Free, AtMostOne
<1>3. Phases'
  BY <1>1 DEF NoticeInv, Phases
<1>4. OnlyNews'
  <2>1. SaysNewest(NoChange)'
    BY DEF SaysNewest, NoChange
  <2>2. /\ changed' = {}
        /\ \A w \in Windows : /\ pending'[w] = NoChange
                              /\ Elements(toMain'[w]) = {} /\ Elements(toWindow'[w]) = {}
    BY <1>1, SettledShows
  <2>3. \A w \in Windows : SaysNewest(pending[w])'
    BY <2>2 DEF SaysNewest, NoChange
  <2> QED BY <2>2, <2>3 DEF OnlyNews, Elements
<1>5. DismissalKept'
  BY <1>1 DEF NoticeInv, DismissalKept, OnItsWay, Silent
<1>6. Hours'
  BY <1>1 DEF NoticeInv, Hours, Elements
<1>7. Looked'
  BY DEF Looked
<1>8. Remembered'
  <2> SUFFICES ASSUME NEW w \in Windows, age'[w] < CheckInterval
               PROVE  /\ Since(w, main[LastCheck])'
                      /\ status'[w] = "open" => Since(w, cache[w][LastCheck])'
                      /\ Elements(toWindow'[w]) = {}
    BY DEF Remembered, Elements
  <2>1. /\ Since(w, main[LastCheck])
        /\ status[w] = "open" => Since(w, cache[w][LastCheck])
    BY SettledShows DEF NoticeInv, Remembered
  <2>2. main[LastCheck] \in Hour /\ cache[w][LastCheck] \in Hour
    BY DEF NoticeInv, Hours
  <2>3. \A t \in Hour : Since(w, t) => Since(w, t)'
    OBVIOUS
  <2>4. Since(w, main[LastCheck])'
    BY <1>1, <2>1, <2>2, <2>3 DEF Since
  <2>5. status'[w] = "open" => Since(w, cache[w][LastCheck])'
    BY <1>1, <2>1, <2>2, <2>3 DEF Since
  <2>6. Elements(toWindow'[w]) = {}
    BY <1>1, SettledShows
  <2> QED BY <2>4, <2>5, <2>6
<1> QED BY <1>2, <1>3, <1>4, <1>5, <1>6, <1>7, <1>8 DEF NoticeInv

\* A change of one's own is set and waits to be sent.
LEMMA SetWaits ==
  ASSUME NoticeInv, NEW w \in Windows, NEW k \in Keys, NEW v, Set(w, k, v)
  PROVE  /\ UNCHANGED <<main, changed, status, busy, toMain, toWindow>>
         /\ status[w] = "open"
         /\ \A x \in Windows \ {w} : cache'[x] = cache[x] /\ pending'[x] = pending[x]
         /\ cache'[w][k] = v /\ \A l \in Keys \ {k} : cache'[w][l] = cache[w][l]
         /\ DOMAIN pending'[w] = DOMAIN pending[w] \cup {k} /\ pending'[w][k] = v
         /\ \A l \in DOMAIN pending[w] \ {k} : pending'[w][l] = pending[w][l]
         /\ \A x \in Windows : \A l : OnItsWay(x, l) => OnItsWay(x, l)'
<1>1. /\ UNCHANGED <<main, changed, status, busy, toMain, toWindow>>
      /\ status[w] = "open"
      /\ cache' = [cache EXCEPT ![w][k] = v]
      /\ pending' = [pending EXCEPT ![w] = With(pending[w], k, v)]
      /\ cache \in [Windows -> Rows] /\ pending \in [Windows -> Changes]
  BY DEF Set, channelVars, NoticeInv, IInv, Delivery, TypeOK
<1>2. pending'[w] = With(pending[w], k, v)
  BY <1>1
<1>3. \A x \in Windows \ {w} : cache'[x] = cache[x] /\ pending'[x] = pending[x]
  BY <1>1
<1>4. cache'[w][k] = v /\ \A l \in Keys \ {k} : cache'[w][l] = cache[w][l]
  BY <1>1 DEF Rows
<1>5. /\ DOMAIN pending'[w] = DOMAIN pending[w] \cup {k} /\ pending'[w][k] = v
      /\ \A l \in DOMAIN pending[w] \ {k} : pending'[w][l] = pending[w][l]
  BY <1>2 DEF With
<1>6. \A x \in Windows : \A l : OnItsWay(x, l) => OnItsWay(x, l)'
  BY <1>1, <1>3, <1>5 DEF OnItsWay, Silent
<1> QED BY <1>1, <1>3, <1>4, <1>5, <1>6

\* A window that closes takes with it what it shows and waits for.
LEMMA LeaveKeeps ==
  ASSUME NoticeInv, IInv', NEW w \in Windows, Leave(w)
  PROVE  NoticeInv'
<1>1. /\ UNCHANGED <<main, changed, cache, pending, busy, toMain, toWindow>>
      /\ status[w] = "open" /\ status'[w] = "closing"
      /\ \A x \in Windows \ {w} : status'[x] = status[x]
      /\ now' = now /\ allowed' = allowed /\ latest' = latest /\ age' = age
      /\ lastDismissed' = lastDismissed
      /\ looked' = looked \ {w}
  BY DEF Leave, Close, channelVars, NoticeInv, IInv, Delivery, TypeOK
<1>2. NoticeTypes'
  <2>1. asking' \in [Windows -> Nat] /\ notices' \subseteq notices
    BY DEF Leave, NoticeInv, NoticeTypes
  <2> QED BY <1>1, <2>1 DEF NoticeInv, NoticeTypes
<1>3. Exchanges'
  <2> SUFFICES ASSUME NEW x \in Windows
               PROVE  /\ Exchange(x, "updateItems", "done", busy[x])'
                      /\ Exchange(x, "getItems", "items", status[x] = "opening")'
    BY DEF Exchanges
  <2>1. /\ Exchange(x, "updateItems", "done", busy[x])
        /\ Exchange(x, "getItems", "items", status[x] = "opening")
    BY DEF NoticeInv, Exchanges
  <2>2. status'[x] = "opening" <=> status[x] = "opening"
    BY <1>1
  <2> QED BY <1>1, <2>1, <2>2 DEF Exchange, Free, AtMostOne
<1>4. Phases'
  <2>1. \A x \in looked' : x \in Windows \ {w} /\ status[x] = "open"
    BY <1>1 DEF NoticeInv, NoticeTypes, Phases
  <2>2. \A x \in looked' : status'[x] = "open"
    BY <1>1, <2>1
  <2>3. \A x \in Windows : status'[x] \in {"closed", "opening"} => status[x] \in {"closed", "opening"}
    BY <1>1
  <2> QED BY <1>1, <2>2, <2>3 DEF NoticeInv, Phases
<1>5. OnlyNews'
  BY <1>1 DEF NoticeInv, OnlyNews, SaysNewest, Newest, Elements
<1>6. DismissalKept'
  BY <1>1 DEF NoticeInv, DismissalKept, OnItsWay, Silent
<1>7. Hours'
  BY <1>1 DEF NoticeInv, Hours, Elements
<1>8. Looked'
  BY <1>1 DEF NoticeInv, Looked, IsCheckDue
<1>9. Remembered'
  <2>1. \A x \in Windows : status'[x] = "open" => status[x] = "open"
    BY <1>1
  <2> QED BY <1>1, <2>1 DEF NoticeInv, Remembered, Since, OnItsWay, Silent, Elements
<1> QED BY <1>2, <1>3, <1>4, <1>5, <1>6, <1>7, <1>8, <1>9 DEF NoticeInv

\* A window that asks is due, so what it stores is a change.
LEMMA AskSets ==
  ASSUME NoticeInv, NEW w \in Windows, Ask(w)
  PROVE  Set(w, LastCheck, now)
<1>1. cache[w][LastCheck] # now
  BY Numbers DEF Ask, NoticeInv
<1> QED BY <1>1 DEF Ask, Store

LEMMA AskKeeps ==
  ASSUME NoticeInv, IInv', NEW w \in Windows, Ask(w)
  PROVE  NoticeInv'
<1>1. /\ NoticeTypes /\ LastCheck \in Keys /\ DismissedTag \in Keys /\ LastCheck # DismissedTag
      /\ now \in Nat /\ now # Unset /\ ~IsCheckDue(now) /\ Newest(LastCheck) = now /\ now \in Hour
      /\ CheckInterval \in Nat \ {0}
  BY Numbers DEF NoticeInv
<1>2. /\ UNCHANGED <<main, changed, status, busy, toMain, toWindow>>
      /\ status[w] = "open"
      /\ \A x \in Windows \ {w} : cache'[x] = cache[x] /\ pending'[x] = pending[x]
      /\ cache'[w][LastCheck] = now
      /\ DOMAIN pending'[w] = DOMAIN pending[w] \cup {LastCheck} /\ pending'[w][LastCheck] = now
      /\ \A l \in DOMAIN pending[w] \ {LastCheck} : pending'[w][l] = pending[w][l]
      /\ \A x \in Windows : \A l : OnItsWay(x, l) => OnItsWay(x, l)'
  BY <1>1, AskSets, SetWaits
<1>3. /\ now' = now /\ allowed' = allowed /\ latest' = latest /\ notices' = notices
      /\ lastDismissed' = lastDismissed /\ looked' = looked \cup {w}
      /\ age' = [age EXCEPT ![w] = 0]
  BY DEF Ask, Look
<1>4. /\ age'[w] = 0 /\ \A x \in Windows \ {w} : age'[x] = age[x]
  BY <1>1, <1>3 DEF NoticeTypes
<1>5. NoticeTypes'
  <2>1. asking' \in [Windows -> Nat]
    BY <1>1 DEF Ask, NoticeTypes
  <2>2. age' \in [Windows -> 0 .. CheckInterval]
    <3>1. 0 \in 0 .. CheckInterval
      BY <1>1
    <3> QED BY <1>1, <1>3, <3>1 DEF NoticeTypes
  <2> QED BY <1>1, <1>3, <2>1, <2>2 DEF NoticeTypes
<1>6. Exchanges'
  BY <1>2 DEF NoticeInv, Exchanges, Exchange, Free, AtMostOne
<1>7. Phases'
  <2>1. \A x \in looked' : status'[x] = "open"
    BY <1>2, <1>3 DEF NoticeInv, Phases
  <2>2. \A x \in Windows : status'[x] \in {"closed", "opening"} =>
          status[x] \in {"closed", "opening"} /\ pending'[x] = pending[x] /\ busy'[x] = busy[x]
    BY <1>2
  <2> QED BY <2>1, <2>2 DEF NoticeInv, Phases
<1>8. OnlyNews'
  <2>1. \A l : Newest(l)' = Newest(l)
    BY <1>3 DEF Newest
  <2>2. \A l \in DOMAIN pending'[w] : pending'[w][l] = Newest(l)
    <3>1. \A l \in DOMAIN pending[w] : pending[w][l] = Newest(l)
      BY DEF NoticeInv, OnlyNews, SaysNewest
    <3> QED BY <1>1, <1>2, <3>1
  <2>3. \A x \in Windows : SaysNewest(pending[x])'
    BY <1>2, <2>1, <2>2 DEF NoticeInv, OnlyNews, SaysNewest
  <2>4. \A k \in changed' : main'[k] = Newest(k)'
    BY <1>2, <2>1 DEF NoticeInv, OnlyNews
  <2>5. ASSUME NEW x \in Windows
        PROVE  /\ \A m \in Elements(toMain[x])' : SaysNewest(m.changes)'
               /\ \A m \in Elements(toWindow[x])' : m.type # "items" => SaysNewest(m.changes)'
    BY <1>2, <2>1 DEF NoticeInv, OnlyNews, SaysNewest, Elements
  <2> QED BY <2>3, <2>4, <2>5 DEF OnlyNews
<1>9. DismissalKept'
  BY <1>1, <1>2, <1>3 DEF NoticeInv, DismissalKept
<1>10. Hours'
  <2>1. \A x \in Windows : cache'[x][LastCheck] \in Hour
    BY <1>1, <1>2 DEF NoticeInv, Hours
  <2> QED BY <1>2, <2>1 DEF NoticeInv, Hours, Elements
<1>11. Looked'
  <2>1. \A x \in looked' : allowed => ~IsCheckDue(cache'[x][LastCheck])
    BY <1>1, <1>2, <1>3 DEF NoticeInv, Looked, NoticeTypes
  <2> QED BY <1>3, <2>1 DEF Looked, IsCheckDue
<1>12. Remembered'
  <2> SUFFICES ASSUME NEW x \in Windows, age'[x] < CheckInterval
               PROVE  /\ Since(x, main[LastCheck])' \/ OnItsWay(x, LastCheck)'
                      /\ status'[x] = "open" => Since(x, cache[x][LastCheck])'
                      /\ \A m \in Elements(toWindow[x])' :
                           m.type = "items" => Since(x, m.changes[LastCheck])'
    BY DEF Remembered
  <2>1. CASE x # w
    <3>1. /\ age'[x] = age[x] /\ now' = now /\ cache'[x] = cache[x]
      BY <1>2, <1>3, <1>4, <2>1
    <3> QED BY <1>2, <3>1 DEF NoticeInv, Remembered, Since, Elements
  <2>2. CASE x = w
    <3>1. OnItsWay(x, LastCheck)'
      BY <1>2, <2>2 DEF OnItsWay
    <3>2. Since(x, cache[x][LastCheck])'
      BY <1>1, <1>2, <1>3, <1>4, <2>2 DEF Since
    <3>3. Free(toWindow[w], "items")
      BY <1>2 DEF NoticeInv, Exchanges, Exchange
    <3>4. \A m \in Elements(toWindow[x])' : m.type # "items"
      BY <1>2, <2>2, <3>3 DEF Free, Elements
    <3> QED BY <3>1, <3>2, <3>4
  <2> QED BY <2>1, <2>2
<1> QED BY <1>5, <1>6, <1>7, <1>8, <1>9, <1>10, <1>11, <1>12 DEF NoticeInv

\* What is dismissed is in the storage already or is set.
LEMMA DismissKeeps ==
  ASSUME NoticeInv, IInv', NEW w \in Windows, NEW tag \in 1 .. MaxRelease, Dismiss(w, tag)
  PROVE  NoticeInv'
<1>1. /\ NoticeTypes /\ LastCheck \in Keys /\ DismissedTag \in Keys /\ LastCheck # DismissedTag
  BY Numbers DEF NoticeInv
<1>2. /\ Settled /\ status[w] = "open" /\ Store(w, DismissedTag, tag)
      /\ now' = now /\ allowed' = allowed /\ looked' = looked /\ asking' = asking
      /\ latest' = latest /\ age' = age /\ lastDismissed' = tag
      /\ notices' = notices \ {<<w, tag>>}
  BY DEF Dismiss, IsOpen
<1>3. NoticeTypes'
  <2>1. tag \in 0 .. MaxRelease
    BY NoticeAssumption
  <2> QED BY <1>1, <1>2, <2>1 DEF NoticeTypes
<1>4. /\ UNCHANGED <<main, changed, status, busy, toMain, toWindow>>
      /\ \A x \in Windows : cache'[x][LastCheck] = cache[x][LastCheck]
      /\ \A x \in Windows \ {w} : pending'[x] = NoChange
      /\ \A k \in DOMAIN pending'[w] : k = DismissedTag /\ pending'[w][k] = tag
      /\ main[DismissedTag] = tag \/ OnItsWay(w, DismissedTag)'
  <2>1. /\ \A x \in Windows : pending[x] = NoChange
        /\ cache[w][DismissedTag] = main[DismissedTag]
    BY <1>1, <1>2, SettledShows
  <2>2. CASE cache[w][DismissedTag] = tag
    <3>1. UNCHANGED <<main, changed, status, busy, toMain, toWindow, cache, pending>>
      BY <1>2, <2>2 DEF Store, sharedVars, windowVars, channelVars
    <3> QED BY <2>1, <2>2, <3>1 DEF NoChange
  <2>3. CASE cache[w][DismissedTag] # tag
    <3>1. Set(w, DismissedTag, tag)
      BY <1>2, <2>3 DEF Store
    <3>2. /\ UNCHANGED <<main, changed, status, busy, toMain, toWindow>>
          /\ \A x \in Windows \ {w} : cache'[x] = cache[x] /\ pending'[x] = pending[x]
          /\ \A l \in Keys \ {DismissedTag} : cache'[w][l] = cache[w][l]
          /\ DOMAIN pending'[w] = DOMAIN pending[w] \cup {DismissedTag}
          /\ pending'[w][DismissedTag] = tag
      BY <1>1, <3>1, SetWaits
    <3>3. OnItsWay(w, DismissedTag)'
      BY <3>2 DEF OnItsWay
    <3>4. DOMAIN pending'[w] = {DismissedTag}
      BY <2>1, <3>2 DEF NoChange
    <3>5. \A x \in Windows : cache'[x][LastCheck] = cache[x][LastCheck]
      BY <1>1, <3>2
    <3> QED BY <2>1, <3>2, <3>3, <3>4, <3>5
  <2> QED BY <2>2, <2>3
<1>5. Exchanges'
  BY <1>4 DEF NoticeInv, Exchanges, Exchange, Free, AtMostOne
<1>6. Phases'
  <2>1. \A x \in Windows : status'[x] \in {"closed", "opening"} => x # w
    BY <1>2, <1>4
  <2> QED BY <1>2, <1>4, <2>1 DEF NoticeInv, Phases
<1>7. OnlyNews'
  <2>1. /\ changed = {}
        /\ \A x \in Windows : Elements(toMain[x]) = {} /\ Elements(toWindow[x]) = {}
    BY <1>2, SettledShows
  <2>2. Newest(DismissedTag)' = tag
    BY <1>1, <1>2 DEF Newest, DismissedTag, LastCheck
  <2>3. SaysNewest(pending[w])'
    BY <1>4, <2>2 DEF SaysNewest
  <2>4. \A x \in Windows \ {w} : SaysNewest(pending[x])'
    BY <1>4 DEF SaysNewest, NoChange
  <2>5. \A x \in Windows : SaysNewest(pending[x])'
    BY <2>3, <2>4
  <2>6. \A x \in Windows : Elements(toMain[x])' = {} /\ Elements(toWindow[x])' = {}
    <3>1. toMain' = toMain /\ toWindow' = toWindow
      BY <1>4
    <3>2. \A x \in Windows : Elements(toMain'[x]) = {} /\ Elements(toWindow'[x]) = {}
      BY <2>1, <3>1
    <3> QED BY <3>2 DEF Elements
  <2>7. changed' = {}
    BY <1>4, <2>1
  <2> QED BY <2>5, <2>6, <2>7 DEF OnlyNews
<1>8. DismissalKept'
  BY <1>2, <1>4 DEF DismissalKept
<1>9. Hours'
  BY <1>4 DEF NoticeInv, Hours, Elements
<1>10. Looked'
  <2>1. \A x \in looked : allowed => ~IsCheckDue(cache'[x][LastCheck])
    BY <1>1, <1>4 DEF NoticeInv, Looked, NoticeTypes
  <2> QED BY <1>2, <2>1 DEF Looked, IsCheckDue
<1>11. Remembered'
  <2> SUFFICES ASSUME NEW x \in Windows, age[x] < CheckInterval
               PROVE  /\ Since(x, main[LastCheck])
                      /\ status[x] = "open" => Since(x, cache[x][LastCheck])
                      /\ \A m \in Elements(toWindow[x]) :
                           m.type = "items" => Since(x, m.changes[LastCheck])
    BY <1>2, <1>4 DEF Remembered, Since, Elements
  <2>1. ~OnItsWay(x, LastCheck)
    BY <1>2, SettledShows
  <2> QED BY <2>1 DEF NoticeInv, Remembered
<1> QED BY <1>3, <1>5, <1>6, <1>7, <1>8, <1>9, <1>10, <1>11 DEF NoticeInv

\* The invariant of the storage holds with ReleaseNotice's steps as well: they
\* are steps of SharedStorage.
LEMMA NoticeStepsAreStorageSteps ==
  ASSUME NoticeTypes, NoticeNext
  PROVE  [Request \/ Propagate]_sharedVars
<1>1. /\ now \in Value /\ LastCheck \in Keys /\ DismissedTag \in Keys
      /\ \A tag \in 1 .. MaxRelease : tag \in Value
  BY Numbers, NoticeAssumption DEF Value
<1>2. ASSUME NEW w \in Windows, NEW k \in Keys, NEW v \in Value, Store(w, k, v)
      PROVE  Request \/ UNCHANGED sharedVars
  BY <1>2 DEF Store, Request
<1>3. CASE Propagate
  BY <1>3
<1>4. ASSUME NEW w \in Windows,
             NotDue(w) \/ Answered(w) \/ \E tag \in 1 .. MaxRelease : CloseNotice(w, tag)
      PROVE  UNCHANGED sharedVars
  BY <1>4 DEF NotDue, Answered, CloseNotice
<1>5. ASSUME NEW w \in Windows, Ask(w) PROVE Request \/ UNCHANGED sharedVars
  BY <1>1, <1>2, <1>5 DEF Ask
<1>6. ASSUME NEW w \in Windows, NEW tag \in 1 .. MaxRelease, Dismiss(w, tag)
      PROVE  Request \/ UNCHANGED sharedVars
  BY <1>1, <1>2, <1>6 DEF Dismiss
<1>7. ASSUME NEW w \in Windows, Come(w) \/ Leave(w) PROVE Request
  BY <1>7 DEF Come, Leave, Request
<1>8. Tick \/ ChangeSettings \/ Publish \/ (\E t \in 0 .. MaxTime : SetBack(t)) =>
        UNCHANGED sharedVars
  BY DEF Tick, ChangeSettings, Publish, SetBack
<1> QED BY <1>3, <1>4, <1>5, <1>6, <1>7, <1>8 DEF NoticeNext

LEMMA NoticeInitially == NoticeInit => NoticeInv
<1> SUFFICES ASSUME NoticeInit PROVE NoticeInv
  OBVIOUS
<1>1. IInv
  <2>1. Init => CallsFit
    BY DEF Init, CallsFit
  <2> QED BY <2>1, InitDelivery DEF IInv, NoticeInit
<1>2. /\ LastCheck \in Keys /\ DismissedTag \in Keys
      /\ CheckInterval \in Nat \ {0} /\ MaxTime \in Nat /\ MaxRelease \in Nat
      /\ 0 \in Values /\ 0 # Unset
  BY NoticeAssumption, ConstantsAssumption
<1>3. /\ main \in Rows /\ changed = {} /\ status \in [Windows -> {"closed", "open"}]
      /\ now = 0 /\ allowed \in BOOLEAN /\ looked = {} /\ latest = 0 /\ notices = {}
      /\ lastDismissed = 0
      /\ \A w \in Windows :
           /\ cache[w] = IF status[w] = "open" THEN main ELSE Nothing
           /\ pending[w] = NoChange /\ ~busy[w] /\ toMain[w] = <<>> /\ toWindow[w] = <<>>
           /\ asking[w] = 0 /\ age[w] = IF main[LastCheck] = 0 THEN 0 ELSE CheckInterval
      /\ main[LastCheck] \in {Unset, 0}
  BY <1>2 DEF NoticeInit, Init
<1>4. NoticeTypes
  <2>1. age \in [Windows -> 0 .. CheckInterval]
    BY <1>2 DEF NoticeInit
  <2>2. asking \in [Windows -> Nat]
    BY DEF NoticeInit
  <2>3. now \in 0 .. MaxTime /\ latest \in 0 .. MaxRelease /\ lastDismissed \in 0 .. MaxRelease
    BY <1>2, <1>3
  <2> QED BY <1>3, <2>1, <2>2, <2>3 DEF NoticeTypes
<1>5. \A w \in Windows :
        /\ Elements(toMain[w]) = {} /\ Elements(toWindow[w]) = {}
        /\ SaysNewest(pending[w])
        /\ \A type : /\ Free(toMain[w], type) /\ AtMostOne(toMain[w], type)
                     /\ Free(toWindow[w], type) /\ AtMostOne(toWindow[w], type)
  BY <1>3, EmptyQueue DEF SaysNewest, NoChange
<1>6. Exchanges
  BY <1>5 DEF Exchanges, Exchange
<1>7. Phases
  BY <1>3 DEF Phases
<1>8. OnlyNews
  BY <1>3, <1>5 DEF OnlyNews
<1>9. DismissalKept
  BY <1>3 DEF DismissalKept
<1>10. Hours
  <2>1. main[LastCheck] \in Hour /\ Nothing[LastCheck] \in Hour
    BY <1>2, <1>3 DEF Hour, Nothing
  <2> QED BY <1>3, <1>5, <2>1 DEF Hours
<1>11. Looked
  BY <1>3 DEF Looked
<1>12. Remembered
  <2> SUFFICES ASSUME NEW w \in Windows, age[w] < CheckInterval
               PROVE  /\ Since(w, main[LastCheck])
                      /\ status[w] = "open" => Since(w, cache[w][LastCheck])
    BY <1>5 DEF Remembered
  <2>1. main[LastCheck] = 0 /\ age[w] = 0
    BY <1>2, <1>3
  <2>2. Since(w, main[LastCheck])
    BY <1>2, <1>3, <2>1 DEF Since
  <2> QED BY <1>3, <2>2
<1> QED BY <1>1, <1>4, <1>6, <1>7, <1>8, <1>9, <1>10, <1>11, <1>12 DEF NoticeInv

LEMMA NoticeStepKeeps ==
  ASSUME NoticeInv, NoticeNext
  PROVE  NoticeInv'
<1>1. NoticeTypes /\ IInv
  BY DEF NoticeInv
<1>2. IInv'
  BY <1>1, NoticeStepsAreStorageSteps, NextIInv
<1>3. CASE Propagate /\ UNCHANGED noticeVars
  BY <1>2, <1>3, PropagateKeeps
<1>4. ASSUME NEW w \in Windows, NotDue(w) PROVE NoticeInv'
  <2>1. /\ UNCHANGED <<sharedVars, now, allowed, asking, latest, notices, age, lastDismissed>>
        /\ looked' = looked \cup {w} /\ status[w] = "open"
        /\ ~allowed \/ ~IsCheckDue(cache[w][LastCheck])
    BY <1>4 DEF NotDue, Look, IsOpen
  <2>2. NoticeTypes'
    BY <1>1, <2>1 DEF NoticeTypes
  <2>3. Looked'
    BY <2>1 DEF NoticeInv, Looked, IsCheckDue, sharedVars, windowVars
  <2>4. \A x \in looked' : status[x] = "open"
    BY <2>1 DEF NoticeInv, Phases
  <2> QED BY <1>2, <2>1, <2>2, <2>3, <2>4, QuietKeeps
<1>5. ASSUME NEW w \in Windows, Answered(w) PROVE NoticeInv'
  <2>1. /\ UNCHANGED <<sharedVars, now, allowed, looked, latest, age, lastDismissed>>
        /\ asking' = [asking EXCEPT ![w] = @ - 1] /\ asking[w] > 0
        /\ notices' = notices \/ (latest > 0 /\ notices' = notices \cup {<<w, latest>>})
    BY <1>5 DEF Answered, ShouldNotify
  <2>2. asking' \in [Windows -> Nat]
    BY <1>1, <2>1 DEF NoticeTypes
  <2>3. notices' \in SUBSET (Windows \X (1 .. MaxRelease))
    <3>1. latest > 0 => latest \in 1 .. MaxRelease
      BY <1>1, NoticeAssumption DEF NoticeTypes
    <3> QED BY <1>1, <2>1, <3>1 DEF NoticeTypes
  <2>4. NoticeTypes'
    BY <1>1, <2>1, <2>2, <2>3 DEF NoticeTypes
  <2>5. Looked'
    BY <2>1 DEF NoticeInv, Looked, IsCheckDue, sharedVars, windowVars
  <2>6. \A x \in looked' : status[x] = "open"
    BY <2>1 DEF NoticeInv, Phases
  <2> QED BY <1>2, <2>1, <2>4, <2>5, <2>6, QuietKeeps
<1>6. ASSUME NEW w \in Windows, NEW tag \in 1 .. MaxRelease, CloseNotice(w, tag)
      PROVE  NoticeInv'
  <2>1. /\ UNCHANGED <<sharedVars, now, allowed, looked, asking, latest, age, lastDismissed>>
        /\ notices' = notices \ {<<w, tag>>}
    BY <1>6 DEF CloseNotice
  <2>2. NoticeTypes'
    BY <1>1, <2>1 DEF NoticeTypes
  <2>3. Looked'
    BY <2>1 DEF NoticeInv, Looked, IsCheckDue, sharedVars, windowVars
  <2>4. \A x \in looked' : status[x] = "open"
    BY <2>1 DEF NoticeInv, Phases
  <2> QED BY <1>2, <2>1, <2>2, <2>3, <2>4, QuietKeeps
<1>7. CASE ChangeSettings \/ Publish
  <2>1. /\ UNCHANGED <<sharedVars, now, asking, notices, age, lastDismissed>>
        /\ \/ looked' = {} /\ allowed' = ~allowed /\ latest' = latest
           \/ looked' = looked /\ allowed' = allowed /\ latest' = latest + 1 /\ latest < MaxRelease
    BY <1>7 DEF ChangeSettings, Publish
  <2>2. latest' \in 0 .. MaxRelease
    BY <1>1, <2>1, NoticeAssumption DEF NoticeTypes
  <2>3. allowed' \in BOOLEAN
    BY <1>1, <2>1 DEF NoticeTypes
  <2>4. looked' \subseteq looked
    BY <2>1
  <2>5. NoticeTypes'
    BY <1>1, <2>1, <2>2, <2>3, <2>4 DEF NoticeTypes
  <2>6. Looked'
    <3>1. CASE looked' = {}
      BY <3>1 DEF Looked
    <3>2. CASE looked' = looked /\ allowed' = allowed
      BY <2>1, <3>2 DEF NoticeInv, Looked, IsCheckDue, sharedVars, windowVars
    <3> QED BY <2>1, <3>1, <3>2
  <2>7. \A x \in looked' : status[x] = "open"
    BY <2>4 DEF NoticeInv, Phases
  <2> QED BY <1>2, <2>1, <2>5, <2>6, <2>7, QuietKeeps
<1>8. CASE Tick
  <2>1. /\ Settled /\ UNCHANGED <<sharedVars, allowed, asking, latest, notices, lastDismissed>>
        /\ now < MaxTime /\ now' = now + 1 /\ looked' = {}
        /\ age' = [x \in Windows |-> IF age[x] < CheckInterval THEN age[x] + 1 ELSE age[x]]
    BY <1>8 DEF Tick
  <2>2. /\ now \in Nat /\ MaxTime \in Nat /\ CheckInterval \in Nat
        /\ \A x \in Windows : age[x] \in 0 .. CheckInterval
    BY <1>1, Numbers, NoticeAssumption DEF NoticeTypes
  <2>3. now' \in 0 .. MaxTime
    BY <2>1, <2>2
  <2>4. age' \in [Windows -> 0 .. CheckInterval]
    BY <2>1, <2>2
  <2>5. NoticeTypes'
    BY <1>1, <2>1, <2>3, <2>4 DEF NoticeTypes
  <2>6. ASSUME NEW x \in Windows, age'[x] < CheckInterval
        PROVE  /\ age[x] < CheckInterval
               /\ \A t \in Hour : Since(x, t) => Since(x, t)'
    <3>1. age[x] < CheckInterval /\ age'[x] = age[x] + 1
      BY <2>1, <2>2, <2>6
    <3> QED BY <2>1, <2>2, <3>1 DEF Since, Hour
  <2> QED BY <1>2, <2>1, <2>5, <2>6, ClockKeeps
<1>9. ASSUME NEW t \in 0 .. MaxTime, SetBack(t) PROVE NoticeInv'
  <2>1. /\ Settled /\ UNCHANGED <<sharedVars, allowed, asking, latest, notices, lastDismissed>>
        /\ now' = t /\ looked' = {}
        /\ age' = [x \in Windows |-> CheckInterval]
    BY <1>9 DEF SetBack
  <2>2. CheckInterval \in Nat
    BY NoticeAssumption
  <2>3. age' \in [Windows -> 0 .. CheckInterval] /\ \A x \in Windows : ~(age'[x] < CheckInterval)
    BY <2>1, <2>2
  <2>4. NoticeTypes'
    BY <1>1, <2>1, <2>3 DEF NoticeTypes
  <2> QED BY <1>2, <2>1, <2>3, <2>4, ClockKeeps
<1>10. ASSUME NEW w \in Windows, Ask(w) \/ Come(w) \/ Leave(w) PROVE NoticeInv'
  BY <1>2, <1>10, AskKeeps, LeaveKeeps, OpenKeeps DEF Come
<1>11. ASSUME NEW w \in Windows, NEW tag \in 1 .. MaxRelease, Dismiss(w, tag) PROVE NoticeInv'
  BY <1>2, <1>11, DismissKeeps
<1> QED BY <1>3, <1>4, <1>5, <1>6, <1>7, <1>8, <1>9, <1>10, <1>11 DEF NoticeNext

LEMMA NoticeStutterKeeps ==
  ASSUME NoticeInv, UNCHANGED allVars
  PROVE  NoticeInv'
<1>1. /\ UNCHANGED sharedVars /\ now' = now /\ allowed' = allowed /\ looked' = looked
      /\ asking' = asking /\ latest' = latest /\ notices' = notices /\ age' = age
      /\ lastDismissed' = lastDismissed
  BY DEF allVars, noticeVars
<1>2. IInv'
  BY <1>1, NextIInv DEF NoticeInv
<1>3. NoticeTypes'
  BY <1>1 DEF NoticeInv, NoticeTypes
<1>4. Looked'
  BY <1>1 DEF NoticeInv, Looked, IsCheckDue, sharedVars, windowVars
<1>5. \A x \in looked' : status[x] = "open"
  BY <1>1 DEF NoticeInv, Phases
<1> QED BY <1>1, <1>2, <1>3, <1>4, <1>5, QuietKeeps

\* What holds in every state of the notice: besides the storage's invariant,
\* that all changes under way are news, and that a window which has asked
\* within a day finds that wherever it looks.
THEOREM NoticeInvariance == NoticeSpec => []NoticeInv
<1>1. NoticeInv /\ [NoticeNext]_allVars => NoticeInv'
  BY NoticeStepKeeps, NoticeStutterKeeps
<1> QED BY <1>1, NoticeInitially, PTL DEF NoticeSpec

\* Every variable of ReleaseNotice keeps its type, those of the storage included.
THEOREM NoticeTypesKept == NoticeSpec => []NoticeTypeOK
<1>1. NoticeInv => NoticeTypeOK
  BY DEF NoticeInv, IInv, Delivery, NoticeTypes, NoticeTypeOK
<1> QED BY <1>1, NoticeInvariance, PTL

\* The notice is a user of the storage like any other: what it does to the
\* storage is what SharedStorage allows, so that what holds of that holds here.
THEOREM NoticeUsesStorage == NoticeSpec => Spec
<1>1. NoticeInit => Init
  BY DEF NoticeInit
<1>2. NoticeInv /\ [NoticeNext]_allVars => [Request \/ Propagate]_sharedVars
  <2>1. NoticeInv /\ NoticeNext => [Request \/ Propagate]_sharedVars
    BY NoticeStepsAreStorageSteps DEF NoticeInv
  <2>2. UNCHANGED allVars => UNCHANGED sharedVars
    BY DEF allVars
  <2> QED BY <2>1, <2>2
<1> QED BY <1>1, <1>2, NoticeInvariance, PTL DEF NoticeSpec, Spec

\* When the windows have looked and the storage has settled, the last check is
\* less than a day old, whatever the clock did.
THEOREM ChecksEveryDay == NoticeSpec => []CheckedToday
<1>1. NoticeInv => CheckedToday
  <2> SUFFICES ASSUME NoticeInv, allowed, Settled, AllLooked, NEW w \in Windows, IsOpen(w)
               PROVE  main[LastCheck] \in {t \in 0 .. now : now - t < CheckInterval}
    BY DEF CheckedToday
  <2>1. /\ NoticeTypes /\ LastCheck \in Keys /\ now \in Nat /\ CheckInterval \in Nat
    BY Numbers DEF NoticeInv
  <2>2. w \in looked /\ ~IsCheckDue(cache[w][LastCheck])
    BY DEF AllLooked, NoticeInv, Looked
  <2>3. cache[w][LastCheck] = main[LastCheck]
    BY <2>1, SettledShows DEF IsOpen
  <2>4. main[LastCheck] \in Nat \cup {Unset}
    BY DEF NoticeInv, Hours, Hour
  <2> QED BY <2>1, <2>2, <2>3, <2>4 DEF IsCheckDue
<1> QED BY <1>1, NoticeInvariance, PTL

\* A window that asks has not asked for a day, and when the storage has
\* settled, no other window has.
THEOREM AsksOnceADay == NoticeSpec => OnceADayEach
<1>1. ASSUME NoticeInv, NoticeNext, NEW w \in Windows, NEW v \in Windows,
             Asks(w), w = v \/ Settled
      PROVE  age[v] >= CheckInterval
  <2>1. /\ NoticeTypes /\ LastCheck \in Keys /\ now \in Nat /\ CheckInterval \in Nat
        /\ age[v] \in Nat
    BY <1>1, Numbers DEF NoticeInv
  <2>2. asking[w] \in Nat /\ asking \in [Windows -> Nat]
    BY <2>1 DEF NoticeTypes
  <2>3. Ask(w)
    <3>1. asking'[w] > asking[w]
      BY <1>1 DEF Asks
    <3>2. asking'[w] # asking[w] /\ asking'[w] # asking[w] - 1 /\ asking'[w] # 0
      BY <2>2, <3>1
    <3>3. asking' # asking
      BY <3>2
    <3>4. ASSUME NEW x \in Windows, Answered(x) \/ Leave(x) PROVE FALSE
      <4>1. asking' = [asking EXCEPT ![x] = @ - 1] \/ asking' = [asking EXCEPT ![x] = 0]
        BY <3>4 DEF Answered, Leave
      <4> QED BY <2>2, <3>2, <4>1
    <3>5. ASSUME NEW x \in Windows, Ask(x) PROVE x = w
      <4>1. asking' = [asking EXCEPT ![x] = @ + 1]
        BY <3>5 DEF Ask
      <4> QED BY <2>2, <3>2, <4>1
    <3>6. \A x \in Windows : ~NotDue(x) /\ ~Come(x)
      BY <3>3 DEF NotDue, Come, noticeVars
    <3>7. \A x \in Windows, tag \in 1 .. MaxRelease : ~Dismiss(x, tag) /\ ~CloseNotice(x, tag)
      BY <3>3 DEF Dismiss, CloseNotice
    <3>8. ~Tick /\ ~ChangeSettings /\ ~Publish /\ \A t \in 0 .. MaxTime : ~SetBack(t)
      BY <3>3 DEF Tick, ChangeSettings, Publish, SetBack
    <3>9. ~UNCHANGED noticeVars
      BY <3>3 DEF noticeVars
    <3> QED BY <1>1, <3>4, <3>5, <3>6, <3>7, <3>8, <3>9 DEF NoticeNext
  <2>4. IsCheckDue(cache[w][LastCheck]) /\ status[w] = "open"
    BY <2>3 DEF Ask, Look, IsOpen
  <2>5. ASSUME age[v] < CheckInterval PROVE Since(v, cache[w][LastCheck])
    <3>1. CASE w = v
      BY <1>1, <2>4, <2>5, <3>1 DEF NoticeInv, Remembered
    <3>2. CASE Settled
      <4>1. cache[w][LastCheck] = main[LastCheck] /\ ~OnItsWay(v, LastCheck)
        BY <1>1, <2>1, <2>4, <3>2, SettledShows
      <4> QED BY <1>1, <2>5, <4>1 DEF NoticeInv, Remembered
    <3> QED BY <1>1, <3>1, <3>2
  <2>6. cache[w][LastCheck] \in Nat \cup {Unset}
    BY <1>1 DEF NoticeInv, Hours, Hour
  <2> QED BY <2>1, <2>4, <2>5, <2>6 DEF Since, IsCheckDue
<1>2. NoticeInv /\ [NoticeNext]_allVars =>
        [\A w, v \in Windows :
           Asks(w) /\ (w = v \/ Settled) => age[v] >= CheckInterval]_allVars
  BY <1>1
<1> QED BY <1>2, NoticeInvariance, PTL DEF NoticeSpec, OnceADayEach

\* Once a dismissal has settled, no window shows that release.
THEOREM DismissedForGood == NoticeSpec => DismissedStays
<1>1. ASSUME NoticeInv, NoticeNext, NEW w \in Windows, NEW tag \in 1 .. MaxRelease,
             <<w, tag>> \in notices' \ notices, Settled
      PROVE  tag # lastDismissed
  <2>1. /\ NoticeTypes /\ DismissedTag \in Keys
    BY <1>1, Numbers DEF NoticeInv
  <2>2. notices' # notices /\ ~(notices' \subseteq notices)
    BY <1>1
  <2>3. PICK x \in Windows : Answered(x)
    <3>1. \A x \in Windows : ~NotDue(x) /\ ~Come(x) /\ ~Ask(x) /\ ~Leave(x)
      BY <2>2 DEF NotDue, Look, Come, Ask, Leave, noticeVars
    <3>2. \A x \in Windows, r \in 1 .. MaxRelease : ~Dismiss(x, r) /\ ~CloseNotice(x, r)
      BY <2>2 DEF Dismiss, CloseNotice
    <3>3. ~Tick /\ ~ChangeSettings /\ ~Publish /\ \A t \in 0 .. MaxTime : ~SetBack(t)
      BY <2>2 DEF Tick, ChangeSettings, Publish, SetBack
    <3>4. ~UNCHANGED noticeVars
      BY <2>2 DEF noticeVars
    <3> QED BY <1>1, <3>1, <3>2, <3>3, <3>4 DEF NoticeNext
  <2>4. /\ status[x] = "open" /\ ShouldNotify(latest, cache[x][DismissedTag])
        /\ notices' = notices \cup {<<x, latest>>}
    BY <2>2, <2>3 DEF Answered, IsOpen
  <2>5. tag = latest /\ latest # cache[x][DismissedTag]
    BY <1>1, <2>4 DEF ShouldNotify
  <2>6. cache[x][DismissedTag] = main[DismissedTag] /\ \A y \in Windows : ~OnItsWay(y, DismissedTag)
    BY <1>1, <2>1, <2>4, SettledShows
  <2>7. lastDismissed = 0 \/ main[DismissedTag] = lastDismissed
    BY <1>1, <2>6 DEF NoticeInv, DismissalKept
  <2>8. tag # 0
    OBVIOUS
  <2> QED BY <2>5, <2>6, <2>7, <2>8
<1>2. NoticeInv /\ [NoticeNext]_allVars =>
        [\A w \in Windows, tag \in 1 .. MaxRelease :
           <<w, tag>> \in notices' \ notices /\ Settled => tag # lastDismissed]_allVars
  BY <1>1
<1> QED BY <1>2, NoticeInvariance, PTL DEF NoticeSpec, DismissedStays
=============================================================================
