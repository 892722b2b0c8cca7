--------------------------- MODULE Channels_proofs ---------------------------
(***************************************************************************)
(* Proofs about Channels, for any number of calls and events and whatever  *)
(* the channel's registration, the time-outs of kept requests,             *)
(* cancellation and disposal do in which order: a call is run at most once *)
(* (first part), the server follows what the client says (second), and     *)
(* every handler has an answer to come (third).                            *)
(***************************************************************************)
EXTENDS Channels, FiniteSetTheorems, SequenceTheorems, WellFoundedInduction, TLAPS

\* Where the request of a call is.
Sent(c) == {i \in DOMAIN toServer : toServer[i].type = "request" /\ toServer[i].id = c}
Kept(c) == {i \in DOMAIN pending : pending[i] = c}

Early == {"unused", "waiting"}

\* A call that waits has no request anywhere.
NotYet ==
  \A c \in Calls : calls[c] \in Early => Sent(c) = {} /\ Kept(c) = {} /\ executions[c] = 0

\* There is one request of a call, and it is in one place: on its way, kept, or run.
OneRequest ==
  \A c \in Calls :
    /\ \A i, j \in Sent(c) : i = j
    /\ \A i, j \in Kept(c) : i = j
    /\ executions[c] <= 1
    /\ Sent(c) # {} => Kept(c) = {} /\ executions[c] = 0
    /\ Kept(c) # {} => executions[c] = 0

\* An event that counts as active is subscribed to.
Subscribed == \A l \in active : subscriptions[l] >= 1

IInv == TypeOK /\ NotYet /\ OneRequest /\ Subscribed

(***************************************************************************)
(* Sequences                                                               *)
(***************************************************************************)
LEMMA OrderOf ==
  ASSUME NEW S, IsFiniteSet(S)
  PROVE  /\ SetToSeq(S) \in [1 .. Cardinality(S) -> S]
         /\ Cardinality(S) \in Nat
         /\ DOMAIN SetToSeq(S) = 1 .. Cardinality(S)
         /\ \A i, j \in DOMAIN SetToSeq(S) : SetToSeq(S)[i] = SetToSeq(S)[j] => i = j
<1>1. Cardinality(S) \in Nat /\ ExistsBijection(1 .. Cardinality(S), S)
  BY FS_CardinalityType
<1>2. PICK f \in [1 .. Cardinality(S) -> S] : IsInjective(f)
  BY <1>1 DEF ExistsBijection, Bijection, Injection
<1>3. SetToSeq(S) \in [1 .. Cardinality(S) -> S] /\ IsInjective(SetToSeq(S))
  BY <1>2 DEF SetToSeq
<1> QED BY <1>1, <1>3 DEF IsInjective

LEMMA RequestsFinite ==
  ASSUME NEW S \in SUBSET Requests
  PROVE  IsFiniteSet(S)
<1>1. IsFiniteSet(Requests)
  BY ConstantsAssumption, FS_Union DEF Requests
<1> QED BY <1>1, FS_Subset

LEMMA TimesProperties ==
  ASSUME NEW S, NEW q \in Seq(S), NEW x
  PROVE  /\ Times(q, x) \in Nat
         /\ x \in Range(q) => Times(q, x) >= 1
         /\ {i \in DOMAIN q : q[i] = x} = {} => Times(q, x) = 0
         /\ (\A i, j \in DOMAIN q : q[i] = x /\ q[j] = x => i = j) => Times(q, x) <= 1
<1> DEFINE P == {i \in DOMAIN q : q[i] = x}
<1>1. Len(q) \in Nat /\ DOMAIN q = 1 .. Len(q)
  BY LenProperties
<1>2. IsFiniteSet(P)
  <2>1. IsFiniteSet(1 .. Len(q))
    BY <1>1, FS_Interval
  <2> QED BY <1>1, <2>1, FS_Subset
<1>3. Cardinality(P) \in Nat /\ (Cardinality(P) = 0 <=> P = {})
  BY <1>2, FS_CardinalityType, FS_EmptySet
<1>4. Times(q, x) = Cardinality(P)
  BY DEF Times
<1>5. ASSUME x \in Range(q) PROVE Cardinality(P) >= 1
  <2>1. P # {}
    BY <1>5 DEF Range
  <2> QED BY <1>3, <2>1
<1>6. ASSUME \A i, j \in DOMAIN q : q[i] = x /\ q[j] = x => i = j PROVE Cardinality(P) <= 1
  <2>1. CASE P = {}
    BY <1>3, <2>1
  <2>2. CASE P # {}
    <3>1. PICK i \in P : TRUE
      BY <2>2
    <3>2. P = {i}
      BY <1>6, <3>1
    <3>3. Cardinality({i}) = 1
      BY FS_Singleton
    <3> HIDE DEF P
    <3> QED BY <3>2, <3>3
  <2> QED BY <2>1, <2>2
<1> QED BY <1>3, <1>4, <1>5, <1>6

LEMMA TimesOfOne ==
  ASSUME NEW r, NEW x
  PROVE  Times(<<r>>, x) = IF x = r THEN 1 ELSE 0
<1>1. DOMAIN <<r>> = {1} /\ <<r>>[1] = r
  OBVIOUS
<1>2. {i \in DOMAIN <<r>> : <<r>>[i] = x} = IF x = r THEN {1} ELSE {}
  BY <1>1
<1> QED BY <1>2, FS_Singleton, FS_EmptySet DEF Times

(***************************************************************************)
(* Messages                                                                *)
(***************************************************************************)
\* What is sent goes to the end; only requests can be somebody's request.
LEMMA SendProperties ==
  ASSUME TypeOK, NEW type \in {"request", "stop"}, NEW ids \in SUBSET Requests, Send(type, ids)
  PROVE  /\ toServer' \in Seq(Message)
         /\ \A c \in Calls : type = "stop" \/ c \notin ids => Sent(c)' = Sent(c)
         /\ \A c \in Calls : Sent(c) = {} => \A i, j \in Sent(c)' : i = j
<1> DEFINE order == SetToSeq(ids)
           m == [i \in DOMAIN order |-> [type |-> type, id |-> order[i]]]
           n == Cardinality(ids)
<1>1. /\ n \in Nat /\ DOMAIN order = 1 .. n
      /\ \A i \in 1 .. n : order[i] \in ids
      /\ \A i, j \in 1 .. n : order[i] = order[j] => i = j
  BY RequestsFinite, OrderOf
<1>2. m \in Seq(Message) /\ Len(m) = n /\ \A i \in 1 .. n : m[i] = [type |-> type, id |-> order[i]]
  <2>1. m \in [1 .. n -> Message]
    BY <1>1 DEF Message
  <2> QED BY <1>1, <2>1
<1>3. toServer \in Seq(Message) /\ toServer' = toServer \o m
  BY DEF TypeOK, Send
<1>4. /\ toServer' \in Seq(Message)
      /\ Len(toServer') = Len(toServer) + n
      /\ \A i \in 1 .. Len(toServer) + n :
           toServer'[i] = IF i <= Len(toServer) THEN toServer[i] ELSE m[i - Len(toServer)]
  BY <1>2, <1>3, ConcatProperties
<1>5. /\ Len(toServer) \in Nat /\ DOMAIN toServer = 1 .. Len(toServer)
      /\ DOMAIN toServer' = 1 .. Len(toServer) + n
  BY <1>3, <1>4, LenProperties
<1>6. ASSUME NEW i \in DOMAIN toServer', i \notin DOMAIN toServer
      PROVE  /\ i - Len(toServer) \in 1 .. n
             /\ toServer'[i].type = type /\ toServer'[i].id = order[i - Len(toServer)]
  <2>1. i - Len(toServer) \in 1 .. n /\ ~(i <= Len(toServer))
    BY <1>1, <1>5, <1>6
  <2>2. toServer'[i] = m[i - Len(toServer)]
    BY <1>4, <1>5, <2>1
  <2> QED BY <1>2, <2>1, <2>2
<1>7. /\ DOMAIN toServer \subseteq DOMAIN toServer'
      /\ \A i \in DOMAIN toServer : toServer'[i] = toServer[i]
  <2>1. DOMAIN toServer \subseteq DOMAIN toServer'
    BY <1>1, <1>5
  <2>2. ASSUME NEW i \in 1 .. Len(toServer) PROVE toServer'[i] = toServer[i]
    <3>1. i \in 1 .. Len(toServer) + n /\ i <= Len(toServer)
      BY <1>1, <1>5, <2>2
    <3> QED BY <1>4, <3>1
  <2> QED BY <1>5, <2>1, <2>2
<1>8. ASSUME NEW c \in Calls, type = "stop" \/ c \notin ids PROVE Sent(c)' = Sent(c)
  <2>1. \A i \in DOMAIN toServer' : i \notin DOMAIN toServer =>
          ~(toServer'[i].type = "request" /\ toServer'[i].id = c)
    BY <1>1, <1>6, <1>8
  <2> QED BY <1>7, <2>1 DEF Sent
<1>9. ASSUME NEW c \in Calls, Sent(c) = {}, NEW i \in Sent(c)', NEW j \in Sent(c)' PROVE i = j
  <2>1. /\ i \in DOMAIN toServer' /\ i \notin DOMAIN toServer /\ toServer'[i].id = c
        /\ j \in DOMAIN toServer' /\ j \notin DOMAIN toServer /\ toServer'[j].id = c
    BY <1>7, <1>9 DEF Sent
  <2>2. /\ i - Len(toServer) \in 1 .. n /\ j - Len(toServer) \in 1 .. n
        /\ order[i - Len(toServer)] = order[j - Len(toServer)]
    BY <1>6, <2>1
  <2>3. i - Len(toServer) = j - Len(toServer)
    BY <1>1, <2>2
  <2> QED BY <1>5, <2>1, <2>3
<1> QED BY <1>4, <1>8, <1>9

\* The server takes the first message.
LEMMA TakeProperties ==
  ASSUME TypeOK, toServer # <<>>, toServer' = Tail(toServer)
  PROVE  /\ toServer' \in Seq(Message)
         /\ Head(toServer) \in Message
         /\ \A c \in Calls : \A i \in Sent(c)' : i \in Nat /\ i >= 1 /\ i + 1 \in Sent(c)
         /\ \A c \in Calls : Head(toServer).type = "request" /\ Head(toServer).id = c => 1 \in Sent(c)
<1>1. toServer \in Seq(Message)
  BY DEF TypeOK
<1>2. /\ Head(toServer) \in Message /\ toServer' \in Seq(Message)
      /\ Len(toServer') = Len(toServer) - 1
      /\ \A i \in 1 .. Len(toServer') : toServer'[i] = toServer[i + 1]
  BY <1>1, HeadTailProperties
<1>3. /\ Len(toServer) \in Nat \ {0} /\ DOMAIN toServer = 1 .. Len(toServer)
      /\ DOMAIN toServer' = 1 .. Len(toServer')
  BY <1>1, <1>2, EmptySeq, LenProperties
<1>4. \A c \in Calls : \A i \in Sent(c)' : i \in Nat /\ i >= 1 /\ i + 1 \in Sent(c)
  BY <1>2, <1>3 DEF Sent
<1>5. Head(toServer) = toServer[1] /\ 1 \in DOMAIN toServer
  BY <1>1, <1>3
<1> QED BY <1>2, <1>4, <1>5 DEF Sent

ToClient == [type : {"initialize"}] \cup [type : {"answer"}, id : Calls]

LEMMA AnswerProperties ==
  ASSUME TypeOK, NEW S \in SUBSET Calls, Answer(S)
  PROVE  toClient' \in Seq(ToClient)
<1> DEFINE order == SetToSeq(S)
           m == [i \in DOMAIN order |-> [type |-> "answer", id |-> order[i]]]
           n == Cardinality(S)
<1>1. n \in Nat /\ DOMAIN order = 1 .. n /\ \A i \in 1 .. n : order[i] \in Calls
  BY RequestsFinite, OrderOf DEF Requests
<1>2. m \in [1 .. n -> ToClient]
  BY <1>1 DEF ToClient
<1>3. m \in Seq(ToClient)
  <2> HIDE DEF m, n
  <2> QED BY <1>1, <1>2
<1>4. toClient \in Seq(ToClient)
  BY DEF TypeOK, ToClient
<1>5. toClient' = toClient \o m
  BY DEF Answer
<1> HIDE DEF m
<1> QED BY <1>3, <1>4, <1>5, ConcatProperties

LEMMA ReceiveProperties ==
  ASSUME TypeOK, NEW type, Receive(type)
  PROVE  /\ toClient' \in Seq(ToClient)
         /\ Head(toClient).type = type
         /\ type = "answer" => Head(toClient).id \in Calls
<1>1. toClient \in Seq(ToClient) /\ toClient # <<>> /\ toClient' = Tail(toClient)
  BY DEF TypeOK, Receive, ToClient
<1>2. Head(toClient) \in ToClient /\ toClient' \in Seq(ToClient)
  BY <1>1, HeadTailProperties
<1>3. Head(toClient).type = type
  BY DEF Receive
<1>4. ASSUME type = "answer" PROVE Head(toClient).id \in Calls
  BY <1>2, <1>3, <1>4 DEF ToClient
<1> QED BY <1>2, <1>3, <1>4

(***************************************************************************)
(* Requests                                                                *)
(***************************************************************************)
\* A step that makes, keeps and runs no request.
LEMMA NothingMoves ==
  ASSUME NotYet, OneRequest, pending' = pending, executions' = executions,
         \A c \in Calls : Sent(c)' = Sent(c),
         \A c \in Calls : calls'[c] \in Early => calls[c] \in Early
  PROVE  NotYet' /\ OneRequest'
<1>1. \A c \in Calls : Kept(c)' = Kept(c)
  BY DEF Kept
<1> QED BY <1>1 DEF NotYet, OneRequest

LEMMA SameServer ==
  ASSUME toServer' = toServer
  PROVE  \A c \in Calls : Sent(c)' = Sent(c)
BY DEF Sent

\* doRequest() of calls that waited.
LEMMA DoRequestStep ==
  ASSUME IInv, NEW S \in SUBSET Requests, DoRequest(S),
         \A c \in S \cap Calls : calls[c] \in Early,
         pending' = pending, executions' = executions
  PROVE  /\ NotYet' /\ OneRequest' /\ toServer' \in Seq(Message)
         /\ calls' \in [Calls -> CallStates] /\ listening' \in [Listens -> ListenStates]
         /\ handlers' \in SUBSET Requests
<1> USE DEF IInv
<1>1. PICK thrown \in SUBSET (S \cap Calls) :
        /\ handlers' = handlers \cup (S \ thrown)
        /\ Send("request", S \ thrown)
        /\ calls' = [c \in Calls |-> IF c \in thrown THEN "answered"
                                     ELSE IF c \in S THEN "asked" ELSE calls[c]]
        /\ listening' = [l \in Listens |-> IF l \in S THEN "on" ELSE listening[l]]
  BY DEF DoRequest
<1>2. S \ thrown \in SUBSET Requests
  OBVIOUS
<1>3. /\ toServer' \in Seq(Message)
      /\ \A c \in Calls : c \notin S \ thrown => Sent(c)' = Sent(c)
      /\ \A c \in Calls : Sent(c) = {} => \A i, j \in Sent(c)' : i = j
  BY <1>1, <1>2, SendProperties
<1>4. \A c \in Calls : Kept(c)' = Kept(c)
  BY DEF Kept
<1>5. \A c \in Calls : c \notin S => calls'[c] = calls[c]
  BY <1>1
<1>6. \A c \in Calls : c \in S => calls'[c] \notin Early
  BY <1>1 DEF Early
<1>7. NotYet'
  BY <1>3, <1>4, <1>5, <1>6 DEF NotYet
<1>8. OneRequest'
  <2> SUFFICES ASSUME NEW c \in Calls
               PROVE  /\ \A i, j \in Sent(c)' : i = j
                      /\ \A i, j \in Kept(c) : i = j
                      /\ executions[c] <= 1
                      /\ Sent(c)' # {} => Kept(c) = {} /\ executions[c] = 0
                      /\ Kept(c) # {} => executions[c] = 0
    BY <1>4 DEF OneRequest
  <2>1. CASE c \in S
    BY <1>3, <2>1 DEF NotYet, OneRequest
  <2>2. CASE c \notin S
    BY <1>3, <2>2 DEF OneRequest
  <2> QED BY <2>1, <2>2
<1>9. calls' \in [Calls -> CallStates] /\ listening' \in [Listens -> ListenStates]
  BY <1>1 DEF TypeOK, CallStates, ListenStates
<1>10. handlers' \in SUBSET Requests
  BY <1>1, <1>2 DEF TypeOK
<1> QED BY <1>3, <1>7, <1>8, <1>9, <1>10

\* onPromise() and onEventListen() of the requests in seq.
LEMMA ExecuteStep ==
  ASSUME IInv, NEW seq \in Seq(Requests), Execute(seq)
  PROVE  /\ running' \in SUBSET Calls /\ active' \in SUBSET Listens
         /\ executions' \in [Calls -> Nat] /\ subscriptions' \in [Listens -> Nat]
         /\ Subscribed'
         /\ \A c \in Calls : executions'[c] = executions[c] + Times(seq, c)
<1> USE DEF IInv
<1>1. \A x : Times(seq, x) \in Nat /\ (x \in Range(seq) => Times(seq, x) >= 1)
  BY TimesProperties
<1>2. /\ running' \in SUBSET Calls /\ active' \in SUBSET Listens
      /\ active' = active \cup (Range(seq) \cap Listens)
  BY DEF Execute, TypeOK
<1>3. /\ executions' \in [Calls -> Nat]
      /\ \A c \in Calls : executions'[c] = executions[c] + Times(seq, c)
  BY <1>1 DEF Execute, TypeOK
<1>4. /\ subscriptions' \in [Listens -> Nat]
      /\ \A l \in Listens : subscriptions'[l] = subscriptions[l] + Times(seq, l)
  BY <1>1 DEF Execute, TypeOK
<1>5. Subscribed'
  <2> SUFFICES ASSUME NEW l \in active' PROVE subscriptions'[l] >= 1
    BY DEF Subscribed
  <2>1. l \in Listens /\ subscriptions[l] \in Nat /\ Times(seq, l) \in Nat
    BY <1>1, <1>2 DEF TypeOK
  <2>2. subscriptions[l] >= 1 \/ Times(seq, l) >= 1
    BY <1>1, <1>2 DEF Subscribed
  <2> QED BY <1>4, <2>1, <2>2
<1> QED BY <1>2, <1>3, <1>4, <1>5

(***************************************************************************)
(* The client                                                              *)
(***************************************************************************)
LEMMA CallStep ==
  ASSUME IInv, NEW c \in Calls, Call(c)
  PROVE  IInv'
<1>1. TypeOK /\ NotYet /\ OneRequest /\ Subscribed
  BY DEF IInv
<1>2. /\ pending' = pending /\ executions' = executions
      /\ active' = active /\ subscriptions' = subscriptions
      /\ calls[c] = "unused"
  BY DEF Call, serverVars
<1>3. Subscribed'
  BY <1>1, <1>2 DEF Subscribed
<1>4. CASE initialized
  <2>1. DoRequest({c}) /\ {c} \in SUBSET Requests
    BY <1>4 DEF Call, Requests
  <2>2. \A d \in {c} \cap Calls : calls[d] \in Early
    BY <1>2 DEF Early
  <2>3. /\ NotYet' /\ OneRequest' /\ toServer' \in Seq(Message)
        /\ calls' \in [Calls -> CallStates] /\ listening' \in [Listens -> ListenStates]
        /\ handlers' \in SUBSET Requests
    BY <1>2, <2>1, <2>2, DoRequestStep
  <2>4. TypeOK'
    BY <1>1, <2>3 DEF TypeOK, Call, serverVars
  <2> QED BY <1>3, <2>3, <2>4 DEF IInv
<1>5. CASE ~initialized
  <2>1. calls' = [calls EXCEPT ![c] = "waiting"] /\ UNCHANGED <<listening, handlers, toServer>>
    BY <1>5 DEF Call
  <2>2. calls' \in [Calls -> CallStates]
    BY <1>1, <2>1 DEF TypeOK, CallStates
  <2>3. TypeOK'
    BY <1>1, <2>1, <2>2 DEF TypeOK, Call, serverVars
  <2>4. \A d \in Calls : calls'[d] \in Early => calls[d] \in Early
    BY <1>1, <1>2, <2>1 DEF TypeOK, Early
  <2>5. NotYet' /\ OneRequest'
    BY <1>1, <1>2, <2>1, <2>4, SameServer, NothingMoves
  <2> QED BY <1>3, <2>3, <2>5 DEF IInv
<1> QED BY <1>4, <1>5

LEMMA ListenStep ==
  ASSUME IInv, NEW l \in Listens, Listen(l)
  PROVE  IInv'
<1>1. TypeOK /\ NotYet /\ OneRequest /\ Subscribed
  BY DEF IInv
<1>2. /\ pending' = pending /\ executions' = executions
      /\ active' = active /\ subscriptions' = subscriptions
  BY DEF Listen, serverVars
<1>3. Subscribed'
  BY <1>1, <1>2 DEF Subscribed
<1>4. listens' \in [Listens -> 0 .. MaxListens]
  BY <1>1, ConstantsAssumption DEF Listen, TypeOK
<1>5. CASE initialized
  <2>1. DoRequest({l}) /\ {l} \in SUBSET Requests
    BY <1>5 DEF Listen, Requests
  <2>2. {l} \cap Calls = {}
    BY ConstantsAssumption
  <2>3. /\ NotYet' /\ OneRequest' /\ toServer' \in Seq(Message)
        /\ calls' \in [Calls -> CallStates] /\ listening' \in [Listens -> ListenStates]
        /\ handlers' \in SUBSET Requests
    BY <1>2, <2>1, <2>2, DoRequestStep
  <2>4. TypeOK'
    BY <1>1, <1>4, <2>3 DEF TypeOK, Listen, serverVars
  <2> QED BY <1>3, <2>3, <2>4 DEF IInv
<1>6. CASE ~initialized
  <2>1. /\ listening' = [listening EXCEPT ![l] = "waiting"]
        /\ handlers' = handlers \cup {l}
        /\ UNCHANGED <<calls, toServer>>
    BY <1>6 DEF Listen
  <2>2. listening' \in [Listens -> ListenStates] /\ handlers' \in SUBSET Requests
    BY <1>1, <2>1 DEF TypeOK, ListenStates, Requests
  <2>3. TypeOK'
    BY <1>1, <1>4, <2>1, <2>2 DEF TypeOK, Listen, serverVars
  <2>4. NotYet' /\ OneRequest'
    BY <1>1, <1>2, <2>1, SameServer, NothingMoves
  <2> QED BY <1>3, <2>3, <2>4 DEF IInv
<1> QED BY <1>5, <1>6

\* A step that tells the server to stop something.
LEMMA StopStep ==
  ASSUME IInv, NEW ids \in SUBSET Requests, Send("stop", ids), UNCHANGED serverVars,
         \A c \in Calls : calls'[c] \in Early => calls[c] \in Early
  PROVE  NotYet' /\ OneRequest' /\ Subscribed' /\ toServer' \in Seq(Message)
<1>1. TypeOK /\ NotYet /\ OneRequest /\ Subscribed
  BY DEF IInv
<1>2. toServer' \in Seq(Message) /\ \A c \in Calls : Sent(c)' = Sent(c)
  BY <1>1, SendProperties
<1>3. pending' = pending /\ executions' = executions /\ active' = active /\ subscriptions' = subscriptions
  BY DEF serverVars
<1>4. Subscribed'
  BY <1>1, <1>3 DEF Subscribed
<1> QED BY <1>1, <1>2, <1>3, <1>4, NothingMoves

LEMMA CancelStep ==
  ASSUME IInv, NEW c \in Calls, Cancel(c)
  PROVE  IInv'
<1>1. TypeOK
  BY DEF IInv
<1> DEFINE ids == {d \in {c} : calls[d] = "asked"}
<1>2. /\ calls' = [d \in Calls |-> IF d \in {c} THEN "cancelled" ELSE calls[d]]
      /\ Send("stop", ids) /\ ids \in SUBSET Requests /\ UNCHANGED serverVars
  BY DEF Cancel, CancelCalls, Requests
<1> HIDE DEF ids
<1>3. \A d \in Calls : calls'[d] \in Early => calls[d] \in Early
  BY <1>2 DEF Early
<1>4. NotYet' /\ OneRequest' /\ Subscribed' /\ toServer' \in Seq(Message)
  BY <1>2, <1>3, StopStep
<1>5. calls' \in [Calls -> CallStates]
  BY <1>1, <1>2 DEF TypeOK, CallStates
<1>6. TypeOK'
  BY <1>1, <1>4, <1>5 DEF TypeOK, Cancel, serverVars
<1> QED BY <1>4, <1>6 DEF IInv

LEMMA StopListeningStep ==
  ASSUME IInv, NEW l \in Listens, StopListening(l)
  PROVE  IInv'
<1>1. TypeOK
  BY DEF IInv
<1> DEFINE ids == IF listening[l] = "on" THEN {l} ELSE {}
<1>2. Send("stop", ids) /\ ids \in SUBSET Requests /\ UNCHANGED serverVars /\ calls' = calls
  BY DEF StopListening, Requests
<1> HIDE DEF ids
<1>3. NotYet' /\ OneRequest' /\ Subscribed' /\ toServer' \in Seq(Message)
  BY <1>2, StopStep
<1>4. listening' \in [Listens -> ListenStates] /\ handlers' \in SUBSET Requests
  BY <1>1 DEF StopListening, TypeOK, ListenStates
<1>5. TypeOK'
  BY <1>1, <1>3, <1>4 DEF TypeOK, StopListening, serverVars
<1> QED BY <1>3, <1>5 DEF IInv

LEMMA DisposeStep ==
  ASSUME IInv, Dispose
  PROVE  IInv'
<1>1. TypeOK
  BY DEF IInv
<1> DEFINE on == {l \in Listens : listening[l] = "on"}
           ids == {c \in Calls : calls[c] = "asked"} \cup on
<1>2. /\ calls' = [c \in Calls |-> IF calls[c] \in {"waiting", "asked"} THEN "cancelled" ELSE calls[c]]
      /\ listening' = [l \in Listens |-> IF l \in on THEN "off" ELSE listening[l]]
      /\ handlers' = handlers \ on
      /\ Send("stop", ids) /\ UNCHANGED serverVars
  BY DEF Dispose
<1>3. ids \in SUBSET Requests
  BY DEF Requests
<1> HIDE DEF ids, on
<1>4. \A c \in Calls : calls'[c] \in Early => calls[c] \in Early
  BY <1>2 DEF Early
<1>5. NotYet' /\ OneRequest' /\ Subscribed' /\ toServer' \in Seq(Message)
  BY <1>2, <1>3, <1>4, StopStep
<1>6. calls' \in [Calls -> CallStates]
  BY <1>1, <1>2 DEF TypeOK, CallStates
<1>7. listening' \in [Listens -> ListenStates] /\ handlers' \in SUBSET Requests
  BY <1>1, <1>2 DEF TypeOK, ListenStates
<1>8. isDisposed' \in BOOLEAN
  BY DEF Dispose
<1>9. TypeOK'
  BY <1>1, <1>5, <1>6, <1>7, <1>8 DEF TypeOK, Dispose, serverVars
<1> QED BY <1>5, <1>9 DEF IInv

LEMMA InitializeStep ==
  ASSUME IInv, Initialize
  PROVE  IInv'
<1>1. TypeOK /\ NotYet /\ OneRequest /\ Subscribed
  BY DEF IInv
<1> DEFINE S == {c \in Calls : calls[c] = "waiting"} \cup {l \in Listens : listening[l] = "waiting"}
<1>2. /\ DoRequest(S) /\ S \in SUBSET Requests
      /\ pending' = pending /\ executions' = executions
      /\ active' = active /\ subscriptions' = subscriptions
  BY DEF Initialize, Requests, serverVars
<1>3. \A c \in S \cap Calls : calls[c] \in Early
  BY ConstantsAssumption DEF Early
<1> HIDE DEF S
<1>4. /\ NotYet' /\ OneRequest' /\ toServer' \in Seq(Message)
      /\ calls' \in [Calls -> CallStates] /\ listening' \in [Listens -> ListenStates]
      /\ handlers' \in SUBSET Requests
  BY <1>2, <1>3, DoRequestStep
<1>5. toClient' \in Seq(ToClient) /\ initialized' \in BOOLEAN
  BY <1>1, ReceiveProperties DEF Initialize
<1>6. TypeOK'
  BY <1>1, <1>4, <1>5 DEF TypeOK, Initialize, serverVars, ToClient
<1>7. Subscribed'
  BY <1>1, <1>2 DEF Subscribed
<1> QED BY <1>4, <1>6, <1>7 DEF IInv

LEMMA OnResponseStep ==
  ASSUME IInv, OnResponse
  PROVE  IInv'
<1>1. TypeOK /\ NotYet /\ OneRequest /\ Subscribed
  BY DEF IInv
<1> DEFINE c == Head(toClient).id
<1>2. toClient' \in Seq(ToClient) /\ c \in Calls
  BY <1>1, ReceiveProperties DEF OnResponse
<1>3. /\ handlers' = handlers \ {c}
      /\ calls' = [calls EXCEPT ![c] = IF c \in handlers /\ @ = "asked" THEN "answered" ELSE @]
      /\ toServer' = toServer /\ pending' = pending /\ executions' = executions
      /\ active' = active /\ subscriptions' = subscriptions
  BY DEF OnResponse, serverVars
<1> HIDE DEF c
<1>4. calls' \in [Calls -> CallStates] /\ handlers' \in SUBSET Requests
  BY <1>1, <1>2, <1>3 DEF TypeOK, CallStates
<1>5. \A d \in Calls : calls'[d] \in Early => calls[d] \in Early
  BY <1>1, <1>2, <1>3 DEF TypeOK, Early
<1>6. NotYet' /\ OneRequest'
  BY <1>1, <1>3, <1>5, SameServer, NothingMoves
<1>7. TypeOK'
  BY <1>1, <1>2, <1>3, <1>4 DEF TypeOK, OnResponse, serverVars, ToClient
<1>8. Subscribed'
  BY <1>1, <1>3 DEF Subscribed
<1> QED BY <1>6, <1>7, <1>8 DEF IInv

(***************************************************************************)
(* The server                                                              *)
(***************************************************************************)
LEMMA HandleStopStep ==
  ASSUME IInv, HandleStop
  PROVE  IInv'
<1>1. TypeOK /\ NotYet /\ OneRequest /\ Subscribed
  BY DEF IInv
<1> DEFINE r == Head(toServer).id
<1>2. /\ toServer # <<>> /\ toServer' = Tail(toServer)
      /\ calls' = calls /\ pending' = pending /\ executions' = executions
      /\ DisposeActiveRequest(r)
  BY DEF HandleStop, Handle, clientVars
<1>3. toServer' \in Seq(Message) /\ \A c \in Calls : \A i \in Sent(c)' : i \in Nat /\ i + 1 \in Sent(c)
  BY <1>1, <1>2, TakeProperties
<1> HIDE DEF r
<1>4. \A c \in Calls : Kept(c)' = Kept(c)
  BY <1>2 DEF Kept
<1>5. NotYet'
  BY <1>1, <1>2, <1>3, <1>4 DEF NotYet
<1>6. OneRequest'
  <2> SUFFICES ASSUME NEW c \in Calls
               PROVE  /\ \A i, j \in Sent(c)' : i = j
                      /\ \A i, j \in Kept(c) : i = j
                      /\ executions[c] <= 1
                      /\ Sent(c)' # {} => Kept(c) = {} /\ executions[c] = 0
                      /\ Kept(c) # {} => executions[c] = 0
    BY <1>2, <1>4 DEF OneRequest
  <2>1. \A i, j \in Sent(c)' : i \in Nat /\ j \in Nat /\ i + 1 = j + 1
    BY <1>1, <1>3 DEF OneRequest
  <2>2. \A i, j \in Sent(c)' : i = j
    BY <2>1
  <2> QED BY <1>1, <1>3, <2>2 DEF OneRequest
<1>7. subscriptions' \in [Listens -> Nat] /\ active' \in SUBSET Listens
      /\ cancelled' \in SUBSET Calls
  <2>1. ASSUME NEW l \in Listens, l = r, r \in active PROVE subscriptions[l] - 1 \in Nat
    BY <1>1, <2>1 DEF Subscribed, TypeOK
  <2> QED BY <1>1, <1>2, <2>1 DEF DisposeActiveRequest, TypeOK
<1>8. Subscribed'
  <2> SUFFICES ASSUME NEW l \in active' PROVE subscriptions'[l] >= 1
    BY DEF Subscribed
  <2>1. l \in active /\ l # r /\ l \in Listens
    BY <1>1, <1>2 DEF DisposeActiveRequest, TypeOK
  <2> QED BY <1>1, <1>2, <2>1 DEF DisposeActiveRequest, Subscribed
<1>9. TypeOK'
  BY <1>1, <1>3, <1>7 DEF TypeOK, HandleStop, Handle, clientVars
<1> QED BY <1>5, <1>6, <1>8, <1>9 DEF IInv

LEMMA HandleRequestStep ==
  ASSUME IInv, HandleRequest
  PROVE  IInv'
<1>1. TypeOK /\ NotYet /\ OneRequest /\ Subscribed
  BY DEF IInv
<1> DEFINE r == Head(toServer).id
<1>2. /\ toServer # <<>> /\ toServer' = Tail(toServer) /\ calls' = calls
      /\ Head(toServer).type = "request"
      /\ IF registered
           THEN Execute(<<r>>) /\ UNCHANGED <<pending, timers, late>>
           ELSE CollectPending(r) /\ UNCHANGED <<running, executions, active, subscriptions>>
      /\ UNCHANGED cancelled
  BY DEF HandleRequest, Handle, clientVars
<1>3. /\ toServer' \in Seq(Message) /\ r \in Requests
      /\ \A c \in Calls : \A i \in Sent(c)' : i \in Nat /\ i >= 1 /\ i + 1 \in Sent(c)
      /\ \A c \in Calls : r = c => 1 \in Sent(c)
  BY <1>1, <1>2, TakeProperties DEF Message
<1> HIDE DEF r
<1>4. \A c \in Calls : \A i, j \in Sent(c)' : i = j
  <2> SUFFICES ASSUME NEW c \in Calls, NEW i \in Sent(c)', NEW j \in Sent(c)' PROVE i = j
    OBVIOUS
  <2>1. i \in Nat /\ j \in Nat /\ i + 1 = j + 1
    BY <1>1, <1>3 DEF OneRequest
  <2> QED BY <2>1
<1>5. \A c \in Calls : Sent(c)' # {} => Sent(c) # {}
  BY <1>3
<1>6. \A c \in Calls : r = c => Sent(c)' = {} /\ Kept(c) = {} /\ executions[c] = 0 /\ calls[c] \notin Early
  <2> SUFFICES ASSUME NEW c \in Calls, r = c
               PROVE  Sent(c)' = {} /\ Kept(c) = {} /\ executions[c] = 0 /\ calls[c] \notin Early
    OBVIOUS
  <2>1. 1 \in Sent(c)
    BY <1>3
  <2>2. ASSUME NEW i \in Sent(c)' PROVE FALSE
    <3>1. i \in Nat /\ i >= 1 /\ i + 1 = 1
      BY <1>1, <1>3, <2>1, <2>2 DEF OneRequest
    <3> QED BY <3>1
  <2> QED BY <1>1, <2>1, <2>2 DEF OneRequest, NotYet
<1>7. CASE registered
  <2>1. Execute(<<r>>) /\ <<r>> \in Seq(Requests) /\ pending' = pending /\ timers' = timers /\ late' = late
    BY <1>2, <1>3, <1>7
  <2>2. /\ running' \in SUBSET Calls /\ active' \in SUBSET Listens
        /\ executions' \in [Calls -> Nat] /\ subscriptions' \in [Listens -> Nat]
        /\ Subscribed'
        /\ \A c \in Calls : executions'[c] = executions[c] + Times(<<r>>, c)
    BY <2>1, ExecuteStep
  <2>3. \A c \in Calls : executions[c] \in Nat /\ executions'[c] = IF c = r THEN executions[c] + 1 ELSE executions[c]
    BY <1>1, <2>2, TimesOfOne DEF TypeOK
  <2>4. \A c \in Calls : Kept(c)' = Kept(c)
    BY <2>1 DEF Kept
  <2>5. NotYet'
    BY <1>1, <1>2, <1>5, <1>6, <2>3, <2>4 DEF NotYet
  <2>6. OneRequest'
    BY <1>1, <1>4, <1>5, <1>6, <2>3, <2>4 DEF OneRequest
  <2>7. TypeOK'
    BY <1>1, <1>3, <2>1, <2>2 DEF TypeOK, HandleRequest, Handle, clientVars
  <2> QED BY <2>2, <2>5, <2>6, <2>7 DEF IInv
<1>8. CASE ~registered
  <2>1. /\ pending' = Append(pending, r) /\ timers' = timers \cup ({r} \cap Calls)
        /\ late' = late \cup {r}
        /\ running' = running /\ executions' = executions /\ active' = active
        /\ subscriptions' = subscriptions
    BY <1>2, <1>8 DEF CollectPending
  <2>2. /\ pending \in Seq(Requests) /\ pending' \in Seq(Requests)
        /\ timers' \in SUBSET Calls /\ late' \in SUBSET Requests
    BY <1>1, <1>3, <2>1 DEF TypeOK
  <2>3. /\ DOMAIN pending = 1 .. Len(pending) /\ Len(pending) \in Nat
        /\ DOMAIN pending' = 1 .. Len(pending) + 1
        /\ \A i \in 1 .. Len(pending) + 1 : pending'[i] = IF i <= Len(pending) THEN pending[i] ELSE r
    BY <1>3, <2>1, <2>2, AppendProperties, LenProperties
  <2>4. \A c \in Calls : c # r => Kept(c)' = Kept(c)
    BY <2>3 DEF Kept
  <2>5. \A c \in Calls : c = r => \A i, j \in Kept(c)' : i = j
    <3> SUFFICES ASSUME NEW c \in Calls, c = r, NEW i \in Kept(c)' PROVE i = Len(pending) + 1
      OBVIOUS
    <3>1. i \in 1 .. Len(pending) + 1 /\ i \notin 1 .. Len(pending)
      BY <1>6, <2>3 DEF Kept
    <3> QED BY <2>3, <3>1
  <2>6. NotYet'
    BY <1>1, <1>2, <1>5, <1>6, <2>1, <2>4 DEF NotYet
  <2>7. OneRequest'
    <3> SUFFICES ASSUME NEW c \in Calls
                 PROVE  /\ \A i, j \in Sent(c)' : i = j
                        /\ \A i, j \in Kept(c)' : i = j
                        /\ executions[c] <= 1
                        /\ Sent(c)' # {} => Kept(c)' = {} /\ executions[c] = 0
                        /\ Kept(c)' # {} => executions[c] = 0
      BY <2>1 DEF OneRequest
    <3>1. CASE c = r
      BY <1>1, <1>4, <1>6, <2>5, <3>1 DEF OneRequest
    <3>2. CASE c # r
      BY <1>1, <1>4, <1>5, <2>4, <3>2 DEF OneRequest
    <3> QED BY <3>1, <3>2
  <2>8. Subscribed'
    BY <1>1, <2>1 DEF Subscribed
  <2>9. TypeOK'
    BY <1>1, <1>3, <2>1, <2>2 DEF TypeOK, HandleRequest, Handle, clientVars
  <2> QED BY <2>6, <2>7, <2>8, <2>9 DEF IInv
<1> QED BY <1>7, <1>8

\* A step that only answers.
LEMMA AnswerStep ==
  ASSUME IInv, NEW S \in SUBSET Calls, Answer(S), calls' = calls, toServer' = toServer,
         pending' = pending, executions' = executions, active' = active,
         subscriptions' = subscriptions
  PROVE  NotYet' /\ OneRequest' /\ Subscribed' /\ toClient' \in Seq(ToClient)
<1>1. TypeOK /\ NotYet /\ OneRequest /\ Subscribed
  BY DEF IInv
<1>2. NotYet' /\ OneRequest'
  BY <1>1, SameServer, NothingMoves
<1>3. Subscribed'
  BY <1>1 DEF Subscribed
<1> QED BY <1>1, <1>2, <1>3, AnswerProperties

LEMMA SettleStep ==
  ASSUME IInv, NEW c \in Calls, Settle(c)
  PROVE  IInv'
<1>1. TypeOK
  BY DEF IInv
<1>2. NotYet' /\ OneRequest' /\ Subscribed' /\ toClient' \in Seq(ToClient)
  BY AnswerStep DEF Settle, AnswerCall, clientVars
<1>3. TypeOK'
  BY <1>1, <1>2 DEF TypeOK, Settle, clientVars, ToClient
<1> QED BY <1>2, <1>3 DEF IInv

LEMMA TimesOutStep ==
  ASSUME IInv, NEW c \in Calls, TimesOut(c)
  PROVE  IInv'
<1>1. TypeOK
  BY DEF IInv
<1>2. NotYet' /\ OneRequest' /\ Subscribed' /\ toClient' \in Seq(ToClient)
  BY AnswerStep DEF TimesOut, clientVars
<1>3. TypeOK'
  BY <1>1, <1>2 DEF TypeOK, TimesOut, clientVars, ToClient
<1> QED BY <1>2, <1>3 DEF IInv

LEMMA RegisterChannelStep ==
  ASSUME IInv, RegisterChannel
  PROVE  IInv'
<1>1. TypeOK /\ NotYet /\ OneRequest /\ Subscribed
  BY DEF IInv
<1>2. NotYet' /\ OneRequest'
  BY <1>1, SameServer, NothingMoves DEF RegisterChannel, clientVars
<1>3. Subscribed'
  BY <1>1 DEF Subscribed, RegisterChannel
<1>4. TypeOK'
  BY <1>1 DEF TypeOK, RegisterChannel, clientVars
<1> QED BY <1>2, <1>3, <1>4 DEF IInv

LEMMA FlushStep ==
  ASSUME IInv, FlushPendingRequests
  PROVE  IInv'
<1>1. TypeOK /\ NotYet /\ OneRequest /\ Subscribed
  BY DEF IInv
<1>2. /\ pending \in Seq(Requests) /\ Execute(pending) /\ pending' = <<>> /\ timers' = {}
      /\ calls' = calls /\ toServer' = toServer
  BY <1>1 DEF TypeOK, FlushPendingRequests, ForgetFlushed, clientVars
<1>3. /\ running' \in SUBSET Calls /\ active' \in SUBSET Listens
      /\ executions' \in [Calls -> Nat] /\ subscriptions' \in [Listens -> Nat]
      /\ Subscribed'
      /\ \A c \in Calls : executions'[c] = executions[c] + Times(pending, c)
  BY <1>2, ExecuteStep
<1>4. \A c \in Calls : /\ Times(pending, c) \in Nat
                       /\ Kept(c) = {} => Times(pending, c) = 0
                       /\ (\A i, j \in Kept(c) : i = j) => Times(pending, c) <= 1
  <2> SUFFICES ASSUME NEW c \in Calls
               PROVE  /\ Times(pending, c) \in Nat
                      /\ Kept(c) = {} => Times(pending, c) = 0
                      /\ (\A i, j \in Kept(c) : i = j) => Times(pending, c) <= 1
    OBVIOUS
  <2>1. /\ Times(pending, c) \in Nat
        /\ {i \in DOMAIN pending : pending[i] = c} = {} => Times(pending, c) = 0
        /\ (\A i, j \in DOMAIN pending : pending[i] = c /\ pending[j] = c => i = j) => Times(pending, c) <= 1
    BY <1>2, TimesProperties
  <2> QED BY <2>1 DEF Kept
<1>5. \A c \in Calls : Sent(c)' = Sent(c) /\ Kept(c)' = {}
  BY <1>2 DEF Sent, Kept
<1>6. NotYet'
  BY <1>1, <1>2, <1>3, <1>4, <1>5 DEF NotYet
<1>7. OneRequest'
  <2> SUFFICES ASSUME NEW c \in Calls
               PROVE  /\ \A i, j \in Sent(c) : i = j
                      /\ executions'[c] <= 1
                      /\ Sent(c) # {} => executions'[c] = 0
    BY <1>5 DEF OneRequest
  <2>1. executions[c] \in Nat
    BY <1>1 DEF TypeOK
  <2>2. CASE Kept(c) = {}
    BY <1>1, <1>3, <1>4, <2>1, <2>2 DEF OneRequest
  <2>3. CASE Kept(c) # {}
    BY <1>1, <1>3, <1>4, <2>1, <2>3 DEF OneRequest
  <2> QED BY <2>2, <2>3
<1>8. TypeOK'
  <2>1. pending' \in Seq(Requests)
    <3>1. pending' = <<>>
      BY <1>2
    <3> QED BY <3>1
  <2>2. timers' \in SUBSET Calls
    BY <1>2
  <2>3. flushDue' \in BOOLEAN
    BY DEF FlushPendingRequests
  <2>4. UNCHANGED <<clientVars, toServer, toClient, registered, cancelled, serverDisposed, late, listens>>
    BY DEF FlushPendingRequests
  <2> QED BY <1>1, <1>3, <2>1, <2>2, <2>3, <2>4 DEF TypeOK, clientVars
<1> QED BY <1>3, <1>6, <1>7, <1>8 DEF IInv

LEMMA ServerDisposeStep ==
  ASSUME IInv, ServerDispose
  PROVE  IInv'
<1>1. TypeOK /\ NotYet /\ OneRequest /\ Subscribed
  BY DEF IInv
<1>2. NotYet' /\ OneRequest'
  BY <1>1, SameServer, NothingMoves DEF ServerDispose, clientVars
<1>3. Subscribed'
  BY DEF Subscribed, ServerDispose
<1>4. subscriptions' \in [Listens -> Nat]
  <2>1. ASSUME NEW l \in active PROVE subscriptions[l] - 1 \in Nat
    BY <1>1, <2>1 DEF Subscribed, TypeOK
  <2> QED BY <1>1, <2>1 DEF ServerDispose, TypeOK
<1>5. TypeOK'
  BY <1>1, <1>4 DEF TypeOK, ServerDispose, clientVars
<1> QED BY <1>2, <1>3, <1>5 DEF IInv

(***************************************************************************)
(* The specification                                                       *)
(***************************************************************************)
LEMMA InitIInv == Init => IInv
<1> SUFFICES ASSUME Init PROVE IInv
  OBVIOUS
<1>1. /\ initialized \in BOOLEAN /\ isDisposed \in BOOLEAN
      /\ calls \in [Calls -> CallStates] /\ listening \in [Listens -> ListenStates]
      /\ handlers \subseteq Requests
  BY DEF Init, CallStates, ListenStates
<1>2. toServer \in Seq(Message) /\ pending \in Seq(Requests)
  BY DEF Init
<1>3. toClient \in Seq([type : {"initialize"}] \cup [type : {"answer"}, id : Calls])
  BY DEF Init
<1>4. /\ registered \in BOOLEAN /\ flushDue \in BOOLEAN
      /\ timers \subseteq Calls /\ running \subseteq Calls /\ cancelled \subseteq Calls
      /\ active \subseteq Listens /\ serverDisposed \in BOOLEAN /\ late \subseteq Requests
  BY DEF Init
<1>5. subscriptions \in [Listens -> Nat] /\ executions \in [Calls -> Nat]
  BY DEF Init
<1>6. listens \in [Listens -> 0 .. MaxListens]
  BY ConstantsAssumption DEF Init
<1>7. TypeOK
  BY <1>1, <1>2, <1>3, <1>4, <1>5, <1>6 DEF TypeOK
<1>8. \A c \in Calls : Sent(c) = {} /\ Kept(c) = {} /\ executions[c] = 0
  BY DEF Init, Sent, Kept
<1>9. NotYet /\ OneRequest
  BY <1>8 DEF NotYet, OneRequest
<1>10. Subscribed
  BY DEF Init, Subscribed
<1> QED BY <1>7, <1>9, <1>10 DEF IInv

LEMMA NextIInv == IInv /\ [Next]_vars => IInv'
<1> SUFFICES ASSUME IInv, [Next]_vars PROVE IInv'
  OBVIOUS
<1>1. CASE UNCHANGED vars
  <2>1. /\ TypeOK /\ NotYet /\ OneRequest /\ Subscribed
    BY DEF IInv
  <2>2. UNCHANGED <<clientVars, toServer, toClient, serverVars, listens>>
    BY <1>1 DEF vars
  <2>3. TypeOK'
    BY <2>1, <2>2 DEF TypeOK, clientVars, serverVars
  <2>4. NotYet' /\ OneRequest'
    BY <2>1, <2>2, SameServer, NothingMoves DEF clientVars, serverVars
  <2>5. Subscribed'
    BY <2>1, <2>2 DEF Subscribed, serverVars
  <2> QED BY <2>3, <2>4, <2>5 DEF IInv
<1>2. CASE \E c \in Calls : Call(c) \/ Cancel(c) \/ Settle(c) \/ TimesOut(c)
  BY <1>2, CallStep, CancelStep, SettleStep, TimesOutStep
<1>3. CASE \E l \in Listens : Listen(l) \/ StopListening(l)
  BY <1>3, ListenStep, StopListeningStep
<1>4. CASE Dispose
  BY <1>4, DisposeStep
<1>5. CASE Initialize
  BY <1>5, InitializeStep
<1>6. CASE OnResponse
  BY <1>6, OnResponseStep
<1>7. CASE HandleRequest
  BY <1>7, HandleRequestStep
<1>8. CASE HandleStop
  BY <1>8, HandleStopStep
<1>9. CASE RegisterChannel
  BY <1>9, RegisterChannelStep
<1>10. CASE FlushPendingRequests
  BY <1>10, FlushStep
<1>11. CASE ServerDispose
  BY <1>11, ServerDisposeStep
<1> QED
  BY <1>1, <1>2, <1>3, <1>4, <1>5, <1>6, <1>7, <1>8, <1>9, <1>10, <1>11 DEF Next

\* The invariant holds of every behaviour.
THEOREM Invariance == Spec => []IInv
<1> QED BY InitIInv, NextIInv, PTL DEF Spec

\* Client, connection and server keep the types of their state.
THEOREM TypeCorrect == Spec => []TypeOK
<1>1. IInv => TypeOK
  BY DEF IInv
<1> QED BY <1>1, Invariance, PTL

\* A call is run at most once, whichever of the flush, its time-out, a second
\* registerChannel() and its cancellation come together: while its request is
\* on its way or kept it has not run, and it is never in both places.
THEOREM CalledOnce == Spec => []RunOnce
<1>1. IInv => RunOnce
  BY DEF IInv, OneRequest, RunOnce
<1> QED BY <1>1, Invariance, PTL

(***************************************************************************)
(* What the server knows of the client                                     *)
(***************************************************************************)
\* K: the messages of the queue q after which, as far as the client has said,
\* the emitter l has listeners; 0 stands for the messages before them.  Every
\* message about l turns that round.
Tells(q, K, l) ==
  \A i \in 1 .. Len(q) :
    IF q[i].id = l
      THEN (i \in K <=> q[i].type = "request") /\ (i - 1 \in K <=> q[i].type # "request")
      ELSE i \in K <=> i - 1 \in K

\* An emitter said to have listeners is subscribed to, or its request is kept;
\* without a kept request it is subscribed to only then.
Knows(K, l) ==
  /\ 0 \in K => l \in active \cup Range(pending)
  /\ l \in active /\ l \notin late => 0 \in K

Told ==
  \A l \in Listens :
    ~serverDisposed =>
      \E K \in SUBSET (0 .. Len(toServer)) :
        /\ Tells(toServer, K, l) /\ Knows(K, l)
        /\ Len(toServer) \in K <=> listening[l] = "on"

\* Nothing is subscribed to twice or left over unless a request was kept.
ExactlyActive ==
  /\ Range(pending) \subseteq late
  /\ \A l \in Listens : l \notin late => subscriptions[l] = (IF l \in active THEN 1 ELSE 0)

\* A call given up has the message that stops it behind its request, or its
\* token is cancelled, if it runs.
Stops(c) == {i \in DOMAIN toServer : toServer[i].type = "stop" /\ toServer[i].id = c}
StopBehind ==
  \A c \in Calls : calls[c] = "cancelled" =>
    /\ \A i \in Sent(c) : \E j \in Stops(c) : i < j
    /\ c \in running /\ c \notin late => c \in cancelled \/ Stops(c) # {}

\* When the server has gone, so has the client, and nothing but requests kept
\* for the channel is at work.
Gone ==
  /\ isDisposed => \A l \in Listens : listening[l] # "on"
  /\ serverDisposed => isDisposed /\ active \subseteq late /\ running \subseteq cancelled \cup late
  /\ \A c \in running : executions[c] >= 1

SInv == Told /\ ExactlyActive /\ StopBehind /\ Gone

\* Every set of naturals that has a member has a smallest.
LEMMA Smallest ==
  ASSUME NEW T \in SUBSET Nat, T # {}
  PROVE  \E x \in T : \A y \in T : x <= y
<1> DEFINE R == {p \in Nat \X Nat : p[1] < p[2]}
<1>1. IsWellFoundedOn(R, Nat)
  BY NatLessThanWellFounded DEF OpToRel
<1> HIDE DEF R
<1>2. PICK x \in T : \A y \in T : ~ (<<y, x>> \in R)
  BY <1>1, WFMin
<1>3. \A y \in T : ~(y < x)
  BY <1>2 DEF R
<1> QED BY <1>2, <1>3

\* Induction over the naturals, for a set.
LEMMA InductionUpTo ==
  ASSUME NEW N \in Nat, NEW T, 0 \in T, \A n \in 0 .. N - 1 : n \in T => n + 1 \in T
  PROVE  0 .. N \subseteq T
<1> DEFINE Bad == {n \in 0 .. N : n \notin T}
<1> SUFFICES ASSUME Bad # {} PROVE FALSE
  OBVIOUS
<1>0. Bad \in SUBSET Nat
  OBVIOUS
<1> HIDE DEF Bad
<1>1. PICK m \in Bad : \A k \in Bad : m <= k
  BY <1>0, Smallest
<1> USE DEF Bad
<1>2. m \in 1 .. N /\ m \notin T
  BY <1>1
<1>3. m - 1 \in T /\ m - 1 \in 0 .. N - 1
  BY <1>1, <1>2
<1> QED BY <1>2, <1>3

LEMMA SequenceOf ==
  ASSUME NEW S, NEW n \in Nat, NEW f \in [1 .. n -> S]
  PROVE  f \in Seq(S) /\ Len(f) = n
<1>1. f \in Seq(S)
  BY SeqDef
<1> QED BY <1>1, LenProperties

\* The requests of a set go to the end of the queue, each once, in some order.
Sends(type, ids, n, order) ==
  /\ n \in Nat /\ order \in [1 .. n -> ids]
  /\ \A i, j \in 1 .. n : order[i] = order[j] => i = j
  /\ \A r \in ids : \E i \in 1 .. n : order[i] = r
  /\ toServer' \in Seq(Message)
  /\ Len(toServer) \in Nat /\ Len(toServer') = Len(toServer) + n
  /\ \A i \in 1 .. Len(toServer) : toServer'[i] = toServer[i]
  /\ \A i \in 1 .. n :
       /\ toServer'[Len(toServer) + i].type = type
       /\ toServer'[Len(toServer) + i].id = order[i]

LEMMA SendShape ==
  ASSUME TypeOK, NEW type \in {"request", "stop"}, NEW ids \in SUBSET Requests, Send(type, ids)
  PROVE  \E n, order : Sends(type, ids, n, order)
<1> DEFINE order == SetToSeq(ids)
           n == Cardinality(ids)
           m == [i \in DOMAIN order |-> [type |-> type, id |-> order[i]]]
<1>0. IsFiniteSet(ids)
  BY RequestsFinite
<1>1. /\ n \in Nat /\ DOMAIN order = 1 .. n /\ order \in [1 .. n -> ids]
      /\ \A i, j \in 1 .. n : order[i] = order[j] => i = j
  BY <1>0, OrderOf
<1>2. \A r \in ids : \E i \in 1 .. n : order[i] = r
  <2> HIDE DEF order
  <2>1. IsFiniteSet(1 .. n) /\ Cardinality(1 .. n) = Cardinality(ids)
    BY <1>1, FS_Interval
  <2>2. order \in Injection(1 .. n, ids)
    BY <1>1 DEF Injection, IsInjective
  <2>3. order \in Surjection(1 .. n, ids)
    BY <1>0, <2>1, <2>2, FS_Injection
  <2> QED BY <2>3 DEF Surjection
<1>3. m \in Seq(Message) /\ Len(m) = n /\ \A i \in 1 .. n : m[i] = [type |-> type, id |-> order[i]]
  <2>1. \A i \in 1 .. n : m[i] = [type |-> type, id |-> order[i]] /\ m[i] \in Message
    BY <1>1 DEF Message
  <2>2. m = [i \in 1 .. n |-> m[i]]
    BY <1>1
  <2> HIDE DEF m
  <2>3. m \in [1 .. n -> Message]
    BY <2>1, <2>2
  <2> QED BY <1>1, <2>1, <2>3, SequenceOf
<1>4. toServer \in Seq(Message) /\ toServer' = toServer \o m
  BY DEF TypeOK, Send
<1>5. Len(toServer) \in Nat
  BY <1>4, LenProperties
<1> HIDE DEF m, order, n
<1>6. /\ toServer' \in Seq(Message)
      /\ Len(toServer') = Len(toServer) + n
      /\ \A i \in 1 .. Len(toServer) + n :
           toServer'[i] = IF i <= Len(toServer) THEN toServer[i] ELSE m[i - Len(toServer)]
  BY <1>3, <1>4, ConcatProperties
<1>7. \A i \in 1 .. Len(toServer) : toServer'[i] = toServer[i]
  BY <1>1, <1>5, <1>6
<1>8. ASSUME NEW i \in 1 .. n
      PROVE  /\ toServer'[Len(toServer) + i].type = type
             /\ toServer'[Len(toServer) + i].id = order[i]
  <2> DEFINE k == Len(toServer) + i
  <2>1. k \in 1 .. Len(toServer) + n /\ ~(k <= Len(toServer)) /\ k - Len(toServer) = i
    BY <1>1, <1>5
  <2>2. toServer'[k] = m[k - Len(toServer)]
    BY <1>6, <2>1
  <2>3. toServer'[k] = [type |-> type, id |-> order[i]]
    BY <1>3, <2>1, <2>2
  <2> QED BY <2>3
<1>9. Sends(type, ids, n, order)
  BY <1>1, <1>2, <1>5, <1>6, <1>7, <1>8 DEF Sends, n
<1> QED BY <1>9

\* What the messages tell of an emitter, with those that are sent now.
LEMMA SendTells ==
  ASSUME TypeOK, NEW type \in {"request", "stop"}, NEW ids \in SUBSET Requests, Send(type, ids),
         NEW l \in Listens, NEW K \in SUBSET (0 .. Len(toServer)), Tells(toServer, K, l),
         l \in ids => (Len(toServer) \in K <=> type # "request")
  PROVE  \E L \in SUBSET (0 .. Len(toServer')) :
           /\ Tells(toServer', L, l)
           /\ 0 \in L <=> 0 \in K
           /\ Len(toServer') \in L <=>
                IF l \in ids THEN type = "request" ELSE Len(toServer) \in K
<1>0. PICK n, order : Sends(type, ids, n, order)
  BY SendShape
<1>1. /\ n \in Nat /\ order \in [1 .. n -> ids]
      /\ \A i, j \in 1 .. n : order[i] = order[j] => i = j
      /\ \A r \in ids : \E i \in 1 .. n : order[i] = r
      /\ toServer' \in Seq(Message)
      /\ Len(toServer) \in Nat /\ Len(toServer') = Len(toServer) + n
      /\ \A i \in 1 .. Len(toServer) : toServer'[i] = toServer[i]
      /\ \A i \in 1 .. n :
           /\ toServer'[Len(toServer) + i].type = type
           /\ toServer'[Len(toServer) + i].id = order[i]
  BY <1>0 DEF Sends
<1> DEFINE a == Len(toServer)
           b == Len(toServer')
<1>2. a \in Nat /\ n \in Nat /\ b = a + n /\ b \in Nat
  BY <1>1
<1>3. \A i \in 1 .. b : i \in 1 .. a \/ (i - a \in 1 .. n /\ a + (i - a) = i)
  BY <1>2
<1>4. \A i \in 1 .. b : i \notin 1 .. a =>
        toServer'[i].type = type /\ toServer'[i].id = order[i - a] /\ order[i - a] \in ids
  <2> SUFFICES ASSUME NEW i \in 1 .. b, i \notin 1 .. a
               PROVE  toServer'[i].type = type /\ toServer'[i].id = order[i - a] /\ order[i - a] \in ids
    OBVIOUS
  <2> DEFINE k == i - a
  <2>1. k \in 1 .. n /\ a + k = i
    BY <1>3
  <2> HIDE DEF k
  <2>2. toServer'[a + k].type = type /\ toServer'[a + k].id = order[k] /\ order[k] \in ids
    BY <1>1, <2>1
  <2> QED BY <2>1, <2>2 DEF k
<1>5. CASE l \notin ids
  <2> DEFINE L == {i \in 0 .. b : IF i <= a THEN i \in K ELSE a \in K}
  <2>1. \A i \in 1 .. b : i \notin 1 .. a => toServer'[i].id # l
    BY <1>4, <1>5
  <2>2. Tells(toServer', L, l)
    <3> SUFFICES ASSUME NEW i \in 1 .. b
                 PROVE  IF toServer'[i].id = l
                          THEN /\ i \in L <=> toServer'[i].type = "request"
                               /\ i - 1 \in L <=> toServer'[i].type # "request"
                          ELSE i \in L <=> i - 1 \in L
      BY DEF Tells
    <3>1. CASE i \in 1 .. a
      <4>1. (i \in L <=> i \in K) /\ (i - 1 \in L <=> i - 1 \in K)
        BY <1>2, <3>1
      <4>2. toServer'[i] = toServer[i]
        BY <1>1, <3>1
      <4> QED BY <3>1, <4>1, <4>2 DEF Tells
    <3>2. CASE i \notin 1 .. a
      <4>1. toServer'[i].id # l
        BY <2>1, <3>2
      <4>2. (i \in L <=> a \in K) /\ (i - 1 \in L <=> a \in K)
        BY <1>2, <3>2
      <4> QED BY <4>1, <4>2
    <3> QED BY <3>1, <3>2
  <2>3. L \in SUBSET (0 .. b) /\ (0 \in L <=> 0 \in K) /\ (b \in L <=> a \in K)
    BY <1>2
  <2> QED BY <1>5, <2>2, <2>3
<1>6. CASE l \in ids
  <2>1. PICK p \in 1 .. n : order[p] = l
    BY <1>1, <1>6
  <2> DEFINE L == {i \in 0 .. b : IF i <= a THEN i \in K
                                  ELSE IF i < a + p THEN a \in K ELSE type = "request"}
  <2>2. a \in K <=> type # "request"
    BY <1>6
  <2>3. \A i \in 1 .. b : i \notin 1 .. a => (toServer'[i].id = l <=> i = a + p)
    <3> SUFFICES ASSUME NEW i \in 1 .. b, i \notin 1 .. a
                 PROVE  toServer'[i].id = l <=> i = a + p
      OBVIOUS
    <3> DEFINE k == i - a
    <3>1. toServer'[i].id = order[k] /\ k \in 1 .. n /\ a + k = i
      BY <1>3, <1>4
    <3> HIDE DEF k
    <3>2. order[k] = l <=> k = p
      BY <1>1, <2>1, <3>1
    <3> QED BY <1>2, <2>1, <3>1, <3>2
  <2>4. Tells(toServer', L, l)
    <3> SUFFICES ASSUME NEW i \in 1 .. b
                 PROVE  IF toServer'[i].id = l
                          THEN /\ i \in L <=> toServer'[i].type = "request"
                               /\ i - 1 \in L <=> toServer'[i].type # "request"
                          ELSE i \in L <=> i - 1 \in L
      BY DEF Tells
    <3>1. CASE i \in 1 .. a
      <4>1. (i \in L <=> i \in K) /\ (i - 1 \in L <=> i - 1 \in K)
        BY <1>2, <3>1
      <4>2. toServer'[i] = toServer[i]
        BY <1>1, <3>1
      <4> QED BY <3>1, <4>1, <4>2 DEF Tells
    <3>2. CASE i \notin 1 .. a /\ i = a + p
      <4>1. toServer'[i].id = l /\ toServer'[i].type = type
        BY <1>4, <2>3, <3>2
      <4>2. (i \in L <=> type = "request") /\ (i - 1 \in L <=> a \in K)
        BY <1>2, <2>1, <3>2
      <4> QED BY <2>2, <4>1, <4>2
    <3>3. CASE i \notin 1 .. a /\ i # a + p
      <4>1. toServer'[i].id # l
        BY <2>3, <3>3
      <4>2. i \in L <=> i - 1 \in L
        BY <1>2, <2>1, <3>3
      <4> QED BY <4>1, <4>2
    <3> QED BY <3>1, <3>2, <3>3
  <2>5. L \in SUBSET (0 .. b) /\ (0 \in L <=> 0 \in K) /\ (b \in L <=> type = "request")
    BY <1>2, <2>1
  <2> QED BY <1>6, <2>4, <2>5
<1> QED BY <1>5, <1>6

\* Without a message about it, an emitter stays as it is.
LEMMA NothingTold ==
  ASSUME NEW q, Len(q) \in Nat, NEW l, NEW K, Tells(q, K, l), \A i \in 1 .. Len(q) : q[i].id # l
  PROVE  0 \in K <=> Len(q) \in K
<1> DEFINE T == {i \in Nat : i \in 0 .. Len(q) => (0 \in K <=> i \in K)}
<1>1. 0 \in T
  OBVIOUS
<1>2. ASSUME NEW i \in 0 .. Len(q) - 1, i \in T
      PROVE  i + 1 \in T
  <2>1. i \in 0 .. Len(q) /\ i + 1 \in 1 .. Len(q) /\ (i + 1) - 1 = i
    OBVIOUS
  <2>2. i + 1 \in K <=> i \in K
    BY <2>1 DEF Tells
  <2> QED BY <1>2, <2>1, <2>2
<1> HIDE DEF T
<1>3. 0 .. Len(q) \subseteq T
  BY <1>1, <1>2, InductionUpTo
<1> QED BY <1>3 DEF T

\* The messages that stop a call, with those that are sent now.
LEMMA SendStops ==
  ASSUME TypeOK, NEW type \in {"request", "stop"}, NEW ids \in SUBSET Requests, Send(type, ids),
         NEW c \in Calls
  PROVE  /\ Stops(c) \subseteq Stops(c)'
         /\ type = "stop" /\ c \in ids => \E j \in Stops(c)' : \A i \in Sent(c) : i < j
<1>0. PICK n, order : Sends(type, ids, n, order)
  BY SendShape
<1>1. /\ n \in Nat
      /\ \A r \in ids : \E i \in 1 .. n : order[i] = r
      /\ toServer' \in Seq(Message)
      /\ Len(toServer) \in Nat /\ Len(toServer') = Len(toServer) + n
      /\ \A i \in 1 .. Len(toServer) : toServer'[i] = toServer[i]
      /\ \A i \in 1 .. n :
           /\ toServer'[Len(toServer) + i].type = type
           /\ toServer'[Len(toServer) + i].id = order[i]
  BY <1>0 DEF Sends
<1>2. DOMAIN toServer = 1 .. Len(toServer) /\ DOMAIN toServer' = 1 .. Len(toServer')
  BY <1>1, LenProperties DEF TypeOK
<1>3. Stops(c) \subseteq Stops(c)'
  BY <1>1, <1>2 DEF Stops
<1>4. ASSUME type = "stop", c \in ids
      PROVE  \E j \in Stops(c)' : \A i \in Sent(c) : i < j
  <2>1. PICK p \in 1 .. n : order[p] = c
    BY <1>1, <1>4
  <2> DEFINE j == Len(toServer) + p
  <2>2. j \in 1 .. Len(toServer') /\ \A i \in 1 .. Len(toServer) : i < j
    BY <1>1
  <2>3. toServer'[j].type = "stop" /\ toServer'[j].id = c
    BY <1>1, <1>4, <2>1
  <2> HIDE DEF j
  <2>4. j \in Stops(c)'
    BY <1>2, <2>2, <2>3 DEF Stops
  <2>5. \A i \in Sent(c) : i < j
    BY <1>2, <2>2 DEF Sent
  <2> QED BY <2>4, <2>5
<1> QED BY <1>3, <1>4

\* The first message is handled.
LEMMA TakeTells ==
  ASSUME TypeOK, toServer # <<>>, toServer' = Tail(toServer),
         NEW l \in Listens, NEW K \in SUBSET (0 .. Len(toServer)), Tells(toServer, K, l)
  PROVE  /\ \E L \in SUBSET (0 .. Len(toServer')) :
              /\ Tells(toServer', L, l)
              /\ 0 \in L <=> 1 \in K
              /\ Len(toServer') \in L <=> Len(toServer) \in K
         /\ IF Head(toServer).id = l
              THEN /\ 1 \in K <=> Head(toServer).type = "request"
                   /\ 0 \in K <=> Head(toServer).type # "request"
              ELSE 1 \in K <=> 0 \in K
<1>1. toServer \in Seq(Message)
  BY DEF TypeOK
<1>2. /\ Len(toServer) \in Nat \ {0} /\ Len(toServer') = Len(toServer) - 1
      /\ \A i \in 1 .. Len(toServer') : toServer'[i] = toServer[i + 1]
      /\ Head(toServer) = toServer[1]
  BY <1>1, HeadTailProperties, EmptySeq, LenProperties
<1> DEFINE L == {i \in 0 .. Len(toServer') : i + 1 \in K}
<1>3. Tells(toServer', L, l)
  <2> SUFFICES ASSUME NEW i \in 1 .. Len(toServer')
               PROVE  IF toServer'[i].id = l
                        THEN /\ i \in L <=> toServer'[i].type = "request"
                             /\ i - 1 \in L <=> toServer'[i].type # "request"
                        ELSE i \in L <=> i - 1 \in L
    BY DEF Tells
  <2>1. i + 1 \in 1 .. Len(toServer) /\ (i + 1) - 1 = i /\ (i - 1) + 1 = i
    BY <1>2
  <2>2. (i \in L <=> i + 1 \in K) /\ (i - 1 \in L <=> i \in K)
    BY <1>2, <2>1
  <2>3. toServer'[i] = toServer[i + 1]
    BY <1>2
  <2> QED BY <2>1, <2>2, <2>3 DEF Tells
<1>4. /\ L \in SUBSET (0 .. Len(toServer')) /\ (0 \in L <=> 1 \in K)
      /\ Len(toServer') \in L <=> Len(toServer) \in K
  BY <1>2
<1>5. IF Head(toServer).id = l
        THEN /\ 1 \in K <=> Head(toServer).type = "request"
             /\ 0 \in K <=> Head(toServer).type # "request"
        ELSE 1 \in K <=> 0 \in K
  <2>1. 1 \in 1 .. Len(toServer) /\ 1 - 1 = 0
    BY <1>2
  <2> QED BY <1>2, <2>1 DEF Tells
<1> HIDE DEF L
<1> QED BY <1>3, <1>4, <1>5

LEMMA TakeStops ==
  ASSUME TypeOK, toServer # <<>>, toServer' = Tail(toServer), NEW c \in Calls
  PROVE  /\ \A j \in Stops(c) :
              j \in Nat /\ (j > 1 => j - 1 \in Stops(c)')
              /\ (j <= 1 => Head(toServer).type = "stop" /\ Head(toServer).id = c)
         /\ \A i \in Sent(c)' : i \in Nat /\ i >= 1 /\ i + 1 \in Sent(c)
<1>1. toServer \in Seq(Message)
  BY DEF TypeOK
<1>2. /\ Len(toServer) \in Nat \ {0} /\ Len(toServer') = Len(toServer) - 1
      /\ \A i \in 1 .. Len(toServer') : toServer'[i] = toServer[i + 1]
      /\ Head(toServer) = toServer[1]
      /\ DOMAIN toServer = 1 .. Len(toServer) /\ DOMAIN toServer' = 1 .. Len(toServer')
  BY <1>1, HeadTailProperties, EmptySeq, LenProperties
<1>3. ASSUME NEW j \in Stops(c)
      PROVE  /\ j \in Nat /\ (j > 1 => j - 1 \in Stops(c)')
             /\ j <= 1 => Head(toServer).type = "stop" /\ Head(toServer).id = c
  <2>1. j \in 1 .. Len(toServer) /\ toServer[j].type = "stop" /\ toServer[j].id = c
    BY <1>2, <1>3 DEF Stops
  <2>2. ASSUME j > 1 PROVE j - 1 \in Stops(c)'
    <3>1. j - 1 \in 1 .. Len(toServer') /\ (j - 1) + 1 = j
      BY <1>2, <2>1, <2>2
    <3>2. toServer'[j - 1] = toServer[j]
      BY <1>2, <3>1
    <3> QED BY <1>2, <2>1, <3>1, <3>2 DEF Stops
  <2>3. ASSUME j <= 1 PROVE j = 1
    BY <2>1, <2>3
  <2> QED BY <1>2, <2>1, <2>2, <2>3
<1>4. \A i \in Sent(c)' : i \in Nat /\ i >= 1 /\ i + 1 \in Sent(c)
  BY TakeProperties
<1> QED BY <1>3, <1>4

(***************************************************************************)
(* Steps of the client, as the server will know them                       *)
(***************************************************************************)
\* The client sends requests, or what stops them.
LEMMA ClientSends ==
  ASSUME IInv, SInv, NEW type \in {"request", "stop"}, NEW ids \in SUBSET Requests, Send(type, ids),
         UNCHANGED serverVars,
         \A l \in Listens : l \in ids =>
           /\ listening[l] = "on" <=> type # "request"
           /\ listening'[l] = "on" <=> type = "request",
         \A l \in Listens : l \notin ids => (listening'[l] = "on" <=> listening[l] = "on"),
         isDisposed => isDisposed',
         isDisposed' => \A l \in Listens : listening'[l] # "on",
         \A c \in Calls : calls'[c] = "cancelled" =>
           \/ calls[c] = "cancelled" /\ (type = "request" => c \notin ids)
           \/ calls[c] = "waiting" /\ (type = "request" => c \notin ids)
           \/ calls[c] = "asked" /\ type = "stop" /\ c \in ids
  PROVE  SInv'
<1>0. TypeOK /\ NotYet
  BY DEF IInv
<1>1. /\ pending' = pending /\ active' = active /\ subscriptions' = subscriptions /\ late' = late
      /\ running' = running /\ cancelled' = cancelled /\ executions' = executions
      /\ serverDisposed' = serverDisposed
  BY DEF serverVars
<1>2. Told'
  <2> SUFFICES ASSUME NEW l \in Listens, ~serverDisposed
               PROVE  \E L \in SUBSET (0 .. Len(toServer')) :
                        /\ Tells(toServer', L, l) /\ Knows(L, l)'
                        /\ Len(toServer') \in L <=> listening'[l] = "on"
    BY <1>1 DEF Told
  <2>1. PICK K \in SUBSET (0 .. Len(toServer)) :
          /\ Tells(toServer, K, l) /\ Knows(K, l)
          /\ Len(toServer) \in K <=> listening[l] = "on"
    BY DEF SInv, Told
  <2>2. PICK L \in SUBSET (0 .. Len(toServer')) :
          /\ Tells(toServer', L, l)
          /\ 0 \in L <=> 0 \in K
          /\ Len(toServer') \in L <=> IF l \in ids THEN type = "request" ELSE Len(toServer) \in K
    BY <1>0, <2>1, SendTells
  <2>3. Knows(L, l)'
    BY <1>1, <2>1, <2>2 DEF Knows
  <2>4. Len(toServer') \in L <=> listening'[l] = "on"
    BY <2>1, <2>2
  <2> QED BY <2>2, <2>3, <2>4
<1>3. ExactlyActive' /\ Gone'
  BY <1>1 DEF SInv, ExactlyActive, Gone
<1>4. StopBehind'
  <2> SUFFICES ASSUME NEW c \in Calls, calls'[c] = "cancelled"
               PROVE  /\ \A i \in Sent(c)' : \E j \in Stops(c)' : i < j
                      /\ c \in running /\ c \notin late => c \in cancelled \/ Stops(c)' # {}
    BY <1>1 DEF StopBehind
  <2>1. type = "stop" \/ c \notin ids
    OBVIOUS
  <2>2. Sent(c)' = Sent(c)
    BY <1>0, <2>1, SendProperties
  <2>3. /\ Stops(c) \subseteq Stops(c)'
        /\ type = "stop" /\ c \in ids => \E j \in Stops(c)' : \A i \in Sent(c) : i < j
    BY <1>0, SendStops
  <2>4. CASE calls[c] = "cancelled"
    BY <2>2, <2>3, <2>4 DEF SInv, StopBehind
  <2>5. CASE calls[c] = "waiting"
    <3>1. Sent(c) = {} /\ executions[c] = 0
      BY <1>0, <2>5 DEF NotYet, Early
    <3>2. c \notin running
      BY <3>1 DEF SInv, Gone
    <3> QED BY <2>2, <3>1, <3>2
  <2>6. CASE type = "stop" /\ c \in ids
    BY <2>2, <2>3, <2>6
  <2> QED BY <2>4, <2>5, <2>6
<1> QED BY <1>2, <1>3, <1>4 DEF SInv

LEMMA RequestsSent ==
  ASSUME IInv, SInv, NEW S \in SUBSET Requests, DoRequest(S), ~isDisposed, isDisposed' = isDisposed,
         UNCHANGED serverVars,
         \A c \in S \cap Calls : calls[c] \in Early,
         \A l \in S \cap Listens : listening[l] # "on"
  PROVE  SInv'
<1>1. PICK thrown \in SUBSET (S \cap Calls) :
        /\ Send("request", S \ thrown)
        /\ calls' = [c \in Calls |-> IF c \in thrown THEN "answered"
                                     ELSE IF c \in S THEN "asked" ELSE calls[c]]
        /\ listening' = [l \in Listens |-> IF l \in S THEN "on" ELSE listening[l]]
  BY DEF DoRequest
<1> DEFINE ids == S \ thrown
<1>2. ids \in SUBSET Requests /\ \A l \in Listens : l \in ids <=> l \in S
  BY ConstantsAssumption
<1>3. \A l \in Listens : l \in ids => listening[l] # "on" /\ listening'[l] = "on"
  BY <1>1, <1>2
<1>4. \A l \in Listens : l \notin ids => (listening'[l] = "on" <=> listening[l] = "on")
  BY <1>1, <1>2
<1>5. \A c \in Calls : calls'[c] = "cancelled" => calls[c] = "cancelled" /\ c \notin ids
  BY <1>1
<1>6. Send("request", ids)
  BY <1>1
<1> HIDE DEF ids
<1> QED BY <1>2, <1>3, <1>4, <1>5, <1>6, ClientSends

\* A step in which neither a message to the server nor a subscription changes.
LEMMA ServerUnmoved ==
  ASSUME SInv,
         UNCHANGED <<toServer, pending, active, subscriptions, late, serverDisposed, isDisposed,
                     cancelled, executions>>,
         running' \subseteq running,
         \A l \in Listens : listening'[l] = "on" <=> listening[l] = "on",
         \A c \in Calls : calls'[c] = "cancelled" => calls[c] = "cancelled"
  PROVE  SInv'
<1>1. Told'
  <2> SUFFICES ASSUME NEW l \in Listens, ~serverDisposed
               PROVE  \E L \in SUBSET (0 .. Len(toServer)) :
                        /\ Tells(toServer, L, l) /\ Knows(L, l)'
                        /\ Len(toServer) \in L <=> listening'[l] = "on"
    BY DEF Told
  <2>1. PICK K \in SUBSET (0 .. Len(toServer)) :
          /\ Tells(toServer, K, l) /\ Knows(K, l)
          /\ Len(toServer) \in K <=> listening[l] = "on"
    BY DEF SInv, Told
  <2>2. Knows(K, l)'
    BY <2>1 DEF Knows
  <2> QED BY <2>1, <2>2
<1>2. ExactlyActive'
  BY DEF SInv, ExactlyActive
<1>3. Gone'
  BY DEF SInv, Gone
<1>4. \A c \in Calls : Sent(c)' = Sent(c) /\ Stops(c)' = Stops(c)
  BY DEF Sent, Stops
<1>5. StopBehind'
  BY <1>4 DEF SInv, StopBehind
<1> QED BY <1>1, <1>2, <1>3, <1>5 DEF SInv

LEMMA CallKeeps ==
  ASSUME IInv, SInv, NEW c \in Calls, Call(c)
  PROVE  SInv'
<1>1. ~isDisposed /\ isDisposed' = isDisposed /\ UNCHANGED serverVars /\ calls[c] = "unused"
  BY DEF Call
<1>2. CASE initialized
  <2>1. DoRequest({c}) /\ {c} \in SUBSET Requests
    BY <1>2 DEF Call, Requests
  <2>2. \A d \in {c} \cap Calls : calls[d] \in Early
    BY <1>1 DEF Early
  <2>3. {c} \cap Listens = {}
    BY ConstantsAssumption
  <2> QED BY <1>1, <2>1, <2>2, <2>3, RequestsSent
<1>3. CASE ~initialized
  <2>1. calls' = [calls EXCEPT ![c] = "waiting"] /\ listening' = listening /\ toServer' = toServer
    BY <1>3 DEF Call
  <2>2. \A d \in Calls : calls'[d] = "cancelled" => calls[d] = "cancelled"
    BY <2>1 DEF IInv, TypeOK
  <2> QED BY <1>1, <2>1, <2>2, ServerUnmoved DEF serverVars
<1> QED BY <1>2, <1>3

LEMMA ListenKeeps ==
  ASSUME IInv, SInv, NEW l \in Listens, Listen(l)
  PROVE  SInv'
<1>1. ~isDisposed /\ isDisposed' = isDisposed /\ UNCHANGED serverVars /\ listening[l] = "off"
  BY DEF Listen
<1>2. CASE initialized
  <2>1. DoRequest({l}) /\ {l} \in SUBSET Requests
    BY <1>2 DEF Listen, Requests
  <2>2. {l} \cap Calls = {}
    BY ConstantsAssumption
  <2>3. \A k \in {l} \cap Listens : listening[k] # "on"
    BY <1>1
  <2> QED BY <1>1, <2>1, <2>2, <2>3, RequestsSent
<1>3. CASE ~initialized
  <2>1. listening' = [listening EXCEPT ![l] = "waiting"] /\ calls' = calls /\ toServer' = toServer
    BY <1>3 DEF Listen
  <2>2. \A k \in Listens : listening'[k] = "on" <=> listening[k] = "on"
    BY <1>1, <2>1 DEF IInv, TypeOK
  <2> QED BY <1>1, <2>1, <2>2, ServerUnmoved DEF serverVars
<1> QED BY <1>2, <1>3

LEMMA CancelKeeps ==
  ASSUME IInv, SInv, NEW c \in Calls, Cancel(c)
  PROVE  SInv'
<1> DEFINE ids == {d \in {c} : calls[d] = "asked"}
<1>1. /\ calls' = [d \in Calls |-> IF d \in {c} THEN "cancelled" ELSE calls[d]]
      /\ Send("stop", ids) /\ ids \in SUBSET Requests /\ UNCHANGED serverVars
      /\ calls[c] \in {"waiting", "asked"}
      /\ listening' = listening /\ isDisposed' = isDisposed
  BY DEF Cancel, CancelCalls, Requests
<1>2. \A d \in Calls : calls'[d] = "cancelled" =>
        \/ calls[d] = "cancelled" \/ calls[d] = "waiting" \/ (calls[d] = "asked" /\ d \in ids)
  BY <1>1
<1>3. \A l \in Listens : l \notin ids
  BY ConstantsAssumption
<1>4. isDisposed' => \A l \in Listens : listening'[l] # "on"
  BY <1>1 DEF SInv, Gone
<1> HIDE DEF ids
<1> QED BY <1>1, <1>2, <1>3, <1>4, ClientSends

LEMMA StopListeningKeeps ==
  ASSUME IInv, SInv, NEW l \in Listens, StopListening(l)
  PROVE  SInv'
<1> DEFINE ids == IF listening[l] = "on" THEN {l} ELSE {}
<1>1. /\ Send("stop", ids) /\ ids \in SUBSET Requests /\ UNCHANGED serverVars
      /\ calls' = calls /\ listening' = [listening EXCEPT ![l] = "off"] /\ isDisposed' = isDisposed
  BY DEF StopListening, Requests
<1>2. \A k \in Listens : k \in ids => listening[k] = "on" /\ listening'[k] # "on"
  BY <1>1 DEF IInv, TypeOK
<1>3. \A k \in Listens : k \notin ids => (listening'[k] = "on" <=> listening[k] = "on")
  BY <1>1 DEF IInv, TypeOK
<1>4. isDisposed' => \A k \in Listens : listening'[k] # "on"
  BY <1>1 DEF SInv, Gone, IInv, TypeOK
<1> HIDE DEF ids
<1> QED BY <1>1, <1>2, <1>3, <1>4, ClientSends

LEMMA DisposeKeeps ==
  ASSUME IInv, SInv, Dispose
  PROVE  SInv'
<1> DEFINE on == {l \in Listens : listening[l] = "on"}
           ids == {c \in Calls : calls[c] = "asked"} \cup on
<1>1. /\ calls' = [c \in Calls |-> IF calls[c] \in {"waiting", "asked"} THEN "cancelled" ELSE calls[c]]
      /\ listening' = [l \in Listens |-> IF l \in on THEN "off" ELSE listening[l]]
      /\ Send("stop", ids) /\ UNCHANGED serverVars /\ isDisposed' = TRUE
  BY DEF Dispose
<1>2. ids \in SUBSET Requests
  BY DEF Requests
<1>3. \A l \in Listens : l \in ids <=> listening[l] = "on"
  BY ConstantsAssumption
<1>4. \A l \in Listens : listening'[l] # "on"
  BY <1>1
<1>5. \A c \in Calls : calls'[c] = "cancelled" =>
        \/ calls[c] = "cancelled" \/ calls[c] = "waiting" \/ (calls[c] = "asked" /\ c \in ids)
  BY <1>1
<1> HIDE DEF ids, on
<1> QED BY <1>1, <1>2, <1>3, <1>4, <1>5, ClientSends

LEMMA InitializeKeeps ==
  ASSUME IInv, SInv, Initialize
  PROVE  SInv'
<1> DEFINE S == {c \in Calls : calls[c] = "waiting"} \cup {l \in Listens : listening[l] = "waiting"}
<1>1. /\ DoRequest(S) /\ S \in SUBSET Requests /\ UNCHANGED serverVars
      /\ ~isDisposed /\ isDisposed' = isDisposed
  BY DEF Initialize, Receive, Requests
<1>2. \A c \in S \cap Calls : calls[c] \in Early
  BY ConstantsAssumption DEF Early
<1>3. \A l \in S \cap Listens : listening[l] # "on"
  BY ConstantsAssumption
<1> HIDE DEF S
<1> QED BY <1>1, <1>2, <1>3, RequestsSent

LEMMA OnResponseKeeps ==
  ASSUME IInv, SInv, OnResponse
  PROVE  SInv'
<1>1. /\ calls' = [calls EXCEPT ![Head(toClient).id] =
                     IF Head(toClient).id \in handlers /\ @ = "asked" THEN "answered" ELSE @]
      /\ UNCHANGED <<isDisposed, listening, toServer, serverVars>>
  BY DEF OnResponse
<1>2. \A d \in Calls : calls'[d] = "cancelled" => calls[d] = "cancelled"
  BY <1>1 DEF IInv, TypeOK
<1> QED BY <1>1, <1>2, ServerUnmoved DEF serverVars

(***************************************************************************)
(* Steps of the server                                                     *)
(***************************************************************************)
LEMMA AnswerKeeps ==
  ASSUME SInv, RegisterChannel \/ \E c \in Calls : Settle(c) \/ TimesOut(c)
  PROVE  SInv'
<1>1. /\ UNCHANGED <<clientVars, toServer, pending, active, subscriptions, late, serverDisposed,
                     cancelled, executions>>
      /\ running' \subseteq running
  BY DEF Settle, TimesOut, RegisterChannel
<1> QED BY <1>1, ServerUnmoved DEF clientVars

LEMMA InRange ==
  ASSUME NEW S, NEW q \in Seq(S), NEW x
  PROVE  x \notin Range(q) => Times(q, x) = 0
<1>1. ASSUME x \notin Range(q) PROVE {i \in DOMAIN q : q[i] = x} = {}
  BY <1>1 DEF Range
<1> QED BY <1>1, TimesProperties

LEMMA HandleRequestKeeps ==
  ASSUME IInv, SInv, HandleRequest
  PROVE  SInv'
<1> DEFINE r == Head(toServer).id
<1>0. TypeOK
  BY DEF IInv
<1>1. /\ ~serverDisposed /\ toServer # <<>> /\ toServer' = Tail(toServer)
      /\ Head(toServer).type = "request"
      /\ UNCHANGED <<clientVars, serverDisposed, cancelled>>
      /\ IF registered
           THEN Execute(<<r>>) /\ UNCHANGED <<pending, timers, late>>
           ELSE CollectPending(r) /\ UNCHANGED <<running, executions, active, subscriptions>>
  BY DEF HandleRequest, Handle
<1>2. r \in Requests /\ \A c \in Calls : r = c => 1 \in Sent(c)
  BY <1>0, <1>1, TakeProperties DEF Message
<1>3. /\ pending \in Seq(Requests)
      /\ subscriptions \in [Listens -> Nat] /\ executions \in [Calls -> Nat]
  BY <1>0 DEF TypeOK
\* What changes, whether the channel is there or not.
<1>4. /\ active \subseteq active' /\ active' \subseteq active \cup {r}
      /\ Range(pending) \subseteq Range(pending') /\ Range(pending') \subseteq Range(pending) \cup {r}
      /\ late \subseteq late' /\ Range(pending') \subseteq late'
      /\ r \in Listens => r \in active' \cup Range(pending')
      /\ r \in active' \/ r \notin Listens \/ r \in late'
      /\ running' \subseteq running \cup {r} /\ running' \subseteq Calls
      /\ \A l \in Listens : l \notin late' =>
           subscriptions'[l] = subscriptions[l] + (IF l = r THEN 1 ELSE 0)
      /\ \A c \in Calls : executions'[c] >= executions[c] /\ (c \in running' => executions'[c] >= 1)
  <2>0. Range(pending) \subseteq late /\ \A c \in running : executions[c] >= 1
    BY DEF SInv, ExactlyActive, Gone
  <2>1. CASE registered
    <3>1. Execute(<<r>>) /\ pending' = pending /\ late' = late
      BY <1>1, <2>1
    <3>2. Range(<<r>>) = {r}
      BY DEF Range
    <3>3. /\ running' = running \cup ({r} \cap Calls) /\ active' = active \cup ({r} \cap Listens)
          /\ \A c \in Calls : executions'[c] = executions[c] + (IF c = r THEN 1 ELSE 0)
          /\ \A l \in Listens : subscriptions'[l] = subscriptions[l] + (IF l = r THEN 1 ELSE 0)
      BY <3>1, <3>2, TimesOfOne DEF Execute
    <3>4. running \subseteq Calls
      BY <1>0 DEF TypeOK
    <3> HIDE DEF r
    <3>5. \A c \in Calls : executions'[c] >= executions[c] /\ (c \in running' => executions'[c] >= 1)
      BY <1>3, <2>0, <3>3
    <3> QED BY <2>0, <3>1, <3>3, <3>4, <3>5
  <2>2. CASE ~registered
    <3>1. /\ pending' = Append(pending, r) /\ late' = late \cup {r}
          /\ UNCHANGED <<running, executions, active, subscriptions>>
      BY <1>1, <2>2 DEF CollectPending
    <3> HIDE DEF r
    <3>2. Range(pending') = Range(pending) \cup {r}
      <4>1. /\ DOMAIN pending = 1 .. Len(pending) /\ Len(pending) \in Nat
            /\ DOMAIN pending' = 1 .. Len(pending) + 1
            /\ \A i \in 1 .. Len(pending) + 1 :
                 pending'[i] = IF i <= Len(pending) THEN pending[i] ELSE r
        BY <1>2, <1>3, <3>1, AppendProperties, LenProperties
      <4>2. Len(pending) + 1 \in DOMAIN pending' /\ pending'[Len(pending) + 1] = r
        BY <4>1
      <4>3. \A i \in DOMAIN pending : i \in DOMAIN pending' /\ pending'[i] = pending[i]
        BY <4>1
      <4>4. \A i \in DOMAIN pending' : pending'[i] = r \/ (i \in DOMAIN pending /\ pending'[i] = pending[i])
        BY <4>1
      <4> QED BY <4>2, <4>3, <4>4 DEF Range
    <3>3. running \subseteq Calls /\ \A c \in Calls : executions[c] \in Nat
      BY <1>0 DEF TypeOK
    <3>4. \A l \in Listens : l \notin late' =>
            subscriptions'[l] = subscriptions[l] + (IF l = r THEN 1 ELSE 0)
      BY <1>3, <3>1
    <3>5. \A c \in Calls : executions'[c] >= executions[c] /\ (c \in running' => executions'[c] >= 1)
      BY <2>0, <3>1, <3>3
    <3> QED BY <2>0, <3>1, <3>2, <3>3, <3>4, <3>5
  <2> QED BY <2>1, <2>2
<1> HIDE DEF r
<1>5. calls' = calls /\ listening' = listening /\ isDisposed' = isDisposed /\ ~serverDisposed'
      /\ cancelled' = cancelled
  BY <1>1 DEF clientVars
<1>6. ASSUME NEW l \in Listens, NEW K \in SUBSET (0 .. Len(toServer)),
             Tells(toServer, K, l), Knows(K, l)
      PROVE  /\ l = r => 1 \in K /\ 0 \notin K
             /\ l # r => (1 \in K <=> 0 \in K)
             /\ 1 \in K => l \in active' \cup Range(pending')
             /\ l \in active' /\ l \notin late' => 1 \in K
  <2>1. IF Head(toServer).id = l
          THEN /\ 1 \in K <=> Head(toServer).type = "request"
               /\ 0 \in K <=> Head(toServer).type # "request"
          ELSE 1 \in K <=> 0 \in K
    BY <1>0, <1>1, <1>6, TakeTells
  <2>2. (l = r => 1 \in K /\ 0 \notin K) /\ (l # r => (1 \in K <=> 0 \in K))
    BY <1>1, <2>1 DEF r
  <2> QED BY <1>4, <1>6, <2>2 DEF Knows
<1>7. Told'
  <2> SUFFICES ASSUME NEW l \in Listens
               PROVE  \E L \in SUBSET (0 .. Len(toServer')) :
                        /\ Tells(toServer', L, l) /\ Knows(L, l)'
                        /\ Len(toServer') \in L <=> listening'[l] = "on"
    BY DEF Told
  <2>1. PICK K \in SUBSET (0 .. Len(toServer)) :
          /\ Tells(toServer, K, l) /\ Knows(K, l)
          /\ Len(toServer) \in K <=> listening[l] = "on"
    BY <1>1 DEF SInv, Told
  <2>2. PICK L \in SUBSET (0 .. Len(toServer')) :
          /\ Tells(toServer', L, l)
          /\ 0 \in L <=> 1 \in K
          /\ Len(toServer') \in L <=> Len(toServer) \in K
    BY <1>0, <1>1, <2>1, TakeTells
  <2>3. Knows(L, l)'
    BY <1>6, <2>1, <2>2 DEF Knows
  <2> QED BY <1>5, <2>1, <2>2, <2>3
<1>8. ExactlyActive'
  <2>1. Range(pending') \subseteq late'
    BY <1>4
  <2>2. ASSUME NEW l \in Listens, l \notin late'
        PROVE  subscriptions'[l] = (IF l \in active' THEN 1 ELSE 0)
    <3>1. PICK K \in SUBSET (0 .. Len(toServer)) : Tells(toServer, K, l) /\ Knows(K, l)
      BY <1>1 DEF SInv, Told
    <3>2. l \notin late /\ subscriptions[l] = (IF l \in active THEN 1 ELSE 0)
      BY <1>4, <2>2 DEF SInv, ExactlyActive
    <3>3. CASE l = r
      <4>1. l \notin active /\ l \in active'
        BY <1>4, <1>6, <2>2, <3>1, <3>2, <3>3 DEF Knows
      <4> QED BY <1>4, <2>2, <3>2, <3>3, <4>1
    <3>4. CASE l # r
      BY <1>4, <2>2, <3>2, <3>4
    <3> QED BY <3>3, <3>4
  <2> QED BY <2>1, <2>2 DEF ExactlyActive
<1>9. Gone'
  BY <1>4, <1>5 DEF SInv, Gone
<1>10. StopBehind'
  <2> SUFFICES ASSUME NEW c \in Calls, calls[c] = "cancelled"
               PROVE  /\ \A i \in Sent(c)' : \E j \in Stops(c)' : i < j
                      /\ c \in running' /\ c \notin late' => c \in cancelled \/ Stops(c)' # {}
    BY <1>5 DEF StopBehind
  <2>1. /\ \A i \in Sent(c) : \E j \in Stops(c) : i < j
        /\ c \in running /\ c \notin late => c \in cancelled \/ Stops(c) # {}
    BY DEF SInv, StopBehind
  <2>2. /\ \A j \in Stops(c) : j \in Nat /\ j > 1 /\ j - 1 \in Stops(c)'
        /\ \A i \in Sent(c)' : i \in Nat /\ i >= 1 /\ i + 1 \in Sent(c)
    BY <1>0, <1>1, TakeStops
  <2>3. ASSUME NEW i \in Sent(c)' PROVE \E j \in Stops(c)' : i < j
    <3>1. PICK j \in Stops(c) : i + 1 < j
      BY <2>1, <2>2, <2>3
    <3>2. j - 1 \in Stops(c)' /\ i < j - 1
      BY <2>2, <2>3, <3>1
    <3> QED BY <3>2
  <2>4. ASSUME c \in running', c \notin late' PROVE c \in cancelled \/ Stops(c)' # {}
    <3>1. CASE c = r
      BY <1>2, <2>1, <2>2, <3>1
    <3>2. CASE c # r
      BY <1>4, <2>1, <2>2, <2>4, <3>2
    <3> QED BY <3>1, <3>2
  <2> QED BY <2>3, <2>4
<1> QED BY <1>7, <1>8, <1>9, <1>10 DEF SInv

LEMMA HandleStopKeeps ==
  ASSUME IInv, SInv, HandleStop
  PROVE  SInv'
<1> DEFINE r == Head(toServer).id
<1>0. TypeOK
  BY DEF IInv
<1>1. /\ ~serverDisposed /\ toServer # <<>> /\ toServer' = Tail(toServer)
      /\ Head(toServer).type = "stop"
      /\ UNCHANGED <<clientVars, serverDisposed, pending, running, executions, late>>
      /\ cancelled' = cancelled \cup ({r} \cap running)
      /\ subscriptions' = [l \in Listens |-> IF l = r /\ r \in active THEN subscriptions[l] - 1
                                             ELSE subscriptions[l]]
      /\ active' = active \ {r}
  BY DEF HandleStop, Handle, DisposeActiveRequest
<1>2. calls' = calls /\ listening' = listening /\ isDisposed' = isDisposed /\ ~serverDisposed'
  BY <1>1 DEF clientVars
<1>3. Told'
  <2> SUFFICES ASSUME NEW l \in Listens
               PROVE  \E L \in SUBSET (0 .. Len(toServer')) :
                        /\ Tells(toServer', L, l) /\ Knows(L, l)'
                        /\ Len(toServer') \in L <=> listening'[l] = "on"
    BY DEF Told
  <2>1. PICK K \in SUBSET (0 .. Len(toServer)) :
          /\ Tells(toServer, K, l) /\ Knows(K, l)
          /\ Len(toServer) \in K <=> listening[l] = "on"
    BY <1>1 DEF SInv, Told
  <2>2. PICK L \in SUBSET (0 .. Len(toServer')) :
          /\ Tells(toServer', L, l)
          /\ 0 \in L <=> 1 \in K
          /\ Len(toServer') \in L <=> Len(toServer) \in K
    BY <1>0, <1>1, <2>1, TakeTells
  <2>3. IF r = l THEN 1 \notin K ELSE 1 \in K <=> 0 \in K
    <3>1. IF Head(toServer).id = l
            THEN /\ 1 \in K <=> Head(toServer).type = "request"
                 /\ 0 \in K <=> Head(toServer).type # "request"
            ELSE 1 \in K <=> 0 \in K
      BY <1>0, <1>1, <2>1, TakeTells
    <3> QED BY <1>1, <3>1
  <2>4. Knows(L, l)'
    <3> HIDE DEF r
    <3> QED BY <1>1, <2>1, <2>2, <2>3 DEF Knows
  <2> QED BY <1>2, <2>1, <2>2, <2>4
<1> HIDE DEF r
<1>4. ExactlyActive'
  <2>1. \A l \in Listens : subscriptions[l] \in Nat
    BY <1>0 DEF TypeOK
  <2> QED BY <1>1, <2>1 DEF SInv, ExactlyActive
<1>5. Gone'
  BY <1>1, <1>2 DEF SInv, Gone
<1>6. StopBehind'
  <2> SUFFICES ASSUME NEW c \in Calls, calls[c] = "cancelled"
               PROVE  /\ \A i \in Sent(c)' : \E j \in Stops(c)' : i < j
                      /\ c \in running /\ c \notin late => c \in cancelled' \/ Stops(c)' # {}
    BY <1>1, <1>2 DEF StopBehind
  <2>1. /\ \A i \in Sent(c) : \E j \in Stops(c) : i < j
        /\ c \in running /\ c \notin late => c \in cancelled \/ Stops(c) # {}
    BY DEF SInv, StopBehind
  <2>2. /\ \A j \in Stops(c) : j \in Nat /\ (j > 1 => j - 1 \in Stops(c)') /\ (j <= 1 => r = c)
        /\ \A i \in Sent(c)' : i \in Nat /\ i >= 1 /\ i + 1 \in Sent(c)
    BY <1>0, <1>1, TakeStops DEF r
  <2>3. ASSUME NEW i \in Sent(c)' PROVE \E j \in Stops(c)' : i < j
    <3>1. PICK j \in Stops(c) : i + 1 < j
      BY <2>1, <2>2, <2>3
    <3>2. j - 1 \in Stops(c)' /\ i < j - 1
      BY <2>2, <2>3, <3>1
    <3> QED BY <3>2
  <2>4. ASSUME c \in running, c \notin late PROVE c \in cancelled' \/ Stops(c)' # {}
    <3>1. CASE c \in cancelled \/ r = c
      BY <1>1, <2>4, <3>1
    <3>2. CASE c \notin cancelled /\ r # c
      <4>1. PICK j \in Stops(c) : TRUE
        BY <2>1, <2>4, <3>2
      <4>2. j - 1 \in Stops(c)'
        BY <2>2, <3>2, <4>1
      <4> QED BY <4>2
    <3> QED BY <3>1, <3>2
  <2> QED BY <2>3, <2>4
<1> QED BY <1>3, <1>4, <1>5, <1>6 DEF SInv

LEMMA FlushKeeps ==
  ASSUME IInv, SInv, FlushPendingRequests
  PROVE  SInv'
<1>0. /\ pending \in Seq(Requests)
      /\ subscriptions \in [Listens -> Nat] /\ executions \in [Calls -> Nat]
  BY DEF IInv, TypeOK
<1>1. /\ Execute(pending) /\ pending' = <<>>
      /\ UNCHANGED <<clientVars, toServer, cancelled, serverDisposed, late>>
  BY DEF FlushPendingRequests, ForgetFlushed
<1>2. calls' = calls /\ listening' = listening /\ isDisposed' = isDisposed
  BY <1>1 DEF clientVars
<1>3. /\ running' = running \cup (Range(pending) \cap Calls)
      /\ active' = active \cup (Range(pending) \cap Listens)
      /\ \A c \in Calls : executions'[c] = executions[c] + Times(pending, c)
      /\ \A l \in Listens : subscriptions'[l] = subscriptions[l] + Times(pending, l)
  BY <1>1 DEF Execute
<1>4. Range(pending') = {}
  <2>1. DOMAIN pending' = {}
    BY <1>1
  <2> QED BY <2>1 DEF Range
<1>5. Range(pending) \subseteq late
  BY DEF SInv, ExactlyActive
<1>6. Told'
  <2> SUFFICES ASSUME NEW l \in Listens, ~serverDisposed
               PROVE  \E L \in SUBSET (0 .. Len(toServer)) :
                        /\ Tells(toServer, L, l) /\ Knows(L, l)'
                        /\ Len(toServer) \in L <=> listening'[l] = "on"
    BY <1>1 DEF Told
  <2>1. PICK K \in SUBSET (0 .. Len(toServer)) :
          /\ Tells(toServer, K, l) /\ Knows(K, l)
          /\ Len(toServer) \in K <=> listening[l] = "on"
    BY DEF SInv, Told
  <2>2. Knows(K, l)'
    BY <1>1, <1>3, <1>5, <2>1 DEF Knows
  <2> QED BY <1>2, <2>1, <2>2
<1>7. ExactlyActive'
  <2>1. ASSUME NEW l \in Listens, l \notin late
        PROVE  subscriptions'[l] = (IF l \in active' THEN 1 ELSE 0)
    <3>1. l \notin Range(pending) /\ Times(pending, l) = 0
      BY <1>0, <1>5, <2>1, InRange
    <3>2. subscriptions[l] = (IF l \in active THEN 1 ELSE 0)
      BY <2>1 DEF SInv, ExactlyActive
    <3> QED BY <1>0, <1>3, <3>1, <3>2
  <2> QED BY <1>1, <1>4, <2>1 DEF ExactlyActive
<1>8. Gone'
  <2>1. \A c \in running' : executions'[c] >= 1
    <3> SUFFICES ASSUME NEW c \in running' PROVE executions'[c] >= 1
      OBVIOUS
    <3>1. c \in Calls
      BY <1>3 DEF IInv, TypeOK
    <3>2. Times(pending, c) \in Nat /\ (c \in Range(pending) => Times(pending, c) >= 1)
      BY <1>0, TimesProperties
    <3>3. executions[c] \in Nat /\ (c \in running => executions[c] >= 1)
      BY <1>0, <3>1 DEF SInv, Gone
    <3> QED BY <1>3, <3>1, <3>2, <3>3
  <2> QED BY <1>1, <1>2, <1>3, <1>5, <2>1 DEF SInv, Gone
<1>9. \A c \in Calls : Sent(c)' = Sent(c) /\ Stops(c)' = Stops(c)
  BY <1>1 DEF Sent, Stops
<1>10. StopBehind'
  BY <1>1, <1>2, <1>3, <1>5, <1>9 DEF SInv, StopBehind
<1> QED BY <1>6, <1>7, <1>8, <1>10 DEF SInv

LEMMA ServerDisposeKeeps ==
  ASSUME IInv, SInv, ServerDispose
  PROVE  SInv'
<1>1. /\ isDisposed /\ serverDisposed' = TRUE
      /\ cancelled' = cancelled \cup running
      /\ subscriptions' = [l \in Listens |-> IF l \in active THEN subscriptions[l] - 1 ELSE subscriptions[l]]
      /\ active' = {}
      /\ UNCHANGED <<clientVars, toServer, pending, running, executions, late>>
  BY DEF ServerDispose
<1>2. calls' = calls /\ listening' = listening /\ isDisposed' = isDisposed
  BY <1>1 DEF clientVars
<1>3. Told'
  BY <1>1 DEF Told
<1>4. ExactlyActive'
  BY <1>1 DEF SInv, ExactlyActive
<1>5. Gone'
  BY <1>1, <1>2 DEF SInv, Gone
<1>6. \A c \in Calls : Sent(c)' = Sent(c) /\ Stops(c)' = Stops(c)
  BY <1>1 DEF Sent, Stops
<1>7. StopBehind'
  BY <1>1, <1>2, <1>6 DEF SInv, StopBehind
<1> QED BY <1>3, <1>4, <1>5, <1>7 DEF SInv

LEMMA InitSInv ==
  ASSUME Init
  PROVE  SInv
<1>1. toServer = <<>> /\ pending = <<>> /\ active = {} /\ running = {}
  BY DEF Init
<1>2. Len(toServer) = 0 /\ Range(pending) = {}
  BY <1>1 DEF Range
<1>3. Told
  <2> SUFFICES ASSUME NEW l \in Listens
               PROVE  /\ Tells(toServer, {}, l) /\ Knows({}, l)
                      /\ Len(toServer) \in {} <=> listening[l] = "on"
    BY DEF Told
  <2> QED BY <1>1, <1>2 DEF Tells, Knows, Init
<1>4. ExactlyActive /\ StopBehind /\ Gone
  BY <1>1, <1>2 DEF ExactlyActive, StopBehind, Gone, Init
<1> QED BY <1>3, <1>4 DEF SInv

LEMMA NextSInv ==
  ASSUME IInv, SInv, [Next]_vars
  PROVE  SInv'
<1>1. CASE UNCHANGED vars
  BY <1>1, ServerUnmoved DEF vars, clientVars, serverVars
<1>2. CASE \E c \in Calls : Call(c) \/ Cancel(c) \/ Settle(c) \/ TimesOut(c)
  BY <1>2, CallKeeps, CancelKeeps, AnswerKeeps
<1>3. CASE \E l \in Listens : Listen(l) \/ StopListening(l)
  BY <1>3, ListenKeeps, StopListeningKeeps
<1>4. CASE Dispose \/ Initialize \/ OnResponse
  BY <1>4, DisposeKeeps, InitializeKeeps, OnResponseKeeps
<1>5. CASE HandleRequest \/ HandleStop
  BY <1>5, HandleRequestKeeps, HandleStopKeeps
<1>6. CASE RegisterChannel \/ FlushPendingRequests \/ ServerDispose
  BY <1>6, AnswerKeeps, FlushKeeps, ServerDisposeKeeps
<1> QED BY <1>1, <1>2, <1>3, <1>4, <1>5, <1>6 DEF Next

LEMMA Follows ==
  ASSUME IInv, SInv
  PROVE  ServerFollows
<1>0. /\ TypeOK /\ Subscribed /\ ExactlyActive /\ StopBehind /\ Gone
  BY DEF IInv, SInv
<1>1. toServer \in Seq(Message) /\ DOMAIN toServer = 1 .. Len(toServer) /\ Len(toServer) \in Nat
  BY <1>0, LenProperties DEF TypeOK
<1>2. ASSUME NEW l \in Listens, serverDisposed \/ (~OnTheWay(l) /\ l \notin Range(pending))
      PROVE  /\ listening[l] = "on" => subscriptions[l] > 0
             /\ l \notin late => subscriptions[l] = (IF listening[l] = "on" THEN 1 ELSE 0)
  <2>1. CASE serverDisposed
    BY <1>0, <2>1 DEF Gone, ExactlyActive
  <2>2. CASE ~serverDisposed
    <3>1. PICK K \in SUBSET (0 .. Len(toServer)) :
            /\ Tells(toServer, K, l) /\ Knows(K, l)
            /\ Len(toServer) \in K <=> listening[l] = "on"
      BY <2>2 DEF SInv, Told
    <3>2. \A i \in 1 .. Len(toServer) : toServer[i].id # l
      BY <1>1, <1>2, <2>2 DEF OnTheWay
    <3>3. 0 \in K <=> Len(toServer) \in K
      BY <1>1, <3>1, <3>2, NothingTold
    <3>4. listening[l] = "on" => l \in active
      BY <1>2, <2>2, <3>1, <3>3 DEF Knows
    <3>5. l \notin late => (l \in active <=> listening[l] = "on")
      BY <3>1, <3>3, <3>4 DEF Knows
    <3>6. subscriptions[l] \in Nat /\ (l \in active => subscriptions[l] >= 1)
      BY <1>0 DEF TypeOK, Subscribed
    <3> QED BY <1>0, <3>4, <3>5, <3>6 DEF ExactlyActive
  <2> QED BY <2>1, <2>2
<1>3. ASSUME NEW c \in Calls, calls[c] = "cancelled", c \in running,
             serverDisposed \/ ~OnTheWay(c), c \notin late
      PROVE  c \in cancelled
  <2>1. CASE serverDisposed
    BY <1>0, <1>3, <2>1 DEF Gone
  <2>2. CASE ~OnTheWay(c)
    <3>1. Stops(c) = {}
      BY <2>2 DEF Stops, OnTheWay
    <3> QED BY <1>0, <1>3, <3>1 DEF StopBehind
  <2> QED BY <1>3, <2>1, <2>2
<1> QED BY <1>2, <1>3 DEF ServerFollows

\* What the client says about a request reaches the server: with nothing about
\* it under way an emitter with listeners is subscribed to, and one without is
\* not unless a request of it was kept for the channel; a call given up has its
\* token cancelled while it runs (requestEvent, disposeActiveRequest).
THEOREM ServerKnows == Spec => []ServerFollows
<1>1. Init => SInv
  BY InitSInv
<1>2. IInv /\ SInv /\ [Next]_vars => SInv'
  BY NextSInv
<1>3. IInv /\ SInv => ServerFollows
  BY Follows
<1> QED BY <1>1, <1>2, <1>3, Invariance, PTL DEF Spec

(***************************************************************************)
(* Third part: nobody waits for nothing.                                   *)
(***************************************************************************)
Greetings == {i \in DOMAIN toClient : toClient[i].type = "initialize"}
Answers(c) == {i \in DOMAIN toClient : toClient[i].type = "answer" /\ toClient[i].id = c}

\* The server's first message is read before anything is sent.
Greeted == initialized \/ Greetings # {}
WaitEarly == \A c \in Calls : calls[c] = "waiting" => ~initialized

\* What was sent has its handler, and a handler an answer to come.
Handled == \A c \in Calls : calls[c] = "asked" => c \in handlers
Due(c) == Sent(c) # {} \/ c \in timers \/ c \in running \/ Answers(c) # {}
AllDue == \A c \in Calls : c \in handlers => Due(c)

\* A timer is that of a request that is kept: the flush ends the one with the other.
TimersOfKept == timers \subseteq Range(pending)

AInv == Greeted /\ WaitEarly /\ Handled /\ AllDue /\ TimersOfKept

(***************************************************************************)
(* What the connection does to it                                          *)
(***************************************************************************)
\* What is sent joins what is on its way.
LEMMA SendAdds ==
  ASSUME TypeOK, NEW type \in {"request", "stop"}, NEW ids \in SUBSET Requests, Send(type, ids),
         NEW c \in Calls
  PROVE  /\ Sent(c) # {} => Sent(c)' # {}
         /\ type = "request" /\ c \in ids => Sent(c)' # {}
<1>1. PICK n, order : Sends(type, ids, n, order)
  BY SendShape
<1>2. /\ DOMAIN toServer = 1 .. Len(toServer) /\ Len(toServer) \in Nat /\ n \in Nat
      /\ DOMAIN toServer' = 1 .. Len(toServer) + n
  BY <1>1, LenProperties DEF Sends, TypeOK
<1>3. ASSUME NEW i \in Sent(c) PROVE i \in Sent(c)'
  <2>1. i \in 1 .. Len(toServer) /\ toServer[i].type = "request" /\ toServer[i].id = c
    BY <1>2, <1>3 DEF Sent
  <2>2. toServer'[i] = toServer[i]
    BY <1>1, <2>1 DEF Sends
  <2>3. i \in DOMAIN toServer'
    BY <1>2, <2>1
  <2> QED BY <2>1, <2>2, <2>3 DEF Sent
<1>4. ASSUME type = "request", c \in ids PROVE \E i : i \in Sent(c)'
  <2>1. PICK i \in 1 .. n : order[i] = c
    BY <1>1, <1>4 DEF Sends
  <2>2. Len(toServer) + i \in DOMAIN toServer'
    BY <1>2, <2>1
  <2>3. toServer'[Len(toServer) + i].type = type /\ toServer'[Len(toServer) + i].id = order[i]
    BY <1>1, <2>1 DEF Sends
  <2> QED BY <1>4, <2>1, <2>2, <2>3 DEF Sent
<1> QED BY <1>3, <1>4

\* The server takes one message; a request of another call stays on its way.
LEMMA TakeLeaves ==
  ASSUME TypeOK, toServer # <<>>, toServer' = Tail(toServer), NEW c \in Calls, Sent(c) # {}
  PROVE  Sent(c)' # {} \/ (Head(toServer).type = "request" /\ Head(toServer).id = c)
<1>1. toServer \in Seq(Message)
  BY DEF TypeOK
<1>2. /\ Len(toServer) \in Nat \ {0} /\ Len(toServer') = Len(toServer) - 1
      /\ \A i \in 1 .. Len(toServer') : toServer'[i] = toServer[i + 1]
      /\ Head(toServer) = toServer[1]
      /\ DOMAIN toServer = 1 .. Len(toServer) /\ DOMAIN toServer' = 1 .. Len(toServer')
  BY <1>1, HeadTailProperties, EmptySeq, LenProperties
<1>3. PICK i \in 1 .. Len(toServer) : toServer[i].type = "request" /\ toServer[i].id = c
  BY <1>2 DEF Sent
<1>4. CASE i = 1
  BY <1>2, <1>3, <1>4
<1>5. CASE i # 1
  <2>1. i - 1 \in 1 .. Len(toServer') /\ (i - 1) + 1 = i
    BY <1>2, <1>5
  <2>2. toServer'[i - 1] = toServer[i]
    BY <1>2, <2>1
  <2>3. i - 1 \in Sent(c)'
    BY <1>2, <1>3, <2>1, <2>2 DEF Sent
  <2> QED BY <2>3
<1> QED BY <1>4, <1>5

\* Answers join what is on its way to the client.
LEMMA AnswerAdds ==
  ASSUME TypeOK, NEW d \in Calls, Answer({d})
  PROVE  /\ Greetings # {} => Greetings' # {}
         /\ \A c \in Calls : Answers(c) # {} => Answers(c)' # {}
         /\ Answers(d)' # {}
<1> DEFINE order == SetToSeq({d})
           m == [i \in DOMAIN order |-> [type |-> "answer", id |-> order[i]]]
<1>1. DOMAIN order = 1 .. 1 /\ order[1] = d
  <2>1. IsFiniteSet({d}) /\ Cardinality({d}) = 1
    BY FS_Singleton
  <2>2. order \in [1 .. 1 -> {d}]
    BY <2>1, OrderOf
  <2> HIDE DEF order
  <2> QED BY <2>2
<1>2. m \in [1 .. 1 -> ToClient] /\ m[1] = [type |-> "answer", id |-> d]
  <2>1. [type |-> "answer", id |-> d] \in ToClient
    BY DEF ToClient
  <2>2. m = [i \in 1 .. 1 |-> [type |-> "answer", id |-> order[i]]]
    BY <1>1
  <2> HIDE DEF order, m
  <2>3. m = [i \in 1 .. 1 |-> [type |-> "answer", id |-> d]]
    BY <1>1, <2>2
  <2> QED BY <2>1, <2>3
<1>3. toClient \in Seq(ToClient) /\ toClient' = toClient \o m
  BY DEF TypeOK, ToClient, Answer
<1> HIDE DEF m
<1>4. m \in Seq(ToClient) /\ Len(m) = 1
  BY <1>2, SequenceOf
<1>5. /\ Len(toClient) \in Nat /\ DOMAIN toClient = 1 .. Len(toClient)
      /\ toClient' \in Seq(ToClient) /\ Len(toClient') = Len(toClient) + 1
      /\ \A i \in 1 .. Len(toClient) + 1 :
           toClient'[i] = IF i <= Len(toClient) THEN toClient[i] ELSE m[i - Len(toClient)]
  <2>1. Len(toClient) \in Nat /\ DOMAIN toClient = 1 .. Len(toClient)
    BY <1>3, LenProperties
  <2> HIDE DEF ToClient
  <2>2. /\ toClient \o m \in Seq(ToClient)
        /\ Len(toClient \o m) = Len(toClient) + Len(m)
        /\ \A i \in 1 .. Len(toClient) + Len(m) :
             (toClient \o m)[i] = IF i <= Len(toClient) THEN toClient[i] ELSE m[i - Len(toClient)]
    BY <1>3, <1>4, ConcatProperties
  <2> QED BY <1>3, <1>4, <2>1, <2>2
<1>6. DOMAIN toClient' = 1 .. Len(toClient) + 1
  BY <1>5, LenProperties
<1>7. \A i \in DOMAIN toClient : i \in DOMAIN toClient' /\ toClient'[i] = toClient[i]
  BY <1>5, <1>6
<1>8. \A i \in Greetings : i \in Greetings'
  BY <1>7 DEF Greetings
<1>9. \A c \in Calls : \A i \in Answers(c) : i \in Answers(c)'
  BY <1>7 DEF Answers
<1>10. Len(toClient) + 1 \in Answers(d)'
  <2> DEFINE k == Len(toClient) + 1
  <2>1. k \in 1 .. Len(toClient) + 1 /\ ~(k <= Len(toClient)) /\ k - Len(toClient) = 1
    BY <1>5
  <2>2. toClient'[k] = m[k - Len(toClient)] /\ k \in DOMAIN toClient'
    BY <1>5, <1>6, <2>1
  <2>3. toClient'[k] = [type |-> "answer", id |-> d]
    BY <1>2, <2>1, <2>2
  <2> HIDE DEF k
  <2>4. k \in Answers(d)'
    BY <2>2, <2>3 DEF Answers
  <2> QED BY <2>4 DEF k
<1> QED BY <1>8, <1>9, <1>10

\* The client reads one message; those behind it stay on their way.
LEMMA ReceiveLeaves ==
  ASSUME TypeOK, NEW type, Receive(type)
  PROVE  /\ type # "initialize" /\ Greetings # {} => Greetings' # {}
         /\ \A c \in Calls : Answers(c) # {} =>
              Answers(c)' # {} \/ (type = "answer" /\ Head(toClient).id = c)
<1>1. /\ toClient \in Seq(ToClient) /\ toClient # <<>> /\ toClient' = Tail(toClient)
      /\ Head(toClient).type = type
  BY DEF TypeOK, Receive, ToClient
<1>2. /\ Len(toClient) \in Nat \ {0} /\ Len(toClient') = Len(toClient) - 1
      /\ \A i \in 1 .. Len(toClient') : toClient'[i] = toClient[i + 1]
      /\ Head(toClient) = toClient[1]
      /\ DOMAIN toClient = 1 .. Len(toClient) /\ DOMAIN toClient' = 1 .. Len(toClient')
  BY <1>1, HeadTailProperties, EmptySeq, LenProperties
<1>3. ASSUME NEW i \in DOMAIN toClient, i # 1
      PROVE  i - 1 \in DOMAIN toClient' /\ toClient'[i - 1] = toClient[i]
  <2>1. i - 1 \in 1 .. Len(toClient') /\ (i - 1) + 1 = i
    BY <1>2, <1>3
  <2> QED BY <1>2, <2>1
<1>4. ASSUME type # "initialize", NEW i \in Greetings PROVE Greetings' # {}
  <2>1. i \in DOMAIN toClient /\ i # 1 /\ toClient[i].type = "initialize"
    BY <1>1, <1>2, <1>4 DEF Greetings
  <2>2. i - 1 \in Greetings'
    BY <1>3, <2>1 DEF Greetings
  <2> QED BY <2>2
<1>5. ASSUME NEW c \in Calls, NEW i \in Answers(c)
      PROVE  Answers(c)' # {} \/ (type = "answer" /\ Head(toClient).id = c)
  <2>1. i \in DOMAIN toClient /\ toClient[i].type = "answer" /\ toClient[i].id = c
    BY <1>5 DEF Answers
  <2>2. CASE i = 1
    BY <1>1, <1>2, <2>1, <2>2
  <2>3. CASE i # 1
    <3>1. i - 1 \in Answers(c)'
      BY <1>3, <2>1, <2>3 DEF Answers
    <3> QED BY <3>1
  <2> QED BY <2>2, <2>3
<1> QED BY <1>4, <1>5

(***************************************************************************)
(* Steps of the client                                                     *)
(***************************************************************************)
LEMMA ClientWaits ==
  ASSUME AInv, Greeted', WaitEarly', Handled',
         UNCHANGED <<pending, timers, running>>,
         \A c \in Calls : c \in handlers' =>
           (c \in handlers /\ (Answers(c) # {} => Answers(c)' # {})) \/ Sent(c)' # {},
         \A c \in Calls : Sent(c) # {} => Sent(c)' # {}
  PROVE  AInv'
<1>1. AllDue'
  <2> SUFFICES ASSUME NEW c \in Calls, c \in handlers' PROVE Due(c)'
    BY DEF AllDue
  <2>1. CASE Sent(c)' # {}
    BY <2>1 DEF Due
  <2>2. CASE Sent(c)' = {}
    <3>1. c \in handlers /\ Sent(c) = {} /\ (Answers(c) # {} => Answers(c)' # {})
      BY <2>2
    <3>2. c \in timers \/ c \in running \/ Answers(c) # {}
      BY <3>1 DEF AInv, AllDue, Due
    <3> QED BY <3>1, <3>2 DEF Due
  <2> QED BY <2>1, <2>2
<1>2. TimersOfKept'
  BY DEF AInv, TimersOfKept
<1> QED BY <1>1, <1>2 DEF AInv

LEMMA SameClient ==
  ASSUME toClient' = toClient
  PROVE  /\ Greetings' = Greetings
         /\ \A c \in Calls : Answers(c)' = Answers(c)
BY DEF Greetings, Answers

\* doRequest(): a call that could not be sent has lost its handler.
LEMMA DoRequestWaits ==
  ASSUME TypeOK, NEW S \in SUBSET Requests, DoRequest(S), Handled
  PROVE  /\ Handled'
         /\ \A c \in Calls : c \in handlers' => c \in handlers \/ Sent(c)' # {}
         /\ \A c \in Calls : Sent(c) # {} => Sent(c)' # {}
         /\ \A c \in Calls : calls'[c] = "waiting" => calls[c] = "waiting" /\ c \notin S
<1>1. PICK thrown \in SUBSET (S \cap Calls) :
        /\ handlers' = handlers \cup (S \ thrown)
        /\ Send("request", S \ thrown)
        /\ calls' = [c \in Calls |-> IF c \in thrown THEN "answered"
                                     ELSE IF c \in S THEN "asked" ELSE calls[c]]
  BY DEF DoRequest
<1> DEFINE ids == S \ thrown
<1>2. ids \in SUBSET Requests /\ Send("request", ids)
  BY <1>1
<1>3. handlers' = handlers \cup ids
  BY <1>1
<1>4. \A c \in Calls : /\ calls'[c] = "asked" => c \in ids \/ calls[c] = "asked"
                       /\ calls'[c] = "waiting" => calls[c] = "waiting" /\ c \notin S
  BY <1>1
<1> HIDE DEF ids
<1>5. \A c \in Calls : (Sent(c) # {} => Sent(c)' # {}) /\ (c \in ids => Sent(c)' # {})
  BY <1>2, SendAdds
<1>6. Handled'
  BY <1>3, <1>4 DEF Handled
<1> QED BY <1>3, <1>4, <1>5, <1>6

LEMMA CallWaits ==
  ASSUME IInv, AInv, NEW c \in Calls, Call(c)
  PROVE  AInv'
<1>1. TypeOK /\ Greeted /\ WaitEarly /\ Handled
  BY DEF IInv, AInv
<1>2. /\ initialized' = initialized /\ toClient' = toClient /\ calls[c] = "unused"
      /\ UNCHANGED <<pending, timers, running>>
  BY DEF Call, serverVars
<1>3. Greeted' /\ \A d \in Calls : Answers(d)' = Answers(d)
  BY <1>1, <1>2, SameClient DEF Greeted
<1>4. CASE initialized
  <2>1. DoRequest({c}) /\ {c} \in SUBSET Requests
    BY <1>4 DEF Call, Requests
  <2>2. /\ Handled'
        /\ \A d \in Calls : d \in handlers' => d \in handlers \/ Sent(d)' # {}
        /\ \A d \in Calls : Sent(d) # {} => Sent(d)' # {}
        /\ \A d \in Calls : calls'[d] = "waiting" => calls[d] = "waiting"
    BY <1>1, <2>1, DoRequestWaits
  <2>3. WaitEarly'
    BY <1>1, <1>2, <2>2 DEF WaitEarly
  <2> QED BY <1>2, <1>3, <2>2, <2>3, ClientWaits
<1>5. CASE ~initialized
  <2>1. /\ \A d \in Calls : calls'[d] = IF d = c THEN "waiting" ELSE calls[d]
        /\ handlers' = handlers /\ toServer' = toServer
    BY <1>1, <1>5 DEF Call, TypeOK
  <2>2. WaitEarly' /\ Handled'
    BY <1>1, <1>2, <1>5, <2>1 DEF WaitEarly, Handled
  <2>3. \A d \in Calls : Sent(d)' = Sent(d)
    BY <2>1, SameServer
  <2> QED BY <1>2, <1>3, <2>1, <2>2, <2>3, ClientWaits
<1> QED BY <1>4, <1>5

LEMMA ListenWaits ==
  ASSUME IInv, AInv, NEW l \in Listens, Listen(l)
  PROVE  AInv'
<1>1. TypeOK /\ Greeted /\ WaitEarly /\ Handled /\ l \notin Calls
  BY ConstantsAssumption DEF IInv, AInv
<1>2. /\ initialized' = initialized /\ toClient' = toClient
      /\ UNCHANGED <<pending, timers, running>>
  BY DEF Listen, serverVars
<1>3. Greeted' /\ \A d \in Calls : Answers(d)' = Answers(d)
  BY <1>1, <1>2, SameClient DEF Greeted
<1>4. CASE initialized
  <2>1. DoRequest({l}) /\ {l} \in SUBSET Requests
    BY <1>4 DEF Listen, Requests
  <2>2. /\ Handled'
        /\ \A d \in Calls : d \in handlers' => d \in handlers \/ Sent(d)' # {}
        /\ \A d \in Calls : Sent(d) # {} => Sent(d)' # {}
        /\ \A d \in Calls : calls'[d] = "waiting" => calls[d] = "waiting"
    BY <1>1, <2>1, DoRequestWaits
  <2>3. WaitEarly'
    BY <1>1, <1>2, <2>2 DEF WaitEarly
  <2> QED BY <1>2, <1>3, <2>2, <2>3, ClientWaits
<1>5. CASE ~initialized
  <2>1. handlers' = handlers \cup {l} /\ calls' = calls /\ toServer' = toServer
    BY <1>5 DEF Listen
  <2>2. WaitEarly' /\ Handled'
    BY <1>1, <1>2, <2>1 DEF WaitEarly, Handled
  <2>3. \A d \in Calls : Sent(d)' = Sent(d) /\ (d \in handlers' => d \in handlers)
    BY <1>1, <2>1, SameServer
  <2> QED BY <1>2, <1>3, <2>2, <2>3, ClientWaits
<1> QED BY <1>4, <1>5

\* A step that stops something leaves every handler of a call where it is.
LEMMA StopWaits ==
  ASSUME IInv, AInv, NEW ids \in SUBSET Requests, Send("stop", ids), UNCHANGED serverVars,
         initialized' = initialized, toClient' = toClient,
         \A c \in Calls : c \in handlers' <=> c \in handlers,
         \A c \in Calls : calls'[c] \in {"waiting", "asked"} => calls'[c] = calls[c]
  PROVE  AInv'
<1>1. TypeOK /\ Greeted /\ WaitEarly /\ Handled
  BY DEF IInv, AInv
<1>2. UNCHANGED <<pending, timers, running>>
  BY DEF serverVars
<1>3. Greeted' /\ \A c \in Calls : Answers(c)' = Answers(c)
  BY <1>1, SameClient DEF Greeted
<1>4. \A c \in Calls : Sent(c) # {} => Sent(c)' # {}
  BY <1>1, SendAdds
<1>5. WaitEarly' /\ Handled'
  BY <1>1 DEF WaitEarly, Handled
<1> QED BY <1>2, <1>3, <1>4, <1>5, ClientWaits

LEMMA CancelWaits ==
  ASSUME IInv, AInv, NEW c \in Calls, Cancel(c)
  PROVE  AInv'
<1> DEFINE ids == {d \in {c} : calls[d] = "asked"}
<1>1. /\ calls' = [d \in Calls |-> IF d \in {c} THEN "cancelled" ELSE calls[d]]
      /\ Send("stop", ids) /\ ids \in SUBSET Requests /\ UNCHANGED serverVars
      /\ initialized' = initialized /\ toClient' = toClient /\ handlers' = handlers
  BY DEF Cancel, CancelCalls, Requests
<1>2. \A d \in Calls : calls'[d] \in {"waiting", "asked"} => calls'[d] = calls[d]
  BY <1>1
<1> HIDE DEF ids
<1> QED BY <1>1, <1>2, StopWaits

LEMMA StopListeningWaits ==
  ASSUME IInv, AInv, NEW l \in Listens, StopListening(l)
  PROVE  AInv'
<1> DEFINE ids == IF listening[l] = "on" THEN {l} ELSE {}
<1>1. /\ Send("stop", ids) /\ ids \in SUBSET Requests /\ UNCHANGED serverVars
      /\ initialized' = initialized /\ toClient' = toClient /\ calls' = calls
      /\ handlers' = handlers \ {l}
  BY DEF StopListening, Requests
<1>2. \A c \in Calls : c \in handlers' <=> c \in handlers
  BY <1>1, ConstantsAssumption
<1> HIDE DEF ids
<1> QED BY <1>1, <1>2, StopWaits

LEMMA DisposeWaits ==
  ASSUME IInv, AInv, Dispose
  PROVE  AInv'
<1> DEFINE on == {l \in Listens : listening[l] = "on"}
           ids == {c \in Calls : calls[c] = "asked"} \cup on
<1>1. /\ calls' = [c \in Calls |-> IF calls[c] \in {"waiting", "asked"} THEN "cancelled" ELSE calls[c]]
      /\ handlers' = handlers \ on
      /\ Send("stop", ids) /\ UNCHANGED serverVars
      /\ initialized' = initialized /\ toClient' = toClient
  BY DEF Dispose
<1>2. ids \in SUBSET Requests
  BY DEF Requests
<1>3. \A c \in Calls : c \in handlers' <=> c \in handlers
  BY <1>1, ConstantsAssumption
<1>4. \A c \in Calls : calls'[c] \in {"waiting", "asked"} => calls'[c] = calls[c]
  BY <1>1
<1> HIDE DEF ids, on
<1> QED BY <1>1, <1>2, <1>3, <1>4, StopWaits

LEMMA InitializeWaits ==
  ASSUME IInv, AInv, Initialize
  PROVE  AInv'
<1> DEFINE S == {c \in Calls : calls[c] = "waiting"} \cup {l \in Listens : listening[l] = "waiting"}
<1>1. /\ Receive("initialize") /\ initialized' = TRUE /\ DoRequest(S) /\ S \in SUBSET Requests
      /\ UNCHANGED <<pending, timers, running>>
      /\ \A c \in Calls : calls[c] = "waiting" => c \in S
  BY DEF Initialize, serverVars, Requests
<1> HIDE DEF S
<1>2. TypeOK /\ Handled
  BY DEF IInv, AInv
<1>3. /\ Handled'
      /\ \A c \in Calls : c \in handlers' => c \in handlers \/ Sent(c)' # {}
      /\ \A c \in Calls : Sent(c) # {} => Sent(c)' # {}
      /\ \A c \in Calls : calls'[c] = "waiting" => calls[c] = "waiting" /\ c \notin S
  BY <1>1, <1>2, DoRequestWaits
<1>4. \A c \in Calls : Answers(c) # {} => Answers(c)' # {}
  BY <1>1, <1>2, ReceiveLeaves
<1>5. Greeted' /\ WaitEarly'
  BY <1>1, <1>3 DEF Greeted, WaitEarly
<1> QED BY <1>1, <1>3, <1>4, <1>5, ClientWaits

\* The answer takes the handler it was for.
LEMMA OnResponseWaits ==
  ASSUME IInv, AInv, OnResponse
  PROVE  AInv'
<1> DEFINE d == Head(toClient).id
<1>1. /\ Receive("answer") /\ handlers' = handlers \ {d}
      /\ calls' = [calls EXCEPT ![d] = IF d \in handlers /\ @ = "asked" THEN "answered" ELSE @]
      /\ initialized' = initialized /\ toServer' = toServer
      /\ UNCHANGED <<pending, timers, running>>
  BY DEF OnResponse, serverVars
<1>2. TypeOK /\ Greeted /\ WaitEarly /\ Handled
  BY DEF IInv, AInv
<1>3. /\ Greetings # {} => Greetings' # {}
      /\ \A c \in Calls : Answers(c) # {} => Answers(c)' # {} \/ d = c
  BY <1>1, <1>2, ReceiveLeaves
<1> HIDE DEF d
<1>4. \A c \in Calls : calls'[c] \in {"waiting", "asked"} =>
        calls'[c] = calls[c] /\ (calls[c] = "asked" => c # d)
  <2> SUFFICES ASSUME NEW c \in Calls, calls'[c] \in {"waiting", "asked"}
               PROVE  calls'[c] = calls[c] /\ (calls[c] = "asked" => c # d)
    OBVIOUS
  <2>1. calls'[c] = IF c = d THEN IF d \in handlers /\ calls[c] = "asked" THEN "answered" ELSE calls[c]
                    ELSE calls[c]
    BY <1>1, <1>2 DEF TypeOK
  <2>2. calls[c] = "asked" => c \in handlers
    BY <1>2 DEF Handled
  <2> QED BY <2>1, <2>2
<1>5. Greeted'
  BY <1>1, <1>2, <1>3 DEF Greeted
<1>6. WaitEarly' /\ Handled'
  BY <1>1, <1>2, <1>4 DEF WaitEarly, Handled
<1>7. \A c \in Calls : Sent(c)' = Sent(c)
  BY <1>1, SameServer
<1>8. \A c \in Calls : c \in handlers' => c \in handlers /\ (Answers(c) # {} => Answers(c)' # {})
  BY <1>1, <1>3
<1> QED BY <1>1, <1>5, <1>6, <1>7, <1>8, ClientWaits

(***************************************************************************)
(* Steps of the server                                                     *)
(***************************************************************************)
\* A step of the server hands an answer that is due on, and never drops it.
LEMMA ServerWaits ==
  ASSUME AInv, UNCHANGED clientVars, TimersOfKept',
         Greetings # {} => Greetings' # {},
         \A c \in Calls : Due(c) => Due(c)'
  PROVE  AInv'
<1>1. calls' = calls /\ handlers' = handlers /\ initialized' = initialized
  BY DEF clientVars
<1>2. Greeted' /\ WaitEarly' /\ Handled'
  BY <1>1 DEF AInv, Greeted, WaitEarly, Handled
<1>3. AllDue'
  BY <1>1 DEF AInv, AllDue
<1> QED BY <1>2, <1>3 DEF AInv

LEMMA AnswerWaits ==
  ASSUME IInv, AInv, NEW c \in Calls, Settle(c) \/ TimesOut(c)
  PROVE  AInv'
<1>1. /\ Answer({c}) /\ UNCHANGED clientVars /\ toServer' = toServer /\ pending' = pending
      /\ timers' \subseteq timers
      /\ \A d \in Calls : d # c => (d \in timers => d \in timers') /\ (d \in running => d \in running')
  BY DEF Settle, TimesOut, AnswerCall
<1>2. TypeOK
  BY DEF IInv
<1>3. /\ Greetings # {} => Greetings' # {}
      /\ \A d \in Calls : Answers(d) # {} => Answers(d)' # {}
      /\ Answers(c)' # {}
  BY <1>1, <1>2, AnswerAdds
<1>4. \A d \in Calls : Sent(d)' = Sent(d)
  BY <1>1, SameServer
<1>5. \A d \in Calls : Due(d) => Due(d)'
  BY <1>1, <1>3, <1>4 DEF Due
<1>6. TimersOfKept'
  BY <1>1 DEF AInv, TimersOfKept
<1> QED BY <1>1, <1>3, <1>5, <1>6, ServerWaits

\* A request is run, or kept with a timer.
LEMMA HandleRequestWaits ==
  ASSUME IInv, AInv, HandleRequest
  PROVE  AInv'
<1> DEFINE r == Head(toServer).id
<1>1. /\ toServer # <<>> /\ toServer' = Tail(toServer) /\ toClient' = toClient
      /\ UNCHANGED clientVars
      /\ IF registered THEN Execute(<<r>>) /\ UNCHANGED <<pending, timers, late>>
         ELSE CollectPending(r) /\ UNCHANGED <<running, executions, active, subscriptions>>
  BY DEF HandleRequest, Handle
<1>2. TypeOK
  BY DEF IInv
<1>3. r \in Requests /\ \A c \in Calls : Sent(c) # {} => Sent(c)' # {} \/ r = c
  BY <1>1, <1>2, TakeProperties, TakeLeaves DEF Message
<1> HIDE DEF r
<1>4. Greetings' = Greetings /\ \A c \in Calls : Answers(c)' = Answers(c)
  BY <1>1, SameClient
<1>5. /\ TimersOfKept'
      /\ timers \subseteq timers' /\ running \subseteq running'
      /\ r \in Calls => r \in timers' \/ r \in running'
  <2>1. CASE registered
    <3>1. Range(<<r>>) = {r}
      BY DEF Range
    <3>2. running' = running \cup ({r} \cap Calls) /\ UNCHANGED <<pending, timers>>
      BY <1>1, <2>1, <3>1 DEF Execute
    <3> QED BY <3>2 DEF AInv, TimersOfKept
  <2>2. CASE ~registered
    <3>1. /\ pending' = Append(pending, r) /\ timers' = timers \cup ({r} \cap Calls)
          /\ running' = running
      BY <1>1, <2>2 DEF CollectPending
    <3>2. pending \in Seq(Requests)
      BY <1>2 DEF TypeOK
    <3>3. /\ DOMAIN pending = 1 .. Len(pending) /\ Len(pending) \in Nat
          /\ DOMAIN pending' = 1 .. Len(pending) + 1
          /\ \A i \in 1 .. Len(pending) + 1 :
               pending'[i] = IF i <= Len(pending) THEN pending[i] ELSE r
      BY <1>3, <3>1, <3>2, AppendProperties, LenProperties
    <3>4. Len(pending) + 1 \in DOMAIN pending' /\ pending'[Len(pending) + 1] = r
      BY <3>3
    <3>5. \A i \in DOMAIN pending : i \in DOMAIN pending' /\ pending'[i] = pending[i]
      BY <3>3
    <3>6. Range(pending) \cup {r} \subseteq Range(pending')
      BY <3>4, <3>5 DEF Range
    <3>7. timers \subseteq Range(pending)
      BY DEF AInv, TimersOfKept
    <3> QED BY <3>1, <3>6, <3>7 DEF TimersOfKept
  <2> QED BY <2>1, <2>2
<1>6. \A c \in Calls : Due(c) => Due(c)'
  BY <1>3, <1>4, <1>5 DEF Due
<1> QED BY <1>1, <1>4, <1>5, <1>6, ServerWaits

LEMMA HandleStopWaits ==
  ASSUME IInv, AInv, HandleStop
  PROVE  AInv'
<1>1. /\ toServer # <<>> /\ toServer' = Tail(toServer) /\ Head(toServer).type = "stop"
      /\ UNCHANGED <<clientVars, toClient, pending, timers, running>>
  BY DEF HandleStop, Handle
<1>2. TypeOK
  BY DEF IInv
<1>3. \A c \in Calls : Sent(c) # {} => Sent(c)' # {}
  BY <1>1, <1>2, TakeLeaves
<1>4. Greetings' = Greetings /\ \A c \in Calls : Answers(c)' = Answers(c)
  BY <1>1, SameClient
<1>5. \A c \in Calls : Due(c) => Due(c)'
  BY <1>1, <1>3, <1>4 DEF Due
<1>6. TimersOfKept'
  BY <1>1 DEF AInv, TimersOfKept
<1> QED BY <1>1, <1>4, <1>5, <1>6, ServerWaits

\* What was kept runs, and its timer is not missed.
LEMMA FlushWaits ==
  ASSUME IInv, AInv, FlushPendingRequests
  PROVE  AInv'
<1>1. /\ Execute(pending) /\ timers' = {} /\ toServer' = toServer /\ toClient' = toClient
      /\ UNCHANGED clientVars
  BY DEF FlushPendingRequests
<1>2. running' = running \cup (Range(pending) \cap Calls)
  BY <1>1 DEF Execute
<1>3. \A c \in Calls : c \in timers => c \in running'
  BY <1>2 DEF AInv, TimersOfKept
<1>4. /\ Greetings' = Greetings
      /\ \A c \in Calls : Answers(c)' = Answers(c) /\ Sent(c)' = Sent(c)
  BY <1>1, SameClient, SameServer
<1>5. \A c \in Calls : Due(c) => Due(c)'
  BY <1>2, <1>3, <1>4 DEF Due
<1>6. TimersOfKept'
  BY <1>1 DEF TimersOfKept
<1> QED BY <1>1, <1>4, <1>5, <1>6, ServerWaits

LEMMA OthersWait ==
  ASSUME AInv, UNCHANGED <<clientVars, toServer, toClient, pending, timers, running>>
  PROVE  AInv'
<1>1. /\ Greetings' = Greetings
      /\ \A c \in Calls : Answers(c)' = Answers(c) /\ Sent(c)' = Sent(c)
  BY SameClient, SameServer
<1>2. \A c \in Calls : Due(c) => Due(c)'
  BY <1>1 DEF Due
<1>3. TimersOfKept'
  BY DEF AInv, TimersOfKept
<1> QED BY <1>1, <1>2, <1>3, ServerWaits

LEMMA InitAInv ==
  ASSUME Init
  PROVE  AInv
<1>1. toClient = <<[type |-> "initialize"]>> /\ handlers = {} /\ timers = {} /\ ~initialized
  BY DEF Init
<1>2. 1 \in Greetings
  <2>1. DOMAIN toClient = {1} /\ toClient[1].type = "initialize"
    BY <1>1
  <2> QED BY <2>1 DEF Greetings
<1>3. \A c \in Calls : calls[c] = "unused"
  BY DEF Init
<1> QED BY <1>1, <1>2, <1>3 DEF AInv, Greeted, WaitEarly, Handled, AllDue, TimersOfKept

LEMMA NextAInv ==
  ASSUME IInv, AInv, [Next]_vars
  PROVE  AInv'
<1>1. CASE UNCHANGED vars
  BY <1>1, OthersWait DEF vars, serverVars
<1>2. CASE \E c \in Calls : Call(c) \/ Cancel(c)
  BY <1>2, CallWaits, CancelWaits
<1>3. CASE \E c \in Calls : Settle(c) \/ TimesOut(c)
  BY <1>3, AnswerWaits
<1>4. CASE \E l \in Listens : Listen(l) \/ StopListening(l)
  BY <1>4, ListenWaits, StopListeningWaits
<1>5. CASE Dispose \/ Initialize \/ OnResponse
  BY <1>5, DisposeWaits, InitializeWaits, OnResponseWaits
<1>6. CASE HandleRequest \/ HandleStop
  BY <1>6, HandleRequestWaits, HandleStopWaits
<1>7. CASE FlushPendingRequests
  BY <1>7, FlushWaits
<1>8. CASE RegisterChannel \/ ServerDispose
  BY <1>8, OthersWait DEF RegisterChannel, ServerDispose
<1> QED BY <1>1, <1>2, <1>3, <1>4, <1>5, <1>6, <1>7, <1>8 DEF Next

LEMMA UnderWay ==
  ASSUME AInv
  PROVE  AnswerUnderWay
<1>1. ASSUME NEW c \in Calls, Due(c) PROVE AnswerDue(c)
  BY <1>1 DEF Due, AnswerDue, Sent, Answers
<1>2. ASSUME NEW c \in Calls, calls[c] = "waiting"
      PROVE  \E i \in DOMAIN toClient : toClient[i].type = "initialize"
  <2>1. Greetings # {}
    BY <1>2 DEF AInv, Greeted, WaitEarly
  <2> QED BY <2>1 DEF Greetings
<1>3. \A c \in Calls : /\ calls[c] = "asked" => c \in handlers
                       /\ c \in handlers => Due(c)
  BY DEF AInv, Handled, AllDue
<1> QED BY <1>1, <1>2, <1>3 DEF AnswerUnderWay

\* A call that waits has the server's first message before it, one that was sent
\* has its handler, and a handler has an answer to come, through cancellation,
\* time-outs, flushes, disposal and calls that cannot be serialized
\* (requestPromise, collectPendingRequest).
THEOREM NobodyWaitsInVain == Spec => []AnswerUnderWay
<1>1. Init => AInv
  BY InitAInv
<1>2. IInv /\ AInv /\ [Next]_vars => AInv'
  BY NextAInv
<1>3. AInv => AnswerUnderWay
  BY UnderWay
<1> QED BY <1>1, <1>2, <1>3, Invariance, PTL DEF Spec

=============================================================================
