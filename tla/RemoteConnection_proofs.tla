----------------------- MODULE RemoteConnection_proofs -----------------------
(***************************************************************************)
(* Proofs about RemoteConnection: no timer of the server threatens a       *)
(* connection in use, a window that takes its connection to be up has the  *)
(* server on the same socket, and no connection is forgotten by the server, *)
(* for any number of connections, sockets and losses.                      *)
(***************************************************************************)
EXTENDS RemoteConnection, TLAPS

\* Sockets are opened by attempts only.
Counted == \A c \in Connections : sockets[c] <= attempts + 1

\* A permanent failure is everybody's.
FailedTogether == permanentFailure => \A c \in Connections : failed[c]

\* A loop that has ended on an open socket has read an answer there.
Settled ==
  \A c \in Connections :
    (~failed[c] /\ loop[c] = "none" /\ ClientOpen(c)) => handshake[c][clientSocket[c]] = "over"

\* A good answer means that the server has the socket, or hands it over.
Answered ==
  \A c \in Connections :
    (ClientOpen(c) /\ handshake[c][clientSocket[c]] \in {"accepted", "over"}) =>
      /\ serverSocket[c] = clientSocket[c] \/ clientSocket[c] \in handed[c]
      /\ server[c] # "gone"

\* Only the sockets of a host's connection are handed over.
NoneHanded == \A c \in Fatal : handed[c] = {}

\* The window is on its last socket and has closed those before.
OldLeft ==
  \A c \in Connections :
    /\ clientSocket[c] = sockets[c]
    /\ \A s \in Sockets : s < sockets[c] => s \in closed[c]

\* The server knows no socket the window has not opened.
OnlyOpened ==
  \A c \in Connections :
    /\ serverSocket[c] <= sockets[c]
    /\ \A s \in handed[c] : s <= sockets[c]
    /\ \A s \in Sockets : handshake[c][s] # "none" => s <= sockets[c]

\* A close that was noticed has a timer running until the client is back.
Watched ==
  \A c \in Connections : (server[c] = "there" /\ reported[c]) => (runner1[c] \/ runner2[c])

\* A socket that is closed stays closed.
ClosedGrows == \A c \in Connections : closed[c] \subseteq closed'[c]

IInv ==
  /\ TypeOK /\ Counted /\ TimersOnlyWhileLost /\ FailedTogether /\ Settled /\ Answered /\ NoneHanded
  /\ OldLeft /\ OnlyOpened /\ Watched

(***************************************************************************)
(* What a step keeps that leaves the rest of it alone.                     *)
(***************************************************************************)
LEMMA TimersKept ==
  ASSUME TimersOnlyWhileLost, ClosedGrows, runner1' = runner1, runner2' = runner2,
         serverSocket' = serverSocket
  PROVE  TimersOnlyWhileLost'
BY DEF TimersOnlyWhileLost, ClosedGrows, ServerOpen, IsOpen

LEMMA SettledKept ==
  ASSUME Settled, ClosedGrows, loop' = loop, clientSocket' = clientSocket,
         handshake' = handshake, \A c \in Connections : failed[c] => failed'[c]
  PROVE  Settled'
BY DEF Settled, ClosedGrows, ClientOpen, IsOpen

LEMMA AnsweredKept ==
  ASSUME Answered, ClosedGrows, clientSocket' = clientSocket, handshake' = handshake,
         serverSocket' = serverSocket, handed' = handed, server' = server
  PROVE  Answered'
BY DEF Answered, ClosedGrows, ClientOpen, IsOpen

LEMMA OldLeftKept ==
  ASSUME OldLeft, ClosedGrows, clientSocket' = clientSocket, sockets' = sockets
  PROVE  OldLeft'
BY DEF OldLeft, ClosedGrows

LEMMA OnlyOpenedKept ==
  ASSUME OnlyOpened, sockets' = sockets, serverSocket' = serverSocket, handed' = handed,
         handshake' = handshake
  PROVE  OnlyOpened'
BY DEF OnlyOpened

LEMMA WatchedKept ==
  ASSUME Watched, server' = server, reported' = reported,
         \A c \in Connections : (runner1[c] \/ runner2[c]) => (runner1'[c] \/ runner2'[c])
  PROVE  Watched'
BY DEF Watched

LEMMA ShortTimers ==
  ASSUME TypeOK, TimersOnlyWhileLost
  PROVE  /\ Shortened \in [Connections -> BOOLEAN]
         /\ \A d \in Connections : Shortened[d] => ~ServerOpen(d)
         /\ \A d \in Connections : (runner1[d] \/ runner2[d]) => Shortened[d]
BY DEF TypeOK, TimersOnlyWhileLost, Shortened

(***************************************************************************)
(* The window                                                              *)
(***************************************************************************)
\* A failure for good fires for the connections it concerns and closes sockets.
LEMMA GiveUpStep ==
  ASSUME IInv, NEW C \in SUBSET Connections, GiveUp(C),
         permanentFailure' \in BOOLEAN, permanentFailure' => permanentFailure \/ C = Connections,
         loop' \in [Connections -> Loops],
         \A c \in Connections : loop'[c] = loop[c] \/ c \in C
  PROVE  IInv'
<1> USE DEF IInv
<1>1. TypeOK'
  BY DEF GiveUp, TypeOK, serverVars, historyVars
<1>2. /\ ClosedGrows
      /\ \A c \in Connections : failed'[c] = (failed[c] \/ c \in C)
  BY DEF GiveUp, TypeOK, ClosedGrows
<1>3. Counted' /\ NoneHanded'
  BY DEF GiveUp, Counted, NoneHanded, serverVars, historyVars
<1>4. TimersOnlyWhileLost'
  BY <1>2, TimersKept DEF GiveUp, serverVars
<1>5. FailedTogether'
  BY <1>2 DEF FailedTogether
<1>6. Settled'
  BY <1>2 DEF GiveUp, Settled, ClosedGrows, ClientOpen, IsOpen
<1>7. Answered'
  BY <1>2, AnsweredKept DEF GiveUp, serverVars
<1>8. OldLeft' /\ OnlyOpened' /\ Watched'
  BY <1>2, OldLeftKept, OnlyOpenedKept, WatchedKept DEF GiveUp, serverVars
<1> QED BY <1>1, <1>3, <1>4, <1>5, <1>6, <1>7, <1>8

LEMMA PermanentFailureStep ==
  ASSUME IInv, NEW c \in Connections, PermanentFailure(c)
  PROVE  IInv'
<1>1. GiveUp(FailsWith(c)) /\ FailsWith(c) \in SUBSET Connections /\ c \in FailsWith(c)
  BY DEF PermanentFailure, FailsWith
<1>2. /\ permanentFailure' \in BOOLEAN
      /\ permanentFailure' => permanentFailure \/ FailsWith(c) = Connections
  BY DEF PermanentFailure, FailsWith, IInv, TypeOK
<1>3. /\ loop' \in [Connections -> Loops]
      /\ \A d \in Connections : loop'[d] = loop[d] \/ d \in FailsWith(c)
  BY <1>1 DEF PermanentFailure, IInv, TypeOK, Loops
<1> QED BY <1>1, <1>2, <1>3, GiveUpStep

\* A step of the loop alone: it ends only when everybody has failed.
LEMMA LoopStep ==
  ASSUME IInv, NEW c \in Connections,
         loop' \in [Connections -> Loops], graceOver' \in [Connections -> BOOLEAN],
         \A d \in Connections : loop'[d] = loop[d] \/ loop'[d] # "none" \/ permanentFailure,
         UNCHANGED <<clientSocket, failed, permanentFailure, serverVars, sockets, closed, handshake>>,
         attempts' = attempts, losses' \in 0..MaxLosses
  PROVE  IInv'
<1> USE DEF IInv
<1>1. TypeOK'
  BY DEF TypeOK, serverVars
<1>2. ClosedGrows
  BY DEF ClosedGrows
<1>3. Counted' /\ NoneHanded' /\ FailedTogether'
  BY DEF Counted, NoneHanded, FailedTogether, serverVars
<1>4. TimersOnlyWhileLost'
  BY <1>2, TimersKept DEF serverVars
<1>5. Settled'
  BY DEF Settled, FailedTogether, ClientOpen, IsOpen
<1>6. Answered'
  BY <1>2, AnsweredKept DEF serverVars
<1>7. OldLeft' /\ OnlyOpened' /\ Watched'
  BY <1>2, OldLeftKept, OnlyOpenedKept, WatchedKept DEF serverVars
<1> QED BY <1>1, <1>3, <1>4, <1>5, <1>6, <1>7

LEMMA BeginReconnectingStep ==
  ASSUME IInv, NEW c \in Connections, BeginReconnecting(c), UNCHANGED <<sockets, closed, handshake>>,
         attempts' = attempts, losses' \in 0..MaxLosses
  PROVE  IInv'
<1>1. /\ loop' \in [Connections -> Loops] /\ graceOver' \in [Connections -> BOOLEAN]
      /\ \A d \in Connections : loop'[d] = loop[d] \/ loop'[d] # "none" \/ permanentFailure
      /\ UNCHANGED <<clientSocket, failed, permanentFailure, serverVars>>
  <2>1. CASE permanentFailure
    BY <2>1 DEF BeginReconnecting, IInv, TypeOK, serverVars
  <2>2. CASE ~permanentFailure
    BY <2>2 DEF BeginReconnecting, IInv, TypeOK, serverVars, Loops
  <2> QED BY <2>1, <2>2
<1> QED BY <1>1, LoopStep

\* The attempt's socket has no answer yet.
LEMMA ConnectStep ==
  ASSUME IInv, NEW c \in Connections, Connect(c)
  PROVE  IInv'
<1> USE DEF IInv
<1> DEFINE s == sockets[c] + 1
<1>1. s \in Sockets
  BY ConstantsAssumption DEF Connect, TypeOK, Counted, Sockets
<1>2. /\ sockets' = [sockets EXCEPT ![c] = s]
      /\ clientSocket' = [clientSocket EXCEPT ![c] = s]
      /\ handshake' = [handshake EXCEPT ![c][s] = "asked"]
      /\ attempts' = attempts + 1 /\ attempts < MaxAttempts /\ losses' = losses
      /\ closed' = [closed EXCEPT ![c] = @ \cup {clientSocket[c]}]
      /\ loop' = [loop EXCEPT ![c] = "handshaking"]
      /\ UNCHANGED <<graceOver, failed, permanentFailure, serverVars>>
  BY DEF Connect, Close
<1>3. TypeOK'
  <2>1. handshake' \in [Connections -> [Sockets -> Handshakes]]
    BY <1>1, <1>2 DEF TypeOK, Handshakes
  <2>2. attempts' \in 0..MaxAttempts
    BY <1>2, ConstantsAssumption DEF TypeOK
  <2> QED BY <1>1, <1>2, <2>1, <2>2 DEF TypeOK, Loops, serverVars
<1>4. ClosedGrows
  BY <1>2 DEF ClosedGrows, TypeOK
<1>5. Counted'
  BY <1>2 DEF Counted, TypeOK, Sockets
<1>6. NoneHanded' /\ FailedTogether'
  BY <1>2 DEF NoneHanded, FailedTogether, serverVars
<1>7. TimersOnlyWhileLost'
  BY <1>2, <1>4, TimersKept DEF serverVars
<1>8. Settled' /\ Answered'
  <2> SUFFICES ASSUME NEW d \in Connections PROVE
        /\ ((~failed[d] /\ loop[d] = "none" /\ ClientOpen(d)) => handshake[d][clientSocket[d]] = "over")'
        /\ ((ClientOpen(d) /\ handshake[d][clientSocket[d]] \in {"accepted", "over"}) =>
              /\ serverSocket[d] = clientSocket[d] \/ clientSocket[d] \in handed[d]
              /\ server[d] # "gone")'
    BY DEF Settled, Answered
  <2>1. CASE d = c
    BY <1>1, <1>2, <2>1 DEF TypeOK
  <2>2. CASE d # c
    BY <1>2, <2>2 DEF TypeOK, serverVars, Settled, Answered, ClientOpen, IsOpen
  <2> QED BY <2>1, <2>2
<1>9. OldLeft'
  <2> SUFFICES ASSUME NEW d \in Connections, NEW t \in Sockets, t < sockets'[d]
               PROVE  clientSocket'[d] = sockets'[d] /\ t \in closed'[d]
    <3>1. sockets'[c] = clientSocket'[c] /\ \A d \in Connections : clientSocket'[d] = sockets'[d]
      BY <1>1, <1>2 DEF TypeOK, OldLeft
    <3> QED BY <3>1 DEF OldLeft
  <2>1. CASE d = c
    <3>1. sockets'[c] = s /\ clientSocket'[c] = s /\ clientSocket[c] \in closed'[c]
      BY <1>1, <1>2 DEF TypeOK
    <3>2. sockets[c] \in Nat /\ t \in Nat /\ clientSocket[c] = sockets[c]
      BY DEF TypeOK, Sockets, OldLeft
    <3>3. t < sockets[c] \/ t = clientSocket[c]
      BY <2>1, <3>1, <3>2
    <3>4. t < sockets[c] => t \in closed'[c]
      BY <1>4 DEF OldLeft, ClosedGrows
    <3> QED BY <2>1, <3>1, <3>3, <3>4
  <2>2. CASE d # c
    <3>1. sockets'[d] = sockets[d] /\ clientSocket'[d] = clientSocket[d]
      BY <1>2, <2>2 DEF TypeOK
    <3> QED BY <1>4, <3>1 DEF OldLeft, ClosedGrows
  <2> QED BY <2>1, <2>2
<1>10. OnlyOpened'
  <2>1. \A d \in Connections : sockets'[d] = IF d = c THEN s ELSE sockets[d]
    BY <1>2 DEF TypeOK
  <2>2. \A d \in Connections : sockets[d] \in Nat /\ serverSocket[d] \in Nat /\ handed[d] \subseteq Nat
    BY DEF TypeOK, Sockets
  <2>3. \A d \in Connections : sockets[d] <= sockets'[d]
    BY <2>1, <2>2
  <2>4. \A d \in Connections, t \in Sockets :
          handshake'[d][t] = IF d = c /\ t = s THEN "asked" ELSE handshake[d][t]
    BY <1>1, <1>2 DEF TypeOK
  <2>5. Sockets \subseteq Nat
    BY DEF Sockets
  <2>6. \A d \in Connections : /\ serverSocket[d] <= sockets'[d]
                               /\ \A t \in handed[d] : t <= sockets'[d]
    <3> SUFFICES ASSUME NEW d \in Connections
                 PROVE  /\ serverSocket[d] <= sockets'[d]
                        /\ \A t \in handed[d] : t <= sockets'[d]
      OBVIOUS
    <3>1. serverSocket[d] <= sockets[d] /\ \A t \in handed[d] : t <= sockets[d]
      BY DEF OnlyOpened
    <3>2. sockets'[d] \in Nat
      BY <2>1, <2>2
    <3> QED BY <2>2, <2>3, <3>1, <3>2
  <2>7. \A d \in Connections, t \in Sockets : handshake'[d][t] # "none" => t <= sockets'[d]
    <3> SUFFICES ASSUME NEW d \in Connections, NEW t \in Sockets, handshake'[d][t] # "none"
                 PROVE  t <= sockets'[d]
      OBVIOUS
    <3>1. CASE d = c /\ t = s
      BY <2>1, <2>5, <3>1
    <3>2. CASE ~(d = c /\ t = s)
      <4>1. t <= sockets[d]
        BY <2>4, <3>2 DEF OnlyOpened
      <4>2. sockets'[d] \in Nat
        BY <2>1, <2>2
      <4> QED BY <2>2, <2>3, <2>5, <4>1, <4>2
    <3> QED BY <3>1, <3>2
  <2>8. serverSocket' = serverSocket /\ handed' = handed
    BY <1>2 DEF serverVars
  <2> QED BY <2>6, <2>7, <2>8 DEF OnlyOpened
<1>11. Watched'
  BY <1>2, WatchedKept DEF serverVars
<1> QED BY <1>3, <1>5, <1>6, <1>7, <1>8, <1>9, <1>10, <1>11

\* The loop ends on the socket whose answer it has read.
LEMMA ReconnectedStep ==
  ASSUME IInv, NEW c \in Connections, Reconnected(c)
  PROVE  IInv'
<1> USE DEF IInv
<1>1. /\ handshake[c][clientSocket[c]] = "accepted"
      /\ handshake' = [handshake EXCEPT ![c][clientSocket[c]] = "over"]
      /\ loop' = [loop EXCEPT ![c] = "none"]
      /\ UNCHANGED <<graceOver, clientSocket, failed, permanentFailure, serverVars,
                     sockets, closed, historyVars>>
  BY DEF Reconnected, ReadAnswer
<1>2. TypeOK'
  <2>1. handshake' \in [Connections -> [Sockets -> Handshakes]]
    BY <1>1 DEF TypeOK, Handshakes
  <2> QED BY <1>1, <2>1 DEF TypeOK, Loops, serverVars, historyVars
<1>3. ClosedGrows
  BY <1>1 DEF ClosedGrows
<1>4. Counted' /\ NoneHanded' /\ FailedTogether'
  BY <1>1 DEF Counted, NoneHanded, FailedTogether, serverVars, historyVars
<1>5. TimersOnlyWhileLost'
  BY <1>1, <1>3, TimersKept DEF serverVars
<1>6. \A d \in Connections :
        handshake'[d][clientSocket[d]] = IF d = c THEN "over" ELSE handshake[d][clientSocket[d]]
  BY <1>1 DEF TypeOK
<1>7. Settled'
  BY <1>1, <1>6 DEF Settled, ClientOpen, IsOpen, TypeOK
<1>8. Answered'
  BY <1>1, <1>6 DEF Answered, ClientOpen, IsOpen, serverVars
<1>9. OldLeft' /\ Watched'
  BY <1>1, <1>3, OldLeftKept, WatchedKept DEF serverVars
<1>10. OnlyOpened'
  <2>1. clientSocket[c] <= sockets[c]
    BY <1>1 DEF OnlyOpened, TypeOK
  <2>2. \A d \in Connections, t \in Sockets :
          handshake'[d][t] = IF d = c /\ t = clientSocket[c] THEN "over" ELSE handshake[d][t]
    BY <1>1 DEF TypeOK
  <2>3. sockets' = sockets /\ serverSocket' = serverSocket /\ handed' = handed
    BY <1>1 DEF serverVars
  <2> QED BY <2>1, <2>2, <2>3 DEF OnlyOpened
<1> QED BY <1>2, <1>4, <1>5, <1>7, <1>8, <1>9, <1>10

LEMMA ClientStep ==
  ASSUME IInv, NEW c \in Connections, ClientSteps(c)
  PROVE  IInv'
<1> USE DEF IInv
<1>1. CASE ClientNoticesClose(c)
  BY <1>1, BeginReconnectingStep DEF ClientNoticesClose, networkVars, historyVars, TypeOK
<1>2. CASE ClientTimesOut(c)
  <2>1. losses' \in 0..MaxLosses
    BY <1>2, ConstantsAssumption DEF ClientTimesOut, TypeOK
  <2> QED BY <1>2, <2>1, BeginReconnectingStep DEF ClientTimesOut
<1>3. CASE WaitOver(c)
  BY <1>3, LoopStep DEF WaitOver, networkVars, historyVars, TypeOK, Loops
<1>4. CASE Connect(c)
  BY <1>4, ConnectStep
<1>5. CASE AttemptFails(c)
  <2>1. CASE TryAgain(c)
    BY <2>1, LoopStep DEF TryAgain, networkVars, historyVars, TypeOK, Loops
  <2>2. CASE PermanentFailure(c)
    BY <2>2, PermanentFailureStep
  <2> QED BY <1>5, <2>1, <2>2 DEF AttemptFails
<1>6. CASE AttemptFailsForGood(c) \/ Refused(c)
  BY <1>6, PermanentFailureStep DEF AttemptFailsForGood, Refused
<1>7. CASE GraceElapses(c)
  BY <1>7, LoopStep DEF GraceElapses, networkVars, historyVars, TypeOK
<1>8. CASE Reconnected(c)
  BY <1>8, ReconnectedStep
<1> QED BY <1>1, <1>2, <1>3, <1>4, <1>5, <1>6, <1>7, <1>8 DEF ClientSteps

(***************************************************************************)
(* The server                                                              *)
(***************************************************************************)
\* A connection moves to a socket it has been handed or asked for: its timers
\* stop, its old socket closes, and no other connection is touched.
LEMMA MoveTimers ==
  ASSUME TypeOK, TimersOnlyWhileLost, NEW c \in Connections, NEW s \in Sockets,
         NEW short \in [Connections -> BOOLEAN], MoveTo(c, s, short),
         \A d \in Connections : short[d] => ~ServerOpen(d)
  PROVE  TimersOnlyWhileLost' /\ ClosedGrows
<1>1. /\ serverSocket' = [serverSocket EXCEPT ![c] = s]
      /\ closed' = [closed EXCEPT ![c] = @ \cup {serverSocket[c]}]
      /\ runner1' = [runner1 EXCEPT ![c] = FALSE]
      /\ runner2' = [short EXCEPT ![c] = FALSE]
  BY DEF MoveTo, DropOldSocket, Close, CancelTimers
<1>2. ClosedGrows
  BY <1>1 DEF ClosedGrows, TypeOK
<1>3. TimersOnlyWhileLost'
  <2> SUFFICES ASSUME NEW d \in Connections, runner1'[d] \/ runner2'[d]
               PROVE  ~ServerOpen(d)'
    BY DEF TimersOnlyWhileLost
  <2>1. d # c
    BY <1>1 DEF TypeOK
  <2>2. ~ServerOpen(d)
    BY <1>1, <2>1 DEF TypeOK, TimersOnlyWhileLost
  <2> QED BY <1>1, <2>1, <2>2 DEF TypeOK, ServerOpen, IsOpen
<1> QED BY <1>2, <1>3

\* The close it had noticed is forgotten with the timers it had started.
LEMMA MoveWatched ==
  ASSUME TypeOK, Watched, OnlyOpened, NEW c \in Connections, NEW s \in Sockets,
         NEW short \in [Connections -> BOOLEAN], MoveTo(c, s, short),
         \A d \in Connections : (runner1[d] \/ runner2[d]) => (runner1[d] \/ short[d]),
         server' = server, sockets' = sockets, s <= sockets[c]
  PROVE  /\ Watched'
         /\ \A d \in Connections : serverSocket'[d] <= sockets'[d]
<1>1. /\ serverSocket' = [serverSocket EXCEPT ![c] = s]
      /\ reported' = [reported EXCEPT ![c] = FALSE]
      /\ runner1' = [runner1 EXCEPT ![c] = FALSE]
      /\ runner2' = [short EXCEPT ![c] = FALSE]
  BY DEF MoveTo, CancelTimers
<1>2. \A d \in Connections : serverSocket'[d] = IF d = c THEN s ELSE serverSocket[d]
  BY <1>1 DEF TypeOK
<1>3. ~reported'[c]
  BY <1>1 DEF TypeOK
<1>4. \A d \in Connections : d # c => /\ reported'[d] = reported[d]
                                     /\ runner1'[d] = runner1[d] /\ runner2'[d] = short[d]
  BY <1>1 DEF TypeOK
<1>5. Watched'
  BY <1>3, <1>4 DEF Watched
<1> QED BY <1>2, <1>5 DEF OnlyOpened

LEMMA AcceptReconnectionStep ==
  ASSUME IInv, NEW c \in Connections, NEW s \in Sockets, AcceptReconnection(c, s)
  PROVE  IInv'
<1> USE DEF IInv
<1>1. /\ handshake[c][s] = "asked" /\ server[c] # "gone"
      /\ handshake' = [handshake EXCEPT ![c][s] = "accepted"]
      /\ UNCHANGED <<clientVars, server, sockets, historyVars>>
  BY DEF AcceptReconnection
<1>2. \A d \in Connections, t \in Sockets :
        handshake'[d][t] = IF d = c /\ t = s THEN "accepted" ELSE handshake[d][t]
  BY <1>1 DEF TypeOK
<1>3. handshake' \in [Connections -> [Sockets -> Handshakes]]
  BY <1>1 DEF TypeOK, Handshakes
<1>4. Counted' /\ FailedTogether'
  BY <1>1 DEF Counted, FailedTogether, clientVars, historyVars
<1>5. s <= sockets[c] /\ sockets' = sockets /\ clientSocket' = clientSocket
  BY <1>1 DEF OnlyOpened, clientVars
<1>6. \A d \in Connections, t \in Sockets : handshake'[d][t] # "none" => t <= sockets'[d]
  BY <1>1, <1>2, <1>5 DEF OnlyOpened
<1>7. CASE c \in Fatal
  <2>1. MoveTo(c, s, Shortened) /\ handed' = handed
    BY <1>7 DEF AcceptReconnection
  <2>2. TimersOnlyWhileLost' /\ ClosedGrows
    BY <2>1, ShortTimers, MoveTimers
  <2>3. /\ serverSocket' = [serverSocket EXCEPT ![c] = s]
        /\ reported' = [reported EXCEPT ![c] = FALSE]
        /\ closed' = [closed EXCEPT ![c] = @ \cup {serverSocket[c]}]
        /\ runner1' = [runner1 EXCEPT ![c] = FALSE]
        /\ runner2' = [Shortened EXCEPT ![c] = FALSE]
    BY <2>1 DEF MoveTo, DropOldSocket, Close, CancelTimers
  <2>4. TypeOK'
    BY <1>1, <1>3, <2>1, <2>3, ShortTimers DEF TypeOK, clientVars, historyVars
  <2>5. Settled'
    BY <1>1, <1>2, <2>2 DEF Settled, ClosedGrows, ClientOpen, IsOpen, clientVars, TypeOK
  <2>6. Answered'
    BY <1>1, <1>2, <2>1, <2>3 DEF Answered, ClientOpen, IsOpen, clientVars, TypeOK
  <2>7. NoneHanded'
    BY <2>1 DEF NoneHanded
  <2>8. OldLeft'
    BY <1>5, <2>2, OldLeftKept
  <2>9. Watched' /\ \A d \in Connections : serverSocket'[d] <= sockets'[d]
    BY <1>1, <1>5, <2>1, ShortTimers, MoveWatched
  <2>10. OnlyOpened'
    BY <1>5, <1>6, <2>1, <2>9 DEF OnlyOpened
  <2> QED BY <1>4, <2>2, <2>4, <2>5, <2>6, <2>7, <2>8, <2>9, <2>10
<1>8. CASE c \notin Fatal
  <2>1. /\ handed' = [handed EXCEPT ![c] = @ \cup {s}]
        /\ runner2' = Shortened
        /\ UNCHANGED <<serverSocket, reported, runner1, closed>>
    BY <1>8 DEF AcceptReconnection
  <2>2. TypeOK'
    BY <1>1, <1>3, <2>1, ShortTimers DEF TypeOK, clientVars, historyVars
  <2>3. TimersOnlyWhileLost'
    BY <2>1, ShortTimers DEF TimersOnlyWhileLost, ServerOpen, IsOpen
  <2>4. Settled'
    BY <1>1, <1>2, <2>1 DEF Settled, ClientOpen, IsOpen, clientVars, TypeOK
  <2>5. Answered'
    BY <1>1, <1>2, <2>1 DEF Answered, ClientOpen, IsOpen, clientVars, TypeOK
  <2>6. NoneHanded'
    BY <1>8, <2>1, ConstantsAssumption DEF NoneHanded, TypeOK
  <2>7. OldLeft'
    BY <1>5, <2>1, OldLeftKept DEF ClosedGrows
  <2>8. Watched'
    BY <1>1, <2>1, ShortTimers, WatchedKept
  <2>9. \A d \in Connections : \A t \in handed'[d] : t <= sockets'[d]
    BY <1>5, <2>1 DEF OnlyOpened, TypeOK
  <2>10. OnlyOpened'
    BY <1>5, <1>6, <2>1, <2>9 DEF OnlyOpened
  <2> QED BY <1>4, <2>2, <2>3, <2>4, <2>5, <2>6, <2>7, <2>8, <2>10
<1> QED BY <1>7, <1>8

LEMMA ReceiveSocketStep ==
  ASSUME IInv, NEW c \in Connections, NEW s \in Sockets, ReceiveSocket(c, s)
  PROVE  IInv'
<1> USE DEF IInv
<1>1. /\ s \in handed[c] /\ server[c] # "gone" /\ MoveTo(c, s, runner2)
      /\ handed' = [handed EXCEPT ![c] = @ \ {s}]
      /\ UNCHANGED <<clientVars, server, sockets, handshake, historyVars>>
  BY DEF ReceiveSocket
<1>2. /\ serverSocket' = [serverSocket EXCEPT ![c] = s]
      /\ reported' = [reported EXCEPT ![c] = FALSE]
      /\ closed' = [closed EXCEPT ![c] = @ \cup {serverSocket[c]}]
      /\ runner1' = [runner1 EXCEPT ![c] = FALSE]
      /\ runner2' = [runner2 EXCEPT ![c] = FALSE]
  BY <1>1 DEF MoveTo, DropOldSocket, Close, CancelTimers
<1>3. TypeOK'
  BY <1>1, <1>2 DEF TypeOK, clientVars, historyVars
<1>4. TimersOnlyWhileLost' /\ ClosedGrows
  BY <1>1, MoveTimers DEF TypeOK, TimersOnlyWhileLost
<1>5. Counted' /\ FailedTogether' /\ NoneHanded'
  BY <1>1 DEF Counted, FailedTogether, NoneHanded, clientVars, historyVars, TypeOK
<1>6. Settled'
  BY <1>1, <1>4, SettledKept DEF clientVars
<1>7. Answered'
  BY <1>1, <1>2 DEF Answered, ClientOpen, IsOpen, clientVars, TypeOK
<1>8. sockets' = sockets /\ clientSocket' = clientSocket /\ s <= sockets[c]
  BY <1>1 DEF OnlyOpened, clientVars
<1>9. OldLeft'
  BY <1>4, <1>8, OldLeftKept
<1>10. Watched' /\ \A d \in Connections : serverSocket'[d] <= sockets'[d]
  <2>1. runner2 \in [Connections -> BOOLEAN]
    BY DEF TypeOK
  <2> QED BY <1>1, <1>8, <2>1, MoveWatched
<1>11. \A d \in Connections : handed'[d] \subseteq handed[d]
  BY <1>1 DEF TypeOK
<1>12. OnlyOpened'
  BY <1>1, <1>8, <1>10, <1>11 DEF OnlyOpened
<1> QED BY <1>3, <1>4, <1>5, <1>6, <1>7, <1>9, <1>10, <1>12

LEMMA RefuseReconnectionStep ==
  ASSUME IInv, NEW c \in Connections, NEW s \in Sockets, RefuseReconnection(c, s)
  PROVE  IInv'
<1> USE DEF IInv
<1>1. /\ handshake[c][s] = "asked"
      /\ handshake' = [handshake EXCEPT ![c][s] = "refused"]
      /\ runner2' = Shortened
      /\ UNCHANGED <<clientVars, server, serverSocket, reported, handed, runner1, sockets,
                     closed, historyVars>>
  BY DEF RefuseReconnection
<1>2. \A d \in Connections, t \in Sockets :
        handshake'[d][t] = IF d = c /\ t = s THEN "refused" ELSE handshake[d][t]
  BY <1>1 DEF TypeOK
<1>3. TypeOK'
  <2>1. handshake' \in [Connections -> [Sockets -> Handshakes]]
    BY <1>1 DEF TypeOK, Handshakes
  <2> QED BY <1>1, <2>1, ShortTimers DEF TypeOK, clientVars, historyVars
<1>4. TimersOnlyWhileLost'
  BY <1>1, ShortTimers DEF TimersOnlyWhileLost, ServerOpen, IsOpen
<1>5. Counted' /\ FailedTogether' /\ NoneHanded'
  BY <1>1 DEF Counted, FailedTogether, NoneHanded, clientVars, historyVars
<1>6. Settled' /\ Answered'
  BY <1>1, <1>2 DEF Settled, Answered, ClientOpen, IsOpen, clientVars, TypeOK
<1>7. OldLeft'
  BY <1>1, OldLeftKept DEF ClosedGrows, clientVars
<1>8. Watched'
  BY <1>1, ShortTimers, WatchedKept
<1>9. OnlyOpened'
  BY <1>1, <1>2 DEF OnlyOpened
<1> QED BY <1>3, <1>4, <1>5, <1>6, <1>7, <1>8, <1>9

\* Only a connection whose socket is closed already can be let go of.
LEMMA TimerFiresStep ==
  ASSUME IInv, NEW c \in Connections, TimerFires(c)
  PROVE  IInv'
<1> USE DEF IInv
<1>1. /\ runner1' = [runner1 EXCEPT ![c] = FALSE] /\ runner2' = [runner2 EXCEPT ![c] = FALSE]
      /\ server' = [server EXCEPT ![c] = IF c \in Fatal THEN "gone" ELSE "ending"]
      /\ closed' = [closed EXCEPT ![c] = @ \cup {serverSocket[c]}]
      /\ UNCHANGED <<clientVars, serverSocket, reported, handed, sockets, handshake, historyVars>>
  BY DEF TimerFires, Close
<1>2. TypeOK'
  BY <1>1 DEF TypeOK, Servers, clientVars, historyVars
<1>3. ClosedGrows
  BY <1>1 DEF ClosedGrows, TypeOK
<1>4. Counted' /\ FailedTogether' /\ NoneHanded'
  BY <1>1 DEF Counted, FailedTogether, NoneHanded, clientVars, historyVars
<1>5. TimersOnlyWhileLost'
  BY <1>1 DEF TimersOnlyWhileLost, ServerOpen, IsOpen, TypeOK
<1>6. Settled'
  BY <1>1, <1>3, SettledKept DEF clientVars
<1>7. Answered'
  BY <1>1 DEF Answered, NoneHanded, ClientOpen, IsOpen, clientVars, TypeOK
<1>8. OldLeft' /\ OnlyOpened'
  BY <1>1, <1>3, OldLeftKept, OnlyOpenedKept DEF clientVars
<1>9. Watched'
  <2>1. server'[c] # "there"
    BY <1>1 DEF TypeOK
  <2>2. \A d \in Connections : d # c => /\ server'[d] = server[d] /\ reported'[d] = reported[d]
                                       /\ runner1'[d] = runner1[d] /\ runner2'[d] = runner2[d]
    BY <1>1 DEF TypeOK
  <2> QED BY <2>1, <2>2 DEF Watched
<1> QED BY <1>2, <1>4, <1>5, <1>6, <1>7, <1>8, <1>9

LEMMA HostExitsStep ==
  ASSUME IInv, NEW c \in Connections, HostExits(c)
  PROVE  IInv'
<1> USE DEF IInv
<1>1. /\ server' = [server EXCEPT ![c] = "gone"]
      /\ closed' = [closed EXCEPT ![c] = @ \cup {serverSocket[c]} \cup handed[c]]
      /\ handed' = [handed EXCEPT ![c] = {}]
      /\ UNCHANGED <<clientVars, serverSocket, reported, runner1, runner2, sockets, handshake, historyVars>>
  BY DEF HostExits
<1>2. TypeOK'
  BY <1>1 DEF TypeOK, Servers, clientVars, historyVars
<1>3. ClosedGrows
  BY <1>1 DEF ClosedGrows, TypeOK
<1>4. Counted' /\ FailedTogether' /\ NoneHanded'
  BY <1>1 DEF Counted, FailedTogether, NoneHanded, clientVars, historyVars, TypeOK
<1>5. TimersOnlyWhileLost'
  BY <1>1, <1>3, TimersKept
<1>6. Settled'
  BY <1>1, <1>3, SettledKept DEF clientVars
<1>7. Answered'
  BY <1>1 DEF Answered, ClientOpen, IsOpen, clientVars, TypeOK
<1>8. OldLeft'
  BY <1>1, <1>3, OldLeftKept DEF clientVars
<1>9. OnlyOpened'
  <2>1. \A d \in Connections : handed'[d] \subseteq handed[d]
    BY <1>1 DEF TypeOK
  <2> QED BY <1>1, <2>1 DEF OnlyOpened
<1>10. Watched'
  <2>1. server'[c] # "there" /\ \A d \in Connections : d # c => server'[d] = server[d]
    BY <1>1 DEF TypeOK
  <2> QED BY <1>1, <2>1 DEF Watched
<1> QED BY <1>2, <1>4, <1>5, <1>6, <1>7, <1>8, <1>9, <1>10

LEMMA ServerNoticesCloseStep ==
  ASSUME IInv, NEW c \in Connections, ServerNoticesClose(c)
  PROVE  IInv'
<1> USE DEF IInv
<1>1. /\ ~ServerOpen(c)
      /\ reported' = [reported EXCEPT ![c] = TRUE]
      /\ runner1' = [runner1 EXCEPT ![c] = TRUE]
      /\ UNCHANGED <<clientVars, server, serverSocket, handed, runner2, networkVars>>
  BY DEF ServerNoticesClose
<1>2. TypeOK'
  BY <1>1 DEF TypeOK, clientVars, networkVars, historyVars
<1>3. ClosedGrows
  BY <1>1 DEF ClosedGrows, networkVars
<1>4. Counted' /\ FailedTogether' /\ NoneHanded'
  BY <1>1 DEF Counted, FailedTogether, NoneHanded, clientVars, networkVars, historyVars
<1>5. TimersOnlyWhileLost'
  BY <1>1 DEF TimersOnlyWhileLost, ServerOpen, IsOpen, TypeOK, networkVars
<1>6. Settled' /\ Answered'
  BY <1>1, <1>3, SettledKept, AnsweredKept DEF clientVars, networkVars
<1>7. OldLeft' /\ OnlyOpened'
  BY <1>1, <1>3, OldLeftKept, OnlyOpenedKept DEF clientVars, networkVars
<1>8. Watched'
  <2>1. runner1'[c]
    BY <1>1 DEF TypeOK
  <2>2. \A d \in Connections : d # c => reported'[d] = reported[d] /\ runner1'[d] = runner1[d]
    BY <1>1 DEF TypeOK
  <2> QED BY <1>1, <2>1, <2>2 DEF Watched
<1> QED BY <1>2, <1>4, <1>5, <1>6, <1>7, <1>8

LEMMA OtherClientConnectsStep ==
  ASSUME IInv, OtherClientConnects
  PROVE  IInv'
<1> USE DEF IInv
<1>1. /\ runner2' = Shortened
      /\ UNCHANGED <<clientVars, server, serverSocket, reported, handed, runner1, networkVars>>
  BY DEF OtherClientConnects
<1>2. TypeOK'
  BY <1>1, ShortTimers DEF TypeOK, clientVars, networkVars, historyVars
<1>3. ClosedGrows
  BY <1>1 DEF ClosedGrows, networkVars
<1>4. Counted' /\ FailedTogether' /\ NoneHanded'
  BY <1>1 DEF Counted, FailedTogether, NoneHanded, clientVars, networkVars, historyVars
<1>5. TimersOnlyWhileLost'
  BY <1>1, ShortTimers DEF TimersOnlyWhileLost, ServerOpen, IsOpen, networkVars
<1>6. Settled' /\ Answered'
  BY <1>1, <1>3, SettledKept, AnsweredKept DEF clientVars, networkVars
<1>7. OldLeft' /\ OnlyOpened' /\ Watched'
  BY <1>1, <1>3, ShortTimers, OldLeftKept, OnlyOpenedKept, WatchedKept DEF clientVars, networkVars
<1> QED BY <1>2, <1>4, <1>5, <1>6, <1>7

LEMMA LoseStep ==
  ASSUME IInv, NEW c \in Connections, Lose(c)
  PROVE  IInv'
<1> USE DEF IInv
<1>1. /\ closed' = [closed EXCEPT ![c] = @ \cup {clientSocket[c]}]
      /\ losses < MaxLosses /\ losses' = losses + 1
      /\ UNCHANGED <<clientVars, serverVars, sockets, handshake, attempts>>
  BY DEF Lose, Close
<1>2. TypeOK'
  <2>1. losses' \in 0..MaxLosses
    BY <1>1, ConstantsAssumption DEF TypeOK
  <2> QED BY <1>1, <2>1 DEF TypeOK, clientVars, serverVars
<1>3. ClosedGrows
  BY <1>1 DEF ClosedGrows, TypeOK
<1>4. Counted' /\ FailedTogether' /\ NoneHanded'
  BY <1>1 DEF Counted, FailedTogether, NoneHanded, clientVars, serverVars
<1>5. TimersOnlyWhileLost'
  BY <1>1, <1>3, TimersKept DEF serverVars
<1>6. Settled' /\ Answered'
  BY <1>1, <1>3, SettledKept, AnsweredKept DEF clientVars, serverVars
<1>7. OldLeft' /\ OnlyOpened' /\ Watched'
  BY <1>1, <1>3, OldLeftKept, OnlyOpenedKept, WatchedKept DEF clientVars, serverVars
<1> QED BY <1>2, <1>4, <1>5, <1>6, <1>7

(***************************************************************************)
(* The theorems                                                            *)
(***************************************************************************)
LEMMA InitStep == Init => IInv
<1> SUFFICES ASSUME Init PROVE IInv
  OBVIOUS
<1>1. 1 \in Sockets /\ Sockets \subseteq Nat
  BY ConstantsAssumption DEF Sockets
<1>2. TypeOK
  <2>1. /\ handshake \in [Connections -> [Sockets -> Handshakes]]
        /\ loop \in [Connections -> Loops] /\ server \in [Connections -> Servers]
    BY DEF Init, Handshakes, Loops, Servers
  <2>2. /\ clientSocket \in [Connections -> Sockets] /\ serverSocket \in [Connections -> Sockets]
        /\ sockets \in [Connections -> Sockets]
        /\ closed \in [Connections -> SUBSET Sockets] /\ handed \in [Connections -> SUBSET Sockets]
    BY <1>1 DEF Init
  <2>3. /\ graceOver \in [Connections -> BOOLEAN] /\ failed \in [Connections -> BOOLEAN]
        /\ reported \in [Connections -> BOOLEAN]
        /\ runner1 \in [Connections -> BOOLEAN] /\ runner2 \in [Connections -> BOOLEAN]
        /\ permanentFailure \in BOOLEAN
    BY DEF Init
  <2>4. attempts \in 0..MaxAttempts /\ losses \in 0..MaxLosses
    BY ConstantsAssumption DEF Init
  <2> QED BY <2>1, <2>2, <2>3, <2>4 DEF TypeOK
<1>3. Counted /\ FailedTogether /\ NoneHanded
  BY ConstantsAssumption DEF Init, Counted, FailedTogether, NoneHanded
<1>4. TimersOnlyWhileLost
  BY DEF Init, TimersOnlyWhileLost
<1>5. Settled /\ Answered
  BY <1>1 DEF Init, Settled, Answered
<1>6. OldLeft /\ OnlyOpened /\ Watched
  BY <1>1 DEF Init, OldLeft, OnlyOpened, Watched, Sockets
<1> QED BY <1>2, <1>3, <1>4, <1>5, <1>6 DEF IInv

LEMMA NextStep == IInv /\ [Next]_vars => IInv'
<1> SUFFICES ASSUME IInv, [Next]_vars PROVE IInv'
  OBVIOUS
<1>1. CASE \E c \in Connections : ClientSteps(c)
  BY <1>1, ClientStep
<1>2. ASSUME NEW c \in Connections, ServerSteps(c) PROVE IInv'
  BY <1>2, ServerNoticesCloseStep, TimerFiresStep, HostExitsStep, AcceptReconnectionStep,
     RefuseReconnectionStep, ReceiveSocketStep DEF ServerSteps
<1>3. CASE \E c \in Connections : Lose(c)
  BY <1>3, LoseStep
<1>4. CASE InitialConnectionFails
  BY <1>4, GiveUpStep DEF InitialConnectionFails, IInv, TypeOK
<1>5. CASE OtherClientConnects
  BY <1>5, OtherClientConnectsStep
<1>6. CASE UNCHANGED vars
  BY <1>6 DEF vars, clientVars, serverVars, networkVars, historyVars, IInv, TypeOK, Counted,
     TimersOnlyWhileLost, FailedTogether, Settled, Answered, NoneHanded, OldLeft, OnlyOpened,
     Watched, ClientOpen, ServerOpen, IsOpen
<1> QED BY <1>1, <1>2, <1>3, <1>4, <1>5, <1>6 DEF Next

\* The inductive invariant holds in every reachable state.
THEOREM Invariance == Spec => []IInv
BY InitStep, NextStep, PTL DEF Spec

\* Every variable keeps its type; a connection never opens more sockets than
\* there are attempts.
THEOREM TypeCorrect == Spec => []TypeOK
<1>1. IInv => TypeOK
  BY DEF IInv
<1> QED BY <1>1, Invariance, PTL

\* The server's grace timers, long or shortened by other clients, run only
\* while the socket of their connection is closed, so that no connection in use
\* is ever disposed of (ManagementConnection, extensionHostProcess.ts).
THEOREM NoTimerInUse == Spec => []TimersOnlyWhileLost
<1>1. IInv => TimersOnlyWhileLost
  BY DEF IInv
<1> QED BY <1>1, Invariance, PTL

\* A connection the window takes to be up, on an open socket, has the server,
\* or the socket on its way to the host's process, at the other end, whichever
\* attempts were left and whenever their handshakes were finished
\* (_runReconnectingLoop, acceptReconnection).
THEOREM OneSocket == Spec => []BothOnOneSocket
<1>1. IInv => BothOnOneSocket
  BY DEF IInv, Settled, Answered, BothOnOneSocket
<1> QED BY <1>1, Invariance, PTL

\* No connection of the server's is forgotten: while it is there, its open
\* socket is the window's own, and a closed one is still to be noticed or has a
\* grace timer running that will end it (acceptReconnection, _cleanResources).
THEOREM ServerForgetsNone == Spec => []NoneForgotten
<1>1. ASSUME IInv, NEW c \in Connections, server[c] = "there", ServerOpen(c)
      PROVE  serverSocket[c] = clientSocket[c]
  <2>1. serverSocket[c] \in Sockets /\ serverSocket[c] \in Nat /\ sockets[c] \in Nat
    BY <1>1 DEF IInv, TypeOK, Sockets
  <2>2. ~(serverSocket[c] < sockets[c])
    BY <1>1, <2>1 DEF IInv, OldLeft, ServerOpen, IsOpen
  <2>3. serverSocket[c] <= sockets[c] /\ clientSocket[c] = sockets[c]
    BY <1>1 DEF IInv, OldLeft, OnlyOpened
  <2> QED BY <2>1, <2>2, <2>3
<1>2. IInv => NoneForgotten
  BY <1>1 DEF IInv, Watched, NoneForgotten
<1> QED BY <1>2, Invariance, PTL
=============================================================================
