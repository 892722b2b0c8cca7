-------------------------- MODULE RemoteConnection --------------------------
(***************************************************************************)
(* How the connections of a window to a remote server are kept, lost, taken *)
(* up again and given up, above PersistentProtocol.  In the window every    *)
(* connection has a PersistentConnection with its reconnection loop         *)
(* (platform/remote); a connection in Fatal, the management connection,     *)
(* takes all others with it when it fails for good.  In the server every    *)
(* connection waits with two timers for a client it has lost: the grace     *)
(* time and, once some client has connected since, a shorter one.           *)
(*                                                                         *)
(* Each connection has a row of sockets, numbered as the window opens them. *)
(* The network may close the socket in use at any time; what was sent       *)
(* before may still arrive.  How long a timer takes is left open.           *)
(***************************************************************************)
EXTENDS Naturals

CONSTANTS
  Connections,
  Fatal,         \* those with _reconnectionFailureIsFatal
  MaxAttempts,   \* bound: sockets opened to reconnect, by all connections
  MaxLosses      \* bound: sockets the network closes, and false time-outs

ASSUME ConstantsAssumption ==
  /\ Fatal \subseteq Connections
  /\ MaxAttempts \in Nat /\ MaxLosses \in Nat

VARIABLES
  (* the window *)
  loop,              \* where _runReconnectingLoop() of a connection is
  graceOver,         \* the loop has run for the grace time
  clientSocket,      \* the socket of the window's protocol
  failed,            \* ReconnectionPermanentFailure fired, protocol disposed
  permanentFailure,  \* PersistentConnection._permanentFailure
  (* the server *)
  server,            \* what the server has for the connection
  serverSocket,      \* the socket of the server's protocol
  reported,          \* onSocketClose has fired for that socket
  handed,            \* sockets on their way to the host's process
  runner1, runner2,  \* _disconnectRunner1 and 2 are scheduled
  (* the network *)
  sockets,           \* how many sockets were opened
  closed,            \* which of them are closed
  handshake,         \* how far the handshake on each socket is
  attempts, losses   \* history

clientVars == <<loop, graceOver, clientSocket, failed, permanentFailure>>
serverVars == <<server, serverSocket, reported, handed, runner1, runner2>>
historyVars == <<attempts, losses>>
networkVars == <<sockets, closed, handshake, historyVars>>
vars == <<clientVars, serverVars, networkVars>>

Sockets == 1..MaxAttempts + 1
Loops == {"none", "waiting", "connecting", "handshaking"}
\* A host process that ends by its timer is still known for a while: "ending".
Servers == {"there", "ending", "gone"}
\* asked: the connection type was sent; over: the answer was read.
Handshakes == {"none", "asked", "accepted", "refused", "over"}

IsOpen(c, s) == s \notin closed[c]
ClientOpen(c) == IsOpen(c, clientSocket[c])
ServerOpen(c) == IsOpen(c, serverSocket[c])

TypeOK ==
  /\ loop \in [Connections -> Loops]
  /\ graceOver \in [Connections -> BOOLEAN]
  /\ clientSocket \in [Connections -> Sockets]
  /\ failed \in [Connections -> BOOLEAN] /\ permanentFailure \in BOOLEAN
  /\ server \in [Connections -> Servers]
  /\ serverSocket \in [Connections -> Sockets]
  /\ reported \in [Connections -> BOOLEAN]
  /\ handed \in [Connections -> SUBSET Sockets]
  /\ runner1 \in [Connections -> BOOLEAN] /\ runner2 \in [Connections -> BOOLEAN]
  /\ sockets \in [Connections -> Sockets]
  /\ closed \in [Connections -> SUBSET Sockets]
  /\ handshake \in [Connections -> [Sockets -> Handshakes]]
  /\ attempts \in 0..MaxAttempts /\ losses \in 0..MaxLosses

\* Every connection is up.
Init ==
  /\ loop = [c \in Connections |-> "none"]
  /\ graceOver = [c \in Connections |-> FALSE]
  /\ clientSocket = [c \in Connections |-> 1]
  /\ failed = [c \in Connections |-> FALSE] /\ permanentFailure = FALSE
  /\ server = [c \in Connections |-> "there"]
  /\ serverSocket = [c \in Connections |-> 1]
  /\ reported = [c \in Connections |-> FALSE]
  /\ handed = [c \in Connections |-> {}]
  /\ runner1 = [c \in Connections |-> FALSE] /\ runner2 = [c \in Connections |-> FALSE]
  /\ sockets = [c \in Connections |-> 1]
  /\ closed = [c \in Connections |-> {}]
  /\ handshake = [c \in Connections |-> [s \in Sockets |-> IF s = 1 THEN "over" ELSE "none"]]
  /\ attempts = 0 /\ losses = 0

(***************************************************************************)
(* The window                                                              *)
(***************************************************************************)
Close(c, s) == closed' = [closed EXCEPT ![c] = @ \cup {s}]

\* _beginReconnecting(): one loop at a time, none after a permanent failure.
\* The first attempt does not wait.
BeginReconnecting(c) ==
  /\ loop[c] = "none"
  /\ IF permanentFailure
       THEN UNCHANGED <<loop, graceOver>>
       ELSE /\ loop' = [loop EXCEPT ![c] = "connecting"]
            /\ graceOver' = [graceOver EXCEPT ![c] = FALSE]
  /\ UNCHANGED <<clientSocket, failed, permanentFailure, serverVars>>

\* The close event of the socket or, when it came while the loop ran and was
\* dropped (_isReconnecting), the time-out of a socket on which no data comes:
\* the keep-alive timer checks that for as long as there is a connection.
\* Either handler begins the loop.
ClientNoticesClose(c) ==
  /\ ~failed[c] /\ ~ClientOpen(c)
  /\ BeginReconnecting(c)
  /\ UNCHANGED networkVars

\* onSocketTimeout of a socket that may be as good as ever.
ClientTimesOut(c) ==
  /\ ~failed[c] /\ ClientOpen(c) /\ losses < MaxLosses
  /\ BeginReconnecting(c)
  /\ losses' = losses + 1
  /\ UNCHANGED <<sockets, closed, handshake, attempts>>

\* The wait between two attempts is over.
WaitOver(c) ==
  /\ loop[c] = "waiting"
  /\ loop' = [loop EXCEPT ![c] = IF permanentFailure THEN "none" ELSE "connecting"]
  /\ UNCHANGED <<graceOver, clientSocket, failed, permanentFailure, serverVars, networkVars>>

\* A socket could be opened: beginAcceptReconnection() moves the protocol to it
\* and disposes of the old one; the handshake's messages go out.
Connect(c) ==
  /\ loop[c] = "connecting" /\ attempts < MaxAttempts
  /\ LET s == sockets[c] + 1
     IN /\ sockets' = [sockets EXCEPT ![c] = s]
        /\ clientSocket' = [clientSocket EXCEPT ![c] = s]
        /\ handshake' = [handshake EXCEPT ![c][s] = "asked"]
  /\ attempts' = attempts + 1
  /\ Close(c, clientSocket[c])
  /\ loop' = [loop EXCEPT ![c] = "handshaking"]
  /\ UNCHANGED <<graceOver, failed, permanentFailure, serverVars, losses>>

\* _onReconnectionPermanentFailure(): whom the failure of c concerns.
FailsWith(c) == IF c \in Fatal THEN Connections ELSE {c}

\* _gotoPermanentFailure() of all of C: the protocol and its socket are disposed of.
GiveUp(C) ==
  /\ failed' = [c \in Connections |-> failed[c] \/ c \in C]
  /\ closed' = [c \in Connections |->
                  IF c \in C THEN closed[c] \cup {clientSocket[c]} ELSE closed[c]]
  /\ UNCHANGED <<clientSocket, graceOver, serverVars, sockets, handshake, historyVars>>

PermanentFailure(c) ==
  /\ GiveUp(FailsWith(c))
  /\ permanentFailure' = (permanentFailure \/ c \in Fatal)
  /\ loop' = [loop EXCEPT ![c] = "none"]

\* Mutant: an error after the grace time is taken for one that will pass.
RetryFor(c) == TRUE

\* An error that may pass is reason to try again before the grace time is over.
MayRetry(c) == ~graceOver[c]

\* The next round of the loop, which ends when all has failed meanwhile.
TryAgain(c) ==
  /\ MayRetry(c)
  /\ loop' = [loop EXCEPT ![c] = IF permanentFailure THEN "none" ELSE "waiting"]
  /\ UNCHANGED <<graceOver, clientSocket, failed, permanentFailure, serverVars, networkVars>>

\* No address, no socket, or the handshake timed out.
AttemptFails(c) ==
  /\ loop[c] \in {"connecting", "handshaking"}
  /\ TryAgain(c) \/ (~MayRetry(c) /\ PermanentFailure(c))

\* An unknown error, or an address that cannot be resolved: given up at once.
AttemptFailsForGood(c) == loop[c] \in {"connecting", "handshaking"} /\ PermanentFailure(c)

GraceElapses(c) ==
  /\ loop[c] # "none" /\ ~graceOver[c]
  /\ graceOver' = [graceOver EXCEPT ![c] = TRUE]
  /\ UNCHANGED <<loop, clientSocket, failed, permanentFailure, serverVars, networkVars>>

ReadAnswer(c, answer) ==
  loop[c] = "handshaking" /\ handshake[c][clientSocket[c]] = answer

\* endAcceptReconnection(), ConnectionGain, and the loop ends.
Reconnected(c) ==
  /\ ReadAnswer(c, "accepted")
  /\ handshake' = [handshake EXCEPT ![c][clientSocket[c]] = "over"]
  /\ loop' = [loop EXCEPT ![c] = "none"]
  /\ UNCHANGED <<graceOver, clientSocket, failed, permanentFailure, serverVars,
                 sockets, closed, historyVars>>

\* VSCODE_CONNECTION_ERROR: the server does not know the token any more.
Refused(c) == ReadAnswer(c, "refused") /\ PermanentFailure(c)

\* createInitialConnection(): another connection could not be made in five attempts.
InitialConnectionFails ==
  /\ ~permanentFailure
  /\ permanentFailure' = TRUE
  /\ GiveUp(Connections)
  /\ UNCHANGED loop

(***************************************************************************)
(* The server                                                              *)
(***************************************************************************)
\* onSocketClose: wait for the client to come back.
ServerNoticesClose(c) ==
  /\ server[c] = "there" /\ ~ServerOpen(c) /\ ~reported[c]
  /\ reported' = [reported EXCEPT ![c] = TRUE]
  /\ runner1' = [runner1 EXCEPT ![c] = TRUE]
  /\ UNCHANGED <<clientVars, server, serverSocket, handed, runner2, networkVars>>

\* shortenReconnectionGraceTimeIfNecessary() of all connections: every client
\* that connects sets the short timer where the long one runs.
Shortened == [d \in Connections |-> runner2[d] \/ runner1[d]]

\* Mutant: the short timer goes on when the client is back.
CancelLongTimer(c, short) ==
  /\ runner1' = [runner1 EXCEPT ![c] = FALSE]
  /\ runner2' = short

\* Mutant: a client that is back stops the timers of all.
CancelAllTimers(c, short) ==
  /\ runner1' = [d \in Connections |-> FALSE]
  /\ runner2' = [d \in Connections |-> FALSE]

CancelTimers(c, short) ==
  /\ runner1' = [runner1 EXCEPT ![c] = FALSE]
  /\ runner2' = [short EXCEPT ![c] = FALSE]

\* Mutant: the server leaves its old socket open.
KeepOldSocket(c, s) == UNCHANGED closed

\* beginAcceptReconnection() disposes of the old socket.
DropOldSocket(c, s) == Close(c, serverSocket[c])

\* Mutant: the close of the next socket is not listened for once one was noticed.
MoveUnwatched(c, s, short) ==
  /\ serverSocket' = [serverSocket EXCEPT ![c] = s]
  /\ UNCHANGED reported
  /\ DropOldSocket(c, s)
  /\ CancelTimers(c, short)

\* acceptReconnection(): the connection moves to the socket, also when the
\* window has left it meanwhile.
MoveTo(c, s, short) ==
  /\ serverSocket' = [serverSocket EXCEPT ![c] = s]
  /\ reported' = [reported EXCEPT ![c] = FALSE]
  /\ DropOldSocket(c, s)
  /\ CancelTimers(c, short)

\* The handshake's last message arrives.  The host's process is sent the socket.
AcceptReconnection(c, s) ==
  /\ handshake[c][s] = "asked" /\ server[c] # "gone"
  /\ handshake' = [handshake EXCEPT ![c][s] = "accepted"]
  /\ IF c \in Fatal
       THEN MoveTo(c, s, Shortened) /\ UNCHANGED handed
       ELSE /\ handed' = [handed EXCEPT ![c] = @ \cup {s}]
            /\ runner2' = Shortened
            /\ UNCHANGED <<serverSocket, reported, runner1, closed>>
  /\ UNCHANGED <<clientVars, server, sockets, historyVars>>

\* VSCODE_EXTHOST_IPC_SOCKET: in the order the sockets have drained.
ReceiveSocket(c, s) ==
  /\ s \in handed[c] /\ server[c] # "gone"
  /\ handed' = [handed EXCEPT ![c] = @ \ {s}]
  /\ MoveTo(c, s, runner2)
  /\ UNCHANGED <<clientVars, server, sockets, handshake, historyVars>>

\* Unknown reconnection token (seen before).
RefuseReconnection(c, s) ==
  /\ handshake[c][s] = "asked" /\ server[c] = "gone"
  /\ handshake' = [handshake EXCEPT ![c][s] = "refused"]
  /\ runner2' = Shortened
  /\ UNCHANGED <<clientVars, server, serverSocket, reported, handed, runner1, sockets, closed, historyVars>>

\* Another window connects: its handshake shortens the wait of these connections.
OtherClientConnects ==
  /\ \E c \in Connections : runner1[c] /\ ~runner2[c]
  /\ runner2' = Shortened
  /\ UNCHANGED <<clientVars, server, serverSocket, reported, handed, runner1, networkVars>>

\* One of the two timers: the management connection goes at once, the host's
\* process says good-bye to its extensions first.
TimerFires(c) ==
  /\ runner1[c] \/ runner2[c]
  /\ runner1' = [runner1 EXCEPT ![c] = FALSE]
  /\ runner2' = [runner2 EXCEPT ![c] = FALSE]
  /\ server' = [server EXCEPT ![c] = IF c \in Fatal THEN "gone" ELSE "ending"]
  /\ Close(c, serverSocket[c])
  /\ UNCHANGED <<clientVars, serverSocket, reported, handed, sockets, handshake, historyVars>>

\* The host's process exits, and with it the sockets it has or was sent.
HostExits(c) ==
  /\ server[c] = "ending"
  /\ server' = [server EXCEPT ![c] = "gone"]
  /\ closed' = [closed EXCEPT ![c] = @ \cup {serverSocket[c]} \cup handed[c]]
  /\ handed' = [handed EXCEPT ![c] = {}]
  /\ UNCHANGED <<clientVars, serverSocket, reported, runner1, runner2, sockets, handshake, historyVars>>

\* The network closes a socket in use.
Lose(c) ==
  /\ losses < MaxLosses /\ ClientOpen(c)
  /\ Close(c, clientSocket[c])
  /\ losses' = losses + 1
  /\ UNCHANGED <<clientVars, serverVars, sockets, handshake, attempts>>

-----------------------------------------------------------------------------
ClientSteps(c) ==
  \/ ClientNoticesClose(c) \/ ClientTimesOut(c) \/ WaitOver(c) \/ Connect(c)
  \/ AttemptFails(c) \/ AttemptFailsForGood(c) \/ GraceElapses(c)
  \/ Reconnected(c) \/ Refused(c)

ServerSteps(c) ==
  \/ ServerNoticesClose(c) \/ TimerFires(c) \/ HostExits(c)
  \/ \E s \in Sockets : AcceptReconnection(c, s) \/ RefuseReconnection(c, s) \/ ReceiveSocket(c, s)

Next ==
  \/ \E c \in Connections : ClientSteps(c) \/ ServerSteps(c) \/ Lose(c)
  \/ InitialConnectionFails
  \/ OtherClientConnects

\* Both ends learn of a closed socket, by its event or as no data comes, the
\* timers run out, an attempt ends, its answer is read while the socket is open,
\* and a host that is told to end exits.  Connecting and the handshake have a
\* time limit (RECONNECT_TIMEOUT); that the resolver answers when asked for the
\* address, which is awaited before that limit is set, is assumed.  Nothing says
\* that an attempt succeeds.
Fairness ==
  \A c \in Connections :
    /\ WF_vars(ClientNoticesClose(c)) /\ WF_vars(WaitOver(c))
    /\ WF_vars(GraceElapses(c))
    /\ WF_vars(loop[c] \in {"connecting", "handshaking"} /\ ClientSteps(c) /\ loop'[c] # loop[c])
    /\ WF_vars(ServerNoticesClose(c)) /\ WF_vars(TimerFires(c)) /\ WF_vars(HostExits(c))

Spec == Init /\ [][Next]_vars /\ Fairness

-----------------------------------------------------------------------------
\* A timer of the server runs only while the client is away: no connection in
\* use is ever disposed of, however reconnections, timers and the handshakes of
\* other clients cross (shortenReconnectionGraceTimeIfNecessary and
\* acceptReconnection).
TimersOnlyWhileLost ==
  \A c \in Connections : (runner1[c] \/ runner2[c]) => ~ServerOpen(c)

\* A window that takes its connection to be up, on a socket that is open, has
\* the server on the same socket, or that socket on its way to the host: a late
\* handshake on a socket the window has left, or two sockets handed over in the
\* wrong order, do not take the connection away unnoticed.
BothOnOneSocket ==
  \A c \in Connections :
    (~failed[c] /\ loop[c] = "none" /\ ClientOpen(c)) =>
      /\ serverSocket[c] = clientSocket[c] \/ clientSocket[c] \in handed[c]
      /\ server[c] # "gone"

\* The server has no connection nobody will ever end: an open socket of its is
\* the one the window is on, whose loss the window will see, and a closed one
\* is still to be noticed or has a timer running, however late handshakes,
\* sockets handed over out of order and the timers of other clients cross
\* (acceptReconnection, shortenReconnectionGraceTimeIfNecessary).
NoneForgotten ==
  \A c \in Connections :
    server[c] = "there" =>
      IF ServerOpen(c) THEN serverSocket[c] = clientSocket[c]
      ELSE ~reported[c] \/ runner1[c] \/ runner2[c]

\* A connection that is lost is taken up again or given up, whatever sockets are
\* lost while the loop runs, attempts fail, and other connections give up.
BackOrGivenUp ==
  \A c \in Connections :
    ~ClientOpen(c) ~> ((loop[c] = "none" /\ ClientOpen(c)) \/ failed[c])

\* What the window has left for good the server lets go of as well.
ServerLetsGo ==
  \A c \in Connections :
    (failed[c] /\ loop[c] = "none" /\ ~ClientOpen(c)) ~> server[c] = "gone"

=============================================================================
