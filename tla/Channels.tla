------------------------------ MODULE Channels ------------------------------
(***************************************************************************)
(* Calls and events over one connection: a ChannelClient and a             *)
(* ChannelServer (base/parts/ipc/common/ipc.ts).  The client numbers its    *)
(* requests and keeps a handler for each; the server looks the channel up,  *)
(* runs the call or subscribes to the event, and sends what comes of it.    *)
(* A request for a channel that is not registered yet is kept, with a timer *)
(* that answers it with an error, until registerChannel() flushes it.       *)
(*                                                                         *)
(* The connection loses nothing and keeps the order in both directions,     *)
(* which is what FifoChannel promises and PersistentProtocol implements.    *)
(* A request stands for its id; all requests are for one channel, as two    *)
(* channels share nothing but the connection.                               *)
(***************************************************************************)
EXTENDS Naturals, Sequences, FiniteSets, SequencesExt

CONSTANTS
  Calls,        \* requestPromise()
  Listens,      \* requestEvent(): the emitters that getChannel().listen() made
  MaxListens    \* bound: how often an emitter gets a first listener

ASSUME ConstantsAssumption ==
  /\ IsFiniteSet(Calls) /\ IsFiniteSet(Listens)
  /\ Calls \cap Listens = {}
  /\ MaxListens \in Nat

VARIABLES
  (* the client *)
  initialized,     \* state = Idle
  isDisposed,
  calls,           \* what has become of each call, for its caller
  listening,       \* what has become of each emitter
  handlers,        \* ids with a handler
  (* the connection *)
  toServer, toClient,
  (* the server *)
  registered,      \* the channel is there
  flushDue,        \* setTimeout(flushPendingRequests)
  pending,         \* _pendingRequests of the channel
  timers,          \* calls in pending whose timer has not fired
  running,         \* channel.call() has not settled
  cancelled,       \* the token of the call is cancelled
  active,          \* emitters in activeRequests
  subscriptions,   \* how often the event is subscribed to for each emitter
  serverDisposed,
  (* history *)
  executions,      \* how often each call was run
  late,            \* requests that were kept for the channel
  listens

clientVars == <<initialized, isDisposed, calls, listening, handlers>>
serverVars == <<registered, flushDue, pending, timers, running, cancelled, active,
                subscriptions, serverDisposed, executions, late>>
vars == <<clientVars, toServer, toClient, serverVars, listens>>

Requests == Calls \cup Listens
CallStates == {"unused", "waiting", "asked", "answered", "cancelled"}
ListenStates == {"off", "waiting", "on"}
Message == [type : {"request", "stop"}, id : Requests]   \* stop: PromiseCancel, EventDispose

TypeOK ==
  /\ initialized \in BOOLEAN /\ isDisposed \in BOOLEAN
  /\ calls \in [Calls -> CallStates] /\ listening \in [Listens -> ListenStates]
  /\ handlers \subseteq Requests
  /\ toServer \in Seq(Message)
  /\ toClient \in Seq([type : {"initialize"}] \cup [type : {"answer"}, id : Calls])
  /\ registered \in BOOLEAN /\ flushDue \in BOOLEAN
  /\ pending \in Seq(Requests)
  /\ timers \subseteq Calls /\ running \subseteq Calls /\ cancelled \subseteq Calls
  /\ active \subseteq Listens /\ subscriptions \in [Listens -> Nat]
  /\ serverDisposed \in BOOLEAN
  /\ executions \in [Calls -> Nat] /\ late \subseteq Requests
  /\ listens \in [Listens -> 0..MaxListens]

Init ==
  /\ initialized = FALSE /\ isDisposed = FALSE
  /\ calls = [c \in Calls |-> "unused"] /\ listening = [l \in Listens |-> "off"]
  /\ handlers = {}
  /\ toServer = <<>> /\ toClient = <<[type |-> "initialize"]>>
  /\ registered = FALSE /\ flushDue = FALSE /\ pending = <<>> /\ timers = {}
  /\ running = {} /\ cancelled = {} /\ active = {}
  /\ subscriptions = [l \in Listens |-> 0] /\ serverDisposed = FALSE
  /\ executions = [c \in Calls |-> 0] /\ late = {}
  /\ listens = [l \in Listens |-> 0]

(***************************************************************************)
(* The client                                                              *)
(***************************************************************************)
Send(type, ids) ==
  LET order == SetToSeq(ids)
  IN toServer' = toServer \o [i \in DOMAIN order |-> [type |-> type, id |-> order[i]]]

\* Mutant: the handler of a call that could not be sent stays.
KeepThrown(S) ==
  \E thrown \in SUBSET (S \cap Calls) :
    /\ handlers' = handlers \cup S
    /\ Send("request", S \ thrown)
    /\ calls' = [c \in Calls |-> IF c \in thrown THEN "answered"
                                 ELSE IF c \in S THEN "asked" ELSE calls[c]]
    /\ listening' = [l \in Listens |-> IF l \in S THEN "on" ELSE listening[l]]

\* doRequest() of the calls and emitters in S.  Serializing a call may throw:
\* its handler is removed and the caller gets the error.
DoRequest(S) ==
  \E thrown \in SUBSET (S \cap Calls) :
    /\ handlers' = handlers \cup (S \ thrown)
    /\ Send("request", S \ thrown)
    /\ calls' = [c \in Calls |-> IF c \in thrown THEN "answered"
                                 ELSE IF c \in S THEN "asked" ELSE calls[c]]
    /\ listening' = [l \in Listens |-> IF l \in S THEN "on" ELSE listening[l]]

\* requestPromise(): nothing is sent before the server has said it is there.
Call(c) ==
  /\ ~isDisposed /\ calls[c] = "unused"
  /\ IF initialized
       THEN DoRequest({c})
       ELSE /\ calls' = [calls EXCEPT ![c] = "waiting"]
            /\ UNCHANGED <<listening, handlers, toServer>>
  /\ UNCHANGED <<initialized, isDisposed, toClient, serverVars, listens>>

\* onWillAddFirstListener
Listen(l) ==
  /\ ~isDisposed /\ listening[l] = "off" /\ listens[l] < MaxListens
  /\ listens' = [listens EXCEPT ![l] = @ + 1]
  /\ IF initialized
       THEN DoRequest({l})
       ELSE /\ listening' = [listening EXCEPT ![l] = "waiting"]
            /\ handlers' = handlers \cup {l}
            /\ UNCHANGED <<calls, toServer>>
  /\ UNCHANGED <<initialized, isDisposed, toClient, serverVars>>

\* cancel() of the calls in S: the promise is rejected at once; the handler
\* stays until the answer comes.
CancelCalls(S) ==
  /\ calls' = [c \in Calls |-> IF c \in S THEN "cancelled" ELSE calls[c]]
  /\ Send("stop", {c \in S : calls[c] = "asked"})

Cancel(c) ==
  /\ calls[c] \in {"waiting", "asked"}
  /\ CancelCalls({c})
  /\ UNCHANGED <<initialized, isDisposed, listening, handlers, toClient, serverVars, listens>>

\* onDidRemoveLastListener
StopListening(l) ==
  /\ listening[l] # "off"
  /\ listening' = [listening EXCEPT ![l] = "off"]
  /\ handlers' = handlers \ {l}
  /\ Send("stop", IF listening[l] = "on" THEN {l} ELSE {})
  /\ UNCHANGED <<initialized, isDisposed, calls, toClient, serverVars, listens>>

\* dispose(): all active requests end; emitters that wait are not among them.
Dispose ==
  /\ ~isDisposed
  /\ isDisposed' = TRUE
  /\ LET asked == {c \in Calls : calls[c] = "asked"}
         on == {l \in Listens : listening[l] = "on"}
     IN /\ calls' = [c \in Calls |-> IF calls[c] \in {"waiting", "asked"} THEN "cancelled" ELSE calls[c]]
        /\ listening' = [l \in Listens |-> IF l \in on THEN "off" ELSE listening[l]]
        /\ handlers' = handlers \ on
        /\ Send("stop", asked \cup on)
  /\ UNCHANGED <<initialized, toClient, serverVars, listens>>

Receive(type) ==
  /\ ~isDisposed /\ toClient # <<>> /\ Head(toClient).type = type
  /\ toClient' = Tail(toClient)

\* Everything that waited is sent now.
Initialize ==
  /\ Receive("initialize")
  /\ initialized' = TRUE
  /\ DoRequest({c \in Calls : calls[c] = "waiting"} \cup {l \in Listens : listening[l] = "waiting"})
  /\ UNCHANGED <<isDisposed, serverVars, listens>>

\* onResponse(): the handler of a call goes with its answer, which changes
\* nothing for a caller that has been told already.
OnResponse ==
  /\ Receive("answer")
  /\ LET c == Head(toClient).id
     IN /\ handlers' = handlers \ {c}
        /\ calls' = [calls EXCEPT ![c] = IF c \in handlers /\ @ = "asked" THEN "answered" ELSE @]
  /\ UNCHANGED <<initialized, isDisposed, listening, toServer, serverVars, listens>>

(***************************************************************************)
(* The server                                                              *)
(***************************************************************************)
Answer(S) ==
  LET order == SetToSeq(S)
  IN toClient' = toClient \o [i \in DOMAIN order |-> [type |-> "answer", id |-> order[i]]]

Times(seq, x) == Cardinality({i \in DOMAIN seq : seq[i] = x})

\* onPromise() and onEventListen() of the requests in seq, on a channel that is
\* there.  A second subscription takes the place of the first in activeRequests
\* and leaves it subscribed.
Execute(seq) ==
  /\ running' = running \cup (Range(seq) \cap Calls)
  /\ executions' = [c \in Calls |-> executions[c] + Times(seq, c)]
  /\ active' = active \cup (Range(seq) \cap Listens)
  /\ subscriptions' = [l \in Listens |-> subscriptions[l] + Times(seq, l)]

\* Mutant: no timer is set.
KeepWithoutTimer(r) ==
  /\ pending' = Append(pending, r)
  /\ late' = late \cup {r}
  /\ UNCHANGED timers

\* collectPendingRequest(): the timer of a listen request only logs.
CollectPending(r) ==
  /\ pending' = Append(pending, r)
  /\ timers' = timers \cup ({r} \cap Calls)
  /\ late' = late \cup {r}

Handle(type) ==
  /\ ~serverDisposed /\ toServer # <<>> /\ Head(toServer).type = type
  /\ toServer' = Tail(toServer)
  /\ UNCHANGED <<clientVars, toClient, registered, flushDue, serverDisposed, listens>>

\* Requests that come after registerChannel() do not wait for the flush.
HandleRequest ==
  /\ Handle("request")
  /\ LET r == Head(toServer).id
     IN IF registered
          THEN Execute(<<r>>) /\ UNCHANGED <<pending, timers, late>>
          ELSE CollectPending(r) /\ UNCHANGED <<running, executions, active, subscriptions>>
  /\ UNCHANGED cancelled

\* Mutant: only calls are looked for.
StopCall(r) ==
  /\ cancelled' = cancelled \cup ({r} \cap running)
  /\ UNCHANGED <<active, subscriptions>>

\* disposeActiveRequest(): a request that is still kept is not looked for.
DisposeActiveRequest(r) ==
  /\ cancelled' = cancelled \cup ({r} \cap running)
  /\ subscriptions' = [l \in Listens |-> IF l = r /\ r \in active THEN subscriptions[l] - 1 ELSE subscriptions[l]]
  /\ active' = active \ {r}

HandleStop ==
  /\ Handle("stop")
  /\ DisposeActiveRequest(Head(toServer).id)
  /\ UNCHANGED <<pending, timers, running, executions, late>>

\* Mutant: a call that was cancelled needs no answer.
AnswerUnlessCancelled(c) == Answer({c} \ cancelled)

AnswerCall(c) == Answer({c})

\* channel.call() settles, also when it was cancelled.
Settle(c) ==
  /\ c \in running
  /\ running' = running \ {c}
  /\ AnswerCall(c)
  /\ UNCHANGED <<clientVars, toServer, registered, flushDue, pending, timers, cancelled, active,
                 subscriptions, serverDisposed, executions, late, listens>>

\* The timer of a kept request: it is answered and kept all the same.
TimesOut(c) ==
  /\ c \in timers
  /\ timers' = timers \ {c}
  /\ Answer({c})
  /\ UNCHANGED <<clientVars, toServer, registered, flushDue, pending, running, cancelled, active,
                 subscriptions, serverDisposed, executions, late, listens>>

\* registerChannel(), also of a channel that is there already.
RegisterChannel ==
  /\ ~serverDisposed
  /\ registered' = TRUE /\ flushDue' = TRUE
  /\ UNCHANGED <<clientVars, toServer, toClient, pending, timers, running, cancelled, active,
                 subscriptions, serverDisposed, executions, late, listens>>

\* Mutant: the requests stay in the list.
KeepFlushed == UNCHANGED pending

ForgetFlushed == pending' = <<>>

\* flushPendingRequests(): everything kept is run, also what has timed out or
\* was cancelled; the server may be disposed of by now.
FlushPendingRequests ==
  /\ flushDue
  /\ flushDue' = FALSE
  /\ Execute(pending)
  /\ ForgetFlushed
  /\ timers' = {}
  /\ UNCHANGED <<clientVars, toServer, toClient, registered, cancelled, serverDisposed, late, listens>>

\* The client has gone: active requests end, kept ones stay.
ServerDispose ==
  /\ isDisposed /\ ~serverDisposed
  /\ serverDisposed' = TRUE
  /\ cancelled' = cancelled \cup running
  /\ subscriptions' = [l \in Listens |-> IF l \in active THEN subscriptions[l] - 1 ELSE subscriptions[l]]
  /\ active' = {}
  /\ UNCHANGED <<clientVars, toServer, toClient, registered, flushDue, pending, timers, running,
                 executions, late, listens>>

-----------------------------------------------------------------------------
Next ==
  \/ \E c \in Calls : Call(c) \/ Cancel(c) \/ Settle(c) \/ TimesOut(c)
  \/ \E l \in Listens : Listen(l) \/ StopListening(l)
  \/ Dispose \/ Initialize \/ OnResponse
  \/ HandleRequest \/ HandleStop
  \/ RegisterChannel \/ FlushPendingRequests \/ ServerDispose

\* Messages arrive, timers fire and calls settle.  Nothing makes a channel
\* appear or a client go away.
Fairness ==
  /\ WF_vars(Initialize) /\ WF_vars(OnResponse)
  /\ WF_vars(HandleRequest) /\ WF_vars(HandleStop)
  /\ WF_vars(FlushPendingRequests)
  /\ \A c \in Calls : WF_vars(Settle(c)) /\ WF_vars(TimesOut(c))

Spec == Init /\ [][Next]_vars /\ Fairness

-----------------------------------------------------------------------------
OnTheWay(r) == \E i \in DOMAIN toServer : toServer[i].id = r

\* A call is run at most once, whichever of the flush, its time-out, a second
\* registerChannel() and its cancellation come together
\* (flushPendingRequests).
RunOnce == \A c \in Calls : executions[c] <= 1

\* What the client says about a request reaches the server: without a message
\* about it under way, an emitter with listeners is subscribed to on the
\* server, one without is not, and a call given up has its token cancelled
\* while it runs.  Only for requests that were kept the server may do too much
\* (disposeActiveRequest does not look among them), never too little.
ServerFollows ==
  /\ \A l \in Listens :
       serverDisposed \/ (~OnTheWay(l) /\ l \notin Range(pending)) =>
         /\ listening[l] = "on" => subscriptions[l] > 0
         /\ l \notin late => subscriptions[l] = (IF listening[l] = "on" THEN 1 ELSE 0)
  /\ \A c \in Calls :
       (calls[c] = "cancelled" /\ c \in running /\ (serverDisposed \/ ~OnTheWay(c)) /\ c \notin late)
         => c \in cancelled

AnswerDue(c) ==
  \/ \E i \in DOMAIN toServer : toServer[i].type = "request" /\ toServer[i].id = c
  \/ c \in timers \/ c \in running
  \/ \E i \in DOMAIN toClient : toClient[i].type = "answer" /\ toClient[i].id = c

\* Nobody waits for nothing: a call made too early has the server's first
\* message before it, a call that was sent has its handler, and a handler has an
\* answer to come, by its request, its time-out, its execution or the connection,
\* whatever was cancelled, kept, flushed or could not be sent ("it would leak",
\* requestPromise).
AnswerUnderWay ==
  \A c \in Calls :
    /\ calls[c] = "waiting" => \E i \in DOMAIN toClient : toClient[i].type = "initialize"
    /\ calls[c] = "asked" => c \in handlers
    /\ c \in handlers => AnswerDue(c)

\* Every call comes to an end for its caller, with an answer, an error or a
\* cancellation, also when the channel never appears or the client is disposed;
\* and its handler goes away, also after a cancellation ("it would leak"),
\* unless the whole client does (requestPromise).
CallsEnd ==
  \A c \in Calls :
    calls[c] \in {"waiting", "asked"} \/ c \in handlers
      ~> calls[c] \in {"answered", "cancelled"} /\ (c \notin handlers \/ isDisposed)
=============================================================================
