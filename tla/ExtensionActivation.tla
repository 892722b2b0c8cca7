------------------------ MODULE ExtensionActivation ------------------------
(***************************************************************************)
(* How extensions come to run.  The window's extension service             *)
(* (AbstractExtensionService) owns the registry of extensions, takes       *)
(* installations and removals from a queue, one at a time, and remembers   *)
(* every activation event ever asked for.  The extension host, a process   *)
(* of its own, has a copy of the registry and an activation operation for  *)
(* every extension it was asked to activate (ExtensionsActivator): the     *)
(* operation waits for those of its dependencies, tells the window, and    *)
(* runs the extension's code once the window has answered.                 *)
(*                                                                         *)
(* The window and the host exchange messages over one connection that      *)
(* keeps their order: toHost and toMain.  The host may crash; the window   *)
(* then starts another.  One local host is modelled, with extensions that  *)
(* have code and dependencies without loops.                               *)
(***************************************************************************)
EXTENDS Naturals, Sequences, FiniteSets, SequencesExt

CONSTANTS
  Extensions,
  Events,
  Dependencies,   \* of each extension, in the order of its manifest
  ActivatedBy,    \* the activation events of each extension
  Idle,           \* nothing under way
  MaxVersions,    \* bound: how often an extension is installed
  MaxQueue,       \* bound: how many installations and removals wait
  MaxCrashes      \* bound: how often the extension host crashes

ASSUME ConstantsAssumption ==
  /\ IsFiniteSet(Extensions)
  /\ Dependencies \in [Extensions -> Seq(Extensions)]
  /\ ActivatedBy \in [Extensions -> SUBSET Events]
  /\ \A S \in SUBSET Extensions : S # Idle
  /\ MaxVersions \in Nat \ {0} /\ MaxQueue \in Nat /\ MaxCrashes \in Nat

VARIABLES
  (* the window *)
  registry,       \* _registry: the version of each extension, or Absent
  queue,          \* _deltaExtensionsQueue
  draining,       \* _inHandleDeltaExtensions
  adding,         \* extensions of the delta the host has not answered, or Idle
  requested,      \* _allRequestedActivateEvents
  sent,           \* _cachedActivationEvents of the extension host manager
  started,        \* extensions whose status says activationStarted
  (* the connection *)
  toHost, toMain,
  (* the extension host *)
  running,        \* the process is there
  hostRegistry,   \* _myRegistry
  applying,       \* registry a delta will put there once its paths are known
  operations,     \* _operations
  awaited,        \* extensions activateByEvent waits for, for each event
  alreadyActivated,    \* _alreadyActivatedEvents
  (* history *)
  disk,           \* the version that is installed, or Absent
  installs, crashes

mainVars == <<registry, queue, draining, adding, requested, sent, started>>
hostVars == <<running, hostRegistry, applying, operations, awaited, alreadyActivated>>
historyVars == <<disk, installs, crashes>>
vars == <<mainVars, toHost, toMain, hostVars, historyVars>>

Absent == 0
NoExtensions == [x \in Extensions |-> Absent]
Registry == [Extensions -> 0..MaxVersions]
Present(r) == {x \in Extensions : r[x] # Absent}

DependenciesOf(x) == Range(Dependencies[x])

\* ActivationOperation: none, or waiting for deps, asking the window, running
\* activate(), and its value.
States == {"none", "waiting", "asking", "activating", "ok", "failed"}
Ended(x) == operations[x].state \in {"ok", "failed"}
NoOperation == [state |-> "none", deps |-> {}]

Item == [extension : Extensions, remove : BOOLEAN, add : 0..MaxVersions]

TypeOK ==
  /\ registry \in Registry /\ hostRegistry \in Registry
  /\ queue \in Seq(Item) /\ draining \in BOOLEAN
  /\ adding \in (SUBSET Extensions) \cup {Idle}
  /\ requested \in SUBSET Events /\ sent \in SUBSET requested
  /\ started \in SUBSET Extensions
  /\ running \in BOOLEAN
  /\ applying \in Registry \cup {Idle}
  /\ \A x \in Extensions :
       /\ operations[x].state \in States
       /\ operations[x].deps \subseteq Extensions
  /\ awaited \in [Events -> (SUBSET Extensions) \cup {Idle}]
  /\ alreadyActivated \in SUBSET Events
  /\ installs \in Registry /\ disk \in Registry
  /\ crashes \in 0..MaxCrashes

\* The window has scanned the extensions and the host is up.
Init ==
  /\ registry \in [Extensions -> {Absent, 1}] /\ hostRegistry = registry
  /\ installs = registry /\ disk = registry
  /\ queue = <<>> /\ draining = FALSE /\ adding = Idle
  /\ requested = {} /\ sent = {} /\ started = {}
  /\ toHost = <<>> /\ toMain = <<>>
  /\ running = TRUE /\ applying = Idle
  /\ operations = [x \in Extensions |-> NoOperation]
  /\ awaited = [e \in Events |-> Idle] /\ alreadyActivated = {}
  /\ crashes = 0

(***************************************************************************)
(* The window                                                              *)
(***************************************************************************)
Send(message) == toHost' = Append(toHost, message)
Interested(e, r) == {x \in Present(r) : e \in ActivatedBy[x]}

\* activateByEvent(): the event is remembered; the host is told of it once,
\* and only when some extension is there for it.
RequestEvent(e) ==
  /\ requested' = requested \cup {e}
  /\ IF running /\ e \notin sent /\ Interested(e, registry) # {}
       THEN /\ sent' = sent \cup {e}
            /\ Send([type |-> "event", event |-> e])
       ELSE UNCHANGED <<sent, toHost>>
  /\ UNCHANGED <<registry, queue, draining, adding, started, toMain, hostVars, historyVars>>

\* _handleDeltaExtensions(): a new item starts the loop over the queue unless
\* the loop is running.
Enqueue(x, remove, add) ==
  /\ Len(queue) < MaxQueue
  /\ queue' = Append(queue, [extension |-> x, remove |-> remove, add |-> add])
  /\ draining' = TRUE
  /\ disk' = [disk EXCEPT ![x] = add]
  /\ UNCHANGED <<registry, adding, requested, sent, started, toHost, toMain, hostVars, crashes>>

\* onDidInstallExtensions: an update takes the old version out as well.
Install(x) ==
  /\ installs[x] < MaxVersions
  /\ installs' = [installs EXCEPT ![x] = @ + 1]
  /\ Enqueue(x, disk[x] # Absent, installs'[x])

\* onDidUninstallExtension
Uninstall(x) ==
  /\ disk[x] # Absent
  /\ Enqueue(x, TRUE, Absent)
  /\ UNCHANGED installs

\* canRemoveExtension(): known and not running, as far as the window knows.
CanRemove(x) == registry[x] # Absent /\ x \notin started

\* _deltaExtensions(): what cannot be removed or added is skipped; the rest
\* changes the registry and goes to the host, whose answer is waited for.
BeginDelta ==
  /\ draining /\ adding = Idle /\ queue # <<>>
  /\ LET x == Head(queue).extension
         removed == Head(queue).remove /\ CanRemove(x)
         added == Head(queue).add # Absent /\ (registry[x] = Absent \/ removed)
     IN IF ~removed /\ ~added
          THEN UNCHANGED <<registry, adding, toHost>>
          ELSE /\ registry' = [registry EXCEPT ![x] = Head(queue).add]
               /\ IF running
                    THEN /\ adding' = IF added THEN {x} ELSE {}
                         /\ Send([type |-> "delta", registry |-> registry'])
                    ELSE UNCHANGED <<adding, toHost>>
  /\ queue' = Tail(queue)
  /\ UNCHANGED <<draining, requested, sent, started, toMain, hostVars, historyVars>>

EndDeltas ==
  /\ draining /\ adding = Idle /\ queue = <<>>
  /\ draining' = FALSE
  /\ UNCHANGED <<registry, queue, adding, requested, sent, started, toHost, toMain,
                 hostVars, historyVars>>

\* Mutant: an extension is not activated for an event asked for earlier.
NeverNeeded(x) == FALSE

\* _activateAddedExtensionIfNeeded()
ActivationNeeded(x) == ActivatedBy[x] \cap requested # {}

Receive(type) ==
  /\ toMain # <<>> /\ Head(toMain).type = type
  /\ toMain' = Tail(toMain)

\* The host has applied the delta: the loop goes on.
DeltaApplied ==
  /\ Receive("applied")
  /\ LET activate == SetToSeq({x \in adding : ActivationNeeded(x)})
     IN toHost' = toHost \o [i \in DOMAIN activate |-> [type |-> "activate", extension |-> activate[i]]]
  /\ adding' = Idle
  /\ UNCHANGED <<registry, queue, draining, requested, sent, started, hostVars, historyVars>>

\* _onWillActivateExtension()
WillActivate ==
  /\ Receive("will")
  /\ started' = started \cup {Head(toMain).extension}
  /\ Send([type |-> "confirm", extension |-> Head(toMain).extension])
  /\ UNCHANGED <<registry, queue, draining, adding, requested, sent, hostVars, historyVars>>

\* _onExtensionHostCrashed(): statuses are cleared, calls to the host end with
\* an error.  One that the loop over the queue waits for ends the loop.
Crash ==
  /\ running /\ crashes < MaxCrashes
  /\ crashes' = crashes + 1
  /\ running' = FALSE
  /\ started' = {} /\ sent' = {} /\ toHost' = <<>> /\ toMain' = <<>>
  /\ adding' = Idle
  /\ draining' = (draining /\ adding = Idle)
  /\ hostRegistry' = NoExtensions /\ applying' = Idle
  /\ operations' = [x \in Extensions |-> NoOperation]
  /\ awaited' = [e \in Events |-> Idle] /\ alreadyActivated' = {}
  /\ UNCHANGED <<registry, queue, requested, disk, installs>>

\* startExtensionHosts(), once the registry's lock is free: the new host gets
\* the registry and the events asked for so far.
Restart ==
  /\ ~running /\ ~draining
  /\ running' = TRUE /\ hostRegistry' = registry
  /\ sent' = requested
  /\ LET events == SetToSeq({e \in requested : Interested(e, registry) # {}})
     IN toHost' = [i \in DOMAIN events |-> [type |-> "event", event |-> events[i]]]
  /\ UNCHANGED <<registry, queue, draining, adding, requested, started, toMain,
                 applying, operations, awaited, alreadyActivated, historyVars>>

(***************************************************************************)
(* The extension host                                                      *)
(***************************************************************************)
\* Mutant: an extension waits for the dependencies created with it only.
NewDependencies(x) == {d \in DependenciesOf(x) : operations[d].state = "none"}

\* The operations a new operation waits for.
OperationDependencies(x) == DependenciesOf(x)

\* The dependencies of x before the first one that is unknown.
KnownDependencies(x) ==
  LET Known(d) == operations[d].state # "none" \/ hostRegistry[d] # Absent
  IN {Dependencies[x][i] : i \in {j \in DOMAIN Dependencies[x] :
                                    \A k \in 1..j : Known(Dependencies[x][k])}}

\* The extensions of S without an operation, and the dependencies, direct or
\* not, that _handleActivationRequest() comes by.
WithDependencies(S) ==
  LET New(T) == {x \in T : operations[x].state = "none"}
      reached[n \in 0..Cardinality(Extensions)] ==
        IF n = 0 THEN New(S)
        ELSE LET before == reached[n - 1]
             IN before \cup New(UNION {KnownDependencies(x) : x \in before})
  IN reached[Cardinality(Extensions)]

\* _handleActivationRequest() for all of S: an unknown dependency is a failure.
Requested(S) ==
  [x \in Extensions |->
     IF x \notin WithDependencies(S) THEN operations[x]
     ELSE IF KnownDependencies(x) # DependenciesOf(x)
       THEN [NoOperation EXCEPT !.state = "failed"]
     ELSE [NoOperation EXCEPT !.state = "waiting", !.deps = OperationDependencies(x)]]

\* _waitForDepsThenActivate(): fail with a dependency, or ask the window once
\* all have succeeded.  An extension no longer there makes activation fail.
Woken(ops, x) ==
  IF ops[x].state # "waiting" THEN ops[x]
  ELSE IF \E d \in ops[x].deps : ops[d].state = "failed"
    THEN [ops[x] EXCEPT !.state = "failed"]
  ELSE IF \A d \in ops[x].deps : ops[d].state = "ok"
    THEN [ops[x] EXCEPT !.state = IF hostRegistry[x] = Absent THEN "failed" ELSE "asking"]
  ELSE ops[x]

\* Every operation that can go on does, before the next message is handled.
Settled(ops) ==
  LET after[n \in 0..Cardinality(Extensions)] ==
        IF n = 0 THEN ops
        ELSE LET before == after[n - 1] IN [x \in Extensions |-> Woken(before, x)]
  IN after[Cardinality(Extensions)]

\* Mutant: a remote host runs the code without waiting for the window.
AskAndRun(ops) ==
  LET after == Settled(ops)
      asking == SetToSeq({x \in Extensions : after[x].state = "asking"
                                             /\ operations[x].state # "asking"})
  IN /\ operations' = [x \in Extensions |->
                         IF after[x].state = "asking"
                           THEN [after[x] EXCEPT !.state = "activating"] ELSE after[x]]
     /\ toMain' = toMain \o [i \in DOMAIN asking |-> [type |-> "will", extension |-> asking[i]]]

\* Mutant: only an operation that need not wait asks the window.
AskNewOnly(ops) ==
  LET after == Settled(ops)
      asking == SetToSeq({x \in Extensions : after[x].state = "asking"
                                             /\ operations[x].state = "none"})
  IN /\ operations' = after
     /\ toMain' = toMain \o [i \in DOMAIN asking |-> [type |-> "will", extension |-> asking[i]]]

\* The operations become ops and what follows of it; $onWillActivateExtension
\* for those that are ready to run.
Proceed(ops) ==
  LET after == Settled(ops)
      asking == SetToSeq({x \in Extensions : after[x].state = "asking"
                                             /\ operations[x].state # "asking"})
  IN /\ operations' = after
     /\ toMain' = toMain \o [i \in DOMAIN asking |-> [type |-> "will", extension |-> asking[i]]]

\* activateByEvent() marks the events all whose extensions have ended.
Mark(waits) ==
  LET done == {e \in Events : waits[e] # Idle /\ \A x \in waits[e] : Ended(x)'}
  IN /\ awaited' = [e \in Events |-> IF e \in done THEN Idle ELSE waits[e]]
     /\ alreadyActivated' = alreadyActivated \cup done

Handle(type) ==
  /\ toHost # <<>> /\ Head(toHost).type = type
  /\ toHost' = Tail(toHost)
  /\ UNCHANGED <<mainVars, running, historyVars>>

\* $deltaExtensions() works out the paths first; other calls come in between.
HandleDelta ==
  /\ Handle("delta")
  /\ applying' = Head(toHost).registry
  /\ UNCHANGED <<toMain, hostRegistry, operations, awaited, alreadyActivated>>

ApplyDelta ==
  /\ applying # Idle
  /\ hostRegistry' = applying /\ applying' = Idle
  /\ toMain' = Append(toMain, [type |-> "applied"])
  /\ UNCHANGED <<mainVars, toHost, running, operations, awaited, alreadyActivated, historyVars>>

\* $activateByEvent()
HandleEvent ==
  /\ Handle("event")
  /\ LET e == Head(toHost).event
         extensions == Interested(e, hostRegistry)
     IN IF e \in alreadyActivated
          THEN UNCHANGED <<toMain, operations, awaited, alreadyActivated>>
          ELSE /\ Proceed(Requested(extensions))
               /\ Mark([awaited EXCEPT ![e] = extensions])
  /\ UNCHANGED <<hostRegistry, applying>>

\* $activate(): an unknown extension is ignored.
HandleActivate ==
  /\ Handle("activate")
  /\ Proceed(Requested({Head(toHost).extension} \cap Present(hostRegistry)))
  /\ Mark(awaited)
  /\ UNCHANGED <<hostRegistry, applying>>

\* The window has answered: load the code and call activate().
HandleConfirm ==
  /\ Handle("confirm")
  /\ operations' = [operations EXCEPT ![Head(toHost).extension].state = "activating"]
  /\ UNCHANGED <<toMain, hostRegistry, applying, awaited, alreadyActivated>>

\* activate() ends, well or not.
Finish(x) ==
  /\ operations[x].state = "activating"
  /\ \E result \in {"ok", "failed"} : Proceed([operations EXCEPT ![x].state = result])
  /\ Mark(awaited)
  /\ UNCHANGED <<mainVars, toHost, running, hostRegistry, applying, historyVars>>

-----------------------------------------------------------------------------
MainSteps == BeginDelta \/ EndDeltas \/ DeltaApplied \/ WillActivate \/ Restart
HostSteps ==
  \/ HandleDelta \/ ApplyDelta \/ HandleEvent \/ HandleActivate \/ HandleConfirm
  \/ \E x \in Extensions : Finish(x)

Next ==
  \/ \E e \in Events : RequestEvent(e)
  \/ \E x \in Extensions : Install(x) \/ Uninstall(x)
  \/ Crash
  \/ MainSteps
  \/ HostSteps

\* Messages arrive, the window works off its queue and starts a host after a
\* crash (MaxCrashes is below the three that need the user), deltas are
\* applied and every activate() ends.
Fairness ==
  /\ WF_vars(BeginDelta) /\ WF_vars(EndDeltas) /\ WF_vars(Restart)
  /\ WF_vars(DeltaApplied) /\ WF_vars(WillActivate)
  /\ WF_vars(HandleDelta) /\ WF_vars(ApplyDelta) /\ WF_vars(HandleEvent)
  /\ WF_vars(HandleActivate) /\ WF_vars(HandleConfirm)
  /\ \A x \in Extensions : WF_vars(Finish(x))

Spec == Init /\ [][Next]_vars /\ Fairness

-----------------------------------------------------------------------------
\* An extension's code runs only after the code of all its dependencies has
\* been activated successfully (_waitForDepsThenActivate), also when several
\* requests created the operations.
DependenciesFirst ==
  \A x \in Extensions :
    operations[x].state \in {"asking", "activating", "ok"} =>
      \A d \in DependenciesOf(x) : operations[d].state = "ok"

\* While code of an extension runs the window knows that its activation has
\* started, and so will not remove it (_activateExtension waits for the answer
\* to $onWillActivateExtension).
RunningIsKnown ==
  \A x \in Extensions : operations[x].state \in {"activating", "ok"} => x \in started

UnderWay == {x \in Extensions : operations[x].state \in {"waiting", "asking", "activating"}}
Carries(messages, type, x) ==
  \E i \in DOMAIN messages : messages[i].type = type /\ messages[i].extension = x

\* No activation hangs: an operation that waits has a dependency on its way to
\* an end, one that asks has its question or the answer under way, and an event
\* that is awaited has an extension that has not ended, whichever requests
\* created the operations and whatever has ended in between (_initialize,
\* _waitForDepsThenActivate, activateByEvent).
NoneHangs ==
  /\ \A x \in Extensions :
       /\ operations[x].state = "waiting" => DependenciesOf(x) \cap UnderWay # {}
       /\ operations[x].state = "asking" => Carries(toMain, "will", x) \/ Carries(toHost, "confirm", x)
  /\ \A e \in Events : awaited[e] # Idle => awaited[e] \cap UnderWay # {}

\* An extension that is there for an event that was asked for, whichever came
\* first, ends up activated or failed, unless it is removed, through deltas,
\* crashes and restarts (activateByEvent, _activateAddedExtensionIfNeeded and
\* the initial events of a new host).
ActivatedInTheEnd ==
  \A x \in Extensions :
    (registry[x] # Absent /\ ActivatedBy[x] \cap requested # {})
      ~> (Ended(x) \/ registry[x] = Absent)

=============================================================================
