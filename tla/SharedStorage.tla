--------------------------- MODULE SharedStorage ---------------------------
(***************************************************************************)
(* The application storage that all windows share (platform/storage).  The *)
(* main process has the one Storage over the database; every window has a  *)
(* Storage of its own whose database is a client of the main process       *)
(* (ApplicationStorageDatabaseClient).  A change in one window reaches the *)
(* main process as an updateItems call and from there, debounced, every    *)
(* window, the one that made it included.                                  *)
(*                                                                         *)
(* A window and the main process talk over one connection, which keeps     *)
(* order both ways: toMain[w] and toWindow[w].  How a single Storage       *)
(* schedules its flushes is the subject of module Storage; here a pending  *)
(* change is flushed at any moment, one call at a time.                    *)
(***************************************************************************)
EXTENDS Naturals, Sequences

CONSTANTS
  Windows,
  Keys, Values,
  Unset,       \* no value
  MaxQueue     \* bound: no event is sent to a window with so many to read

ASSUME ConstantsAssumption ==
  /\ Unset \notin Values
  /\ MaxQueue \in Nat

VARIABLES
  main,        \* the cache of the main process's Storage
  changed,     \* keys of the change events the debouncer holds
  status,      \* of each window's Storage
  cache,       \* what get() reads in a window
  pending,     \* changes of a window not handed to the database client yet
  busy,        \* an updateItems call of the window has no answer yet
  listening,   \* the main process has the window's listener
  toMain,      \* calls of a window on their way
  toWindow     \* answers and events on their way to a window

windowVars == <<status, cache, pending, busy>>
channelVars == <<listening, toMain, toWindow>>
sharedVars == <<main, changed, windowVars, channelVars>>

Value == Values \cup {Unset}
Rows == [Keys -> Value]
Nothing == [k \in Keys |-> Unset]

\* Changes of some keys; Unset stands for a deletion.
Changes == UNION {[D -> Value] : D \in SUBSET Keys}
NoChange == [k \in {} |-> Unset]

With(changes, k, v) ==
  [x \in DOMAIN changes \cup {k} |-> IF x = k THEN v ELSE changes[x]]
Merge(rows, changes) ==
  [k \in Keys |-> IF k \in DOMAIN changes THEN changes[k] ELSE rows[k]]

Call == [type : {"listen", "getItems", "updateItems"}, changes : Changes]
Answer == [type : {"items", "done", "change"}, changes : Changes]
Message(type, changes) == [type |-> type, changes |-> changes]

Statuses == {"closed", "opening", "open", "closing"}

\* Every window is closed or has been open for a while.
Init ==
  /\ main \in Rows /\ changed = {}
  /\ status \in [Windows -> {"closed", "open"}]
  /\ cache = [w \in Windows |-> IF status[w] = "open" THEN main ELSE Nothing]
  /\ pending = [w \in Windows |-> NoChange]
  /\ busy = [w \in Windows |-> FALSE]
  /\ listening = [w \in Windows |-> status[w] = "open"]
  /\ toMain = [w \in Windows |-> <<>>]
  /\ toWindow = [w \in Windows |-> <<>>]

(***************************************************************************)
(* Windows                                                                 *)
(***************************************************************************)
\* Mutant: the values are asked for before the listener is there.
OpenListeningLate(w) ==
  /\ status[w] = "closed" /\ toMain[w] = <<>>
  /\ status' = [status EXCEPT ![w] = "opening"]
  /\ toMain' = [toMain EXCEPT ![w] = <<Message("getItems", NoChange),
                                       Message("listen", NoChange)>>]
  /\ UNCHANGED <<main, changed, cache, pending, busy, listening, toWindow>>

\* The client's constructor listens, then init() asks for the values.
Open(w) ==
  /\ status[w] = "closed" /\ toMain[w] = <<>>
  /\ status' = [status EXCEPT ![w] = "opening"]
  /\ toMain' = [toMain EXCEPT ![w] = <<Message("listen", NoChange),
                                       Message("getItems", NoChange)>>]
  /\ UNCHANGED <<main, changed, cache, pending, busy, listening, toWindow>>

\* set(), or delete() when v is Unset: nothing to do if the cache says so.
Set(w, k, v) ==
  /\ status[w] = "open" /\ cache[w][k] # v
  /\ cache' = [cache EXCEPT ![w][k] = v]
  /\ pending' = [pending EXCEPT ![w] = With(@, k, v)]
  /\ UNCHANGED <<main, changed, status, busy, channelVars>>

\* flushPending(); the throttler keeps it back while a call is under way.
Flush(w) ==
  /\ status[w] \in {"open", "closing"}
  /\ pending[w] # NoChange /\ ~busy[w]
  /\ pending' = [pending EXCEPT ![w] = NoChange]
  /\ busy' = [busy EXCEPT ![w] = TRUE]
  /\ toMain' = [toMain EXCEPT ![w] = Append(@, Message("updateItems", pending[w]))]
  /\ UNCHANGED <<main, changed, status, cache, listening, toWindow>>

Receive(w, type) ==
  /\ toWindow[w] # <<>> /\ Head(toWindow[w]).type = type
  /\ toWindow' = [toWindow EXCEPT ![w] = Tail(@)]
  /\ UNCHANGED <<main, changed, pending, listening, toMain>>

ReceiveItems(w) ==
  /\ Receive(w, "items")
  /\ status' = [status EXCEPT ![w] = "open"]
  /\ cache' = [cache EXCEPT ![w] = Head(toWindow[w]).changes]
  /\ UNCHANGED busy

ReceiveDone(w) ==
  /\ Receive(w, "done")
  /\ busy' = [busy EXCEPT ![w] = FALSE]
  /\ UNCHANGED <<status, cache>>

\* acceptExternal() takes whatever comes, also when a newer change is pending;
\* a Storage that is closing takes nothing.
ReceiveChange(w) ==
  /\ Receive(w, "change")
  /\ cache' = IF status[w] = "closing" THEN cache
              ELSE [cache EXCEPT ![w] = Merge(@, Head(toWindow[w]).changes)]
  /\ UNCHANGED <<status, busy>>

\* close(): flush what is pending, then dispose the client.
Close(w) ==
  /\ status[w] = "open"
  /\ status' = [status EXCEPT ![w] = "closing"]
  /\ UNCHANGED <<main, changed, cache, pending, busy, channelVars>>

Gone(w) ==
  /\ status' = [status EXCEPT ![w] = "closed"]
  /\ pending' = [pending EXCEPT ![w] = NoChange]
  /\ busy' = [busy EXCEPT ![w] = FALSE]
  /\ listening' = [listening EXCEPT ![w] = FALSE]
  /\ toWindow' = [toWindow EXCEPT ![w] = <<>>]
  /\ cache' = [cache EXCEPT ![w] = Nothing]
  /\ UNCHANGED <<main, changed, toMain>>

Closed(w) ==
  /\ status[w] = "closing" /\ pending[w] = NoChange /\ ~busy[w]
  /\ Gone(w)

\* The window's process dies; what it has sent still arrives.
Crash(w) == status[w] # "closed" /\ Gone(w)

(***************************************************************************)
(* The main process: StorageDatabaseChannel                                *)
(***************************************************************************)
Handle(w, type) ==
  /\ toMain[w] # <<>> /\ Head(toMain[w]).type = type
  /\ toMain' = [toMain EXCEPT ![w] = Tail(@)]
  /\ UNCHANGED windowVars

Reply(w, answer) ==
  toWindow' = IF status[w] = "closed" THEN toWindow
              ELSE [toWindow EXCEPT ![w] = Append(@, answer)]

HandleListen(w) ==
  /\ Handle(w, "listen")
  /\ listening' = [listening EXCEPT ![w] = status[w] # "closed"]
  /\ UNCHANGED <<main, changed, toWindow>>

HandleGetItems(w) ==
  /\ Handle(w, "getItems")
  /\ Reply(w, Message("items", main))
  /\ UNCHANGED <<main, changed, listening>>

Differing(rows, changes) == {k \in DOMAIN changes : changes[k] # rows[k]}

\* Mutant: the call is not answered.
HandleUpdateSilently(w) ==
  /\ Handle(w, "updateItems")
  /\ LET changes == Head(toMain[w]).changes
     IN  /\ main' = Merge(main, changes)
         /\ changed' = changed \cup Differing(main, changes)
  /\ UNCHANGED <<listening, toWindow>>

\* updateItems: set() and delete() fire events for the keys they change.
HandleUpdate(w) ==
  /\ Handle(w, "updateItems")
  /\ LET changes == Head(toMain[w]).changes
     IN  /\ main' = Merge(main, changes)
         /\ changed' = changed \cup Differing(main, changes)
  /\ Reply(w, Message("done", NoChange))
  /\ UNCHANGED listening

\* The main process's own services store too, and compareAndSwap, which nobody
\* calls yet, changes a value like this or not at all.
StoreInMain(k, v) ==
  /\ main[k] # v
  /\ main' = [main EXCEPT ![k] = v]
  /\ changed' = changed \cup {k}
  /\ UNCHANGED <<windowVars, channelVars>>

\* Mutant: deletions are left out of the event.
EventWithoutDeletions == [k \in {c \in changed : main[c] # Unset} |-> main[k]]
\* serializeStorageChangeEvents() reads the values when the debouncer fires.
Event == [k \in changed |-> main[k]]

FireChange ==
  /\ changed # {}
  /\ \A w \in Windows : Len(toWindow[w]) < MaxQueue
  /\ changed' = {}
  /\ toWindow' = [w \in Windows |->
                    IF listening[w] THEN Append(toWindow[w], Message("change", Event))
                    ELSE toWindow[w]]
  /\ UNCHANGED <<main, windowVars, listening, toMain>>

(***************************************************************************)
(* The specification                                                       *)
(***************************************************************************)
\* What users and programs do ...
Request ==
  \/ \E w \in Windows : Open(w) \/ Close(w) \/ Crash(w)
  \/ \E w \in Windows, k \in Keys, v \in Value : Set(w, k, v)
  \/ \E k \in Keys, v \in Value : StoreInMain(k, v)

\* ... and what follows from it by itself.
Step(w) ==
  \/ Flush(w) \/ Closed(w)
  \/ ReceiveItems(w) \/ ReceiveDone(w) \/ ReceiveChange(w)
  \/ HandleListen(w) \/ HandleGetItems(w) \/ HandleUpdate(w)

Propagate == FireChange \/ \E w \in Windows : Step(w)

Spec == Init /\ [][Request \/ Propagate]_sharedVars

\* The delayer and the debouncer are timers, which fire, and the connection
\* between a window and the main process delivers.
Fairness ==
  /\ WF_sharedVars(FireChange)
  /\ \A w \in Windows :
       /\ WF_sharedVars(Flush(w)) /\ WF_sharedVars(Closed(w))
       /\ WF_sharedVars(HandleListen(w) \/ HandleGetItems(w) \/ HandleUpdate(w))
       /\ WF_sharedVars(ReceiveItems(w) \/ ReceiveDone(w) \/ ReceiveChange(w))

FairSpec == Spec /\ Fairness

(***************************************************************************)
(* Properties                                                              *)
(***************************************************************************)
\* The variables have the types the declarations say.
TypeOK ==
  /\ main \in Rows /\ changed \in SUBSET Keys
  /\ status \in [Windows -> Statuses]
  /\ cache \in [Windows -> Rows] /\ pending \in [Windows -> Changes]
  /\ busy \in [Windows -> BOOLEAN] /\ listening \in [Windows -> BOOLEAN]
  /\ toMain \in [Windows -> Seq(Call)] /\ toWindow \in [Windows -> Seq(Answer)]

\* No message of q says anything about k.
Silent(q, k) == \A i \in DOMAIN q : k \notin DOMAIN q[i].changes

\* The last message of q about k says v.
LastSays(q, k, v) ==
  \E i \in DOMAIN q :
    /\ k \in DOMAIN q[i].changes /\ q[i].changes[k] = v
    /\ \A j \in DOMAIN q : j > i => k \notin DOMAIN q[j].changes

\* The main process has all changes that w has made to k.
Written(w, k) == k \notin DOMAIN pending[w] /\ Silent(toMain[w], k)

\* No window is left behind: unless an open window has itself a change of k
\* under way, or another event about k is due, it shows what the main process
\* has, or will when it has read what is under way to it.  That is why
\* acceptExternal() may take every value without a look at the window's own
\* changes, and why the main process has to tell a window of its own.
NoneLeftBehind ==
  \A w \in Windows, k \in Keys :
    status[w] = "open" /\ Written(w, k) /\ k \notin changed =>
      \/ Silent(toWindow[w], k) /\ cache[w][k] = main[k]
      \/ LastSays(toWindow[w], k, main[k])

\* Once everybody leaves the storage alone, all open windows come to show what
\* the main process has.
EventuallyAgree ==
  <>[][~Request]_sharedVars =>
    <>[](\A w \in Windows : status[w] = "open" => cache[w] = main)
=============================================================================
