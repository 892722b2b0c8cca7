------------------------------- MODULE Storage -------------------------------
(***************************************************************************)
(* The write-behind key-value store of base/parts/storage: class Storage   *)
(* (common/storage.ts) over SQLiteStorageDatabase (node/storage.ts), with  *)
(* the ThrottledDelayer (base/common/async.ts) that decides when pending   *)
(* changes are written.  It is what the main process keeps per profile and *)
(* workspace.                                                              *)
(*                                                                         *)
(* JavaScript runs to completion, so an action is one callback with the    *)
(* microtasks it leads to: a method called by a client, the delayer's      *)
(* timer, the answer of the database.  A timer may fire at any moment.     *)
(*                                                                         *)
(* Callers are told by promises.  stage[c] follows the promise that caller *)
(* c waits for through the delayer and the throttler:                      *)
(*    timer      its flush waits for the delayer                           *)
(*    run        its flush is in the database                              *)
(*    queued     its flush waits in the throttler behind another one       *)
(*    queuedRun  the same flush, when its turn has come                    *)
(*    waiting    pushed to whenFlushedCallbacks                            *)
(*    done, failed, stuck  resolved, rejected, never settled               *)
(*                                                                         *)
(* Clients wait for init() before they use a store, as                     *)
(* IApplicationStorageMainService and StorageDatabaseChannel require.      *)
(***************************************************************************)
EXTENDS Naturals

CONSTANTS
  Keys, Values,
  Unset,        \* no value
  MaxChanges,   \* bound: how many set() and delete() calls take effect
  MaxSessions,  \* bound: how many times the process starts
  MayFail       \* the database may report errors

ASSUME ConstantsAssumption ==
  /\ Unset \notin Values
  /\ MaxChanges \in Nat /\ MaxSessions \in Nat
  /\ MayFail \in BOOLEAN

VARIABLES
  state,           \* StorageState; None until init() is done
  cache,           \* what get() reads
  pendingInserts,  \* by key, Unset when there is none
  pendingDeletes,  \* a set of keys
  timer,           \* the delayer will run flushPending
  inFlight,        \* activePromise: the request the database is working on
  busy,            \* activePromise is set
  queued,          \* queuedPromise is set
  stage,           \* what each caller's promise waits for
  owed,            \* history: keys not changed since the caller asked
  disk,            \* the rows of the database file
  erroneous,       \* isErroneous of the connection
  db,              \* how far closing the database got
  changes, sessions

pendingVars   == <<pendingInserts, pendingDeletes>>
throttlerVars == <<inFlight, busy, queued>>
dbVars        == <<disk, erroneous, db>>
vars == <<state, cache, pendingVars, timer, throttlerVars, stage, owed, dbVars,
          changes, sessions>>

Rows == [Keys -> Values \cup {Unset}]
Nothing == [k \in Keys |-> Unset]
Callers == {"flush", "whenFlushed", "close"}
Stages == {"idle", "timer", "run", "queued", "queuedRun", "waiting",
           "done", "failed", "stuck"}

Request == [insert : Rows, delete : SUBSET Keys]
NoChanges == [insert |-> Nothing, delete |-> {}]

\* Mutant: a transaction with inserts skips its deletes.
InsertsOnly(rows, request) ==
  [k \in Keys |-> IF request.insert[k] # Unset THEN request.insert[k]
                  ELSE IF k \in request.delete /\ request.insert = Nothing THEN Unset
                  ELSE rows[k]]

\* One transaction: the inserts, then the deletes.
Apply(rows, request) ==
  [k \in Keys |-> IF k \in request.delete THEN Unset
                  ELSE IF request.insert[k] # Unset THEN request.insert[k]
                  ELSE rows[k]]

Pending == [insert |-> pendingInserts, delete |-> pendingDeletes]
HasPending == pendingInserts # Nothing \/ pendingDeletes # {}

\* Every caller whose promise is at stage `from` is now at stage `to`.
Advance(st, from, to) ==
  [c \in Callers |-> IF st[c] = from THEN to ELSE st[c]]

Init ==
  /\ state = "None" /\ cache = Nothing
  /\ pendingInserts = Nothing /\ pendingDeletes = {}
  /\ timer = FALSE
  /\ inFlight = NoChanges /\ busy = FALSE /\ queued = FALSE
  /\ stage = [c \in Callers |-> "idle"] /\ owed = [c \in Callers |-> {}]
  /\ disk \in Rows /\ erroneous = FALSE /\ db = "open"
  /\ changes = 0 /\ sessions = 1

(***************************************************************************)
(* init(): the cache is what the database has.  When reading it fails the  *)
(* error is logged and the store goes on with an empty cache.              *)
(***************************************************************************)
InitSucceeds ==
  /\ state = "None" /\ state' = "Initialized"
  /\ cache' = disk
  /\ UNCHANGED <<pendingVars, timer, throttlerVars, stage, owed, dbVars,
                 changes, sessions>>

InitFails ==
  /\ MayFail
  /\ state = "None" /\ state' = "Initialized"
  /\ erroneous' = TRUE
  /\ UNCHANGED <<cache, pendingVars, timer, throttlerVars, stage, owed, disk, db,
                 changes, sessions>>

(***************************************************************************)
(* Clients.  Setting the value a key has, or deleting a key that is not    *)
(* there, returns early.                                                   *)
(***************************************************************************)
\* A change of k: the callers that asked before it are owed k no longer.
Changed(k) ==
  /\ changes < MaxChanges /\ changes' = changes + 1
  /\ owed' = [c \in Callers |-> owed[c] \ {k}]
  /\ timer' = TRUE

\* Mutant: set() leaves the key among the pending deletes.
SetKeepingDelete(k, v) ==
  /\ state = "Initialized" /\ cache[k] # v
  /\ cache' = [cache EXCEPT ![k] = v]
  /\ pendingInserts' = [pendingInserts EXCEPT ![k] = v]
  /\ Changed(k)
  /\ UNCHANGED <<state, pendingDeletes, throttlerVars, stage, dbVars, sessions>>

Set(k, v) ==
  /\ state = "Initialized" /\ cache[k] # v
  /\ cache' = [cache EXCEPT ![k] = v]
  /\ pendingInserts' = [pendingInserts EXCEPT ![k] = v]
  /\ pendingDeletes' = pendingDeletes \ {k}
  /\ Changed(k)
  /\ UNCHANGED <<state, throttlerVars, stage, dbVars, sessions>>

Delete(k) ==
  /\ state = "Initialized" /\ cache[k] # Unset
  /\ cache' = [cache EXCEPT ![k] = Unset]
  /\ pendingInserts' = [pendingInserts EXCEPT ![k] = Unset]
  /\ pendingDeletes' = pendingDeletes \cup {k}
  /\ Changed(k)
  /\ UNCHANGED <<state, throttlerVars, stage, dbVars, sessions>>

\* flush(0): as optimize() and a service that shuts down do.
Flush ==
  /\ state = "Initialized" /\ stage["flush"] \notin {"timer", "run", "queued", "queuedRun"}
  /\ timer' = TRUE
  /\ stage' = [stage EXCEPT !["flush"] = "timer"]
  /\ owed' = [owed EXCEPT !["flush"] = Keys]
  /\ UNCHANGED <<state, cache, pendingVars, throttlerVars, dbVars, changes, sessions>>

WhenFlushed ==
  /\ state # "None" /\ stage["whenFlushed"] \in {"idle", "done"}
  /\ stage' = [stage EXCEPT !["whenFlushed"] = IF HasPending THEN "waiting" ELSE "done"]
  /\ owed' = [owed EXCEPT !["whenFlushed"] = Keys]
  /\ UNCHANGED <<state, cache, pendingVars, timer, throttlerVars, dbVars, changes, sessions>>

\* Mutant: nothing schedules the flush that close() awaits.
CloseWithoutTrigger ==
  /\ state = "Initialized" /\ state' = "Closed"
  /\ stage' = [stage EXCEPT !["close"] = "timer"]
  /\ UNCHANGED <<cache, pendingVars, timer, throttlerVars, owed, dbVars, changes, sessions>>

\* close(): no change is accepted any more, and the rest is written at once.
Close ==
  /\ state = "Initialized" /\ state' = "Closed"
  /\ timer' = TRUE
  /\ stage' = [stage EXCEPT !["close"] = "timer"]
  /\ UNCHANGED <<cache, pendingVars, throttlerVars, owed, dbVars, changes, sessions>>

(***************************************************************************)
(* The delayer and the throttler                                           *)
(***************************************************************************)
\* flushPending() for the callers at stage `from`: in the database, or done.
FlushPending(st, from, to) ==
  /\ inFlight' = Pending /\ busy' = HasPending
  /\ stage' = Advance(st, from, IF HasPending THEN to ELSE "done")
  /\ pendingInserts' = Nothing /\ pendingDeletes' = {}

RunFlush ==
  /\ timer /\ ~busy /\ timer' = FALSE
  /\ FlushPending(stage, "timer", "run")
  /\ UNCHANGED <<state, cache, queued, owed, dbVars, changes, sessions>>

\* Mutant: the caller gets the promise of the flush that is running.
QueueButFollowActive ==
  /\ timer /\ busy /\ timer' = FALSE
  /\ queued' = TRUE
  /\ stage' = Advance(stage, "timer", "run")
  /\ UNCHANGED <<state, cache, pendingVars, inFlight, busy, owed, dbVars, changes, sessions>>

QueueFlush ==
  /\ timer /\ busy /\ timer' = FALSE
  /\ queued' = TRUE
  /\ stage' = Advance(stage, "timer", "queued")
  /\ UNCHANGED <<state, cache, pendingVars, inFlight, busy, owed, dbVars, changes, sessions>>

\* How the callers learn of the end of an update.  The finally of
\* flushPending comes first: it releases the waiters if nothing is pending.
\* queuedPromise is resolved with the result of its flush; nothing rejects it.
Settled(ok) ==
  [c \in Callers |->
     CASE stage[c] = "run"       -> IF ok THEN "done" ELSE "failed"
       [] stage[c] = "queuedRun" -> IF ok THEN "done" ELSE "stuck"
       [] stage[c] = "waiting"   -> IF HasPending THEN "waiting" ELSE "done"
       [] OTHER                  -> stage[c]]

\* Mutant: a flush that was queued is forgotten.
DropQueued(ok) ==
  /\ queued' = FALSE /\ busy' = FALSE /\ inFlight' = NoChanges
  /\ stage' = Settled(ok)
  /\ UNCHANGED pendingVars

\* The active promise settles: the queued flush, if any, runs at once.
AfterUpdate(ok) ==
  \/ /\ queued /\ queued' = FALSE
     /\ FlushPending(Settled(ok), "queued", "queuedRun")
  \/ /\ ~queued
     /\ busy' = FALSE /\ inFlight' = NoChanges
     /\ stage' = Settled(ok)
     /\ UNCHANGED <<pendingVars, queued>>

(***************************************************************************)
(* The database                                                            *)
(***************************************************************************)
UpdateSucceeds ==
  /\ busy
  /\ disk' = Apply(disk, inFlight)
  /\ AfterUpdate(TRUE)
  /\ UNCHANGED <<state, cache, timer, owed, erroneous, db, changes, sessions>>

\* An error of BEGIN or of a statement only marks the connection, one of END
\* also rejects the promise; some of the changes may be in the file anyway.
UpdateTroubled(lost, ok) ==
  /\ MayFail /\ busy
  /\ disk' = [k \in Keys |-> IF k \in lost THEN disk[k] ELSE Apply(disk, inFlight)[k]]
  /\ erroneous' = TRUE
  /\ AfterUpdate(ok)
  /\ UNCHANGED <<state, cache, timer, owed, db, changes, sessions>>

\* doClose() of Storage goes on, whether its flush succeeded or not.
ReadyToClose == db = "open" /\ stage["close"] \in {"done", "failed"}

DatabaseCloses ==
  /\ ReadyToClose /\ ~erroneous
  /\ db' = "closed"
  /\ UNCHANGED <<state, cache, pendingVars, timer, throttlerVars, stage, owed,
                 disk, erroneous, changes, sessions>>

\* A connection that had errors, or has one now: the file is thrown away to be
\* written again from the cache.  If it cannot be deleted, close() rejects.
DatabaseUnlinks ==
  /\ ReadyToClose /\ (erroneous \/ MayFail)
  /\ erroneous' = TRUE
  /\ \/ db' = "unlinked" /\ disk' = Nothing
     \/ db' = "failed" /\ UNCHANGED disk
  /\ UNCHANGED <<state, cache, pendingVars, timer, throttlerVars, stage, owed,
                 changes, sessions>>

\* Mutant: only what is still pending is written to the new file.
RecoverPending ==
  /\ db = "unlinked"
  /\ db' = "closed" /\ disk' = Apply(Nothing, Pending)
  /\ UNCHANGED <<state, cache, pendingVars, timer, throttlerVars, stage, owed,
                 erroneous, changes, sessions>>

DatabaseRecovers ==
  /\ db = "unlinked"
  /\ db' = "closed" /\ disk' = cache
  /\ UNCHANGED <<state, cache, pendingVars, timer, throttlerVars, stage, owed,
                 erroneous, changes, sessions>>

\* The new file cannot be opened, written or closed; some of it may be there.
RecoveryFails(lost) ==
  /\ db = "unlinked"
  /\ db' = "failed"
  /\ disk' = [k \in Keys |-> IF k \in lost THEN Unset ELSE cache[k]]
  /\ UNCHANGED <<state, cache, pendingVars, timer, throttlerVars, stage, owed,
                 erroneous, changes, sessions>>

\* The process exits or dies, and another one opens the same file.
Restart ==
  /\ sessions < MaxSessions /\ sessions' = sessions + 1
  /\ state' = "None" /\ cache' = Nothing
  /\ pendingInserts' = Nothing /\ pendingDeletes' = {}
  /\ timer' = FALSE
  /\ inFlight' = NoChanges /\ busy' = FALSE /\ queued' = FALSE
  /\ stage' = [c \in Callers |-> "idle"] /\ owed' = [c \in Callers |-> {}]
  /\ erroneous' = FALSE /\ db' = "open"
  /\ UNCHANGED <<disk, changes>>

Client ==
  \/ \E k \in Keys : Delete(k) \/ \E v \in Values : Set(k, v)
  \/ Flush \/ WhenFlushed \/ Close

Delayer == RunFlush \/ QueueFlush

DatabaseStep ==
  \/ UpdateSucceeds
  \/ \E lost \in SUBSET Keys, ok \in BOOLEAN : UpdateTroubled(lost, ok)

DatabaseClosing ==
  \/ DatabaseCloses \/ DatabaseUnlinks \/ DatabaseRecovers
  \/ \E lost \in SUBSET Keys : RecoveryFails(lost)

Next ==
  \/ InitSucceeds \/ InitFails
  \/ Client \/ Delayer \/ DatabaseStep \/ DatabaseClosing \/ Restart

Spec == Init /\ [][Next]_vars

\* A timer that is set fires and the database answers; nothing is assumed of
\* clients, nor that an answer is good.
Fairness ==
  /\ WF_vars(InitSucceeds \/ InitFails)
  /\ WF_vars(Delayer) /\ WF_vars(DatabaseStep) /\ WF_vars(DatabaseClosing)

FairSpec == Spec /\ Fairness

(***************************************************************************)
(* Properties                                                              *)
(***************************************************************************)
TypeOK ==
  /\ state \in {"None", "Initialized", "Closed"}
  /\ cache \in Rows /\ disk \in Rows
  /\ pendingInserts \in Rows /\ pendingDeletes \subseteq Keys
  /\ inFlight \in Request
  /\ timer \in BOOLEAN /\ busy \in BOOLEAN /\ queued \in BOOLEAN
  /\ erroneous \in BOOLEAN
  /\ stage \in [Callers -> Stages] /\ owed \in [Callers -> SUBSET Keys]
  /\ db \in {"open", "unlinked", "closed", "failed"}
  /\ changes \in 0 .. MaxChanges /\ sessions \in Nat

\* As long as the database had no error, the rows on disk, then the request in
\* flight, then what is pending, give exactly what readers see: no change is
\* lost between set() and the file, none is written twice in the wrong order,
\* however clients, the timer and the database interleave.
NothingLost ==
  state # "None" /\ ~erroneous => Apply(Apply(disk, inFlight), Pending) = cache

\* When close() of the database succeeds everything readers saw is in the file,
\* whatever errors there were before: doClose() "in case the DB is not healthy".
ClosedIsDurable == db = "closed" => disk = cache

\* What is pending always has a flush that will take it: the delayer's timer
\* is set or the throttler has a flush queued behind the one in the database.
PendingHasFlush == HasPending => timer \/ queued

\* c's promise is resolved, so what c had stored when it asked and nobody
\* changed since is in the file (of a database without errors).
Durable(c) ==
  stage[c] = "done" /\ ~erroneous => \A k \in owed[c] : disk[k] = cache[k]

\* flush(0) resolves only when everything stored before the call is on disk.
FlushIsDurable == Durable("flush")

\* The disk is always a whole earlier state of the cache, and only moves
\* forward; a crash at any point leaves that state for the next session.
Disk == INSTANCE WriteBehind
  WITH Contents <- Rows,
       mem <- IF state = "None" THEN disk ELSE cache,
       staged <- IF erroneous THEN disk ELSE Apply(disk, inFlight),
       sound <- ~erroneous,
       closed <- db = "closed"
WriteBehindSpec == Disk!Spec

\* Once clients leave a healthy store alone, all of it gets written.
EventuallyWritten == <>[](state # "None" /\ ~erroneous => disk = cache)

\* A caller of whenFlushed() gets an answer.
WhenFlushedReturns ==
  stage["whenFlushed"] = "waiting" ~> stage["whenFlushed"] # "waiting"

\* Close of a store without errors gets to close the database, whatever flush
\* it has to wait behind.
HealthyCloseReachesDatabase ==
  state = "Closed" ~> (db # "open" \/ state # "Closed" \/ erroneous)

\* doClose(): "We must always ensure the DB is closed to avoid corruption."
CloseReachesDatabase == state = "Closed" ~> (db # "open" \/ state # "Closed")
=============================================================================
