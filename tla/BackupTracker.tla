---------------------------- MODULE BackupTracker ----------------------------
(***************************************************************************)
(* The backups of unsaved working copies: WorkingCopyBackupTracker and its *)
(* native subclass over WorkingCopyBackupServiceImpl                       *)
(* (workbench/services/workingCopy).  One working copy is followed through *)
(* edits, saves, closing and opening, windows that shut down, with every   *)
(* answer the user may give, and crashes.                                  *)
(*                                                                         *)
(* The tracker has at most one pending operation per copy, a backup or a   *)
(* discard; starting another cancels its token.  What the operation does   *)
(* on disk waits its turn in the ResourceQueue of the backup file, where   *)
(* the token is looked at when the turn comes and never after.             *)
(***************************************************************************)
EXTENDS Naturals, Sequences, SequencesExt

CONSTANTS
  MaxContents,   \* bound: contents the copy ever has, the saved one at first included
  MaxSessions,   \* bound: how many times the window starts
  MaxShutdowns,  \* bound: how many times it is asked to shut down
  MaxFailures    \* bound: file operations that fail

ASSUME ConstantsAssumption ==
  /\ MaxContents \in Nat \ {0}
  /\ MaxSessions \in Nat /\ MaxShutdowns \in Nat /\ MaxFailures \in Nat

VARIABLES
  copy,       \* the working copy: status, content, modified
  version,    \* mapWorkingCopyToContentVersion, 0 when it has no entry
  file,       \* the content saved to the file itself
  pending,    \* pendingBackupOperations: kind and how far it got
  queue,      \* ioOperationQueues of the backup file
  running,    \* the head of the queue has started
  model,      \* the version in WorkingCopyBackupsModel, None without an entry
  disk,       \* the backup file
  shutdown,   \* how far the handling of a shutdown got
  saved,      \* the content and version that backupBeforeShutdown() captured
  ready,      \* isReady: the backups to restore are known
  unrestored, \* the copy is among unrestoredBackups
  lapses,     \* history: why the backup may not be what it should be
  since,      \* history: what the next session may show after this shutdown
  used        \* how much of each bound is used

copyVars     == <<copy, version, file>>
ioVars       == <<queue, running, model, disk>>
shutdownVars == <<shutdown, saved>>
restoreVars  == <<ready, unrestored>>
historyVars  == <<lapses, since>>
vars == <<copyVars, pending, ioVars, shutdownVars, restoreVars, historyVars, used>>

Contents == 1 .. MaxContents
None == 0
Corrupt == MaxContents + 1   \* truncated, and not written to its end

\* Lapses, each from the moment it happens until it is made good:
\*   missing   a backup was cancelled, ignored or failed
\*   leftover  a backup that ought to be gone may still be there
\*   late      contents changed after the shutdown was agreed to
\*   gaveUp    the user closes the window although the backup failed
Lapses == {"missing", "leftover", "late", "gaveUp"}
Lapse(l) == l \in lapses

Idle == [kind |-> "none", phase |-> "none", content |-> None]
Scheduled == [kind |-> "backup", phase |-> "timer", content |-> None]
Suspended == shutdown \notin {"none", "agreed"}
Open == copy.status = "open"
Modified == Open /\ copy.modified

\* Mutant: any backup will do.
HasAnyBackup(v) == model.exists
\* model.has(resource, version)
HasBackup(v) == model.exists /\ model.version = v

\* What the next session shows.
Recovered == IF disk \in Contents THEN disk ELSE file

\* A step of the file operations, its result and its author.
Operation(kind, content, v, by) ==
  [kind |-> kind, content |-> content, version |-> v, by |-> by, live |-> TRUE]

\* The tokens of one author are cancelled; what runs goes on.
Cancelled(q, by) ==
  [i \in DOMAIN q |-> IF q[i].by = by THEN [q[i] EXCEPT !.live = FALSE] ELSE q[i]]

Use(bound, max) == used[bound] < max /\ used' = [used EXCEPT ![bound] = @ + 1]

Init ==
  /\ copy = [status |-> "closed", content |-> None, modified |-> FALSE]
  /\ version = 0 /\ file = 1
  /\ pending = Idle
  /\ queue = <<>> /\ running = FALSE
  /\ model = [exists |-> FALSE, version |-> 0] /\ disk = None
  /\ shutdown = "none" /\ saved = [content |-> None, version |-> 0]
  /\ ready = FALSE /\ unrestored = FALSE
  /\ lapses = {} /\ since = {}
  /\ used = [contents |-> 1, sessions |-> 1, shutdowns |-> 0, failures |-> 0]

(***************************************************************************)
(* The tracker.  Schedule and Discard are what scheduleBackup() and        *)
(* discardBackup() do to the pending operation and the queue; a tracker    *)
(* that is suspended ignores the event they answer.                        *)
(***************************************************************************)
LateBy == IF shutdown = "agreed" THEN {"late"} ELSE {}

Schedule ==
  IF Suspended
  THEN /\ lapses' = lapses \cup {"missing"}
       /\ UNCHANGED <<pending, queue>>
  ELSE /\ pending' = Scheduled
       /\ queue' = Cancelled(queue, "tracker")
       /\ lapses' = (lapses \ {"missing"}) \cup LateBy

Discard ==
  IF Suspended
  THEN /\ lapses' = lapses \cup {"leftover"}
       /\ UNCHANGED <<pending, queue>>
  ELSE /\ pending' = [kind |-> "discard", phase |-> "io", content |-> None]
       /\ queue' = Append(Cancelled(queue, "tracker"), Operation("delete", None, 0, "tracker"))
       /\ lapses' = (lapses \ {"missing"}) \cup LateBy

\* cancelBackupOperations() at a shutdown: nothing schedules them again.
CancelledLapse ==
  CASE pending.kind = "backup"  -> {"missing"}
    [] pending.kind = "discard" -> {"leftover"}
    [] OTHER                    -> {}

\* The timer of scheduleBackup() fires, and the copy is asked for its content.
TimerFires ==
  /\ pending.phase = "timer"
  /\ pending' = IF Modified
                THEN [pending EXCEPT !.phase = "capture", !.content = copy.content]
                ELSE Idle
  /\ UNCHANGED <<copyVars, ioVars, shutdownVars, restoreVars, historyVars, used>>

\* The content is there: backup() of the service, with the version of now.
StoreBackup ==
  /\ pending.phase = "capture"
  /\ IF Modified /\ ~HasBackup(version)
     THEN /\ pending' = [pending EXCEPT !.phase = "io", !.content = None]
          /\ queue' = Append(queue, Operation("write", pending.content, version, "tracker"))
     ELSE /\ pending' = Idle
          /\ UNCHANGED queue
  /\ UNCHANGED <<copyVars, running, model, disk, shutdownVars, restoreVars, historyVars, used>>

(***************************************************************************)
(* The user and the working copy                                           *)
(***************************************************************************)
\* onDidChangeContent() counts the change, suspended or not.
NewContent(c, modified) ==
  /\ copy' = [copy EXCEPT !.content = c, !.modified = modified]
  /\ version' = version + 1

\* Contents are remembered from the beginning of a shutdown on.
Remember(c) == since' = IF shutdown = "none" THEN since ELSE since \cup {c}

\* Mutant: changes are only counted while the tracker works.
EditUncounted ==
  /\ Open
  /\ Use("contents", MaxContents)
  /\ IF Suspended
     THEN copy' = [copy EXCEPT !.content = used'.contents, !.modified = TRUE] /\ UNCHANGED version
     ELSE NewContent(used'.contents, TRUE)
  /\ Remember(used'.contents)
  /\ Schedule
  /\ UNCHANGED <<file, running, model, disk, shutdownVars, restoreVars>>

Edit ==
  /\ Open
  /\ Use("contents", MaxContents)
  /\ NewContent(used'.contents, TRUE) /\ Remember(used'.contents)
  /\ Schedule
  /\ UNCHANGED <<file, running, model, disk, shutdownVars, restoreVars>>

\* Undo to the saved version, or revert.
BackToSaved ==
  /\ Modified
  /\ NewContent(file, FALSE) /\ Remember(file)
  /\ Discard
  /\ UNCHANGED <<file, running, model, disk, shutdownVars, restoreVars, used>>

Save ==
  /\ Modified
  /\ file' = copy.content /\ copy' = [copy EXCEPT !.modified = FALSE]
  /\ Discard
  /\ UNCHANGED <<version, running, model, disk, shutdownVars, restoreVars, since, used>>

\* The copy is disposed: its content version is forgotten.
Close ==
  /\ Open /\ ~copy.modified /\ ~Suspended
  /\ copy' = [status |-> "closed", content |-> None, modified |-> FALSE]
  /\ version' = 0
  /\ Discard
  /\ UNCHANGED <<file, running, model, disk, shutdownVars, restoreVars, since, used>>

\* A new working copy registers; resolving it looks for a backup first, and
\* that waits behind all writing and deleting of the backup.
OpenCopy ==
  /\ copy.status = "closed" /\ ~Suspended
  /\ copy' = [copy EXCEPT !.status = "opening"]
  /\ queue' = Append(queue, Operation("read", None, 0, "copy"))
  /\ UNCHANGED <<version, file, pending, running, model, disk, shutdownVars, restoreVars,
                 historyVars, used>>

(***************************************************************************)
(* Restoring.  The list of backups is made once the window has restored    *)
(* and all operations are done; handlers then open what is on it.          *)
(***************************************************************************)
ResolveBackupsToRestore ==
  /\ ~ready /\ queue = <<>>
  /\ ready' = TRUE
  /\ unrestored' = (model.exists /\ disk \in Contents)
  /\ UNCHANGED <<copyVars, pending, ioVars, shutdownVars, historyVars, used>>

BackupRestored ==
  /\ unrestored /\ Open
  /\ unrestored' = FALSE
  /\ UNCHANGED <<copyVars, pending, ioVars, shutdownVars, ready, historyVars, used>>

(***************************************************************************)
(* The operations on the backup file, one at a time                        *)
(***************************************************************************)
\* Mutant: an operation that is over clears the one that replaced it, too.
SettlesAnyway(op, shutdownGoesTo) ==
  /\ queue' = Tail(queue)
  /\ running' = FALSE
  /\ pending' = IF op.by = "tracker" THEN Idle ELSE pending
  /\ shutdown' = IF op.by = "shutdown" /\ op.live THEN shutdownGoesTo ELSE shutdown
  /\ UNCHANGED saved

\* The promise of the head settles: the tracker's operation is over, or the
\* shutdown that awaits it goes on, unless it stopped waiting.
Settles(op, shutdownGoesTo) ==
  /\ queue' = Tail(queue)
  /\ running' = FALSE
  /\ pending' = IF op.by = "tracker" /\ op.live THEN Idle ELSE pending
  /\ shutdown' = IF op.by = "shutdown" /\ op.live THEN shutdownGoesTo ELSE shutdown
  /\ UNCHANGED saved

\* The token was cancelled meanwhile, or the backup is there already.
SkipOperation ==
  /\ queue # <<>> /\ ~running
  /\ LET op == Head(queue) IN
     /\ op.live => op.kind = "write" /\ HasBackup(op.version)
     /\ Settles(op, "agreed")
  /\ UNCHANGED <<copyVars, model, disk, restoreVars, historyVars, used>>

\* writeFile() truncates the file before it writes.
StartOperation ==
  /\ queue # <<>> /\ ~running
  /\ LET op == Head(queue) IN
     /\ op.live /\ op.kind # "read"
     /\ op.kind = "write" => ~HasBackup(op.version)
     /\ disk' = IF op.kind = "write" THEN Corrupt ELSE disk
  /\ running' = TRUE
  /\ UNCHANGED <<copyVars, pending, queue, model, shutdownVars, restoreVars, historyVars, used>>

\* A shutdown writes the backup also of a copy that was saved meanwhile.
UnwantedBy(op) == IF op.by = "shutdown" /\ ~Modified THEN {"leftover"} ELSE {}

\* A backup of what the copy shows makes good what was missed before.
FinishWrite ==
  /\ running /\ Head(queue).kind = "write"
  /\ LET op == Head(queue) IN
     /\ \/ disk' = op.content
        \/ disk = None /\ disk' = None   \* deleted while it was open
     /\ model' = [exists |-> TRUE, version |-> op.version]
     /\ lapses' = IF Modified /\ disk' = copy.content /\ op.version = version
                  THEN lapses \ {"missing", "leftover"} ELSE lapses \cup UnwantedBy(op)
     /\ Settles(op, "agreed")
  /\ UNCHANGED <<copyVars, restoreVars, since, used>>

FinishDelete ==
  /\ running /\ Head(queue).kind = "delete"
  /\ disk' = None /\ model' = [exists |-> FALSE, version |-> 0]
  /\ lapses' = IF Head(queue).live THEN lapses \ {"leftover"} ELSE lapses
  /\ Settles(Head(queue), "agreed")
  /\ UNCHANGED <<copyVars, restoreVars, since, used>>

\* An error is logged; only the shutdown asks the user about one of a backup.
OperationFails ==
  /\ running
  /\ Use("failures", MaxFailures)
  /\ lapses' = lapses \cup UnwantedBy(Head(queue))
                \cup {IF Head(queue).kind = "write" THEN "missing" ELSE "leftover"}
  /\ Settles(Head(queue), IF Head(queue).kind = "write" THEN "error" ELSE "agreed")
  /\ UNCHANGED <<copyVars, model, disk, restoreVars, since>>

\* The copy that opens gets the backup, and is then modified, or the file.
\* The version starts at 0 like that of a backup found on disk.
ReadBackup ==
  /\ queue # <<>> /\ ~running /\ Head(queue).kind = "read"
  /\ running' = FALSE
  /\ IF model.exists /\ disk \in Contents
     THEN /\ copy' = [status |-> "open", content |-> disk, modified |-> TRUE]
          /\ lapses' = (IF model.version = 0 THEN lapses \ {"leftover"} ELSE lapses) \cup LateBy
          /\ pending' = IF Suspended THEN pending ELSE Scheduled
          /\ queue' = IF Suspended THEN Tail(queue) ELSE Tail(Cancelled(queue, "tracker"))
     ELSE /\ copy' = [status |-> "open", content |-> file, modified |-> FALSE]
          /\ queue' = Tail(queue)
          /\ UNCHANGED <<lapses, pending>>
  /\ Remember(copy'.content)
  /\ UNCHANGED <<version, file, model, disk, shutdownVars, restoreVars, used>>

(***************************************************************************)
(* Shutting down: onFinalBeforeShutdown().  The operations under way are   *)
(* cancelled and the tracker is suspended until there is a veto or an      *)
(* agreement.  What the settings ask for (auto save, hot exit) is a free   *)
(* choice.                                                                 *)
(***************************************************************************)
NothingSaved == [content |-> None, version |-> 0]

\* Backups are not discarded before all of them are known.
KeptBackup == IF model.exists \/ queue # <<>> THEN {"leftover"} ELSE {}

BeginShutdown ==
  /\ shutdown = "none"
  /\ Use("shutdowns", MaxShutdowns)
  /\ shutdown' = IF Modified THEN "modified" ELSE "unmodified"
  /\ pending' = Idle /\ queue' = Cancelled(queue, "tracker")
  /\ lapses' = lapses \cup CancelledLapse
  /\ since' = IF Open THEN {copy.content} ELSE {file, Recovered}
  /\ UNCHANGED <<copyVars, running, model, disk, saved, restoreVars>>

\* With nothing modified every backup goes, the folder at once and not in its
\* turn, except those not restored yet.
DiscardAllBackups ==
  /\ shutdown = "unmodified" /\ shutdown' = "agreed"
  /\ IF ready /\ ~unrestored
     THEN /\ disk' = None /\ model' = [exists |-> FALSE, version |-> 0]
          /\ lapses' = IF running /\ Head(queue).kind = "write"
                       THEN lapses \cup {"leftover"} ELSE lapses \ {"leftover"}
     ELSE /\ lapses' = lapses \cup KeptBackup
          /\ UNCHANGED <<disk, model>>
  /\ UNCHANGED <<copyVars, pending, queue, running, saved, restoreVars, since, used>>

\* noVeto() for a copy that was saved or reverted.
DiscardHandled ==
  /\ shutdown = "handled"
  /\ IF ready
     THEN /\ shutdown' = "discard"
          /\ queue' = Append(queue, Operation("delete", None, 0, "shutdown"))
          /\ UNCHANGED lapses
     ELSE /\ shutdown' = "agreed"
          /\ lapses' = lapses \cup KeptBackup
          /\ UNCHANGED queue
  /\ UNCHANGED <<copyVars, pending, running, model, disk, saved, restoreVars, since, used>>

\* Auto save is over, with or without success, or it is off.
HandleModified ==
  /\ shutdown = "modified"
  /\ shutdown' \in IF Modified THEN {"hotExit", "confirm"} ELSE {"handled"}
  /\ UNCHANGED <<copyVars, pending, ioVars, saved, restoreVars, historyVars, used>>

\* backupBeforeShutdown(): the version is read first, then the content.
BackupBeforeShutdown ==
  /\ shutdown = "hotExit"
  /\ IF HasBackup(version)
     THEN shutdown' = "agreed" /\ UNCHANGED saved
     ELSE /\ shutdown' = "capture"
          /\ saved' = [content |-> copy.content, version |-> version]
  /\ UNCHANGED <<copyVars, pending, ioVars, restoreVars, historyVars, used>>

StoreBeforeShutdown ==
  /\ shutdown = "capture"
  /\ saved' = NothingSaved
  /\ IF HasBackup(saved.version)
     THEN shutdown' = "agreed" /\ UNCHANGED queue
     ELSE /\ shutdown' = "backup"
          /\ queue' = Append(queue, Operation("write", saved.content, saved.version, "shutdown"))
  /\ UNCHANGED <<copyVars, pending, running, model, disk, restoreVars, historyVars, used>>

\* The user stops waiting: for a backup, to be asked instead, or for a discard.
StopWaiting ==
  /\ shutdown \in {"capture", "backup", "discard"}
  /\ shutdown' = IF shutdown = "discard" THEN "agreed" ELSE "confirm"
  /\ saved' = NothingSaved
  /\ queue' = [i \in DOMAIN queue |->
                 IF queue[i].by # "shutdown" THEN queue[i]
                 ELSE IF queue[i].kind = "write" THEN [queue[i] EXCEPT !.live = FALSE]
                 ELSE [queue[i] EXCEPT !.by = "nobody"]]
  /\ lapses' = IF shutdown = "discard" THEN lapses \cup {"leftover"} ELSE lapses
  /\ UNCHANGED <<copyVars, pending, running, model, disk, restoreVars, since, used>>

\* confirmBeforeShutdown(): save, do not save, or cancel.  Saving has ended
\* when its success is looked at; the save itself is Save.
ConfirmSave ==
  /\ shutdown = "confirm" /\ Modified /\ shutdown' = "saving"
  /\ UNCHANGED <<copyVars, pending, ioVars, saved, restoreVars, historyVars, used>>

SavedBeforeShutdown ==
  /\ shutdown = "saving" /\ ~Modified /\ shutdown' = "handled"
  /\ UNCHANGED <<copyVars, pending, ioVars, saved, restoreVars, historyVars, used>>

\* A soft revert: the content stays in the editor.
ConfirmDoNotSave ==
  /\ shutdown = "confirm" /\ shutdown' = "handled"
  /\ copy' = [copy EXCEPT !.modified = FALSE]
  /\ lapses' = lapses \cup {"leftover"}
  /\ since' = {file}
  /\ UNCHANGED <<version, file, pending, ioVars, saved, restoreVars, used>>

\* "Close anyway", although the backup failed.
CloseAnyway ==
  /\ shutdown = "error" /\ shutdown' = "agreed"
  /\ lapses' = lapses \cup {"gaveUp"}
  /\ UNCHANGED <<copyVars, pending, ioVars, saved, restoreVars, since, used>>

\* Cancelled in a dialog, or not saved; the tracker resumes.
Veto ==
  /\ shutdown \in {"confirm", "error"} \cup (IF Modified THEN {"saving"} ELSE {})
  /\ shutdown' = "none" /\ since' = {}
  /\ UNCHANGED <<copyVars, pending, ioVars, saved, restoreVars, lapses, used>>

\* onWillShutdown(): from now on nothing is backed up.
WillShutdown ==
  /\ shutdown = "agreed" /\ shutdown' = "leaving"
  /\ pending' = Idle /\ queue' = Cancelled(queue, "tracker")
  /\ lapses' = lapses \cup CancelledLapse
  /\ UNCHANGED <<copyVars, running, model, disk, saved, restoreVars, since, used>>

\* The window is gone, in the end or by a crash, and another one starts over
\* the same files: the names of the backups are all it knows.
Restart ==
  /\ Use("sessions", MaxSessions)
  /\ copy' = [status |-> "closed", content |-> None, modified |-> FALSE]
  /\ version' = 0
  /\ pending' = Idle
  /\ queue' = <<>> /\ running' = FALSE
  /\ model' = [exists |-> disk # None, version |-> 0]
  /\ shutdown' = "none" /\ saved' = NothingSaved
  /\ ready' = FALSE /\ unrestored' = FALSE
  /\ lapses' = (IF disk # None THEN {"leftover"} ELSE {}) /\ since' = {}
  /\ UNCHANGED <<file, disk>>

User == Edit \/ BackToSaved \/ Save \/ Close \/ OpenCopy
Restoring == ResolveBackupsToRestore \/ BackupRestored
Operations ==
  SkipOperation \/ StartOperation \/ FinishWrite \/ FinishDelete \/ OperationFails \/ ReadBackup
Shutdown ==
  \/ BeginShutdown \/ DiscardAllBackups \/ DiscardHandled \/ HandleModified
  \/ BackupBeforeShutdown \/ StoreBeforeShutdown \/ StopWaiting
  \/ ConfirmSave \/ SavedBeforeShutdown \/ ConfirmDoNotSave \/ CloseAnyway \/ Veto
  \/ WillShutdown

Next ==
  \/ User \/ Restoring \/ TimerFires \/ StoreBackup \/ Operations \/ Shutdown \/ Restart

Spec == Init /\ [][Next]_vars

\* Timers fire, copies give their content, the file system answers.
FairSpec == Spec /\ WF_vars(TimerFires) /\ WF_vars(StoreBackup) /\ WF_vars(Operations)

(***************************************************************************)
(* Properties                                                              *)
(***************************************************************************)
OperationType == [kind : {"write", "delete", "read"}, content : Contents \cup {None},
               version : Nat, by : {"tracker", "shutdown", "copy", "nobody"}, live : BOOLEAN]

TypeOK ==
  /\ copy \in [status : {"closed", "opening", "open"}, content : Contents \cup {None},
               modified : BOOLEAN]
  /\ version \in Nat /\ file \in Contents
  /\ pending \in [kind : {"none", "backup", "discard"},
                  phase : {"none", "timer", "capture", "io"}, content : Contents \cup {None}]
  /\ queue \in Seq(OperationType) /\ running \in BOOLEAN
  /\ model \in [exists : BOOLEAN, version : Nat] /\ disk \in Contents \cup {None, Corrupt}
  /\ shutdown \in {"none", "modified", "unmodified", "hotExit", "capture", "backup", "confirm",
                   "saving", "handled", "discard", "error", "agreed", "leaving"}
  /\ saved \in [content : Contents \cup {None}, version : Nat]
  /\ ready \in BOOLEAN /\ unrestored \in BOOLEAN
  /\ lapses \subseteq Lapses /\ since \subseteq Contents

\* A backup that counts as current, for a shutdown or for the tracker, is of
\* the contents the copy shows, although versions start anew whenever the copy
\* is closed and although contents are captured and written asynchronously.
BackupIsCurrent ==
  Modified /\ HasBackup(version) /\ ~Lapse("leftover") => disk = copy.content

\* Whenever everything is done, a modified copy has its contents backed up and
\* any other copy has no backup that a later session would bring back.
BackupsMatch ==
  shutdown = "none" /\ pending = Idle /\ queue = <<>> /\ ~Lapse("leftover") =>
    /\ Modified /\ ~Lapse("missing") => disk = copy.content
    /\ ~Modified => disk = None

\* After a shutdown that was agreed to, the next session shows what the copy
\* had when the shutdown began or later; or, when the user chose not to save,
\* what was saved.
ShutdownKeepsContents ==
  shutdown = "leaving" /\ lapses \cap {"leftover", "late", "gaveUp"} = {} => Recovered \in since

\* Once the user stops, what is modified is backed up.
EventuallyBackedUp ==
  <>[](Modified /\ shutdown = "none" /\ ~Lapse("missing") /\ ~Lapse("leftover")
         => disk = copy.content)
=============================================================================
