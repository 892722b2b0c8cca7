---------------------------- MODULE TextFileModel ----------------------------
(***************************************************************************)
(* A text file open in the editor: TextFileEditorModel (workbench/services *)
(* /textfile), its saves sequenced by TaskSequentializer (base/common/     *)
(* async.ts), its reloads queued by TextFileEditorModelManager, and the    *)
(* checks FileService makes before it reads or writes (platform/files).    *)
(* Other programs change the same file.                                    *)
(*                                                                         *)
(* An action is what runs between two awaits: the user types in between,   *)
(* the file changes in between.  A text is a number, fresh for every edit  *)
(* and for every change from outside; texts may have the same length.      *)
(* Orphan tracking, encodings, readonly files and disposal are left out.   *)
(***************************************************************************)
EXTENDS Integers, FiniteSets

CONSTANTS
  Lengths,       \* how many different lengths texts have
  MaxVersions,   \* bound: versions of the model after which nobody edits
  MaxChanges,    \* bound: changes of the file by others, or by failing writes
  MaxSaves,      \* bound: requests to save
  MaxReverts,    \* bound: requests to revert
  FailingReads,  \* the resolves whose reading may fail: reloads, reverts
  FailingWrites

ASSUME ConstantsAssumption ==
  /\ Lengths \in Nat \ {0}
  /\ MaxVersions \in Nat /\ MaxChanges \in Nat
  /\ MaxSaves \in Nat /\ MaxReverts \in Nat
  /\ FailingReads \subseteq {"reload", "revert"} /\ FailingWrites \in BOOLEAN

VARIABLES
  model,      \* the text shown, and the alternative version id it has
  past,       \* versions the model was in, where undo and redo lead
  versionId,  \* incremented by every change of the content
  flags,      \* dirty, inConflictMode, inErrorMode, bufferSavedVersionId
  stat,       \* lastResolvedFileStat: the version of the file last resolved
  saves,      \* the saves under way
  running,    \* the task id TaskSequentializer holds as running
  queued,     \* the save it holds as queued
  resolve,    \* the resolve under way
  reload,     \* a reload is queued
  revert,     \* the revert under way
  disk,       \* the file: text and modification time
  changed,    \* a file event for an update or an addition is on its way
  texts,      \* how many texts there are
  held,       \* history: texts the file has held
  shown,      \* history: texts the model has shown
  reverted,   \* history: texts whose revert was asked for
  raced,      \* history: the file changed between two looks of the model at it
  unread,     \* history: reading the file failed
  left        \* what the bounds still allow

bufferVars  == <<model, past, versionId>>
saveVars    == <<saves, running, queued>>
resolveVars == <<resolve, reload, revert>>
fileVars    == <<disk, changed>>
historyVars == <<held, shown, reverted, raced, unread>>
vars == <<bufferVars, flags, stat, saveVars, resolveVars, fileVars, texts,
          historyVars, left>>

NoText == -1     \* the file is not there
NoTask == -1
Kinds == {"auto", "explicit", "overwrite"}

Length(text) == text % Lengths

Flags == [dirty : BOOLEAN, conflict : BOOLEAN, error : BOOLEAN, saved : Nat]
FileVersion == [text : Nat \cup {NoText}, mtime : Nat]
Save == [task : Nat, kind : Kinds, phase : {"throttled", "participants", "validating", "writing", "stat"},
         cancelled : BOOLEAN, version : Nat \cup {NoTask}, text : Nat, stat : FileVersion]
NoResolve == [phase |-> "none", force |-> FALSE, version |-> 0,
              stat |-> [text |-> 0, mtime |-> 0], text |-> 0]

\* doSetDirty(false), of the alternative version the model is in.
Clean(alt) == [dirty |-> FALSE, conflict |-> FALSE, error |-> FALSE, saved |-> alt]

NoRevert == [phase |-> "none", was |-> Clean(0)]

Init ==
  /\ model = [text |-> 0, alt |-> 0] /\ past = {} /\ versionId = 0
  /\ flags = Clean(0)
  /\ stat = [text |-> 0, mtime |-> 0]
  /\ saves = {} /\ running = NoTask /\ queued = "none"
  /\ resolve = NoResolve /\ reload = FALSE /\ revert = NoRevert
  /\ disk = [text |-> 0, mtime |-> 0] /\ changed = FALSE
  /\ texts = 1
  /\ held = {0} /\ shown = {0} /\ reverted = {} /\ raced = FALSE /\ unread = FALSE
  /\ left = [changes |-> MaxChanges, saves |-> MaxSaves, reverts |-> MaxReverts]

(***************************************************************************)
(* Editing                                                                 *)
(***************************************************************************)
Content(text, alt) ==
  /\ model' = [text |-> text, alt |-> alt]
  /\ past' = past \cup {model}
  /\ versionId' = versionId + 1
  /\ shown' = shown \cup {text}

\* onModelContentChanged: reaching the saved version again clears the flags.
Edited(alt) ==
  flags' = IF alt = flags.saved THEN Clean(alt) ELSE [flags EXCEPT !.dirty = TRUE]

NewContent ==
  /\ versionId < MaxVersions
  /\ Content(texts, versionId + 1)
  /\ Edited(versionId + 1)
  /\ texts' = texts + 1

Edit ==
  /\ NewContent
  /\ UNCHANGED <<stat, saveVars, resolveVars, fileVars, held, reverted, raced, unread, left>>

\* Undo and redo, also several steps at once.
Undo ==
  /\ versionId < MaxVersions
  /\ \E earlier \in past :
       /\ earlier.alt # model.alt
       /\ Content(earlier.text, earlier.alt)
       /\ Edited(earlier.alt)
  /\ UNCHANGED <<stat, saveVars, resolveVars, fileVars, texts, held, reverted, raced, unread, left>>

(***************************************************************************)
(* Saving.  `explicit` is the save command, which forces saving a model    *)
(* that is not dirty; `overwrite` the answer to the notification of a      *)
(* conflict; `auto` stands for the saves that are not asked for.           *)
(***************************************************************************)
Forced(kind) == kind # "auto"

Participating(s) == \E o \in s.saves : o.phase = "participants"

\* cancelRunning: only the steps before the write listen.
CancelRunning(s) ==
  {IF o.task = s.running /\ o.phase \in {"throttled", "participants"}
     THEN [o EXCEPT !.cancelled = TRUE] ELSE o : o \in s.saves}

NewSave(kind, phase) ==
  [task |-> versionId, kind |-> kind, phase |-> phase, cancelled |-> FALSE,
   version |-> NoTask, text |-> 0, stat |-> [text |-> 0, mtime |-> 0]]

\* doSave: the states it may lead to.  An auto save may wait, as after an undo.
DoSave(s, kind, dirty) ==
  IF \/ Participating(s)
     \/ s.running = versionId
     \/ ~Forced(kind) /\ ~dirty
  THEN {s}
  ELSE IF s.running # NoTask
  THEN {[s EXCEPT !.saves = CancelRunning(s), !.queued = kind]}
  ELSE {[s EXCEPT !.saves = @ \cup {NewSave(kind, phase)}, !.running = versionId] :
          phase \in IF kind = "auto" THEN {"throttled", "participants"} ELSE {"participants"}}

\* Mutant: doneRunning not looking at the id of the task.
DoneAnyTask(s, task, dirty) ==
  IF task = NoTask THEN {s}
  ELSE LET free == [s EXCEPT !.running = NoTask, !.queued = "none"]
       IN  IF s.queued = "none" THEN {free} ELSE DoSave(free, s.queued, dirty)

\* doneRunning of a task, with the queued save it starts.
DoneRunning(s, task, dirty) ==
  IF task = NoTask \/ s.running # task THEN {s}
  ELSE LET free == [s EXCEPT !.running = NoTask, !.queued = "none"]
       IN  IF s.queued = "none" THEN {free} ELSE DoSave(free, s.queued, dirty)

\* Mutant: nobody marks the write as done.
EndedOuter(s, o, dirty) == DoneRunning([s EXCEPT !.saves = @ \ {o}], o.task, dirty)

\* The promise of the write settles before that of the whole save.
Ended(s, o, dirty) ==
  UNION {DoneRunning(t, o.task, dirty) :
           t \in DoneRunning([s EXCEPT !.saves = @ \ {o}], o.version, dirty)}

Saving == [saves |-> saves, running |-> running, queued |-> queued]
Becomes(s) == saves' = s.saves /\ running' = s.running /\ queued' = s.queued

RequestSave(kind) ==
  /\ left.saves > 0 /\ left' = [left EXCEPT !.saves = @ - 1]
  /\ kind = "auto" => ~flags.conflict /\ ~flags.error
  /\ kind = "overwrite" => flags.conflict
  /\ \E s \in DoSave(Saving, kind, flags.dirty) : Becomes(s)
  /\ UNCHANGED <<bufferVars, flags, stat, resolveVars, fileVars, texts, historyVars>>

\* `o` goes on as `next`.
Continue(o, next) ==
  /\ saves' = (saves \ {o}) \cup {next}
  /\ UNCHANGED queued

\* The user cancels the progress, or a participant the save.
CancelSave(o) ==
  /\ o.phase \in {"throttled", "participants"} /\ ~o.cancelled
  /\ Continue(o, [o EXCEPT !.cancelled = TRUE])
  /\ UNCHANGED <<bufferVars, flags, stat, running, resolveVars, fileVars, texts, historyVars, left>>

StartParticipants(o) ==
  /\ o.phase = "throttled" /\ ~o.cancelled
  /\ Continue(o, [o EXCEPT !.phase = "participants"])
  /\ UNCHANGED <<bufferVars, flags, stat, running, resolveVars, fileVars, texts, historyVars, left>>

ParticipantEdits(o) ==
  /\ o.phase = "participants"
  /\ NewContent
  /\ UNCHANGED <<stat, saveVars, resolveVars, fileVars, held, reverted, raced, unread, left>>

GiveUpSave(o) ==
  /\ o.phase \in {"throttled", "participants"} /\ o.cancelled
  /\ \E s \in Ended(Saving, o, flags.dirty) : Becomes(s)
  /\ UNCHANGED <<bufferVars, flags, stat, resolveVars, fileVars, texts, historyVars, left>>

\* The snapshot is taken; the write runs under the version it is of.
StartWrite(o) ==
  /\ o.phase = "participants" /\ ~o.cancelled
  /\ flags' = [flags EXCEPT !.error = FALSE]
  /\ Continue(o, [o EXCEPT !.phase = "validating", !.version = versionId,
                           !.text = model.text, !.stat = stat])
  /\ running' = versionId
  /\ UNCHANGED <<bufferVars, stat, resolveVars, fileVars, texts, historyVars, left>>

\* validateWriteFile: changed since, to another length and other contents.
ModifiedSince(o) ==
  /\ o.kind # "overwrite"
  /\ disk.text # NoText
  /\ o.stat.mtime < disk.mtime
  /\ Length(o.stat.text) # Length(disk.text)
  /\ o.text # disk.text

SaveError(o, isConflict) ==
  /\ flags' = [flags EXCEPT !.dirty = TRUE, !.error = TRUE, !.conflict = @ \/ isConflict]
  /\ \E s \in Ended(Saving, o, TRUE) : Becomes(s)
  /\ UNCHANGED <<bufferVars, stat, resolveVars>>

Validate(o) ==
  /\ o.phase = "validating" /\ ~ModifiedSince(o)
  /\ Continue(o, [o EXCEPT !.phase = "writing"])
  /\ UNCHANGED <<bufferVars, flags, stat, running, resolveVars, fileVars, texts, historyVars, left>>

Conflict(o) ==
  /\ o.phase = "validating" /\ ModifiedSince(o)
  /\ SaveError(o, TRUE)
  /\ UNCHANGED <<fileVars, texts, historyVars, left>>

FileBecomes(text) ==
  /\ disk' = [text |-> text, mtime |-> disk.mtime + 1]
  /\ changed' = (text # NoText)
  /\ held' = held \cup ({text} \ {NoText})

WriteFile(o) ==
  /\ o.phase = "writing"
  /\ FileBecomes(o.text)
  /\ Continue(o, [o EXCEPT !.phase = "stat"])
  /\ UNCHANGED <<bufferVars, flags, stat, running, resolveVars, texts, shown, reverted, raced, unread, left>>

\* The write is refused, or breaks off with something in the file.
WriteFails(o) ==
  /\ FailingWrites
  /\ o.phase = "writing"
  /\ \/ UNCHANGED <<fileVars, held, texts, raced, left>>
     \/ /\ left.changes > 0 /\ left' = [left EXCEPT !.changes = @ - 1]
        /\ FileBecomes(texts) /\ texts' = texts + 1
        /\ raced' = (raced \/ resolve.phase = "late")
  /\ SaveError(o, FALSE)
  /\ UNCHANGED <<shown, reverted, unread>>

\* updateLastResolvedFileStat never goes back.
Newer(new) == IF stat.mtime <= new.mtime THEN new ELSE stat

\* Mutant: a save cleans whatever was typed during the write.
CleanAnyVersion(o) ==
  /\ o.phase = "stat" /\ disk.text # NoText
  /\ stat' = Newer(disk)
  /\ flags' = Clean(model.alt)
  /\ \E s \in Ended(Saving, o, flags'.dirty) : Becomes(s)
  /\ UNCHANGED <<bufferVars, resolveVars, fileVars, texts, historyVars, left>>

\* handleSaveSuccess, with the stat the file service makes after the write.
SaveSucceeds(o) ==
  /\ o.phase = "stat" /\ disk.text # NoText
  /\ stat' = Newer(disk)
  /\ flags' = IF o.version = versionId THEN Clean(model.alt) ELSE flags
  /\ \E s \in Ended(Saving, o, flags'.dirty) : Becomes(s)
  /\ UNCHANGED <<bufferVars, resolveVars, fileVars, texts, historyVars, left>>

\* The file was deleted right after the write.
StatFails(o) ==
  /\ o.phase = "stat" /\ disk.text = NoText
  /\ SaveError(o, FALSE)
  /\ UNCHANGED <<fileVars, texts, historyVars, left>>

(***************************************************************************)
(* Resolving.  The manager runs one at a time: a reload after a file event *)
(* or the forced one of a revert.                                          *)
(***************************************************************************)
MayResolve(dirty) == ~dirty /\ running = NoTask

Reading(force) ==
  [NoResolve EXCEPT !.phase = "stat", !.force = force, !.version = versionId, !.stat = stat]

\* A change of the file is noticed; dirty models are never reloaded.
FileEvent ==
  /\ changed /\ changed' = FALSE
  /\ reload' = (reload \/ ~flags.dirty)
  /\ UNCHANGED <<bufferVars, flags, stat, saveVars, resolve, revert, disk, texts, historyVars, left>>

Reload ==
  /\ reload /\ reload' = FALSE
  /\ resolve.phase = "none"
  /\ resolve' = IF MayResolve(flags.dirty) THEN Reading(FALSE) ELSE resolve
  /\ UNCHANGED <<bufferVars, flags, stat, saveVars, revert, fileVars, texts, historyVars, left>>

\* Resolving for a revert: refused, and given up, if dirty again or saving.
RevertReads(was, dirty) ==
  IF MayResolve(dirty)
  THEN resolve' = Reading(TRUE) /\ revert' = [phase |-> "reading", was |-> was]
  ELSE resolve' = resolve /\ revert' = NoRevert

\* The revert command, which forces reverting a model that is not dirty.
Revert ==
  /\ revert.phase = "none"
  /\ left.reverts > 0 /\ left' = [left EXCEPT !.reverts = @ - 1]
  /\ flags' = Clean(model.alt)
  /\ reverted' = reverted \cup {model.text}
  /\ IF resolve.phase = "none" THEN RevertReads(flags, FALSE)
     ELSE revert' = [phase |-> "waiting", was |-> flags] /\ resolve' = resolve
  /\ UNCHANGED <<bufferVars, stat, saveVars, reload, fileVars, texts, held, shown, raced, unread>>

RevertResolves ==
  /\ revert.phase = "waiting" /\ resolve.phase = "none"
  /\ RevertReads(revert.was, flags.dirty)
  /\ UNCHANGED <<bufferVars, flags, stat, saveVars, reload, fileVars, texts, historyVars, left>>

\* The resolve is over, and with it the revert it is for.
Resolved ==
  /\ resolve' = NoResolve
  /\ revert' = IF resolve.force THEN NoRevert ELSE revert
  /\ UNCHANGED reload

\* Mutant: only the length is compared.
SameLength ==
  /\ ~resolve.force
  /\ Length(disk.text) = Length(resolve.stat.text)

\* validateReadFile with the etag of the version last resolved.
NotModifiedSince ==
  /\ ~resolve.force
  /\ disk.mtime = resolve.stat.mtime
  /\ Length(disk.text) = Length(resolve.stat.text)

StatFile ==
  /\ resolve.phase = "stat" /\ disk.text # NoText /\ ~NotModifiedSince
  /\ resolve' = [resolve EXCEPT !.phase = "read", !.stat = disk]
  /\ UNCHANGED <<bufferVars, flags, stat, saveVars, reload, revert, fileVars, texts, historyVars, left>>

NotModified ==
  /\ resolve.phase = "stat" /\ disk.text # NoText /\ NotModifiedSince
  /\ stat' = Newer(disk)
  /\ Resolved
  /\ UNCHANGED <<bufferVars, flags, saveVars, fileVars, texts, historyVars, left>>

\* Without an etag the file is read while its stat is made, maybe before.
ReadEarly ==
  /\ resolve.phase = "stat" /\ resolve.force /\ disk.text # NoText
  /\ resolve' = [resolve EXCEPT !.phase = "late", !.text = disk.text]
  /\ UNCHANGED <<bufferVars, flags, stat, saveVars, reload, revert, fileVars, texts, historyVars, left>>

StatLate ==
  /\ resolve.phase = "late" /\ disk.text # NoText
  /\ resolve' = [resolve EXCEPT !.phase = "apply", !.stat = disk]
  /\ UNCHANGED <<bufferVars, flags, stat, saveVars, reload, revert, fileVars, texts, historyVars, left>>

\* Ignored when the model is resolved, and ignored by a revert.
NotFound ==
  /\ resolve.phase \in {"stat", "read", "late"} /\ disk.text = NoText
  /\ Resolved
  /\ UNCHANGED <<bufferVars, flags, stat, saveVars, fileVars, texts, historyVars, left>>

ReadFile ==
  /\ resolve.phase = "read" /\ disk.text # NoText
  /\ resolve' = [resolve EXCEPT !.phase = "apply", !.text = disk.text]
  /\ UNCHANGED <<bufferVars, flags, stat, saveVars, reload, revert, fileVars, texts, historyVars, left>>

\* Any other error; a revert sets the flags back to what they were.
ReadFails ==
  /\ (IF resolve.force THEN "revert" ELSE "reload") \in FailingReads
  /\ resolve.phase \in {"stat", "read", "late"}
  /\ flags' = IF resolve.force THEN revert.was ELSE flags
  /\ unread' = TRUE
  /\ Resolved
  /\ UNCHANGED <<bufferVars, stat, saveVars, fileVars, texts, held, shown, reverted, raced, left>>

\* Mutant: the version read is remembered before the content is dropped.
DiscardLate ==
  /\ resolve.phase = "apply" /\ resolve.version # versionId
  /\ stat' = Newer(resolve.stat)
  /\ Resolved
  /\ UNCHANGED <<bufferVars, flags, saveVars, fileVars, texts, historyVars, left>>

\* The content changed meanwhile: what was read is dropped.
Discard ==
  /\ resolve.phase = "apply" /\ resolve.version # versionId
  /\ Resolved
  /\ UNCHANGED <<bufferVars, flags, stat, saveVars, fileVars, texts, historyVars, left>>

\* Mutant: what was read is applied whatever was typed meanwhile.
ApplyAnyVersion ==
  /\ resolve.phase = "apply"
  /\ stat' = Newer(resolve.stat)
  /\ IF resolve.text = model.text THEN UNCHANGED <<bufferVars, shown>>
     ELSE Content(resolve.text, versionId + 1)
  /\ flags' = Clean(model'.alt)
  /\ Resolved
  /\ UNCHANGED <<saveVars, fileVars, texts, held, reverted, raced, unread, left>>

\* resolveFromContent; a model that shows the text already is left alone.
Apply ==
  /\ resolve.phase = "apply" /\ resolve.version = versionId
  /\ stat' = Newer(resolve.stat)
  /\ IF resolve.text = model.text THEN UNCHANGED <<bufferVars, shown>>
     ELSE Content(resolve.text, versionId + 1)
  /\ flags' = Clean(model'.alt)
  /\ Resolved
  /\ UNCHANGED <<saveVars, fileVars, texts, held, reverted, raced, unread, left>>

(***************************************************************************)
(* Other programs                                                          *)
(***************************************************************************)
ChangeFile ==
  /\ left.changes > 0 /\ left' = [left EXCEPT !.changes = @ - 1]
  /\ raced' = \/ raced \/ resolve.phase = "late"
              \/ \E o \in saves : o.phase \in {"writing", "stat"}
  /\ UNCHANGED <<bufferVars, flags, stat, saveVars, resolveVars, shown, reverted, unread>>

OthersWrite == ChangeFile /\ FileBecomes(texts) /\ texts' = texts + 1

OthersDelete == disk.text # NoText /\ ChangeFile /\ FileBecomes(NoText) /\ UNCHANGED texts

SaveStep(o) ==
  \/ StartParticipants(o) \/ GiveUpSave(o) \/ StartWrite(o)
  \/ Validate(o) \/ Conflict(o) \/ WriteFile(o) \/ WriteFails(o)
  \/ SaveSucceeds(o) \/ StatFails(o)

ResolveStep ==
  \/ Reload \/ RevertResolves \/ StatFile \/ ReadEarly \/ StatLate
  \/ NotModified \/ NotFound \/ ReadFile \/ ReadFails \/ Discard \/ Apply

UserStep ==
  \/ Edit \/ Undo \/ Revert
  \/ \E kind \in Kinds : RequestSave(kind)
  \/ \E o \in saves : CancelSave(o) \/ ParticipantEdits(o)

Next ==
  \/ UserStep \/ FileEvent \/ ResolveStep
  \/ \E o \in saves : SaveStep(o)
  \/ OthersWrite \/ OthersDelete

\* Participants end, the file system answers, events arrive, queues run.
Fairness ==
  /\ WF_vars(\E o \in saves : SaveStep(o))
  /\ WF_vars(ResolveStep)
  /\ WF_vars(FileEvent)

Spec == Init /\ [][Next]_vars
FairSpec == Spec /\ Fairness

(***************************************************************************)
(* Properties                                                              *)
(***************************************************************************)
TypeOK ==
  /\ model \in [text : Nat, alt : Nat]
  /\ past \subseteq [text : Nat, alt : Nat]
  /\ versionId \in Nat /\ texts \in Nat
  /\ flags \in Flags
  /\ stat \in FileVersion /\ disk \in FileVersion
  /\ saves \subseteq Save
  /\ running \in Nat \cup {NoTask} /\ queued \in Kinds \cup {"none"}
  /\ resolve \in [phase : {"none", "stat", "read", "late", "apply"}, force : BOOLEAN,
                  version : Nat, stat : FileVersion, text : Nat]
  /\ revert \in [phase : {"none", "waiting", "reading"}, was : Flags]
  /\ reload \in BOOLEAN /\ changed \in BOOLEAN /\ raced \in BOOLEAN /\ unread \in BOOLEAN
  /\ held \subseteq Nat /\ shown \subseteq Nat /\ reverted \subseteq Nat
  /\ left \in [changes : Nat, saves : Nat, reverts : Nat]

\* isDirty(): "the file has unsaved changes and should confirm before closing".
\* A model that is not dirty shows a text the file has held, or one the user
\* asked to throw away, whatever saves, reverts and reloads crossed its edits.
CleanIsSaved == ~flags.dirty => model.text \in held \cup reverted

\* "Never ever must 2 saves execute at the same time": there is one at most,
\* the sequencer knows of it (shutdown waits for the one it knows of), and a
\* queued save has one to wait for.
SingleSave ==
  /\ Cardinality(saves) <= 1
  /\ running = NoTask <=> saves = {}
  /\ queued # "none" => saves # {}

\* Dirty write prevention: unless the user insists, a write that passed
\* validation replaces only contents the model has shown (or that changed
\* since to the same length, the compromise the code takes), as long as nobody changed the file
\* between a validation and the stat that ends the write, or between a forced
\* read and its stat.
NothingOverwrittenUnseen ==
  \A o \in saves :
    o.phase = "writing" /\ o.kind # "overwrite" /\ ~raced =>
      \/ disk.text \in shown \cup {NoText, o.text}
      \/ disk.mtime > o.stat.mtime /\ Length(disk.text) = Length(o.stat.text)

\* What reading the file replaces was in the file or given up by the user: an
\* edit made while the file was being read is never overwritten.
ReloadKeepsEdits ==
  [][Apply => model' = model \/ model.text \in held \cup reverted]_vars

\* The sequencer is never left busy: a save, and the one queued behind it,
\* ends, or shutting down would wait for ever.
SavesEnd == running # NoTask ~> running = NoTask

\* A model that is not dirty, shows the version it resolved and hears of a
\* change ends up showing the file, unless the user steps in or reading fails:
\* neither the etag nor the queues keep it stale.
ReloadShowsFile ==
  changed /\ ~flags.dirty /\ stat.text = model.text /\ saves = {} /\ revert.phase = "none"
    ~> \/ model.text = disk.text \/ disk.text = NoText
       \/ flags.dirty \/ saves # {} \/ revert.phase # "none" \/ unread
=============================================================================
