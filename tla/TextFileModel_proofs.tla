------------------------- MODULE TextFileModel_proofs -------------------------
(***************************************************************************)
(* Proofs about TextFileModel: for any number of versions, saves, reverts  *)
(* and changes of the file from outside, at most one save runs and the     *)
(* sequencer knows of it, no write replaces contents the model has not     *)
(* shown, and, as long as no revert fails to read, a model that is not     *)
(* dirty shows what was saved and reading never loses an edit.             *)
(***************************************************************************)
EXTENDS TextFileModel, FiniteSetTheorems, TLAPS

Early == {"throttled", "participants"}

\* There is one save.  The sequencer holds it under the version it was asked
\* at, and from the write on under the version it writes; what is queued was
\* asked for at a later version than the save it waits for.
OneSave ==
  /\ saves = {} => running = NoTask /\ queued = "none"
  /\ \A o \in saves :
       /\ saves = {o}
       /\ o.phase \in Early <=> o.version = NoTask
       /\ running = (IF o.phase \in Early THEN o.task ELSE o.version)
       /\ o.task <= running /\ running <= versionId
       /\ queued # "none" => o.task # versionId

\* A snapshot was shown; it is what the model has while the version is the same.
Snapshot ==
  \A o \in saves :
    o.phase \notin Early => /\ o.text \in shown
                            /\ o.version = versionId => o.text = model.text

\* A version of the file somebody remembers is the one on disk or an older one.
Known(v) == v.mtime <= disk.mtime /\ (v.mtime = disk.mtime => v.text = disk.text)

\* The model has shown it, if it is the one on disk.
Seen(v) == ~raced /\ v.mtime = disk.mtime => v.text \in shown

StatKnown == Known(stat) /\ Seen(stat) /\ model.text \in shown

SaveKnown ==
  \A o \in saves :
    /\ o.phase \notin Early => Known(o.stat) /\ Seen(o.stat)
    /\ o.phase = "stat" /\ ~raced => disk.text = o.text

\* What a resolve has learned, as long as the file is still like that.
ResolveKnown ==
  /\ resolve.phase # "none" => Known(resolve.stat)
  /\ resolve.phase = "stat" => Seen(resolve.stat)
  /\ resolve.phase = "late" /\ ~raced => disk.text \in shown \cup {resolve.text, NoText}
  /\ resolve.phase = "apply" /\ ~raced /\ resolve.stat.mtime = disk.mtime =>
       disk.text \in shown \cup {resolve.text}

IInv ==
  TypeOK /\ OneSave /\ Snapshot /\ StatKnown /\ SaveKnown /\ ResolveKnown
    /\ NothingOverwrittenUnseen

\* An alternative version id belongs to one text.
Contents == past \cup {model}
OneText ==
  /\ \A c \in Contents : c.alt <= versionId
  /\ \A c, d \in Contents : c.alt = d.alt => c.text = d.text
  /\ flags.saved <= versionId

\* The file has held what counts as saved, and what was written and read.
GoodTexts == held \cup reverted
SavedText == \A c \in Contents : c.alt = flags.saved => c.text \in GoodTexts
Written == \A o \in saves : o.phase = "stat" => o.text \in held
Read ==
  /\ resolve.phase \in {"late", "apply"} => resolve.text \in held
  /\ resolve.phase # "none" => resolve.version <= versionId
  /\ resolve.phase # "none" /\ resolve.version = versionId => model.text \in GoodTexts
OnDisk == disk.text \in held \cup {NoText}

SInv == OneText /\ CleanIsSaved /\ SavedText /\ Written /\ Read /\ OnDisk

(***************************************************************************)
(* The sequencer                                                           *)
(***************************************************************************)
Free == [saves |-> {}, running |-> NoTask, queued |-> "none"]
Started(kind, phase) == [saves |-> {NewSave(kind, phase)}, running |-> versionId, queued |-> "none"]
SaveOver(s) == s = Free \/ \E kind \in Kinds, phase \in Early : s = Started(kind, phase)

LEMMA DoSaveWhenFree ==
  ASSUME versionId \in Nat, NEW kind \in Kinds, NEW dirty, NEW s \in DoSave(Free, kind, dirty)
  PROVE  SaveOver(s)
<1>1. Free.saves = {} /\ Free.running = NoTask /\ NoTask \notin Nat
  BY DEF Free, NoTask
<1>2. ~Participating(Free) /\ Free.running # versionId
  BY <1>1 DEF Participating
<1>3. CASE ~Forced(kind) /\ ~dirty
  BY <1>3 DEF DoSave, SaveOver
<1>4. CASE ~(~Forced(kind) /\ ~dirty)
  <2>1. PICK phase \in Early :
          s = [Free EXCEPT !.saves = @ \cup {NewSave(kind, phase)}, !.running = versionId]
    BY <1>1, <1>2, <1>4 DEF DoSave, Early
  <2>2. s = Started(kind, phase)
    BY <2>1 DEF Free, Started
  <2> QED BY <2>2 DEF SaveOver
<1> QED BY <1>3, <1>4

LEMMA SetFree ==
  ASSUME NEW task, NEW q, NEW s, s = [saves |-> {}, running |-> task, queued |-> q]
  PROVE  [s EXCEPT !.running = NoTask, !.queued = "none"] = Free
<1> DEFINE mid == [s EXCEPT !.running = NoTask]
<1>1. mid = [saves |-> {}, running |-> NoTask, queued |-> q]
  OBVIOUS
<1>2. [s EXCEPT !.running = NoTask, !.queued = "none"] = [mid EXCEPT !.queued = "none"]
  BY Zenon
<1> HIDE DEF mid
<1>3. [mid EXCEPT !.queued = "none"] = Free
  BY <1>1 DEF Free
<1> QED BY <1>2, <1>3

\* The save the sequencer runs is done.
LEMMA DoneRunningIt ==
  ASSUME versionId \in Nat, NEW task \in Nat, NEW q \in Kinds \cup {"none"}, NEW dirty,
         NEW s \in DoneRunning([saves |-> {}, running |-> task, queued |-> q], task, dirty)
  PROVE  SaveOver(s) /\ (q = "none" => s = Free)
<1> DEFINE busy == [saves |-> {}, running |-> task, queued |-> q]
<1>1. busy.running = task /\ busy.queued = q
  OBVIOUS
<1>0. task # NoTask
  BY DEF NoTask
<1>2. [busy EXCEPT !.running = NoTask, !.queued = "none"] = Free
  <2>1. busy = [saves |-> {}, running |-> task, queued |-> q]
    OBVIOUS
  <2> HIDE DEF busy
  <2> QED BY <2>1, SetFree
<1>3. CASE q = "none"
  BY <1>0, <1>1, <1>2, <1>3 DEF DoneRunning, SaveOver
<1>4. CASE q # "none"
  <2>1. s \in DoSave(Free, q, dirty)
    BY <1>0, <1>1, <1>2, <1>4 DEF DoneRunning
  <2> QED BY <1>4, <2>1, DoSaveWhenFree
<1> QED BY <1>3, <1>4

LEMMA DoneOther ==
  ASSUME NEW s, NEW task, task = NoTask \/ s.running # task, NEW dirty, NEW t \in DoneRunning(s, task, dirty)
  PROVE  t = s
BY DEF DoneRunning

\* A save ends: the sequencer is free, or the queued save starts.
LEMMA EndedIsOver ==
  ASSUME TypeOK, OneSave, NEW o \in saves, NEW dirty, NEW s \in Ended(Saving, o, dirty)
  PROVE  SaveOver(s)
<1>1. /\ versionId \in Nat /\ queued \in Kinds \cup {"none"} /\ running \in Nat \cup {NoTask}
      /\ o \in Save
  BY DEF TypeOK
<1>2. o.task \in Nat /\ o.version \in Nat \cup {NoTask} /\ NoTask \notin Nat
  BY <1>1 DEF Save, NoTask
<1>3. /\ saves = {o}
      /\ o.phase \in Early <=> o.version = NoTask
      /\ running = (IF o.phase \in Early THEN o.task ELSE o.version)
      /\ queued # "none" => o.task # versionId
  BY DEF OneSave
<1> DEFINE busy == [saves |-> {}, running |-> running, queued |-> queued]
<1>4. [Saving EXCEPT !.saves = @ \ {o}] = busy
  BY <1>3 DEF Saving
<1> HIDE DEF busy
<1>5. PICK t \in DoneRunning(busy, o.version, dirty) : s \in DoneRunning(t, o.task, dirty)
  BY <1>4 DEF Ended
<1>6. CASE o.phase \in Early
  <2>1. t = busy
    BY <1>3, <1>5, <1>6, DoneOther
  <2>2. s \in DoneRunning([saves |-> {}, running |-> o.task, queued |-> queued], o.task, dirty)
    BY <1>3, <1>5, <1>6, <2>1 DEF busy
  <2> QED BY <1>1, <1>2, <2>2, DoneRunningIt
<1>7. CASE o.phase \notin Early
  <2>1. o.version \in Nat /\ running = o.version
    BY <1>2, <1>3, <1>7
  <2>2. t \in DoneRunning([saves |-> {}, running |-> o.version, queued |-> queued], o.version, dirty)
    BY <1>5, <2>1 DEF busy
  <2>3. SaveOver(t) /\ (queued = "none" => t = Free)
    BY <1>1, <2>1, <2>2, DoneRunningIt
  <2>4. t.running # o.task
    <3>1. CASE t = Free
      BY <1>2, <3>1 DEF Free
    <3>2. CASE t # Free
      BY <1>3, <2>3, <3>2 DEF SaveOver, Started
    <3> QED BY <3>1, <3>2
  <2>5. s = t
    BY <1>5, <2>4, DoneOther
  <2> QED BY <2>3, <2>5
<1> QED BY <1>6, <1>7

\* What follows for the saves.
LEMMA OverStep ==
  ASSUME TypeOK, OneSave, NEW o \in saves, NEW dirty, versionId' = versionId,
         \E s \in Ended(Saving, o, dirty) : Becomes(s)
  PROVE  /\ OneSave' /\ saves' \in SUBSET Save /\ running' \in Nat \cup {NoTask}
         /\ queued' \in Kinds \cup {"none"}
         /\ \A p \in saves' : p.phase \in Early
<1>1. PICK s : SaveOver(s) /\ saves' = s.saves /\ running' = s.running /\ queued' = s.queued
  BY EndedIsOver DEF Becomes
<1>2. versionId \in Nat
  BY DEF TypeOK
<1>3. CASE s = Free
  <2>1. saves' = {} /\ running' = NoTask /\ queued' = "none"
    BY <1>1, <1>3 DEF Free
  <2> QED BY <2>1 DEF OneSave
<1>4. CASE s # Free
  <2>1. PICK kind \in Kinds, phase \in Early :
          saves' = {NewSave(kind, phase)} /\ running' = versionId /\ queued' = "none"
    BY <1>1, <1>4 DEF SaveOver, Started
  <2> DEFINE n == NewSave(kind, phase)
  <2>2. /\ n \in Save /\ n.phase = phase /\ n.version = NoTask /\ n.task = versionId
    BY <1>2 DEF NewSave, Save, FileVersion, NoTask, Early
  <2> HIDE DEF n
  <2>3. saves' = {n}
    BY <2>1 DEF n
  <2>4. OneSave'
    BY <1>2, <2>1, <2>2, <2>3 DEF OneSave
  <2> QED BY <1>2, <2>1, <2>2, <2>3, <2>4
<1> QED BY <1>3, <1>4

\* A request starts a save, is queued behind the one that runs, or is ignored.
LEMMA RequestStep ==
  ASSUME TypeOK, OneSave, NEW kind \in Kinds, RequestSave(kind)
  PROVE  \/ UNCHANGED saveVars
         \/ /\ saves' = {} \cup {NewSave(kind, "throttled")} \/ saves' = {} \cup {NewSave(kind, "participants")}
            /\ running' = versionId /\ queued' = "none" /\ saves = {}
         \/ /\ saves' = {IF o.task = running /\ o.phase \in Early
                           THEN [o EXCEPT !.cancelled = TRUE] ELSE o : o \in saves}
            /\ running' = running /\ queued' = kind
            /\ running # NoTask /\ running # versionId
            /\ \A o \in saves : o.phase # "participants"
<1>1. PICK s \in DoSave(Saving, kind, flags.dirty) : saves' = s.saves /\ running' = s.running /\ queued' = s.queued
  BY DEF RequestSave, Becomes
<1>2. Saving.saves = saves /\ Saving.running = running /\ Saving.queued = queued
  BY DEF Saving
<1>3. CASE Participating(Saving) \/ Saving.running = versionId \/ (~Forced(kind) /\ ~flags.dirty)
  <2>1. s = Saving
    BY <1>1, <1>3 DEF DoSave
  <2> QED BY <1>1, <1>2, <2>1 DEF saveVars
<1>4. CASE /\ ~(Participating(Saving) \/ Saving.running = versionId \/ (~Forced(kind) /\ ~flags.dirty))
           /\ Saving.running # NoTask
  <2>1. s = [Saving EXCEPT !.saves = CancelRunning(Saving), !.queued = kind]
    BY <1>1, <1>4 DEF DoSave
  <2>2. s.saves = CancelRunning(Saving) /\ s.running = running /\ s.queued = kind
    BY <2>1 DEF Saving
  <2>3. saves' = {IF o.task = running /\ o.phase \in Early
                    THEN [o EXCEPT !.cancelled = TRUE] ELSE o : o \in saves}
    BY <1>1, <1>2, <2>2 DEF CancelRunning, Early
  <2>4. \A o \in saves : o.phase # "participants"
    BY <1>2, <1>4 DEF Participating
  <2> QED BY <1>1, <1>2, <1>4, <2>2, <2>3, <2>4
<1>5. CASE /\ ~(Participating(Saving) \/ Saving.running = versionId \/ (~Forced(kind) /\ ~flags.dirty))
           /\ Saving.running = NoTask
  <2>1. saves = {} /\ queued = "none"
    <3>1. ASSUME NEW o \in saves PROVE FALSE
      <4>1. running \in Nat
        BY <3>1 DEF OneSave, TypeOK, Save, NoTask
      <4> QED BY <1>2, <1>5, <4>1 DEF NoTask
    <3> QED BY <3>1 DEF OneSave
  <2>2. PICK phase \in Early : s = [Saving EXCEPT !.saves = @ \cup {NewSave(kind, phase)}, !.running = versionId]
    BY <1>1, <1>5 DEF DoSave, Early
  <2>3. s.saves = saves \cup {NewSave(kind, phase)} /\ s.running = versionId /\ s.queued = queued
    BY <2>2 DEF Saving
  <2> QED BY <1>1, <2>1, <2>2, <2>3 DEF Early
<1> QED BY <1>3, <1>4, <1>5

(***************************************************************************)
(* What a step keeps that leaves the rest of it alone.                     *)
(***************************************************************************)
\* The file is as it was, or newer.
Moves == disk' = disk \/ disk'.mtime = disk.mtime + 1

\* What is known of the file only grows.
Learns == Moves /\ shown \subseteq shown' /\ (raced => raced')

LEMMA KnownKept ==
  ASSUME TypeOK, Learns, NEW v \in FileVersion, Known(v)
  PROVE  Known(v)'
BY DEF Learns, Moves, Known, TypeOK, FileVersion

LEMMA SeenKept ==
  ASSUME TypeOK, Learns, NEW v \in FileVersion, Known(v), Seen(v)
  PROVE  Seen(v)'
<1>1. CASE disk' = disk
  BY <1>1 DEF Learns, Seen
<1>2. CASE disk'.mtime = disk.mtime + 1
  <2>1. v.mtime # disk'.mtime
    BY <1>2 DEF Known, TypeOK, FileVersion
  <2> QED BY <2>1 DEF Seen
<1> QED BY <1>1, <1>2 DEF Learns, Moves

LEMMA OneSaveKept ==
  ASSUME TypeOK, OneSave, UNCHANGED saveVars, versionId' \in {versionId, versionId + 1}
  PROVE  OneSave'
<1>1. versionId \in Nat /\ saves \in SUBSET Save
  BY DEF TypeOK
<1>2. saves' = saves /\ running' = running /\ queued' = queued
  BY DEF saveVars
<1> SUFFICES ASSUME NEW o \in saves
             PROVE  running <= versionId' /\ (queued # "none" => o.task # versionId')
  BY <1>2 DEF OneSave
<1>3. o.task \in Nat /\ o.task <= running /\ running <= versionId /\ (queued # "none" => o.task # versionId)
  BY <1>1 DEF OneSave, Save
<1>4. running \in Nat
  BY <1>1, <1>3 DEF OneSave, Save, TypeOK, NoTask
<1> QED BY <1>1, <1>3, <1>4

LEMMA SnapshotKept ==
  ASSUME TypeOK, OneSave, Snapshot, saves' = saves, shown \subseteq shown',
         UNCHANGED <<versionId, model>> \/ versionId' = versionId + 1
  PROVE  Snapshot'
<1> SUFFICES ASSUME NEW o \in saves, o.phase \notin Early
             PROVE  o.text \in shown' /\ (o.version = versionId' => o.text = model'.text)
  BY DEF Snapshot
<1>1. versionId \in Nat /\ o.version <= versionId
  BY DEF TypeOK, OneSave
<1>2. o.version \in Nat
  BY DEF OneSave, TypeOK, Save
<1> QED BY <1>1, <1>2 DEF Snapshot

LEMMA StatKnownKept ==
  ASSUME TypeOK, StatKnown, Learns, stat' = stat, model'.text \in shown'
  PROVE  StatKnown'
<1>1. stat \in FileVersion
  BY DEF TypeOK
<1>2. Known(stat)' /\ Seen(stat)'
  <2>1. \A v \in FileVersion : Known(v) => Known(v)'
    BY KnownKept
  <2>2. \A v \in FileVersion : Known(v) /\ Seen(v) => Seen(v)'
    BY SeenKept
  <2> QED BY <1>1, <2>1, <2>2 DEF StatKnown, Known, Seen
<1> QED BY <1>2 DEF StatKnown

LEMMA SaveKnownKept ==
  ASSUME TypeOK, SaveKnown, NothingOverwrittenUnseen, Learns, saves' = saves,
         \A o \in saves : o.phase \in {"writing", "stat"} => disk' = disk \/ raced'
  PROVE  SaveKnown' /\ NothingOverwrittenUnseen'
<1>1. SaveKnown'
  <2> SUFFICES ASSUME NEW o \in saves
               PROVE  /\ o.phase \notin Early => Known(o.stat)' /\ Seen(o.stat)'
                      /\ o.phase = "stat" /\ ~raced' => disk'.text = o.text
    BY DEF SaveKnown, Known, Seen
  <2>1. o.stat \in FileVersion
    BY DEF TypeOK, Save
  <2>2. o.phase \notin Early => Known(o.stat)' /\ Seen(o.stat)'
    <3>1. \A v \in FileVersion : Known(v) => Known(v)'
      BY KnownKept
    <3>2. \A v \in FileVersion : Known(v) /\ Seen(v) => Seen(v)'
      BY SeenKept
    <3> QED BY <2>1, <3>1, <3>2 DEF SaveKnown, Known, Seen
  <2>3. o.phase = "stat" /\ ~raced' => disk'.text = o.text
    BY DEF SaveKnown, Learns
  <2> QED BY <2>2, <2>3
<1>2. NothingOverwrittenUnseen'
  BY DEF NothingOverwrittenUnseen, Learns
<1> QED BY <1>1, <1>2

LEMMA ResolveKnownKept ==
  ASSUME TypeOK, ResolveKnown, Learns, resolve' = resolve,
         resolve.phase = "late" => disk' = disk \/ raced' \/ disk'.text \in shown'
  PROVE  ResolveKnown'
<1>1. resolve.stat \in FileVersion
  BY DEF TypeOK
<1>2. /\ resolve.phase # "none" => Known(resolve.stat)'
      /\ resolve.phase = "stat" => Seen(resolve.stat)'
  <2>1. \A v \in FileVersion : Known(v) => Known(v)'
    BY KnownKept
  <2>2. \A v \in FileVersion : Known(v) /\ Seen(v) => Seen(v)'
    BY SeenKept
  <2> QED BY <1>1, <2>1, <2>2 DEF ResolveKnown, Known, Seen
<1>3. resolve.phase = "late" /\ ~raced' => disk'.text \in shown' \cup {resolve.text, NoText}
  BY DEF ResolveKnown, Learns
<1>4. resolve.phase = "apply" /\ ~raced' /\ resolve.stat.mtime = disk'.mtime =>
        disk'.text \in shown' \cup {resolve.text}
  <2>1. resolve.phase = "apply" => resolve.stat.mtime <= disk.mtime
    BY DEF ResolveKnown, Known
  <2>2. disk.mtime \in Nat /\ resolve.stat.mtime \in Nat
    BY <1>1 DEF TypeOK, FileVersion
  <2> QED BY <2>1, <2>2 DEF ResolveKnown, Learns, Moves
<1> QED BY <1>2, <1>3, <1>4 DEF ResolveKnown, Known, Seen

\* A step that looks at files at most.
LEMMA LookStep ==
  ASSUME IInv, UNCHANGED <<bufferVars, stat, saveVars, disk, shown, raced>>
  PROVE  OneSave' /\ Snapshot' /\ StatKnown' /\ SaveKnown' /\ NothingOverwrittenUnseen' /\ Learns
<1>1. TypeOK /\ OneSave /\ Snapshot /\ StatKnown /\ SaveKnown /\ NothingOverwrittenUnseen
  BY DEF IInv
<1>2. /\ model' = model /\ versionId' = versionId /\ stat' = stat /\ saves' = saves
      /\ disk' = disk /\ shown' = shown /\ raced' = raced
  BY DEF bufferVars, saveVars
<1>3. Learns /\ model'.text \in shown'
  BY <1>1, <1>2 DEF Learns, Moves, StatKnown
<1>4. OneSave' /\ Snapshot'
  BY <1>1, <1>2, OneSaveKept, SnapshotKept
<1>5. StatKnown' /\ SaveKnown' /\ NothingOverwrittenUnseen'
  BY <1>1, <1>2, <1>3, StatKnownKept, SaveKnownKept
<1> QED BY <1>3, <1>4, <1>5

\* A step that changes the content, maybe cleaning the flags.
LEMMA ContentStep ==
  ASSUME IInv, NEW text, NEW alt, Content(text, alt), UNCHANGED <<stat, saveVars, disk, raced>>
  PROVE  /\ OneSave' /\ Snapshot' /\ StatKnown' /\ SaveKnown' /\ NothingOverwrittenUnseen' /\ Learns
         /\ resolve' = resolve => ResolveKnown'
<1>1. TypeOK /\ OneSave /\ Snapshot /\ StatKnown /\ SaveKnown /\ ResolveKnown /\ NothingOverwrittenUnseen
  BY DEF IInv
<1>2. /\ model'.text = text /\ versionId' = versionId + 1 /\ stat' = stat /\ saves' = saves
      /\ disk' = disk /\ shown' = shown \cup {text} /\ raced' = raced
  BY DEF Content, saveVars
<1>3. Learns /\ model'.text \in shown'
  BY <1>2 DEF Learns, Moves
<1>4. OneSave' /\ Snapshot'
  BY <1>1, <1>2, <1>3, OneSaveKept, SnapshotKept DEF Learns
<1>5. StatKnown' /\ SaveKnown' /\ NothingOverwrittenUnseen'
  BY <1>1, <1>2, <1>3, StatKnownKept, SaveKnownKept
<1>6. resolve' = resolve => ResolveKnown'
  BY <1>1, <1>2, <1>3, ResolveKnownKept
<1> QED BY <1>3, <1>4, <1>5, <1>6

\* A step that ends a save.
LEMMA EndStep ==
  ASSUME IInv, NEW o \in saves, NEW dirty, UNCHANGED bufferVars, shown' = shown,
         \E s \in Ended(Saving, o, dirty) : Becomes(s)
  PROVE  /\ OneSave' /\ Snapshot' /\ SaveKnown' /\ NothingOverwrittenUnseen'
         /\ saves' \in SUBSET Save /\ running' \in Nat \cup {NoTask}
         /\ queued' \in Kinds \cup {"none"} /\ model'.text \in shown'
         /\ \A p \in saves' : p.phase \in Early
<1>1. TypeOK /\ OneSave /\ StatKnown /\ versionId' = versionId /\ model' = model
  BY DEF IInv, bufferVars
<1>2. /\ OneSave' /\ saves' \in SUBSET Save /\ running' \in Nat \cup {NoTask}
      /\ queued' \in Kinds \cup {"none"}
      /\ \A p \in saves' : p.phase \in Early
  BY <1>1, OverStep
<1>3. Snapshot'
  BY <1>2 DEF Snapshot
<1>4. SaveKnown' /\ NothingOverwrittenUnseen'
  BY <1>2 DEF SaveKnown, NothingOverwrittenUnseen, Early
<1> QED BY <1>1, <1>2, <1>3, <1>4 DEF StatKnown

(***************************************************************************)
(* The steps of the first invariant                                        *)
(***************************************************************************)
LEMMA EditStep ==
  ASSUME IInv, Edit \/ Undo \/ \E o \in saves : ParticipantEdits(o)
  PROVE  IInv'
<1>1. TypeOK
  BY DEF IInv
<1>2. PICK text \in Nat, alt \in Nat : Content(text, alt) /\ Edited(alt) /\ texts' \in Nat
  <2>1. versionId + 1 \in Nat /\ texts \in Nat /\ texts + 1 \in Nat
    BY <1>1 DEF TypeOK
  <2>2. CASE NewContent
    BY <2>1, <2>2 DEF NewContent
  <2>3. CASE Undo
    BY <1>1, <2>3 DEF Undo, TypeOK
  <2> QED BY <2>2, <2>3 DEF Edit, ParticipantEdits
<1>3. UNCHANGED <<stat, saveVars, resolveVars, fileVars, held, reverted, raced, unread, left>>
        \/ UNCHANGED <<stat, saveVars, resolveVars, fileVars, texts, held, reverted, raced, unread, left>>
  BY DEF Edit, Undo, ParticipantEdits
<1>4. /\ stat' = stat /\ UNCHANGED saveVars /\ resolve' = resolve /\ reload' = reload /\ revert' = revert
      /\ disk' = disk /\ changed' = changed /\ held' = held /\ reverted' = reverted
      /\ raced' = raced /\ unread' = unread /\ left' = left
  BY <1>3 DEF resolveVars, fileVars
<1>5. /\ OneSave' /\ Snapshot' /\ StatKnown' /\ SaveKnown' /\ NothingOverwrittenUnseen' /\ ResolveKnown'
  BY <1>2, <1>4, ContentStep
<1>6. /\ model' \in [text : Nat, alt : Nat] /\ past' \in SUBSET [text : Nat, alt : Nat]
      /\ versionId' \in Nat /\ shown' \in SUBSET Nat
  BY <1>1, <1>2 DEF Content, TypeOK
<1>7. flags' \in Flags
  <2>1. flags \in Flags
    BY <1>1 DEF TypeOK
  <2> QED BY <1>2, <2>1 DEF Edited, Clean, Flags
<1>8. TypeOK'
  BY <1>1, <1>2, <1>4, <1>6, <1>7 DEF TypeOK, saveVars
<1> QED BY <1>5, <1>8 DEF IInv

LEMMA RequestSaveStep ==
  ASSUME IInv, NEW kind \in Kinds, RequestSave(kind)
  PROVE  IInv'
<1>1. TypeOK /\ OneSave /\ Snapshot /\ StatKnown /\ SaveKnown /\ ResolveKnown /\ NothingOverwrittenUnseen
  BY DEF IInv
<1>2. UNCHANGED <<bufferVars, flags, stat, resolveVars, fileVars, texts, historyVars>>
  BY DEF RequestSave
<1>3. /\ model' = model /\ past' = past /\ versionId' = versionId /\ flags' = flags /\ stat' = stat
      /\ resolve' = resolve /\ reload' = reload /\ revert' = revert /\ disk' = disk /\ changed' = changed
      /\ texts' = texts /\ held' = held /\ shown' = shown /\ reverted' = reverted /\ raced' = raced
      /\ unread' = unread
  BY <1>2 DEF bufferVars, resolveVars, fileVars, historyVars
<1>4. Learns /\ model'.text \in shown'
  BY <1>1, <1>3 DEF Learns, Moves, StatKnown
<1>5. StatKnown' /\ ResolveKnown'
  BY <1>1, <1>3, <1>4, StatKnownKept, ResolveKnownKept
<1>6. left' \in [changes : Nat, saves : Nat, reverts : Nat]
  BY <1>1 DEF RequestSave, TypeOK
<1>7. CASE UNCHANGED saveVars
  <2>1. OneSave' /\ Snapshot' /\ SaveKnown' /\ NothingOverwrittenUnseen'
    BY <1>1, <1>3, <1>4, <1>7, OneSaveKept, SnapshotKept, SaveKnownKept DEF saveVars
  <2>2. TypeOK'
    BY <1>1, <1>3, <1>6, <1>7 DEF TypeOK, saveVars
  <2> QED BY <1>5, <2>1, <2>2 DEF IInv
<1>8. CASE \E phase \in Early :
             saves' = {NewSave(kind, phase)} /\ running' = versionId /\ queued' = "none"
  <2>1. PICK n : saves' = {n} /\ n \in Save /\ n.phase \in Early /\ n.version = NoTask /\ n.task = versionId
    <3>1. PICK phase \in Early : saves' = {NewSave(kind, phase)}
      BY <1>8
    <3> DEFINE new == NewSave(kind, phase)
    <3>2. new \in Save /\ new.phase = phase /\ new.version = NoTask /\ new.task = versionId
      BY <1>1 DEF NewSave, Save, FileVersion, NoTask, Early, TypeOK
    <3>3. saves' = {new}
      BY <3>1
    <3> HIDE DEF new
    <3> QED BY <3>2, <3>3
  <2>2. versionId \in Nat
    BY <1>1 DEF TypeOK
  <2>3. OneSave'
    BY <1>3, <1>8, <2>1, <2>2 DEF OneSave
  <2>4. Snapshot' /\ SaveKnown' /\ NothingOverwrittenUnseen'
    BY <2>1 DEF Snapshot, SaveKnown, NothingOverwrittenUnseen, Early
  <2>5. TypeOK'
    BY <1>1, <1>3, <1>6, <1>8, <2>1, <2>2 DEF TypeOK
  <2> QED BY <1>5, <2>3, <2>4, <2>5 DEF IInv
<1>9. CASE /\ saves' = {IF o.task = running /\ o.phase \in Early
                          THEN [o EXCEPT !.cancelled = TRUE] ELSE o : o \in saves}
           /\ running' = running /\ queued' = kind
           /\ running # NoTask /\ running # versionId
           /\ \A o \in saves : o.phase # "participants"
  <2>1. ASSUME NEW p \in saves'
        PROVE  \E o \in saves : /\ saves = {o} /\ saves' = {p} /\ p \in Save
                                /\ p.phase = o.phase /\ p.task = o.task /\ p.version = o.version
                                /\ p.text = o.text /\ p.stat = o.stat /\ p.kind = o.kind
    <3>1. PICK o \in saves : p = IF o.task = running /\ o.phase \in Early
                                   THEN [o EXCEPT !.cancelled = TRUE] ELSE o
      BY <1>9
    <3>2. o \in Save /\ saves = {o}
      BY <1>1 DEF TypeOK, OneSave
    <3>3. saves' = {p}
      BY <1>9, <3>1, <3>2
    <3>4. /\ p \in Save /\ p.phase = o.phase /\ p.task = o.task /\ p.version = o.version
          /\ p.text = o.text /\ p.stat = o.stat /\ p.kind = o.kind
      BY <3>1, <3>2 DEF Save
    <3> QED BY <3>2, <3>3, <3>4
  <2>2. saves # {} /\ saves' # {}
    <3>1. saves # {}
      BY <1>1, <1>9 DEF OneSave
    <3> QED BY <1>9, <3>1
  <2>3. OneSave'
    <3> SUFFICES ASSUME NEW p \in saves'
                 PROVE  /\ saves' = {p}
                        /\ p.phase \in Early <=> p.version = NoTask
                        /\ running = (IF p.phase \in Early THEN p.task ELSE p.version)
                        /\ p.task <= running /\ running <= versionId
                        /\ p.task # versionId
      BY <1>3, <1>9, <2>2 DEF OneSave
    <3>1. PICK o \in saves : /\ saves' = {p} /\ p.phase = o.phase /\ p.task = o.task
                             /\ p.version = o.version
      BY <2>1
    <3>2. /\ o.phase \in Early <=> o.version = NoTask
          /\ running = (IF o.phase \in Early THEN o.task ELSE o.version)
          /\ o.task <= running /\ running <= versionId
          /\ o.task \in Nat /\ running \in Nat /\ versionId \in Nat
      BY <1>1, <1>9 DEF OneSave, TypeOK, Save
    <3>3. o.task # versionId
      BY <1>9, <3>2
    <3> QED BY <3>1, <3>2, <3>3
  <2>4. Snapshot'
    BY <1>1, <1>3, <2>1 DEF Snapshot
  <2>5. SaveKnown'
    BY <1>1, <1>3, <2>1 DEF SaveKnown, Known, Seen
  <2>6. NothingOverwrittenUnseen'
    BY <1>1, <1>3, <2>1 DEF NothingOverwrittenUnseen
  <2>7. TypeOK'
    <3>1. saves' \in SUBSET Save
      BY <2>1
    <3> QED BY <1>1, <1>3, <1>6, <1>9, <3>1 DEF TypeOK
  <2> QED BY <1>5, <2>3, <2>4, <2>5, <2>6, <2>7 DEF IInv
<1>10. QED
  <2>1. {} \cup {NewSave(kind, "throttled")} = {NewSave(kind, "throttled")}
        /\ {} \cup {NewSave(kind, "participants")} = {NewSave(kind, "participants")}
    OBVIOUS
  <2> QED BY <1>1, <1>7, <1>8, <1>9, <2>1, RequestStep DEF Early

\* A step that changes the one save there is, other than its id.
LEMMA GoOn ==
  ASSUME IInv, NEW o \in saves, NEW n, Continue(o, n), running' = running,
         n.task = o.task, n.version = o.version, n.phase \in Early <=> o.phase \in Early,
         versionId' = versionId
  PROVE  OneSave' /\ saves' = {n} /\ queued' = queued /\ saves = {o}
<1>1. OneSave
  BY DEF IInv
<1>2. saves = {o}
  BY <1>1 DEF OneSave
<1>3. saves' = {n} /\ queued' = queued
  BY <1>2 DEF Continue
<1>4. OneSave'
  BY <1>1, <1>3 DEF OneSave
<1> QED BY <1>2, <1>3, <1>4

LEMMA BeforeWriteStep ==
  ASSUME IInv, NEW o \in saves, CancelSave(o) \/ StartParticipants(o)
  PROVE  IInv'
<1>1. TypeOK /\ StatKnown /\ ResolveKnown /\ o \in Save
  BY DEF IInv, TypeOK
<1>2. PICK n : /\ Continue(o, n) /\ n \in Save /\ n.phase \in Early /\ o.phase \in Early
               /\ n.task = o.task /\ n.version = o.version
  <2>1. CASE CancelSave(o)
    <3> DEFINE n == [o EXCEPT !.cancelled = TRUE]
    <3>1. n \in Save /\ n.phase = o.phase /\ n.task = o.task /\ n.version = o.version
      BY <1>1 DEF Save
    <3>2. Continue(o, n) /\ o.phase \in Early
      BY <2>1 DEF CancelSave, Early
    <3> HIDE DEF n
    <3> QED BY <3>1, <3>2
  <2>2. CASE StartParticipants(o)
    <3> DEFINE n == [o EXCEPT !.phase = "participants"]
    <3>1. n \in Save /\ n.phase = "participants" /\ n.task = o.task /\ n.version = o.version
      BY <1>1 DEF Save
    <3>2. Continue(o, n) /\ o.phase \in Early
      BY <2>2 DEF StartParticipants, Early
    <3> HIDE DEF n
    <3> QED BY <3>1, <3>2 DEF Early
  <2> QED BY <2>1, <2>2
<1>3. UNCHANGED <<bufferVars, flags, stat, running, resolveVars, fileVars, texts, historyVars, left>>
  BY DEF CancelSave, StartParticipants
<1>4. OneSave' /\ saves' = {n} /\ queued' = queued
  BY <1>2, <1>3, GoOn DEF bufferVars
<1>5. Snapshot' /\ SaveKnown' /\ NothingOverwrittenUnseen'
  BY <1>2, <1>4 DEF Snapshot, SaveKnown, NothingOverwrittenUnseen, Early
<1>6. Learns /\ model'.text \in shown' /\ stat' = stat /\ resolve' = resolve /\ disk' = disk
  BY <1>1, <1>3 DEF Learns, Moves, StatKnown, bufferVars, fileVars, historyVars, resolveVars
<1>7. StatKnown' /\ ResolveKnown'
  BY <1>1, <1>6, StatKnownKept, ResolveKnownKept
<1>8. TypeOK'
  BY <1>1, <1>2, <1>3, <1>4 DEF TypeOK, bufferVars, resolveVars, fileVars, historyVars
<1> QED BY <1>4, <1>5, <1>7, <1>8 DEF IInv

LEMMA StartWriteStep ==
  ASSUME IInv, NEW o \in saves, StartWrite(o)
  PROVE  IInv'
<1>1. TypeOK /\ OneSave /\ StatKnown /\ ResolveKnown /\ o \in Save
  BY DEF IInv, TypeOK
<1> DEFINE n == [o EXCEPT !.phase = "validating", !.version = versionId,
                          !.text = model.text, !.stat = stat]
<1>2. /\ n \in Save /\ n.phase = "validating" /\ n.version = versionId /\ n.task = o.task
      /\ n.text = model.text /\ n.stat = stat
  BY <1>1 DEF Save, TypeOK
<1>3. Continue(o, n) /\ running' = versionId /\ o.phase = "participants"
  BY DEF StartWrite
<1> HIDE DEF n
<1>4. UNCHANGED <<bufferVars, stat, resolveVars, fileVars, texts, historyVars, left>>
  BY DEF StartWrite
<1>5. saves' = {n} /\ queued' = queued
  BY <1>1, <1>3 DEF Continue, OneSave
<1>6. versionId' = versionId /\ model' = model /\ shown' = shown /\ stat' = stat /\ disk' = disk
      /\ raced' = raced /\ resolve' = resolve
  BY <1>4 DEF bufferVars, historyVars, fileVars, resolveVars
<1>7. OneSave'
  <2>1. /\ versionId \in Nat /\ versionId # NoTask /\ o.task \in Nat
    BY <1>1 DEF TypeOK, Save, NoTask
  <2>2. o.task <= versionId
    BY <1>1, <1>3, <2>1 DEF OneSave, Early
  <2>3. queued # "none" => o.task # versionId
    BY <1>1 DEF OneSave
  <2>4. n.phase \notin Early
    BY <1>2 DEF Early
  <2> QED BY <1>2, <1>3, <1>5, <1>6, <2>1, <2>2, <2>3, <2>4 DEF OneSave
<1>8. Learns /\ model'.text \in shown'
  BY <1>1, <1>6 DEF Learns, Moves, StatKnown
<1>9. StatKnown' /\ ResolveKnown'
  BY <1>1, <1>6, <1>8, StatKnownKept, ResolveKnownKept
<1>10. Snapshot'
  BY <1>1, <1>2, <1>5, <1>6 DEF Snapshot, StatKnown
<1>11. SaveKnown'
  <2>1. /\ n.stat.mtime <= disk.mtime /\ (n.stat.mtime = disk.mtime => n.stat.text = disk.text)
        /\ ~raced /\ n.stat.mtime = disk.mtime => n.stat.text \in shown
    BY <1>1, <1>2 DEF StatKnown, Known, Seen
  <2> QED BY <1>2, <1>5, <1>6, <2>1 DEF SaveKnown, Known, Seen
<1>12. NothingOverwrittenUnseen'
  BY <1>2, <1>5 DEF NothingOverwrittenUnseen
<1>13. flags' \in Flags
  BY <1>1 DEF StartWrite, TypeOK, Flags
<1>14. TypeOK'
  BY <1>1, <1>2, <1>3, <1>4, <1>5, <1>13 DEF TypeOK, bufferVars, resolveVars, fileVars, historyVars
<1> QED BY <1>7, <1>9, <1>10, <1>11, <1>12, <1>14 DEF IInv


\* A save ends, and the file stays as it is.
LEMMA EndedStep ==
  ASSUME IInv, NEW o \in saves, NEW dirty, \E s \in Ended(Saving, o, dirty) : Becomes(s),
         UNCHANGED <<bufferVars, resolveVars, fileVars, texts, historyVars, left>>,
         flags' \in Flags, stat' \in FileVersion, StatKnown'
  PROVE  IInv'
<1>1. TypeOK /\ ResolveKnown
  BY DEF IInv
<1>2. /\ UNCHANGED bufferVars /\ shown' = shown /\ disk' = disk /\ raced' = raced /\ resolve' = resolve
  BY DEF resolveVars, fileVars, historyVars
<1>3. /\ OneSave' /\ Snapshot' /\ SaveKnown' /\ NothingOverwrittenUnseen'
      /\ saves' \in SUBSET Save /\ running' \in Nat \cup {NoTask} /\ queued' \in Kinds \cup {"none"}
  BY <1>2, EndStep
<1>4. ResolveKnown'
  BY <1>1, <1>2, ResolveKnownKept DEF Learns, Moves
<1>5. TypeOK'
  BY <1>1, <1>3 DEF TypeOK, bufferVars, resolveVars, fileVars, historyVars
<1> QED BY <1>3, <1>4, <1>5 DEF IInv

\* The stat remembered is the newer of two that are known and seen.
LEMMA NewerKnown ==
  ASSUME TypeOK, StatKnown, NEW v \in FileVersion, Known(v), Seen(v), stat' = Newer(v),
         UNCHANGED <<disk, raced>>, shown \subseteq shown', model'.text \in shown'
  PROVE  StatKnown' /\ stat' \in FileVersion
<1>1. stat' \in {stat, v} /\ stat \in FileVersion
  BY DEF Newer, TypeOK
<1>2. CASE stat' = stat
  BY <1>1, <1>2 DEF StatKnown, Known, Seen
<1>3. CASE stat' = v
  BY <1>3 DEF StatKnown, Known, Seen
<1> QED BY <1>1, <1>2, <1>3

LEMMA GiveUpSaveStep ==
  ASSUME IInv, NEW o \in saves, GiveUpSave(o) \/ Conflict(o) \/ StatFails(o)
  PROVE  IInv'
<1>1. TypeOK /\ StatKnown
  BY DEF IInv
<1>2. UNCHANGED <<bufferVars, stat, resolveVars, fileVars, texts, historyVars, left>>
  BY DEF GiveUpSave, Conflict, StatFails, SaveError
<1>3. \E dirty : \E s \in Ended(Saving, o, dirty) : Becomes(s)
  BY DEF GiveUpSave, Conflict, StatFails, SaveError
<1>4. flags' \in Flags
  <2>1. flags \in Flags
    BY <1>1 DEF TypeOK
  <2>2. CASE GiveUpSave(o)
    BY <2>1, <2>2 DEF GiveUpSave
  <2>3. ASSUME NEW c \in BOOLEAN, SaveError(o, c) PROVE flags' \in Flags
    BY <2>1, <2>3 DEF SaveError, Flags
  <2> QED BY <2>2, <2>3 DEF Conflict, StatFails
<1>5. StatKnown' /\ stat' \in FileVersion
  BY <1>1, <1>2, StatKnownKept DEF Learns, Moves, StatKnown, TypeOK, bufferVars, fileVars, historyVars
<1> QED BY <1>2, <1>3, <1>4, <1>5, EndedStep

LEMMA SaveSucceedsStep ==
  ASSUME IInv, NEW o \in saves, SaveSucceeds(o)
  PROVE  IInv'
<1>1. TypeOK /\ StatKnown /\ SaveKnown /\ Snapshot
  BY DEF IInv
<1>2. UNCHANGED <<bufferVars, resolveVars, fileVars, texts, historyVars, left>>
  BY DEF SaveSucceeds
<1>3. \E s \in Ended(Saving, o, flags'.dirty) : Becomes(s)
  BY DEF SaveSucceeds
<1>4. flags' \in Flags
  BY <1>1 DEF SaveSucceeds, TypeOK, Clean, Flags
<1>5. disk \in FileVersion /\ Known(disk)
  BY <1>1 DEF TypeOK, Known, FileVersion
<1>6. Seen(disk)
  <2>1. o.phase = "stat"
    BY DEF SaveSucceeds
  <2>2. ~raced => disk.text = o.text
    BY <1>1, <2>1 DEF SaveKnown
  <2>3. o.text \in shown
    BY <1>1, <2>1 DEF Snapshot, Early
  <2> QED BY <2>2, <2>3 DEF Seen
<1>7. /\ stat' = Newer(disk) /\ disk' = disk /\ raced' = raced
      /\ shown' = shown /\ model'.text \in shown'
  BY <1>1, <1>2 DEF SaveSucceeds, StatKnown, fileVars, historyVars, bufferVars
<1>8. StatKnown' /\ stat' \in FileVersion
  BY <1>1, <1>5, <1>6, <1>7, NewerKnown
<1> QED BY <1>2, <1>3, <1>4, <1>8, EndedStep

LEMMA WriteFailsStep ==
  ASSUME IInv, NEW o \in saves, WriteFails(o)
  PROVE  IInv'
<1>1. TypeOK /\ StatKnown /\ ResolveKnown
  BY DEF IInv
<1>2. UNCHANGED <<bufferVars, stat, resolveVars, shown, reverted, unread>>
  BY DEF WriteFails, SaveError
<1>3. \E dirty : \E s \in Ended(Saving, o, dirty) : Becomes(s)
  BY DEF WriteFails, SaveError
<1>4. /\ OneSave' /\ Snapshot' /\ SaveKnown' /\ NothingOverwrittenUnseen'
      /\ saves' \in SUBSET Save /\ running' \in Nat \cup {NoTask} /\ queued' \in Kinds \cup {"none"}
  BY <1>2, <1>3, EndStep
<1>5. /\ disk' \in FileVersion /\ changed' \in BOOLEAN /\ held' \in SUBSET Nat /\ texts' \in Nat
      /\ raced' \in BOOLEAN /\ left' \in [changes : Nat, saves : Nat, reverts : Nat]
      /\ Moves /\ (raced => raced')
      /\ resolve.phase = "late" => disk' = disk \/ raced'
  <2>1. CASE UNCHANGED <<fileVars, held, texts, raced, left>>
    BY <1>1, <2>1 DEF TypeOK, fileVars, Moves
  <2>2. CASE /\ left.changes > 0 /\ left' = [left EXCEPT !.changes = @ - 1]
             /\ FileBecomes(texts) /\ texts' = texts + 1
             /\ raced' = (raced \/ resolve.phase = "late")
    <3>1. left' \in [changes : Nat, saves : Nat, reverts : Nat]
      BY <1>1, <2>2 DEF TypeOK
    <3>2. disk' \in FileVersion /\ Moves
      BY <1>1, <2>2 DEF TypeOK, FileBecomes, FileVersion, Moves
    <3>3. changed' \in BOOLEAN /\ held' \in SUBSET Nat /\ texts' \in Nat
      BY <1>1, <2>2 DEF TypeOK, FileBecomes
    <3>4. raced' \in BOOLEAN /\ (raced => raced') /\ (resolve.phase = "late" => raced')
      BY <1>1, <2>2 DEF TypeOK
    <3> QED BY <3>1, <3>2, <3>3, <3>4
  <2> QED BY <2>1, <2>2 DEF WriteFails
<1>6. flags' \in Flags
  BY <1>1 DEF TypeOK, WriteFails, SaveError, Flags
<1>7. Learns /\ model'.text \in shown' /\ stat' = stat /\ resolve' = resolve
  BY <1>1, <1>2, <1>5 DEF Learns, StatKnown, bufferVars, resolveVars
<1>8. StatKnown' /\ ResolveKnown'
  BY <1>1, <1>5, <1>7, StatKnownKept, ResolveKnownKept
<1>9. TypeOK'
  BY <1>1, <1>2, <1>4, <1>5, <1>6 DEF TypeOK, bufferVars, resolveVars
<1> QED BY <1>4, <1>8, <1>9 DEF IInv

LEMMA ValidateStep ==
  ASSUME IInv, NEW o \in saves, Validate(o)
  PROVE  IInv'
<1>1. TypeOK /\ OneSave /\ StatKnown /\ ResolveKnown /\ Snapshot /\ SaveKnown /\ o \in Save
  BY DEF IInv, TypeOK
<1>2. PICK n : /\ Continue(o, n) /\ n \in Save /\ n.phase = "writing"
               /\ n.task = o.task /\ n.version = o.version /\ n.text = o.text /\ n.stat = o.stat
               /\ n.kind = o.kind
  <2> DEFINE n == [o EXCEPT !.phase = "writing"]
  <2>1. /\ n \in Save /\ n.phase = "writing" /\ n.task = o.task /\ n.version = o.version
        /\ n.text = o.text /\ n.stat = o.stat /\ n.kind = o.kind
    BY <1>1 DEF Save
  <2>2. Continue(o, n)
    BY DEF Validate
  <2> HIDE DEF n
  <2> QED BY <2>1, <2>2
<1>3. UNCHANGED <<bufferVars, flags, stat, running, resolveVars, fileVars, texts, historyVars, left>>
  BY DEF Validate
<1>4. o.phase = "validating" /\ ~ModifiedSince(o)
  BY DEF Validate
<1>5. /\ versionId' = versionId /\ model' = model /\ shown' = shown /\ stat' = stat /\ disk' = disk
      /\ raced' = raced /\ resolve' = resolve /\ running' = running
  BY <1>3 DEF bufferVars, historyVars, fileVars, resolveVars
<1>6. OneSave' /\ saves' = {n} /\ queued' = queued
  BY <1>2, <1>4, <1>5, GoOn DEF Early
<1>7. o.text \in shown /\ (o.version = versionId => o.text = model.text) /\ Known(o.stat) /\ Seen(o.stat)
  BY <1>1, <1>4 DEF Snapshot, SaveKnown, Early
<1>8. Snapshot'
  BY <1>2, <1>5, <1>6, <1>7 DEF Snapshot
<1>9. SaveKnown'
  BY <1>2, <1>5, <1>6, <1>7 DEF SaveKnown, Known, Seen
<1>10. NothingOverwrittenUnseen'
  <2> SUFFICES ASSUME n.kind # "overwrite", ~raced
               PROVE  \/ disk.text \in shown \cup {NoText, n.text}
                      \/ disk.mtime > n.stat.mtime /\ Length(disk.text) = Length(n.stat.text)
    BY <1>5, <1>6 DEF NothingOverwrittenUnseen
  <2>1. CASE disk.text = NoText \/ o.text = disk.text
    BY <1>2, <2>1
  <2>2. CASE ~(o.stat.mtime < disk.mtime)
    <3>1. o.stat.mtime = disk.mtime
      BY <1>1, <1>7, <2>2 DEF Known, TypeOK, Save, FileVersion
    <3>2. disk.text \in shown
      BY <1>7, <3>1 DEF Known, Seen
    <3> QED BY <3>2
  <2>3. CASE o.stat.mtime < disk.mtime /\ Length(o.stat.text) = Length(disk.text)
    <3>1. disk.mtime > o.stat.mtime
      BY <1>1, <2>3 DEF TypeOK, Save, FileVersion
    <3> QED BY <1>2, <2>3, <3>1
  <2> QED BY <1>2, <1>4, <2>1, <2>2, <2>3 DEF ModifiedSince
<1>11. Learns /\ model'.text \in shown'
  BY <1>1, <1>5 DEF Learns, Moves, StatKnown
<1>12. StatKnown' /\ ResolveKnown'
  BY <1>1, <1>5, <1>11, StatKnownKept, ResolveKnownKept
<1>13. TypeOK'
  BY <1>1, <1>2, <1>3, <1>6 DEF TypeOK, bufferVars, resolveVars, fileVars, historyVars
<1> QED BY <1>6, <1>8, <1>9, <1>10, <1>12, <1>13 DEF IInv

LEMMA WriteFileStep ==
  ASSUME IInv, NEW o \in saves, WriteFile(o)
  PROVE  IInv'
<1>1. TypeOK /\ OneSave /\ StatKnown /\ ResolveKnown /\ Snapshot /\ SaveKnown /\ o \in Save
  BY DEF IInv, TypeOK
<1>2. PICK n : /\ Continue(o, n) /\ n \in Save /\ n.phase = "stat"
               /\ n.task = o.task /\ n.version = o.version /\ n.text = o.text /\ n.stat = o.stat
  <2> DEFINE n == [o EXCEPT !.phase = "stat"]
  <2>1. /\ n \in Save /\ n.phase = "stat" /\ n.task = o.task /\ n.version = o.version
        /\ n.text = o.text /\ n.stat = o.stat
    BY <1>1 DEF Save
  <2>2. Continue(o, n)
    BY DEF WriteFile
  <2> HIDE DEF n
  <2> QED BY <2>1, <2>2
<1>3. UNCHANGED <<bufferVars, flags, stat, running, resolveVars, texts, shown, reverted, raced, unread, left>>
  BY DEF WriteFile
<1>4. /\ versionId' = versionId /\ model' = model /\ shown' = shown /\ stat' = stat
      /\ raced' = raced /\ resolve' = resolve /\ running' = running
  BY <1>3 DEF bufferVars, resolveVars
<1>5. o.phase = "writing"
  BY DEF WriteFile
<1>6. /\ disk' \in FileVersion /\ disk'.text = o.text /\ disk'.mtime = disk.mtime + 1
      /\ changed' \in BOOLEAN /\ held' \in SUBSET Nat
  <2>1. o.text \in Nat
    BY <1>1 DEF Save
  <2> QED BY <1>1, <2>1 DEF WriteFile, FileBecomes, TypeOK, FileVersion
<1>7. OneSave' /\ saves' = {n} /\ queued' = queued
  BY <1>2, <1>4, <1>5, GoOn DEF Early
<1>8. o.text \in shown /\ (o.version = versionId => o.text = model.text) /\ Known(o.stat) /\ Seen(o.stat)
  BY <1>1, <1>5 DEF Snapshot, SaveKnown, Early
<1>9. Snapshot'
  BY <1>2, <1>4, <1>7, <1>8 DEF Snapshot
<1>10. Learns /\ model'.text \in shown'
  BY <1>1, <1>4, <1>6 DEF Learns, Moves, StatKnown
<1>11. SaveKnown'
  <2>1. /\ n.stat.mtime <= disk'.mtime /\ n.stat.mtime # disk'.mtime
    <3>1. o.stat.mtime \in Nat /\ disk.mtime \in Nat
      BY <1>1 DEF TypeOK, Save, FileVersion
    <3> QED BY <1>2, <1>6, <1>8, <3>1 DEF Known
  <2> QED BY <1>2, <1>6, <1>7, <2>1 DEF SaveKnown, Known, Seen
<1>12. NothingOverwrittenUnseen'
  BY <1>2, <1>7 DEF NothingOverwrittenUnseen
<1>13. StatKnown' /\ ResolveKnown'
  BY <1>1, <1>4, <1>6, <1>8, <1>10, StatKnownKept, ResolveKnownKept
<1>14. TypeOK'
  BY <1>1, <1>2, <1>3, <1>6, <1>7 DEF TypeOK, bufferVars, resolveVars
<1> QED BY <1>7, <1>9, <1>11, <1>12, <1>13, <1>14 DEF IInv

LEMMA CleanType ==
  ASSUME NEW alt \in Nat
  PROVE  Clean(alt) \in Flags
BY DEF Clean, Flags

Resolve == [phase : {"none", "stat", "read", "late", "apply"}, force : BOOLEAN,
            version : Nat, stat : FileVersion, text : Nat]

LEMMA NoResolveType == NoResolve \in Resolve /\ NoResolve.phase = "none"
BY DEF NoResolve, Resolve, FileVersion

LEMMA ReadingType ==
  ASSUME TypeOK, NEW force \in BOOLEAN
  PROVE  /\ Reading(force) \in Resolve /\ Reading(force).phase = "stat"
         /\ Reading(force).stat = stat /\ Reading(force).version = versionId
<1> DEFINE r1 == [NoResolve EXCEPT !.phase = "stat"]
           r2 == [r1 EXCEPT !.force = force]
           r3 == [r2 EXCEPT !.version = versionId]
           r4 == [r3 EXCEPT !.stat = stat]
<1>1. r1 \in Resolve /\ r1.phase = "stat"
  BY NoResolveType DEF Resolve
<1>2. Reading(force) = r4
  BY Zenon DEF Reading
<1> HIDE DEF r1
<1>3. r2 \in Resolve /\ r2.phase = "stat"
  BY <1>1 DEF Resolve
<1> HIDE DEF r2
<1>4. r3 \in Resolve /\ r3.phase = "stat" /\ r3.version = versionId
  BY <1>3 DEF Resolve, TypeOK
<1> HIDE DEF r3
<1>5. r4 \in Resolve /\ r4.phase = "stat" /\ r4.version = versionId /\ r4.stat = stat
  BY <1>4 DEF Resolve, TypeOK
<1> QED BY <1>2, <1>5

\* A resolve starts, of a model that is clean or whose text is given up.
Begins ==
  /\ \E force \in BOOLEAN : resolve' = Reading(force)
  /\ flags.dirty => model.text \in reverted'

\* The file is looked at.
Looks ==
  /\ disk.text # NoText
  /\ resolve.phase # "none"
  /\ resolve' \in Resolve /\ resolve'.version = resolve.version
  /\ \/ resolve'.phase = "read" /\ resolve'.stat = disk
     \/ /\ resolve.phase = "stat" /\ resolve'.phase = "late"
        /\ resolve'.stat = resolve.stat /\ resolve'.text = disk.text
     \/ /\ resolve.phase = "late" /\ resolve'.phase = "apply"
        /\ resolve'.stat = disk /\ resolve'.text = resolve.text
     \/ /\ resolve.phase = "read" /\ resolve'.phase = "apply"
        /\ resolve'.stat = resolve.stat /\ resolve'.text = disk.text

LEMMA LookingStep ==
  ASSUME IInv, UNCHANGED <<bufferVars, stat, saveVars, disk, shown, raced>>,
         resolve' = resolve \/ Begins \/ Looks \/ resolve' = NoResolve
  PROVE  ResolveKnown' /\ resolve' \in Resolve
<1>1. TypeOK /\ StatKnown /\ ResolveKnown
  BY DEF IInv
<1>2. stat' = stat /\ disk' = disk /\ shown' = shown /\ raced' = raced
  OBVIOUS
<1>3. CASE resolve' = resolve
  BY <1>1, <1>2, <1>3 DEF ResolveKnown, Known, Seen, TypeOK, Resolve
<1>4. CASE Begins
  <2>1. PICK force \in BOOLEAN : resolve' = Reading(force)
    BY <1>4 DEF Begins
  <2>2. resolve' \in Resolve /\ resolve'.phase = "stat" /\ resolve'.stat = stat
    BY <1>1, <2>1, ReadingType
  <2> QED BY <1>1, <1>2, <2>2 DEF ResolveKnown, StatKnown, Known, Seen
<1>5. CASE Looks
  <2>1. disk.mtime <= disk.mtime
    BY <1>1 DEF TypeOK, FileVersion
  <2>2. CASE resolve'.phase = "read" /\ resolve'.stat = disk
    BY <1>2, <1>5, <2>1, <2>2 DEF Looks, ResolveKnown, Known
  <2>3. CASE /\ resolve.phase = "stat" /\ resolve'.phase = "late"
             /\ resolve'.stat = resolve.stat /\ resolve'.text = disk.text
    BY <1>1, <1>2, <1>5, <2>3 DEF Looks, ResolveKnown, Known
  <2>4. CASE /\ resolve.phase = "late" /\ resolve'.phase = "apply"
             /\ resolve'.stat = disk /\ resolve'.text = resolve.text
    BY <1>1, <1>2, <1>5, <2>1, <2>4 DEF Looks, ResolveKnown, Known
  <2>5. CASE /\ resolve.phase = "read" /\ resolve'.phase = "apply"
             /\ resolve'.stat = resolve.stat /\ resolve'.text = disk.text
    BY <1>1, <1>2, <1>5, <2>5 DEF Looks, ResolveKnown, Known
  <2> QED BY <1>5, <2>2, <2>3, <2>4, <2>5 DEF Looks
<1>6. CASE resolve' = NoResolve
  BY <1>6, NoResolveType DEF ResolveKnown
<1> QED BY <1>3, <1>4, <1>5, <1>6

\* The steps of a resolve that leave the content and the stat alone.
LookAction ==
  \/ FileEvent \/ Reload \/ Revert \/ RevertResolves \/ StatFile \/ ReadEarly \/ StatLate
  \/ NotFound \/ ReadFile \/ ReadFails \/ Discard

RevertStates == [phase : {"none", "waiting", "reading"}, was : Flags]

LEMMA RevertReadsType ==
  ASSUME NEW was \in Flags, NEW dirty, RevertReads(was, dirty)
  PROVE  /\ \/ resolve' = resolve
            \/ ~dirty /\ \E force \in BOOLEAN : resolve' = Reading(force)
         /\ revert' \in RevertStates
<1>1. NoRevert \in RevertStates /\ [phase |-> "reading", was |-> was] \in RevertStates
  BY CleanType DEF NoRevert, RevertStates
<1> QED BY <1>1 DEF RevertReads, MayResolve

LEMMA ResolvedType ==
  ASSUME TypeOK, Resolved
  PROVE  revert' \in RevertStates /\ resolve' = NoResolve /\ reload' = reload
<1>1. NoRevert \in RevertStates
  BY CleanType DEF NoRevert, RevertStates
<1> QED BY <1>1 DEF Resolved, TypeOK, RevertStates

LEMMA LookActionEffects ==
  ASSUME IInv, LookAction
  PROVE  /\ UNCHANGED <<bufferVars, stat, saveVars, disk, texts, held, shown, raced>>
         /\ resolve' = resolve \/ Begins \/ Looks \/ resolve' = NoResolve
         /\ flags' \in Flags /\ revert' \in RevertStates
         /\ reload' \in BOOLEAN /\ changed' \in BOOLEAN /\ unread' \in BOOLEAN
         /\ reverted' \in SUBSET Nat
         /\ left' \in [changes : Nat, saves : Nat, reverts : Nat]
<1>1. TypeOK
  BY DEF IInv
<1>2. /\ flags \in Flags /\ revert \in RevertStates /\ reload \in BOOLEAN /\ changed \in BOOLEAN
      /\ unread \in BOOLEAN /\ reverted \in SUBSET Nat /\ resolve \in Resolve /\ disk \in FileVersion
      /\ left \in [changes : Nat, saves : Nat, reverts : Nat] /\ model \in [text : Nat, alt : Nat]
  BY <1>1 DEF TypeOK, RevertStates, Resolve
<1>3. disk.text # NoText => disk.text \in Nat
  BY <1>2 DEF FileVersion
<1>4. CASE FileEvent
  <2>1. reload' \in BOOLEAN
    BY <1>2, <1>4 DEF FileEvent, Flags
  <2> QED BY <1>2, <1>4, <2>1 DEF FileEvent, bufferVars, saveVars, historyVars
<1>5. CASE Reload
  <2>1. resolve' = resolve \/ Begins
    BY <1>5 DEF Reload, Begins, MayResolve
  <2> QED BY <1>2, <1>5, <2>1 DEF Reload, bufferVars, saveVars, historyVars, fileVars
<1>6. CASE Revert
  <2>1. flags' \in Flags
    BY <1>2, <1>6, CleanType DEF Revert
  <2>2. left' \in [changes : Nat, saves : Nat, reverts : Nat]
    BY <1>2, <1>6 DEF Revert
  <2>3. reverted' \in SUBSET Nat
    BY <1>2, <1>6 DEF Revert
  <2>4. (resolve' = resolve \/ Begins) /\ revert' \in RevertStates
    <3>1. [phase |-> "waiting", was |-> flags] \in RevertStates
      BY <1>2 DEF RevertStates
    <3>2. model.text \in reverted'
      BY <1>6 DEF Revert
    <3> QED BY <1>2, <1>6, <3>1, <3>2, RevertReadsType DEF Revert, Begins
  <2> QED BY <1>2, <1>6, <2>1, <2>2, <2>3, <2>4 DEF Revert, bufferVars, saveVars, fileVars
<1>7. CASE RevertResolves
  <2>1. revert.was \in Flags
    BY <1>2 DEF RevertStates
  <2>2. (resolve' = resolve \/ Begins) /\ revert' \in RevertStates
    BY <1>7, <2>1, RevertReadsType DEF RevertResolves, Begins
  <2> QED BY <1>2, <1>7, <2>2 DEF RevertResolves, bufferVars, saveVars, fileVars, historyVars
<1>8. CASE StatFile
  <2>1. Looks
    <3> DEFINE r == [resolve EXCEPT !.phase = "read", !.stat = disk]
    <3>1. /\ r \in Resolve /\ r.version = resolve.version
          /\ r.phase = "read" /\ r.stat = disk
      BY <1>2 DEF Resolve
    <3> HIDE DEF r
    <3>2. resolve' = r /\ resolve.phase = "stat" /\ disk.text # NoText
      BY <1>8 DEF StatFile, r
    <3> QED BY <3>1, <3>2 DEF Looks
  <2> QED BY <1>2, <1>8, <2>1 DEF StatFile, bufferVars, saveVars, fileVars, historyVars
<1>9. CASE ReadEarly
  <2>1. Looks
    <3> DEFINE r == [resolve EXCEPT !.phase = "late", !.text = disk.text]
    <3>1. disk.text # NoText
      BY <1>9 DEF ReadEarly
    <3>2. /\ r \in Resolve /\ r.version = resolve.version
          /\ r.phase = "late" /\ r.stat = resolve.stat /\ r.text = disk.text
      BY <1>2, <1>3, <3>1 DEF Resolve
    <3> HIDE DEF r
    <3>3. resolve' = r /\ resolve.phase = "stat"
      BY <1>9 DEF ReadEarly, r
    <3> QED BY <3>1, <3>2, <3>3 DEF Looks
  <2> QED BY <1>2, <1>9, <2>1 DEF ReadEarly, bufferVars, saveVars, fileVars, historyVars
<1>10. CASE StatLate
  <2>1. Looks
    <3> DEFINE r == [resolve EXCEPT !.phase = "apply", !.stat = disk]
    <3>1. /\ r \in Resolve /\ r.version = resolve.version
          /\ r.phase = "apply" /\ r.stat = disk /\ r.text = resolve.text
      BY <1>2 DEF Resolve
    <3> HIDE DEF r
    <3>2. resolve' = r /\ resolve.phase = "late" /\ disk.text # NoText
      BY <1>10 DEF StatLate, r
    <3> QED BY <3>1, <3>2 DEF Looks
  <2> QED BY <1>2, <1>10, <2>1 DEF StatLate, bufferVars, saveVars, fileVars, historyVars
<1>11. CASE ReadFile
  <2>1. Looks
    <3> DEFINE r == [resolve EXCEPT !.phase = "apply", !.text = disk.text]
    <3>1. disk.text # NoText
      BY <1>11 DEF ReadFile
    <3>2. /\ r \in Resolve /\ r.version = resolve.version
          /\ r.phase = "apply" /\ r.stat = resolve.stat /\ r.text = disk.text
      BY <1>2, <1>3, <3>1 DEF Resolve
    <3> HIDE DEF r
    <3>3. resolve' = r /\ resolve.phase = "read"
      BY <1>11 DEF ReadFile, r
    <3> QED BY <3>1, <3>2, <3>3 DEF Looks
  <2> QED BY <1>2, <1>11, <2>1 DEF ReadFile, bufferVars, saveVars, fileVars, historyVars
<1>12. CASE NotFound
  BY <1>1, <1>2, <1>12, ResolvedType DEF NotFound, bufferVars, saveVars, fileVars, historyVars
<1>13. CASE ReadFails
  <2>1. flags' \in Flags
    BY <1>2, <1>13 DEF ReadFails, RevertStates
  <2> QED BY <1>1, <1>2, <1>13, <2>1, ResolvedType DEF ReadFails, bufferVars, saveVars, fileVars
<1>14. CASE Discard
  BY <1>1, <1>2, <1>14, ResolvedType DEF Discard, bufferVars, saveVars, fileVars, historyVars
<1> QED BY <1>4, <1>5, <1>6, <1>7, <1>8, <1>9, <1>10, <1>11, <1>12, <1>13, <1>14 DEF LookAction

LEMMA LookActionStep ==
  ASSUME IInv, LookAction
  PROVE  IInv'
<1>1. TypeOK
  BY DEF IInv
<1>2. /\ UNCHANGED <<bufferVars, stat, saveVars, disk, texts, held, shown, raced>>
      /\ resolve' = resolve \/ Begins \/ Looks \/ resolve' = NoResolve
      /\ flags' \in Flags /\ revert' \in RevertStates
      /\ reload' \in BOOLEAN /\ changed' \in BOOLEAN /\ unread' \in BOOLEAN
      /\ reverted' \in SUBSET Nat
      /\ left' \in [changes : Nat, saves : Nat, reverts : Nat]
  BY LookActionEffects
<1>3. /\ OneSave' /\ Snapshot' /\ StatKnown' /\ SaveKnown' /\ NothingOverwrittenUnseen'
  BY <1>2, LookStep
<1>4. ResolveKnown' /\ resolve' \in Resolve
  BY <1>2, LookingStep
<1>5. TypeOK'
  BY <1>1, <1>2, <1>4 DEF TypeOK, bufferVars, saveVars, RevertStates, Resolve
<1> QED BY <1>3, <1>4, <1>5 DEF IInv

LEMMA NotModifiedStep ==
  ASSUME IInv, NotModified
  PROVE  IInv'
<1>1. /\ TypeOK /\ OneSave /\ Snapshot /\ StatKnown /\ SaveKnown /\ ResolveKnown
      /\ NothingOverwrittenUnseen
  BY DEF IInv
<1>2. UNCHANGED <<bufferVars, flags, saveVars, fileVars, texts, historyVars, left>>
  BY DEF NotModified
<1>3. /\ model' = model /\ versionId' = versionId /\ saves' = saves
      /\ disk' = disk /\ shown' = shown /\ raced' = raced /\ UNCHANGED saveVars
  BY <1>2 DEF bufferVars, saveVars, fileVars, historyVars
<1>4. Learns /\ model'.text \in shown'
  BY <1>1, <1>3 DEF Learns, Moves, StatKnown
<1>5. OneSave' /\ Snapshot' /\ SaveKnown' /\ NothingOverwrittenUnseen'
  BY <1>1, <1>3, <1>4, OneSaveKept, SnapshotKept, SaveKnownKept
<1>6. disk \in FileVersion /\ Known(disk) /\ Seen(disk)
  BY <1>1 DEF TypeOK, FileVersion, NotModified, NotModifiedSince, ResolveKnown, Known, Seen
<1>7. stat' = Newer(disk)
  BY DEF NotModified
<1>8. StatKnown' /\ stat' \in FileVersion
  BY <1>1, <1>3, <1>4, <1>6, <1>7, NewerKnown
<1>9. revert' \in RevertStates /\ resolve' = NoResolve /\ reload' = reload
  BY <1>1, ResolvedType DEF NotModified
<1>10. ResolveKnown' /\ resolve' \in Resolve
  BY <1>9, NoResolveType DEF ResolveKnown
<1>11. TypeOK'
  BY <1>1, <1>2, <1>8, <1>9, <1>10 DEF TypeOK, bufferVars, saveVars, fileVars, historyVars,
       RevertStates, Resolve
<1> QED BY <1>5, <1>8, <1>10, <1>11 DEF IInv

LEMMA ApplyStep ==
  ASSUME IInv, Apply
  PROVE  IInv'
<1>1. /\ TypeOK /\ OneSave /\ Snapshot /\ StatKnown /\ SaveKnown /\ ResolveKnown
      /\ NothingOverwrittenUnseen
  BY DEF IInv
<1>2. UNCHANGED <<saveVars, fileVars, texts, held, reverted, raced, unread, left>>
  BY DEF Apply
<1>3. UNCHANGED <<bufferVars, shown>> \/ Content(resolve.text, versionId + 1)
  BY DEF Apply
<1>4. resolve \in Resolve /\ resolve.phase = "apply" /\ model \in [text : Nat, alt : Nat]
  BY <1>1 DEF TypeOK, Resolve, Apply
<1>5. /\ model'.text = resolve.text
      /\ model' \in [text : Nat, alt : Nat] /\ past' \in SUBSET [text : Nat, alt : Nat]
      /\ versionId' \in Nat /\ shown' \in SUBSET Nat
      /\ UNCHANGED <<versionId, model>> \/ versionId' = versionId + 1
      /\ shown \subseteq shown' /\ model'.text \in shown'
  <2>1. CASE resolve.text = model.text /\ UNCHANGED <<bufferVars, shown>>
    BY <1>1, <2>1 DEF TypeOK, bufferVars, StatKnown
  <2>2. CASE Content(resolve.text, versionId + 1)
    <3>1. resolve.text \in Nat /\ versionId \in Nat /\ versionId + 1 \in Nat
      BY <1>1, <1>4 DEF TypeOK, Resolve
    <3>2. model' \in [text : Nat, alt : Nat] /\ model'.text = resolve.text
      BY <2>2, <3>1 DEF Content
    <3>3. past' \in SUBSET [text : Nat, alt : Nat]
      BY <1>1, <1>4, <2>2 DEF Content, TypeOK
    <3>4. versionId' = versionId + 1 /\ shown' = shown \cup {resolve.text} /\ shown \in SUBSET Nat
      BY <1>1, <2>2 DEF Content, TypeOK
    <3> QED BY <3>1, <3>2, <3>3, <3>4
  <2> QED BY <2>1, <2>2 DEF Apply
<1>6. /\ saves' = saves /\ disk' = disk /\ raced' = raced /\ UNCHANGED saveVars
      /\ versionId' \in {versionId, versionId + 1}
  BY <1>2, <1>5 DEF saveVars, fileVars
<1>7. Learns
  BY <1>5, <1>6 DEF Learns, Moves
<1>8. OneSave' /\ Snapshot' /\ SaveKnown' /\ NothingOverwrittenUnseen'
  BY <1>1, <1>5, <1>6, <1>7, OneSaveKept, SnapshotKept, SaveKnownKept
<1>9. StatKnown' /\ stat' \in FileVersion
  <2>1. stat' \in {stat, resolve.stat} /\ stat \in FileVersion /\ resolve.stat \in FileVersion
    BY <1>1, <1>4 DEF Apply, Newer, TypeOK, Resolve
  <2>2. CASE stat' = stat
    BY <1>1, <1>5, <1>6, <2>1, <2>2 DEF StatKnown, Known, Seen
  <2>3. CASE stat' = resolve.stat
    <3>1. Known(resolve.stat)
      BY <1>1, <1>4 DEF ResolveKnown
    <3>2. ~raced /\ resolve.stat.mtime = disk.mtime => resolve.stat.text \in shown'
      BY <1>1, <1>4, <1>5, <3>1 DEF ResolveKnown, Known
    <3> QED BY <1>5, <1>6, <2>1, <2>3, <3>1, <3>2 DEF StatKnown, Known, Seen
  <2> QED BY <2>1, <2>2, <2>3
<1>10. revert' \in RevertStates /\ resolve' = NoResolve /\ reload' = reload
  BY <1>1, ResolvedType DEF Apply
<1>11. ResolveKnown' /\ resolve' \in Resolve
  BY <1>10, NoResolveType DEF ResolveKnown
<1>12. flags' \in Flags
  BY <1>5, CleanType DEF Apply
<1>13. TypeOK'
  BY <1>1, <1>2, <1>5, <1>9, <1>10, <1>11, <1>12 DEF TypeOK, saveVars, fileVars, RevertStates, Resolve
<1> QED BY <1>8, <1>9, <1>11, <1>13 DEF IInv

LEMMA OthersStep ==
  ASSUME IInv, OthersWrite \/ OthersDelete
  PROVE  IInv'
<1>1. /\ TypeOK /\ OneSave /\ Snapshot /\ StatKnown /\ SaveKnown /\ ResolveKnown
      /\ NothingOverwrittenUnseen
  BY DEF IInv
<1>2. UNCHANGED <<bufferVars, flags, stat, saveVars, resolveVars, shown, reverted, unread>>
  BY DEF OthersWrite, OthersDelete, ChangeFile
<1>3. PICK text \in Nat \cup {NoText} : FileBecomes(text) /\ texts' \in Nat
  <2>1. texts \in Nat /\ texts + 1 \in Nat
    BY <1>1 DEF TypeOK
  <2>2. CASE OthersWrite
    BY <2>1, <2>2 DEF OthersWrite
  <2>3. CASE OthersDelete
    BY <2>1, <2>3 DEF OthersDelete
  <2> QED BY <2>2, <2>3
<1>4. left' \in [changes : Nat, saves : Nat, reverts : Nat]
  <2>1. ChangeFile
    BY DEF OthersWrite, OthersDelete
  <2>2. left \in [changes : Nat, saves : Nat, reverts : Nat]
    BY <1>1 DEF TypeOK
  <2>3. left.changes > 0 /\ left' = [left EXCEPT !.changes = @ - 1]
    BY <2>1 DEF ChangeFile
  <2> QED BY <2>2, <2>3
<1>5. /\ raced' = (raced \/ resolve.phase = "late" \/ \E o \in saves : o.phase \in {"writing", "stat"})
      /\ raced \in BOOLEAN
  BY <1>1 DEF OthersWrite, OthersDelete, ChangeFile, TypeOK
<1>6. raced' \in BOOLEAN
  BY <1>5
<1>7. /\ disk' \in FileVersion /\ Moves /\ changed' \in BOOLEAN
  BY <1>1, <1>3 DEF TypeOK, FileBecomes, FileVersion, Moves
<1>8. held' \in SUBSET Nat
  BY <1>1, <1>3 DEF TypeOK, FileBecomes
<1>9. /\ model' = model /\ versionId' = versionId /\ saves' = saves /\ stat' = stat
      /\ resolve' = resolve /\ shown' = shown /\ UNCHANGED saveVars
  BY <1>2 DEF bufferVars, saveVars, resolveVars
<1>10. Learns /\ model'.text \in shown'
  BY <1>1, <1>5, <1>7, <1>9 DEF Learns, StatKnown
<1>11. OneSave' /\ Snapshot'
  BY <1>1, <1>9, <1>10, OneSaveKept, SnapshotKept
<1>12. SaveKnown' /\ NothingOverwrittenUnseen'
  BY <1>1, <1>5, <1>9, <1>10, SaveKnownKept
<1>13. StatKnown' /\ ResolveKnown'
  BY <1>1, <1>5, <1>9, <1>10, StatKnownKept, ResolveKnownKept
<1>14. TypeOK'
  BY <1>1, <1>2, <1>3, <1>4, <1>6, <1>7, <1>8 DEF TypeOK, bufferVars, saveVars, resolveVars
<1> QED BY <1>11, <1>12, <1>13, <1>14 DEF IInv

(***************************************************************************)
(* The first invariant                                                     *)
(***************************************************************************)
LEMMA InitIInv ==
  ASSUME Init, MaxChanges \in Nat, MaxSaves \in Nat, MaxReverts \in Nat
  PROVE  IInv
<1>1. /\ model = [text |-> 0, alt |-> 0] /\ past = {} /\ versionId = 0 /\ flags = Clean(0)
      /\ stat = [text |-> 0, mtime |-> 0] /\ saves = {} /\ running = NoTask /\ queued = "none"
      /\ resolve = NoResolve /\ reload = FALSE /\ revert = NoRevert
      /\ disk = [text |-> 0, mtime |-> 0] /\ changed = FALSE /\ texts = 1
      /\ held = {0} /\ shown = {0} /\ reverted = {} /\ raced = FALSE /\ unread = FALSE
  BY DEF Init
<1>2. left \in [changes : Nat, saves : Nat, reverts : Nat]
  BY DEF Init
<1>3. flags \in Flags /\ revert \in RevertStates
  BY <1>1, CleanType DEF NoRevert, RevertStates
<1>4. resolve \in Resolve /\ resolve.phase = "none"
  BY <1>1, NoResolveType
<1>5. stat \in FileVersion /\ disk \in FileVersion /\ model \in [text : Nat, alt : Nat]
  BY <1>1 DEF FileVersion
<1>6. TypeOK
  BY <1>1, <1>2, <1>3, <1>4, <1>5 DEF TypeOK, Resolve, RevertStates
<1>7. OneSave /\ Snapshot /\ SaveKnown /\ NothingOverwrittenUnseen
  BY <1>1 DEF OneSave, Snapshot, SaveKnown, NothingOverwrittenUnseen
<1>8. StatKnown
  BY <1>1 DEF StatKnown, Known, Seen
<1>9. ResolveKnown
  BY <1>4 DEF ResolveKnown
<1> QED BY <1>6, <1>7, <1>8, <1>9 DEF IInv

LEMMA IdleStep ==
  ASSUME IInv, UNCHANGED vars
  PROVE  IInv'
<1>1. TypeOK /\ ResolveKnown
  BY DEF IInv
<1>2. UNCHANGED <<bufferVars, flags, stat, saveVars, resolveVars, fileVars, texts, historyVars, left>>
  BY DEF vars
<1>3. UNCHANGED <<bufferVars, stat, saveVars, disk, shown, raced>> /\ resolve' = resolve
  BY <1>2 DEF resolveVars, fileVars, historyVars
<1>4. OneSave' /\ Snapshot' /\ StatKnown' /\ SaveKnown' /\ NothingOverwrittenUnseen' /\ ResolveKnown'
  BY <1>3, LookStep, LookingStep
<1>5. TypeOK'
  BY <1>1, <1>2 DEF TypeOK, bufferVars, saveVars, resolveVars, fileVars, historyVars
<1> QED BY <1>4, <1>5 DEF IInv

LEMMA NextIInv ==
  ASSUME IInv, [Next]_vars
  PROVE  IInv'
<1>1. ASSUME NEW o \in saves, SaveStep(o) PROVE IInv'
  BY <1>1, BeforeWriteStep, GiveUpSaveStep, StartWriteStep, ValidateStep, WriteFileStep,
     WriteFailsStep, SaveSucceedsStep DEF SaveStep
<1>2. CASE ResolveStep
  BY <1>2, LookActionStep, NotModifiedStep, ApplyStep DEF ResolveStep, LookAction
<1>3. CASE UserStep
  BY <1>3, EditStep, LookActionStep, RequestSaveStep, BeforeWriteStep DEF UserStep, LookAction
<1>4. CASE FileEvent
  BY <1>4, LookActionStep DEF LookAction
<1>5. CASE OthersWrite \/ OthersDelete
  BY <1>5, OthersStep
<1>6. CASE UNCHANGED vars
  BY <1>6, IdleStep
<1> QED BY <1>1, <1>2, <1>3, <1>4, <1>5, <1>6 DEF Next

LEMMA Invariance == Spec => []IInv
<1>1. Init => IInv
  BY InitIInv, ConstantsAssumption
<1> QED BY <1>1, NextIInv, PTL DEF Spec

\* The variables keep their types.
THEOREM TypeCorrect == Spec => []TypeOK
<1>1. IInv => TypeOK
  BY DEF IInv
<1> QED BY <1>1, Invariance, PTL

\* Never do two saves run at the same time, the sequencer knows of the one
\* that runs, and a queued save has one to wait for.
THEOREM OneSaveAtATime == Spec => []SingleSave
<1>1. ASSUME IInv PROVE SingleSave
  <2>1. OneSave /\ saves \in SUBSET Save /\ running \in Nat \cup {NoTask}
    BY <1>1 DEF IInv, TypeOK
  <2>2. CASE saves = {}
    <3>1. Cardinality(saves) = 0
      BY <2>2, FS_EmptySet
    <3> QED BY <2>1, <2>2, <3>1 DEF SingleSave, OneSave
  <2>3. ASSUME NEW o \in saves PROVE SingleSave
    <3>1. saves = {o} /\ o \in Save
      BY <2>1, <2>3 DEF OneSave
    <3>2. Cardinality(saves) = 1
      BY <3>1, FS_Singleton
    <3>3. running # NoTask
      BY <2>1, <2>3, <3>1 DEF OneSave, Save, NoTask
    <3> QED BY <2>3, <3>2, <3>3 DEF SingleSave
  <2> QED BY <2>2, <2>3
<1> QED BY <1>1, Invariance, PTL

\* Dirty write prevention: a write that passed validation replaces only
\* contents the model has shown, for every order of writes, stats and changes.
THEOREM NothingUnseen == Spec => []NothingOverwrittenUnseen
<1>1. IInv => NothingOverwrittenUnseen
  BY DEF IInv
<1> QED BY <1>1, Invariance, PTL

(***************************************************************************)
(* What counts as saved, as long as no revert fails to read                *)
(***************************************************************************)
\* The model shows what it showed, and the flags are what they were, are set
\* dirty, or are cleared for a text that was saved or given up.
LEMMA TextsKept ==
  ASSUME TypeOK, OneText, CleanIsSaved, SavedText, UNCHANGED bufferVars,
         GoodTexts \subseteq GoodTexts',
         \/ flags'.saved = flags.saved /\ (flags.dirty => flags'.dirty)
         \/ flags' = Clean(model.alt) /\ model.text \in GoodTexts'
  PROVE  OneText' /\ CleanIsSaved' /\ SavedText'
<1>1. model' = model /\ past' = past /\ versionId' = versionId /\ Contents' = Contents
  BY DEF bufferVars, Contents
<1>2. CASE flags'.saved = flags.saved /\ (flags.dirty => flags'.dirty)
  BY <1>1, <1>2 DEF OneText, CleanIsSaved, SavedText, GoodTexts
<1>3. CASE flags' = Clean(model.alt) /\ model.text \in GoodTexts'
  <2>1. flags'.saved = model.alt
    BY <1>3 DEF Clean
  <2>2. model \in Contents /\ model.alt <= versionId
    BY DEF OneText, Contents
  <2>3. OneText'
    BY <1>1, <2>1, <2>2 DEF OneText
  <2>4. CleanIsSaved'
    BY <1>1, <1>3 DEF CleanIsSaved, GoodTexts
  <2>5. SavedText'
    BY <1>1, <1>3, <2>1, <2>2 DEF OneText, SavedText
  <2> QED BY <2>3, <2>4, <2>5
<1> QED BY <1>2, <1>3

\* New content: an edit, an undo, or what was read from the file.
LEMMA TextsChanged ==
  ASSUME TypeOK, OneText, CleanIsSaved, SavedText, NEW text \in Nat, NEW alt \in Nat, Content(text, alt),
         GoodTexts' = GoodTexts,
         \/ alt = versionId + 1
         \/ \E c \in past : c.text = text /\ c.alt = alt,
         \/ Edited(alt)
         \/ flags' = Clean(alt) /\ text \in GoodTexts
  PROVE  OneText' /\ CleanIsSaved' /\ SavedText'
<1> DEFINE n == [text |-> text, alt |-> alt]
<1>1. n.text = text /\ n.alt = alt
  OBVIOUS
<1>2. model' = n /\ Contents' = Contents \cup {n} /\ versionId' = versionId + 1
  BY DEF Content, Contents
<1> HIDE DEF n
<1>3. versionId \in Nat /\ \A c \in Contents : c.alt \in Nat /\ c.alt <= versionId
  BY DEF TypeOK, OneText, Contents
<1>4. flags.saved \in Nat /\ flags.saved <= versionId
  BY DEF TypeOK, Flags, OneText
<1>5. alt <= versionId + 1
  BY <1>3 DEF Contents
<1>6. \A c \in Contents : c.alt = alt => c.text = text
  <2>1. CASE alt = versionId + 1
    BY <1>3, <2>1
  <2>2. CASE \E c \in past : c.text = text /\ c.alt = alt
    BY <2>2 DEF OneText, Contents
  <2> QED BY <2>1, <2>2
<1>7. alt = flags.saved => text \in GoodTexts
  <2>1. CASE alt = versionId + 1
    BY <1>3, <1>4, <2>1
  <2>2. CASE \E c \in past : c.text = text /\ c.alt = alt
    BY <2>2 DEF SavedText, Contents
  <2> QED BY <2>1, <2>2
<1>8. \/ flags'.saved = flags.saved /\ flags'.dirty /\ alt # flags.saved
      \/ flags'.saved = alt /\ text \in GoodTexts
  <2>1. CASE Edited(alt) /\ alt = flags.saved
    BY <1>7, <2>1 DEF Edited, Clean
  <2>2. CASE Edited(alt) /\ alt # flags.saved
    BY <2>2 DEF Edited, TypeOK, Flags
  <2>3. CASE flags' = Clean(alt) /\ text \in GoodTexts
    BY <2>3 DEF Clean
  <2> QED BY <2>1, <2>2, <2>3
<1>9. \A c \in Contents' : c.alt <= versionId'
  BY <1>1, <1>2, <1>3, <1>5
<1>10. \A c, d \in Contents' : c.alt = d.alt => c.text = d.text
  BY <1>1, <1>2, <1>6 DEF OneText
<1>11. flags'.saved <= versionId'
  BY <1>2, <1>3, <1>4, <1>5, <1>8
<1>12. OneText'
  BY <1>9, <1>10, <1>11 DEF OneText
<1>13. CleanIsSaved'
  BY <1>1, <1>2, <1>8 DEF CleanIsSaved, GoodTexts
<1>14. SavedText'
  <2>1. \A c \in Contents' : c.alt = flags'.saved => c.text \in GoodTexts
    BY <1>1, <1>2, <1>6, <1>8 DEF SavedText
  <2> QED BY <2>1 DEF SavedText
<1> QED BY <1>12, <1>13, <1>14

\* Texts are only ever added to those the file has held.
LEMMA WrittenKept ==
  ASSUME Written, held \subseteq held', saves' = saves \/ \A o \in saves' : o.phase # "stat"
  PROVE  Written'
BY DEF Written

LEMMA OnDiskKept ==
  ASSUME OnDisk, held \subseteq held', disk' = disk \/ \E text : FileBecomes(text)
  PROVE  OnDisk'
BY DEF OnDisk, FileBecomes

LEMMA ReadKept ==
  ASSUME TypeOK, Read, resolve' = resolve \/ resolve' = NoResolve, held \subseteq held',
         GoodTexts \subseteq GoodTexts',
         UNCHANGED <<versionId, model>> \/ versionId' = versionId + 1
  PROVE  Read'
<1>1. CASE resolve' = NoResolve
  BY <1>1, NoResolveType DEF Read
<1>2. CASE resolve' = resolve /\ UNCHANGED <<versionId, model>>
  BY <1>2 DEF Read
<1>3. CASE resolve' = resolve /\ versionId' = versionId + 1
  <2>1. versionId \in Nat /\ resolve.version \in Nat
    BY DEF TypeOK
  <2> QED BY <1>3, <2>1 DEF Read
<1> QED BY <1>1, <1>2, <1>3

\* A step that leaves what the model shows alone, and reads nothing.
LEMMA StillStep ==
  ASSUME TypeOK, SInv, UNCHANGED bufferVars, held \subseteq held', reverted \subseteq reverted',
         \/ flags'.saved = flags.saved /\ (flags.dirty => flags'.dirty)
         \/ flags' = Clean(model.alt) /\ model.text \in GoodTexts',
         resolve' = resolve \/ resolve' = NoResolve,
         saves' = saves \/ \A o \in saves' : o.phase # "stat",
         disk' = disk \/ \E text : FileBecomes(text)
  PROVE  SInv'
<1>1. GoodTexts \subseteq GoodTexts' /\ UNCHANGED <<versionId, model>>
  BY DEF GoodTexts, bufferVars
<1>2. OneText' /\ CleanIsSaved' /\ SavedText'
  BY <1>1, TextsKept DEF SInv
<1>3. Written' /\ OnDisk' /\ Read'
  BY <1>1, WrittenKept, OnDiskKept, ReadKept DEF SInv
<1> QED BY <1>2, <1>3 DEF SInv

\* A step that changes the content.
LEMMA NewTextStep ==
  ASSUME TypeOK, SInv, NEW text \in Nat, NEW alt \in Nat, Content(text, alt),
         \/ alt = versionId + 1
         \/ \E c \in past : c.text = text /\ c.alt = alt,
         \/ Edited(alt)
         \/ flags' = Clean(alt) /\ text \in GoodTexts,
         resolve' = resolve \/ resolve' = NoResolve,
         UNCHANGED <<saves, disk, held, reverted>>
  PROVE  SInv'
<1>1. GoodTexts' = GoodTexts /\ versionId' = versionId + 1
  BY DEF GoodTexts, Content
<1>2. OneText' /\ CleanIsSaved' /\ SavedText'
  BY <1>1, TextsChanged DEF SInv
<1>3. Written' /\ OnDisk' /\ Read'
  BY <1>1, WrittenKept, OnDiskKept, ReadKept DEF SInv
<1> QED BY <1>2, <1>3 DEF SInv

LEMMA EditSInv ==
  ASSUME TypeOK, SInv, Edit \/ Undo \/ \E o \in saves : ParticipantEdits(o)
  PROVE  SInv'
<1>1. versionId + 1 \in Nat /\ texts \in Nat /\ past \subseteq [text : Nat, alt : Nat]
  BY DEF TypeOK
<1>2. resolve' = resolve /\ UNCHANGED <<saves, disk, held, reverted>>
  BY DEF Edit, Undo, ParticipantEdits, resolveVars, saveVars, fileVars
<1>3. CASE NewContent
  <2>1. Content(texts, versionId + 1) /\ Edited(versionId + 1)
    BY <1>3 DEF NewContent
  <2> QED BY <1>1, <1>2, <2>1, NewTextStep
<1>4. CASE Undo
  <2>1. PICK c \in past : Content(c.text, c.alt) /\ Edited(c.alt)
    BY <1>4 DEF Undo
  <2>2. c.text \in Nat /\ c.alt \in Nat
    BY <1>1
  <2> QED BY <1>2, <2>1, <2>2, NewTextStep
<1> QED BY <1>3, <1>4 DEF Edit, ParticipantEdits

LEMMA EarlyIsNotStat == \A phase \in Early : phase # "stat"
BY DEF Early

LEMMA SaveSInv ==
  ASSUME IInv, SInv,
         \/ \E kind \in Kinds : RequestSave(kind)
         \/ \E o \in saves : CancelSave(o) \/ SaveStep(o)
  PROVE  SInv'
<1>1. TypeOK /\ OneSave
  BY DEF IInv
<1>2. ASSUME NEW kind \in Kinds, RequestSave(kind) PROVE SInv'
  <2>1. UNCHANGED bufferVars /\ flags' = flags /\ resolve' = resolve /\ disk' = disk /\ held' = held
        /\ reverted' = reverted
    BY <1>2 DEF RequestSave, resolveVars, fileVars, historyVars
  <2>2. Written'
    <3>1. UNCHANGED saveVars => saves' = saves
      BY DEF saveVars
    <3>2. ASSUME NEW o \in saves', o.phase = "stat" PROVE \E p \in saves : p.phase = "stat" /\ p.text = o.text
      <4>1. CASE saves' = saves
        BY <3>2, <4>1
      <4>2. CASE saves' = {} \cup {NewSave(kind, "throttled")} \/ saves' = {} \cup {NewSave(kind, "participants")}
        BY <3>2, <4>2 DEF NewSave
      <4>3. CASE saves' = {IF p.task = running /\ p.phase \in Early
                             THEN [p EXCEPT !.cancelled = TRUE] ELSE p : p \in saves}
        <5>1. PICK p \in saves : o = IF p.task = running /\ p.phase \in Early
                                       THEN [p EXCEPT !.cancelled = TRUE] ELSE p
          BY <3>2, <4>3
        <5>2. p \in Save
          BY <1>1 DEF TypeOK
        <5> QED BY <3>2, <5>1, <5>2 DEF Save
      <4> QED BY <1>1, <1>2, <3>1, <4>1, <4>2, <4>3, RequestStep
    <3> QED BY <2>1, <3>2 DEF SInv, Written
  <2>3. OneText' /\ CleanIsSaved' /\ SavedText' /\ Read' /\ OnDisk'
    BY <1>1, <2>1, TextsKept, ReadKept, OnDiskKept DEF SInv, GoodTexts, bufferVars
  <2> QED BY <2>2, <2>3 DEF SInv
<1>3. ASSUME NEW o \in saves, CancelSave(o) \/ StartParticipants(o) \/ StartWrite(o) \/ Validate(o) PROVE SInv'
  <2>1. /\ UNCHANGED bufferVars /\ resolve' = resolve /\ disk' = disk /\ held' = held
        /\ reverted' = reverted
    BY <1>3 DEF CancelSave, StartParticipants, StartWrite, Validate, resolveVars, fileVars, historyVars
  <2>2. flags'.saved = flags.saved /\ flags'.dirty = flags.dirty
    BY <1>1, <1>3 DEF CancelSave, StartParticipants, StartWrite, Validate, TypeOK, Flags
  <2>3. \A p \in saves' : p.phase # "stat"
    <3>1. saves = {o} /\ o \in Save
      BY <1>1 DEF OneSave, TypeOK
    <3>2. PICK n : Continue(o, n) /\ n.phase # "stat"
      <4>1. CASE CancelSave(o)
        BY <3>1, <4>1 DEF CancelSave, Save
      <4>2. CASE StartParticipants(o)
        BY <3>1, <4>2 DEF StartParticipants, Save
      <4>3. CASE Validate(o)
        BY <3>1, <4>3 DEF Validate, Save
      <4>4. CASE StartWrite(o)
        <5> DEFINE n == [o EXCEPT !.phase = "validating", !.version = versionId,
                                  !.text = model.text, !.stat = stat]
        <5>1. n.phase = "validating"
          BY <3>1 DEF Save
        <5>2. Continue(o, n)
          BY <4>4 DEF StartWrite
        <5> HIDE DEF n
        <5> QED BY <5>1, <5>2
      <4> QED BY <1>3, <4>1, <4>2, <4>3, <4>4
    <3> QED BY <3>1, <3>2 DEF Continue
  <2> QED BY <1>1, <2>1, <2>2, <2>3, StillStep
<1>4. ASSUME NEW o \in saves, GiveUpSave(o) \/ Conflict(o) \/ StatFails(o) PROVE SInv'
  <2>1. /\ UNCHANGED bufferVars /\ resolve' = resolve /\ disk' = disk /\ held' = held /\ shown' = shown
        /\ reverted' = reverted
    BY <1>4 DEF GiveUpSave, Conflict, StatFails, SaveError, resolveVars, fileVars, historyVars
  <2>2. flags'.saved = flags.saved /\ (flags.dirty => flags'.dirty)
    <3>1. flags \in Flags
      BY <1>1 DEF TypeOK
    <3>2. CASE GiveUpSave(o)
      BY <3>2 DEF GiveUpSave
    <3>3. CASE Conflict(o) \/ StatFails(o)
      <4>1. PICK b \in BOOLEAN :
              flags' = [flags EXCEPT !.dirty = TRUE, !.error = TRUE, !.conflict = @ \/ b]
        BY <3>3 DEF Conflict, StatFails, SaveError
      <4> QED BY <3>1, <4>1 DEF Flags
    <3> QED BY <1>4, <3>2, <3>3
  <2>3. \A p \in saves' : p.phase # "stat"
    <3>1. \E dirty : \E s \in Ended(Saving, o, dirty) : Becomes(s)
      BY <1>4 DEF GiveUpSave, Conflict, StatFails, SaveError
    <3> QED BY <2>1, <3>1, EndStep, EarlyIsNotStat
  <2> QED BY <1>1, <2>1, <2>2, <2>3, StillStep
<1>5. ASSUME NEW o \in saves, WriteFile(o) PROVE SInv'
  <2>1. /\ UNCHANGED bufferVars /\ resolve' = resolve /\ flags' = flags /\ reverted' = reverted
        /\ FileBecomes(o.text)
    BY <1>5 DEF WriteFile, resolveVars
  <2>2. saves = {o} /\ o \in Save
    BY <1>1 DEF OneSave, TypeOK
  <2>3. held \subseteq held' /\ o.text \in held'
    <3>1. o.text # NoText
      BY <2>2 DEF Save, NoText
    <3> QED BY <2>1, <3>1 DEF FileBecomes
  <2>4. Written'
    <3>1. PICK n : Continue(o, n) /\ n.text = o.text
      BY <1>5, <2>2 DEF WriteFile, Save
    <3> QED BY <2>2, <2>3, <3>1 DEF Continue, Written
  <2>5. GoodTexts \subseteq GoodTexts'
    BY <2>1, <2>3 DEF GoodTexts
  <2>6. OneText' /\ CleanIsSaved' /\ SavedText'
    BY <1>1, <2>1, <2>5, TextsKept DEF SInv
  <2>7. Read' /\ OnDisk'
    BY <1>1, <2>1, <2>3, <2>5, ReadKept, OnDiskKept DEF SInv, bufferVars
  <2> QED BY <2>4, <2>6, <2>7 DEF SInv
<1>6. ASSUME NEW o \in saves, WriteFails(o) PROVE SInv'
  <2>1. UNCHANGED bufferVars /\ resolve' = resolve /\ shown' = shown /\ reverted' = reverted
    BY <1>6 DEF WriteFails, SaveError, resolveVars
  <2>2. held \subseteq held' /\ (disk' = disk \/ \E text : FileBecomes(text))
    BY <1>6 DEF WriteFails, FileBecomes, fileVars
  <2>3. flags'.saved = flags.saved /\ (flags.dirty => flags'.dirty)
    BY <1>1, <1>6 DEF WriteFails, SaveError, TypeOK, Flags
  <2>4. \A p \in saves' : p.phase # "stat"
    <3>1. \E dirty : \E s \in Ended(Saving, o, dirty) : Becomes(s)
      BY <1>6 DEF WriteFails, SaveError
    <3> QED BY <2>1, <3>1, EndStep, EarlyIsNotStat
  <2> QED BY <1>1, <2>1, <2>2, <2>3, <2>4, StillStep
<1>7. ASSUME NEW o \in saves, SaveSucceeds(o) PROVE SInv'
  <2>1. /\ UNCHANGED bufferVars /\ resolve' = resolve /\ disk' = disk /\ held' = held /\ shown' = shown
        /\ reverted' = reverted
    BY <1>7 DEF SaveSucceeds, resolveVars, fileVars, historyVars
  <2>2. \/ flags' = flags
        \/ flags' = Clean(model.alt) /\ model.text \in GoodTexts'
    <3>1. o.phase = "stat" /\ flags' = IF o.version = versionId THEN Clean(model.alt) ELSE flags
      BY <1>7 DEF SaveSucceeds
    <3>2. o.text \in held /\ (o.version = versionId => o.text = model.text)
      BY <3>1 DEF SInv, Written, IInv, Snapshot, Early
    <3> QED BY <2>1, <3>1, <3>2 DEF GoodTexts
  <2>3. \A p \in saves' : p.phase # "stat"
    <3>1. \E dirty : \E s \in Ended(Saving, o, dirty) : Becomes(s)
      BY <1>7 DEF SaveSucceeds
    <3> QED BY <2>1, <3>1, EndStep, EarlyIsNotStat
  <2> QED BY <1>1, <2>1, <2>2, <2>3, StillStep
<1> QED BY <1>2, <1>3, <1>4, <1>5, <1>6, <1>7 DEF SaveStep

LEMMA LookFlags ==
  ASSUME LookAction, "revert" \notin FailingReads
  PROVE  /\ reverted \subseteq reverted'
         /\ flags' = flags \/ (flags' = Clean(model.alt) /\ model.text \in reverted')
<1>1. CASE Revert
  BY <1>1 DEF Revert
<1>2. CASE ReadFails
  BY <1>2 DEF ReadFails
<1>3. CASE Discard
  BY <1>3 DEF Discard, historyVars
<1>4. CASE NotFound
  BY <1>4 DEF NotFound, historyVars
<1> QED BY <1>1, <1>2, <1>3, <1>4 DEF LookAction, FileEvent, Reload, RevertResolves, StatFile, ReadEarly, StatLate, ReadFile, historyVars

LEMMA LookSInv ==
  ASSUME IInv, SInv, LookAction, "revert" \notin FailingReads
  PROVE  SInv'
<1>1. TypeOK
  BY DEF IInv
<1>2. /\ UNCHANGED bufferVars /\ saves' = saves /\ disk' = disk /\ held' = held
      /\ resolve' = resolve \/ Begins \/ Looks \/ resolve' = NoResolve
  BY LookActionEffects DEF saveVars
<1>3. /\ reverted \subseteq reverted'
      /\ flags' = flags \/ (flags' = Clean(model.alt) /\ model.text \in reverted')
  BY LookFlags
<1>4. GoodTexts \subseteq GoodTexts' /\ reverted' \subseteq GoodTexts' /\ held \subseteq GoodTexts'
  BY <1>2, <1>3 DEF GoodTexts
<1>5. OneText' /\ CleanIsSaved' /\ SavedText'
  BY <1>1, <1>2, <1>3, <1>4, TextsKept DEF SInv
<1>6. Written' /\ OnDisk'
  BY <1>2, WrittenKept, OnDiskKept DEF SInv
<1>7. Read'
  <2>1. versionId' = versionId /\ model' = model /\ versionId \in Nat
    BY <1>1, <1>2 DEF bufferVars, TypeOK
  <2>2. CASE resolve' = resolve \/ resolve' = NoResolve
    BY <1>1, <1>2, <1>4, <2>1, <2>2, ReadKept DEF SInv
  <2>3. CASE Begins
    <3>1. PICK force \in BOOLEAN : resolve' = Reading(force)
      BY <2>3 DEF Begins
    <3>2. resolve'.phase = "stat" /\ resolve'.version = versionId
      BY <1>1, <3>1, ReadingType
    <3>3. model.text \in GoodTexts'
      BY <1>4, <2>3 DEF Begins, SInv, CleanIsSaved, GoodTexts
    <3> QED BY <2>1, <3>2, <3>3 DEF Read
  <2>4. CASE Looks
    <3>1. /\ resolve.phase # "none" /\ resolve'.version = resolve.version
          /\ resolve'.phase \in {"late", "apply"} =>
               \/ resolve'.text = disk.text
               \/ resolve.phase = "late" /\ resolve'.text = resolve.text
      BY <2>4 DEF Looks
    <3>2. disk.text \in held
      BY <2>4 DEF Looks, SInv, OnDisk
    <3> QED BY <1>2, <1>4, <2>1, <3>1, <3>2 DEF SInv, Read
  <2> QED BY <1>2, <2>2, <2>3, <2>4
<1> QED BY <1>5, <1>6, <1>7 DEF SInv

LEMMA ApplySInv ==
  ASSUME IInv, SInv, Apply
  PROVE  SInv'
<1>1. TypeOK
  BY DEF IInv
<1>2. /\ saves' = saves /\ disk' = disk /\ held' = held /\ reverted' = reverted
      /\ resolve' = NoResolve /\ flags' = Clean(model'.alt)
  BY <1>1, ResolvedType DEF Apply, saveVars, fileVars
<1>3. /\ resolve.phase = "apply" /\ resolve.version = versionId
      /\ resolve.text \in held /\ model.text \in GoodTexts
  BY DEF Apply, SInv, Read
<1>4. CASE UNCHANGED <<bufferVars, shown>>
  <2>1. model' = model
    BY <1>4 DEF bufferVars
  <2>2. model.text \in GoodTexts'
    BY <1>2, <1>3 DEF GoodTexts
  <2> QED BY <1>1, <1>2, <1>4, <2>1, <2>2, StillStep
<1>5. CASE Content(resolve.text, versionId + 1)
  <2>1. flags' = Clean(versionId + 1) /\ resolve.text \in GoodTexts
    BY <1>2, <1>3, <1>5 DEF Content, GoodTexts
  <2>2. resolve.text \in Nat /\ versionId + 1 \in Nat
    BY <1>1 DEF TypeOK
  <2> QED BY <1>1, <1>2, <1>5, <2>1, <2>2, NewTextStep
<1> QED BY <1>4, <1>5 DEF Apply

LEMMA OthersSInv ==
  ASSUME IInv, SInv, NotModified \/ OthersWrite \/ OthersDelete \/ UNCHANGED vars
  PROVE  SInv'
<1>1. TypeOK
  BY DEF IInv
<1>2. CASE NotModified
  BY <1>1, <1>2, StillStep, ResolvedType DEF NotModified, saveVars, fileVars, historyVars
<1>3. CASE OthersWrite \/ OthersDelete
  <2>1. /\ UNCHANGED bufferVars /\ flags' = flags /\ saves' = saves /\ resolve' = resolve
        /\ reverted' = reverted
    BY <1>3 DEF OthersWrite, OthersDelete, ChangeFile, saveVars, resolveVars
  <2>2. \E text : FileBecomes(text)
    BY <1>3 DEF OthersWrite, OthersDelete
  <2>3. held \subseteq held'
    BY <2>2 DEF FileBecomes
  <2> QED BY <1>1, <2>1, <2>2, <2>3, StillStep
<1>4. CASE UNCHANGED vars
  BY <1>1, <1>4, StillStep DEF vars, saveVars, resolveVars, fileVars, historyVars
<1> QED BY <1>2, <1>3, <1>4

LEMMA SavedInvariance == ("revert" \notin FailingReads) /\ Spec => []SInv
<1> SUFFICES ASSUME "revert" \notin FailingReads
             PROVE  Spec => []SInv
  OBVIOUS
<1>1. Init => SInv
  <2> SUFFICES ASSUME Init PROVE SInv
    OBVIOUS
  <2>1. /\ model = [text |-> 0, alt |-> 0] /\ past = {} /\ versionId = 0 /\ flags = Clean(0)
        /\ saves = {} /\ resolve = NoResolve /\ disk = [text |-> 0, mtime |-> 0]
        /\ held = {0} /\ reverted = {}
    BY DEF Init
  <2>2. flags.saved = 0
    BY <2>1 DEF Clean
  <2>3. \A c \in Contents : c.alt = 0 /\ c.text = 0
    BY <2>1 DEF Contents
  <2>4. OneText /\ SavedText /\ CleanIsSaved
    BY <2>1, <2>2, <2>3 DEF OneText, SavedText, CleanIsSaved, GoodTexts
  <2>5. Written /\ Read /\ OnDisk
    BY <2>1, NoResolveType DEF Written, Read, OnDisk
  <2> QED BY <2>4, <2>5 DEF SInv
<1>2. IInv /\ SInv /\ [Next]_vars => SInv'
  <2> SUFFICES ASSUME IInv, SInv, [Next]_vars PROVE SInv'
    OBVIOUS
  <2>1. TypeOK
    BY DEF IInv
  <2>2. CASE ResolveStep
    BY <2>2, LookSInv, ApplySInv, OthersSInv DEF ResolveStep, LookAction
  <2>3. CASE UserStep
    BY <2>1, <2>3, EditSInv, LookSInv, SaveSInv DEF UserStep, LookAction
  <2>4. CASE FileEvent
    BY <2>4, LookSInv DEF LookAction
  <2>5. CASE \E o \in saves : SaveStep(o)
    BY <2>5, SaveSInv
  <2> QED BY <2>2, <2>3, <2>4, <2>5, OthersSInv DEF Next
<1> QED BY <1>1, <1>2, Invariance, PTL DEF Spec

\* isDirty(): a model that is not dirty shows a text the file has held, or one
\* the user asked to throw away, if reading never fails in a revert (which
\* sets the flags back to what they were before edits that came meanwhile).
THEOREM CleanShowsSaved == ("revert" \notin FailingReads) /\ Spec => []CleanIsSaved
<1>1. SInv => CleanIsSaved
  BY DEF SInv
<1> QED BY <1>1, SavedInvariance, PTL

\* Applying what was read replaces only what was saved or given up: an edit
\* made while the file was being read is never lost.
THEOREM EditsSurviveReload == ("revert" \notin FailingReads) /\ Spec => ReloadKeepsEdits
<1>1. SInv /\ [Next]_vars => [Apply => model' = model \/ model.text \in held \cup reverted]_vars
  BY DEF SInv, Read, GoodTexts, Apply
<1> QED BY <1>1, SavedInvariance, PTL DEF Spec, ReloadKeepsEdits
=============================================================================
