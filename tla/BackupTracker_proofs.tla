------------------------- MODULE BackupTracker_proofs -------------------------
(***************************************************************************)
(* Proofs about BackupTracker, for any number of contents, sessions,       *)
(* shutdowns and failures: a backup that counts as current is of what the  *)
(* copy shows, backups are right whenever everything is done, and a        *)
(* shutdown that was agreed to loses nothing.                              *)
(***************************************************************************)
EXTENDS BackupTracker, SequenceTheorems, TLAPS

Ops == 1 .. Len(queue)
Writes == {i \in Ops : queue[i].kind = "write"}
LiveOps(by) == {i \in Ops : queue[i].live /\ queue[i].by = by}
Writing == running /\ queue[1].kind = "write"
Deleting == running /\ queue[1].kind = "delete"

\* Where a shutdown is: on the way to an agreement with a copy that was
\* modified, and where it can only be agreed to.
Handling == {"modified", "hotExit", "capture", "backup", "confirm", "saving", "error"}
Discarding == {"handled", "discard"}
Agreed == {"agreed", "leaving"}

Typed == TypeOK /\ used \in [{"contents", "sessions", "shutdowns", "failures"} -> Nat]

\* A copy that opens has its read at the end of the queue; nothing else reads.
Queued ==
  /\ \A i \in Ops : /\ queue[i].kind = "read" <=> queue[i].by = "copy"
                    /\ queue[i].by = "nobody" => queue[i].kind = "delete"
                    /\ queue[i].kind = "read" => copy.status = "opening" /\ i = Len(queue)
                    /\ queue[i].kind = "read" => queue[i].live
  /\ copy.status = "opening" => Len(queue) >= 1 /\ queue[Len(queue)].kind = "read"
  /\ running => Len(queue) >= 1 /\ queue[1].kind # "read"

\* The tracker's one live operation is the pending one, the shutdown's the one
\* it waits for; what is deleted for nobody was the shutdown's.
Tokens ==
  /\ \A i, j \in LiveOps("tracker") : i = j
  /\ \A i, j \in LiveOps("shutdown") : i = j
  /\ \A i \in LiveOps("tracker") :
       /\ pending.phase = "io"
       /\ queue[i].kind = "write" => pending.kind = "backup" /\ queue[i].version = version
       /\ queue[i].kind = "delete" => pending.kind = "discard"
  /\ pending.phase = "io" => LiveOps("tracker") # {}
  /\ \A i \in LiveOps("shutdown") :
       /\ queue[i].kind = "write" => shutdown = "backup" /\ queue[i].content \in since
       /\ queue[i].kind = "delete" => shutdown = "discard"
  /\ \A i \in LiveOps("nobody") : shutdown \in Agreed

\* What is pending fits what the copy is.
PendingFits ==
  /\ pending.kind = "none" => pending = Idle
  /\ pending.kind = "discard" => pending.phase = "io" /\ ~Modified
  /\ pending.kind = "backup" => pending.phase # "none" /\ Modified
  /\ pending.phase = "capture" => pending.content = copy.content
  /\ Suspended => pending = Idle
  /\ shutdown = "agreed" /\ ~Lapse("late") => pending = Idle

CopyFits ==
  /\ Open => copy.content \in Contents
  /\ ~Open => version = 0 /\ shutdown \in {"none", "unmodified"} \cup Agreed

\* Along the queue versions grow, and up to what the copy is at; the same
\* version means the same content.  What a shutdown captured comes last.
Captured ==
  /\ \A i, j \in Writes : i < j =>
       /\ queue[i].version <= queue[j].version
       /\ queue[i].version = queue[j].version => queue[i].content = queue[j].content
  /\ Open => \A i \in Writes :
       /\ queue[i].version <= version
       /\ queue[i].version = version => queue[i].content = copy.content
  /\ \A i \in Writes : queue[i].content \in Contents
  /\ shutdown = "capture" =>
       /\ saved.version <= version
       /\ saved.version = version => saved.content = copy.content
       /\ saved.content \in Contents /\ saved.content \in since
       /\ \A i \in Writes :
            /\ queue[i].version <= saved.version
            /\ queue[i].version = saved.version => queue[i].content = saved.content

\* The backup precedes what is captured; of the same version, it has the same
\* content.  An operation that runs was not asked for with this version.
BackupFits ==
  /\ ~Lapse("leftover") /\ Open /\ model.exists =>
       /\ model.version <= version
       /\ model.version = version => disk = copy.content
       /\ \A i \in Writes :
            /\ model.version <= queue[i].version
            /\ model.version = queue[i].version => disk = queue[i].content
       /\ shutdown = "capture" =>
            /\ model.version <= saved.version
            /\ model.version = saved.version => disk = saved.content
       /\ Writing => model.version < queue[1].version
       /\ Deleting /\ Modified /\ shutdown \notin {"discard"} \cup Agreed =>
            /\ model.version < version
            /\ shutdown = "capture" => model.version < saved.version
  /\ ~model.exists => disk \notin Contents
  /\ Writing /\ ~Lapse("leftover") => disk = Corrupt

\* Nothing is left of a copy that is not modified, unless a discard is pending.
NothingLeft ==
  /\ ~Modified /\ ~Lapse("leftover") /\ pending.kind # "discard" =>
       disk = None /\ ~model.exists /\ ~Writing
  /\ shutdown \in {"hotExit", "capture", "backup"} /\ ~Modified => Lapse("leftover")

\* A modified copy has its backup, or it is on its way.
NothingMissing ==
  Modified /\ ~Lapse("missing") /\ ~Lapse("leftover") /\ shutdown \notin {"discard"} \cup Agreed =>
    pending.kind = "backup" \/ HasBackup(version)

\* What the next session may show after this shutdown.
Remembered ==
  /\ shutdown # "none" /\ Modified => copy.content \in since
  /\ shutdown # "none" /\ ~Modified => file \in since
  /\ shutdown \in Handling \cup {"unmodified"} /\ Open => copy.content \in since
  /\ shutdown \in Discarding \cup {"unmodified"} => file \in since
  /\ shutdown \in Handling \cup {"none", "unmodified"} /\ Open /\ ~Modified => copy.content = file

\* That is what it will show once everybody agrees, whatever still happens.
Agreement ==
  shutdown \in Agreed /\ ~Lapse("late") /\ ~Lapse("gaveUp") =>
    /\ ~Lapse("leftover") => Recovered \in since /\ ~Writing /\ (Deleting => file \in since)
    /\ \A i \in Ops : queue[i].kind = "delete" /\ queue[i].live => file \in since

IInv ==
  /\ Typed /\ Queued /\ Tokens /\ PendingFits /\ CopyFits /\ Captured /\ BackupFits
  /\ NothingLeft /\ NothingMissing /\ Remembered /\ Agreement

(***************************************************************************)
(* Contents, and the queue                                                 *)
(***************************************************************************)
LEMMA ContentsFacts ==
  /\ None \notin Contents /\ Corrupt \notin Contents /\ None # Corrupt
  /\ 1 \in Contents
  /\ \A c \in Nat : c < MaxContents => c + 1 \in Contents
BY ConstantsAssumption DEF None, Corrupt, Contents

LEMMA Positions ==
  ASSUME Typed
  PROVE  /\ queue \in Seq(OperationType)
         /\ Len(queue) \in Nat /\ DOMAIN queue = Ops
         /\ \A i \in Ops : queue[i] \in OperationType
         /\ queue = <<>> <=> Len(queue) = 0
         /\ queue # <<>> => Head(queue) = queue[1]
<1>1. queue \in Seq(OperationType)
  BY DEF Typed, TypeOK
<1> QED BY <1>1, LenProperties, EmptySeq, HeadTailProperties DEF Ops

\* The fields of an operation.
LEMMA Fields ==
  ASSUME NEW op \in OperationType
  PROVE  /\ op.kind \in {"write", "delete", "read"} /\ op.content \in Contents \cup {None}
         /\ op.version \in Nat /\ op.by \in {"tracker", "shutdown", "copy", "nobody"}
         /\ op.live \in BOOLEAN
BY DEF OperationType

LEMMA NewOperation ==
  ASSUME NEW kind \in {"write", "delete", "read"}, NEW c \in Contents \cup {None}, NEW v \in Nat,
         NEW by \in {"tracker", "shutdown", "copy", "nobody"}
  PROVE  Operation(kind, c, v, by) \in OperationType
BY DEF Operation, OperationType

LEMMA CancelledProperties ==
  ASSUME NEW q \in Seq(OperationType), NEW by
  PROVE  /\ Cancelled(q, by) \in Seq(OperationType)
         /\ Len(Cancelled(q, by)) = Len(q)
         /\ \A i \in 1 .. Len(q) :
              /\ Cancelled(q, by)[i].kind = q[i].kind
              /\ Cancelled(q, by)[i].content = q[i].content
              /\ Cancelled(q, by)[i].version = q[i].version
              /\ Cancelled(q, by)[i].by = q[i].by
              /\ Cancelled(q, by)[i].live <=> q[i].live /\ q[i].by # by
<1> DEFINE n == Len(q)
           Op(i) == IF q[i].by = by THEN [q[i] EXCEPT !.live = FALSE] ELSE q[i]
           f == [i \in 1 .. n |-> Op(i)]
<1>1. n \in Nat /\ DOMAIN q = 1 .. n /\ \A i \in 1 .. n : q[i] \in OperationType
  BY LenProperties
<1>2. Cancelled(q, by) = f
  BY <1>1 DEF Cancelled
<1>3. ASSUME NEW i \in 1 .. n
      PROVE  /\ Op(i) \in OperationType
             /\ Op(i).kind = q[i].kind /\ Op(i).content = q[i].content
             /\ Op(i).version = q[i].version /\ Op(i).by = q[i].by
             /\ Op(i).live <=> q[i].live /\ q[i].by # by
  BY <1>1, <1>3 DEF OperationType
<1> HIDE DEF n, Op
<1>4. f \in [1 .. n -> OperationType]
  BY <1>3
<1>5. f \in Seq(OperationType) /\ Len(f) = n
  BY <1>1, <1>4
<1>6. \A i \in 1 .. n : f[i] = Op(i)
  OBVIOUS
<1> HIDE DEF f
<1>7. \A i \in 1 .. n : Cancelled(q, by)[i] = Op(i)
  BY <1>2, <1>6
<1> QED BY <1>2, <1>3, <1>5, <1>7 DEF n

LEMMA AppendedProperties ==
  ASSUME NEW q \in Seq(OperationType), NEW op \in OperationType
  PROVE  /\ Append(q, op) \in Seq(OperationType)
         /\ Len(Append(q, op)) = Len(q) + 1
         /\ \A i \in 1 .. Len(q) : Append(q, op)[i] = q[i]
         /\ Append(q, op)[Len(q) + 1] = op
BY AppendProperties

LEMMA TailOfQueue ==
  ASSUME NEW q \in Seq(OperationType), q # <<>>
  PROVE  /\ Tail(q) \in Seq(OperationType)
         /\ Len(q) \in Nat \ {0} /\ Len(Tail(q)) = Len(q) - 1
         /\ \A i \in 1 .. Len(q) - 1 : Tail(q)[i] = q[i + 1]
BY HeadTailProperties, EmptySeq, LenProperties

(***************************************************************************)
(* The beginning                                                           *)
(***************************************************************************)
LEMMA InitIInv == Init => IInv
<1> SUFFICES ASSUME Init PROVE IInv
  OBVIOUS
<1>1. Typed
  <2>1. queue \in Seq(OperationType)
    BY DEF Init
  <2>2. used \in [{"contents", "sessions", "shutdowns", "failures"} -> Nat]
    BY DEF Init
  <2> QED BY <2>1, <2>2, ContentsFacts DEF Init, Typed, TypeOK, Idle
<1>2. Len(queue) = 0 /\ Ops = {} /\ running = FALSE
  BY DEF Init, Ops
<1>3. Queued /\ Tokens /\ PendingFits /\ CopyFits
  BY <1>2 DEF Init, Queued, Tokens, LiveOps, PendingFits, CopyFits, Idle, Open, Modified, Suspended
<1>4. Captured /\ BackupFits /\ NothingLeft /\ NothingMissing /\ Remembered /\ Agreement
  BY <1>2, ContentsFacts
  DEF Init, Captured, Writes, BackupFits, NothingLeft, NothingMissing, Remembered, Agreement, Idle,
      Open, Modified, Writing, Lapse, Handling, Discarding, Agreed
<1> QED BY <1>1, <1>3, <1>4 DEF IInv

(***************************************************************************)
(* What the actions have in common                                         *)
(***************************************************************************)
CopyType == [status : {"closed", "opening", "open"}, content : Contents \cup {None},
             modified : BOOLEAN]
PendingType == [kind : {"none", "backup", "discard"},
                phase : {"none", "timer", "capture", "io"}, content : Contents \cup {None}]
UsedType == [{"contents", "sessions", "shutdowns", "failures"} -> Nat]

LEMMA UseProperties ==
  ASSUME Typed, NEW bound \in {"contents", "sessions", "shutdowns", "failures"}, NEW max \in Nat,
         Use(bound, max)
  PROVE  /\ used' \in UsedType
         /\ used[bound] \in Nat /\ used[bound] < max /\ used'[bound] = used[bound] + 1
BY DEF Typed, Use, UsedType

LEMMA NewContentProperties ==
  ASSUME Typed, NEW c \in Contents, NEW m \in BOOLEAN, NewContent(c, m)
  PROVE  /\ copy' \in CopyType
         /\ copy'.status = copy.status /\ copy'.content = c /\ copy'.modified = m
         /\ version' = version + 1 /\ version \in Nat
<1> DEFINE a == [copy EXCEPT !.content = c]
<1>1. copy \in CopyType /\ version \in Nat
  BY DEF Typed, TypeOK, CopyType
<1>2. a \in CopyType /\ a.status = copy.status /\ a.content = c
  BY <1>1 DEF CopyType
<1>3. copy' = [a EXCEPT !.modified = m]
  BY Zenon DEF NewContent
<1> HIDE DEF a
<1> QED BY <1>1, <1>2, <1>3 DEF CopyType, NewContent

LEMMA ScheduleProperties ==
  ASSUME Typed, Schedule
  PROVE  /\ pending' \in PendingType /\ queue' \in Seq(OperationType) /\ lapses' \subseteq Lapses
         /\ Len(queue') = Len(queue)
         /\ \A i \in Ops :
              /\ queue'[i].kind = queue[i].kind /\ queue'[i].content = queue[i].content
              /\ queue'[i].version = queue[i].version /\ queue'[i].by = queue[i].by
              /\ Suspended => queue'[i].live = queue[i].live
              /\ ~Suspended => (queue'[i].live <=> queue[i].live /\ queue[i].by # "tracker")
         /\ Suspended => pending' = pending /\ lapses' = lapses \cup {"missing"}
         /\ ~Suspended => pending' = Scheduled /\ lapses' = (lapses \ {"missing"}) \cup LateBy
<1>1. /\ queue \in Seq(OperationType) /\ pending \in PendingType /\ lapses \subseteq Lapses
      /\ Scheduled \in PendingType /\ "missing" \in Lapses /\ LateBy \subseteq Lapses
  BY DEF Typed, TypeOK, PendingType, Scheduled, Lapses, LateBy
<1>2. CASE Suspended
  BY <1>1, <1>2 DEF Schedule
<1>3. CASE ~Suspended
  <2>1. queue' = Cancelled(queue, "tracker")
    BY <1>3 DEF Schedule
  <2>2. pending' = Scheduled /\ lapses' = (lapses \ {"missing"}) \cup LateBy
    BY <1>3 DEF Schedule
  <2> QED BY <1>1, <1>3, <2>1, <2>2, CancelledProperties DEF Ops
<1> QED BY <1>2, <1>3

LEMMA DiscardProperties ==
  ASSUME Typed, Discard
  PROVE  /\ pending' \in PendingType /\ queue' \in Seq(OperationType) /\ lapses' \subseteq Lapses
         /\ Suspended => pending' = pending /\ queue' = queue /\ lapses' = lapses \cup {"leftover"}
         /\ ~Suspended =>
              /\ pending' = [kind |-> "discard", phase |-> "io", content |-> None]
              /\ lapses' = (lapses \ {"missing"}) \cup LateBy
              /\ Len(queue') = Len(queue) + 1
              /\ \A i \in Ops :
                   /\ queue'[i].kind = queue[i].kind /\ queue'[i].content = queue[i].content
                   /\ queue'[i].version = queue[i].version /\ queue'[i].by = queue[i].by
                   /\ queue'[i].live <=> queue[i].live /\ queue[i].by # "tracker"
              /\ queue'[Len(queue) + 1] = Operation("delete", None, 0, "tracker")
<1>1. /\ queue \in Seq(OperationType) /\ pending \in PendingType /\ lapses \subseteq Lapses
      /\ [kind |-> "discard", phase |-> "io", content |-> None] \in PendingType
      /\ "leftover" \in Lapses /\ LateBy \subseteq Lapses
  BY DEF Typed, TypeOK, PendingType, Lapses, LateBy
<1>2. CASE Suspended
  BY <1>1, <1>2 DEF Discard
<1>3. CASE ~Suspended
  <2> DEFINE q == Cancelled(queue, "tracker")
             op == Operation("delete", None, 0, "tracker")
  <2>1. queue' = Append(q, op)
    BY <1>3 DEF Discard
  <2>2. pending' = [kind |-> "discard", phase |-> "io", content |-> None]
        /\ lapses' = (lapses \ {"missing"}) \cup LateBy
    BY <1>3 DEF Discard
  <2>3. /\ q \in Seq(OperationType) /\ Len(q) = Len(queue)
        /\ \A i \in Ops :
             /\ q[i].kind = queue[i].kind /\ q[i].content = queue[i].content
             /\ q[i].version = queue[i].version /\ q[i].by = queue[i].by
             /\ q[i].live <=> queue[i].live /\ queue[i].by # "tracker"
    BY <1>1, CancelledProperties DEF Ops
  <2>4. op \in OperationType
    BY NewOperation
  <2> HIDE DEF q, op
  <2>5. /\ queue' \in Seq(OperationType) /\ Len(queue') = Len(queue) + 1
        /\ \A i \in Ops : queue'[i] = q[i]
        /\ queue'[Len(queue) + 1] = op
    BY <2>1, <2>3, <2>4, AppendedProperties DEF Ops
  <2> QED BY <1>1, <1>3, <2>2, <2>3, <2>5 DEF op
<1> QED BY <1>2, <1>3

\* The head of the queue is over.
LEMMA SettlesProperties ==
  ASSUME Typed, queue # <<>>, NEW next, Settles(Head(queue), next)
  PROVE  /\ queue' \in Seq(OperationType)
         /\ Len(queue) \in Nat /\ Len(queue) >= 1 /\ Len(queue') = Len(queue) - 1
         /\ \A i \in 1 .. Len(queue) - 1 : queue'[i] = queue[i + 1]
         /\ Head(queue) = queue[1] /\ queue[1] \in OperationType
         /\ running' = FALSE /\ saved' = saved
         /\ queue[1].by = "tracker" /\ queue[1].live => pending' = Idle /\ shutdown' = shutdown
         /\ queue[1].by = "shutdown" /\ queue[1].live => pending' = pending /\ shutdown' = next
         /\ ~queue[1].live \/ queue[1].by \in {"copy", "nobody"} =>
              pending' = pending /\ shutdown' = shutdown
<1>1. queue' = Tail(queue)
  BY DEF Settles
<1>2. /\ queue \in Seq(OperationType) /\ Head(queue) = queue[1] /\ queue[1] \in OperationType
      /\ queue' \in Seq(OperationType)
      /\ Len(queue) \in Nat /\ Len(queue) >= 1 /\ Len(queue') = Len(queue) - 1
      /\ \A i \in 1 .. Len(queue) - 1 : queue'[i] = queue[i + 1]
  BY <1>1, Positions, TailOfQueue DEF Ops
<1>3. /\ running' = FALSE /\ saved' = saved
      /\ pending' = IF queue[1].by = "tracker" /\ queue[1].live THEN Idle ELSE pending
      /\ shutdown' = IF queue[1].by = "shutdown" /\ queue[1].live THEN next ELSE shutdown
  BY <1>2 DEF Settles
<1> QED BY <1>2, <1>3

\* Who a live operation is for, and what follows.
LEMMA LiveOperation ==
  ASSUME IInv, NEW i \in Ops, queue[i].live
  PROVE  /\ queue[i].kind = "write" =>
              /\ \/ pending.kind = "backup" /\ Modified /\ queue[i].version = version
                 \/ shutdown = "backup" /\ queue[i].content \in since
              /\ shutdown \in Agreed => shutdown = "agreed" /\ Lapse("late")
         /\ queue[i].kind = "delete" =>
              \/ pending.kind = "discard" /\ ~Modified /\ ~Suspended
              \/ shutdown = "discard" \/ shutdown \in Agreed
         /\ queue[i].kind = "delete" /\ ~Suspended => pending.kind = "discard" \/ shutdown = "agreed"
<1>1. queue[i] \in OperationType
  BY Positions DEF IInv
<1>2. CASE queue[i].by = "tracker"
  <2>1. i \in LiveOps("tracker")
    BY <1>2 DEF LiveOps
  <2> QED BY <1>2, <2>1 DEF IInv, Tokens, PendingFits, Suspended, Agreed, Idle
<1>3. CASE queue[i].by = "shutdown"
  <2>1. i \in LiveOps("shutdown")
    BY <1>3 DEF LiveOps
  <2> QED BY <1>3, <2>1 DEF IInv, Tokens, PendingFits, Suspended, Agreed, Idle
<1>4. CASE queue[i].by = "nobody"
  <2>1. i \in LiveOps("nobody")
    BY <1>4 DEF LiveOps
  <2> QED BY <1>4, <2>1 DEF IInv, Tokens, Queued, Suspended, Agreed
<1>5. CASE queue[i].by = "copy"
  BY <1>5 DEF IInv, Queued
<1> QED BY <1>1, <1>2, <1>3, <1>4, <1>5, Fields

\* The versions in the invariant are numbers.
LEMMA Numbers ==
  ASSUME IInv
  PROVE  /\ version \in Nat /\ model.version \in Nat /\ saved.version \in Nat
         /\ \A i \in Ops : queue[i].version \in Nat
         /\ Len(queue) \in Nat
         /\ disk \in Contents \cup {None, Corrupt} /\ file \in Contents /\ since \subseteq Contents
BY Positions, Fields DEF IInv, Typed, TypeOK

\* What an operation that joins the queue, at its end n, changes about it.
Joins(op, n) ==
  /\ queue' \in Seq(OperationType)
  /\ Len(queue') = n /\ queue'[n] = op /\ n \in Nat /\ n >= 1
  /\ Ops' = Ops \cup {n} /\ n \notin Ops
  /\ \A i \in Ops : queue'[i] = queue[i] /\ i < n /\ ~(n < i) /\ i # n
  /\ ~(n < n)
  /\ op.kind = "write" => Writes' = Writes \cup {n}
  /\ op.kind # "write" => Writes' = Writes
  /\ op.live /\ op.by = "tracker" => LiveOps("tracker")' = LiveOps("tracker") \cup {n}
  /\ op.by # "tracker" => LiveOps("tracker")' = LiveOps("tracker")
  /\ op.live /\ op.by = "shutdown" => LiveOps("shutdown")' = LiveOps("shutdown") \cup {n}
  /\ op.by # "shutdown" => LiveOps("shutdown")' = LiveOps("shutdown")
  /\ op.by # "nobody" => LiveOps("nobody")' = LiveOps("nobody")
  /\ running => queue'[1] = queue[1] /\ 1 \in Ops
  /\ Writing' = Writing /\ Deleting' = Deleting

\* Something is queued.
LEMMA Queues ==
  ASSUME IInv, NEW op \in OperationType, queue' = Append(queue, op), running' = running,
         NEW n, n = Len(queue) + 1
  PROVE  Joins(op, n)
<1>1. /\ queue \in Seq(OperationType) /\ Len(queue) \in Nat
      /\ queue' \in Seq(OperationType) /\ Len(queue') = Len(queue) + 1
      /\ \A i \in 1 .. Len(queue) : queue'[i] = queue[i]
      /\ queue'[Len(queue) + 1] = op
  BY Positions, AppendedProperties DEF IInv
<1>2. /\ Ops' = Ops \cup {n} /\ n \notin Ops
      /\ \A i \in Ops : queue'[i] = queue[i] /\ i < n /\ ~(n < i) /\ i # n
      /\ queue'[n] = op /\ ~(n < n)
  BY <1>1 DEF Ops
<1>3. running => queue'[1] = queue[1] /\ 1 \in Ops
  BY <1>1, <1>2 DEF IInv, Queued, Ops
<1>4. /\ op.kind = "write" => Writes' = Writes \cup {n}
      /\ op.kind # "write" => Writes' = Writes
  BY <1>2 DEF Writes
<1>7. /\ op.live /\ op.by = "tracker" => LiveOps("tracker")' = LiveOps("tracker") \cup {n}
      /\ op.by # "tracker" => LiveOps("tracker")' = LiveOps("tracker")
  BY <1>2 DEF LiveOps
<1>8. /\ op.live /\ op.by = "shutdown" => LiveOps("shutdown")' = LiveOps("shutdown") \cup {n}
      /\ op.by # "shutdown" => LiveOps("shutdown")' = LiveOps("shutdown")
  BY <1>2 DEF LiveOps
<1>9. op.by # "nobody" => LiveOps("nobody")' = LiveOps("nobody")
  BY <1>2 DEF LiveOps
<1>5. Writing' = Writing /\ Deleting' = Deleting
  BY <1>3 DEF Writing, Deleting
<1>6. n \in Nat /\ n >= 1
  BY <1>1
<1> QED BY <1>1, <1>2, <1>3, <1>4, <1>5, <1>6, <1>7, <1>8, <1>9 DEF Joins

\* A shutdown that waits for no operation has none.
LEMMA NothingAwaited ==
  ASSUME IInv, shutdown \notin {"backup", "discard"}
  PROVE  LiveOps("shutdown") = {}
<1> SUFFICES ASSUME NEW i \in LiveOps("shutdown") PROVE FALSE
  OBVIOUS
<1>1. i \in Ops /\ queue[i].by = "shutdown" /\ queue[i].kind \in {"write", "delete", "read"}
  BY Positions, Fields DEF IInv, LiveOps
<1> QED BY <1>1 DEF IInv, Tokens, Queued

\* What counting a change does to the queue: the tracker's tokens are cancelled.
LEMMA Schedules ==
  ASSUME IInv, Schedule, running' = running
  PROVE  /\ Len(queue') = Len(queue) /\ Ops' = Ops /\ Writes' = Writes
         /\ \A i \in Ops :
              /\ queue'[i].kind = queue[i].kind /\ queue'[i].content = queue[i].content
              /\ queue'[i].version = queue[i].version /\ queue'[i].by = queue[i].by
              /\ queue'[i].live => queue[i].live
              /\ queue[i].live /\ queue[i].by # "tracker" => queue'[i].live
         /\ LiveOps("shutdown")' = LiveOps("shutdown") /\ LiveOps("nobody")' = LiveOps("nobody")
         /\ LiveOps("tracker")' = {}
         /\ Writing' = Writing /\ Deleting' = Deleting
<1>1. /\ Len(queue') = Len(queue)
      /\ \A i \in Ops :
           /\ queue'[i].kind = queue[i].kind /\ queue'[i].content = queue[i].content
           /\ queue'[i].version = queue[i].version /\ queue'[i].by = queue[i].by
           /\ Suspended => queue'[i].live = queue[i].live
           /\ ~Suspended => (queue'[i].live <=> queue[i].live /\ queue[i].by # "tracker")
  BY ScheduleProperties DEF IInv
<1>2. Ops' = Ops
  BY <1>1 DEF Ops
<1>3. Writes' = Writes
  BY <1>1, <1>2 DEF Writes
<1>4. LiveOps("shutdown")' = LiveOps("shutdown") /\ LiveOps("nobody")' = LiveOps("nobody")
  BY <1>1, <1>2 DEF LiveOps
<1>5. Suspended => LiveOps("tracker") = {}
  BY DEF IInv, Tokens, PendingFits, Idle
<1>6. LiveOps("tracker")' = {}
  BY <1>1, <1>2, <1>5 DEF LiveOps
<1>7. running => 1 \in Ops
  BY Numbers DEF IInv, Queued, Ops
<1>8. Writing' = Writing /\ Deleting' = Deleting
  BY <1>1, <1>7 DEF Writing, Deleting
<1> QED BY <1>1, <1>2, <1>3, <1>4, <1>6, <1>8

\* A discard cancels them, too, and queues up.
LEMMA Discards ==
  ASSUME IInv, Discard, ~Suspended, running' = running, NEW n, n = Len(queue) + 1
  PROVE  /\ pending'.kind = "discard" /\ pending'.phase = "io" /\ lapses' = (lapses \ {"missing"}) \cup LateBy
         /\ Len(queue') = n /\ n \in Nat /\ n >= 1
         /\ Ops' = Ops \cup {n} /\ n \notin Ops /\ Writes' = Writes
         /\ \A i \in Ops :
              /\ queue'[i].kind = queue[i].kind /\ queue'[i].content = queue[i].content
              /\ queue'[i].version = queue[i].version /\ queue'[i].by = queue[i].by
              /\ queue'[i].live => queue[i].live
              /\ queue[i].live /\ queue[i].by # "tracker" => queue'[i].live
              /\ i < n /\ i # n
         /\ queue'[n].kind = "delete" /\ queue'[n].by = "tracker" /\ queue'[n].live
         /\ LiveOps("shutdown")' = LiveOps("shutdown") /\ LiveOps("nobody")' = LiveOps("nobody")
         /\ LiveOps("tracker")' = {n}
         /\ Writing' = Writing /\ Deleting' = Deleting /\ (running => 1 \in Ops)
<1>1. /\ pending'.kind = "discard" /\ pending'.phase = "io" /\ lapses' = (lapses \ {"missing"}) \cup LateBy
      /\ Len(queue') = n
      /\ \A i \in Ops :
           /\ queue'[i].kind = queue[i].kind /\ queue'[i].content = queue[i].content
           /\ queue'[i].version = queue[i].version /\ queue'[i].by = queue[i].by
           /\ queue'[i].live <=> queue[i].live /\ queue[i].by # "tracker"
      /\ queue'[n] = Operation("delete", None, 0, "tracker")
  BY DiscardProperties DEF IInv
<1>2. Len(queue) \in Nat
  BY Numbers
<1>3. /\ Ops' = Ops \cup {n} /\ n \notin Ops /\ n \in Nat /\ n >= 1
      /\ \A i \in Ops : i < n /\ i # n
  BY <1>1, <1>2 DEF Ops
<1>4. queue'[n].kind = "delete" /\ queue'[n].by = "tracker" /\ queue'[n].live
  BY <1>1 DEF Operation
<1>5. Writes' = Writes
  BY <1>1, <1>3, <1>4 DEF Writes
<1>6. LiveOps("shutdown")' = LiveOps("shutdown") /\ LiveOps("nobody")' = LiveOps("nobody")
  BY <1>1, <1>3, <1>4 DEF LiveOps
<1>7. LiveOps("tracker")' = {n}
  BY <1>1, <1>3, <1>4 DEF LiveOps
<1>8. running => 1 \in Ops
  BY <1>2 DEF IInv, Queued, Ops
<1>9. Writing' = Writing /\ Deleting' = Deleting
  BY <1>1, <1>8 DEF Writing, Deleting
<1> QED BY <1>1, <1>3, <1>4, <1>5, <1>6, <1>7, <1>8, <1>9

\* The head of the queue is over: what that means for everybody who waits.
LEMMA Settling ==
  ASSUME IInv, queue # <<>>, Head(queue).kind # "read",
         NEW next \in {"agreed", "error"}, next = "error" => Head(queue).kind = "write",
         Settles(Head(queue), next),
         UNCHANGED <<copyVars, since>>, Lapse("late")' <=> Lapse("late")
  PROVE  /\ Len(queue) >= 1 /\ 1 \in Ops /\ Head(queue) = queue[1]
         /\ queue' \in Seq(OperationType) /\ pending' \in PendingType
         /\ running' = FALSE /\ saved' = saved /\ ~Writing' /\ ~Deleting'
         /\ Len(queue) \in Nat /\ Len(queue') = Len(queue) - 1
         /\ \A i \in Ops' : i + 1 \in Ops /\ queue'[i] = queue[i + 1] /\ 1 < i + 1
         /\ \A i \in Writes' : i + 1 \in Writes /\ queue'[i] = queue[i + 1] /\ 1 < i + 1
         /\ queue[1].by = "tracker" /\ queue[1].live => pending' = Idle /\ shutdown' = shutdown
         /\ queue[1].by = "shutdown" /\ queue[1].live => pending' = pending /\ shutdown' = next
         /\ ~queue[1].live \/ queue[1].by \in {"copy", "nobody"} =>
              pending' = pending /\ shutdown' = shutdown
         /\ Queued' /\ Tokens' /\ PendingFits' /\ CopyFits' /\ Captured' /\ Remembered'
<1>1. /\ queue' \in Seq(OperationType)
      /\ Len(queue) \in Nat /\ Len(queue) >= 1 /\ Len(queue') = Len(queue) - 1
      /\ \A i \in 1 .. Len(queue) - 1 : queue'[i] = queue[i + 1]
      /\ Head(queue) = queue[1] /\ queue[1] \in OperationType
      /\ running' = FALSE /\ saved' = saved
      /\ queue[1].by = "tracker" /\ queue[1].live => pending' = Idle /\ shutdown' = shutdown
      /\ queue[1].by = "shutdown" /\ queue[1].live => pending' = pending /\ shutdown' = next
      /\ ~queue[1].live \/ queue[1].by \in {"copy", "nobody"} =>
           pending' = pending /\ shutdown' = shutdown
  BY SettlesProperties DEF IInv
<1>2. /\ 1 \in Ops
      /\ \A i \in Ops' : /\ i + 1 \in Ops /\ queue'[i] = queue[i + 1] /\ 1 < i + 1 /\ i + 1 # 1
                         /\ i + 1 = Len(queue) => i = Len(queue')
      /\ \A i, j \in Ops' : (i < j => i + 1 < j + 1) /\ (i + 1 = j + 1 => i = j)
      /\ \A i \in Ops : i # 1 => i - 1 \in Ops' /\ queue'[i - 1] = queue[i]
      /\ Len(queue) # 1 => Len(queue') >= 1 /\ queue'[Len(queue')] = queue[Len(queue)]
  BY <1>1 DEF Ops
<1>3. \A i \in Writes' : i + 1 \in Writes /\ queue'[i] = queue[i + 1] /\ 1 < i + 1 /\ i \in Ops'
  BY <1>2 DEF Writes
<1>4. \A by \in {"tracker", "shutdown", "nobody"} :
        /\ \A i \in LiveOps(by)' : i + 1 \in LiveOps(by) /\ queue'[i] = queue[i + 1] /\ i + 1 # 1 /\ i \in Ops'
        /\ \A i \in LiveOps(by) : i # 1 => i - 1 \in LiveOps(by)'
  BY <1>2 DEF LiveOps
<1>5. \A by \in {"tracker", "shutdown"} :
        queue[1].live /\ queue[1].by = by => 1 \in LiveOps(by) /\ LiveOps(by)' = {}
  BY <1>2, <1>4 DEF LiveOps, IInv, Tokens
<1>6. /\ queue[1].kind # "read" /\ queue[1].by \in {"tracker", "shutdown", "nobody"}
      /\ queue[1].kind \in {"write", "delete"} /\ queue[1].live \in BOOLEAN
  BY <1>1, <1>2, Fields DEF IInv, Queued
<1>7. \/ shutdown' = shutdown /\ (pending' = pending \/ pending' = Idle)
      \/ /\ pending' = pending /\ shutdown' = next /\ LiveOps("shutdown")' = {}
         /\ shutdown = IF queue[1].kind = "write" THEN "backup" ELSE "discard"
  BY <1>1, <1>5, <1>6 DEF IInv, Tokens
<1>8. ~Writing' /\ ~Deleting'
  BY <1>1 DEF Writing, Deleting
<1>9. Queued'
  <2>1. \A i \in Ops' : /\ queue'[i].kind = "read" <=> queue'[i].by = "copy"
                        /\ queue'[i].by = "nobody" => queue'[i].kind = "delete"
                        /\ queue'[i].kind = "read" => copy'.status = "opening" /\ i = Len(queue')
                        /\ queue'[i].kind = "read" => queue'[i].live
    BY <1>2 DEF IInv, Queued, copyVars
  <2>2. copy'.status = "opening" => Len(queue') >= 1 /\ queue'[Len(queue')].kind = "read"
    BY <1>2, <1>6 DEF IInv, Queued, copyVars
  <2> QED BY <1>1, <2>1, <2>2 DEF Queued
<1>10. Tokens'
  <2>1. \A i, j \in LiveOps("tracker")' : i = j
    BY <1>2, <1>4 DEF IInv, Tokens
  <2>2. \A i, j \in LiveOps("shutdown")' : i = j
    BY <1>2, <1>4 DEF IInv, Tokens
  <2>3. ASSUME NEW i \in LiveOps("tracker")'
        PROVE  /\ pending'.phase = "io"
               /\ queue'[i].kind = "write" => pending'.kind = "backup" /\ queue'[i].version = version'
               /\ queue'[i].kind = "delete" => pending'.kind = "discard"
    <3>1. ~(queue[1].by = "tracker" /\ queue[1].live)
      BY <1>5, <2>3
    <3>2. pending' = pending
      BY <1>1, <1>6, <3>1
    <3> QED BY <1>4, <2>3, <3>2 DEF IInv, Tokens, copyVars
  <2>4. pending'.phase = "io" => LiveOps("tracker")' # {}
    <3>1. ASSUME pending'.phase = "io" PROVE ~(queue[1].by = "tracker" /\ queue[1].live)
      BY <1>1, <3>1 DEF Idle
    <3>2. ASSUME pending'.phase = "io" PROVE LiveOps("tracker")' # {}
      <4>1. PICK i \in LiveOps("tracker") : TRUE
        BY <1>1, <1>6, <3>1, <3>2 DEF IInv, Tokens
      <4>2. i # 1
        BY <3>1, <3>2, <4>1 DEF LiveOps
      <4> QED BY <1>4, <4>1, <4>2
    <3> QED BY <3>2
  <2>5. ASSUME NEW i \in LiveOps("shutdown")'
        PROVE  /\ queue'[i].kind = "write" => shutdown' = "backup" /\ queue'[i].content \in since'
               /\ queue'[i].kind = "delete" => shutdown' = "discard"
    BY <1>4, <1>7, <2>5 DEF IInv, Tokens
  <2>6. ASSUME NEW i \in LiveOps("nobody")' PROVE shutdown' \in Agreed
    BY <1>4, <1>7, <2>6 DEF IInv, Tokens, Agreed
  <2> QED BY <2>1, <2>2, <2>3, <2>4, <2>5, <2>6 DEF Tokens, Agreed
<1>11. PendingFits'
  BY <1>7 DEF IInv, PendingFits, Open, Modified, Suspended, Idle, copyVars
<1>12. CopyFits' /\ Remembered'
  BY <1>6, <1>7 DEF IInv, CopyFits, Remembered, Open, Modified, Agreed, Handling, Discarding, copyVars
<1>13. Captured'
  <2>1. \A i, j \in Writes' : i < j =>
          /\ queue'[i].version <= queue'[j].version
          /\ queue'[i].version = queue'[j].version => queue'[i].content = queue'[j].content
    BY <1>2, <1>3 DEF IInv, Captured
  <2>2. shutdown' = "capture" => shutdown = "capture"
    BY <1>7
  <2> QED BY <1>1, <1>3, <2>1, <2>2 DEF IInv, Captured, Open, copyVars
<1>14. pending' \in PendingType
  BY <1>7 DEF IInv, Typed, TypeOK, PendingType, Idle
<1> QED BY <1>1, <1>2, <1>3, <1>8, <1>9, <1>10, <1>11, <1>12, <1>13, <1>14

LEMMA HeadOfQueue ==
  ASSUME IInv, queue # <<>>
  PROVE  /\ Head(queue) = queue[1] /\ 1 \in Ops
         /\ queue[1].kind \in {"write", "delete", "read"}
         /\ queue[1].kind = "read" => queue[1].live
         /\ running => queue[1].kind # "read"
<1>1. Len(queue) \in Nat /\ Len(queue) # 0 /\ Head(queue) = queue[1]
  BY Positions DEF IInv
<1>2. 1 \in Ops
  BY <1>1 DEF Ops
<1>3. queue[1] \in OperationType
  BY <1>2, Positions DEF IInv
<1> QED BY <1>1, <1>2, <1>3, Fields DEF IInv, Queued

LEMMA RunningHead ==
  ASSUME IInv, running
  PROVE  queue # <<>>
BY Positions DEF IInv, Queued

\* The types after an operation is over.
LEMMA SettledTypes ==
  ASSUME IInv, queue' \in Seq(OperationType), pending' \in PendingType, running' = FALSE,
         shutdown' \in {shutdown, "agreed", "error"}, saved' = saved,
         model' \in [exists : BOOLEAN, version : Nat], disk' \in Contents \cup {None, Corrupt},
         lapses' \subseteq Lapses, used' \in UsedType, UNCHANGED <<copyVars, restoreVars, since>>
  PROVE  Typed'
<1>1. ready' = ready /\ unrestored' = unrestored /\ since' = since
  BY DEF restoreVars
<1>2. copy' = copy /\ version' = version /\ file' = file
  BY DEF copyVars
<1>3. running' \in BOOLEAN
  OBVIOUS
<1> QED BY <1>1, <1>2, <1>3 DEF IInv, Typed, TypeOK, PendingType, UsedType

\* The tracker's tokens are cancelled at once.
LEMMA Cancels ==
  ASSUME IInv, queue' = Cancelled(queue, "tracker"), running' = running
  PROVE  /\ queue' \in Seq(OperationType)
         /\ Len(queue') = Len(queue) /\ Ops' = Ops /\ Writes' = Writes
         /\ \A i \in Ops :
              /\ queue'[i].kind = queue[i].kind /\ queue'[i].content = queue[i].content
              /\ queue'[i].version = queue[i].version /\ queue'[i].by = queue[i].by
              /\ queue'[i].live <=> queue[i].live /\ queue[i].by # "tracker"
         /\ LiveOps("shutdown")' = LiveOps("shutdown") /\ LiveOps("nobody")' = LiveOps("nobody")
         /\ LiveOps("tracker")' = {}
         /\ Writing' = Writing /\ Deleting' = Deleting
         /\ running => 1 \in Ops
<1>1. /\ queue' \in Seq(OperationType) /\ Len(queue') = Len(queue)
      /\ \A i \in Ops :
           /\ queue'[i].kind = queue[i].kind /\ queue'[i].content = queue[i].content
           /\ queue'[i].version = queue[i].version /\ queue'[i].by = queue[i].by
           /\ queue'[i].live <=> queue[i].live /\ queue[i].by # "tracker"
  BY Positions, CancelledProperties DEF IInv, Ops
<1>2. Ops' = Ops
  BY <1>1 DEF Ops
<1>3. Writes' = Writes /\ LiveOps("tracker")' = {}
      /\ LiveOps("shutdown")' = LiveOps("shutdown") /\ LiveOps("nobody")' = LiveOps("nobody")
  BY <1>1, <1>2 DEF Writes, LiveOps
<1>4. running => 1 \in Ops
  BY Numbers DEF IInv, Queued, Ops
<1>5. Writing' = Writing /\ Deleting' = Deleting
  BY <1>1, <1>4 DEF Writing, Deleting
<1> QED BY <1>1, <1>2, <1>3, <1>4, <1>5

\* What is noted when nothing schedules the pending operation again.
LEMMA CancelledLapses ==
  ASSUME IInv, lapses' = lapses \cup CancelledLapse
  PROVE  /\ lapses \subseteq lapses' /\ lapses' \subseteq Lapses
         /\ lapses' \subseteq lapses \cup {"missing", "leftover"}
         /\ pending.kind = "backup" => "missing" \in lapses'
         /\ pending.kind = "discard" => "leftover" \in lapses'
<1>1. pending.kind = "backup" => CancelledLapse = {"missing"}
  BY DEF CancelledLapse
<1>2. pending.kind = "discard" => CancelledLapse = {"leftover"}
  BY DEF CancelledLapse
<1>3. pending.kind \notin {"backup", "discard"} => CancelledLapse = {}
  BY DEF CancelledLapse
<1> QED BY <1>1, <1>2, <1>3 DEF IInv, Typed, TypeOK, Lapses

\* What a shutdown no longer waits for.
LEMMA Abandons ==
  ASSUME IInv, running' = running,
         queue' = [i \in DOMAIN queue |->
                    IF queue[i].by # "shutdown" THEN queue[i]
                    ELSE IF queue[i].kind = "write" THEN [queue[i] EXCEPT !.live = FALSE]
                    ELSE [queue[i] EXCEPT !.by = "nobody"]]
  PROVE  /\ queue' \in Seq(OperationType)
         /\ Len(queue') = Len(queue) /\ Ops' = Ops /\ Writes' = Writes
         /\ \A i \in Ops :
              /\ queue'[i].kind = queue[i].kind /\ queue'[i].content = queue[i].content
              /\ queue'[i].version = queue[i].version
              /\ queue[i].by # "shutdown" => queue'[i].by = queue[i].by /\ queue'[i].live = queue[i].live
              /\ queue[i].by = "shutdown" /\ queue[i].kind = "write" =>
                   queue'[i].by = "shutdown" /\ ~queue'[i].live
              /\ queue[i].by = "shutdown" /\ queue[i].kind # "write" =>
                   queue'[i].by = "nobody" /\ queue'[i].live = queue[i].live
         /\ Writing' = Writing /\ Deleting' = Deleting
         /\ running => 1 \in Ops
<1> DEFINE n == Len(queue)
           Op(i) == IF queue[i].by # "shutdown" THEN queue[i]
                    ELSE IF queue[i].kind = "write" THEN [queue[i] EXCEPT !.live = FALSE]
                    ELSE [queue[i] EXCEPT !.by = "nobody"]
           f == [i \in 1 .. n |-> Op(i)]
<1>1. n \in Nat /\ DOMAIN queue = 1 .. n /\ Ops = 1 .. n /\ \A i \in 1 .. n : queue[i] \in OperationType
  BY Positions DEF IInv, Ops
<1>2. queue' = f
  BY <1>1
<1>3. ASSUME NEW i \in 1 .. n
      PROVE  /\ Op(i) \in OperationType
             /\ Op(i).kind = queue[i].kind /\ Op(i).content = queue[i].content
             /\ Op(i).version = queue[i].version
             /\ queue[i].by # "shutdown" => Op(i).by = queue[i].by /\ Op(i).live = queue[i].live
             /\ queue[i].by = "shutdown" /\ queue[i].kind = "write" => Op(i).by = "shutdown" /\ ~Op(i).live
             /\ queue[i].by = "shutdown" /\ queue[i].kind # "write" =>
                  Op(i).by = "nobody" /\ Op(i).live = queue[i].live
  BY <1>1, <1>3 DEF OperationType
<1> HIDE DEF n, Op
<1>4. f \in [1 .. n -> OperationType] /\ \A i \in 1 .. n : f[i] = Op(i)
  BY <1>3
<1>5. f \in Seq(OperationType) /\ Len(f) = n
  BY <1>1, <1>4
<1> HIDE DEF f
<1>6. Len(queue') = Len(queue) /\ Ops' = Ops /\ \A i \in Ops : queue'[i] = Op(i)
  BY <1>1, <1>2, <1>4, <1>5 DEF Ops, n
<1>7. Writes' = Writes
  BY <1>1, <1>3, <1>6 DEF Writes
<1>8. running => 1 \in Ops
  BY Numbers DEF IInv, Queued, Ops
<1>9. Writing' = Writing /\ Deleting' = Deleting
  BY <1>1, <1>3, <1>6, <1>8 DEF Writing, Deleting
<1>10. \A i \in Ops :
         /\ queue'[i].kind = queue[i].kind /\ queue'[i].content = queue[i].content
         /\ queue'[i].version = queue[i].version
         /\ queue[i].by # "shutdown" => queue'[i].by = queue[i].by /\ queue'[i].live = queue[i].live
         /\ queue[i].by = "shutdown" /\ queue[i].kind = "write" =>
              queue'[i].by = "shutdown" /\ ~queue'[i].live
         /\ queue[i].by = "shutdown" /\ queue[i].kind # "write" =>
              queue'[i].by = "nobody" /\ queue'[i].live = queue[i].live
  <2> TAKE i \in Ops
  <2>1. i \in 1 .. n /\ queue'[i] = Op(i)
    BY <1>1, <1>6
  <2> QED BY <1>3, <2>1
<1>11. queue' \in Seq(OperationType)
  BY <1>2, <1>5
<1> QED BY <1>6, <1>7, <1>8, <1>9, <1>10, <1>11

LEMMA TimerFiresKeeps ==
  ASSUME IInv, TimerFires
  PROVE  IInv'
<1>a. pending.phase = "timer" /\ pending.kind = "backup" /\ Modified /\ pending \in PendingType
  BY DEF IInv, TimerFires, PendingFits, Idle, Typed, TypeOK, PendingType
<1>b. /\ pending' \in PendingType
      /\ pending'.kind = "backup" /\ pending'.phase = "capture" /\ pending'.content = copy.content
  <2> DEFINE p == [pending EXCEPT !.phase = "capture"]
  <2>1. p \in PendingType /\ p.kind = "backup" /\ p.phase = "capture"
    BY <1>a DEF PendingType
  <2>2. pending' = [p EXCEPT !.content = copy.content]
    BY <1>a, Zenon DEF TimerFires
  <2>3. copy.content \in Contents \cup {None}
    BY DEF IInv, Typed, TypeOK
  <2> HIDE DEF p
  <2> QED BY <2>1, <2>2, <2>3 DEF PendingType
<1>c. UNCHANGED <<copyVars, ioVars, shutdownVars, restoreVars, historyVars, used>>
  BY DEF TimerFires
<1>1. Typed'
  BY <1>a, <1>b, <1>c, <1>b
  DEF IInv, copyVars, ioVars, shutdownVars, restoreVars,
      historyVars, Typed, TypeOK, PendingType
<1>2. Queued'
  BY <1>a, <1>b, <1>c
  DEF IInv, copyVars, ioVars, shutdownVars, restoreVars, historyVars,
      Queued, Ops
<1>3. Tokens'
  BY <1>a, <1>b, <1>c
  DEF IInv, copyVars, ioVars, shutdownVars, restoreVars, historyVars,
      Tokens, Ops, LiveOps, Agreed
<1>4. PendingFits'
  BY <1>a, <1>b, <1>c
  DEF IInv, copyVars, ioVars, shutdownVars, restoreVars, historyVars,
      PendingFits, Open, Modified, Suspended, Lapse, Idle
<1>5. CopyFits'
  BY <1>a, <1>b, <1>c
  DEF IInv, copyVars, ioVars, shutdownVars, restoreVars, historyVars,
      CopyFits, Open, Agreed
<1>6. Captured'
  BY <1>a, <1>b, <1>c
  DEF IInv, copyVars, ioVars, shutdownVars, restoreVars, historyVars,
      Captured, Ops, Writes, Open
<1>7. BackupFits'
  BY <1>a, <1>b, <1>c
  DEF IInv, copyVars, ioVars, shutdownVars, restoreVars, historyVars,
      BackupFits, Ops, Writes, Writing, Deleting, Open, Modified, Lapse, Agreed
<1>8. NothingLeft'
  BY <1>a, <1>b, <1>c
  DEF IInv, copyVars, ioVars, shutdownVars, restoreVars, historyVars,
      NothingLeft, Writing, Open, Modified, Lapse
<1>9. NothingMissing'
  BY <1>a, <1>b, <1>c
  DEF IInv, copyVars, ioVars, shutdownVars, restoreVars, historyVars,
      NothingMissing, Open, Modified, Lapse, HasBackup, Agreed
<1>10. Remembered'
  BY <1>a, <1>b, <1>c
  DEF IInv, copyVars, ioVars, shutdownVars, restoreVars, historyVars,
      Remembered, Open, Modified, Handling, Discarding
<1>11. Agreement'
  BY <1>a, <1>b, <1>c
  DEF IInv, copyVars, ioVars, shutdownVars, restoreVars, historyVars,
      Agreement, Ops, Writing, Deleting, Lapse, Recovered, Agreed
<1> QED BY <1>1, <1>2, <1>3, <1>4, <1>5, <1>6, <1>7, <1>8, <1>9, <1>10, <1>11 DEF IInv

LEMMA ResolveBackupsToRestoreKeeps ==
  ASSUME IInv, ResolveBackupsToRestore
  PROVE  IInv'
<1>1. Typed'
  BY DEF IInv, ResolveBackupsToRestore, copyVars, ioVars, shutdownVars, restoreVars,
      historyVars, Typed, TypeOK
<1>2. Queued'
  BY DEF IInv, ResolveBackupsToRestore, copyVars, ioVars, shutdownVars, restoreVars,
      historyVars, Queued, Ops
<1>3. Tokens'
  BY DEF IInv, ResolveBackupsToRestore, copyVars, ioVars, shutdownVars, restoreVars,
      historyVars, Tokens, Ops, LiveOps, Agreed
<1>4. PendingFits'
  BY DEF IInv, ResolveBackupsToRestore, copyVars, ioVars, shutdownVars, restoreVars,
      historyVars, PendingFits, Open, Modified, Suspended, Lapse
<1>5. CopyFits'
  BY DEF IInv, ResolveBackupsToRestore, copyVars, ioVars, shutdownVars, restoreVars,
      historyVars, CopyFits, Open, Agreed
<1>6. Captured'
  BY DEF IInv, ResolveBackupsToRestore, copyVars, ioVars, shutdownVars, restoreVars,
      historyVars, Captured, Ops, Writes, Open
<1>7. BackupFits'
  BY DEF IInv, ResolveBackupsToRestore, copyVars, ioVars, shutdownVars, restoreVars,
      historyVars, BackupFits, Ops, Writes, Writing, Deleting, Open, Modified, Lapse, Agreed
<1>8. NothingLeft'
  BY DEF IInv, ResolveBackupsToRestore, copyVars, ioVars, shutdownVars, restoreVars,
      historyVars, NothingLeft, Writing, Open, Modified, Lapse
<1>9. NothingMissing'
  BY DEF IInv, ResolveBackupsToRestore, copyVars, ioVars, shutdownVars, restoreVars,
      historyVars, NothingMissing, Open, Modified, Lapse, HasBackup, Agreed
<1>10. Remembered'
  BY DEF IInv, ResolveBackupsToRestore, copyVars, ioVars, shutdownVars, restoreVars,
      historyVars, Remembered, Open, Modified, Handling, Discarding
<1>11. Agreement'
  BY DEF IInv, ResolveBackupsToRestore, copyVars, ioVars, shutdownVars, restoreVars,
      historyVars, Agreement, Ops, Writing, Deleting, Lapse, Recovered, Agreed
<1> QED BY <1>1, <1>2, <1>3, <1>4, <1>5, <1>6, <1>7, <1>8, <1>9, <1>10, <1>11 DEF IInv

LEMMA BackupRestoredKeeps ==
  ASSUME IInv, BackupRestored
  PROVE  IInv'
<1>a. unrestored' = FALSE /\ UNCHANGED <<copyVars, pending, ioVars, shutdownVars, ready, historyVars, used>>
  BY DEF BackupRestored
<1>1. Typed'
  <2>1. ready' = ready /\ ready \in BOOLEAN /\ unrestored' \in BOOLEAN
    BY <1>a DEF IInv, Typed, TypeOK
  <2>2. UNCHANGED <<copy, version, file, pending, queue, running, model, disk>>
    BY <1>a DEF copyVars, ioVars
  <2>3. UNCHANGED <<shutdown, saved, lapses, since, used>>
    BY <1>a DEF shutdownVars, historyVars
  <2> QED BY <2>1, <2>2, <2>3 DEF IInv, Typed, TypeOK
<1>2. Queued'
  BY <1>a
  DEF IInv, copyVars, ioVars, shutdownVars, restoreVars, historyVars, Queued, Ops
<1>3. Tokens'
  BY <1>a
  DEF IInv, copyVars, ioVars, shutdownVars, restoreVars, historyVars, Tokens,
      Ops, LiveOps, Agreed
<1>4. PendingFits'
  BY <1>a
  DEF IInv, copyVars, ioVars, shutdownVars, restoreVars, historyVars,
      PendingFits, Open, Modified, Suspended, Lapse
<1>5. CopyFits'
  BY <1>a
  DEF IInv, copyVars, ioVars, shutdownVars, restoreVars, historyVars, CopyFits,
      Open, Agreed
<1>6. Captured'
  BY <1>a
  DEF IInv, copyVars, ioVars, shutdownVars, restoreVars, historyVars, Captured,
      Ops, Writes, Open
<1>7. BackupFits'
  BY <1>a
  DEF IInv, copyVars, ioVars, shutdownVars, restoreVars, historyVars, BackupFits,
      Ops, Writes, Writing, Deleting, Open, Modified, Lapse, Agreed
<1>8. NothingLeft'
  BY <1>a
  DEF IInv, copyVars, ioVars, shutdownVars, restoreVars, historyVars,
      NothingLeft, Writing, Open, Modified, Lapse
<1>9. NothingMissing'
  BY <1>a
  DEF IInv, copyVars, ioVars, shutdownVars, restoreVars, historyVars,
      NothingMissing, Open, Modified, Lapse, HasBackup, Agreed
<1>10. Remembered'
  BY <1>a
  DEF IInv, copyVars, ioVars, shutdownVars, restoreVars, historyVars, Remembered,
      Open, Modified, Handling, Discarding
<1>11. Agreement'
  BY <1>a
  DEF IInv, copyVars, ioVars, shutdownVars, restoreVars, historyVars, Agreement,
      Ops, Writing, Deleting, Lapse, Recovered, Agreed
<1> QED BY <1>1, <1>2, <1>3, <1>4, <1>5, <1>6, <1>7, <1>8, <1>9, <1>10, <1>11 DEF IInv

LEMMA HandleModifiedKeeps ==
  ASSUME IInv, HandleModified
  PROVE  IInv'
<1>1. Typed'
  BY DEF IInv, HandleModified, copyVars, ioVars, shutdownVars, restoreVars, historyVars,
      Typed, TypeOK
<1>2. Queued'
  BY DEF IInv, HandleModified, copyVars, ioVars, shutdownVars, restoreVars, historyVars,
      Queued, Ops
<1>3. Tokens'
  BY DEF IInv, HandleModified, copyVars, ioVars, shutdownVars, restoreVars, historyVars,
      Tokens, Ops, LiveOps, Agreed
<1>4. PendingFits'
  BY DEF IInv, HandleModified, copyVars, ioVars, shutdownVars, restoreVars, historyVars,
      PendingFits, Open, Modified, Suspended, Lapse
<1>5. CopyFits'
  BY DEF IInv, HandleModified, copyVars, ioVars, shutdownVars, restoreVars, historyVars,
      CopyFits, Open, Agreed
<1>6. Captured'
  BY DEF IInv, HandleModified, copyVars, ioVars, shutdownVars, restoreVars, historyVars,
      Captured, Ops, Writes, Open
<1>7. BackupFits'
  BY DEF IInv, HandleModified, copyVars, ioVars, shutdownVars, restoreVars, historyVars,
      BackupFits, Ops, Writes, Writing, Deleting, Open, Modified, Lapse, Agreed
<1>8. NothingLeft'
  BY DEF IInv, HandleModified, copyVars, ioVars, shutdownVars, restoreVars, historyVars,
      NothingLeft, Writing, Open, Modified, Lapse
<1>9. NothingMissing'
  BY DEF IInv, HandleModified, copyVars, ioVars, shutdownVars, restoreVars, historyVars,
      NothingMissing, Open, Modified, Lapse, HasBackup, Agreed
<1>10. Remembered'
  BY DEF IInv, HandleModified, copyVars, ioVars, shutdownVars, restoreVars, historyVars,
      Remembered, Open, Modified, Handling, Discarding
<1>11. Agreement'
  BY DEF IInv, HandleModified, copyVars, ioVars, shutdownVars, restoreVars, historyVars,
      Agreement, Ops, Writing, Deleting, Lapse, Recovered, Agreed
<1> QED BY <1>1, <1>2, <1>3, <1>4, <1>5, <1>6, <1>7, <1>8, <1>9, <1>10, <1>11 DEF IInv

LEMMA BackupBeforeShutdownKeeps ==
  ASSUME IInv, BackupBeforeShutdown
  PROVE  IInv'
<1>a. /\ shutdown = "hotExit" /\ Open
      /\ UNCHANGED <<copyVars, pending, ioVars, restoreVars, historyVars, used>>
  BY DEF IInv, BackupBeforeShutdown, CopyFits, Agreed
<1>b. \/ HasBackup(version) /\ shutdown' = "agreed" /\ saved' = saved
      \/ shutdown' = "capture" /\ saved' = [content |-> copy.content, version |-> version]
  BY DEF BackupBeforeShutdown
<1>c. copy.content \in Contents /\ copy.content \in since
  BY <1>a DEF IInv, CopyFits, Remembered, Handling
<1>d. ~Lapse("leftover") => Modified
  BY <1>a DEF IInv, NothingLeft
<1>1. Typed'
  BY <1>a, <1>b
  DEF IInv, copyVars, ioVars, shutdownVars, restoreVars, historyVars,
      Typed, TypeOK
<1>2. Queued'
  BY <1>a, <1>b
  DEF IInv, copyVars, ioVars, shutdownVars, restoreVars, historyVars,
      Queued, Ops
<1>3. Tokens'
  BY <1>a, <1>b
  DEF IInv, copyVars, ioVars, shutdownVars, restoreVars, historyVars,
      Tokens, Ops, LiveOps, Agreed
<1>4. PendingFits'
  BY <1>a, <1>b
  DEF IInv, copyVars, ioVars, shutdownVars, restoreVars, historyVars,
      PendingFits, Open, Modified, Suspended, Lapse
<1>5. CopyFits'
  BY <1>a, <1>b
  DEF IInv, copyVars, ioVars, shutdownVars, restoreVars, historyVars,
      CopyFits, Open, Agreed
<1>6. Captured'
  BY <1>a, <1>b, <1>c, Numbers
  DEF IInv, copyVars, ioVars, shutdownVars, restoreVars,
      historyVars, Captured, Ops, Writes, Open
<1>7. BackupFits'
  BY <1>a, <1>b, <1>d, Numbers
  DEF IInv, copyVars, ioVars, shutdownVars, restoreVars,
      historyVars, BackupFits, Ops, Writes, Writing, Deleting, Open, Modified, Lapse, Agreed
<1>8. NothingLeft'
  BY <1>a, <1>b
  DEF IInv, copyVars, ioVars, shutdownVars, restoreVars, historyVars,
      NothingLeft, Writing, Open, Modified, Lapse
<1>9. NothingMissing'
  BY <1>a, <1>b
  DEF IInv, copyVars, ioVars, shutdownVars, restoreVars, historyVars,
      NothingMissing, Open, Modified, Lapse, HasBackup, Agreed
<1>10. Remembered'
  BY <1>a, <1>b
  DEF IInv, copyVars, ioVars, shutdownVars, restoreVars, historyVars,
      Remembered, Open, Modified, Handling, Discarding
<1>11. Agreement'
  <2>1. CASE shutdown' # "agreed"
    BY <1>b, <2>1 DEF Agreement, Agreed
  <2>2. CASE shutdown' = "agreed"
    <3>1. model.exists /\ model.version = version
      BY <1>b, <2>2 DEF HasBackup
    <3>2. \A i \in Ops : ~(queue[i].kind = "delete" /\ queue[i].live)
      BY <1>a, LiveOperation DEF Suspended, Agreed
    <3>3. ASSUME ~Lapse("leftover") PROVE disk = copy.content /\ ~Writing /\ ~Deleting
      <4>1. disk = copy.content /\ (Writing => version < queue[1].version) /\ (Deleting => version < version)
        BY <1>a, <1>d, <3>1, <3>3 DEF IInv, BackupFits, Agreed
      <4>2. Writing => 1 \in Ops /\ queue[1].version <= version
        BY <1>a DEF IInv, Queued, Captured, Writes, Writing, Ops
      <4> QED BY <4>1, <4>2, Numbers
    <3>4. ASSUME ~Lapse("leftover") PROVE Recovered \in since /\ ~Writing /\ ~Deleting
      BY <1>c, <3>3, <3>4 DEF Recovered
    <3> QED BY <1>a, <3>2, <3>4
         DEF Agreement, Recovered, Writing, Deleting, Lapse, Ops, copyVars, ioVars, historyVars
  <2> QED BY <2>1, <2>2
<1> QED BY <1>1, <1>2, <1>3, <1>4, <1>5, <1>6, <1>7, <1>8, <1>9, <1>10, <1>11 DEF IInv

LEMMA ConfirmSaveKeeps ==
  ASSUME IInv, ConfirmSave
  PROVE  IInv'
<1>1. Typed'
  BY DEF IInv, ConfirmSave, copyVars, ioVars, shutdownVars, restoreVars, historyVars,
      Typed, TypeOK
<1>2. Queued'
  BY DEF IInv, ConfirmSave, copyVars, ioVars, shutdownVars, restoreVars, historyVars,
      Queued, Ops
<1>3. Tokens'
  BY DEF IInv, ConfirmSave, copyVars, ioVars, shutdownVars, restoreVars, historyVars,
      Tokens, Ops, LiveOps, Agreed
<1>4. PendingFits'
  BY DEF IInv, ConfirmSave, copyVars, ioVars, shutdownVars, restoreVars, historyVars,
      PendingFits, Open, Modified, Suspended, Lapse
<1>5. CopyFits'
  BY DEF IInv, ConfirmSave, copyVars, ioVars, shutdownVars, restoreVars, historyVars,
      CopyFits, Open, Agreed
<1>6. Captured'
  BY DEF IInv, ConfirmSave, copyVars, ioVars, shutdownVars, restoreVars, historyVars,
      Captured, Ops, Writes, Open
<1>7. BackupFits'
  BY DEF IInv, ConfirmSave, copyVars, ioVars, shutdownVars, restoreVars, historyVars,
      BackupFits, Ops, Writes, Writing, Deleting, Open, Modified, Lapse, Agreed
<1>8. NothingLeft'
  BY DEF IInv, ConfirmSave, copyVars, ioVars, shutdownVars, restoreVars, historyVars,
      NothingLeft, Writing, Open, Modified, Lapse
<1>9. NothingMissing'
  BY DEF IInv, ConfirmSave, copyVars, ioVars, shutdownVars, restoreVars, historyVars,
      NothingMissing, Open, Modified, Lapse, HasBackup, Agreed
<1>10. Remembered'
  BY DEF IInv, ConfirmSave, copyVars, ioVars, shutdownVars, restoreVars, historyVars,
      Remembered, Open, Modified, Handling, Discarding
<1>11. Agreement'
  BY DEF IInv, ConfirmSave, copyVars, ioVars, shutdownVars, restoreVars, historyVars,
      Agreement, Ops, Writing, Deleting, Lapse, Recovered, Agreed
<1> QED BY <1>1, <1>2, <1>3, <1>4, <1>5, <1>6, <1>7, <1>8, <1>9, <1>10, <1>11 DEF IInv

LEMMA SavedBeforeShutdownKeeps ==
  ASSUME IInv, SavedBeforeShutdown
  PROVE  IInv'
<1>1. Typed'
  BY DEF IInv, SavedBeforeShutdown, copyVars, ioVars, shutdownVars, restoreVars,
      historyVars, Typed, TypeOK
<1>2. Queued'
  BY DEF IInv, SavedBeforeShutdown, copyVars, ioVars, shutdownVars, restoreVars,
      historyVars, Queued, Ops
<1>3. Tokens'
  BY DEF IInv, SavedBeforeShutdown, copyVars, ioVars, shutdownVars, restoreVars,
      historyVars, Tokens, Ops, LiveOps, Agreed
<1>4. PendingFits'
  BY DEF IInv, SavedBeforeShutdown, copyVars, ioVars, shutdownVars, restoreVars,
      historyVars, PendingFits, Open, Modified, Suspended, Lapse
<1>5. CopyFits'
  BY DEF IInv, SavedBeforeShutdown, copyVars, ioVars, shutdownVars, restoreVars,
      historyVars, CopyFits, Open, Agreed
<1>6. Captured'
  BY DEF IInv, SavedBeforeShutdown, copyVars, ioVars, shutdownVars, restoreVars,
      historyVars, Captured, Ops, Writes, Open
<1>7. BackupFits'
  BY DEF IInv, SavedBeforeShutdown, copyVars, ioVars, shutdownVars, restoreVars,
      historyVars, BackupFits, Ops, Writes, Writing, Deleting, Open, Modified, Lapse, Agreed
<1>8. NothingLeft'
  BY DEF IInv, SavedBeforeShutdown, copyVars, ioVars, shutdownVars, restoreVars,
      historyVars, NothingLeft, Writing, Open, Modified, Lapse
<1>9. NothingMissing'
  BY DEF IInv, SavedBeforeShutdown, copyVars, ioVars, shutdownVars, restoreVars,
      historyVars, NothingMissing, Open, Modified, Lapse, HasBackup, Agreed
<1>10. Remembered'
  BY DEF IInv, SavedBeforeShutdown, copyVars, ioVars, shutdownVars, restoreVars,
      historyVars, Remembered, Open, Modified, Handling, Discarding
<1>11. Agreement'
  BY DEF IInv, SavedBeforeShutdown, copyVars, ioVars, shutdownVars, restoreVars,
      historyVars, Agreement, Ops, Writing, Deleting, Lapse, Recovered, Agreed
<1> QED BY <1>1, <1>2, <1>3, <1>4, <1>5, <1>6, <1>7, <1>8, <1>9, <1>10, <1>11 DEF IInv

LEMMA ConfirmDoNotSaveKeeps ==
  ASSUME IInv, ConfirmDoNotSave
  PROVE  IInv'
<1>1. Typed'
  <2>1. copy' \in CopyType /\ shutdown' = "handled"
    BY DEF IInv, ConfirmDoNotSave, Typed, TypeOK, CopyType
  <2>2. lapses' \subseteq Lapses /\ since' \subseteq Contents
    BY DEF IInv, ConfirmDoNotSave, Typed, TypeOK, Lapses
  <2>3. UNCHANGED <<version, file, pending, queue, running, model, disk, saved, ready, unrestored, used>>
    BY DEF ConfirmDoNotSave, ioVars, restoreVars
  <2> QED BY <2>1, <2>2, <2>3 DEF IInv, Typed, TypeOK, CopyType
<1>2. Queued'
  BY DEF IInv, ConfirmDoNotSave, copyVars, ioVars, shutdownVars, restoreVars, historyVars,
      Queued, Ops
<1>3. Tokens'
  BY DEF IInv, ConfirmDoNotSave, copyVars, ioVars, shutdownVars, restoreVars, historyVars,
      Tokens, Ops, LiveOps, Agreed
<1>4. PendingFits'
  BY DEF IInv, ConfirmDoNotSave, copyVars, ioVars, shutdownVars, restoreVars, historyVars,
      PendingFits, Open, Modified, Suspended, Lapse, Idle
<1>5. CopyFits'
  BY DEF IInv, ConfirmDoNotSave, copyVars, ioVars, shutdownVars, restoreVars, historyVars,
      CopyFits, Open, Agreed
<1>6. Captured'
  BY DEF IInv, ConfirmDoNotSave, copyVars, ioVars, shutdownVars, restoreVars, historyVars,
      Captured, Ops, Writes, Open
<1>7. BackupFits'
  BY DEF IInv, ConfirmDoNotSave, copyVars, ioVars, shutdownVars, restoreVars, historyVars,
      BackupFits, Ops, Writes, Writing, Deleting, Open, Modified, Lapse, Agreed
<1>8. NothingLeft'
  BY DEF IInv, ConfirmDoNotSave, copyVars, ioVars, shutdownVars, restoreVars, historyVars,
      NothingLeft, Writing, Open, Modified, Lapse
<1>9. NothingMissing'
  BY DEF IInv, ConfirmDoNotSave, copyVars, ioVars, shutdownVars, restoreVars, historyVars,
      NothingMissing, Open, Modified, Lapse, HasBackup, Agreed
<1>10. Remembered'
  BY DEF IInv, ConfirmDoNotSave, copyVars, ioVars, shutdownVars, restoreVars, historyVars,
      Remembered, Open, Modified, Handling, Discarding
<1>11. Agreement'
  BY DEF IInv, ConfirmDoNotSave, copyVars, ioVars, shutdownVars, restoreVars, historyVars,
      Agreement, Ops, Writing, Deleting, Lapse, Recovered, Agreed
<1> QED BY <1>1, <1>2, <1>3, <1>4, <1>5, <1>6, <1>7, <1>8, <1>9, <1>10, <1>11 DEF IInv

LEMMA CloseAnywayKeeps ==
  ASSUME IInv, CloseAnyway
  PROVE  IInv'
<1>1. Typed'
  BY DEF IInv, CloseAnyway, copyVars, ioVars, shutdownVars, restoreVars, historyVars,
      Typed, TypeOK, Lapses
<1>2. Queued'
  BY DEF IInv, CloseAnyway, copyVars, ioVars, shutdownVars, restoreVars, historyVars,
      Queued, Ops
<1>3. Tokens'
  BY DEF IInv, CloseAnyway, copyVars, ioVars, shutdownVars, restoreVars, historyVars,
      Tokens, Ops, LiveOps, Agreed
<1>4. PendingFits'
  BY DEF IInv, CloseAnyway, copyVars, ioVars, shutdownVars, restoreVars, historyVars,
      PendingFits, Open, Modified, Suspended, Lapse
<1>5. CopyFits'
  BY DEF IInv, CloseAnyway, copyVars, ioVars, shutdownVars, restoreVars, historyVars,
      CopyFits, Open, Agreed
<1>6. Captured'
  BY DEF IInv, CloseAnyway, copyVars, ioVars, shutdownVars, restoreVars, historyVars,
      Captured, Ops, Writes, Open
<1>7. BackupFits'
  BY DEF IInv, CloseAnyway, copyVars, ioVars, shutdownVars, restoreVars, historyVars,
      BackupFits, Ops, Writes, Writing, Deleting, Open, Modified, Lapse, Agreed
<1>8. NothingLeft'
  BY DEF IInv, CloseAnyway, copyVars, ioVars, shutdownVars, restoreVars, historyVars,
      NothingLeft, Writing, Open, Modified, Lapse
<1>9. NothingMissing'
  BY DEF IInv, CloseAnyway, copyVars, ioVars, shutdownVars, restoreVars, historyVars,
      NothingMissing, Open, Modified, Lapse, HasBackup, Agreed
<1>10. Remembered'
  BY DEF IInv, CloseAnyway, copyVars, ioVars, shutdownVars, restoreVars, historyVars,
      Remembered, Open, Modified, Handling, Discarding
<1>11. Agreement'
  BY DEF IInv, CloseAnyway, copyVars, ioVars, shutdownVars, restoreVars, historyVars,
      Agreement, Ops, Writing, Deleting, Lapse, Recovered, Agreed
<1> QED BY <1>1, <1>2, <1>3, <1>4, <1>5, <1>6, <1>7, <1>8, <1>9, <1>10, <1>11 DEF IInv

LEMMA VetoKeeps ==
  ASSUME IInv, Veto
  PROVE  IInv'
<1>1. Typed'
  BY DEF IInv, Veto, copyVars, ioVars, shutdownVars, restoreVars, historyVars, Typed,
      TypeOK
<1>2. Queued'
  BY DEF IInv, Veto, copyVars, ioVars, shutdownVars, restoreVars, historyVars, Queued, Ops
<1>3. Tokens'
  BY DEF IInv, Veto, copyVars, ioVars, shutdownVars, restoreVars, historyVars, Tokens, Ops,
      LiveOps, Agreed
<1>4. PendingFits'
  BY DEF IInv, Veto, copyVars, ioVars, shutdownVars, restoreVars, historyVars, PendingFits,
      Open, Modified, Suspended, Lapse
<1>5. CopyFits'
  BY DEF IInv, Veto, copyVars, ioVars, shutdownVars, restoreVars, historyVars, CopyFits,
      Open, Agreed
<1>6. Captured'
  BY DEF IInv, Veto, copyVars, ioVars, shutdownVars, restoreVars, historyVars, Captured,
      Ops, Writes, Open
<1>7. BackupFits'
  BY DEF IInv, Veto, copyVars, ioVars, shutdownVars, restoreVars, historyVars, BackupFits,
      Ops, Writes, Writing, Deleting, Open, Modified, Lapse, Agreed
<1>8. NothingLeft'
  BY DEF IInv, Veto, copyVars, ioVars, shutdownVars, restoreVars, historyVars, NothingLeft,
      Writing, Open, Modified, Lapse
<1>9. NothingMissing'
  BY DEF IInv, Veto, copyVars, ioVars, shutdownVars, restoreVars, historyVars,
      NothingMissing, Open, Modified, Lapse, HasBackup, Agreed
<1>10. Remembered'
  BY DEF IInv, Veto, copyVars, ioVars, shutdownVars, restoreVars, historyVars, Remembered,
      Open, Modified, Handling, Discarding
<1>11. Agreement'
  BY DEF IInv, Veto, copyVars, ioVars, shutdownVars, restoreVars, historyVars, Agreement,
      Ops, Writing, Deleting, Lapse, Recovered, Agreed
<1> QED BY <1>1, <1>2, <1>3, <1>4, <1>5, <1>6, <1>7, <1>8, <1>9, <1>10, <1>11 DEF IInv

LEMMA DiscardAllBackupsKeeps ==
  ASSUME IInv, DiscardAllBackups
  PROVE  IInv'
<1>a. /\ shutdown = "unmodified" /\ shutdown' = "agreed" /\ lapses' \subseteq lapses \cup {"leftover"}
      /\ UNCHANGED <<copyVars, pending, queue, running, saved, restoreVars, since, used>>
  BY DEF DiscardAllBackups, KeptBackup
<1>b. \/ /\ disk' = None /\ model' = [exists |-> FALSE, version |-> 0]
         /\ ~Lapse("leftover")' => ~Writing
      \/ /\ UNCHANGED <<disk, model>>
         /\ ~Lapse("leftover")' => ~model.exists /\ Len(queue) = 0 /\ ~Lapse("leftover")
  BY Positions DEF IInv, DiscardAllBackups, KeptBackup, Lapse, Writing, Queued
<1>c. file \in since /\ \A i \in Ops : ~(queue[i].kind = "write" /\ queue[i].live)
  BY <1>a, LiveOperation DEF IInv, Remembered, Agreed, PendingFits, Suspended, Idle
<1>1. Typed'
  <2>1. model' \in [exists : BOOLEAN, version : Nat] /\ disk' \in Contents \cup {None, Corrupt}
    <3>1. [exists |-> FALSE, version |-> 0] \in [exists : BOOLEAN, version : Nat]
      OBVIOUS
    <3>2. model \in [exists : BOOLEAN, version : Nat] /\ disk \in Contents \cup {None, Corrupt}
      BY DEF IInv, Typed, TypeOK
    <3> QED BY <1>b, <3>1, <3>2
  <2>2. lapses' \subseteq Lapses
    BY <1>a DEF IInv, Typed, TypeOK, Lapses
  <2> QED BY <1>a, <2>1, <2>2 DEF IInv, Typed, TypeOK, copyVars, restoreVars
<1>2. Queued'
  BY <1>a, <1>b
  DEF IInv, copyVars, ioVars, shutdownVars, restoreVars, historyVars,
      Queued, Ops
<1>3. Tokens'
  BY <1>a, <1>b
  DEF IInv, copyVars, ioVars, shutdownVars, restoreVars, historyVars,
      Tokens, Ops, LiveOps, Agreed
<1>4. PendingFits'
  BY <1>a, <1>b
  DEF IInv, copyVars, ioVars, shutdownVars, restoreVars, historyVars,
      PendingFits, Open, Modified, Suspended, Lapse
<1>5. CopyFits'
  BY <1>a, <1>b
  DEF IInv, copyVars, ioVars, shutdownVars, restoreVars, historyVars,
      CopyFits, Open, Agreed
<1>6. Captured'
  BY <1>a, <1>b
  DEF IInv, copyVars, ioVars, shutdownVars, restoreVars, historyVars,
      Captured, Ops, Writes, Open
<1>7. BackupFits'
  BY <1>a, <1>b, ContentsFacts
  DEF IInv, copyVars, ioVars, shutdownVars, restoreVars,
      historyVars, BackupFits, Ops, Writes, Writing, Deleting, Open, Modified, Lapse, Agreed
<1>8. NothingLeft'
  BY <1>a, <1>b
  DEF IInv, copyVars, ioVars, shutdownVars, restoreVars, historyVars,
      NothingLeft, Writing, Open, Modified, Lapse
<1>9. NothingMissing'
  BY <1>a, <1>b
  DEF IInv, copyVars, ioVars, shutdownVars, restoreVars, historyVars,
      NothingMissing, Open, Modified, Lapse, HasBackup, Agreed
<1>10. Remembered'
  BY <1>a, <1>b
  DEF IInv, copyVars, ioVars, shutdownVars, restoreVars, historyVars,
      Remembered, Open, Modified, Handling, Discarding
<1>11. Agreement'
  BY <1>a, <1>b, <1>c, ContentsFacts
  DEF IInv, copyVars, ioVars, shutdownVars,
      restoreVars, historyVars, Agreement, Ops, Writing, Deleting, Lapse, Recovered, Agreed,
      BackupFits, Queued, NothingLeft
<1> QED BY <1>1, <1>2, <1>3, <1>4, <1>5, <1>6, <1>7, <1>8, <1>9, <1>10, <1>11 DEF IInv

LEMMA StartOperationKeeps ==
  ASSUME IInv, StartOperation
  PROVE  IInv'
<1>a. Len(queue) \in Nat /\ Len(queue) >= 1 /\ Head(queue) = queue[1] /\ 1 \in Ops
  BY Positions DEF IInv, StartOperation, Ops
<1>b. /\ ~running /\ queue[1].live /\ queue[1].kind # "read"
      /\ queue[1].kind = "write" => ~HasBackup(queue[1].version)
      /\ disk' = IF queue[1].kind = "write" THEN Corrupt ELSE disk
      /\ running' = TRUE
      /\ UNCHANGED <<copyVars, pending, queue, model, shutdownVars, restoreVars, historyVars, used>>
  BY <1>a DEF StartOperation
<1>c. /\ queue[1].kind = "write" =>
           /\ shutdown # "backup" => pending.kind = "backup" /\ Modified
           /\ shutdown \in Agreed => Lapse("late")
      /\ queue[1].kind = "delete" => ~Modified \/ shutdown \in {"discard"} \cup Agreed
  BY <1>a, <1>b, LiveOperation
<1>1. Typed'
  BY <1>a, <1>b
  DEF IInv, copyVars, ioVars, shutdownVars, restoreVars, historyVars,
      Typed, TypeOK
<1>2. Queued'
  BY <1>a, <1>b
  DEF IInv, copyVars, ioVars, shutdownVars, restoreVars, historyVars,
      Queued, Ops
<1>3. Tokens'
  BY <1>a, <1>b
  DEF IInv, copyVars, ioVars, shutdownVars, restoreVars, historyVars,
      Tokens, Ops, LiveOps, Agreed
<1>4. PendingFits'
  BY <1>a, <1>b
  DEF IInv, copyVars, ioVars, shutdownVars, restoreVars, historyVars,
      PendingFits, Open, Modified, Suspended, Lapse
<1>5. CopyFits'
  BY <1>a, <1>b
  DEF IInv, copyVars, ioVars, shutdownVars, restoreVars, historyVars,
      CopyFits, Open, Agreed
<1>6. Captured'
  BY <1>a, <1>b
  DEF IInv, copyVars, ioVars, shutdownVars, restoreVars, historyVars,
      Captured, Ops, Writes, Open
<1>7. BackupFits'
  <2>1. ASSUME ~Lapse("leftover"), Open, model.exists, queue[1].kind = "write"
        PROVE  /\ model.version < queue[1].version /\ queue[1].version <= version
               /\ \A i \in Writes : model.version < queue[i].version
               /\ shutdown = "capture" => model.version < saved.version
    <3>1. 1 \in Writes /\ model.version # queue[1].version
      BY <1>a, <1>b, <2>1 DEF Writes, HasBackup
    <3>2. model.version <= queue[1].version /\ queue[1].version <= version
      BY <2>1, <3>1 DEF IInv, BackupFits, Captured
    <3>3. ASSUME NEW i \in Writes PROVE queue[1].version <= queue[i].version
      <4>1. i = 1 \/ 1 < i
        BY <1>a DEF Writes, Ops
      <4> QED BY <3>1, <4>1, Numbers DEF IInv, Captured, Writes
    <3>4. shutdown = "capture" => queue[1].version <= saved.version
      BY <3>1 DEF IInv, Captured
    <3> QED BY <1>a, <3>1, <3>2, <3>3, <3>4, Numbers DEF Writes
  <2>2. CASE queue[1].kind = "write"
    <3>1. disk' = Corrupt /\ ~Deleting'
      BY <1>b, <2>2 DEF Deleting
    <3>2. ASSUME ~Lapse("leftover"), Open, model.exists
          PROVE  /\ model.version <= version /\ model.version # version
                 /\ \A i \in Writes : model.version <= queue[i].version /\ model.version # queue[i].version
                 /\ shutdown = "capture" => model.version <= saved.version /\ model.version # saved.version
                 /\ model.version < queue[1].version
      BY <1>a, <2>1, <2>2, <3>2, Numbers DEF Writes
    <3> QED BY <1>b, <3>1, <3>2, ContentsFacts
         DEF IInv, BackupFits, Ops, Writes, Open, Lapse, copyVars, shutdownVars, historyVars
  <2>3. CASE queue[1].kind # "write"
    <3>1. Deleting' /\ Modified' /\ shutdown' \notin {"discard"} \cup Agreed => FALSE
      BY <1>b, <1>c DEF Deleting, Modified, Open, copyVars, shutdownVars
    <3> QED BY <1>b, <2>3, <3>1
         DEF IInv, BackupFits, Ops, Writes, Writing, Open, Modified, Lapse, Agreed,
             copyVars, shutdownVars, historyVars
  <2> QED BY <2>2, <2>3
<1>8. NothingLeft'
  BY <1>a, <1>b, <1>c
  DEF IInv, copyVars, ioVars, shutdownVars, restoreVars, historyVars,
      NothingLeft, Writing, Open, Modified, Lapse
<1>9. NothingMissing'
  BY <1>a, <1>b
  DEF IInv, copyVars, ioVars, shutdownVars, restoreVars, historyVars,
      NothingMissing, Open, Modified, Lapse, HasBackup, Agreed
<1>10. Remembered'
  BY <1>a, <1>b
  DEF IInv, copyVars, ioVars, shutdownVars, restoreVars, historyVars,
      Remembered, Open, Modified, Handling, Discarding
<1>11. Agreement'
  BY <1>a, <1>b, <1>c
  DEF IInv, copyVars, ioVars, shutdownVars, restoreVars, historyVars,
      Agreement, Ops, Writing, Deleting, Lapse, Recovered, Agreed
<1> QED BY <1>1, <1>2, <1>3, <1>4, <1>5, <1>6, <1>7, <1>8, <1>9, <1>10, <1>11 DEF IInv

LEMMA StoreBackupWrites ==
  ASSUME IInv, StoreBackup, Modified, ~HasBackup(version)
  PROVE  IInv'
<1> DEFINE op == Operation("write", pending.content, version, "tracker")
           n == Len(queue) + 1
<1>a. /\ pending.phase = "capture" /\ pending.kind = "backup" /\ pending \in PendingType
      /\ pending.content = copy.content /\ copy.content \in Contents /\ version \in Nat
      /\ shutdown # "none" => shutdown = "agreed" /\ Lapse("late")
      /\ Modified
  <2>1. pending.phase = "capture" /\ pending \in PendingType /\ version \in Nat
    BY DEF IInv, StoreBackup, Typed, TypeOK, PendingType
  <2>2. pending.kind = "backup" /\ pending # Idle /\ pending.content = copy.content
    BY <2>1 DEF IInv, PendingFits, Idle, PendingType
  <2>3. shutdown # "none" => shutdown = "agreed" /\ Lapse("late")
    BY <2>2 DEF IInv, PendingFits, Suspended, Lapse
  <2>4. Modified /\ copy.content \in Contents
    BY <2>2 DEF IInv, PendingFits, CopyFits, Modified
  <2> QED BY <2>1, <2>2, <2>3, <2>4
<1>b. /\ pending' = [pending EXCEPT !.phase = "io", !.content = None]
      /\ queue' = Append(queue, op) /\ ~HasBackup(version)
      /\ UNCHANGED <<copyVars, running, model, disk, shutdownVars, restoreVars, historyVars, used>>
  BY <1>a DEF StoreBackup
<1>c. pending' \in PendingType /\ pending'.kind = "backup" /\ pending'.phase = "io"
  <2> DEFINE p == [pending EXCEPT !.phase = "io"]
  <2>1. p \in PendingType /\ p.kind = "backup" /\ p.phase = "io"
    BY <1>a DEF PendingType
  <2>2. pending' = [p EXCEPT !.content = None]
    BY <1>b, Zenon
  <2> HIDE DEF p
  <2> QED BY <2>1, <2>2 DEF PendingType
<1>d. /\ op \in OperationType /\ op.kind = "write" /\ op.by = "tracker" /\ op.live
      /\ op.content = copy.content /\ op.version = version
  BY <1>a, NewOperation DEF Operation
<1> HIDE DEF op, n
<1>e. /\ queue' \in Seq(OperationType)
      /\ Len(queue') = n /\ queue'[n] = op /\ n \in Nat /\ n >= 1
      /\ Ops' = Ops \cup {n} /\ n \notin Ops
      /\ \A i \in Ops : queue'[i] = queue[i] /\ i < n /\ ~(n < i) /\ i # n
      /\ ~(n < n)
      /\ running => queue'[1] = queue[1] /\ 1 \in Ops
      /\ Writing' = Writing /\ Deleting' = Deleting
      /\ Writes' = Writes \cup {n}
      /\ LiveOps("shutdown")' = LiveOps("shutdown") /\ LiveOps("nobody")' = LiveOps("nobody")
      /\ LiveOps("tracker")' = LiveOps("tracker") \cup {n}
  <2>1. queue' = Append(queue, op) /\ running' = running /\ n = Len(queue) + 1
    BY <1>b DEF n
  <2>2. /\ op \in OperationType /\ op.kind = "write" /\ op.live /\ op.by = "tracker"
        /\ op.by # "shutdown" /\ op.by # "nobody"
    BY <1>d
  <2>3. Joins(op, n)
    BY <2>1, <2>2, Queues
  <2> QED BY <2>2, <2>3 DEF Joins
<1>f. LiveOps("tracker") = {} /\ Open /\ Open' /\ Modified'
  BY <1>a, <1>b DEF IInv, Tokens, Modified, Open, copyVars
<1>1. Typed'
  BY <1>a, <1>b, <1>c, <1>d, <1>e, <1>f
  DEF IInv, copyVars, ioVars, shutdownVars,
      restoreVars, historyVars, Typed, TypeOK, PendingType
<1>2. Queued'
  BY <1>a, <1>b, <1>c, <1>d, <1>e, <1>f
  DEF IInv, copyVars, ioVars, shutdownVars,
      restoreVars, historyVars, Queued, Ops, Open, Modified
<1>3. Tokens'
  BY <1>a, <1>b, <1>c, <1>d, <1>e, <1>f
  DEF IInv, copyVars, ioVars, shutdownVars,
      restoreVars, historyVars, Tokens, Ops, LiveOps, Agreed
<1>4. PendingFits'
  BY <1>a, <1>b, <1>c, <1>d, <1>e, <1>f
  DEF IInv, copyVars, ioVars, shutdownVars,
      restoreVars, historyVars, PendingFits, Open, Modified, Suspended, Lapse, Idle
<1>5. CopyFits'
  BY <1>a, <1>b, <1>c, <1>d, <1>e, <1>f
  DEF IInv, copyVars, ioVars, shutdownVars,
      restoreVars, historyVars, CopyFits, Open, Agreed
<1>6. Captured'
  BY <1>a, <1>b, <1>c, <1>d, <1>e, <1>f
  DEF IInv, copyVars, ioVars, shutdownVars,
      restoreVars, historyVars, Captured, Ops, Writes, Open, Numbers
<1>7. BackupFits'
  BY <1>a, <1>b, <1>c, <1>d, <1>e, <1>f, Numbers
  DEF IInv, copyVars, ioVars,
      shutdownVars, restoreVars, historyVars, BackupFits, Ops, Writes, Writing, Deleting, Open,
      Modified, Lapse, Agreed, HasBackup, Queued
<1>8. NothingLeft'
  BY <1>a, <1>b, <1>c, <1>d, <1>e, <1>f
  DEF IInv, copyVars, ioVars, shutdownVars,
      restoreVars, historyVars, NothingLeft, Writing, Open, Modified, Lapse
<1>9. NothingMissing'
  BY <1>a, <1>b, <1>c, <1>d, <1>e, <1>f
  DEF IInv, copyVars, ioVars, shutdownVars,
      restoreVars, historyVars, NothingMissing, Open, Modified, Lapse, HasBackup, Agreed
<1>10. Remembered'
  BY <1>a, <1>b, <1>c, <1>d, <1>e, <1>f
  DEF IInv, copyVars, ioVars, shutdownVars,
      restoreVars, historyVars, Remembered, Open, Modified, Handling, Discarding
<1>11. Agreement'
  BY <1>a, <1>b, <1>c, <1>d, <1>e, <1>f
  DEF IInv, copyVars, ioVars, shutdownVars,
      restoreVars, historyVars, Agreement, Ops, Writing, Deleting, Lapse, Recovered, Agreed
<1> QED BY <1>1, <1>2, <1>3, <1>4, <1>5, <1>6, <1>7, <1>8, <1>9, <1>10, <1>11 DEF IInv

LEMMA StoreBackupSkips ==
  ASSUME IInv, StoreBackup, ~Modified \/ HasBackup(version)
  PROVE  IInv'
<1>a. /\ pending.phase = "capture" /\ pending' = Idle
      /\ ~Modified \/ HasBackup(version)
      /\ UNCHANGED <<copyVars, ioVars, shutdownVars, restoreVars, historyVars, used>>
  BY DEF StoreBackup, ioVars
<1>b. pending' \in PendingType /\ pending'.kind = "none" /\ pending'.phase = "none" /\ pending.kind # "discard"
  BY <1>a DEF IInv, PendingFits, Idle, PendingType
<1>1. Typed'
  BY <1>a, <1>b, <1>b
  DEF IInv, copyVars, ioVars, shutdownVars, restoreVars, historyVars,
      Typed, TypeOK, PendingType
<1>2. Queued'
  BY <1>a, <1>b
  DEF IInv, copyVars, ioVars, shutdownVars, restoreVars, historyVars,
      Queued, Ops
<1>3. Tokens'
  BY <1>a, <1>b
  DEF IInv, copyVars, ioVars, shutdownVars, restoreVars, historyVars,
      Tokens, Ops, LiveOps, Agreed
<1>4. PendingFits'
  BY <1>a, <1>b, <1>b
  DEF IInv, copyVars, ioVars, shutdownVars, restoreVars, historyVars,
      PendingFits, Open, Modified, Suspended, Lapse, Idle
<1>5. CopyFits'
  BY <1>a, <1>b
  DEF IInv, copyVars, ioVars, shutdownVars, restoreVars, historyVars,
      CopyFits, Open, Agreed
<1>6. Captured'
  BY <1>a, <1>b
  DEF IInv, copyVars, ioVars, shutdownVars, restoreVars, historyVars,
      Captured, Ops, Writes, Open
<1>7. BackupFits'
  BY <1>a, <1>b
  DEF IInv, copyVars, ioVars, shutdownVars, restoreVars, historyVars,
      BackupFits, Ops, Writes, Writing, Deleting, Open, Modified, Lapse, Agreed
<1>8. NothingLeft'
  BY <1>a, <1>b
  DEF IInv, copyVars, ioVars, shutdownVars, restoreVars, historyVars,
      NothingLeft, Writing, Open, Modified, Lapse
<1>9. NothingMissing'
  BY <1>a, <1>b
  DEF IInv, copyVars, ioVars, shutdownVars, restoreVars, historyVars,
      NothingMissing, Open, Modified, Lapse, HasBackup, Agreed
<1>10. Remembered'
  BY <1>a, <1>b
  DEF IInv, copyVars, ioVars, shutdownVars, restoreVars, historyVars,
      Remembered, Open, Modified, Handling, Discarding
<1>11. Agreement'
  BY <1>a, <1>b
  DEF IInv, copyVars, ioVars, shutdownVars, restoreVars, historyVars,
      Agreement, Ops, Writing, Deleting, Lapse, Recovered, Agreed
<1> QED BY <1>1, <1>2, <1>3, <1>4, <1>5, <1>6, <1>7, <1>8, <1>9, <1>10, <1>11 DEF IInv

LEMMA OpenCopyKeeps ==
  ASSUME IInv, OpenCopy
  PROVE  IInv'
<1> DEFINE op == Operation("read", None, 0, "copy")
           n == Len(queue) + 1
<1>a. /\ copy.status = "closed" /\ ~Suspended
      /\ copy' = [copy EXCEPT !.status = "opening"] /\ queue' = Append(queue, op)
      /\ UNCHANGED <<version, file, pending, running, model, disk, shutdownVars, restoreVars,
                     historyVars, used>>
  BY DEF OpenCopy
<1>b. copy' \in CopyType /\ copy'.status = "opening" /\ ~Open /\ ~Open' /\ ~Modified /\ ~Modified'
  BY <1>a DEF IInv, Typed, TypeOK, CopyType, Open, Modified
<1>c. op \in OperationType /\ op.kind = "read" /\ op.by = "copy" /\ op.live
  BY NewOperation DEF Operation
<1> HIDE DEF op, n
<1>e. /\ queue' \in Seq(OperationType)
      /\ Len(queue') = n /\ queue'[n] = op /\ n \in Nat /\ n >= 1
      /\ Ops' = Ops \cup {n} /\ n \notin Ops
      /\ \A i \in Ops : queue'[i] = queue[i] /\ i < n /\ ~(n < i) /\ i # n
      /\ ~(n < n)
      /\ running => queue'[1] = queue[1] /\ 1 \in Ops
      /\ Writing' = Writing /\ Deleting' = Deleting
      /\ Writes' = Writes
      /\ LiveOps("shutdown")' = LiveOps("shutdown") /\ LiveOps("nobody")' = LiveOps("nobody")
      /\ LiveOps("tracker")' = LiveOps("tracker")
  <2>1. queue' = Append(queue, op) /\ running' = running /\ n = Len(queue) + 1
    BY <1>a DEF n
  <2>2. /\ op \in OperationType /\ op.kind # "write"
        /\ op.by # "tracker" /\ op.by # "shutdown" /\ op.by # "nobody"
    BY <1>c
  <2>3. Joins(op, n)
    BY <2>1, <2>2, Queues
  <2> QED BY <2>2, <2>3 DEF Joins
<1>1. Typed'
  BY <1>a, <1>b, <1>c, <1>e
  DEF IInv, copyVars, ioVars, shutdownVars, restoreVars,
      historyVars, Typed, TypeOK, CopyType
<1>2. Queued'
  BY <1>a, <1>b, <1>c, <1>e
  DEF IInv, copyVars, ioVars, shutdownVars, restoreVars,
      historyVars, Queued, Ops
<1>3. Tokens'
  BY <1>a, <1>b, <1>c, <1>e
  DEF IInv, copyVars, ioVars, shutdownVars, restoreVars,
      historyVars, Tokens, Ops, LiveOps, Agreed
<1>4. PendingFits'
  BY <1>a, <1>b, <1>c, <1>e
  DEF IInv, copyVars, ioVars, shutdownVars, restoreVars,
      historyVars, PendingFits, Open, Modified, Suspended, Lapse
<1>5. CopyFits'
  BY <1>a, <1>b, <1>c, <1>e
  DEF IInv, copyVars, ioVars, shutdownVars, restoreVars,
      historyVars, CopyFits, Open, Agreed
<1>6. Captured'
  BY <1>a, <1>b, <1>c, <1>e
  DEF IInv, copyVars, ioVars, shutdownVars, restoreVars,
      historyVars, Captured, Ops, Writes, Open
<1>7. BackupFits'
  BY <1>a, <1>b, <1>c, <1>e
  DEF IInv, copyVars, ioVars, shutdownVars, restoreVars,
      historyVars, BackupFits, Ops, Writes, Writing, Deleting, Open, Modified, Lapse, Agreed
<1>8. NothingLeft'
  BY <1>a, <1>b, <1>c, <1>e
  DEF IInv, copyVars, ioVars, shutdownVars, restoreVars,
      historyVars, NothingLeft, Writing, Open, Modified, Lapse
<1>9. NothingMissing'
  BY <1>a, <1>b, <1>c, <1>e
  DEF IInv, copyVars, ioVars, shutdownVars, restoreVars,
      historyVars, NothingMissing, Open, Modified, Lapse, HasBackup, Agreed
<1>10. Remembered'
  BY <1>a, <1>b, <1>c, <1>e
  DEF IInv, copyVars, ioVars, shutdownVars, restoreVars,
      historyVars, Remembered, Open, Modified, Handling, Discarding
<1>11. Agreement'
  BY <1>a, <1>b, <1>c, <1>e
  DEF IInv, copyVars, ioVars, shutdownVars, restoreVars,
      historyVars, Agreement, Ops, Writing, Deleting, Lapse, Recovered, Agreed
<1> QED BY <1>1, <1>2, <1>3, <1>4, <1>5, <1>6, <1>7, <1>8, <1>9, <1>10, <1>11 DEF IInv

LEMMA DiscardHandledQueues ==
  ASSUME IInv, DiscardHandled, shutdown' = "discard"
  PROVE  IInv'
<1> DEFINE op == Operation("delete", None, 0, "shutdown")
           n == Len(queue) + 1
<1>a. /\ shutdown = "handled" /\ shutdown' = "discard" /\ queue' = Append(queue, op)
      /\ UNCHANGED <<copyVars, pending, running, model, disk, saved, restoreVars, historyVars, used>>
  BY DEF DiscardHandled, historyVars
<1>b. op \in OperationType /\ op.kind = "delete" /\ op.by = "shutdown" /\ op.live
  BY NewOperation DEF Operation
<1>c. Open /\ LiveOps("shutdown") = {}
  BY <1>a, NothingAwaited DEF IInv, CopyFits, Agreed
<1> HIDE DEF op, n
<1>e. /\ queue' \in Seq(OperationType)
      /\ Len(queue') = n /\ queue'[n] = op /\ n \in Nat /\ n >= 1
      /\ Ops' = Ops \cup {n} /\ n \notin Ops
      /\ \A i \in Ops : queue'[i] = queue[i] /\ i < n /\ ~(n < i) /\ i # n
      /\ ~(n < n)
      /\ running => queue'[1] = queue[1] /\ 1 \in Ops
      /\ Writing' = Writing /\ Deleting' = Deleting
      /\ Writes' = Writes
      /\ LiveOps("shutdown")' = LiveOps("shutdown") \cup {n} /\ LiveOps("nobody")' = LiveOps("nobody")
      /\ LiveOps("tracker")' = LiveOps("tracker")
  <2>1. queue' = Append(queue, op) /\ running' = running /\ n = Len(queue) + 1
    BY <1>a DEF n
  <2>2. /\ op \in OperationType /\ op.kind # "write" /\ op.live /\ op.by = "shutdown"
        /\ op.by # "tracker" /\ op.by # "nobody"
    BY <1>b
  <2>3. Joins(op, n)
    BY <2>1, <2>2, Queues
  <2> QED BY <2>2, <2>3 DEF Joins
<1>1. Typed'
  <2>1. UNCHANGED <<copy, version, file, pending, running, model, disk>>
    BY <1>a DEF copyVars, ioVars
  <2>2. UNCHANGED <<saved, lapses, since, used>>
    BY <1>a DEF historyVars
  <2>3. ready' = ready /\ unrestored' = unrestored
    BY <1>a DEF restoreVars
  <2> QED BY <1>a, <1>e, <2>1, <2>2, <2>3 DEF IInv, Typed, TypeOK
<1>2. Queued'
  BY <1>a, <1>b, <1>c, <1>e
  DEF IInv, copyVars, ioVars, shutdownVars, restoreVars,
      historyVars, Queued, Ops, Open
<1>3. Tokens'
  BY <1>a, <1>b, <1>c, <1>e
  DEF IInv, copyVars, ioVars, shutdownVars, restoreVars,
      historyVars, Tokens, Ops, LiveOps, Agreed
<1>4. PendingFits'
  BY <1>a, <1>b, <1>c, <1>e
  DEF IInv, copyVars, ioVars, shutdownVars, restoreVars,
      historyVars, PendingFits, Open, Modified, Suspended, Lapse
<1>5. CopyFits'
  BY <1>a, <1>b, <1>c, <1>e
  DEF IInv, copyVars, ioVars, shutdownVars, restoreVars,
      historyVars, CopyFits, Open, Agreed
<1>6. Captured'
  BY <1>a, <1>b, <1>c, <1>e
  DEF IInv, copyVars, ioVars, shutdownVars, restoreVars,
      historyVars, Captured, Ops, Writes, Open
<1>7. BackupFits'
  BY <1>a, <1>b, <1>c, <1>e
  DEF IInv, copyVars, ioVars, shutdownVars, restoreVars,
      historyVars, BackupFits, Ops, Writes, Writing, Deleting, Open, Modified, Lapse, Agreed
<1>8. NothingLeft'
  BY <1>a, <1>b, <1>c, <1>e
  DEF IInv, copyVars, ioVars, shutdownVars, restoreVars,
      historyVars, NothingLeft, Writing, Open, Modified, Lapse
<1>9. NothingMissing'
  BY <1>a, <1>b, <1>c, <1>e
  DEF IInv, copyVars, ioVars, shutdownVars, restoreVars,
      historyVars, NothingMissing, Open, Modified, Lapse, HasBackup, Agreed
<1>10. Remembered'
  BY <1>a, <1>b, <1>c, <1>e
  DEF IInv, copyVars, ioVars, shutdownVars, restoreVars,
      historyVars, Remembered, Open, Modified, Handling, Discarding
<1>11. Agreement'
  BY <1>a, <1>b, <1>c, <1>e
  DEF IInv, copyVars, ioVars, shutdownVars, restoreVars,
      historyVars, Agreement, Ops, Writing, Deleting, Lapse, Recovered, Agreed
<1> QED BY <1>1, <1>2, <1>3, <1>4, <1>5, <1>6, <1>7, <1>8, <1>9, <1>10, <1>11 DEF IInv

LEMMA DiscardHandledSkips ==
  ASSUME IInv, DiscardHandled, shutdown' # "discard"
  PROVE  IInv'
<1>a. /\ shutdown = "handled" /\ shutdown' = "agreed"
      /\ lapses' = lapses \/ lapses' = lapses \cup {"leftover"}
      /\ UNCHANGED <<copyVars, pending, queue, running, model, disk, saved, restoreVars, since, used>>
  BY DEF DiscardHandled, KeptBackup
<1>b. file \in since /\ \A i \in Ops : ~(queue[i].kind = "delete" /\ queue[i].live)
  BY <1>a, LiveOperation DEF IInv, Remembered, Discarding, Suspended, Agreed
<1>c. ~Lapse("leftover")' => ~model.exists /\ Len(queue) = 0
  BY Positions DEF IInv, DiscardHandled, KeptBackup, Lapse
<1>d. lapses' \subseteq Lapses
  BY <1>a DEF IInv, Typed, TypeOK, Lapses
<1>1. Typed'
  BY <1>a, <1>d
  DEF IInv, copyVars, ioVars, shutdownVars, restoreVars, historyVars,
      Typed, TypeOK
<1>2. Queued'
  BY <1>a
  DEF IInv, copyVars, ioVars, shutdownVars, restoreVars, historyVars, Queued, Ops
<1>3. Tokens'
  BY <1>a
  DEF IInv, copyVars, ioVars, shutdownVars, restoreVars, historyVars, Tokens,
      Ops, LiveOps, Agreed
<1>4. PendingFits'
  BY <1>a
  DEF IInv, copyVars, ioVars, shutdownVars, restoreVars, historyVars,
      PendingFits, Open, Modified, Suspended, Lapse
<1>5. CopyFits'
  BY <1>a
  DEF IInv, copyVars, ioVars, shutdownVars, restoreVars, historyVars, CopyFits,
      Open, Agreed
<1>6. Captured'
  BY <1>a
  DEF IInv, copyVars, ioVars, shutdownVars, restoreVars, historyVars, Captured,
      Ops, Writes, Open
<1>7. BackupFits'
  BY <1>a
  DEF IInv, copyVars, ioVars, shutdownVars, restoreVars, historyVars, BackupFits,
      Ops, Writes, Writing, Deleting, Open, Modified, Lapse, Agreed
<1>8. NothingLeft'
  BY <1>a
  DEF IInv, copyVars, ioVars, shutdownVars, restoreVars, historyVars,
      NothingLeft, Writing, Open, Modified, Lapse
<1>9. NothingMissing'
  BY <1>a
  DEF IInv, copyVars, ioVars, shutdownVars, restoreVars, historyVars,
      NothingMissing, Open, Modified, Lapse, HasBackup, Agreed
<1>10. Remembered'
  BY <1>a
  DEF IInv, copyVars, ioVars, shutdownVars, restoreVars, historyVars, Remembered,
      Open, Modified, Handling, Discarding
<1>11. Agreement'
  BY <1>a, <1>b, <1>c, ContentsFacts
  DEF IInv, copyVars, ioVars, shutdownVars,
      restoreVars, historyVars, Agreement, Ops, Writing, Deleting, Lapse, Recovered, Agreed,
      BackupFits, Queued
<1> QED BY <1>1, <1>2, <1>3, <1>4, <1>5, <1>6, <1>7, <1>8, <1>9, <1>10, <1>11 DEF IInv

LEMMA StoreBeforeShutdownWrites ==
  ASSUME IInv, StoreBeforeShutdown, ~HasBackup(saved.version)
  PROVE  IInv'
<1> DEFINE op == Operation("write", saved.content, saved.version, "shutdown")
           n == Len(queue) + 1
<1>a. /\ shutdown = "capture" /\ shutdown' = "backup" /\ queue' = Append(queue, op)
      /\ saved' = NothingSaved /\ ~HasBackup(saved.version)
      /\ UNCHANGED <<copyVars, pending, running, model, disk, restoreVars, historyVars, used>>
  BY DEF StoreBeforeShutdown
<1>b. /\ op \in OperationType /\ op.kind = "write" /\ op.by = "shutdown" /\ op.live
      /\ op.content = saved.content /\ op.version = saved.version /\ saved.version \in Nat
      /\ saved.content \in Contents /\ saved.content \in since
  BY <1>a, NewOperation, Numbers DEF Operation, IInv, Captured
<1>c. Open /\ LiveOps("shutdown") = {}
  BY <1>a, NothingAwaited DEF IInv, CopyFits, Agreed
<1> HIDE DEF op, n
<1>e. /\ queue' \in Seq(OperationType)
      /\ Len(queue') = n /\ queue'[n] = op /\ n \in Nat /\ n >= 1
      /\ Ops' = Ops \cup {n} /\ n \notin Ops
      /\ \A i \in Ops : queue'[i] = queue[i] /\ i < n /\ ~(n < i) /\ i # n
      /\ ~(n < n)
      /\ running => queue'[1] = queue[1] /\ 1 \in Ops
      /\ Writing' = Writing /\ Deleting' = Deleting
      /\ Writes' = Writes \cup {n}
      /\ LiveOps("shutdown")' = LiveOps("shutdown") \cup {n} /\ LiveOps("nobody")' = LiveOps("nobody")
      /\ LiveOps("tracker")' = LiveOps("tracker")
  <2>1. queue' = Append(queue, op) /\ running' = running /\ n = Len(queue) + 1
    BY <1>a DEF n
  <2>2. /\ op \in OperationType /\ op.kind = "write" /\ op.live /\ op.by = "shutdown"
        /\ op.by # "tracker" /\ op.by # "nobody"
    BY <1>b
  <2>3. Joins(op, n)
    BY <2>1, <2>2, Queues
  <2> QED BY <2>2, <2>3 DEF Joins
<1>1. Typed'
  BY <1>a, <1>b, <1>c, <1>e
  DEF IInv, copyVars, ioVars, shutdownVars, restoreVars,
      historyVars, Typed, TypeOK, NothingSaved
<1>2. Queued'
  BY <1>a, <1>b, <1>c, <1>e
  DEF IInv, copyVars, ioVars, shutdownVars, restoreVars,
      historyVars, Queued, Ops, Open
<1>3. Tokens'
  BY <1>a, <1>b, <1>c, <1>e
  DEF IInv, copyVars, ioVars, shutdownVars, restoreVars,
      historyVars, Tokens, Ops, LiveOps, Agreed
<1>4. PendingFits'
  BY <1>a, <1>b, <1>c, <1>e
  DEF IInv, copyVars, ioVars, shutdownVars, restoreVars,
      historyVars, PendingFits, Open, Modified, Suspended, Lapse
<1>5. CopyFits'
  BY <1>a, <1>b, <1>c, <1>e
  DEF IInv, copyVars, ioVars, shutdownVars, restoreVars,
      historyVars, CopyFits, Open, Agreed
<1>6. Captured'
  BY <1>a, <1>b, <1>c, <1>e
  DEF IInv, copyVars, ioVars, shutdownVars, restoreVars,
      historyVars, Captured, Ops, Writes, Open, Numbers
<1>7. BackupFits'
  BY <1>a, <1>b, <1>c, <1>e, Numbers
  DEF IInv, copyVars, ioVars, shutdownVars,
      restoreVars, historyVars, BackupFits, Ops, Writes, Writing, Deleting, Open, Modified,
      Lapse, Agreed, HasBackup
<1>8. NothingLeft'
  BY <1>a, <1>b, <1>c, <1>e
  DEF IInv, copyVars, ioVars, shutdownVars, restoreVars,
      historyVars, NothingLeft, Writing, Open, Modified, Lapse
<1>9. NothingMissing'
  BY <1>a, <1>b, <1>c, <1>e
  DEF IInv, copyVars, ioVars, shutdownVars, restoreVars,
      historyVars, NothingMissing, Open, Modified, Lapse, HasBackup, Agreed
<1>10. Remembered'
  BY <1>a, <1>b, <1>c, <1>e
  DEF IInv, copyVars, ioVars, shutdownVars, restoreVars,
      historyVars, Remembered, Open, Modified, Handling, Discarding
<1>11. Agreement'
  BY <1>a, <1>b, <1>c, <1>e
  DEF IInv, copyVars, ioVars, shutdownVars, restoreVars,
      historyVars, Agreement, Ops, Writing, Deleting, Lapse, Recovered, Agreed
<1> QED BY <1>1, <1>2, <1>3, <1>4, <1>5, <1>6, <1>7, <1>8, <1>9, <1>10, <1>11 DEF IInv

LEMMA StoreBeforeShutdownSkips ==
  ASSUME IInv, StoreBeforeShutdown, HasBackup(saved.version)
  PROVE  IInv'
<1>a. /\ shutdown = "capture" /\ shutdown' = "agreed"
      /\ saved' = NothingSaved /\ model.exists /\ model.version = saved.version
      /\ UNCHANGED <<copyVars, pending, ioVars, restoreVars, historyVars, used>>
  BY DEF StoreBeforeShutdown, HasBackup, ioVars
<1>b. Open /\ (~Lapse("leftover") => Modified) /\ saved.content \in Contents /\ saved.content \in since
  BY <1>a DEF IInv, CopyFits, Agreed, NothingLeft, Captured
<1>c. \A i \in Ops : ~(queue[i].kind = "delete" /\ queue[i].live)
  BY <1>a, LiveOperation DEF Suspended, Agreed
<1>d. ~Lapse("leftover") => Recovered \in since /\ ~Writing /\ ~Deleting
  <2> SUFFICES ASSUME ~Lapse("leftover") PROVE Recovered \in since /\ ~Writing /\ ~Deleting
    OBVIOUS
  <2>1. /\ disk = saved.content
        /\ Writing => model.version < queue[1].version
        /\ Deleting => model.version < saved.version
    BY <1>a, <1>b DEF IInv, BackupFits, Agreed
  <2>2. Writing => 1 \in Ops /\ queue[1].version <= saved.version
    BY <1>a DEF IInv, Queued, Captured, Writes, Writing, Ops
  <2> QED BY <1>a, <1>b, <2>1, <2>2, Numbers DEF Recovered
<1>1. Typed'
  BY <1>a, <1>b
  DEF IInv, copyVars, ioVars, shutdownVars, restoreVars, historyVars,
      Typed, TypeOK, NothingSaved
<1>2. Queued'
  BY <1>a, <1>b
  DEF IInv, copyVars, ioVars, shutdownVars, restoreVars, historyVars,
      Queued, Ops
<1>3. Tokens'
  BY <1>a, <1>b
  DEF IInv, copyVars, ioVars, shutdownVars, restoreVars, historyVars,
      Tokens, Ops, LiveOps, Agreed
<1>4. PendingFits'
  BY <1>a, <1>b
  DEF IInv, copyVars, ioVars, shutdownVars, restoreVars, historyVars,
      PendingFits, Open, Modified, Suspended, Lapse
<1>5. CopyFits'
  BY <1>a, <1>b
  DEF IInv, copyVars, ioVars, shutdownVars, restoreVars, historyVars,
      CopyFits, Open, Agreed
<1>6. Captured'
  BY <1>a, <1>b
  DEF IInv, copyVars, ioVars, shutdownVars, restoreVars, historyVars,
      Captured, Ops, Writes, Open
<1>7. BackupFits'
  BY <1>a, <1>b
  DEF IInv, copyVars, ioVars, shutdownVars, restoreVars, historyVars,
      BackupFits, Ops, Writes, Writing, Deleting, Open, Modified, Lapse, Agreed
<1>8. NothingLeft'
  BY <1>a, <1>b
  DEF IInv, copyVars, ioVars, shutdownVars, restoreVars, historyVars,
      NothingLeft, Writing, Open, Modified, Lapse
<1>9. NothingMissing'
  BY <1>a, <1>b
  DEF IInv, copyVars, ioVars, shutdownVars, restoreVars, historyVars,
      NothingMissing, Open, Modified, Lapse, HasBackup, Agreed
<1>10. Remembered'
  BY <1>a, <1>b
  DEF IInv, copyVars, ioVars, shutdownVars, restoreVars, historyVars,
      Remembered, Open, Modified, Handling, Discarding
<1>11. Agreement'
  BY <1>a, <1>b, <1>c, <1>d
  DEF IInv, copyVars, ioVars, shutdownVars, restoreVars,
      historyVars, Agreement, Ops, Writing, Deleting, Lapse, Recovered, Agreed
<1> QED BY <1>1, <1>2, <1>3, <1>4, <1>5, <1>6, <1>7, <1>8, <1>9, <1>10, <1>11 DEF IInv

LEMMA EditKeeps ==
  ASSUME IInv, Edit
  PROVE  IInv'
<1> DEFINE c == used'.contents
<1>a. /\ used' \in UsedType /\ c \in Contents /\ used.contents \in Nat
      /\ Open /\ NewContent(c, TRUE) /\ Remember(c) /\ Schedule
      /\ UNCHANGED <<file, running, model, disk, shutdownVars, restoreVars>>
  <2>1. Use("contents", MaxContents)
    BY DEF Edit
  <2>2. /\ used' \in UsedType
        /\ used["contents"] \in Nat /\ used["contents"] < MaxContents
        /\ used'["contents"] = used["contents"] + 1
    BY <2>1, UseProperties, ConstantsAssumption DEF IInv
  <2> QED BY <2>2, ContentsFacts DEF Edit
<1> HIDE DEF c
<1>b. /\ copy' \in CopyType
      /\ copy'.status = copy.status /\ copy'.content = c /\ copy'.modified
      /\ version' = version + 1 /\ version \in Nat
      /\ Open' /\ Modified'
  <2>1. /\ copy' \in CopyType
        /\ copy'.status = copy.status /\ copy'.content = c /\ copy'.modified = TRUE
        /\ version' = version + 1 /\ version \in Nat
    BY <1>a, NewContentProperties DEF IInv
  <2> QED BY <1>a, <2>1 DEF Open, Modified
<1>c. since \subseteq since' /\ (shutdown # "none" => c \in since')
      /\ since' \subseteq since \cup {c}
  BY <1>a DEF Remember
<1>d. /\ Suspended => pending' = pending /\ lapses' = lapses \cup {"missing"}
      /\ ~Suspended => pending' = Scheduled /\ lapses' = (lapses \ {"missing"}) \cup LateBy
      /\ Len(queue') = Len(queue) /\ Ops' = Ops /\ Writes' = Writes
      /\ \A i \in Ops :
           /\ queue'[i].kind = queue[i].kind /\ queue'[i].content = queue[i].content
           /\ queue'[i].version = queue[i].version /\ queue'[i].by = queue[i].by
           /\ queue'[i].live => queue[i].live
           /\ queue[i].live /\ queue[i].by # "tracker" => queue'[i].live
      /\ LiveOps("shutdown")' = LiveOps("shutdown") /\ LiveOps("nobody")' = LiveOps("nobody")
      /\ LiveOps("tracker")' = {}
      /\ Writing' = Writing /\ Deleting' = Deleting
  BY <1>a, ScheduleProperties, Schedules DEF IInv
<1>1. Typed'
  <2>1. /\ queue' \in Seq(OperationType) /\ pending' \in PendingType /\ lapses' \subseteq Lapses
    BY ScheduleProperties DEF IInv, Edit
  <2>2. since' \subseteq Contents
    BY <1>a, <1>c, Numbers
  <2> QED BY <1>a, <1>b, <1>c, <1>d, <2>1, <2>2
       DEF IInv, Typed, TypeOK, CopyType, PendingType, UsedType, shutdownVars, restoreVars
<1>2. Queued'
  BY <1>a, <1>b, <1>c, <1>d
  DEF IInv, copyVars, ioVars, shutdownVars, restoreVars,
      historyVars, Queued, Ops
<1>3. Tokens'
  BY <1>a, <1>b, <1>c, <1>d
  DEF IInv, copyVars, ioVars, shutdownVars, restoreVars,
      historyVars, Tokens, Ops, LiveOps, Agreed, Scheduled, PendingFits, Idle
<1>4. PendingFits'
  BY <1>a, <1>b, <1>c, <1>d
  DEF IInv, copyVars, ioVars, shutdownVars, restoreVars,
      historyVars, PendingFits, Open, Modified, Suspended, Lapse, LateBy, Scheduled, Idle
<1>5. CopyFits'
  BY <1>a, <1>b, <1>c, <1>d
  DEF IInv, copyVars, ioVars, shutdownVars, restoreVars,
      historyVars, CopyFits, Open, Agreed
<1>6. Captured'
  <2>1. /\ \A i \in Writes :
             /\ i \in Ops /\ queue[i].version <= version' /\ queue[i].version # version'
             /\ queue[i].content \in Contents
        /\ shutdown = "capture" => saved.version <= version' /\ saved.version # version'
    BY <1>a, <1>b, Numbers DEF IInv, Captured, Writes
  <2>2. \A i, j \in Writes : i < j =>
          /\ queue[i].version <= queue[j].version
          /\ queue[i].version = queue[j].version => queue[i].content = queue[j].content
    BY DEF IInv, Captured
  <2>3. shutdown = "capture" =>
          /\ saved.content \in Contents /\ saved.content \in since
          /\ \A i \in Writes :
               /\ queue[i].version <= saved.version
               /\ queue[i].version = saved.version => queue[i].content = saved.content
    BY DEF IInv, Captured
  <2> QED BY <1>a, <1>b, <1>c, <1>d, <2>1, <2>2, <2>3 DEF Captured, shutdownVars
<1>7. BackupFits'
  <2>1. Lapse("leftover")' => Lapse("leftover")
    BY <1>d DEF Lapse, LateBy
  <2>2. Lapse("leftover") => Lapse("leftover")'
    BY <1>d DEF Lapse, LateBy
  <2>3. ASSUME ~Lapse("leftover"), model.exists
        PROVE  /\ model.version <= version' /\ model.version # version' /\ model.version < version'
               /\ \A i \in Writes :
                    /\ i \in Ops /\ model.version <= queue[i].version
                    /\ model.version = queue[i].version => disk = queue[i].content
               /\ shutdown = "capture" =>
                    /\ model.version <= saved.version
                    /\ model.version = saved.version => disk = saved.content
               /\ Writing => model.version < queue[1].version /\ 1 \in Ops
               /\ Deleting /\ shutdown = "capture" => model.version < saved.version
    BY <1>a, <1>b, <2>3, Numbers DEF IInv, BackupFits, NothingLeft, Agreed, Queued, Writes, Writing, Ops
  <2> QED BY <1>a, <1>b, <1>d, <2>1, <2>2, <2>3 DEF IInv, BackupFits, shutdownVars
<1>8. NothingLeft'
  BY <1>a, <1>b, <1>c, <1>d
  DEF IInv, copyVars, ioVars, shutdownVars, restoreVars,
      historyVars, NothingLeft, Writing, Open, Modified, Lapse
<1>9. NothingMissing'
  BY <1>a, <1>b, <1>c, <1>d
  DEF IInv, copyVars, ioVars, shutdownVars, restoreVars,
      historyVars, NothingMissing, Open, Modified, Lapse, HasBackup, Agreed, LateBy, Suspended,
      Scheduled
<1>10. Remembered'
  BY <1>a, <1>b, <1>c, <1>d
  DEF IInv, copyVars, ioVars, shutdownVars, restoreVars,
      historyVars, Remembered, Open, Modified, Handling, Discarding
<1>11. Agreement'
  BY <1>a, <1>b, <1>c, <1>d
  DEF IInv, copyVars, ioVars, shutdownVars, restoreVars,
      historyVars, Agreement, Ops, Writing, Deleting, Lapse, Recovered, Agreed, Suspended,
      LateBy
<1> QED BY <1>1, <1>2, <1>3, <1>4, <1>5, <1>6, <1>7, <1>8, <1>9, <1>10, <1>11 DEF IInv

LEMMA BackToSavedSuspended ==
  ASSUME IInv, BackToSaved, Suspended
  PROVE  IInv'
<1>a. /\ Modified /\ file \in Contents /\ NewContent(file, FALSE) /\ Remember(file) /\ Discard /\ Suspended
      /\ UNCHANGED <<file, running, model, disk, shutdownVars, restoreVars, used>>
  BY Numbers DEF BackToSaved
<1>b. /\ copy' \in CopyType
      /\ copy'.status = copy.status /\ copy'.content = file /\ ~copy'.modified
      /\ version' = version + 1 /\ version \in Nat
      /\ Open /\ Open' /\ ~Modified'
  <2>1. /\ copy' \in CopyType
        /\ copy'.status = copy.status /\ copy'.content = file /\ copy'.modified = FALSE
        /\ version' = version + 1 /\ version \in Nat
    BY <1>a, NewContentProperties DEF IInv
  <2> QED BY <1>a, <2>1 DEF Open, Modified
<1>c. since \subseteq since' /\ (shutdown # "none" => file \in since') /\ since' \subseteq since \cup {file}
  BY <1>a DEF Remember
<1>d. queue' = queue /\ pending' = pending /\ lapses' = lapses \cup {"leftover"} /\ pending = Idle
  BY <1>a, DiscardProperties DEF IInv, PendingFits
<1>1. Typed'
  <2>1. queue' \in Seq(OperationType) /\ pending' \in PendingType /\ lapses' \subseteq Lapses
    BY <1>a, DiscardProperties DEF IInv
  <2> QED BY <1>a, <1>b, <1>c, <2>1
       DEF IInv, Typed, TypeOK, CopyType, PendingType, copyVars, shutdownVars, restoreVars
<1>2. Queued'
  BY <1>a, <1>b, <1>c, <1>d
  DEF IInv, copyVars, ioVars, shutdownVars, restoreVars,
      historyVars, Queued, Ops, Open
<1>3. Tokens'
  BY <1>a, <1>b, <1>c, <1>d
  DEF IInv, copyVars, ioVars, shutdownVars, restoreVars,
      historyVars, Tokens, Ops, LiveOps, Agreed, Idle
<1>4. PendingFits'
  BY <1>a, <1>b, <1>c, <1>d
  DEF IInv, copyVars, ioVars, shutdownVars, restoreVars,
      historyVars, PendingFits, Open, Modified, Suspended, Lapse, Idle
<1>5. CopyFits'
  BY <1>a, <1>b, <1>c, <1>d
  DEF IInv, copyVars, ioVars, shutdownVars, restoreVars,
      historyVars, CopyFits, Open, Agreed
<1>6. Captured'
  BY <1>a, <1>b, <1>c, <1>d, Numbers
  DEF IInv, copyVars, ioVars, shutdownVars,
      restoreVars, historyVars, Captured, Ops, Writes, Open
<1>7. BackupFits'
  BY <1>a, <1>b, <1>c, <1>d, Numbers
  DEF IInv, copyVars, ioVars, shutdownVars,
      restoreVars, historyVars, BackupFits, Ops, Writes, Writing, Deleting, Open, Modified,
      Lapse, Agreed
<1>8. NothingLeft'
  BY <1>a, <1>b, <1>c, <1>d
  DEF IInv, copyVars, ioVars, shutdownVars, restoreVars,
      historyVars, NothingLeft, Writing, Open, Modified, Lapse
<1>9. NothingMissing'
  BY <1>a, <1>b, <1>c, <1>d
  DEF IInv, copyVars, ioVars, shutdownVars, restoreVars,
      historyVars, NothingMissing, Open, Modified, Lapse, HasBackup, Agreed
<1>10. Remembered'
  BY <1>a, <1>b, <1>c, <1>d
  DEF IInv, copyVars, ioVars, shutdownVars, restoreVars,
      historyVars, Remembered, Open, Modified, Handling, Discarding
<1>11. Agreement'
  BY <1>a, <1>b, <1>c, <1>d
  DEF IInv, copyVars, ioVars, shutdownVars, restoreVars,
      historyVars, Agreement, Ops, Writing, Deleting, Lapse, Recovered, Agreed, Suspended
<1> QED BY <1>1, <1>2, <1>3, <1>4, <1>5, <1>6, <1>7, <1>8, <1>9, <1>10, <1>11 DEF IInv

LEMMA BackToSavedWorking ==
  ASSUME IInv, BackToSaved, ~Suspended
  PROVE  IInv'
<1>a. /\ Modified /\ file \in Contents /\ NewContent(file, FALSE) /\ Remember(file) /\ Discard /\ ~Suspended
      /\ UNCHANGED <<file, running, model, disk, shutdownVars, restoreVars, used>>
  BY Numbers DEF BackToSaved
<1>b. /\ copy' \in CopyType
      /\ copy'.status = copy.status /\ copy'.content = file /\ ~copy'.modified
      /\ version' = version + 1 /\ version \in Nat
      /\ Open /\ Open' /\ ~Modified'
  <2>1. /\ copy' \in CopyType
        /\ copy'.status = copy.status /\ copy'.content = file /\ copy'.modified = FALSE
        /\ version' = version + 1 /\ version \in Nat
    BY <1>a, NewContentProperties DEF IInv
  <2> QED BY <1>a, <2>1 DEF Open, Modified
<1>c. since \subseteq since' /\ (shutdown # "none" => file \in since') /\ since' \subseteq since \cup {file}
  BY <1>a DEF Remember
<1> DEFINE n == Len(queue) + 1
<1> HIDE DEF n
<1>d. /\ pending'.kind = "discard" /\ pending'.phase = "io" /\ lapses' = (lapses \ {"missing"}) \cup LateBy
      /\ Len(queue') = n /\ n \in Nat /\ n >= 1
      /\ Ops' = Ops \cup {n} /\ n \notin Ops /\ Writes' = Writes
      /\ \A i \in Ops :
           /\ queue'[i].kind = queue[i].kind /\ queue'[i].content = queue[i].content
           /\ queue'[i].version = queue[i].version /\ queue'[i].by = queue[i].by
           /\ queue'[i].live => queue[i].live
           /\ queue[i].live /\ queue[i].by # "tracker" => queue'[i].live
           /\ i < n /\ i # n
      /\ queue'[n].kind = "delete" /\ queue'[n].by = "tracker" /\ queue'[n].live
      /\ LiveOps("shutdown")' = LiveOps("shutdown") /\ LiveOps("nobody")' = LiveOps("nobody")
      /\ LiveOps("tracker")' = {n}
      /\ Writing' = Writing /\ Deleting' = Deleting /\ (running => 1 \in Ops)
  BY <1>a, Discards DEF n
<1>1. Typed'
  <2>1. queue' \in Seq(OperationType) /\ pending' \in PendingType /\ lapses' \subseteq Lapses
    BY <1>a, DiscardProperties DEF IInv
  <2> QED BY <1>a, <1>b, <1>c, <2>1
       DEF IInv, Typed, TypeOK, CopyType, PendingType, copyVars, shutdownVars, restoreVars
<1>2. Queued'
  BY <1>a, <1>b, <1>c, <1>d
  DEF IInv, copyVars, ioVars, shutdownVars, restoreVars,
      historyVars, Queued, Ops, Open
<1>3. Tokens'
  BY <1>a, <1>b, <1>c, <1>d
  DEF IInv, copyVars, ioVars, shutdownVars, restoreVars,
      historyVars, Tokens, Ops, LiveOps, Agreed
<1>4. PendingFits'
  BY <1>a, <1>b, <1>c, <1>d
  DEF IInv, copyVars, ioVars, shutdownVars, restoreVars,
      historyVars, PendingFits, Open, Modified, Suspended, Lapse, LateBy
<1>5. CopyFits'
  BY <1>a, <1>b, <1>c, <1>d
  DEF IInv, copyVars, ioVars, shutdownVars, restoreVars,
      historyVars, CopyFits, Open, Agreed
<1>6. Captured'
  <2>1. /\ \A i \in Writes :
             /\ i \in Ops /\ queue[i].version <= version' /\ queue[i].version # version'
             /\ queue[i].content \in Contents
        /\ shutdown = "capture" => saved.version <= version' /\ saved.version # version'
    BY <1>a, <1>b, Numbers DEF IInv, Captured, Writes
  <2>2. \A i, j \in Writes : i < j =>
          /\ queue[i].version <= queue[j].version
          /\ queue[i].version = queue[j].version => queue[i].content = queue[j].content
    BY DEF IInv, Captured
  <2>3. shutdown = "capture" =>
          /\ saved.content \in Contents /\ saved.content \in since
          /\ \A i \in Writes :
               /\ queue[i].version <= saved.version
               /\ queue[i].version = saved.version => queue[i].content = saved.content
    BY DEF IInv, Captured
  <2> QED BY <1>a, <1>b, <1>c, <1>d, <2>1, <2>2, <2>3 DEF Captured, shutdownVars
<1>7. BackupFits'
  <2>1. /\ model' = model /\ disk' = disk /\ saved' = saved /\ ~Modified'
        /\ shutdown # "capture" /\ shutdown' = shutdown /\ (Writing => 1 \in Ops)
    BY <1>a, <1>b, <1>d DEF Suspended, shutdownVars, Writing
  <2>2. Lapse("leftover") => Lapse("leftover")'
    BY <1>a, <1>d DEF Lapse, LateBy
  <2>3. ASSUME ~Lapse("leftover"), model.exists
        PROVE  /\ model.version < version' /\ model.version # version' /\ model.version <= version'
               /\ \A i \in Writes :
                    /\ i \in Ops /\ model.version <= queue[i].version
                    /\ model.version = queue[i].version => disk = queue[i].content
               /\ Writing => model.version < queue[1].version
    BY <1>a, <1>b, <2>3, Numbers DEF IInv, BackupFits, Modified, Writes
  <2>4. /\ ~model.exists => disk \notin Contents
        /\ Writing /\ ~Lapse("leftover") => disk = Corrupt
    BY DEF IInv, BackupFits
  <2> QED BY <1>d, <2>1, <2>2, <2>3, <2>4 DEF BackupFits
<1>8. NothingLeft'
  BY <1>a, <1>b, <1>c, <1>d
  DEF IInv, copyVars, ioVars, shutdownVars, restoreVars,
      historyVars, NothingLeft, Writing, Open, Modified, Lapse, Suspended
<1>9. NothingMissing'
  BY <1>a, <1>b, <1>c, <1>d
  DEF IInv, copyVars, ioVars, shutdownVars, restoreVars,
      historyVars, NothingMissing, Open, Modified, Lapse, HasBackup, Agreed
<1>10. Remembered'
  BY <1>a, <1>b, <1>c, <1>d
  DEF IInv, copyVars, ioVars, shutdownVars, restoreVars,
      historyVars, Remembered, Open, Modified, Handling, Discarding
<1>11. Agreement'
  BY <1>a, <1>b, <1>c, <1>d
  DEF IInv, copyVars, ioVars, shutdownVars, restoreVars,
      historyVars, Agreement, Ops, Writing, Deleting, Lapse, Recovered, Agreed, LateBy,
      Suspended
<1> QED BY <1>1, <1>2, <1>3, <1>4, <1>5, <1>6, <1>7, <1>8, <1>9, <1>10, <1>11 DEF IInv

LEMMA SaveSuspended ==
  ASSUME IInv, Save, Suspended
  PROVE  IInv'
<1>a. /\ Modified /\ Discard /\ Suspended /\ file' = copy.content /\ running' = running
      /\ UNCHANGED <<version, running, model, disk, shutdownVars, restoreVars, since, used>>
  BY DEF Save
<1>b. /\ copy' \in CopyType
      /\ copy'.status = copy.status /\ copy'.content = copy.content /\ ~copy'.modified
      /\ Open /\ Open' /\ ~Modified' /\ copy.content \in Contents
  BY <1>a DEF IInv, Save, Typed, TypeOK, CopyType, CopyFits, Open, Modified
<1>d. queue' = queue /\ pending' = pending /\ lapses' = lapses \cup {"leftover"} /\ pending = Idle
  BY <1>a, DiscardProperties DEF IInv, PendingFits
<1>1. Typed'
  <2>1. queue' \in Seq(OperationType) /\ pending' \in PendingType /\ lapses' \subseteq Lapses
    BY <1>a, DiscardProperties DEF IInv
  <2> QED BY <1>a, <1>b, <2>1
       DEF IInv, Typed, TypeOK, CopyType, PendingType, copyVars, shutdownVars, restoreVars
<1>2. Queued'
  BY <1>a, <1>b, <1>d
  DEF IInv, copyVars, ioVars, shutdownVars, restoreVars, historyVars,
      Queued, Ops, Open
<1>3. Tokens'
  BY <1>a, <1>b, <1>d
  DEF IInv, copyVars, ioVars, shutdownVars, restoreVars, historyVars,
      Tokens, Ops, LiveOps, Agreed
<1>4. PendingFits'
  BY <1>a, <1>b, <1>d
  DEF IInv, copyVars, ioVars, shutdownVars, restoreVars, historyVars,
      PendingFits, Open, Modified, Suspended, Lapse, Idle
<1>5. CopyFits'
  BY <1>a, <1>b, <1>d
  DEF IInv, copyVars, ioVars, shutdownVars, restoreVars, historyVars,
      CopyFits, Open, Agreed
<1>6. Captured'
  BY <1>a, <1>b, <1>d
  DEF IInv, copyVars, ioVars, shutdownVars, restoreVars, historyVars,
      Captured, Ops, Writes, Open
<1>7. BackupFits'
  BY <1>a, <1>b, <1>d
  DEF IInv, copyVars, ioVars, shutdownVars, restoreVars, historyVars,
      BackupFits, Ops, Writes, Writing, Deleting, Open, Modified, Lapse, Agreed
<1>8. NothingLeft'
  BY <1>a, <1>b, <1>d
  DEF IInv, copyVars, ioVars, shutdownVars, restoreVars, historyVars,
      NothingLeft, Writing, Open, Modified, Lapse
<1>9. NothingMissing'
  BY <1>a, <1>b, <1>d
  DEF IInv, copyVars, ioVars, shutdownVars, restoreVars, historyVars,
      NothingMissing, Open, Modified, Lapse, HasBackup, Agreed
<1>10. Remembered'
  BY <1>a, <1>b, <1>d
  DEF IInv, copyVars, ioVars, shutdownVars, restoreVars, historyVars,
      Remembered, Open, Modified, Handling, Discarding
<1>11. Agreement'
  BY <1>a, <1>b, <1>d, ContentsFacts
  DEF IInv, copyVars, ioVars, shutdownVars,
      restoreVars, historyVars, Agreement, Ops, Writing, Deleting, Lapse, Recovered, Agreed,
      Suspended, Remembered
<1> QED BY <1>1, <1>2, <1>3, <1>4, <1>5, <1>6, <1>7, <1>8, <1>9, <1>10, <1>11 DEF IInv

LEMMA SaveWorking ==
  ASSUME IInv, Save, ~Suspended
  PROVE  IInv'
<1>a. /\ Modified /\ Discard /\ ~Suspended /\ file' = copy.content /\ running' = running
      /\ UNCHANGED <<version, running, model, disk, shutdownVars, restoreVars, since, used>>
  BY DEF Save
<1>b. /\ copy' \in CopyType
      /\ copy'.status = copy.status /\ copy'.content = copy.content /\ ~copy'.modified
      /\ Open /\ Open' /\ ~Modified' /\ copy.content \in Contents
  BY <1>a DEF IInv, Save, Typed, TypeOK, CopyType, CopyFits, Open, Modified
<1> DEFINE n == Len(queue) + 1
<1> HIDE DEF n
<1>d. /\ pending'.kind = "discard" /\ pending'.phase = "io" /\ lapses' = (lapses \ {"missing"}) \cup LateBy
      /\ Len(queue') = n /\ n \in Nat /\ n >= 1
      /\ Ops' = Ops \cup {n} /\ n \notin Ops /\ Writes' = Writes
      /\ \A i \in Ops :
           /\ queue'[i].kind = queue[i].kind /\ queue'[i].content = queue[i].content
           /\ queue'[i].version = queue[i].version /\ queue'[i].by = queue[i].by
           /\ queue'[i].live => queue[i].live
           /\ queue[i].live /\ queue[i].by # "tracker" => queue'[i].live
           /\ i < n /\ i # n
      /\ queue'[n].kind = "delete" /\ queue'[n].by = "tracker" /\ queue'[n].live
      /\ LiveOps("shutdown")' = LiveOps("shutdown") /\ LiveOps("nobody")' = LiveOps("nobody")
      /\ LiveOps("tracker")' = {n}
      /\ Writing' = Writing /\ Deleting' = Deleting /\ (running => 1 \in Ops)
  BY <1>a, Discards DEF n
<1>1. Typed'
  <2>1. queue' \in Seq(OperationType) /\ pending' \in PendingType /\ lapses' \subseteq Lapses
    BY <1>a, DiscardProperties DEF IInv
  <2> QED BY <1>a, <1>b, <2>1
       DEF IInv, Typed, TypeOK, CopyType, PendingType, copyVars, shutdownVars, restoreVars
<1>2. Queued'
  BY <1>a, <1>b, <1>d
  DEF IInv, copyVars, ioVars, shutdownVars, restoreVars, historyVars,
      Queued, Ops, Open
<1>3. Tokens'
  <2>1. shutdown' = shutdown /\ since' = since
    BY <1>a DEF shutdownVars
  <2>2. \A i \in LiveOps("shutdown") : queue'[i].kind = queue[i].kind /\ queue'[i].content = queue[i].content
    BY <1>d DEF LiveOps
  <2>3. \A i \in LiveOps("tracker")' : i = n /\ queue'[i].kind = "delete"
    BY <1>d
  <2>4. \A i \in LiveOps("shutdown")' :
          /\ queue'[i].kind = "write" => shutdown' = "backup" /\ queue'[i].content \in since'
          /\ queue'[i].kind = "delete" => shutdown' = "discard"
    BY <1>d, <2>1, <2>2 DEF IInv, Tokens
  <2>5. \A i, j \in LiveOps("shutdown")' : i = j
    BY <1>d DEF IInv, Tokens
  <2>6. \A i \in LiveOps("nobody")' : shutdown' \in Agreed
    BY <1>d, <2>1 DEF IInv, Tokens
  <2>7. pending'.phase = "io" /\ pending'.kind = "discard" /\ LiveOps("tracker")' # {}
    BY <1>d
  <2> QED BY <2>3, <2>4, <2>5, <2>6, <2>7 DEF Tokens, Agreed
<1>4. PendingFits'
  BY <1>a, <1>b, <1>d
  DEF IInv, copyVars, ioVars, shutdownVars, restoreVars, historyVars,
      PendingFits, Open, Modified, Suspended, Lapse, LateBy
<1>5. CopyFits'
  BY <1>a, <1>b, <1>d
  DEF IInv, copyVars, ioVars, shutdownVars, restoreVars, historyVars,
      CopyFits, Open, Agreed
<1>6. Captured'
  BY <1>a, <1>b, <1>d
  DEF IInv, copyVars, ioVars, shutdownVars, restoreVars, historyVars,
      Captured, Ops, Writes, Open, Suspended
<1>7. BackupFits'
  BY <1>a, <1>b, <1>d
  DEF IInv, copyVars, ioVars, shutdownVars, restoreVars, historyVars,
      BackupFits, Ops, Writes, Writing, Deleting, Open, Modified, Lapse, Agreed, Suspended
<1>8. NothingLeft'
  BY <1>a, <1>b, <1>d
  DEF IInv, copyVars, ioVars, shutdownVars, restoreVars, historyVars,
      NothingLeft, Writing, Open, Modified, Lapse, Suspended
<1>9. NothingMissing'
  BY <1>a, <1>b, <1>d
  DEF IInv, copyVars, ioVars, shutdownVars, restoreVars, historyVars,
      NothingMissing, Open, Modified, Lapse, HasBackup, Agreed
<1>10. Remembered'
  BY <1>a, <1>b, <1>d
  DEF IInv, copyVars, ioVars, shutdownVars, restoreVars, historyVars,
      Remembered, Open, Modified, Handling, Discarding
<1>11. Agreement'
  BY <1>a, <1>b, <1>d
  DEF IInv, copyVars, ioVars, shutdownVars, restoreVars, historyVars,
      Agreement, Ops, Writing, Deleting, Lapse, Recovered, Agreed, LateBy, Suspended
<1> QED BY <1>1, <1>2, <1>3, <1>4, <1>5, <1>6, <1>7, <1>8, <1>9, <1>10, <1>11 DEF IInv

LEMMA CloseKeeps ==
  ASSUME IInv, Close
  PROVE  IInv'
<1>a. /\ Open /\ ~Modified /\ Discard /\ ~Suspended /\ version' = 0 /\ running' = running
      /\ UNCHANGED <<file, running, model, disk, shutdownVars, restoreVars, since, used>>
  BY DEF Close, Modified
<1>b. copy' \in CopyType /\ copy'.status = "closed" /\ ~Open' /\ ~Modified'
  <2>1. copy' = [status |-> "closed", content |-> None, modified |-> FALSE]
    BY DEF Close
  <2> QED BY <2>1 DEF CopyType, Open, Modified
<1> DEFINE n == Len(queue) + 1
<1> HIDE DEF n
<1>d. /\ pending'.kind = "discard" /\ pending'.phase = "io" /\ lapses' = (lapses \ {"missing"}) \cup LateBy
      /\ Len(queue') = n /\ n \in Nat /\ n >= 1
      /\ Ops' = Ops \cup {n} /\ n \notin Ops /\ Writes' = Writes
      /\ \A i \in Ops :
           /\ queue'[i].kind = queue[i].kind /\ queue'[i].content = queue[i].content
           /\ queue'[i].version = queue[i].version /\ queue'[i].by = queue[i].by
           /\ queue'[i].live => queue[i].live
           /\ queue[i].live /\ queue[i].by # "tracker" => queue'[i].live
           /\ i < n /\ i # n
      /\ queue'[n].kind = "delete" /\ queue'[n].by = "tracker" /\ queue'[n].live
      /\ LiveOps("shutdown")' = LiveOps("shutdown") /\ LiveOps("nobody")' = LiveOps("nobody")
      /\ LiveOps("tracker")' = {n}
      /\ Writing' = Writing /\ Deleting' = Deleting /\ (running => 1 \in Ops)
  BY <1>a, Discards DEF n
<1>1. Typed'
  <2>1. queue' \in Seq(OperationType) /\ pending' \in PendingType /\ lapses' \subseteq Lapses
    BY <1>a, DiscardProperties DEF IInv
  <2> QED BY <1>a, <1>b, <2>1
       DEF IInv, Typed, TypeOK, CopyType, PendingType, copyVars, shutdownVars, restoreVars
<1>2. Queued'
  BY <1>a, <1>b, <1>d
  DEF IInv, copyVars, ioVars, shutdownVars, restoreVars, historyVars,
      Queued, Ops, Open
<1>3. Tokens'
  BY <1>a, <1>b, <1>d
  DEF IInv, copyVars, ioVars, shutdownVars, restoreVars, historyVars,
      Tokens, Ops, LiveOps, Agreed, Suspended
<1>4. PendingFits'
  BY <1>a, <1>b, <1>d
  DEF IInv, copyVars, ioVars, shutdownVars, restoreVars, historyVars,
      PendingFits, Open, Modified, Suspended, Lapse, LateBy
<1>5. CopyFits'
  BY <1>a, <1>b, <1>d
  DEF IInv, copyVars, ioVars, shutdownVars, restoreVars, historyVars,
      CopyFits, Open, Agreed, Suspended
<1>6. Captured'
  BY <1>a, <1>b, <1>d
  DEF IInv, copyVars, ioVars, shutdownVars, restoreVars, historyVars,
      Captured, Ops, Writes, Open, Suspended
<1>7. BackupFits'
  BY <1>a, <1>b, <1>d
  DEF IInv, copyVars, ioVars, shutdownVars, restoreVars, historyVars,
      BackupFits, Ops, Writes, Writing, Deleting, Open, Modified, Lapse, Agreed, Suspended
<1>8. NothingLeft'
  BY <1>a, <1>b, <1>d
  DEF IInv, copyVars, ioVars, shutdownVars, restoreVars, historyVars,
      NothingLeft, Writing, Open, Modified, Lapse, Suspended
<1>9. NothingMissing'
  BY <1>a, <1>b, <1>d
  DEF IInv, copyVars, ioVars, shutdownVars, restoreVars, historyVars,
      NothingMissing, Open, Modified, Lapse, HasBackup, Agreed
<1>10. Remembered'
  BY <1>a, <1>b, <1>d
  DEF IInv, copyVars, ioVars, shutdownVars, restoreVars, historyVars,
      Remembered, Open, Modified, Handling, Discarding, Suspended, Agreed
<1>11. Agreement'
  BY <1>a, <1>b, <1>d
  DEF IInv, copyVars, ioVars, shutdownVars, restoreVars, historyVars,
      Agreement, Ops, Writing, Deleting, Lapse, Recovered, Agreed, LateBy, Suspended
<1> QED BY <1>1, <1>2, <1>3, <1>4, <1>5, <1>6, <1>7, <1>8, <1>9, <1>10, <1>11 DEF IInv

LEMMA SkipOperationKeeps ==
  ASSUME IInv, SkipOperation
  PROVE  IInv'
<1>a. /\ queue # <<>> /\ ~running /\ queue[1] = Head(queue) /\ queue[1].kind # "read"
      /\ queue[1].live => queue[1].kind = "write" /\ HasBackup(queue[1].version)
  BY HeadOfQueue DEF SkipOperation
<1>b. /\ Settles(Head(queue), "agreed")
      /\ UNCHANGED <<copyVars, model, disk, restoreVars, historyVars, used>>
  BY DEF SkipOperation
<1>c. UNCHANGED <<copyVars, since>> /\ (Lapse("late")' <=> Lapse("late"))
  BY <1>b DEF historyVars, Lapse
<1>e. /\ Len(queue) >= 1 /\ 1 \in Ops /\ Head(queue) = queue[1]
      /\ queue' \in Seq(OperationType) /\ pending' \in PendingType
      /\ running' = FALSE /\ saved' = saved /\ ~Writing' /\ ~Deleting'
      /\ \A i \in Ops' : i + 1 \in Ops /\ queue'[i] = queue[i + 1] /\ 1 < i + 1
      /\ \A i \in Writes' : i + 1 \in Writes /\ queue'[i] = queue[i + 1] /\ 1 < i + 1
      /\ queue[1].by = "tracker" /\ queue[1].live => pending' = Idle /\ shutdown' = shutdown
      /\ queue[1].by = "shutdown" /\ queue[1].live => pending' = pending /\ shutdown' = "agreed"
      /\ ~queue[1].live \/ queue[1].by \in {"copy", "nobody"} =>
           pending' = pending /\ shutdown' = shutdown
      /\ Queued' /\ Tokens' /\ PendingFits' /\ CopyFits' /\ Captured' /\ Remembered'
  BY <1>a, <1>b, <1>c, Settling
<1>f. queue[1].by \in {"tracker", "shutdown", "nobody"} /\ queue[1].live \in BOOLEAN
  BY <1>a, <1>e, Positions, Fields DEF IInv, Queued
<1>g. queue[1].live =>
        /\ model.exists /\ model.version = queue[1].version /\ 1 \in Writes
        /\ queue[1].by = "tracker" => Modified /\ queue[1].version = version
        /\ queue[1].by = "shutdown" => shutdown = "backup" /\ queue[1].content \in since
        /\ queue[1].by # "nobody"
  BY <1>a, <1>e, <1>f DEF HasBackup, Writes, IInv, Tokens, LiveOps, PendingFits, Queued
<1>1. Typed'
  <2>1. shutdown' \in {shutdown, "agreed", "error"}
    BY <1>e, <1>f
  <2>2. /\ model' \in [exists : BOOLEAN, version : Nat] /\ disk' \in Contents \cup {None, Corrupt}
        /\ lapses' \subseteq Lapses /\ used' \in UsedType
    BY <1>b DEF IInv, Typed, TypeOK, UsedType, historyVars
  <2> QED BY <1>b, <1>c, <1>e, <2>1, <2>2, SettledTypes
<1>2. BackupFits'
  BY <1>b, <1>e, <1>f
  DEF IInv, BackupFits, Open, Modified, Lapse, Agreed, copyVars, historyVars
<1>3. NothingLeft'
  BY <1>b, <1>e, <1>f, <1>g DEF IInv, NothingLeft, Open, Modified, Lapse, copyVars, historyVars
<1>4. NothingMissing'
  BY <1>b, <1>e, <1>f, <1>g
  DEF IInv, NothingMissing, HasBackup, Open, Modified, Lapse, Agreed, copyVars, historyVars
<1>5. Agreement'
  <2>1. CASE shutdown' = shutdown
    BY <1>b, <1>e, <2>1 DEF IInv, Agreement, Lapse, Recovered, Agreed, copyVars, historyVars
  <2>2. CASE shutdown' # shutdown
    <3>1. queue[1].live /\ queue[1].by = "shutdown" /\ shutdown = "backup"
      BY <1>e, <1>f, <1>g, <2>2
    <3>2. \A i \in Ops : ~(queue[i].kind = "delete" /\ queue[i].live)
      BY <3>1, LiveOperation DEF Suspended, Agreed
    <3>3. ~Lapse("leftover") => disk = queue[1].content
      BY <1>g, <3>1 DEF IInv, BackupFits, CopyFits, Agreed
    <3>4. queue[1].content \in Contents /\ queue[1].content \in since
      BY <1>g, <3>1 DEF IInv, Captured
    <3> QED BY <1>b, <1>e, <3>2, <3>3, <3>4 DEF Agreement, Lapse, Recovered, copyVars, historyVars
  <2> QED BY <2>1, <2>2
<1> QED BY <1>e, <1>1, <1>2, <1>3, <1>4, <1>5 DEF IInv

LEMMA FinishDeleteKeeps ==
  ASSUME IInv, FinishDelete
  PROVE  IInv'
<1>a. /\ queue # <<>> /\ running /\ queue[1] = Head(queue) /\ queue[1].kind = "delete"
  BY RunningHead, HeadOfQueue DEF FinishDelete
<1>b. /\ Settles(Head(queue), "agreed")
      /\ disk' = None /\ model' = [exists |-> FALSE, version |-> 0]
      /\ lapses' = IF queue[1].live THEN lapses \ {"leftover"} ELSE lapses
      /\ UNCHANGED <<copyVars, restoreVars, since, used>>
  BY <1>a DEF FinishDelete
<1>c. UNCHANGED <<copyVars, since>> /\ (Lapse("late")' <=> Lapse("late"))
  BY <1>b DEF Lapse
<1>e. /\ Len(queue) >= 1 /\ 1 \in Ops /\ Head(queue) = queue[1]
      /\ queue' \in Seq(OperationType) /\ pending' \in PendingType
      /\ running' = FALSE /\ saved' = saved /\ ~Writing' /\ ~Deleting'
      /\ \A i \in Ops' : i + 1 \in Ops /\ queue'[i] = queue[i + 1] /\ 1 < i + 1
      /\ \A i \in Writes' : i + 1 \in Writes /\ queue'[i] = queue[i + 1] /\ 1 < i + 1
      /\ queue[1].by = "tracker" /\ queue[1].live => pending' = Idle /\ shutdown' = shutdown
      /\ queue[1].by = "shutdown" /\ queue[1].live => pending' = pending /\ shutdown' = "agreed"
      /\ ~queue[1].live \/ queue[1].by \in {"copy", "nobody"} =>
           pending' = pending /\ shutdown' = shutdown
      /\ Queued' /\ Tokens' /\ PendingFits' /\ CopyFits' /\ Captured' /\ Remembered'
  BY <1>a, <1>b, <1>c, Settling
<1>f. queue[1].by \in {"tracker", "shutdown", "nobody"} /\ queue[1].live \in BOOLEAN
  BY <1>a, <1>e, Positions, Fields DEF IInv, Queued
<1>g. /\ queue[1].live /\ queue[1].by = "tracker" => ~Modified /\ ~Suspended
      /\ queue[1].live /\ queue[1].by = "shutdown" => shutdown = "discard" /\ file \in since
      /\ queue[1].live /\ queue[1].by = "nobody" => shutdown \in Agreed
  BY <1>a, <1>e, <1>f DEF IInv, Tokens, LiveOps, PendingFits, Idle, Remembered, Discarding
<1>h. model'.exists = FALSE /\ model' \in [exists : BOOLEAN, version : Nat]
  BY <1>b
<1>1. Typed'
  <2>1. shutdown' \in {shutdown, "agreed", "error"}
    BY <1>e, <1>f
  <2>2. /\ model' \in [exists : BOOLEAN, version : Nat] /\ disk' \in Contents \cup {None, Corrupt}
        /\ lapses' \subseteq Lapses /\ used' \in UsedType
    BY <1>b, <1>h DEF IInv, Typed, TypeOK, UsedType
  <2> QED BY <1>b, <1>c, <1>e, <2>1, <2>2, SettledTypes
<1>2. BackupFits'
  BY <1>b, <1>e, <1>h, ContentsFacts DEF BackupFits
<1>3. NothingLeft'
  BY <1>b, <1>e, <1>f, <1>g, <1>h
  DEF IInv, NothingLeft, Open, Modified, Suspended, Lapse, Agreed, copyVars
<1>4. NothingMissing'
  <2>1. SUFFICES ASSUME Modified', ~Lapse("missing")', ~Lapse("leftover")',
                        shutdown' \notin {"discard"} \cup Agreed
                 PROVE  pending'.kind = "backup"
    BY DEF NothingMissing, Agreed
  <2>2. Modified /\ ~queue[1].live /\ pending' = pending /\ shutdown' = shutdown
    BY <1>b, <1>e, <1>f, <1>g, <2>1 DEF Open, Modified, Agreed, copyVars
  <2>3. ~Lapse("missing") /\ ~Lapse("leftover")
    BY <1>b, <2>1, <2>2 DEF Lapse
  <2>4. Deleting /\ Open
    BY <1>a, <2>2 DEF Deleting, Modified
  <2>5. ~HasBackup(version)
    BY <2>1, <2>2, <2>3, <2>4, Numbers DEF IInv, BackupFits, HasBackup, Agreed
  <2> QED BY <2>1, <2>2, <2>3, <2>5 DEF IInv, NothingMissing, Agreed
<1>5. Agreement'
  <2>1. CASE shutdown' = shutdown
    BY <1>a, <1>b, <1>e, <2>1, ContentsFacts
    DEF IInv, Agreement, Deleting, Lapse, Recovered, Agreed, copyVars
  <2>2. CASE shutdown' # shutdown
    <3>1. shutdown = "discard" /\ file \in since
      BY <1>e, <1>f, <1>g, <2>2
    <3> QED BY <1>b, <1>e, <3>1, ContentsFacts DEF Agreement, Recovered, copyVars
  <2> QED BY <2>1, <2>2
<1> QED BY <1>e, <1>1, <1>2, <1>3, <1>4, <1>5 DEF IInv

LEMMA OperationFailsKeeps ==
  ASSUME IInv, OperationFails
  PROVE  IInv'
<1> DEFINE next == IF Head(queue).kind = "write" THEN "error" ELSE "agreed"
           missed == IF Head(queue).kind = "write" THEN "missing" ELSE "leftover"
<1>a. /\ queue # <<>> /\ running /\ queue[1] = Head(queue) /\ queue[1].kind \in {"write", "delete"}
  BY RunningHead, HeadOfQueue DEF OperationFails
<1>b. /\ Settles(Head(queue), next)
      /\ lapses' = lapses \cup UnwantedBy(queue[1]) \cup {missed}
      /\ used' \in UsedType
      /\ UNCHANGED <<copyVars, model, disk, restoreVars, since>>
  <2>1. Use("failures", MaxFailures)
    BY DEF OperationFails
  <2>2. used' \in UsedType
    BY <2>1, UseProperties, ConstantsAssumption DEF IInv
  <2> QED BY <1>a, <2>2 DEF OperationFails
<1>c. /\ UNCHANGED <<copyVars, since>> /\ (Lapse("late")' <=> Lapse("late"))
      /\ UnwantedBy(queue[1]) \subseteq {"leftover"}
      /\ next \in {"agreed", "error"} /\ (next = "error" => Head(queue).kind = "write")
  BY <1>b DEF Lapse, UnwantedBy
<1>d. /\ queue[1].kind = "write" => next = "error" /\ missed = "missing"
      /\ queue[1].kind = "delete" => next = "agreed" /\ missed = "leftover"
  BY <1>a
<1> HIDE DEF next, missed
<1>e. /\ Len(queue) >= 1 /\ 1 \in Ops /\ Head(queue) = queue[1]
      /\ queue' \in Seq(OperationType) /\ pending' \in PendingType
      /\ running' = FALSE /\ saved' = saved /\ ~Writing' /\ ~Deleting'
      /\ \A i \in Ops' : i + 1 \in Ops /\ queue'[i] = queue[i + 1] /\ 1 < i + 1
      /\ \A i \in Writes' : i + 1 \in Writes /\ queue'[i] = queue[i + 1] /\ 1 < i + 1
      /\ queue[1].by = "tracker" /\ queue[1].live => pending' = Idle /\ shutdown' = shutdown
      /\ queue[1].by = "shutdown" /\ queue[1].live => pending' = pending /\ shutdown' = next
      /\ ~queue[1].live \/ queue[1].by \in {"copy", "nobody"} =>
           pending' = pending /\ shutdown' = shutdown
      /\ Queued' /\ Tokens' /\ PendingFits' /\ CopyFits' /\ Captured' /\ Remembered'
  BY <1>a, <1>b, <1>c, Settling
<1>f. queue[1].by \in {"tracker", "shutdown", "nobody"} /\ queue[1].live \in BOOLEAN
  BY <1>a, <1>e, Positions, Fields DEF IInv, Queued
<1>g. /\ queue[1].live /\ queue[1].kind = "write" /\ queue[1].by = "tracker" => Modified
      /\ queue[1].live /\ queue[1].by = "shutdown" =>
           shutdown = IF queue[1].kind = "write" THEN "backup" ELSE "discard"
      /\ queue[1].live /\ queue[1].by = "nobody" => queue[1].kind = "delete"
  BY <1>a, <1>e, <1>f DEF IInv, Tokens, LiveOps, PendingFits, Queued
<1>h. lapses \subseteq lapses' /\ missed \in lapses' /\ lapses' \subseteq Lapses
  BY <1>a, <1>b, <1>c, <1>d DEF IInv, Typed, TypeOK, Lapses
<1>1. Typed'
  <2>1. shutdown' \in {shutdown, "agreed", "error"}
    BY <1>e, <1>f, <1>c
  <2>2. /\ model' \in [exists : BOOLEAN, version : Nat] /\ disk' \in Contents \cup {None, Corrupt}
        /\ lapses' \subseteq Lapses /\ used' \in UsedType
    BY <1>b, <1>h DEF IInv, Typed, TypeOK, UsedType
  <2> QED BY <1>b, <1>c, <1>e, <2>1, <2>2, SettledTypes
<1>2. BackupFits'
  BY <1>b, <1>c, <1>e, <1>f, <1>h DEF IInv, BackupFits, Open, Modified, Lapse, Agreed, copyVars
<1>3. NothingLeft'
  BY <1>a, <1>b, <1>d, <1>e, <1>f, <1>g, <1>h DEF IInv, NothingLeft, Open, Modified, Lapse, copyVars
<1>4. NothingMissing'
  BY <1>a, <1>b, <1>d, <1>e, <1>f, <1>g, <1>h
  DEF IInv, NothingMissing, HasBackup, Open, Modified, Lapse, Agreed, copyVars
<1>5. Agreement'
  <2>1. CASE shutdown' = shutdown
    BY <1>b, <1>e, <1>h, <2>1 DEF IInv, Agreement, Lapse, Recovered, Agreed, copyVars
  <2>2. CASE shutdown' # shutdown
    <3>1. queue[1].live /\ queue[1].by = "shutdown" /\ shutdown' = next
      BY <1>e, <1>f, <2>2
    <3>2. CASE queue[1].kind = "write"
      BY <1>d, <3>1, <3>2 DEF Agreement, Agreed
    <3>3. CASE queue[1].kind = "delete"
      <4>1. file \in since /\ Lapse("leftover")'
        BY <1>d, <1>g, <1>h, <3>1, <3>3 DEF IInv, Remembered, Discarding, Lapse
      <4> QED BY <1>b, <4>1 DEF Agreement, copyVars
    <3> QED BY <1>a, <3>2, <3>3
  <2> QED BY <2>1, <2>2
<1> QED BY <1>e, <1>1, <1>2, <1>3, <1>4, <1>5 DEF IInv

LEMMA FinishWriteKeeps ==
  ASSUME IInv, FinishWrite
  PROVE  IInv'
<1>a. queue # <<>> /\ running /\ queue[1] = Head(queue) /\ queue[1].kind = "write"
  BY RunningHead, HeadOfQueue DEF FinishWrite
<1>b. /\ Settles(Head(queue), "agreed")
      /\ disk' = queue[1].content \/ (disk = None /\ disk' = None)
      /\ model' = [exists |-> TRUE, version |-> queue[1].version]
      /\ lapses' = IF Modified /\ disk' = copy.content /\ queue[1].version = version
                   THEN lapses \ {"missing", "leftover"} ELSE lapses \cup UnwantedBy(queue[1])
      /\ UNCHANGED <<copyVars, restoreVars, since, used>>
  BY <1>a DEF FinishWrite
<1>c. /\ UNCHANGED <<copyVars, since>> /\ (Lapse("late")' <=> Lapse("late"))
      /\ Lapse("gaveUp")' <=> Lapse("gaveUp")
      /\ UnwantedBy(queue[1]) \subseteq {"leftover"}
  BY <1>b DEF Lapse, UnwantedBy
<1>e. /\ Len(queue) >= 1 /\ 1 \in Ops /\ Head(queue) = queue[1]
      /\ queue' \in Seq(OperationType) /\ pending' \in PendingType
      /\ running' = FALSE /\ saved' = saved /\ ~Writing' /\ ~Deleting'
      /\ \A i \in Ops' : i + 1 \in Ops /\ queue'[i] = queue[i + 1] /\ 1 < i + 1
      /\ \A i \in Writes' : i + 1 \in Writes /\ queue'[i] = queue[i + 1] /\ 1 < i + 1
      /\ queue[1].by = "tracker" /\ queue[1].live => pending' = Idle /\ shutdown' = shutdown
      /\ queue[1].by = "shutdown" /\ queue[1].live => pending' = pending /\ shutdown' = "agreed"
      /\ ~queue[1].live \/ queue[1].by \in {"copy", "nobody"} =>
           pending' = pending /\ shutdown' = shutdown
      /\ Queued' /\ Tokens' /\ PendingFits' /\ CopyFits' /\ Captured' /\ Remembered'
  BY <1>a, <1>b, <1>c, Settling
<1>f. queue[1].by \in {"tracker", "shutdown", "nobody"} /\ queue[1].live \in BOOLEAN
  BY <1>a, <1>e, Positions, Fields DEF IInv, Queued
<1>g. /\ queue[1].live /\ queue[1].by = "tracker" => Modified /\ queue[1].version = version
      /\ queue[1].live /\ queue[1].by = "shutdown" => shutdown = "backup" /\ queue[1].content \in since
      /\ queue[1].live => queue[1].by # "nobody"
      /\ 1 \in Writes /\ Writing /\ queue[1].content \in Contents /\ queue[1].version \in Nat
  BY <1>a, <1>e, <1>f, Numbers
  DEF IInv, Tokens, LiveOps, PendingFits, Queued, Writes, Writing, Captured
<1>h. /\ model'.exists /\ model'.version = queue[1].version
      /\ model' \in [exists : BOOLEAN, version : Nat]
  BY <1>b, <1>g
\* Either it was current, and what was missed is made good, or nothing is.
<1>i. \/ /\ Modified /\ disk' = copy.content /\ queue[1].version = version
         /\ lapses' = lapses \ {"missing", "leftover"}
      \/ /\ ~(Modified /\ disk' = copy.content /\ queue[1].version = version)
         /\ lapses \subseteq lapses' /\ lapses' \subseteq lapses \cup {"leftover"}
         /\ queue[1].by = "shutdown" /\ ~Modified => "leftover" \in lapses'
         /\ ~Lapse("leftover") => disk' = queue[1].content
  <2>1. ~Lapse("leftover") => disk # None
    BY <1>g, ContentsFacts DEF IInv, BackupFits
  <2> QED BY <1>b, <1>c, <2>1 DEF UnwantedBy
<1>1. Typed'
  <2>1. shutdown' \in {shutdown, "agreed", "error"}
    BY <1>e, <1>f
  <2>2. /\ model' \in [exists : BOOLEAN, version : Nat] /\ disk' \in Contents \cup {None, Corrupt}
        /\ lapses' \subseteq Lapses /\ used' \in UsedType
    <3>1. model' \in [exists : BOOLEAN, version : Nat] /\ disk' \in Contents \cup {None, Corrupt}
      BY <1>b, <1>g, <1>h DEF IInv, Typed, TypeOK
    <3>2. lapses' \subseteq Lapses
      BY <1>i DEF IInv, Typed, TypeOK, Lapses
    <3>3. used' \in UsedType
      BY <1>b DEF IInv, Typed, UsedType
    <3> QED BY <3>1, <3>2, <3>3
  <2> QED BY <1>b, <1>c, <1>e, <2>1, <2>2, SettledTypes
<1>2. BackupFits'
  <2>1. ASSUME ~Lapse("leftover")', Open
        PROVE  /\ queue[1].version <= version
               /\ queue[1].version = version => disk' = copy.content
               /\ \A i \in Writes' :
                    /\ queue[1].version <= queue'[i].version
                    /\ queue[1].version = queue'[i].version => disk' = queue'[i].content
               /\ shutdown = "capture" =>
                    /\ queue[1].version <= saved.version
                    /\ queue[1].version = saved.version => disk' = saved.content
    <3>1. /\ queue[1].version <= version
          /\ queue[1].version = version => queue[1].content = copy.content
      BY <1>g, <2>1 DEF IInv, Captured
    <3>2. \A i \in Writes' :
            /\ queue[1].version <= queue'[i].version
            /\ queue[1].version = queue'[i].version => queue[1].content = queue'[i].content
      BY <1>e, <1>g DEF IInv, Captured
    <3>3. shutdown = "capture" =>
            /\ queue[1].version <= saved.version
            /\ queue[1].version = saved.version => queue[1].content = saved.content
      BY <1>g DEF IInv, Captured
    <3>4. disk' = queue[1].content
      BY <1>g, <1>i, <2>1, <3>1 DEF Lapse
    <3> QED BY <3>1, <3>2, <3>3, <3>4
  <2>2. shutdown' = "capture" => shutdown = "capture"
    BY <1>e, <1>f
  <2> QED BY <1>b, <1>e, <1>h, <2>1, <2>2 DEF BackupFits, Open, copyVars
<1>3. NothingLeft'
  <2>1. ASSUME ~Modified, ~Lapse("leftover")', pending'.kind # "discard" PROVE FALSE
    <3>1. ~Lapse("leftover") /\ queue[1].by # "shutdown"
      BY <1>i, <2>1 DEF Lapse
    <3>2. pending' = pending
      BY <1>e, <1>f, <1>g, <2>1, <3>1
    <3> QED BY <1>g, <2>1, <3>1, <3>2 DEF IInv, NothingLeft
  <2>2. shutdown' \in {"hotExit", "capture", "backup"} => shutdown' = shutdown
    BY <1>e, <1>f
  <2>3. ~Modified => (Lapse("leftover") => Lapse("leftover")')
    BY <1>i DEF Lapse
  <2> QED BY <1>b, <2>1, <2>2, <2>3 DEF IInv, NothingLeft, Open, Modified, copyVars
<1>4. NothingMissing'
  <2>1. SUFFICES ASSUME Modified', ~Lapse("missing")', ~Lapse("leftover")',
                        shutdown' \notin {"discard"} \cup Agreed, queue[1].version # version
                 PROVE  pending'.kind = "backup"
    BY <1>b, <1>h DEF NothingMissing, Agreed, HasBackup, copyVars
  <2>2. /\ Modified /\ Open /\ ~Lapse("missing") /\ ~Lapse("leftover")
        /\ pending' = pending /\ shutdown' = shutdown
    BY <1>b, <1>e, <1>f, <1>g, <1>i, <2>1 DEF Open, Modified, Lapse, Agreed, copyVars
  <2>3. ~HasBackup(version)
    <3>1. HasBackup(version) => version < queue[1].version
      BY <1>g, <2>2 DEF IInv, BackupFits, HasBackup
    <3>2. queue[1].version <= version
      BY <1>g, <2>2 DEF IInv, Captured
    <3> QED BY <1>g, <3>1, <3>2, Numbers
  <2> QED BY <2>1, <2>2, <2>3 DEF IInv, NothingMissing, Agreed
<1>5. Agreement'
  <2>1. SUFFICES ASSUME shutdown' \in Agreed, ~Lapse("late")', ~Lapse("gaveUp")'
                 PROVE  /\ ~Lapse("leftover")' => Recovered' \in since
                        /\ \A i \in Ops' : queue'[i].kind = "delete" /\ queue'[i].live => file \in since
    BY <1>b, <1>e DEF Agreement, Agreed, copyVars
  <2>2. CASE shutdown' = shutdown
    <3>1. Modified /\ ~Lapse("leftover")' => copy.content \in since /\ copy.content \in Contents
      BY <2>1, <2>2 DEF IInv, Remembered, CopyFits, Modified, Agreed
    <3>2. Lapse("leftover")
      BY <1>c, <1>g, <2>1, <2>2 DEF IInv, Agreement, Agreed
    <3>3. ~Lapse("leftover")' => Modified /\ disk' = copy.content
      BY <1>i, <3>2 DEF Lapse
    <3>4. \A i \in Ops' : queue'[i].kind = "delete" /\ queue'[i].live => file \in since
      BY <1>c, <1>e, <2>1, <2>2 DEF IInv, Agreement, Agreed
    <3> QED BY <1>b, <3>1, <3>3, <3>4 DEF Recovered
  <2>3. CASE shutdown' # shutdown
    <3>1. queue[1].live /\ queue[1].by = "shutdown" /\ shutdown = "backup" /\ queue[1].content \in since
      BY <1>e, <1>f, <1>g, <2>3
    <3>2. \A i \in Ops : ~(queue[i].kind = "delete" /\ queue[i].live)
      BY <3>1, LiveOperation DEF Suspended, Agreed
    <3>3. copy.content \in since /\ copy.content \in Contents
      BY <3>1 DEF IInv, Remembered, CopyFits, Handling, Agreed
    <3>4. ~Lapse("leftover")' => disk' \in since /\ disk' \in Contents
      BY <1>g, <1>i, <3>1, <3>3 DEF Lapse
    <3> QED BY <1>b, <1>e, <3>2, <3>4 DEF Recovered
  <2> QED BY <2>2, <2>3
<1> QED BY <1>e, <1>1, <1>2, <1>3, <1>4, <1>5 DEF IInv

LEMMA BeginShutdownKeeps ==
  ASSUME IInv, BeginShutdown
  PROVE  IInv'
<1>a. /\ shutdown = "none" /\ shutdown' = (IF Modified THEN "modified" ELSE "unmodified")
      /\ pending' = Idle /\ queue' = Cancelled(queue, "tracker")
      /\ lapses' = lapses \cup CancelledLapse
      /\ since' = (IF Open THEN {copy.content} ELSE {file, Recovered})
      /\ used' \in UsedType
      /\ UNCHANGED <<copyVars, running, model, disk, saved, restoreVars>>
  <2>1. Use("shutdowns", MaxShutdowns)
    BY DEF BeginShutdown
  <2>2. used' \in UsedType
    BY <2>1, UseProperties, ConstantsAssumption DEF IInv
  <2> QED BY <2>2 DEF BeginShutdown
<1>b. /\ queue' \in Seq(OperationType)
      /\ Len(queue') = Len(queue) /\ Ops' = Ops /\ Writes' = Writes
      /\ \A i \in Ops :
           /\ queue'[i].kind = queue[i].kind /\ queue'[i].content = queue[i].content
           /\ queue'[i].version = queue[i].version /\ queue'[i].by = queue[i].by
           /\ queue'[i].live <=> queue[i].live /\ queue[i].by # "tracker"
      /\ LiveOps("shutdown")' = LiveOps("shutdown") /\ LiveOps("nobody")' = LiveOps("nobody")
      /\ LiveOps("tracker")' = {}
      /\ Writing' = Writing /\ Deleting' = Deleting /\ (running => 1 \in Ops)
  BY <1>a, Cancels
<1>c. /\ lapses \subseteq lapses' /\ lapses' \subseteq Lapses
      /\ lapses' \subseteq lapses \cup {"missing", "leftover"}
      /\ pending.kind = "backup" => "missing" \in lapses'
      /\ pending.kind = "discard" => "leftover" \in lapses'
  BY <1>a, CancelledLapses
<1>d. Idle \in PendingType /\ Idle.kind = "none" /\ Idle.phase = "none"
  BY DEF Idle, PendingType
<1>e. /\ since' \subseteq Contents /\ (Open => copy.content \in since')
      /\ ~Open => file \in since'
      /\ Open /\ ~Modified => copy.content = file
  <2>1. Open => copy.content \in Contents
    BY DEF IInv, CopyFits
  <2>2. file \in Contents /\ Recovered \in Contents
    BY Numbers DEF Recovered
  <2> QED BY <1>a, <2>1, <2>2 DEF IInv, Remembered
<1>1. Typed'
  <2>1. /\ pending' \in PendingType /\ used' \in UsedType
        /\ shutdown' \in {"modified", "unmodified"} /\ lapses' \subseteq Lapses
    BY <1>a, <1>c, <1>d
  <2>2. ready' = ready /\ unrestored' = unrestored
    BY <1>a DEF restoreVars
  <2>3. copy' = copy /\ version' = version /\ file' = file
    BY <1>a DEF copyVars
  <2> QED BY <1>a, <1>b, <1>e, <2>1, <2>2, <2>3 DEF IInv, Typed, TypeOK, PendingType, UsedType
<1>2. Queued'
  BY <1>a, <1>b, <1>c, <1>d
  DEF IInv, copyVars, ioVars, shutdownVars, restoreVars,
      historyVars, Queued, Ops
<1>3. Tokens'
  BY <1>a, <1>b, <1>c, <1>d, NothingAwaited
  DEF IInv, copyVars, ioVars, shutdownVars,
      restoreVars, historyVars, Tokens, Ops, LiveOps, Agreed
<1>4. PendingFits'
  BY <1>a, <1>b, <1>c, <1>d
  DEF IInv, copyVars, ioVars, shutdownVars, restoreVars,
      historyVars, PendingFits, Open, Modified, Suspended, Lapse
<1>5. CopyFits'
  BY <1>a, <1>b, <1>c, <1>d
  DEF IInv, copyVars, ioVars, shutdownVars, restoreVars,
      historyVars, CopyFits, Open, Agreed, Modified
<1>6. Captured'
  BY <1>a, <1>b, <1>c, <1>d
  DEF IInv, copyVars, ioVars, shutdownVars, restoreVars,
      historyVars, Captured, Ops, Writes, Open
<1>7. BackupFits'
  BY <1>a, <1>b, <1>c, <1>d
  DEF IInv, copyVars, ioVars, shutdownVars, restoreVars,
      historyVars, BackupFits, Ops, Writes, Writing, Deleting, Open, Modified, Lapse, Agreed
<1>8. NothingLeft'
  BY <1>a, <1>b, <1>c, <1>d
  DEF IInv, copyVars, ioVars, shutdownVars, restoreVars,
      historyVars, NothingLeft, Writing, Open, Modified, Lapse
<1>9. NothingMissing'
  BY <1>a, <1>b, <1>c, <1>d
  DEF IInv, copyVars, ioVars, shutdownVars, restoreVars,
      historyVars, NothingMissing, Open, Modified, Lapse, HasBackup, Agreed
<1>10. Remembered'
  BY <1>a, <1>b, <1>c, <1>d, <1>e
  DEF IInv, copyVars, ioVars, shutdownVars, restoreVars,
      historyVars, Remembered, Open, Modified, Handling, Discarding
<1>11. Agreement'
  BY <1>a, <1>b, <1>c, <1>d
  DEF IInv, copyVars, ioVars, shutdownVars, restoreVars,
      historyVars, Agreement, Ops, Writing, Deleting, Lapse, Recovered, Agreed
<1> QED BY <1>1, <1>2, <1>3, <1>4, <1>5, <1>6, <1>7, <1>8, <1>9, <1>10, <1>11 DEF IInv

LEMMA WillShutdownKeeps ==
  ASSUME IInv, WillShutdown
  PROVE  IInv'
<1>a. /\ shutdown = "agreed" /\ shutdown' = "leaving"
      /\ pending' = Idle /\ queue' = Cancelled(queue, "tracker")
      /\ lapses' = lapses \cup CancelledLapse
      /\ UNCHANGED <<copyVars, running, model, disk, saved, restoreVars, since, used>>
  BY DEF WillShutdown
<1>b. /\ queue' \in Seq(OperationType)
      /\ Len(queue') = Len(queue) /\ Ops' = Ops /\ Writes' = Writes
      /\ \A i \in Ops :
           /\ queue'[i].kind = queue[i].kind /\ queue'[i].content = queue[i].content
           /\ queue'[i].version = queue[i].version /\ queue'[i].by = queue[i].by
           /\ queue'[i].live <=> queue[i].live /\ queue[i].by # "tracker"
      /\ LiveOps("shutdown")' = LiveOps("shutdown") /\ LiveOps("nobody")' = LiveOps("nobody")
      /\ LiveOps("tracker")' = {}
      /\ Writing' = Writing /\ Deleting' = Deleting /\ (running => 1 \in Ops)
  BY <1>a, Cancels
<1>c. /\ lapses \subseteq lapses' /\ lapses' \subseteq Lapses
      /\ lapses' \subseteq lapses \cup {"missing", "leftover"}
      /\ pending.kind = "backup" => "missing" \in lapses'
      /\ pending.kind = "discard" => "leftover" \in lapses'
  BY <1>a, CancelledLapses
<1>d. Idle \in PendingType /\ Idle.kind = "none" /\ Idle.phase = "none"
  BY DEF Idle, PendingType
<1>1. Typed'
  <2>1. ready' = ready /\ unrestored' = unrestored
    BY <1>a DEF restoreVars
  <2>2. copy' = copy /\ version' = version /\ file' = file
    BY <1>a DEF copyVars
  <2> QED BY <1>a, <1>b, <1>c, <1>d, <2>1, <2>2 DEF IInv, Typed, TypeOK, PendingType
<1>2. Queued'
  BY <1>a, <1>b, <1>c, <1>d
  DEF IInv, copyVars, ioVars, shutdownVars, restoreVars,
      historyVars, Queued, Ops
<1>3. Tokens'
  BY <1>a, <1>b, <1>c, <1>d, NothingAwaited
  DEF IInv, copyVars, ioVars, shutdownVars,
      restoreVars, historyVars, Tokens, Ops, LiveOps, Agreed
<1>4. PendingFits'
  BY <1>a, <1>b, <1>c, <1>d
  DEF IInv, copyVars, ioVars, shutdownVars, restoreVars,
      historyVars, PendingFits, Open, Modified, Suspended, Lapse
<1>5. CopyFits'
  BY <1>a, <1>b, <1>c, <1>d
  DEF IInv, copyVars, ioVars, shutdownVars, restoreVars,
      historyVars, CopyFits, Open, Agreed
<1>6. Captured'
  BY <1>a, <1>b, <1>c, <1>d
  DEF IInv, copyVars, ioVars, shutdownVars, restoreVars,
      historyVars, Captured, Ops, Writes, Open
<1>7. BackupFits'
  BY <1>a, <1>b, <1>c, <1>d
  DEF IInv, copyVars, ioVars, shutdownVars, restoreVars,
      historyVars, BackupFits, Ops, Writes, Writing, Deleting, Open, Modified, Lapse, Agreed
<1>8. NothingLeft'
  BY <1>a, <1>b, <1>c, <1>d
  DEF IInv, copyVars, ioVars, shutdownVars, restoreVars,
      historyVars, NothingLeft, Writing, Open, Modified, Lapse
<1>9. NothingMissing'
  BY <1>a, <1>b, <1>c, <1>d
  DEF IInv, copyVars, ioVars, shutdownVars, restoreVars,
      historyVars, NothingMissing, Open, Modified, Lapse, HasBackup, Agreed
<1>10. Remembered'
  BY <1>a, <1>b, <1>c, <1>d
  DEF IInv, copyVars, ioVars, shutdownVars, restoreVars,
      historyVars, Remembered, Open, Modified, Handling, Discarding
<1>11. Agreement'
  BY <1>a, <1>b, <1>c, <1>d
  DEF IInv, copyVars, ioVars, shutdownVars, restoreVars,
      historyVars, Agreement, Ops, Writing, Deleting, Lapse, Recovered, Agreed
<1> QED BY <1>1, <1>2, <1>3, <1>4, <1>5, <1>6, <1>7, <1>8, <1>9, <1>10, <1>11 DEF IInv

LEMMA StopWaitingKeeps ==
  ASSUME IInv, StopWaiting
  PROVE  IInv'
<1>a. /\ shutdown \in {"capture", "backup", "discard"}
      /\ shutdown' = (IF shutdown = "discard" THEN "agreed" ELSE "confirm")
      /\ saved' = NothingSaved
      /\ queue' = [i \in DOMAIN queue |->
                    IF queue[i].by # "shutdown" THEN queue[i]
                    ELSE IF queue[i].kind = "write" THEN [queue[i] EXCEPT !.live = FALSE]
                    ELSE [queue[i] EXCEPT !.by = "nobody"]]
      /\ lapses' = (IF shutdown = "discard" THEN lapses \cup {"leftover"} ELSE lapses)
      /\ UNCHANGED <<copyVars, pending, running, model, disk, restoreVars, since, used>>
  BY DEF StopWaiting
<1>b. /\ queue' \in Seq(OperationType)
      /\ Len(queue') = Len(queue) /\ Ops' = Ops /\ Writes' = Writes
      /\ \A i \in Ops :
           /\ queue'[i].kind = queue[i].kind /\ queue'[i].content = queue[i].content
           /\ queue'[i].version = queue[i].version
           /\ queue[i].by # "shutdown" => queue'[i].by = queue[i].by /\ queue'[i].live = queue[i].live
           /\ queue[i].by = "shutdown" /\ queue[i].kind = "write" =>
                queue'[i].by = "shutdown" /\ ~queue'[i].live
           /\ queue[i].by = "shutdown" /\ queue[i].kind # "write" =>
                queue'[i].by = "nobody" /\ queue'[i].live = queue[i].live
      /\ Writing' = Writing /\ Deleting' = Deleting /\ (running => 1 \in Ops)
  BY <1>a, Abandons
<1>c. /\ LiveOps("tracker")' = LiveOps("tracker") /\ LiveOps("shutdown")' = {}
      /\ \A i \in LiveOps("nobody")' : shutdown = "discard"
  <2>1. \A i \in Ops : queue[i].kind \in {"write", "delete", "read"} /\ queue[i].live \in BOOLEAN
    BY Positions, Fields DEF IInv
  <2>2. LiveOps("tracker")' = LiveOps("tracker") /\ LiveOps("shutdown")' = {}
    BY <1>b DEF LiveOps
  <2>3. ASSUME NEW i \in LiveOps("nobody")' PROVE shutdown = "discard"
    <3>1. i \in Ops /\ queue'[i].live /\ queue'[i].by = "nobody"
      BY <1>b, <2>3 DEF LiveOps
    <3>2. queue[i].live /\ (queue[i].by = "nobody" \/ (queue[i].by = "shutdown" /\ queue[i].kind # "write"))
      BY <1>b, <3>1
    <3>3. i \in LiveOps("nobody") \/ (i \in LiveOps("shutdown") /\ queue[i].kind = "delete")
      BY <2>1, <3>1, <3>2 DEF LiveOps, IInv, Queued
    <3> QED BY <1>a, <3>3 DEF IInv, Tokens, Agreed
  <2> QED BY <2>2, <2>3
\* What matters of the step besides the queue.
<1>e. /\ shutdown \in {"capture", "backup", "discard"}
      /\ shutdown = "discard" => shutdown' = "agreed" /\ lapses' = lapses \cup {"leftover"}
      /\ shutdown # "discard" => shutdown' = "confirm" /\ lapses' = lapses
      /\ copy' = copy /\ version' = version /\ file' = file /\ pending' = pending
      /\ running' = running /\ model' = model /\ disk' = disk /\ since' = since
  BY <1>a DEF copyVars
<1>d. shutdown = "discard" => file \in since
  BY DEF IInv, Remembered, Discarding
<1>1. Typed'
  <2>1. ready' = ready /\ unrestored' = unrestored
    BY <1>a DEF restoreVars
  <2>2. shutdown' \in {"agreed", "confirm"} /\ used' = used
    BY <1>a, <1>e
  <2>3. saved' \in [content : Contents \cup {None}, version : Nat]
    BY <1>a DEF NothingSaved
  <2>4. lapses' \subseteq Lapses
    BY <1>e DEF IInv, Typed, TypeOK, Lapses
  <2>5. queue' \in Seq(OperationType)
    BY <1>b
  <2> QED BY <1>e, <2>1, <2>2, <2>3, <2>4, <2>5 DEF IInv, Typed, TypeOK
<1>2. Queued'
  <2>1. \A i \in Ops :
          /\ queue'[i].kind = "read" <=> queue'[i].by = "copy"
          /\ queue'[i].by = "nobody" => queue'[i].kind = "delete"
          /\ queue'[i].kind = "read" => copy.status = "opening" /\ i = Len(queue)
          /\ queue'[i].kind = "read" => queue'[i].live
    <3>1. SUFFICES ASSUME NEW i \in Ops
                   PROVE  /\ queue'[i].kind = "read" <=> queue'[i].by = "copy"
                          /\ queue'[i].by = "nobody" => queue'[i].kind = "delete"
                          /\ queue'[i].kind = "read" => copy.status = "opening" /\ i = Len(queue)
                          /\ queue'[i].kind = "read" => queue'[i].live
      OBVIOUS
    <3>2. /\ queue[i].kind = "read" <=> queue[i].by = "copy"
          /\ queue[i].by = "nobody" => queue[i].kind = "delete"
          /\ queue[i].kind = "read" => copy.status = "opening" /\ i = Len(queue)
          /\ queue[i].kind = "read" => queue[i].live
      BY DEF IInv, Queued
    <3>3. queue[i].kind \in {"write", "delete", "read"}
      BY Positions, Fields DEF IInv
    <3>4. /\ queue'[i].kind = queue[i].kind
          /\ queue[i].by # "shutdown" => queue'[i].by = queue[i].by /\ queue'[i].live = queue[i].live
          /\ queue[i].by = "shutdown" /\ queue[i].kind = "write" => queue'[i].by = "shutdown"
          /\ queue[i].by = "shutdown" /\ queue[i].kind # "write" => queue'[i].by = "nobody"
      BY <1>b
    <3> QED BY <3>2, <3>3, <3>4
  <2>2. copy.status = "opening" => Len(queue) >= 1 /\ queue'[Len(queue)].kind = "read"
    <3>1. ASSUME copy.status = "opening" PROVE Len(queue) \in Ops /\ queue[Len(queue)].kind = "read"
      BY <3>1, Numbers DEF IInv, Queued, Ops
    <3> QED BY <1>b, <3>1 DEF IInv, Queued
  <2>3. running => Len(queue) >= 1 /\ queue'[1].kind # "read"
    BY <1>b DEF IInv, Queued
  <2> QED BY <1>b, <1>e, <2>1, <2>2, <2>3 DEF Queued
<1>3. Tokens'
  <2>1. \A i \in LiveOps("tracker") : /\ queue'[i].kind = queue[i].kind
                                     /\ queue'[i].version = queue[i].version
    BY <1>b DEF LiveOps
  <2>2. \A i \in LiveOps("tracker")' :
          /\ pending'.phase = "io"
          /\ queue'[i].kind = "write" => pending'.kind = "backup" /\ queue'[i].version = version'
          /\ queue'[i].kind = "delete" => pending'.kind = "discard"
    BY <1>c, <1>e, <2>1 DEF IInv, Tokens
  <2>3. \A i, j \in LiveOps("tracker")' : i = j
    BY <1>c DEF IInv, Tokens
  <2>4. pending'.phase = "io" => LiveOps("tracker")' # {}
    BY <1>c, <1>e DEF IInv, Tokens
  <2>5. \A i \in LiveOps("nobody")' : shutdown' \in Agreed
    BY <1>c, <1>e DEF Agreed
  <2> QED BY <1>c, <2>2, <2>3, <2>4, <2>5 DEF Tokens, Agreed
<1>4. PendingFits'
  BY <1>c, <1>e DEF IInv, PendingFits, Open, Modified, Suspended, Lapse, Idle
<1>5. CopyFits'
  BY <1>c, <1>e DEF IInv, CopyFits, Open, Agreed
<1>6. Captured'
  <2>1. \A i \in Writes : /\ queue'[i].version = queue[i].version
                          /\ queue'[i].content = queue[i].content
    BY <1>b DEF Writes
  <2>2. Open' = Open /\ Writes' = Writes /\ shutdown' # "capture"
    BY <1>b, <1>e DEF Open
  <2> QED BY <1>e, <2>1, <2>2 DEF IInv, Captured
<1>7. BackupFits'
  <2>1. \A i \in Writes : /\ queue'[i].version = queue[i].version
                          /\ queue'[i].content = queue[i].content
    BY <1>b DEF Writes
  <2>2. /\ Open' = Open /\ Modified' = Modified /\ Writes' = Writes /\ Writing' = Writing
        /\ Deleting' = Deleting /\ shutdown' # "capture"
        /\ ~Lapse("leftover")' => ~Lapse("leftover")
    BY <1>b, <1>e DEF Open, Modified, Lapse
  <2>3. Writing => queue'[1].version = queue[1].version
    BY <1>b DEF Writing
  <2>4. shutdown' \notin {"discard"} \cup Agreed => shutdown \notin {"discard"} \cup Agreed
    BY <1>e DEF Agreed
  <2> QED BY <1>e, <2>1, <2>2, <2>3, <2>4 DEF IInv, BackupFits, Agreed
<1>8. NothingLeft'
  BY <1>b, <1>e DEF IInv, NothingLeft, Open, Modified, Lapse
<1>9. NothingMissing'
  BY <1>e DEF IInv, NothingMissing, Open, Modified, Lapse, HasBackup, Agreed
<1>10. Remembered'
  BY <1>e DEF IInv, Remembered, Open, Modified, Handling, Discarding
<1>11. Agreement'
  BY <1>d, <1>e DEF Agreement, Lapse, Agreed
<1> QED BY <1>1, <1>2, <1>3, <1>4, <1>5, <1>6, <1>7, <1>8, <1>9, <1>10, <1>11 DEF IInv

LEMMA RestartKeeps ==
  ASSUME IInv, Restart
  PROVE  IInv'
<1>a. /\ used' \in UsedType
      /\ copy' = [status |-> "closed", content |-> None, modified |-> FALSE]
      /\ version' = 0 /\ pending' = Idle /\ queue' = <<>> /\ running' = FALSE
      /\ model' = [exists |-> disk # None, version |-> 0]
      /\ shutdown' = "none" /\ saved' = NothingSaved /\ ready' = FALSE /\ unrestored' = FALSE
      /\ lapses' = (IF disk # None THEN {"leftover"} ELSE {}) /\ since' = {}
      /\ UNCHANGED <<file, disk>>
  <2>1. Use("sessions", MaxSessions)
    BY DEF Restart
  <2>2. used' \in UsedType
    BY <2>1, UseProperties, ConstantsAssumption DEF IInv
  <2> QED BY <2>2 DEF Restart
<1>b. /\ Len(queue') = 0 /\ Ops' = {} /\ Writes' = {} /\ ~Writing' /\ ~Deleting'
      /\ copy'.status = "closed" /\ ~Open' /\ ~Modified' /\ (model'.exists <=> disk # None)
  <2>1. Len(queue') = 0
    BY <1>a, EmptySeq
  <2>2. Ops' = {}
    BY <2>1 DEF Ops
  <2>3. Writes' = {} /\ ~Writing' /\ ~Deleting'
    BY <1>a, <2>2 DEF Writes, Writing, Deleting
  <2>4. copy'.status = "closed" /\ ~Open' /\ ~Modified'
    BY <1>a DEF Open, Modified
  <2>5. model'.exists <=> disk # None
    BY <1>a
  <2> QED BY <2>1, <2>2, <2>3, <2>4, <2>5
<1>1. Typed'
  <2>1. copy' \in CopyType /\ pending' \in PendingType /\ queue' \in Seq(OperationType)
    BY <1>a DEF CopyType, PendingType, Idle
  <2>2. saved' \in [content : Contents \cup {None}, version : Nat]
    BY <1>a DEF NothingSaved
  <2>3. model' \in [exists : BOOLEAN, version : Nat] /\ lapses' \subseteq Lapses /\ since' \subseteq Contents
    BY <1>a DEF Lapses
  <2>4. ready' \in BOOLEAN /\ unrestored' \in BOOLEAN /\ running' \in BOOLEAN
    BY <1>a
  <2> QED BY <1>a, <2>1, <2>2, <2>3, <2>4 DEF IInv, Typed, TypeOK, CopyType, PendingType, UsedType
<1>2. Queued'
  BY <1>a, <1>b
  DEF IInv, copyVars, ioVars, shutdownVars, restoreVars, historyVars,
      Queued, Ops
<1>3. Tokens'
  BY <1>a, <1>b
  DEF IInv, copyVars, ioVars, shutdownVars, restoreVars, historyVars,
      Tokens, Ops, LiveOps, Agreed, Idle
<1>4. PendingFits'
  BY <1>a, <1>b
  DEF IInv, copyVars, ioVars, shutdownVars, restoreVars, historyVars,
      PendingFits, Open, Modified, Suspended, Lapse, Idle
<1>5. CopyFits'
  BY <1>a, <1>b
  DEF IInv, copyVars, ioVars, shutdownVars, restoreVars, historyVars,
      CopyFits, Open, Agreed
<1>6. Captured'
  BY <1>a, <1>b
  DEF IInv, copyVars, ioVars, shutdownVars, restoreVars, historyVars,
      Captured, Ops, Writes, Open
<1>7. BackupFits'
  BY <1>a, <1>b, ContentsFacts
  DEF IInv, copyVars, ioVars, shutdownVars, restoreVars,
      historyVars, BackupFits, Ops, Writes, Writing, Deleting, Open, Modified, Lapse, Agreed
<1>8. NothingLeft'
  BY <1>a, <1>b
  DEF IInv, copyVars, ioVars, shutdownVars, restoreVars, historyVars,
      NothingLeft, Writing, Open, Modified, Lapse, Idle
<1>9. NothingMissing'
  BY <1>a, <1>b
  DEF IInv, copyVars, ioVars, shutdownVars, restoreVars, historyVars,
      NothingMissing, Open, Modified, Lapse, HasBackup, Agreed
<1>10. Remembered'
  BY <1>a, <1>b
  DEF IInv, copyVars, ioVars, shutdownVars, restoreVars, historyVars,
      Remembered, Open, Modified, Handling, Discarding
<1>11. Agreement'
  BY <1>a, <1>b
  DEF IInv, copyVars, ioVars, shutdownVars, restoreVars, historyVars,
      Agreement, Ops, Writing, Deleting, Lapse, Recovered, Agreed
<1> QED BY <1>1, <1>2, <1>3, <1>4, <1>5, <1>6, <1>7, <1>8, <1>9, <1>10, <1>11 DEF IInv

LEMMA ReadBackupKeeps ==
  ASSUME IInv, ReadBackup
  PROVE  IInv'
<1> DEFINE found == model.exists /\ disk \in Contents
<1>a. /\ Len(queue) = 1 /\ queue # <<>> /\ 1 \in Ops /\ Ops = {1}
      /\ queue[1].kind = "read" /\ queue[1].by = "copy" /\ copy.status = "opening"
  <2>1. 1 \in Ops /\ queue[1].kind = "read" /\ queue # <<>>
    BY HeadOfQueue DEF ReadBackup
  <2>2. Len(queue) = 1
    BY <2>1 DEF IInv, Queued
  <2> QED BY <2>1, <2>2 DEF IInv, Queued, Ops
<1>b. queue' \in Seq(OperationType) /\ Len(queue') = 0 /\ Ops' = {} /\ Writes' = {}
  <2>1. queue \in Seq(OperationType)
    BY Positions DEF IInv
  <2>2. Cancelled(queue, "tracker") \in Seq(OperationType) /\ Len(Cancelled(queue, "tracker")) = 1
    <3>1. Cancelled(queue, "tracker") \in Seq(OperationType) /\ Len(Cancelled(queue, "tracker")) = Len(queue)
      BY <2>1, CancelledProperties
    <3> QED BY <1>a, <3>1
  <2>3. Cancelled(queue, "tracker") # <<>>
    <3> DEFINE q == Cancelled(queue, "tracker")
    <3>1. q \in Seq(OperationType) /\ Len(q) # 0
      BY <2>2
    <3> HIDE DEF q
    <3>2. q # <<>>
      BY <3>1, EmptySeq
    <3> QED BY <3>2 DEF q
  <2>4. queue' = Tail(queue) \/ queue' = Tail(Cancelled(queue, "tracker"))
    BY DEF ReadBackup
  <2>5. queue' \in Seq(OperationType) /\ Len(queue') = 0
    <3>1. Tail(queue) \in Seq(OperationType) /\ Len(Tail(queue)) = Len(queue) - 1
      BY <1>a, <2>1, TailOfQueue
    <3>2. /\ Tail(Cancelled(queue, "tracker")) \in Seq(OperationType)
          /\ Len(Tail(Cancelled(queue, "tracker"))) = Len(Cancelled(queue, "tracker")) - 1
      BY <2>2, <2>3, TailOfQueue
    <3> QED BY <1>a, <2>2, <2>4, <3>1, <3>2
  <2> QED BY <2>5 DEF Ops, Writes
<1>c. /\ ~Open /\ ~Modified /\ version = 0 /\ shutdown \in {"none", "unmodified"} \cup Agreed
      /\ LiveOps("tracker") = {} /\ pending = Idle
  <2>1. ~Open /\ ~Modified
    BY <1>a DEF Open, Modified
  <2>2. LiveOps("tracker") = {}
    BY <1>a DEF LiveOps
  <2>3. pending.kind \in {"none", "backup", "discard"}
    BY DEF IInv, Typed, TypeOK
  <2> QED BY <2>1, <2>2, <2>3 DEF IInv, CopyFits, PendingFits, Tokens
<1>d. /\ running' = FALSE
      /\ copy' = (IF found THEN [status |-> "open", content |-> disk, modified |-> TRUE]
                  ELSE [status |-> "open", content |-> file, modified |-> FALSE])
      /\ lapses' = (IF found THEN (IF model.version = 0 THEN lapses \ {"leftover"} ELSE lapses) \cup LateBy
                    ELSE lapses)
      /\ pending' = (IF found /\ ~Suspended THEN Scheduled ELSE pending)
      /\ UNCHANGED <<version, file, model, disk, shutdownVars, restoreVars, used>>
  BY DEF ReadBackup
<1>e. /\ copy' \in CopyType /\ copy'.status = "open" /\ Open' /\ (Modified' <=> found)
      /\ copy'.modified = found
      /\ copy'.content \in Contents /\ copy'.content = IF found THEN disk ELSE file
  BY <1>d, Numbers DEF CopyType, Open, Modified
<1>f. /\ since \subseteq since' /\ (shutdown # "none" => copy'.content \in since')
      /\ since' \subseteq since \cup {copy'.content}
  BY DEF ReadBackup, Remember
<1>g. /\ ~Lapse("leftover") => ~model.exists /\ disk = None
      /\ Lapse("leftover")' => Lapse("leftover")
      /\ ~Lapse("leftover")' /\ found => model.version = 0
      /\ found => model.exists
      /\ ~Lapse("leftover")' /\ ~found => ~Lapse("leftover")
      /\ Lapse("gaveUp")' <=> Lapse("gaveUp")
      /\ ~Lapse("late")' => ~Lapse("late") /\ (found => shutdown # "agreed")
  <2>1. ~Lapse("leftover") => ~model.exists /\ disk = None
    BY <1>c DEF IInv, NothingLeft, Idle
  <2> QED BY <1>d, <2>1 DEF Lapse, LateBy
<1>h. ~Writing' /\ ~Deleting'
  BY <1>d DEF Writing, Deleting
<1>i. /\ shutdown' = shutdown /\ shutdown' # "capture" /\ version' = 0 /\ model' = model
      /\ found /\ ~Suspended => pending'.kind = "backup"
      /\ Suspended /\ shutdown' \notin Agreed => shutdown = "unmodified"
  BY <1>c, <1>d DEF Scheduled, shutdownVars, Agreed, Suspended
<1> HIDE DEF found
<1>1. Typed'
  <2>1. /\ pending' \in PendingType /\ lapses' \subseteq Lapses /\ since' \subseteq Contents
    BY <1>d, <1>e, <1>f, <1>g, Numbers DEF IInv, Typed, TypeOK, Lapses, LateBy, Scheduled, Idle, PendingType
  <2>2. /\ shutdown' = shutdown /\ saved' = saved /\ ready' = ready /\ unrestored' = unrestored
        /\ running' \in BOOLEAN
    BY <1>d DEF shutdownVars, restoreVars
  <2> QED BY <1>b, <1>d, <1>e, <2>1, <2>2 DEF IInv, Typed, TypeOK, CopyType, PendingType
<1>2. Queued'
  BY <1>b, <1>c, <1>d, <1>e, <1>f, <1>g, <1>h, <1>i
  DEF IInv, copyVars, ioVars,
      shutdownVars, restoreVars, historyVars, Queued, Ops
<1>3. Tokens'
  BY <1>b, <1>c, <1>d, <1>e, <1>f, <1>g, <1>h, <1>i
  DEF IInv, copyVars, ioVars,
      shutdownVars, restoreVars, historyVars, Tokens, Ops, LiveOps, Agreed, Scheduled, Idle
<1>4. PendingFits'
  BY <1>b, <1>c, <1>d, <1>e, <1>f, <1>g, <1>h, <1>i
  DEF IInv, copyVars, ioVars,
      shutdownVars, restoreVars, historyVars, PendingFits, Open, Modified, Suspended, Lapse,
      Idle, Scheduled, LateBy
<1>5. CopyFits'
  BY <1>b, <1>c, <1>d, <1>e, <1>f, <1>g, <1>h, <1>i
  DEF IInv, copyVars, ioVars,
      shutdownVars, restoreVars, historyVars, CopyFits, Open, Agreed
<1>6. Captured'
  BY <1>b, <1>c, <1>d, <1>e, <1>f, <1>g, <1>h, <1>i
  DEF IInv, copyVars, ioVars,
      shutdownVars, restoreVars, historyVars, Captured, Ops, Writes, Open
<1>7. BackupFits'
  BY <1>b, <1>c, <1>d, <1>e, <1>f, <1>g, <1>h, <1>i
  DEF IInv, copyVars, ioVars,
      shutdownVars, restoreVars, historyVars, BackupFits, Ops, Writes, Writing, Deleting, Open,
      Modified, Lapse, Agreed
<1>8. NothingLeft'
  BY <1>b, <1>c, <1>d, <1>e, <1>f, <1>g, <1>h, <1>i
  DEF IInv, copyVars, ioVars,
      shutdownVars, restoreVars, historyVars, NothingLeft, Writing, Open, Modified, Lapse,
      Idle, Scheduled
<1>9. NothingMissing'
  BY <1>b, <1>c, <1>d, <1>e, <1>f, <1>g, <1>h, <1>i
  DEF IInv, copyVars, ioVars,
      shutdownVars, restoreVars, historyVars, NothingMissing, Open, Modified, Lapse, HasBackup,
      Agreed, Scheduled, Suspended
<1>10. Remembered'
  BY <1>b, <1>c, <1>d, <1>e, <1>f, <1>g, <1>h, <1>i
  DEF IInv, copyVars, ioVars,
      shutdownVars, restoreVars, historyVars, Remembered, Open, Modified, Handling, Discarding
<1>11. Agreement'
  BY <1>b, <1>c, <1>d, <1>e, <1>f, <1>g, <1>h, <1>i
  DEF IInv, copyVars, ioVars,
      shutdownVars, restoreVars, historyVars, Agreement, Ops, Writing, Deleting, Lapse,
      Recovered, Agreed
<1> QED BY <1>1, <1>2, <1>3, <1>4, <1>5, <1>6, <1>7, <1>8, <1>9, <1>10, <1>11 DEF IInv

(***************************************************************************)
(* The invariant, and what follows from it                                 *)
(***************************************************************************)
\* Whatever the user does with the copy keeps the invariant.
LEMMA UserKeeps ==
  ASSUME IInv, User
  PROVE  IInv'
<1>1. CASE Edit
  BY <1>1, EditKeeps
<1>2. CASE BackToSaved
  BY <1>2, BackToSavedSuspended, BackToSavedWorking
<1>3. CASE Save
  BY <1>3, SaveSuspended, SaveWorking
<1>4. CASE Close
  BY <1>4, CloseKeeps
<1>5. CASE OpenCopy
  BY <1>5, OpenCopyKeeps
<1> QED BY <1>1, <1>2, <1>3, <1>4, <1>5 DEF User

\* So does every operation on the backup file, whether it works or fails.
LEMMA OperationsKeep ==
  ASSUME IInv, Operations
  PROVE  IInv'
<1>1. CASE SkipOperation
  BY <1>1, SkipOperationKeeps
<1>2. CASE StartOperation
  BY <1>2, StartOperationKeeps
<1>3. CASE FinishWrite
  BY <1>3, FinishWriteKeeps
<1>4. CASE FinishDelete
  BY <1>4, FinishDeleteKeeps
<1>5. CASE OperationFails
  BY <1>5, OperationFailsKeeps
<1>6. CASE ReadBackup
  BY <1>6, ReadBackupKeeps
<1> QED BY <1>1, <1>2, <1>3, <1>4, <1>5, <1>6 DEF Operations

\* So does every step of a shutdown.
LEMMA ShutdownKeeps ==
  ASSUME IInv, Shutdown
  PROVE  IInv'
<1>1. CASE BeginShutdown
  BY <1>1, BeginShutdownKeeps
<1>2. CASE DiscardAllBackups
  BY <1>2, DiscardAllBackupsKeeps
<1>3. CASE DiscardHandled
  BY <1>3, DiscardHandledQueues, DiscardHandledSkips
<1>4. CASE HandleModified
  BY <1>4, HandleModifiedKeeps
<1>5. CASE BackupBeforeShutdown
  BY <1>5, BackupBeforeShutdownKeeps
<1>6. CASE StoreBeforeShutdown
  BY <1>6, StoreBeforeShutdownWrites, StoreBeforeShutdownSkips
<1>7. CASE StopWaiting
  BY <1>7, StopWaitingKeeps
<1>8. CASE ConfirmSave
  BY <1>8, ConfirmSaveKeeps
<1>9. CASE SavedBeforeShutdown
  BY <1>9, SavedBeforeShutdownKeeps
<1>10. CASE ConfirmDoNotSave
  BY <1>10, ConfirmDoNotSaveKeeps
<1>11. CASE CloseAnyway
  BY <1>11, CloseAnywayKeeps
<1>12. CASE Veto
  BY <1>12, VetoKeeps
<1>13. CASE WillShutdown
  BY <1>13, WillShutdownKeeps
<1> QED BY <1>1, <1>2, <1>3, <1>4, <1>5, <1>6, <1>7, <1>8, <1>9, <1>10, <1>11, <1>12, <1>13
        DEF Shutdown

LEMMA NextKeeps ==
  ASSUME IInv, [Next]_vars
  PROVE  IInv'
<1>1. CASE User
  BY <1>1, UserKeeps
<1>2. CASE Restoring
  BY <1>2, ResolveBackupsToRestoreKeeps, BackupRestoredKeeps DEF Restoring
<1>3. CASE TimerFires
  BY <1>3, TimerFiresKeeps
<1>4. CASE StoreBackup
  BY <1>4, StoreBackupWrites, StoreBackupSkips
<1>5. CASE Operations
  BY <1>5, OperationsKeep
<1>6. CASE Shutdown
  BY <1>6, ShutdownKeeps
<1>7. CASE Restart
  BY <1>7, RestartKeeps
<1>8. CASE UNCHANGED vars
  <2>1. Typed'
    BY <1>8 DEF IInv, Typed, TypeOK, vars, copyVars, ioVars, shutdownVars, restoreVars, historyVars
  <2>2. Queued' /\ Tokens' /\ PendingFits' /\ CopyFits'
    BY <1>8 DEF IInv, Queued, Tokens, PendingFits, CopyFits, Ops, LiveOps, Open, Modified, Suspended,
         Lapse, vars, copyVars, ioVars, shutdownVars, restoreVars, historyVars
  <2>3. Captured' /\ BackupFits'
    BY <1>8 DEF IInv, Captured, BackupFits, Ops, Writes, Open, Modified, Writing, Deleting,
         Lapse, vars, copyVars, ioVars, shutdownVars, restoreVars, historyVars
  <2>4. NothingLeft' /\ NothingMissing' /\ Remembered' /\ Agreement'
    BY <1>8 DEF IInv, NothingLeft, NothingMissing, Remembered, Agreement, Ops, Open, Modified,
         Writing, Deleting, HasBackup, Recovered, Lapse,
         vars, copyVars, ioVars, shutdownVars, restoreVars, historyVars
  <2> QED BY <2>1, <2>2, <2>3, <2>4 DEF IInv
<1> QED BY <1>1, <1>2, <1>3, <1>4, <1>5, <1>6, <1>7, <1>8 DEF Next

\* The inductive invariant holds: the queue, the backup and what shutdowns wait
\* for fit the copy in every state that is reached.
THEOREM Invariance == Spec => []IInv
<1>1. Init => IInv
  BY InitIInv
<1>2. IInv /\ [Next]_vars => IInv'
  BY NextKeeps
<1> QED BY <1>1, <1>2, PTL DEF Spec

\* Every variable keeps its type.
THEOREM TypeCorrect == Spec => []TypeOK
<1>1. IInv => TypeOK
  BY DEF IInv, Typed
<1> QED BY <1>1, Invariance, PTL

\* A backup that counts as current, for the tracker or a shutdown, is of the
\* contents the copy shows, however captures, writes and versions that start
\* anew interleave.
THEOREM BackupsAreCurrent == Spec => []BackupIsCurrent
<1>1. IInv => BackupIsCurrent
  BY DEF IInv, BackupFits, BackupIsCurrent, HasBackup, Modified
<1> QED BY <1>1, Invariance, PTL

\* When the tracker has nothing to do a modified copy has its contents backed
\* up, and no other copy has a backup that a later session would bring back.
THEOREM BackupsAreRight == Spec => []BackupsMatch
<1>1. ASSUME IInv PROVE BackupsMatch
  <2>1. SUFFICES ASSUME shutdown = "none", pending = Idle, ~Lapse("leftover")
                 PROVE  /\ Modified /\ ~Lapse("missing") => disk = copy.content
                        /\ ~Modified => disk = None
    BY DEF BackupsMatch
  <2>2. pending.kind = "none"
    BY <2>1 DEF Idle
  <2>3. ASSUME Modified, ~Lapse("missing") PROVE disk = copy.content
    <3>1. HasBackup(version)
      BY <1>1, <2>1, <2>2, <2>3 DEF IInv, NothingMissing, Agreed
    <3> QED BY <1>1, <2>1, <2>3, <3>1 DEF IInv, BackupFits, HasBackup, Modified
  <2>4. ~Modified => disk = None
    BY <1>1, <2>1, <2>2 DEF IInv, NothingLeft
  <2> QED BY <2>3, <2>4
<1>2. IInv => BackupsMatch
  BY <1>1
<1> QED BY <1>2, Invariance, PTL

\* A shutdown that everybody agreed to loses nothing: the next session shows
\* what the copy had then or later, or what was saved when the user chose that.
THEOREM ShutdownsKeepContents == Spec => []ShutdownKeepsContents
<1>1. IInv => ShutdownKeepsContents
  BY DEF IInv, Agreement, Agreed, Lapse, ShutdownKeepsContents
<1> QED BY <1>1, Invariance, PTL

=============================================================================
