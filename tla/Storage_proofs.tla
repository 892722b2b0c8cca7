---------------------------- MODULE Storage_proofs ----------------------------
(***************************************************************************)
(* Proofs about Storage, for any keys and values, any number of changes    *)
(* and sessions, with and without database errors.                         *)
(***************************************************************************)
EXTENDS Storage, TLAPS

(***************************************************************************)
(* The inductive invariant.                                                *)
(***************************************************************************)
\* A process that has not read the file yet has nothing else.
Fresh ==
  state = "None" =>
    /\ Pending = NoChanges /\ ~timer /\ ~busy
    /\ stage = [c \in Callers |-> "idle"] /\ db = "open" /\ ~erroneous

\* The throttler: no request without an active promise, none queued either.
Throttled ==
  /\ ~busy => inFlight = NoChanges
  /\ queued => busy

\* What the caller of flush(0) is owed has left the pending changes when its
\* flush runs, and the request in flight when its promise is resolved.
FlushOwes ==
  /\ stage["flush"] # "waiting"
  /\ \A k \in owed["flush"] :
       /\ stage["flush"] \in {"run", "queuedRun", "done"} =>
            pendingInserts[k] = Unset /\ k \notin pendingDeletes
       /\ stage["flush"] = "done" =>
            inFlight.insert[k] = Unset /\ k \notin inFlight.delete

\* How far the flush of close() has got, and that nothing is left behind it.
Closing ==
  /\ state # "Closed" => db = "open" /\ stage["close"] = "idle"
  /\ state = "Closed" =>
       /\ stage["close"] \notin {"idle", "waiting"}
       /\ stage["close"] = "timer" => timer
       /\ stage["close"] # "timer" => ~timer
       /\ stage["close"] = "queued" => queued
       /\ stage["close"] \in {"run", "queuedRun", "done", "failed", "stuck"} =>
            ~queued /\ Pending = NoChanges
       /\ stage["close"] \in {"done", "failed", "stuck"} => ~busy
  /\ db # "open" => stage["close"] \in {"done", "failed"}
  /\ db = "unlinked" => erroneous

IInv ==
  /\ TypeOK /\ Fresh /\ Throttled
  /\ NothingLost /\ PendingHasFlush /\ FlushOwes
  /\ Closing /\ ClosedIsDurable

(***************************************************************************)
(* Rows and requests                                                       *)
(***************************************************************************)
LEMMA NothingIsRows == Nothing \in Rows /\ NoChanges \in Request
BY DEF Nothing, Rows, NoChanges, Request

LEMMA ApplyIsRows ==
  ASSUME NEW rows \in Rows, NEW request \in Request
  PROVE  Apply(rows, request) \in Rows
BY DEF Apply, Rows, Request

LEMMA ApplyNoChanges ==
  ASSUME NEW rows \in Rows
  PROVE  Apply(rows, NoChanges) = rows
BY DEF Apply, Rows, NoChanges, Nothing

LEMMA PendingIsRequest ==
  ASSUME TypeOK
  PROVE  Pending \in Request /\ (HasPending <=> Pending # NoChanges)
BY DEF TypeOK, Pending, Request, HasPending, NoChanges

(***************************************************************************)
(* Type correctness                                                        *)
(***************************************************************************)
LEMMA AdvanceIsStage ==
  ASSUME NEW st \in [Callers -> Stages], NEW from, NEW to \in Stages
  PROVE  Advance(st, from, to) \in [Callers -> Stages]
BY DEF Advance

LEMMA SettledIsStage ==
  ASSUME stage \in [Callers -> Stages], NEW ok \in BOOLEAN
  PROVE  Settled(ok) \in [Callers -> Stages]
BY DEF Settled, Stages

LEMMA FlushIsTyped ==
  ASSUME TypeOK, NEW st \in [Callers -> Stages], NEW from, NEW to \in Stages,
         FlushPending(st, from, to)
  PROVE  /\ inFlight' \in Request /\ busy' \in BOOLEAN
         /\ stage' \in [Callers -> Stages]
         /\ pendingInserts' \in Rows /\ pendingDeletes' \subseteq Keys
<1>1. "done" \in Stages
  BY DEF Stages
<1>2. stage' \in [Callers -> Stages]
  BY <1>1, AdvanceIsStage DEF FlushPending
<1>3. QED
  BY <1>2, PendingIsRequest, NothingIsRows DEF FlushPending, HasPending

LEMMA AfterUpdateIsTyped ==
  ASSUME TypeOK, NEW ok \in BOOLEAN, AfterUpdate(ok)
  PROVE  /\ inFlight' \in Request /\ busy' \in BOOLEAN /\ queued' \in BOOLEAN
         /\ stage' \in [Callers -> Stages]
         /\ pendingInserts' \in Rows /\ pendingDeletes' \subseteq Keys
<1>1. Settled(ok) \in [Callers -> Stages]
  BY SettledIsStage DEF TypeOK
<1>2. CASE queued /\ queued' = FALSE /\ FlushPending(Settled(ok), "queued", "queuedRun")
  <2>1. "queuedRun" \in Stages
    BY DEF Stages
  <2>2. QED
    BY <1>1, <1>2, <2>1, FlushIsTyped
<1>3. CASE /\ ~queued /\ busy' = FALSE /\ inFlight' = NoChanges
           /\ stage' = Settled(ok) /\ UNCHANGED <<pendingVars, queued>>
  BY <1>1, <1>3, NothingIsRows DEF TypeOK, pendingVars
<1>4. QED
  BY <1>2, <1>3 DEF AfterUpdate

(***************************************************************************)
(* The clients' actions preserve the invariant                             *)
(***************************************************************************)
LEMMA SetStep ==
  ASSUME IInv, NEW k \in Keys, NEW v \in Values, Set(k, v)
  PROVE  IInv'
<1> USE DEF IInv, Set, Changed, throttlerVars, dbVars
<1>1. TypeOK'
  BY ConstantsAssumption DEF TypeOK, Rows
<1>2. NothingLost'
  <2>1. SUFFICES ASSUME ~erroneous, NEW j \in Keys
                 PROVE  Apply(Apply(disk, inFlight), Pending')[j] = cache'[j]
    BY DEF NothingLost, Apply, TypeOK, Rows
  <2>2. Apply(Apply(disk, inFlight), Pending)[j] = cache[j]
    BY <2>1 DEF NothingLost
  <2>3. CASE j = k
    BY <2>3, ConstantsAssumption DEF Apply, Pending, TypeOK, Rows
  <2>4. CASE j # k
    BY <2>2, <2>4 DEF Apply, Pending, TypeOK, Rows
  <2>5. QED
    BY <2>3, <2>4
<1>3. Fresh' /\ Throttled'
  BY DEF Fresh, Throttled
<1>4. PendingHasFlush'
  BY DEF PendingHasFlush
<1>5. FlushOwes'
  BY DEF FlushOwes, TypeOK, Callers, Rows
<1>6. Closing' /\ ClosedIsDurable'
  BY DEF Closing, ClosedIsDurable
<1>7. QED
  BY <1>1, <1>2, <1>3, <1>4, <1>5, <1>6

LEMMA DeleteStep ==
  ASSUME IInv, NEW k \in Keys, Delete(k)
  PROVE  IInv'
<1> USE DEF IInv, Delete, Changed, throttlerVars, dbVars
<1>1. TypeOK'
  BY ConstantsAssumption DEF TypeOK, Rows
<1>2. NothingLost'
  <2>1. SUFFICES ASSUME ~erroneous, NEW j \in Keys
                 PROVE  Apply(Apply(disk, inFlight), Pending')[j] = cache'[j]
    BY DEF NothingLost, Apply, TypeOK, Rows
  <2>2. Apply(Apply(disk, inFlight), Pending)[j] = cache[j]
    BY <2>1 DEF NothingLost
  <2>3. CASE j = k
    BY <2>3 DEF Apply, Pending, TypeOK, Rows
  <2>4. CASE j # k
    BY <2>2, <2>4 DEF Apply, Pending, TypeOK, Rows
  <2>5. QED
    BY <2>3, <2>4
<1>3. Fresh' /\ Throttled'
  BY DEF Fresh, Throttled
<1>4. PendingHasFlush'
  BY DEF PendingHasFlush
<1>5. FlushOwes'
  BY DEF FlushOwes, TypeOK, Callers, Rows
<1>6. Closing' /\ ClosedIsDurable'
  BY DEF Closing, ClosedIsDurable
<1>7. QED
  BY <1>1, <1>2, <1>3, <1>4, <1>5, <1>6

LEMMA FlushStep ==
  ASSUME IInv, Flush
  PROVE  IInv'
<1> USE DEF IInv, Flush, pendingVars, throttlerVars, dbVars
<1>1. TypeOK'
  BY DEF TypeOK, Callers, Stages
<1>2. NothingLost' /\ Fresh' /\ Throttled' /\ PendingHasFlush'
  BY DEF NothingLost, Fresh, Throttled, PendingHasFlush, Pending, HasPending
<1>3. FlushOwes'
  BY DEF FlushOwes, TypeOK, Callers
<1>4. Closing' /\ ClosedIsDurable'
  BY DEF Closing, ClosedIsDurable, TypeOK, Callers
<1>5. QED
  BY <1>1, <1>2, <1>3, <1>4

LEMMA WhenFlushedStep ==
  ASSUME IInv, WhenFlushed
  PROVE  IInv'
<1> USE DEF IInv, WhenFlushed, pendingVars, throttlerVars, dbVars
<1>1. TypeOK'
  BY DEF TypeOK, Callers, Stages
<1>2. NothingLost' /\ Fresh' /\ Throttled' /\ PendingHasFlush'
  BY DEF NothingLost, Fresh, Throttled, PendingHasFlush, Pending, HasPending
<1>3. FlushOwes'
  BY DEF FlushOwes, TypeOK, Callers
<1>4. stage'["close"] = stage["close"]
  BY DEF TypeOK, Callers
<1>5. Closing' /\ ClosedIsDurable'
  BY <1>4 DEF Closing, ClosedIsDurable, Pending
<1>6. QED
  BY <1>1, <1>2, <1>3, <1>5

LEMMA CloseStep ==
  ASSUME IInv, Close
  PROVE  IInv'
<1> USE DEF IInv, Close, pendingVars, throttlerVars, dbVars
<1>1. TypeOK'
  BY DEF TypeOK, Callers, Stages
<1>2. NothingLost' /\ Fresh' /\ Throttled' /\ PendingHasFlush'
  BY DEF NothingLost, Fresh, Throttled, PendingHasFlush, Pending, HasPending
<1>3. FlushOwes'
  BY DEF FlushOwes, TypeOK, Callers
<1>4. stage'["close"] = "timer" /\ timer' /\ db' = "open"
  BY DEF TypeOK, Callers, Closing
<1>5. Closing' /\ ClosedIsDurable'
  BY <1>4 DEF Closing, ClosedIsDurable
<1>6. QED
  BY <1>1, <1>2, <1>3, <1>5

(***************************************************************************)
(* The delayer and the throttler preserve it                               *)
(***************************************************************************)
\* Handing what is pending to the database moves it, and loses nothing.
LEMMA FlushMoves ==
  ASSUME TypeOK, NEW rows \in Rows, NEW st, NEW from, NEW to,
         Apply(rows, Pending) = cache, FlushPending(st, from, to)
  PROVE  /\ Apply(Apply(rows, inFlight'), Pending') = cache
         /\ Pending' = NoChanges
         /\ ~busy' => inFlight' = NoChanges
<1>1. Pending' = NoChanges
  BY DEF FlushPending, Pending, NoChanges
<1>2. inFlight' = Pending /\ busy' = HasPending
  BY DEF FlushPending
<1>3. cache \in Rows
  BY DEF TypeOK
<1>4. QED
  BY <1>1, <1>2, <1>3, ApplyNoChanges, PendingIsRequest

LEMMA RunFlushStep ==
  ASSUME IInv, RunFlush
  PROVE  IInv'
<1> USE DEF IInv, RunFlush
<1>1. FlushPending(stage, "timer", "run") /\ UNCHANGED <<state, cache, queued, owed, disk, erroneous, db, changes, sessions>>
  BY DEF dbVars
<1>2. TypeOK'
  <2>1. stage \in [Callers -> Stages] /\ "run" \in Stages
    BY DEF TypeOK, Stages
  <2>2. QED
    BY <1>1, <2>1, FlushIsTyped DEF TypeOK
<1>3. disk \in Rows /\ inFlight = NoChanges /\ ~queued
  BY DEF TypeOK, Throttled
<1>4. NothingLost'
  BY <1>1, <1>3, ApplyNoChanges, FlushMoves DEF NothingLost, Fresh
<1>5. Pending' = NoChanges /\ ~HasPending'
  BY <1>1 DEF FlushPending, Pending, NoChanges, HasPending
<1>6. Throttled' /\ PendingHasFlush'
  <2>1. inFlight' = Pending /\ busy' = HasPending
    BY <1>1 DEF FlushPending
  <2>2. QED
    BY <1>1, <1>3, <1>5, <2>1, PendingIsRequest DEF Throttled, PendingHasFlush
<1>7. Fresh'
  BY <1>1 DEF Fresh
<1>8. FlushOwes'
  <2>1. \A k \in Keys : pendingInserts'[k] = Unset /\ k \notin pendingDeletes'
    BY <1>1 DEF FlushPending, Nothing
  <2>2. owed["flush"] \subseteq Keys /\ owed'["flush"] = owed["flush"]
    BY <1>1 DEF TypeOK, Callers
  <2>3. ASSUME NEW k \in owed["flush"], stage'["flush"] = "done"
        PROVE  inFlight'.insert[k] = Unset /\ k \notin inFlight'.delete
    <3>1. inFlight' = Pending
      BY <1>1 DEF FlushPending
    <3>2. CASE stage["flush"] = "timer"
      <4>1. ~HasPending
        BY <1>1, <2>3, <3>2 DEF FlushPending, Advance, Callers
      <4>2. QED
        BY <2>2, <3>1, <4>1 DEF HasPending, Pending, Nothing
    <3>3. CASE stage["flush"] # "timer"
      <4>1. stage["flush"] = "done"
        BY <1>1, <2>3, <3>3 DEF FlushPending, Advance, Callers
      <4>2. QED
        BY <3>1, <4>1 DEF FlushOwes, Pending
    <3>4. QED
      BY <3>2, <3>3
  <2>4. stage'["flush"] # "waiting"
    BY <1>1 DEF FlushPending, Advance, Callers, FlushOwes
  <2>5. QED
    BY <2>1, <2>2, <2>3, <2>4 DEF FlushOwes
<1>9. Closing' /\ ClosedIsDurable'
  <2>1. stage'["close"] = IF stage["close"] = "timer"
                          THEN (IF HasPending THEN "run" ELSE "done") ELSE stage["close"]
    BY <1>1 DEF FlushPending, Advance, Callers
  <2>2. ~HasPending => ~busy'
    BY <1>1, <1>5, PendingIsRequest DEF FlushPending
  <2>3. state = "Closed" => stage["close"] = "timer" /\ db = "open"
    BY DEF Closing
  <2>4. QED
    BY <1>1, <1>3, <1>5, <2>1, <2>2, <2>3 DEF Closing, ClosedIsDurable
<1>10. QED
  BY <1>2, <1>4, <1>6, <1>7, <1>8, <1>9

LEMMA QueueFlushStep ==
  ASSUME IInv, QueueFlush
  PROVE  IInv'
<1> USE DEF IInv, QueueFlush, pendingVars, dbVars
<1>1. TypeOK'
  <2>1. "queued" \in Stages
    BY DEF Stages
  <2>2. QED
    BY <2>1, AdvanceIsStage DEF TypeOK
<1>2. NothingLost' /\ Fresh' /\ Throttled' /\ PendingHasFlush'
  BY DEF NothingLost, Fresh, Throttled, PendingHasFlush, Pending, HasPending
<1>3. FlushOwes'
  <2>1. stage'["flush"] = IF stage["flush"] = "timer" THEN "queued" ELSE stage["flush"]
    BY DEF Advance, Callers
  <2>2. QED
    BY <2>1 DEF FlushOwes
<1>4. Closing' /\ ClosedIsDurable'
  <2>1. stage'["close"] = IF stage["close"] = "timer" THEN "queued" ELSE stage["close"]
    BY DEF Advance, Callers
  <2>2. state = "Closed" => stage["close"] = "timer" /\ db = "open"
    BY DEF Closing
  <2>3. QED
    BY <2>1, <2>2 DEF Closing, ClosedIsDurable
<1>5. QED
  BY <1>1, <1>2, <1>3, <1>4

(***************************************************************************)
(* The database's answers preserve it                                      *)
(***************************************************************************)
\* The two ways an answer ends: the queued flush takes over, or nothing runs.
LEMMA AfterUpdateCases ==
  ASSUME TypeOK, NEW ok \in BOOLEAN, AfterUpdate(ok)
  PROVE  /\ ~queued'
         /\ \/ /\ queued /\ FlushPending(Settled(ok), "queued", "queuedRun")
               /\ Pending' = NoChanges /\ inFlight' = Pending
            \/ /\ ~queued /\ ~busy' /\ inFlight' = NoChanges
               /\ stage' = Settled(ok)
               /\ pendingInserts' = pendingInserts /\ pendingDeletes' = pendingDeletes
BY DEF AfterUpdate, FlushPending, TypeOK, Pending, NoChanges, pendingVars

\* What becomes of the flush of caller c, which is not waiting for waiters.
LEMMA AfterUpdateStage ==
  ASSUME TypeOK, NEW ok \in BOOLEAN, AfterUpdate(ok), NEW c \in {"flush", "close"},
         stage[c] # "waiting"
  PROVE  /\ stage[c] = "run" => stage'[c] = IF ok THEN "done" ELSE "failed"
         /\ stage[c] = "queuedRun" => stage'[c] = IF ok THEN "done" ELSE "stuck"
         /\ stage[c] = "queued" =>
              stage'[c] = IF ~queued THEN "queued"
                          ELSE IF HasPending THEN "queuedRun" ELSE "done"
         /\ stage[c] \notin {"run", "queuedRun", "queued"} => stage'[c] = stage[c]
<1>1. /\ stage[c] = "run" => Settled(ok)[c] = IF ok THEN "done" ELSE "failed"
      /\ stage[c] = "queuedRun" => Settled(ok)[c] = IF ok THEN "done" ELSE "stuck"
      /\ stage[c] \notin {"run", "queuedRun"} => Settled(ok)[c] = stage[c]
  BY DEF Settled, Callers
<1>2. CASE queued
  <2>1. stage'[c] = IF Settled(ok)[c] = "queued"
                    THEN (IF HasPending THEN "queuedRun" ELSE "done") ELSE Settled(ok)[c]
    BY <1>2, AfterUpdateCases DEF FlushPending, Advance, Callers
  <2>2. CASE stage[c] \in {"run", "queuedRun"}
    BY <1>1, <2>1, <2>2
  <2>3. CASE stage[c] \notin {"run", "queuedRun"}
    BY <1>1, <1>2, <2>1, <2>3
  <2>4. QED
    BY <2>2, <2>3
<1>3. CASE ~queued
  <2>1. stage'[c] = Settled(ok)[c]
    BY <1>3, AfterUpdateCases
  <2>2. QED
    BY <1>1, <1>3, <2>1
<1>4. QED
  BY <1>2, <1>3

LEMMA AfterUpdateKeeps ==
  ASSUME IInv, busy, NEW ok \in BOOLEAN, AfterUpdate(ok),
         UNCHANGED <<state, timer, owed, db>>
  PROVE  Fresh' /\ Throttled' /\ PendingHasFlush' /\ FlushOwes' /\ Closing'
<1> USE DEF IInv
<1>1. Fresh'
  BY DEF Fresh
<1>2. Throttled'
  BY AfterUpdateCases, PendingIsRequest DEF Throttled, FlushPending
<1>3. PendingHasFlush'
  <2>1. CASE queued
    <3>1. Pending' = NoChanges
      BY <2>1, AfterUpdateCases
    <3>2. QED
      BY <3>1 DEF PendingHasFlush, HasPending, Pending, NoChanges
  <2>2. CASE ~queued
    BY <2>2, AfterUpdateCases DEF PendingHasFlush, HasPending
  <2>3. QED
    BY <2>1, <2>2
<1>4. FlushOwes'
  <2>1. stage["flush"] # "waiting" /\ owed["flush"] \subseteq Keys
    BY DEF FlushOwes, TypeOK, Callers
  <2>2. stage'["flush"] # "waiting"
    BY <2>1, AfterUpdateStage
  <2>3. CASE queued
    <3>1. Pending' = NoChanges /\ inFlight' = Pending
      BY <2>3, AfterUpdateCases
    <3>2. \A k \in Keys : pendingInserts'[k] = Unset /\ k \notin pendingDeletes'
      BY <3>1 DEF Pending, NoChanges, Nothing
    <3>3. ASSUME NEW k \in owed["flush"], stage'["flush"] = "done"
          PROVE  pendingInserts[k] = Unset /\ k \notin pendingDeletes
      <4>1. CASE stage["flush"] \in {"run", "queuedRun", "done"}
        BY <4>1 DEF FlushOwes
      <4>2. CASE stage["flush"] = "queued"
        <5>1. ~HasPending
          BY <2>1, <2>3, <3>3, <4>2, AfterUpdateStage
        <5>2. QED
          BY <2>1, <5>1 DEF HasPending, Nothing
      <4>3. QED
        BY <2>1, <3>3, <4>1, <4>2, AfterUpdateStage
    <3>4. QED
      BY <2>1, <2>2, <3>1, <3>2, <3>3 DEF FlushOwes, Pending
  <2>4. CASE ~queued
    <3>1. /\ inFlight' = NoChanges
          /\ pendingInserts' = pendingInserts /\ pendingDeletes' = pendingDeletes
      BY <2>4, AfterUpdateCases
    <3>2. stage'["flush"] \in {"run", "queuedRun", "done"} =>
            stage["flush"] \in {"run", "queuedRun", "done"}
      BY <2>1, <2>4, AfterUpdateStage
    <3>3. \A k \in Keys : NoChanges.insert[k] = Unset /\ k \notin NoChanges.delete
      BY DEF NoChanges, Nothing
    <3>4. QED
      BY <2>1, <2>2, <3>1, <3>2, <3>3 DEF FlushOwes
  <2>5. QED
    BY <2>3, <2>4
<1>5. Closing'
  <2>1. CASE state # "Closed"
    <3>1. stage["close"] = "idle"
      BY <2>1 DEF Closing
    <3>2. stage'["close"] = "idle"
      BY <3>1, AfterUpdateStage
    <3>3. QED
      BY <2>1, <3>2 DEF Closing
  <2>2. CASE state = "Closed"
    <3>1. stage["close"] # "waiting" /\ stage["close"] \notin {"done", "failed", "stuck"}
      BY <2>2 DEF Closing
    <3>2. ~queued' /\ db' = "open"
      BY <2>2, <3>1, AfterUpdateCases DEF Closing
    <3>3. CASE stage["close"] = "timer"
      BY <2>2, <3>1, <3>2, <3>3, AfterUpdateStage DEF Closing
    <3>4. CASE stage["close"] = "queued"
      <4>1. queued /\ ~timer
        BY <2>2, <3>4 DEF Closing
      <4>2. Pending' = NoChanges /\ busy' = HasPending
        BY <4>1, AfterUpdateCases DEF FlushPending
      <4>3. stage'["close"] = IF HasPending THEN "queuedRun" ELSE "done"
        BY <3>4, <4>1, AfterUpdateStage
      <4>4. QED
        BY <2>2, <3>2, <4>1, <4>2, <4>3 DEF Closing
    <3>5. CASE stage["close"] \in {"run", "queuedRun"}
      <4>1. ~queued /\ ~timer /\ Pending = NoChanges
        BY <2>2, <3>5 DEF Closing
      <4>2. Pending' = NoChanges /\ ~busy'
        BY <4>1, AfterUpdateCases DEF Pending
      <4>3. stage'["close"] \in {"done", "failed", "stuck"}
        BY <3>5, AfterUpdateStage
      <4>4. QED
        BY <2>2, <3>2, <4>1, <4>2, <4>3 DEF Closing
    <3>6. QED
      BY <2>2, <3>1, <3>3, <3>4, <3>5 DEF Closing, TypeOK, Stages, Callers
  <2>3. QED
    BY <2>1, <2>2
<1>6. QED
  BY <1>1, <1>2, <1>3, <1>4, <1>5

LEMMA UpdateSucceedsStep ==
  ASSUME IInv, UpdateSucceeds
  PROVE  IInv'
<1> USE DEF IInv, UpdateSucceeds
<1>1. disk \in Rows /\ inFlight \in Request /\ cache \in Rows
  BY DEF TypeOK
<1>2. disk' \in Rows
  BY <1>1, ApplyIsRows
<1>3. TypeOK'
  BY <1>2, AfterUpdateIsTyped DEF TypeOK
<1>4. Fresh' /\ Throttled' /\ PendingHasFlush' /\ FlushOwes' /\ Closing'
  BY AfterUpdateKeeps
<1>5. NothingLost'
  <2>1. SUFFICES ASSUME state # "None", ~erroneous
                 PROVE  Apply(Apply(disk', inFlight'), Pending') = cache
    BY DEF NothingLost
  <2>2. Apply(disk', Pending) = cache
    BY <2>1 DEF NothingLost
  <2>3. CASE queued
    BY <1>2, <2>2, <2>3, AfterUpdateCases, FlushMoves
  <2>4. CASE ~queued
    <3>1. inFlight' = NoChanges /\ Pending' = Pending
      BY <2>4, AfterUpdateCases DEF Pending
    <3>2. QED
      BY <1>2, <2>2, <3>1, ApplyNoChanges
  <2>5. QED
    BY <2>3, <2>4
<1>6. ClosedIsDurable'
  BY DEF Closing, ClosedIsDurable
<1>7. QED
  BY <1>3, <1>4, <1>5, <1>6

LEMMA UpdateTroubledStep ==
  ASSUME IInv, NEW lost \in SUBSET Keys, NEW ok \in BOOLEAN, UpdateTroubled(lost, ok)
  PROVE  IInv'
<1> USE DEF IInv, UpdateTroubled
<1>1. disk \in Rows /\ inFlight \in Request
  BY DEF TypeOK
<1>2. disk' \in Rows
  BY <1>1, ApplyIsRows DEF Rows
<1>3. TypeOK'
  BY <1>2, AfterUpdateIsTyped DEF TypeOK
<1>4. Fresh' /\ Throttled' /\ PendingHasFlush' /\ FlushOwes' /\ Closing'
  BY AfterUpdateKeeps
<1>5. NothingLost' /\ ClosedIsDurable'
  BY DEF NothingLost, Closing, ClosedIsDurable
<1>6. QED
  BY <1>3, <1>4, <1>5

(***************************************************************************)
(* So do init(), closing the database, and restarts                        *)
(***************************************************************************)
LEMMA InitSucceedsStep ==
  ASSUME IInv, InitSucceeds
  PROVE  IInv'
<1> USE DEF IInv, InitSucceeds, pendingVars, throttlerVars, dbVars
<1>1. TypeOK' /\ Fresh' /\ Throttled'
  BY DEF TypeOK, Fresh, Throttled
<1>2. inFlight = NoChanges /\ Pending = NoChanges /\ disk \in Rows
  BY DEF Fresh, Throttled, TypeOK
<1>3. NothingLost'
  BY <1>2, ApplyNoChanges DEF NothingLost, Pending
<1>4. PendingHasFlush' /\ FlushOwes' /\ Closing' /\ ClosedIsDurable'
  BY DEF PendingHasFlush, HasPending, FlushOwes, Closing, Pending, ClosedIsDurable
<1>5. QED
  BY <1>1, <1>3, <1>4

LEMMA InitFailsStep ==
  ASSUME IInv, InitFails
  PROVE  IInv'
<1> USE DEF IInv, InitFails, pendingVars, throttlerVars
<1>1. TypeOK' /\ Fresh' /\ Throttled' /\ NothingLost'
  BY DEF TypeOK, Fresh, Throttled, NothingLost
<1>2. PendingHasFlush' /\ FlushOwes' /\ Closing' /\ ClosedIsDurable'
  BY DEF PendingHasFlush, HasPending, FlushOwes, Closing, Pending, ClosedIsDurable
<1>3. QED
  BY <1>1, <1>2

\* When the database may be closed nothing is in flight and nothing pending.
LEMMA ReadyIsQuiet ==
  ASSUME IInv, db # "open" \/ ReadyToClose
  PROVE  /\ state = "Closed" /\ stage["close"] \in {"done", "failed"}
         /\ ~busy /\ inFlight = NoChanges /\ Pending = NoChanges
         /\ ~erroneous => disk = cache
<1>1. stage["close"] \in {"done", "failed"}
  BY DEF IInv, Closing, ReadyToClose
<1>2. state = "Closed"
  <2>1. CASE db # "open"
    BY <2>1 DEF IInv, Closing
  <2>2. CASE ReadyToClose /\ state # "Closed"
    BY <2>2 DEF IInv, Closing, ReadyToClose
  <2>3. QED
    BY <2>1, <2>2
<1>3. ~busy /\ Pending = NoChanges
  BY <1>1, <1>2 DEF IInv, Closing
<1>4. inFlight = NoChanges
  BY <1>3 DEF IInv, Throttled
<1>5. disk \in Rows
  BY DEF IInv, TypeOK
<1>6. QED
  BY <1>1, <1>2, <1>3, <1>4, <1>5, ApplyNoChanges DEF IInv, NothingLost

\* Steps that only touch the file, the connection and the state of closing.
LEMMA ClosingStep ==
  ASSUME IInv, ReadyToClose \/ db = "unlinked",
         UNCHANGED <<state, cache, pendingVars, timer, throttlerVars, stage, owed,
                     changes, sessions>>,
         disk' \in Rows, erroneous' \in BOOLEAN,
         db' \in {"unlinked", "closed", "failed"},
         ~erroneous' => ~erroneous /\ disk' = disk,
         db' = "unlinked" => erroneous',
         db' = "closed" => disk' = cache
  PROVE  IInv'
<1>1. /\ state = "Closed" /\ stage["close"] \in {"done", "failed"}
      /\ ~busy /\ inFlight = NoChanges /\ Pending = NoChanges
      /\ ~erroneous => disk = cache
  BY ReadyIsQuiet
<1> USE DEF IInv, pendingVars, throttlerVars
<1>2. TypeOK' /\ Fresh' /\ Throttled'
  BY <1>1 DEF TypeOK, Fresh, Throttled
<1>3. NothingLost'
  BY <1>1, ApplyNoChanges DEF NothingLost, Pending
<1>4. PendingHasFlush' /\ FlushOwes'
  BY DEF PendingHasFlush, HasPending, FlushOwes
<1>5. Closing' /\ ClosedIsDurable'
  BY <1>1 DEF Closing, ClosedIsDurable, Pending
<1>6. QED
  BY <1>2, <1>3, <1>4, <1>5

LEMMA DatabaseClosingStep ==
  ASSUME IInv, DatabaseClosing
  PROVE  IInv'
<1>1. disk \in Rows /\ cache \in Rows /\ Nothing \in Rows /\ erroneous \in BOOLEAN
  BY NothingIsRows DEF IInv, TypeOK
<1>2. CASE DatabaseCloses
  <2>1. disk = cache
    BY <1>2, ReadyIsQuiet DEF DatabaseCloses
  <2>2. QED
    BY <1>1, <1>2, <2>1, ClosingStep DEF DatabaseCloses
<1>3. CASE DatabaseUnlinks
  BY <1>1, <1>3, ClosingStep DEF DatabaseUnlinks
<1>4. ASSUME db = "unlinked"
      PROVE  erroneous
  BY <1>4 DEF IInv, Closing
<1>5. CASE DatabaseRecovers
  BY <1>1, <1>4, <1>5, ClosingStep DEF DatabaseRecovers
<1>6. CASE \E lost \in SUBSET Keys : RecoveryFails(lost)
  <2>1. PICK lost \in SUBSET Keys : RecoveryFails(lost)
    BY <1>6
  <2>2. disk' \in Rows
    BY <1>1, <2>1 DEF RecoveryFails, Rows
  <2>3. QED
    BY <1>1, <1>4, <2>1, <2>2, ClosingStep DEF RecoveryFails
<1>7. QED
  BY <1>2, <1>3, <1>5, <1>6 DEF DatabaseClosing

LEMMA RestartStep ==
  ASSUME IInv, Restart
  PROVE  IInv'
<1> USE DEF IInv, Restart
<1>1. TypeOK'
  <2>1. stage' \in [Callers -> Stages] /\ owed' \in [Callers -> SUBSET Keys]
    BY DEF Stages
  <2>2. cache' \in Rows /\ disk' \in Rows /\ pendingInserts' \in Rows /\ inFlight' \in Request
    BY NothingIsRows DEF TypeOK
  <2>3. changes' \in 0 .. MaxChanges /\ sessions' \in Nat
    BY DEF TypeOK
  <2>4. QED
    BY <2>1, <2>2, <2>3 DEF TypeOK
<1>2. Fresh' /\ Throttled' /\ NothingLost' /\ PendingHasFlush'
  BY DEF Fresh, Throttled, NothingLost, PendingHasFlush, HasPending, Pending, NoChanges
<1>3. FlushOwes' /\ Closing' /\ ClosedIsDurable'
  BY DEF FlushOwes, Closing, ClosedIsDurable, Callers
<1>4. QED
  BY <1>1, <1>2, <1>3

LEMMA InitIInv ==
  ASSUME Init
  PROVE  IInv
<1> USE DEF IInv, Init
<1>1. TypeOK
  <2>1. stage \in [Callers -> Stages] /\ owed \in [Callers -> SUBSET Keys]
    BY DEF Stages
  <2>2. cache \in Rows /\ disk \in Rows /\ pendingInserts \in Rows /\ inFlight \in Request
    BY NothingIsRows
  <2>3. changes \in 0 .. MaxChanges /\ sessions \in Nat
    BY ConstantsAssumption
  <2>4. QED
    BY <2>1, <2>2, <2>3 DEF TypeOK
<1>2. Fresh /\ Throttled /\ NothingLost /\ PendingHasFlush
  BY DEF Fresh, Throttled, NothingLost, PendingHasFlush, HasPending, Pending, NoChanges
<1>3. FlushOwes /\ Closing /\ ClosedIsDurable
  BY DEF FlushOwes, Closing, ClosedIsDurable, Callers
<1>4. QED
  BY <1>1, <1>2, <1>3

LEMMA StepIInv ==
  ASSUME IInv, [Next]_vars
  PROVE  IInv'
<1>1. CASE UNCHANGED vars
  BY <1>1 DEF vars, pendingVars, throttlerVars, dbVars, IInv, TypeOK, Fresh, Throttled,
     NothingLost, PendingHasFlush, HasPending, Pending, FlushOwes, Closing, ClosedIsDurable
<1>2. CASE Client
  BY <1>2, SetStep, DeleteStep, FlushStep, WhenFlushedStep, CloseStep DEF Client
<1>3. CASE Delayer
  BY <1>3, RunFlushStep, QueueFlushStep DEF Delayer
<1>4. CASE DatabaseStep
  BY <1>4, UpdateSucceedsStep, UpdateTroubledStep DEF DatabaseStep
<1>5. QED
  BY <1>1, <1>2, <1>3, <1>4, InitSucceedsStep, InitFailsStep, DatabaseClosingStep,
     RestartStep DEF Next

\* The inductive invariant holds in every reachable state.
THEOREM Invariance == Spec => []IInv
BY InitIInv, StepIInv, PTL DEF Spec

\* Every variable keeps its type.
THEOREM TypeCorrect == Spec => []TypeOK
<1>1. IInv => TypeOK
  BY DEF IInv
<1>2. QED
  BY <1>1, Invariance, PTL

\* No change is lost between set() and the file.
THEOREM NothingIsLost == Spec => []NothingLost
<1>1. IInv => NothingLost
  BY DEF IInv
<1>2. QED
  BY <1>1, Invariance, PTL

\* Whatever is pending has a flush that will take it.
THEOREM PendingIsScheduled == Spec => []PendingHasFlush
<1>1. IInv => PendingHasFlush
  BY DEF IInv
<1>2. QED
  BY <1>1, Invariance, PTL

\* A close() that succeeds leaves everything readers saw in the file.
THEOREM CloseIsDurable == Spec => []ClosedIsDurable
<1>1. IInv => ClosedIsDurable
  BY DEF IInv
<1>2. QED
  BY <1>1, Invariance, PTL

\* A flush(0) that resolves has written what was stored before it.
THEOREM FlushesAreDurable == Spec => []FlushIsDurable
<1>1. ASSUME IInv
      PROVE  FlushIsDurable
  <2>1. SUFFICES ASSUME stage["flush"] = "done", ~erroneous, NEW k \in owed["flush"]
                 PROVE  disk[k] = cache[k]
    BY DEF FlushIsDurable, Durable
  <2>2. k \in Keys /\ state # "None"
    BY <1>1, <2>1 DEF IInv, TypeOK, Fresh, Callers
  <2>3. Apply(Apply(disk, inFlight), Pending)[k] = cache[k]
    BY <1>1, <2>1, <2>2 DEF IInv, NothingLost
  <2>4. /\ pendingInserts[k] = Unset /\ k \notin pendingDeletes
        /\ inFlight.insert[k] = Unset /\ k \notin inFlight.delete
    BY <1>1, <2>1 DEF IInv, FlushOwes
  <2>5. Apply(Apply(disk, inFlight), Pending)[k] = disk[k]
    BY <2>2, <2>4 DEF Apply, Pending
  <2>6. QED
    BY <2>3, <2>5
<1>2. QED
  BY <1>1, Invariance, PTL

(***************************************************************************)
(* Nobody waits in vain, but for the promise of a queued flush that fails  *)
(***************************************************************************)
\* What each stage waits for is there: the delayer's timer, the flush queued in
\* the throttler, the update in the database, or changes that are still pending.
Pursued ==
  \A c \in Callers :
     /\ stage[c] = "timer" => timer
     /\ stage[c] = "queued" => queued
     /\ stage[c] \in {"run", "queuedRun"} => busy
     /\ stage[c] = "waiting" => HasPending \/ busy

\* Every caller who waits has the timer or an answer of the database ahead.
WorkAhead ==
  \A c \in Callers : stage[c] \notin {"idle", "done", "failed", "stuck"} => timer \/ busy

LEMMA ClientPursued ==
  ASSUME IInv, Pursued, Client
  PROVE  Pursued'
<1>1. stage \in [Callers -> Stages]
  BY DEF IInv, TypeOK
<1>2. ASSUME NEW k \in Keys, Delete(k) \/ \E v \in Values : Set(k, v)
      PROVE  Pursued'
  <2>1. timer' /\ UNCHANGED <<stage, queued, busy>>
    BY <1>2 DEF Set, Delete, Changed, throttlerVars
  <2>2. HasPending'
    <3>1. CASE Delete(k)
      BY <3>1 DEF Delete, HasPending
    <3>2. ASSUME NEW v \in Values, Set(k, v)
          PROVE  HasPending'
      <4>1. pendingInserts'[k] # Unset
        BY <3>2, ConstantsAssumption DEF Set, IInv, TypeOK, Rows
      <4> QED BY <4>1 DEF HasPending, Nothing
    <3> QED BY <1>2, <3>1, <3>2
  <2> QED BY <2>1, <2>2 DEF Pursued
<1>3. CASE Flush
  BY <1>1, <1>3 DEF Flush, Pursued, HasPending, pendingVars, throttlerVars
<1>4. CASE WhenFlushed
  BY <1>1, <1>4 DEF WhenFlushed, Pursued, HasPending, pendingVars, throttlerVars
<1>5. CASE Close
  BY <1>1, <1>5 DEF Close, Pursued, HasPending, pendingVars, throttlerVars
<1> QED BY <1>2, <1>3, <1>4, <1>5 DEF Client

LEMMA DelayerPursued ==
  ASSUME IInv, Pursued, Delayer
  PROVE  Pursued'
<1>1. CASE RunFlush
  <2>1. /\ ~busy /\ busy' = HasPending /\ queued' = queued
        /\ stage' = Advance(stage, "timer", IF HasPending THEN "run" ELSE "done")
    BY <1>1 DEF RunFlush, FlushPending
  <2>2. \A c \in Callers :
          stage'[c] = IF stage[c] = "timer" THEN (IF HasPending THEN "run" ELSE "done")
                      ELSE stage[c]
    BY <2>1 DEF Advance
  <2> QED BY <2>1, <2>2 DEF Pursued
<1>2. CASE QueueFlush
  <2>1. busy /\ busy' = busy /\ queued' /\ stage' = Advance(stage, "timer", "queued")
    BY <1>2 DEF QueueFlush
  <2>2. \A c \in Callers :
          stage'[c] = IF stage[c] = "timer" THEN "queued" ELSE stage[c]
    BY <2>1 DEF Advance
  <2> QED BY <2>1, <2>2 DEF Pursued
<1> QED BY <1>1, <1>2 DEF Delayer

LEMMA DatabasePursued ==
  ASSUME IInv, Pursued, DatabaseStep
  PROVE  Pursued'
<1>1. PICK ok \in BOOLEAN : AfterUpdate(ok) /\ timer' = timer
  BY DEF DatabaseStep, UpdateSucceeds, UpdateTroubled
<1>2. TypeOK
  BY DEF IInv
<1>3. \A c \in Callers :
        /\ Settled(ok)[c] \notin {"run", "queuedRun"}
        /\ Settled(ok)[c] = "waiting" => HasPending
        /\ Settled(ok)[c] \in {"timer", "queued"} => Settled(ok)[c] = stage[c]
  BY DEF Settled
<1>4. CASE queued
  <2>1. /\ busy' = HasPending
        /\ stage' = Advance(Settled(ok), "queued", IF HasPending THEN "queuedRun" ELSE "done")
    BY <1>1, <1>2, <1>4, AfterUpdateCases DEF FlushPending
  <2>2. \A c \in Callers :
          stage'[c] = IF Settled(ok)[c] = "queued"
                      THEN (IF HasPending THEN "queuedRun" ELSE "done") ELSE Settled(ok)[c]
    BY <2>1 DEF Advance
  <2> QED BY <1>1, <1>3, <2>1, <2>2 DEF Pursued
<1>5. CASE ~queued
  <2>1. stage' = Settled(ok) /\ HasPending' = HasPending
    BY <1>1, <1>2, <1>5, AfterUpdateCases DEF HasPending
  <2> QED BY <1>1, <1>3, <1>5, <2>1 DEF Pursued
<1> QED BY <1>4, <1>5

LEMMA StepPursued ==
  ASSUME IInv, Pursued, [Next]_vars
  PROVE  Pursued'
<1>1. ASSUME UNCHANGED <<stage, timer, queued, busy, pendingInserts, pendingDeletes>>
      PROVE  Pursued'
  BY <1>1 DEF Pursued, HasPending
<1>2. CASE UNCHANGED vars
  BY <1>1, <1>2 DEF vars, pendingVars, throttlerVars
<1>3. CASE InitSucceeds \/ InitFails
  BY <1>1, <1>3 DEF InitSucceeds, InitFails, pendingVars, throttlerVars
<1>4. CASE DatabaseClosing
  BY <1>1, <1>4 DEF DatabaseClosing, DatabaseCloses, DatabaseUnlinks, DatabaseRecovers,
     RecoveryFails, pendingVars, throttlerVars
<1>5. CASE Restart
  BY <1>5 DEF Restart, Pursued
<1> QED BY <1>2, <1>3, <1>4, <1>5, ClientPursued, DelayerPursued, DatabasePursued DEF Next

\* A caller of flush(), whenFlushed() or close() who waits has the timer of the
\* delayer or an update of the database ahead, however changes, flushes and
\* answers cross.  A promise of the throttler that is never settled (stuck) is
\* the one exception.
THEOREM CallersHaveWork == Spec => []WorkAhead
<1>1. Init => Pursued
  BY DEF Init, Pursued
<1>2. IInv /\ Pursued /\ [Next]_vars => Pursued'
  BY StepPursued
<1>3. ASSUME IInv, Pursued
      PROVE  WorkAhead
  <2>1. queued => busy
    BY <1>3 DEF IInv, Throttled
  <2>2. HasPending => timer \/ queued
    BY <1>3 DEF IInv, PendingHasFlush
  <2>3. stage \in [Callers -> Stages]
    BY <1>3 DEF IInv, TypeOK
  <2> QED BY <1>3, <2>1, <2>2, <2>3 DEF Pursued, WorkAhead, Stages
<1> QED BY <1>1, <1>2, <1>3, Invariance, PTL DEF Spec

(***************************************************************************)
(* Storage implements WriteBehind                                          *)
(***************************************************************************)
Mem == IF state = "None" THEN disk ELSE cache
Staged == IF erroneous THEN disk ELSE Apply(disk, inFlight)

LEMMA MappedTypes ==
  ASSUME TypeOK
  PROVE  Mem \in Rows /\ Staged \in Rows /\ disk \in Rows
BY ApplyIsRows DEF Mem, Staged, TypeOK

LEMMA ChangeMapped ==
  ASSUME IInv, NEW k \in Keys, Delete(k) \/ \E v \in Values : Set(k, v)
  PROVE  Disk!Change \/ Disk!Trouble
<1>1. TypeOK' /\ db = "open" /\ state = "Initialized" /\ state' = state
      /\ UNCHANGED <<inFlight, disk, erroneous, db>>
  BY SetStep, DeleteStep DEF IInv, Closing, Set, Delete, throttlerVars, dbVars
<1>2. Mem' \in Rows /\ Staged' \in Rows /\ disk' \in Rows
  BY <1>1, MappedTypes DEF Mem, Staged, TypeOK, Rows, Request, Apply
<1>3. QED
  BY <1>1, <1>2 DEF Disk!Change, Disk!Trouble, Mem, Staged

LEMMA QuietMapped ==
  ASSUME IInv, Flush \/ WhenFlushed \/ Close \/ QueueFlush \/ InitSucceeds
  PROVE  UNCHANGED Disk!vars
BY DEF Flush, WhenFlushed, Close, QueueFlush, InitSucceeds, Disk!vars, throttlerVars, dbVars

LEMMA RunFlushMapped ==
  ASSUME IInv, RunFlush
  PROVE  [Disk!Next]_Disk!vars
<1>1. /\ UNCHANGED <<state, cache, disk, erroneous, db>>
      /\ inFlight' = Pending
  BY DEF RunFlush, FlushPending, dbVars
<1>2. db # "closed" /\ state # "None"
  BY DEF RunFlush, IInv, Closing, Fresh
<1>3. CASE erroneous
  BY <1>1, <1>3 DEF Disk!vars
<1>4. CASE ~erroneous
  <2>1. inFlight = NoChanges /\ disk \in Rows
    BY DEF RunFlush, IInv, Throttled, TypeOK
  <2>2. Apply(disk, inFlight') = cache
    BY <1>1, <1>2, <1>4, <2>1, ApplyNoChanges DEF IInv, NothingLost
  <2>3. Disk!Stage
    BY <1>1, <1>2, <1>4, <2>2 DEF Disk!Stage
  <2>4. QED
    BY <2>3 DEF Disk!Next
<1>5. QED
  BY <1>3, <1>4

LEMMA UpdateMapped ==
  ASSUME IInv, DatabaseStep
  PROVE  Disk!Commit \/ Disk!Trouble
<1>1. busy /\ db = "open" /\ state # "None" /\ UNCHANGED <<state, cache, db>>
  BY DEF DatabaseStep, UpdateSucceeds, UpdateTroubled, IInv, Closing, Fresh
<1>2. TypeOK'
  BY UpdateSucceedsStep, UpdateTroubledStep DEF DatabaseStep, IInv
<1>3. Mem' \in Rows /\ Staged' \in Rows /\ disk' \in Rows
  <2>1. disk' \in Rows /\ cache' \in Rows /\ inFlight' \in Request
    BY <1>2 DEF TypeOK
  <2>2. Apply(disk', inFlight') \in Rows
    BY <2>1, ApplyIsRows
  <2>3. QED
    BY <2>1, <2>2 DEF Mem, Staged
<1>4. CASE erroneous'
  BY <1>1, <1>3, <1>4 DEF Disk!Trouble, Mem, Staged
<1>5. CASE ~erroneous'
  <2>1. UpdateSucceeds /\ ~erroneous
    <3>1. ASSUME NEW lost \in SUBSET Keys, NEW ok \in BOOLEAN, UpdateTroubled(lost, ok)
          PROVE  FALSE
      BY <1>5, <3>1 DEF UpdateTroubled
    <3>2. UpdateSucceeds
      BY <3>1 DEF DatabaseStep
    <3>3. erroneous' = erroneous
      BY <3>2 DEF UpdateSucceeds
    <3>4. QED
      BY <1>5, <3>2, <3>3
  <2>2. AfterUpdate(TRUE) /\ disk' = Apply(disk, inFlight)
    BY <2>1 DEF UpdateSucceeds
  <2>3. inFlight' = Pending \/ inFlight' = NoChanges
    BY <2>2, AfterUpdateCases DEF IInv
  <2>4. disk' \in Rows
    BY <1>2 DEF TypeOK
  <2>5. Apply(disk', inFlight') \in {Apply(disk, inFlight), cache}
    BY <1>1, <2>1, <2>2, <2>3, <2>4, ApplyNoChanges DEF IInv, NothingLost
  <2>6. QED
    BY <1>1, <1>5, <2>1, <2>2, <2>5 DEF Disk!Commit
<1>6. QED
  BY <1>4, <1>5

LEMMA ClosingMapped ==
  ASSUME IInv, DatabaseClosing
  PROVE  Disk!Close \/ Disk!Trouble
<1>1. TypeOK' /\ TypeOK
  BY DatabaseClosingStep DEF IInv
<1>2. /\ db # "closed" /\ (ReadyToClose \/ db = "unlinked")
      /\ UNCHANGED <<state, cache, inFlight>>
  BY DEF DatabaseClosing, DatabaseCloses, DatabaseUnlinks, DatabaseRecovers, RecoveryFails,
     ReadyToClose, throttlerVars
<1>3. /\ state = "Closed" /\ inFlight = NoChanges
      /\ ~erroneous => disk = cache
      /\ db = "unlinked" => erroneous
  BY <1>2, ReadyIsQuiet DEF IInv, Closing
<1>4. disk \in Rows /\ disk' \in Rows /\ cache \in Rows
  BY <1>1 DEF TypeOK
<1>5. Apply(disk, inFlight) = disk
  BY <1>3, <1>4, ApplyNoChanges
<1>6. CASE DatabaseCloses
  BY <1>2, <1>3, <1>5, <1>6 DEF DatabaseCloses, Disk!Close
<1>7. CASE DatabaseRecovers
  BY <1>2, <1>3, <1>7 DEF DatabaseRecovers, Disk!Close
<1>8. CASE DatabaseUnlinks
  BY <1>2, <1>3, <1>4, <1>8 DEF DatabaseUnlinks, Disk!Trouble
<1>9. CASE \E lost \in SUBSET Keys : RecoveryFails(lost)
  BY <1>2, <1>3, <1>4, <1>9 DEF RecoveryFails, Disk!Trouble
<1>10. QED
  BY <1>6, <1>7, <1>8, <1>9 DEF DatabaseClosing

LEMMA RestartMapped ==
  ASSUME IInv, Restart
  PROVE  Disk!Restart
<1>1. disk' \in Rows /\ disk' = disk /\ inFlight' = NoChanges
  BY DEF Restart, IInv, TypeOK
<1>2. Apply(disk', inFlight') = disk
  BY <1>1, ApplyNoChanges
<1>3. QED
  BY <1>1, <1>2 DEF Restart, Disk!Restart

LEMMA InitFailsMapped ==
  ASSUME IInv, InitFails
  PROVE  Disk!Trouble
<1>1. disk \in Rows /\ cache \in Rows /\ db = "open"
  BY DEF InitFails, IInv, TypeOK, Fresh
<1>2. QED
  BY <1>1 DEF InitFails, Disk!Trouble

\* The disk is always a whole earlier state of the cache, and all of it after
\* a successful close().
THEOREM Refinement == Spec => WriteBehindSpec
<1>1. Init => Disk!Init
  <2>1. SUFFICES ASSUME Init PROVE Disk!Init
    OBVIOUS
  <2>2. disk \in Rows /\ Apply(disk, inFlight) = disk
    BY <2>1, ApplyNoChanges DEF Init
  <2>3. QED
    BY <2>1, <2>2 DEF Init, Disk!Init
<1>2. IInv /\ [Next]_vars => [Disk!Next]_Disk!vars
  <2>1. SUFFICES ASSUME IInv, [Next]_vars
                 PROVE  [Disk!Next]_Disk!vars
    OBVIOUS
  <2>2. CASE UNCHANGED vars
    <3>1. UNCHANGED <<state, cache, disk, inFlight, erroneous, db>>
      BY <2>2 DEF vars, throttlerVars, dbVars
    <3>2. UNCHANGED Disk!vars
      BY <3>1 DEF Disk!vars
    <3>3. QED
      BY <3>2
  <2>3. CASE Client
    BY <2>1, <2>3, ChangeMapped, QuietMapped DEF Client, Disk!Next
  <2>4. CASE Delayer
    BY <2>1, <2>4, RunFlushMapped, QuietMapped DEF Delayer
  <2>5. CASE DatabaseStep
    BY <2>1, <2>5, UpdateMapped DEF Disk!Next
  <2>6. CASE DatabaseClosing
    BY <2>1, <2>6, ClosingMapped DEF Disk!Next
  <2>7. CASE InitSucceeds \/ InitFails \/ Restart
    BY <2>1, <2>7, QuietMapped, InitFailsMapped, RestartMapped DEF Disk!Next
  <2>8. QED
    BY <2>1, <2>2, <2>3, <2>4, <2>5, <2>6, <2>7 DEF Next
<1>3. QED
  BY <1>1, <1>2, Invariance, PTL DEF Spec, WriteBehindSpec, Disk!Spec
=============================================================================
