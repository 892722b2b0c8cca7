----------------------------- MODULE WriteBehind -----------------------------
(***************************************************************************)
(* What a write-behind store promises (IStorage over IStorageDatabase in   *)
(* base/parts/storage/common/storage.ts).  The memory changes freely; the  *)
(* disk only ever moves to a whole earlier state of the memory, forward,   *)
(* one staged snapshot at a time, so a crash at any point leaves a         *)
(* consistent older state.  A database in trouble breaks that promise      *)
(* until closing repairs it: a closed store has all of the memory on disk. *)
(***************************************************************************)
CONSTANT Contents

VARIABLES
  mem,     \* what readers see
  staged,  \* the last state of mem handed to the database
  disk,    \* what a crash would leave
  sound,   \* the database has had no errors
  closed   \* close() has succeeded

vars == <<mem, staged, disk, sound, closed>>

Init ==
  /\ disk \in Contents /\ mem = disk /\ staged = disk
  /\ sound = TRUE /\ closed = FALSE

Change ==
  /\ sound /\ ~closed
  /\ mem' \in Contents
  /\ UNCHANGED <<staged, disk, sound, closed>>

Stage ==
  /\ sound /\ ~closed
  /\ staged' = mem
  /\ UNCHANGED <<mem, disk, sound, closed>>

\* The next snapshot may be staged as soon as one has been written.
Commit ==
  /\ sound /\ ~closed
  /\ disk' = staged /\ staged' \in {staged, mem}
  /\ UNCHANGED <<mem, sound, closed>>

Trouble ==
  /\ ~closed
  /\ mem' \in Contents /\ staged' \in Contents /\ disk' \in Contents
  /\ sound' = FALSE
  /\ UNCHANGED closed

Close ==
  /\ ~closed /\ closed' = TRUE
  /\ disk' = mem /\ staged' = mem
  /\ UNCHANGED <<mem, sound>>

\* The process exits or dies; the next one starts from the disk.
Restart ==
  /\ mem' = disk /\ staged' = disk
  /\ sound' = TRUE /\ closed' = FALSE
  /\ UNCHANGED disk

Next == Change \/ Stage \/ Commit \/ Trouble \/ Close \/ Restart

Spec == Init /\ [][Next]_vars
=============================================================================
