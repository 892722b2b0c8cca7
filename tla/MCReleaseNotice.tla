--------------------------- MODULE MCReleaseNotice ---------------------------
(* Constants for model checking ReleaseNotice. *)
EXTENDS ReleaseNotice, TLC

NoticeKeys == {LastCheck, DismissedTag}
Numbers == (0 .. MaxTime) \cup (1 .. MaxRelease)
Symmetric == Permutations(Windows)
=============================================================================
