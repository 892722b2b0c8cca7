--------------------------- MODULE ReleaseNotice ---------------------------
(***************************************************************************)
(* The release notice of Remnants (workbench/contrib/remnants) in several  *)
(* windows: once a day ask the download site for the latest release and    *)
(* say so when it is new.  What the windows know of each other, the time   *)
(* of the last check and the dismissed release, are two keys of the        *)
(* SharedStorage, which every window reads in its own cache.               *)
(*                                                                         *)
(* now is the clock in hours, the interval of the timer; releases are      *)
(* numbered in their order, 0 is the running version.  An hour passes only *)
(* when every timer has fired, every request has ended (it times out in    *)
(* 20s) and the storage has settled (its timers take 100ms).               *)
(***************************************************************************)
EXTENDS SharedStorage, Integers

CONSTANTS
  CheckInterval,  \* CHECK_INTERVAL, in hours
  MaxTime,        \* bound: the clock stops
  MaxRelease      \* bound: no release after this one

LastCheck == "lastCheck"
DismissedTag == "dismissedTag"

ASSUME NoticeAssumption ==
  /\ CheckInterval \in Nat \ {0} /\ MaxTime \in Nat /\ MaxRelease \in Nat
  /\ Keys = {LastCheck, DismissedTag}
  /\ 0 .. MaxTime \subseteq Values /\ 1 .. MaxRelease \subseteq Values

VARIABLES
  now,
  allowed,    \* isCheckAllowed() of the settings
  looked,     \* windows that have looked at the gate since the last reason to
  asking,     \* requests of each window without an answer
  latest,     \* what the download site answers
  notices,    \* the notifications on show: a window and a release
  age,        \* history: hours since each window last asked
  lastDismissed  \* history: the release dismissed last

noticeVars == <<now, allowed, looked, asking, latest, notices, age, lastDismissed>>
allVars == <<sharedVars, noticeVars>>

NoticeInit ==
  /\ Init
  /\ main \in [Keys -> {Unset, 0}] /\ main[DismissedTag] = Unset
  /\ now = 0 /\ allowed \in BOOLEAN
  /\ looked = {}
  /\ asking = [w \in Windows |-> 0]
  /\ latest = 0 /\ notices = {}
  /\ age = [w \in Windows |-> IF main[LastCheck] = 0 THEN 0 ELSE CheckInterval]
  /\ lastDismissed = 0

\* Nothing is under way in the storage, and no window is starting or closing.
Settled ==
  /\ changed = {}
  /\ \A w \in Windows : /\ status[w] \in {"open", "closed"}
                        /\ pending[w] = NoChange /\ ~busy[w]
                        /\ toMain[w] = <<>> /\ toWindow[w] = <<>>

IsOpen(w) == status[w] = "open"

Store(w, k, v) == IF cache[w][k] = v THEN UNCHANGED sharedVars ELSE Set(w, k, v)

(***************************************************************************)
(* checkIfDue()                                                            *)
(***************************************************************************)
\* Mutant: a check in the future counts, whatever happened to the clock.
DueAfterInterval(lastCheck) ==
  lastCheck # Unset => now - lastCheck >= CheckInterval
IsCheckDue(lastCheck) ==
  lastCheck # Unset => now < lastCheck \/ now - lastCheck >= CheckInterval

\* The timer, a change of the settings, or a window that has just opened.
Look(w) ==
  /\ IsOpen(w) /\ w \notin looked
  /\ looked' = looked \cup {w}
  /\ UNCHANGED <<now, allowed, latest, notices, lastDismissed>>

NotDue(w) ==
  /\ Look(w)
  /\ ~allowed \/ ~IsCheckDue(cache[w][LastCheck])
  /\ UNCHANGED <<sharedVars, asking, age>>

\* Mutant: the check is not recorded before the request.
AskFirst(w) ==
  /\ Look(w)
  /\ allowed /\ IsCheckDue(cache[w][LastCheck])
  /\ UNCHANGED sharedVars
  /\ asking' = [asking EXCEPT ![w] = @ + 1]
  /\ age' = [age EXCEPT ![w] = 0]

\* The time is stored before the site is asked.
Ask(w) ==
  /\ Look(w)
  /\ allowed /\ IsCheckDue(cache[w][LastCheck])
  /\ Store(w, LastCheck, now)
  /\ asking' = [asking EXCEPT ![w] = @ + 1]
  /\ age' = [age EXCEPT ![w] = 0]

(***************************************************************************)
(* check() and notify()                                                    *)
(***************************************************************************)
\* Mutant: what was dismissed is not looked at.
NotifyAnyNewer(tag, dismissedTag) == tag > 0
ShouldNotify(tag, dismissedTag) == tag # dismissedTag /\ tag > 0

\* The request ends: with the latest release, or with an error.
Answered(w) ==
  /\ IsOpen(w) /\ asking[w] > 0
  /\ asking' = [asking EXCEPT ![w] = @ - 1]
  /\ \/ /\ ShouldNotify(latest, cache[w][DismissedTag])
        /\ notices' = notices \cup {<<w, latest>>}
     \/ UNCHANGED notices
  /\ UNCHANGED <<sharedVars, now, allowed, looked, latest, age, lastDismissed>>

\* Don't Show Again.  Who clicks is slower than the storage.
Dismiss(w, tag) ==
  /\ <<w, tag>> \in notices /\ IsOpen(w) /\ Settled
  /\ notices' = notices \ {<<w, tag>>}
  /\ Store(w, DismissedTag, tag)
  /\ lastDismissed' = tag
  /\ UNCHANGED <<now, allowed, looked, asking, latest, age>>

\* The notification is closed, or the download page opened.
CloseNotice(w, tag) ==
  /\ <<w, tag>> \in notices
  /\ notices' = notices \ {<<w, tag>>}
  /\ UNCHANGED <<sharedVars, now, allowed, looked, asking, latest, age, lastDismissed>>

(***************************************************************************)
(* The world                                                               *)
(***************************************************************************)
AllLooked == \A w \in Windows : IsOpen(w) => w \in looked

Tick ==
  /\ now < MaxTime /\ now' = now + 1
  /\ Settled /\ AllLooked /\ \A w \in Windows : asking[w] = 0
  /\ looked' = {}
  /\ age' = [w \in Windows |-> IF age[w] < CheckInterval THEN age[w] + 1 ELSE age[w]]
  /\ UNCHANGED <<sharedVars, allowed, asking, latest, notices, lastDismissed>>

\* The user sets the clock back; what is a day begins anew.
SetBack(t) ==
  /\ t < now /\ now' = t
  /\ Settled /\ AllLooked
  /\ looked' = {}
  /\ age' = [w \in Windows |-> CheckInterval]
  /\ UNCHANGED <<sharedVars, allowed, asking, latest, notices, lastDismissed>>

\* A change of the settings reaches all windows at once.
ChangeSettings ==
  /\ Settled /\ AllLooked
  /\ allowed' = ~allowed
  /\ looked' = {}
  /\ UNCHANGED <<sharedVars, now, asking, latest, notices, age, lastDismissed>>

Publish ==
  /\ latest < MaxRelease /\ latest' = latest + 1
  /\ UNCHANGED <<sharedVars, now, allowed, looked, asking, notices, age, lastDismissed>>

\* Windows open and close; what a window shows and waits for goes with it.
Come(w) ==
  /\ Open(w)
  /\ UNCHANGED noticeVars

Leave(w) ==
  /\ Close(w)
  /\ looked' = looked \ {w}
  /\ asking' = [asking EXCEPT ![w] = 0]
  /\ notices' = {n \in notices : n[1] # w}
  /\ UNCHANGED <<now, allowed, latest, age, lastDismissed>>

NoticeNext ==
  \/ Propagate /\ UNCHANGED noticeVars
  \/ \E w \in Windows :
       \/ NotDue(w) \/ Ask(w) \/ Answered(w) \/ Come(w) \/ Leave(w)
       \/ \E tag \in 1 .. MaxRelease : Dismiss(w, tag) \/ CloseNotice(w, tag)
  \/ Tick \/ ChangeSettings \/ Publish
  \/ \E t \in 0 .. MaxTime : SetBack(t)

NoticeSpec == NoticeInit /\ [][NoticeNext]_allVars

(***************************************************************************)
(* Properties                                                              *)
(***************************************************************************)
\* Types.
NoticeTypeOK ==
  /\ TypeOK
  /\ now \in 0 .. MaxTime /\ allowed \in BOOLEAN
  /\ looked \in SUBSET Windows /\ asking \in [Windows -> Nat]
  /\ latest \in 0 .. MaxRelease
  /\ notices \in SUBSET (Windows \X (1 .. MaxRelease))
  /\ age \in [Windows -> 0 .. CheckInterval]
  /\ lastDismissed \in 0 .. MaxRelease

Asks(w) == asking'[w] > asking[w]

\* "Once a day, ask the Remnants download site": a window does not ask twice a day, whatever comes back to
\* it from the storage, also when the request fails; and once the storage has
\* settled no other window asks either.
OnceADayEach ==
  [][\A w, v \in Windows :
       Asks(w) /\ (w = v \/ Settled) => age[v] >= CheckInterval]_allVars

\* A window that stays open checks every day: when the windows have looked and
\* the storage has settled, the last check is less than a day old, also when
\* the clock was set back.
CheckedToday ==
  allowed /\ Settled /\ AllLooked /\ (\E w \in Windows : IsOpen(w)) =>
    main[LastCheck] \in {t \in 0 .. now : now - t < CheckInterval}

\* Once a dismissal has settled, no window shows that release again, also one
\* that had asked before.
DismissedStays ==
  [][\A w \in Windows, tag \in 1 .. MaxRelease :
       <<w, tag>> \in notices' \ notices /\ Settled => tag # lastDismissed]_allVars
=============================================================================
