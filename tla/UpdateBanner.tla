------------------------------ MODULE UpdateBanner ------------------------------
(***************************************************************************)
(* The self-update of the window (UpdateBanner.tsx, updater.ts): checks on *)
(* launch, every six hours and by hand, one download, and the banner.      *)
(***************************************************************************)
VARIABLES
    phase,          \* "idle", "checking", "available", "downloading", "uptodate", "error"
    busyRef, pendingManual,
    check,          \* the check under way: "no", "auto" or "manual"
    install,        \* downloadAndInstall is under way
    fades,          \* a timer that takes "uptodate" away is running
    owed,           \* history: a check by hand has had no result yet
    clicked,        \* history: a check by hand fell into this download
    spurious        \* history: a result that nobody asked for was shown

flags == <<owed, clicked, spurious>>
vars  == <<phase, busyRef, pendingManual, check, install, fades, flags>>

Init ==
    /\ phase = "idle" /\ busyRef = FALSE /\ pendingManual = FALSE /\ check = "no"
    /\ install = FALSE /\ fades = FALSE
    /\ owed = FALSE /\ clicked = FALSE /\ spurious = FALSE

Begin(kind) == check' = kind /\ busyRef' = TRUE

\* busyRef is not looked at by the checks that the timer starts.
AutoAnyway ==
    /\ check = "no" /\ Begin("auto")
    /\ UNCHANGED <<phase, pendingManual, install, fades, flags>>

\* The check of the launch, or of the timer, gives way to whatever is under way.
AutoCheck ==
    /\ ~busyRef /\ Begin("auto")
    /\ UNCHANGED <<phase, pendingManual, install, fades, flags>>

\* A click during a check is not noted.
ForgottenClick ==
    /\ owed' = TRUE /\ phase' = "checking" /\ clicked' = (clicked \/ install)
    /\ IF busyRef THEN UNCHANGED <<check, busyRef>> ELSE Begin("manual")
    /\ UNCHANGED <<pendingManual, install, fades, spurious>>

\* The tray's "Check for updates": at once, or noted for what is under way.
ManualCheck ==
    /\ owed' = TRUE /\ phase' = "checking"
    /\ clicked' = (clicked \/ install)
    /\ IF busyRef THEN pendingManual' = TRUE /\ UNCHANGED <<check, busyRef>>
                  ELSE Begin("manual") /\ UNCHANGED pendingManual
    /\ UNCHANGED <<install, fades, spurious>>

\* checkForUpdate has answered: an update is always shown, the rest only to who asked.
CheckEnds(result) ==
    LET surface == check = "manual" \/ pendingManual IN
    /\ check # "no" /\ check' = "no"
    /\ phase' = IF result = "available" \/ surface THEN result ELSE phase
    /\ fades' = (fades \/ (result = "uptodate" /\ surface))
    /\ owed' = (owed /\ phase' # result)
    /\ spurious' = (spurious \/ (surface /\ ~owed /\ result # "available"))
    /\ busyRef' = FALSE /\ pendingManual' = FALSE
    /\ UNCHANGED <<install, clicked>>

Fade ==
    /\ fades /\ fades' \in BOOLEAN    \* of several timers only the last is the last
    /\ phase' = IF phase = "uptodate" THEN "idle" ELSE phase
    /\ UNCHANGED <<busyRef, pendingManual, check, install, flags>>

\* Later, or Dismiss.
Dismiss ==
    /\ phase \in {"available", "error"} /\ phase' = "idle"
    /\ UNCHANGED <<busyRef, pendingManual, check, install, fades, flags>>

Install ==
    /\ phase = "available" /\ ~busyRef /\ busyRef' = TRUE /\ install' = TRUE
    /\ phase' = "downloading"
    /\ UNCHANGED <<pendingManual, check, fades, flags>>

Progress ==
    /\ install /\ phase' = "downloading"
    /\ UNCHANGED <<busyRef, pendingManual, check, install, fades, flags>>

\* relaunch(): another process starts.
Relaunch ==
    /\ install /\ phase' = "idle" /\ busyRef' = FALSE /\ pendingManual' = FALSE /\ check' = "no"
    /\ install' = FALSE /\ fades' = FALSE /\ owed' = FALSE /\ clicked' = FALSE /\ spurious' = FALSE

\* A click that was noted during the download stays noted.
InstallFails ==
    /\ install /\ install' = FALSE /\ busyRef' = FALSE /\ phase' = "error" /\ owed' = FALSE
    /\ UNCHANGED <<pendingManual, check, fades, clicked, spurious>>

Next ==
    \/ AutoCheck \/ ManualCheck \/ Fade \/ Dismiss \/ Install \/ Progress \/ Relaunch \/ InstallFails
    \/ \E r \in {"available", "uptodate", "error"} : CheckEnds(r)

Spec == Init /\ [][Next]_vars

\* Checks and downloads end.
Fairness ==
    /\ WF_vars(\E r \in {"available", "uptodate", "error"} : CheckEnds(r))
    /\ SF_vars(Relaunch \/ InstallFails)

LiveSpec == Spec /\ Fairness

TypeOK ==
    /\ phase \in {"idle", "checking", "available", "downloading", "uptodate", "error"}
    /\ check \in {"no", "auto", "manual"}
    /\ {busyRef, pendingManual, install, fades, owed, clicked, spurious} \subseteq BOOLEAN

(* UpdateBanner.tsx:27-28, "so the user always gets a result": every check by hand.            *)
ManualIsAnswered == owed ~> ~owed

(* A download shows as a download and is alone, until somebody asks for a check during it; and *)
(* nobody is nagged (UpdateBanner.tsx:58) who did not ask, unless that click was noted by a    *)
(* download that failed.                                                                       *)
BannerIsTrue ==
    /\ install => check = "no" /\ (phase = "downloading" \/ clicked)
    /\ spurious => clicked

(* UpdateBanner.tsx:58-59 without the exception.                                               *)
NeverNagged == ~spurious
=============================================================================
