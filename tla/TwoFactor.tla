------------------------------- MODULE TwoFactor -------------------------------
(***************************************************************************)
(* Turning two-factor sign-in on and off (TwoFactorSetup.tsx, the rows and *)
(* dialogs of Settings.tsx, Dialog.tsx): enrol, verify a code, read the    *)
(* recovery codes, which the panel shows once.                             *)
(***************************************************************************)
CONSTANTS None

VARIABLES
    totp,       \* the panel: "off", "enrolled" (a secret waits for its code), "on"
    dialog,     \* None, "setup", "codes" or "confirm" (of turning it off)
    secret,     \* the setup dialog has shown the secret
    working,    \* busy of the setup dialog
    known,      \* the profile in the window says that two-factor is on
    enroll, verify, disable,    \* the calls: None, "asked", "ok" or "failed"
    asker,      \* the calls of the setup dialog belong to the one that is open
    strays,     \* of "enroll" and "verify": one of an earlier dialog may still reach the panel
    excused,    \* history: an answer was lost, the window was taken away, or a code was
                \* sent for a secret that this dialog did not show
    seen        \* history: the codes of the present two-factor were shown

vars == <<totp, dialog, secret, working, known, enroll, verify, disable, asker, strays, excused,
          seen>>

Init ==
    /\ totp = "off" /\ dialog = None /\ secret = FALSE /\ working = FALSE /\ known = FALSE
    /\ enroll = None /\ verify = None /\ disable = None /\ asker = FALSE /\ strays = {}
    /\ excused = FALSE /\ seen = FALSE

panel == <<totp, known, disable, strays, excused, seen>>

-----------------------------------------------------------------------------
(* The setup dialog *)

\* The answers to an earlier dialog's calls reach nobody; the panel may have yet to serve them.
OpenSetup ==
    /\ dialog = None /\ ~known
    /\ dialog' = "setup" /\ secret' = FALSE /\ working' = TRUE /\ asker' = TRUE
    /\ enroll' = "asked" /\ verify' = None
    /\ strays' = strays \cup {c \in {"enroll"} : enroll = "asked"} \cup {c \in {"verify"} : verify = "asked"}
    /\ UNCHANGED <<totp, known, disable, excused, seen>>

Enrolled ==
    /\ enroll \in {"ok", "failed"} /\ enroll' = None
    /\ IF asker /\ dialog = "setup"
       THEN working' = FALSE /\ secret' = (enroll = "ok")
       ELSE UNCHANGED <<working, secret>>
    /\ UNCHANGED <<dialog, verify, asker, panel>>

\* The form takes a code whether or not there is a secret to show.
SubmitCode ==
    /\ dialog = "setup" /\ ~working /\ verify = None
    /\ verify' = "asked" /\ working' = TRUE /\ excused' = (excused \/ ~secret)
    /\ UNCHANGED <<dialog, secret, enroll, asker, totp, known, disable, strays, seen>>

Dismissed == dialog' = None /\ asker' = FALSE

\* The dialog can be dismissed at any time.
AlwaysDismiss ==
    /\ dialog = "setup" /\ Dismissed
    /\ UNCHANGED <<secret, working, enroll, verify, panel>>

\* Esc, the backdrop and Cancel are locked while a code is verified.
Dismiss ==
    /\ dialog = "setup" /\ ~(working /\ secret) /\ Dismissed
    /\ UNCHANGED <<secret, working, enroll, verify, panel>>

Verified ==
    /\ verify \in {"ok", "failed"} /\ verify' = None
    /\ IF asker /\ dialog = "setup"
       THEN /\ working' = FALSE
            /\ dialog' = (IF verify = "ok" THEN "codes" ELSE "setup")
            /\ seen' = (seen \/ verify = "ok")
       ELSE UNCHANGED <<working, dialog, seen>>
    /\ UNCHANGED <<secret, enroll, asker, totp, known, disable, strays, excused>>

\* Done: the profile is read anew.
Finish ==
    /\ dialog = "codes" /\ Dismissed /\ known' \in {known, totp = "on"}
    /\ UNCHANGED <<secret, working, enroll, verify, totp, disable, strays, excused, seen>>

\* The session ends and the window is taken away with the dialog.
Leave ==
    /\ dialog # None /\ Dismissed /\ excused' = TRUE
    /\ UNCHANGED <<secret, working, enroll, verify, totp, known, disable, strays, seen>>

-----------------------------------------------------------------------------
(* Turning it off, and the panel *)

TurnOff ==
    /\ dialog = None /\ known /\ disable = None /\ dialog' = "confirm"
    /\ UNCHANGED <<secret, working, enroll, verify, asker, panel>>

Confirm ==
    /\ dialog = "confirm" /\ dialog' = None /\ disable' = "asked"
    /\ UNCHANGED <<secret, working, enroll, verify, asker, totp, known, strays, excused, seen>>

Cancel ==
    /\ dialog = "confirm" /\ dialog' = None
    /\ UNCHANGED <<secret, working, enroll, verify, asker, panel>>

Disabled ==
    /\ disable \in {"ok", "failed"} /\ disable' = None
    /\ known' \in IF disable = "ok" THEN {known, totp = "on"} ELSE {known}
    /\ UNCHANGED <<dialog, secret, working, enroll, verify, asker, totp, strays, excused, seen>>

\* The panel serves a call; its answer may be lost, which the window takes for a failure.
ServeEnroll ==
    /\ enroll = "asked" /\ enroll' \in {"ok", "failed"}
    /\ totp' \in (IF totp = "on" THEN {"on"} ELSE IF enroll' = "ok" THEN {"enrolled"} ELSE {totp, "enrolled"})
    /\ enroll' = "ok" => totp' = "enrolled"
    /\ UNCHANGED <<dialog, secret, working, known, verify, disable, asker, strays, excused, seen>>

ServeVerify ==
    /\ verify = "asked" /\ verify' \in {"ok", "failed"}
    /\ IF totp = "enrolled" THEN totp' \in {"enrolled", "on"} ELSE UNCHANGED totp
    /\ verify' = "ok" => totp = "enrolled" /\ totp' = "on"
    /\ excused' = (excused \/ (totp' # totp /\ verify' = "failed"))
    /\ UNCHANGED <<dialog, secret, working, known, enroll, disable, asker, strays, seen>>

ServeDisable ==
    /\ disable = "asked" /\ disable' \in {"ok", "failed"}
    /\ totp' \in IF disable' = "ok" THEN {"off"} ELSE {totp, "off"}
    /\ seen' = (seen /\ totp' = "on")
    /\ UNCHANGED <<dialog, secret, working, known, enroll, verify, asker, strays, excused>>

\* The panel serves a call of a dialog that is gone; there may be another.
ServeStray ==
    /\ \/ /\ "enroll" \in strays /\ totp # "on" /\ totp' = "enrolled"
          /\ strays' \in {strays, strays \ {"enroll"}}
       \/ /\ "verify" \in strays /\ totp = "enrolled" /\ totp' = "on"
          /\ strays' \in {strays, strays \ {"verify"}}
    /\ UNCHANGED <<dialog, secret, working, known, enroll, verify, disable, asker, excused, seen>>

Next ==
    \/ OpenSetup \/ Enrolled \/ SubmitCode \/ Dismiss \/ Verified \/ Finish \/ Leave
    \/ TurnOff \/ Confirm \/ Cancel \/ Disabled
    \/ ServeEnroll \/ ServeVerify \/ ServeDisable \/ ServeStray

Spec == Init /\ [][Next]_vars

TypeOK ==
    /\ totp \in {"off", "enrolled", "on"} /\ dialog \in {None, "setup", "codes", "confirm"}
    /\ {enroll, verify, disable} \subseteq {None, "asked", "ok", "failed"}
    /\ strays \subseteq {"enroll", "verify"}
    /\ {secret, working, known, asker, excused, seen} \subseteq BOOLEAN

(* TwoFactorSetup.tsx:103: two-factor is never turned on without its recovery codes having     *)
(* been shown or about to be, unless an answer is lost, the window is taken away or the dialog *)
(* showed no secret.                                                                           *)
CodesAreShown == totp = "on" => seen \/ excused \/ (asker /\ dialog = "setup" /\ verify = "ok")
=============================================================================
