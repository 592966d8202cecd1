----------------------------- MODULE WindowSession -----------------------------
(***************************************************************************)
(* The window's sign-in store (auth.ts), the screens that call it (App,    *)
(* SignIn, Reconnecting, ForcePasswordChange) and the requests of the      *)
(* servers store, which alone tell it that a session is gone.  The backend *)
(* is only the session it holds; AuthManager models how it comes to it.    *)
(***************************************************************************)
EXTENDS Naturals, FiniteSets

CONSTANTS
    Calls,      \* bound: handlers of the store that are under way together
    MaxOrphans  \* bound: timers that nothing refers to

VARIABLES
    session,    \* the backend's session: "none", "saved" (not resumed yet), "live"
    status, busy, mustChange,   \* the store; mustChange is of the profile it keeps
    suite,      \* the profile is of staff, and the view that nav.ts keeps is the staff suite;
                \* a sign-in may find any view kept (AdminAccess says which)
    request,    \* of the servers store: "none", "asked", or "expired": answered so
    armed,      \* reconnectTimer is set
    orphans,    \* timers that still run though reconnectTimer no longer refers to them
    handlers,   \* each call: the operation, whether it is in its init(), and the answer
    byHand      \* history: somebody has pressed Sign out

profile == <<mustChange, suite>>
store   == <<status, busy, profile>>
timers  == <<armed, orphans>>
vars    == <<session, store, request, timers, handlers, byHand>>

Free == [op |-> "free", stage |-> "op", answer |-> "none"]
Submits == {"login", "verify", "change"}
Answers == {"none", "ok", "mfa", "failed", "in", "locked", "offline", "out"}

Asks(op, stage) == [op |-> op, stage |-> stage, answer |-> "none"]
InInit(c) == handlers[c].op # "free" /\ handlers[c].stage = "init"
Under(ops) == {c \in Calls : handlers[c].op \in ops}

\* What is shown of a session: the screen for a new password, the staff suite, or the servers.
OnServers == status = "signedIn" /\ ~mustChange /\ ~suite
InSuite   == status = "signedIn" /\ ~mustChange /\ suite

Init ==
    /\ session \in {"none", "saved"}
    /\ status = "loading" /\ busy = FALSE /\ mustChange = FALSE /\ suite = FALSE
    /\ request = "none"
    /\ armed = FALSE /\ orphans = 0 /\ byHand = FALSE
    /\ handlers = [c \in Calls |-> Free]

-----------------------------------------------------------------------------
(* What starts a handler of the store; each goes on from the answer *)

Start(op, stage) ==
    \E c \in Calls : handlers[c] = Free /\ handlers' = [handlers EXCEPT ![c] = Asks(op, stage)]

\* init() first clears the timer that the store knows of.
CallInit == Start("init", "init") /\ armed' = FALSE /\ UNCHANGED <<session, store, request, byHand>>

\* App's effect.
Mount == status = "loading" /\ Under({"init"}) = {} /\ CallInit /\ UNCHANGED orphans
Retry == armed /\ CallInit /\ UNCHANGED orphans
OrphanFires == orphans > 0 /\ CallInit /\ orphans' = orphans - 1
TryNow == status = "offline" /\ CallInit /\ UNCHANGED orphans
\* Settings and an answer to the servers store have the profile read anew; no screen of the suite
\* does.
Recheck == (OnServers \/ request # "none") /\ CallInit /\ UNCHANGED orphans

Submit(op) ==
    /\ ~busy /\ Start(op, "op") /\ busy' = TRUE
    /\ UNCHANGED <<session, status, profile, request, timers, byHand>>

Login == status = "signedOut" /\ Submit("login")
Verify == status = "mfa" /\ Submit("verify")
ChangePassword == status = "signedIn" /\ mustChange /\ Submit("change")

\* No Sign out button looks at busy, and the suite has none.
Logout ==
    /\ status \in {"offline", "signedIn"} /\ ~InSuite /\ Start("logout", "op")
    /\ armed' = FALSE /\ busy' = TRUE /\ byHand' = TRUE
    /\ UNCHANGED <<session, status, profile, request, orphans>>

BackToSignIn ==
    /\ status = "mfa" /\ status' = "signedOut"
    /\ UNCHANGED <<session, busy, profile, request, timers, handlers, byHand>>

\* The shield in the servers' header, and Back to my servers.
SwitchView ==
    /\ status = "signedIn" /\ ~mustChange /\ suite' = ~suite
    /\ UNCHANGED <<session, status, busy, mustChange, request, timers, handlers, byHand>>

\* The servers screen asks when it is mounted and then again and again.
Poll ==
    /\ OnServers /\ request = "none" /\ request' = "asked"
    /\ UNCHANGED <<session, store, timers, handlers, byHand>>

\* Any other answer, or a failure; of a session that is gone the servers screen, as long as it is
\* shown, asks again.
PollEnds ==
    /\ request = "asked" /\ (session # "none" \/ ~OnServers) /\ request' = "none"
    /\ UNCHANGED <<session, store, timers, handlers, byHand>>

\* The answer that the session is gone is taken for any other.
PollUnheeded ==
    /\ request = "asked" /\ session = "none" /\ request' = "none"
    /\ UNCHANGED <<session, store, timers, handlers, byHand>>

PollExpires ==
    /\ request = "asked" /\ session = "none" /\ request' = "expired"
    /\ UNCHANGED <<session, store, timers, handlers, byHand>>

\* Told whatever screen is shown by now, and others of the store's requests may be under way.
SessionExpired ==
    /\ request = "expired" /\ request' \in {"none", "asked"}
    /\ status' = "signedOut" /\ mustChange' = FALSE /\ suite' = FALSE
    /\ UNCHANGED <<session, busy, timers, handlers, byHand>>

-----------------------------------------------------------------------------
(* The backend and the panel *)

\* auth_status: the answer and what becomes of the session; "locked" asks for a new password.
AuthStatus ==
    LET signedIn == {"in", "locked"} \X {"live"} IN
    CASE session = "none"  -> {<<"out", "none">>}
      [] session = "saved" -> {<<"offline", "saved">>, <<"out", "none">>} \cup signedIn
      [] session = "live"  -> {"offline", "out"} \X {"live"} \cup {<<"out", "none">>} \cup signedIn

\* The command of a submit or of a sign-out.
Command(op) ==
    CASE op = "login"  -> {<<"ok", "live">>, <<"mfa", session>>, <<"failed", session>>}
      [] op = "verify" -> {<<"ok", "live">>, <<"failed", session>>}
      [] op = "change" -> {<<"failed", session>>} \cup (IF session = "live" THEN {"ok"} \X {"live", "none"} ELSE {})
      [] op = "logout" -> {<<"ok", "none">>}

Serve(c) ==
    /\ handlers[c] # Free /\ handlers[c].answer = "none"
    /\ \E r \in IF InInit(c) THEN AuthStatus ELSE Command(handlers[c].op) :
         /\ handlers' = [handlers EXCEPT ![c].answer = r[1]]
         /\ session' = r[2]
    /\ UNCHANGED <<store, request, timers, byHand>>

Revoke == session = "live" /\ session' = "none" /\ UNCHANGED <<store, request, timers, handlers, byHand>>

-----------------------------------------------------------------------------
(* The window goes on from an answer *)

\* Nothing is armed.
NoTimer(a) == UNCHANGED timers

\* Offline arms the timer, without clearing one that another init() has armed meanwhile.
Rearm(a) ==
    /\ armed' = (armed \/ a = "offline")
    /\ orphans' = orphans + (IF armed /\ a = "offline" THEN 1 ELSE 0) /\ orphans' <= MaxOrphans

InitAnswered(c) ==
    LET a == handlers[c].answer IN
    /\ InInit(c) /\ a # "none" /\ Rearm(a)
    /\ status' = CASE a \in {"in", "locked"} -> "signedIn" [] a = "offline" -> "offline" [] OTHER -> "signedOut"
    /\ mustChange' = (a = "locked")
    /\ suite' \in (IF a \in {"in", "locked"} THEN BOOLEAN ELSE {FALSE})
    /\ busy' = (busy /\ handlers[c].op = "init")
    /\ handlers' = [handlers EXCEPT ![c] = Free]
    /\ UNCHANGED <<session, request, byHand>>

\* busy is released before init() has ended.
EarlyRelease(c) ==
    /\ ~InInit(c) /\ handlers[c].op \in Submits /\ handlers[c].answer = "ok"
    /\ handlers' = [handlers EXCEPT ![c] = Asks(handlers[c].op, "init")]
    /\ armed' = FALSE /\ busy' = FALSE
    /\ UNCHANGED <<session, status, profile, request, orphans, byHand>>

\* A submit that has worked goes on with init() and stays busy.
Succeeded(c) ==
    /\ ~InInit(c) /\ handlers[c].op \in Submits /\ handlers[c].answer = "ok"
    /\ handlers' = [handlers EXCEPT ![c] = Asks(handlers[c].op, "init")]
    /\ armed' = FALSE
    /\ UNCHANGED <<session, store, request, orphans, byHand>>

\* A challenge, a refusal or the end of a sign-out; a refused code may find the challenge too old.
Ended(c) ==
    LET op == handlers[c].op
        a  == handlers[c].answer IN
    /\ ~InInit(c) /\ a # "none" /\ ~(op \in Submits /\ a = "ok")
    /\ status' \in CASE op = "logout" -> {"signedOut"}
                     [] op = "login" /\ a = "mfa" -> {"mfa"}
                     [] op = "verify" -> {status, "signedOut"}
                     [] OTHER -> {status}
    /\ busy' = FALSE
    /\ mustChange' = (mustChange /\ op # "logout") /\ suite' = (suite /\ op # "logout")
    /\ handlers' = [handlers EXCEPT ![c] = Free]
    /\ UNCHANGED <<session, request, timers, byHand>>

\* A call has one thing to do at a time.
Proceed(c) == Serve(c) \/ InitAnswered(c) \/ Succeeded(c) \/ Ended(c)

-----------------------------------------------------------------------------
Next ==
    \/ Mount \/ Retry \/ OrphanFires \/ TryNow \/ Recheck
    \/ Login \/ Verify \/ ChangePassword \/ Logout \/ BackToSignIn
    \/ SwitchView \/ Poll \/ PollEnds \/ PollExpires \/ SessionExpired
    \/ Revoke
    \/ \E c \in Calls : Proceed(c)

Spec == Init /\ [][Next]_vars

\* Calls end, timers fire, and the servers screen asks as long as it is shown of a panel that is not
\* out of reach for ever. In the suite nothing asks; what was asked before need not find out.
Fairness ==
    /\ \A c \in Calls : WF_vars(Proceed(c))
    /\ WF_vars(Retry) /\ WF_vars(Poll \/ PollExpires \/ SessionExpired)

LiveSpec == Spec /\ Fairness

-----------------------------------------------------------------------------
TypeOK ==
    /\ session \in {"none", "saved", "live"}
    /\ status \in {"loading", "signedOut", "offline", "mfa", "signedIn"}
    /\ busy \in BOOLEAN /\ mustChange \in BOOLEAN /\ suite \in BOOLEAN
    /\ request \in {"none", "asked", "expired"}
    /\ armed \in BOOLEAN /\ orphans \in 0..MaxOrphans /\ byHand \in BOOLEAN
    /\ handlers \in [Calls -> [op : {"free", "init", "logout"} \cup Submits,
                               stage : {"op", "init"}, answer : Answers]]

(* The reconnecting screen is never left without something that will try again or leave it     *)
(* (Reconnecting.tsx: "This retries automatically").                                           *)
OfflineRetries ==
    status = "offline" => armed \/ orphans > 0 \/ (\E c \in Calls : InInit(c)) \/ Under({"logout"}) # {}

(* auth.ts:71: as long as nobody signs out, busy says exactly that a submit is under way, so   *)
(* there are never two.                                                                        *)
OneSubmit == ~byHand => Cardinality(Under(Submits)) <= 1 /\ (busy <=> Under(Submits) # {})

(* A session that is gone is seen to be gone (auth.ts:158), however sign-ins, sign-outs and     *)
(* late answers follow each other, but on two screens that ask nothing of the servers store:   *)
(* the one for a new password, and the staff suite, for whoever comes back to it.              *)
SignOutShows ==
    <>(status # "loading") /\ <>[](session = "none") =>
        <>[](status \in {"signedOut", "mfa"} \/ (status = "signedIn" /\ mustChange)) \/ []<>InSuite

(* auth.ts:158-160 with no exception.                                                          *)
NeverStranded == <>[](session = "none") => <>[](status # "signedIn")

(* auth.ts:12: the timer "never stacks".                                                       *)
TimerNeverStacks == orphans = 0

(* auth.ts:175: "Local sign-out always wins": it is not undone by an answer from before.       *)
SignOutWins ==
    [][\A c \in Calls : handlers[c].op = "init" /\ InitAnswered(c) =>
          ~(status = "signedOut" /\ status' = "signedIn" /\ session = "none")]_vars
=============================================================================
