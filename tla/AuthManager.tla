----------------------------- MODULE AuthManager -----------------------------
(***************************************************************************)
(* The session of ReFx Desktop: AuthManager (panel/auth.rs), the vault it  *)
(* persists the rotating refresh token in (vault.rs), the once-per-launch  *)
(* resume (state.rs, auth_status in commands.rs) and the part of the       *)
(* panel's /auth API the client relies on.                                 *)
(*                                                                         *)
(* A token pair is one element of Token: its access half and its refresh   *)
(* half are issued and adopted together.  Every asynchronous activity is a *)
(* process with a program counter; a step is the code between two awaits,  *)
(* split where another thread can see the difference (the vault write and  *)
(* the in-memory write are two steps).                                     *)
(***************************************************************************)
EXTENDS Naturals

CONSTANTS
    Token,       \* token pairs the panel can issue
    None,        \* no token
    Task,        \* authenticated requests: monitor, watcher, console, commands
    UiTask,      \* the tasks whose failure reaches the servers store
    Status,      \* auth_status called by the store's init()
    SignIn,      \* auth_login / auth_mfa_verify / auth_mfa_webauthn + init()
    SignOut,     \* auth_logout
    Free,        \* an unlocked mutex
    Env,      \* the environment faults this instance admits
    MaxCrashes   \* bound on the number of crashes

Proc == Task \cup {Status, SignIn, SignOut}
TokenOrNone == Token \cup {None}

\* Optional events: the retry of a refresh is lost as well, the credential
\* store fails to store, clear or load, the app dies, the session is revoked
\* from another device; the user signs in, with or without an MFA challenge, or
\* signs out while the app is reconnecting.
AllEvents == {"lose_twice", "store", "clear", "load", "crash", "revoke",
              "sign_in", "mfa", "offline_sign_out"}

ASSUME ConstAssumption ==
    /\ None \notin Token
    /\ UiTask \subseteq Task
    /\ Free \notin Proc
    /\ Status \notin Task /\ SignIn \notin Task /\ SignOut \notin Task
    /\ Status # SignIn /\ Status # SignOut /\ SignIn # SignOut
    /\ Env \subseteq AllEvents
    /\ MaxCrashes \in Nat

VARIABLES
    status,    \* panel: the session row behind each refresh token
    refused,   \* panel: pairs whose access half is answered 401
    burned,    \* panel: a spent token was replayed, every session was revoked
    tokens,    \* AuthManager.tokens: the pair in memory
    vault,     \* the refresh token in the credential store
    gate,      \* AuthManager.refresh_gate: its holder
    pending,   \* AuthManager.pending_mfa: a challenge is open
    slot,      \* AppState.bootstrap: the cached outcome of the resume
    slotLock,  \* the async mutex around slot: its holder
    ui,        \* store/auth.ts: status
    pc,        \* what each process does next
    access,    \* the pair whose access half the process's request used
    held,      \* the refresh token the process presents
    got,       \* the pair a response carries to install()
    retried,   \* rotate(): the network retry is used up
    crashes,   \* bound: crashes so far
    stale,     \* history: processes whose rotation or sign-in was in flight
               \* when the last sign-out finished
    answer     \* history: what the last resume was told ("none" before one)

panel == <<status, refused, burned>>
core  == <<tokens, vault, pending>>
locks == <<gate, slot, slotLock>>
local == <<access, held, got, retried>>
hist  == <<crashes, stale, answer>>
vars  == <<panel, core, locks, ui, pc, local, hist>>

-----------------------------------------------------------------------------
(* Phases *)

RequestPhases == {"send", "sent", "gate", "check", "pick", "resend", "resent"}
RotatePhases  == {"asked", "answered", "denied", "store", "adopt", "wipe", "rewipe"}
ResumePhases  == {"slot", "load", "whoami"}
SignInPhases  == {"login", "mfaScreen", "mfa"}
SignOutPhases == {"outGate", "outPost", "outForget", "outWipe"}
Phases == {"idle"} \cup RequestPhases \cup RotatePhases \cup ResumePhases
                   \cup SignInPhases \cup SignOutPhases

UiStates == {"loading", "signedOut", "offline", "signedIn"}

\* A rotation is on its way: rotate() has been entered and not left.  SignIn
\* shares "store" and "adopt" (install()) without rotating anything.
Rotating(p) == pc[p] \in RotatePhases /\ held[p] # None

Goto(p, phase) == pc' = [pc EXCEPT ![p] = phase]

Unissued == {t \in Token : status[t] = "unissued"}

Init ==
    /\ \E t \in TokenOrNone :
         /\ vault = t
         /\ status = [x \in Token |-> IF x = t THEN "live" ELSE "unissued"]
    /\ refused = {}
    /\ burned = FALSE
    /\ tokens = None
    /\ gate = Free
    /\ pending = FALSE
    /\ slot = "unknown"
    /\ slotLock = Free
    /\ ui = "loading"
    /\ pc = [p \in Proc |-> "idle"]
    /\ access = [p \in Proc |-> None]
    /\ held = [p \in Proc |-> None]
    /\ got = [p \in Proc |-> None]
    /\ retried = [p \in Proc |-> FALSE]
    /\ crashes = 0
    /\ stale = {}
    /\ answer = "none"

-----------------------------------------------------------------------------
(* The refresh gate.  The first form of a pair is a mutation for the checks. *)

AnyGate  == TRUE
GateFree == gate = Free

KeepGate    == UNCHANGED gate
ReleaseGate == gate' = Free

-----------------------------------------------------------------------------
(* Ending an activity *)

\* What the store shows when a call returns r: auth_status maps the profile
\* request's outcome, and store/servers.ts reports a dead session.
UiAfterUnheard(p, r) == IF p \in {Status, SignIn} /\ r = "ok" THEN "signedIn" ELSE ui
UiAfterVerbatim(p, r) == IF p \in Task THEN ui ELSE r
UiAfter(p, r) ==
    IF p \in {Status, SignIn}
    THEN IF r = "ok" THEN "signedIn"
         ELSE IF r \in {"network", "offline"} THEN "offline" ELSE "signedOut"
    ELSE IF p \in UiTask /\ r \in {"not_signed_in", "expired"} THEN "signedOut" ELSE ui

\* The locals of a finished activity are dropped.
Drop(p) ==
    /\ access' = [access EXCEPT ![p] = None]
    /\ held' = [held EXCEPT ![p] = None]
    /\ got' = [got EXCEPT ![p] = None]
    /\ retried' = [retried EXCEPT ![p] = FALSE]

Finish(p, r) ==
    /\ Goto(p, "idle")
    /\ Drop(p)
    /\ ui' = UiAfter(p, r)
    /\ stale' = stale \ {p}

\* A rotation or sign-in is over and its caller continues at `phase`.
Resume(p, phase) ==
    /\ Goto(p, phase)
    /\ Drop(p)
    /\ stale' = stale \ {p}
    /\ UNCHANGED ui


\* Leaving rotate() with result r ("ok" when install() succeeded).  Under the
\* refresh gate the caller is refresh_after_401: the gate is released and an
\* authed request goes on to its one retry.  Under the slot lock the caller is
\* bootstrap(), which caches a definite answer and leaves an error uncached.
Leave(p, r) ==
    IF gate = p
    THEN /\ ReleaseGate
         /\ IF r = "ok" THEN Resume(p, "resend") ELSE Finish(p, r)
         /\ UNCHANGED <<slot, slotLock, answer>>
    ELSE IF slotLock = p
    THEN /\ slotLock' = Free
         /\ slot' = IF r = "ok" THEN "yes"
                    ELSE IF r \in {"expired", "empty"} THEN "no" ELSE slot
         /\ answer' = r
         /\ Resume(p, "whoami")
         /\ UNCHANGED gate
    ELSE /\ Resume(p, "slot")
         /\ UNCHANGED <<gate, slot, slotLock, answer>>

-----------------------------------------------------------------------------
(* The panel *)

\* POST /auth/refresh arrives.  A live token is rotated away and its successor
\* issued; within the grace window the predecessor is rotated again; after it
\* the replay revokes every session of the user; a revoked one is a plain 401.
ServeRefresh(p) ==
    /\ pc[p] = "asked"
    /\ \/ /\ status[held[p]] \in {"live", "grace"}
          /\ \E n \in Unissued :
               /\ status' = [status EXCEPT ![held[p]] = "grace", ![n] = "live"]
               /\ got' = [got EXCEPT ![p] = n]
          /\ Goto(p, "answered")
          /\ UNCHANGED burned
       \/ /\ status[held[p]] = "spent"
          /\ status' = [t \in Token |->
                          IF status[t] \in {"live", "grace"} THEN "revoked" ELSE status[t]]
          /\ burned' = TRUE
          /\ Goto(p, "denied")
          /\ UNCHANGED got
       \/ /\ status[held[p]] = "revoked"
          /\ Goto(p, "denied")
          /\ UNCHANGED <<status, burned, got>>
    /\ UNCHANGED <<refused, core, locks, ui, access, held, retried, hist>>

\* The 60 s window of a rotated token closes.  A rotation in flight outlives
\* at most two 30 s request timeouts, so its token's window is still open; and
\* nothing more is learnt once the instance has no pair left to issue.
GraceExpire(t) ==
    /\ status[t] = "grace"
    /\ Unissued # {}
    /\ \A p \in Proc : held[p] # t
    /\ status' = [status EXCEPT ![t] = "spent"]
    /\ UNCHANGED <<refused, burned, core, locks, ui, pc, local, hist>>

\* The 15-minute access half of a pair lapses.
ExpireAccess(t) ==
    /\ status[t] # "unissued" /\ t \notin refused
    /\ refused' = refused \cup {t}
    /\ UNCHANGED <<status, burned, core, locks, ui, pc, local, hist>>

\* The session is revoked from another device.
RemoteRevoke(t) ==
    /\ "revoke" \in Env
    /\ status[t] \in {"live", "grace"}
    /\ status' = [status EXCEPT ![t] = "revoked"]
    /\ refused' = refused \cup {t}
    /\ UNCHANGED <<burned, core, locks, ui, pc, local, hist>>

-----------------------------------------------------------------------------
(* Authenticated requests: authed_json and its siblings *)

\* A background loop polls whenever its timer fires; the servers store issues
\* requests only while its screen is up.
StartRequest(p) ==
    /\ p \in Task /\ pc[p] = "idle"
    /\ p \in UiTask => ui = "signedIn"
    /\ Goto(p, "send")
    /\ UNCHANGED <<panel, core, locks, ui, local, hist>>

\* current_access(), then the request; `next` tells first try and retry apart.
Send(p) ==
    /\ pc[p] \in {"send", "resend"}
    /\ IF tokens = None
       THEN Finish(p, "not_signed_in")
       ELSE /\ access' = [access EXCEPT ![p] = tokens]
            /\ Goto(p, IF pc[p] = "send" THEN "sent" ELSE "resent")
            /\ UNCHANGED <<held, got, retried, ui, stale>>
    /\ UNCHANGED <<panel, core, locks, crashes, answer>>

\* The response.  A 401 sends a first try to the refresh gate and fails a
\* retry; any other error is the caller's.
Respond(p) ==
    /\ pc[p] \in {"sent", "resent"}
    /\ \/ access[p] \notin refused /\ Finish(p, "ok")
       \/ \E r \in {"network", "other"} : Finish(p, r)
       \/ access[p] \in refused /\ pc[p] = "resent" /\ Finish(p, "other")
       \/ /\ access[p] \in refused /\ pc[p] = "sent"
          /\ Goto(p, "gate")
          /\ UNCHANGED <<local, ui, stale>>
    /\ UNCHANGED <<panel, core, locks, crashes, answer>>

\* refresh_after_401: take the gate,
TakeGate(p) ==
    /\ pc[p] = "gate" /\ GateFree
    /\ gate' = p
    /\ Goto(p, "check")
    /\ UNCHANGED <<panel, core, slot, slotLock, ui, local, hist>>

\* see whether someone else refreshed while we waited on it,
CheckRefreshed(p) ==
    /\ pc[p] = "check"
    /\ \/ /\ tokens = None
          /\ ReleaseGate
          /\ Finish(p, "not_signed_in")
       \/ /\ tokens # None /\ tokens # access[p]
          /\ ReleaseGate
          /\ Goto(p, "resend")
          /\ UNCHANGED <<local, ui, stale>>
       \/ /\ tokens = access[p]
          /\ Goto(p, "pick")
          /\ UNCHANGED <<gate, local, ui, stale>>
    /\ UNCHANGED <<panel, core, slot, slotLock, crashes, answer>>

\* and read the refresh half to rotate (a second read of the same lock).
PickRefresh(p) ==
    /\ pc[p] = "pick"
    /\ IF tokens = None
       THEN ReleaseGate /\ Finish(p, "not_signed_in")
       ELSE /\ held' = [held EXCEPT ![p] = tokens]
            /\ Goto(p, "asked")
            /\ UNCHANGED <<gate, access, got, retried, ui, stale>>
    /\ UNCHANGED <<panel, core, slot, slotLock, crashes, answer>>

-----------------------------------------------------------------------------
(* rotate() and install() *)

\* A request or a response is lost: the first network error is retried.
LoseWithoutRetry(p) ==
    /\ pc[p] \in {"asked", "answered", "denied"} /\ ~retried[p]
    /\ Leave(p, "network")
    /\ UNCHANGED <<panel, core, crashes>>
LoseOnce(p) ==
    /\ pc[p] \in {"asked", "answered", "denied"} /\ ~retried[p]
    /\ retried' = [retried EXCEPT ![p] = TRUE]
    /\ got' = [got EXCEPT ![p] = None]
    /\ Goto(p, "asked")
    /\ UNCHANGED <<panel, core, locks, ui, access, held, hist>>

\* The retry fails too, or the panel answered an error that is not a 401.
\* Unless "lose_twice" is admitted, the retry of a rotation whose response was
\* lost gets through.
GiveUp(p) ==
    /\ pc[p] \in {"asked", "answered", "denied"}
    /\ retried[p] \/ pc[p] = "asked"
    /\ retried[p] => \/ "lose_twice" \in Env
                     \/ Unissued = {}
                     \/ status[held[p]] # "grace"
    /\ \E r \in {"network", "other"} : Leave(p, r)
    /\ UNCHANGED <<panel, core, crashes>>

\* Ok(tokens): on to install().
Accept(p) ==
    /\ pc[p] = "answered"
    /\ Goto(p, "store")
    /\ UNCHANGED <<panel, core, locks, ui, local, hist>>

StoreOrKeepOld(p) ==
    /\ pc[p] = "store"
    /\ vault' = got[p] \/ ("store" \in Env /\ vault' = vault)
    /\ Goto(p, "adopt")
    /\ UNCHANGED <<panel, tokens, pending, locks, ui, local, hist>>
StoreAfterwards(p) ==
    /\ pc[p] = "store"
    /\ vault' = tokens
    /\ Goto(p, "adopt")
    /\ UNCHANGED <<panel, tokens, pending, locks, ui, local, hist>>

\* install(), first half: up to three writes of the new refresh token; if all
\* of them fail, the stale entry is cleared, and that may fail silently.
Store(p) ==
    /\ pc[p] = "store"
    /\ \/ vault' = got[p]
       \/ "store" \in Env /\ vault' = None
       \/ {"store", "clear"} \subseteq Env /\ vault' = vault
    /\ Goto(p, "adopt")
    /\ UNCHANGED <<panel, tokens, pending, locks, ui, local, hist>>

AdoptNothing(p) ==
    /\ pc[p] = "adopt"
    /\ tokens' = IF tokens = None THEN got[p] ELSE tokens
    /\ Leave(p, "ok")
    /\ UNCHANGED <<panel, vault, pending, crashes>>

\* install(), second half: the pair becomes the session in memory.
Adopt(p) ==
    /\ pc[p] = "adopt"
    /\ tokens' = got[p]
    /\ Leave(p, "ok")
    /\ UNCHANGED <<panel, vault, pending, crashes>>

\* A 401 on the rotation: the session is gone.
Denied(p) ==
    /\ pc[p] = "denied"
    /\ tokens' = None
    /\ Goto(p, "wipe")
    /\ UNCHANGED <<panel, vault, pending, locks, ui, local, hist>>

\* vault.clear()?: its error replaces SessionExpired.  bootstrap() clears the
\* vault once more when it is told SessionExpired.
Wipe(p) ==
    /\ pc[p] = "wipe"
    /\ \/ /\ vault' = None
          /\ IF slotLock = p
             THEN /\ Goto(p, "rewipe")
                  /\ UNCHANGED <<locks, ui, local, stale, answer>>
             ELSE Leave(p, "expired")
       \/ "clear" \in Env /\ vault' = vault /\ Leave(p, "denied")
    /\ UNCHANGED <<panel, tokens, pending, crashes>>

Rewipe(p) ==
    /\ pc[p] = "rewipe"
    /\ \/ vault' = None /\ Leave(p, "expired")
       \/ "clear" \in Env /\ vault' = vault /\ Leave(p, "denied")
    /\ UNCHANGED <<panel, tokens, pending, crashes>>


-----------------------------------------------------------------------------
(* auth_status *)

\* init() runs at launch, from the 4 s timer and "Try now" while offline, and
\* again from the signed-in screens.
StartStatus ==
    /\ pc[Status] = "idle" /\ ui \in {"loading", "offline", "signedIn"}
    /\ Goto(Status, "slot")
    /\ UNCHANGED <<panel, core, locks, ui, local, hist>>

\* ensure_bootstrapped: take the slot; a cached outcome ends it at once.
TakeSlot(p) ==
    /\ pc[p] = "slot" /\ slotLock = Free
    /\ IF slot = "unknown"
       THEN slotLock' = p /\ Goto(p, "load")
       ELSE Goto(p, "whoami") /\ UNCHANGED slotLock
    /\ UNCHANGED <<panel, core, gate, slot, ui, local, hist>>

\* bootstrap: read the vault and rotate what it holds, without the gate.
LoadVault(p) ==
    /\ pc[p] = "load"
    /\ \/ /\ vault # None
          /\ held' = [held EXCEPT ![p] = vault]
          /\ Goto(p, "asked")
          /\ UNCHANGED <<locks, ui, access, got, retried, stale, answer>>
       \/ vault = None /\ Leave(p, "empty")
       \/ "load" \in Env /\ Leave(p, "other")
    /\ UNCHANGED <<panel, core, crashes>>

\* Nothing in memory: offline when the vault still holds a token, signed out
\* when it does not or cannot be read.  Otherwise profile() decides.
WhoAmI(p) ==
    /\ pc[p] = "whoami"
    /\ IF tokens # None
       THEN Goto(p, "send") /\ UNCHANGED <<ui, local, stale>>
       ELSE \/ vault # None /\ Finish(p, "offline")
            \/ (vault = None \/ "load" \in Env) /\ Finish(p, "not_signed_in")
    /\ UNCHANGED <<panel, core, locks, crashes, answer>>

-----------------------------------------------------------------------------
(* Signing in and out *)

\* The sign-in screen submits once at a time (busy).
StartLogin ==
    /\ "sign_in" \in Env
    /\ pc[SignIn] = "idle" /\ pc[SignOut] = "idle" /\ ui = "signedOut"
    /\ Goto(SignIn, "login")
    /\ UNCHANGED <<panel, core, locks, ui, local, hist>>

\* POST /auth/login: refused or lost, an MFA challenge, or a new session.
LoginAnswer ==
    /\ pc[SignIn] = "login"
    /\ \/ Resume(SignIn, "idle") /\ UNCHANGED <<status, pending>>
       \/ /\ "mfa" \in Env
          /\ pending' = TRUE
          /\ Goto(SignIn, "mfaScreen")
          /\ UNCHANGED <<status, local, ui, stale>>
       \/ \E n \in Unissued :
            /\ status' = [status EXCEPT ![n] = "live"]
            /\ got' = [got EXCEPT ![SignIn] = n]
            /\ Goto(SignIn, "store")
            /\ UNCHANGED <<pending, access, held, retried, ui, stale>>
    /\ UNCHANGED <<refused, burned, tokens, vault, locks, crashes, answer>>

\* The code is submitted, or the user goes back to the sign-in screen
\* (backToSignIn leaves the challenge in place).
SubmitMfa ==
    /\ pc[SignIn] = "mfaScreen"
    /\ \/ pending /\ Goto(SignIn, "mfa")
       \/ Goto(SignIn, "idle")
    /\ UNCHANGED <<panel, core, locks, ui, local, hist>>

\* POST /auth/mfa/verify, or the passkey ceremony and its verify: a wrong code
\* keeps the challenge, a right one consumes it.
MfaAnswer ==
    /\ pc[SignIn] = "mfa"
    /\ \/ Goto(SignIn, "mfaScreen") /\ UNCHANGED <<status, pending, got>>
       \/ \E n \in Unissued :
            /\ status' = [status EXCEPT ![n] = "live"]
            /\ pending' = FALSE
            /\ got' = [got EXCEPT ![SignIn] = n]
            /\ Goto(SignIn, "store")
    /\ UNCHANGED <<refused, burned, tokens, vault, locks, ui, access, held, retried, hist>>

\* "Sign out" on the reconnecting and the signed-in screens.
StartLogout ==
    /\ pc[SignOut] = "idle"
    /\ ui = "signedIn" \/ (ui = "offline" /\ "offline_sign_out" \in Env)
    /\ Goto(SignOut, "outGate")
    /\ UNCHANGED <<panel, core, locks, ui, local, hist>>

\* logout waits for a refresh in flight, drops the MFA challenge and reads
\* which session to revoke; with none in memory nothing is posted.
LogoutTakeGate ==
    /\ pc[SignOut] = "outGate" /\ GateFree
    /\ gate' = SignOut
    /\ pending' = FALSE
    /\ held' = [held EXCEPT ![SignOut] = tokens]
    /\ Goto(SignOut, IF tokens = None THEN "outForget" ELSE "outPost")
    /\ UNCHANGED <<panel, tokens, vault, slot, slotLock, ui, access, got, retried, hist>>

\* Best-effort POST /auth/logout: it reaches the panel or it does not.
LogoutPost ==
    /\ pc[SignOut] = "outPost"
    /\ \/ /\ status[held[SignOut]] \in {"live", "grace"}
          /\ status' = [status EXCEPT ![held[SignOut]] = "revoked"]
       \/ UNCHANGED status
    /\ Goto(SignOut, "outForget")
    /\ UNCHANGED <<refused, burned, core, locks, ui, local, hist>>

LogoutForget ==
    /\ pc[SignOut] = "outForget"
    /\ tokens' = None
    /\ Goto(SignOut, "outWipe")
    /\ UNCHANGED <<panel, vault, pending, locks, ui, local, hist>>

\* Processes whose rotation or sign-in would end in install().
Installing == {p \in Proc : Rotating(p) \/ got[p] # None}

\* A failed vault.clear() is only logged; the store shows the sign-in screen.
LogoutWipe ==
    /\ pc[SignOut] = "outWipe"
    /\ vault' = None \/ ("clear" \in Env /\ vault' = vault)
    /\ gate' = Free
    /\ Goto(SignOut, "idle")
    /\ Drop(SignOut)
    /\ ui' = "signedOut"
    /\ stale' = Installing
    /\ UNCHANGED <<panel, tokens, pending, slot, slotLock, crashes, answer>>

-----------------------------------------------------------------------------
(* The app dies and is launched again *)

Crash ==
    /\ "crash" \in Env /\ crashes < MaxCrashes
    /\ tokens' = None
    /\ gate' = Free
    /\ pending' = FALSE
    /\ slot' = "unknown"
    /\ slotLock' = Free
    /\ ui' = "loading"
    /\ pc' = [p \in Proc |-> "idle"]
    /\ access' = [p \in Proc |-> None]
    /\ held' = [p \in Proc |-> None]
    /\ got' = [p \in Proc |-> None]
    /\ retried' = [p \in Proc |-> FALSE]
    /\ crashes' = crashes + 1
    /\ stale' = {}
    /\ answer' = "none"
    /\ UNCHANGED <<panel, vault>>

-----------------------------------------------------------------------------
Request(p) == Send(p) \/ Respond(p) \/ TakeGate(p) \/ CheckRefreshed(p) \/ PickRefresh(p)

Rotate(p) == \/ ServeRefresh(p) \/ LoseOnce(p) \/ GiveUp(p) \/ Accept(p)
             \/ Store(p) \/ Adopt(p) \/ Denied(p) \/ Wipe(p) \/ Rewipe(p)

ResumeSession(p) == TakeSlot(p) \/ LoadVault(p) \/ WhoAmI(p)

LogIn == LoginAnswer \/ MfaAnswer

LogOut == LogoutTakeGate \/ LogoutPost \/ LogoutForget \/ LogoutWipe

User == StartStatus \/ StartLogin \/ SubmitMfa \/ StartLogout \/ \E p \in Task : StartRequest(p)

Environment == \E t \in Token : GraceExpire(t) \/ ExpireAccess(t) \/ RemoteRevoke(t)

Next ==
    \/ \E p \in Proc : Request(p) \/ Rotate(p) \/ ResumeSession(p)
    \/ LogIn \/ LogOut \/ User \/ Environment \/ Crash

Spec == Init /\ [][Next]_vars


-----------------------------------------------------------------------------
(* Properties *)

TypeOK ==
    /\ status \in [Token -> {"unissued", "live", "grace", "spent", "revoked"}]
    /\ refused \subseteq Token
    /\ burned \in BOOLEAN
    /\ tokens \in TokenOrNone
    /\ vault \in TokenOrNone
    /\ gate \in Proc \cup {Free}
    /\ pending \in BOOLEAN
    /\ slot \in {"unknown", "yes", "no"}
    /\ slotLock \in Proc \cup {Free}
    /\ ui \in UiStates
    /\ pc \in [Proc -> Phases]
    /\ access \in [Proc -> TokenOrNone]
    /\ held \in [Proc -> TokenOrNone]
    /\ got \in [Proc -> TokenOrNone]
    /\ retried \in [Proc -> BOOLEAN]
    /\ crashes \in 0..MaxCrashes
    /\ stale \subseteq Proc
    /\ answer \in {"none", "ok", "expired", "empty", "network", "other", "denied"}

\* Between activities: nothing is on its way to install() and no sign-out is
\* half done.
Quiet == \A p \in Proc : ~Rotating(p) /\ got[p] = None /\ pc[p] \notin {"outForget", "outWipe"}

\* The panel never sees a rotated-away token after its grace window, which
\* would revoke every session of the user on every device (auth.rs:5-9).
NeverBurned == ~burned

\* The token the next launch would resume from is never one whose replay the
\* panel treats as theft (auth.rs:454-463).
DiskNeverSpent == vault # None => status[vault] # "spent"

\* The pair the next 401 would rotate is never one of those either.
MemoryNeverSpent == tokens # None => status[tokens] # "spent"

\* Between activities the disk holds the session in memory, or nothing when it
\* could not be written.
DiskMatchesMemory == Quiet /\ tokens # None => vault \in {tokens, None}

\* What the next launch resumes from is sound: never spent, and never another
\* session than the one that was in memory.
DiskIsSound == DiskNeverSpent /\ DiskMatchesMemory

\* "refreshes are single-flight (one mutex-guarded refresh at a time)"
\* (auth.rs:7-8).
SingleFlight == \A p, q \in Proc : Rotating(p) /\ Rotating(q) => p = q

\* No refresh of an authenticated request straddles the end of a sign-out:
\* logout holds the gate for that (auth.rs:264-267).
NoStaleRefresh == stale \cap Task = {}

\* A held lock has a holder that is on its way to releasing it: every early
\* return and error path of refresh_after_401, ensure_bootstrapped and logout
\* gives the lock back.
GatedPhases == {"check", "pick"} \cup RotatePhases
LocksHeldByWorkers ==
    /\ gate # Free => pc[gate] \in GatedPhases \cup SignOutPhases
    /\ slotLock # Free => pc[slotLock] \in {"load"} \cup RotatePhases

\* Signing out is final: a pair adopted while signed out comes from a sign-in
\* or a resume begun since (auth.rs:264-266).
SignOutIsFinal ==
    [][tokens = None /\ tokens' # None
         => \E p \in Proc \ stale : pc[p] = "adopt" /\ pc'[p] # "adopt"]_vars

\* auth_status says "offline" of a session that could not be reached, not of
\* one the panel has refused: "a 401 would have cleared it" (commands.rs:77-79).
OfflineMeansUnreachable == ui = "offline" => answer # "denied"

\* What a sign-out leaves on disk is at most a dead token: "the server-side
\* session is already revoked above" (auth.rs:286-287).
SignOutLeavesNoSession ==
    [][pc[SignOut] = "outWipe" /\ pc'[SignOut] = "idle" /\ crashes' = crashes /\ vault' # None
         => status'[vault'] \notin {"live", "grace"}]_vars

\* The sign-in screen is only shown of "a genuine signed-out" (auth.ts:60-61).
SignInScreenMeansSignedOut ==
    ui = "signedOut" /\ (\A p \in Proc : pc[p] = "idle") => tokens = None

-----------------------------------------------------------------------------
(* Liveness.  The panel's silence is bounded by the client's timeouts (10 s to
   connect, 30 s in all), so every step of an activity is eventually taken;
   tokio's mutexes are first come, first served.  The user owes nothing. *)

Step(p) == Request(p) \/ Rotate(p) \/ ResumeSession(p)

Fairness ==
    /\ \A p \in Task \cup {Status, SignIn} : WF_vars(Step(p)) /\ SF_vars(TakeGate(p))
    /\ \A p \in {Status, SignIn} : SF_vars(TakeSlot(p))
    /\ WF_vars(LogIn) /\ WF_vars(LogOut) /\ SF_vars(LogoutTakeGate)
    /\ \A p \in UiTask : WF_vars(StartRequest(p))

LiveSpec == Spec /\ Fairness

\* Every authenticated request comes back, whoever else is refreshing.
RequestsFinish == \A p \in Task : pc[p] # "idle" ~> pc[p] = "idle"

\* A sign-out is never stuck behind the refreshes it waits for.
SignOutFinishes == pc[SignOut] # "idle" ~> pc[SignOut] = "idle"

\* A session that died while the app is showing it is noticed.
DeadSessionSurfaces ==
    ui = "signedIn" /\ tokens = None ~> ui # "signedIn" \/ tokens # None

\* Whatever is asked of the manager ends, and the window hears of a session
\* that ended without it.
CallsFinish == RequestsFinish /\ SignOutFinishes /\ DeadSessionSurfaces

=============================================================================
