---------------------------- MODULE ConsoleSession ----------------------------
(***************************************************************************)
(* One live-console session (console/session.rs): the supervisor that      *)
(* connects, authenticates, pumps frames, refreshes a rejected token once  *)
(* and backs off, against the panel's gateway, the network and the access  *)
(* token of the signed-in account.                                         *)
(***************************************************************************)
EXTENDS Naturals, Sequences

CONSTANTS
    BackoffMin,     \* seconds: 1 in the code
    BackoffMax,     \* seconds: 30 in the code
    Env,            \* what else may happen
    MaxFaults,      \* bound: events of Env
    MaxFrames       \* bound: frames the gateway has sent and nobody has read

\* The network refuses or drops a connection, a proxy answers 401 or 403, a
\* refresh fails, the gateway closes, the token expires, the user signs out,
\* the account is blocked, the access to the server ends.
AllEvents == {"network", "http", "refresh", "close", "expire", "sign_out", "block", "forbid"}

ASSUME ConstAssumption ==
    /\ BackoffMin \in Nat \ {0} /\ BackoffMax \in Nat /\ BackoffMin <= BackoffMax
    /\ Env \subseteq AllEvents /\ MaxFaults \in Nat /\ MaxFrames \in Nat

VARIABLES
    pc,         \* the next step of the session
    conn,       \* the last conn event it emitted
    stop,       \* the stop signal
    backoff,    \* the wait before the next attempt
    streak,     \* refreshed_this_streak
    link,       \* the socket: none, up, dead
    inbox,      \* frames on their way from the gateway
    token,      \* the access token of this attempt
    access,     \* the account's access token: valid, expired or none
    account,    \* panel: active, or blocked until the user acts
    allowed,    \* panel: the account may see the server
    serving,    \* gateway: it accepted the token of this connection
    faults,     \* bound: events so far
    minted,     \* history: the token was refreshed for this very attempt
    tries,      \* history: refreshes since the gateway last accepted a token,
                \* or its answer was lost with the link
    flaps,      \* history: waits since the last reset of the backoff
    reason      \* history: why the session ended

session == <<pc, conn, backoff, streak, token>>
socket  == <<link, inbox, serving>>
world   == <<access, account, allowed>>
hist    == <<minted, tries, flaps, reason>>
vars    == <<session, stop, socket, world, faults, hist>>

Init ==
    /\ pc = "top" /\ conn = "none" /\ stop = FALSE
    /\ backoff = BackoffMin /\ streak = FALSE
    /\ link = "none" /\ inbox = <<>> /\ token = "none" /\ serving = FALSE
    /\ access \in {"valid", "expired"} /\ account \in {"active", "blocked"}
    /\ allowed \in BOOLEAN /\ faults = 0
    /\ minted = FALSE /\ tries = 0 /\ flaps = 0 /\ reason = "none"

Happens(event) == event \in Env /\ faults < MaxFaults /\ faults' = faults + 1

-----------------------------------------------------------------------------
(* Outcomes of one attempt *)

HangUp == link' = "none" /\ inbox' = <<>> /\ serving' = FALSE

\* A failure that is tried again.
FailsAndRetries(why) ==
    /\ pc' = "pause" /\ conn' = "failed" /\ minted' = FALSE
    /\ UNCHANGED <<backoff, streak, tries, flaps, reason>>

Fails(why) ==
    /\ pc' = "closing" /\ conn' = "failed" /\ reason' = why
    /\ minted' = FALSE
    /\ UNCHANGED <<backoff, streak, tries, flaps>>

\* No await hears the stop signal.
NeverStopped ==
    /\ FALSE
    /\ UNCHANGED <<pc, conn, backoff, streak, hist>>

\* The stop signal fired during a connect or a read.
Stopped ==
    /\ stop /\ pc' = "closing" /\ reason' = "stopped"
    /\ UNCHANGED <<conn, backoff, streak, minted, tries, flaps>>

Transport ==
    /\ pc' = "pause" /\ conn' = "retrying" /\ minted' = FALSE
    /\ UNCHANGED <<backoff, streak, tries, flaps, reason>>

\* Every drop counts as healthy.
ReconnectUnjudged(stable) ==
    /\ pc' = "pause" /\ streak' = FALSE /\ minted' = FALSE
    /\ backoff' = BackoffMin
    /\ flaps' = IF stable THEN 0 ELSE flaps
    /\ tries' = 0
    /\ UNCHANGED <<conn, reason>>

\* A live connection dropped; a healthy one resets the backoff.
Reconnect(stable) ==
    /\ pc' = "pause" /\ streak' = FALSE /\ minted' = FALSE
    /\ backoff' = IF stable THEN BackoffMin ELSE backoff
    /\ flaps' = IF stable THEN 0 ELSE flaps
    /\ tries' = 0
    /\ UNCHANGED <<conn, reason>>

\* No memory of the refresh that came before.
UnauthorizedAlways ==
    /\ pc' = "refresh" /\ streak' = TRUE /\ minted' = FALSE
    /\ UNCHANGED <<conn, backoff, tries, flaps, reason>>

\* The token was rejected: refresh it, once per streak.
Unauthorized ==
    IF streak THEN Fails("unauthorized")
    ELSE /\ pc' = "refresh" /\ streak' = TRUE /\ minted' = FALSE
         /\ UNCHANGED <<conn, backoff, tries, flaps, reason>>

-----------------------------------------------------------------------------
(* The session *)

Top ==
    /\ pc = "top"
    /\ IF stop THEN pc' = "closing" /\ reason' = "stopped" /\ UNCHANGED conn
               ELSE pc' = "dial" /\ conn' = "connecting" /\ UNCHANGED reason
    /\ UNCHANGED <<backoff, streak, token, stop, socket, world, faults, minted, tries, flaps>>

\* The token of the attempt; without one the account is signed out.
Dial ==
    /\ pc = "dial"
    /\ token' = access
    /\ IF access = "none" THEN Fails("signed out")
       ELSE pc' = "connect" /\ UNCHANGED <<conn, backoff, streak, hist>>
    /\ UNCHANGED <<stop, socket, world, faults>>

\* connect_async within 15 s.
Connect ==
    /\ pc = "connect"
    /\ \/ Stopped /\ UNCHANGED <<socket, faults>>
       \/ /\ pc' = "opening" /\ link' = "up" /\ inbox' = <<"open">>
          /\ UNCHANGED <<conn, backoff, streak, serving, faults, hist>>
       \/ Happens("network") /\ Transport /\ UNCHANGED socket
       \/ Happens("http") /\ (Unauthorized \/ Fails("forbidden")) /\ UNCHANGED socket
    /\ UNCHANGED <<token, stop, world>>

\* A dead link is waited for.
UnreadPatient == Stopped /\ HangUp

\* A read that ends without a frame: the stop signal, or a link that died and
\* closes the stream or runs into the deadline.
Unread ==
    /\ \/ Stopped
       \/ /\ link = "dead" /\ inbox = <<>>
          /\ IF pc = "live" THEN \E stable \in BOOLEAN : Reconnect(stable) ELSE Transport
    /\ HangUp

\* The gateway accepts every CONNECT and then rejects a bad token; a
\* CONNECT_ERROR is the other form of a rejection.
Answered == IF token = "valid" /\ account = "active" THEN {<<"connected">>}
            ELSE {<<"connected", "unauthorized", "close">>, <<"connect_error">>}

SendConnect ==
    IF link = "dead" THEN Transport /\ HangUp
    ELSE /\ pc' = "authing"
         /\ \E frames \in Answered : inbox' = frames
         /\ serving' = (token = "valid" /\ account = "active")
         /\ tries' = IF serving' THEN 0 ELSE tries
         /\ UNCHANGED <<conn, backoff, streak, link, minted, flaps, reason>>

Opening ==
    /\ pc = "opening"
    /\ Unread \/ (inbox # <<>> /\ SendConnect)
    /\ UNCHANGED <<token, stop, world, faults>>

\* CONNECT was acknowledged: subscribe and call it live.
Subscribe ==
    IF link = "dead" THEN Transport /\ HangUp
    ELSE /\ pc' = "live" /\ conn' = "live"
         /\ inbox' = IF serving /\ ~allowed THEN Append(Tail(inbox), "forbidden") ELSE Tail(inbox)
         /\ minted' = FALSE
         /\ UNCHANGED <<backoff, streak, link, serving, tries, flaps, reason>>

Authing ==
    /\ pc = "authing"
    /\ \/ Unread
       \/ inbox # <<>> /\ Head(inbox) = "connected" /\ Subscribe
       \/ inbox # <<>> /\ Head(inbox) = "connect_error" /\ Unauthorized /\ HangUp
       \/ inbox # <<>> /\ Head(inbox) = "close" /\ Transport /\ HangUp
    /\ UNCHANGED <<token, stop, world, faults>>

Pong ==
    IF link = "dead" THEN Transport /\ HangUp
    ELSE inbox' = Tail(inbox) /\ UNCHANGED <<pc, conn, backoff, streak, link, serving, hist>>

Pump ==
    /\ pc = "live"
    /\ \/ Unread
       \/ inbox # <<>> /\ Head(inbox) = "ping" /\ Pong
       \/ /\ inbox # <<>> /\ Head(inbox) = "close"
          /\ (\E stable \in BOOLEAN : Reconnect(stable)) /\ HangUp
       \/ inbox # <<>> /\ Head(inbox) = "unauthorized" /\ Unauthorized /\ HangUp
       \/ inbox # <<>> /\ Head(inbox) = "forbidden" /\ Fails("forbidden") /\ HangUp
    /\ UNCHANGED <<token, stop, world, faults>>

\* refresh_access_token: no stop signal reaches it.
Refresh ==
    /\ pc = "refresh"
    /\ \/ /\ access # "none" /\ access' = "valid"
          /\ pc' = "pause" /\ backoff' = BackoffMin
          /\ minted' = TRUE /\ tries' = tries + 1 /\ flaps' = 0
          /\ UNCHANGED <<conn, streak, faults, reason>>
       \/ access = "none" /\ Fails("refresh") /\ UNCHANGED <<access, faults>>
       \/ Happens("refresh") /\ Fails("refresh") /\ UNCHANGED access
    /\ UNCHANGED <<token, stop, socket, account, allowed>>

\* The wait is not capped.
PauseUncapped ==
    /\ pc = "pause"
    /\ IF stop THEN pc' = "closing" /\ reason' = "stopped" /\ UNCHANGED <<backoff, flaps>>
       ELSE pc' = "top" /\ backoff' = 2 * backoff /\ flaps' = flaps + 1 /\ UNCHANGED reason
    /\ UNCHANGED <<conn, streak, token, stop, socket, world, faults, minted, tries>>

\* Wait, or leave at once when asked to stop; the next wait is twice as long.
Pause ==
    /\ pc = "pause"
    /\ IF stop THEN pc' = "closing" /\ reason' = "stopped" /\ UNCHANGED <<backoff, flaps>>
       ELSE /\ pc' = "top" /\ UNCHANGED reason
            /\ backoff' = IF 2 * backoff < BackoffMax THEN 2 * backoff ELSE BackoffMax
            /\ flaps' = flaps + 1
    /\ UNCHANGED <<conn, streak, token, stop, socket, world, faults, minted, tries>>

Closing ==
    /\ pc = "closing" /\ pc' = "done" /\ conn' = "closed"
    /\ UNCHANGED <<backoff, streak, token, stop, socket, world, faults, hist>>

-----------------------------------------------------------------------------
(* Everything else *)

\* ConsoleManager::close
Stop ==
    /\ ~stop /\ stop' = TRUE
    /\ UNCHANGED <<session, socket, world, faults, hist>>

\* The link dies, with or without the frames that were under way.
Drop ==
    /\ link = "up" /\ Happens("network")
    /\ link' = "dead" /\ inbox' \in {inbox, <<>>}
    /\ UNCHANGED <<session, stop, serving, world, hist>>

Gateway ==
    /\ pc = "live" /\ link = "up" /\ serving /\ Len(inbox) < MaxFrames
    /\ \/ inbox' = Append(inbox, "ping") /\ UNCHANGED faults
       \/ Happens("close") /\ inbox' = Append(inbox, "close")
    /\ UNCHANGED <<session, stop, link, serving, world, hist>>

\* A token lives for 15 minutes, longer than the attempt it was minted for.
Expire ==
    /\ access = "valid" /\ ~minted /\ Happens("expire")
    /\ access' = "expired"
    /\ token' = IF token = "valid" THEN "expired" ELSE token
    /\ UNCHANGED <<pc, conn, backoff, streak, stop, socket, account, allowed, hist>>

\* Another request refreshed it.
Renew ==
    /\ access = "expired" /\ access' = "valid"
    /\ UNCHANGED <<session, stop, socket, account, allowed, faults, hist>>

Account ==
    /\ \/ access # "none" /\ Happens("sign_out") /\ access' = "none" /\ UNCHANGED <<account, allowed>>
       \/ account = "active" /\ Happens("block") /\ account' = "blocked" /\ UNCHANGED <<access, allowed>>
       \/ allowed /\ Happens("forbid") /\ allowed' = FALSE /\ UNCHANGED <<access, account>>
    /\ UNCHANGED <<session, stop, socket, hist>>

Session == Top \/ Dial \/ Connect \/ Opening \/ Authing \/ Pump \/ Refresh \/ Pause \/ Closing

Next == Session \/ Stop \/ Drop \/ Gateway \/ Expire \/ Renew \/ Account

Spec == Init /\ [][Next]_vars

\* The runtime schedules the task, every await ends (reads and connects have
\* deadlines), and select! does not ignore a stop signal for ever.
Fairness == WF_vars(Session) /\ WF_vars(Pump /\ pc' = "closing")

LiveSpec == Spec /\ Fairness

-----------------------------------------------------------------------------
(* Properties *)

Frames == {"open", "connected", "connect_error", "unauthorized", "forbidden", "close", "ping"}

TypeOK ==
    /\ pc \in {"top", "dial", "connect", "opening", "authing", "live", "refresh", "pause",
              "closing", "done"}
    /\ conn \in {"none", "connecting", "live", "retrying", "failed", "closed"}
    /\ stop \in BOOLEAN /\ streak \in BOOLEAN
    /\ backoff \in BackoffMin..BackoffMax
    /\ link \in {"none", "up", "dead"} /\ inbox \in Seq(Frames) /\ serving \in BOOLEAN
    /\ {token, access} \subseteq {"valid", "expired", "none"}
    /\ account \in {"active", "blocked"} /\ allowed \in BOOLEAN
    /\ faults \in 0..MaxFaults
    /\ minted \in BOOLEAN /\ tries \in Nat /\ flaps \in Nat
    /\ reason \in {"none", "stopped", "signed out", "forbidden", "unauthorized", "refresh"}

\* "Tokens are refreshed at most once per unbroken run of `unauthorized`
\* handshakes" (session.rs:120-124): rejections never turn into a refresh loop.
RefreshNeverLoops == tries <= 1

\* The first wait, doubled n times.
Doubled[n \in Nat] == IF n = 0 THEN BackoffMin ELSE 2 * Doubled[n - 1]

\* After n waits in a row the next one is 2^n times the first, up to the cap;
\* only a healthy connection or a fresh token starts over (session.rs:41-43).
BackoffTellsFailures ==
    backoff = IF Doubled[flaps] < BackoffMax THEN Doubled[flaps] ELSE BackoffMax

\* "a second consecutive rejection of a freshly-minted token means the account
\* itself is blocked" (session.rs:121-122): only such an account is told to sign
\* in again.
RejectedMeansBlocked == reason = "unauthorized" => account = "blocked"

\* A refusal for good is to be surfaced "instead of looping forever"
\* (session.rs:344): "failed" and its reason are what stays on the screen.
FailureStaysShown == pc = "done" /\ reason \notin {"none", "stopped"} => conn = "failed"

\* close() ends the session wherever it is: a stalled connect "must not park the
\* task uninterruptibly" (session.rs:214-216).
StopIsObeyed == stop ~> pc = "done"

\* A session that has not ended gets its console back, whatever happened to the
\* link ("It reconnects on its own", README.md:53).
ComesBack == pc # "done" ~> (pc = "live" /\ serving /\ link = "up") \/ pc = "done"

\* A console comes back until it is told to stop, and then it ends.
LivesAndEnds == StopIsObeyed /\ ComesBack

\* What the watcher of the conn events is promised.
Status == INSTANCE ConsoleStatus

KeepsPromise == Status!Spec

=============================================================================
