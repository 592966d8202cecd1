----------------------------- MODULE CrashMonitor -----------------------------
(***************************************************************************)
(* The background crash monitor (monitor.rs) and the power intent it       *)
(* shares with the power commands (state.rs, commands.rs, tray.rs), over   *)
(* the panel's server states and notification feed.                        *)
(*                                                                         *)
(* A poll is three steps: is anyone signed in, fetch the server list,      *)
(* fetch the feed and process both.  The panel and the user move between   *)
(* them.  Crash and recovery toasts are on and the offline toast is off,   *)
(* the defaults of NotifyPrefs.                                            *)
(***************************************************************************)
EXTENDS Naturals, Sequences, SequencesExt

CONSTANTS
    Server,
    NameOf,        \* the display name of each server; the feed carries only that
    Commander,     \* where a power action comes from: the window, the tray
    None,
    Page,          \* rows of the feed one poll reads (20 in the code)
    Notices,       \* kinds of rows the panel writes for these servers
    Env,           \* what else may happen
    MaxRows,       \* bounds: rows, crashes, boots and power actions
    MaxIncidents,
    MaxBoots,
    MaxActions

Name == {NameOf[s] : s \in Server}
Kinds == {"crash", "online", "offline"}
Signals == {"start", "stop", "restart", "kill"}
Up == {"running", "starting", "stopping"}
States == Up \cup {"offline", "crashed", "suspended"}
Settled == {"running", "offline", "crashed"}
Commands == [server : Server, signal : Signals]
Snapshots == [page : UNION {[S -> States] : S \in SUBSET Server}, incidents : Nat]

\* The list or the feed request fails, the session ends and begins, the panel
\* refuses a power action, its answer is lost, an intent outlives its 120 s,
\* another device stops a server, a server is suspended or deleted.
AllEvents == {"list", "feed", "session", "reject", "lost_reply", "expire",
              "remote", "suspend", "delete"}

ASSUME ConstAssumption ==
    /\ IsFiniteSet(Server) /\ NameOf \in [Server -> Name]
    /\ Page \in Nat /\ MaxRows \in Nat /\ MaxIncidents \in Nat
    /\ MaxBoots \in Nat /\ MaxActions \in Nat
    /\ Notices \subseteq Kinds /\ Env \subseteq AllEvents
    /\ None \notin Commands /\ None \notin Snapshots

VARIABLES
    owned,          \* panel: servers the account can list
    state,          \* panel: their states
    doing,          \* panel: the power action a stopping server obeys
    rows,           \* panel: the notification feed, oldest first
    incidents,      \* panel: every crash so far; own: the user's kill; later: once
                    \* the action behind a mark had brought the server back up
    boots,          \* panel: how often each server came up
    signedIn,       \* the session
    asked,          \* power actions in flight, per commander
    issued,         \* bound: power actions so far
    marked,         \* PowerIntent: servers with an unexpired mark
    pc,             \* monitor: the next step of the poll
    snap,           \* monitor: this poll's server list, None if it failed
    last,           \* monitor: the states of the previous snapshot
    crashed,        \* monitor: names announced as crashed
    primed,         \* monitor: a snapshot was taken this session
    noticesPrimed,  \* monitor: the feed was read once
    mark,           \* monitor: the newest row processed
    backed,         \* history: marks whose power action the panel carried out
    first,          \* history: the newest row when the feed was first read
    heard,          \* history: how often each row was processed
    byFeed,         \* history: crashes announced from the feed
    byState,        \* history: how often each crash was announced from the state
    onlines,        \* history: "online" toasts per name
    backs,          \* history: "back online" toasts per name
    suspendShown    \* history: suspended servers that were announced

panel   == <<owned, state, doing, rows, incidents, boots>>
user    == <<signedIn, asked, issued>>
monitor == <<pc, snap, last, crashed, primed, noticesPrimed, mark>>
toasts  == <<byFeed, byState, onlines, backs, suspendShown>>
hist    == <<backed, first, heard, toasts>>
vars    == <<panel, user, marked, monitor, hist>>

Nothing == [s \in {} |-> "offline"]

Init ==
    /\ owned = Server
    /\ state \in [Server -> {"running", "offline", "crashed"}]
    /\ doing = [s \in Server |-> "none"]
    /\ rows = <<>> /\ incidents = <<>>
    /\ boots = [s \in Server |-> 0]
    /\ signedIn \in BOOLEAN /\ ("session" \notin Env => signedIn)
    /\ asked = [c \in Commander |-> None] /\ issued = 0
    /\ marked = {}
    /\ pc = "sleep" /\ snap = None /\ last = Nothing
    /\ crashed = {} /\ primed = FALSE
    /\ noticesPrimed = FALSE /\ mark = 0
    /\ backed = {} /\ first = MaxRows + 1 /\ heard = [i \in 1..MaxRows |-> 0]
    /\ byFeed = {} /\ byState = [i \in 1..MaxIncidents |-> 0]
    /\ onlines = [n \in Name |-> 0] /\ backs = onlines /\ suspendShown = {}

-----------------------------------------------------------------------------
(* The panel *)

Post(s, kind, i) ==
    IF kind \in Notices
    THEN /\ Len(rows) < MaxRows
         /\ rows' = Append(rows, [name |-> NameOf[s], kind |-> kind, incident |-> i])
    ELSE UNCHANGED rows

\* The panel writes at most one crash row per server in 30 minutes.
Throttled(s) == \E i \in DOMAIN rows : rows[i].kind = "crash" /\ rows[i].name = NameOf[s]

\* The node agent reports CRASHED: of its own, or where a kill took it.
EnterCrashed(s, own) ==
    /\ Len(incidents) < MaxIncidents
    /\ incidents' = Append(incidents, [server |-> s, own |-> own, 
                                    later |-> s \in backed /\ state[s] = "running"])
    /\ state' = [state EXCEPT ![s] = "crashed"]
    /\ doing' = [doing EXCEPT ![s] = "none"]
    /\ Post(s, "crash", Len(incidents) + 1) \/ (Throttled(s) /\ UNCHANGED rows)
    /\ UNCHANGED <<owned, boots, user, marked, monitor, hist>>

Fail(s) == state[s] \in {"running", "starting"} /\ EnterCrashed(s, FALSE)

KillLands(s) == state[s] = "stopping" /\ doing[s] = "kill" /\ EnterCrashed(s, TRUE)

Halt(s) ==
    /\ state[s] = "stopping" /\ doing[s] # "restart"
    /\ state' = [state EXCEPT ![s] = "offline"]
    /\ doing' = [doing EXCEPT ![s] = "none"]
    /\ Post(s, "offline", 0)
    /\ UNCHANGED <<owned, incidents, boots, user, marked, monitor, hist>>

\* A restart's second half, a start from elsewhere, or the automatic restart.
ComeUp(s) ==
    /\ state[s] \in {"offline", "crashed"} \/ (state[s] = "stopping" /\ doing[s] = "restart")
    /\ state' = [state EXCEPT ![s] = "starting"]
    /\ doing' = [doing EXCEPT ![s] = "none"]
    /\ UNCHANGED <<owned, rows, incidents, boots, user, marked, monitor, hist>>

Boot(s) ==
    /\ state[s] = "starting" /\ boots[s] < MaxBoots
    /\ state' = [state EXCEPT ![s] = "running"]
    /\ boots' = [boots EXCEPT ![s] = @ + 1]
    /\ Post(s, "online", 0)
    /\ UNCHANGED <<owned, doing, incidents, user, marked, monitor, hist>>

RemoteStop(s) ==
    /\ "remote" \in Env /\ state[s] = "running"
    /\ state' = [state EXCEPT ![s] = "stopping"]
    /\ UNCHANGED <<owned, doing, rows, incidents, boots, user, marked, monitor, hist>>

Suspend(s) ==
    /\ "suspend" \in Env
    /\ state' = [state EXCEPT ![s] = IF state[s] = "suspended" THEN "offline" ELSE "suspended"]
    /\ doing' = [doing EXCEPT ![s] = "none"]
    /\ suspendShown' = suspendShown \ {s}
    /\ UNCHANGED <<owned, rows, incidents, boots, user, marked, monitor, first, heard,
                   backed, byFeed, byState, onlines, backs>>

Delete(s) ==
    /\ "delete" \in Env /\ s \in owned
    /\ owned' = owned \ {s}
    /\ UNCHANGED <<state, doing, rows, incidents, boots, user, marked, monitor, hist>>

-----------------------------------------------------------------------------
(* Power actions: server_power and the tray's power_from_tray *)

MarksIntent(signal) == signal # "start"

Issue(c, command) ==
    /\ signedIn /\ asked[c] = None /\ issued < MaxActions
    /\ asked' = [asked EXCEPT ![c] = command]
    /\ issued' = issued + 1
    /\ marked' = IF MarksIntent(command.signal) THEN marked \cup {command.server} ELSE marked
    /\ UNCHANGED <<panel, signedIn, monitor, hist>>

Accepts(command) ==
    IF command.signal = "start" THEN state[command.server] \in {"offline", "crashed"}
                                ELSE state[command.server] \in Up

Perform(command) ==
    /\ Accepts(command)
    /\ state' = [state EXCEPT ![command.server] =
                   IF command.signal = "start" THEN "starting" ELSE "stopping"]
    /\ doing' = [doing EXCEPT ![command.server] =
                   IF command.signal = "start" THEN "none" ELSE command.signal]

Backed(command) ==
    IF MarksIntent(command.signal) THEN (backed \cup {command.server}) \cap marked ELSE backed

AnswerAndKeep(c) ==
    /\ asked[c] # None
    /\ asked' = [asked EXCEPT ![c] = None]
    /\ \/ Perform(asked[c]) /\ backed' = Backed(asked[c])
       \/ ~Accepts(asked[c]) /\ UNCHANGED <<state, doing, backed>>
    /\ UNCHANGED <<owned, rows, incidents, boots, signedIn, issued, marked, monitor, first,
                   heard, toasts>>

\* The panel carries the action out, refuses it, or carries it out and the
\* answer is lost; an error drops the mark.
Answer(c) ==
    /\ asked[c] # None
    /\ asked' = [asked EXCEPT ![c] = None]
    /\ \/ /\ Perform(asked[c])
          /\ backed' = Backed(asked[c])
          /\ UNCHANGED marked
       \/ /\ ~Accepts(asked[c]) \/ "reject" \in Env
          /\ marked' = marked \ {asked[c].server}
          /\ backed' = backed \ {asked[c].server}
          /\ UNCHANGED <<state, doing>>
       \/ /\ "lost_reply" \in Env
          /\ Perform(asked[c])
          /\ marked' = marked \ {asked[c].server}
          /\ backed' = backed \ {asked[c].server}
    /\ UNCHANGED <<owned, rows, incidents, boots, signedIn, issued, monitor, first, heard,
                   toasts>>

\* The 120 s of a mark are over.
IntentExpires(s) ==
    /\ "expire" \in Env /\ s \in marked
    /\ marked' = marked \ {s} /\ backed' = backed \ {s}
    /\ UNCHANGED <<panel, user, monitor, first, heard, toasts>>

\* The session ends or begins: sign-out, expiry, a resume.
Session ==
    /\ "session" \in Env
    /\ signedIn' = ~signedIn
    /\ UNCHANGED <<panel, asked, issued, marked, monitor, hist>>

-----------------------------------------------------------------------------
(* One poll *)

WakeAndReprime ==
    /\ pc = "sleep"
    /\ IF signedIn
       THEN pc' = "list" /\ UNCHANGED <<last, crashed, primed, noticesPrimed>>
       ELSE /\ last' = Nothing /\ crashed' = {}
            /\ primed' = FALSE /\ noticesPrimed' = FALSE
            /\ UNCHANGED pc
    /\ UNCHANGED <<panel, user, marked, snap, mark, hist>>

\* Signed out: the bookkeeping of the session is dropped, the mark is not.
Wake ==
    /\ pc = "sleep"
    /\ IF signedIn
       THEN pc' = "list" /\ UNCHANGED <<last, crashed, primed>>
       ELSE last' = Nothing /\ crashed' = {} /\ primed' = FALSE /\ UNCHANGED pc
    /\ UNCHANGED <<panel, user, marked, snap, noticesPrimed, mark, hist>>

FetchList ==
    /\ pc = "list" /\ pc' = "feed"
    /\ \/ /\ signedIn
          /\ snap' = [page |-> [s \in owned |-> state[s]], incidents |-> Len(incidents)]
       \/ ("list" \in Env \/ ~signedIn) /\ snap' = None
    /\ UNCHANGED <<panel, user, marked, last, crashed, primed, noticesPrimed, mark, hist>>

Listed == IF snap = None THEN Nothing ELSE snap.page

\* The rows this poll reads and has not processed before.
FreshAgain == {i \in DOMAIN rows : i + Page > Len(rows) /\ i >= mark}
Fresh == {i \in DOMAIN rows : i + Page > Len(rows) /\ i > mark}

AdvanceLate == IF mark = 0 THEN Len(rows) ELSE mark + 1
Advance == IF Len(rows) > mark THEN Len(rows) ELSE mark

\* handle_notice: a crash is announced unless it already was, and remembered
\* unless the list shows the server up; a boot is announced unless it will be
\* announced as a recovery.
HandleNotice(acc, i) ==
    LET row == rows[i]
        already == row.name \in acc.crashed
        seenUp == \E s \in DOMAIN Listed : NameOf[s] = row.name /\ Listed[s] = "running"
    IN  IF row.kind = "crash"
        THEN [acc EXCEPT !.byFeed = IF already THEN @ ELSE @ \cup {row.incident},
                         !.crashed = IF seenUp THEN @ ELSE @ \cup {row.name}]
        ELSE IF row.kind = "online" /\ ~already
        THEN [acc EXCEPT !.onlines[row.name] = @ + 1]
        ELSE acc

\* decide(): what one observed transition means.
DecideUnmarked(prev, cur, intent, wasCrashed) ==
    [consume |-> intent /\ cur \in Settled /\ cur # prev,
     alert   |-> IF cur = "running" /\ wasCrashed THEN "online"
                 ELSE IF cur = "crashed" /\ ~intent /\ ~wasCrashed THEN "crashed"
                 ELSE IF prev # "suspended" /\ cur = "suspended" THEN "suspended"
                 ELSE "none"]

DecideOnEdge(prev, cur, intent, wasCrashed) ==
    LET settles == cur \in Settled /\ cur # prev
    IN  [consume |-> intent /\ settles,
         alert   |-> IF cur = "running" /\ wasCrashed /\ settles THEN "online"
                     ELSE IF cur = "crashed" /\ settles /\ ~intent /\ ~wasCrashed THEN "crashed"
                     ELSE IF prev # "suspended" /\ cur = "suspended" THEN "suspended"
                     ELSE "none"]

Decide(prev, cur, intent, wasCrashed) ==
    LET userInitiated == intent /\ cur \in Settled /\ cur # prev
        justCrashed == cur = "crashed" /\ prev # "crashed"
    IN  [consume |-> userInitiated,
         alert   |-> IF cur = "running" /\ wasCrashed THEN "online"
                     ELSE IF justCrashed /\ ~userInitiated /\ ~wasCrashed THEN "crashed"
                     ELSE IF prev # "suspended" /\ cur = "suspended" THEN "suspended"
                     ELSE "none"]

\* The crash a snapshot shows server s in.
IncidentOf(s) ==
    LET mine == {i \in 1..snap.incidents : incidents[i].server = s}
    IN  IF mine = {} THEN 0 ELSE CHOOSE i \in mine : \A j \in mine : j <= i

ForgetNothing(acc, s, alert) == acc.crashed
Forget(acc, s, alert) ==
    IF alert = "crashed" THEN acc.crashed \cup {NameOf[s]}
    ELSE IF alert = "online" THEN acc.crashed \ {NameOf[s]} ELSE acc.crashed

\* The servers the state pass compares with the previous snapshot, and the
\* marks it consumes.
Compared == IF primed THEN DOMAIN Listed \cap DOMAIN last ELSE {}
Consumed == {s \in Compared : Decide(last[s], Listed[s], s \in marked, FALSE).consume}

OneMore(count, i) == [count EXCEPT ![i] = @ + 1]

\* detect(): decide, and apply the outcome.
Detect(acc, s) ==
    IF s \notin Compared THEN acc
    ELSE LET d == Decide(last[s], Listed[s], s \in marked, NameOf[s] \in acc.crashed)
         IN  [acc EXCEPT
               !.crashed = Forget(acc, s, d.alert),
               !.byState = IF d.alert = "crashed" /\ IncidentOf(s) > 0
                           THEN OneMore(@, IncidentOf(s)) ELSE @,
               !.backs = IF d.alert = "online" THEN OneMore(@, NameOf[s]) ELSE @,
               !.suspendShown = IF d.alert = "suspended" THEN @ \cup {s} ELSE @]

\* The rows handled by this poll: none before the feed was primed.
Handled(read) == IF read /\ noticesPrimed THEN Fresh ELSE {}

ReadFeed(read) ==
    /\ IF read THEN signedIn ELSE "feed" \in Env \/ ~signedIn
    /\ mark' = IF read THEN Advance ELSE mark
    /\ noticesPrimed' = (noticesPrimed \/ read)
    /\ first' = IF read /\ first > MaxRows THEN Len(rows) ELSE first
    /\ heard' = [i \in 1..MaxRows |-> IF i \in Handled(read) THEN heard[i] + 1 ELSE heard[i]]

\* The fresh rows are handled oldest first; then the state pass runs over the list.
Announce(read) ==
    LET start == [crashed |-> crashed, byFeed |-> byFeed, byState |-> byState,
                  onlines |-> onlines, backs |-> backs, suspendShown |-> suspendShown]
        noticed == FoldLeftDomain(LAMBDA acc, i : IF i \in Handled(read) THEN HandleNotice(acc, i)
                                                  ELSE acc, start, rows)
        done == FoldLeft(Detect, noticed, SetToSeq(DOMAIN Listed))
    IN  /\ crashed' = IF snap = None THEN done.crashed
                      ELSE {n \in done.crashed : \E s \in DOMAIN Listed : NameOf[s] = n}
        /\ byFeed' = done.byFeed /\ byState' = done.byState
        /\ onlines' = done.onlines /\ backs' = done.backs
        /\ suspendShown' = done.suspendShown

\* The feed is read, or not, and processed together with the list, if there is one.
FetchFeed ==
    /\ pc = "feed" /\ pc' = "sleep" /\ snap' = None
    /\ \E read \in BOOLEAN : ReadFeed(read) /\ Announce(read)
    /\ last' = IF snap = None THEN last ELSE Listed
    /\ primed' = (primed \/ snap # None)
    /\ marked' = marked \ Consumed /\ backed' = backed \ Consumed
    /\ UNCHANGED <<panel, user>>

-----------------------------------------------------------------------------
Panel == \E s \in Server : \/ Fail(s) \/ KillLands(s) \/ Halt(s) \/ ComeUp(s) \/ Boot(s)
                           \/ RemoteStop(s) \/ Suspend(s) \/ Delete(s) \/ IntentExpires(s)

Power == \E c \in Commander : Answer(c) \/ \E command \in Commands : Issue(c, command)

Poll == Wake \/ FetchList \/ FetchFeed

Next == Panel \/ Power \/ Session \/ Poll

Spec == Init /\ [][Next]_vars

-----------------------------------------------------------------------------
(* Properties *)

TypeOK ==
    /\ owned \subseteq Server
    /\ state \in [Server -> States]
    /\ doing \in [Server -> {"none", "stop", "restart", "kill"}]
    /\ rows \in Seq([name : Name, kind : Kinds, incident : 0..MaxIncidents])
    /\ Len(rows) <= MaxRows
    /\ incidents \in Seq([server : Server, own : BOOLEAN, later : BOOLEAN])
    /\ Len(incidents) <= MaxIncidents
    /\ boots \in [Server -> 0..MaxBoots]
    /\ signedIn \in BOOLEAN
    /\ asked \in [Commander -> Commands \cup {None}]
    /\ issued \in 0..MaxActions
    /\ marked \subseteq Server
    /\ pc \in {"sleep", "list", "feed"}
    /\ DOMAIN Listed \subseteq Server
    /\ \A s \in DOMAIN Listed : Listed[s] \in States
    /\ DOMAIN last \subseteq Server /\ \A s \in DOMAIN last : last[s] \in States
    /\ crashed \subseteq Name
    /\ primed \in BOOLEAN /\ noticesPrimed \in BOOLEAN
    /\ mark \in 0..Len(rows)
    /\ backed \subseteq Server /\ suspendShown \subseteq Server
    /\ first \in 0..(MaxRows + 1)
    /\ heard \in [1..MaxRows -> Nat]
    /\ byFeed \subseteq 1..MaxIncidents
    /\ byState \in [1..MaxIncidents -> Nat]
    /\ onlines \in [Name -> Nat] /\ backs \in [Name -> Nat]

\* No row of the feed is processed twice, however polls fail and sessions come
\* and go: rows are alerted "STRICTLY newer than" the mark (monitor.rs:84-86).
NoticeHeardOnce == \A i \in 1..MaxRows : heard[i] <= 1

\* No row is skipped: one that "lands while signed out still fires on the next
\* successful poll" (monitor.rs:86-88).
NoNoticeMissed == \A i \in (first + 1)..mark : heard[i] = 1

\* The feed is heard exactly once: no row twice, none skipped.
EveryNoticeOnce == NoticeHeardOnce /\ NoNoticeMissed

\* One crash is announced at most once by the state pass, even across a
\* sign-out, which forgets what was announced (monitor.rs:94-98).
StateTellsOnce == \A i \in 1..MaxIncidents : byState[i] <= 1

\* A mark that could silence a crash belongs to a power action that is under way
\* or that the panel carried out: a refused one leaves nothing (commands.rs:249-253).
MarksAreBacked ==
    \A s \in marked :
        s \in backed \/ \E c \in Commander : /\ asked[c] # None
                                             /\ asked[c].server = s /\ MarksIntent(asked[c].signal)

\* "we announce their recovery exactly once" (monitor.rs:80-82): never more often
\* than the server came up.
RecoveryToldOnce == \A s \in Server : backs[NameOf[s]] <= boots[s]

\* A server that came up is announced as "online" or as "back online": the feed
\* leaves recoveries to the state pass "to avoid a double toast" (monitor.rs:246-248).
OneToastPerBoot == \A s \in Server : onlines[NameOf[s]] + backs[NameOf[s]] <= boots[s]

\* "the state path never double-alerts the same incident" the feed announced
\* (monitor.rs:14-16).
CrashToldOnce == \A i \in byFeed : byState[i] = 0

\* "we never want to cry crashed over the user's own action" (state.rs:14-16).
OwnKillIsSilent ==
    \A i \in DOMAIN incidents : incidents[i].own => i \notin byFeed /\ byState[i] = 0

\* A poll that finishes with a list of the servers.
Passes == pc = "feed" /\ pc' = "sleep" /\ snap # None
SeenCrashing(s) == s \in Compared /\ last[s] # "crashed" /\ Listed[s] = "crashed"

\* A crash the state pass sees is announced, unless the user caused it: a second
\* crash "would otherwise be silent" (monitor.rs:9-12).
ObservedCrashIsTold ==
    [][Passes => \A s \in Server :
         SeenCrashing(s) /\ s \notin marked
           => IncidentOf(s) \in byFeed' \/ byState'[IncidentOf(s)] > 0]_vars

\* Once the action behind a mark is carried out, the mark silences no later crash:
\* one "after a restart has brought the server back up is therefore detected, not
\* swallowed" (decisions.md:81-86).
LaterCrashIsTold ==
    [][Passes => \A s \in Server :
         SeenCrashing(s) /\ incidents[IncidentOf(s)].later /\ NameOf[s] \notin crashed
           => s \notin marked]_vars

\* "the SUSPENDED state persists, so the poll always observes it", which is why
\* the feed's row is dropped (monitor.rs:259-261).
SuspensionIsShown ==
    \A s \in DOMAIN last : primed /\ last[s] = "suspended" /\ state[s] = "suspended"
                             => s \in suspendShown

-----------------------------------------------------------------------------
(* Liveness: the loop never ends (monitor.rs:91-92), and a panel that is asked
   again and again answers at last. *)

Fairness ==
    /\ WF_vars(Wake) /\ WF_vars(FetchList) /\ WF_vars(FetchFeed)
    /\ SF_vars(FetchList /\ snap' # None)
    /\ SF_vars(FetchFeed /\ mark' = Advance)

LiveSpec == Spec /\ Fairness

\* A row written after the feed was first read is processed, or nobody is
\* signed in to hear of it.
NoticesArrive ==
    \A i \in 1..MaxRows :
        i <= Len(rows) /\ i > first ~> heard[i] > 0 \/ ~signedIn

\* The recovery of a server announced as crashed is announced once it is up.
RecoveryIsShown ==
    \A s \in Server :
        NameOf[s] \in crashed /\ state[s] = "running"
          ~> NameOf[s] \notin crashed \/ state[s] # "running" \/ ~signedIn

\* Whoever is signed in hears of every row and of every recovery in the end.
NewsArrives == NoticesArrive /\ RecoveryIsShown

=============================================================================
