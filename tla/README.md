# A TLA+ development of ReFx Desktop

ReFx Desktop is a Tauri application: a Rust backend that talks to the ReFx
hosting panel over HTTPS and Socket.IO, and a React window on top of it. This
directory models the parts of it whose correctness depends on the order in
which things happen, checks them with TLC on small instances, and proves some of
the results with TLAPS for every value of the constants.

Contents: [1 inventory](#1-inventory), [2 modules](#2-modules-and-the-code),
[3 what is checked](#3-what-the-runs-check), [4 what is proved](#4-what-is-proved),
[5 disagreements](#5-where-code-and-comments-disagree),
[6 assumptions](#6-assumptions-and-abstractions), [7 not modelled](#7-what-is-not-modelled),
[8 plan](#8-plan).

## 1 Inventory

| Part | State it keeps | Operations | Talks to |
|---|---|---|---|
| **AuthManager** `panel/auth.rs` | token pair in memory, refresh gate, open MFA challenge | login, MFA, authenticated requests with one refresh and one retry, rotation, install, logout | panel `/auth/*`, vault |
| **Vault** `vault.rs` | one refresh token in the credential store | store, load, clear | AuthManager |
| **Resume** `state.rs`, `commands.rs` | cached outcome of the resume and its lock | `ensure_bootstrapped`, `auth_status` | AuthManager, window |
| **Window sign-in store** `store/auth.ts`, `SignIn`, `Reconnecting`, `ForcePasswordChange` | the screen (loading, signed out, offline, second factor, signed in), busy flag, reconnect timer | init, login, MFA, change of password, logout, sessionExpired | `auth_*` commands |
| **PowerIntent** `state.rs` | per server, until when a crash counts as the user's own | mark, active (expires), clear | power commands, monitor |
| **Crash monitor** `monitor.rs` | last snapshot, announced crashes, mark in the notification feed | one poll: session check, list, feed, decide, toast | AuthManager, PowerIntent, tray, toasts |
| **Power commands** `commands.rs`, `tray.rs` | none | mark, request, clear on refusal | PowerIntent, panel |
| **Console session** `console/session.rs` | socket, backoff, refresh streak, ring buffer | connect, authenticate, subscribe, pump, refresh, wait, stop | gateway, AuthManager, `conn:`/`console:` events |
| **Console manager** `console/mod.rs` | session of each open server, retained scrollback of closed ones | open, close | sessions, console view |
| **Console view** `Console.tsx` | listeners, terminal | mount, listen, open, cleanup | console manager, events |
| **Servers store** `store/servers.ts`, `PowerControls`, `ServerDetailPanel`, `CommandPalette` | list, search, pending power actions, selection, detail, statistics with the last sample, requested tab, dialogs | refresh, search, select, power, patchState, focusServer, pollStats | commands, events |
| **Deep links** `deeplink.rs`, `tray.rs`, `Servers.tsx` | inbox, ready flag | route, drain, ready on and off | OS, tray, servers screen |
| **Self-update** `UpdateBanner.tsx` | phase, busy flag, pending manual check | check, install | updater plugin |
| **Settings** `settings.rs`, `Settings.tsx` | a JSON file; what the pane shows | load, save, toggle and revert | monitor, watcher |
| **Two-factor set-up** `TwoFactorSetup.tsx` | secret, recovery codes | enrol, verify, turn off | panel |
| **Server tools** `Files`, `FileEditor`, `Backups`, `Schedules`, `Databases`, `Startup` | a listing, an editor, a form each | list, operate, reload; open, type, save | panel |
| **Admin suite** `components/admin/*` | per screen: rows, search, page, errors, one dialog; cards | ask, page, operate, reload; open, submit | panel |
| **Admin access** `lib/perms.ts`, `AdminApp.tsx`, `nav.ts`, `App.tsx` | view and staff screen | wildcard match, jump to a permitted screen | profile |
| **Panel client** `panel/client.rs` | none; `.refx-part` files while downloading | request, download | panel |
| **Support watcher** `support_watch.rs` | cached identity, seen tickets, creation high-water mark | one poll: list, compare, detail, toast | AuthManager |
| **Shell** `lib.rs`, `tray.rs`, `toast.rs`, `logging.rs` | windows, tray menu | wiring | everything |

How they interact: everything that reaches the panel goes through AuthManager,
whose pair may be rotated under any caller. The monitor, the watcher, the
console sessions and the commands of the window are concurrent tasks of one
tokio runtime; the window is a single-threaded event loop that is out of step
with all of them, and each of its screens is out of step with its own answers.
The panel is a third party that expires, revokes and rotates.

The hard behaviours: a rotating refresh token whose replay after 60 seconds
revokes every session of the account, with answers that get lost and a vault
that may refuse to write; two polled views of the same facts (list and feed)
fetched at different moments; marks and caches that outlive what they stand for;
a supervisor that must neither give up nor retry for ever; views that are
replaced while their listeners and calls are under way; optimistic displays that
have to be taken back; answers that overtake each other; handlers that go on,
after an await, with what they saw before it. `PROJECT.json` lists each of these
under `hazards`, at the line where it bites, with the properties that watch it.

What makes each part correct:

- *AuthManager*: no spent token is ever presented or left on disk, refreshes are
  single-flight, memory and disk agree, a sign-out is final, locks are given
  back, requests end, a dead session is noticed.
- *Monitor*: each row of the feed is processed once, a crash and a recovery are
  each announced once, the user's own action is silent, another's is not.
- *Console*: a rejected token is refreshed once, the backoff tells the failures,
  a stop is obeyed, the console comes back; the lines of the session are on the
  screen, once each, and only the server on the screen has a session.
- *Servers*: what is shown ahead of the panel is backed by a request and ends,
  badges catch up, a search is answered, nothing of one server is shown as
  another's, a restart is sent only for what is shown running.
- *Window*: a link is opened once, the store keeps trying and sends a form once,
  the banner tells the truth, a staffer lands on a screen of theirs.
- *Screens*: the rows are those of the search and the page on display, a form
  makes one thing and keeps what was typed, unsaved text is marked, a setting
  shown is stored, recovery codes are shown.

## 2 Modules and the code

| Module | Models |
|---|---|
| `AuthManager` | AuthManager, vault, resume, the sign-in part of the window |
| `CrashMonitor` | monitor, PowerIntent, power commands, the panel's servers and feed |
| `ConsoleStatus` | abstract: what the `conn` events of a session promise |
| `ConsoleSession` | one session task, the gateway, the account's token |
| `ConsoleManager` | views, IPC calls, manager, and sessions reduced to ConsoleStatus |
| `ServerList` | the polled list, search, power actions, patches, the dialogs of the detail panel |
| `ServerFocus` | selection, detail, stats and rates, focusServer, the tab it asks for |
| `OpenInbox` | inbox, ready flag, tray, the effect of the servers screen |
| `WindowSession` | the sign-in store, the screens that call it and the poll that tells it of a dead session, over the session of the backend |
| `UpdateBanner` | checks, the busy flag, the click that waits, the download |
| `AdminAccess` | the matcher, the navigation, the jump, the view kept by nav.ts |
| `PanelList` | 23 list screens of the staff suite and the server tabs |
| `PanelForm` | 25 dialogs that make a call |
| `PanelCard` | 10 forms that stay on their screen |
| `FilesTab` | the files tab and its editor |
| `SettingsPane`, `TwoFactor` | the settings pane; the second factor |
| `AuthManagerProofs`, `CrashMonitorProofs`, `ServerListProofs` | the theorems about the module named |
| `ConsoleProofs`, `WindowProofs`, `ScreensProofs` | those about the modules that `MCConsole`, `MCWindow`, `MCScreens` compose |
| `Induction` | induction over natural numbers as facts about sets |
| `MC*` | instances for TLC |

Operators next to a definition that say what would go wrong ("Every listener is
kept", "The button is never off") are its plausible faults. Nothing uses them in
the specifications; `PROJECT.json` pairs each property with one of them, and
replacing the definition by it makes the run fail.

**Parts that are checked together.** `MCWindow`, `MCScreens` and `MCConsole` each
hold several modules that share no state. A variable `part` says which of them a
behaviour is about; the others stay in one of their initial states, in which no
action that is to be fair is enabled. So a behaviour of the composition is, for
its part, a behaviour of that module alone and the reverse, and an invariant of
a part that does not run says something of its initial state only. Where parts
do meet in the code, one module holds both: the monitor with the power commands,
the console view with its manager, the store with its screens.

**AuthManager.** Every asynchronous activity (a request, a status call, a
sign-in, a sign-out) is a process with a program counter; a step is the code
between two awaits, split where another thread can see the difference: the vault
write (`Store`) and the write to memory (`Adopt`) are two steps. A token pair is
one value: its access half is `refused` when it has expired, its refresh half is
`unissued`, `live`, `grace` (rotated, still accepted), `spent` (its replay is
punished) or `dead`. `TakeGate`, `CheckRefreshed`, `PickRefresh` and the
rotation steps are `refresh_after_401` and `rotate`; `TakeSlot`, `LoadVault` and
`WhoAmI` are the resume behind `auth_status`; `Logout*` are the stretches of
`logout`. The panel answers, expires, closes grace windows and revokes on its own.

**CrashMonitor.** One poll is three steps (`Wake`, `FetchList`, `FetchFeed`),
because the panel and the user move between them. `HandleNotice` is
`classify_notice` and `handle_notice`, `Decide` and `Detect` are the functions
of the same names, and the marks follow `PowerSignal::marks_intent`, `Issue` and
`Answer`. The panel's side: servers change state, crashes are written to the feed
(throttled to one row per server in half an hour), actions are carried out,
refused or answered too late. History variables count what was announced.

**ConsoleSession.** The program counter follows `run` and `connect_once`: `Top`,
`Dial` (the token), `Connect` (the handshake, with `classify_handshake_error`),
`Opening`, `Authing`, `Pump`, and the outcomes `Fails`, `Transport`,
`Reconnect`, `Unauthorized`, `Stopped` of an attempt as `run` treats them. The
gateway's frames are a queue, so that a rejection can follow an acknowledged
CONNECT, as the gateway does. The link may die with or without the frames under
way; the token expires, the account is blocked, access ends, the user signs out.

**ConsoleManager.** A view is mounted, registers its listeners one after the
other, opens the session, shows the scrollback, and is cleaned up at any point
of this. IPC calls form a queue the main thread serves in order: the two console
commands are synchronous, so they run there. A session task says what
`ConsoleStatus!Follows` allows and receives lines while it is live, also after it
was stopped and has not noticed. A line goes to the buffer (`Push`) and then, with
the lock released, to the window (`Emit`); `out` is the line between the two, and
`late` one that was there when its session was closed. `retained` and the ring buffer keep their limits.
The two console modules meet in `ConsoleStatus`: ConsoleSession is shown to
implement it (checked with fairness by TLC, proved without), and ConsoleManager
is built on it.

**ServerList** and **ServerFocus** split the servers store where its state
splits: the rows with what is expected of them, and the selected server with
what is shown of it. Both are the window's steps between two awaits. `call` is
the list request that `listInFlight` guards, answered by the panel as it is at
some moment in between (`PanelLists`) and taken later (`ListArrives`); a pending
entry is `{signal, since, stateAtSend}` with its age in two steps, MIN_SETTLE
and RECONCILE_TIMEOUT; `asking` are the dialogs, which are state of the one
mounted panel and so outlive a change of server but not the panel (`Forget`). In
ServerFocus the in-flight requests are `gets` and `polled`, `sample` is
`prevSample` by the server it was taken of, and `Focus` waits for the list in
`refreshing` and selects afterwards, whatever was selected meanwhile.

**OpenInbox.** `Route` decides under the lock between emitting and keeping;
`DeeplinkReady` answers the whole inbox, to a screen that may have gone; the
screen registers (`Listens`), drains one link after another and drops what it
had not begun when it goes (`Unmount`). Each link has a fate.

**WindowSession.** Each call of the store is a handler: the operation, whether
it has come to its `init()`, and the answer. The backend is the session it
holds, with the answers AuthManager can give for it. What notices that a session is
gone is a request of the servers store (`Poll`, `PollExpires`), which starts only
while the servers screen is shown and may be answered after that; it alone leads to
`SessionExpired`. A staffer in the suite (`suite`) asks nothing of that store.
`Rearm` leaves a timer
behind that `reconnectTimer` no longer refers to (`orphans`), as the code does
when two `init()` overlap.

**UpdateBanner** follows `runCheck` and `install` with their refs.
**AdminAccess** has the whole catalog and navigation as data; a permission is a
pair of area and action.

**PanelList**, **PanelForm**, **PanelCard.** The screens of the staff suite and
the server tabs were written from a few patterns and differ in what they leave
out of them: a debounce timer, pages, a filter, a request number, a second error
channel, a button that goes off, a dialog that closes before its call, a form
that is filled from the answer or from a fresh read. Each screen, dialog and card
is a record of these features, read off its code and mapped to it; the actions
are the handlers, guarded by the features. A behaviour picks one and stays on it.
What two of them have in common is one action with one meaning, and a
disagreement of one screen with the rest shows as an exception in the property,
which names it.

**FilesTab** has the request number of the listing, the folder each operation
reloads, and the editor with its buffer, its baseline and its flag. `Run` is the
beginning of `run()`, which takes the error away, and `Over` its end; the history
`newest` tells a listing that failed and still says so from one whose error an
operation has taken away (`hushed`). Typing may lead to any text, back to the
baseline too, and a save may reach the panel without its answer reaching the window.
**SettingsPane** has the pane's optimistic copy and the calls to `settings_set`
in the order they are served. **TwoFactor** has the dialog with its lock and the
calls that may outlive it (`strays`, once another dialog has been opened).

## 3 What the runs check

Passing runs. Every property has a fault that violates it in the same run.

| Run | Instance | Properties |
|---|---|---|
| `auth_refresh` | 3 pairs, 2 request loops, resume and sign-out (also while offline), failing vault writes, revocation; 1.7 M states | `TypeOK`; `NeverBurned`: no spent token is presented; `DiskIsSound`: none is left on disk, and at rest the disk holds the pair in memory or nothing; `SingleFlight` |
| `auth_sign_in` | 3 pairs, 1 request loop, password and MFA sign-ins between sign-outs | `MemoryNeverSpent`: the pair in memory is never a spent one |
| `auth_live` | 2 pairs, 1 request loop of the window, refreshes lost twice, failing load and clear, revocation, a crash; 30 k states | `LocksHeldByWorkers`, `NoStaleRefresh`; `CallsFinish`: requests and sign-outs end, a dead session surfaces |
| `monitor_feed` | 1 server, feed of 2 rows, 2 crashes, 2 boots, failing requests, sessions that end and begin; 25 k states | `TypeOK`; `EveryNoticeOnce`; `StateTellsOnce`; `NewsArrives` |
| `monitor_power` | window and tray, 2 actions, refusals, lost answers, expiry, suspension, deletion; 2.2 M states | `MarksAreBacked`: a mark stands for an action under way or carried out; `RecoveryToldOnce` |
| `console` | the code's 1 s and 30 s, 4 faults of any kind, 2 frames under way; and 2 servers, 2 mounts, 2 lines, ring of 1, 1 retained scrollback | `TypesOK` with both limits; `RefreshNeverLoops`; `BackoffTellsFailures`: after n waits the next is 2^n, up to the cap; `SessionLivesAndEnds`; `KeepsPromise`: refinement of ConsoleStatus; `ScreenHasTheSession`: with no call under way only the server on the screen has a session, no late close takes it away, no listener leaks; `EveryLineOnce`: no line of the session is missing on its screen but the one between buffer and window, none is there twice but one whose session was closed in between; `OffScreenCloses` |
| `servers` | 1 server, 2 searches (one finds it), starts, stops and crashes, 2 power actions; 530 k states | `TypeOK`; `OptimismIsSound`; `SearchIsAnswered`; `ListSettles`: pending actions end, badges catch up |
| `window` | 2 servers; 3 links, 2 calls; 2 calls of the store, 1 orphan timer; staff and others; the banner; profiles of all, none and one permission; 226 k states | `TypesOK`; `ShowsOnlySelected`, `FocusServes`; `EachLinkOnce`; `StoreIsSound`; `BannerKeepsFaith`; `LandsSomewhere` |
| `screens` | 2 texts, 2 filters, 2 pages, 3 requests together, 2 changes; 3 openings of a dialog, 2 calls; 2 folders, 2 files, 2 texts, 3 requests together; 2 edits of the settings; 2.4 M states | `TypeOK`; `ShownIsAsked`, `ActionErrorStays`; `FormsAreTrue`; `EditorIsTrue`; `SettingsAreTrue` |

**Bounds.** *Pairs*: two rotations need three pairs; a replay that burns needs a
pair, its successor and a caller that still holds the first. *Request loops*:
two, to race for the gate; a third would wait behind the second. *Feed*: a row
before the priming and one after it, and one that arrives between a failed and a
successful poll; the page is longer than the feed, and what happens otherwise is
the configuration `MonitorOverflow`. *Crashes, boots, actions*: two of each, since
the properties are about the second of something. *Console faults*: four, enough
for a refresh, a failure after it and a second rejection or stop; five doublings
reach the cap. *Mounts*: two, for a race of a cleanup with the next mount. *Lines*:
one more than the ring holds. *Servers of the list*: one, because nothing of one
row's life depends on another's, and what crosses between servers is ServerFocus,
with two. *Power actions*: two, the second while the first is not answered.
*Links*: one kept, one emitted, one of the tray. *Handlers of the store*: two
overlapping ones; with three every pair of them still behaves like two.
*Profiles*: what counts is which items of the navigation a profile sees, so the
read and the manage rung of each area, everything, nothing, and a permission that
makes staff and opens no item. *Texts of the editor*: two suffice to type, to undo
and to save an older one (with three, 8.4 M states, the properties hold too). *List requests*:
three under way, the oldest, the newest and one between; two where the screen
keeps a list per tab. *Dialogs*: three openings, so that an answer to the first
can meet the second, and its to the third.

**Fairness** is stated only in the runs with a temporal property. *AuthManager*:
every HTTP call ends (10 s to connect, 30 s in all), so each step of an activity
is taken; tokio's mutexes serve in order, hence strong fairness on acquiring one;
a request loop of the window polls on. *CrashMonitor*: the loop runs for ever and
a panel that is asked again and again answers at last (strong fairness on the
successful fetch). *ConsoleSession*: the runtime schedules the task and each of
its awaits ends by a deadline; `select!` picks at random among what is ready and
does not ignore the stop signal for ever. *ConsoleManager*: the webview runs its
promises, the main thread its calls, and a stopped session closes, which is what
`StopIsObeyed` shows of it. *ServerList*, *ServerFocus*: intervals and timeouts
fire while the screen is visible, every request ends, and a panel or node that is
asked for ever answers some of the time (strong fairness on `ListArrives`,
`PanelLists`, `StatsArrive`). *OpenInbox*, *WindowSession*, *UpdateBanner*: calls,
events and downloads end, the reconnect timer fires, the servers screen goes on
polling as long as it is shown; nothing is assumed of the staff suite, where no such
poll runs. *AdminAccess*: React runs the effect of what it rendered. The user owes
nothing, and no fault need ever end except by its bound.

**Deadlock** is checked except where the system may stop: `auth_live`, the
console, window and screens runs end in states where the bounds on tokens,
faults, mounts, links, texts or openings are used up and nobody acts.

## 4 What is proved

Every safety property that a passing run checks is also a theorem, for every value
of the constants that the named assumptions of the module admit (`ConstAssumption`;
`WindowAssumption`, `NothingAssumption`, `StartAssumption`, `NoneAssumption`,
`BoundAssumption` say that bounds are natural numbers, that `None` is none of the
values it is told from, and that there is a first text, filter, page and folder). TLC
evaluates them in the runs. A theorem's hypothesis, where it has one, is in the table.

| Theorem | Statement |
|---|---|
| `AuthManagerProofs!TypeCorrect` | `Spec => []TypeOK` |
| `!LocksAlwaysHeldByWorkers` | a held gate or slot lock belongs to a process in the section it guards |
| `!NoRefreshOutlivesSignOut` | no request's refresh is in flight when a sign-out ends |
| `!TasksRefreshOneAtATime` | the refreshes of requests exclude each other |
| `!RefreshesAreSingleFlight` | so do all refreshes, the resume's included. If `OneResume` |
| `!MemoryIsNeverSpent` | the pair in memory is never a spent one. If `OneResume` and no retry is lost |
| `!SessionsAreNeverBurned` | no spent token is presented. If also nothing crashes |
| `!DiskFollowsMemory` | at rest the disk holds the pair in memory or nothing. If nobody signs in, and not both write and clear of the vault can fail |
| `!DiskIsAlwaysSound` | `DiskIsSound`. If also no retry is lost and nothing crashes |
| `CrashMonitorProofs!MonitorTyped` | `Spec => []TypeOK` |
| `!FeedIsConsumedOnce` | each row after the priming is processed exactly once. If `MaxRows <= Page` |
| `!NoRowIsHeardTwice` | whatever the page, no row is processed twice |
| `!NoOrphanMarks` | a mark stands for an action under way or carried out |
| `!EachCrashIsToldOnce` | the state pass announces no crash twice |
| `!RecoveriesAreTold` | no more recoveries are announced than there were. If `Undisturbed` |
| `ConsoleProofs!ConsolesAreTyped` | `TypesOK` of session and consoles, with the limits of ring and scrollback |
| `!NoRefreshLoop` | a rejected token is refreshed once |
| `!BackoffAlwaysTellsFailures` | after n waits the next is 2^n times the first, up to the cap, for any first and any cap |
| `!ImplementsStatus` | each step of a session is one of ConsoleStatus or a stutter |
| `!ScreenKeepsItsSession` | with no call under way only the server on the screen has a session, and no listener leaks |
| `!LinesAreShownOnce` | a console shows each line its session keeps but the one on its way out, and none twice but one whose session was closed between its push and its emission |
| `ServerListProofs!ListTypeCorrect` | `Spec => []TypeOK`: pending actions name their server's request, dialogs a mounted panel |
| `!OptimismIsSoundAlways` | what is expected was asked for and not refused; a restart is sent only for what is shown running |
| `WindowProofs!WindowTyped`, `!WindowIsSafe` | the types, and the five statements below, of the parts of the window as the run composes them |
| `!NothingOfAnotherServer` | detail, stats and rates are of the selected server |
| `!ConsoleIsForItsServer` | a wanted console is taken by its own server's panel (an action property) |
| `!NoLinkTwice` | no link is opened twice; until a screen goes away only the tray's are lost |
| `!OfflineAlwaysRetries`, `!OneFormAtATime` | the offline screen has something that will leave it; until somebody signs out, busy is one submit |
| `!BannerTellsTheTruth` | a download is alone and shows as one; nobody is nagged who did not ask |
| `ScreensProofs!ScreensTyped` | `Spec => []TypeOK` of all screens |
| `!ListsShowWhatIsAsked` | a list at rest shows what is asked for, without the four races |
| `!ErrorsStayTillTheNext` | only the next operation takes an operation's error away (an action property) |
| `!FormsMakeOnce` | a dialog makes one thing; a card keeps what was typed and shows what the panel holds |
| `!FilesAreTrue` | the folder listed is the one named, or its listing failed and says so until the next operation; text that is not on disk is marked. Without reloads of a folder that was left, typing into a save, a file over another, a lost answer to a save |
| `!SettingsShowWhatIsStored` | a pane at rest shows what is stored; recovery codes are shown |

**The hypotheses** are the faults that break the statement: TLC finds a counterexample
when the constant `Env` admits them. `OneResume`: the resume rotates without the gate.
When a sign-in can start while it has no answer (a load of the vault fails; somebody
signs out while offline; the panel revokes the session and the clear of the vault
fails), two refreshes run side by side, and `SingleFlight` fails. In the first two cases
so do `MemoryNeverSpent` and `NeverBurned`: TLC needs five tokens to get there, and has
not got there in the third. A lost retry (`lose_twice`) leaves the app with a token
that was rotated away, which takes four tokens to show; a crash leaves one on disk
(`AuthCrashStrands` of section 5). A write and a clear that both fail leave disk and
memory apart, and so does a sign-in between the two writes of a refresh. `Undisturbed`:
servers have names of their own (`MonitorSameName`), the session lasts, and of list
and feed only one can fail to be fetched, or else a recovery is told twice.

### The invariants

*Locks.* `LocksHeldByWorkers` is not inductive: it does not say that a process in
a guarded section holds the lock, so a second one could enter. `LockInv` adds
the converse (whoever is between `TakeGate` and its release holds the gate, and
likewise for the sign-out and the slot) and that the `stale` set, recorded when a
sign-out ends, holds no task, which follows because the sign-out then holds the
gate. `TypeOK` is needed for the ranges of the program counters.

*Single flight.* `ResumeInv`: who rotates holds the gate or the slot, or only installs
a fresh sign-in; and while the resume has no answer nobody else can rotate.

*Tokens.* `MemInv` follows a pair from the panel's answer to memory: a pair on its way
to `install()` is fresh and held by nobody else, and the pair in memory is `Sound`: a
token that was rotated away stays in its grace window as long as it can be presented,
because a rotation that holds it keeps the window open. `BurnInv` says the same of every
token somebody holds, and of the disk until the resume has read it. `DiskInv` says that
disk and memory differ only between `Store` and `Adopt`.

*Feed.* `EveryNoticeOnce` says nothing of rows not yet processed. `FeedInv` adds
that rows beyond the mark have not been heard, that the mark lies within the feed
and that before the priming there is neither mark nor history. A poll then moves
the mark to the end of the feed and hears exactly the rows between; with a page as
long as the feed none of them is cut off, without that hypothesis it is false.

*Marks.* `MarksAreBacked` is inductive together with the types of the actions in
flight: `Issue` sets mark and action together, `Answer` either backs or clears.

*A poll of any length.* `FetchFeed` handles the rows and compares the servers by folds.
`FoldExists` shows that a fold over a sequence is a chain of accumulators, so that what
every single row or server keeps, the poll keeps (`NoticeFold`, `DetectFold`). On this
rest the types; `TellInv`, by which a crash the state pass is about to see is newer than
those of the same server it announced; and `BackInv`, by which a server whose recovery
may be announced came up once more than was announced.

*Sessions.* `RefreshNeverLoops` needs `StreakInv`: once refreshed, the streak flag
is set, and a refresh under way is the first. The refinement needs `ConnInv`,
which ties the last announced event to the program counter: a session that closes
has been stopped or has said "failed". The backoff needs 2^n as a function:
`DoublesExist` builds it by induction over n, and waiting longer is doubling or the cap.

*Consoles.* `WindowInv` has five parts. `QueueInv`: the calls of one view come in order
and only the newest view has calls beside closes. `SessionInv`: a session is its view's
or has a close in the queue. `ScreenInv`: the view on screen, as far as its program
counter has come, has its listeners, its session and all lines since, because every
close of an earlier view was served before. `LineInv`: lines are numbered as they come.
`OutInv`, for the two steps a line takes: a line between buffer and window is in the
buffer of one session only (`Apart`), and unless it is late no view and no scrollback
has it yet (`Unseen`), so that its emission cannot repeat it.

*Servers.* That a refusal clears the right entry needs `PowerInv`: each entry
names an action of its own server, so the entries a refusal leaves alone are not
backed by what was refused. `ListInv` adds the types; `asking # {} => Shown`
holds because every step that could take the panel away goes through `Forget`.

*Focus.* `ShowsOnlySelected` says nothing of the sample that the next rate is made
with; `FocusInv` adds that it is of the selected server, which is where clearing
it in `select` is needed.

*Links.* `PlaceInv`: a link that is kept or under way has been sent and no more,
is in one of inbox, events and drain only and only once; after it was opened just
its place in the drain remains. `ArrivalInv` ties the ready flag to a screen that
listens, until a screen has gone away.

*Store.* `StoreInv`: a handler that has come to its `init()` is an init or a
submit that worked; busy is set by the only submit; an offline screen has a timer
or a call. *Banner.* `BannerInv`: the busy flag stands for exactly one thing under
way, and a click is noted only for a check somebody waits for or a download
somebody clicked into.

*Lists.* `ShownIsAsked` speaks of a list at rest; `RowsInv` says what brings it there:
the last request under way is for what is wanted and not from before the last change,
or an error shows, or the rows are right; a running timer will ask for what is wanted.
`NewestInv` says which requests count: with request numbers at most the last,
otherwise all. This covers every screen and any number of requests at once.

*Dialogs, cards.* `FormInv`: no two calls are of one opening, the button is off exactly
while there is one, and a call that has not taken effect has made nothing. `CardInv`: a
call that nobody typed into is alone and tells what the panel holds. *Files.* `TabInv`:
the newest listing is of the folder on display, the only save under way of the text in
the editor. `OverKeeps` and `RunKeeps` say what the two ends of `run()` do to the error
that a failed listing has left: the first never takes it away, the second notes that it did. *Settings.* `SettingsInv`: an edit alone starts from what is stored, and its
refusal restores that. *Codes.* `CodesInv`: a code under way belongs to the dialog.

Two techniques recur. Parts that a run composes are proved one by one and then side by
side: a step of one leaves the others' invariants alone (`WindowProofs`,
`ScreensProofs`, `ConsoleProofs`). And induction over numbers is done with sets of
natural numbers, in `Induction`: a set that holds 0 and with n also n + 1 is all of Nat.

### What is only model-checked

Everything under fairness, since liveness and ENABLED are beyond the prover:
`CallsFinish`, `NewsArrives`, `SessionLivesAndEnds`, `OffScreenCloses`, `SearchIsAnswered`,
`ListSettles`, `LandsSomewhere`, the fairness of `KeepsPromise`, and the second halves of
`FocusServes`, `EachLinkOnce`, `StoreIsSound` and `BannerKeepsFaith`, whose first halves
are theorems. The agreement of a run's small instance with the hypotheses above is TLC's.

## 5 Where code and comments disagree

Three runs of `PROJECT.json` expect a violation; each finding quotes the comment.

| Run | What happens |
|---|---|
| `auth_resurrected` | a resume in flight is not stopped by the gate that `logout` holds and brings the session back |
| `monitor_twice` | a crash between the fetch of the list and of the feed is announced from both |
| `files_unsaved` | what is typed while a save is under way counts as saved and is discarded without a question |

The other configurations of this directory each refute one more comment. Run them
by hand (`tlc -config <name>.cfg <module>`); each ends in a counterexample.

| Configuration, module | Property | The comment, and what the code does |
|---|---|---|
| `AuthCrashStrands`, MCAuthManager | `DiskNeverSpent` | auth.rs:454-456 "so a crash can't strand a rotated-away token on disk"; a crash between the panel's rotation and the vault write does |
| `AuthRefusedOffline`, MCAuthManager | `OfflineMeansUnreachable` | commands.rs:77-79 "a 401 would have cleared it"; not if the clear failed |
| `AuthLeftBehind`, MCAuthManager | `SignOutLeavesNoSession` | auth.rs:286-287 "already revoked above"; the result of the revocation is discarded |
| `MonitorOwnKill`, MCCrashMonitor | `OwnKillIsSilent` | state.rs:14-16; the feed never asks for the intent |
| `MonitorOverflow`, MCCrashMonitor | `NoNoticeMissed` | monitor.rs:86-88; rows beyond one page are skipped |
| `MonitorSameName`, MCCrashMonitor | `RecoveryToldOnce` | monitor.rs:80-82 "exactly once"; servers are told apart by display name only |
| `MonitorSecondCrash`, MCCrashMonitor | `ObservedCrashIsTold` | monitor.rs:9-12; a second crash after an unseen recovery is silent |
| `MonitorQuickRestart`, MCCrashMonitor | `LaterCrashIsTold` | decisions.md:84-86; the mark of a restart no poll saw swallows the next crash |
| `ConsoleFailure`, ConsoleSession | `FailureStaysShown` | session.rs:344 "surface it instead of looping forever"; "closed" follows at once and takes the reason off the screen |
| `ConsoleLateClosed`, ConsoleManager | `LiveIsShown` | ipc-contract.md:90 "emitted by an open console session"; the closed session of a previous view still says "closed" |
| `ConsoleScrollback`, ConsoleManager | `ScrollbackReturns` | the scrollback that a close retains is gone at the second return to a server |
| `ServersError`, MCServerList | `ErrorIsOfSelected` | servers.ts:171 "don't carry one server's error onto another"; a refusal that arrives after another server was selected is shown for that one |
| `AdminDeadEnd`, MCWindow | `NoDeadEnd` | AdminApp.tsx:89-91; a staffer with locations.manage or payments.manage alone is taken to a screen whose first request the panel refuses |
| `SettingsRevert`, MCScreens | `RevertMatchesStored` | Settings.tsx:79-82 "so the UI matches the persisted state"; the second of two refused edits restores what the first took back |
| `DialogClosesAnother`, MCScreens | `ClosedByItsOwn` | a dialog that was dismissed while its call was under way takes the next one off the screen |

Some more need only other constants in one of these files. From
`AuthCrashStrands` with `MaxCrashes = 0`: `Env = {"sign_in", "offline_sign_out"}`
violates `SingleFlight` (auth.rs:7-8 "refreshes are single-flight"; the resume
rotates without the gate), `Env = {"store", "clear"}` violates `DiskNeverSpent`
(auth.rs:459-463; the error of the fallback clear is ignored), `Env = {}` violates
`SignInScreenMeansSignedOut` (auth.ts:60-61 "Anything else is a genuine
signed-out"; a 5xx of the profile is not). From `MonitorOwnKill`: `Notices = {}`
violates `OwnKillIsSilent` again (the state pass may consume the intent early);
with `MaxActions = 0` it violates `OneToastPerBoot` (monitor.rs:246-248 "to avoid a
double toast"), with `Env = {"list", "feed"}` also `RecoveryToldOnce`, and with
`Env = {"session", "suspend"}` also `SuspensionIsShown` (monitor.rs:259-260 "the
poll always observes it"; not one that began while signed out). `ConsoleFailure`
with `Env = {"network", "expire"}` violates `RejectedMeansBlocked`: a token that
expires again after a refresh and a network failure is taken for a blocked account.

Where a checked property names an exception, its form without the exception is
defined next to it and does not hold: `NoLinkLost` (OpenInbox), `NeverStranded`,
`TimerNeverStacks` and `SignOutWins` (WindowSession), `NeverNagged`
(UpdateBanner), `RightFolderAlways` (FilesTab), `NoLineEverTwice` (ConsoleManager).
What three of them show:

| Property | Counterexample |
|---|---|
| `NoLineEverTwice` with the constants of `ConsoleLateClosed` | a line is in the buffer and not yet emitted (session.rs:305-306) when its console is closed and opened again: the new view listens, hears it, and is seeded with it |
| `NeverStranded` with those of `Window` | auth.ts:158-160 "when any authed request discovers the session died"; only requests of the servers store report it (servers.ts:83), and App.tsx:24 takes the screen that makes them away while the staff suite is shown, whose screens only show the error |
| `RightFolderAlways` with those of `Screens` | Files.tsx:54-55; after the listing of a folder failed, the entries of the last one stay, and the next operation, a download for one, takes the error away (Files.tsx:96) |

## 6 Assumptions and abstractions

*Panel* (external; from `docs/recon` and how the code uses it). A rotation creates
a new session row; a rotated token is accepted for a grace window, where its reuse
mints another pair; afterwards its reuse revokes all. The window stays open while
a rotation with that token is in flight, and once the last pair of the instance
is issued no window closes, which only shortens behaviours. Unless `lose_twice` is
admitted, the retry after a lost answer gets through. An error answered by the
panel means it did not rotate. `refresh_access_token` is not an action of its own:
it is the 401 path for an expired pair. A token
response carries both tokens: `install()` refuses one that does not (auth.rs:466-468). For AdminAccess: the panel asks of the
first request of a screen what `Needs` says.

*Monitor.* The toasts for crash and online are on, for offline off, the defaults.
"starting" stands for all transient states. A kill may land in CRASHED. With
`Notices = {}` the rows of a server go elsewhere, as for a server shared by its
owner. Rows of the channels EMAIL and SMS are left out: `handle_notice` drops them
first (monitor.rs:216-224), so they only take room on a page. A poll sees the session as it is at its first step.

*Console session.* The jitter and the attempt counter are left out, and whether a
connection was stable is a free choice. A token outlives the attempt it was minted
for; a sign-in during a session's life is not modelled. Stats, power and console
frames do not change the supervisor and are left to ConsoleManager.

*Console manager.* Calls of the window are dispatched in the order they are made.
An event is in the window as soon as it is emitted. The `status:` listener is left out; it only delays the open. A line has one
reader: lines of two sessions of one server are told apart. Of the buffers `TypesOK`
says that no limit is exceeded, not which entry goes.

*Servers.* The viewer may use the power buttons. One realtime event is under way
at a time. The connection badge and the texts of errors are left out; the stats
error is a `StatsFail`. A row that is added during `focusServer`'s wait is any row.

*Window.* The backend of WindowSession answers `auth_status` with any answer
AuthManager allows for the session it holds, and may ask for a new password at any
time. Any sign-in may find the staff suite on display; which view is kept is
AdminAccess. A store call that throws sets an
error text, which is left out. Of the updater only the order of its answers counts.

*Screens.* Texts are compared for equality only; one field stands for the fields
that are typed into and one for the rest. A panel operation takes effect once or
not at all, and its answer may be lost. Validation that a button waits for, and
notices that fade, are left out. Two operations on rows at once are not modelled:
a screen's own busy flag excludes them on some screens, on the others the second
behaves as the first.

## 7 What is not modelled

The support watcher (planned, section 8) and the Rust copy of the matcher, which
only it uses. Of the admin suite: the drawers of a server and of a user beyond
the dialogs they open, the assignment of roles, generated passwords on display,
editing the lines of a product's prices as opposed to adding them. Of the server
tools: the display of a database password, uploads and downloads beyond their
effect on the listing; the shared `.refx-part` file of two downloads. The request
wrappers, in `lib/ipc.ts` and in Rust, add no state to AuthManager's. The wire
codec is a pure decoder of text. The settings file's format and its watch
channels; the monitor assumes the defaults. Passkeys, tray menus, toasts, logging
and window handling are input and output. SFTP is an empty module. `close_all` of
the console manager has no caller.

## 8 Plan

Modelled, checked and proved as far as section 4 says: `AuthManager`, `CrashMonitor`,
`ConsoleStatus`, `ConsoleSession`, `ConsoleManager`, `ServerList`, `ServerFocus`,
`OpenInbox`, `WindowSession`, `UpdateBanner`, `AdminAccess`, the three `Panel*` modules,
`FilesTab`, `SettingsPane`, `TwoFactor`. Next, in order of what matters most:

1. `SupportWatch`: the ticket poll with its dedup state and the panel's queue. A
   new unassigned ticket is announced once, a reply once and not the agent's own,
   nothing of another account; with `perms.rs` as its gate.
2. An account for each token pair in AuthManager, so that a retried request and a
   poll of the monitor after a change of user can be told to be of the wrong one.
3. An abstract session that is signed in or not, with sign-out final, implemented
   by AuthManager when the resume is awaited first; and OpenInbox as an
   implementation of a queue that is read once.
4. `Download` with its `.refx-part` file; a second page of the feed.

Proofs still worth having: `SignOutIsFinal` for behaviours whose resume was answered
before; ConsoleManager as an implementation of one session for each server; what of
`RecoveryToldOnce` remains when names are shared (at most once for each name).
