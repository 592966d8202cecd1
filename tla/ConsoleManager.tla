---------------------------- MODULE ConsoleManager ----------------------------
(***************************************************************************)
(* The live consoles of the window: the Console view that mounts, listens, *)
(* opens and closes (Console.tsx), the manager that keeps one session per  *)
(* open server and the scrollback of closed ones (console/mod.rs), and the *)
(* session tasks, reduced to what ConsoleStatus promises of them.          *)
(***************************************************************************)
EXTENDS Naturals, Sequences, FiniteSets, Functions

CONSTANTS
    Servers, None,
    RingCap,      \* lines a session keeps: 5000 in the code
    Retained,     \* RETAINED_BUFFERS: 12 in the code
    MaxViews,     \* bound: times a console is mounted, and sessions spawned
    MaxLines      \* bound: lines the gateway sends

Views == 1..MaxViews
Tasks == 1..MaxViews
Lines == 1..MaxLines

VARIABLES
    current,    \* the view on screen, 0 when there is none
    mounted,    \* bound: views mounted so far
    view,       \* [server, pc, ears, screen, conn, reply] of each view
    calls,      \* IPC calls on their way to the main thread
    sessions,   \* ConsoleManager.sessions: the task of a server, 0 for none
    retained,   \* ConsoleManager.retained: scrollback of closed sessions
    spawned,    \* tasks spawned so far
    task,       \* [server, conn, stop, buffer, out, late] of each session task: out is
                \* the line in the buffer that is still to be emitted (0: none); late, a
                \* history, the one its close found so
    lines       \* bound: lines received so far

fe      == <<current, mounted, view, calls>>
manager == <<sessions, retained, spawned>>
vars    == <<fe, manager, task, lines>>

Init ==
    /\ current = 0 /\ mounted = 0 /\ calls = <<>>
    /\ view = [v \in Views |-> [server |-> None, pc |-> "none", ears |-> {}, screen |-> <<>>,
                                conn |-> "connecting", reply |-> <<>>]]
    /\ sessions = [s \in Servers |-> 0] /\ retained = << >> /\ spawned = 0
    /\ task = [n \in Tasks |-> [server |-> None, conn |-> "none", stop |-> FALSE, buffer |-> <<>>,
                            out |-> 0, late |-> 0]]
    /\ lines = 0

-----------------------------------------------------------------------------
(* The view *)

\* The session is opened before anybody listens.
MountAndOpen(s) ==
    /\ current = 0 /\ mounted < MaxViews
    /\ mounted' = mounted + 1 /\ current' = mounted'
    /\ view' = [view EXCEPT ![current'].server = s, ![current'].pc = "opening"]
    /\ calls' = Append(calls, <<"open", mounted'>>)
    /\ UNCHANGED <<manager, task, lines>>

Mount(s) ==
    /\ current = 0 /\ mounted < MaxViews
    /\ mounted' = mounted + 1 /\ current' = mounted'
    /\ view' = [view EXCEPT ![current'].server = s, ![current'].pc = "listen_console"]
    /\ calls' = Append(calls, <<"listen", mounted'>>)
    /\ UNCHANGED <<manager, task, lines>>

\* The listener whose registration has not been acknowledged yet.
Pending(v) == CASE view[v].pc = "heard_console" -> {"console"}
                [] view[v].pc = "heard_conn"    -> {"conn"}
                [] OTHER                        -> {}

\* The cleanup leaves the session to the next mount.
UnmountOnly ==
    /\ current # 0 /\ current' = 0
    /\ view' = [view EXCEPT ![current].ears = Pending(current),
                            ![current].conn = "connecting", ![current].reply = <<>>]
    /\ UNCHANGED <<mounted, calls, manager, task, lines>>

\* The effect's cleanup: the listeners it knows of go, the session is closed.
Unmount ==
    /\ current # 0 /\ current' = 0
    /\ view' = [view EXCEPT ![current].ears = Pending(current),
                            ![current].conn = "connecting", ![current].reply = <<>>]
    /\ calls' = Append(calls, <<"close", view[current].server>>)
    /\ UNCHANGED <<mounted, manager, task, lines>>

\* Every listener is kept.
TrackAlways(v) == view[v].ears

\* A listener that is acknowledged after the cleanup is dropped at once.
Track(v) == IF v = current THEN view[v].ears ELSE {}

\* The next listener, in the code's order.
Listen(v) ==
    /\ view[v].pc = "heard_console"
    /\ view' = [view EXCEPT ![v].pc = "listen_conn", ![v].ears = Track(v)]
    /\ calls' = Append(calls, <<"listen", v>>)
    /\ UNCHANGED <<current, mounted, manager, task, lines>>

\* The session is opened although the view is gone.
OpenAnyway(v) ==
    /\ view[v].pc = "heard_conn"
    /\ view' = [view EXCEPT ![v].pc = "opening", ![v].ears = Track(v)]
    /\ calls' = Append(calls, <<"open", v>>)
    /\ UNCHANGED <<current, mounted, manager, task, lines>>

\* After the last listener, consoleOpen, unless the view is gone.
Open(v) ==
    /\ view[v].pc = "heard_conn"
    /\ IF v # current
       THEN view' = [view EXCEPT ![v].pc = "gone", ![v].ears = Track(v)] /\ UNCHANGED calls
       ELSE /\ view' = [view EXCEPT ![v].pc = "opening", ![v].ears = Track(v)]
            /\ calls' = Append(calls, <<"open", v>>)
    /\ UNCHANGED <<current, mounted, manager, task, lines>>

\* The scrollback arrives and is written behind what is already there; a
\* disposed terminal shows nothing.
Opened(v) ==
    /\ view[v].pc = "opened"
    /\ view' = IF v # current THEN [view EXCEPT ![v].pc = "gone", ![v].reply = <<>>]
               ELSE [view EXCEPT ![v].pc = "shown", ![v].screen = @ \o view[v].reply]
    /\ UNCHANGED <<current, mounted, calls, manager, task, lines>>

-----------------------------------------------------------------------------
(* The manager, on the main thread: one call after the other *)

Seed(s) == IF s \in DOMAIN retained THEN retained[s] ELSE <<>>

\* Nothing is evicted.
KeepAll(s, history) ==
    IF history = <<>> THEN UNCHANGED retained
    ELSE retained' = [t \in DOMAIN retained \cup {s} |-> IF t = s THEN history ELSE retained[t]]

\* A closed session's scrollback evicts that of another server when all are taken.
Keep(s, history) ==
    IF history = <<>> THEN UNCHANGED retained
    ELSE LET others == DOMAIN retained \ {s}
             full   == Cardinality(DOMAIN retained) >= Retained /\ s \notin DOMAIN retained
         IN  \E kept \in IF full THEN {others \ {k} : k \in others} ELSE {others} :
                 retained' = [t \in kept \cup {s} |-> IF t = s THEN history ELSE retained[t]]

ServeOpen(v, s) ==
    IF sessions[s] # 0
    THEN /\ view' = [view EXCEPT ![v].pc = "opened", ![v].reply = task[sessions[s]].buffer]
         /\ UNCHANGED <<manager, task>>
    ELSE /\ view' = [view EXCEPT ![v].pc = "opened", ![v].reply = Seed(s)]
         /\ retained' = Restrict(retained, DOMAIN retained \ {s})
         /\ spawned' = spawned + 1 /\ sessions' = [sessions EXCEPT ![s] = spawned']
         /\ task' = [task EXCEPT ![spawned'].server = s]

\* The session is forgotten but not told.
ServeCloseSilently(s) ==
    /\ IF sessions[s] = 0 THEN UNCHANGED <<manager, task>>
       ELSE /\ sessions' = [sessions EXCEPT ![s] = 0]
            /\ Keep(s, task[sessions[s]].buffer)
            /\ UNCHANGED <<spawned, task>>
    /\ UNCHANGED view

ServeClose(s) ==
    /\ IF sessions[s] = 0 THEN UNCHANGED <<manager, task>>
       ELSE /\ sessions' = [sessions EXCEPT ![s] = 0]
            /\ task' = [task EXCEPT ![sessions[s]].stop = TRUE, ![sessions[s]].late = task[sessions[s]].out]
            /\ Keep(s, task[sessions[s]].buffer)
            /\ UNCHANGED spawned
    /\ UNCHANGED view

\* The event plugin registers the listener; from now on it hears.
ServeListen(v) ==
    /\ view' = [view EXCEPT
           ![v].pc   = IF @ = "listen_console" THEN "heard_console" ELSE "heard_conn",
           ![v].ears = @ \cup {IF view[v].pc = "listen_console" THEN "console" ELSE "conn"}]
    /\ UNCHANGED <<manager, task>>

ServeCall(call) ==
    \/ call[1] = "listen" /\ ServeListen(call[2])
    \/ call[1] = "open" /\ ServeOpen(call[2], view[call[2]].server)
    \/ call[1] = "close" /\ ServeClose(call[2])

\* Calls overtake each other.
ServeAnyOrder ==
    \E i \in DOMAIN calls :
        /\ calls' = SubSeq(calls, 1, i - 1) \o SubSeq(calls, i + 1, Len(calls))
        /\ ServeCall(calls[i])
        /\ UNCHANGED <<current, mounted, lines>>

\* Calls are served in the order they were made.
Serve ==
    /\ calls # <<>> /\ calls' = Tail(calls)
    /\ ServeCall(Head(calls))
    /\ UNCHANGED <<current, mounted, lines>>

-----------------------------------------------------------------------------
(* The session tasks *)

Promise(n) == INSTANCE ConsoleStatus WITH conn <- task[n].conn, stop <- task[n].stop

\* The views that hear an event of the server.
Hears(v, event, s) == event \in view[v].ears /\ view[v].server = s

\* A conn event, as ConsoleStatus lets the session say it, between two frames.
Say(n) ==
    \E conn \in Promise(n)!Statuses :
        /\ n <= spawned /\ task[n].out = 0
        /\ \/ Promise(n)!Follows(task[n].conn, conn)
           \/ Promise(n)!MayClose /\ conn = "closed"
        /\ task' = [task EXCEPT ![n].conn = conn]
        /\ view' = [v \in Views |-> IF Hears(v, "conn", task[n].server)
                                    THEN [view[v] EXCEPT !.conn = conn] ELSE view[v]]
        /\ UNCHANGED <<current, mounted, calls, manager, lines>>

Latest(buffer) == IF Len(buffer) > RingCap THEN Tail(buffer) ELSE buffer

\* A console line goes into the ring buffer, whose lock is then dropped.
Push(n) ==
    /\ n <= spawned /\ task[n].conn = "live" /\ task[n].out = 0 /\ lines < MaxLines
    /\ lines' = lines + 1
    /\ task' = [task EXCEPT ![n].buffer = Latest(Append(@, lines')), ![n].out = lines']
    /\ UNCHANGED <<fe, manager>>

\* Then it goes out to the views that listen by now.
Emit(n) ==
    /\ task[n].out # 0
    /\ task' = [task EXCEPT ![n].out = 0]
    /\ view' = [v \in Views |-> IF Hears(v, "console", task[n].server)
                                THEN [view[v] EXCEPT !.screen = Append(@, task[n].out)] ELSE view[v]]
    /\ UNCHANGED <<current, mounted, calls, manager, lines>>

-----------------------------------------------------------------------------

ViewStep(v) == Listen(v) \/ Open(v) \/ Opened(v)

Next ==
    \/ \E s \in Servers : Mount(s)
    \/ Unmount
    \/ \E v \in Views : ViewStep(v)
    \/ Serve
    \/ \E n \in Tasks : Say(n) \/ Push(n) \/ Emit(n)

Spec == Init /\ [][Next]_vars

\* The webview runs its promises, the main thread its calls, and a stopped
\* session closes (StopIsObeyed of ConsoleSession).
Fairness ==
    /\ \A v \in Views : WF_vars(ViewStep(v))
    /\ WF_vars(Serve)
    /\ \A n \in Tasks : WF_vars(Emit(n)) /\ WF_vars(Say(n) /\ task'[n].conn = "closed")

LiveSpec == Spec /\ Fairness

-----------------------------------------------------------------------------
(* Properties *)

TypeOK ==
    /\ current \in 0..MaxViews /\ mounted \in 0..MaxViews /\ spawned \in 0..MaxViews
    /\ \A v \in Views :
          /\ view[v].server \in Servers \cup {None} /\ view[v].ears \subseteq {"console", "conn"}
          /\ view[v].pc \in {"none", "listen_console", "heard_console", "listen_conn",
                             "heard_conn", "opening", "opened", "shown", "gone"}
          /\ {view[v].screen, view[v].reply} \subseteq Seq(Lines)
    /\ sessions \in [Servers -> 0..spawned]
    /\ DOMAIN retained \subseteq Servers /\ Cardinality(DOMAIN retained) <= Retained
    /\ \A n \in Tasks : /\ task[n].buffer \in Seq(Lines) /\ Len(task[n].buffer) <= RingCap
                       /\ {task[n].out, task[n].late} \subseteq 0..MaxLines
    /\ lines \in 0..MaxLines

OnScreen(s) == current # 0 /\ view[current].server = s
Shown(v) == v # 0 /\ view[v].pc = "shown"

\* "Attach listeners BEFORE opening so no line is missed in the gap"
\* (Console.tsx:114): what the session holds and what it was seeded with is on the
\* screen, but for the one line on its way out, however mounts, opens and lines
\* interleave.
NoLineMissed ==
    Shown(current) =>
        LET t == task[sessions[view[current].server]]
        IN  Range(view[current].reply) \cup (Range(t.buffer) \ {t.out})
                \subseteq Range(view[current].screen)

\* Lines that were in the buffer and not yet out when their session was closed: the
\* scrollback has them, and the views that listen later may still hear them.
Late == {task[n].late : n \in Tasks} \ {0}

\* A line that reaches the view as an event is not repeated by the scrollback that
\* open() returns (mod.rs:84-91): a view never meets a running session. The one
\* exception is a line whose session was closed between session.rs:305 and 306.
NoLineTwice ==
    \A v \in Views : \A i, j \in DOMAIN view[v].screen :
        i # j /\ view[v].screen[i] = view[v].screen[j] => view[v].screen[i] \in Late

\* Without the exception, which does not hold: the close takes the scrollback
\* with the line in it, the next view listens, hears the line and is seeded with it.
NoLineEverTwice == \A v \in Views : IsInjective(view[v].screen)

\* The console of a view shows every line it should, once.
EveryLineOnce == NoLineMissed /\ NoLineTwice

\* "Sockets are closed when a server goes off-screen" (mod.rs:63-64): with no call
\* under way only the server on the screen has a session.
OnlyScreenIsOpen == calls = <<>> => \A s \in Servers : sessions[s] # 0 => OnScreen(s)

\* The close of an earlier view of the server never takes the session of this
\* one: the scrollback is followed by a running stream (Console.tsx:124).
ScreenIsFed ==
    Shown(current) =>
        LET n == sessions[view[current].server] IN n # 0 /\ ~task[n].stop


\* A listener that resolves after the cleanup does not leak (Console.tsx:104-106).
NoEarsLeft == \A v \in Views : v # current => view[v].ears \subseteq Pending(v)

\* The screen has the one session and the only listeners.
ScreenHasTheSession == OnlyScreenIsOpen /\ ScreenIsFed /\ NoEarsLeft

\* A session whose server left the screen ends.
OffScreenCloses ==
    \A n \in Tasks : (n <= spawned /\ sessions[task[n].server] # n) ~> task[n].conn = "closed"

\* "the last scrollback is retained so switching back re-populates instantly"
\* (mod.rs:64-65): what a view of the server showed, the next ones show. (For
\* Cardinality(Servers) <= Retained and MaxLines <= RingCap: nothing is evicted.)
ScrollbackReturns ==
    \A u, v \in Views :
        u < v /\ view[u].server = view[v].server /\ Shown(u) /\ Shown(v)
            => Range(view[u].screen) \subseteq Range(view[v].screen)

\* conn events are "emitted by an open console session" (ipc-contract.md:90): the
\* view of a live session says so.
LiveIsShown ==
    Shown(current) =>
        (task[sessions[view[current].server]].conn = "live" => view[current].conn = "live")

=============================================================================
