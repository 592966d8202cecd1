------------------------------ MODULE ServerList ------------------------------
(***************************************************************************)
(* The list of servers in the window: the polled list with its search, the *)
(* power actions shown before the panel confirms them and the realtime     *)
(* patches of single rows (store/servers.ts), with what the detail panel   *)
(* and the power buttons offer (ServerDetailPanel.tsx, PowerControls.tsx). *)
(* The window is one thread; a step is the code between two awaits.        *)
(***************************************************************************)
EXTENDS Naturals, FiniteSets

CONSTANTS
    Servers, None,
    Searches, Matches,    \* the texts typed, and the servers the panel finds for each
    Moves,                \* the changes of state the panel makes: pairs of states
    MaxActions            \* bound: power actions

RunningIsh == {"RUNNING", "STARTING", "STOPPING"}
Busy       == {"INSTALLING", "REINSTALLING", "SWITCHING_GAME", "TRANSFERRING"}
Locked     == {"SUSPENDED", "PENDING_PAYMENT"}
Off        == {"OFFLINE", "CRASHED"}
ServerState == RunningIsh \cup Busy \cup Locked \cup Off \cup {"UNKNOWN"}

Signals == {"start", "restart", "stop", "kill"}
ExpectedState == [start |-> {"RUNNING"}, restart |-> {"RUNNING"},
                  stop |-> {"OFFLINE"}, kill |-> {"OFFLINE", "CRASHED"}]

ASSUME ConstAssumption ==
    /\ None \notin ServerState
    /\ Moves \subseteq ServerState \X ServerState

Actions == 1..MaxActions
Rows    == [Servers -> ServerState \cup {None}]

VARIABLES
    state,      \* the panel: state of each server
    act,        \* power requests: [server, status]
    rows,       \* servers: the state shown of each server, None when it is not in the list
    listed,     \* history: the search the rows answer, None before the first answer
    search, searchTimer,
    call,       \* the list request under way: [q, answer], None when listInFlight is false
    pending,    \* pending: [signal, age, before] of each server, and its request
    selected, asking,   \* selectedId; confirmRestart and confirmKill of the detail panel
    error,      \* actionError: the server whose action was refused, None
    watching,   \* the servers screen is "visible", "hidden" with the window or "away"
    event       \* a status event on its way to the window: [server, state], or None

list   == <<rows, listed, call>>
typing == <<search, searchTimer>>
detail == <<selected, asking>>
vars   == <<state, act, list, typing, pending, detail, error, watching, event>>

Init ==
    /\ state \in [Servers -> {m[1] : m \in Moves}]
    /\ act = [n \in Actions |-> [server |-> None, status |-> "unsent"]]
    /\ rows = [s \in Servers |-> None] /\ listed = None /\ call = None
    /\ search \in Searches /\ searchTimer = FALSE
    /\ pending = [s \in Servers |-> None]
    /\ selected = None /\ asking = {} /\ error = None
    /\ watching = "away" /\ event = None

-----------------------------------------------------------------------------
(* The detail panel: mounted while the selected server is in the list. It is *)
(* one component for all servers, so its dialogs outlive a change of server. *)

Panel(sel, r, w) == sel # None /\ w # "away" /\ r[sel] # None
Shown == Panel(selected, rows, watching)

\* Dialogs that are kept by the screen and not by the panel.
ForgetNothing(sel, r, w) == asking' = asking

\* A panel that is unmounted forgets its dialogs.
Forget(sel, r, w) == asking' = IF Panel(sel, r, w) THEN asking ELSE {}

Select(s) ==
    /\ watching # "away" /\ selected # s
    /\ selected' = s /\ Forget(s, rows, watching) /\ error' = None
    /\ UNCHANGED <<state, act, list, typing, pending, watching, event>>

-----------------------------------------------------------------------------
(* The polled list *)

\* The search as it was when polling began.
SendsStale(q) == call' = [q |-> IF listed = None THEN q ELSE listed, answer |-> None]

Sends(q) == call' = [q |-> q, answer |-> None]

\* refresh(): a call while another one is under way returns at once.
Refresh ==
    IF call = None THEN Sends(search) ELSE UNCHANGED call

Mount ==
    /\ watching = "away" /\ watching' = "visible" /\ Refresh
    /\ UNCHANGED <<state, act, rows, listed, typing, pending, detail, event, error>>

Unmount ==
    /\ watching # "away" /\ watching' = "away" /\ asking' = {}
    /\ UNCHANGED <<state, act, list, typing, pending, selected, event, error>>

Hide ==
    /\ watching = "visible" /\ watching' = "hidden"
    /\ UNCHANGED <<state, act, list, typing, pending, detail, event, error>>

\* onVisible: catch up at once.
Show ==
    /\ watching = "hidden" /\ watching' = "visible" /\ Refresh
    /\ UNCHANGED <<state, act, rows, listed, typing, pending, detail, event, error>>

\* The list polls whether or not anybody looks.
Tick ==
    /\ watching = "visible" /\ call = None /\ Sends(search)
    /\ UNCHANGED <<state, act, rows, listed, typing, pending, detail, error, watching, event>>

Type(q) ==
    /\ watching = "visible" /\ q # search
    /\ search' = q /\ searchTimer' = TRUE
    /\ UNCHANGED <<state, act, list, pending, detail, error, watching, event>>

SearchTimer ==
    /\ searchTimer /\ searchTimer' = FALSE /\ Refresh
    /\ UNCHANGED <<state, act, rows, listed, search, pending, detail, error, watching, event>>

\* The panel reads the list; the answer is on its way.
PanelLists ==
    /\ call # None /\ call.answer = None
    /\ call' = [call EXCEPT !.answer = [s \in Servers |-> IF s \in Matches[call.q] THEN state[s] ELSE None]]
    /\ UNCHANGED <<state, act, rows, listed, typing, pending, detail, error, watching, event>>

\* The reconciliation only looks at rows that are in the answer.
SettledIfListed(p, row) ==
    /\ row # None
    /\ \/ row # p.before
       \/ p.age >= 1 /\ row \in ExpectedState[p.signal]
       \/ p.age = 2

\* What an answer says of a pending action: age 1 is MIN_SETTLE, age 2 RECONCILE_TIMEOUT.
Settled(p, row) ==
    \/ row = None
    \/ row # p.before
    \/ p.age >= 1 /\ row \in ExpectedState[p.signal]
    \/ p.age = 2

\* A row that is known keeps its state.
ListMerges ==
    /\ call # None /\ call.answer # None
    /\ rows' = [s \in Servers |-> IF rows[s] # None /\ call.answer[s] # None THEN rows[s] ELSE call.answer[s]]
    /\ listed' = call.q /\ call' = None
    /\ pending' = [s \in Servers |-> IF pending[s] # None /\ Settled(pending[s], rows'[s])
                                     THEN None ELSE pending[s]]
    /\ Forget(selected, rows', watching)
    /\ UNCHANGED <<state, act, typing, selected, error, watching, event>>

ListArrives ==
    /\ call # None /\ call.answer # None
    /\ rows' = call.answer /\ listed' = call.q /\ call' = None
    /\ pending' = [s \in Servers |-> IF pending[s] # None /\ Settled(pending[s], rows'[s])
                                     THEN None ELSE pending[s]]
    /\ Forget(selected, rows', watching)
    /\ UNCHANGED <<state, act, typing, selected, error, watching, event>>

ListFails ==
    /\ call # None
    /\ call' = None
    /\ UNCHANGED <<state, act, rows, listed, typing, pending, detail, error, watching, event>>

\* handleAuthDeath: the session is over and the screen goes away.
ListDies ==
    /\ call # None /\ call' = None
    /\ watching' = "away" /\ asking' = {}
    /\ UNCHANGED <<state, act, rows, listed, typing, pending, selected, event, error>>

-----------------------------------------------------------------------------
(* Power actions *)

\* What PowerControls and the restart dialog offer for the selected server.
Offered(sig) ==
    /\ Shown /\ watching = "visible"
    /\ LET row == rows[selected] IN
       /\ pending[selected] = None
       /\ row \notin Locked \cup Busy
       /\ \/ sig = "start" /\ row \in Off
          \/ sig = "stop" /\ row \in RunningIsh
          \/ sig = "restart" /\ row \in RunningIsh
          \/ sig = "kill" /\ row \notin Off

\* Ctrl+R asks before it restarts, the Kill button before it kills.
AskRestart ==
    /\ Offered("restart") /\ asking' = asking \cup {"restart"}
    /\ UNCHANGED <<state, act, list, typing, pending, selected, error, watching, event>>

AskKill ==
    /\ Offered("kill") /\ asking' = asking \cup {"kill"}
    /\ UNCHANGED <<state, act, list, typing, pending, selected, error, watching, event>>

\* Cancel, Escape or a click beside the dialog.
Cancel(sig) ==
    /\ sig \in asking /\ asking' = asking \ {sig}
    /\ UNCHANGED <<state, act, list, typing, pending, selected, error, watching, event>>

NextAction(n) ==
    /\ act[n].status = "unsent" /\ \A m \in 1..(n - 1) : act[m].status # "unsent"

\* power(): the pending action is shown before the request is sent.
Power(s, sig) ==
    \E n \in Actions :
        /\ NextAction(n)
        /\ act' = [act EXCEPT ![n] = [server |-> s, status |-> "sent"]]
        /\ pending' = [pending EXCEPT ![s] = [signal |-> sig, age |-> 0, before |-> rows[s], action |-> n]]
        /\ error' = None
        /\ UNCHANGED <<state, list, typing, selected, watching, event>>

Press(sig) ==
    /\ sig # "kill" /\ Offered(sig)
    /\ Power(selected, sig) /\ UNCHANGED asking

\* The dialog restarts whatever the state has become.
ConfirmBlindly ==
    /\ "restart" \in asking /\ Shown /\ watching = "visible"
    /\ asking' = asking \ {"restart"} /\ Power(selected, "restart")

\* The gate is looked at again: a server that has stopped meanwhile is left alone.
ConfirmRestart ==
    /\ "restart" \in asking /\ Shown /\ watching = "visible"
    /\ asking' = asking \ {"restart"}
    /\ IF pending[selected] = None /\ rows[selected] \in RunningIsh
       THEN Power(selected, "restart")
       ELSE UNCHANGED <<state, act, list, typing, pending, selected, error, watching, event>>

\* The typed name confirms; the dialog is gone while the server is suspended.
ConfirmKill ==
    /\ "kill" \in asking /\ Shown /\ watching = "visible" /\ rows[selected] \notin Locked
    /\ asking' = asking \ {"kill"} /\ Power(selected, "kill")

Answer(n, to) ==
    /\ act[n].status = "sent"
    /\ act' = [act EXCEPT ![n].status = to]

PowerDone(n) ==
    /\ Answer(n, "done")
    /\ UNCHANGED <<state, list, typing, pending, detail, error, watching, event>>

\* A refused action stays pending.
PowerFailsQuietly(n) ==
    /\ Answer(n, "failed")
    /\ UNCHANGED <<state, list, typing, pending, detail, error, watching, event>>

\* Refused, or the answer is lost: whatever is pending for the server is forgotten, and
\* either the session is over (handleAuthDeath) or the detail panel shows the error.
PowerFails(n) ==
    /\ Answer(n, "failed")
    /\ pending' = [pending EXCEPT ![act[n].server] = None]
    /\ \/ watching' = "away" /\ asking' = {} /\ UNCHANGED error
       \/ error' = act[n].server /\ UNCHANGED <<watching, asking>>
    /\ UNCHANGED <<state, list, typing, selected, event>>

Age(s) ==
    /\ pending[s] # None /\ pending[s].age < 2
    /\ pending' = [pending EXCEPT ![s].age = @ + 1]
    /\ UNCHANGED <<state, act, list, typing, detail, error, watching, event>>

-----------------------------------------------------------------------------
(* Realtime changes of one row: the console's status event and status:crash *)

PanelMoves(s) ==
    /\ \E m \in Moves : m[1] = state[s] /\ state' = [state EXCEPT ![s] = m[2]]
    /\ UNCHANGED <<act, list, typing, pending, detail, error, watching, event>>

Emit(s) ==
    /\ event = None /\ rows[s] # state[s] /\ event' = [server |-> s, state |-> state[s]]
    /\ UNCHANGED <<state, act, list, typing, pending, detail, error, watching>>

\* patchState()
Patch ==
    /\ event # None /\ event' = None
    /\ LET s == event.server  st == event.state IN
       /\ rows' = [rows EXCEPT ![s] = IF @ = None THEN None ELSE st]
       /\ pending' = [pending EXCEPT ![s] =
                        IF @ # None /\ @.before # st THEN None ELSE @]
    /\ UNCHANGED <<state, act, listed, call, typing, detail, error, watching>>

-----------------------------------------------------------------------------
Deliver == ListArrives \/ ListFails \/ ListDies

Next ==
    \/ Mount \/ Unmount \/ Hide \/ Show \/ Tick \/ SearchTimer
    \/ \E q \in Searches : Type(q)
    \/ PanelLists \/ Deliver
    \/ \E s \in Servers \cup {None} : Select(s)
    \/ AskRestart \/ AskKill \/ ConfirmRestart \/ ConfirmKill
    \/ \E sig \in Signals : Cancel(sig) \/ Press(sig)
    \/ \E n \in Actions : PowerDone(n) \/ PowerFails(n)
    \/ \E s \in Servers : Age(s) \/ PanelMoves(s) \/ Emit(s)
    \/ Patch

Spec == Init /\ [][Next]_vars

\* The timers fire, every request ends at last (reqwest's timeout), and a panel that is asked
\* for ever answers some of the requests. The user and the servers owe nothing.
Fairness ==
    /\ WF_vars(Tick) /\ WF_vars(SearchTimer) /\ WF_vars(Patch)
    /\ SF_vars(PanelLists) /\ WF_vars(Deliver) /\ SF_vars(ListArrives)
    /\ \A n \in Actions : WF_vars(PowerDone(n) \/ PowerFails(n))
    /\ \A s \in Servers : WF_vars(Age(s))

LiveSpec == Spec /\ Fairness

-----------------------------------------------------------------------------
(* Type correctness. A pending entry names an action of its own server, and dialogs only stand *)
(* open in a mounted panel.                                                                    *)
TypeOK ==
    /\ state \in [Servers -> ServerState]
    /\ act \in [Actions -> [server : Servers \cup {None},
                            status : {"unsent", "sent", "done", "failed"}]]
    /\ rows \in Rows /\ listed \in Searches \cup {None}
    /\ call \in {None} \cup [q : Searches, answer : Rows \cup {None}]
    /\ search \in Searches /\ searchTimer \in BOOLEAN
    /\ pending \in [Servers -> {None} \cup [signal : Signals, age : 0..2, before : ServerState, action : Actions]]
    /\ \A s \in Servers : pending[s] # None => act[pending[s].action].server = s
    /\ selected \in Servers \cup {None} /\ asking \subseteq {"restart", "kill"}
    /\ asking # {} => Shown
    /\ error \in Servers \cup {None}
    /\ watching \in {"visible", "hidden", "away"}
    /\ event \in {None} \cup [server : Servers, state : ServerState]

(* What the window shows before the panel confirms it is backed by an action that has been    *)
(* sent and not been refused: over lists that fail, patches, several actions on one server    *)
(* and a panel that goes away (servers.ts, power() and refresh()).                            *)
OptimismIsBacked ==
    \A s \in Servers : pending[s] # None => act[pending[s].action].status \in {"sent", "done"}

(* A restart is only ever sent for a server that is shown running and has nothing pending,     *)
(* whatever happened while the dialog was open (ServerDetailPanel.tsx, the re-check at click). *)
RestartIsOffered ==
    [][\A s \in Servers : pending'[s] # pending[s] /\ pending'[s] # None /\ pending'[s].age = 0
                          /\ pending'[s].signal = "restart"
          => rows[s] \in RunningIsh /\ pending[s] = None]_vars

(* What the window expects of the panel is asked of it, and rightly. *)
OptimismIsSound == []OptimismIsBacked /\ RestartIsOffered

(* A search that stays is answered: a request for an older search under way, which makes the   *)
(* debounced refresh return at once, only delays it (refresh, setSearch, startPolling).        *)
SearchIsAnswered ==
    <>[](watching = "visible") /\ <>[][UNCHANGED search]_search => <>[](listed = search)

(* Nothing stays pending on a screen that is looked at: not for an action that changed         *)
(* nothing, not for a server that left the list (refresh, RECONCILE_TIMEOUT).                  *)
PendingEnds ==
    <>[](watching = "visible") => \A s \in Servers : []<>(pending[s] = None)

(* The badges of a screen that is looked at come to show what the panel has, although          *)
(* realtime patches and list answers overtake each other (refresh, patchState).                *)
BadgesCatchUp ==
    <>[](watching = "visible") /\ <>[][UNCHANGED state]_state =>
        \A s \in Servers : <>[](rows[s] # None => rows[s] = state[s])

(* The screen settles: what was only expected goes, and what is true comes. *)
ListSettles == PendingEnds /\ BadgesCatchUp

(* servers.ts:171, of select(): "don't carry one server's error onto another".                 *)
ErrorIsOfSelected == Shown /\ error # None => error = selected
=============================================================================
