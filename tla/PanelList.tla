------------------------------ MODULE PanelList ------------------------------
(* One screen of the staff suite, or one server tab, that lists rows of the panel: how it asks,
   what it shows, and how its own operations make it ask again. The screens differ in a few
   features; a behaviour picks one screen and stays on it. *)
EXTENDS Integers, Sequences, SequencesExt

CONSTANTS
    None,       \* no rows yet, no timer, no operation
    Texts,      \* what can be typed into the search field ("" is what it starts with)
    Picks,      \* values of the other filter: a tab, a state, a period
    Pages,      \* pages the panel has
    MaxWork,    \* bound: list requests, a running timer and an operation, together; one less with two lists
    MaxChanges  \* bound: operations that took effect at the panel

\* search: "typed" asks 350 ms after the last key, "enter" when Enter is pressed. picks: a filter that
\* asks as soon as it changes. split: a list of its own for each pick. guarded: answers that are not
\* to the newest request are dropped. again: the same rows can be asked for once more (a Refresh
\* button, a poll, Enter, a drawer that closes). own: an error channel for operations. clears: the
\* error goes when the list is asked. sticky: no answer takes the error away.
Plain == [search |-> "none", paged |-> FALSE, picks |-> FALSE, split |-> FALSE, guarded |-> FALSE,
          again |-> FALSE, own |-> FALSE, clears |-> FALSE, sticky |-> FALSE, ops |-> {}]

AdminServers == [Plain EXCEPT !.search = "typed", !.paged = TRUE, !.again = TRUE,
    !.ops = {"reinstall", "suspend", "unsuspend", "resize", "transfer", "delete", "vanity"}]
AdminUsers == [Plain EXCEPT !.search = "typed", !.paged = TRUE, !.picks = TRUE, !.split = TRUE,
    !.ops = {"create", "changed"}]
AdminAudit == [Plain EXCEPT !.search = "typed", !.paged = TRUE]
AdminSupport == [Plain EXCEPT !.search = "enter", !.picks = TRUE, !.again = TRUE,
    !.ops = {"reply", "update", "close", "archive", "delete"}]
Invoices == [Plain EXCEPT !.paged = TRUE, !.ops = {"markPaid", "void", "refund", "delete"}]
Orders == [Plain EXCEPT !.paged = TRUE, !.ops = {"delete"}]
Payments == [Plain EXCEPT !.paged = TRUE]
AdminGrowth == [Plain EXCEPT !.picks = TRUE, !.sticky = TRUE]
AdminDashboard == [Plain EXCEPT !.sticky = TRUE]
AdminNodes == [Plain EXCEPT !.again = TRUE, !.ops = {"maintenance"}]
LocationsPanel == [Plain EXCEPT !.sticky = TRUE, !.ops = {"create", "delete"}]
AdminCoupons == [Plain EXCEPT !.ops = {"create", "delete"}]
AdminGiftCards == [Plain EXCEPT !.ops = {"issue", "toggle"}]
GlobalAlertsPanel == [Plain EXCEPT !.ops = {"toggle", "save", "delete"}]
HomepageAlertsPanel == [Plain EXCEPT !.ops = {"toggle", "save", "delete"}]
IncidentsPanel == [Plain EXCEPT !.ops = {"resolve", "create", "update", "delete"}]
AdminProducts == [Plain EXCEPT !.again = TRUE, !.ops = {"toggle", "delete", "changed"}]
AdminDbHosts == [Plain EXCEPT !.ops = {"create", "update", "delete"}]
AdminTeam == [Plain EXCEPT !.ops = {"toggle", "save", "remove"}]
Roles == [Plain EXCEPT !.ops = {"save", "delete"}]
Backups == [Plain EXCEPT !.guarded = TRUE, !.again = TRUE, !.own = TRUE,
    !.ops = {"create", "lock", "restore", "delete"}]
Schedules == [Plain EXCEPT !.clears = TRUE, !.ops = {"run", "setActive", "create", "update", "delete"}]
Databases == [Plain EXCEPT !.clears = TRUE, !.ops = {"create", "delete"}]

Screens == {AdminServers, AdminUsers, AdminAudit, AdminSupport, Invoices, Orders, Payments,
            AdminGrowth, AdminDashboard, AdminNodes, LocationsPanel, AdminCoupons, AdminGiftCards,
            GlobalAlertsPanel, HomepageAlertsPanel, IncidentsPanel, AdminProducts, AdminDbHosts,
            AdminTeam, Roles, Backups, Schedules, Databases}

VARIABLES
    screen,   \* the screen of this behaviour
    want,     \* [text, pick, page]: the search field, the filter and the page number on display
    timer,    \* the request the debounce timer will make, or None
    loads,    \* the list requests under way, oldest first: [want, seen, newest]
    table,    \* for each pick the rows on display: [text, pick, page, seen] or None
    errors,   \* the error channels that show something: "load", "action"
    op,       \* the operation under way: [step, want], want as its handler saw it; or None
    version,  \* the panel's data, counted by the changes it has seen
    muddled   \* history: a race after which the rows may differ from what is asked (see ShownIsAsked)

vars == <<screen, want, timer, loads, table, errors, op, version, muddled>>

Request(w) == [want |-> w, seen |-> None, newest |-> TRUE]
First == [text |-> "", pick |-> CHOOSE p \in Picks : TRUE, page |-> 1]

Init ==
    /\ screen \in Screens
    /\ want = First /\ timer = None
    /\ loads = <<Request(First)>>
    /\ table = [p \in Picks |-> None]
    /\ errors = {} /\ op = None
    /\ version = 0 /\ muddled = FALSE

-----------------------------------------------------------------------------
Room == Len(loads) + (IF timer # None THEN 1 ELSE 0) + (IF op # None THEN 1 ELSE 0)
        < (IF screen.split THEN MaxWork - 1 ELSE MaxWork)

\* A list request for w joins those under way, and is the newest of them.
Ask(w) ==
    loads' = Append([i \in DOMAIN loads |-> [loads[i] EXCEPT !.newest = ~screen.guarded]], Request(w))

Cleared == IF screen.clears THEN errors \ {"load"} ELSE errors

\* A key does not go back to page 1.
TypedOnPage(t) ==
    /\ screen.search = "typed" /\ t # want.text /\ (timer # None \/ Room)
    /\ want' = [want EXCEPT !.text = t]
    /\ timer' = [want EXCEPT !.text = t, !.page = 1]
    /\ UNCHANGED <<loads, errors, muddled>>

\* A key in the search field: page 1 from now on, and the timer starts over.
Typed(t) ==
    /\ screen.search = "typed" /\ t # want.text /\ (timer # None \/ Room)
    /\ want' = [want EXCEPT !.text = t, !.page = 1]
    /\ timer' = [want EXCEPT !.text = t, !.page = 1]
    /\ UNCHANGED <<loads, errors, muddled>>

TimerFires ==
    /\ timer # None
    /\ Ask(timer)
    /\ timer' = None
    /\ UNCHANGED <<want, errors, muddled>>

\* A search that waits for Enter: the key only changes the field.
Key(t) ==
    /\ screen.search = "enter" /\ t # want.text
    /\ want' = [want EXCEPT !.text = t]
    /\ UNCHANGED <<timer, loads, errors, muddled>>

\* The list as it is wanted, once more.
Reload ==
    /\ screen.again /\ Room
    /\ Ask(want)
    /\ UNCHANGED <<want, timer, errors, muddled>>

\* Another tab, state or period; only a screen that pages goes back to page 1.
Pick(p) ==
    /\ screen.picks /\ p # want.pick /\ Room
    /\ want' = [want EXCEPT !.pick = p, !.page = 1]
    /\ Ask(want')
    /\ table' = IF screen = AdminGrowth THEN [q \in Picks |-> None] ELSE table
    /\ muddled' = (muddled \/ timer # None)
    /\ UNCHANGED <<timer, errors>>

\* Previous and Next, offered once the panel has told how many pages there are. The debounce timer
\* keeps running: it will still ask for page 1.
Turn(p) ==
    /\ screen.paged /\ p \in {want.page - 1, want.page + 1}
    /\ table[want.pick] # None /\ Room
    /\ want' = [want EXCEPT !.page = p]
    /\ Ask(want')
    /\ muddled' = (muddled \/ timer # None)
    /\ UNCHANGED <<timer, errors>>

-----------------------------------------------------------------------------
(* The panel and its answers *)
Served(i) ==
    /\ loads[i].seen = None
    /\ loads' = [loads EXCEPT ![i].seen = version]
    /\ UNCHANGED <<screen, want, timer, table, errors, op, version, muddled>>

\* Answers that overtake each other; a screen that numbers its requests only takes the newest.
Crosses(i) == i > 1 /\ ~screen.guarded
Taken(i) == screen.guarded => loads[i].newest

Rows(l) == [text |-> l.want.text, pick |-> l.want.pick, page |-> l.want.page, seen |-> l.seen]

\* The rows an answer brings; the screen of users keeps a list for each tab.
Filled(l) == [p \in Picks |-> IF screen.split => p = l.want.pick THEN Rows(l) ELSE table[p]]

\* Every answer takes all errors away.
AnsweredClears(i) ==
    /\ loads[i].seen # None
    /\ table' = IF Taken(i) THEN Filled(loads[i]) ELSE table
    /\ errors' = {}
    /\ loads' = RemoveAt(loads, i)
    /\ muddled' = (muddled \/ Crosses(i))
    /\ UNCHANGED <<screen, want, timer, op, version>>

Answered(i) ==
    /\ loads[i].seen # None
    /\ table' = IF Taken(i) THEN Filled(loads[i]) ELSE table
    /\ errors' = IF Taken(i) /\ ~screen.sticky THEN errors \ {"load"} ELSE errors
    /\ loads' = RemoveAt(loads, i)
    /\ muddled' = (muddled \/ Crosses(i))
    /\ UNCHANGED <<screen, want, timer, op, version>>

Failed(i) ==
    /\ loads' = RemoveAt(loads, i)
    /\ errors' = IF Taken(i) THEN errors \cup {"load"} ELSE errors
    /\ muddled' = (muddled \/ Crosses(i))
    /\ UNCHANGED <<screen, want, timer, table, op, version>>

-----------------------------------------------------------------------------
(* Operations on the rows *)
Channel == IF screen.own THEN "action" ELSE "load"

\* An operation starts: its handler will reload the page and the search it sees now.
Act ==
    /\ screen.ops # {} /\ op = None /\ table[want.pick] # None /\ Room
    /\ op' = [step |-> "sent", want |-> want]
    /\ errors' = IF screen.own \/ screen.clears THEN errors \ {Channel} ELSE errors
    /\ UNCHANGED <<screen, want, timer, loads, table, version, muddled>>

Effect ==
    /\ op # None /\ op.step = "sent" /\ version < MaxChanges
    /\ version' = version + 1
    /\ op' = [op EXCEPT !.step = "done"]
    /\ UNCHANGED <<screen, want, timer, loads, table, errors, muddled>>

\* The operation is answered and the list asked again, as the handler saw it.
Acted ==
    /\ op # None /\ op.step = "done"
    /\ Ask(op.want)
    /\ errors' = Cleared
    /\ muddled' = (muddled \/ (op.want # want /\ timer = None))
    /\ op' = None
    /\ UNCHANGED <<screen, want, timer, table, version>>

\* The operation is refused, or what the panel did is not heard of: an error, and no reload.
ActFailed ==
    /\ op # None
    /\ errors' = errors \cup {Channel}
    /\ muddled' = (muddled \/ (op.step = "done" /\ (loads # <<>> \/ screen.own)))
    /\ op' = None
    /\ UNCHANGED <<screen, want, timer, loads, table, version>>

-----------------------------------------------------------------------------
Next ==
    \/ /\ \/ \E t \in Texts : Typed(t) \/ Key(t)
          \/ TimerFires \/ Reload
       /\ UNCHANGED <<screen, table, op, version>>
    \/ (\E p \in Picks : Pick(p)) /\ UNCHANGED <<screen, op, version>>
    \/ (\E p \in Pages : Turn(p)) /\ UNCHANGED <<screen, table, op, version>>
    \/ \E i \in DOMAIN loads : Served(i) \/ Answered(i) \/ Failed(i)
    \/ Act \/ Effect \/ Acted \/ ActFailed

Spec == Init /\ [][Next]_vars

-----------------------------------------------------------------------------
(* Properties *)
TypeOK ==
    LET Wants == [text : Texts, pick : Picks, page : Pages] IN
    /\ screen \in Screens
    /\ want \in Wants /\ timer \in Wants \cup {None}
    /\ loads \in Seq([want : Wants, seen : (0 .. MaxChanges) \cup {None}, newest : BOOLEAN])
    /\ \A p \in Picks : table[p] # None => table[p].page \in Pages /\ table[p].seen \in 0 .. version
    /\ errors \subseteq {"load", "action"}
    /\ op # None => op.step \in {"sent", "done"} /\ op.want \in Wants
    /\ version \in 0 .. MaxChanges

AtRest == loads = <<>> /\ timer = None /\ op = None /\ errors = {}

\* Once nothing is under way and no error shows, the rows are those of the search, the filter and the
\* page number on display, and they show every operation the panel carried out. Four races of the
\* code are excepted, which set muddled: answers that overtook each other (a screen with a request
\* number has no such exception), a page turned before the debounce timer fired, an operation whose
\* handler reloads the page it was started from, and one that took effect unheard while an older
\* list was still to come, or whose error the next operation takes away. A search for Enter shows
\* what was last entered.
ShownIsAsked ==
    AtRest /\ ~muddled =>
        LET shown == table[want.pick] IN
        /\ shown # None
        /\ shown.pick = want.pick /\ shown.page = want.page /\ shown.seen = version
        /\ shown.text = want.text \/ screen.search = "enter"

\* What an operation reported stays on display until the next operation: no reload and no poll wipes
\* it (Backups.tsx:51).
ActionErrorStays ==
    [][("action" \in errors /\ "action" \notin errors') => op = None /\ op' # None]_vars
=============================================================================
