------------------------------ MODULE ServerFocus ------------------------------
(***************************************************************************)
(* The server the window shows and what it shows of it: row clicks, the    *)
(* palette, links and the tray select one (select and focusServer of       *)
(* store/servers.ts), its detail and its stats arrive later (pollStats),   *)
(* and a link may want its console (ServerDetailPanel.tsx). OpenInbox      *)
(* models how a link reaches focusServer.                                  *)
(***************************************************************************)
CONSTANTS Servers, None

ASSUME NoneAssumption == None \notin Servers

VARIABLES
    here,       \* the servers screen is mounted
    rows,       \* servers in the list
    refreshing, \* focusServer calls that wait for the list
    selected, detail,
    gets,       \* select() calls that wait for serverGet
    polled,     \* the server whose stats are under way, None when statsInFlight is false
    sample,     \* prevSample: the server it was taken of
    stats, rates,   \* selectedStats, and the two samples netRates was made of
    requested,  \* requestedOpen: the server whose console is wanted
    tab         \* the panel's tab is "console" or "other"

shown == <<selected, detail, sample, stats, rates>>
vars  == <<here, rows, refreshing, shown, gets, polled, requested, tab>>

Init ==
    /\ here = FALSE /\ rows = {} /\ refreshing = {}
    /\ selected = None /\ detail = None /\ gets = {} /\ polled = None
    /\ sample = None /\ stats = None /\ rates = None
    /\ requested = None /\ tab = "console"

Panel == here /\ selected \in rows

\* The tab belongs to the screen.
TabStays(sel, r) == UNCHANGED tab

\* The panel of one server stays for the next; without a server it goes, and its tab with it.
KeepTab(sel, r) == tab' = IF sel \in r THEN tab ELSE "console"

-----------------------------------------------------------------------------
(* select(), serverGet and the stats of the selected server *)

\* The last sample is kept over a change of server.
SelectKeepsSample(s) ==
    /\ selected' = s /\ detail' = None /\ stats' = None /\ rates' = None /\ UNCHANGED sample
    /\ gets' = IF s = None THEN gets ELSE gets \cup {s}
    /\ KeepTab(s, rows)

Select(s) ==
    /\ selected' = s /\ detail' = None /\ sample' = None /\ stats' = None /\ rates' = None
    /\ gets' = IF s = None THEN gets ELSE gets \cup {s}
    /\ KeepTab(s, rows)

\* A row; a second click deselects.
Click(s) ==
    /\ here /\ s \in rows /\ Select(IF s = selected THEN None ELSE s)
    /\ UNCHANGED <<here, rows, refreshing, polled, requested>>

\* The palette offers the list, and selects again what is selected.
Choose(s) ==
    /\ here /\ s \in rows /\ Select(s)
    /\ UNCHANGED <<here, rows, refreshing, polled, requested>>

\* Only a server whose detail has come is polled.
PollDetailed == polled' = IF polled = None /\ detail # None THEN selected ELSE polled

\* pollStats(): one request at a time, for the server selected now.
Poll == polled' = IF polled = None THEN selected ELSE polled

\* The answer is taken for whatever is selected.
DetailOfAny(s) == detail' = s

DetailOf(s) == detail' = IF selected = s THEN s ELSE detail

GetArrives(s) ==
    /\ s \in gets /\ gets' = gets \ {s} /\ DetailOf(s) /\ Poll
    /\ UNCHANGED <<here, rows, refreshing, selected, sample, stats, rates, requested, tab>>

GetFails(s) ==
    /\ s \in gets /\ gets' = gets \ {s} /\ Poll
    /\ UNCHANGED <<here, rows, refreshing, shown, requested, tab>>

StatsTick ==
    /\ here /\ Poll
    /\ UNCHANGED <<here, rows, refreshing, shown, gets, requested, tab>>

StatsArrive ==
    /\ polled # None /\ polled' = None
    /\ IF selected # polled THEN UNCHANGED <<stats, sample, rates>>
       ELSE /\ stats' = polled /\ sample' = polled
            /\ rates' = IF sample = None THEN None ELSE <<sample, polled>>
    /\ UNCHANGED <<here, rows, refreshing, selected, detail, gets, requested, tab>>

StatsFail ==
    /\ polled # None /\ polled' = None
    /\ UNCHANGED <<here, rows, refreshing, shown, gets, requested, tab>>

-----------------------------------------------------------------------------
(* focusServer() *)

\* The console is wanted at once; the selection waits while the list is asked for the row.
Focus(s, console) ==
    /\ here /\ requested' = IF console THEN s ELSE None
    /\ IF s \in rows THEN Select(s) /\ UNCHANGED refreshing
       ELSE refreshing' = refreshing \cup {s} /\ UNCHANGED <<shown, gets, tab>>
    /\ UNCHANGED <<here, rows, polled>>

\* The list has been asked, with or without success.
FocusSelects(s) ==
    /\ s \in refreshing /\ refreshing' = refreshing \ {s} /\ Select(s)
    /\ UNCHANGED <<here, rows, polled, requested>>

\* The panel takes whatever request there is.
ConsumeAny ==
    /\ Panel /\ requested # None
    /\ tab' = "console" /\ requested' = None
    /\ UNCHANGED <<here, rows, refreshing, shown, gets, polled>>

\* consumeRequestedTab(): only the panel of the server that is meant.
ConsumeRequestedTab ==
    /\ Panel /\ requested = selected
    /\ tab' = "console" /\ requested' = None
    /\ UNCHANGED <<here, rows, refreshing, shown, gets, polled>>

SetTab ==
    /\ Panel /\ \E t \in {"console", "other"} : tab' = t
    /\ UNCHANGED <<here, rows, refreshing, shown, gets, polled, requested>>

-----------------------------------------------------------------------------
(* The screen and its list, as ServerList models them *)

Mount ==
    /\ ~here /\ here' = TRUE
    /\ UNCHANGED <<rows, refreshing, shown, gets, polled, requested, tab>>

Unmount ==
    /\ here /\ here' = FALSE /\ tab' = "console"
    /\ UNCHANGED <<rows, refreshing, shown, gets, polled, requested>>

ListArrives ==
    /\ \E r \in SUBSET Servers : rows' = r /\ KeepTab(selected, r)
    /\ UNCHANGED <<here, refreshing, shown, gets, polled, requested>>

StatsAnswer == StatsArrive \/ StatsFail

Next ==
    \/ \E s \in Servers : Click(s) \/ Choose(s) \/ GetArrives(s) \/ GetFails(s) \/ FocusSelects(s)
    \/ \E s \in Servers, console \in BOOLEAN : Focus(s, console)
    \/ StatsTick \/ StatsArrive \/ StatsFail
    \/ ConsumeRequestedTab \/ SetTab \/ Mount \/ Unmount \/ ListArrives

Spec == Init /\ [][Next]_vars

\* The timer fires, requests end, and a node that is asked for ever reports at last.
Fairness == WF_vars(StatsTick) /\ WF_vars(StatsAnswer) /\ SF_vars(StatsArrive)

LiveSpec == Spec /\ Fairness

-----------------------------------------------------------------------------
TypeOK ==
    /\ here \in BOOLEAN /\ rows \subseteq Servers /\ refreshing \subseteq Servers
    /\ selected \in Servers \cup {None} /\ detail \in Servers \cup {None}
    /\ gets \subseteq Servers /\ polled \in Servers \cup {None}
    /\ sample \in Servers \cup {None} /\ stats \in Servers \cup {None}
    /\ rates \in {None} \cup (Servers \X Servers)
    /\ requested \in Servers \cup {None}
    /\ tab \in {"console", "other"} /\ (tab = "other" => Panel)

(* What is shown of a server is of the server that is selected: permissions and stats that     *)
(* arrive after a change of selection are dropped (servers.ts, select and pollStats), and a     *)
(* network rate is made of two samples of it, however often the selection changes between      *)
(* polls: the counters are cumulative and differ by anything between servers.                  *)
ShowsOnlySelected ==
    /\ detail \in {None, selected} /\ stats \in {None, selected}
    /\ rates \in {None, <<selected, selected>>}

(* servers.ts:263: the console that a link wants is taken by the panel of its server, and not  *)
(* by the one that is on the screen while the server is still being loaded.                    *)
ConsoleForItsServer ==
    [][\A s \in Servers : requested = s /\ requested' = None
          => \/ selected = s /\ Panel
             \/ \E t \in Servers : Focus(t, FALSE)]_vars

(* The stats of a server that stays selected come, although a request for the server before it *)
(* may hold the flag when it is selected (pollStats, statsInFlight).                           *)
StatsCome == \A s \in Servers : <>[](here /\ selected = s) => []<>(stats = s)
=============================================================================
