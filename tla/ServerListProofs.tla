--------------------------- MODULE ServerListProofs ---------------------------
(***************************************************************************)
(* What holds of ServerList for any servers, searches, moves of the panel  *)
(* and number of power actions: its types, and that whatever the window    *)
(* expects of the panel was asked of it and not refused.                   *)
(***************************************************************************)
EXTENDS ServerList, TLAPS

Entry == [signal : Signals, age : 0..2, before : ServerState, action : Actions]
Act   == [server : Servers \cup {None}, status : {"unsent", "sent", "done", "failed"}]

\* Whatever changes pending and act: a step of one action's life.
Backing(p, a) == \A s \in Servers : p[s] # None => a[p[s].action].status \in {"sent", "done"}
Naming(p, a)  == \A s \in Servers : p[s] # None => a[p[s].action].server = s

PowerInv ==
    /\ act \in [Actions -> Act]
    /\ pending \in [Servers -> {None} \cup Entry]
    /\ rows \in Rows /\ selected \in Servers \cup {None}
    /\ Naming(pending, act) /\ OptimismIsBacked

\* Entries that are dropped or only grow older name the actions they named.
LEMMA EntriesOnlyGo ==
    ASSUME PowerInv, act' = act, pending' \in [Servers -> {None} \cup Entry],
           \A s \in Servers : pending'[s] # None => pending[s] # None /\ pending'[s].action = pending[s].action
    PROVE  Naming(pending, act)' /\ OptimismIsBacked'
BY DEF PowerInv, Naming, OptimismIsBacked

\* An action that has not been sent backs nothing yet, so giving it a server
\* takes no entry's backing away.
LEMMA PowerSends ==
    ASSUME PowerInv, NEW s \in Servers, rows[s] # None, NEW sig \in Signals, Power(s, sig)
    PROVE  /\ act' \in [Actions -> Act] /\ pending' \in [Servers -> {None} \cup Entry]
           /\ Naming(pending, act)' /\ OptimismIsBacked'
<1>1. PICK n \in Actions :
        /\ act[n].status = "unsent"
        /\ act' = [act EXCEPT ![n] = [server |-> s, status |-> "sent"]]
        /\ pending' = [pending EXCEPT ![s] = [signal |-> sig, age |-> 0, before |-> rows[s], action |-> n]]
  BY DEF Power, NextAction
<1>2. rows[s] \in ServerState
  BY DEF PowerInv, Rows
<1>3. act' \in [Actions -> Act]
  BY <1>1 DEF PowerInv, Act
<1>4. pending' \in [Servers -> {None} \cup Entry]
  BY <1>1, <1>2 DEF PowerInv, Entry
<1>5. \A t \in Servers : t # s => pending'[t] = pending[t]
  BY <1>1 DEF PowerInv
<1>6. \A t \in Servers : t # s /\ pending[t] # None => pending[t].action \in Actions /\ pending[t].action # n
  BY <1>1 DEF PowerInv, OptimismIsBacked, Entry
<1>7. \A m \in Actions : m # n => act'[m] = act[m]
  BY <1>1 DEF PowerInv
<1>8. pending'[s].action = n /\ act'[n].server = s /\ act'[n].status = "sent"
  BY <1>1 DEF PowerInv
<1>9. Naming(pending, act)' /\ OptimismIsBacked'
  BY <1>5, <1>6, <1>7, <1>8 DEF PowerInv, Naming, OptimismIsBacked
<1>10. QED BY <1>3, <1>4, <1>9

\* A refusal drops the only entry that its action can back.
LEMMA PowerIsRefused ==
    ASSUME PowerInv, NEW n \in Actions, PowerFails(n)
    PROVE  /\ act' \in [Actions -> Act] /\ pending' \in [Servers -> {None} \cup Entry]
           /\ Naming(pending, act)' /\ OptimismIsBacked'
<1>1. /\ act' = [act EXCEPT ![n].status = "failed"]
      /\ pending' = [pending EXCEPT ![act[n].server] = None]
  BY DEF PowerFails, Answer
<1>2. act' \in [Actions -> Act] /\ \A m \in Actions : act'[m].server = act[m].server
  BY <1>1 DEF PowerInv, Act
<1>3. \A m \in Actions : m # n => act'[m].status = act[m].status
  BY <1>1 DEF PowerInv
<1>4. pending' \in [Servers -> {None} \cup Entry]
  BY <1>1 DEF PowerInv
<1>5. \A s \in Servers : pending'[s] # None =>
        pending'[s] = pending[s] /\ s # act[n].server /\ pending[s].action \in Actions
  BY <1>1 DEF PowerInv, Entry
<1>6. \A s \in Servers : pending'[s] # None => pending[s].action # n
  BY <1>5 DEF PowerInv, Naming
<1>7. QED BY <1>2, <1>3, <1>4, <1>5, <1>6 DEF PowerInv, Naming, OptimismIsBacked

LEMMA PowerIsDone ==
    ASSUME PowerInv, NEW n \in Actions, PowerDone(n)
    PROVE  /\ act' \in [Actions -> Act] /\ pending' \in [Servers -> {None} \cup Entry]
           /\ Naming(pending, act)' /\ OptimismIsBacked'
<1>1. act' = [act EXCEPT ![n].status = "done"] /\ pending' = pending
  BY DEF PowerDone, Answer
<1>2. act' \in [Actions -> Act] /\ \A m \in Actions : act'[m].server = act[m].server
  BY <1>1 DEF PowerInv, Act
<1>3. \A m \in Actions : act[m].status \in {"sent", "done"} => act'[m].status \in {"sent", "done"}
  BY <1>1 DEF PowerInv
<1>4. \A s \in Servers : pending[s] # None => pending[s].action \in Actions
  BY DEF PowerInv, Entry
<1>5. QED BY <1>1, <1>2, <1>3, <1>4 DEF PowerInv, Naming, OptimismIsBacked

LEMMA PowerNext ==
    ASSUME PowerInv, rows' \in Rows, selected' \in Servers \cup {None}, [Next]_vars
    PROVE  PowerInv'
<1>1. SUFFICES /\ act' \in [Actions -> Act] /\ pending' \in [Servers -> {None} \cup Entry]
               /\ Naming(pending, act)' /\ OptimismIsBacked'
  BY DEF PowerInv
<1>2. ASSUME UNCHANGED <<act, pending>>
      PROVE  /\ act' \in [Actions -> Act] /\ pending' \in [Servers -> {None} \cup Entry]
             /\ Naming(pending, act)' /\ OptimismIsBacked'
  BY <1>2 DEF PowerInv, Naming, OptimismIsBacked
<1>3. ASSUME NEW sig \in Signals, Power(selected, sig), Shown
      PROVE  /\ act' \in [Actions -> Act] /\ pending' \in [Servers -> {None} \cup Entry]
             /\ Naming(pending, act)' /\ OptimismIsBacked'
  <2>1. selected \in Servers /\ rows[selected] # None
    BY <1>3 DEF Shown, Panel, PowerInv
  <2>2. QED BY <1>3, <2>1, PowerSends
<1>4. CASE \E sig \in Signals : Press(sig)
  BY <1>3, <1>4 DEF Press, Offered
<1>5. CASE ConfirmRestart
  BY <1>2, <1>3, <1>5 DEF ConfirmRestart, Signals
<1>6. CASE ConfirmKill
  BY <1>3, <1>6 DEF ConfirmKill, Signals
<1>7. CASE \E n \in Actions : PowerDone(n) \/ PowerFails(n)
  BY <1>7, PowerIsDone, PowerIsRefused
<1>8. CASE ListArrives
  <2>1. act' = act /\ pending' \in [Servers -> {None} \cup Entry]
    BY <1>8 DEF ListArrives, PowerInv
  <2>2. \A s \in Servers : pending'[s] # None => pending'[s] = pending[s]
    BY <1>8 DEF ListArrives
  <2>3. QED BY <2>1, <2>2, EntriesOnlyGo DEF PowerInv
<1>9. CASE \E s \in Servers : Age(s)
  <2>1. PICK s \in Servers : Age(s)
    BY <1>9
  <2>2. /\ act' = act /\ pending[s] \in Entry /\ pending[s].age < 2
        /\ pending' = [pending EXCEPT ![s] = [pending[s] EXCEPT !.age = @ + 1]]
    BY <2>1 DEF Age, PowerInv
  <2>3. [pending[s] EXCEPT !.age = @ + 1] \in Entry
    BY <2>2 DEF Entry
  <2>4. [pending[s] EXCEPT !.age = @ + 1].action = pending[s].action
    BY <2>2 DEF Entry
  <2>5. pending' \in [Servers -> {None} \cup Entry]
    BY <2>2, <2>3 DEF PowerInv
  <2>6. \A t \in Servers : pending'[t] # None => pending[t] # None /\ pending'[t].action = pending[t].action
    <3>1. pending[s] # None
      BY <2>1 DEF Age
    <3>2. QED BY <2>2, <2>4, <3>1 DEF PowerInv
  <2>7. QED BY <2>2, <2>5, <2>6, EntriesOnlyGo DEF PowerInv
<1>10. CASE Patch
  <2>1. act' = act /\ pending' \in [Servers -> {None} \cup Entry]
    BY <1>10 DEF Patch, PowerInv
  <2>2. \A s \in Servers : pending'[s] # None => pending'[s] = pending[s]
    BY <1>10 DEF Patch, PowerInv
  <2>3. QED BY <2>1, <2>2, EntriesOnlyGo DEF PowerInv
<1>11. CASE Mount \/ Unmount \/ Hide \/ Show \/ Tick \/ SearchTimer \/ PanelLists \/ ListFails \/ ListDies
  BY <1>2, <1>11 DEF Mount, Unmount, Hide, Show, Tick, SearchTimer, PanelLists, ListFails, ListDies
<1>12. CASE \/ \E q \in Searches : Type(q)
            \/ \E s \in Servers \cup {None} : Select(s)
            \/ AskRestart \/ AskKill \/ \E sig \in Signals : Cancel(sig)
            \/ \E s \in Servers : PanelMoves(s) \/ Emit(s)
            \/ UNCHANGED vars
  BY <1>2, <1>12 DEF Type, Select, AskRestart, AskKill, Cancel, PanelMoves, Emit, vars
<1>13. QED
  BY <1>4, <1>5, <1>6, <1>7, <1>8, <1>9, <1>10, <1>11, <1>12 DEF Next, Deliver

-----------------------------------------------------------------------------
(* The rest of the state *)

Event == [server : Servers, state : ServerState]

\* Everything but the power actions, the selection and its dialogs.
ListTypes ==
    /\ state \in [Servers -> ServerState]
    /\ rows \in Rows /\ listed \in Searches \cup {None}
    /\ call \in {None} \cup [q : Searches, answer : Rows \cup {None}]
    /\ search \in Searches /\ searchTimer \in BOOLEAN
    /\ watching \in {"visible", "hidden", "away"}
    /\ event \in {None} \cup Event

PanelTypes ==
    /\ selected \in Servers \cup {None} /\ asking \subseteq {"restart", "kill"}
    /\ asking # {} => Shown
    /\ error \in Servers \cup {None}

ListInv == PowerInv /\ ListTypes /\ PanelTypes

LEMMA TypesAreListed == ListInv => TypeOK /\ OptimismIsBacked
BY DEF ListInv, PowerInv, ListTypes, PanelTypes, TypeOK, Entry, Act, Naming, Event

\* What is sent is the search, and what the panel answers a list of its states.
LEMMA RefreshTypes ==
    ASSUME ListTypes, Refresh
    PROVE  call' \in {None} \cup [q : Searches, answer : Rows \cup {None}]
BY DEF Refresh, Sends, ListTypes

LEMMA AnswerTypes ==
    ASSUME ListTypes, PanelLists
    PROVE  call' \in {None} \cup [q : Searches, answer : Rows \cup {None}]
<1>1. call \in [q : Searches, answer : Rows \cup {None}]
  BY DEF PanelLists, ListTypes
<1>2. [s \in Servers |-> IF s \in Matches[call.q] THEN state[s] ELSE None] \in Rows
  BY <1>1 DEF ListTypes, Rows
<1>3. QED BY <1>1, <1>2 DEF PanelLists

LEMMA ListTypesNext ==
    ASSUME ListTypes, PanelTypes, [Next]_vars
    PROVE  ListTypes'
<1>1. CASE Mount \/ Show \/ SearchTimer
  BY <1>1, RefreshTypes DEF Mount, Show, SearchTimer, typing, ListTypes, Event
<1>2. CASE Tick
  BY <1>2 DEF Tick, Sends, typing, ListTypes, Event
<1>3. CASE Unmount \/ Hide \/ ListFails \/ ListDies \/ \E q \in Searches : Type(q)
  BY <1>3 DEF Unmount, Hide, ListFails, ListDies, Type, list, typing, detail, ListTypes, Event
<1>4. CASE PanelLists
  BY <1>4, AnswerTypes DEF PanelLists, typing, detail, ListTypes, Event
<1>5. CASE ListArrives
  <2>1. call \in [q : Searches, answer : Rows \cup {None}] /\ call.answer # None
    BY <1>5 DEF ListArrives, ListTypes
  <2>2. rows' \in Rows /\ listed' \in Searches /\ call' = None
    BY <1>5, <2>1 DEF ListArrives
  <2>3. QED BY <1>5, <2>2 DEF ListArrives, typing, ListTypes, Event
<1>6. CASE \/ \E s \in Servers \cup {None} : Select(s)
           \/ AskRestart \/ AskKill \/ \E sig \in Signals : Cancel(sig)
           \/ \E s \in Servers : Age(s)
           \/ \E n \in Actions : PowerDone(n)
           \/ UNCHANGED vars
  BY <1>6 DEF Select, AskRestart, AskKill, Cancel, Age, PowerDone, vars, list, typing, detail, ListTypes, Event
<1>7. CASE \E n \in Actions : PowerFails(n)
  BY <1>7 DEF PowerFails, list, typing, ListTypes, Event
<1>8. CASE ConfirmRestart \/ ConfirmKill \/ \E sig \in Signals : Press(sig)
  BY <1>8 DEF ConfirmRestart, ConfirmKill, Press, Power, list, typing, ListTypes, Event
<1>9. CASE \E s \in Servers : PanelMoves(s)
  <2>1. PICK s \in Servers, m \in Moves : state' = [state EXCEPT ![s] = m[2]]
    BY <1>9 DEF PanelMoves
  <2>2. m[2] \in ServerState
    BY ConstAssumption DEF ConstAssumption
  <2>3. state' \in [Servers -> ServerState]
    BY <2>1, <2>2 DEF ListTypes
  <2>4. QED BY <1>9, <2>3 DEF PanelMoves, list, typing, detail, ListTypes, Event
<1>10. CASE \E s \in Servers : Emit(s)
  BY <1>10 DEF Emit, list, typing, detail, ListTypes, Event
<1>11. CASE Patch
  <2>1. event \in Event
    BY <1>11 DEF Patch, ListTypes
  <2>2. rows' \in Rows
    BY <1>11, <2>1 DEF Patch, ListTypes, Event, Rows
  <2>3. QED BY <1>11, <2>2 DEF Patch, typing, detail, ListTypes
<1>12. QED
  BY <1>1, <1>2, <1>3, <1>4, <1>5, <1>6, <1>7, <1>8, <1>9, <1>10, <1>11 DEF Next, Deliver

\* A dialog goes with its panel, and a panel only goes where Forget says so.
LEMMA PanelTypesNext ==
    ASSUME PowerInv, ListTypes, PanelTypes, [Next]_vars
    PROVE  PanelTypes'
<1>1. ASSUME UNCHANGED <<rows, detail, error>>, watching' = watching \/ watching' = "visible"
      PROVE  PanelTypes'
  BY <1>1 DEF PanelTypes, Shown, Panel, detail, ListTypes
<1>2. CASE Mount \/ Show \/ Tick \/ SearchTimer \/ PanelLists \/ ListFails \/ UNCHANGED vars
           \/ (\E q \in Searches : Type(q)) \/ (\E n \in Actions : PowerDone(n))
           \/ (\E s \in Servers : Age(s) \/ PanelMoves(s) \/ Emit(s))
  BY <1>1, <1>2 DEF Mount, Show, Tick, SearchTimer, PanelLists, ListFails, Type, PowerDone, Age, PanelMoves,
                    Emit, vars, list
<1>3. CASE Unmount \/ ListDies
  BY <1>3 DEF Unmount, ListDies, PanelTypes
<1>4. CASE Hide
  BY <1>4 DEF Hide, PanelTypes, Shown, Panel, detail, list
<1>5. CASE \E s \in Servers \cup {None} : Select(s)
  BY <1>5 DEF Select, Forget, PanelTypes, Shown, list
<1>6. CASE ListArrives
  BY <1>6 DEF ListArrives, Forget, PanelTypes, Shown
<1>7. CASE AskRestart \/ AskKill
  BY <1>7 DEF AskRestart, AskKill, Offered, PanelTypes, Shown, Panel, list
<1>8. CASE \E sig \in Signals : Cancel(sig)
  BY <1>8 DEF Cancel, PanelTypes, Shown, Panel, list
<1>9. CASE \E sig \in Signals : Press(sig)
  BY <1>9 DEF Press, Power, PanelTypes, Shown, Panel, list
<1>10. CASE ConfirmRestart \/ ConfirmKill
  BY <1>10 DEF ConfirmRestart, ConfirmKill, Power, PanelTypes, Shown, Panel, list
<1>11. CASE \E n \in Actions : PowerFails(n)
  <2>1. PICK n \in Actions : PowerFails(n)
    BY <1>11
  <2>2. act[n].server \in Servers \cup {None}
    BY DEF PowerInv, Act
  <2>3. QED BY <2>1, <2>2 DEF PowerFails, PanelTypes, Shown, Panel, list
<1>12. CASE Patch
  <2>1. event \in Event /\ None \notin ServerState
    BY <1>12, ConstAssumption DEF Patch, ListTypes, ConstAssumption
  <2>2. rows' = [rows EXCEPT ![event.server] = IF @ = None THEN None ELSE event.state]
    BY <1>12 DEF Patch
  <2>3. \A s \in Servers : rows[s] # None => rows'[s] # None
    BY <2>1, <2>2 DEF ListTypes, Rows, Event
  <2>4. QED BY <1>12, <2>3 DEF Patch, PanelTypes, Shown, Panel, detail
<1>13. QED
  BY <1>2, <1>3, <1>4, <1>5, <1>6, <1>7, <1>8, <1>9, <1>10, <1>11, <1>12 DEF Next, Deliver

LEMMA ListInit == Init => ListInv
<1> SUFFICES ASSUME Init PROVE ListInv
  OBVIOUS
<1>1. state \in [Servers -> ServerState]
  <2>1. {m[1] : m \in Moves} \subseteq ServerState
    BY ConstAssumption DEF ConstAssumption
  <2>2. QED BY <2>1 DEF Init
<1>2. ListTypes
  BY <1>1 DEF Init, ListTypes, Rows
<1>3. PowerInv
  BY DEF Init, PowerInv, Act, Rows, Naming, OptimismIsBacked
<1>4. PanelTypes
  BY DEF Init, PanelTypes
<1>5. QED BY <1>2, <1>3, <1>4 DEF ListInv

LEMMA ListInvariant == Spec => []ListInv
<1>1. ListInv /\ [Next]_vars => ListInv'
  BY PowerNext, ListTypesNext, PanelTypesNext DEF ListInv, ListTypes, PanelTypes
<1>2. QED BY <1>1, ListInit, PTL DEF Spec

-----------------------------------------------------------------------------
\* Every entry of pending names an action of its own server, and no dialog
\* outlives the panel it stands in, whichever way the panel goes.
THEOREM ListTypeCorrect == Spec => []TypeOK
<1>1. QED BY ListInvariant, TypesAreListed, PTL

\* A restart is only sent for a server that is shown running and has nothing
\* pending: whatever else puts an entry into pending, puts back one that was
\* there or one of another signal.
LEMMA RestartStep ==
    ASSUME ListInv, [Next]_vars, NEW s \in Servers, pending'[s] # pending[s], pending'[s] # None,
           pending'[s].age = 0, pending'[s].signal = "restart"
    PROVE  rows[s] \in RunningIsh /\ pending[s] = None
<1>1. ASSUME NEW sig \in Signals, Power(selected, sig), Shown
      PROVE  s = selected /\ sig = "restart"
  <2>1. selected \in Servers
    BY <1>1 DEF Shown, Panel, ListInv, PowerInv
  <2>2. PICK n \in Actions :
          pending' = [pending EXCEPT ![selected] =
                        [signal |-> sig, age |-> 0, before |-> rows[selected], action |-> n]]
    BY <1>1 DEF Power
  <2>3. QED BY <2>1, <2>2 DEF ListInv, PowerInv
<1>2. CASE \E sig \in Signals : Press(sig)
  <2>1. PICK sig \in Signals : Press(sig)
    BY <1>2
  <2>2. s = selected /\ sig = "restart"
    BY <1>1, <2>1 DEF Press, Offered
  <2>3. QED BY <2>1, <2>2 DEF Press, Offered
<1>3. CASE ConfirmRestart
  <2>1. Power(selected, "restart") /\ pending[selected] = None /\ rows[selected] \in RunningIsh
    BY <1>3 DEF ConfirmRestart
  <2>2. s = selected
    BY <1>1, <1>3, <2>1 DEF ConfirmRestart, Signals
  <2>3. QED BY <2>1, <2>2
<1>4. CASE ConfirmKill
  BY <1>1, <1>4 DEF ConfirmKill, Signals
<1>5. CASE \E n \in Actions : PowerFails(n)
  <2>1. PICK n \in Actions : pending' = [pending EXCEPT ![act[n].server] = None]
    BY <1>5 DEF PowerFails
  <2>2. QED BY <2>1 DEF ListInv, PowerInv
<1>6. CASE ListArrives
  BY <1>6 DEF ListArrives
<1>7. CASE \E t \in Servers : Age(t)
  <2>1. PICK t \in Servers : Age(t)
    BY <1>7
  <2>2. /\ pending[t] \in Entry
        /\ pending' = [pending EXCEPT ![t] = [pending[t] EXCEPT !.age = @ + 1]]
    BY <2>1 DEF Age, ListInv, PowerInv
  <2>3. pending[t].age \in 0..2 /\ [pending[t] EXCEPT !.age = @ + 1].age = pending[t].age + 1
    BY <2>2 DEF Entry
  <2>4. s = t /\ pending'[s].age = pending[t].age + 1
    BY <2>2, <2>3 DEF ListInv, PowerInv
  <2>5. QED BY <2>3, <2>4
<1>8. CASE Patch
  BY <1>8 DEF Patch, ListInv, PowerInv
<1>9. CASE Mount \/ Unmount \/ Hide \/ Show \/ Tick \/ SearchTimer \/ PanelLists \/ ListFails \/ ListDies
  BY <1>9 DEF Mount, Unmount, Hide, Show, Tick, SearchTimer, PanelLists, ListFails, ListDies
<1>10. CASE \/ \E q \in Searches : Type(q)
            \/ \E t \in Servers \cup {None} : Select(t)
            \/ AskRestart \/ AskKill \/ \E sig \in Signals : Cancel(sig)
            \/ \E t \in Servers : PanelMoves(t) \/ Emit(t)
            \/ \E n \in Actions : PowerDone(n)
            \/ UNCHANGED vars
  BY <1>10 DEF Type, Select, AskRestart, AskKill, Cancel, PanelMoves, Emit, PowerDone, vars
<1>11. QED
  BY <1>2, <1>3, <1>4, <1>5, <1>6, <1>7, <1>8, <1>9, <1>10 DEF Next, Deliver

\* What the window shows before the panel confirms it was asked of the panel
\* and not refused, and a restart is asked only of a server that is shown
\* running with nothing pending (servers.ts, power() and refresh();
\* ServerDetailPanel.tsx, the re-check at click).
THEOREM OptimismIsSoundAlways == Spec => OptimismIsSound
<1>1. ListInv /\ [Next]_vars =>
        [\A s \in Servers : pending'[s] # pending[s] /\ pending'[s] # None /\ pending'[s].age = 0
                             /\ pending'[s].signal = "restart"
             => rows[s] \in RunningIsh /\ pending[s] = None]_vars
  BY RestartStep
<1>2. ListInv => OptimismIsBacked
  BY TypesAreListed
<1>3. QED BY <1>1, <1>2, ListInvariant, PTL DEF Spec, OptimismIsSound, RestartIsOffered
=============================================================================
