------------------------------ MODULE WindowProofs ------------------------------
(***************************************************************************)
(* What holds of the parts of the window for any servers, links, profiles  *)
(* and handlers under way: an invariant of each part, which a step of the  *)
(* part keeps whatever the bounds, and of all of them side by side.        *)
(***************************************************************************)
EXTENDS MCWindow, Induction, Sequences, FiniteSetTheorems, TLAPS

(* The server in focus *)

\* The invariant by itself says nothing of the sample that the next rate is
\* made with.
FocusInv == ShowsOnlySelected /\ sample \in {None, selected}

\* A selection, whoever makes it, starts from nothing.
LEMMA SelectStep ==
    ASSUME NEW s, Select(s)
    PROVE  FocusInv'
BY DEF Select, FocusInv, ShowsOnlySelected

\* A detail that arrives late is dropped.
LEMMA DetailStep ==
    ASSUME FocusInv, NEW s, DetailOf(s), UNCHANGED <<selected, sample, stats, rates>>
    PROVE  FocusInv'
BY DEF DetailOf, FocusInv, ShowsOnlySelected

\* So are stats; and the sample before them is of the same server.
LEMMA StatsStep ==
    ASSUME FocusInv, StatsArrive
    PROVE  FocusInv'
<1>1. CASE selected # polled
  BY <1>1 DEF StatsArrive, FocusInv, ShowsOnlySelected
<1>2. CASE selected = polled
  <2>1. polled # None /\ selected' = polled /\ stats' = polled /\ sample' = polled /\ detail' = detail
    BY <1>2 DEF StatsArrive
  <2>2. rates' = None \/ (sample # None /\ rates' = <<sample, polled>>)
    BY <1>2 DEF StatsArrive
  <2>3. sample # None => sample = polled
    BY <1>2 DEF FocusInv
  <2>4. QED BY <1>2, <2>1, <2>2, <2>3 DEF FocusInv, ShowsOnlySelected
<1>3. QED BY <1>1, <1>2

LEMMA FocusNext ==
    ASSUME FocusInv, [Next]_vars
    PROVE  FocusInv'
<1>1. CASE UNCHANGED shown
  BY <1>1 DEF shown, FocusInv, ShowsOnlySelected
<1>2. CASE \E s \in Servers : Click(s) \/ Choose(s) \/ FocusSelects(s)
  BY <1>2, SelectStep DEF Click, Choose, FocusSelects
<1>3. CASE \E s \in Servers : GetArrives(s)
  BY <1>3, DetailStep DEF GetArrives
<1>4. CASE \E s \in Servers, console \in BOOLEAN : Focus(s, console)
  <2>1. PICK s \in Servers : Select(s) \/ UNCHANGED shown
    BY <1>4 DEF Focus
  <2>2. QED BY <1>1, <2>1, SelectStep
<1>5. CASE StatsArrive
  BY <1>5, StatsStep
<1>6. CASE StatsTick \/ StatsFail \/ ConsumeRequestedTab \/ SetTab \/ Mount \/ Unmount \/ ListArrives
           \/ (\E s \in Servers : GetFails(s)) \/ UNCHANGED vars
  BY <1>1, <1>6 DEF StatsTick, StatsFail, ConsumeRequestedTab, SetTab, Mount, Unmount, ListArrives,
                    GetFails, vars
<1>7. QED BY <1>2, <1>3, <1>4, <1>5, <1>6 DEF Next

\* Whatever is shown of a server is of the selected one: its permissions, its
\* stats, and the two samples its network rates are made of (servers.ts, select
\* and pollStats).
THEOREM NothingOfAnotherServer == Spec => []ShowsOnlySelected
<1>1. Init => FocusInv
  BY DEF Init, FocusInv, ShowsOnlySelected
<1>2. FocusInv /\ [Next]_vars => FocusInv'
  BY FocusNext
<1>3. FocusInv => ShowsOnlySelected
  BY DEF FocusInv
<1>4. QED BY <1>1, <1>2, <1>3, PTL DEF Spec

-----------------------------------------------------------------------------
(* Links and the tray *)

Fates == {"unsent", "sent", "opened", "lost"}
Call  == [ready : BOOLEAN, live : BOOLEAN]

Distinct(s) == \A i, j \in 1..Len(s) : s[i] = s[j] => i = j
Apart(s, t) == \A i \in 1..Len(s), j \in 1..Len(t) : s[i] # t[j]
All(s, fates) == \A i \in 1..Len(s) : link[s[i]] \in fates

\* A link that is kept or on its way has been sent and no more, is in one place
\* only, and only its place in the drain outlives its opening.
PlaceInv ==
    /\ link \in [Link -> Fates]
    /\ queue \in Seq(Link) /\ emitted \in Seq(Link) /\ drained \in Seq(Link)
    /\ Distinct(emitted)
    /\ Apart(emitted, queue) /\ Apart(emitted, drained) /\ Apart(queue, drained)
    /\ All(queue, {"sent"}) /\ All(emitted, {"sent"}) /\ All(drained, {"sent", "opened"})

\* Until a screen goes away, whoever is said to be ready is.
Listening == phase \in {"ask", "drain"}
ArrivalInv ==
    ~left => /\ calls \in Seq(Call) /\ \A k \in 1..Len(calls) : calls[k].live
             /\ ready \/ calls # <<>> => Listening
             /\ \A i \in 1..Len(emitted) : emitted[i] \in tray \/ Listening
             /\ \A n \in Link \ tray : link[n] # "lost"

LEMMA AppendIs ==
    ASSUME NEW S, NEW s \in Seq(S), NEW e \in S
    PROVE  /\ Append(s, e) \in Seq(S) /\ Len(Append(s, e)) = Len(s) + 1 /\ Len(s) \in Nat
           /\ \A i \in 1..(Len(s) + 1) : Append(s, e)[i] = (IF i = Len(s) + 1 THEN e ELSE s[i])
OBVIOUS

LEMMA TailIs ==
    ASSUME NEW S, NEW s \in Seq(S), s # <<>>
    PROVE  /\ Tail(s) \in Seq(S) /\ Len(Tail(s)) = Len(s) - 1 /\ Len(s) \in Nat /\ Len(s) > 0
           /\ Head(s) = s[1] /\ s[1] \in S
           /\ \A i \in 1..(Len(s) - 1) : Tail(s)[i] = s[i + 1]
OBVIOUS

\* A link that has not been sent is in no place, so it may be put into one.
LEMMA Unplaced ==
    ASSUME PlaceInv, NEW n \in Link, link[n] = "unsent"
    PROVE  /\ \A i \in 1..Len(queue) : queue[i] # n
           /\ \A i \in 1..Len(emitted) : emitted[i] # n
           /\ \A i \in 1..Len(drained) : drained[i] # n
BY DEF PlaceInv, All

LEMMA EmitStep ==
    ASSUME PlaceInv, NEW n \in Link, link[n] = "unsent", link' = [link EXCEPT ![n] = "sent"],
           emitted' = Append(emitted, n), UNCHANGED <<queue, drained>>
    PROVE  PlaceInv'
<1>1. /\ emitted' \in Seq(Link) /\ Len(emitted') = Len(emitted) + 1 /\ Len(emitted) \in Nat
      /\ \A i \in 1..(Len(emitted) + 1) : emitted'[i] = (IF i = Len(emitted) + 1 THEN n ELSE emitted[i])
  BY AppendIs DEF PlaceInv
<1>2. link' \in [Link -> Fates] /\ link'[n] = "sent" /\ \A m \in Link : m # n => link'[m] = link[m]
  BY DEF PlaceInv, Fates
<1>3. Distinct(emitted)'
  BY <1>1, Unplaced DEF PlaceInv, Distinct
<1>4. (Apart(emitted, queue) /\ Apart(emitted, drained) /\ Apart(queue, drained))'
  BY <1>1, Unplaced DEF PlaceInv, Apart
<1>5. (All(queue, {"sent"}) /\ All(emitted, {"sent"}) /\ All(drained, {"sent", "opened"}))'
  <2>1. \A i \in 1..Len(queue) : queue[i] \in Link
    BY DEF PlaceInv
  <2>2. \A i \in 1..Len(emitted) : emitted[i] \in Link
    BY DEF PlaceInv
  <2>3. \A i \in 1..Len(drained) : drained[i] \in Link
    BY DEF PlaceInv
  <2>4. QED BY <1>1, <1>2, <2>1, <2>2, <2>3, Unplaced DEF PlaceInv, All
<1>6. QED BY <1>1, <1>2, <1>3, <1>4, <1>5 DEF PlaceInv

LEMMA KeepStep ==
    ASSUME PlaceInv, NEW n \in Link, link[n] = "unsent", link' = [link EXCEPT ![n] = "sent"],
           queue' = Append(queue, n), UNCHANGED <<emitted, drained>>
    PROVE  PlaceInv'
<1>1. /\ queue' \in Seq(Link) /\ Len(queue') = Len(queue) + 1 /\ Len(queue) \in Nat
      /\ \A i \in 1..(Len(queue) + 1) : queue'[i] = (IF i = Len(queue) + 1 THEN n ELSE queue[i])
  BY AppendIs DEF PlaceInv
<1>2. link' \in [Link -> Fates] /\ link'[n] = "sent" /\ \A m \in Link : m # n => link'[m] = link[m]
  BY DEF PlaceInv, Fates
<1>3. (Apart(emitted, queue) /\ Apart(emitted, drained) /\ Apart(queue, drained))'
  BY <1>1, Unplaced DEF PlaceInv, Apart
<1>4. (All(queue, {"sent"}) /\ All(emitted, {"sent"}) /\ All(drained, {"sent", "opened"}))'
  <2>1. \A i \in 1..Len(queue) : queue[i] \in Link
    BY DEF PlaceInv
  <2>2. \A i \in 1..Len(emitted) : emitted[i] \in Link
    BY DEF PlaceInv
  <2>3. \A i \in 1..Len(drained) : drained[i] \in Link
    BY DEF PlaceInv
  <2>4. QED BY <1>1, <1>2, <2>1, <2>2, <2>3, Unplaced DEF PlaceInv, All
<1>5. QED BY <1>1, <1>2, <1>3, <1>4 DEF PlaceInv, Distinct

\* The next event leaves its place, opened or lost.
LEMMA HearStep ==
    ASSUME PlaceInv, Inbox!Hear
    PROVE  PlaceInv'
<1>1. /\ emitted' = Tail(emitted) /\ emitted # <<>> /\ UNCHANGED <<queue, drained>>
      /\ emitted' \in Seq(Link) /\ Len(emitted') = Len(emitted) - 1 /\ Len(emitted) \in Nat /\ Len(emitted) > 0
      /\ Head(emitted) = emitted[1] /\ emitted[1] \in Link
      /\ \A i \in 1..(Len(emitted) - 1) : emitted'[i] = emitted[i + 1]
  BY TailIs DEF Inbox!Hear, PlaceInv
<1>2. link[emitted[1]] = "sent"
  BY <1>1 DEF PlaceInv, All
<1>3. link' \in [Link -> Fates] /\ \A m \in Link : m # emitted[1] => link'[m] = link[m]
  BY <1>1, <1>2 DEF Inbox!Hear, Inbox!Open, Inbox!Lose, PlaceInv, Fates
<1>4. /\ \A i \in 1..Len(emitted') : emitted'[i] # emitted[1] /\ emitted'[i] \in Link
      /\ \A i \in 1..Len(queue) : queue[i] # emitted[1] /\ queue[i] \in Link
      /\ \A i \in 1..Len(drained) : drained[i] # emitted[1] /\ drained[i] \in Link
  BY <1>1 DEF PlaceInv, Distinct, Apart
<1>5. (All(queue, {"sent"}) /\ All(emitted, {"sent"}) /\ All(drained, {"sent", "opened"}))'
  BY <1>1, <1>3, <1>4 DEF PlaceInv, All
<1>6. Distinct(emitted)'
  BY <1>1 DEF PlaceInv, Distinct
<1>7. (Apart(emitted, queue) /\ Apart(emitted, drained) /\ Apart(queue, drained))'
  BY <1>1 DEF PlaceInv, Apart
<1>8. QED BY <1>1, <1>3, <1>5, <1>6, <1>7 DEF PlaceInv

LEMMA DrainStep ==
    ASSUME PlaceInv, Inbox!Drain
    PROVE  PlaceInv'
<1>1. /\ UNCHANGED <<queue, emitted, drained>> /\ drained # <<>>
      /\ Head(drained) = drained[1] /\ drained[1] \in Link /\ 1 \in 1..Len(drained)
  BY TailIs DEF Inbox!Drain, PlaceInv
<1>2. link' = [link EXCEPT ![drained[1]] = "opened"]
  BY <1>1 DEF Inbox!Drain, Inbox!Open, PlaceInv
<1>3. /\ \A i \in 1..Len(emitted) : emitted[i] # drained[1] /\ emitted[i] \in Link
      /\ \A i \in 1..Len(queue) : queue[i] # drained[1] /\ queue[i] \in Link
      /\ \A i \in 1..Len(drained) : drained[i] \in Link
  BY <1>1 DEF PlaceInv, Apart
<1>4. link' \in [Link -> Fates]
  BY <1>1, <1>2 DEF PlaceInv, Fates
<1>5. (All(queue, {"sent"}) /\ All(emitted, {"sent"}) /\ All(drained, {"sent", "opened"}))'
  BY <1>1, <1>2, <1>3 DEF PlaceInv, All
<1>6. QED BY <1>1, <1>4, <1>5 DEF PlaceInv, Apart, Distinct

LEMMA FocusEndsStep ==
    ASSUME PlaceInv, NEW n \in Link, Inbox!FocusEnds(n)
    PROVE  PlaceInv'
<1>1. UNCHANGED <<link, queue, emitted>>
  BY DEF Inbox!FocusEnds
<1>2. CASE drained' = drained
  BY <1>1, <1>2 DEF PlaceInv, Apart, Distinct, All
<1>3. CASE drained # <<>> /\ drained' = Tail(drained)
  <2>1. /\ drained' \in Seq(Link) /\ Len(drained') = Len(drained) - 1 /\ Len(drained) \in Nat
        /\ \A i \in 1..(Len(drained) - 1) : drained'[i] = drained[i + 1]
    BY <1>3, TailIs DEF PlaceInv
  <2>2. \A i \in 1..Len(drained') : i + 1 \in 1..Len(drained) /\ drained'[i] = drained[i + 1]
    BY <2>1
  <2>3. Apart(emitted, drained)' /\ Apart(queue, drained)'
    BY <1>1, <2>2 DEF PlaceInv, Apart
  <2>4. All(drained, {"sent", "opened"})'
    BY <1>1, <2>2 DEF PlaceInv, All
  <2>5. QED BY <1>1, <2>1, <2>3, <2>4 DEF PlaceInv, Apart, Distinct, All
<1>4. QED BY <1>2, <1>3 DEF Inbox!FocusEnds

\* A screen that goes loses what it has not begun to open of its drain.
LEMMA UnmountStep ==
    ASSUME PlaceInv, Inbox!Unmount
    PROVE  PlaceInv'
<1>1. /\ UNCHANGED <<queue, emitted>> /\ drained' = <<>>
      /\ Inbox!Lose({n \in Inbox!ToSet(drained) : link[n] = "sent"})
  BY DEF Inbox!Unmount
<1>2. Inbox!ToSet(drained) = {drained[i] : i \in 1..Len(drained)}
  BY DEF Inbox!ToSet, PlaceInv
<1>3. link' \in [Link -> Fates] /\ \A m \in Link : m \notin Inbox!ToSet(drained) => link'[m] = link[m]
  BY <1>1 DEF Inbox!Lose, PlaceInv, Fates
<1>4. /\ \A i \in 1..Len(emitted) : emitted[i] \notin Inbox!ToSet(drained) /\ emitted[i] \in Link
      /\ \A i \in 1..Len(queue) : queue[i] \notin Inbox!ToSet(drained) /\ queue[i] \in Link
  BY <1>2 DEF PlaceInv, Apart
<1>5. (All(queue, {"sent"}) /\ All(emitted, {"sent"}) /\ All(drained, {"sent", "opened"}))'
  BY <1>1, <1>3, <1>4 DEF PlaceInv, All
<1>6. QED BY <1>1, <1>3, <1>5 DEF PlaceInv, Apart, Distinct

\* The whole inbox goes into the drain of a screen that is there, or is lost.
LEMMA ReadyStep ==
    ASSUME PlaceInv, Inbox!DeeplinkReady
    PROVE  PlaceInv'
<1>1. emitted' = emitted
  BY DEF Inbox!DeeplinkReady
<1>2. CASE UNCHANGED <<link, queue, drained>>
  BY <1>1, <1>2 DEF PlaceInv, Apart, Distinct, All
<1>3. CASE queue' = <<>> /\ drained' = queue /\ link' = link
  <2>1. (All(queue, {"sent"}) /\ All(emitted, {"sent"}) /\ All(drained, {"sent", "opened"}))'
    BY <1>1, <1>3 DEF PlaceInv, All
  <2>2. QED BY <1>1, <1>3, <2>1 DEF PlaceInv, Apart, Distinct
<1>4. CASE queue' = <<>> /\ Inbox!Lose(Inbox!ToSet(queue)) /\ drained' = drained
  <2>1. Inbox!ToSet(queue) = {queue[i] : i \in 1..Len(queue)}
    BY DEF Inbox!ToSet, PlaceInv
  <2>2. link' \in [Link -> Fates] /\ \A m \in Link : m \notin Inbox!ToSet(queue) => link'[m] = link[m]
    BY <1>4 DEF Inbox!Lose, PlaceInv, Fates
  <2>3. /\ \A i \in 1..Len(emitted) : emitted[i] \notin Inbox!ToSet(queue) /\ emitted[i] \in Link
        /\ \A i \in 1..Len(drained) : drained[i] \notin Inbox!ToSet(queue) /\ drained[i] \in Link
    BY <2>1 DEF PlaceInv, Apart
  <2>4. (All(queue, {"sent"}) /\ All(emitted, {"sent"}) /\ All(drained, {"sent", "opened"}))'
    BY <1>1, <1>4, <2>2, <2>3 DEF PlaceInv, All
  <2>5. QED BY <1>1, <1>4, <2>2, <2>4 DEF PlaceInv, Apart, Distinct
<1>5. QED BY <1>2, <1>3, <1>4 DEF Inbox!DeeplinkReady

LEMMA PlaceNext ==
    ASSUME PlaceInv, [Inbox!Next]_(Inbox!vars)
    PROVE  PlaceInv'
<1>1. ASSUME NEW n \in Link, Inbox!Route(n) \/ Inbox!TrayOpen(n)
      PROVE  PlaceInv'
  BY <1>1, EmitStep, KeepStep DEF Inbox!Route, Inbox!TrayOpen
<1>2. CASE Inbox!Mount \/ Inbox!Listens \/ UNCHANGED Inbox!vars
  <2>1. UNCHANGED <<link, queue, emitted, drained>>
    BY <1>2 DEF Inbox!Mount, Inbox!Listens, Inbox!vars
  <2>2. QED BY <2>1 DEF PlaceInv, Apart, Distinct, All
<1>3. QED
  BY <1>1, <1>2, HearStep, DrainStep, FocusEndsStep, UnmountStep, ReadyStep DEF Inbox!Next

-----------------------------------------------------------------------------
(* Arrival *)

LEMMA ArrivalNext ==
    ASSUME PlaceInv, ArrivalInv, [Inbox!Next]_(Inbox!vars)
    PROVE  ArrivalInv'
<1> SUFFICES ASSUME ~left', ~left
    PROVE  /\ calls' \in Seq(Call) /\ \A k \in 1..Len(calls') : calls'[k].live
           /\ ready' \/ calls' # <<>> => Listening'
           /\ \A i \in 1..Len(emitted') : emitted'[i] \in tray' \/ Listening'
           /\ \A n \in Link \ tray' : link'[n] # "lost"
  <2>1. ~left' => ~left
    BY DEF Inbox!Next, Inbox!Route, Inbox!TrayOpen, Inbox!FocusEnds, Inbox!DeeplinkReady, Inbox!Mount, Inbox!Listens, Inbox!Unmount, Inbox!Hear, Inbox!Drain, Inbox!vars, Inbox!history
  <2>2. QED BY <2>1 DEF ArrivalInv
<1>0. /\ calls \in Seq(Call) /\ \A k \in 1..Len(calls) : calls[k].live
      /\ ready \/ calls # <<>> => Listening
      /\ \A i \in 1..Len(emitted) : emitted[i] \in tray \/ Listening
      /\ \A n \in Link \ tray : link[n] # "lost"
  BY DEF ArrivalInv
<1>1. CASE \E n \in Link : Inbox!Route(n)
  <2>1. PICK n \in Link : Inbox!Route(n)
    BY <1>1
  <2>2. UNCHANGED <<calls, phase, ready, tray>> /\ link' = [link EXCEPT ![n] = "sent"]
    BY <2>1 DEF Inbox!Route, Inbox!history
  <2>3. CASE ready /\ emitted' = Append(emitted, n)
    BY <1>0, <2>2, <2>3 DEF Listening, PlaceInv
  <2>4. CASE emitted' = emitted
    BY <1>0, <2>2, <2>4 DEF Listening, PlaceInv
  <2>5. QED BY <2>1, <2>3, <2>4 DEF Inbox!Route
<1>2. CASE \E n \in Link : Inbox!TrayOpen(n)
  <2>1. PICK n \in Link : Inbox!TrayOpen(n)
    BY <1>2
  <2>2. /\ UNCHANGED <<calls, phase, ready>> /\ link' = [link EXCEPT ![n] = "sent"]
        /\ emitted' = Append(emitted, n) /\ tray' = tray \cup {n}
    BY <2>1 DEF Inbox!TrayOpen
  <2>3. /\ Len(emitted') = Len(emitted) + 1 /\ Len(emitted) \in Nat
        /\ \A i \in 1..(Len(emitted) + 1) : emitted'[i] = (IF i = Len(emitted) + 1 THEN n ELSE emitted[i])
    BY <2>2, AppendIs DEF PlaceInv
  <2>4. \A i \in 1..Len(emitted') : emitted'[i] \in tray' \/ Listening'
    BY <1>0, <2>2, <2>3 DEF Listening
  <2>5. QED BY <1>0, <2>2, <2>4 DEF Listening, PlaceInv
<1>3. CASE Inbox!DeeplinkReady
  <2>1. /\ calls # <<>> /\ calls' = Tail(calls) /\ Listening /\ UNCHANGED <<emitted, tray>>
    BY <1>0, <1>3 DEF Inbox!DeeplinkReady, Inbox!history
  <2>2. /\ calls' \in Seq(Call) /\ Len(calls') = Len(calls) - 1 /\ Len(calls) \in Nat /\ Len(calls) > 0
        /\ Head(calls) = calls[1] /\ \A i \in 1..(Len(calls) - 1) : calls'[i] = calls[i + 1]
    BY <1>0, <2>1, TailIs
  <2>3. Head(calls).live
    BY <1>0, <2>2
  <2>4. link' = link /\ Listening'
    BY <1>3, <2>1, <2>3 DEF Inbox!DeeplinkReady, Listening
  <2>5. \A k \in 1..Len(calls') : calls'[k].live
    BY <1>0, <2>2
  <2>6. QED BY <1>0, <2>1, <2>2, <2>4, <2>5
<1>4. CASE Inbox!Listens
  <2>1. /\ phase' = "ask" /\ UNCHANGED <<emitted, tray, link, ready>>
        /\ calls' = Append(calls, [ready |-> TRUE, live |-> TRUE])
    BY <1>4 DEF Inbox!Listens, Inbox!history
  <2>2. [ready |-> TRUE, live |-> TRUE] \in Call
    BY DEF Call
  <2>3. /\ calls' \in Seq(Call) /\ Len(calls') = Len(calls) + 1 /\ Len(calls) \in Nat
        /\ \A i \in 1..(Len(calls) + 1) :
              calls'[i] = (IF i = Len(calls) + 1 THEN [ready |-> TRUE, live |-> TRUE] ELSE calls[i])
    BY <1>0, <2>1, <2>2, AppendIs
  <2>4. \A k \in 1..Len(calls') : calls'[k].live
    BY <1>0, <2>3
  <2>5. QED BY <1>0, <2>1, <2>3, <2>4 DEF Listening
<1>5. CASE Inbox!Hear
  <2>1. /\ UNCHANGED <<calls, phase, ready, tray>> /\ emitted' = Tail(emitted) /\ emitted # <<>>
        /\ Head(emitted) = emitted[1] /\ 1 \in 1..Len(emitted)
        /\ Len(emitted') = Len(emitted) - 1 /\ Len(emitted) \in Nat
        /\ \A i \in 1..(Len(emitted) - 1) : emitted'[i] = emitted[i + 1]
    BY <1>5, TailIs DEF Inbox!Hear, PlaceInv, Inbox!history
  <2>2. \A n \in Link \ tray : link'[n] # "lost"
    <3>1. CASE Listening
      BY <1>0, <1>5, <2>1, <3>1 DEF Inbox!Hear, Inbox!Open, Listening, PlaceInv
    <3>2. CASE ~Listening
      BY <1>0, <1>5, <2>1, <3>2 DEF Inbox!Hear, Inbox!Lose, Listening, PlaceInv
    <3>3. QED BY <3>1, <3>2
  <2>3. \A i \in 1..Len(emitted') : emitted'[i] \in tray' \/ Listening'
    BY <1>0, <2>1 DEF Listening
  <2>4. QED BY <1>0, <2>1, <2>2, <2>3 DEF Listening
<1>6. CASE Inbox!Drain
  BY <1>0, <1>6 DEF Inbox!Drain, Inbox!Open, Listening, PlaceInv, Inbox!history
<1>7. CASE Inbox!Mount
  BY <1>0, <1>7 DEF Inbox!Mount, Listening, Inbox!history
<1>8. CASE (\E n \in Link : Inbox!FocusEnds(n)) \/ UNCHANGED Inbox!vars
  BY <1>0, <1>8 DEF Inbox!FocusEnds, Listening, Inbox!vars, Inbox!history
<1>9. CASE Inbox!Unmount
  BY <1>9 DEF Inbox!Unmount
<1>10. QED BY <1>1, <1>2, <1>3, <1>4, <1>5, <1>6, <1>7, <1>8, <1>9 DEF Inbox!Next

-----------------------------------------------------------------------------
LEMMA InboxInit == Inbox!Init => PlaceInv /\ ArrivalInv
<1>1. Inbox!Init => PlaceInv
  BY DEF Inbox!Init, PlaceInv, Fates, Distinct, Apart, All
<1>2. Inbox!Init => ArrivalInv
  BY DEF Inbox!Init, ArrivalInv
<1>3. QED BY <1>1, <1>2

LEMMA OpensOnce == PlaceInv /\ ArrivalInv => Inbox!OpenedOnce
BY DEF PlaceInv, ArrivalInv, Inbox!OpenedOnce, Fates

\* A link is not handled twice, however it races the screen's arrival and
\* departure, and no link but the tray's is lost before a screen has gone away
\* (deeplink.rs:55; Servers.tsx: listen first, then say ready and drain).
THEOREM NoLinkTwice == Inbox!Spec => []Inbox!OpenedOnce
<1>1. PlaceInv /\ ArrivalInv /\ [Inbox!Next]_(Inbox!vars) => (PlaceInv /\ ArrivalInv)'
  BY PlaceNext, ArrivalNext
<1>2. QED BY <1>1, InboxInit, OpensOnce, PTL DEF Inbox!Spec

-----------------------------------------------------------------------------
(* The sign-in store *)

Ops == {"free", "init", "logout"} \cup Store!Submits
Handler == [op : Ops, stage : {"op", "init"}, answer : Store!Answers]
Sessions == {"none", "saved", "live"}
Submitting(c) == handlers[c].op \in Store!Submits

\* A handler that is at its init() is an init or a submit that has worked, and
\* as long as nobody signs out busy is set by the only submit there is.
StoreInv ==
    /\ handlers \in [Calls -> Handler]
    /\ session \in Sessions /\ armed \in BOOLEAN /\ orphans \in Nat /\ busy \in BOOLEAN /\ byHand \in BOOLEAN
    /\ \A c \in Calls : handlers[c].op = "init" => handlers[c].stage = "init"
    /\ \A c \in Calls : handlers[c].op = "free" => handlers[c] = Store!Free
    /\ ~byHand => \A c \in Calls : handlers[c].op # "logout"
    /\ ~byHand => \A c, d \in Calls : Submitting(c) /\ Submitting(d) => c = d
    /\ ~byHand => (busy <=> \E c \in Calls : Submitting(c))
    /\ status = "offline" =>
          armed \/ orphans > 0 \/ (\E c \in Calls : Store!InInit(c)) \/ (\E c \in Calls : handlers[c].op = "logout")

\* The next handlers differ from the present ones in one call.
LEMMA OneCall ==
    ASSUME StoreInv, NEW c \in Calls, NEW h \in Handler, handlers' = [handlers EXCEPT ![c] = h]
    PROVE  /\ handlers' \in [Calls -> Handler] /\ handlers'[c] = h
           /\ \A d \in Calls : d # c => handlers'[d] = handlers[d]
BY DEF StoreInv

LEMMA AnInit == Store!Asks("init", "init") \in Handler /\ Store!Asks("logout", "op") \in Handler /\ Store!Free \in Handler
             /\ \A op \in Store!Submits : Store!Asks(op, "op") \in Handler /\ Store!Asks(op, "init") \in Handler
BY DEF Store!Asks, Handler, Ops, Store!Answers, Store!Submits, Store!Free

LEMMA CallInitStep ==
    ASSUME StoreInv, Store!CallInit, orphans' \in Nat
    PROVE  StoreInv'
<1>1. PICK c \in Calls : handlers[c] = Store!Free /\ handlers' = [handlers EXCEPT ![c] = Store!Asks("init", "init")]
  BY DEF Store!CallInit, Store!Start
<1>2. /\ handlers' \in [Calls -> Handler] /\ handlers'[c] = Store!Asks("init", "init")
      /\ \A d \in Calls : d # c => handlers'[d] = handlers[d]
  BY <1>1, OneCall, AnInit
<1>3. armed' = FALSE /\ UNCHANGED <<session, status, busy, byHand>>
  BY DEF Store!CallInit, Store!store, Store!profile
<1>4. Store!InInit(c)' /\ ~Submitting(c)' /\ ~Submitting(c) /\ handlers'[c].op = "init" /\ handlers'[c].stage = "init"
  BY <1>1, <1>2 DEF Store!InInit, Submitting, Store!Asks, Store!Submits, Store!Free
<1>5. \A d \in Calls : Submitting(d)' <=> Submitting(d)
  BY <1>2, <1>4 DEF Submitting
<1>6. QED BY <1>2, <1>3, <1>4, <1>5 DEF StoreInv, Submitting, Store!InInit

LEMMA SubmitStep ==
    ASSUME StoreInv, NEW op \in Store!Submits, Store!Submit(op), status # "offline"
    PROVE  StoreInv'
<1>1. PICK c \in Calls : handlers[c] = Store!Free /\ handlers' = [handlers EXCEPT ![c] = Store!Asks(op, "op")]
  BY DEF Store!Submit, Store!Start
<1>2. /\ handlers' \in [Calls -> Handler] /\ handlers'[c] = Store!Asks(op, "op")
      /\ \A d \in Calls : d # c => handlers'[d] = handlers[d]
  BY <1>1, OneCall, AnInit
<1>3. ~busy /\ busy' = TRUE /\ UNCHANGED <<session, status, armed, orphans, byHand>>
  BY DEF Store!Submit, Store!profile, Store!timers
<1>4. Submitting(c)' /\ handlers'[c].op \notin {"init", "logout", "free"}
  BY <1>2 DEF Submitting, Store!Asks, Store!Submits
<1>5. \A d \in Calls : d # c => (Submitting(d)' <=> Submitting(d))
  BY <1>2 DEF Submitting
<1>6. ~byHand => \A d \in Calls : ~Submitting(d)
  BY <1>3 DEF StoreInv
<1>7. QED BY <1>2, <1>3, <1>4, <1>5, <1>6 DEF StoreInv, Submitting

LEMMA LogoutStep ==
    ASSUME StoreInv, Store!Logout
    PROVE  StoreInv'
<1>1. PICK c \in Calls : handlers[c] = Store!Free /\ handlers' = [handlers EXCEPT ![c] = Store!Asks("logout", "op")]
  BY DEF Store!Logout, Store!Start
<1>2. /\ handlers' \in [Calls -> Handler] /\ handlers'[c] = Store!Asks("logout", "op")
      /\ \A d \in Calls : d # c => handlers'[d] = handlers[d]
  BY <1>1, OneCall, AnInit
<1>3. byHand' = TRUE /\ busy' = TRUE /\ armed' = FALSE /\ UNCHANGED <<session, status, orphans>>
  BY DEF Store!Logout
<1>4. handlers'[c].op = "logout"
  BY <1>2 DEF Store!Asks
<1>5. QED BY <1>2, <1>3, <1>4 DEF StoreInv

\* An answer and what it leaves of the session.
LEMMA AnswersOfInit ==
    ASSUME session \in Sessions, NEW r \in Store!AuthStatus
    PROVE  r[1] \in Store!Answers /\ r[2] \in Sessions
<1>1. CASE session = "none"
  BY <1>1 DEF Store!AuthStatus, Store!Answers, Sessions
<1>2. CASE session = "saved"
  BY <1>2 DEF Store!AuthStatus, Store!Answers, Sessions
<1>3. CASE session = "live"
  BY <1>3 DEF Store!AuthStatus, Store!Answers, Sessions
<1>4. QED BY <1>1, <1>2, <1>3 DEF Sessions

LEMMA AnswersOfCommand ==
    ASSUME session \in Sessions, NEW op \in Store!Submits \cup {"logout"}, NEW r \in Store!Command(op)
    PROVE  r[1] \in Store!Answers /\ r[2] \in Sessions
<1>1. CASE op = "login"
  BY <1>1 DEF Store!Command, Store!Answers, Sessions
<1>2. CASE op = "verify"
  BY <1>2 DEF Store!Command, Store!Answers, Sessions
<1>3. CASE op = "logout"
  BY <1>3 DEF Store!Command, Store!Answers, Sessions
<1>4. CASE op = "change"
  <2>1. r \in {<<"failed", session>>} \cup ({"ok"} \X {"live", "none"})
    BY <1>4 DEF Store!Command
  <2>2. QED BY <2>1 DEF Store!Answers, Sessions
<1>5. QED BY <1>1, <1>2, <1>3, <1>4 DEF Store!Submits

LEMMA ServeStep ==
    ASSUME StoreInv, NEW c \in Calls, Store!Serve(c)
    PROVE  StoreInv'
<1>1. PICK r \in (IF Store!InInit(c) THEN Store!AuthStatus ELSE Store!Command(handlers[c].op)) :
        handlers' = [handlers EXCEPT ![c].answer = r[1]] /\ session' = r[2]
  BY DEF Store!Serve
<1>2. handlers[c] \in Handler /\ handlers[c] # Store!Free /\ handlers[c].op # "free"
  BY DEF Store!Serve, StoreInv
<1>3. r[1] \in Store!Answers /\ r[2] \in Sessions
  <2>1. CASE Store!InInit(c)
    BY <1>1, <2>1, AnswersOfInit DEF StoreInv
  <2>2. CASE ~Store!InInit(c)
    <3>1. handlers[c].op \in Store!Submits \cup {"logout"}
      BY <1>2, <2>2 DEF Store!InInit, StoreInv, Handler, Ops
    <3>2. QED BY <1>1, <2>2, <3>1, AnswersOfCommand DEF StoreInv
  <2>3. QED BY <2>1, <2>2
<1>4. /\ handlers' \in [Calls -> Handler]
      /\ \A d \in Calls : handlers'[d].op = handlers[d].op /\ handlers'[d].stage = handlers[d].stage
      /\ \A d \in Calls : d # c => handlers'[d] = handlers[d]
  BY <1>1, <1>3 DEF StoreInv, Handler
<1>5. UNCHANGED <<status, busy, armed, orphans, byHand>>
  BY DEF Store!Serve, Store!store, Store!profile, Store!timers
<1>6. \A d \in Calls : (Submitting(d)' <=> Submitting(d)) /\ (Store!InInit(d)' <=> Store!InInit(d))
  BY <1>4 DEF Submitting, Store!InInit
<1>7. QED BY <1>1, <1>2, <1>3, <1>4, <1>5, <1>6 DEF StoreInv

\* A call that ends leaves nothing behind that a later one could meet.
LEMMA CallEnds ==
    ASSUME StoreInv, NEW c \in Calls, handlers' = [handlers EXCEPT ![c] = Store!Free]
    PROVE  /\ handlers' \in [Calls -> Handler]
           /\ handlers'[c] = Store!Free /\ ~Submitting(c)' /\ ~Store!InInit(c)' /\ handlers'[c].op = "free"
           /\ \A d \in Calls : d # c =>
                 handlers'[d] = handlers[d] /\ (Submitting(d)' <=> Submitting(d)) /\ (Store!InInit(d)' <=> Store!InInit(d))
BY OneCall, AnInit DEF Submitting, Store!InInit, Store!Free, Store!Submits

LEMMA InitAnsweredStep ==
    ASSUME StoreInv, NEW c \in Calls, Store!InitAnswered(c)
    PROVE  StoreInv'
<1>1. /\ handlers' = [handlers EXCEPT ![c] = Store!Free] /\ Store!InInit(c)
      /\ busy' = (busy /\ handlers[c].op = "init") /\ UNCHANGED <<session, byHand>>
  BY DEF Store!InitAnswered
<1>2. armed' \in BOOLEAN /\ orphans' \in Nat
  BY DEF Store!InitAnswered, Store!Rearm, StoreInv
<1>3. status' = "offline" => armed'
  BY DEF Store!InitAnswered, Store!Rearm
<1>4. ~byHand => handlers[c].op = "init" \/ Submitting(c)
  BY <1>1 DEF StoreInv, Handler, Ops, Store!InInit, Submitting
<1>5. handlers[c].op = "init" => ~Submitting(c)
  BY DEF Submitting, Store!Submits
<1>6. QED BY <1>1, <1>2, <1>3, <1>4, <1>5, CallEnds DEF StoreInv

LEMMA SucceededStep ==
    ASSUME StoreInv, NEW c \in Calls, Store!Succeeded(c)
    PROVE  StoreInv'
<1>1. /\ handlers' = [handlers EXCEPT ![c] = Store!Asks(handlers[c].op, "init")] /\ handlers[c].op \in Store!Submits
      /\ armed' = FALSE /\ UNCHANGED <<session, status, busy, orphans, byHand>>
  BY DEF Store!Succeeded, Store!store, Store!profile
<1>2. /\ handlers' \in [Calls -> Handler] /\ handlers'[c] = Store!Asks(handlers[c].op, "init")
      /\ \A d \in Calls : d # c => handlers'[d] = handlers[d]
  BY <1>1, OneCall, AnInit
<1>3. Store!InInit(c)' /\ handlers'[c].op = handlers[c].op /\ handlers'[c].op \notin {"init", "logout", "free"}
  BY <1>1, <1>2 DEF Store!InInit, Store!Asks, Store!Submits
<1>4. \A d \in Calls : Submitting(d)' <=> Submitting(d)
  BY <1>2, <1>3 DEF Submitting
<1>5. QED BY <1>1, <1>2, <1>3, <1>4 DEF StoreInv

LEMMA EndedStep ==
    ASSUME StoreInv, NEW c \in Calls, Store!Ended(c)
    PROVE  StoreInv'
<1>1. /\ handlers' = [handlers EXCEPT ![c] = Store!Free] /\ ~Store!InInit(c) /\ handlers[c].answer # "none"
      /\ busy' = FALSE /\ UNCHANGED <<session, armed, orphans, byHand>>
  BY DEF Store!Ended, Store!timers
<1>2. handlers[c].op \in Store!Submits \cup {"logout"}
  BY <1>1 DEF StoreInv, Handler, Ops, Store!InInit, Store!Free
<1>3. CASE handlers[c].op = "logout"
  <2>1. status' = "signedOut"
    BY <1>3 DEF Store!Ended
  <2>2. byHand
    BY <1>3 DEF StoreInv
  <2>3. QED BY <1>1, <2>1, <2>2, CallEnds DEF StoreInv
<1>4. CASE handlers[c].op # "logout"
  <2>1. status' \in {status, "mfa", "signedOut"}
    BY <1>4 DEF Store!Ended
  <2>2. Submitting(c)
    BY <1>2, <1>4 DEF Submitting
  <2>3. QED BY <1>1, <1>4, <2>1, <2>2, CallEnds DEF StoreInv
<1>5. QED BY <1>3, <1>4

LEMMA StoreNext ==
    ASSUME StoreInv, [Store!Next]_(Store!vars)
    PROVE  StoreInv'
<1>1. CASE Store!Mount \/ Store!Retry \/ Store!OrphanFires \/ Store!TryNow \/ Store!Recheck
  <2>1. Store!CallInit
    BY <1>1 DEF Store!Mount, Store!Retry, Store!OrphanFires, Store!TryNow, Store!Recheck
  <2>2. orphans' = orphans \/ (orphans > 0 /\ orphans' = orphans - 1)
    BY <1>1 DEF Store!Mount, Store!Retry, Store!OrphanFires, Store!TryNow, Store!Recheck
  <2>3. orphans' \in Nat
    BY <2>2 DEF StoreInv
  <2>4. QED BY <2>1, <2>3, CallInitStep
<1>2. CASE Store!Login \/ Store!Verify \/ Store!ChangePassword
  BY <1>2, SubmitStep DEF Store!Login, Store!Verify, Store!ChangePassword, Store!Submits
<1>3. CASE Store!Logout
  BY <1>3, LogoutStep
<1>4. CASE Store!BackToSignIn \/ Store!SessionExpired
  BY <1>4 DEF Store!BackToSignIn, Store!SessionExpired, Store!timers, StoreInv, Store!InInit, Submitting
<1>5. CASE Store!Revoke \/ Store!SwitchView \/ Store!Poll \/ Store!PollEnds \/ Store!PollExpires \/ UNCHANGED Store!vars
  <2>1. session' \in Sessions /\ UNCHANGED <<status, busy, armed, orphans, handlers, byHand>>
    BY <1>5 DEF Store!Revoke, Store!SwitchView, Store!Poll, Store!PollEnds, Store!PollExpires, Store!vars, Store!store, Store!profile,
                Store!timers, StoreInv, Sessions
  <2>2. QED BY <2>1 DEF StoreInv, Store!InInit, Submitting
<1>6. CASE \E c \in Calls : Store!Serve(c)
  BY <1>6, ServeStep
<1>7. CASE \E c \in Calls : Store!InitAnswered(c)
  BY <1>7, InitAnsweredStep
<1>8. CASE \E c \in Calls : Store!Succeeded(c)
  BY <1>8, SucceededStep
<1>9. CASE \E c \in Calls : Store!Ended(c)
  BY <1>9, EndedStep
<1>10. QED BY <1>1, <1>2, <1>3, <1>4, <1>5, <1>6, <1>7, <1>8, <1>9 DEF Store!Next, Store!Proceed

LEMMA StoreInit == Store!Init => StoreInv
<1> SUFFICES ASSUME Store!Init PROVE StoreInv
  OBVIOUS
<1>1. \A c \in Calls : handlers[c] = Store!Free
  BY DEF Store!Init
<1>2. Store!Free.op = "free" /\ Store!Free \in Handler
  BY AnInit DEF Store!Free
<1>3. handlers \in [Calls -> Handler]
  BY <1>2 DEF Store!Init
<1>4. \A c \in Calls : handlers[c].op = "free" /\ ~Submitting(c)
  BY <1>1, <1>2 DEF Submitting, Store!Submits
<1>5. QED BY <1>1, <1>3, <1>4 DEF Store!Init, StoreInv, Sessions

LEMMA StoreInvariant == Store!Spec => []StoreInv
<1>1. StoreInv /\ [Store!Next]_(Store!vars) => StoreInv'
  BY StoreNext
<1>2. QED BY <1>1, StoreInit, PTL DEF Store!Spec

LEMMA Retries == StoreInv => Store!OfflineRetries
BY DEF StoreInv, Store!OfflineRetries, Store!Under

LEMMA SubmitsOne == StoreInv => Store!OneSubmit
<1> SUFFICES ASSUME StoreInv PROVE Store!OneSubmit
  OBVIOUS
<1>0. \A S : Store!Cardinality(S) = Cardinality(S)
  BY DEF Store!Cardinality, Cardinality
<1>1. SUFFICES ASSUME ~byHand PROVE Cardinality(Store!Under(Store!Submits)) <= 1 /\ (busy <=> Store!Under(Store!Submits) # {})
  BY <1>0 DEF Store!OneSubmit
<1>2. \A c, d \in Store!Under(Store!Submits) : c = d
  BY <1>1 DEF StoreInv, Store!Under, Submitting
<1>3. busy <=> Store!Under(Store!Submits) # {}
  BY <1>1 DEF StoreInv, Store!Under, Submitting
<1>4. CASE Store!Under(Store!Submits) = {}
  BY <1>3, <1>4, FS_EmptySet
<1>5. CASE Store!Under(Store!Submits) # {}
  <2>1. PICK c : Store!Under(Store!Submits) = {c}
    BY <1>2, <1>5
  <2>2. Cardinality(Store!Under(Store!Submits)) = 1
    BY <2>1, FS_Singleton
  <2>3. QED BY <1>3, <2>2
<1>6. QED BY <1>4, <1>5

-----------------------------------------------------------------------------
\* A window that shows that it is offline has a timer, an attempt or a sign-out
\* under way, whatever handlers overlap (Reconnecting.tsx: "This retries
\* automatically").
THEOREM OfflineAlwaysRetries == Store!Spec => []Store!OfflineRetries
BY StoreInvariant, Retries, PTL

\* Until somebody signs out, no two forms are under way and busy is set exactly
\* while one is (auth.ts:71).
THEOREM OneFormAtATime == Store!Spec => []Store!OneSubmit
BY StoreInvariant, SubmitsOne, PTL

-----------------------------------------------------------------------------
(* The update banner *)

BannerPhases == {"idle", "checking", "available", "downloading", "uptodate", "error"}
CheckKinds  == {"no", "auto", "manual"}
Results == {"available", "uptodate", "error"}

\* busyRef stands for exactly one thing under way, and a click is noted only for
\* a check that somebody waits for or for a download that somebody clicked into.
BannerInv ==
    /\ banner \in BannerPhases /\ check \in CheckKinds
    /\ busyRef \in BOOLEAN /\ pendingManual \in BOOLEAN /\ install \in BOOLEAN
    /\ owed \in BOOLEAN /\ clicked \in BOOLEAN /\ spurious \in BOOLEAN /\ fades \in BOOLEAN
    /\ check # "no" => busyRef
    /\ install => busyRef /\ check = "no"
    /\ ~busyRef => check = "no" /\ ~install
    /\ install => banner = "downloading" \/ clicked
    /\ spurious => clicked
    /\ check = "manual" => owed
    /\ pendingManual => owed \/ clicked
    /\ pendingManual /\ (install \/ ~busyRef) => clicked

LEMMA BannerNext ==
    ASSUME BannerInv, [Update!Next]_(Update!vars)
    PROVE  BannerInv'
<1> USE DEF BannerInv, BannerPhases, CheckKinds
<1>1. CASE Update!AutoCheck
  BY <1>1 DEF Update!AutoCheck, Update!Begin, Update!flags
<1>2. CASE Update!ManualCheck
  BY <1>2 DEF Update!ManualCheck, Update!Begin
<1>3. CASE Update!Fade
  BY <1>3 DEF Update!Fade, Update!flags
<1>4. CASE Update!Dismiss
  BY <1>4 DEF Update!Dismiss, Update!flags
<1>5. CASE Update!Install
  BY <1>5 DEF Update!Install, Update!flags
<1>6. CASE Update!Progress
  BY <1>6 DEF Update!Progress, Update!flags
<1>7. CASE Update!Relaunch
  BY <1>7 DEF Update!Relaunch
<1>8. CASE Update!InstallFails
  BY <1>8 DEF Update!InstallFails
<1>9. ASSUME NEW r \in Results, Update!CheckEnds(r)
      PROVE  BannerInv'
  <2>1. /\ check # "no" /\ check' = "no" /\ ~busyRef' /\ ~pendingManual' /\ ~install
        /\ install' = install /\ clicked' = clicked /\ busyRef' \in BOOLEAN /\ pendingManual' \in BOOLEAN
    BY <1>9 DEF Update!CheckEnds
  <2>2. banner' \in BannerPhases /\ fades' \in BOOLEAN /\ owed' \in BOOLEAN
    BY <1>9 DEF Update!CheckEnds, Results
  <2>3. spurious' \in BOOLEAN /\ (spurious' => clicked)
    BY <1>9 DEF Update!CheckEnds
  <2>4. QED BY <2>1, <2>2, <2>3
<1>10. CASE UNCHANGED Update!vars
  BY <1>10 DEF Update!vars, Update!flags
<1>11. QED
  BY <1>1, <1>2, <1>3, <1>4, <1>5, <1>6, <1>7, <1>8, <1>9, <1>10 DEF Update!Next, Results

\* A download is alone and shows as one until somebody asks for a check during
\* it, and no result is shown that nobody asked for but for such a click
\* (UpdateBanner.tsx:27-28, 58-59).
THEOREM BannerTellsTheTruth == Update!Spec => []Update!BannerIsTrue
<1>1. Update!Init => BannerInv
  BY DEF Update!Init, BannerInv, BannerPhases, CheckKinds
<1>2. BannerInv /\ [Update!Next]_(Update!vars) => BannerInv'
  BY BannerNext
<1>3. BannerInv => Update!BannerIsTrue
  BY DEF BannerInv, Update!BannerIsTrue
<1>4. QED BY <1>1, <1>2, <1>3, PTL DEF Update!Spec

-----------------------------------------------------------------------------
(* Types, and the parts together *)

LEMMA FocusTypes ==
    ASSUME TypeOK, [Next]_vars
    PROVE  TypeOK'
<1> USE NoneAssumption
<1>1. ASSUME NEW s \in Servers \cup {None}, Select(s), UNCHANGED <<here, rows>>, refreshing' \subseteq Servers,
             polled' \in Servers \cup {None}, requested' \in Servers \cup {None},
             here \/ tab = "console"
      PROVE  TypeOK'
  BY <1>1 DEF TypeOK, Panel, Select, KeepTab
<1>2. tab = "other" => here
  BY DEF TypeOK, Panel
<1>3. CASE \E s \in Servers : Click(s) \/ Choose(s)
  <2>1. PICK s \in Servers : Click(s) \/ Choose(s)
    BY <1>3
  <2>2. PICK t \in Servers \cup {None} : Select(t)
    BY <2>1 DEF Click, Choose
  <2>3. here /\ UNCHANGED <<here, rows, refreshing, polled, requested>>
    BY <2>1 DEF Click, Choose
  <2>4. QED BY <1>1, <2>2, <2>3 DEF TypeOK
<1>4. CASE \E s \in Servers : FocusSelects(s)
  BY <1>1, <1>2, <1>4 DEF FocusSelects, TypeOK
<1>5. CASE \E s \in Servers, console \in BOOLEAN : Focus(s, console)
  <2>1. PICK s \in Servers, console \in BOOLEAN : Focus(s, console)
    BY <1>5
  <2>2. requested' \in Servers \cup {None} /\ here /\ UNCHANGED <<here, rows, polled>>
    BY <2>1 DEF Focus
  <2>3. CASE Select(s) /\ UNCHANGED refreshing
    BY <1>1, <2>2, <2>3 DEF TypeOK
  <2>4. CASE refreshing' = refreshing \cup {s} /\ UNCHANGED <<shown, gets, tab>>
    BY <2>2, <2>4 DEF TypeOK, Panel, shown
  <2>5. QED BY <2>1, <2>3, <2>4 DEF Focus
<1>6. CASE \E s \in Servers : GetArrives(s) \/ GetFails(s)
  BY <1>6 DEF GetArrives, GetFails, DetailOf, Poll, TypeOK, Panel, shown
<1>7. CASE StatsArrive
  BY <1>7 DEF StatsArrive, TypeOK, Panel
<1>8. CASE StatsTick \/ StatsFail \/ ConsumeRequestedTab \/ SetTab \/ Mount \/ Unmount \/ UNCHANGED vars
  BY <1>8 DEF StatsTick, StatsFail, Poll, ConsumeRequestedTab, SetTab, Mount, Unmount, TypeOK, Panel, shown, vars
<1>9. CASE ListArrives
  BY <1>9 DEF ListArrives, KeepTab, TypeOK, Panel, shown
<1>10. QED BY <1>3, <1>4, <1>5, <1>6, <1>7, <1>8, <1>9 DEF Next

LEMMA StoreTypes ==
    ASSUME StoreInv, Store!TypeOK, [Store!Next]_(Store!vars)
    PROVE  Store!TypeOK'
<1> USE BoundAssumption
<1>0. /\ status \in {"loading", "signedOut", "offline", "mfa", "signedIn"} /\ mustChange \in BOOLEAN
      /\ suite \in BOOLEAN /\ request \in {"none", "asked", "expired"} /\ orphans \in 0..MaxOrphans
  BY DEF Store!TypeOK
<1>1. handlers' \in [Calls -> Handler] /\ session' \in Sessions /\ armed' \in BOOLEAN /\ busy' \in BOOLEAN /\ byHand' \in BOOLEAN
  BY StoreNext DEF StoreInv
<1>2. orphans' \in 0..MaxOrphans /\ mustChange' \in BOOLEAN /\ suite' \in BOOLEAN /\ request' \in {"none", "asked", "expired"}
      /\ status' \in {"loading", "signedOut", "offline", "mfa", "signedIn"}
  <2>1. CASE Store!Mount \/ Store!Retry \/ Store!TryNow \/ Store!Recheck \/ Store!OrphanFires
    BY <1>0, <2>1 DEF Store!Mount, Store!Retry, Store!TryNow, Store!Recheck, Store!OrphanFires, Store!CallInit,
                      Store!store, Store!profile
  <2>2. CASE Store!Login \/ Store!Verify \/ Store!ChangePassword
    BY <1>0, <2>2 DEF Store!Login, Store!Verify, Store!ChangePassword, Store!Submit, Store!profile, Store!timers
  <2>3. CASE Store!Logout \/ Store!BackToSignIn \/ Store!SwitchView \/ Store!Poll \/ Store!PollEnds \/ Store!PollExpires
              \/ Store!SessionExpired \/ Store!Revoke \/ UNCHANGED Store!vars
    BY <1>0, <2>3 DEF Store!Logout, Store!BackToSignIn, Store!SwitchView, Store!Poll, Store!PollEnds, Store!PollExpires,
                      Store!SessionExpired, Store!Revoke, Store!vars, Store!profile,
                      Store!timers, Store!store, Store!profile
  <2>4. CASE \E c \in Calls : Store!Serve(c)
    BY <1>0, <2>4 DEF Store!Serve, Store!store, Store!profile, Store!timers
  <2>5. CASE \E c \in Calls : Store!Succeeded(c)
    BY <1>0, <2>5 DEF Store!Succeeded, Store!store, Store!profile
  <2>6. CASE \E c \in Calls : Store!InitAnswered(c)
    <3>0. PICK c \in Calls : Store!InitAnswered(c)
      BY <2>6
    <3>1. orphans' \in 0..MaxOrphans
      BY <1>0, <3>0 DEF Store!InitAnswered, Store!Rearm
    <3>2. status' \in {"signedIn", "offline", "signedOut"} /\ request' = request
      BY <3>0 DEF Store!InitAnswered
    <3>3. mustChange' \in BOOLEAN
      BY <3>0 DEF Store!InitAnswered
    <3>4. suite' \in BOOLEAN
      BY <3>0 DEF Store!InitAnswered
    <3>5. QED BY <1>0, <3>1, <3>2, <3>3, <3>4
  <2>7. CASE \E c \in Calls : Store!Ended(c)
    <3>0. PICK c \in Calls : Store!Ended(c)
      BY <2>7
    <3>1. status' \in {"signedOut", "mfa", status}
      BY <3>0 DEF Store!Ended
    <3>2. UNCHANGED <<orphans, request>> /\ mustChange' = (mustChange /\ handlers[c].op # "logout")
          /\ suite' = (suite /\ handlers[c].op # "logout")
      BY <3>0 DEF Store!Ended, Store!timers
    <3>3. mustChange' \in BOOLEAN
      BY <3>2
    <3>4. suite' \in BOOLEAN
      BY <3>2
    <3>5. QED BY <1>0, <3>1, <3>2, <3>3, <3>4
  <2>8. QED BY <2>1, <2>2, <2>3, <2>4, <2>5, <2>6, <2>7 DEF Store!Next, Store!Proceed
<1>3. QED BY <1>1, <1>2 DEF Store!TypeOK, Handler, Ops, Sessions

\* A profile that has an item has a first one.
LEMMA FirstIsPermitted ==
    ASSUME NEW p, Access!Items(p) # {}
    PROVE  Access!FirstOf(p) \in Access!AdminScreen
<1>1. DOMAIN Access!NAV = 1..19
  BY DEF Access!NAV
<1>2. Access!Items(p) \subseteq Nat /\ Access!Items(p) \subseteq DOMAIN Access!NAV
  BY <1>1 DEF Access!Items
<1>3. \E i \in Access!Items(p) : \A j \in Access!Items(p) : i <= j
  BY <1>2, Least
<1>4. PICK i \in Access!Items(p) : i = CHOOSE k \in Access!Items(p) : \A j \in Access!Items(p) : k <= j
  BY <1>3
<1>5. Access!FirstOf(p) = Access!NAV[i][1]
  BY <1>4 DEF Access!FirstOf
<1>6. QED BY <1>2, <1>5 DEF Access!AdminScreen

LEMMA AccessTypes ==
    ASSUME Access!TypeOK, [Access!Next]_(Access!vars)
    PROVE  Access!TypeOK'
<1>1. CASE Access!Jump
  BY <1>1, FirstIsPermitted DEF Access!Jump, Access!TypeOK
<1>2. CASE \E screen \in Access!AdminScreen : Access!GoAdmin(screen)
  BY <1>2 DEF Access!GoAdmin, Access!TypeOK
<1>3. CASE (\E v \in {"customer", "admin"} : Access!SetView(v)) \/ Access!SignOut \/ UNCHANGED Access!vars
  BY <1>3 DEF Access!SetView, Access!SignOut, Access!vars, Access!TypeOK
<1>4. CASE \E p \in Profiles : Access!Recheck(p) \/ Access!SignIn(p)
  BY <1>4 DEF Access!Recheck, Access!SignIn, Access!TypeOK
<1>5. QED BY <1>1, <1>2, <1>3, <1>4 DEF Access!Next

LEMMA AccessInit == Access!Init => Access!TypeOK
<1>1. "servers" = Access!NAV[2][1] /\ 2 \in DOMAIN Access!NAV
  BY DEF Access!NAV
<1>2. "servers" \in Access!AdminScreen
  BY <1>1 DEF Access!AdminScreen
<1>3. QED BY <1>2 DEF Access!Init, Access!TypeOK

PartsInv ==
    /\ TypeOK /\ FocusInv
    /\ PlaceInv /\ ArrivalInv
    /\ StoreInv /\ Store!TypeOK
    /\ BannerInv
    /\ Access!TypeOK

LEMMA PartsInit == InitParts => PartsInv
<1> SUFFICES ASSUME InitParts PROVE PartsInv
  OBVIOUS
<1>1. TypeOK /\ FocusInv
  BY DEF InitParts, Init, TypeOK, FocusInv, ShowsOnlySelected
<1>2. PlaceInv /\ ArrivalInv
  BY InboxInit DEF InitParts
<1>3. StoreInv
  BY StoreInit DEF InitParts
<1>4. Store!TypeOK
  <2>1. Store!Init
    BY DEF InitParts
  <2>2. orphans \in 0..MaxOrphans
    BY <2>1, BoundAssumption DEF Store!Init
  <2>3. handlers \in [Calls -> [op : {"free", "init", "logout"} \cup Store!Submits,
                                stage : {"op", "init"}, answer : Store!Answers]]
    BY <1>3 DEF StoreInv, Handler, Ops
  <2>4. /\ session \in {"none", "saved", "live"} /\ status = "loading"
        /\ busy \in BOOLEAN /\ mustChange \in BOOLEAN /\ suite \in BOOLEAN /\ request = "none" /\ armed \in BOOLEAN /\ byHand \in BOOLEAN
    BY <2>1 DEF Store!Init
  <2>5. QED BY <2>2, <2>3, <2>4 DEF Store!TypeOK
<1>5. BannerInv
  BY DEF InitParts, Update!Init, BannerInv, BannerPhases, CheckKinds
<1>6. QED BY <1>1, <1>2, <1>3, <1>4, <1>5, AccessInit DEF InitParts, PartsInv

\* A part that does not run keeps its invariants.
LEMMA PartsNext ==
    ASSUME PartsInv, [NextPart]_<<part, focus, inbox, store, update, access>>
    PROVE  PartsInv'
<1>1. [Next]_vars
  BY DEF NextPart, focus
<1>2. [Inbox!Next]_(Inbox!vars)
  <2>1. UNCHANGED inbox => UNCHANGED Inbox!vars
    BY DEF inbox, Inbox!vars, Inbox!history
  <2>2. QED BY <2>1 DEF NextPart
<1>3. [Store!Next]_(Store!vars)
  <2>1. UNCHANGED store => UNCHANGED Store!vars
    BY DEF store, Store!vars, Store!store, Store!profile, Store!timers
  <2>2. QED BY <2>1 DEF NextPart
<1>4. [Update!Next]_(Update!vars)
  <2>1. UNCHANGED update => UNCHANGED Update!vars
    BY DEF update, Update!vars, Update!flags
  <2>2. QED BY <2>1 DEF NextPart
<1>5. [Access!Next]_(Access!vars)
  <2>1. UNCHANGED access => UNCHANGED Access!vars
    BY DEF access, Access!vars
  <2>2. QED BY <2>1 DEF NextPart
<1>6. QED
  BY <1>1, <1>2, <1>3, <1>4, <1>5, FocusTypes, FocusNext, PlaceNext, ArrivalNext, StoreNext, StoreTypes,
     BannerNext, AccessTypes DEF PartsInv

LEMMA PartsInvariant == SpecParts => []PartsInv
BY PartsInit, PartsNext, PTL DEF SpecParts

-----------------------------------------------------------------------------
\* What each of the window's stores holds is what the code says it can hold: a
\* tab is kept only while its panel is there, no more timers run than were lost
\* sight of, and the staff suite is always on a screen that it has
\* (ServerDetailPanel.tsx, auth.ts, UpdateBanner.tsx, nav.ts).
THEOREM WindowTyped == SpecParts => []TypesOK
<1>1. BannerInv => Update!TypeOK
  BY DEF BannerInv, BannerPhases, CheckKinds, Update!TypeOK
<1>2. PartsInv => TypesOK
  BY <1>1 DEF PartsInv, TypesOK
<1>3. QED BY <1>2, PartsInvariant, PTL

\* All of the window at once, with the parts as its run puts them side by side:
\* nothing of another server is shown, no link is opened twice, an offline window
\* retries, one form is sent at a time and the banner tells the truth.
THEOREM WindowIsSafe ==
    SpecParts => [](ShowsOnlySelected /\ Inbox!OpenedOnce /\ Store!OfflineRetries /\ Store!OneSubmit /\ Update!BannerIsTrue)
<1>1. PartsInv => ShowsOnlySelected /\ Inbox!OpenedOnce /\ Store!OfflineRetries /\ Store!OneSubmit /\ Update!BannerIsTrue
  BY OpensOnce, Retries, SubmitsOne DEF PartsInv, FocusInv, BannerInv, Update!BannerIsTrue
<1>2. QED BY <1>1, PartsInvariant, PTL

\* The console that a link wants is taken by the panel of that server alone, or
\* given up for another server that is focused without one (servers.ts:263;
\* ServerDetailPanel.tsx, consumeRequestedTab).
THEOREM ConsoleIsForItsServer == Spec => ConsoleForItsServer
<1>1. ASSUME [Next]_vars, NEW s \in Servers, requested = s, requested' = None
      PROVE  (selected = s /\ Panel) \/ \E t \in Servers : Focus(t, FALSE)
  <2>1. requested' # requested
    BY <1>1, NoneAssumption
  <2>2. ConsumeRequestedTab \/ \E t \in Servers, console \in BOOLEAN : Focus(t, console)
    BY <1>1, <2>1 DEF Next, Click, Choose, GetArrives, GetFails, FocusSelects, StatsTick, StatsArrive, StatsFail,
                      SetTab, Mount, Unmount, ListArrives, vars
  <2>3. CASE ConsumeRequestedTab
    BY <1>1, <2>3 DEF ConsumeRequestedTab
  <2>4. CASE \E t \in Servers, console \in BOOLEAN : Focus(t, console)
    <3>1. PICK t \in Servers, console \in BOOLEAN : Focus(t, console)
      BY <2>4
    <3>2. console = FALSE
      BY <1>1, <3>1, NoneAssumption DEF Focus
    <3>3. QED BY <3>1, <3>2
  <2>5. QED BY <2>2, <2>3, <2>4
<1>2. [Next]_vars => [\A s \in Servers : requested = s /\ requested' = None
                        => \/ selected = s /\ Panel
                           \/ \E t \in Servers : Focus(t, FALSE)]_vars
  BY <1>1
<1>3. QED BY <1>2, PTL DEF Spec, ConsoleForItsServer
=============================================================================
