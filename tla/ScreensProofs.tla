------------------------------ MODULE ScreensProofs ------------------------------
(***************************************************************************)
(* What holds of the screens and dialogs that show what the panel holds,   *)
(* for any rows, folders, files and texts, and any number of requests,     *)
(* openings and edits under way: an invariant of each kind of screen,      *)
(* which its steps keep, and of all of them side by side.                  *)
(***************************************************************************)
EXTENDS MCScreens, Sequences, SequenceTheorems, FiniteSetTheorems, TLAPS

-----------------------------------------------------------------------------
(* The invariants *)

Wants == [text : Texts, pick : Picks, page : Pages]
Loads == [want : Wants, seen : (0 .. MaxChanges) \cup {None}, newest : BOOLEAN]
Shown == [text : Texts, pick : Picks, page : Pages, seen : Nat]
Ops   == [step : {"sent", "done"}, want : Wants]

\* The newest request is still to come, and what it brings will be taken.
Coming == loads # <<>> /\ loads[Len(loads)].newest
Quiet == op = None \/ op.step = "sent"

\* The request l asks for what is wanted, and was not served before the last change.
Fit(l) ==
    /\ l.want.pick = want.pick /\ l.want.page = want.page
    /\ l.want.text = want.text \/ screen.search = "enter"
    /\ l.seen \in {None, version}

\* The rows on display are those that are wanted.
Right ==
    LET shown1 == table[want.pick] IN
    /\ shown1 # None
    /\ shown1.pick = want.pick /\ shown1.page = want.page /\ shown1.seen = version
    /\ shown1.text = want.text \/ screen.search = "enter"

ListTypes ==
    /\ List!TypeOK
    /\ table \in [Picks -> Shown \cup {None}]
    /\ op \in Ops \cup {None}
    /\ \A i \in 1..Len(loads) : loads[i].seen # None => loads[i].seen <= version
    /\ timer # None => screen.search = "typed"

NewestInv ==
    \A i \in 1..Len(loads) : IF screen.guarded THEN loads[i].newest => i = Len(loads) ELSE loads[i].newest

\* Without a race, either something is under way that will bring what is wanted, or an
\* error is shown, or it is on display.
RowsInv ==
    ~muddled =>
        /\ timer # None => timer = want
        /\ Coming /\ timer = None /\ Quiet => Fit(loads[Len(loads)])
        /\ ~Coming /\ timer = None /\ "load" \notin errors /\ Quiet /\ (op = None \/ screen.own) => Right

ListInv == ListTypes /\ NewestInv /\ RowsInv

\* No two calls are of one opening, the button is off exactly while there is one, and
\* what has not taken effect has made nothing.
FormInv ==
    /\ Form!TypeOK
    /\ \A c \in sent : c.from \in 1..opened
    /\ unheard \subseteq 1..opened
    /\ \A n \in 1..MaxOpened : n > opened => effects[n] = 0
    /\ ~kind.held => ~held
    /\ kind # Form!VanityDialog =>
        /\ \A c, d \in sent : c.from = d.from => c = d
        /\ slot # 0 => (held <=> Form!Calls(slot) # {})
        /\ \A n \in 1..opened : n \notin unheard => effects[n] <= 1
        /\ \A c \in sent : ~c.done /\ ~c.change /\ c.from \notin unheard => effects[c.from] = 0
        /\ \A c \in sent : c.change /\ c.from = slot => made
        /\ slot # 0 /\ ~made /\ slot \notin unheard /\ Form!Calls(slot) = {} => effects[slot] = 0

\* A call that nobody typed into is alone, and tells what the panel holds; the rest of the
\* form is what it was when it was loaded.
CardInv ==
    /\ Card!TypeOK /\ {rest, keptRest} \subseteq {0, 1}
    /\ draft # None /\ ~card.swallows => text = draft
    /\ ~blindly =>
        /\ keptRest = 1
        /\ Card!Fetches => /\ loaded => rest = 1
                           /\ \A c \in calls : c.op = "save" \/ c.done => c.rest = 1
    /\ ~mixed =>
        /\ \A c, d \in calls : c = d
        /\ Card!Fetches => /\ \A c \in calls : c.done /\ (c.op = "save" => card.fills = "answer") => c.text = kept
                           /\ loaded /\ calls = {} /\ ~problem /\ draft = None => text = kept

\* The newest listing is of the folder on display; the only save under way is of the text in
\* the editor.
TabInv ==
    /\ Tab!TypeOK
    /\ \A r \in asked : r.at \in IF r.kind \in {"read", "save"} THEN Files ELSE Folders
    /\ \A r \in asked : r.newest /\ ~astray => r.at = path
    /\ Tab!RightFolder
    /\ ~crossed =>
        /\ \A r \in asked : r.kind = "save" => editing = r.at /\ buffer = r.text
        /\ editing # None => baseline = disk[editing] /\ (~dirty => buffer = baseline)

\* One edit at a time starts from what is stored.
SettingsInv ==
    /\ Settings!TypeOK /\ IsFiniteSet(refused)
    /\ \A i \in 1..Len(edits) : edits[i].pane <= paneOpened
    /\ \A e \in refused : e.pane <= paneOpened
    /\ ~overlapped =>
        /\ Len(edits) <= 1 /\ (edits # <<>> => refused = {}) /\ (\A d, e \in refused : d = e)
        /\ edits # <<>> => edits[1].prev = stored /\ (shown = None \/ (shown = edits[1].next /\ edits[1].pane = pane))
        /\ \A e \in refused : e.prev = stored /\ (e.pane = pane \/ shown \in {None, stored})
        /\ edits = <<>> /\ refused = {} => shown \in {None, stored}

\* A code under way belongs to the dialog on display, which cannot be left meanwhile.
CodesInv ==
    /\ Codes!TypeOK /\ Codes!CodesAreShown
    /\ dialog = "setup" => asker
    /\ dialog = "setup" /\ enroll # None => codeWorking /\ verify = None
    /\ verify # None => excused \/ (dialog = "setup" /\ codeWorking /\ secret)
    /\ "verify" \in strays => excused

-----------------------------------------------------------------------------
(* The lists *)

\* A call leaves those under way where they are; without numbers all of them stay the newest.
LEMMA AskFacts ==
    ASSUME loads \in Seq(Loads), NEW w \in Wants, screen.guarded \in BOOLEAN, List!Ask(w)
    PROVE  /\ loads' \in Seq(Loads) /\ Len(loads') = Len(loads) + 1 /\ loads' # <<>>
           /\ loads'[Len(loads')] = [want |-> w, seen |-> None, newest |-> TRUE]
           /\ \A i \in 1..Len(loads) : /\ loads'[i].want = loads[i].want /\ loads'[i].seen = loads[i].seen
                                       /\ (loads'[i].newest <=> ~screen.guarded)
<1> DEFINE older == [i \in 1..Len(loads) |-> [loads[i] EXCEPT !.newest = ~screen.guarded]]
           new == [want |-> w, seen |-> None, newest |-> TRUE]
<1>1. DOMAIN loads = 1..Len(loads) /\ Len(loads) \in Nat /\ \A i \in 1..Len(loads) : loads[i] \in Loads
  OBVIOUS
<1>2. loads' = Append(older, new)
  BY <1>1 DEF List!Ask, List!Request
<1>3. \A i \in 1..Len(loads) : [loads[i] EXCEPT !.newest = ~screen.guarded] \in Loads
  BY <1>1 DEF Loads
<1>4. older \in Seq(Loads) /\ Len(older) = Len(loads)
  BY <1>1, <1>3
<1>5. \A i \in 1..Len(loads) : /\ older[i].want = loads[i].want /\ older[i].seen = loads[i].seen
                               /\ (older[i].newest <=> ~screen.guarded)
  BY <1>1 DEF Loads
<1>6. new \in Loads
  BY DEF Loads
<1> HIDE DEF older, new
<1>7. loads' \in Seq(Loads) /\ Len(loads') = Len(loads) + 1 /\ loads'[Len(loads')] = new
      /\ \A i \in 1..Len(loads) : loads'[i] = older[i]
  BY <1>1, <1>2, <1>4, <1>6
<1>8. QED BY <1>1, <1>5, <1>7 DEF new

\* What is left when the call i is over.
LEMMA RemoveAtFacts ==
    ASSUME NEW S, NEW s \in Seq(S), NEW i \in 1..Len(s)
    PROVE  /\ List!RemoveAt(s, i) \in Seq(S) /\ Len(List!RemoveAt(s, i)) = Len(s) - 1
           /\ \A j \in 1..(Len(s) - 1) : List!RemoveAt(s, i)[j] = IF j < i THEN s[j] ELSE s[j + 1]
<1> DEFINE a == SubSeq(s, 1, i - 1)
           b == SubSeq(s, i + 1, Len(s))
<1>1. Len(s) \in Nat /\ i \in Nat /\ 1 <= i /\ i <= Len(s)
  OBVIOUS
<1>2. a \in Seq(S) /\ Len(a) = i - 1 /\ \A j \in 1..(i - 1) : a[j] = s[j]
  BY <1>1
<1>3. b \in Seq(S) /\ Len(b) = Len(s) - i /\ \A j \in 1..(Len(s) - i) : b[j] = s[j + i]
  BY <1>1
<1>4. List!RemoveAt(s, i) = a \o b
  BY DEF List!RemoveAt
<1> HIDE DEF a, b
<1>5. a \o b \in Seq(S) /\ Len(a \o b) = Len(s) - 1
  <2>1. a \o b \in Seq(S) /\ Len(a \o b) = Len(a) + Len(b)
    BY <1>2, <1>3, ConcatProperties
  <2>2. Len(a) + Len(b) = Len(s) - 1
    BY <1>1, <1>2, <1>3
  <2>3. QED BY <2>1, <2>2
<1>6. ASSUME NEW j \in 1..(Len(s) - 1)
      PROVE  (a \o b)[j] = IF j < i THEN s[j] ELSE s[j + 1]
  <2>1. CASE j < i
    BY <1>1, <1>2, <1>3, <2>1
  <2>2. CASE ~(j < i)
    <3>1. j - (i - 1) \in 1..(Len(s) - i) /\ (j - (i - 1)) + i = j + 1
      BY <1>1, <2>2
    <3>2. (a \o b)[j] = b[j - (i - 1)]
      BY <1>1, <1>2, <1>3, <2>2, <3>1
    <3>3. QED BY <1>3, <2>2, <3>1, <3>2
  <2>3. QED BY <2>1, <2>2
<1>7. QED BY <1>4, <1>5, <1>6

LEMMA ScreensAre == \A s \in List!Screens : s.guarded \in BOOLEAN
<1>1. /\ List!AdminServers.guarded \in BOOLEAN /\ List!AdminUsers.guarded \in BOOLEAN
      /\ List!AdminAudit.guarded \in BOOLEAN /\ List!AdminSupport.guarded \in BOOLEAN
  BY DEF List!Plain, List!AdminServers, List!AdminUsers, List!AdminAudit, List!AdminSupport
<1>2. /\ List!Invoices.guarded \in BOOLEAN /\ List!Orders.guarded \in BOOLEAN
      /\ List!Payments.guarded \in BOOLEAN /\ List!AdminGrowth.guarded \in BOOLEAN
  BY DEF List!Plain, List!Invoices, List!Orders, List!Payments, List!AdminGrowth
<1>3. /\ List!AdminDashboard.guarded \in BOOLEAN /\ List!AdminNodes.guarded \in BOOLEAN
      /\ List!LocationsPanel.guarded \in BOOLEAN /\ List!AdminCoupons.guarded \in BOOLEAN
  BY DEF List!Plain, List!AdminDashboard, List!AdminNodes, List!LocationsPanel, List!AdminCoupons
<1>4. /\ List!AdminGiftCards.guarded \in BOOLEAN /\ List!GlobalAlertsPanel.guarded \in BOOLEAN
      /\ List!HomepageAlertsPanel.guarded \in BOOLEAN /\ List!IncidentsPanel.guarded \in BOOLEAN
  BY DEF List!Plain, List!AdminGiftCards, List!GlobalAlertsPanel, List!HomepageAlertsPanel, List!IncidentsPanel
<1>5. /\ List!AdminProducts.guarded \in BOOLEAN /\ List!AdminDbHosts.guarded \in BOOLEAN
      /\ List!AdminTeam.guarded \in BOOLEAN /\ List!Roles.guarded \in BOOLEAN
  BY DEF List!Plain, List!AdminProducts, List!AdminDbHosts, List!AdminTeam, List!Roles
<1>6. /\ List!Backups.guarded \in BOOLEAN /\ List!Schedules.guarded \in BOOLEAN
      /\ List!Databases.guarded \in BOOLEAN
  BY DEF List!Plain, List!Backups, List!Schedules, List!Databases
<1>7. QED
  BY <1>1, <1>2, <1>3, <1>4, <1>5, <1>6 DEF List!Screens

LEMMA ListFacts ==
    ASSUME ListInv
    PROVE  /\ screen \in List!Screens /\ screen.guarded \in BOOLEAN
           /\ want \in Wants /\ timer \in Wants \cup {None} /\ loads \in Seq(Loads) /\ Len(loads) \in Nat
           /\ table \in [Picks -> Shown \cup {None}]
           /\ \A p \in Picks : table[p] # None => table[p].page \in Pages /\ table[p].seen \in 0..version
           /\ errors \subseteq {"load", "action"} /\ op \in Ops \cup {None}
           /\ version \in 0..MaxChanges /\ MaxChanges \in Nat
           /\ \A w \in Wants : w.text \in Texts /\ w.pick \in Picks /\ w.page \in Pages
           /\ \A o \in Ops : o.step \in {"sent", "done"} /\ o.want \in Wants
           /\ None \notin Wants /\ None \notin Ops /\ None \notin Shown /\ None \notin Nat
           /\ \A i \in 1..Len(loads) : loads[i] \in Loads /\ (loads[i].seen # None => loads[i].seen \in 0..version)
<1>1. MaxChanges \in Nat
  BY StartAssumption
<1>2. None \notin Wants /\ None \notin Ops /\ None \notin Shown /\ None \notin Nat
  BY NothingAssumption DEF Wants, Ops, Shown
<1>3. /\ \A w \in Wants : w.text \in Texts /\ w.pick \in Picks /\ w.page \in Pages
      /\ \A o \in Ops : o.step \in {"sent", "done"} /\ o.want \in Wants
  BY DEF Wants, Ops
<1>4. /\ screen \in List!Screens /\ want \in Wants /\ timer \in Wants \cup {None} /\ loads \in Seq(Loads)
      /\ \A p \in Picks : table[p] # None => table[p].page \in Pages /\ table[p].seen \in 0..version
      /\ errors \subseteq {"load", "action"} /\ version \in 0..MaxChanges
  BY DEF ListInv, ListTypes, List!TypeOK, Wants, Loads
<1>5. screen.guarded \in BOOLEAN
  BY <1>4, ScreensAre
<1>6. Len(loads) \in Nat /\ \A i \in 1..Len(loads) : loads[i] \in Loads
  BY <1>4
<1>7. \A i \in 1..Len(loads) : loads[i].seen # None => loads[i].seen \in 0..version
  BY <1>1, <1>4, <1>6 DEF ListInv, ListTypes, Loads
<1>8. table \in [Picks -> Shown \cup {None}] /\ op \in Ops \cup {None}
  BY DEF ListInv, ListTypes
<1>9. QED BY <1>1, <1>2, <1>3, <1>4, <1>5, <1>6, <1>7, <1>8

\* What the types of a step come down to.
LEMMA ListTyped ==
    ASSUME ListInv, screen' = screen,
           want' \in Wants, timer' \in Wants \cup {None}, timer' # None => screen.search = "typed",
           loads' \in Seq(Loads), table' \in [Picks -> Shown \cup {None}],
           \A p \in Picks : table'[p] # None => table'[p].seen \in 0..version',
           errors' \subseteq {"load", "action"}, op' \in Ops \cup {None}, version' \in 0..MaxChanges,
           \A i \in 1..Len(loads') : loads'[i].seen # None => loads'[i].seen <= version'
    PROVE  ListTypes'
<1>1. List!TypeOK'
  <2>1. \A p \in Picks : table'[p] # None => table'[p].page \in Pages
    BY ListFacts DEF Shown
  <2>2. op' # None => op'.step \in {"sent", "done"} /\ op'.want \in Wants
    BY DEF Ops
  <2>3. QED BY <2>1, <2>2, ListFacts DEF List!TypeOK, Wants, Loads
<1>2. QED BY <1>1 DEF ListTypes

LEMMA ListInit == List!Init => ListInv
<1> SUFFICES ASSUME List!Init PROVE ListInv
  OBVIOUS
<1>1. MaxChanges \in Nat
  BY StartAssumption
<1>2. None \notin Nat /\ None \notin Wants
  BY NothingAssumption DEF Wants
<1>3. List!First \in Wants /\ List!First.pick \in Picks
  <2>1. (CHOOSE p \in Picks : TRUE) \in Picks
    BY StartAssumption
  <2>2. "" \in Texts /\ 1 \in Pages
    BY StartAssumption
  <2>3. QED BY <2>1, <2>2 DEF List!First, Wants
<1>4. /\ screen \in List!Screens /\ want = List!First /\ timer = None /\ table = [p \in Picks |-> None]
      /\ errors = {} /\ op = None /\ version = 0 /\ muddled = FALSE
      /\ loads = <<[want |-> List!First, seen |-> None, newest |-> TRUE]>>
  BY DEF List!Init, List!Request
<1>5. loads \in Seq(Loads) /\ Len(loads) = 1 /\ loads # <<>> /\ loads[1].newest
      /\ loads[1].want = want /\ loads[1].seen = None
  BY <1>3, <1>4 DEF Loads
<1>6. List!TypeOK
  BY <1>1, <1>3, <1>4, <1>5 DEF List!TypeOK, Wants, Loads
<1>7. ListTypes
  BY <1>1, <1>3, <1>4, <1>5, <1>6 DEF ListTypes
<1>8. Coming /\ NewestInv /\ Fit(loads[Len(loads)])
  BY <1>5 DEF Coming, NewestInv, Fit
<1>9. QED BY <1>4, <1>7, <1>8 DEF ListInv, RowsInv

\* A request for what will be wanted, or for what the timer asks before, keeps the invariant.
LEMMA AskStep ==
    ASSUME ListInv, NEW w \in Wants, List!Ask(w), UNCHANGED <<screen, version>>,
           want' \in Wants, timer' \in {timer, None}, op' \in {op, None}, errors' \subseteq errors,
           table' \in [Picks -> Shown \cup {None}], \A p \in Picks : table'[p] \in {table[p], None},
           ~muddled' => ~muddled /\ (timer' # None => want' = want) /\ (timer' = None => w = want')
    PROVE  ListInv'
<1>1. /\ loads' \in Seq(Loads) /\ Len(loads') = Len(loads) + 1 /\ loads' # <<>>
      /\ loads'[Len(loads')] = [want |-> w, seen |-> None, newest |-> TRUE]
      /\ \A i \in 1..Len(loads) : /\ loads'[i].want = loads[i].want /\ loads'[i].seen = loads[i].seen
                                  /\ (loads'[i].newest <=> ~screen.guarded)
  BY AskFacts, ListFacts
<1>2. \A i \in 1..Len(loads') : i \in 1..Len(loads) \/ i = Len(loads')
  BY <1>1, ListFacts
<1>3. ListTypes'
  <2>1. \A i \in 1..Len(loads') : loads'[i].seen # None => loads'[i].seen <= version'
    BY <1>1, <1>2, ListFacts DEF ListInv, ListTypes
  <2>2. timer' # None => screen.search = "typed"
    BY DEF ListInv, ListTypes
  <2>3. \A p \in Picks : table'[p] # None => table'[p].seen \in 0..version'
    BY ListFacts
  <2>4. timer' \in Wants \cup {None} /\ errors' \subseteq {"load", "action"} /\ op' \in Ops \cup {None}
        /\ version' \in 0..MaxChanges
    BY ListFacts
  <2>5. QED BY <1>1, <2>1, <2>2, <2>3, <2>4, ListTyped
<1>4. NewestInv'
  BY <1>1, <1>2 DEF NewestInv
<1>5. Coming'
  BY <1>1 DEF Coming
<1>6. RowsInv'
  <2>1. SUFFICES ASSUME ~muddled'
                 PROVE  /\ timer' # None => timer' = want'
                        /\ timer' = None => Fit(loads[Len(loads)])'
    BY <1>5 DEF RowsInv
  <2>2. timer' # None => timer' = want'
    BY <2>1 DEF ListInv, RowsInv
  <2>3. timer' = None => Fit(loads[Len(loads)])'
    BY <1>1, <2>1 DEF Fit
  <2>4. QED BY <2>2, <2>3
<1>7. QED BY <1>3, <1>4, <1>6 DEF ListInv

LEMMA TypedStep ==
    ASSUME ListInv, NEW t \in Texts, List!Typed(t), UNCHANGED <<screen, table, op, version>>
    PROVE  ListInv'
<1> DEFINE w == [want EXCEPT !.text = t, !.page = 1]
<1>1. /\ screen.search = "typed" /\ want' = w /\ timer' = w /\ UNCHANGED <<loads, errors, muddled>>
  BY DEF List!Typed
<1>2. 1 \in Pages
  BY StartAssumption
<1>3. w \in Wants /\ w # None
  <2>1. w \in Wants
    BY <1>2, ListFacts DEF Wants
  <2>2. QED BY <2>1, ListFacts
<1> HIDE DEF w
<1>4. ListTypes'
  BY <1>1, <1>3, ListFacts, ListTyped DEF ListInv, ListTypes
<1>5. NewestInv'
  BY <1>1 DEF ListInv, NewestInv
<1>6. RowsInv'
  BY <1>1, <1>3 DEF RowsInv
<1>7. QED BY <1>4, <1>5, <1>6 DEF ListInv

LEMMA KeyStep ==
    ASSUME ListInv, NEW t \in Texts, List!Key(t), UNCHANGED <<screen, table, op, version>>
    PROVE  ListInv'
<1>1. /\ screen.search = "enter" /\ want' = [want EXCEPT !.text = t]
      /\ UNCHANGED <<timer, loads, errors, muddled>>
  BY DEF List!Key
<1>2. want' \in Wants /\ want'.pick = want.pick /\ want'.page = want.page
  BY <1>1, ListFacts DEF Wants
<1>3. timer = None
  BY <1>1 DEF ListInv, ListTypes
<1>4. ListTypes'
  BY <1>1, <1>2, ListFacts, ListTyped DEF ListInv, ListTypes
<1>5. NewestInv'
  BY <1>1 DEF ListInv, NewestInv
<1>6. /\ Coming' = Coming /\ Quiet' = Quiet /\ Right' = Right
      /\ Fit(loads[Len(loads)])' = Fit(loads[Len(loads)])
  BY <1>1, <1>2 DEF Coming, Quiet, Right, Fit
<1>7. RowsInv'
  BY <1>1, <1>3, <1>6 DEF ListInv, RowsInv
<1>8. QED BY <1>4, <1>5, <1>7 DEF ListInv

LEMMA TimerStep ==
    ASSUME ListInv, List!TimerFires, UNCHANGED <<screen, table, op, version>>
    PROVE  ListInv'
<1>1. /\ timer # None /\ List!Ask(timer) /\ timer' = None /\ UNCHANGED <<want, errors, muddled>>
  BY DEF List!TimerFires
<1>2. timer \in Wants /\ want' \in Wants
  BY <1>1, ListFacts
<1>3. ~muddled => timer = want
  BY <1>1 DEF ListInv, RowsInv
<1>4. QED BY <1>1, <1>2, <1>3, ListFacts, AskStep

LEMMA ReloadStep ==
    ASSUME ListInv, List!Reload, UNCHANGED <<screen, table, op, version>>
    PROVE  ListInv'
<1>1. List!Ask(want) /\ UNCHANGED <<want, timer, errors, muddled>>
  BY DEF List!Reload
<1>2. QED BY <1>1, ListFacts, AskStep

LEMMA PickStep ==
    ASSUME ListInv, NEW p \in Picks, List!Pick(p), UNCHANGED <<screen, op, version>>
    PROVE  ListInv'
<1>1. /\ want' = [want EXCEPT !.pick = p, !.page = 1] /\ List!Ask(want')
      /\ table' = IF screen = List!AdminGrowth THEN [q \in Picks |-> None] ELSE table
      /\ muddled' = (muddled \/ timer # None) /\ UNCHANGED <<timer, errors>>
  BY DEF List!Pick
<1>2. 1 \in Pages
  BY StartAssumption
<1>3. want' \in Wants
  BY <1>1, <1>2, ListFacts DEF Wants
<1>4. table' \in [Picks -> Shown \cup {None}] /\ \A q \in Picks : table'[q] \in {table[q], None}
  BY <1>1, ListFacts
<1>5. ~muddled' => ~muddled /\ timer' = None
  BY <1>1
<1>6. QED BY <1>1, <1>3, <1>4, <1>5, AskStep

LEMMA TurnStep ==
    ASSUME ListInv, NEW p \in Pages, List!Turn(p), UNCHANGED <<screen, table, op, version>>
    PROVE  ListInv'
<1>1. /\ want' = [want EXCEPT !.page = p] /\ List!Ask(want')
      /\ muddled' = (muddled \/ timer # None) /\ UNCHANGED <<timer, errors>>
  BY DEF List!Turn
<1>2. want' \in Wants
  BY <1>1, ListFacts DEF Wants
<1>3. ~muddled' => ~muddled /\ timer' = None
  BY <1>1
<1>4. QED BY <1>1, <1>2, <1>3, ListFacts, AskStep

LEMMA ServedStep ==
    ASSUME ListInv, NEW i \in 1..Len(loads), List!Served(i)
    PROVE  ListInv'
<1>1. /\ loads[i].seen = None /\ loads' = [loads EXCEPT ![i].seen = version]
      /\ UNCHANGED <<screen, want, timer, table, errors, op, version, muddled>>
  BY DEF List!Served
<1>2. /\ loads' \in Seq(Loads) /\ Len(loads') = Len(loads) /\ (loads' = <<>> <=> loads = <<>>)
      /\ \A j \in 1..Len(loads) : /\ loads'[j].want = loads[j].want /\ (loads'[j].newest <=> loads[j].newest)
                                  /\ loads'[j].seen = IF j = i THEN version ELSE loads[j].seen
  <2>1. version \in 0..MaxChanges /\ \A j \in 1..Len(loads) : loads[j] \in Loads
    BY ListFacts
  <2>2. [loads[i] EXCEPT !.seen = version] \in Loads
    BY <2>1 DEF Loads
  <2>3. loads' = [loads EXCEPT ![i] = [loads[i] EXCEPT !.seen = version]]
    BY <1>1, ListFacts
  <2>4. loads' \in Seq(Loads) /\ Len(loads') = Len(loads)
        /\ \A j \in 1..Len(loads) : loads'[j] = IF j = i THEN [loads[i] EXCEPT !.seen = version] ELSE loads[j]
    BY <2>2, <2>3, ListFacts
  <2>5. loads' = <<>> <=> loads = <<>>
    BY <2>4, ListFacts
  <2>6. QED BY <2>1, <2>4, <2>5 DEF Loads
<1>3. ListTypes'
  <2>1. \A j \in 1..Len(loads') : loads'[j].seen # None => loads'[j].seen <= version'
    BY <1>1, <1>2, ListFacts
  <2>2. QED BY <1>1, <1>2, <2>1, ListFacts, ListTyped DEF ListInv, ListTypes
<1>4. NewestInv'
  BY <1>1, <1>2 DEF ListInv, NewestInv
<1>5. /\ Coming' <=> Coming
      /\ Quiet' = Quiet /\ Right' = Right
  BY <1>1, <1>2, ListFacts DEF Coming, Quiet, Right
<1>6. Coming /\ Fit(loads[Len(loads)]) => Fit(loads[Len(loads)])'
  <2>1. Coming => Len(loads) \in 1..Len(loads)
    BY ListFacts DEF Coming
  <2>2. QED BY <1>1, <1>2, <2>1 DEF Fit
<1>7. RowsInv'
  BY <1>1, <1>5, <1>6 DEF ListInv, RowsInv
<1>8. QED BY <1>3, <1>4, <1>7 DEF ListInv

\* The call i is over. In order, or with numbers, what is left tells whether the newest was it.
LEMMA OverFacts ==
    ASSUME ListInv, NEW i \in 1..Len(loads), loads' = List!RemoveAt(loads, i), UNCHANGED screen,
           UNCHANGED version
    PROVE  /\ loads' \in Seq(Loads)
           /\ \A j \in 1..Len(loads') : loads'[j].seen # None => loads'[j].seen <= version'
           /\ NewestInv'
           /\ i = Len(loads) /\ (i > 1 => screen.guarded) => ~Coming'
           /\ i # Len(loads) => (Coming' <=> Coming) /\ (Coming => loads'[Len(loads')] = loads[Len(loads)])
           /\ i # Len(loads) /\ screen.guarded => ~loads[i].newest
           /\ i = Len(loads) /\ ~loads[i].newest => ~Coming /\ screen.guarded
<1>1. /\ loads' \in Seq(Loads) /\ Len(loads') = Len(loads) - 1
      /\ \A j \in 1..(Len(loads) - 1) : loads'[j] = IF j < i THEN loads[j] ELSE loads[j + 1]
  BY ListFacts, RemoveAtFacts
<1>2. \A j \in 1..Len(loads') : j \in 1..Len(loads) /\ j + 1 \in 1..Len(loads)
  BY <1>1, ListFacts
<1>3. \A j \in 1..Len(loads') : loads'[j].seen # None => loads'[j].seen <= version'
  BY <1>1, <1>2, ListFacts
<1>4. NewestInv'
  <2>1. CASE screen.guarded
    <3>1. \A j \in 1..Len(loads) : loads[j].newest => j = Len(loads)
      BY <2>1 DEF ListInv, NewestInv
    <3>2. ASSUME NEW j \in 1..Len(loads'), loads'[j].newest
          PROVE  j = Len(loads')
      <4>1. CASE j < i
        BY <1>1, <1>2, <3>1, <3>2, <4>1, ListFacts
      <4>2. CASE ~(j < i)
        <5>1. j \in 1..(Len(loads) - 1) /\ j + 1 \in 1..Len(loads)
          BY <1>1, <1>2
        <5>2. loads'[j] = loads[j + 1]
          BY <1>1, <4>2, <5>1
        <5>3. j + 1 = Len(loads)
          BY <3>1, <3>2, <5>1, <5>2
        <5>4. QED BY <1>1, <5>1, <5>3, ListFacts
      <4>3. QED BY <4>1, <4>2
    <3>3. QED BY <2>1, <3>2 DEF NewestInv
  <2>2. CASE ~screen.guarded
    BY <1>1, <1>2, <2>2 DEF ListInv, NewestInv
  <2>3. QED BY <2>1, <2>2
<1>5. ASSUME i = Len(loads), i > 1 => screen.guarded
      PROVE  ~Coming'
  <2>1. CASE i = 1
    <3>1. loads' = <<>>
      BY <1>1, <1>5, <2>1
    <3>2. QED BY <3>1 DEF Coming
  <2>2. CASE i > 1
    <3>1. Len(loads') \in 1..Len(loads') /\ Len(loads') < i
      BY <1>1, <1>5, <2>2, ListFacts
    <3>2. loads'[Len(loads')] = loads[Len(loads')] /\ Len(loads') \in 1..Len(loads) /\ Len(loads') # Len(loads)
      BY <1>1, <1>2, <1>5, <3>1
    <3>3. ~loads[Len(loads')].newest
      BY <1>5, <2>2, <3>2 DEF ListInv, NewestInv
    <3>4. QED BY <3>2, <3>3 DEF Coming
  <2>3. QED BY <2>1, <2>2
<1>6. ASSUME i # Len(loads)
      PROVE  loads'[Len(loads')] = loads[Len(loads)] /\ loads' # <<>> /\ loads # <<>>
  <2>1. Len(loads') \in 1..Len(loads') /\ ~(Len(loads') < i) /\ Len(loads') + 1 = Len(loads)
    BY <1>1, <1>6, ListFacts
  <2>2. QED BY <1>1, <2>1
<1>7. i # Len(loads) /\ screen.guarded => ~loads[i].newest
  BY DEF ListInv, NewestInv
<1>8. i = Len(loads) /\ ~loads[i].newest => ~Coming /\ screen.guarded
  BY DEF ListInv, NewestInv, Coming
<1>9. i # Len(loads) => (Coming' <=> Coming) /\ (Coming => loads'[Len(loads')] = loads[Len(loads)])
  BY <1>6 DEF Coming
<1>10. QED BY <1>1, <1>3, <1>4, <1>5, <1>7, <1>8, <1>9

LEMMA AnsweredStep ==
    ASSUME ListInv, NEW i \in 1..Len(loads), List!Answered(i)
    PROVE  ListInv'
<1> DEFINE l == loads[i]
           rows == [text |-> l.want.text, pick |-> l.want.pick, page |-> l.want.page, seen |-> l.seen]
<1>1. /\ l.seen # None /\ loads' = List!RemoveAt(loads, i)
      /\ errors' \in {errors, errors \ {"load"}}
      /\ ~(screen.guarded => l.newest) => table' = table /\ errors' = errors
      /\ (screen.guarded => l.newest) =>
            table' = [p \in Picks |-> IF screen.split => p = l.want.pick THEN rows ELSE table[p]]
      /\ muddled' = (muddled \/ (i > 1 /\ ~screen.guarded))
      /\ UNCHANGED <<screen, want, timer, op, version>>
  BY DEF List!Answered, List!Taken, List!Crosses, List!Filled, List!Rows
<1>2. l \in Loads /\ l.seen \in 0..version /\ l.want \in Wants
  <2>1. l \in Loads /\ l.seen \in 0..version
    BY <1>1, ListFacts
  <2>2. QED BY <2>1 DEF Loads
<1>3. rows \in Shown /\ rows # None /\ rows.seen = l.seen
  <2>1. l.seen \in Nat
    BY <1>2, ListFacts
  <2>2. rows \in Shown
    BY <1>2, <2>1, ListFacts DEF Shown
  <2>3. QED BY <2>2, ListFacts
<1>4. /\ table' \in [Picks -> Shown \cup {None}]
      /\ \A p \in Picks : table'[p] = rows \/ table'[p] = table[p]
  <2>1. CASE screen.guarded => l.newest
    BY <1>1, <1>3, <2>1, ListFacts
  <2>2. CASE ~(screen.guarded => l.newest)
    BY <1>1, <2>2, ListFacts
  <2>3. QED BY <2>1, <2>2
<1>5. ListTypes'
  <2>1. \A p \in Picks : table'[p] # None => table'[p].seen \in 0..version'
    BY <1>1, <1>2, <1>3, <1>4, ListFacts
  <2>2. errors' \subseteq {"load", "action"}
    BY <1>1, ListFacts
  <2>3. QED BY <1>1, <1>4, <2>1, <2>2, OverFacts, ListFacts, ListTyped DEF ListInv, ListTypes
<1>6. NewestInv'
  BY <1>1, OverFacts
<1>7. RowsInv'
  <2>1. SUFFICES ASSUME ~muddled'
                 PROVE  /\ Coming' /\ timer = None /\ Quiet => Fit(loads[Len(loads)])'
                        /\ ~Coming' /\ timer = None /\ "load" \notin errors' /\ Quiet /\ (op = None \/ screen.own)
                              => Right'
    <3>1. Quiet' = Quiet
      BY <1>1 DEF Quiet
    <3>2. muddled' = FALSE => (timer # None => timer = want)
      BY <1>1 DEF ListInv, RowsInv
    <3>3. ~muddled' => (timer # None => timer = want)
      BY <1>1 DEF ListInv, RowsInv
    <3>4. QED BY <1>1, <3>1, <3>3 DEF RowsInv
  <2>2. ~muddled /\ (i > 1 => screen.guarded)
    BY <1>1, <2>1
  <2>3. CASE i = Len(loads) /\ l.newest
    <3>1. ~Coming'
      BY <1>1, <2>2, <2>3, OverFacts
    <3>2. Coming
      BY <2>3, ListFacts DEF Coming
    <3>3. ASSUME timer = None, Quiet
          PROVE  Right'
      <4>1. Fit(l)
        BY <2>2, <2>3, <3>2, <3>3 DEF ListInv, RowsInv
      <4>2. l.want.pick = want.pick /\ l.want.page = want.page /\ l.seen = version
            /\ (l.want.text = want.text \/ screen.search = "enter")
        BY <1>1, <4>1 DEF Fit
      <4>3. table'[want.pick] = rows
        BY <1>1, <2>3, <4>2, ListFacts
      <4>4. want' = want /\ version' = version /\ screen' = screen
        BY <1>1
      <4>5. QED BY <1>3, <4>2, <4>3, <4>4 DEF Right
    <3>4. QED BY <3>1, <3>3
  <2>4. CASE i # Len(loads)
    <3>1. (Coming' <=> Coming) /\ (Coming => loads'[Len(loads')] = loads[Len(loads)])
      BY <1>1, <2>4, OverFacts
    <3>2. ~Coming => screen.guarded
      BY <2>4, ListFacts DEF ListInv, NewestInv, Coming
    <3>3. ~Coming => table' = table /\ errors' = errors
      BY <1>1, <2>4, <3>2, OverFacts
    <3>4. Coming /\ Fit(loads[Len(loads)]) => Fit(loads[Len(loads)])'
      BY <1>1, <3>1 DEF Fit
    <3>5. ~Coming /\ Right => Right'
      BY <1>1, <3>3 DEF Right
    <3>6. QED BY <2>2, <3>1, <3>3, <3>4, <3>5 DEF ListInv, RowsInv
  <2>5. CASE i = Len(loads) /\ ~l.newest
    <3>1. ~Coming /\ screen.guarded /\ ~Coming'
      BY <1>1, <2>2, <2>5, OverFacts
    <3>2. table' = table /\ errors' = errors
      BY <1>1, <2>5, <3>1
    <3>3. Right => Right'
      BY <1>1, <3>2 DEF Right
    <3>4. QED BY <2>2, <3>1, <3>2, <3>3 DEF ListInv, RowsInv
  <2>6. QED BY <2>3, <2>4, <2>5
<1>8. QED BY <1>5, <1>6, <1>7 DEF ListInv

LEMMA FailedStep ==
    ASSUME ListInv, NEW i \in 1..Len(loads), List!Failed(i)
    PROVE  ListInv'
<1>1. /\ loads' = List!RemoveAt(loads, i)
      /\ errors' = IF screen.guarded => loads[i].newest THEN errors \cup {"load"} ELSE errors
      /\ muddled' = (muddled \/ (i > 1 /\ ~screen.guarded))
      /\ UNCHANGED <<screen, want, timer, table, op, version>>
  BY DEF List!Failed, List!Taken, List!Crosses
<1>2. ListTypes'
  <2>1. errors' \subseteq {"load", "action"}
    BY <1>1, ListFacts
  <2>2. QED BY <1>1, <2>1, OverFacts, ListFacts, ListTyped DEF ListInv, ListTypes
<1>3. NewestInv'
  BY <1>1, OverFacts
<1>4. Quiet' = Quiet /\ (Right <=> Right')
  BY <1>1 DEF Quiet, Right
<1>5. ASSUME ~muddled'
      PROVE  /\ ~muddled
             /\ Coming' => Coming /\ loads'[Len(loads')] = loads[Len(loads)]
             /\ ~Coming' /\ "load" \notin errors' => ~Coming /\ "load" \notin errors
  <2>1. ~muddled /\ (i > 1 => screen.guarded)
    BY <1>1, <1>5
  <2>2. CASE i = Len(loads)
    <3>1. ~Coming'
      BY <1>1, <2>1, <2>2, OverFacts
    <3>2. "load" \notin errors' => ~loads[i].newest /\ "load" \notin errors
      BY <1>1
    <3>3. ~loads[i].newest => ~Coming
      BY <1>1, <2>2, OverFacts
    <3>4. QED BY <2>1, <3>1, <3>2, <3>3
  <2>3. CASE i # Len(loads)
    BY <1>1, <2>1, <2>3, OverFacts
  <2>4. QED BY <2>2, <2>3
<1>6. Fit(loads[Len(loads)]) /\ loads'[Len(loads')] = loads[Len(loads)] => Fit(loads[Len(loads)])'
  BY <1>1 DEF Fit
<1>7. RowsInv'
  BY <1>1, <1>4, <1>5, <1>6 DEF ListInv, RowsInv
<1>8. QED BY <1>2, <1>3, <1>7 DEF ListInv

\* A step of an operation that asks for nothing: the lists under way are as they were.
LEMMA OpTyped ==
    ASSUME ListInv, UNCHANGED <<screen, want, timer, loads, table>>,
           version' \in {version, version + 1}, version' \in 0..MaxChanges,
           op' \in Ops \cup {None}, errors' \subseteq {"load", "action"}
    PROVE  /\ ListTypes' /\ NewestInv' /\ (Coming' <=> Coming)
<1>1. version <= version' /\ version' \in Nat /\ version \in Nat
  BY ListFacts
<1>2. \A p \in Picks : table'[p] # None => table'[p].seen \in 0..version'
  BY <1>1, ListFacts
<1>3. \A i \in 1..Len(loads') : loads'[i].seen # None => loads'[i].seen <= version'
  BY <1>1, ListFacts
<1>4. ListTypes'
  BY <1>2, <1>3, ListFacts, ListTyped DEF ListInv, ListTypes
<1>5. NewestInv' /\ (Coming' <=> Coming)
  BY DEF ListInv, NewestInv, Coming
<1>6. QED BY <1>4, <1>5

LEMMA ActStep ==
    ASSUME ListInv, List!Act
    PROVE  ListInv'
<1>1. /\ op = None /\ op' = [step |-> "sent", want |-> want]
      /\ errors' = IF screen.own \/ screen.clears THEN errors \ {IF screen.own THEN "action" ELSE "load"} ELSE errors
      /\ UNCHANGED <<screen, want, timer, loads, table, version, muddled>>
  BY DEF List!Act, List!Channel
<1>2. op' \in Ops /\ op' # None /\ op'.step = "sent"
  <2>1. op' \in Ops /\ op'.step = "sent"
    BY <1>1, ListFacts DEF Ops
  <2>2. QED BY <2>1, ListFacts
<1>3. errors' \subseteq {"load", "action"} /\ (screen.own /\ "load" \notin errors' => "load" \notin errors)
  BY <1>1, ListFacts
<1>4. ListTypes' /\ NewestInv' /\ (Coming' <=> Coming)
  BY <1>1, <1>2, <1>3, ListFacts, OpTyped
<1>5. Quiet
  BY <1>1 DEF Quiet
<1>6. (Right <=> Right') /\ (Fit(loads[Len(loads)]) <=> Fit(loads[Len(loads)])')
  BY <1>1 DEF Right, Fit
<1>7. RowsInv'
  BY <1>1, <1>2, <1>3, <1>4, <1>5, <1>6 DEF ListInv, RowsInv
<1>8. QED BY <1>4, <1>7 DEF ListInv

LEMMA ListEffectStep ==
    ASSUME ListInv, List!Effect
    PROVE  ListInv'
<1>1. /\ op # None /\ version < MaxChanges /\ version' = version + 1 /\ op' = [op EXCEPT !.step = "done"]
      /\ UNCHANGED <<screen, want, timer, loads, table, errors, muddled>>
  BY DEF List!Effect
<1>2. op' \in Ops /\ op' # None /\ op'.step # "sent"
  <2>1. op' \in Ops /\ op'.step = "done"
    BY <1>1, ListFacts DEF Ops
  <2>2. QED BY <2>1, ListFacts
<1>3. version' \in 0..MaxChanges
  BY <1>1, ListFacts
<1>4. ListTypes' /\ NewestInv'
  BY <1>1, <1>2, <1>3, ListFacts, OpTyped
<1>5. ~Quiet'
  BY <1>2 DEF Quiet
<1>6. RowsInv'
  BY <1>1, <1>5 DEF ListInv, RowsInv
<1>7. QED BY <1>4, <1>6 DEF ListInv

LEMMA ActedStep ==
    ASSUME ListInv, List!Acted
    PROVE  ListInv'
<1>1. /\ op # None /\ List!Ask(op.want) /\ errors' \subseteq errors
      /\ muddled' = (muddled \/ (op.want # want /\ timer = None)) /\ op' = None
      /\ UNCHANGED <<screen, want, timer, table, version>>
  BY DEF List!Acted, List!Cleared
<1>2. op.want \in Wants
  BY <1>1, ListFacts
<1>3. ~muddled' => ~muddled /\ (timer' = None => op.want = want')
  BY <1>1
<1>4. QED BY <1>1, <1>2, <1>3, ListFacts, AskStep

LEMMA ActFailedStep ==
    ASSUME ListInv, List!ActFailed
    PROVE  ListInv'
<1>1. /\ op # None /\ errors' = errors \cup {IF screen.own THEN "action" ELSE "load"} /\ op' = None
      /\ muddled' = (muddled \/ (op.step = "done" /\ (loads # <<>> \/ screen.own)))
      /\ UNCHANGED <<screen, want, timer, loads, table, version>>
  BY DEF List!ActFailed, List!Channel
<1>2. errors' \subseteq {"load", "action"}
  BY <1>1, ListFacts
<1>3. ListTypes' /\ NewestInv' /\ (Coming' <=> Coming)
  BY <1>1, <1>2, ListFacts, OpTyped
<1>4. op.step = "sent" \/ op.step = "done"
  BY <1>1, ListFacts
<1>5. (Right <=> Right') /\ (Fit(loads[Len(loads)]) <=> Fit(loads[Len(loads)])')
  BY <1>1 DEF Right, Fit
<1>6. ASSUME ~muddled'
      PROVE  /\ ~muddled
             /\ Coming => Quiet
             /\ "load" \notin errors' => Quiet /\ screen.own /\ "load" \notin errors
  BY <1>1, <1>4, <1>6 DEF Quiet, Coming
<1>7. RowsInv'
  BY <1>1, <1>3, <1>5, <1>6 DEF ListInv, RowsInv
<1>8. QED BY <1>3, <1>7 DEF ListInv

LEMMA ListNext ==
    ASSUME ListInv, [List!Next]_(List!vars)
    PROVE  ListInv'
<1>1. CASE UNCHANGED List!vars
  BY <1>1 DEF List!vars, ListInv, ListTypes, List!TypeOK, NewestInv, RowsInv, Coming, Quiet, Fit, Right
<1>2. DOMAIN loads = 1..Len(loads)
  BY ListFacts
<1>3. QED
  BY <1>1, <1>2, TypedStep, KeyStep, TimerStep, ReloadStep, PickStep, TurnStep, ServedStep, AnsweredStep, FailedStep,
     ActStep, ListEffectStep, ActedStep, ActFailedStep DEF List!Next

LEMMA ListShows == ListInv => List!ShownIsAsked
<1> SUFFICES ASSUME ListInv, List!AtRest, ~muddled PROVE Right
  BY DEF List!ShownIsAsked, Right
<1>1. loads = <<>> /\ timer = None /\ op = None /\ errors = {}
  BY DEF List!AtRest
<1>2. ~Coming /\ Quiet
  BY <1>1 DEF Coming, Quiet
<1>3. QED BY <1>1, <1>2 DEF ListInv, RowsInv

-----------------------------------------------------------------------------
(* The dialogs *)

Features == [first : BOOLEAN, held : BOOLEAN, locked : BOOLEAN, kept : BOOLEAN]

\* Of the features of the kinds the proofs need no more than this.
LEMMA KindsAre ==
    ASSUME NEW k \in Form!Kinds
    PROVE  /\ k \in Features
           /\ k = Form!VanityDialog <=> ~k.first /\ ~k.held
           /\ k.first => ~k.held /\ ~k.kept /\ ~k.locked
<1>1. k \in {Form!Confirm, Form!Submit, Form!VanityDialog, Form!ProductDelete, Form!ProductDialog}
  BY DEF Form!Kinds, Form!SimpleConfirm, Form!NodeDelete, Form!AlertDelete, Form!HostDelete, Form!TeamRemove,
         Form!RoleDelete, Form!BackupConfirm, Form!ScheduleDialog, Form!DatabaseDialogs, Form!ResizeDialog,
         Form!CreateUserDialog, Form!CreditDialog, Form!RefundDialog, Form!CouponDialog, Form!GiftCardDialog,
         Form!AlertDialog, Form!HomepageDialog, Form!IncidentCreateDialog, Form!IncidentUpdateDialog,
         Form!HostDialog, Form!StaffDialog, Form!RoleEditor
<1>2. /\ Form!Confirm \in Features /\ Form!Confirm.first /\ ~Form!Confirm.held
      /\ ~Form!Confirm.kept /\ ~Form!Confirm.locked
  BY DEF Form!Confirm, Features
<1>3. Form!Submit \in Features /\ ~Form!Submit.first /\ Form!Submit.held
  BY DEF Form!Submit, Features
<1>4. Form!VanityDialog \in Features /\ ~Form!VanityDialog.first /\ ~Form!VanityDialog.held
  BY <1>3 DEF Form!VanityDialog, Features
<1>5. Form!ProductDelete \in Features /\ ~Form!ProductDelete.first /\ Form!ProductDelete.held
  BY <1>3 DEF Form!ProductDelete, Features
<1>6. Form!ProductDialog \in Features /\ ~Form!ProductDialog.first /\ Form!ProductDialog.held
  BY <1>3 DEF Form!ProductDialog, Features
<1>7. QED BY <1>1, <1>2, <1>3, <1>4, <1>5, <1>6

LEMMA FormInit == Form!Init => FormInv
<1> SUFFICES ASSUME Form!Init PROVE FormInv
  OBVIOUS
<1>1. /\ kind \in Form!Kinds /\ opened = 0 /\ slot = 0 /\ held = FALSE /\ made = FALSE /\ sent = {} /\ unheard = {}
      /\ effects = [n \in 1..MaxOpened |-> 0]
  BY DEF Form!Init
<1>2. MaxOpened \in Nat /\ MaxMade \in Nat
  BY StartAssumption
<1>3. Form!TypeOK
  <2>1. effects \in [1..MaxOpened -> 0..MaxMade] /\ opened \in 0..MaxOpened /\ slot \in 0..opened
    BY <1>1, <1>2
  <2>2. held \in BOOLEAN /\ made \in BOOLEAN
    BY <1>1
  <2>3. QED BY <1>1, <2>1, <2>2 DEF Form!TypeOK
<1>4. QED BY <1>1, <1>3 DEF FormInv

\* What the steps have in common: a call has the opening it came from, and only one
\* opening is on display.
CallSet == [from : 1..MaxOpened, no : 1..MaxSent, change : BOOLEAN, done : BOOLEAN]

LEMMA FormFacts ==
    ASSUME FormInv
    PROVE  /\ kind \in Form!Kinds /\ kind \in Features /\ opened \in 0..MaxOpened /\ slot \in 0..opened
           /\ held \in BOOLEAN /\ made \in BOOLEAN /\ sent \subseteq CallSet
           /\ effects \in [1..MaxOpened -> 0..MaxMade] /\ unheard \subseteq 1..MaxOpened
           /\ MaxOpened \in Nat /\ MaxMade \in Nat
BY KindsAre, StartAssumption DEF FormInv, Form!TypeOK, CallSet

LEMMA OpenStep ==
    ASSUME FormInv, Form!Open
    PROVE  FormInv'
<1>1. /\ opened < MaxOpened /\ opened' = opened + 1 /\ slot' = opened + 1 /\ held' = FALSE /\ made' = FALSE
      /\ UNCHANGED <<kind, sent, effects, unheard>>
  BY DEF Form!Open
<1>2. opened' \in 1..MaxOpened /\ slot' \in 1..MaxOpened /\ slot' \in 0..opened' /\ opened \in Nat /\ opened <= opened'
  BY <1>1, FormFacts
<1>3. Form!TypeOK'
  <2>1. held' \in BOOLEAN /\ made' \in BOOLEAN
    BY <1>1
  <2>2. QED BY <1>1, <1>2, <2>1, FormFacts DEF Form!TypeOK, CallSet
<1>4. (Form!Calls(slot) = {})' /\ slot' \notin unheard /\ effects[slot'] = 0
  BY <1>1, <1>2 DEF FormInv, Form!Calls
<1>5. \A n \in 1..MaxOpened : n > opened' => n > opened
  BY <1>1, <1>2
<1>6. \A n \in 1..opened' : n \in 1..opened \/ n = slot'
  BY <1>1, <1>2
<1>7. \A n \in 1..opened : n \in 1..opened'
  BY <1>1, <1>2
<1>8. \A c \in sent : c.from # slot'
  BY <1>4, <1>1 DEF Form!Calls
<1>9. QED BY <1>1, <1>2, <1>3, <1>4, <1>5, <1>6, <1>7, <1>8 DEF FormInv

LEMMA ClickStep ==
    ASSUME FormInv, NEW no \in 1..MaxSent, Form!Click(no)
    PROVE  FormInv'
<1> DEFINE c == [from |-> slot, no |-> no, change |-> made, done |-> FALSE]
<1>1. /\ slot # 0 /\ ~held /\ sent' = sent \cup {c}
      /\ slot' = IF kind.first THEN 0 ELSE slot
      /\ held' = (kind.held /\ ~kind.first)
      /\ UNCHANGED <<kind, opened, made, effects, unheard>>
  BY DEF Form!Click
<1>2. slot \in 1..opened /\ slot \in 1..MaxOpened /\ slot' \in 0..opened
  BY <1>1, FormFacts
<1>3. c \in CallSet /\ c.from = slot /\ c.change = made /\ ~c.done
  BY <1>2, FormFacts DEF CallSet
<1> HIDE DEF c
<1>4. sent' \subseteq CallSet /\ held' \in BOOLEAN
  BY <1>1, <1>3, FormFacts DEF Features
<1>5. Form!TypeOK'
  BY <1>1, <1>2, <1>4, FormFacts DEF Form!TypeOK, CallSet
<1>6. \A d \in sent' : d.from \in 1..opened'
  BY <1>1, <1>2, <1>3 DEF FormInv
<1>7. ~kind.held => ~held'
  BY <1>1
<1>8. ASSUME kind # Form!VanityDialog
      PROVE  /\ \A d, e \in sent' : d.from = e.from => d = e
             /\ slot' # 0 => held' /\ slot' = slot /\ c \in Form!Calls(slot)'
             /\ \A d \in sent' : ~d.done /\ ~d.change /\ d.from \notin unheard => effects[d.from] = 0
             /\ \A d \in sent' : d.change /\ d.from = slot => made
  <2>1. Form!Calls(slot) = {}
    BY <1>1, <1>8 DEF FormInv
  <2>2. \A d \in sent : d.from # slot
    BY <2>1 DEF Form!Calls
  <2>3. kind.first \/ kind.held
    BY <1>8, KindsAre, FormFacts
  <2>4. ~made /\ slot \notin unheard => effects[slot] = 0
    BY <1>1, <1>8, <2>1 DEF FormInv
  <2>5. \A d, e \in sent' : d.from = e.from => d = e
    BY <1>1, <1>3, <1>8, <2>2 DEF FormInv
  <2>6. slot' # 0 => held' /\ slot' = slot /\ c \in Form!Calls(slot)'
    BY <1>1, <1>3, <2>3 DEF Form!Calls
  <2>7. \A d \in sent' : ~d.done /\ ~d.change /\ d.from \notin unheard => effects[d.from] = 0
    BY <1>1, <1>3, <1>8, <2>4 DEF FormInv
  <2>8. \A d \in sent' : d.change /\ d.from = slot => made
    BY <1>1, <1>3, <2>2
  <2>9. QED BY <2>5, <2>6, <2>7, <2>8
<1>9. QED BY <1>1, <1>2, <1>5, <1>6, <1>7, <1>8 DEF FormInv

LEMMA EffectStep ==
    ASSUME FormInv, NEW c \in sent, Form!Effect(c)
    PROVE  FormInv'
<1> DEFINE e == [c EXCEPT !.done = TRUE]
<1>1. /\ ~c.done /\ effects[c.from] < MaxMade
      /\ sent' = (sent \ {c}) \cup {e}
      /\ effects' = IF c.change THEN effects ELSE [effects EXCEPT ![c.from] = @ + 1]
      /\ UNCHANGED <<kind, opened, slot, held, made, unheard>>
  BY DEF Form!Effect
<1>2. c \in CallSet /\ c.from \in 1..opened /\ c.from \in 1..MaxOpened /\ effects[c.from] \in 0..MaxMade
  BY FormFacts DEF FormInv, CallSet
<1>3. e \in CallSet /\ e.from = c.from /\ e.change = c.change /\ e.done
  BY <1>2 DEF CallSet
<1> HIDE DEF e
<1>4. effects' \in [1..MaxOpened -> 0..MaxMade] /\ \A n \in 1..MaxOpened : n # c.from => effects'[n] = effects[n]
  <2>1. effects[c.from] + 1 \in 0..MaxMade
    BY <1>1, <1>2, FormFacts
  <2>2. QED BY <1>1, <2>1, FormFacts
<1>5. Form!TypeOK'
  BY <1>1, <1>2, <1>3, <1>4, FormFacts DEF Form!TypeOK, CallSet
<1>6. \A d \in sent' : d.from \in 1..opened'
  BY <1>1, <1>2, <1>3 DEF FormInv
<1>7. \A n \in 1..MaxOpened : n > opened' => effects'[n] = 0
  BY <1>1, <1>2, <1>4, FormFacts DEF FormInv
<1>8. ASSUME kind # Form!VanityDialog
      PROVE  /\ \A d, f \in sent' : d.from = f.from => d = f
             /\ Form!Calls(slot)' # {} <=> Form!Calls(slot) # {}
             /\ \A n \in 1..opened : n \notin unheard => effects'[n] <= 1
             /\ \A d \in sent' : ~d.done /\ ~d.change /\ d.from \notin unheard => effects'[d.from] = 0
             /\ \A d \in sent' : d.change /\ d.from = slot => made
             /\ c.from # slot => effects'[slot] = effects[slot] \/ slot = 0
  <2>1. \A d \in sent : d.from = c.from => d = c
    BY <1>8 DEF FormInv
  <2>2. \A d, f \in sent' : d.from = f.from => d = f
    BY <1>1, <1>3, <1>8, <2>1 DEF FormInv
  <2>3. Form!Calls(slot)' # {} <=> Form!Calls(slot) # {}
    BY <1>1, <1>3 DEF Form!Calls
  <2>4. \A n \in 1..opened : n \notin unheard => effects'[n] <= 1
    <3>1. c.from \notin unheard => effects'[c.from] <= 1
      <4>1. CASE c.change
        BY <1>1, <1>2, <1>8, <4>1 DEF FormInv
      <4>2. CASE ~c.change /\ c.from \notin unheard
        <5>1. effects[c.from] = 0
          BY <1>1, <1>8, <4>2 DEF FormInv
        <5>2. effects'[c.from] = 1
          BY <1>1, <1>2, <4>2, <5>1, FormFacts
        <5>3. QED BY <5>2
      <4>3. QED BY <4>1, <4>2
    <3>2. \A n \in 1..opened : n \in 1..MaxOpened
      BY FormFacts
    <3>3. QED BY <1>4, <1>8, <3>1, <3>2 DEF FormInv
  <2>5. \A d \in sent' : ~d.done /\ ~d.change /\ d.from \notin unheard => effects'[d.from] = 0
    <3>1. ASSUME NEW d \in sent', ~d.done, ~d.change, d.from \notin unheard
          PROVE  effects'[d.from] = 0
      <4>1. d \in sent /\ d # c
        BY <1>1, <1>3, <3>1
      <4>2. d.from # c.from /\ d.from \in 1..MaxOpened
        BY <2>1, <4>1, FormFacts DEF CallSet
      <4>3. QED BY <1>4, <1>8, <3>1, <4>1, <4>2 DEF FormInv
    <3>2. QED BY <3>1
  <2>6. \A d \in sent' : d.change /\ d.from = slot => made
    BY <1>1, <1>3, <1>8 DEF FormInv
  <2>7. c.from # slot => effects'[slot] = effects[slot] \/ slot = 0
    BY <1>4, FormFacts
  <2>8. QED BY <2>2, <2>3, <2>4, <2>5, <2>6, <2>7
<1>9. c.from = slot => Form!Calls(slot)' # {}
  BY <1>1, <1>3 DEF Form!Calls
<1>10. QED BY <1>1, <1>2, <1>5, <1>6, <1>7, <1>8, <1>9 DEF FormInv

\* An answer takes its call away; what remains is of the others.
LEMMA AnswerLeaves ==
    ASSUME FormInv, NEW c \in sent, sent' = sent \ {c}, kind # Form!VanityDialog, slot' = slot
    PROVE  /\ c.from # slot => (Form!Calls(slot)' = Form!Calls(slot))
           /\ c.from = slot => (Form!Calls(slot)' = {}) /\ Form!Calls(slot) # {}
           /\ \A d, e \in sent' : d.from = e.from => d = e
BY DEF FormInv, Form!Calls

LEMMA AcceptedStep ==
    ASSUME FormInv, NEW c \in sent, Form!Accepted(c)
    PROVE  FormInv'
<1>1. /\ c.done /\ sent' = sent \ {c}
      /\ slot' = IF kind.first \/ kind.kept THEN slot ELSE 0
      /\ UNCHANGED <<kind, opened, effects, unheard>>
  BY DEF Form!Accepted
<1>2. \/ kind.kept /\ c.from = slot /\ held' = FALSE /\ made' = TRUE
      \/ ~(kind.kept /\ c.from = slot) /\ UNCHANGED <<held, made>>
  BY DEF Form!Accepted
<1>3. Form!TypeOK'
  <2>1. held' \in BOOLEAN /\ made' \in BOOLEAN
    BY <1>2, FormFacts
  <2>2. slot' \in 0..opened' /\ sent' \subseteq CallSet
    BY <1>1, FormFacts
  <2>3. QED BY <1>1, <2>1, <2>2, FormFacts DEF Form!TypeOK, CallSet
<1>4. ASSUME kind # Form!VanityDialog, slot' # 0, slot' = slot
      PROVE  /\ held' <=> Form!Calls(slot)' # {}
             /\ \A d \in sent' : d.change /\ d.from = slot => made'
             /\ ~made' /\ slot \notin unheard /\ Form!Calls(slot)' = {} => effects[slot] = 0
  <2>1. CASE c.from = slot
    <3>1. held
      BY <1>4, <2>1, AnswerLeaves, <1>1 DEF FormInv
    <3>2. ~kind.first
      BY <3>1, KindsAre, FormFacts DEF FormInv
    <3>3. kind.kept
      BY <1>1, <1>4, <3>2
    <3>4. held' = FALSE /\ made' = TRUE
      BY <1>2, <2>1, <3>3
    <3>5. Form!Calls(slot)' = {}
      BY <1>1, <1>4, <2>1, AnswerLeaves
    <3>6. QED BY <3>4, <3>5
  <2>2. CASE c.from # slot
    <3>1. held' = held /\ made' = made /\ Form!Calls(slot)' = Form!Calls(slot)
      BY <1>1, <1>2, <1>4, <2>2, AnswerLeaves
    <3>2. QED BY <1>1, <1>4, <3>1 DEF FormInv
  <2>3. QED BY <2>1, <2>2
<1>5. ASSUME kind # Form!VanityDialog
      PROVE  \A d, e \in sent' : d.from = e.from => d = e
  BY <1>1, <1>5 DEF FormInv
<1>6. ASSUME ~kind.held PROVE ~held'
  BY <1>2, <1>6 DEF FormInv
<1>7. slot' = slot \/ slot' = 0
  BY <1>1
<1>8. ASSUME kind # Form!VanityDialog, slot' = 0
      PROVE  \A d \in sent' : d.from # slot'
  BY <1>1, <1>8, FormFacts DEF FormInv
<1>9. QED BY <1>1, <1>3, <1>4, <1>5, <1>6, <1>7, <1>8 DEF FormInv

LEMMA RefusedStep ==
    ASSUME FormInv, NEW c \in sent, Form!Refused(c)
    PROVE  FormInv'
<1>1. /\ sent' = sent \ {c} /\ held' = (held /\ c.from # slot)
      /\ slot' = IF kind.locked THEN 0 ELSE slot
      /\ unheard' = IF c.done THEN unheard \cup {c.from} ELSE unheard
      /\ UNCHANGED <<kind, opened, made, effects>>
  BY DEF Form!Refused
<1>2. c \in CallSet /\ c.from \in 1..opened /\ c.from \in 1..MaxOpened
  BY FormFacts DEF FormInv, CallSet
<1>3. Form!TypeOK'
  <2>1. held' \in BOOLEAN
    BY <1>1
  <2>2. slot' \in 0..opened' /\ sent' \subseteq CallSet /\ unheard' \subseteq 1..MaxOpened
    BY <1>1, <1>2, FormFacts
  <2>3. QED BY <1>1, <2>1, <2>2, FormFacts DEF Form!TypeOK, CallSet
<1>4. unheard' \subseteq 1..opened /\ unheard \subseteq unheard'
  BY <1>1, <1>2 DEF FormInv
<1>5. ASSUME kind # Form!VanityDialog, slot' # 0, slot' = slot
      PROVE  /\ held' <=> Form!Calls(slot)' # {}
             /\ ~made /\ slot \notin unheard' /\ Form!Calls(slot)' = {} => effects[slot] = 0
  <2>1. CASE c.from = slot
    <3>1. Form!Calls(slot)' = {} /\ ~held'
      BY <1>1, <1>5, <2>1, AnswerLeaves
    <3>2. ASSUME ~made, slot \notin unheard'
          PROVE  effects[slot] = 0
      <4>1. ~c.done /\ c.from \notin unheard
        BY <1>1, <2>1, <3>2
      <4>2. ~c.change
        BY <1>5, <2>1, <3>2 DEF FormInv
      <4>3. QED BY <1>5, <2>1, <4>1, <4>2 DEF FormInv
    <3>3. QED BY <3>1, <3>2
  <2>2. CASE c.from # slot
    <3>1. (held' <=> held) /\ Form!Calls(slot)' = Form!Calls(slot)
      BY <1>1, <1>5, <2>2, AnswerLeaves
    <3>2. QED BY <1>4, <1>5, <3>1 DEF FormInv
  <2>3. QED BY <2>1, <2>2
<1>6. ASSUME kind # Form!VanityDialog
      PROVE  /\ \A d, e \in sent' : d.from = e.from => d = e
             /\ \A n \in 1..opened : n \notin unheard' => effects[n] <= 1
             /\ \A d \in sent' : ~d.done /\ ~d.change /\ d.from \notin unheard' => effects[d.from] = 0
             /\ \A d \in sent' : d.change /\ d.from = slot' => made
  <2>1. \A d \in sent' : d.from # 0
    BY <1>1, FormFacts DEF FormInv
  <2>2. QED BY <1>1, <1>4, <1>6, <2>1 DEF FormInv
<1>7. ASSUME ~kind.held PROVE ~held'
  BY <1>1, <1>7 DEF FormInv
<1>8. slot' = slot \/ slot' = 0
  BY <1>1
<1>9. QED BY <1>1, <1>3, <1>4, <1>5, <1>6, <1>7, <1>8 DEF FormInv

LEMMA FormNext ==
    ASSUME FormInv, [Form!Next]_(Form!vars)
    PROVE  FormInv'
<1>1. CASE Form!Dismiss
  <2>1. slot' = 0 /\ UNCHANGED <<kind, opened, held, made, sent, effects, unheard>>
    BY <1>1 DEF Form!Dismiss
  <2>2. \A c \in sent : c.from # 0
    BY FormFacts DEF FormInv
  <2>3. Form!TypeOK'
    BY <2>1, FormFacts DEF Form!TypeOK, CallSet
  <2>4. QED BY <2>1, <2>2, <2>3 DEF FormInv
<1>2. CASE UNCHANGED Form!vars
  BY <1>2 DEF Form!vars, FormInv, Form!TypeOK, Form!Calls
<1>3. QED BY <1>1, <1>2, OpenStep, ClickStep, EffectStep, AcceptedStep, RefusedStep DEF Form!Next

LEMMA MakesOnce == FormInv => Form!MadeOnce
BY KindsAre DEF FormInv, Form!MadeOnce, Form!TypeOK

-----------------------------------------------------------------------------
(* The cards *)

CardFeatures == [fills : {"empty", "get", "answer", "nothing"}, blind : BOOLEAN, held : BOOLEAN, swallows : BOOLEAN]
CardCalls == [op : {"load", "reload", "save"}, text : 0..(MaxTexts + 3), rest : 0..1, done : BOOLEAN]

LEMMA CardsAre == Card!Cards \subseteq CardFeatures
<1>1. Card!Card \in CardFeatures
  BY DEF Card!Card, CardFeatures
<1>2. QED
  BY <1>1 DEF Card!Cards, Card!EmailCard, Card!SteamCard, Card!VanityCard, Card!ReferralsCard, Card!VariableRow,
              Card!SlotConfig, Card!TicketThread, Card!TierEditor, Card!PriceEditor, Card!AddLocation, CardFeatures

LEMMA CardFacts ==
    ASSUME CardInv
    PROVE  /\ card \in Card!Cards /\ card.fills \in {"empty", "get", "answer", "nothing"}
           /\ card.held \in BOOLEAN
           /\ MaxTexts + 3 \in Nat
           /\ text \in 0..(MaxTexts + 3) /\ rest \in 0..1 /\ kept \in 0..(MaxTexts + 3) /\ keptRest \in 0..1
           /\ keys \in 0..(MaxTexts + 3) /\ draft \in (1..(MaxTexts + 3)) \cup {None}
           /\ loaded \in BOOLEAN /\ saving \in BOOLEAN /\ problem \in BOOLEAN /\ mixed \in BOOLEAN /\ blindly \in BOOLEAN
           /\ calls \subseteq CardCalls
<1>1. MaxTexts \in Nat
  BY StartAssumption
<1>2. card \in CardFeatures
  BY CardsAre DEF CardInv, Card!TypeOK
<1>3. QED BY <1>1, <1>2 DEF CardInv, Card!TypeOK, CardFeatures, CardCalls

\* What the types of a step come down to.
LEMMA CardTyped ==
    ASSUME CardInv, card' = card,
           text' \in 0..(MaxTexts + 3), rest' \in 0..1, kept' \in 0..(MaxTexts + 3), keptRest' \in 0..1,
           keys' \in 0..(MaxTexts + 3), draft' \in (1..(MaxTexts + 3)) \cup {None},
           loaded' \in BOOLEAN, saving' \in BOOLEAN, problem' \in BOOLEAN, mixed' \in BOOLEAN, blindly' \in BOOLEAN,
           calls' \subseteq CardCalls
    PROVE  Card!TypeOK' /\ {rest', keptRest'} \subseteq {0, 1}
<1>1. MaxTexts \in Nat
  BY StartAssumption
<1>2. rest' \in {0, 1} /\ keptRest' \in {0, 1}
  OBVIOUS
<1>3. {text', rest', kept', keptRest', keys'} \subseteq 0..(MaxTexts + 3)
  BY <1>1, <1>2
<1>4. QED BY <1>2, <1>3, CardFacts DEF Card!TypeOK, CardCalls

LEMMA CardInit == Card!Init => CardInv
<1> SUFFICES ASSUME Card!Init PROVE CardInv
  OBVIOUS
<1>0. MaxTexts \in Nat
  BY StartAssumption
<1>1. 1 \in 0..(MaxTexts + 3) /\ 0 \in 0..(MaxTexts + 3) /\ 1 \in 1..(MaxTexts + 3)
  BY <1>0
<1>2. /\ card \in Card!Cards /\ text = 0 /\ rest = 0 /\ saving = FALSE /\ problem = FALSE /\ keptRest = 1
      /\ keys = 1 /\ draft = None /\ mixed = FALSE /\ blindly = FALSE
      /\ loaded = ~Card!Fetches /\ kept \in {0, 1}
      /\ calls = IF Card!Fetches THEN {Card!Ask("load")} ELSE {}
  BY DEF Card!Init
<1>3. Card!Ask("load") \in CardCalls /\ Card!Ask("load").op # "save" /\ ~Card!Ask("load").done
  BY <1>1 DEF Card!Ask, CardCalls
<1>4. loaded \in BOOLEAN /\ saving \in BOOLEAN /\ problem \in BOOLEAN /\ mixed \in BOOLEAN /\ blindly \in BOOLEAN
  BY <1>2
<1>5. Card!TypeOK
  BY <1>1, <1>2, <1>3, <1>4 DEF Card!TypeOK, CardCalls
<1>6. QED BY <1>2, <1>3, <1>5 DEF CardInv

LEMMA TypeStep ==
    ASSUME CardInv, Card!Type
    PROVE  CardInv'
<1>1. /\ keys < MaxTexts + 3 /\ keys' = keys + 1 /\ text' = keys + 1 /\ draft' = keys + 1
      /\ mixed' = (mixed \/ calls # {})
      /\ UNCHANGED <<card, rest, loaded, saving, problem, calls, kept, keptRest, blindly>>
  BY DEF Card!Type
<1>2. keys' \in 1..(MaxTexts + 3) /\ mixed' \in BOOLEAN /\ draft' # None
  BY <1>1, CardFacts, NothingAssumption
<1>3. Card!TypeOK' /\ {rest', keptRest'} \subseteq {0, 1}
  BY <1>1, <1>2, CardFacts, CardTyped
<1>4. Card!Fetches' = Card!Fetches
  BY <1>1 DEF Card!Fetches
<1>5. QED BY <1>1, <1>2, <1>3, <1>4 DEF CardInv

LEMMA CardSaveStep ==
    ASSUME CardInv, Card!Save
    PROVE  CardInv'
<1> DEFINE c == [op |-> "save", text |-> text, rest |-> rest, done |-> FALSE]
<1>1. /\ saving' = card.held /\ problem' = FALSE /\ calls' = calls \cup {c}
      /\ mixed' = (mixed \/ calls # {}) /\ blindly' = (blindly \/ ~loaded)
      /\ UNCHANGED <<card, text, rest, loaded, kept, keptRest, keys, draft>>
  BY DEF Card!Save
<1>2. c \in CardCalls /\ c.op = "save" /\ c.rest = rest /\ ~c.done
  BY CardFacts DEF CardCalls
<1> HIDE DEF c
<1>3. saving' \in BOOLEAN /\ problem' \in BOOLEAN /\ mixed' \in BOOLEAN /\ blindly' \in BOOLEAN
  BY <1>1, CardFacts
<1>4. Card!TypeOK' /\ {rest', keptRest'} \subseteq {0, 1}
  BY <1>1, <1>2, <1>3, CardFacts, CardTyped
<1>5. Card!Fetches' = Card!Fetches
  BY <1>1 DEF Card!Fetches
<1>6. QED BY <1>1, <1>2, <1>4, <1>5 DEF CardInv

LEMMA CardServeStep ==
    ASSUME CardInv, NEW c \in calls, Card!Serve(c)
    PROVE  CardInv'
<1> DEFINE e == [op |-> c.op, text |-> kept, rest |-> keptRest, done |-> TRUE]
<1>1. /\ ~c.done /\ c.op \in {"load", "reload"} /\ calls' = (calls \ {c}) \cup {e}
      /\ UNCHANGED <<card, text, rest, loaded, saving, problem, kept, keptRest, keys, draft, mixed, blindly>>
  BY DEF Card!Serve, Card!Gets
<1>2. e \in CardCalls /\ e.op = c.op /\ e.rest = keptRest /\ e.text = kept /\ e.done
  BY <1>1, CardFacts DEF CardCalls
<1> HIDE DEF e
<1>3. Card!TypeOK' /\ {rest', keptRest'} \subseteq {0, 1}
  BY <1>1, <1>2, CardFacts, CardTyped
<1>4. Card!Fetches' = Card!Fetches
  BY <1>1 DEF Card!Fetches
<1>5. QED BY <1>1, <1>2, <1>3, <1>4 DEF CardInv

LEMMA TakeStep ==
    ASSUME CardInv, NEW c \in calls, Card!Take(c)
    PROVE  CardInv'
<1> DEFINE e == [c EXCEPT !.done = TRUE]
<1>1. /\ ~c.done /\ c.op = "save" /\ calls' = (calls \ {c}) \cup {e}
      /\ kept' = IF c.text = 0 /\ card.fills = "get" THEN kept ELSE c.text
      /\ keptRest' = IF Card!Fetches /\ (c.rest # 0 \/ card.blind) THEN c.rest ELSE keptRest
      /\ UNCHANGED <<card, text, rest, loaded, saving, problem, keys, draft, mixed, blindly>>
  BY DEF Card!Take
<1>2. c \in CardCalls
  BY CardFacts
<1>3. e \in CardCalls /\ e.op = "save" /\ e.rest = c.rest /\ e.text = c.text /\ e.done
  BY <1>1, <1>2 DEF CardCalls
<1> HIDE DEF e
<1>4. kept' \in 0..(MaxTexts + 3) /\ keptRest' \in 0..1
  BY <1>1, <1>2, CardFacts DEF CardCalls
<1>5. Card!TypeOK' /\ {rest', keptRest'} \subseteq {0, 1}
  BY <1>1, <1>3, <1>4, CardFacts, CardTyped
<1>6. Card!Fetches' = Card!Fetches
  BY <1>1 DEF Card!Fetches
<1>7. ~blindly => keptRest' = 1 /\ (Card!Fetches => c.rest = 1)
  BY <1>1 DEF CardInv
<1>8. ASSUME ~mixed
      PROVE  calls' = {e} /\ (card.fills = "answer" => e.text = kept')
  BY <1>1, <1>3, <1>8 DEF CardInv
<1>9. ~mixed => (\A d, f \in calls' : d = f) /\ (\A d \in calls' : card.fills = "answer" => d.text = kept') /\ calls' # {}
  BY <1>8
<1>10. \A d \in calls' : d.op = "save" => d.rest = c.rest \/ d \in calls
  BY <1>1, <1>3
<1>11. ~blindly /\ Card!Fetches => \A d \in calls' : d.op = "save" \/ d.done => d.rest = 1
  BY <1>1, <1>3, <1>7 DEF CardInv
<1>12. \A d \in calls' : ~mixed => d.op = "save"
  BY <1>3, <1>8
<1>13. QED BY <1>1, <1>5, <1>6, <1>7, <1>9, <1>11, <1>12 DEF CardInv

LEMMA GotStep ==
    ASSUME CardInv, NEW c \in calls, Card!Got(c)
    PROVE  CardInv'
<1>1. /\ c.op # "save" /\ c.done /\ calls' = calls \ {c}
      /\ text' = c.text /\ rest' = c.rest /\ loaded' = TRUE /\ draft' = None
      /\ saving' = (saving /\ c.op = "load") /\ problem' = FALSE
      /\ UNCHANGED <<card, kept, keptRest, keys, mixed, blindly>>
  BY DEF Card!Got, Card!Fill, Card!Gets
<1>2. c \in CardCalls /\ c.text \in 0..(MaxTexts + 3) /\ c.rest \in 0..1
  BY CardFacts DEF CardCalls
<1>3. saving' \in BOOLEAN /\ problem' \in BOOLEAN /\ loaded' \in BOOLEAN
  BY <1>1, CardFacts
<1>4. Card!TypeOK' /\ {rest', keptRest'} \subseteq {0, 1}
  BY <1>1, <1>2, <1>3, CardFacts, CardTyped
<1>5. Card!Fetches' = Card!Fetches
  BY <1>1 DEF Card!Fetches
<1>6. QED BY <1>1, <1>4, <1>5 DEF CardInv

LEMMA CardSavedStep ==
    ASSUME CardInv, NEW c \in calls, Card!Saved(c)
    PROVE  CardInv'
<1>1. /\ c.op = "save" /\ c.done /\ saving' = (saving /\ card.fills = "get")
      /\ UNCHANGED <<card, problem, kept, keptRest, keys, mixed, blindly>>
      /\ calls' = (calls \ {c}) \cup (IF card.fills = "get" THEN {Card!Ask("reload")} ELSE {})
  BY DEF Card!Saved
<1>2. /\ card.fills = "answer" => text' = c.text /\ rest' = c.rest /\ loaded' = TRUE /\ draft' = None
      /\ card.fills = "empty" => text' = 0 /\ draft' = None /\ UNCHANGED <<rest, loaded>>
      /\ card.fills = "get" => UNCHANGED <<text, rest, loaded, draft>>
      /\ card.fills = "nothing" => draft' = None /\ UNCHANGED <<text, rest, loaded>>
  BY CardFacts DEF Card!Saved, Card!Fill
<1>3. c \in CardCalls /\ c.text \in 0..(MaxTexts + 3) /\ c.rest \in 0..1 /\ 0 \in 0..(MaxTexts + 3)
  BY CardFacts DEF CardCalls
<1>4. Card!Ask("reload") \in CardCalls /\ Card!Ask("reload").op = "reload" /\ ~Card!Ask("reload").done
  BY <1>3 DEF Card!Ask, CardCalls
<1>5. saving' \in BOOLEAN /\ problem' \in BOOLEAN /\ loaded' \in BOOLEAN
  BY <1>1, <1>2, CardFacts
<1>6. calls' \subseteq CardCalls
  BY <1>1, <1>4, CardFacts
<1>7. text' \in 0..(MaxTexts + 3) /\ rest' \in 0..1 /\ draft' \in (1..(MaxTexts + 3)) \cup {None}
  BY <1>2, <1>3, CardFacts
<1>8. Card!TypeOK' /\ {rest', keptRest'} \subseteq {0, 1}
  BY <1>1, <1>5, <1>6, <1>7, CardFacts, CardTyped
<1>9. (Card!Fetches' <=> Card!Fetches) /\ (Card!Fetches <=> card.fills \in {"get", "answer"})
  BY <1>1 DEF Card!Fetches
<1>10. draft' # None /\ ~card.swallows => text' = draft'
  BY <1>2, CardFacts DEF CardInv
<1>11. ASSUME ~blindly, Card!Fetches
       PROVE  /\ loaded' => rest' = 1
              /\ \A d \in calls' : d.op = "save" \/ d.done => d.rest = 1
  <2>1. c.rest = 1 /\ (loaded => rest = 1) /\ \A d \in calls : d.op = "save" \/ d.done => d.rest = 1
    BY <1>1, <1>11 DEF CardInv
  <2>2. QED BY <1>1, <1>2, <1>4, <1>9, <1>11, <2>1
<1>12. ASSUME ~mixed
       PROVE  /\ \A d, e \in calls' : d = e
              /\ \A d \in calls' : ~d.done
              /\ Card!Fetches /\ calls' = {} => text' = kept
  <2>1. calls = {c} /\ (card.fills = "answer" => c.text = kept)
    BY <1>1, <1>9, <1>12 DEF CardInv
  <2>2. calls' = IF card.fills = "get" THEN {Card!Ask("reload")} ELSE {}
    BY <1>1, <2>1
  <2>3. QED BY <1>2, <1>4, <1>9, <2>1, <2>2
<1>13. QED BY <1>1, <1>8, <1>9, <1>10, <1>11, <1>12 DEF CardInv

LEMMA CardFailedStep ==
    ASSUME CardInv, NEW c \in calls, Card!Failed(c)
    PROVE  CardInv'
<1>1. /\ calls' = calls \ {c} /\ problem' = TRUE /\ saving' = (saving /\ c.op = "load")
      /\ text' = IF card.swallows THEN 0 ELSE text
      /\ UNCHANGED <<card, rest, loaded, kept, keptRest, keys, draft, mixed, blindly>>
  BY DEF Card!Failed
<1>2. saving' \in BOOLEAN /\ problem' \in BOOLEAN /\ text' \in 0..(MaxTexts + 3)
  BY <1>1, CardFacts
<1>3. Card!TypeOK' /\ {rest', keptRest'} \subseteq {0, 1}
  BY <1>1, <1>2, CardFacts, CardTyped
<1>4. Card!Fetches' = Card!Fetches
  BY <1>1 DEF Card!Fetches
<1>5. QED BY <1>1, <1>3, <1>4 DEF CardInv

LEMMA CardNext ==
    ASSUME CardInv, [Card!Next]_(Card!vars)
    PROVE  CardInv'
<1>1. CASE UNCHANGED Card!vars
  BY <1>1 DEF Card!vars, CardInv, Card!TypeOK, Card!Fetches
<1>2. QED
  BY <1>1, TypeStep, CardSaveStep, CardServeStep, TakeStep, GotStep, CardSavedStep, CardFailedStep DEF Card!Next

LEMMA CardKeeps == CardInv => Card!DraftKept /\ Card!CardIsTrue
BY DEF CardInv, Card!DraftKept, Card!CardIsTrue

-----------------------------------------------------------------------------
(* The files tab *)

LEMMA TabFacts ==
    ASSUME TabInv
    PROVE  /\ path \in Folders /\ listing \in Folders \cup {None} /\ editing \in Files \cup {None}
           /\ asked \subseteq Tab!Request /\ disk \in [Files -> 0..MaxTexts]
           /\ initial \in 0..MaxTexts /\ buffer \in 0..MaxTexts /\ baseline \in 0..MaxTexts
           /\ newest \in {"asked", "shown", "failed", "hushed"}
           /\ loading \in BOOLEAN /\ error \in BOOLEAN /\ working \in BOOLEAN
           /\ dirty \in BOOLEAN /\ astray \in BOOLEAN /\ crossed \in BOOLEAN
           /\ None \notin Folders /\ None \notin Files /\ MaxTexts \in Nat /\ 0 \in 0..MaxTexts
<1>1. MaxTexts \in Nat
  BY StartAssumption
<1>2. None \notin Folders /\ None \notin Files
  BY NothingAssumption
<1>3. newest \in {"asked", "shown", "failed", "hushed"} /\ 0 \in 0..MaxTexts
  BY <1>1 DEF TabInv, Tab!TypeOK
<1>4. QED BY <1>1, <1>2, <1>3 DEF TabInv, Tab!TypeOK

LEMMA AskTyped ==
    ASSUME MaxTexts \in Nat, NEW k \in {"list", "relist", "change", "read", "save"}, NEW d \in Folders \cup Files
    PROVE  /\ Tab!Ask(k, d) \in Tab!Request /\ Tab!Ask(k, d).kind = k /\ Tab!Ask(k, d).at = d
           /\ Tab!Ask(k, d).newest <=> k \in {"list", "relist"}
<1> DEFINE b == k \in {"list", "relist"}
<1>1. b \in BOOLEAN
  OBVIOUS
<1>2. Tab!Ask(k, d) = [kind |-> k, at |-> d, text |-> 0, newest |-> b]
  BY DEF Tab!Ask
<1>3. (b <=> k \in {"list", "relist"}) /\ 0 \in 0..MaxTexts
  OBVIOUS
<1> HIDE DEF b
<1>4. QED BY <1>1, <1>2, <1>3 DEF Tab!Request

LEMMA TabInit == Tab!Init => TabInv
<1> SUFFICES ASSUME Tab!Init PROVE TabInv
  OBVIOUS
<1>0. MaxTexts \in Nat /\ Root \in Folders
  BY StartAssumption
<1>1. MaxTexts \in Nat /\ 0 \in 0..MaxTexts /\ Root \in Folders
  BY <1>0
<1>2. loading \in BOOLEAN /\ error \in BOOLEAN /\ working \in BOOLEAN
  BY DEF Tab!Init
<1>3. dirty \in BOOLEAN /\ astray \in BOOLEAN /\ crossed \in BOOLEAN
  BY DEF Tab!Init
<1>4. /\ Tab!Ask("list", Root) \in Tab!Request /\ Tab!Ask("list", Root).kind = "list"
      /\ Tab!Ask("list", Root).at = Root
  BY <1>1, AskTyped
<1>5. asked \subseteq Tab!Request /\ \A r \in asked : r.kind = "list" /\ r.at = Root
  BY <1>4 DEF Tab!Init
<1>6. /\ path = Root /\ listing = None /\ newest = "asked" /\ editing = None
      /\ initial = 0 /\ buffer = 0 /\ baseline = 0
  BY DEF Tab!Init
<1>7. disk \in [Files -> 0..MaxTexts]
  BY <1>1 DEF Tab!Init
<1>8. Tab!TypeOK
  BY <1>1, <1>2, <1>3, <1>5, <1>6, <1>7 DEF Tab!TypeOK
<1>9. QED BY <1>1, <1>5, <1>6, <1>8 DEF TabInv, Tab!RightFolder

\* A listing that is asked for is the newest; the calls under way stay what they are.
LEMMA LoadStep ==
    ASSUME TabInv, NEW kind1 \in {"list", "relist"}, NEW d \in Folders, NEW others, others \subseteq asked,
           Tab!Load(kind1, d, others), path' \in Folders,
           UNCHANGED <<listing, working, disk, crossed>>, UNCHANGED Tab!editor
    PROVE  TabInv'
<1> DEFINE Older == {[r EXCEPT !.newest = FALSE] : r \in others}
           new == Tab!Ask(kind1, d)
<1>1. /\ asked' = Older \cup {new} /\ loading' = TRUE /\ error' = FALSE /\ astray' = (d # path')
      /\ newest' = "asked" /\ UNCHANGED <<editing, initial, buffer, baseline, dirty>>
  BY DEF Tab!Load, Tab!editor
<1>2. new \in Tab!Request /\ new.kind = kind1 /\ new.at = d
  BY AskTyped, TabFacts
<1>3. \A s \in Older : \E r \in asked : /\ s \in Tab!Request /\ s.newest = FALSE
                                        /\ s.kind = r.kind /\ s.at = r.at /\ s.text = r.text
  <2>1. ASSUME NEW s \in Older
        PROVE  \E r \in asked : /\ s \in Tab!Request /\ s.newest = FALSE
                               /\ s.kind = r.kind /\ s.at = r.at /\ s.text = r.text
    <3>1. PICK r \in others : s = [r EXCEPT !.newest = FALSE]
      OBVIOUS
    <3>2. r \in Tab!Request /\ r \in asked
      BY TabFacts
    <3>3. s \in Tab!Request /\ s.newest = FALSE /\ s.kind = r.kind /\ s.at = r.at /\ s.text = r.text
      BY <3>1, <3>2 DEF Tab!Request
    <3>4. QED BY <3>2, <3>3
  <2>2. QED BY <2>1
<1> HIDE DEF Older, new
<1>4. loading' \in BOOLEAN /\ error' \in BOOLEAN /\ astray' \in BOOLEAN
  BY <1>1
<1>5. Tab!TypeOK'
  <2>1. asked' \subseteq Tab!Request
    BY <1>1, <1>2, <1>3
  <2>2. QED BY <1>1, <1>4, <2>1, TabFacts DEF Tab!TypeOK, Tab!Request
<1>6. \A r \in asked' : r.at \in IF r.kind \in {"read", "save"} THEN Files ELSE Folders
  BY <1>1, <1>2, <1>3 DEF TabInv
<1>7. \A r \in asked' : r.newest /\ ~astray' => r.at = path'
  BY <1>1, <1>2, <1>3
<1>8. \A r \in asked' : r.kind = "save" => \E s \in asked : s.kind = "save" /\ s.at = r.at /\ s.text = r.text
  BY <1>1, <1>2, <1>3
<1>9. QED BY <1>1, <1>5, <1>6, <1>7, <1>8 DEF TabInv, Tab!RightFolder

\* What a step that only takes calls away or leaves them has to show.
LEMMA TabTyped ==
    ASSUME TabInv, path' = path,
           listing' \in Folders \cup {None}, editing' \in Files \cup {None}, asked' \subseteq Tab!Request,
           disk' \in [Files -> 0..MaxTexts], initial' \in 0..MaxTexts, buffer' \in 0..MaxTexts,
           baseline' \in 0..MaxTexts, newest' \in {"asked", "shown", "failed", "hushed"},
           loading' \in BOOLEAN, error' \in BOOLEAN, working' \in BOOLEAN,
           dirty' \in BOOLEAN, astray' \in BOOLEAN, crossed' \in BOOLEAN
    PROVE  Tab!TypeOK'
BY TabFacts DEF Tab!TypeOK, Tab!Request

LEMMA ListedStep ==
    ASSUME TabInv, NEW r \in asked, NEW ok \in BOOLEAN, Tab!Listed(r, ok)
    PROVE  TabInv'
<1>1. /\ r.kind \in {"list", "relist"} /\ asked' = asked \ {r} /\ working' = (working /\ r.kind = "list")
      /\ UNCHANGED <<path, astray, disk, editing, initial, buffer, baseline, dirty, crossed>>
  BY DEF Tab!Listed, Tab!editor
<1>2. \/ /\ r.newest /\ loading' = FALSE /\ error' = (error \/ ~ok)
         /\ listing' = IF ok THEN r.at ELSE listing
         /\ newest' = IF ok THEN "shown" ELSE "failed"
      \/ ~r.newest /\ UNCHANGED <<loading, error, listing, newest>>
  BY DEF Tab!Listed, Tab!Shown
<1>3. r \in Tab!Request /\ r.at \in Folders /\ (r.newest /\ ~astray => r.at = path)
  BY <1>1, TabFacts DEF TabInv
<1>4. working' \in BOOLEAN
  BY <1>1
<1>5. loading' \in BOOLEAN /\ error' \in BOOLEAN
  BY <1>2, TabFacts
<1>6. listing' \in Folders \cup {None} /\ newest' \in {"asked", "shown", "failed", "hushed"}
  BY <1>2, <1>3, TabFacts
<1>7. Tab!TypeOK'
  BY <1>1, <1>4, <1>5, <1>6, TabFacts, TabTyped
<1>8. Tab!RightFolder'
  BY <1>1, <1>2, <1>3 DEF TabInv, Tab!RightFolder
<1>9. QED BY <1>1, <1>7, <1>8 DEF TabInv

\* An operation that ends may leave an error, never take one away.
LEMMA OverKeeps ==
    ASSUME TabInv, NEW r \in asked, NEW fails \in BOOLEAN, Tab!Over(r, fails)
    PROVE  /\ asked' = asked \ {r} /\ working' = FALSE /\ working' \in BOOLEAN
           /\ error' \in BOOLEAN /\ (error => error')
           /\ UNCHANGED <<path, listing, loading, astray, newest>> /\ Tab!RightFolder'
<1>1. /\ asked' = asked \ {r} /\ working' = FALSE /\ error' = (error \/ fails)
      /\ UNCHANGED <<path, listing, loading, astray, newest>>
  BY DEF Tab!Over, Tab!folder
<1>2. error' \in BOOLEAN /\ (error => error')
  BY <1>1, TabFacts
<1>3. working' \in BOOLEAN
  BY <1>1
<1>4. Tab!RightFolder'
  BY <1>1, <1>2 DEF TabInv, Tab!RightFolder
<1>5. QED BY <1>1, <1>2, <1>3, <1>4

LEMMA OverStep ==
    ASSUME TabInv, NEW r \in asked, Tab!Refused(r) \/ Tab!Done(r)
    PROVE  TabInv'
<1>1. PICK fails \in BOOLEAN : Tab!Over(r, fails)
  BY DEF Tab!Refused, Tab!Done
<1>2. UNCHANGED <<disk, editing, initial, buffer, baseline, dirty, crossed>>
  BY DEF Tab!Refused, Tab!Done, Tab!editor
<1>3. /\ asked' = asked \ {r} /\ working' \in BOOLEAN /\ error' \in BOOLEAN
      /\ UNCHANGED <<path, listing, loading, astray, newest>> /\ Tab!RightFolder'
  BY <1>1, OverKeeps
<1>4. Tab!TypeOK'
  BY <1>2, <1>3, TabFacts, TabTyped
<1>5. QED BY <1>2, <1>3, <1>4 DEF TabInv

\* An operation that begins takes the error away, and that is noted.
LEMMA RunKeeps ==
    ASSUME TabInv, NEW request, Tab!Run(request)
    PROVE  /\ asked' = asked \cup {request} /\ working' \in BOOLEAN /\ error' \in BOOLEAN
           /\ newest' \in {"asked", "shown", "failed", "hushed"}
           /\ UNCHANGED <<path, listing, loading, astray>> /\ Tab!RightFolder'
<1>1. /\ asked' = asked \cup {request} /\ working' = TRUE /\ error' = FALSE
      /\ newest' = IF newest = "failed" THEN "hushed" ELSE newest
      /\ UNCHANGED <<path, listing, loading, astray>>
  BY DEF Tab!Run, Tab!folder
<1>2. working' \in BOOLEAN /\ error' \in BOOLEAN
  BY <1>1
<1>3. newest' \in {"asked", "shown", "failed", "hushed"}
  BY <1>1, TabFacts
<1>4. Tab!RightFolder'
  BY <1>1 DEF TabInv, Tab!RightFolder
<1>5. QED BY <1>1, <1>2, <1>3, <1>4

\* A call for the folder on display, or to read a file, joins those under way.
LEMMA CallStep ==
    ASSUME TabInv, Tab!Change \/ \E f \in Files : Tab!OpenFile(f)
    PROVE  TabInv'
<1>1. PICK k \in {"change", "read"}, d \in Folders \cup Files :
           d \in (IF k = "read" THEN Files ELSE Folders) /\ Tab!Run(Tab!Ask(k, d))
  BY TabFacts DEF Tab!Change, Tab!OpenFile
<1>2. UNCHANGED <<disk, editing, initial, buffer, baseline, dirty, crossed>>
  BY DEF Tab!Change, Tab!OpenFile, Tab!editor
<1>3. /\ Tab!Ask(k, d) \in Tab!Request /\ Tab!Ask(k, d).kind = k /\ Tab!Ask(k, d).at = d
      /\ ~Tab!Ask(k, d).newest
  BY AskTyped, TabFacts
<1>4. /\ asked' = asked \cup {Tab!Ask(k, d)} /\ working' \in BOOLEAN /\ error' \in BOOLEAN
      /\ newest' \in {"asked", "shown", "failed", "hushed"}
      /\ UNCHANGED <<path, listing, loading, astray>> /\ Tab!RightFolder'
  BY <1>1, RunKeeps
<1>5. Tab!TypeOK'
  BY <1>2, <1>3, <1>4, TabFacts, TabTyped
<1>6. QED BY <1>1, <1>2, <1>3, <1>4, <1>5 DEF TabInv

\* Without a file open there is no save under way that nobody crossed.
LEMMA NoFileNoSave ==
    ASSUME TabInv, editing = None, ~crossed
    PROVE  \A r \in asked : r.kind # "save"
BY TabFacts DEF TabInv

LEMMA ReadStep ==
    ASSUME TabInv, NEW r \in asked, Tab!Read(r)
    PROVE  TabInv'
<1>1. /\ r.kind = "read" /\ Tab!Over(r, FALSE)
      /\ editing' = r.at /\ initial' = disk[r.at] /\ dirty' = FALSE
      /\ crossed' = (crossed \/ editing # None) /\ UNCHANGED disk
  BY DEF Tab!Read
<1>0. /\ asked' = asked \ {r} /\ working' \in BOOLEAN /\ error' \in BOOLEAN
      /\ UNCHANGED <<path, listing, loading, astray, newest>> /\ Tab!RightFolder'
  BY <1>1, OverKeeps
<1>2. \/ editing # None /\ UNCHANGED <<buffer, baseline>>
      \/ buffer' = disk[r.at] /\ baseline' = disk[r.at]
  BY DEF Tab!Read
<1>3. r \in Tab!Request /\ r.at \in Files /\ disk[r.at] \in 0..MaxTexts
  BY <1>1, TabFacts DEF TabInv
<1>4. dirty' \in BOOLEAN /\ crossed' \in BOOLEAN
  BY <1>1, TabFacts
<1>5. buffer' \in 0..MaxTexts /\ baseline' \in 0..MaxTexts /\ initial' \in 0..MaxTexts
  BY <1>1, <1>2, <1>3, TabFacts
<1>6. Tab!TypeOK'
  BY <1>1, <1>0, <1>3, <1>4, <1>5, TabFacts, TabTyped
<1>7. ASSUME ~crossed'
      PROVE  /\ \A s \in asked' : s.kind # "save"
             /\ baseline' = disk'[editing'] /\ buffer' = baseline'
  <2>1. ~crossed /\ editing = None
    BY <1>1, <1>7
  <2>2. QED BY <1>1, <1>2, <2>1, NoFileNoSave, <1>0
<1>8. QED BY <1>1, <1>6, <1>7, <1>0 DEF TabInv

LEMMA TypeTextStep ==
    ASSUME TabInv, Tab!Type
    PROVE  TabInv'
<1>1. /\ editing # None /\ buffer' \in 0..MaxTexts
      /\ dirty' = (buffer' # baseline)
      /\ crossed' = (crossed \/ \E r \in asked : r.kind = "save")
      /\ UNCHANGED <<path, listing, loading, error, astray, newest, asked, working, disk, editing, initial, baseline>>
  BY DEF Tab!Type, Tab!browser
<1>2. dirty' \in BOOLEAN /\ crossed' \in BOOLEAN
  BY <1>1, TabFacts
<1>3. Tab!TypeOK'
  BY <1>1, <1>2, TabFacts, TabTyped
<1>4. QED BY <1>1, <1>3 DEF TabInv, Tab!RightFolder

LEMMA SaveFileStep ==
    ASSUME TabInv, Tab!Save
    PROVE  TabInv'
<1> DEFINE new == [Tab!Ask("save", editing) EXCEPT !.text = buffer]
<1>1. /\ editing # None /\ Tab!Run(new)
      /\ UNCHANGED <<disk, editing, initial, buffer, baseline, dirty, crossed>>
  BY DEF Tab!Save, Tab!editor
<1>2. editing \in Files
  BY <1>1, TabFacts
<1>3. new \in Tab!Request /\ new.kind = "save" /\ new.at = editing /\ new.text = buffer /\ ~new.newest
  <2>1. /\ Tab!Ask("save", editing) \in Tab!Request /\ Tab!Ask("save", editing).kind = "save"
        /\ Tab!Ask("save", editing).at = editing /\ ~Tab!Ask("save", editing).newest
    BY <1>2, AskTyped, TabFacts
  <2>2. buffer \in 0..MaxTexts
    BY TabFacts
  <2> HIDE DEF Tab!Ask
  <2>3. QED BY <2>1, <2>2 DEF Tab!Request
<1> HIDE DEF new
<1>4. /\ asked' = asked \cup {new} /\ working' \in BOOLEAN /\ error' \in BOOLEAN
      /\ newest' \in {"asked", "shown", "failed", "hushed"}
      /\ UNCHANGED <<path, listing, loading, astray>> /\ Tab!RightFolder'
  BY <1>1, RunKeeps
<1>5. Tab!TypeOK'
  BY <1>1, <1>3, <1>4, TabFacts, TabTyped
<1>6. QED BY <1>1, <1>2, <1>3, <1>4, <1>5 DEF TabInv

LEMMA SavedFileStep ==
    ASSUME TabInv, NEW r \in asked, Tab!Saved(r)
    PROVE  TabInv'
<1>1. /\ r.kind = "save" /\ Tab!Over(r, FALSE) /\ dirty' = FALSE
      /\ disk' = [disk EXCEPT ![r.at] = r.text]
      /\ baseline' = IF editing = None THEN baseline ELSE buffer
      /\ UNCHANGED <<editing, initial, buffer, crossed>>
  BY DEF Tab!Saved
<1>0. /\ asked' = asked \ {r} /\ working' \in BOOLEAN /\ error' \in BOOLEAN
      /\ UNCHANGED <<path, listing, loading, astray, newest>> /\ Tab!RightFolder'
  BY <1>1, OverKeeps
<1>2. r \in Tab!Request /\ r.at \in Files /\ r.text \in 0..MaxTexts
  BY <1>1, TabFacts DEF TabInv, Tab!Request
<1>3. dirty' \in BOOLEAN
  BY <1>1
<1>4. disk' \in [Files -> 0..MaxTexts] /\ disk'[r.at] = r.text /\ baseline' \in 0..MaxTexts
  BY <1>1, <1>2, TabFacts
<1>5. Tab!TypeOK'
  BY <1>0, <1>1, <1>3, <1>4, TabFacts, TabTyped
<1>6. ASSUME ~crossed'
      PROVE  editing = r.at /\ buffer = r.text /\ editing # None
  BY <1>1, <1>2, <1>6, TabFacts DEF TabInv
<1>7. QED BY <1>1, <1>4, <1>5, <1>6, <1>0 DEF TabInv

LEMMA SavedUnheardStep ==
    ASSUME TabInv, NEW r \in asked, Tab!SavedUnheard(r)
    PROVE  TabInv'
<1>1. /\ r.kind = "save" /\ Tab!Over(r, TRUE) /\ crossed' = TRUE
      /\ disk' = [disk EXCEPT ![r.at] = r.text] /\ UNCHANGED <<editing, initial, buffer, baseline, dirty>>
  BY DEF Tab!SavedUnheard, Tab!editor
<1>0. /\ asked' = asked \ {r} /\ working' \in BOOLEAN /\ error' \in BOOLEAN
      /\ UNCHANGED <<path, listing, loading, astray, newest>> /\ Tab!RightFolder'
  BY <1>1, OverKeeps
<1>2. r.at \in Files /\ r.text \in 0..MaxTexts
  BY <1>1, TabFacts DEF TabInv, Tab!Request
<1>3. disk' \in [Files -> 0..MaxTexts] /\ crossed' \in BOOLEAN
  BY <1>1, <1>2, TabFacts
<1>4. Tab!TypeOK'
  BY <1>1, <1>3, <1>0, TabFacts, TabTyped
<1>5. QED BY <1>1, <1>4, <1>0 DEF TabInv

LEMMA CloseStep ==
    ASSUME TabInv, Tab!Close
    PROVE  TabInv'
<1>1. /\ editing' = None /\ crossed' = (crossed \/ \E r \in asked : r.kind \in {"read", "save"})
      /\ UNCHANGED <<path, listing, loading, error, astray, newest, asked, working, disk, initial, buffer, baseline, dirty>>
  BY DEF Tab!Close, Tab!browser
<1>2. crossed' \in BOOLEAN
  BY <1>1, TabFacts
<1>3. Tab!TypeOK'
  BY <1>1, <1>2, TabFacts, TabTyped
<1>4. QED BY <1>1, <1>3 DEF TabInv, Tab!RightFolder

LEMMA TabNext ==
    ASSUME TabInv, [Tab!Next]_(Tab!vars)
    PROVE  TabInv'
<1>1. CASE UNCHANGED Tab!vars
  BY <1>1 DEF Tab!vars, Tab!browser, Tab!editor, TabInv, Tab!TypeOK, Tab!RightFolder, Tab!Request
<1>2. ASSUME NEW d \in Folders, Tab!Navigate(d)
      PROVE  TabInv'
  <2>1. Tab!Load("list", d, asked) /\ path' = d /\ UNCHANGED <<listing, working, disk, crossed>>
        /\ UNCHANGED Tab!editor
    BY <1>2 DEF Tab!Navigate
  <2>2. QED BY <2>1, LoadStep
<1>3. CASE Tab!Refresh
  <2>1. Tab!Load("list", path, asked) /\ path' = path /\ UNCHANGED <<listing, working, disk, crossed>>
        /\ UNCHANGED Tab!editor
    BY <1>3 DEF Tab!Refresh
  <2>2. QED BY <2>1, LoadStep, TabFacts
<1>4. ASSUME NEW r \in asked, Tab!Changed(r)
      PROVE  TabInv'
  <2>1. /\ Tab!Load("relist", r.at, asked \ {r}) /\ path' = path /\ UNCHANGED <<listing, working, disk, crossed>>
        /\ UNCHANGED Tab!editor /\ r.kind = "change"
    BY <1>4 DEF Tab!Changed
  <2>2. r.at \in Folders
    BY <2>1 DEF TabInv
  <2>3. QED BY <2>1, <2>2, LoadStep, TabFacts
<1>5. QED
  BY <1>1, <1>2, <1>3, <1>4, ListedStep, OverStep, CallStep, ReadStep, TypeTextStep, SaveFileStep,
     SavedFileStep, SavedUnheardStep, CloseStep DEF Tab!Next

LEMMA TabKeeps == TabInv => Tab!RightFolder /\ Tab!UnsavedIsMarked
BY DEF TabInv, Tab!UnsavedIsMarked

-----------------------------------------------------------------------------
(* The settings *)

LEMMA SettingsInit == Settings!Init => SettingsInv
<1> SUFFICES ASSUME Settings!Init PROVE SettingsInv
  OBVIOUS
<1>1. /\ edits = <<>> /\ refused = {} /\ shown = None /\ pane = 0 /\ paneOpened = 0 /\ overlapped = FALSE
      /\ stored = {"other"}
  BY DEF Settings!Init
<1>2. IsFiniteSet(refused)
  BY <1>1, FS_EmptySet
<1>3. Settings!TypeOK
  <2>1. MaxEdits \in Nat
    BY StartAssumption
  <2>2. edits \in Seq(Settings!Edit) /\ Len(edits) <= MaxEdits
    BY <1>1, <2>1
  <2>3. stored \in Settings!Settings
    BY <1>1 DEF Settings!Settings, Settings!Toggles
  <2>4. refused \subseteq Settings!Edit /\ pane \in 0..paneOpened /\ paneOpened \in 0..2
    BY <1>1
  <2>5. QED BY <1>1, <2>2, <2>3, <2>4 DEF Settings!TypeOK
<1>4. QED BY <1>1, <1>2, <1>3 DEF SettingsInv

LEMMA UpdateStep ==
    ASSUME SettingsInv, NEW t \in Settings!Toggles, Settings!Update(t)
    PROVE  SettingsInv'
<1> DEFINE e == [prev |-> shown, next |-> shown', pane |-> pane]
<1>1. /\ pane # 0 /\ shown # None /\ edits' = Append(edits, e)
      /\ overlapped' = (overlapped \/ edits # <<>> \/ refused # {})
      /\ UNCHANGED <<stored, refused, pane, paneOpened>>
  BY DEF Settings!Update
<1>2. shown \in Settings!Settings /\ shown' \in Settings!Settings /\ pane \in 1..paneOpened /\ paneOpened \in 0..2
  BY <1>1 DEF Settings!Update, SettingsInv, Settings!TypeOK, Settings!Settings
<1>3. e \in Settings!Edit
  BY <1>2 DEF Settings!Edit
<1>4. edits \in Seq(Settings!Edit) /\ Len(edits) \in Nat
  BY DEF SettingsInv, Settings!TypeOK
<1> HIDE DEF e
<1>5. /\ edits' \in Seq(Settings!Edit) /\ Len(edits') = Len(edits) + 1
      /\ \A i \in 1..Len(edits) : edits'[i] = edits[i]
      /\ edits'[Len(edits) + 1] = e
  BY <1>1, <1>3, <1>4
<1>6. Len(edits') <= MaxEdits
  <2>1. \A S : Settings!Cardinality(S) = Cardinality(S)
    BY DEF Settings!Cardinality, Cardinality
  <2>2. Len(edits) + Cardinality(refused) < MaxEdits
    BY <2>1 DEF Settings!Update
  <2>3. Cardinality(refused) \in Nat
    BY FS_CardinalityType DEF SettingsInv
  <2>4. MaxEdits \in Nat
    BY StartAssumption
  <2>5. QED BY <1>4, <1>5, <2>2, <2>3, <2>4
<1>7. Settings!TypeOK'
  BY <1>1, <1>2, <1>5, <1>6 DEF Settings!TypeOK, SettingsInv
<1>8. e.pane = pane /\ e.prev = shown /\ e.next = shown'
  BY DEF e
<1>9. \A i \in 1..Len(edits') : edits'[i].pane <= paneOpened'
  BY <1>1, <1>2, <1>4, <1>5, <1>8 DEF SettingsInv
<1>11. ASSUME ~overlapped'
       PROVE  /\ Len(edits') <= 1 /\ refused' = {}
              /\ edits'[1].prev = stored' /\ shown' = edits'[1].next /\ edits'[1].pane = pane'
  <2>1. ~overlapped /\ edits = <<>> /\ refused = {}
    BY <1>1, <1>11
  <2>2. stored = shown
    BY <1>1, <2>1 DEF SettingsInv
  <2>3. QED BY <1>1, <1>5, <1>8, <2>1, <2>2
<1>12. QED BY <1>1, <1>7, <1>9, <1>11 DEF SettingsInv

LEMMA SettingsSetStep ==
    ASSUME SettingsInv, Settings!SettingsSet
    PROVE  SettingsInv'
<1>1. edits \in Seq(Settings!Edit) /\ edits # <<>>
  BY DEF Settings!SettingsSet, SettingsInv, Settings!TypeOK
<1>2. PICK e \in Settings!Edit : e = edits[1] /\ e = Head(edits)
  BY <1>1
<1>3. /\ edits' = Tail(edits) /\ edits' \in Seq(Settings!Edit) /\ Len(edits') = Len(edits) - 1
      /\ Len(edits) \in Nat /\ Len(edits) > 0
      /\ \A i \in 1..Len(edits') : i + 1 \in 1..Len(edits) /\ edits'[i] = edits[i + 1]
  BY <1>1 DEF Settings!SettingsSet
<1>4. UNCHANGED <<shown, pane, paneOpened, overlapped>>
  BY DEF Settings!SettingsSet
<1>5. \/ stored' = e.next /\ refused' = refused
      \/ stored' = stored /\ refused' = refused \cup {e}
  BY <1>2 DEF Settings!SettingsSet
<1>6. e.next \in Settings!Settings /\ e.pane <= paneOpened
  BY <1>1, <1>2, <1>3 DEF SettingsInv, Settings!Edit
<1>7. IsFiniteSet(refused') /\ refused' \subseteq Settings!Edit
  BY <1>5, FS_AddElement DEF SettingsInv, Settings!TypeOK
<1>8. Settings!TypeOK'
  <2>1. MaxEdits \in Nat /\ Len(edits) <= MaxEdits
    BY StartAssumption DEF SettingsInv, Settings!TypeOK
  <2>2. Len(edits') <= MaxEdits
    BY <1>3, <2>1
  <2>3. stored' \in Settings!Settings
    BY <1>5, <1>6 DEF SettingsInv, Settings!TypeOK
  <2>4. QED BY <1>3, <1>4, <1>7, <2>2, <2>3 DEF Settings!TypeOK, SettingsInv
<1>9. \A i \in 1..Len(edits') : edits'[i].pane <= paneOpened'
  BY <1>3, <1>4 DEF SettingsInv
<1>10. \A r \in refused' : r.pane <= paneOpened'
  BY <1>4, <1>5, <1>6 DEF SettingsInv
<1>11. ASSUME ~overlapped'
       PROVE  /\ edits' = <<>> /\ \A d, r \in refused' : d = r
              /\ \A r \in refused' : r.prev = stored' /\ (r.pane = pane' \/ shown' \in {None, stored'})
              /\ refused' = {} => shown' \in {None, stored'}
  <2>1. /\ Len(edits) = 1 /\ refused = {} /\ e.prev = stored
        /\ shown = None \/ (shown = e.next /\ e.pane = pane)
    BY <1>1, <1>2, <1>3, <1>4, <1>11 DEF SettingsInv
  <2>2. edits' = <<>>
    BY <1>3, <2>1
  <2>3. CASE stored' = e.next /\ refused' = refused
    BY <1>4, <2>1, <2>2, <2>3
  <2>4. CASE stored' = stored /\ refused' = refused \cup {e}
    BY <1>4, <2>1, <2>2, <2>4
  <2>5. QED BY <1>5, <2>3, <2>4
<1>12. QED BY <1>4, <1>7, <1>8, <1>9, <1>10, <1>11 DEF SettingsInv

LEMMA RevertedStep ==
    ASSUME SettingsInv, NEW e \in refused, Settings!Reverted(e)
    PROVE  SettingsInv'
<1>1. /\ refused' = refused \ {e} /\ UNCHANGED <<stored, edits, pane, paneOpened, overlapped>>
      /\ shown' = IF e.pane = pane THEN e.prev ELSE shown
  BY DEF Settings!Reverted
<1>2. IsFiniteSet(refused')
  BY <1>1, FS_RemoveElement DEF SettingsInv
<1>3. e \in Settings!Edit /\ e.pane # 0 /\ e.prev \in Settings!Settings
  BY DEF SettingsInv, Settings!TypeOK, Settings!Edit
<1>4. Settings!TypeOK'
  BY <1>1, <1>3 DEF SettingsInv, Settings!TypeOK
<1>5. ~overlapped => edits = <<>> /\ refused' = {} /\ shown' \in {None, stored}
  BY <1>1 DEF SettingsInv
<1>6. QED BY <1>1, <1>2, <1>4, <1>5 DEF SettingsInv

\* A pane that shows nothing yet is at one with every edit.
LEMMA Blank ==
    ASSUME SettingsInv, shown' = None, UNCHANGED <<stored, edits, refused, overlapped>>,
           pane' \in 0..paneOpened', paneOpened' \in paneOpened..2
    PROVE  SettingsInv'
<1>1. paneOpened \in 0..2 /\ paneOpened' \in 0..2 /\ paneOpened <= paneOpened'
  BY DEF SettingsInv, Settings!TypeOK
<1>2. Settings!TypeOK'
  BY <1>1 DEF SettingsInv, Settings!TypeOK
<1>3. \A i \in 1..Len(edits) : edits[i].pane <= paneOpened'
  <2>1. \A i \in 1..Len(edits) : edits[i] \in Settings!Edit /\ edits[i].pane <= paneOpened
    BY DEF SettingsInv, Settings!TypeOK
  <2>2. \A e \in Settings!Edit : e.pane \in 1..2
    BY DEF Settings!Edit
  <2>3. QED BY <1>1, <2>1, <2>2
<1>4. \A e \in refused : e.pane <= paneOpened'
  <2>1. \A e \in refused : e.pane \in 1..2 /\ e.pane <= paneOpened
    BY DEF SettingsInv, Settings!TypeOK, Settings!Edit
  <2>2. QED BY <1>1, <2>1
<1>5. QED BY <1>2, <1>3, <1>4 DEF SettingsInv

LEMMA SettingsNext ==
    ASSUME SettingsInv, [Settings!Next]_(Settings!vars)
    PROVE  SettingsInv'
<1>1. CASE Settings!Open
  <2>1. /\ pane' = paneOpened + 1 /\ paneOpened' = paneOpened + 1 /\ shown' = None /\ paneOpened \in 0..1
        /\ UNCHANGED <<stored, edits, refused, overlapped>>
    BY <1>1 DEF Settings!Open, SettingsInv, Settings!TypeOK
  <2>2. pane' \in 0..paneOpened' /\ paneOpened' \in paneOpened..2
    BY <2>1
  <2>3. QED BY <2>1, <2>2, Blank
<1>2. CASE Settings!SettingsGet
  <2>1. edits = <<>> /\ shown' = stored /\ UNCHANGED <<stored, edits, refused, pane, paneOpened, overlapped>> /\ pane # 0
    BY <1>2 DEF Settings!SettingsGet
  <2>2. Settings!TypeOK'
    BY <2>1 DEF SettingsInv, Settings!TypeOK
  <2>3. QED BY <2>1, <2>2 DEF SettingsInv
<1>3. CASE Settings!Close
  <2>1. shown' = None /\ pane' = 0 /\ UNCHANGED <<stored, edits, refused, paneOpened, overlapped>> /\ paneOpened \in 0..2
    BY <1>3 DEF Settings!Close, SettingsInv, Settings!TypeOK
  <2>2. pane' \in 0..paneOpened' /\ paneOpened' \in paneOpened..2
    BY <2>1
  <2>3. QED BY <2>1, <2>2, Blank
<1>4. CASE UNCHANGED Settings!vars
  BY <1>4 DEF Settings!vars, SettingsInv, Settings!TypeOK
<1>5. QED
  BY <1>1, <1>2, <1>3, <1>4, UpdateStep, SettingsSetStep, RevertedStep DEF Settings!Next

LEMMA ShowsStored == SettingsInv => Settings!ShownIsStored
BY DEF SettingsInv, Settings!ShownIsStored, Settings!AtRest

-----------------------------------------------------------------------------
(* The second factor *)

LEMMA CodesInit == Codes!Init => CodesInv
BY NothingAssumption DEF Codes!Init, CodesInv, Codes!TypeOK, Codes!CodesAreShown

LEMMA CodesNext ==
    ASSUME CodesInv, [Codes!Next]_(Codes!vars)
    PROVE  CodesInv'
<1> USE NothingAssumption
<1> USE DEF CodesInv, Codes!TypeOK, Codes!CodesAreShown, Codes!panel, Codes!Dismissed
<1>1. CASE Codes!OpenSetup
  BY <1>1 DEF Codes!OpenSetup
<1>2. CASE Codes!Enrolled
  BY <1>2 DEF Codes!Enrolled
<1>3. CASE Codes!SubmitCode
  BY <1>3 DEF Codes!SubmitCode
<1>4. CASE Codes!Dismiss
  BY <1>4 DEF Codes!Dismiss
<1>5. CASE Codes!Verified
  BY <1>5 DEF Codes!Verified
<1>6. CASE Codes!Finish
  BY <1>6 DEF Codes!Finish
<1>7. CASE Codes!Leave
  BY <1>7 DEF Codes!Leave
<1>8. CASE Codes!TurnOff \/ Codes!Confirm \/ Codes!Cancel
  BY <1>8 DEF Codes!TurnOff, Codes!Confirm, Codes!Cancel
<1>9. CASE Codes!Disabled
  BY <1>9 DEF Codes!Disabled
<1>10. CASE Codes!ServeEnroll
  BY <1>10 DEF Codes!ServeEnroll
<1>11. CASE Codes!ServeVerify
  BY <1>11 DEF Codes!ServeVerify
<1>12. CASE Codes!ServeDisable
  BY <1>12 DEF Codes!ServeDisable
<1>13. CASE Codes!ServeStray
  BY <1>13 DEF Codes!ServeStray
<1>14. CASE UNCHANGED Codes!vars
  BY <1>14 DEF Codes!vars
<1>15. QED
  BY <1>1, <1>2, <1>3, <1>4, <1>5, <1>6, <1>7, <1>8, <1>9, <1>10, <1>11, <1>12, <1>13, <1>14 DEF Codes!Next

-----------------------------------------------------------------------------
(* The screens side by side *)

ScreensInv == ListInv /\ FormInv /\ CardInv /\ TabInv /\ SettingsInv /\ CodesInv

\* A part that no step touches keeps its invariant.
LEMMA PartsRest ==
    ASSUME ScreensInv
    PROVE  /\ UNCHANGED list => ListInv'
           /\ UNCHANGED form => FormInv'
           /\ UNCHANGED fields => CardInv'
           /\ UNCHANGED files => TabInv'
           /\ UNCHANGED settings => SettingsInv'
           /\ UNCHANGED codes => CodesInv'
<1>1. UNCHANGED list => UNCHANGED List!vars
  BY DEF list, List!vars
<1>2. UNCHANGED form => UNCHANGED Form!vars
  BY DEF form, Form!vars
<1>3. UNCHANGED fields => UNCHANGED Card!vars
  BY DEF fields, Card!vars
<1>4. UNCHANGED files => UNCHANGED Tab!vars
  BY DEF files, Tab!vars, Tab!browser, Tab!editor
<1>5. UNCHANGED settings => UNCHANGED Settings!vars
  BY DEF settings, Settings!vars
<1>6. UNCHANGED codes => UNCHANGED Codes!vars
  BY DEF codes, Codes!vars, Codes!panel
<1>7. QED
  BY <1>1, <1>2, <1>3, <1>4, <1>5, <1>6, ListNext, FormNext, CardNext, TabNext, SettingsNext, CodesNext DEF ScreensInv

LEMMA ScreensInit == Init => ScreensInv
BY ListInit, FormInit, CardInit, TabInit, SettingsInit, CodesInit DEF Init, ScreensInv

LEMMA ScreensNext == ScreensInv /\ [Next]_vars => ScreensInv'
<1> SUFFICES ASSUME ScreensInv, [Next]_vars PROVE ScreensInv'
  OBVIOUS
<1>1. CASE UNCHANGED vars
  BY <1>1, PartsRest DEF vars, ScreensInv
<1>2. CASE List!Next /\ UNCHANGED <<form, fields, files, settings, codes>>
  BY <1>2, PartsRest, ListNext DEF ScreensInv
<1>3. CASE Form!Next /\ UNCHANGED <<list, fields, files, settings, codes>>
  BY <1>3, PartsRest, FormNext DEF ScreensInv
<1>4. CASE Card!Next /\ UNCHANGED <<list, form, files, settings, codes>>
  BY <1>4, PartsRest, CardNext DEF ScreensInv
<1>5. CASE Tab!Next /\ UNCHANGED <<list, form, fields, settings, codes>>
  BY <1>5, PartsRest, TabNext DEF ScreensInv
<1>6. CASE Settings!Next /\ UNCHANGED <<list, form, fields, files, codes>>
  BY <1>6, PartsRest, SettingsNext DEF ScreensInv
<1>7. CASE Codes!Next /\ UNCHANGED <<list, form, fields, files, settings>>
  BY <1>7, PartsRest, CodesNext DEF ScreensInv
<1>8. QED BY <1>1, <1>2, <1>3, <1>4, <1>5, <1>6, <1>7 DEF Next

\* All six at once: a step is of one screen, and the others' invariants say nothing of it.
THEOREM ScreensInvariant == Spec => []ScreensInv
BY ScreensInit, ScreensNext, PTL DEF Spec

-----------------------------------------------------------------------------
\* Every screen keeps to the values its fields can have: rows that are no newer than the
\* panel, folders and files that exist, openings that were made.
THEOREM ScreensTyped == Spec => []TypeOK
<1>1. ScreensInv => TypeOK
  BY DEF ScreensInv, ListInv, ListTypes, FormInv, CardInv, TabInv, SettingsInv, CodesInv, TypeOK
<1>2. QED BY <1>1, ScreensInvariant, PTL

\* Once nothing is under way and no error shows, a list shows what its search, filter and
\* page number ask for, with every operation the panel carried out, for each of the
\* screens and whatever their answers' order; the four races named with ShownIsAsked
\* aside (AdminServers.tsx, AdminUsers.tsx, Backups.tsx and the other screens of PanelList).
THEOREM ListsShowWhatIsAsked == Spec => []ShownIsAsked
<1>1. ScreensInv => ShownIsAsked
  BY ListShows DEF ScreensInv, ShownIsAsked
<1>2. QED BY <1>1, ScreensInvariant, PTL

\* One opening of a dialog makes one thing at the panel however often its button is pressed,
\* as long as the panel's answers are heard (the vanity dialog of AdminServers.tsx aside,
\* whose button is never off), and a card keeps what was typed and shows what the panel holds.
THEOREM FormsMakeOnce == Spec => []FormsAreTrue
<1>1. ScreensInv => FormsAreTrue
  BY MakesOnce, CardKeeps DEF ScreensInv, FormsAreTrue
<1>2. QED BY <1>1, ScreensInvariant, PTL

\* The entries of the files tab are of the folder that the breadcrumb names, in whatever
\* order the listings arrive (Files.tsx:54-55), and a text that is not on the disk is
\* marked, so that closing the editor asks first.
THEOREM FilesAreTrue == Spec => []EditorIsTrue
<1>1. ScreensInv => EditorIsTrue
  BY TabKeeps DEF ScreensInv, EditorIsTrue
<1>2. QED BY <1>1, ScreensInvariant, PTL

\* One edit at a time, refused or not, leaves a setting showing what is stored
\* (Settings.tsx:79-82), and a second factor is never turned on without its recovery codes
\* having been shown or about to be, lost answers and a window taken away aside
\* (TwoFactorSetup.tsx:103).
THEOREM SettingsShowWhatIsStored == Spec => []SettingsAreTrue
<1>1. ScreensInv => SettingsAreTrue
  BY ShowsStored DEF ScreensInv, SettingsAreTrue, CodesInv
<1>2. QED BY <1>1, ScreensInvariant, PTL

\* No reload and no poll wipes what an operation reported: the error goes only when the
\* next operation starts (Backups.tsx:51).
THEOREM ErrorsStayTillTheNext == Spec => ActionErrorStays
<1>1. ASSUME ScreensInv, [Next]_vars, "action" \in errors, "action" \notin errors'
      PROVE  op = None /\ op' # None
  <2>1. errors' # errors
    BY <1>1
  <2>2. List!Next
    BY <1>1, <2>1 DEF Next, vars, list
  <2>3. List!Act
    <3>1. ~(\E i \in DOMAIN loads : List!Served(i) \/ List!Answered(i) \/ List!Failed(i))
      BY <1>1, <2>1 DEF List!Served, List!Answered, List!Failed
    <3>2. ~List!Effect /\ ~List!ActFailed /\ ~List!Acted
      BY <1>1, <2>1 DEF List!Effect, List!ActFailed, List!Acted, List!Cleared
    <3>3. /\ \A t \in Texts : ~List!Typed(t) /\ ~List!Key(t)
          /\ ~List!TimerFires /\ ~List!Reload
      BY <2>1 DEF List!Typed, List!Key, List!TimerFires, List!Reload
    <3>4. /\ \A p \in Picks : ~List!Pick(p)
          /\ \A p \in Pages : ~List!Turn(p)
      BY <2>1 DEF List!Pick, List!Turn
    <3>5. QED BY <2>2, <3>1, <3>2, <3>3, <3>4 DEF List!Next
  <2>4. op = None /\ op' = [step |-> "sent", want |-> want] /\ want \in Wants
    BY <1>1, <2>3, ListFacts DEF List!Act, ScreensInv
  <2>5. op' \in Ops
    BY <2>4 DEF Ops
  <2>6. QED BY <1>1, <2>4, <2>5, ListFacts DEF ScreensInv
<1>2. ScreensInv /\ [Next]_vars =>
        [("action" \in errors /\ "action" \notin errors') => op = None /\ op' # None]_(List!vars)
  BY <1>1
<1>3. QED BY <1>2, ScreensInvariant, PTL DEF Spec, ActionErrorStays, List!ActionErrorStays
=============================================================================
