-------------------------- MODULE CrashMonitorProofs --------------------------
(***************************************************************************)
(* What holds of CrashMonitor for any servers, any page size, any faults   *)
(* and any bounds: its types, that the feed is consumed exactly once, that *)
(* no mark outlives the action it stands for, that no crash is announced   *)
(* twice from the observed state, and, in the cases that Undisturbed       *)
(* names, that no recovery is announced twice.                             *)
(***************************************************************************)
EXTENDS CrashMonitor, Induction, FiniteSetTheorems, TLAPS

Row == [name : Name, kind : Kinds, incident : Nat]
Incident == [server : Server, own : BOOLEAN, later : BOOLEAN]

\* The inductive invariant of the feed: rows up to the mark were handled at
\* most once, rows beyond it not at all, and with a page as long as the feed
\* none between the priming and the mark was left out.
FeedInv ==
    /\ incidents \in Seq(Incident)
    /\ rows \in Seq(Row) /\ Len(rows) <= MaxRows
    /\ mark \in 0..Len(rows)
    /\ first \in 0..(MaxRows + 1)
    /\ noticesPrimed \in BOOLEAN
    /\ noticesPrimed => first <= mark
    /\ ~noticesPrimed => first = MaxRows + 1 /\ mark = 0
    /\ heard \in [1..MaxRows -> Nat]
    /\ NoticeHeardOnce
    /\ \A i \in 1..MaxRows : i > mark => heard[i] = 0
    /\ MaxRows <= Page => NoNoticeMissed

LEMMA FeedInit == Init => FeedInv
<1> SUFFICES ASSUME Init PROVE FeedInv
  OBVIOUS
<1>1. rows = <<>> /\ mark = 0 /\ first = MaxRows + 1 /\ noticesPrimed = FALSE
      /\ heard = [i \in 1..MaxRows |-> 0]
  BY DEF Init
<1>2. MaxRows \in Nat
  BY ConstAssumption DEF ConstAssumption
<1>3. rows \in Seq(Row) /\ Len(rows) = 0 /\ incidents \in Seq(Incident)
  BY <1>1 DEF Init
<1>4. NoticeHeardOnce /\ NoNoticeMissed
  BY <1>1, <1>2 DEF NoticeHeardOnce, NoNoticeMissed
<1>5. noticesPrimed \in BOOLEAN /\ ~noticesPrimed
  BY <1>1
<1>6. QED BY <1>1, <1>2, <1>3, <1>4, <1>5 DEF FeedInv

\* What the monitor remembers of the feed.
feedVars == <<mark, first, heard, noticesPrimed>>

\* Between two polls the feed stays or grows by one row.
RowsGrow == rows' = rows \/ \E r \in Row : rows' = Append(rows, r) /\ Len(rows) < MaxRows

LEMMA PostGrows ==
    ASSUME FeedInv, NEW s \in Server, NEW kind \in Kinds, NEW i \in Nat, Post(s, kind, i)
    PROVE  RowsGrow
BY DEF Post, RowsGrow, Row, Name

LEMMA PanelStep ==
    ASSUME FeedInv, Panel
    PROVE  RowsGrow /\ UNCHANGED feedVars
<1> USE DEF feedVars, monitor, hist
<1>1. PICK s \in Server :
        Fail(s) \/ KillLands(s) \/ Halt(s) \/ ComeUp(s) \/ Boot(s)
        \/ RemoteStop(s) \/ Suspend(s) \/ Delete(s) \/ IntentExpires(s)
  BY DEF Panel
<1>2. CASE \E own \in BOOLEAN : EnterCrashed(s, own)
  <2>1. Len(incidents) + 1 \in Nat
    BY DEF FeedInv
  <2>2. QED BY <1>2, <2>1, PostGrows DEF EnterCrashed, RowsGrow, Kinds
<1>3. CASE Halt(s)
  BY <1>3, PostGrows DEF Halt, Kinds
<1>4. CASE Boot(s)
  BY <1>4, PostGrows DEF Boot, Kinds
<1>5. CASE ComeUp(s) \/ RemoteStop(s) \/ Suspend(s) \/ Delete(s) \/ IntentExpires(s)
  BY <1>5 DEF ComeUp, RemoteStop, Suspend, Delete, IntentExpires, RowsGrow, panel
<1>6. QED BY <1>1, <1>2, <1>3, <1>4, <1>5 DEF Fail, KillLands

LEMMA IdleStep ==
    ASSUME Power \/ Session \/ Wake \/ FetchList \/ UNCHANGED vars
    PROVE  rows' = rows /\ UNCHANGED feedVars
BY DEF Power, Answer, Issue, Session, Wake, FetchList, vars, feedVars, panel, monitor, hist

LEMMA IncidentsNext ==
    ASSUME incidents \in Seq(Incident), [Next]_vars
    PROVE  incidents' \in Seq(Incident)
<1>1. ASSUME NEW s \in Server, NEW own \in BOOLEAN, EnterCrashed(s, own)
      PROVE  incidents' \in Seq(Incident)
  <2>1. PICK later \in BOOLEAN :
          incidents' = Append(incidents, [server |-> s, own |-> own, later |-> later])
    BY <1>1 DEF EnterCrashed
  <2>2. [server |-> s, own |-> own, later |-> later] \in Incident
    BY DEF Incident
  <2>3. QED BY <2>1, <2>2
<1>2. CASE Panel
  BY <1>1, <1>2 DEF Panel, Fail, KillLands, Halt, ComeUp, Boot, RemoteStop, Suspend, Delete,
                    IntentExpires, panel
<1>3. CASE Power \/ Session \/ Poll \/ UNCHANGED vars
  BY <1>3 DEF Power, Answer, Issue, Session, Poll, Wake, FetchList, FetchFeed, panel, vars
<1>4. QED BY <1>2, <1>3 DEF Next

\* A new row lies beyond the mark, so nothing said of the feed changes.
LEMMA FeedGrows ==
    ASSUME FeedInv, RowsGrow, UNCHANGED feedVars, incidents' \in Seq(Incident)
    PROVE  FeedInv'
<1>1. rows' \in Seq(Row) /\ Len(rows') <= MaxRows /\ Len(rows) <= Len(rows')
      /\ Len(rows) \in Nat /\ Len(rows') \in Nat
  <2>1. rows \in Seq(Row) /\ Len(rows) \in Nat /\ Len(rows) <= MaxRows /\ MaxRows \in Nat
    BY ConstAssumption DEF FeedInv, ConstAssumption
  <2>2. ASSUME NEW r \in Row, rows' = Append(rows, r), Len(rows) < MaxRows
        PROVE  rows' \in Seq(Row) /\ Len(rows') = Len(rows) + 1
    BY <2>1, <2>2
  <2>3. QED BY <2>1, <2>2 DEF RowsGrow
<1>2. mark' = mark /\ first' = first /\ heard' = heard /\ noticesPrimed' = noticesPrimed
  BY DEF feedVars
<1>3. mark' \in 0..Len(rows')
  BY <1>1, <1>2 DEF FeedInv
<1>4. NoticeHeardOnce' /\ (MaxRows <= Page => NoNoticeMissed')
  BY <1>2 DEF FeedInv, NoticeHeardOnce, NoNoticeMissed
<1>5. /\ noticesPrimed' => first' <= mark'
      /\ ~noticesPrimed' => first' = MaxRows + 1 /\ mark' = 0
  BY <1>2 DEF FeedInv
<1>6. /\ first' \in 0..(MaxRows + 1)
      /\ heard' \in [1..MaxRows -> Nat]
      /\ \A i \in 1..MaxRows : i > mark' => heard'[i] = 0
  BY <1>2 DEF FeedInv
<1>7. noticesPrimed' \in BOOLEAN
  BY <1>2 DEF FeedInv
<1>8. QED BY <1>1, <1>3, <1>4, <1>5, <1>6, <1>7 DEF FeedInv

\* A poll handles the rows beyond the mark that are on its page, each once, and
\* moves the mark to the newest row.
LEMMA FeedRead ==
    ASSUME FeedInv, NEW read \in BOOLEAN, ReadFeed(read), UNCHANGED <<rows, incidents>>
    PROVE  FeedInv'
<1> USE ConstAssumption DEF ConstAssumption
<1>1. CASE ~read
  BY <1>1 DEF ReadFeed, Handled, FeedInv, NoticeHeardOnce, NoNoticeMissed
<1>2. CASE read
  <2>0. noticesPrimed' = TRUE
    BY <1>2, Zenon DEF ReadFeed, FeedInv
  <2>1. mark' = Len(rows) /\ mark' \in Nat
    BY <1>2 DEF ReadFeed, Advance, FeedInv
  <2>2. CASE ~noticesPrimed
    <3>1. first' = Len(rows) /\ heard' = heard
      BY <1>2, <2>2 DEF ReadFeed, Handled, FeedInv
    <3>2. \A i \in 1..MaxRows : heard[i] = 0
      BY <2>2 DEF FeedInv
    <3>3. NoticeHeardOnce' /\ NoNoticeMissed'
      BY <2>1, <3>1, <3>2 DEF FeedInv, NoticeHeardOnce, NoNoticeMissed
    <3>4. QED BY <2>0, <2>1, <3>1, <3>2, <3>3 DEF FeedInv
  <2>3. CASE noticesPrimed
    <3>1. first' = first
      BY <1>2, <2>3 DEF ReadFeed, FeedInv
    <3>2. heard' = [i \in 1..MaxRows |-> IF i \in Fresh THEN heard[i] + 1 ELSE heard[i]]
      BY <1>2, <2>3 DEF ReadFeed, Handled
    <3>3. \A i \in 1..MaxRows : i \in Fresh => heard[i] = 0
      BY DEF Fresh, FeedInv
    <3>4. \A i \in 1..MaxRows : i > Len(rows) => i \notin Fresh
      BY DEF Fresh, FeedInv
    <3>5. MaxRows <= Page => \A i \in (mark + 1)..Len(rows) : i \in Fresh
      BY DEF Fresh, FeedInv
    <3>6. \A i \in 1..MaxRows : i <= mark => i \notin Fresh
      BY DEF Fresh, FeedInv
    <3>7. NoticeHeardOnce' /\ \A i \in 1..MaxRows : i > mark' => heard'[i] = 0
      BY <2>1, <3>2, <3>3, <3>4 DEF FeedInv, NoticeHeardOnce
    <3>8. MaxRows <= Page => NoNoticeMissed'
      BY <2>1, <3>1, <3>2, <3>3, <3>5, <3>6 DEF FeedInv, NoNoticeMissed
    <3>9. QED BY <2>0, <2>1, <2>3, <3>1, <3>2, <3>7, <3>8 DEF FeedInv
  <2>4. QED BY <2>2, <2>3
<1>3. QED BY <1>1, <1>2

\* Every step keeps what the feed's invariant says.
LEMMA FeedNext ==
    ASSUME FeedInv, [Next]_vars
    PROVE  FeedInv'
<1>1. CASE Panel
  BY <1>1, PanelStep, FeedGrows, IncidentsNext DEF FeedInv
<1>2. CASE Power \/ Session \/ Wake \/ FetchList \/ UNCHANGED vars
  BY <1>2, IdleStep, FeedGrows, IncidentsNext DEF RowsGrow, FeedInv
<1>3. CASE FetchFeed
  <2>1. PICK read \in BOOLEAN : ReadFeed(read)
    BY <1>3 DEF FetchFeed
  <2>2. UNCHANGED <<rows, incidents>>
    BY <1>3 DEF FetchFeed, panel
  <2>3. QED BY <2>1, <2>2, FeedRead
<1>4. QED BY <1>1, <1>2, <1>3 DEF Next, Poll

LEMMA FeedInvariant == Spec => []FeedInv
<1>1. Init => FeedInv
  BY FeedInit
<1>2. FeedInv /\ [Next]_vars => FeedInv'
  BY FeedNext
<1>3. QED BY <1>1, <1>2, PTL DEF Spec

\* However many rows the panel writes and however many polls fail or sessions
\* end, no row of the feed is announced twice (monitor.rs:84-88, 126-148).
THEOREM NoRowIsHeardTwice == Spec => []NoticeHeardOnce
<1>1. FeedInv => NoticeHeardOnce
  BY DEF FeedInv
<1>2. QED BY <1>1, FeedInvariant, PTL

\* When a page holds every row written between two polls, each row that came
\* after the priming is heard exactly once (monitor.rs:84-88): the assumption
\* is needed, as the run of MonitorOverflow.cfg shows.
THEOREM FeedIsConsumedOnce ==
    ASSUME MaxRows <= Page
    PROVE  Spec => []EveryNoticeOnce
<1>1. FeedInv => EveryNoticeOnce
  BY DEF FeedInv, EveryNoticeOnce
<1>2. QED BY <1>1, FeedInvariant, PTL

-----------------------------------------------------------------------------
(* The marks of PowerIntent *)

\* A mark is set with the request, and whatever drops what backs it drops it too.
LEMMA MarksNext ==
    ASSUME MarksAreBacked, asked \in [Commander -> Commands \cup {None}], [Next]_vars
    PROVE  MarksAreBacked'
<1> USE DEF MarksAreBacked
<1>1. CASE Panel
  <2>1. PICK s \in Server :
          Fail(s) \/ KillLands(s) \/ Halt(s) \/ ComeUp(s) \/ Boot(s)
          \/ RemoteStop(s) \/ Suspend(s) \/ Delete(s) \/ IntentExpires(s)
    BY <1>1 DEF Panel
  <2>2. CASE IntentExpires(s)
    BY <2>2 DEF IntentExpires, user
  <2>3. CASE Suspend(s)
    BY <2>3 DEF Suspend, user
  <2>4. CASE Fail(s) \/ KillLands(s) \/ Halt(s) \/ ComeUp(s) \/ Boot(s) \/ RemoteStop(s)
             \/ Delete(s)
    <3>1. marked' = marked /\ backed' = backed /\ asked' = asked
      BY <2>4 DEF Fail, KillLands, EnterCrashed, Halt, ComeUp, Boot, RemoteStop, Delete,
                  user, hist
    <3>2. QED BY <3>1
  <2>5. QED BY <2>1, <2>2, <2>3, <2>4
<1>2. CASE Power
  <2>1. PICK c \in Commander : Answer(c) \/ \E command \in Commands : Issue(c, command)
    BY <1>2 DEF Power
  <2>2. CASE Answer(c)
    <3>1. asked[c] # None /\ asked' = [asked EXCEPT ![c] = None] /\ asked[c] \in Commands
      BY <2>2 DEF Answer
    <3>2. \A d \in Commander : d # c => asked'[d] = asked[d]
      BY <3>1
    <3>3. CASE marked' = marked \ {asked[c].server} /\ backed' = backed \ {asked[c].server}
      BY <3>1, <3>2, <3>3
    <3>4. CASE marked' = marked /\ backed' = Backed(asked[c])
      BY <3>1, <3>2, <3>4 DEF Backed
    <3>5. QED BY <2>2, <3>3, <3>4 DEF Answer
  <2>3. ASSUME NEW command \in Commands, Issue(c, command)
        PROVE  MarksAreBacked'
    <3>1. asked[c] = None /\ asked' = [asked EXCEPT ![c] = command] /\ backed' = backed
      BY <2>3 DEF Issue, hist
    <3>2. \A s \in marked' : s \in marked \/ (s = command.server /\ MarksIntent(command.signal))
      BY <2>3 DEF Issue
    <3>3. asked'[c] = command /\ \A d \in Commander : d # c => asked'[d] = asked[d]
      BY <3>1
    <3>4. command # None
      BY ConstAssumption DEF ConstAssumption
    <3>5. QED BY <3>1, <3>2, <3>3, <3>4
  <2>4. QED BY <2>1, <2>2, <2>3
<1>3. CASE Session \/ Wake \/ FetchList \/ UNCHANGED vars
  BY <1>3 DEF Session, Wake, FetchList, vars, user, hist
<1>4. CASE FetchFeed
  BY <1>4 DEF FetchFeed, user
<1>5. QED BY <1>1, <1>2, <1>3, <1>4 DEF Next, Poll

LEMMA AskedNext ==
    ASSUME asked \in [Commander -> Commands \cup {None}], [Next]_vars
    PROVE  asked' \in [Commander -> Commands \cup {None}]
<1>1. CASE Panel
  BY <1>1 DEF Panel, Fail, KillLands, EnterCrashed, Halt, ComeUp, Boot, RemoteStop, Suspend,
              Delete, IntentExpires, user
<1>2. CASE Power
  BY <1>2 DEF Power, Answer, Issue
<1>3. CASE Session \/ Poll \/ UNCHANGED vars
  BY <1>3 DEF Session, Poll, Wake, FetchList, FetchFeed, user, vars
<1>4. QED BY <1>1, <1>2, <1>3 DEF Next

\* A mark that could silence a crash always stands for a power action that is
\* under way or that the panel carried out (commands.rs:238-264, tray.rs:169-193).
THEOREM NoOrphanMarks == Spec => []MarksAreBacked
<1> DEFINE MInv == MarksAreBacked /\ asked \in [Commander -> Commands \cup {None}]
<1>1. Init => MInv
  BY DEF Init, MarksAreBacked
<1>2. MInv /\ [Next]_vars => MInv'
  BY MarksNext, AskedNext
<1>3. QED BY <1>1, <1>2, PTL DEF Spec

-----------------------------------------------------------------------------
(* Folding over a sequence *)

\* The function that MapThenFoldSet folds with exists on the indices up to n, for
\* every step that stays in A.
FoldsUpTo(A, base, step, n) ==
    \E f \in [SUBSET (1..n) -> A] :
        \A s \in SUBSET (1..n) : f[s] = IF s = {} THEN base ELSE step[<<f[s \ {Max(s)}], Max(s)>>]

LEMMA FoldGrows ==
    ASSUME NEW A, NEW base \in A, NEW step \in [A \X Nat -> A], NEW n \in Nat,
           FoldsUpTo(A, base, step, n)
    PROVE  FoldsUpTo(A, base, step, n + 1)
<1>1. PICK f \in [SUBSET (1..n) -> A] :
        \A s \in SUBSET (1..n) : f[s] = IF s = {} THEN base ELSE step[<<f[s \ {Max(s)}], Max(s)>>]
  BY DEF FoldsUpTo
<1> DEFINE g == [s \in SUBSET (1..n + 1) |->
                   IF n + 1 \in s THEN step[<<f[s \ {n + 1}], n + 1>>] ELSE f[s]]
<1>2. \A s \in SUBSET (1..n + 1) : /\ n + 1 \in s => s \ {n + 1} \in SUBSET (1..n) /\ Max(s) = n + 1
                                   /\ n + 1 \notin s => s \in SUBSET (1..n)
  <2> TAKE s \in SUBSET (1..n + 1)
  <2>1. \A i \in s : i \in Nat /\ i <= n + 1 /\ (i # n + 1 => i \in 1..n)
    OBVIOUS
  <2>2. ASSUME n + 1 \in s PROVE Max(s) = n + 1
    <3>1. \A x \in s : (\A y \in s : x >= y) => x = n + 1
      BY <2>1, <2>2
    <3>2. \A y \in s : n + 1 >= y
      BY <2>1
    <3>3. QED BY <2>2, <3>1, <3>2 DEF Max
  <2>3. QED BY <2>1, <2>2
<1>3. ASSUME NEW s \in SUBSET (1..n) PROVE n + 1 \notin s /\ s \in SUBSET (1..n + 1) /\ g[s] = f[s]
  <2>1. n + 1 \notin 1..n /\ 1..n \subseteq 1..n + 1
    OBVIOUS
  <2>2. QED BY <2>1
<1>4. \A s \in SUBSET (1..n + 1) : g[s] \in A
  BY <1>2
<1>5. ASSUME NEW s \in SUBSET (1..n + 1)
      PROVE  g[s] = IF s = {} THEN base ELSE step[<<g[s \ {Max(s)}], Max(s)>>]
  <2>1. CASE n + 1 \in s
    BY <1>2, <1>3, <2>1
  <2>2. CASE n + 1 \notin s
    <3>1. s \in SUBSET (1..n) /\ g[s] = f[s] /\ s \ {Max(s)} \in SUBSET (1..n)
      BY <1>2, <2>2
    <3>2. g[s \ {Max(s)}] = f[s \ {Max(s)}]
      BY <1>3, <3>1
    <3>3. QED BY <1>1, <3>1, <3>2
  <2>3. QED BY <2>1, <2>2
<1> HIDE DEF g
<1>6. g \in [SUBSET (1..n + 1) -> A]
  BY <1>4 DEF g
<1>7. QED BY <1>5, <1>6 DEF FoldsUpTo

LEMMA FoldExists ==
    ASSUME NEW A, NEW base \in A, NEW step \in [A \X Nat -> A]
    PROVE  \A n \in Nat : FoldsUpTo(A, base, step, n)
<1> DEFINE S == {n \in Nat : FoldsUpTo(A, base, step, n)}
<1>1. 0 \in S
  <2>1. [s \in SUBSET (1..0) |-> base] \in [SUBSET (1..0) -> A]
    OBVIOUS
  <2>2. \A s \in SUBSET (1..0) : s = {}
    OBVIOUS
  <2>3. QED BY <2>1, <2>2 DEF FoldsUpTo
<1>2. ASSUME NEW n \in S PROVE n + 1 \in S
  BY FoldGrows
<1>3. S = Nat
  <2> HIDE DEF S
  <2>1. S \subseteq Nat
    BY DEF S
  <2>2. QED BY <1>1, <1>2, <2>1, Induct
<1>4. QED BY <1>3

\* What FoldLeft takes the maximum of.
LEMMA InitialSegments ==
    ASSUME NEW n \in Nat
    PROVE  /\ 1..0 = {}
           /\ \A k \in 1..n : /\ 1..k \in SUBSET (1..n) /\ 1..k # {} /\ Max(1..k) = k
                             /\ (1..k) \ {k} = 1..k - 1 /\ k - 1 \in 0..n
           /\ \A s \in SUBSET (1..n) : s # {} => Max(s) \in s /\ Max(s) \in Nat
<1>1. ASSUME NEW k \in 1..n
      PROVE  /\ 1..k \in SUBSET (1..n) /\ 1..k # {} /\ Max(1..k) = k
             /\ (1..k) \ {k} = 1..k - 1 /\ k - 1 \in 0..n
  <2>1. 1..k \in SUBSET (1..n) /\ 1..k # {} /\ (1..k) \ {k} = 1..k - 1 /\ k - 1 \in 0..n
    OBVIOUS
  <2>2. Max(1..k) = k
    <3>1. \A x \in 1..k : (\A y \in 1..k : x >= y) => x = k
      BY <2>1
    <3>2. k \in 1..k /\ \A y \in 1..k : k >= y
      BY <2>1
    <3>3. QED BY <3>1, <3>2 DEF Max
  <2>3. QED BY <2>1, <2>2
<1>2. ASSUME NEW s \in SUBSET (1..n), s # {} PROVE Max(s) \in s /\ Max(s) \in Nat
  <2>1. s \subseteq Nat /\ \A x \in s : x <= n
    OBVIOUS
  <2>2. \E x \in s : \A y \in s : x >= y
    BY <1>2, <2>1, Greatest
  <2>3. QED BY <2>1, <2>2 DEF Max
<1>3. QED BY <1>1, <1>2

-----------------------------------------------------------------------------
(* One poll: the rows, then the servers *)

Acc == [crashed : SUBSET Name, byFeed : SUBSET (1..MaxIncidents),
        byState : [1..MaxIncidents -> Nat], onlines : [Name -> Nat], backs : [Name -> Nat],
        suspendShown : SUBSET Server]

Start == [crashed |-> crashed, byFeed |-> byFeed, byState |-> byState,
          onlines |-> onlines, backs |-> backs, suspendShown |-> suspendShown]

Noticed(read) ==
    FoldLeftDomain(LAMBDA acc, i : IF i \in Handled(read) THEN HandleNotice(acc, i) ELSE acc,
                   Start, rows)

Order == SetToSeq(DOMAIN Listed)

Done(read) == FoldLeft(Detect, Noticed(read), Order)

\* What the rows make of the accumulator, one after the other.
NoticeTrace(read, g) ==
    /\ g[0] = Start /\ g[Len(rows)] = Noticed(read)
    /\ \A k \in 1..Len(rows) :
          g[k] = IF k \in Handled(read) THEN HandleNotice(g[k - 1], k) ELSE g[k - 1]

\* What the servers make of it.
DetectTrace(read, g) ==
    /\ g[0] = Noticed(read) /\ g[Len(Order)] = Done(read)
    /\ \A k \in 1..Len(Order) : g[k] = Detect(g[k - 1], Order[k])

LEMMA NoticeFold ==
    ASSUME NEW A, Start \in A, NEW read, Len(rows) \in Nat, DOMAIN rows = 1..Len(rows),
           \A a \in A : \A i \in Handled(read) : HandleNotice(a, i) \in A
    PROVE  \E g \in [0..Len(rows) -> A] : NoticeTrace(read, g)
<1> DEFINE n == Len(rows)
           idx == [i \in DOMAIN rows |-> i]
           step == [p \in A \X Nat |-> IF p[2] \in Handled(read) THEN HandleNotice(p[1], p[2])
                                                                 ELSE p[1]]
           Fits(f) == f = [s \in SUBSET DOMAIN idx |->
                             IF s = {} THEN Start
                             ELSE IF idx[Max(s)] \in Handled(read)
                                  THEN HandleNotice(f[s \ {Max(s)}], idx[Max(s)])
                                  ELSE f[s \ {Max(s)}]]
<1>1. step \in [A \X Nat -> A] /\ \A a \in A : \A i \in Nat :
        step[<<a, i>>] = IF i \in Handled(read) THEN HandleNotice(a, i) ELSE a
  OBVIOUS
<1>2. \E f : Fits(f)
  <2> HIDE DEF step
  <2>1. FoldsUpTo(A, Start, step, n)
    BY <1>1, FoldExists
  <2>2. PICK f \in [SUBSET (1..n) -> A] :
          \A s \in SUBSET (1..n) :
              f[s] = IF s = {} THEN Start ELSE step[<<f[s \ {Max(s)}], Max(s)>>]
    BY <2>1 DEF FoldsUpTo
  <2>3. DOMAIN idx = 1..n /\ \A i \in 1..n : idx[i] = i
    OBVIOUS
  <2> HIDE DEF n, idx
  <2>4. \A s \in SUBSET (1..n) : f[s] = IF s = {} THEN Start
                             ELSE IF idx[Max(s)] \in Handled(read)
                                  THEN HandleNotice(f[s \ {Max(s)}], idx[Max(s)])
                                  ELSE f[s \ {Max(s)}]
    <3> TAKE s \in SUBSET (1..n)
    <3>1. CASE s = {}
      BY <2>2, <3>1
    <3>2. CASE s # {}
      <4>1. Max(s) \in s /\ Max(s) \in Nat /\ s \ {Max(s)} \in SUBSET (1..n)
        BY <3>2, InitialSegments DEF n
      <4>2. idx[Max(s)] = Max(s) /\ f[s \ {Max(s)}] \in A
        BY <2>2, <2>3, <4>1
      <4>3. QED BY <1>1, <2>2, <3>2, <4>1, <4>2
    <3>3. QED BY <3>1, <3>2
  <2>5. f = [s \in SUBSET (1..n) |->
                             IF s = {} THEN Start
                             ELSE IF idx[Max(s)] \in Handled(read)
                                  THEN HandleNotice(f[s \ {Max(s)}], idx[Max(s)])
                                  ELSE f[s \ {Max(s)}]]
    BY <2>2, <2>4
  <2>6. Fits(f)
    BY <2>3, <2>5
  <2> HIDE DEF Fits
  <2>7. QED BY <2>6
<1>3. PICK h : Fits(h) /\ Noticed(read) = h[DOMAIN idx]
  <2>1. Noticed(read) = (CHOOSE h : Fits(h))[DOMAIN idx]
    BY DEF Noticed, FoldLeftDomain, FoldLeft, MapThenFoldSet
  <2> HIDE DEF Fits
  <2>2. QED BY <1>2, <2>1
<1>4. h[{}] = Start /\ \A k \in 1..n :
        h[1..k] = IF k \in Handled(read) THEN HandleNotice(h[1..k - 1], k) ELSE h[1..k - 1]
  <2>1. DOMAIN idx = 1..n /\ \A i \in 1..n : idx[i] = i
    OBVIOUS
  <2> HIDE DEF n, idx
  <2>2. \A s \in SUBSET (1..n) : h[s] = IF s = {} THEN Start
                             ELSE IF idx[Max(s)] \in Handled(read)
                                  THEN HandleNotice(h[s \ {Max(s)}], idx[Max(s)])
                                  ELSE h[s \ {Max(s)}]
    BY <1>3, <2>1
  <2>3. h[{}] = Start
    BY <2>2
  <2>4. ASSUME NEW k \in 1..n
        PROVE  h[1..k] = IF k \in Handled(read) THEN HandleNotice(h[1..k - 1], k) ELSE h[1..k - 1]
    <3>1. n \in Nat
      BY DEF n
    <3>2. /\ 1..k \in SUBSET (1..n) /\ 1..k # {} /\ Max(1..k) = k
          /\ (1..k) \ {k} = 1..k - 1 /\ idx[k] = k
      BY <2>1, <3>1, InitialSegments
    <3>3. QED BY <2>2, <3>2
  <2>5. QED BY <2>3, <2>4
<1>5. \A k \in 0..n : h[1..k] \in A
  <2> DEFINE S == {k \in Nat : k <= n => h[1..k] \in A}
  <2>1. 0 \in S
    <3>1. 1..0 = {}
      OBVIOUS
    <3>2. QED BY <1>4, <3>1
  <2>2. ASSUME NEW k \in S PROVE k + 1 \in S
    <3> SUFFICES ASSUME k + 1 <= n PROVE h[1..k + 1] \in A
      OBVIOUS
    <3>1. k + 1 \in 1..n /\ (k + 1) - 1 = k /\ h[1..k] \in A
      OBVIOUS
    <3>2. h[1..k + 1] = IF k + 1 \in Handled(read) THEN HandleNotice(h[1..k], k + 1) ELSE h[1..k]
      BY <1>4, <3>1
    <3>3. QED BY <3>1, <3>2
  <2> HIDE DEF S
  <2>3. S = Nat
    <3>1. S \subseteq Nat
      BY DEF S
    <3>2. QED BY <2>1, <2>2, <3>1, Induct
  <2>4. QED BY <2>3 DEF S
<1>6. \A k \in 0..n : [j \in 0..n |-> h[1..j]][k] = h[1..k]
  OBVIOUS
<1>7. NoticeTrace(read, [k \in 0..n |-> h[1..k]])
  <2>1. 1..0 = {} /\ 0 \in 0..n /\ n \in 0..n /\ DOMAIN idx = 1..n
    OBVIOUS
  <2>2. \A k \in 1..n : k \in 0..n /\ k - 1 \in 0..n
    OBVIOUS
  <2> DEFINE g == [k \in 0..n |-> h[1..k]]
  <2>3. g[0] = Start
    BY <1>4, <1>6, <2>1
  <2>4. g[n] = Noticed(read)
    BY <1>3, <1>6, <2>1
  <2>5. \A k \in 1..n : g[k] = IF k \in Handled(read) THEN HandleNotice(g[k - 1], k) ELSE g[k - 1]
    BY <1>4, <1>6, <2>2
  <2> HIDE DEF g
  <2>6. NoticeTrace(read, g)
    BY <2>3, <2>4, <2>5 DEF NoticeTrace
  <2>7. QED BY <2>6 DEF g
<1>8. [k \in 0..n |-> h[1..k]] \in [0..n -> A]
  BY <1>5
<1>9. QED BY <1>7, <1>8

LEMMA DetectFold ==
    ASSUME NEW A, NEW read, Noticed(read) \in A, Len(Order) \in Nat, DOMAIN Order = 1..Len(Order),
           \A a \in A : \A i \in DOMAIN Order : Detect(a, Order[i]) \in A
    PROVE  \E g \in [0..Len(Order) -> A] : DetectTrace(read, g)
<1> DEFINE n == Len(Order)
           step == [p \in A \X Nat |-> IF p[2] \in 1..n THEN Detect(p[1], Order[p[2]]) ELSE p[1]]
           Fits(f) == f = [s \in SUBSET DOMAIN Order |->
                             IF s = {} THEN Noticed(read)
                             ELSE Detect(f[s \ {Max(s)}], Order[Max(s)])]
<1>1. step \in [A \X Nat -> A] /\ \A a \in A : \A i \in Nat :
        step[<<a, i>>] = IF i \in 1..n THEN Detect(a, Order[i]) ELSE a
  OBVIOUS
<1>2. \E f : Fits(f)
  <2> HIDE DEF step
  <2>1. FoldsUpTo(A, Noticed(read), step, n)
    BY <1>1, FoldExists
  <2>2. PICK f \in [SUBSET (1..n) -> A] :
          \A s \in SUBSET (1..n) :
              f[s] = IF s = {} THEN Noticed(read) ELSE step[<<f[s \ {Max(s)}], Max(s)>>]
    BY <2>1 DEF FoldsUpTo
  <2>3. DOMAIN Order = 1..n
    OBVIOUS
  <2> HIDE DEF n
  <2>4. \A s \in SUBSET (1..n) : f[s] = IF s = {} THEN Noticed(read)
                             ELSE Detect(f[s \ {Max(s)}], Order[Max(s)])
    <3> TAKE s \in SUBSET (1..n)
    <3>1. CASE s = {}
      BY <2>2, <3>1
    <3>2. CASE s # {}
      <4>1. Max(s) \in s /\ Max(s) \in Nat /\ s \ {Max(s)} \in SUBSET (1..n)
        BY <3>2, InitialSegments DEF n
      <4>2. Max(s) \in 1..n /\ f[s \ {Max(s)}] \in A
        BY <2>2, <2>3, <4>1
      <4>3. QED BY <1>1, <2>2, <3>2, <4>1, <4>2
    <3>3. QED BY <3>1, <3>2
  <2>5. f = [s \in SUBSET (1..n) |->
                             IF s = {} THEN Noticed(read)
                             ELSE Detect(f[s \ {Max(s)}], Order[Max(s)])]
    BY <2>2, <2>4
  <2>6. Fits(f)
    BY <2>3, <2>5
  <2> HIDE DEF Fits
  <2>7. QED BY <2>6
<1>3. PICK h : Fits(h) /\ Done(read) = h[DOMAIN Order]
  <2>1. Done(read) = (CHOOSE h : Fits(h))[DOMAIN Order]
    BY DEF Done, FoldLeft, MapThenFoldSet
  <2> HIDE DEF Fits
  <2>2. QED BY <1>2, <2>1
<1>4. h[{}] = Noticed(read) /\ \A k \in 1..n :
        h[1..k] = Detect(h[1..k - 1], Order[k])
  <2>1. DOMAIN Order = 1..n
    OBVIOUS
  <2> HIDE DEF n
  <2>2. \A s \in SUBSET (1..n) : h[s] = IF s = {} THEN Noticed(read)
                             ELSE Detect(h[s \ {Max(s)}], Order[Max(s)])
    BY <1>3, <2>1
  <2>3. h[{}] = Noticed(read)
    BY <2>2
  <2>4. ASSUME NEW k \in 1..n
        PROVE  h[1..k] = Detect(h[1..k - 1], Order[k])
    <3>1. n \in Nat
      BY DEF n
    <3>2. /\ 1..k \in SUBSET (1..n) /\ 1..k # {} /\ Max(1..k) = k
          /\ (1..k) \ {k} = 1..k - 1
      BY <2>1, <3>1, InitialSegments
    <3>3. QED BY <2>2, <3>2
  <2>5. QED BY <2>3, <2>4
<1>5. \A k \in 0..n : h[1..k] \in A
  <2> DEFINE S == {k \in Nat : k <= n => h[1..k] \in A}
  <2>1. 0 \in S
    <3>1. 1..0 = {}
      OBVIOUS
    <3>2. QED BY <1>4, <3>1
  <2>2. ASSUME NEW k \in S PROVE k + 1 \in S
    <3> SUFFICES ASSUME k + 1 <= n PROVE h[1..k + 1] \in A
      OBVIOUS
    <3>1. k + 1 \in 1..n /\ (k + 1) - 1 = k /\ h[1..k] \in A
      OBVIOUS
    <3>2. h[1..k + 1] = Detect(h[1..k], Order[k + 1])
      BY <1>4, <3>1
    <3>3. QED BY <3>1, <3>2
  <2> HIDE DEF S
  <2>3. S = Nat
    <3>1. S \subseteq Nat
      BY DEF S
    <3>2. QED BY <2>1, <2>2, <3>1, Induct
  <2>4. QED BY <2>3 DEF S
<1>6. \A k \in 0..n : [j \in 0..n |-> h[1..j]][k] = h[1..k]
  OBVIOUS
<1>7. DetectTrace(read, [k \in 0..n |-> h[1..k]])
  <2>1. 1..0 = {} /\ 0 \in 0..n /\ n \in 0..n /\ DOMAIN Order = 1..n
    OBVIOUS
  <2>2. \A k \in 1..n : k \in 0..n /\ k - 1 \in 0..n
    OBVIOUS
  <2> DEFINE g == [k \in 0..n |-> h[1..k]]
  <2>3. g[0] = Noticed(read)
    BY <1>4, <1>6, <2>1
  <2>4. g[n] = Done(read)
    BY <1>3, <1>6, <2>1
  <2>5. \A k \in 1..n : g[k] = Detect(g[k - 1], Order[k])
    BY <1>4, <1>6, <2>2
  <2> HIDE DEF g
  <2>6. DetectTrace(read, g)
    BY <2>3, <2>4, <2>5 DEF DetectTrace
  <2>7. QED BY <2>6 DEF g
<1>8. [k \in 0..n |-> h[1..k]] \in [0..n -> A]
  BY <1>5
<1>9. QED BY <1>7, <1>8

-----------------------------------------------------------------------------
(* Types *)

RowType == [name : Name, kind : Kinds, incident : 0..MaxIncidents]

PanelOK ==
    /\ owned \subseteq Server
    /\ state \in [Server -> States]
    /\ doing \in [Server -> {"none", "stop", "restart", "kill"}]
    /\ rows \in Seq(RowType) /\ Len(rows) <= MaxRows
    /\ incidents \in Seq(Incident) /\ Len(incidents) <= MaxIncidents
    /\ boots \in [Server -> 0..MaxBoots]
    /\ \A i \in DOMAIN rows : rows[i].kind = "crash" => rows[i].incident \in 1..Len(incidents)

UserOK ==
    /\ signedIn \in BOOLEAN
    /\ asked \in [Commander -> Commands \cup {None}]
    /\ issued \in 0..MaxActions
    /\ marked \subseteq Server /\ backed \subseteq Server

MonitorOK ==
    /\ pc \in {"sleep", "list", "feed"}
    /\ DOMAIN Listed \subseteq Server
    /\ \A s \in DOMAIN Listed : Listed[s] \in States
    /\ snap # None => snap.incidents \in 0..Len(incidents)
    /\ DOMAIN last \subseteq Server /\ \A s \in DOMAIN last : last[s] \in States
    /\ primed \in BOOLEAN

ToastsOK == Start \in Acc

\* The feed's bookkeeping is typed by FeedInv.
TypeInv == PanelOK /\ UserOK /\ MonitorOK /\ ToastsOK /\ FeedInv

LEMMA TypesFollow == TypeInv => TypeOK
<1> SUFFICES ASSUME TypeInv PROVE TypeOK
  OBVIOUS
<1>1. /\ crashed \subseteq Name /\ byFeed \subseteq 1..MaxIncidents
      /\ byState \in [1..MaxIncidents -> Nat]
      /\ onlines \in [Name -> Nat] /\ backs \in [Name -> Nat] /\ suspendShown \subseteq Server
  BY DEF TypeInv, ToastsOK, Start, Acc
<1>2. PanelOK /\ UserOK /\ MonitorOK /\ mark \in 0..Len(rows) /\ first \in 0..(MaxRows + 1)
      /\ noticesPrimed \in BOOLEAN /\ heard \in [1..MaxRows -> Nat]
  BY DEF TypeInv, FeedInv
<1>3. QED BY <1>1, <1>2 DEF TypeOK, PanelOK, UserOK, MonitorOK, RowType, Incident

LEMMA TypeInit == Init => TypeInv
<1> SUFFICES ASSUME Init PROVE TypeInv
  OBVIOUS
<1> USE ConstAssumption DEF ConstAssumption
<1>1. PanelOK
  <2>1. <<>> \in Seq(RowType) /\ <<>> \in Seq(Incident) /\ Len(<<>>) = 0 /\ DOMAIN <<>> = {}
    OBVIOUS
  <2>2. QED BY <2>1 DEF Init, PanelOK, States, Up
<1>2. UserOK
  BY DEF Init, UserOK
<1>3. MonitorOK
  <2>1. DOMAIN Nothing = {}
    BY DEF Nothing
  <2>2. primed \in BOOLEAN
    BY DEF Init
  <2>3. QED BY <2>1, <2>2 DEF Init, MonitorOK, Listed
<1>4. ToastsOK
  <2>1. /\ byState \in [1..MaxIncidents -> Nat] /\ onlines \in [Name -> Nat]
        /\ backs \in [Name -> Nat] /\ crashed = {} /\ byFeed = {} /\ suspendShown = {}
    BY DEF Init
  <2>2. QED BY <2>1 DEF ToastsOK, Start, Acc
<1>5. QED BY <1>1, <1>2, <1>3, <1>4, FeedInit DEF TypeInv

\* A row the panel posts, or does not.
LEMMA PostTyped ==
    ASSUME PanelOK, NEW s \in Server, NEW kind \in Kinds, NEW i \in 0..MaxIncidents,
           Post(s, kind, i), Len(incidents) <= Len(incidents'),
           kind = "crash" => i \in 1..Len(incidents'), Len(incidents') \in Nat
    PROVE  /\ rows' \in Seq(RowType) /\ Len(rows') <= MaxRows
           /\ \A j \in DOMAIN rows' : rows'[j].kind = "crash" => rows'[j].incident \in 1..Len(incidents')
<1> USE ConstAssumption DEF ConstAssumption
<1> DEFINE r == [name |-> NameOf[s], kind |-> kind, incident |-> i]
<1>1. r \in RowType /\ r.kind = kind /\ r.incident = i
  BY DEF RowType, Name
<1>2. rows \in Seq(RowType) /\ Len(rows) <= MaxRows /\ Len(rows) \in Nat
      /\ \A j \in DOMAIN rows : rows[j].kind = "crash" => rows[j].incident \in 1..Len(incidents')
  BY DEF PanelOK
<1>3. CASE rows' = rows
  BY <1>2, <1>3
<1>4. CASE Len(rows) < MaxRows /\ rows' = Append(rows, r)
  <2> HIDE DEF r
  <2>1. rows' \in Seq(RowType) /\ Len(rows') = Len(rows) + 1
    BY <1>1, <1>2, <1>4
  <2>2. /\ DOMAIN rows' = DOMAIN rows \cup {Len(rows) + 1} /\ rows'[Len(rows) + 1] = r
        /\ \A j \in DOMAIN rows : rows'[j] = rows[j]
    BY <1>1, <1>2, <1>4
  <2>3. QED BY <1>1, <1>2, <1>4, <2>1, <2>2
<1>5. QED BY <1>3, <1>4 DEF Post

\* The monitor's types do not depend on the panel, but for how many crashes there were.
LEMMA SameMonitor ==
    ASSUME MonitorOK, ToastsOK, UNCHANGED monitor, UNCHANGED toasts,
           Len(incidents) <= Len(incidents'), Len(incidents) \in Nat, Len(incidents') \in Nat
    PROVE  MonitorOK' /\ ToastsOK'
<1>1. UNCHANGED <<pc, snap, last, primed>> /\ Listed' = Listed
  BY DEF monitor, Listed
<1>2. MonitorOK'
  BY <1>1 DEF MonitorOK
<1>3. Start' = Start
  BY DEF monitor, toasts, Start
<1>4. QED BY <1>2, <1>3 DEF ToastsOK, Acc

LEMMA PanelTyped ==
    ASSUME TypeInv, Panel
    PROVE  PanelOK' /\ UserOK' /\ MonitorOK' /\ ToastsOK'
<1> USE ConstAssumption DEF ConstAssumption, TypeInv
<1>0. PICK s \in Server :
        Fail(s) \/ KillLands(s) \/ Halt(s) \/ ComeUp(s) \/ Boot(s)
        \/ RemoteStop(s) \/ Suspend(s) \/ Delete(s) \/ IntentExpires(s)
  BY DEF Panel
<1>1. Len(incidents) \in Nat
  BY DEF PanelOK
<1>a. UNCHANGED user /\ UNCHANGED marked /\ backed' = backed => UserOK'
  BY DEF UserOK, user
<1>2. ASSUME NEW own \in BOOLEAN, EnterCrashed(s, own)
      PROVE  PanelOK' /\ UserOK' /\ MonitorOK' /\ ToastsOK'
  <2>1. PICK later \in BOOLEAN :
          incidents' = Append(incidents, [server |-> s, own |-> own, later |-> later])
    BY <1>2 DEF EnterCrashed
  <2>2. [server |-> s, own |-> own, later |-> later] \in Incident
    BY DEF Incident
  <2>3. incidents' \in Seq(Incident) /\ Len(incidents') = Len(incidents) + 1
        /\ Len(incidents') <= MaxIncidents
    BY <1>1, <1>2, <2>1, <2>2 DEF PanelOK, EnterCrashed
  <2>4. /\ rows' \in Seq(RowType) /\ Len(rows') <= MaxRows
        /\ \A j \in DOMAIN rows' : rows'[j].kind = "crash" => rows'[j].incident \in 1..Len(incidents')
    <3>1. CASE Post(s, "crash", Len(incidents) + 1)
      <4>1. Len(incidents) + 1 \in 0..MaxIncidents /\ Len(incidents) + 1 \in 1..Len(incidents')
        BY <1>1, <2>3
      <4>2. QED BY <1>1, <2>3, <3>1, <4>1, PostTyped DEF Kinds
    <3>2. CASE rows' = rows
      BY <1>1, <2>3, <3>2 DEF PanelOK
    <3>3. QED BY <1>2, <3>1, <3>2 DEF EnterCrashed
  <2>5. PanelOK'
    BY <1>2, <2>3, <2>4 DEF PanelOK, EnterCrashed, States
  <2>6. UserOK'
    BY <1>2, <1>a DEF EnterCrashed, hist
  <2>7. QED BY <1>1, <1>2, <2>3, <2>5, <2>6, SameMonitor DEF EnterCrashed, hist
<1>3. CASE Halt(s) \/ Boot(s)
  <2>1. incidents' = incidents /\ UNCHANGED <<owned, user, marked, monitor, hist>>
    BY <1>3 DEF Halt, Boot
  <2>2. Post(s, "offline", 0) \/ Post(s, "online", 0)
    BY <1>3 DEF Halt, Boot
  <2>3. /\ rows' \in Seq(RowType) /\ Len(rows') <= MaxRows
        /\ \A j \in DOMAIN rows' : rows'[j].kind = "crash" => rows'[j].incident \in 1..Len(incidents')
    <3>1. 0 \in 0..MaxIncidents
      OBVIOUS
    <3>2. QED BY <1>1, <2>1, <2>2, <3>1, PostTyped DEF Kinds
  <2>4. /\ state' \in [Server -> States] /\ boots' \in [Server -> 0..MaxBoots]
        /\ doing' \in [Server -> {"none", "stop", "restart", "kill"}]
    <3>1. CASE Halt(s)
      BY <3>1 DEF Halt, PanelOK, States
    <3>2. CASE Boot(s)
      <4>1. boots[s] + 1 \in 0..MaxBoots
        BY <3>2 DEF Boot, PanelOK
      <4>2. QED BY <3>2, <4>1 DEF Boot, PanelOK, States, Up
    <3>3. QED BY <1>3, <3>1, <3>2
  <2>5. PanelOK'
    BY <2>1, <2>3, <2>4 DEF PanelOK
  <2>6. QED BY <1>1, <1>a, <2>1, <2>5, SameMonitor DEF hist
<1>4. CASE ComeUp(s) \/ RemoteStop(s) \/ Delete(s)
  <2>1. UNCHANGED <<rows, incidents, boots, user, marked, monitor, hist>>
    BY <1>4 DEF ComeUp, RemoteStop, Delete
  <2>2. /\ state' \in [Server -> States] /\ owned' \subseteq Server
        /\ doing' \in [Server -> {"none", "stop", "restart", "kill"}]
    BY <1>4 DEF ComeUp, RemoteStop, Delete, PanelOK, States, Up
  <2>3. PanelOK'
    BY <2>1, <2>2 DEF PanelOK
  <2>4. QED BY <1>1, <1>a, <2>1, <2>3, SameMonitor DEF hist
<1>5. CASE Suspend(s)
  <2>1. UNCHANGED <<owned, rows, incidents, boots, user, marked, monitor, backed, byFeed, byState,
                    onlines, backs>> /\ suspendShown' = suspendShown \ {s}
    BY <1>5 DEF Suspend
  <2>2. /\ state' \in [Server -> States]
        /\ doing' \in [Server -> {"none", "stop", "restart", "kill"}]
    BY <1>5 DEF Suspend, PanelOK, States
  <2>3. PanelOK'
    BY <2>1, <2>2 DEF PanelOK
  <2>4. UNCHANGED <<pc, snap, last, crashed, primed>> /\ Listed' = Listed
    BY <2>1 DEF monitor, Listed
  <2>5. ToastsOK'
    BY <2>1, <2>4 DEF ToastsOK, Start, Acc
  <2>6. QED BY <1>a, <2>1, <2>3, <2>4, <2>5 DEF MonitorOK
<1>6. CASE IntentExpires(s)
  <2>1. UNCHANGED <<panel, user, monitor, toasts>> /\ marked' = marked \ {s} /\ backed' = backed \ {s}
    BY <1>6 DEF IntentExpires
  <2>2. PanelOK' /\ UserOK'
    BY <2>1 DEF PanelOK, UserOK, panel, user
  <2>3. QED BY <1>1, <2>1, <2>2, SameMonitor DEF panel
<1>7. QED BY <1>0, <1>2, <1>3, <1>4, <1>5, <1>6 DEF Fail, KillLands

LEMMA UserTyped ==
    ASSUME TypeInv, Power \/ Session \/ UNCHANGED vars
    PROVE  PanelOK' /\ UserOK' /\ MonitorOK' /\ ToastsOK'
<1> USE ConstAssumption DEF ConstAssumption, TypeInv
<1>1. Len(incidents) \in Nat
  BY DEF PanelOK
<1>2. ASSUME NEW c \in Commander, Answer(c)
      PROVE  PanelOK' /\ UserOK' /\ MonitorOK' /\ ToastsOK'
  <2>1. asked[c] \in Commands /\ asked' = [asked EXCEPT ![c] = None]
        /\ UNCHANGED <<owned, rows, incidents, boots, signedIn, issued, monitor, toasts>>
    BY <1>2 DEF Answer, UserOK
  <2>2. asked[c].server \in Server /\ asked[c].signal \in Signals
    BY <2>1 DEF Commands
  <2>3. state' \in [Server -> States] /\ doing' \in [Server -> {"none", "stop", "restart", "kill"}]
    <3>1. CASE Perform(asked[c])
      <4>1. (IF asked[c].signal = "start" THEN "starting" ELSE "stopping") \in States
        BY DEF States, Up
      <4>2. (IF asked[c].signal = "start" THEN "none" ELSE asked[c].signal)
                \in {"none", "stop", "restart", "kill"}
        BY <2>2 DEF Signals
      <4>3. QED BY <3>1, <4>1, <4>2 DEF Perform, PanelOK
    <3>2. CASE UNCHANGED <<state, doing>>
      BY <3>2 DEF PanelOK
    <3>3. QED BY <1>2, <3>1, <3>2 DEF Answer
  <2>4. marked' \subseteq Server /\ backed' \subseteq Server
    BY <1>2, <2>2 DEF Answer, Backed, UserOK
  <2>5. PanelOK' /\ UserOK'
    BY <2>1, <2>3, <2>4 DEF PanelOK, UserOK
  <2>6. QED BY <1>1, <2>1, <2>5, SameMonitor
<1>3. ASSUME NEW c \in Commander, NEW command \in Commands, Issue(c, command)
      PROVE  PanelOK' /\ UserOK' /\ MonitorOK' /\ ToastsOK'
  <2>1. UNCHANGED <<panel, signedIn, monitor, hist>> /\ asked' = [asked EXCEPT ![c] = command]
        /\ issued < MaxActions /\ issued' = issued + 1 /\ command.server \in Server
    BY <1>3 DEF Issue, Commands
  <2>2. marked' \subseteq Server /\ backed' \subseteq Server
    BY <1>3, <2>1 DEF Issue, UserOK, hist
  <2>3. issued' \in 0..MaxActions
    BY <2>1 DEF UserOK
  <2>4. PanelOK' /\ UserOK'
    BY <2>1, <2>2, <2>3 DEF PanelOK, UserOK, panel
  <2>5. QED BY <1>1, <2>1, <2>4, SameMonitor DEF panel, hist
<1>4. CASE Session
  <2>1. UNCHANGED <<panel, asked, issued, marked, monitor, hist>> /\ signedIn' = ~signedIn
    BY <1>4 DEF Session
  <2>2. UserOK'
    <3>1. signedIn' \in BOOLEAN
      BY <2>1
    <3>2. QED BY <2>1, <3>1 DEF UserOK, hist
  <2>3. PanelOK'
    BY <2>1 DEF PanelOK, panel
  <2>4. QED BY <1>1, <2>1, <2>2, <2>3, SameMonitor DEF panel, hist
<1>5. CASE UNCHANGED vars
  <2>1. UNCHANGED <<panel, user, marked, monitor, hist>>
    BY <1>5 DEF vars
  <2>2. PanelOK' /\ UserOK'
    BY <2>1 DEF PanelOK, UserOK, panel, user, hist
  <2>3. QED BY <1>1, <2>1, <2>2, SameMonitor DEF panel, hist
<1>6. QED BY <1>2, <1>3, <1>4, <1>5 DEF Power

LEMMA WakeTyped ==
    ASSUME TypeInv, Wake \/ FetchList
    PROVE  PanelOK' /\ UserOK' /\ MonitorOK' /\ ToastsOK'
<1> USE DEF TypeInv
<1>1. UNCHANGED <<panel, user, marked, hist>>
  BY DEF Wake, FetchList
<1>2. PanelOK' /\ UserOK'
  BY <1>1 DEF PanelOK, UserOK, panel, user, hist
<1>3. crashed' \in {crashed, {}}
  BY DEF Wake, FetchList
<1>4. ToastsOK'
  BY <1>1, <1>3 DEF ToastsOK, Start, Acc, hist, toasts
<1>5. MonitorOK'
  <2>1. primed' \in BOOLEAN
    BY DEF Wake, FetchList, MonitorOK
  <2>2. pc' \in {"sleep", "list", "feed"}
    BY DEF Wake, FetchList, MonitorOK
  <2>3. DOMAIN last' \subseteq Server /\ \A s \in DOMAIN last' : last'[s] \in States
    BY DEF Wake, FetchList, MonitorOK, Nothing
  <2>4. CASE Wake
    BY <1>1, <2>1, <2>2, <2>3, <2>4 DEF Wake, MonitorOK, Listed, panel
  <2>5. CASE FetchList
    <3>1. incidents' = incidents /\ Len(incidents) \in 0..Len(incidents)
      BY <1>1 DEF panel, PanelOK
    <3>2. CASE snap' = None
      BY <2>1, <2>2, <2>3, <3>2 DEF MonitorOK, Listed, Nothing
    <3>3. CASE snap' = [page |-> [s \in owned |-> state[s]], incidents |-> Len(incidents)]
      <4>1. snap'.page = [s \in owned |-> state[s]] /\ snap'.incidents = Len(incidents)
        BY <3>3
      <4>2. Listed' = Nothing \/ Listed' = snap'.page
        BY DEF Listed, Nothing
      <4>3. DOMAIN Listed' \subseteq Server /\ \A s \in DOMAIN Listed' : Listed'[s] \in States
        BY <4>1, <4>2 DEF Nothing, PanelOK
      <4>4. QED BY <2>1, <2>2, <2>3, <3>1, <4>1, <4>3 DEF MonitorOK
    <3>4. QED BY <2>5, <3>2, <3>3 DEF FetchList
  <2>6. QED BY <2>4, <2>5
<1>6. QED BY <1>2, <1>4, <1>5

\* The newest crash of a server that the snapshot knows of.
LEMMA IncidentIs ==
    ASSUME NEW s, snap.incidents \in Nat
    PROVE  /\ IncidentOf(s) \in 0..snap.incidents
           /\ IncidentOf(s) # 0 => incidents[IncidentOf(s)].server = s
           /\ \A i \in 1..snap.incidents : incidents[i].server = s => i <= IncidentOf(s)
<1> DEFINE mine == {i \in 1..snap.incidents : incidents[i].server = s}
<1>1. CASE mine = {}
  <2>1. IncidentOf(s) = 0
    BY <1>1 DEF IncidentOf
  <2>2. QED BY <1>1, <2>1
<1>2. CASE mine # {}
  <2>1. mine \subseteq Nat /\ \A i \in mine : i <= snap.incidents
    OBVIOUS
  <2> HIDE DEF mine
  <2>2. \E i \in mine : \A j \in mine : i >= j
    BY <1>2, <2>1, Greatest
  <2>3. \E i \in mine : \A j \in mine : j <= i
    BY <2>1, <2>2
  <2>4. IncidentOf(s) = CHOOSE i \in mine : \A j \in mine : j <= i
    BY <1>2 DEF IncidentOf, mine
  <2>5. IncidentOf(s) \in mine /\ \A j \in mine : j <= IncidentOf(s)
    BY <2>3, <2>4
  <2>6. QED BY <2>5 DEF mine
<1>3. QED BY <1>1, <1>2

\* The state pass takes each server of the list once.
LEMMA OrderIs ==
    ASSUME MonitorOK
    PROVE  /\ Len(Order) \in Nat /\ DOMAIN Order = 1..Len(Order)
           /\ \A i \in DOMAIN Order : Order[i] \in DOMAIN Listed
           /\ \A i, j \in DOMAIN Order : Order[i] = Order[j] => i = j
<1> DEFINE S == DOMAIN Listed
           n == Cardinality(S)
<1>1. IsFiniteSet(S)
  BY ConstAssumption, FS_Subset DEF ConstAssumption, MonitorOK
<1>2. n \in Nat /\ ExistsBijection(1..n, S)
  BY <1>1, FS_CardinalityType
<1>3. \E f \in [1..n -> S] : IsInjective(f)
  BY <1>2 DEF ExistsBijection, Bijection, Injection, IsInjective
<1>4. Order \in [1..n -> S] /\ IsInjective(Order)
  BY <1>3 DEF Order, SetToSeq
<1>5. Len(Order) = n
  <2> HIDE DEF n
  <2>1. Order \in Seq(S)
    BY <1>2, <1>4
  <2>2. QED BY <1>2, <1>4, <2>1
<1>6. QED BY <1>2, <1>4, <1>5 DEF IsInjective

\* Handling a row keeps the types, and tells no crash from a state and no recovery.
LEMMA NoticeTyped ==
    ASSUME TypeInv, NEW a \in Acc, NEW i \in DOMAIN rows
    PROVE  /\ HandleNotice(a, i) \in Acc
           /\ HandleNotice(a, i).byState = a.byState /\ HandleNotice(a, i).backs = a.backs
           /\ \A n \in HandleNotice(a, i).crashed :
                 \/ n \in a.crashed
                 \/ /\ rows[i].kind = "crash" /\ rows[i].name = n
                    /\ \A s \in DOMAIN Listed : NameOf[s] = n => Listed[s] # "running"
<1> USE ConstAssumption DEF ConstAssumption, TypeInv
<1> DEFINE row == rows[i]
<1>1. row.name \in Name /\ row.kind \in Kinds
      /\ (row.kind = "crash" => row.incident \in 1..MaxIncidents)
  <2>1. rows \in Seq(RowType) /\ Len(incidents) <= MaxIncidents /\ Len(incidents) \in Nat
        /\ (row.kind = "crash" => row.incident \in 1..Len(incidents))
    BY DEF PanelOK
  <2>2. row \in RowType
    BY <2>1
  <2>3. QED BY <2>1, <2>2 DEF RowType
<1>2. /\ a.crashed \subseteq Name /\ a.byFeed \subseteq 1..MaxIncidents
      /\ a.byState \in [1..MaxIncidents -> Nat] /\ a.onlines \in [Name -> Nat]
  BY DEF Acc
<1>3. CASE row.kind = "crash"
  <2> DEFINE fed == IF row.name \in a.crashed THEN a.byFeed ELSE a.byFeed \cup {row.incident}
             known == IF \E s \in DOMAIN Listed : NameOf[s] = row.name /\ Listed[s] = "running"
                      THEN a.crashed ELSE a.crashed \cup {row.name}
  <2>1. HandleNotice(a, i) = [a EXCEPT !.byFeed = fed, !.crashed = known]
    BY <1>3 DEF HandleNotice
  <2>2. fed \subseteq 1..MaxIncidents /\ known \subseteq Name
    BY <1>1, <1>2, <1>3
  <2>3. \A n \in known :
           \/ n \in a.crashed
           \/ /\ row.name = n
              /\ \A s \in DOMAIN Listed : NameOf[s] = n => Listed[s] # "running"
    <3>1. CASE \E s \in DOMAIN Listed : NameOf[s] = row.name /\ Listed[s] = "running"
      <4>1. known = a.crashed
        BY <3>1
      <4> HIDE DEF known
      <4>2. QED BY <4>1
    <3>2. CASE ~ \E s \in DOMAIN Listed : NameOf[s] = row.name /\ Listed[s] = "running"
      <4>1. known = a.crashed \cup {row.name}
        BY <3>2
      <4> HIDE DEF known, row
      <4>2. ASSUME NEW n \in known
            PROVE  \/ n \in a.crashed
                   \/ /\ row.name = n
                      /\ \A s \in DOMAIN Listed : NameOf[s] = n => Listed[s] # "running"
        BY <3>2, <4>1, <4>2
      <4>3. QED BY <4>2
    <3>3. QED BY <3>1, <3>2
  <2> HIDE DEF fed, known
  <2>4. QED BY <1>3, <2>1, <2>2, <2>3 DEF Acc
<1>4. CASE row.kind # "crash"
  <2>1. \/ HandleNotice(a, i) = a
        \/ HandleNotice(a, i) = [a EXCEPT !.onlines[row.name] = @ + 1]
    BY <1>4 DEF HandleNotice
  <2>2. [a EXCEPT !.onlines[row.name] = @ + 1]
            = [a EXCEPT !.onlines = [a.onlines EXCEPT ![row.name] = @ + 1]]
    BY DEF Acc
  <2>3. [a.onlines EXCEPT ![row.name] = @ + 1] \in [Name -> Nat]
    BY <1>1, <1>2
  <2>4. QED BY <2>1, <2>2, <2>3 DEF Acc
<1>5. QED BY <1>3, <1>4

LEMMA OneMoreTyped ==
    ASSUME NEW S, NEW f \in [S -> Nat], NEW i
    PROVE  /\ OneMore(f, i) \in [S -> Nat]
           /\ \A j \in S : OneMore(f, i)[j] = IF j = i THEN f[j] + 1 ELSE f[j]
<1> DEFINE h == OneMore(f, i)
<1>1. DOMAIN h = S /\ h = [j \in S |-> h[j]]
  BY DEF OneMore
<1>2. \A j \in S : h[j] = IF j = i THEN f[j] + 1 ELSE f[j]
  BY DEF OneMore
<1> HIDE DEF h
<1>3. \A j \in S : h[j] \in Nat
  BY <1>2
<1>4. h \in [S -> Nat]
  BY <1>1, <1>3
<1>5. QED BY <1>2, <1>4 DEF h

\* So does comparing a server with the previous snapshot.
LEMMA DetectTyped ==
    ASSUME TypeInv, NEW a \in Acc, NEW s \in DOMAIN Listed
    PROVE  Detect(a, s) \in Acc
<1> USE ConstAssumption DEF ConstAssumption, TypeInv
<1>1. s \in Server /\ NameOf[s] \in Name
  BY DEF MonitorOK, Name
<1>2. CASE s \notin Compared
  BY <1>2 DEF Detect
<1>3. CASE s \in Compared
  <2> DEFINE d == Decide(last[s], Listed[s], s \in marked, NameOf[s] \in a.crashed)
             known == Forget(a, s, d.alert)
             told == IF d.alert = "crashed" /\ IncidentOf(s) > 0
                     THEN OneMore(a.byState, IncidentOf(s)) ELSE a.byState
             back == IF d.alert = "online" THEN OneMore(a.backs, NameOf[s]) ELSE a.backs
             shown == IF d.alert = "suspended" THEN a.suspendShown \cup {s} ELSE a.suspendShown
  <2>1. Detect(a, s) = [a EXCEPT !.crashed = known, !.byState = told, !.backs = back,
                                 !.suspendShown = shown]
    BY <1>3 DEF Detect
  <2>2. /\ a.crashed \subseteq Name /\ a.byState \in [1..MaxIncidents -> Nat]
        /\ a.backs \in [Name -> Nat] /\ a.suspendShown \subseteq Server
    BY DEF Acc
  <2>3. known \subseteq Name
    BY <1>1, <2>2 DEF Forget
  <2>4. told \in [1..MaxIncidents -> Nat]
    BY <2>2, OneMoreTyped
  <2>5. back \in [Name -> Nat]
    BY <1>1, <2>2, OneMoreTyped
  <2>6. shown \subseteq Server
    BY <1>1, <2>2
  <2> HIDE DEF known, told, back, shown
  <2>7. QED BY <2>1, <2>3, <2>4, <2>5, <2>6 DEF Acc
<1>4. QED BY <1>2, <1>3

\* What a poll announces is typed.
LEMMA DoneTyped ==
    ASSUME TypeInv, NEW read
    PROVE  Noticed(read) \in Acc /\ Done(read) \in Acc
<1> USE DEF TypeInv
<1>1. Len(rows) \in Nat /\ DOMAIN rows = 1..Len(rows)
  BY DEF PanelOK
<1>2. Start \in Acc /\ Handled(read) \subseteq DOMAIN rows
  BY DEF ToastsOK, Handled, Fresh
<1>3. \A a \in Acc : \A i \in Handled(read) : HandleNotice(a, i) \in Acc
  BY <1>2, NoticeTyped
<1>4. PICK g \in [0..Len(rows) -> Acc] : NoticeTrace(read, g)
  BY <1>1, <1>2, <1>3, NoticeFold
<1>5. Noticed(read) \in Acc
  BY <1>1, <1>4 DEF NoticeTrace
<1>6. \A a \in Acc : \A i \in DOMAIN Order : Detect(a, Order[i]) \in Acc
  BY OrderIs, DetectTyped
<1>7. PICK h \in [0..Len(Order) -> Acc] : DetectTrace(read, h)
  BY <1>5, <1>6, OrderIs, DetectFold
<1>8. Done(read) \in Acc
  BY <1>7, OrderIs DEF DetectTrace
<1>9. QED BY <1>5, <1>8

\* Announce in terms of the two passes.
LEMMA AnnounceIs ==
    ASSUME NEW read, Announce(read)
    PROVE  /\ crashed' = IF snap = None THEN Done(read).crashed
                         ELSE {n \in Done(read).crashed : \E s \in DOMAIN Listed : NameOf[s] = n}
           /\ byFeed' = Done(read).byFeed /\ byState' = Done(read).byState
           /\ onlines' = Done(read).onlines /\ backs' = Done(read).backs
           /\ suspendShown' = Done(read).suspendShown
BY DEF Announce, Done, Noticed, Start, Order

LEMMA FeedTyped ==
    ASSUME TypeInv, FetchFeed
    PROVE  PanelOK' /\ UserOK' /\ MonitorOK' /\ ToastsOK'
<1> USE DEF TypeInv
<1>1. UNCHANGED <<panel, user>> /\ marked' = marked \ Consumed /\ backed' = backed \ Consumed
      /\ pc' = "sleep" /\ snap' = None
  BY DEF FetchFeed
<1>2. PanelOK' /\ UserOK'
  BY <1>1 DEF PanelOK, UserOK, panel, user
<1>3. PICK read \in BOOLEAN : Announce(read)
  BY DEF FetchFeed
<1>4. Done(read) \in Acc
  BY DoneTyped
<1>5. ToastsOK'
  <2>1. /\ Done(read).crashed \subseteq Name /\ byFeed' \subseteq 1..MaxIncidents
        /\ byState' \in [1..MaxIncidents -> Nat] /\ onlines' \in [Name -> Nat]
        /\ backs' \in [Name -> Nat] /\ suspendShown' \subseteq Server
    BY <1>3, <1>4, AnnounceIs DEF Acc
  <2>2. crashed' \subseteq Name
    BY <1>3, <2>1, AnnounceIs
  <2>3. QED BY <2>1, <2>2 DEF ToastsOK, Start, Acc
<1>6. MonitorOK'
  <2>1. primed' \in BOOLEAN
    BY DEF FetchFeed, MonitorOK
  <2>2. DOMAIN last' \subseteq Server /\ \A s \in DOMAIN last' : last'[s] \in States
    BY DEF FetchFeed, MonitorOK
  <2>3. DOMAIN Listed' = {}
    BY <1>1 DEF Listed, Nothing
  <2>4. QED BY <1>1, <2>1, <2>2, <2>3 DEF MonitorOK
<1>7. QED BY <1>2, <1>5, <1>6

LEMMA TypeNext ==
    ASSUME TypeInv, [Next]_vars
    PROVE  TypeInv'
<1>1. FeedInv'
  BY FeedNext DEF TypeInv
<1>2. PanelOK' /\ UserOK' /\ MonitorOK' /\ ToastsOK'
  BY PanelTyped, UserTyped, WakeTyped, FeedTyped DEF Next, Poll
<1>3. QED BY <1>1, <1>2 DEF TypeInv

LEMMA TypeAlways == Spec => []TypeInv
<1>1. Init => TypeInv
  BY TypeInit
<1>2. TypeInv /\ [Next]_vars => TypeInv'
  BY TypeNext
<1>3. QED BY <1>1, <1>2, PTL DEF Spec

\* The panel's states, the marks and all that the monitor remembers and announces
\* keep their types, through whole polls that handle any number of rows and compare
\* any number of servers (monitor.rs:94-168).
THEOREM MonitorTyped == Spec => []TypeOK
BY TypeAlways, TypesFollow, PTL

-----------------------------------------------------------------------------
(* What a poll says of each crash *)

\* The three outcomes of comparing a server with the previous snapshot.
LEMMA DetectIs ==
    ASSUME TypeInv, NEW a \in Acc, NEW s \in DOMAIN Listed
    PROVE  \/ /\ Detect(a, s).crashed = a.crashed /\ Detect(a, s).byState = a.byState
              /\ Detect(a, s).backs = a.backs
              /\ ~(s \in Compared /\ Listed[s] = "running" /\ NameOf[s] \in a.crashed)
           \/ /\ Listed[s] = "running" /\ NameOf[s] \in a.crashed
              /\ Detect(a, s).crashed = a.crashed \ {NameOf[s]}
              /\ Detect(a, s).byState = a.byState
              /\ Detect(a, s).backs = OneMore(a.backs, NameOf[s])
           \/ /\ SeenCrashing(s)
              /\ Detect(a, s).crashed = a.crashed \cup {NameOf[s]}
              /\ Detect(a, s).byState = IF IncidentOf(s) > 0 THEN OneMore(a.byState, IncidentOf(s))
                                                             ELSE a.byState
              /\ Detect(a, s).backs = a.backs
<1>1. CASE s \notin Compared
  BY <1>1 DEF Detect
<1>2. CASE s \in Compared
  <2> DEFINE d == Decide(last[s], Listed[s], s \in marked, NameOf[s] \in a.crashed)
             known == Forget(a, s, d.alert)
             told == IF d.alert = "crashed" /\ IncidentOf(s) > 0
                     THEN OneMore(a.byState, IncidentOf(s)) ELSE a.byState
             back == IF d.alert = "online" THEN OneMore(a.backs, NameOf[s]) ELSE a.backs
             shown == IF d.alert = "suspended" THEN a.suspendShown \cup {s} ELSE a.suspendShown
  <2>1. Detect(a, s) = [a EXCEPT !.crashed = known, !.byState = told, !.backs = back,
                                 !.suspendShown = shown]
    BY <1>2 DEF Detect
  <2>2. /\ Detect(a, s).crashed = known /\ Detect(a, s).byState = told
        /\ Detect(a, s).backs = back
    <3> HIDE DEF known, told, back, shown
    <3>1. QED BY <2>1 DEF Acc
  <2>3. CASE Listed[s] = "running" /\ NameOf[s] \in a.crashed
    <3>1. d.alert = "online"
      BY <2>3 DEF Decide
    <3> HIDE DEF d
    <3>2. known = a.crashed \ {NameOf[s]} /\ told = a.byState /\ back = OneMore(a.backs, NameOf[s])
      BY <3>1 DEF Forget
    <3>3. QED BY <2>2, <2>3, <3>2
  <2>4. CASE ~(Listed[s] = "running" /\ NameOf[s] \in a.crashed)
    <3>1. d.alert \in {"crashed", "suspended", "none"} /\ (d.alert = "crashed" => SeenCrashing(s))
      BY <1>2, <2>4 DEF Decide, SeenCrashing
    <3> HIDE DEF d
    <3>2. CASE d.alert = "crashed"
      <4>1. known = a.crashed \cup {NameOf[s]} /\ back = a.backs
            /\ told = IF IncidentOf(s) > 0 THEN OneMore(a.byState, IncidentOf(s)) ELSE a.byState
        BY <3>2 DEF Forget
      <4>2. QED BY <2>2, <3>1, <3>2, <4>1
    <3>3. CASE d.alert # "crashed"
      <4>1. known = a.crashed /\ back = a.backs /\ told = a.byState
        BY <3>1, <3>3 DEF Forget
      <4>2. QED BY <2>2, <2>4, <4>1
    <3>4. QED BY <3>2, <3>3
  <2>5. QED BY <2>3, <2>4
<1>3. QED BY <1>1, <1>2

\* The rows touch neither what the states told nor the recoveries.
LEMMA NoticedIs ==
    ASSUME TypeInv, NEW read
    PROVE  Noticed(read) \in Acc /\ Noticed(read).byState = byState /\ Noticed(read).backs = backs
<1> DEFINE A == {a \in Acc : a.byState = byState /\ a.backs = backs}
<1>1. Len(rows) \in Nat /\ DOMAIN rows = 1..Len(rows)
  BY DEF TypeInv, PanelOK
<1>2. Start \in A
  BY DEF TypeInv, ToastsOK, Start
<1>3. Handled(read) \subseteq DOMAIN rows
  BY DEF Handled, Fresh
<1>4. \A a \in A : \A i \in Handled(read) : HandleNotice(a, i) \in A
  BY <1>3, NoticeTyped
<1> HIDE DEF A
<1>5. PICK g \in [0..Len(rows) -> A] : NoticeTrace(read, g)
  BY <1>1, <1>2, <1>4, NoticeFold
<1>6. Noticed(read) \in A
  BY <1>1, <1>5 DEF NoticeTrace
<1>7. QED BY <1>6 DEF A

\* A crash of s after crash i and among the first n.
Newer(s, i, n) == \E j \in (i + 1)..n : incidents[j].server = s

\* The crashes of s that the state pass announced.
ToldOf(s) == {i \in 1..MaxIncidents : byState[i] > 0 /\ incidents[i].server = s}

\* The inductive invariant of the state pass: a crash it is about to see, in the
\* snapshot or at the panel, is newer than all those of that server it announced.
TellInv ==
    /\ StateTellsOnce
    /\ \A i \in 1..MaxIncidents : byState[i] > 0 => i <= Len(incidents)
    /\ \A s \in DOMAIN last :
          last[s] # "crashed" /\ state[s] = "crashed"
            => \A i \in ToldOf(s) : Newer(s, i, Len(incidents))
    /\ snap # None =>
          /\ \A i \in 1..MaxIncidents : byState[i] > 0 => i <= snap.incidents
          /\ \A s \in DOMAIN Listed :
                /\ Listed[s] # "crashed" /\ state[s] = "crashed"
                     => Newer(s, snap.incidents, Len(incidents))
                /\ s \in DOMAIN last /\ last[s] # "crashed" /\ Listed[s] = "crashed"
                     => \A i \in ToldOf(s) : Newer(s, i, snap.incidents)

\* The panel's crashes only grow, and a server that becomes crashed adds one.
CrashesGrow ==
    /\ Len(incidents) <= Len(incidents')
    /\ \A i \in 1..Len(incidents) : incidents'[i] = incidents[i]
    /\ \A s \in Server : state'[s] = "crashed" /\ state[s] # "crashed"
         => \E j \in (Len(incidents) + 1)..Len(incidents') : incidents'[j].server = s

LEMMA PanelCrashes ==
    ASSUME TypeInv, Panel \/ Power \/ UNCHANGED <<incidents, state>>
    PROVE  CrashesGrow
<1> USE DEF TypeInv, PanelOK
<1>1. Len(incidents) \in Nat
  OBVIOUS
<1>2. CASE /\ incidents' = incidents
           /\ \A s \in Server : state'[s] = "crashed" => state[s] = "crashed"
  BY <1>1, <1>2 DEF CrashesGrow
<1>3. ASSUME NEW s \in Server, NEW own \in BOOLEAN, EnterCrashed(s, own)
      PROVE  CrashesGrow
  <2>1. PICK later : incidents' = Append(incidents, [server |-> s, own |-> own, later |-> later])
    BY <1>3 DEF EnterCrashed
  <2> DEFINE r == [server |-> s, own |-> own, later |-> later]
  <2>2. r.server = s
    OBVIOUS
  <2>3. state' = [state EXCEPT ![s] = "crashed"]
    BY <1>3 DEF EnterCrashed
  <2>4. Len(incidents') = Len(incidents) + 1
    BY <2>1
  <2>5. incidents'[Len(incidents) + 1] = r /\ \A i \in 1..Len(incidents) : incidents'[i] = incidents[i]
    BY <1>1, <2>1
  <2> HIDE DEF r
  <2>6. \A t \in Server : state'[t] = "crashed" /\ state[t] # "crashed" => t = s
    BY <2>3
  <2>7. \E j \in (Len(incidents) + 1)..Len(incidents') : incidents'[j].server = s
    BY <1>1, <2>2, <2>4, <2>5
  <2>8. QED BY <1>1, <2>4, <2>5, <2>6, <2>7 DEF CrashesGrow
<1>4. CASE Panel
  <2>1. PICK s \in Server :
          Fail(s) \/ KillLands(s) \/ Halt(s) \/ ComeUp(s) \/ Boot(s)
          \/ RemoteStop(s) \/ Suspend(s) \/ Delete(s) \/ IntentExpires(s)
    BY <1>4 DEF Panel
  <2>2. CASE Fail(s) \/ KillLands(s)
    BY <1>3, <2>2 DEF Fail, KillLands
  <2>3. CASE Halt(s) \/ ComeUp(s) \/ Boot(s) \/ RemoteStop(s) \/ Suspend(s)
    <3>1. incidents' = incidents
      BY <2>3 DEF Halt, ComeUp, Boot, RemoteStop, Suspend
    <3>2. \A t \in Server : state'[t] = "crashed" => state[t] = "crashed"
      BY <2>3 DEF Halt, ComeUp, Boot, RemoteStop, Suspend
    <3>3. QED BY <1>2, <3>1, <3>2
  <2>4. CASE Delete(s) \/ IntentExpires(s)
    BY <1>2, <2>4 DEF Delete, IntentExpires, panel
  <2>5. QED BY <2>1, <2>2, <2>3, <2>4
<1>5. CASE Power
  <2>1. PICK c \in Commander : Answer(c) \/ \E command \in Commands : Issue(c, command)
    BY <1>5 DEF Power
  <2>2. incidents' = incidents
    BY <2>1 DEF Answer, Issue, panel
  <2>3. \A s \in Server : state'[s] = "crashed" => state[s] = "crashed"
    BY <2>1 DEF Answer, Issue, panel, Perform
  <2>4. QED BY <1>2, <2>2, <2>3
<1>6. QED BY <1>2, <1>4, <1>5

LEMMA PanelKeeps ==
    ASSUME Panel \/ Power \/ Session \/ Wake \/ UNCHANGED vars
    PROVE  UNCHANGED <<snap, byState, backs>> /\ (last' = last \/ last' = Nothing)
<1>1. ASSUME NEW s \in Server,
             Fail(s) \/ KillLands(s) \/ Halt(s) \/ ComeUp(s) \/ Boot(s)
             \/ RemoteStop(s) \/ Suspend(s) \/ Delete(s) \/ IntentExpires(s)
      PROVE  UNCHANGED <<snap, byState, backs, last>>
  BY <1>1 DEF Fail, KillLands, EnterCrashed, Halt, ComeUp, Boot, RemoteStop, Suspend, Delete,
              IntentExpires, monitor, hist, toasts
<1>2. CASE Panel
  BY <1>1, <1>2 DEF Panel
<1>3. CASE Power \/ Session \/ Wake \/ UNCHANGED vars
  BY <1>3 DEF Power, Answer, Issue, Session, Wake, vars, monitor, hist, toasts
<1>4. QED BY <1>2, <1>3

\* Between two fetches only the panel moves, and its new crashes are newer.
LEMMA TellStays ==
    ASSUME TypeInv, TypeInv', TellInv, CrashesGrow,
           UNCHANGED <<snap, byState>>, last' = last \/ last' = Nothing
    PROVE  TellInv'
<1> USE ConstAssumption DEF ConstAssumption
<1>1. Len(incidents) \in Nat /\ Len(incidents') \in Nat /\ Len(incidents) <= Len(incidents')
  BY DEF TypeInv, PanelOK, CrashesGrow
<1>2. Listed' = Listed /\ (snap # None => snap.incidents \in 0..Len(incidents))
      /\ DOMAIN Listed \subseteq Server /\ DOMAIN last \subseteq Server
  BY DEF Listed, TypeInv, MonitorOK
<1>3. ASSUME NEW s, NEW i \in Nat, NEW n \in 0..Len(incidents), Newer(s, i, n)
      PROVE  Newer(s, i, n)'
  <2>1. PICK j \in (i + 1)..n : incidents[j].server = s
    BY <1>3 DEF Newer
  <2>2. j \in 1..Len(incidents) /\ incidents'[j] = incidents[j]
    BY <1>1, <2>1 DEF CrashesGrow
  <2>3. QED BY <2>1, <2>2 DEF Newer
<1>4. ASSUME NEW s, NEW i \in Nat, NEW n \in 0..Len(incidents), Newer(s, i, n)
      PROVE  Newer(s, i, Len(incidents))'
  <2>1. PICK j \in (i + 1)..n : incidents'[j].server = s
    BY <1>3, <1>4 DEF Newer
  <2>2. j \in (i + 1)..Len(incidents')
    BY <1>1, <2>1
  <2>3. QED BY <2>1, <2>2 DEF Newer
<1>5. ASSUME NEW s \in Server, state'[s] = "crashed", state[s] # "crashed",
             NEW i \in 0..Len(incidents)
      PROVE  Newer(s, i, Len(incidents))'
  <2>1. PICK j \in (Len(incidents) + 1)..Len(incidents') : incidents'[j].server = s
    BY <1>5 DEF CrashesGrow
  <2>2. j \in (i + 1)..Len(incidents')
    BY <1>1, <2>1
  <2>3. QED BY <2>1, <2>2 DEF Newer
<1>6. \A i \in 1..MaxIncidents : byState[i] > 0 => i \in 1..Len(incidents)
  BY <1>1 DEF TellInv
<1>7. \A s : ToldOf(s)' = ToldOf(s) /\ ToldOf(s) \subseteq 1..Len(incidents)
  <2> TAKE s
  <2>1. \A i \in 1..MaxIncidents : byState[i] > 0 => incidents'[i] = incidents[i]
    BY <1>6 DEF CrashesGrow
  <2>2. QED BY <1>6, <2>1 DEF ToldOf
<1>8. StateTellsOnce' /\ \A i \in 1..MaxIncidents : byState'[i] > 0 => i <= Len(incidents')
  BY <1>1, <1>6 DEF StateTellsOnce, TellInv
<1>9. ASSUME NEW s \in DOMAIN last', last'[s] # "crashed", state'[s] = "crashed", NEW i \in ToldOf(s)'
      PROVE  Newer(s, i, Len(incidents))'
  <2>1. last' = last /\ s \in Server
    BY <1>2, <1>9 DEF Nothing
  <2>2. i \in ToldOf(s) /\ i \in 1..Len(incidents) /\ i \in Nat
    BY <1>7, <1>9
  <2>3. CASE state[s] = "crashed"
    <3>1. Newer(s, i, Len(incidents))
      BY <1>9, <2>1, <2>2, <2>3 DEF TellInv
    <3>2. Len(incidents) \in 0..Len(incidents)
      BY <1>1
    <3>3. QED BY <1>4, <2>2, <3>1, <3>2
  <2>4. CASE state[s] # "crashed"
    BY <1>5, <1>9, <2>1, <2>2, <2>4
  <2>5. QED BY <2>3, <2>4
<1>10. ASSUME snap # None, NEW s \in DOMAIN Listed, Listed[s] # "crashed", state'[s] = "crashed"
       PROVE  Newer(s, snap.incidents, Len(incidents))'
  <2>1. snap.incidents \in 0..Len(incidents) /\ s \in Server /\ snap.incidents \in Nat
    BY <1>1, <1>2, <1>10
  <2>1a. snap'.incidents = snap.incidents
    OBVIOUS
  <2>2. CASE state[s] = "crashed"
    <3>1. Newer(s, snap.incidents, Len(incidents))
      BY <1>10, <2>2 DEF TellInv
    <3>2. Len(incidents) \in 0..Len(incidents)
      BY <1>1
    <3>3. PICK j \in (snap.incidents + 1)..Len(incidents) : incidents[j].server = s
      BY <3>1 DEF Newer
    <3>4. j \in 1..Len(incidents) /\ j \in (snap.incidents + 1)..Len(incidents')
      BY <1>1, <2>1, <3>3
    <3>5. incidents'[j].server = s
      BY <3>3, <3>4 DEF CrashesGrow
    <3>6. QED BY <2>1a, <3>4, <3>5 DEF Newer
  <2>3. CASE state[s] # "crashed"
    <3>1. PICK j \in (Len(incidents) + 1)..Len(incidents') : incidents'[j].server = s
      BY <1>10, <2>1, <2>3 DEF CrashesGrow
    <3>2. j \in (snap.incidents + 1)..Len(incidents')
      BY <1>1, <2>1, <3>1
    <3>3. QED BY <2>1a, <3>1, <3>2 DEF Newer
  <2>4. QED BY <2>2, <2>3
<1>11. ASSUME snap # None, NEW s \in DOMAIN Listed, s \in DOMAIN last', last'[s] # "crashed",
              Listed[s] = "crashed", NEW i \in ToldOf(s)'
       PROVE  Newer(s, i, snap.incidents)'
  <2>1. last' = last
    BY <1>11 DEF Nothing
  <2>2. i \in ToldOf(s) /\ i \in Nat
    BY <1>7, <1>11
  <2>3. Newer(s, i, snap.incidents)
    BY <1>11, <2>1, <2>2 DEF TellInv
  <2>4. PICK j \in (i + 1)..snap.incidents : incidents[j].server = s
    BY <2>3 DEF Newer
  <2>5. j \in 1..Len(incidents)
    BY <1>1, <1>2, <1>11, <2>2, <2>4
  <2>6. incidents'[j].server = s
    BY <2>4, <2>5 DEF CrashesGrow
  <2>7. snap'.incidents = snap.incidents
    OBVIOUS
  <2>8. QED BY <2>4, <2>6, <2>7 DEF Newer
<1>12. snap # None => \A i \in 1..MaxIncidents : byState[i] > 0 => i <= snap.incidents
  BY DEF TellInv
<1>13. snap' = snap /\ byState' = byState
  OBVIOUS
<1>14. QED BY <1>2, <1>8, <1>9, <1>10, <1>11, <1>12, <1>13 DEF TellInv
\* A snapshot is as new as the panel.
LEMMA TellSnaps ==
    ASSUME TypeInv, TellInv, FetchList
    PROVE  TellInv'
<1>1. UNCHANGED <<state, incidents, last, byState>>
  BY DEF FetchList, panel, hist, toasts
<1>2. /\ StateTellsOnce' /\ \A s : ToldOf(s)' = ToldOf(s)
      /\ \A i \in 1..MaxIncidents : byState'[i] > 0 => i <= Len(incidents')
  BY <1>1 DEF TellInv, StateTellsOnce, ToldOf
<1>3. \A s \in DOMAIN last' :
          last'[s] # "crashed" /\ state'[s] = "crashed"
            => \A i \in ToldOf(s)' : Newer(s, i, Len(incidents))'
  BY <1>1, <1>2 DEF TellInv, Newer
<1>4. CASE snap' = None
  BY <1>2, <1>3, <1>4 DEF TellInv
<1>5. CASE snap' = [page |-> [s \in owned |-> state[s]], incidents |-> Len(incidents)]
  <2>1. snap'.incidents = Len(incidents) /\ snap'.page = [s \in owned |-> state[s]]
    BY <1>5
  <2>2. \A s \in DOMAIN Listed' : Listed'[s] = state[s]
    <3>1. Listed' = Nothing \/ Listed' = snap'.page
      BY DEF Listed, Nothing
    <3>2. QED BY <2>1, <3>1 DEF Nothing
  <2>3. \A s \in DOMAIN Listed' : s \in DOMAIN last' /\ last'[s] # "crashed" /\ Listed'[s] = "crashed"
                 => \A i \in ToldOf(s)' : Newer(s, i, snap.incidents)'
    <3>1. ASSUME NEW s \in DOMAIN Listed', s \in DOMAIN last', last'[s] # "crashed",
                 Listed'[s] = "crashed", NEW i \in ToldOf(s)'
          PROVE  Newer(s, i, snap.incidents)'
      <4>1. state'[s] = "crashed"
        BY <1>1, <2>2, <3>1
      <4>2. Newer(s, i, Len(incidents))'
        BY <1>3, <3>1, <4>1
      <4>3. QED BY <1>1, <2>1, <4>2 DEF Newer
    <3>2. QED BY <3>1
  <2>4. \A i \in 1..MaxIncidents : byState'[i] > 0 => i <= snap'.incidents
    BY <1>1, <1>2, <2>1
  <2>5. QED BY <1>1, <1>2, <1>3, <2>2, <2>3, <2>4 DEF TellInv
<1>6. QED BY <1>4, <1>5 DEF FetchList

\* A crash the state pass sees was not announced by it before.
LEMMA SeenIsNew ==
    ASSUME TypeInv, TellInv, NEW s \in DOMAIN Listed, SeenCrashing(s), IncidentOf(s) > 0
    PROVE  /\ IncidentOf(s) \in 1..MaxIncidents /\ IncidentOf(s) <= snap.incidents
           /\ incidents[IncidentOf(s)].server = s /\ byState[IncidentOf(s)] = 0
<1> USE ConstAssumption DEF ConstAssumption
<1>1. snap # None
  BY DEF Listed, Nothing
<1>2. snap.incidents \in Nat /\ snap.incidents <= MaxIncidents
  BY <1>1 DEF TypeInv, PanelOK, MonitorOK
<1> DEFINE i == IncidentOf(s)
<1>3. i \in 1..snap.incidents /\ incidents[i].server = s
      /\ \A j \in 1..snap.incidents : incidents[j].server = s => j <= i
  BY <1>2, IncidentIs
<1>4. i \in 1..MaxIncidents
  BY <1>2, <1>3
<1> HIDE DEF i
<1>5. ASSUME byState[i] > 0 PROVE FALSE
  <2>1. i \in ToldOf(s)
    BY <1>3, <1>4, <1>5 DEF ToldOf
  <2>2. Newer(s, i, snap.incidents)
    BY <1>1, <2>1 DEF TellInv, SeenCrashing, Compared
  <2>3. PICK j \in (i + 1)..snap.incidents : incidents[j].server = s
    BY <2>2 DEF Newer
  <2>4. QED BY <1>2, <1>3, <2>3
<1>6. byState[i] \in Nat
  BY <1>4 DEF TypeInv, ToastsOK, Start, Acc
<1>7. QED BY <1>3, <1>4, <1>5, <1>6 DEF i

\* So the state pass announces each crash it sees for the first time.
LEMMA PassTells ==
    ASSUME TypeInv, TellInv, NEW read, NEW i \in 1..MaxIncidents
    PROVE  \/ Done(read).byState[i] = byState[i]
           \/ /\ byState[i] = 0 /\ Done(read).byState[i] = 1
              /\ \E s \in DOMAIN Listed : IncidentOf(s) = i /\ SeenCrashing(s)
<1> DEFINE Said(acc, k) == \/ acc.byState[i] = byState[i]
                           \/ /\ byState[i] = 0 /\ acc.byState[i] = 1
                              /\ \E j \in 1..k : Order[j] \in DOMAIN Listed
                                                 /\ IncidentOf(Order[j]) = i /\ SeenCrashing(Order[j])
<1>1. /\ Len(Order) \in Nat /\ DOMAIN Order = 1..Len(Order)
      /\ \A j \in DOMAIN Order : Order[j] \in DOMAIN Listed
      /\ \A j, k \in DOMAIN Order : Order[j] = Order[k] => j = k
  BY OrderIs DEF TypeInv
<1>2. \A a \in Acc : \A j \in DOMAIN Order : Detect(a, Order[j]) \in Acc
  BY <1>1, DetectTyped
<1>3. PICK g \in [0..Len(Order) -> Acc] : DetectTrace(read, g)
  BY <1>1, <1>2, NoticedIs, DetectFold
<1> DEFINE K == {k \in Nat : k <= Len(Order) => Said(g[k], k)}
<1>4. 0 \in K
  BY <1>3, NoticedIs DEF DetectTrace
<1>5. ASSUME NEW m \in K PROVE m + 1 \in K
  <2> SUFFICES ASSUME m + 1 <= Len(Order) PROVE Said(g[m + 1], m + 1)
    OBVIOUS
  <2> DEFINE s == Order[m + 1]
             a == g[m]
  <2>1. m \in Nat /\ m + 1 \in 1..Len(Order) /\ Said(a, m) /\ m \in 0..Len(Order)
    BY <1>1
  <2>2. g[m + 1] = Detect(a, s) /\ a \in Acc /\ s \in DOMAIN Listed
    <3>1. (m + 1) - 1 = m
      BY <2>1
    <3>2. QED BY <1>1, <1>3, <2>1, <3>1 DEF DetectTrace
  <2>3. ASSUME NEW acc, acc.byState = a.byState PROVE Said(acc, m + 1)
    <3>1. \A j \in 1..m : j \in 1..m + 1
      BY <2>1
    <3>2. QED BY <2>1, <2>3, <3>1
  <2>4. CASE g[m + 1].byState = a.byState
    BY <2>3, <2>4
  <2>5. CASE /\ SeenCrashing(s) /\ IncidentOf(s) > 0
             /\ g[m + 1].byState = OneMore(a.byState, IncidentOf(s))
    <3> HIDE DEF a, s
    <3>1. a.byState \in [1..MaxIncidents -> Nat]
      BY <2>2 DEF Acc
    <3>2. g[m + 1].byState[i] = IF i = IncidentOf(s) THEN a.byState[i] + 1 ELSE a.byState[i]
      <4>1. PICK f, j : f = a.byState /\ j = IncidentOf(s)
        OBVIOUS
      <4>2. f \in [1..MaxIncidents -> Nat] /\ g[m + 1].byState = OneMore(f, j)
        BY <2>5, <3>1, <4>1
      <4>3. OneMore(f, j)[i] = IF i = j THEN f[i] + 1 ELSE f[i]
        BY <4>2 DEF OneMore
      <4>4. QED BY <4>1, <4>2, <4>3
    <3>3. CASE i # IncidentOf(s)
      <4>1. \A j \in 1..m : j \in 1..m + 1
        BY <2>1
      <4>2. g[m + 1].byState[i] = a.byState[i]
        BY <3>2, <3>3
      <4>3. QED BY <2>1, <4>1, <4>2
    <3>4. CASE i = IncidentOf(s)
      <4>1. byState[i] = 0 /\ incidents[i].server = s
        BY <2>2, <2>5, <3>4, SeenIsNew
      <4>2. a.byState[i] = 0
        <5>1. ASSUME NEW j \in 1..m, Order[j] \in DOMAIN Listed, IncidentOf(Order[j]) = i,
                     SeenCrashing(Order[j])
              PROVE  FALSE
          <6>1. incidents[i].server = Order[j]
            BY <2>5, <3>4, <5>1, SeenIsNew
          <6>2. Order[j] = Order[m + 1]
            BY <4>1, <6>1 DEF s
          <6>3. j \in DOMAIN Order /\ m + 1 \in DOMAIN Order
            BY <1>1, <2>1
          <6>4. j = m + 1
            BY <1>1, <6>2, <6>3
          <6>5. QED BY <2>1, <6>4
        <5>2. QED BY <2>1, <4>1, <5>1
      <4>3. g[m + 1].byState[i] = 1
        BY <3>2, <3>4, <4>2
      <4>4. m + 1 \in 1..m + 1 /\ Order[m + 1] = s
        BY <2>1 DEF s
      <4>5. QED BY <2>2, <2>5, <3>4, <4>1, <4>3, <4>4
    <3>5. QED BY <3>3, <3>4
  <2>6. \/ g[m + 1].byState = a.byState
        \/ /\ SeenCrashing(s) /\ IncidentOf(s) > 0
           /\ g[m + 1].byState = OneMore(a.byState, IncidentOf(s))
    BY <2>2, DetectIs
  <2>7. QED BY <2>4, <2>5, <2>6
<1>6. K = Nat
  <2> HIDE DEF K
  <2>1. K \subseteq Nat
    BY DEF K
  <2>2. QED BY <1>4, <1>5, <2>1, Induct
<1>7. Said(g[Len(Order)], Len(Order)) /\ g[Len(Order)] = Done(read)
  BY <1>1, <1>3, <1>6 DEF DetectTrace
<1>8. QED BY <1>7

LEMMA TellPasses ==
    ASSUME TypeInv, TellInv, FetchFeed
    PROVE  TellInv'
<1> USE ConstAssumption DEF ConstAssumption
<1>1. PICK read \in BOOLEAN : Announce(read)
  BY DEF FetchFeed
<1>2. UNCHANGED <<state, incidents>> /\ snap' = None /\ byState' = Done(read).byState
      /\ last' = IF snap = None THEN last ELSE Listed
  BY <1>1, AnnounceIs DEF FetchFeed, panel
<1>3. byState \in [1..MaxIncidents -> Nat] /\ Len(incidents) \in Nat
      /\ (snap # None => snap.incidents \in 0..Len(incidents)) /\ DOMAIN Listed \subseteq Server
  BY DEF TypeInv, ToastsOK, Start, Acc, PanelOK, MonitorOK
<1>4. ASSUME NEW i \in 1..MaxIncidents
      PROVE  \/ byState'[i] = byState[i]
             \/ /\ byState[i] = 0 /\ byState'[i] = 1
                /\ \E s \in DOMAIN Listed : IncidentOf(s) = i /\ SeenCrashing(s)
  BY <1>2, PassTells
<1>5. StateTellsOnce'
  BY <1>4 DEF StateTellsOnce, TellInv
<1>6. ASSUME NEW i \in 1..MaxIncidents, byState'[i] > 0, byState[i] = 0
      PROVE  snap # None /\ i <= snap.incidents
  <2>1. PICK s \in DOMAIN Listed : IncidentOf(s) = i /\ SeenCrashing(s)
    BY <1>4, <1>6
  <2>2. snap # None
    BY <2>1 DEF Listed, Nothing
  <2>3. QED BY <2>1, <2>2, SeenIsNew
<1>7. \A i \in 1..MaxIncidents : byState'[i] > 0 => i <= Len(incidents')
  <2> TAKE i \in 1..MaxIncidents
  <2>1. CASE byState[i] = 0
    BY <1>2, <1>3, <1>6, <2>1
  <2>2. CASE byState[i] # 0
    BY <1>2, <1>3, <2>2 DEF TellInv
  <2>3. QED BY <2>1, <2>2
<1>8. ASSUME NEW s \in DOMAIN last', last'[s] # "crashed", state'[s] = "crashed", NEW i \in ToldOf(s)'
      PROVE  Newer(s, i, Len(incidents))'
  <2>1. i \in 1..MaxIncidents /\ byState'[i] > 0 /\ incidents[i].server = s
    BY <1>2, <1>8 DEF ToldOf
  <2>2. CASE snap = None
    <3>1. byState[i] > 0
      BY <1>3, <1>6, <2>1, <2>2
    <3>2. i \in ToldOf(s) /\ s \in DOMAIN last /\ last[s] # "crashed" /\ state[s] = "crashed"
      BY <1>2, <1>8, <2>1, <2>2, <3>1 DEF ToldOf
    <3>3. Newer(s, i, Len(incidents))
      BY <3>2 DEF TellInv
    <3>4. QED BY <1>2, <3>3 DEF Newer
  <2>3. CASE snap # None
    <3>1. s \in DOMAIN Listed /\ Listed[s] # "crashed" /\ state[s] = "crashed"
      BY <1>2, <1>8, <2>3
    <3>2. Newer(s, snap.incidents, Len(incidents))
      BY <2>3, <3>1 DEF TellInv
    <3>3. i <= snap.incidents
      <4>1. CASE byState[i] = 0
        BY <1>6, <2>1, <4>1
      <4>2. CASE byState[i] # 0
        BY <1>3, <2>1, <2>3, <4>2 DEF TellInv
      <4>3. QED BY <4>1, <4>2
    <3>4. PICK j \in (snap.incidents + 1)..Len(incidents) : incidents[j].server = s
      BY <3>2 DEF Newer
    <3>5. j \in (i + 1)..Len(incidents)
      BY <1>3, <2>1, <2>3, <3>3, <3>4
    <3>6. QED BY <1>2, <3>4, <3>5 DEF Newer
  <2>4. QED BY <2>2, <2>3
<1>9. QED BY <1>2, <1>5, <1>7, <1>8 DEF TellInv

LEMMA TellNext ==
    ASSUME TypeInv, TellInv, [Next]_vars
    PROVE  TellInv'
<1>1. CASE Panel \/ Power \/ Session \/ Wake \/ UNCHANGED vars
  <2>1. TypeInv'
    BY TypeNext
  <2>2. Panel \/ Power \/ UNCHANGED <<incidents, state>>
    BY <1>1 DEF Session, Wake, vars, panel
  <2>3. QED BY <1>1, <2>1, <2>2, PanelCrashes, PanelKeeps, TellStays
<1>2. CASE FetchList
  BY <1>2, TellSnaps
<1>3. CASE FetchFeed
  BY <1>3, TellPasses
<1>4. QED BY <1>1, <1>2, <1>3 DEF Next, Poll

\* However polls fail, sessions end and begin and servers crash again, no crash is
\* announced twice from the observed state (monitor.rs:94-98, 337-380).
THEOREM EachCrashIsToldOnce == Spec => []StateTellsOnce
<1>1. Init => TellInv
  <2> SUFFICES ASSUME Init PROVE TellInv
    OBVIOUS
  <2>1. last = Nothing /\ snap = None /\ byState = [i \in 1..MaxIncidents |-> 0]
    BY DEF Init
  <2>2. QED BY <2>1 DEF TellInv, StateTellsOnce, Nothing
<1>2. TypeInv /\ TellInv /\ [Next]_vars => TellInv'
  BY TellNext
<1>3. TellInv => StateTellsOnce
  BY DEF TellInv
<1>4. QED BY <1>1, <1>2, <1>3, TypeAlways, PTL DEF Spec

-----------------------------------------------------------------------------
(* Recoveries *)

\* What the recoveries need: servers have names of their own, the session lasts,
\* and not both requests of a poll fail.
Undisturbed ==
    /\ \A s, t \in Server : NameOf[s] = NameOf[t] => s = t
    /\ "session" \notin Env /\ ("list" \notin Env \/ "feed" \notin Env)

\* The server came up after the last recovery that was announced for its name.
CameUp(s) == backs[NameOf[s]] < boots[s]

\* The inductive invariant of the recoveries: whenever the next poll may announce
\* a recovery of a server, that server came up once more than was announced.
BackInv ==
    /\ signedIn
    /\ pc = "feed" /\ snap = None => "list" \in Env
    /\ \A s \in Server :
          /\ backs[NameOf[s]] <= boots[s]
          /\ state[s] = "running" /\ NameOf[s] \in crashed => CameUp(s)
          /\ s \in DOMAIN Listed /\ Listed[s] = "running" /\ NameOf[s] \in crashed => CameUp(s)
          /\ s \in DOMAIN Listed /\ Listed[s] # "running" /\ state[s] = "running" => CameUp(s)
          /\ "feed" \notin Env /\ state[s] = "running" =>
                \A i \in DOMAIN rows :
                    i > mark /\ rows[i].kind = "crash" /\ rows[i].name = NameOf[s] => CameUp(s)

\* What a poll keeps between two rows or two servers.
Owed(acc) ==
    \A s \in Server :
        /\ acc.backs[NameOf[s]] <= boots[s]
        /\ s \in DOMAIN Listed /\ Listed[s] = "running" /\ NameOf[s] \in acc.crashed
             => acc.backs[NameOf[s]] < boots[s]
        /\ NameOf[s] \in acc.crashed /\ state[s] = "running" /\ (snap = None \/ s \in DOMAIN Listed)
             => acc.backs[NameOf[s]] < boots[s]
        /\ s \in DOMAIN Listed /\ Listed[s] # "running" /\ state[s] = "running"
             => acc.backs[NameOf[s]] < boots[s]

LEMMA OwedByRow ==
    ASSUME TypeInv, BackInv, Undisturbed, pc = "feed", NEW a \in Acc, Owed(a), a.backs = backs,
           NEW read, NEW i \in Handled(read)
    PROVE  Owed(HandleNotice(a, i))
<1> DEFINE b == HandleNotice(a, i)
<1>1. i \in DOMAIN rows /\ i > mark
  BY DEF Handled, Fresh
<1>2. b.backs = a.backs
  BY <1>1, NoticeTyped
<1>3. ASSUME NEW n \in b.crashed
      PROVE  \/ n \in a.crashed
             \/ /\ rows[i].kind = "crash" /\ rows[i].name = n
                /\ \A s \in DOMAIN Listed : NameOf[s] = n => Listed[s] # "running"
  BY <1>1, <1>3, NoticeTyped
<1> HIDE DEF b
<1>4. ASSUME NEW s \in Server, s \in DOMAIN Listed, Listed[s] = "running", NameOf[s] \in b.crashed
      PROVE  a.backs[NameOf[s]] < boots[s]
  <2>1. NameOf[s] \in a.crashed
    BY <1>3, <1>4
  <2>2. QED BY <1>4, <2>1 DEF Owed
<1>5. ASSUME NEW s \in Server, NameOf[s] \in b.crashed, state[s] = "running",
             snap = None \/ s \in DOMAIN Listed
      PROVE  a.backs[NameOf[s]] < boots[s]
  <2>1. CASE NameOf[s] \in a.crashed
    BY <1>5, <2>1 DEF Owed
  <2>2. CASE /\ rows[i].kind = "crash" /\ rows[i].name = NameOf[s]
             /\ \A t \in DOMAIN Listed : NameOf[t] = NameOf[s] => Listed[t] # "running"
    <3>1. CASE s \in DOMAIN Listed
      BY <1>5, <2>2, <3>1 DEF Owed
    <3>2. CASE snap = None
      <4>1. "feed" \notin Env
        BY <3>2 DEF BackInv, Undisturbed
      <4>2. CameUp(s)
        BY <1>1, <1>5, <2>2, <4>1 DEF BackInv
      <4>3. QED BY <4>2 DEF CameUp
    <3>3. QED BY <1>5, <3>1, <3>2
  <2>3. QED BY <1>3, <1>5, <2>1, <2>2
<1>6. QED BY <1>2, <1>4, <1>5 DEF Owed, b

LEMMA OwedByServer ==
    ASSUME TypeInv, Undisturbed, NEW a \in Acc, Owed(a), NEW t \in DOMAIN Listed
    PROVE  Owed(Detect(a, t))
<1> USE ConstAssumption DEF ConstAssumption
<1> DEFINE b == Detect(a, t)
<1>1. t \in Server /\ boots \in [Server -> 0..MaxBoots] /\ a.backs \in [Name -> Nat]
      /\ \A s \in Server : NameOf[s] \in Name
  BY DEF TypeInv, MonitorOK, PanelOK, Acc, Name
<1>2. CASE b.crashed = a.crashed /\ b.backs = a.backs
  BY <1>2 DEF Owed
<1>3. CASE /\ Listed[t] = "running" /\ NameOf[t] \in a.crashed
           /\ b.crashed = a.crashed \ {NameOf[t]}
           /\ b.backs = OneMore(a.backs, NameOf[t])
  <2>1. \A n \in Name : b.backs[n] = IF n = NameOf[t] THEN a.backs[n] + 1 ELSE a.backs[n]
    <3>1. PICK f : f = a.backs
      OBVIOUS
    <3>2. f \in [Name -> Nat] /\ b.backs = OneMore(f, NameOf[t])
      BY <1>1, <1>3, <3>1
    <3> HIDE DEF b
    <3>3. \A n \in Name : OneMore(f, NameOf[t])[n] = IF n = NameOf[t] THEN f[n] + 1 ELSE f[n]
      BY <3>2 DEF OneMore
    <3>4. QED BY <3>1, <3>2, <3>3
  <2> HIDE DEF b
  <2>2. a.backs[NameOf[t]] < boots[t]
    BY <1>1, <1>3 DEF Owed
  <2>3. /\ b.backs[NameOf[t]] <= boots[t] /\ NameOf[t] \notin b.crashed
    <3>1. a.backs[NameOf[t]] \in Nat /\ boots[t] \in Nat
      BY <1>1
    <3>2. QED BY <1>1, <1>3, <2>1, <2>2, <3>1
  <2>4. ASSUME NEW s \in Server, s # t
        PROVE  b.backs[NameOf[s]] = a.backs[NameOf[s]] /\ (NameOf[s] \in b.crashed => NameOf[s] \in a.crashed)
    BY <1>1, <1>3, <2>1, <2>4 DEF Undisturbed
  <2>5. ASSUME NEW s \in Server
        PROVE  /\ b.backs[NameOf[s]] <= boots[s]
               /\ s \in DOMAIN Listed /\ Listed[s] = "running" /\ NameOf[s] \in b.crashed
                     => b.backs[NameOf[s]] < boots[s]
               /\ NameOf[s] \in b.crashed /\ state[s] = "running" /\ (snap = None \/ s \in DOMAIN Listed)
                     => b.backs[NameOf[s]] < boots[s]
               /\ s \in DOMAIN Listed /\ Listed[s] # "running" /\ state[s] = "running"
                     => b.backs[NameOf[s]] < boots[s]
    <3>1. CASE s = t
      BY <1>3, <2>3, <3>1
    <3>2. CASE s # t
      BY <2>4, <3>2 DEF Owed
    <3>3. QED BY <3>1, <3>2
  <2>6. QED BY <2>5 DEF Owed, b
<1>4. CASE /\ SeenCrashing(t) /\ b.crashed = a.crashed \cup {NameOf[t]} /\ b.backs = a.backs
  <2> HIDE DEF b
  <2>1. Listed[t] = "crashed"
    BY <1>4 DEF SeenCrashing
  <2>2. ASSUME NEW s \in Server, s # t
        PROVE  NameOf[s] \in b.crashed => NameOf[s] \in a.crashed
    BY <1>1, <1>4, <2>2 DEF Undisturbed
  <2>3. ASSUME NEW s \in Server
        PROVE  /\ s \in DOMAIN Listed /\ Listed[s] = "running" /\ NameOf[s] \in b.crashed
                     => a.backs[NameOf[s]] < boots[s]
               /\ NameOf[s] \in b.crashed /\ state[s] = "running" /\ (snap = None \/ s \in DOMAIN Listed)
                     => a.backs[NameOf[s]] < boots[s]
    <3>1. CASE s = t
      BY <1>1, <2>1, <3>1 DEF Owed
    <3>2. CASE s # t
      BY <2>2, <3>2 DEF Owed
    <3>3. QED BY <3>1, <3>2
  <2>4. QED BY <1>4, <2>3 DEF Owed, b
<1>5. QED BY <1>2, <1>3, <1>4, DetectIs

LEMMA OwedAfterPoll ==
    ASSUME TypeInv, BackInv, Undisturbed, pc = "feed", NEW read
    PROVE  Owed(Done(read))
<1> DEFINE A == {a \in Acc : Owed(a) /\ a.backs = backs}
           B == {a \in Acc : Owed(a)}
<1>1. Start \in A
  <2>1. Start.backs = backs /\ Start.crashed = crashed /\ Start \in Acc
    BY DEF Start, TypeInv, ToastsOK
  <2>2. Owed(Start)
    BY <2>1 DEF Owed, BackInv, CameUp
  <2>3. QED BY <2>1, <2>2
<1>2. \A a \in A : \A i \in Handled(read) : HandleNotice(a, i) \in A
  <2> TAKE a \in A
  <2> TAKE i \in Handled(read)
  <2>1. i \in DOMAIN rows
    BY DEF Handled, Fresh
  <2>2. HandleNotice(a, i) \in Acc /\ HandleNotice(a, i).backs = backs
    BY <2>1, NoticeTyped
  <2>3. QED BY <2>2, OwedByRow
<1>3. Len(rows) \in Nat /\ DOMAIN rows = 1..Len(rows)
  BY DEF TypeInv, PanelOK
<1>4. Noticed(read) \in B
  <2> HIDE DEF A
  <2>1. PICK g \in [0..Len(rows) -> A] : NoticeTrace(read, g)
    BY <1>1, <1>2, <1>3, NoticeFold
  <2>2. Noticed(read) \in A
    BY <1>3, <2>1 DEF NoticeTrace
  <2>3. QED BY <2>2 DEF A
<1>5. /\ Len(Order) \in Nat /\ DOMAIN Order = 1..Len(Order)
      /\ \A j \in DOMAIN Order : Order[j] \in DOMAIN Listed
  BY OrderIs DEF TypeInv
<1>6. \A a \in B : \A j \in DOMAIN Order : Detect(a, Order[j]) \in B
  BY <1>5, DetectTyped, OwedByServer
<1> HIDE DEF B
<1>7. PICK g \in [0..Len(Order) -> B] : DetectTrace(read, g)
  BY <1>4, <1>5, <1>6, DetectFold
<1>8. Done(read) \in B
  BY <1>5, <1>7 DEF DetectTrace
<1>9. QED BY <1>8 DEF B
\* What happens between two fetches: servers come up, each time counted, and a new
\* crash row is about a server that is not running.
Moves ==
    /\ signedIn' /\ UNCHANGED <<snap, backs, mark, crashed>>
    /\ pc' = "feed" => pc = "feed"
    /\ \A s \in Server : /\ boots'[s] = boots[s] \/ boots'[s] = boots[s] + 1
                         /\ state'[s] = "running" /\ state[s] # "running" => boots'[s] = boots[s] + 1
    /\ \A i \in DOMAIN rows' : rows'[i].kind = "crash" =>
          \/ i \in DOMAIN rows /\ rows'[i] = rows[i]
          \/ \A s \in Server : NameOf[s] = rows'[i].name => state'[s] # "running"

LEMMA BackMoves ==
    ASSUME TypeInv, BackInv, Moves
    PROVE  BackInv'
<1> USE ConstAssumption DEF ConstAssumption
<1>1. /\ UNCHANGED <<snap, backs, mark, crashed>> /\ Listed' = Listed
      /\ \A s \in Server : boots[s] \in Nat /\ backs[NameOf[s]] \in Nat
  BY DEF Moves, Listed, TypeInv, PanelOK, ToastsOK, Start, Acc, Name
<1>2. signedIn' /\ (pc' = "feed" /\ snap' = None => "list" \in Env)
  BY DEF Moves, BackInv
<1>3. ASSUME NEW s \in Server, boots'[s] = boots[s] + 1
      PROVE  CameUp(s)'
  BY <1>1, <1>3 DEF BackInv, CameUp
<1>4. ASSUME NEW s \in Server, CameUp(s)
      PROVE  CameUp(s)'
  BY <1>1, <1>4 DEF Moves, CameUp
<1>5. ASSUME NEW s \in Server, state'[s] = "running", ~CameUp(s)'
      PROVE  state[s] = "running" /\ ~CameUp(s)
  BY <1>3, <1>4, <1>5 DEF Moves
<1>6. ASSUME NEW s \in Server
      PROVE  /\ backs'[NameOf[s]] <= boots'[s]
             /\ state'[s] = "running" /\ NameOf[s] \in crashed' => CameUp(s)'
             /\ s \in DOMAIN Listed' /\ Listed'[s] = "running" /\ NameOf[s] \in crashed' => CameUp(s)'
             /\ s \in DOMAIN Listed' /\ Listed'[s] # "running" /\ state'[s] = "running" => CameUp(s)'
  <2>1. backs'[NameOf[s]] <= boots'[s]
    BY <1>1 DEF Moves, BackInv
  <2>2. QED BY <1>1, <1>4, <1>5, <2>1 DEF BackInv
<1>7. ASSUME NEW s \in Server, "feed" \notin Env, state'[s] = "running",
             NEW i \in DOMAIN rows', i > mark', rows'[i].kind = "crash", rows'[i].name = NameOf[s]
      PROVE  CameUp(s)'
  <2>1. i \in DOMAIN rows /\ rows'[i] = rows[i]
    BY <1>7 DEF Moves
  <2>2. QED BY <1>1, <1>4, <1>5, <1>7, <2>1 DEF BackInv
<1>8. QED BY <1>2, <1>6, <1>7 DEF BackInv

LEMMA PanelMoves ==
    ASSUME TypeInv, BackInv, Undisturbed, Panel \/ Power \/ Session \/ Wake \/ UNCHANGED vars
    PROVE  Moves
<1> USE ConstAssumption DEF ConstAssumption
<1>1. /\ state \in [Server -> States] /\ boots \in [Server -> 0..MaxBoots]
      /\ rows \in Seq(RowType) /\ Len(rows) \in Nat /\ DOMAIN rows = 1..Len(rows)
      /\ signedIn /\ "session" \notin Env
  BY DEF TypeInv, PanelOK, BackInv, Undisturbed
<1>2. ASSUME NEW s \in Server, NEW kind, NEW n, Post(s, kind, n),
             kind = "crash" => state' = [state EXCEPT ![s] = "crashed"]
      PROVE  \A i \in DOMAIN rows' : rows'[i].kind = "crash" =>
                \/ i \in DOMAIN rows /\ rows'[i] = rows[i]
                \/ \A t \in Server : NameOf[t] = rows'[i].name => state'[t] # "running"
  <2> DEFINE r == [name |-> NameOf[s], kind |-> kind, incident |-> n]
  <2>1. r.name = NameOf[s] /\ r.kind = kind
    OBVIOUS
  <2>2. CASE rows' = rows
    BY <2>2
  <2>3. CASE rows' = Append(rows, r)
    <3> HIDE DEF r
    <3>1. /\ DOMAIN rows' = DOMAIN rows \cup {Len(rows) + 1} /\ rows'[Len(rows) + 1] = r
          /\ \A i \in DOMAIN rows : rows'[i] = rows[i]
      BY <1>1, <2>3
    <3>2. kind = "crash" => \A t \in Server : NameOf[t] = NameOf[s] => state'[t] # "running"
      BY <1>1, <1>2 DEF Undisturbed
    <3>3. QED BY <2>1, <3>1, <3>2
  <2>4. QED BY <1>2, <2>2, <2>3 DEF Post
<1>3. CASE Panel
  <2>1. PICK s \in Server :
          Fail(s) \/ KillLands(s) \/ Halt(s) \/ ComeUp(s) \/ Boot(s)
          \/ RemoteStop(s) \/ Suspend(s) \/ Delete(s) \/ IntentExpires(s)
    BY <1>3 DEF Panel
  <2>2. signedIn' /\ UNCHANGED <<pc, snap, backs, mark, crashed>>
    BY <1>1, <2>1 DEF Fail, KillLands, EnterCrashed, Halt, ComeUp, Boot, RemoteStop, Suspend, Delete,
                      IntentExpires, user, monitor, hist, toasts
  <2>3. \A t \in Server : /\ boots'[t] = boots[t] \/ boots'[t] = boots[t] + 1
                          /\ state'[t] = "running" /\ state[t] # "running" => boots'[t] = boots[t] + 1
    <3>1. CASE Boot(s)
      BY <1>1, <3>1 DEF Boot
    <3>2. CASE ~Boot(s)
      <4>1. boots' = boots
        BY <2>1, <3>2 DEF Fail, KillLands, EnterCrashed, Halt, ComeUp, RemoteStop, Suspend, Delete,
                          IntentExpires, panel
      <4>2. \A t \in Server : state'[t] = "running" => state[t] = "running"
        BY <1>1, <2>1, <3>2 DEF Fail, KillLands, EnterCrashed, Halt, ComeUp, RemoteStop, Suspend, Delete,
                          IntentExpires, panel
      <4>3. QED BY <4>1, <4>2
    <3>3. QED BY <3>1, <3>2
  <2>4. \A i \in DOMAIN rows' : rows'[i].kind = "crash" =>
                \/ i \in DOMAIN rows /\ rows'[i] = rows[i]
                \/ \A t \in Server : NameOf[t] = rows'[i].name => state'[t] # "running"
    <3>1. CASE rows' = rows
      BY <3>1
    <3>2. CASE Fail(s) \/ KillLands(s)
      <4>1. state' = [state EXCEPT ![s] = "crashed"]
            /\ (Post(s, "crash", Len(incidents) + 1) \/ rows' = rows)
        BY <3>2 DEF Fail, KillLands, EnterCrashed
      <4>2. QED BY <1>2, <3>1, <4>1
    <3>3. CASE Halt(s) \/ Boot(s)
      <4>1. Post(s, "offline", 0) \/ Post(s, "online", 0)
        BY <3>3 DEF Halt, Boot
      <4>2. QED BY <1>2, <4>1
    <3>4. QED BY <2>1, <3>1, <3>2, <3>3 DEF ComeUp, RemoteStop, Suspend, Delete, IntentExpires, panel
  <2>5. QED BY <2>2, <2>3, <2>4 DEF Moves
<1>4. CASE Power
  <2>1. PICK c \in Commander : Answer(c) \/ \E command \in Commands : Issue(c, command)
    BY <1>4 DEF Power
  <2>2. signedIn' /\ UNCHANGED <<pc, snap, backs, mark, crashed, rows, boots>>
    BY <1>1, <2>1 DEF Answer, Issue, panel, monitor, hist, toasts
  <2>3. \A t \in Server : state'[t] = "running" => state[t] = "running"
    BY <1>1, <2>1 DEF Answer, Issue, Perform, panel
  <2>4. QED BY <2>2, <2>3 DEF Moves
<1>5. CASE Session
  BY <1>1, <1>5 DEF Session
<1>6. CASE Wake
  <2>1. pc' = "list" /\ UNCHANGED <<panel, user, snap, backs, mark, crashed>>
    BY <1>1, <1>6 DEF Wake, hist, toasts
  <2>2. QED BY <1>1, <2>1 DEF Moves, panel, user
<1>7. CASE UNCHANGED vars
  BY <1>1, <1>7 DEF Moves, vars, panel, user, monitor, hist, toasts
<1>8. QED BY <1>3, <1>4, <1>5, <1>6, <1>7

LEMMA BackSnaps ==
    ASSUME TypeInv, BackInv, Undisturbed, FetchList
    PROVE  BackInv'
<1>1. UNCHANGED <<state, rows, boots, signedIn, mark, backs, crashed>>
  BY DEF FetchList, panel, user, hist, toasts
<1>2. \A s : CameUp(s)' = CameUp(s)
  BY <1>1 DEF CameUp
<1>3. signedIn' /\ (snap' = None => "list" \in Env)
  <2>1. signedIn'
    BY <1>1, Zenon DEF BackInv
  <2>2. [page |-> [s \in owned |-> state[s]], incidents |-> Len(incidents)] \in Snapshots
    <3>1. [s \in owned |-> state[s]] \in [owned -> States] /\ owned \in SUBSET Server
          /\ Len(incidents) \in Nat
      BY DEF TypeInv, PanelOK
    <3>2. QED BY <3>1 DEF Snapshots
  <2>3. snap' = None => "list" \in Env
    <3>1. None \notin Snapshots
      BY ConstAssumption DEF ConstAssumption
    <3>2. signedIn
      BY DEF BackInv
    <3>3. QED BY <2>2, <3>1, <3>2, Zenon DEF FetchList
  <2>4. QED BY <2>1, <2>3
<1>4. \A s \in DOMAIN Listed' : Listed'[s] = state[s]
  <2>1. CASE snap' = None
    BY <2>1 DEF Listed, Nothing
  <2>2. CASE snap' = [page |-> [s \in owned |-> state[s]], incidents |-> Len(incidents)]
    <3>1. Listed' = Nothing \/ Listed' = [s \in owned |-> state[s]]
      BY <2>2 DEF Listed
    <3>2. QED BY <3>1 DEF Nothing
  <2>3. QED BY <2>1, <2>2 DEF FetchList
<1>5. QED BY <1>1, <1>2, <1>3, <1>4 DEF BackInv

LEMMA BackPasses ==
    ASSUME TypeInv, BackInv, Undisturbed, FetchFeed
    PROVE  BackInv'
<1> USE ConstAssumption DEF ConstAssumption
<1>1. PICK read \in BOOLEAN : ReadFeed(read) /\ Announce(read)
  BY DEF FetchFeed
<1>2. /\ UNCHANGED <<state, rows, boots, signedIn>> /\ pc = "feed" /\ pc' = "sleep" /\ snap' = None
      /\ DOMAIN Listed' = {}
  BY DEF FetchFeed, panel, user, Listed, Nothing
<1>3. /\ Owed(Done(read)) /\ backs' = Done(read).backs
      /\ crashed' = IF snap = None THEN Done(read).crashed
                    ELSE {n \in Done(read).crashed : \E s \in DOMAIN Listed : NameOf[s] = n}
  BY <1>1, <1>2, AnnounceIs, OwedAfterPoll
<1>4. \A s \in Server : backs'[NameOf[s]] <= boots'[s]
  BY <1>2, <1>3 DEF Owed
<1>5. ASSUME NEW s \in Server, state'[s] = "running", NameOf[s] \in crashed'
      PROVE  CameUp(s)'
  <2>1. NameOf[s] \in Done(read).crashed
    BY <1>3, <1>5
  <2>2. snap = None \/ s \in DOMAIN Listed
    <3>1. DOMAIN Listed \subseteq Server
      BY DEF TypeInv, MonitorOK
    <3>2. QED BY <1>3, <1>5, <3>1 DEF Undisturbed
  <2>3. QED BY <1>2, <1>3, <1>5, <2>1, <2>2 DEF Owed, CameUp
<1>6. "feed" \notin Env => \A i \in DOMAIN rows' : ~(i > mark')
  <2>1. SUFFICES ASSUME "feed" \notin Env PROVE \A i \in DOMAIN rows' : ~(i > mark')
    OBVIOUS
  <2>2. read /\ mark' = Advance
    BY <1>1, <2>1 DEF ReadFeed, BackInv
  <2>3. Len(rows) \in Nat /\ DOMAIN rows = 1..Len(rows) /\ mark \in 0..Len(rows)
    BY DEF TypeInv, FeedInv
  <2>4. mark' >= Len(rows) /\ mark' \in Nat
    BY <2>2, <2>3 DEF Advance
  <2>5. QED BY <1>2, <2>3, <2>4
<1>7. signedIn'
  BY <1>2 DEF BackInv
<1>8. QED BY <1>2, <1>4, <1>5, <1>6, <1>7 DEF BackInv

\* While servers have names of their own, the session lasts and not both requests
\* of a poll fail, a server's recovery is announced no more often than it came up
\* (monitor.rs:80-82, 256-258, 356-364).
THEOREM RecoveriesAreTold ==
    ASSUME Undisturbed
    PROVE  Spec => []RecoveryToldOnce
<1>1. Init => BackInv
  <2> SUFFICES ASSUME Init PROVE BackInv
    OBVIOUS
  <2>1. /\ crashed = {} /\ snap = None /\ pc = "sleep" /\ rows = <<>> /\ signedIn
        /\ boots = [s \in Server |-> 0] /\ backs = [n \in Name |-> 0]
    BY DEF Init, Undisturbed
  <2>2. \A s \in Server : backs[NameOf[s]] = 0 /\ boots[s] = 0
    BY <2>1 DEF Name
  <2>3. DOMAIN Listed = {} /\ DOMAIN rows = {}
    BY <2>1 DEF Listed, Nothing
  <2>4. QED BY <2>1, <2>2, <2>3 DEF BackInv
<1>2. TypeInv /\ BackInv /\ [Next]_vars => BackInv'
  BY PanelMoves, BackMoves, BackSnaps, BackPasses DEF Next, Poll
<1>3. BackInv => RecoveryToldOnce
  BY DEF BackInv, RecoveryToldOnce
<1>4. QED BY <1>1, <1>2, <1>3, TypeAlways, PTL DEF Spec
=============================================================================
