----------------------------- MODULE ConsoleProofs -----------------------------
(***************************************************************************)
(* What holds of the consoles. Of one session, for every backoff, every    *)
(* bound and any subset of the faults: its types, that a rejected token is *)
(* refreshed once, that the wait tells the failures in a row, and that its *)
(* conn events are those ConsoleStatus allows. Of the window's consoles,   *)
(* for any servers, views, lines and buffer sizes: their types, that the   *)
(* screen has the one session, and that no line is missed or repeated.     *)
(***************************************************************************)
EXTENDS MCConsole, Induction, Functions, FiniteSetTheorems, TLAPS

-----------------------------------------------------------------------------
(* The doubled wait *)

\* Whatever is defined like Doubled up to n.
DoublesTo(f, n) ==
    /\ f \in [0..n -> Nat]
    /\ f[0] = BackoffMin
    /\ \A i \in 0..n : i # n => f[i + 1] = 2 * f[i]

\* Two such functions agree as far as both go.
LEMMA DoublesAlike ==
    ASSUME NEW n \in Nat, NEW m \in Nat, NEW f, NEW g, DoublesTo(f, n), DoublesTo(g, m)
    PROVE  \A i \in Nat : i <= n /\ i <= m => f[i] = g[i]
<1> DEFINE S == {i \in Nat : i <= n /\ i <= m => f[i] = g[i]}
<1>1. 0 \in S
  BY DEF DoublesTo
<1>2. ASSUME NEW i \in S PROVE i + 1 \in S
  BY DEF DoublesTo
<1>3. S = Nat
  <2> HIDE DEF S
  <2>1. S \subseteq Nat
    BY DEF S
  <2>2. QED BY <1>1, <1>2, <2>1, Induct
<1>4. QED BY <1>3

\* There is one for every length.
LEMMA DoublesExist == \A n \in Nat : \E f : DoublesTo(f, n)
<1> DEFINE S == {n \in Nat : \E f : DoublesTo(f, n)}
<1>1. 0 \in S
  <2>1. DoublesTo([i \in 0..0 |-> BackoffMin], 0)
    BY ConstAssumption DEF ConstAssumption, DoublesTo
  <2>2. QED BY <2>1
<1>2. ASSUME NEW n \in S PROVE n + 1 \in S
  <2>1. PICK f : DoublesTo(f, n)
    OBVIOUS
  <2> DEFINE g == [i \in 0..n + 1 |-> IF i <= n THEN f[i] ELSE 2 * f[n]]
  <2>2. DoublesTo(g, n + 1)
    BY <2>1 DEF DoublesTo
  <2>3. QED BY <2>2
<1>3. S = Nat
  <2> HIDE DEF S
  <2>1. S \subseteq Nat
    BY DEF S
  <2>2. QED BY <1>1, <1>2, <2>1, Induct
<1>4. QED BY <1>3

\* Doubled is what its recursive definition says.
LEMMA DoubledIs ==
    /\ Doubled \in [Nat -> Nat]
    /\ Doubled[0] = BackoffMin
    /\ \A n \in Nat : Doubled[n + 1] = 2 * Doubled[n]
<1> DEFINE F == [n \in Nat |-> CHOOSE f : DoublesTo(f, n)]
           D == [n \in Nat |-> F[n][n]]
<1>1. \A n \in Nat : DoublesTo(F[n], n)
  BY DoublesExist
<1>2. \A n \in Nat : F[n + 1][n] = F[n][n]
  BY <1>1, DoublesAlike
<1> HIDE DEF F
<1>3. D \in [Nat -> Nat] /\ D[0] = BackoffMin
  <2>1. \A n \in Nat : n \in 0..n /\ F[n] \in [0..n -> Nat]
    BY <1>1 DEF DoublesTo
  <2>2. \A n \in Nat : D[n] \in Nat
    BY <2>1
  <2>3. F[0][0] = BackoffMin
    BY <1>1 DEF DoublesTo
  <2>4. QED BY <2>2, <2>3
<1>4. \A n \in Nat : D[n + 1] = 2 * D[n]
  <2> TAKE n \in Nat
  <2>1. n + 1 \in Nat /\ n \in 0..n + 1 /\ n # n + 1
    OBVIOUS
  <2>2. F[n + 1][n + 1] = 2 * F[n + 1][n]
    BY <1>1, <2>1 DEF DoublesTo
  <2>3. QED BY <1>2, <2>1, <2>2
<1> HIDE DEF D
<1>5. D = [n \in Nat |-> IF n = 0 THEN BackoffMin ELSE 2 * D[n - 1]]
  <2>1. \A n \in Nat : D[n] = IF n = 0 THEN BackoffMin ELSE 2 * D[n - 1]
    <3>1. \A n \in Nat : n # 0 => n - 1 \in Nat /\ (n - 1) + 1 = n
      OBVIOUS
    <3>2. QED BY <1>3, <1>4, <3>1
  <2>2. QED BY <1>3, <2>1
<1>6. Doubled = [n \in Nat |-> IF n = 0 THEN BackoffMin ELSE 2 * Doubled[n - 1]]
  BY <1>5 DEF Doubled
<1>7. Doubled[0] = BackoffMin /\ \A n \in Nat : Doubled[n + 1] = 2 * Doubled[n]
  <2>1. \A n \in Nat : n + 1 \in Nat /\ n + 1 # 0 /\ (n + 1) - 1 = n
    OBVIOUS
  <2>2. QED BY <1>6, <2>1
<1>8. \A n \in Nat : Doubled[n] = D[n]
  <2> DEFINE S == {n \in Nat : Doubled[n] = D[n]}
  <2>1. 0 \in S /\ \A n \in S : n + 1 \in S
    BY <1>3, <1>4, <1>7
  <2>2. S = Nat
    <3> HIDE DEF S
    <3>1. S \subseteq Nat
      BY DEF S
    <3>2. QED BY <2>1, <3>1, Induct
  <2>3. QED BY <2>2
<1>9. QED BY <1>3, <1>6, <1>7, <1>8

-----------------------------------------------------------------------------
(* One session: a rejected token is refreshed once, and the promise is kept *)

Steps == {"top", "dial", "connect", "opening", "authing", "live", "refresh", "pause",
          "closing", "done"}

\* The part of TypeOK that the invariants below rest on.
PcOK == pc \in Steps /\ stop \in BOOLEAN /\ streak \in BOOLEAN /\ tries \in Nat

\* A refresh under way is the first of its streak, and the streak remembers it.
StreakInv ==
    /\ tries <= 1
    /\ tries = 1 => streak
    /\ pc = "refresh" => tries = 0 /\ streak

\* What the watcher was last told, step by step.
ConnInv ==
    /\ pc = "top" => conn \in {"none", "connecting", "live", "retrying"}
    /\ pc \in {"dial", "connect", "opening", "authing"} => conn = "connecting"
    /\ pc = "live" => conn = "live"
    /\ pc = "refresh" => conn \in {"connecting", "live"}
    /\ pc = "pause" => conn \in {"connecting", "live", "retrying"}
    /\ pc = "closing" => conn # "closed" /\ (conn = "failed" \/ stop)
    /\ pc = "done" => conn = "closed"

IInv == PcOK /\ StreakInv /\ ConnInv

-----------------------------------------------------------------------------
(* The outcomes of an attempt *)

\* An attempt that is given up says so: "failed" from an attempt or a live link.
LEMMA FailsStep ==
    ASSUME NEW why, IInv, Fails(why), pc \in {"dial", "connect", "authing", "live", "refresh"},
           stop' = stop
    PROVE  IInv' /\ Status!Announce
BY DEF IInv, PcOK, StreakInv, ConnInv, Fails, Steps, Status!Announce, Status!Follows

\* A stop that is noticed leads to the close, with no word in between.
LEMMA StoppedStep ==
    ASSUME IInv, Stopped, pc \in {"connect", "opening", "authing", "live"}, stop' = stop
    PROVE  IInv' /\ conn' = conn
BY DEF IInv, PcOK, StreakInv, ConnInv, Stopped, Steps

\* A failure on the way is announced as a retry.
LEMMA TransportStep ==
    ASSUME IInv, Transport, pc \in {"connect", "opening", "authing", "live"}, stop' = stop
    PROVE  IInv' /\ Status!Announce
BY DEF IInv, PcOK, StreakInv, ConnInv, Transport, Steps, Status!Announce, Status!Follows

\* A live connection that drops ends the streak in silence.
LEMMA ReconnectStep ==
    ASSUME NEW stable, IInv, Reconnect(stable), pc = "live", stop' = stop
    PROVE  IInv' /\ conn' = conn
<1>1. stop' \in BOOLEAN /\ streak' \in BOOLEAN
  BY Zenon DEF IInv, PcOK, Reconnect
<1>2. pc' \in Steps /\ tries' = 0 /\ pc' = "pause" /\ conn' = conn /\ conn = "live"
  BY DEF IInv, ConnInv, Reconnect, Steps
<1>3. QED  BY <1>1, <1>2 DEF IInv, PcOK, StreakInv, ConnInv

\* A rejection is either given up or the first of its streak.
LEMMA UnauthorizedStep ==
    ASSUME IInv, Unauthorized, pc \in {"connect", "authing", "live"}, stop' = stop
    PROVE  IInv' /\ (Status!Announce \/ conn' = conn)
<1>1. CASE streak
  BY <1>1, FailsStep DEF Unauthorized
<1>2. CASE ~streak
  BY <1>2 DEF IInv, PcOK, StreakInv, ConnInv, Unauthorized, Steps
<1>3. QED  BY <1>1, <1>2 DEF IInv, PcOK

\* A read without a frame ends a live connection or an attempt.
LEMMA UnreadStep ==
    ASSUME IInv, Unread, pc \in {"opening", "authing", "live"}, stop' = stop
    PROVE  IInv' /\ (Status!Announce \/ conn' = conn)
<1>1. CASE Stopped
  BY <1>1, StoppedStep
<1>2. CASE pc = "live" /\ \E stable \in BOOLEAN : Reconnect(stable)
  BY <1>2, ReconnectStep
<1>3. CASE Transport
  BY <1>3, TransportStep
<1>4. QED  BY <1>1, <1>2, <1>3 DEF Unread

-----------------------------------------------------------------------------
(* The inductive invariant, and the promise kept by each step *)

LEMMA InitInv == Init => IInv
<1> SUFFICES ASSUME Init PROVE IInv
  OBVIOUS
<1>1. stop \in BOOLEAN /\ streak \in BOOLEAN
  BY Zenon DEF Init
<1>2. pc \in Steps /\ tries = 0 /\ pc = "top" /\ conn = "none"
  BY DEF Init, Steps
<1>3. QED  BY <1>1, <1>2 DEF IInv, PcOK, StreakInv, ConnInv

\* Each step of the session keeps the invariant and says only what is allowed.
LEMMA StepInv ==
    ASSUME IInv, [Next]_vars
    PROVE  IInv' /\ [Status!Next]_(Status!vars)
<1> DEFINE Goal == IInv' /\ [Status!Next]_(Status!vars)
<1> USE DEF Status!Next, Status!vars
<1>1. ASSUME Top PROVE Goal
  BY <1>1 DEF Top, IInv, PcOK, StreakInv, ConnInv, Steps, Status!Announce, Status!Follows
<1>2. ASSUME Dial PROVE Goal
  <2>1. stop' = stop  BY <1>2 DEF Dial
  <2>2. CASE access = "none"
    BY <1>2, <2>1, <2>2, FailsStep DEF Dial
  <2>3. CASE access # "none"
    BY <1>2, <2>1, <2>3 DEF Dial, IInv, PcOK, StreakInv, ConnInv, Steps, hist
  <2>4. QED  BY <2>2, <2>3
<1>3. ASSUME Connect PROVE Goal
  <2>1. stop' = stop /\ pc = "connect"  BY <1>3 DEF Connect
  <2>2. CASE Stopped                BY <2>1, <2>2, StoppedStep
  <2>3. CASE Transport              BY <2>1, <2>3, TransportStep
  <2>4. CASE Unauthorized           BY <2>1, <2>4, UnauthorizedStep
  <2>5. CASE Fails("forbidden")     BY <2>1, <2>5, FailsStep
  <2>6. CASE pc' = "opening" /\ UNCHANGED <<conn, streak, hist>>
    BY <2>1, <2>6 DEF IInv, PcOK, StreakInv, ConnInv, Steps, hist
  <2>7. QED  BY <1>3, <2>2, <2>3, <2>4, <2>5, <2>6 DEF Connect
<1>4. ASSUME Opening PROVE Goal
  <2>1. stop' = stop /\ pc = "opening"  BY <1>4 DEF Opening
  <2>2. CASE Unread                 BY <2>1, <2>2, UnreadStep
  <2>3. CASE Transport              BY <2>1, <2>3, TransportStep
  <2>4. CASE SendConnect /\ link # "dead"
    BY <2>1, <2>4 DEF SendConnect, IInv, PcOK, StreakInv, ConnInv, Steps
  <2>5. QED  BY <1>4, <2>2, <2>3, <2>4 DEF Opening, SendConnect
<1>5. ASSUME Authing PROVE Goal
  <2>1. stop' = stop /\ pc = "authing"  BY <1>5 DEF Authing
  <2>2. CASE Unread                 BY <2>1, <2>2, UnreadStep
  <2>3. CASE Transport              BY <2>1, <2>3, TransportStep
  <2>4. CASE Unauthorized           BY <2>1, <2>4, UnauthorizedStep
  <2>5. CASE Subscribe /\ link # "dead"
    BY <2>1, <2>5 DEF Subscribe, IInv, PcOK, StreakInv, ConnInv, Steps, Status!Announce, Status!Follows
  <2>6. QED  BY <1>5, <2>2, <2>3, <2>4, <2>5 DEF Authing, Subscribe
<1>6. ASSUME Pump PROVE Goal
  <2>1. stop' = stop /\ pc = "live"  BY <1>6 DEF Pump
  <2>2. CASE Unread                 BY <2>1, <2>2, UnreadStep
  <2>3. CASE Transport              BY <2>1, <2>3, TransportStep
  <2>4. CASE Unauthorized           BY <2>1, <2>4, UnauthorizedStep
  <2>5. CASE Fails("forbidden")     BY <2>1, <2>5, FailsStep
  <2>6. CASE \E stable \in BOOLEAN : Reconnect(stable)
    BY <2>1, <2>6, ReconnectStep
  <2>7. CASE UNCHANGED <<pc, conn, streak, hist>>
    BY <2>1, <2>7 DEF IInv, PcOK, StreakInv, ConnInv, hist
  <2>8. QED  BY <1>6, <2>2, <2>3, <2>4, <2>5, <2>6, <2>7 DEF Pump, Pong
<1>7. ASSUME Refresh PROVE Goal
  <2>1. stop' = stop /\ pc = "refresh"  BY <1>7 DEF Refresh
  <2>2. CASE Fails("refresh")       BY <2>1, <2>2, FailsStep
  <2>3. CASE pc' = "pause" /\ tries' = tries + 1 /\ UNCHANGED <<conn, streak>>
    BY <2>1, <2>3 DEF IInv, PcOK, StreakInv, ConnInv, Steps
  <2>4. QED  BY <1>7, <2>2, <2>3 DEF Refresh
<1>8. ASSUME Pause PROVE Goal
  BY <1>8 DEF Pause, IInv, PcOK, StreakInv, ConnInv, Steps
<1>9. ASSUME Closing PROVE Goal
  BY <1>9 DEF Closing, IInv, PcOK, StreakInv, ConnInv, Steps, hist, Status!Close, Status!MayClose
<1>10. ASSUME Stop PROVE Goal
  BY <1>10 DEF Stop, IInv, PcOK, StreakInv, ConnInv, session, hist, Status!Ask
<1>11. ASSUME Drop \/ Gateway \/ Expire \/ Renew \/ Account PROVE Goal
  BY <1>11 DEF Drop, Gateway, Expire, Renew, Account, IInv, PcOK, StreakInv, ConnInv, session, hist
<1>12. ASSUME UNCHANGED vars PROVE Goal
  BY <1>12 DEF vars, IInv, PcOK, StreakInv, ConnInv, session, hist
<1>13. QED
  BY <1>1, <1>2, <1>3, <1>4, <1>5, <1>6, <1>7, <1>8, <1>9, <1>10, <1>11, <1>12
     DEF Next, Session

\* The invariant holds in every state.
THEOREM Inductive == Spec => []IInv
<1>1. Init => IInv  BY InitInv
<1>2. IInv /\ [Next]_vars => IInv'  BY StepInv
<1>3. QED  BY <1>1, <1>2, PTL DEF Spec

\* Rejections never turn into a refresh loop (session.rs:120-124).
THEOREM NoRefreshLoop == Spec => []RefreshNeverLoops
<1>1. IInv => RefreshNeverLoops  BY DEF IInv, StreakInv, RefreshNeverLoops
<1>2. QED  BY <1>1, Inductive, PTL

\* A session implements ConsoleStatus, fairness aside: it goes live only from an
\* attempt, "failed" and "closed" are never followed by another attempt, and
\* "closed" comes only after a failure or a stop (run, session.rs:111-189).
THEOREM ImplementsStatus == Spec => Status!Safety
<1>1. Init => Status!Init  BY DEF Init, Status!Init
<1>2. IInv /\ [Next]_vars => [Status!Next]_(Status!vars)  BY StepInv
<1>3. QED  BY <1>1, <1>2, Inductive, PTL DEF Spec, Status!Safety

-----------------------------------------------------------------------------
(* One session: types, and the wait *)

\* What the outcomes of an attempt write.
TaskOK ==
    /\ pc \in Steps
    /\ conn \in {"none", "connecting", "live", "retrying", "failed", "closed"}
    /\ streak \in BOOLEAN /\ backoff \in BackoffMin..BackoffMax
    /\ minted \in BOOLEAN /\ tries \in Nat /\ flaps \in Nat
    /\ reason \in {"none", "stopped", "signed out", "forbidden", "unauthorized", "refresh"}

NetOK ==
    /\ stop \in BOOLEAN
    /\ link \in {"none", "up", "dead"} /\ inbox \in Seq(Frames) /\ serving \in BOOLEAN
    /\ token \in {"valid", "expired", "none"} /\ access \in {"valid", "expired", "none"}
    /\ account \in {"active", "blocked"} /\ allowed \in BOOLEAN
    /\ faults \in 0..MaxFaults

LEMMA TypeParts == TypeOK <=> TaskOK /\ NetOK
BY DEF TypeOK, TaskOK, NetOK, Steps

\* Whatever becomes of an attempt.
Outcome ==
    \/ \E why \in {"signed out", "forbidden", "unauthorized", "refresh"} : Fails(why)
    \/ Stopped \/ Transport \/ Unauthorized
    \/ \E stable \in BOOLEAN : Reconnect(stable)

LEMMA OutcomeTyped ==
    ASSUME TaskOK, Outcome
    PROVE  TaskOK' /\ (UNCHANGED <<backoff, flaps>> \/ (backoff' = BackoffMin /\ flaps' = 0))
<1>1. ASSUME NEW why \in {"signed out", "forbidden", "unauthorized", "refresh"}, Fails(why)
      PROVE  TaskOK' /\ UNCHANGED <<backoff, flaps>>
  BY <1>1 DEF Fails, TaskOK, Steps
<1>2. CASE Stopped
  BY <1>2 DEF Stopped, TaskOK, Steps
<1>3. CASE Transport
  BY <1>3 DEF Transport, TaskOK, Steps
<1>4. CASE Unauthorized
  BY <1>1, <1>4 DEF Unauthorized, TaskOK, Steps
<1>5. ASSUME NEW stable \in BOOLEAN, Reconnect(stable)
      PROVE  TaskOK' /\ (UNCHANGED <<backoff, flaps>> \/ (backoff' = BackoffMin /\ flaps' = 0))
  <2>1. BackoffMin \in BackoffMin..BackoffMax
    BY ConstAssumption DEF ConstAssumption
  <2>2. UNCHANGED <<backoff, flaps>> \/ (backoff' = BackoffMin /\ flaps' = 0)
    BY <1>5 DEF Reconnect
  <2>3. TaskOK'
    BY <1>5, <2>1, <2>2 DEF Reconnect, TaskOK, Steps
  <2>4. QED BY <2>2, <2>3
<1>6. QED BY <1>1, <1>2, <1>3, <1>4, <1>5 DEF Outcome

\* The wait and its count move together.
Waits ==
    \/ UNCHANGED <<backoff, flaps>>
    \/ backoff' = BackoffMin /\ flaps' = 0
    \/ /\ backoff' = IF 2 * backoff < BackoffMax THEN 2 * backoff ELSE BackoffMax
       /\ flaps' = flaps + 1

LEMMA InitTyped == Init => TypeOK /\ BackoffTellsFailures
<1> SUFFICES ASSUME Init PROVE TypeOK /\ BackoffTellsFailures
  OBVIOUS
<1>1. BackoffMin \in BackoffMin..BackoffMax /\ 0 \in 0..MaxFaults
  BY ConstAssumption DEF ConstAssumption
<1>2. TaskOK
  BY <1>1 DEF Init, TaskOK, Steps
<1>3. NetOK
  <2>1. stop \in BOOLEAN /\ serving \in BOOLEAN /\ allowed \in BOOLEAN
    BY Zenon DEF Init
  <2>2. <<>> \in Seq(Frames)
    OBVIOUS
  <2>3. QED BY <1>1, <2>1, <2>2 DEF Init, NetOK
<1>4. BackoffTellsFailures
  BY DoubledIs, ConstAssumption DEF ConstAssumption, Init, BackoffTellsFailures
<1>5. QED BY <1>2, <1>3, <1>4, TypeParts

\* An event of the environment is counted.
LEMMA CountTyped ==
    ASSUME NetOK, NEW e, Happens(e)
    PROVE  faults' \in 0..MaxFaults
BY ConstAssumption DEF ConstAssumption, NetOK, Happens

\* Each step keeps the types, and moves the wait as it says.
LEMMA StepTyped ==
    ASSUME TaskOK, NetOK, [Next]_vars
    PROVE  TaskOK' /\ NetOK' /\ Waits
<1> DEFINE Goal == TaskOK' /\ NetOK' /\ Waits
           Same == UNCHANGED <<pc, conn, backoff, streak, minted, tries, flaps, reason>>
<1>a. ASSUME Outcome PROVE TaskOK' /\ Waits
  BY <1>a, OutcomeTyped DEF Waits
<1>b. ASSUME Same PROVE TaskOK' /\ Waits
  BY <1>b DEF TaskOK, Waits
<1>h. HangUp => link' \in {"none", "up", "dead"} /\ inbox' \in Seq(Frames) /\ serving' \in BOOLEAN
  <2>1. HangUp => serving' \in BOOLEAN
    BY Zenon DEF HangUp
  <2>2. QED BY <2>1 DEF HangUp
<1>s. UNCHANGED socket => link' \in {"none", "up", "dead"} /\ inbox' \in Seq(Frames) /\ serving' \in BOOLEAN
  BY DEF socket, NetOK
<1>w. UNCHANGED world => /\ access' \in {"valid", "expired", "none"}
                         /\ account' \in {"active", "blocked"} /\ allowed' \in BOOLEAN
  BY DEF world, NetOK
<1>t. inbox # <<>> => Tail(inbox) \in Seq(Frames)
  BY DEF NetOK
<1>n. tries \in Nat
  BY Zenon DEF TaskOK
<1>1. ASSUME Top PROVE Goal
  BY <1>1, <1>s, <1>w DEF Top, TaskOK, NetOK, Waits, Steps
<1>2. ASSUME Dial PROVE Goal
  <2>1. NetOK'
    BY <1>2, <1>s, <1>w DEF Dial, NetOK
  <2>2. CASE access = "none"
    BY <1>2, <1>a, <2>1, <2>2 DEF Dial, Outcome
  <2>3. CASE access # "none"
    BY <1>2, <2>1, <2>3 DEF Dial, TaskOK, Waits, Steps, hist
  <2>4. QED BY <2>2, <2>3
<1>3. ASSUME Connect PROVE Goal
  <2>1. CASE Outcome /\ UNCHANGED socket /\ (UNCHANGED faults \/ \E e \in AllEvents : Happens(e))
    BY <1>3, <1>a, <1>s, <1>w, <2>1, CountTyped DEF Connect, NetOK
  <2>2. CASE /\ pc' = "opening" /\ link' = "up" /\ inbox' = <<"open">>
             /\ UNCHANGED <<conn, backoff, streak, serving, faults, hist>>
    <3>1. <<"open">> \in Seq(Frames)
      BY DEF Frames
    <3>2. NetOK'
      BY <1>3, <1>w, <2>2, <3>1 DEF Connect, NetOK
    <3>3. TaskOK' /\ Waits
      BY <2>2 DEF TaskOK, Waits, Steps, hist
    <3>4. QED BY <3>2, <3>3
  <2>3. QED BY <1>3, <2>1, <2>2 DEF Connect, Outcome, AllEvents
<1>u. ASSUME Unread PROVE Outcome /\ HangUp
  BY <1>u DEF Unread, Outcome
<1>4. ASSUME Opening PROVE Goal
  <2>1. CASE Outcome /\ HangUp
    BY <1>4, <1>a, <1>h, <1>w, <2>1 DEF Opening, NetOK
  <2>2. CASE SendConnect /\ link # "dead"
    <3>1. \A frames \in Answered : frames \in Seq(Frames)
      <4>1. /\ <<"connected">> \in Seq(Frames) /\ <<"connect_error">> \in Seq(Frames)
            /\ <<"connected", "unauthorized", "close">> \in Seq(Frames)
        BY DEF Frames
      <4>2. QED BY <4>1 DEF Answered
    <3>2. serving' \in BOOLEAN /\ link' = link
      BY <2>2 DEF SendConnect
    <3>3. NetOK'
      BY <1>4, <1>w, <2>2, <3>1, <3>2 DEF Opening, SendConnect, NetOK
    <3>4. TaskOK' /\ Waits
      <4>1. tries' \in Nat
        <5>1. tries' = 0 \/ tries' = tries
          BY <2>2, Zenon DEF SendConnect
        <5>2. QED BY <1>n, <5>1
      <4>2. pc' = "authing" /\ UNCHANGED <<conn, backoff, streak, minted, flaps, reason>>
        BY <2>2 DEF SendConnect
      <4>3. QED BY <4>1, <4>2 DEF TaskOK, Waits, Steps
    <3>5. QED BY <3>3, <3>4
  <2>3. QED BY <1>4, <1>u, <2>1, <2>2 DEF Opening, SendConnect, Outcome
<1>5. ASSUME Authing PROVE Goal
  <2>1. CASE Outcome /\ HangUp
    BY <1>5, <1>a, <1>h, <1>w, <2>1 DEF Authing, NetOK
  <2>2. CASE Subscribe /\ link # "dead" /\ inbox # <<>>
    <3>1. inbox' \in Seq(Frames)
      BY <1>t, <2>2 DEF Subscribe, Frames
    <3>2. NetOK'
      BY <1>5, <1>w, <2>2, <3>1 DEF Authing, Subscribe, NetOK
    <3>3. TaskOK' /\ Waits
      BY <2>2 DEF Subscribe, TaskOK, Waits, Steps
    <3>4. QED BY <3>2, <3>3
  <2>3. QED BY <1>5, <1>u, <2>1, <2>2 DEF Authing, Subscribe, Outcome
<1>6. ASSUME Pump PROVE Goal
  <2>1. CASE Outcome /\ HangUp
    BY <1>6, <1>a, <1>h, <1>w, <2>1 DEF Pump, NetOK
  <2>2. CASE Pong /\ link # "dead" /\ inbox # <<>>
    <3>1. NetOK'
      BY <1>6, <1>t, <1>w, <2>2 DEF Pump, Pong, NetOK
    <3>2. Same
      BY <2>2 DEF Pong, hist
    <3>3. QED BY <1>b, <3>1, <3>2
  <2>3. QED BY <1>6, <1>u, <2>1, <2>2 DEF Pump, Pong, Outcome
<1>7. ASSUME Refresh PROVE Goal
  <2>1. NetOK'
    BY <1>7, <1>s, CountTyped DEF Refresh, NetOK
  <2>2. CASE Outcome
    BY <1>a, <2>1, <2>2
  <2>3. CASE /\ pc' = "pause" /\ backoff' = BackoffMin
             /\ minted' = TRUE /\ tries' = tries + 1 /\ flaps' = 0
             /\ UNCHANGED <<conn, streak, faults, reason>>
    <3>1. backoff' \in BackoffMin..BackoffMax
      BY <2>3, ConstAssumption DEF ConstAssumption
    <3>2. minted' \in BOOLEAN /\ tries' \in Nat /\ flaps' \in Nat /\ Waits
      <4>1. minted' \in BOOLEAN
        BY <2>3, Zenon
      <4>2. tries' \in Nat /\ flaps' \in Nat
        BY <1>n, <2>3
      <4>3. Waits
        BY <2>3 DEF Waits
      <4>4. QED BY <4>1, <4>2, <4>3
    <3>3. QED BY <2>1, <2>3, <3>1, <3>2 DEF TaskOK, Steps
  <2>4. QED BY <1>7, <2>2, <2>3 DEF Refresh, Outcome
<1>8. ASSUME Pause PROVE Goal
  <2>1. NetOK'
    BY <1>8, <1>s, <1>w DEF Pause, NetOK
  <2>2. Waits
    BY <1>8 DEF Pause, Waits
  <2>3. backoff' \in BackoffMin..BackoffMax /\ flaps' \in Nat
    <3>1. /\ backoff \in BackoffMin..BackoffMax /\ flaps \in Nat
          /\ BackoffMin \in Nat /\ BackoffMax \in Nat /\ BackoffMin <= BackoffMax
      BY ConstAssumption DEF ConstAssumption, TaskOK
    <3>2. QED BY <2>2, <3>1 DEF Waits
  <2>4. TaskOK'
    BY <1>8, <2>3 DEF Pause, TaskOK, Steps
  <2>5. QED BY <2>1, <2>2, <2>4
<1>9. ASSUME Closing PROVE Goal
  BY <1>9, <1>s, <1>w DEF Closing, TaskOK, NetOK, Waits, Steps, hist
<1>10. ASSUME Stop \/ Drop \/ Gateway \/ Expire \/ Renew \/ Account PROVE Goal
  <2>1. Same
    BY <1>10 DEF Stop, Drop, Gateway, Expire, Renew, Account, session, hist
  <2>2. inbox' \in Seq(Frames)
    <3>1. Append(inbox, "ping") \in Seq(Frames) /\ Append(inbox, "close") \in Seq(Frames)
      BY DEF NetOK, Frames
    <3>2. inbox \in Seq(Frames) /\ <<>> \in Seq(Frames)
      BY DEF NetOK
    <3>3. QED BY <1>10, <3>1, <3>2 DEF Stop, Drop, Gateway, Expire, Renew, Account, socket
  <2>3. faults' \in 0..MaxFaults
    BY <1>10, CountTyped DEF Stop, Drop, Gateway, Expire, Renew, Account, NetOK
  <2>4. NetOK'
    BY <1>10, <2>2, <2>3
       DEF Stop, Drop, Gateway, Expire, Renew, Account, NetOK, session, socket, world
  <2>5. QED BY <1>b, <2>1, <2>4
<1>11. ASSUME UNCHANGED vars PROVE Goal
  <2>1. Same /\ UNCHANGED <<stop, token, faults>> /\ UNCHANGED socket /\ UNCHANGED world
    BY <1>11 DEF vars, session, hist
  <2>2. NetOK'
    BY <2>1, <1>s, <1>w DEF NetOK
  <2>3. QED BY <1>b, <2>1, <2>2
<1>12. QED
  BY <1>1, <1>2, <1>3, <1>4, <1>5, <1>6, <1>7, <1>8, <1>9, <1>10, <1>11 DEF Next, Session

\* One more wait doubles what the cap allows.
LEMMA WaitStep ==
    ASSUME TaskOK, BackoffTellsFailures, Waits
    PROVE  BackoffTellsFailures'
<1>1. flaps \in Nat /\ Doubled[flaps] \in Nat /\ Doubled[flaps + 1] = 2 * Doubled[flaps]
  BY DoubledIs DEF TaskOK
<1>2. CASE backoff' = BackoffMin /\ flaps' = 0
  BY <1>2, DoubledIs, ConstAssumption DEF ConstAssumption, BackoffTellsFailures
<1>3. CASE UNCHANGED <<backoff, flaps>>
  BY <1>3 DEF BackoffTellsFailures
<1>4. CASE /\ backoff' = IF 2 * backoff < BackoffMax THEN 2 * backoff ELSE BackoffMax
           /\ flaps' = flaps + 1
  BY <1>1, <1>4, ConstAssumption DEF ConstAssumption, BackoffTellsFailures
<1>5. QED BY <1>2, <1>3, <1>4 DEF Waits

LEMMA SessionTyped == Spec => [](TypeOK /\ BackoffTellsFailures)
<1>1. Init => TypeOK /\ BackoffTellsFailures
  BY InitTyped
<1>2. TypeOK /\ BackoffTellsFailures /\ [Next]_vars => (TypeOK /\ BackoffTellsFailures)'
  <2> SUFFICES ASSUME TypeOK, BackoffTellsFailures, [Next]_vars
               PROVE  (TypeOK /\ BackoffTellsFailures)'
    OBVIOUS
  <2>1. TaskOK /\ NetOK
    BY TypeParts
  <2>2. TaskOK' /\ NetOK' /\ Waits
    BY <2>1, StepTyped
  <2>3. TypeOK'
    BY <2>2 DEF TypeOK, TaskOK, NetOK, Steps
  <2>4. BackoffTellsFailures'
    BY <2>1, <2>2, WaitStep
  <2>5. QED BY <2>3, <2>4
<1>3. QED BY <1>1, <1>2, PTL DEF Spec

\* However attempts fail, are accepted and are cut off, the wait before the next one
\* is the first one doubled for each wait since a healthy connection or a fresh
\* token, capped (session.rs:41-43, 154-188).
THEOREM BackoffAlwaysTellsFailures == Spec => []BackoffTellsFailures
BY SessionTyped, PTL

-----------------------------------------------------------------------------
(* The consoles of the window *)

ViewSteps == {"none", "listen_console", "heard_console", "listen_conn", "heard_conn", "opening",
              "opened", "shown", "gone"}
Calls == ({"listen", "open"} \X Window!Views) \cup ({"close"} \X Servers)
Ears  == {"console", "conn"}

ViewRecord == [server : Servers \cup {None}, pc : ViewSteps, ears : SUBSET Ears,
               screen : Seq(Window!Lines), conn : Status!Statuses, reply : Seq(Window!Lines)]
TaskRecord == [server : Servers \cup {None}, conn : Status!Statuses, stop : BOOLEAN,
               buffer : Seq(Window!Lines), out : 0..MaxLines, late : 0..MaxLines]

WindowTypes ==
    /\ current \in 0..MaxViews /\ mounted \in 0..MaxViews /\ spawned \in 0..MaxViews
    /\ view \in [Window!Views -> ViewRecord]
    /\ calls \in Seq(Calls)
    /\ sessions \in [Servers -> 0..spawned]
    /\ DOMAIN retained \subseteq Servers /\ IsFiniteSet(DOMAIN retained)
    /\ Cardinality(DOMAIN retained) <= Retained
    /\ retained = [s \in DOMAIN retained |-> retained[s]]
    /\ \A s \in DOMAIN retained : retained[s] \in Seq(Window!Lines)
    /\ task \in [Window!Tasks -> TaskRecord]
    /\ \A n \in Window!Tasks : Len(task[n].buffer) <= RingCap
    /\ lines \in 0..MaxLines

\* The close of a server is under way, from the k-th call on.
ClosesFrom(s, k) == \E i \in DOMAIN calls : i >= k /\ calls[i] = <<"close", s>>

\* The view on screen has got its answer to open().
Attached(s) == current # 0 /\ view[current].server = s /\ view[current].pc \in {"opened", "shown"}

\* What is asked for and not served yet: by whom, and that a view which has left
\* the screen has its server closed behind what it asked for.
Asked(i) ==
    /\ calls[i][1] = "listen" => view[calls[i][2]].pc \in {"listen_console", "listen_conn"}
    /\ calls[i][1] = "open" =>
          /\ view[calls[i][2]].pc = "opening" /\ spawned < calls[i][2]
          /\ calls[i][2] # current => ClosesFrom(view[calls[i][2]].server, i)

\* Nobody asks twice, and views open in their order.
InOrder(i, j) ==
    /\ i # j /\ calls[i][1] # "close" /\ calls[j][1] # "close" => calls[i][2] # calls[j][2]
    /\ i < j /\ calls[i][1] = "open" /\ calls[j][1] = "open" => calls[i][2] < calls[j][2]

Unused(v) == view[v].pc = "none" /\ view[v].ears = {} /\ view[v].screen = <<>>

QueueInv ==
    /\ current \in {0, mounted} /\ spawned <= mounted
    /\ current # 0 /\ ~Attached(view[current].server) => spawned < current
    /\ \A v \in Window!Views : IF v > mounted THEN Unused(v) ELSE view[v].server \in Servers
    /\ \A i \in DOMAIN calls : Asked(i)
    /\ \A i, j \in DOMAIN calls : InOrder(i, j)

\* A session belongs to the view that is attached to it, or is about to be closed.
Owned(s) == Attached(s) \/ ClosesFrom(s, 1)

SessionInv ==
    /\ \A n \in Window!Tasks :
          /\ n > spawned => ~task[n].stop /\ task[n].buffer = <<>> /\ task[n].out = 0
          /\ ~task[n].stop => task[n].late = 0
    /\ \A s \in Servers : sessions[s] # 0 =>
          task[sessions[s]].server = s /\ ~task[sessions[s]].stop /\ Owned(s)

\* The view on screen, as far as it has got: once its first listener is registered
\* every close of an earlier view has been served, and from then on it misses nothing.
Listening(v, s, p) ==
    /\ p \notin {"none", "gone"}
    /\ p = "listen_console" =>
          /\ view[v].ears = {} /\ view[v].screen = <<>>
          /\ \A i \in DOMAIN calls : calls[i] = <<"listen", v>> => ~ClosesFrom(s, i)
    /\ p # "listen_console" => "console" \in view[v].ears /\ ~ClosesFrom(s, 1)

Seeded(v, s, p) ==
    /\ p \notin {"listen_console", "opened", "shown"} =>
          Range(view[v].screen) \cap Range(Window!Seed(s)) \subseteq Window!Late
    /\ p = "opened" => /\ Range(view[v].screen) \cap Range(view[v].reply) \subseteq Window!Late
                       /\ IsInjective(view[v].reply)
    /\ p = "shown" => Range(view[v].reply) \subseteq Range(view[v].screen)
    /\ p \in {"opened", "shown"} =>
          /\ sessions[s] # 0
          /\ Range(task[sessions[s]].buffer) \ {task[sessions[s]].out} \subseteq Range(view[v].screen)

ScreenInv ==
    /\ \A v \in Window!Views : v # current => view[v].ears \subseteq Window!Pending(v)
    /\ current # 0 => /\ Listening(current, view[current].server, view[current].pc)
                      /\ Seeded(current, view[current].server, view[current].pc)

\* Lines are numbered as they come; nobody has a later one, buffers have none twice,
\* and screens only late ones.
Known(q, n)     == \A i \in DOMAIN q : q[i] <= n
Once(q, n)      == Known(q, n) /\ IsInjective(q)
OnceBut(q, n, L) == Known(q, n) /\ \A i, j \in DOMAIN q : i # j /\ q[i] = q[j] => q[i] \in L

LineInv ==
    /\ \A v \in Window!Views : OnceBut(view[v].screen, lines, Window!Late) /\ Known(view[v].reply, lines)
    /\ \A s \in DOMAIN retained : Once(retained[s], lines)
    /\ \A n \in Window!Tasks : Once(task[n].buffer, lines)

\* A line on its way out is in one buffer only,
Apart(n) ==
    /\ task[n].out <= lines
    /\ \A m \in Window!Tasks : m # n /\ task[n].out # 0 =>
          task[m].out # task[n].out /\ task[n].out \notin Range(task[m].buffer)

\* and, unless it is late, nobody has seen it, nor is about to be seeded with it.
Fresh(n) == task[n].out \notin Window!Late \cup {0}
Unseen(l) ==
    /\ \A v \in Window!Views : l \notin Range(view[v].screen)
    /\ \A s \in DOMAIN retained : l \notin Range(retained[s])
    /\ current # 0 /\ view[current].pc = "opened" => l \notin Range(view[current].reply)

OutInv == \A n \in Window!Tasks : Apart(n) /\ (Fresh(n) => Unseen(task[n].out))

WindowInv == WindowTypes /\ QueueInv /\ SessionInv /\ ScreenInv /\ LineInv /\ OutInv

-----------------------------------------------------------------------------
(* Sequences of lines, and of calls *)

\* The library as ConsoleManager sees it.
LEMMA SameOperators ==
    /\ \A f : Window!Range(f) = Range(f) /\ (Window!IsInjective(f) <=> IsInjective(f))
    /\ \A f, S : Window!Restrict(f, S) = Restrict(f, S)
    /\ \A S : Window!Cardinality(S) = Cardinality(S)
BY DEF Window!Range, Range, Window!IsInjective, IsInjective, Window!Restrict, Restrict,
       Window!Cardinality, Cardinality

\* A line that comes next is new to every buffer and screen.
LEMMA AppendOnce ==
    ASSUME NEW q \in Seq(Nat), NEW n \in Nat, Once(q, n)
    PROVE  /\ Once(Append(q, n + 1), n + 1)
           /\ Range(Append(q, n + 1)) = Range(q) \cup {n + 1}
<1> DEFINE r == Append(q, n + 1)
<1>1. /\ DOMAIN r = DOMAIN q \cup {Len(q) + 1} /\ r[Len(q) + 1] = n + 1
      /\ Len(q) + 1 \notin DOMAIN q /\ \A i \in DOMAIN q : r[i] = q[i] /\ q[i] \in Nat
  OBVIOUS
<1> HIDE DEF r
<1>2. Once(r, n + 1)
  BY <1>1 DEF Once, Known, IsInjective
<1>3. Range(r) = Range(q) \cup {n + 1}
  BY <1>1 DEF Range
<1>4. QED BY <1>2, <1>3 DEF r

\* Forgetting the oldest line of a full buffer.
LEMMA TailOnce ==
    ASSUME NEW q \in Seq(Nat), q # <<>>, NEW n \in Nat, Once(q, n)
    PROVE  Once(Tail(q), n) /\ Range(Tail(q)) \subseteq Range(q)
<1> DEFINE r == Tail(q)
<1>1. \A i \in DOMAIN r : i + 1 \in DOMAIN q /\ r[i] = q[i + 1] /\ i \in Nat
  OBVIOUS
<1> HIDE DEF r
<1>2. Once(r, n)
  BY <1>1 DEF Once, Known, IsInjective
<1>3. Range(r) \subseteq Range(q)
  BY <1>1 DEF Range
<1>4. QED BY <1>2, <1>3 DEF r

\* A line that is new to a screen, or may be there twice.
LEMMA AppendBut ==
    ASSUME NEW q \in Seq(Nat), NEW n \in Nat, NEW x \in Nat, x <= n, NEW L, OnceBut(q, n, L),
           x \in L \/ x \notin Range(q)
    PROVE  /\ OnceBut(Append(q, x), n, L)
           /\ Range(Append(q, x)) = Range(q) \cup {x}
<1> DEFINE r == Append(q, x)
<1>1. /\ DOMAIN r = DOMAIN q \cup {Len(q) + 1} /\ r[Len(q) + 1] = x
      /\ Len(q) + 1 \notin DOMAIN q /\ \A i \in DOMAIN q : r[i] = q[i] /\ q[i] \in Nat
  OBVIOUS
<1> HIDE DEF r
<1>2. Known(r, n)
  BY <1>1 DEF OnceBut, Known
<1>3. ASSUME NEW i \in DOMAIN r, NEW j \in DOMAIN r, i # j, r[i] = r[j] PROVE r[i] \in L
  <2>1. CASE i \in DOMAIN q /\ j \in DOMAIN q
    BY <1>1, <1>3, <2>1 DEF OnceBut
  <2>2. CASE i \in DOMAIN q /\ j \notin DOMAIN q
    BY <1>1, <1>3, <2>2 DEF Range
  <2>3. CASE i \notin DOMAIN q /\ j \in DOMAIN q
    BY <1>1, <1>3, <2>3 DEF Range
  <2>4. QED BY <1>1, <1>3, <2>1, <2>2, <2>3
<1>4. Range(r) = Range(q) \cup {x}
  BY <1>1 DEF Range
<1>5. QED BY <1>2, <1>3, <1>4 DEF r, OnceBut

\* Writing the scrollback behind other lines.
LEMMA ConcatOnce ==
    ASSUME NEW p \in Seq(Nat), NEW q \in Seq(Nat), NEW n \in Nat, NEW L,
           OnceBut(p, n, L), Once(q, n), Range(p) \cap Range(q) \subseteq L
    PROVE  OnceBut(p \o q, n, L) /\ Range(p \o q) = Range(p) \cup Range(q)
<1> DEFINE r == p \o q
<1>1. /\ \A i \in DOMAIN p : i \in DOMAIN r /\ r[i] = p[i]
      /\ \A i \in DOMAIN q : i + Len(p) \in DOMAIN r /\ r[i + Len(p)] = q[i]
      /\ \A i \in DOMAIN r : i \in Nat /\ (i \in DOMAIN p \/ (i - Len(p) \in DOMAIN q /\ r[i] = q[i - Len(p)]))
      /\ Len(p) \in Nat
  OBVIOUS
<1> HIDE DEF r
<1>2. Range(r) = Range(p) \cup Range(q)
  BY <1>1 DEF Range
<1>3. Known(r, n)
  BY <1>1 DEF Once, OnceBut, Known
<1>4. ASSUME NEW i \in DOMAIN r, NEW j \in DOMAIN r, i # j, r[i] = r[j] PROVE r[i] \in L
  <2>1. \A k \in DOMAIN p, l \in DOMAIN q : p[k] = q[l] => p[k] \in L
    BY DEF Range
  <2>2. CASE i \in DOMAIN p /\ j \in DOMAIN p
    BY <1>1, <1>4, <2>2 DEF OnceBut
  <2>3. CASE i \notin DOMAIN p /\ j \notin DOMAIN p
    <3>1. i - Len(p) = j - Len(p)
      BY <1>1, <1>4, <2>3 DEF Once, IsInjective
    <3>2. QED BY <1>1, <1>4, <3>1
  <2>4. QED BY <1>1, <1>4, <2>1, <2>2, <2>3
<1>5. QED BY <1>2, <1>3, <1>4 DEF r, OnceBut

\* Steps in which no session, scrollback or screen changes.
LEMMA OutKept ==
    ASSUME OutInv, UNCHANGED <<retained, task, lines>>,
           \A u \in Window!Views : view'[u].screen = view[u].screen,
           current' # 0 /\ view'[current'].pc = "opened" =>
               /\ current # 0 /\ view[current].pc = "opened"
               /\ view'[current'].reply = view[current].reply
    PROVE  OutInv' /\ Window!Late' = Window!Late
<1>1. Window!Late' = Window!Late
  BY DEF Window!Late
<1>2. QED BY <1>1 DEF OutInv, Apart, Fresh, Unseen

\* What a call is about.
LEMMA CallTyped ==
    ASSUME WindowTypes, NEW i \in DOMAIN calls
    PROVE  /\ calls[i] = <<calls[i][1], calls[i][2]>> /\ i \in Nat /\ i >= 1
           /\ calls[i][1] \in {"listen", "open", "close"}
           /\ calls[i][1] = "close" => calls[i][2] \in Servers
           /\ calls[i][1] # "close" => calls[i][2] \in Window!Views
BY DEF WindowTypes, Calls

\* One more call.
LEMMA CallsGrow ==
    ASSUME WindowTypes, NEW c \in Calls, calls' = Append(calls, c)
    PROVE  /\ calls' \in Seq(Calls) /\ Len(calls) \in Nat
           /\ DOMAIN calls' = DOMAIN calls \cup {Len(calls) + 1}
           /\ calls'[Len(calls) + 1] = c
           /\ \A i \in DOMAIN calls : calls'[i] = calls[i] /\ i < Len(calls) + 1
           /\ \A s, k : ClosesFrom(s, k) => ClosesFrom(s, k)'
           /\ \A s, k : ClosesFrom(s, k)' /\ c # <<"close", s>> => ClosesFrom(s, k)
           /\ \A k \in DOMAIN calls : ClosesFrom(c[2], k)' \/ c[1] # "close"
<1>1. /\ calls' \in Seq(Calls) /\ Len(calls) \in Nat
      /\ DOMAIN calls' = DOMAIN calls \cup {Len(calls) + 1}
      /\ calls'[Len(calls) + 1] = c
      /\ \A i \in DOMAIN calls : calls'[i] = calls[i] /\ i < Len(calls) + 1
  BY DEF WindowTypes
<1>2. c = <<c[1], c[2]>>
  BY DEF Calls
<1>3. QED BY <1>1, <1>2 DEF ClosesFrom

\* The first call is served.
LEMMA CallsShrink ==
    ASSUME WindowTypes, calls # <<>>, calls' = Tail(calls)
    PROVE  /\ calls' \in Seq(Calls) /\ 1 \in DOMAIN calls /\ Head(calls) = calls[1]
           /\ \A i \in DOMAIN calls' : i \in Nat /\ i + 1 \in DOMAIN calls /\ calls'[i] = calls[i + 1]
           /\ \A s : \A k \in Nat \ {0} : ClosesFrom(s, k)' <=> ClosesFrom(s, k + 1)
           /\ \A s : ClosesFrom(s, 1) /\ calls[1] # <<"close", s>> => ClosesFrom(s, 1)'
           /\ \A s : ClosesFrom(s, 1)' => ClosesFrom(s, 1)
<1>1. /\ calls' \in Seq(Calls) /\ 1 \in DOMAIN calls /\ Head(calls) = calls[1]
      /\ \A i \in DOMAIN calls' : i \in Nat /\ i + 1 \in DOMAIN calls /\ calls'[i] = calls[i + 1] /\ i >= 1
      /\ \A i \in DOMAIN calls : i \in Nat /\ i >= 1 /\ (i # 1 => i - 1 \in DOMAIN calls' /\ calls'[i - 1] = calls[i])
  BY DEF WindowTypes
<1>2. ASSUME NEW s, NEW k \in Nat \ {0} PROVE ClosesFrom(s, k)' <=> ClosesFrom(s, k + 1)
  <2>1. ASSUME NEW i \in DOMAIN calls', i >= k, calls'[i] = <<"close", s>>
        PROVE  ClosesFrom(s, k + 1)
    <3>1. i + 1 \in DOMAIN calls /\ i + 1 >= k + 1 /\ calls[i + 1] = <<"close", s>>
      BY <1>1, <2>1
    <3>2. QED BY <3>1 DEF ClosesFrom
  <2>2. ASSUME NEW i \in DOMAIN calls, i >= k + 1, calls[i] = <<"close", s>>
        PROVE  ClosesFrom(s, k)'
    <3>1. i - 1 \in DOMAIN calls' /\ i - 1 >= k /\ calls'[i - 1] = calls[i]
      BY <1>1, <2>2
    <3>2. QED BY <2>2, <3>1 DEF ClosesFrom
  <2>3. QED BY <2>1, <2>2 DEF ClosesFrom
<1>3. \A s : ClosesFrom(s, 1) /\ calls[1] # <<"close", s>> => ClosesFrom(s, 1)'
  BY <1>1 DEF ClosesFrom
<1>4. \A s : ClosesFrom(s, 1)' => ClosesFrom(s, 1)
  BY <1>1 DEF ClosesFrom
<1>5. QED BY <1>1, <1>2, <1>3, <1>4

-----------------------------------------------------------------------------
(* The steps of the views *)

LEMMA WindowInit == Window!Init => WindowInv
<1> SUFFICES ASSUME Window!Init PROVE WindowInv
  OBVIOUS
<1> USE WindowAssumption DEF WindowAssumption, Window!Init
<1>1. WindowTypes
  <2>1. <<>> \in Seq(Window!Lines) /\ <<>> \in Seq(Calls) /\ Len(<<>>) = 0
    OBVIOUS
  <2>2. DOMAIN retained = {}
    OBVIOUS
  <2>3. IsFiniteSet(DOMAIN retained) /\ Cardinality(DOMAIN retained) = 0
    BY <2>2, FS_EmptySet
  <2>4. view \in [Window!Views -> ViewRecord]
    BY <2>1 DEF ViewRecord, ViewSteps, Ears, Status!Statuses
  <2>5. /\ task \in [Window!Tasks -> TaskRecord]
        /\ \A n \in Window!Tasks : Len(task[n].buffer) <= RingCap
    BY <2>1 DEF TaskRecord, Status!Statuses
  <2>6. retained = [s \in DOMAIN retained |-> retained[s]]
    BY <2>2
  <2>7. /\ current \in 0..MaxViews /\ mounted \in 0..MaxViews /\ spawned \in 0..MaxViews
        /\ lines \in 0..MaxLines /\ sessions \in [Servers -> 0..spawned]
    OBVIOUS
  <2>8. Cardinality(DOMAIN retained) <= Retained /\ calls \in Seq(Calls)
    BY <2>1, <2>3
  <2>9. QED BY <2>2, <2>3, <2>4, <2>5, <2>6, <2>7, <2>8 DEF WindowTypes
<1>2. QueueInv
  BY DEF QueueInv, Unused, Window!Views
<1>3. SessionInv
  BY DEF SessionInv
<1>4. ScreenInv
  BY DEF ScreenInv
<1>5. LineInv
  <2>1. Once(<<>>, 0) /\ OnceBut(<<>>, 0, Window!Late)
    BY DEF Once, OnceBut, Known, IsInjective
  <2>2. DOMAIN retained = {}
    OBVIOUS
  <2>3. QED BY <2>1, <2>2 DEF LineInv, Once
<1>6. OutInv
  BY DEF OutInv, Apart, Fresh
<1>7. QED BY <1>1, <1>2, <1>3, <1>4, <1>5, <1>6 DEF WindowInv

\* A view is mounted: it listens behind the close of the one before it.
LEMMA MountStep ==
    ASSUME WindowInv, NEW s \in Servers, Window!Mount(s)
    PROVE  WindowInv'
<1> USE WindowAssumption DEF WindowAssumption, WindowInv
<1>0. PICK m : m = mounted + 1
  OBVIOUS
<1>1. /\ current = 0 /\ m \in Window!Views /\ m \in 0..MaxViews /\ m # 0
      /\ mounted' = m /\ current' = m /\ calls' = Append(calls, <<"listen", m>>)
      /\ view' = [view EXCEPT ![m].server = s, ![m].pc = "listen_console"]
      /\ UNCHANGED <<sessions, retained, spawned, task, lines>>
  BY <1>0 DEF Window!Mount, Window!manager, Window!Views, WindowTypes
<1>2. view \in [Window!Views -> ViewRecord] /\ \A u \in Window!Views : u # current
  BY <1>1 DEF WindowTypes, Window!Views
<1>3. Unused(m) /\ \A u \in Window!Views : (u > mounted <=> u = m \/ u > m) /\ (u > m => u # m)
  <2>1. m > mounted /\ mounted \in Nat /\ Window!Views \subseteq Nat
    BY <1>0 DEF WindowTypes, Window!Views
  <2>2. QED BY <1>0, <1>1, <2>1 DEF QueueInv
<1>4. /\ view' \in [Window!Views -> ViewRecord]
      /\ view'[m].server = s /\ view'[m].pc = "listen_console"
      /\ view'[m].ears = {} /\ view'[m].screen = <<>> /\ view'[m].reply = view[m].reply
      /\ \A u \in Window!Views : u # m => view'[u] = view[u]
  BY <1>1, <1>2, <1>3 DEF ViewRecord, ViewSteps, Unused
<1>5. spawned' <= m /\ spawned' < m /\ m <= m
  BY <1>0, <1>1 DEF QueueInv, WindowTypes
<1>6. /\ calls' \in Seq(Calls) /\ Len(calls) \in Nat
      /\ DOMAIN calls' = DOMAIN calls \cup {Len(calls) + 1}
      /\ calls'[Len(calls) + 1] = <<"listen", m>>
      /\ \A i \in DOMAIN calls : calls'[i] = calls[i] /\ i < Len(calls) + 1
      /\ \A t, k : ClosesFrom(t, k) => ClosesFrom(t, k)'
      /\ \A t, k : ClosesFrom(t, k)' => ClosesFrom(t, k)
  <2>1. <<"listen", m>> \in Calls
    BY <1>1 DEF Calls
  <2>2. QED BY <1>1, <2>1, CallsGrow
<1>7. \A i \in DOMAIN calls : calls[i][1] # "close" => calls[i][2] \in Window!Views /\ calls[i][2] # m
  BY <1>3, CallTyped DEF QueueInv, Unused, Asked
<1>8. WindowTypes'
  BY <1>1, <1>4, <1>6 DEF WindowTypes
<1>9. QueueInv'
  <2>1. ASSUME NEW v \in Window!Views
        PROVE  (IF v > mounted THEN Unused(v) ELSE view[v].server \in Servers)'
    <3>1. CASE v = m
      BY <1>1, <1>4, <1>5, <3>1
    <3>2. CASE v # m
      BY <1>1, <1>3, <1>4, <3>2 DEF QueueInv, Unused
    <3>3. QED BY <3>1, <3>2
  <2>2. ASSUME NEW i \in DOMAIN calls' PROVE Asked(i)'
    <3>1. CASE i = Len(calls) + 1
      BY <1>4, <1>6, <3>1 DEF Asked
    <3>2. CASE i \in DOMAIN calls
      <4>1. calls'[i] = calls[i] /\ Asked(i)
        BY <1>6, <3>2 DEF QueueInv
      <4>2. calls[i][1] # "close" => calls[i][2] # current /\ view'[calls[i][2]] = view[calls[i][2]]
        BY <1>2, <1>4, <1>7, <3>2
      <4>3. QED BY <1>1, <1>6, <4>1, <4>2 DEF Asked
    <3>3. QED BY <1>6, <3>1, <3>2
  <2>3. ASSUME NEW i \in DOMAIN calls', NEW j \in DOMAIN calls' PROVE InOrder(i, j)'
    BY <1>6, <1>7 DEF QueueInv, InOrder
  <2>4. QED BY <1>1, <1>5, <2>1, <2>2, <2>3 DEF QueueInv
<1>o. OutInv' /\ Window!Late' = Window!Late
  <2>1. \A u \in Window!Views : view'[u].screen = view[u].screen
    BY <1>3, <1>4 DEF Unused
  <2>2. view'[current'].pc # "opened"
    BY <1>1, <1>4
  <2>3. QED BY <1>1, <2>1, <2>2, OutKept
<1>10. SessionInv'
  BY <1>1, <1>6 DEF SessionInv, Owned, Attached
<1>11. ScreenInv'
  <2>1. ASSUME NEW v \in Window!Views, v # current' PROVE view'[v].ears \subseteq Window!Pending(v)'
    BY <1>1, <1>2, <1>4, <2>1 DEF ScreenInv, Window!Pending
  <2>2. ASSUME NEW i \in DOMAIN calls', calls'[i] = <<"listen", m>> PROVE ~ClosesFrom(s, i)'
    <3>1. i = Len(calls) + 1
      BY <1>6, <1>7, <2>2
    <3>2. QED BY <1>6, <3>1 DEF ClosesFrom
  <2>3. Listening(m, s, "listen_console")' /\ Seeded(m, s, "listen_console")'
    BY <1>4, <2>2 DEF Listening, Seeded
  <2>4. QED BY <1>1, <1>4, <2>1, <2>3 DEF ScreenInv
<1>12. LineInv'
  <2>1. OnceBut(<<>>, lines, Window!Late)
    BY DEF OnceBut, Known
  <2>2. QED BY <1>1, <1>4, <1>o, <2>1 DEF LineInv
<1>13. QED BY <1>8, <1>9, <1>10, <1>11, <1>12, <1>o

\* The view goes: what it asked for is behind it, its close behind that.
LEMMA UnmountStep ==
    ASSUME WindowInv, Window!Unmount
    PROVE  WindowInv'
<1> USE WindowAssumption DEF WindowAssumption, WindowInv
<1>0. PICK c : c = current
  OBVIOUS
<1>s. PICK s : s = view[c].server
  OBVIOUS
<1>1. /\ c # 0 /\ c \in Window!Views /\ c = mounted /\ current' = 0 /\ s \in Servers
      /\ calls' = Append(calls, <<"close", s>>)
      /\ view' = [view EXCEPT ![c].ears = Window!Pending(c), ![c].conn = "connecting", ![c].reply = <<>>]
      /\ UNCHANGED <<mounted, sessions, retained, spawned, task, lines>>
  BY <1>0, <1>s DEF Window!Unmount, Window!manager, Window!Views, WindowTypes, QueueInv
<1>2. view \in [Window!Views -> ViewRecord] /\ Window!Pending(c) \in SUBSET Ears
  BY DEF WindowTypes, Window!Pending, Ears
<1>3. /\ view' \in [Window!Views -> ViewRecord]
      /\ view'[c].ears = Window!Pending(c) /\ view'[c].reply = <<>>
      /\ view'[c].pc = view[c].pc /\ view'[c].server = s /\ view'[c].screen = view[c].screen
      /\ \A u \in Window!Views : u # c => view'[u] = view[u]
  <2>1. <<>> \in Seq(Window!Lines) /\ "connecting" \in Status!Statuses
    BY DEF Status!Statuses
  <2>2. view[c] \in ViewRecord
    BY <1>1, <1>2
  <2>3. view' = [view EXCEPT ![c] = [view[c] EXCEPT !.ears = Window!Pending(c), !.conn = "connecting",
                                                   !.reply = <<>>]]
    BY <1>1, <1>2, <2>2
  <2> DEFINE x == [view[c] EXCEPT !.ears = Window!Pending(c), !.conn = "connecting", !.reply = <<>>]
  <2>4. x \in ViewRecord /\ x.ears = Window!Pending(c) /\ x.reply = <<>>
        /\ x.pc = view[c].pc /\ x.server = view[c].server /\ x.screen = view[c].screen
    BY <1>2, <2>1, <2>2 DEF ViewRecord
  <2> HIDE DEF x
  <2>5. view' = [view EXCEPT ![c] = x]
    BY <2>3 DEF x
  <2>6. view'[c] = x /\ view' \in [Window!Views -> ViewRecord]
        /\ \A u \in Window!Views : u # c => view'[u] = view[u]
    <3>1. c \in Window!Views /\ x \in ViewRecord /\ view \in [Window!Views -> ViewRecord]
      BY <1>1, <1>2, <2>4
    <3>2. QED BY <2>5, <3>1
  <2>7. QED BY <1>s, <2>4, <2>6
<1>4. /\ calls' \in Seq(Calls) /\ Len(calls) \in Nat
      /\ DOMAIN calls' = DOMAIN calls \cup {Len(calls) + 1}
      /\ calls'[Len(calls) + 1] = <<"close", s>>
      /\ \A i \in DOMAIN calls : calls'[i] = calls[i] /\ i < Len(calls) + 1
      /\ \A t, k : ClosesFrom(t, k) => ClosesFrom(t, k)'
  <2>1. <<"close", s>> \in Calls
    BY <1>1 DEF Calls
  <2>2. QED BY <1>1, <2>1, CallsGrow
<1>5. \A k : k \in DOMAIN calls \/ k = 1 => ClosesFrom(s, k)'
  BY <1>4 DEF ClosesFrom
<1>6. WindowTypes'
  BY <1>1, <1>3, <1>4 DEF WindowTypes
<1>7. QueueInv'
  <2>1. ASSUME NEW v \in Window!Views
        PROVE  (IF v > mounted THEN Unused(v) ELSE view[v].server \in Servers)'
    <3>1. CASE v = c
      BY <1>1, <1>3, <3>1 DEF Window!Views
    <3>2. CASE v # c
      BY <1>1, <1>3, <3>2 DEF QueueInv, Unused
    <3>3. QED BY <3>1, <3>2
  <2>2. ASSUME NEW i \in DOMAIN calls' PROVE Asked(i)'
    <3>1. CASE i = Len(calls) + 1
      BY <1>4, <3>1 DEF Asked
    <3>2. CASE i \in DOMAIN calls
      <4>1. calls'[i] = calls[i] /\ Asked(i) /\ ClosesFrom(s, i)'
        BY <1>4, <1>5, <3>2 DEF QueueInv
      <4>2. calls[i][1] # "close" =>
              /\ view'[calls[i][2]].pc = view[calls[i][2]].pc
              /\ view'[calls[i][2]].server = view[calls[i][2]].server
        BY <1>3, <1>s, <3>2, CallTyped
      <4>3. calls[i][1] = "open" /\ calls[i][2] = c => view[calls[i][2]].server = s
        BY <1>s
      <4>4. QED BY <1>0, <1>1, <1>4, <4>1, <4>2, <4>3 DEF Asked
    <3>3. QED BY <1>4, <3>1, <3>2
  <2>3. ASSUME NEW i \in DOMAIN calls', NEW j \in DOMAIN calls' PROVE InOrder(i, j)'
    BY <1>4 DEF QueueInv, InOrder
  <2>4. QED BY <1>1, <2>1, <2>2, <2>3 DEF QueueInv
<1>o. OutInv' /\ Window!Late' = Window!Late
  <2>1. \A u \in Window!Views : view'[u].screen = view[u].screen
    BY <1>3
  <2>2. QED BY <1>1, <2>1, OutKept
<1>8. SessionInv'
  BY <1>0, <1>s, <1>1, <1>4, <1>5 DEF SessionInv, Owned, Attached
<1>9. ScreenInv'
  <2>1. ASSUME NEW v \in Window!Views PROVE view'[v].ears \subseteq Window!Pending(v)'
    <3>1. CASE v = c
      BY <1>3, <3>1 DEF Window!Pending
    <3>2. CASE v # c
      BY <1>0, <1>3, <3>2 DEF ScreenInv, Window!Pending
    <3>3. QED BY <3>1, <3>2
  <2>2. QED BY <1>1, <2>1 DEF ScreenInv
<1>10. LineInv'
  <2>1. Known(<<>>, lines)
    BY DEF Known
  <2>2. QED BY <1>1, <1>3, <1>o, <2>1 DEF LineInv
<1>11. QED BY <1>6, <1>7, <1>8, <1>9, <1>10, <1>o

\* A view whose listener was acknowledged makes its next call.
LEMMA AskStep ==
    ASSUME WindowInv, NEW v \in Window!Views, NEW kind \in {"listen", "open"}, NEW p \in ViewSteps,
           view[v].pc \in {"heard_console", "heard_conn"},
           kind = "listen" => p = "listen_conn",
           kind = "open" => p = "opening" /\ v = current,
           view' = [view EXCEPT ![v].pc = p, ![v].ears = Window!Track(v)],
           calls' = Append(calls, <<kind, v>>),
           UNCHANGED <<current, mounted, sessions, retained, spawned, task, lines>>
    PROVE  WindowInv'
<1> USE WindowAssumption DEF WindowAssumption, WindowInv
<1>1. v <= mounted /\ view[v].server \in Servers
  BY DEF QueueInv, Unused, Window!Views, WindowTypes
<1>2. view \in [Window!Views -> ViewRecord] /\ Window!Track(v) \in SUBSET Ears
  BY DEF WindowTypes, Window!Track, ViewRecord
<1>3. /\ view' \in [Window!Views -> ViewRecord]
      /\ view'[v].ears = Window!Track(v) /\ view'[v].reply = view[v].reply
      /\ view'[v].pc = p /\ view'[v].server = view[v].server /\ view'[v].screen = view[v].screen
      /\ \A u \in Window!Views : u # v => view'[u] = view[u]
  BY <1>2 DEF ViewRecord
<1>4. /\ calls' \in Seq(Calls) /\ Len(calls) \in Nat
      /\ DOMAIN calls' = DOMAIN calls \cup {Len(calls) + 1}
      /\ calls'[Len(calls) + 1] = <<kind, v>>
      /\ \A i \in DOMAIN calls : calls'[i] = calls[i] /\ i < Len(calls) + 1
      /\ \A t, k : ClosesFrom(t, k) <=> ClosesFrom(t, k)'
  <2>1. <<kind, v>> \in Calls
    BY DEF Calls
  <2>2. QED BY <2>1, CallsGrow
<1>5. \A i \in DOMAIN calls : calls[i][1] # "close" =>
          /\ calls[i][2] \in Window!Views /\ calls[i][2] # v
          /\ calls[i][2] <= mounted /\ view'[calls[i][2]] = view[calls[i][2]]
  <2>1. \A u \in Window!Views : view[u].pc # "none" => u <= mounted
    BY DEF QueueInv, Unused, Window!Views, WindowTypes
  <2>2. \A i \in DOMAIN calls : calls[i][1] # "close" =>
          /\ calls[i][2] \in Window!Views
          /\ view[calls[i][2]].pc \in {"listen_console", "listen_conn", "opening"}
    BY CallTyped DEF QueueInv, Asked
  <2>3. QED BY <1>3, <2>1, <2>2
<1>6. WindowTypes'
  BY <1>3, <1>4 DEF WindowTypes
<1>7. current # 0 => current \in Window!Views /\ current = mounted
  BY DEF WindowTypes, QueueInv, Window!Views
<1>8. \A s : Attached(s)' <=> Attached(s)
  BY <1>3, <1>7 DEF Attached
<1>9. QueueInv'
  <2>1. ASSUME NEW u \in Window!Views
        PROVE  (IF u > mounted THEN Unused(u) ELSE view[u].server \in Servers)'
    <3>1. CASE u = v
      BY <1>1, <1>3, <3>1 DEF Window!Views, WindowTypes
    <3>2. CASE u # v
      BY <1>1, <1>3, <3>2 DEF QueueInv, Unused
    <3>3. QED BY <3>1, <3>2
  <2>2. kind = "open" => spawned < v
    BY <1>7 DEF QueueInv, Attached, Window!Views
  <2>3. ASSUME NEW i \in DOMAIN calls' PROVE Asked(i)'
    <3>1. CASE i = Len(calls) + 1
      BY <1>3, <1>4, <2>2, <3>1 DEF Asked
    <3>2. CASE i \in DOMAIN calls
      <4>1. calls'[i] = calls[i] /\ Asked(i)
        BY <1>4, <3>2 DEF QueueInv
      <4>2. QED BY <1>4, <1>5, <3>2, <4>1 DEF Asked
    <3>3. QED BY <1>4, <3>1, <3>2
  <2>4. ASSUME NEW i \in DOMAIN calls', NEW j \in DOMAIN calls' PROVE InOrder(i, j)'
    <3>1. \A k \in DOMAIN calls : calls[k][1] # "close" /\ kind = "open" => calls[k][2] < v
      BY <1>1, <1>5, <1>7 DEF Window!Views, WindowTypes
    <3>2. CASE i \in DOMAIN calls /\ j \in DOMAIN calls
      BY <1>4, <3>2 DEF QueueInv, InOrder
    <3>3. CASE i = Len(calls) + 1 /\ j \in DOMAIN calls
      BY <1>4, <1>5, <3>3 DEF InOrder
    <3>4. CASE i \in DOMAIN calls /\ j = Len(calls) + 1
      BY <1>4, <1>5, <3>1, <3>4 DEF InOrder
    <3>5. CASE i = Len(calls) + 1 /\ j = Len(calls) + 1
      BY <1>4, <3>5 DEF InOrder
    <3>6. QED BY <1>4, <3>2, <3>3, <3>4, <3>5
  <2>5. current' # 0 /\ ~Attached(view[current].server)' => spawned' < current'
    BY <1>3, <1>7, <1>8 DEF QueueInv
  <2>6. QED BY <2>1, <2>3, <2>4, <2>5 DEF QueueInv
<1>o. OutInv' /\ Window!Late' = Window!Late
  <2>1. \A u \in Window!Views : view'[u].screen = view[u].screen
    BY <1>3
  <2>2. current # 0 /\ view'[current].pc = "opened" => view'[current] = view[current]
    BY <1>3, <1>7
  <2>3. QED BY <2>1, <2>2, OutKept
<1>10. SessionInv'
  BY <1>4, <1>8 DEF SessionInv, Owned
<1>11. ScreenInv'
  <2>1. ASSUME NEW u \in Window!Views, u # current PROVE view'[u].ears \subseteq Window!Pending(u)'
    <3>1. CASE u = v
      BY <1>3, <2>1, <3>1 DEF Window!Track
    <3>2. CASE u # v
      BY <1>3, <2>1, <3>2 DEF ScreenInv, Window!Pending
    <3>3. QED BY <3>1, <3>2
  <2>2. ASSUME current # 0
        PROVE  /\ Listening(current, view[current].server, view[current].pc)'
               /\ Seeded(current, view[current].server, view[current].pc)'
    <3>1. CASE current = v
      <4>1. Listening(v, view[v].server, view[v].pc) /\ Seeded(v, view[v].server, view[v].pc)
        BY <2>2, <3>1 DEF ScreenInv
      <4>2. Window!Track(v) = view[v].ears /\ p \notin {"none", "gone", "listen_console", "opened", "shown"}
        BY <3>1 DEF Window!Track
      <4>3. QED BY <1>3, <1>4, <1>o, <3>1, <4>1, <4>2 DEF Listening, Seeded, Window!Seed
    <3>2. CASE current # v
      <4>1. /\ Listening(current, view[current].server, view[current].pc)
            /\ Seeded(current, view[current].server, view[current].pc)
            /\ view'[current] = view[current]
        BY <1>3, <1>7, <2>2, <3>2 DEF ScreenInv
      <4>2. \A i \in DOMAIN calls' : calls'[i] = <<"listen", current>> =>
                i \in DOMAIN calls /\ calls[i] = <<"listen", current>>
        BY <1>4, <3>2
      <4>3. QED BY <1>4, <1>o, <4>1, <4>2 DEF Listening, Seeded, Window!Seed
    <3>3. QED BY <3>1, <3>2
  <2>3. QED BY <2>1, <2>2 DEF ScreenInv
<1>12. LineInv'
  BY <1>3, <1>o DEF LineInv
<1>13. QED BY <1>6, <1>9, <1>10, <1>11, <1>12, <1>o

\* A view that is no longer on screen has nothing more to do.
LEMMA GoneStep ==
    ASSUME WindowInv, NEW v \in Window!Views, v # current, view[v].pc \in {"heard_conn", "opened"},
           NEW ears \in SUBSET Window!Pending(v), NEW reply \in {view[v].reply, <<>>},
           view[v].pc = "heard_conn" => ears = {},
           view' = [view EXCEPT ![v] = [view[v] EXCEPT !.pc = "gone", !.ears = ears, !.reply = reply]],
           UNCHANGED <<current, mounted, calls, sessions, retained, spawned, task, lines>>
    PROVE  WindowInv'
<1> USE WindowAssumption DEF WindowAssumption, WindowInv
<1>1. view \in [Window!Views -> ViewRecord] /\ ears = {} /\ reply \in Seq(Window!Lines)
  <2>1. view \in [Window!Views -> ViewRecord] /\ view[v] \in ViewRecord
    BY DEF WindowTypes
  <2>2. view[v].reply \in Seq(Window!Lines) /\ <<>> \in Seq(Window!Lines)
    BY <2>1 DEF ViewRecord
  <2>3. ears = {}
    BY DEF Window!Pending
  <2>4. QED BY <2>1, <2>2, <2>3
<1>2. /\ view' \in [Window!Views -> ViewRecord]
      /\ view'[v].ears = {} /\ view'[v].reply = reply
      /\ view'[v].pc = "gone" /\ view'[v].server = view[v].server /\ view'[v].screen = view[v].screen
      /\ \A u \in Window!Views : u # v => view'[u] = view[u]
  BY <1>1 DEF ViewRecord, ViewSteps
<1>3. \A t, k : ClosesFrom(t, k)' <=> ClosesFrom(t, k)
  BY DEF ClosesFrom
<1>4. current # 0 => current \in Window!Views /\ view'[current] = view[current]
  BY <1>2 DEF WindowTypes, Window!Views
<1>5. \A s : Attached(s)' <=> Attached(s)
  BY <1>4 DEF Attached
<1>6. WindowTypes'
  BY <1>2 DEF WindowTypes
<1>7. QueueInv'
  <2>1. \A u \in Window!Views : (IF u > mounted THEN Unused(u) ELSE view[u].server \in Servers)'
    BY <1>2 DEF QueueInv, Unused
  <2>2. ASSUME NEW i \in DOMAIN calls PROVE Asked(i)'
    <3>1. calls[i][1] # "close" => view'[calls[i][2]] = view[calls[i][2]]
      BY <1>2, CallTyped DEF QueueInv, Asked
    <3>2. QED BY <1>3, <3>1, CallTyped DEF QueueInv, Asked
  <2>3. QED BY <1>4, <1>5, <2>1, <2>2 DEF QueueInv, InOrder
<1>o. OutInv' /\ Window!Late' = Window!Late
  <2>1. \A u \in Window!Views : view'[u].screen = view[u].screen
    BY <1>2
  <2>2. QED BY <1>4, <2>1, OutKept
<1>8. SessionInv'
  BY <1>3, <1>5 DEF SessionInv, Owned
<1>9. ScreenInv'
  BY <1>2, <1>3, <1>4, <1>o DEF ScreenInv, Window!Pending, Listening, Seeded, Window!Seed
<1>10. LineInv'
  <2>1. Known(<<>>, lines)
    BY DEF Known
  <2>2. QED BY <1>2, <1>o, <2>1 DEF LineInv
<1>11. QED BY <1>6, <1>7, <1>8, <1>9, <1>10, <1>o

\* Lines are natural numbers.
LEMMA LinesAreNaturals == Seq(Window!Lines) \subseteq Seq(Nat)
BY WindowAssumption DEF WindowAssumption, Window!Lines

\* The scrollback is written behind the lines that came meanwhile.
LEMMA OpenedStep ==
    ASSUME WindowInv, NEW v \in Window!Views, Window!Opened(v)
    PROVE  WindowInv'
<1> USE WindowAssumption DEF WindowAssumption, WindowInv
<1>1. /\ view \in [Window!Views -> ViewRecord] /\ view[v] \in ViewRecord /\ view[v].pc = "opened"
      /\ UNCHANGED <<current, mounted, calls, sessions, retained, spawned, task, lines>>
  BY DEF Window!Opened, Window!manager, WindowTypes
<1>2. CASE v # current
  <2>1. view' = [view EXCEPT ![v] = [view[v] EXCEPT !.pc = "gone", !.ears = view[v].ears, !.reply = <<>>]]
    <3>1. view' = [view EXCEPT ![v].pc = "gone", ![v].reply = <<>>]
      BY <1>2 DEF Window!Opened
    <3>2. view' = [view EXCEPT ![v] = [view[v] EXCEPT !.pc = "gone", !.reply = <<>>]]
      BY <1>1, <3>1
    <3>3. [view[v] EXCEPT !.pc = "gone", !.reply = <<>>]
              = [view[v] EXCEPT !.pc = "gone", !.ears = view[v].ears, !.reply = <<>>]
      BY <1>1 DEF ViewRecord
    <3>4. QED BY <3>2, <3>3
  <2>2. view[v].ears \in SUBSET Window!Pending(v)
    BY <1>2 DEF ScreenInv
  <2>3. QED BY <1>1, <1>2, <2>1, <2>2, GoneStep
<1>3. CASE v = current
  <2> DEFINE scr == view[v].screen \o view[v].reply
             x == [view[v] EXCEPT !.pc = "shown", !.screen = scr]
  <2>1. /\ Seeded(v, view[v].server, "opened") /\ Listening(v, view[v].server, "opened")
        /\ current # 0 /\ OnceBut(view[v].screen, lines, Window!Late) /\ Once(view[v].reply, lines)
    BY <1>1, <1>3 DEF ScreenInv, LineInv, Once, Seeded, Window!Views
  <2>2. scr \in Seq(Window!Lines)
    BY <1>1 DEF ViewRecord
  <2>3. OnceBut(scr, lines, Window!Late) /\ Range(scr) = Range(view[v].screen) \cup Range(view[v].reply)
    <3>1. view[v].screen \in Seq(Nat) /\ view[v].reply \in Seq(Nat) /\ lines \in Nat
      BY <1>1, LinesAreNaturals DEF ViewRecord, WindowTypes
    <3>2. QED BY <2>1, <3>1, ConcatOnce DEF Seeded
  <2> HIDE DEF scr
  <2>4. x \in ViewRecord /\ x.pc = "shown" /\ x.screen = scr /\ x.reply = view[v].reply
        /\ x.ears = view[v].ears /\ x.server = view[v].server
    BY <1>1, <2>2 DEF ViewRecord, ViewSteps
  <2>5. view' = [view EXCEPT ![v] = x]
    <3>1. view' = [view EXCEPT ![v].pc = "shown", ![v].screen = @ \o view[v].reply]
      BY <1>3 DEF Window!Opened
    <3>2. QED BY <1>1, <3>1 DEF scr
  <2> HIDE DEF x
  <2>6. /\ view' \in [Window!Views -> ViewRecord] /\ view'[v] = x
        /\ \A u \in Window!Views : u # v => view'[u] = view[u]
    BY <1>1, <2>4, <2>5
  <2>7. \A t, k : ClosesFrom(t, k)' <=> ClosesFrom(t, k)
    BY <1>1 DEF ClosesFrom
  <2>8. \A s : Attached(s)' <=> Attached(s)
    BY <1>1, <1>3, <2>4, <2>6 DEF Attached
  <2>9. WindowTypes'
    BY <1>1, <2>6 DEF WindowTypes
  <2>10. QueueInv'
    <3>1. ASSUME NEW u \in Window!Views
          PROVE  (IF u > mounted THEN Unused(u) ELSE view[u].server \in Servers)'
      <4>1. CASE u = v
        BY <1>1, <2>4, <2>6, <4>1 DEF QueueInv, Unused
      <4>2. CASE u # v
        BY <1>1, <2>6, <4>2 DEF QueueInv, Unused
      <4>3. QED BY <4>1, <4>2
    <3>2. ASSUME NEW i \in DOMAIN calls PROVE Asked(i)'
      <4>1. calls[i][1] # "close" => view'[calls[i][2]] = view[calls[i][2]]
        BY <1>1, <2>6, CallTyped DEF QueueInv, Asked
      <4>2. QED BY <1>1, <2>7, <4>1, CallTyped DEF QueueInv, Asked
    <3>3. view'[current].server = view[current].server
      BY <1>3, <2>4, <2>6
    <3>4. QED BY <1>1, <2>8, <3>1, <3>2, <3>3 DEF QueueInv, InOrder
  <2>l. Window!Late' = Window!Late
    BY <1>1 DEF Window!Late
  <2>o. OutInv'
    <3>1. ASSUME NEW n \in Window!Tasks, Fresh(n), NEW u \in Window!Views
          PROVE  task[n].out \notin Range(view'[u].screen)
      <4>1. Unseen(task[n].out)
        BY <3>1 DEF OutInv
      <4>2. CASE u = v
        BY <1>1, <1>3, <2>1, <2>3, <2>4, <2>6, <4>1, <4>2 DEF Unseen
      <4>3. CASE u # v
        BY <2>6, <4>1, <4>3 DEF Unseen
      <4>4. QED BY <4>2, <4>3
    <3>2. view'[current].pc # "opened"
      BY <1>3, <2>4, <2>6
    <3>3. QED BY <1>1, <2>l, <3>1, <3>2 DEF OutInv, Apart, Fresh, Unseen
  <2>11. SessionInv'
    BY <1>1, <2>7, <2>8 DEF SessionInv, Owned
  <2>12. ScreenInv'
    <3>1. ASSUME NEW u \in Window!Views, u # current PROVE view'[u].ears \subseteq Window!Pending(u)'
      BY <1>3, <2>6, <3>1 DEF ScreenInv, Window!Pending
    <3>2. Listening(v, view[v].server, view[v].pc)' /\ Seeded(v, view[v].server, view[v].pc)'
      BY <1>1, <2>1, <2>3, <2>4, <2>6, <2>7, <2>l DEF Listening, Seeded
    <3>3. QED BY <1>1, <1>3, <3>1, <3>2 DEF ScreenInv
  <2>13. LineInv'
    BY <1>1, <2>3, <2>4, <2>6, <2>l DEF LineInv
  <2>14. QED BY <2>9, <2>10, <2>11, <2>12, <2>13, <2>o
<1>4. QED BY <1>2, <1>3

\* Whatever a mounted view does next.
LEMMA ViewStepInv ==
    ASSUME WindowInv, NEW v \in Window!Views, Window!ViewStep(v)
    PROVE  WindowInv'
<1>1. CASE Window!Listen(v)
  <2>1. "listen_conn" \in ViewSteps /\ view[v].pc = "heard_console"
        /\ view' = [view EXCEPT ![v].pc = "listen_conn", ![v].ears = Window!Track(v)]
        /\ calls' = Append(calls, <<"listen", v>>)
        /\ UNCHANGED <<current, mounted, sessions, retained, spawned, task, lines>>
    BY <1>1 DEF Window!Listen, Window!manager, ViewSteps
  <2>2. QED BY <2>1, AskStep
<1>2. CASE Window!Open(v) /\ v = current
  <2>1. "opening" \in ViewSteps /\ view[v].pc = "heard_conn"
        /\ view' = [view EXCEPT ![v].pc = "opening", ![v].ears = Window!Track(v)]
        /\ calls' = Append(calls, <<"open", v>>)
        /\ UNCHANGED <<current, mounted, sessions, retained, spawned, task, lines>>
    BY <1>2 DEF Window!Open, Window!manager, ViewSteps
  <2>2. QED BY <1>2, <2>1, AskStep
<1>3. CASE Window!Open(v) /\ v # current
  <2>1. /\ view[v].pc = "heard_conn" /\ Window!Track(v) = {}
        /\ view' = [view EXCEPT ![v].pc = "gone", ![v].ears = {}]
        /\ UNCHANGED <<current, mounted, calls, sessions, retained, spawned, task, lines>>
    BY <1>3 DEF Window!Open, Window!manager, Window!Track
  <2>2. view \in [Window!Views -> ViewRecord] /\ view[v] \in ViewRecord
    BY DEF WindowInv, WindowTypes
  <2>3. view' = [view EXCEPT ![v] = [view[v] EXCEPT !.pc = "gone", !.ears = {}]]
    BY <2>1, <2>2
  <2>4. [view[v] EXCEPT !.pc = "gone", !.ears = {}]
            = [view[v] EXCEPT !.pc = "gone", !.ears = {}, !.reply = view[v].reply]
    BY <2>2 DEF ViewRecord
  <2>5. view' = [view EXCEPT ![v] = [view[v] EXCEPT !.pc = "gone", !.ears = {}, !.reply = view[v].reply]]
    BY <2>3, <2>4
  <2>6. {} \in SUBSET Window!Pending(v) /\ view[v].reply \in {view[v].reply, <<>>}
    OBVIOUS
  <2>7. QED BY <1>3, <2>1, <2>5, <2>6, GoneStep
<1>4. QED BY <1>1, <1>2, <1>3, OpenedStep DEF Window!ViewStep

-----------------------------------------------------------------------------
(* The steps of the manager *)

\* What is left in the queue when the first call has been served: only the view
\* that made it has moved, and at most one session has been spawned for it.
LEMMA ServedQueue ==
    ASSUME WindowInv, calls # <<>>, calls' = Tail(calls), UNCHANGED <<current, mounted>>,
           \A u \in Window!Views :
              calls[1] \notin {<<"listen", u>>, <<"open", u>>} => view'[u] = view[u],
           \A u \in Window!Views : view'[u].server = view[u].server,
           \A u \in Window!Views : calls[1] = <<"open", u>> => view'[u].pc = "opened",
           spawned' = spawned \/ (calls[1][1] = "open" /\ spawned' = spawned + 1)
    PROVE  QueueInv' /\ \A s : s \in Servers => (ClosesFrom(s, 1)' => ClosesFrom(s, 1))
<1> USE DEF WindowInv
<1>1. /\ 1 \in DOMAIN calls
      /\ \A i \in DOMAIN calls' : i \in Nat \ {0} /\ i + 1 \in DOMAIN calls /\ i + 1 # 1 /\ 1 < i + 1
                                  /\ calls'[i] = calls[i + 1]
      /\ \A s : \A k \in Nat \ {0} : ClosesFrom(s, k)' <=> ClosesFrom(s, k + 1)
      /\ \A s : ClosesFrom(s, 1)' => ClosesFrom(s, 1)
  <2>1. /\ calls' \in Seq(Calls) /\ 1 \in DOMAIN calls
        /\ \A i \in DOMAIN calls' : i \in Nat /\ i + 1 \in DOMAIN calls /\ calls'[i] = calls[i + 1]
        /\ \A s : \A k \in Nat \ {0} : ClosesFrom(s, k)' <=> ClosesFrom(s, k + 1)
        /\ \A s : ClosesFrom(s, 1)' => ClosesFrom(s, 1)
    BY CallsShrink
  <2>2. \A i \in DOMAIN calls' : i \in Nat \ {0}
    BY <2>1
  <2>3. QED BY <2>1, <2>2
<1>2. \A u \in Window!Views : calls[1] \in {<<"listen", u>>, <<"open", u>>} =>
          u <= mounted /\ view[u].pc \in {"listen_console", "listen_conn", "opening"}
  <2>1. ASSUME NEW u \in Window!Views, calls[1] \in {<<"listen", u>>, <<"open", u>>}
        PROVE  view[u].pc \in {"listen_console", "listen_conn", "opening"}
    <3>1. Asked(1) /\ calls[1][2] = u /\ calls[1][1] \in {"listen", "open"}
      BY <1>1, <2>1 DEF QueueInv
    <3>2. QED BY <3>1 DEF Asked
  <2>2. \A u \in Window!Views : view[u].pc # "none" => u <= mounted
    BY DEF QueueInv, Unused, Window!Views, WindowTypes
  <2>3. QED BY <2>1, <2>2
<1>3. \A i \in DOMAIN calls' : calls'[i][1] # "close" =>
          calls'[i][2] \in Window!Views /\ view'[calls'[i][2]] = view[calls'[i][2]]
  <2>1. ASSUME NEW i \in DOMAIN calls', calls'[i][1] # "close"
        PROVE  calls'[i][2] \in Window!Views /\ view'[calls'[i][2]] = view[calls'[i][2]]
    <3>1. InOrder(1, i + 1) /\ calls'[i] = calls[i + 1] /\ 1 # i + 1
      BY <1>1 DEF QueueInv
    <3>2. calls'[i][2] \in Window!Views
      BY <1>1, <2>1, <3>1, CallTyped
    <3>3. calls[1] \notin {<<"listen", calls'[i][2]>>, <<"open", calls'[i][2]>>}
      BY <2>1, <3>1 DEF InOrder
    <3>4. QED BY <3>2, <3>3
  <2>2. QED BY <2>1
<1>4. \A i \in DOMAIN calls' : calls'[i][1] = "open" => spawned' < calls'[i][2]
  <2>1. ASSUME NEW i \in DOMAIN calls', calls'[i][1] = "open" PROVE spawned' < calls'[i][2]
    <3>1. InOrder(1, i + 1) /\ Asked(1) /\ Asked(i + 1) /\ calls'[i] = calls[i + 1] /\ 1 < i + 1
      BY <1>1 DEF QueueInv
    <3>2. /\ spawned < calls'[i][2] /\ spawned \in Nat /\ calls'[i][2] \in Nat
          /\ calls[1][1] = "open" => /\ spawned < calls[1][2] /\ calls[1][2] < calls'[i][2]
                                     /\ calls[1][2] \in Nat
      BY <1>1, <1>3, <2>1, <3>1, CallTyped DEF InOrder, Asked, WindowTypes, Window!Views
    <3>3. QED BY <3>2
  <2>2. QED BY <2>1
<1>5. ASSUME NEW i \in DOMAIN calls' PROVE Asked(i)'
  <2>1. Asked(i + 1) /\ calls'[i] = calls[i + 1]
    BY <1>1 DEF QueueInv
  <2>2. QED BY <1>1, <1>3, <1>4, <2>1 DEF Asked
<1>6. ASSUME NEW i \in DOMAIN calls', NEW j \in DOMAIN calls' PROVE InOrder(i, j)'
  <2>1. InOrder(i + 1, j + 1) /\ calls'[i] = calls[i + 1] /\ calls'[j] = calls[j + 1]
        /\ i \in Nat /\ j \in Nat
    BY <1>1 DEF QueueInv
  <2>2. QED BY <2>1 DEF InOrder
<1>7. ASSUME NEW u \in Window!Views
      PROVE  (IF u > mounted THEN Unused(u) ELSE view[u].server \in Servers)'
  BY <1>2 DEF QueueInv, Unused, Window!Views, WindowTypes
<1>8. spawned' <= mounted'
      /\ (calls[1][1] = "open" => calls[1][2] \in Window!Views /\ calls[1] = <<"open", calls[1][2]>>
                                  /\ spawned < calls[1][2] /\ calls[1][2] <= mounted)
  <2>1. calls[1][1] = "open" => calls[1][2] \in Window!Views /\ calls[1] = <<"open", calls[1][2]>>
                                /\ spawned < calls[1][2] /\ calls[1][2] <= mounted
    BY <1>1, <1>2, CallTyped DEF QueueInv, Asked
  <2>2. spawned \in Nat /\ mounted \in Nat /\ Window!Views \subseteq Nat /\ spawned <= mounted
    BY DEF WindowTypes, Window!Views, QueueInv
  <2>3. PICK w : w = calls[1][2]
    OBVIOUS
  <2>4. calls[1][1] = "open" => w \in Nat /\ spawned < w /\ w <= mounted
    BY <2>1, <2>2, <2>3
  <2>5. spawned' <= mounted
    BY <2>2, <2>4
  <2>6. QED BY <2>1, <2>5
<1>9. ASSUME current # 0, ~Attached(view[current].server)' PROVE spawned' < current
  <2>1. current \in Window!Views /\ current = mounted /\ current \in Nat /\ spawned \in Nat
    BY <1>9 DEF WindowTypes, Window!Views, QueueInv
  <2>2. view'[current].pc \notin {"opened", "shown"}
    BY <1>9, <2>1 DEF Attached
  <2>3. CASE calls[1] \in {<<"listen", current>>, <<"open", current>>}
    <3>1. view[current].pc \notin {"opened", "shown"} /\ calls[1] = <<"listen", current>>
      BY <1>2, <2>1, <2>2, <2>3
    <3>2. spawned < current
      BY <1>9, <3>1 DEF QueueInv, Attached
    <3>3. QED BY <3>1, <3>2
  <2>4. CASE calls[1] \notin {<<"listen", current>>, <<"open", current>>}
    <3>1. spawned < current
      BY <1>9, <2>1, <2>2, <2>4 DEF QueueInv, Attached
    <3>2. CASE calls[1][1] = "open"
      <4>1. PICK w : w = calls[1][2]
        OBVIOUS
      <4>2. w \in Nat /\ spawned < w /\ w <= current
        BY <1>8, <2>1, <3>2, <4>1 DEF Window!Views
      <4>3. w # current
        BY <1>8, <2>4, <3>2, <4>1
      <4>4. QED BY <2>1, <3>1, <4>2, <4>3
    <3>3. QED BY <3>1, <3>2
  <2>5. QED BY <2>3, <2>4
<1>10. QED BY <1>1, <1>5, <1>6, <1>7, <1>8, <1>9 DEF QueueInv

\* A listener is registered; every close of an earlier view has been served by now.
LEMMA ServeListenStep ==
    ASSUME WindowInv, calls # <<>>, calls' = Tail(calls), NEW v \in Window!Views,
           calls[1] = <<"listen", v>>, Window!ServeListen(v), UNCHANGED <<current, mounted, lines>>
    PROVE  WindowInv'
<1> USE WindowAssumption DEF WindowAssumption, WindowInv
<1> DEFINE old == view[v].pc = "listen_console"
<1>1. /\ view \in [Window!Views -> ViewRecord] /\ view[v] \in ViewRecord
      /\ UNCHANGED <<sessions, retained, spawned, task>>
      /\ view[v].pc \in {"listen_console", "listen_conn"}
  <2>1. 1 \in DOMAIN calls
    BY CallsShrink
  <2>2. Asked(1)
    BY <2>1 DEF QueueInv
  <2>3. QED BY <2>2 DEF Window!ServeListen, Window!manager, WindowTypes, Asked
<1>2. PICK pcv, ev : /\ old => pcv = "heard_console" /\ ev = "console"
                     /\ ~old => pcv = "heard_conn" /\ ev = "conn"
  OBVIOUS
<1>3. /\ view' \in [Window!Views -> ViewRecord]
      /\ view'[v].pc = pcv /\ view'[v].ears = view[v].ears \cup {ev}
      /\ view'[v].screen = view[v].screen /\ view'[v].reply = view[v].reply
      /\ view'[v].server = view[v].server
      /\ \A u \in Window!Views : u # v => view'[u] = view[u]
  <2> DEFINE x == [view[v] EXCEPT !.pc = pcv, !.ears = view[v].ears \cup {ev}]
  <2>1. view' = [view EXCEPT ![v] = x]
    <3>1. view' = [view EXCEPT
             ![v].pc   = IF @ = "listen_console" THEN "heard_console" ELSE "heard_conn",
             ![v].ears = @ \cup {IF view[v].pc = "listen_console" THEN "console" ELSE "conn"}]
      BY DEF Window!ServeListen
    <3>2. QED BY <1>1, <1>2, <3>1
  <2>2. /\ x \in ViewRecord /\ x.pc = pcv /\ x.ears = view[v].ears \cup {ev}
        /\ x.screen = view[v].screen /\ x.reply = view[v].reply /\ x.server = view[v].server
    BY <1>1, <1>2 DEF ViewRecord, ViewSteps, Ears
  <2> HIDE DEF x
  <2>3. QED BY <1>1, <2>1, <2>2
<1>4. /\ \A s : ClosesFrom(s, 1)' <=> ClosesFrom(s, 1)
      /\ \A i \in DOMAIN calls' : i \in Nat \ {0} /\ i + 1 \in DOMAIN calls /\ calls'[i] = calls[i + 1]
      /\ \A s : \A k \in Nat \ {0} : ClosesFrom(s, k)' <=> ClosesFrom(s, k + 1)
      /\ calls' \in Seq(Calls) /\ 1 \in DOMAIN calls
  <2>1. /\ \A s : calls[1] # <<"close", s>>
        /\ \A s : ClosesFrom(s, 1) /\ calls[1] # <<"close", s>> => ClosesFrom(s, 1)'
        /\ \A s : ClosesFrom(s, 1)' => ClosesFrom(s, 1)
        /\ \A i \in DOMAIN calls' : i \in Nat /\ i + 1 \in DOMAIN calls /\ calls'[i] = calls[i + 1]
        /\ \A s : \A k \in Nat \ {0} : ClosesFrom(s, k)' <=> ClosesFrom(s, k + 1)
        /\ calls' \in Seq(Calls) /\ 1 \in DOMAIN calls
    BY CallsShrink
  <2>2. \A i \in DOMAIN calls' : i # 0
    BY <2>1
  <2>3. QED BY <2>1, <2>2
<1> HIDE DEF old
<1>5. WindowTypes'
  BY <1>1, <1>3, <1>4 DEF WindowTypes
<1>6. QueueInv'
  <2>1. \A u \in Window!Views : calls[1] \notin {<<"listen", u>>, <<"open", u>>} => view'[u] = view[u]
    BY <1>3
  <2>2. \A u \in Window!Views : view'[u].server = view[u].server
    BY <1>3
  <2>3. QED BY <1>1, <2>1, <2>2, ServedQueue
<1>7. \A s : Attached(s)' <=> Attached(s)
  <2>1. current # 0 => current \in Window!Views
    BY DEF WindowTypes, Window!Views
  <2>2. QED BY <1>1, <1>2, <1>3, <2>1 DEF Attached
<1>o. OutInv' /\ Window!Late' = Window!Late
  <2>1. \A u \in Window!Views : view'[u].screen = view[u].screen
    BY <1>3
  <2>2. current # 0 => current \in Window!Views
    BY DEF WindowTypes, Window!Views
  <2>3. current # 0 /\ view'[current].pc = "opened" => view'[current] = view[current]
    BY <1>2, <1>3, <2>2
  <2>4. QED BY <1>1, <2>1, <2>3, OutKept
<1>8. SessionInv'
  BY <1>1, <1>4, <1>7 DEF SessionInv, Owned
<1>9. ScreenInv'
  <2>1. ASSUME NEW u \in Window!Views, u # current PROVE view'[u].ears \subseteq Window!Pending(u)'
    <3>1. CASE u = v
      <4>1. view[v].ears = {}
        BY <1>1, <2>1, <3>1 DEF ScreenInv, Window!Pending
      <4>2. Window!Pending(v)' = {ev}
        BY <1>2, <1>3 DEF Window!Pending
      <4>3. QED BY <1>3, <3>1, <4>1, <4>2
    <3>2. CASE u # v
      BY <1>3, <2>1, <3>2 DEF ScreenInv, Window!Pending
    <3>3. QED BY <3>1, <3>2
  <2>2. ASSUME current # 0
        PROVE  /\ Listening(current, view[current].server, view[current].pc)'
               /\ Seeded(current, view[current].server, view[current].pc)'
    <3>1. CASE current = v
      <4>1. Listening(v, view[v].server, view[v].pc) /\ Seeded(v, view[v].server, view[v].pc)
        BY <2>2, <3>1 DEF ScreenInv
      <4>2. "console" \in view'[v].ears /\ ~ClosesFrom(view[v].server, 1)
        BY <1>1, <1>2, <1>3, <1>4, <4>1 DEF Listening, old
      <4>3. Range(view[v].screen) \cap Range(Window!Seed(view[v].server)) \subseteq Window!Late
        <5>1. CASE view[v].pc = "listen_console"
          <6>1. view[v].screen = <<>>
            BY <4>1, <5>1 DEF Listening
          <6>2. Range(<<>>) = {}
            BY DEF Range
          <6>3. QED BY <6>1, <6>2
        <5>2. CASE view[v].pc = "listen_conn"
          BY <4>1, <5>2 DEF Seeded
        <5>3. QED BY <1>1, <5>1, <5>2
      <4>4. pcv \notin {"none", "gone", "listen_console", "opened", "shown"}
        BY <1>2
      <4>5. QED BY <1>1, <1>3, <1>4, <1>o, <3>1, <4>2, <4>3, <4>4 DEF Listening, Seeded, Window!Seed
    <3>2. CASE current # v
      <4>1. /\ Listening(current, view[current].server, view[current].pc)
            /\ Seeded(current, view[current].server, view[current].pc)
            /\ view'[current] = view[current]
        BY <1>3, <2>2, <3>2 DEF ScreenInv, WindowTypes, Window!Views
      <4>2. QED BY <1>1, <1>4, <1>o, <4>1 DEF Listening, Seeded, Window!Seed
    <3>3. QED BY <3>1, <3>2
  <2>3. QED BY <2>1, <2>2 DEF ScreenInv
<1>10. LineInv'
  BY <1>1, <1>3, <1>o DEF LineInv
<1>11. QED BY <1>5, <1>6, <1>8, <1>9, <1>10, <1>o

\* What changes when a call other than a close is served.
LEMMA ServedOther ==
    ASSUME WindowInv, calls # <<>>, calls' = Tail(calls), calls[1][1] # "close"
    PROVE  /\ \A s : ClosesFrom(s, 1)' <=> ClosesFrom(s, 1)
           /\ \A i \in DOMAIN calls' : i \in Nat \ {0} /\ i + 1 \in DOMAIN calls /\ calls'[i] = calls[i + 1]
           /\ \A s : \A k \in Nat \ {0} : ClosesFrom(s, k)' <=> ClosesFrom(s, k + 1)
           /\ calls' \in Seq(Calls) /\ 1 \in DOMAIN calls
<1>1. /\ \A s : calls[1] # <<"close", s>>
      /\ \A s : ClosesFrom(s, 1) /\ calls[1] # <<"close", s>> => ClosesFrom(s, 1)'
      /\ \A s : ClosesFrom(s, 1)' => ClosesFrom(s, 1)
      /\ \A i \in DOMAIN calls' : i \in Nat /\ i + 1 \in DOMAIN calls /\ calls'[i] = calls[i + 1]
      /\ \A s : \A k \in Nat \ {0} : ClosesFrom(s, k)' <=> ClosesFrom(s, k + 1)
      /\ calls' \in Seq(Calls) /\ 1 \in DOMAIN calls
  BY CallsShrink DEF WindowInv
<1>2. \A i \in DOMAIN calls' : i # 0
  BY <1>1
<1>3. QED BY <1>1, <1>2

\* The scrollback a session starts from.
LEMMA SeedTyped ==
    ASSUME WindowInv, NEW s \in Servers
    PROVE  Window!Seed(s) \in Seq(Window!Lines) /\ Once(Window!Seed(s), lines)
<1>1. Once(<<>>, lines) /\ <<>> \in Seq(Window!Lines)
  BY DEF Once, Known, IsInjective
<1>2. QED BY <1>1 DEF WindowInv, WindowTypes, LineInv, Window!Seed

\* The view on screen never opens onto a running session; the open of one that has
\* gone may, and its session is closed behind it.
LEMMA ServeOpenStep ==
    ASSUME WindowInv, calls # <<>>, calls' = Tail(calls), NEW v \in Window!Views,
           calls[1] = <<"open", v>>, Window!ServeOpen(v, view[v].server),
           UNCHANGED <<current, mounted, lines>>
    PROVE  WindowInv'
<1> USE WindowAssumption DEF WindowAssumption, WindowInv
<1>s. PICK s : s = view[v].server
  OBVIOUS
<1>1. /\ view \in [Window!Views -> ViewRecord] /\ view[v] \in ViewRecord /\ view[v].pc = "opening"
      /\ spawned < v /\ v <= mounted /\ s \in Servers
      /\ v # current => ClosesFrom(s, 1)
  <2>1. 1 \in DOMAIN calls
    BY CallsShrink
  <2>2. Asked(1)
    BY <2>1 DEF QueueInv
  <2>3. view[v].pc = "opening" /\ spawned < v /\ (v # current => ClosesFrom(s, 1))
    BY <1>s, <2>2 DEF Asked
  <2>4. v <= mounted /\ s \in Servers
    BY <1>s, <2>3 DEF QueueInv, Unused, WindowTypes, Window!Views
  <2>5. QED BY <2>3, <2>4 DEF WindowTypes
<1>2. v = current => ~ClosesFrom(s, 1) /\ sessions[s] = 0
                     /\ Range(view[v].screen) \cap Range(Window!Seed(s)) \subseteq Window!Late /\ "console" \in view[v].ears
  <2>1. ASSUME v = current
        PROVE  /\ ~ClosesFrom(s, 1) /\ ~Attached(s) /\ "console" \in view[v].ears
               /\ Range(view[v].screen) \cap Range(Window!Seed(s)) \subseteq Window!Late
    <3>1. v # 0
      BY DEF Window!Views
    <3>2. Listening(v, s, "opening") /\ Seeded(v, s, "opening")
      BY <1>1, <1>s, <2>1, <3>1 DEF ScreenInv
    <3>3. QED BY <1>1, <2>1, <3>2 DEF Attached, Listening, Seeded
  <2>2. QED BY <1>1, <2>1 DEF SessionInv, Owned
<1>3. PICK answer : answer = IF sessions[s] # 0 THEN task[sessions[s]].buffer ELSE Window!Seed(s)
  OBVIOUS
<1>4. /\ answer \in Seq(Window!Lines) /\ Known(answer, lines)
      /\ v = current => /\ Once(answer, lines)
                        /\ Range(view[v].screen) \cap Range(answer) \subseteq Window!Late
  <2>1. sessions[s] # 0 => sessions[s] \in Window!Tasks
    BY <1>1 DEF WindowTypes, Window!Tasks
  <2>2. sessions[s] # 0 => answer \in Seq(Window!Lines) /\ Known(answer, lines)
    BY <1>3, <2>1 DEF WindowTypes, LineInv, Once, TaskRecord
  <2>3. QED BY <1>1, <1>2, <1>3, <2>2, SeedTyped DEF Once
<1>5. /\ view' \in [Window!Views -> ViewRecord]
      /\ view'[v].pc = "opened" /\ view'[v].reply = answer
      /\ view'[v].screen = view[v].screen /\ view'[v].ears = view[v].ears
      /\ view'[v].server = s
      /\ \A u \in Window!Views : u # v => view'[u] = view[u]
  <2>1. view' = [view EXCEPT ![v].pc = "opened", ![v].reply = answer]
    BY <1>3, <1>s DEF Window!ServeOpen
  <2> DEFINE x == [view[v] EXCEPT !.pc = "opened", !.reply = answer]
  <2>2. view' = [view EXCEPT ![v] = x]
    BY <1>1, <2>1
  <2>3. /\ x \in ViewRecord /\ x.pc = "opened" /\ x.reply = answer
        /\ x.screen = view[v].screen /\ x.ears = view[v].ears /\ x.server = s
    BY <1>1, <1>s, <1>4 DEF ViewRecord, ViewSteps
  <2> HIDE DEF x
  <2>4. QED BY <1>1, <2>2, <2>3
<1>6. /\ \A t : ClosesFrom(t, 1)' <=> ClosesFrom(t, 1)
      /\ \A i \in DOMAIN calls' : i \in Nat \ {0} /\ i + 1 \in DOMAIN calls /\ calls'[i] = calls[i + 1]
      /\ \A t : \A k \in Nat \ {0} : ClosesFrom(t, k)' <=> ClosesFrom(t, k + 1)
      /\ calls' \in Seq(Calls) /\ 1 \in DOMAIN calls
  BY ServedOther
<1>7. spawned' = spawned \/ spawned' = spawned + 1
  BY DEF Window!ServeOpen, Window!manager
<1>8. QueueInv'
  <2>1. \A u \in Window!Views : calls[1] \notin {<<"listen", u>>, <<"open", u>>} => view'[u] = view[u]
    BY <1>5
  <2>2. \A u \in Window!Views : view'[u].server = view[u].server
    BY <1>5, <1>s
  <2>3. QED BY <1>5, <1>7, <2>1, <2>2, ServedQueue
<1>9. /\ \A t : t # s => (Attached(t)' <=> Attached(t))
      /\ Attached(s) => Attached(s)'
      /\ v = current => Attached(s)'
  <2>1. current # 0 => current \in Window!Views
    BY DEF WindowTypes, Window!Views
  <2>2. v # 0
    BY DEF Window!Views
  <2>3. QED BY <1>1, <1>5, <1>s, <2>1, <2>2 DEF Attached
<1>10. current # 0 /\ current # v =>
          /\ current \in Window!Views /\ view'[current] = view[current]
          /\ Listening(current, view[current].server, view[current].pc)
          /\ Seeded(current, view[current].server, view[current].pc)
          /\ view[current].server = s => view[current].pc = "listen_console"
  <2>1. ASSUME current # 0, current # v
        PROVE  /\ current \in Window!Views /\ view'[current] = view[current]
               /\ Listening(current, view[current].server, view[current].pc)
               /\ Seeded(current, view[current].server, view[current].pc)
    BY <1>5, <2>1 DEF ScreenInv, WindowTypes, Window!Views
  <2>2. QED BY <1>1, <2>1 DEF Listening
<1>11. \A u \in Window!Views : u # current => view'[u].ears \subseteq Window!Pending(u)'
  <2>1. v # current => view[v].ears = {}
    BY <1>1 DEF ScreenInv, Window!Pending
  <2>2. QED BY <1>5, <2>1 DEF ScreenInv, Window!Pending
<1>12. current # 0 /\ current # v => Listening(current, view[current].server, view[current].pc)'
  BY <1>6, <1>10 DEF Listening
<1>13. v = current => Listening(v, view[v].server, view[v].pc)'
  BY <1>2, <1>5, <1>6 DEF Listening
<1>o. ASSUME Window!Late' = Window!Late, lines' = lines,
             \A m \in Window!Tasks : task'[m].out = task[m].out /\ task'[m].buffer = task[m].buffer,
             \A t \in DOMAIN retained' : t \in DOMAIN retained /\ retained'[t] = retained[t]
      PROVE  OutInv'
  <2>1. ASSUME NEW m \in Window!Tasks, Fresh(m), current # 0, view'[current].pc = "opened"
        PROVE  task[m].out \notin Range(view'[current].reply)
    <3>1. Unseen(task[m].out)
      BY <2>1 DEF OutInv
    <3>2. CASE current = v
      <4>1. view'[v].reply = Window!Seed(s) /\ Range(<<>>) = {}
        BY <1>2, <1>3, <1>5, <3>2 DEF Range
      <4>2. QED BY <3>1, <3>2, <4>1 DEF Unseen, Window!Seed
    <3>3. CASE current # v
      BY <1>10, <2>1, <3>1, <3>3 DEF Unseen
    <3>4. QED BY <3>2, <3>3
  <2>2. \A u \in Window!Views : view'[u].screen = view[u].screen
    BY <1>5
  <2>3. QED BY <1>o, <2>1, <2>2 DEF OutInv, Apart, Fresh, Unseen
<1>14. CASE sessions[s] # 0
  <2>1. UNCHANGED <<sessions, retained, spawned, task>> /\ v # current
    BY <1>2, <1>14, <1>s DEF Window!ServeOpen, Window!manager
  <2>2. WindowTypes'
    BY <1>5, <1>6, <2>1 DEF WindowTypes
  <2>o. OutInv' /\ Window!Late' = Window!Late
    <3>1. Window!Late' = Window!Late
      BY <2>1 DEF Window!Late
    <3>2. QED BY <1>o, <2>1, <3>1
  <2>3. SessionInv'
    BY <1>1, <1>6, <1>9, <2>1 DEF SessionInv, Owned
  <2>4. ScreenInv'
    <3>1. current # 0 => Seeded(current, view[current].server, view[current].pc)'
      BY <1>10, <2>1, <2>o DEF Seeded, Window!Seed
    <3>2. QED BY <1>11, <1>12, <2>1, <3>1 DEF ScreenInv
  <2>5. LineInv'
    BY <1>4, <1>5, <2>1, <2>o DEF LineInv
  <2>6. QED BY <1>8, <2>2, <2>3, <2>4, <2>5, <2>o
<1>15. CASE sessions[s] = 0
  <2>0. PICK n : n = spawned + 1
    OBVIOUS
  <2>1. /\ n \in Window!Tasks /\ n > spawned /\ n \in 0..MaxViews /\ spawned' = n /\ spawned \in Nat /\ n # 0
        /\ retained' = Restrict(retained, DOMAIN retained \ {s})
        /\ sessions' = [sessions EXCEPT ![s] = n]
        /\ task' = [task EXCEPT ![n].server = s]
    <3>1. n \in Window!Tasks /\ n > spawned /\ n \in 0..MaxViews /\ spawned \in Nat /\ n # 0
      BY <1>1, <2>0 DEF WindowTypes, Window!Tasks, Window!Views
    <3>2. /\ spawned' = spawned + 1
          /\ retained' = Restrict(retained, DOMAIN retained \ {s})
          /\ sessions' = [sessions EXCEPT ![s] = spawned']
          /\ task' = [task EXCEPT ![spawned'].server = s]
      BY <1>15, <1>s, SameOperators DEF Window!ServeOpen
    <3>3. QED BY <2>0, <3>1, <3>2
  <2>2. /\ task' \in [Window!Tasks -> TaskRecord]
        /\ task'[n].server = s /\ task'[n].stop = task[n].stop /\ task'[n].buffer = task[n].buffer
        /\ task'[n].out = task[n].out /\ task'[n].late = task[n].late
        /\ \A m \in Window!Tasks : m # n => task'[m] = task[m]
    BY <1>1, <2>1 DEF WindowTypes, TaskRecord
  <2>3. /\ DOMAIN retained' = DOMAIN retained \ {s}
        /\ \A t \in DOMAIN retained' : retained'[t] = retained[t]
        /\ retained' = [t \in DOMAIN retained' |-> retained'[t]]
    BY <2>1 DEF Restrict
  <2>4. /\ sessions' \in [Servers -> 0..n] /\ sessions'[s] = n
        /\ \A t \in Servers : t # s => sessions'[t] = sessions[t]
        /\ \A t \in Servers : sessions[t] # 0 => sessions[t] \in Window!Tasks /\ sessions[t] # n
    BY <1>1, <2>1 DEF WindowTypes, Window!Tasks
  <2>5. IsFiniteSet(DOMAIN retained') /\ Cardinality(DOMAIN retained') <= Retained
    <3>1. IsFiniteSet(DOMAIN retained) /\ Cardinality(DOMAIN retained) <= Retained
      BY DEF WindowTypes
    <3>2. /\ IsFiniteSet(DOMAIN retained') /\ Cardinality(DOMAIN retained') <= Cardinality(DOMAIN retained)
          /\ Cardinality(DOMAIN retained) \in Nat /\ Cardinality(DOMAIN retained') \in Nat
      BY <2>3, <3>1, FS_Subset, FS_CardinalityType
    <3>3. QED BY <3>1, <3>2
  <2>6. WindowTypes'
    <3>1. \A m \in Window!Tasks : Len(task'[m].buffer) <= RingCap
      BY <2>2 DEF WindowTypes
    <3>2. DOMAIN retained' \subseteq Servers /\ \A t \in DOMAIN retained' : retained'[t] \in Seq(Window!Lines)
      BY <2>3 DEF WindowTypes
    <3>3. current' \in 0..MaxViews /\ mounted' \in 0..MaxViews /\ lines' \in 0..MaxLines
      BY DEF WindowTypes
    <3>4. QED BY <1>5, <1>6, <2>1, <2>2, <2>3, <2>4, <2>5, <3>1, <3>2, <3>3 DEF WindowTypes
  <2>o. OutInv' /\ Window!Late' = Window!Late
    <3>1. \A m \in Window!Tasks : /\ task'[m].late = task[m].late /\ task'[m].out = task[m].out
                                  /\ task'[m].buffer = task[m].buffer
      BY <2>2
    <3>2. Window!Late' = Window!Late
      BY <3>1 DEF Window!Late
    <3>3. QED BY <1>o, <2>3, <3>1, <3>2
  <2>7. SessionInv'
    <3>1. ASSUME NEW m \in Window!Tasks, m > spawned'
          PROVE  ~task'[m].stop /\ task'[m].buffer = <<>> /\ task'[m].out = 0
      <4>1. m > spawned /\ m # n
        BY <2>0, <2>1, <3>1 DEF Window!Tasks
      <4>2. QED BY <2>2, <4>1 DEF SessionInv
    <3>2. ~task'[n].stop
      BY <2>1, <2>2 DEF SessionInv
    <3>3. Owned(s)'
      BY <1>1, <1>6, <1>9 DEF Owned
    <3>4. ASSUME NEW t \in Servers, sessions'[t] # 0
          PROVE  task'[sessions'[t]].server = t /\ ~task'[sessions'[t]].stop /\ Owned(t)'
      <4>1. CASE t = s
        BY <2>2, <2>4, <3>2, <3>3, <4>1
      <4>2. CASE t # s
        BY <1>6, <1>9, <2>2, <2>4, <3>4, <4>2 DEF SessionInv, Owned
      <4>3. QED BY <4>1, <4>2
    <3>5. \A m \in Window!Tasks : ~task'[m].stop => task'[m].late = 0
      BY <2>2 DEF SessionInv
    <3>6. QED BY <3>1, <3>4, <3>5 DEF SessionInv
  <2>8. ScreenInv'
    <3>1. ASSUME v = current PROVE Seeded(v, view[v].server, view[v].pc)'
      <4>1. task'[n].buffer = <<>> /\ Range(<<>>) = {} /\ sessions'[s] # 0
        BY <2>1, <2>2, <2>4 DEF SessionInv, Range
      <4>2. IsInjective(answer) /\ Range(view[v].screen) \cap Range(answer) \subseteq Window!Late
        BY <1>4, <3>1 DEF Once
      <4>3. QED BY <1>5, <2>4, <2>o, <4>1, <4>2 DEF Seeded
    <3>2. ASSUME current # 0, current # v PROVE Seeded(current, view[current].server, view[current].pc)'
      <4>1. PICK t : t = view[current].server
        OBVIOUS
      <4>2. CASE t = s
        BY <1>10, <3>2, <4>1, <4>2 DEF Seeded
      <4>3. CASE t # s
        <5>1. t \in Servers
          BY <1>10, <3>2, <4>1 DEF QueueInv, WindowTypes, Window!Views
        <5>2. Window!Seed(t)' = Window!Seed(t) /\ sessions'[t] = sessions[t]
              /\ (sessions[t] # 0 => task'[sessions[t]] = task[sessions[t]])
          BY <2>2, <2>3, <2>4, <4>3, <5>1 DEF Window!Seed
        <5>3. QED BY <1>10, <2>o, <3>2, <4>1, <5>2 DEF Seeded
      <4>4. QED BY <4>2, <4>3
    <3>3. QED BY <1>11, <1>12, <1>13, <3>1, <3>2 DEF ScreenInv
  <2>9. LineInv'
    <3>1. \A u \in Window!Views : OnceBut(view'[u].screen, lines, Window!Late) /\ Known(view'[u].reply, lines)
      BY <1>4, <1>5 DEF LineInv
    <3>2. \A t \in DOMAIN retained' : Once(retained'[t], lines)
      BY <2>3 DEF LineInv
    <3>3. \A m \in Window!Tasks : Once(task'[m].buffer, lines)
      BY <2>2 DEF LineInv
    <3>4. QED BY <2>o, <3>1, <3>2, <3>3 DEF LineInv
  <2>10. QED BY <1>8, <2>6, <2>7, <2>8, <2>9, <2>o
<1>16. QED BY <1>14, <1>15

\* Keeping the scrollback of one server costs at most that of another.
LEMMA KeepStep ==
    ASSUME WindowTypes, NEW s \in Servers, NEW history \in Seq(Window!Lines), Window!Keep(s, history)
    PROVE  /\ DOMAIN retained' \subseteq Servers /\ IsFiniteSet(DOMAIN retained')
           /\ Cardinality(DOMAIN retained') <= Retained
           /\ retained' = [t \in DOMAIN retained' |-> retained'[t]]
           /\ \A t \in DOMAIN retained' : \/ t \in DOMAIN retained /\ retained'[t] = retained[t]
                                          \/ t = s /\ retained'[t] = history
<1> USE WindowAssumption DEF WindowAssumption
<1>1. CASE history = <<>>
  BY <1>1 DEF Window!Keep, WindowTypes
<1>2. CASE history # <<>>
  <2> DEFINE D      == DOMAIN retained
             others == D \ {s}
             full   == Cardinality(D) >= Retained /\ s \notin D
  <2>1. PICK kept \in (IF full THEN {others \ {k} : k \in others} ELSE {others}) :
            retained' = [t \in kept \cup {s} |-> IF t = s THEN history ELSE retained[t]]
    <3>1. full <=> Window!Cardinality(D) >= Retained /\ s \notin D
      BY SameOperators
    <3>2. QED BY <1>2, <3>1 DEF Window!Keep
  <2>2. kept \subseteq others
    BY <2>1
  <2>3. /\ DOMAIN retained' = kept \cup {s}
        /\ \A t \in kept \cup {s} : retained'[t] = IF t = s THEN history ELSE retained[t]
        /\ retained' = [t \in DOMAIN retained' |-> retained'[t]]
    BY <2>1
  <2>4. /\ IsFiniteSet(D) /\ Cardinality(D) \in Nat /\ Cardinality(D) <= Retained /\ D \subseteq Servers
        /\ Retained \in Nat
    BY FS_CardinalityType DEF WindowTypes
  <2>5. IsFiniteSet(kept) /\ Cardinality(kept) \in Nat
    BY <2>2, <2>4, FS_Subset, FS_CardinalityType
  <2>6. /\ IsFiniteSet(kept \cup {s})
        /\ Cardinality(kept \cup {s}) = Cardinality(kept) + 1
    BY <2>2, <2>5, FS_AddElement
  <2>7. Cardinality(kept) + 1 <= Retained
    <3>1. CASE full
      <4>1. PICK k \in D : k # s /\ kept = D \ {k}
        BY <2>1, <3>1
      <4>2. Cardinality(kept) = Cardinality(D) - 1
        BY <2>4, <4>1, FS_RemoveElement
      <4>3. QED BY <2>4, <4>2
    <3>2. CASE ~full
      <4>1. kept = D \ {s}
        BY <2>1, <3>2
      <4>2. Cardinality(kept) = IF s \in D THEN Cardinality(D) - 1 ELSE Cardinality(D)
        BY <2>4, <4>1, FS_RemoveElement
      <4>3. QED BY <2>4, <3>2, <4>2
    <3>3. QED BY <3>1, <3>2
  <2>8. QED BY <2>2, <2>3, <2>4, <2>6, <2>7
<1>3. QED BY <1>1, <1>2

\* A close: it is for a view that has gone, and nobody is attached to the server.
LEMMA ServeCloseStep ==
    ASSUME WindowInv, calls # <<>>, calls' = Tail(calls), NEW s \in Servers,
           calls[1] = <<"close", s>>, Window!ServeClose(s), UNCHANGED <<current, mounted, lines>>
    PROVE  WindowInv'
<1> USE WindowAssumption DEF WindowAssumption, WindowInv
<1>1. /\ \A t : ClosesFrom(t, 1)' => ClosesFrom(t, 1)
      /\ \A t : t # s /\ ClosesFrom(t, 1) => ClosesFrom(t, 1)'
      /\ \A i \in DOMAIN calls' : i \in Nat \ {0} /\ i + 1 \in DOMAIN calls /\ calls'[i] = calls[i + 1]
      /\ \A t : \A k \in Nat \ {0} : ClosesFrom(t, k)' <=> ClosesFrom(t, k + 1)
      /\ calls' \in Seq(Calls) /\ 1 \in DOMAIN calls /\ ClosesFrom(s, 1)
  <2>1. /\ \A t : t # s => calls[1] # <<"close", t>>
        /\ \A t : ClosesFrom(t, 1) /\ calls[1] # <<"close", t>> => ClosesFrom(t, 1)'
        /\ \A t : ClosesFrom(t, 1)' => ClosesFrom(t, 1)
        /\ \A i \in DOMAIN calls' : i \in Nat /\ i + 1 \in DOMAIN calls /\ calls'[i] = calls[i + 1]
        /\ \A t : \A k \in Nat \ {0} : ClosesFrom(t, k)' <=> ClosesFrom(t, k + 1)
        /\ calls' \in Seq(Calls) /\ 1 \in DOMAIN calls
    BY CallsShrink
  <2>2. \A i \in DOMAIN calls' : i # 0
    BY <2>1
  <2>3. ClosesFrom(s, 1)
    BY <2>1 DEF ClosesFrom
  <2>4. QED BY <2>1, <2>2, <2>3
<1>2. view' = view /\ spawned' = spawned
  BY DEF Window!ServeClose, Window!manager
<1>3. QueueInv'
  <2>1. calls[1][1] = "close"
    OBVIOUS
  <2>2. QED BY <1>2, <2>1, ServedQueue
<1>4. /\ \A t : Attached(t)' <=> Attached(t)
      /\ current # 0 => /\ Listening(current, view[current].server, view[current].pc)
                        /\ Seeded(current, view[current].server, view[current].pc)
                        /\ view[current].server = s => view[current].pc = "listen_console"
                        /\ view[current].server \in Servers
  BY <1>1, <1>2 DEF Attached, ScreenInv, Listening, QueueInv, WindowTypes, Window!Views
<1>5. ~Attached(s)
  BY <1>4 DEF Attached
<1>6. /\ DOMAIN retained' \subseteq Servers /\ IsFiniteSet(DOMAIN retained')
      /\ Cardinality(DOMAIN retained') <= Retained
      /\ retained' = [t \in DOMAIN retained' |-> retained'[t]]
      /\ \A t \in DOMAIN retained' : \/ t \in DOMAIN retained /\ retained'[t] = retained[t]
                                     \/ /\ t = s /\ sessions[s] \in Window!Tasks
                                        /\ retained'[t] = task[sessions[s]].buffer
  <2>1. CASE sessions[s] = 0
    BY <2>1 DEF Window!ServeClose, Window!manager, WindowTypes
  <2>2. CASE sessions[s] # 0
    <3>1. sessions[s] \in Window!Tasks
      BY <2>2 DEF WindowTypes, Window!Tasks
    <3>2. task[sessions[s]].buffer \in Seq(Window!Lines)
      BY <3>1 DEF WindowTypes, TaskRecord
    <3>3. Window!Keep(s, task[sessions[s]].buffer)
      BY <2>2 DEF Window!ServeClose
    <3>4. QED BY <3>1, <3>2, <3>3, KeepStep
  <2>3. QED BY <2>1, <2>2
<1>7. /\ sessions' \in [Servers -> 0..spawned] /\ sessions'[s] = 0
      /\ \A t \in Servers : t # s => sessions'[t] = sessions[t]
  <2>1. sessions \in [Servers -> 0..spawned] /\ 0 \in 0..spawned
    BY DEF WindowTypes
  <2>2. CASE sessions[s] = 0
    BY <1>2, <2>1, <2>2 DEF Window!ServeClose, Window!manager
  <2>3. CASE sessions[s] # 0
    <3>1. sessions' = [sessions EXCEPT ![s] = 0]
      BY <2>3 DEF Window!ServeClose
    <3>2. QED BY <2>1, <3>1
  <2>4. QED BY <2>2, <2>3
<1>8. /\ task' \in [Window!Tasks -> TaskRecord]
      /\ \A n \in Window!Tasks : /\ task'[n].buffer = task[n].buffer /\ task'[n].server = task[n].server
                                 /\ task'[n].out = task[n].out
                                 /\ n # sessions[s] => task'[n] = task[n]
  <2>1. task \in [Window!Tasks -> TaskRecord]
    BY DEF WindowTypes
  <2>2. CASE sessions[s] = 0
    BY <2>1, <2>2 DEF Window!ServeClose, Window!manager
  <2>3. CASE sessions[s] # 0
    <3>1. sessions[s] \in Window!Tasks
      BY <2>3 DEF WindowTypes, Window!Tasks
    <3>2. task' = [task EXCEPT ![sessions[s]].stop = TRUE,
                                 ![sessions[s]].late = task[sessions[s]].out]
      BY <2>3 DEF Window!ServeClose
    <3>3. QED BY <2>1, <3>1, <3>2 DEF TaskRecord
  <2>4. QED BY <2>2, <2>3
<1>l. /\ sessions[s] # 0 => /\ sessions[s] \in Window!Tasks /\ task[sessions[s]].late = 0
                            /\ task'[sessions[s]].late = task[sessions[s]].out /\ task'[sessions[s]].stop
      /\ Window!Late \subseteq Window!Late'
  <2>1. CASE sessions[s] = 0
    <3>1. task' = task
      BY <2>1 DEF Window!ServeClose, Window!manager
    <3>2. QED BY <2>1, <3>1 DEF Window!Late
  <2>2. CASE sessions[s] # 0
    <3>1. sessions[s] \in Window!Tasks /\ task[sessions[s]].late = 0 /\ task \in [Window!Tasks -> TaskRecord]
      BY <2>2 DEF WindowTypes, SessionInv, Window!Tasks
    <3>2. task' = [task EXCEPT ![sessions[s]].stop = TRUE,
                               ![sessions[s]].late = task[sessions[s]].out]
      BY <2>2 DEF Window!ServeClose
    <3>3. task'[sessions[s]].late = task[sessions[s]].out /\ task'[sessions[s]].stop
      BY <3>1, <3>2 DEF TaskRecord
    <3>4. \A n \in Window!Tasks : n # sessions[s] => task'[n].late = task[n].late
      BY <3>1, <3>2
    <3>5. Window!Late \subseteq Window!Late'
      BY <3>1, <3>4 DEF Window!Late
    <3>6. QED BY <3>1, <3>3, <3>5
  <2>3. QED BY <2>1, <2>2
<1>9. \A t \in Servers : t # s /\ sessions[t] # 0 =>
          /\ sessions[t] \in Window!Tasks /\ sessions[t] # sessions[s]
          /\ task'[sessions[t]] = task[sessions[t]]
  <2>1. \A t \in Servers : sessions[t] # 0 => sessions[t] \in Window!Tasks /\ task[sessions[t]].server = t
    BY DEF SessionInv, WindowTypes, Window!Tasks
  <2>2. QED BY <1>8, <2>1
<1>10. WindowTypes'
  <2>1. \A n \in Window!Tasks : Len(task'[n].buffer) <= RingCap
    BY <1>8 DEF WindowTypes
  <2>2. \A t \in DOMAIN retained' : retained'[t] \in Seq(Window!Lines)
    BY <1>6 DEF WindowTypes, TaskRecord
  <2>3. /\ current' \in 0..MaxViews /\ mounted' \in 0..MaxViews /\ lines' \in 0..MaxLines
        /\ view' \in [Window!Views -> ViewRecord] /\ spawned' \in 0..MaxViews
    BY <1>2 DEF WindowTypes
  <2>4. sessions' \in [Servers -> 0..spawned']
    BY <1>2, <1>7
  <2>5. QED BY <1>1, <1>6, <1>8, <2>1, <2>2, <2>3, <2>4 DEF WindowTypes
<1>11. SessionInv'
  <2>1. ASSUME NEW n \in Window!Tasks, n > spawned'
        PROVE  ~task'[n].stop /\ task'[n].buffer = <<>> /\ task'[n].out = 0
    <3>1. n # sessions[s]
      BY <1>2, <2>1 DEF WindowTypes, Window!Tasks
    <3>2. QED BY <1>2, <1>8, <2>1, <3>1 DEF SessionInv
  <2>2. ASSUME NEW t \in Servers, sessions'[t] # 0
        PROVE  task'[sessions'[t]].server = t /\ ~task'[sessions'[t]].stop /\ Owned(t)'
    <3>1. t # s /\ sessions'[t] = sessions[t]
      BY <1>7, <2>2
    <3>2. QED BY <1>1, <1>4, <1>9, <2>2, <3>1 DEF SessionInv, Owned
  <2>3. ASSUME NEW n \in Window!Tasks, ~task'[n].stop PROVE task'[n].late = 0
    <3>1. n # sessions[s]
      BY <1>l, <2>3 DEF Window!Tasks
    <3>2. task'[n] = task[n]
      BY <1>8, <3>1
    <3>3. QED BY <2>3, <3>2 DEF SessionInv
  <2>4. QED BY <2>1, <2>2, <2>3 DEF SessionInv
<1>12. ScreenInv'
  <2>1. \A u \in Window!Views : u # current => view'[u].ears \subseteq Window!Pending(u)'
    BY <1>2 DEF ScreenInv, Window!Pending
  <2>2. ASSUME current # 0
        PROVE  /\ Listening(current, view[current].server, view[current].pc)'
               /\ Seeded(current, view[current].server, view[current].pc)'
    <3>1. PICK t : t = view[current].server /\ t \in Servers
      BY <1>4, <2>2
    <3>2. PICK p : p = view[current].pc
      OBVIOUS
    <3>3. Listening(current, t, p) /\ Seeded(current, t, p)
      BY <1>4, <2>2, <3>1, <3>2
    <3>4. Listening(current, t, p)'
      BY <1>1, <1>2, <3>3 DEF Listening
    <3>5. ASSUME p = "listen_console" PROVE Seeded(current, t, p)'
      BY <1>2, <3>5 DEF Seeded
    <3>6. ASSUME p # "listen_console" PROVE Seeded(current, t, p)'
      <4>1. t # s
        BY <1>4, <2>2, <3>1, <3>2, <3>6
      <4>2. Window!Seed(t)' \in {Window!Seed(t), <<>>}
        BY <1>6, <4>1 DEF Window!Seed
      <4>3. Range(Window!Seed(t)') \subseteq Range(Window!Seed(t))
        <5>1. Range(<<>>) = {}
          BY DEF Range
        <5>2. QED BY <4>2, <5>1
      <4>4. sessions[t] # 0 => sessions'[t] # 0 /\ task'[sessions'[t]] = task[sessions[t]]
        BY <1>7, <1>9, <3>1, <4>1
      <4>5. QED BY <1>2, <1>l, <3>3, <4>3, <4>4 DEF Seeded
    <3>7. Seeded(current, t, p)'
      BY <3>5, <3>6
    <3>8. QED BY <1>2, <3>1, <3>2, <3>4, <3>7
  <2>3. QED BY <2>1, <2>2 DEF ScreenInv
<1>13. LineInv'
  <2>1. ASSUME NEW u \in Window!Views PROVE OnceBut(view[u].screen, lines, Window!Late')
    BY <1>l DEF LineInv, OnceBut
  <2>2. QED BY <1>2, <1>6, <1>8, <2>1 DEF LineInv
<1>14. OutInv'
  <2>1. ASSUME NEW n \in Window!Tasks, Fresh(n)' PROVE Unseen(task[n].out)'
    <3>1. Fresh(n) /\ task'[n].out = task[n].out
      BY <1>8, <1>l, <2>1 DEF Fresh
    <3>2. Unseen(task[n].out) /\ Apart(n) /\ task[n].out # 0
      BY <3>1 DEF OutInv, Fresh
    <3>3. ASSUME NEW t \in DOMAIN retained' PROVE task[n].out \notin Range(retained'[t])
      <4>1. CASE t \in DOMAIN retained /\ retained'[t] = retained[t]
        BY <3>2, <4>1 DEF Unseen
      <4>2. CASE sessions[s] \in Window!Tasks /\ retained'[t] = task[sessions[s]].buffer
        <5>1. sessions[s] # 0
          BY <4>2 DEF Window!Tasks
        <5>2. n # sessions[s]
          BY <1>l, <2>1, <3>1, <3>2, <5>1 DEF Fresh, Window!Late
        <5>3. QED BY <3>2, <4>2, <5>2 DEF Apart
      <4>3. QED BY <1>6, <4>1, <4>2
    <3>4. QED BY <1>2, <1>8, <3>1, <3>2, <3>3 DEF Unseen
  <2>2. \A n \in Window!Tasks : Apart(n)'
    BY <1>8 DEF OutInv, Apart
  <2>3. QED BY <2>1, <2>2, <1>8 DEF OutInv
<1>15. QED BY <1>3, <1>10, <1>11, <1>12, <1>13, <1>14

\* The next call, whatever it is.
LEMMA ServeStep ==
    ASSUME WindowInv, Window!Serve
    PROVE  WindowInv'
<1>1. /\ calls # <<>> /\ calls' = Tail(calls) /\ UNCHANGED <<current, mounted, lines>>
      /\ Window!ServeCall(Head(calls)) /\ 1 \in DOMAIN calls /\ Head(calls) = calls[1]
  BY CallsShrink DEF Window!Serve, WindowInv
<1>2. /\ calls[1] = <<calls[1][1], calls[1][2]>>
      /\ calls[1][1] = "close" => calls[1][2] \in Servers
      /\ calls[1][1] # "close" => calls[1][2] \in Window!Views
  BY <1>1, CallTyped DEF WindowInv
<1>3. CASE calls[1][1] = "listen" /\ Window!ServeListen(calls[1][2])
  BY <1>1, <1>2, <1>3, ServeListenStep
<1>4. CASE calls[1][1] = "open" /\ Window!ServeOpen(calls[1][2], view[calls[1][2]].server)
  BY <1>1, <1>2, <1>4, ServeOpenStep
<1>5. CASE calls[1][1] = "close" /\ Window!ServeClose(calls[1][2])
  BY <1>1, <1>2, <1>5, ServeCloseStep
<1>6. QED BY <1>1, <1>3, <1>4, <1>5 DEF Window!ServeCall

-----------------------------------------------------------------------------
(* The steps of the sessions *)

\* A conn event changes nothing but the status that is shown.
LEMMA SayStep ==
    ASSUME WindowInv, NEW n \in Window!Tasks, Window!Say(n)
    PROVE  WindowInv'
<1> USE WindowAssumption DEF WindowAssumption, WindowInv
<1>1. PICK c \in Status!Statuses :
        /\ task' = [task EXCEPT ![n].conn = c]
        /\ view' = [v \in Window!Views |-> IF Window!Hears(v, "conn", task[n].server)
                                           THEN [view[v] EXCEPT !.conn = c] ELSE view[v]]
        /\ UNCHANGED <<current, mounted, calls, sessions, retained, spawned, lines>>
  BY DEF Window!Say, Window!manager, Window!Promise!Statuses, Status!Statuses
<1>2. /\ view' \in [Window!Views -> ViewRecord]
      /\ \A v \in Window!Views :
            /\ view'[v].pc = view[v].pc /\ view'[v].server = view[v].server
            /\ view'[v].ears = view[v].ears /\ view'[v].screen = view[v].screen
            /\ view'[v].reply = view[v].reply
  <2>1. view \in [Window!Views -> ViewRecord]
    BY DEF WindowTypes
  <2>2. ASSUME NEW v \in Window!Views
        PROVE  LET x == [view[v] EXCEPT !.conn = c]
               IN  /\ x \in ViewRecord /\ x.pc = view[v].pc /\ x.server = view[v].server
                   /\ x.ears = view[v].ears /\ x.screen = view[v].screen /\ x.reply = view[v].reply
    BY <1>1, <2>1 DEF ViewRecord
  <2>3. ASSUME NEW v \in Window!Views
        PROVE  /\ view'[v] \in ViewRecord
               /\ view'[v].pc = view[v].pc /\ view'[v].server = view[v].server
               /\ view'[v].ears = view[v].ears /\ view'[v].screen = view[v].screen
               /\ view'[v].reply = view[v].reply
    <3>1. view'[v] = [view[v] EXCEPT !.conn = c] \/ view'[v] = view[v]
      BY <1>1
    <3>2. QED BY <2>1, <2>2, <3>1
  <2>4. view' = [v \in Window!Views |-> view'[v]]
    BY <1>1
  <2>5. QED BY <2>3, <2>4
<1>3. /\ task' \in [Window!Tasks -> TaskRecord]
      /\ \A m \in Window!Tasks : /\ task'[m].server = task[m].server /\ task'[m].stop = task[m].stop
                                 /\ task'[m].buffer = task[m].buffer
                                 /\ task'[m].out = task[m].out /\ task'[m].late = task[m].late
  <2>1. task \in [Window!Tasks -> TaskRecord]
    BY DEF WindowTypes
  <2>2. QED BY <1>1, <2>1 DEF TaskRecord
<1>4. \A s, k : ClosesFrom(s, k)' <=> ClosesFrom(s, k)
  BY <1>1 DEF ClosesFrom
<1>5. current # 0 => current \in Window!Views
  BY DEF WindowTypes, Window!Views
<1>6. \A s : Attached(s)' <=> Attached(s)
  BY <1>1, <1>2, <1>5 DEF Attached
<1>7. \A s \in Servers : sessions[s] # 0 => sessions[s] \in Window!Tasks
  BY DEF WindowTypes, Window!Tasks
<1>8. WindowTypes'
  BY <1>1, <1>2, <1>3 DEF WindowTypes
<1>9. QueueInv'
  <2>1. \A v \in Window!Views : (IF v > mounted THEN Unused(v) ELSE view[v].server \in Servers)'
    BY <1>1, <1>2 DEF QueueInv, Unused
  <2>2. ASSUME NEW i \in DOMAIN calls PROVE Asked(i)'
    BY <1>1, <1>2, <1>4, CallTyped DEF QueueInv, Asked
  <2>3. QED BY <1>1, <1>2, <1>5, <1>6, <2>1, <2>2 DEF QueueInv, InOrder
<1>o. OutInv' /\ Window!Late' = Window!Late
  <2>1. Window!Late' = Window!Late
    BY <1>3 DEF Window!Late
  <2>2. ASSUME NEW m \in Window!Tasks PROVE Apart(m)' /\ (Fresh(m)' => Unseen(task[m].out)')
    BY <1>1, <1>2, <1>3, <1>5, <2>1 DEF OutInv, Apart, Fresh, Unseen
  <2>3. QED BY <2>1, <2>2 DEF OutInv
<1>10. SessionInv'
  BY <1>1, <1>3, <1>4, <1>6, <1>7 DEF SessionInv, Owned
<1>11. ScreenInv'
  <2>1. ASSUME current # 0
        PROVE  /\ Listening(current, view[current].server, view[current].pc)'
               /\ Seeded(current, view[current].server, view[current].pc)'
    <3>1. /\ Listening(current, view[current].server, view[current].pc)
          /\ Seeded(current, view[current].server, view[current].pc)
          /\ view[current].pc \in {"opened", "shown"} => view[current].server \in Servers
      BY <1>5, <2>1 DEF ScreenInv, QueueInv, WindowTypes, Window!Views
    <3>2. QED BY <1>1, <1>2, <1>3, <1>4, <1>5, <1>7, <1>o, <2>1, <3>1 DEF Listening, Seeded, Window!Seed
  <2>2. QED BY <1>1, <1>2, <2>1 DEF ScreenInv, Window!Pending
<1>12. LineInv'
  BY <1>1, <1>2, <1>3, <1>o DEF LineInv
<1>13. QED BY <1>8, <1>9, <1>10, <1>11, <1>12, <1>o

\* A line is new to everybody.
LEMMA PushStep ==
    ASSUME WindowInv, NEW n \in Window!Tasks, Window!Push(n)
    PROVE  WindowInv'
<1> USE WindowAssumption DEF WindowAssumption, WindowInv
<1>0. PICK line : line = lines + 1
  OBVIOUS
<1>b. PICK buffer : buffer = Window!Latest(Append(task[n].buffer, line))
  OBVIOUS
<1>1. /\ lines' = line /\ line \in 0..MaxLines /\ line \in Window!Lines /\ lines \in Nat /\ n <= spawned
      /\ task[n].out = 0 /\ line # 0
      /\ task' = [task EXCEPT ![n].buffer = buffer, ![n].out = line]
      /\ UNCHANGED <<current, mounted, view, calls, sessions, retained, spawned>>
  <2>1. lines' = lines + 1 /\ lines < MaxLines /\ lines \in 0..MaxLines
    BY DEF Window!Push, WindowTypes
  <2>2. line \in 0..MaxLines /\ line \in Window!Lines /\ lines \in Nat /\ line # 0
    BY <1>0, <2>1 DEF Window!Lines
  <2>3. QED BY <1>0, <1>b, <2>1, <2>2 DEF Window!Push, Window!fe, Window!manager
<1>2. /\ task[n].buffer \in Seq(Window!Lines) /\ task[n].buffer \in Seq(Nat) /\ Once(task[n].buffer, lines)
      /\ Len(task[n].buffer) <= RingCap
  BY LinesAreNaturals DEF WindowTypes, TaskRecord, LineInv
<1>3. /\ buffer \in Seq(Window!Lines) /\ Len(buffer) <= RingCap /\ Once(buffer, line)
      /\ Range(buffer) \subseteq Range(task[n].buffer) \cup {line}
  <2>1. PICK q : q = Append(task[n].buffer, line)
    OBVIOUS
  <2>2. /\ q \in Seq(Window!Lines) /\ q \in Seq(Nat) /\ Len(q) <= RingCap + 1 /\ q # <<>> /\ Len(q) \in Nat
        /\ Len(Tail(q)) = Len(q) - 1 /\ Tail(q) \in Seq(Window!Lines)
    BY <1>1, <1>2, <2>1, LinesAreNaturals
  <2>3. Once(q, line) /\ Range(q) = Range(task[n].buffer) \cup {line}
    BY <1>0, <1>1, <1>2, <2>1, AppendOnce
  <2>4. Once(Tail(q), line) /\ Range(Tail(q)) \subseteq Range(q)
    BY <1>0, <1>1, <2>2, <2>3, TailOnce
  <2>5. buffer = IF Len(q) > RingCap THEN Tail(q) ELSE q
    BY <1>b, <2>1 DEF Window!Latest
  <2>6. QED BY <2>2, <2>3, <2>4, <2>5
<1>4. /\ task' \in [Window!Tasks -> TaskRecord]
      /\ task'[n].buffer = buffer /\ task'[n].out = line
      /\ \A m \in Window!Tasks : /\ task'[m].server = task[m].server /\ task'[m].stop = task[m].stop
                                 /\ task'[m].late = task[m].late
                                 /\ m # n => task'[m].buffer = task[m].buffer /\ task'[m].out = task[m].out
  <2>1. task \in [Window!Tasks -> TaskRecord]
    BY DEF WindowTypes
  <2>2. QED BY <1>1, <1>3, <2>1 DEF TaskRecord
<1>l. Window!Late' = Window!Late
  BY <1>4 DEF Window!Late
<1>5. \A q \in Seq(Nat) : Known(q, lines) => Known(q, line) /\ line \notin Range(q)
  <2> SUFFICES ASSUME NEW q \in Seq(Nat), Known(q, lines)
               PROVE  Known(q, line) /\ line \notin Range(q)
    OBVIOUS
  <2>1. ASSUME NEW i \in DOMAIN q PROVE q[i] <= line /\ q[i] # line
    <3>1. q[i] <= lines /\ q[i] \in Nat
      BY DEF Known
    <3>2. QED BY <1>0, <1>1, <3>1
  <2>2. QED BY <2>1 DEF Known, Range
<1>6. /\ \A v \in Window!Views : /\ view[v].screen \in Seq(Nat) /\ Known(view[v].screen, lines)
                                 /\ view[v].reply \in Seq(Nat) /\ Known(view[v].reply, lines)
      /\ \A s \in DOMAIN retained : retained[s] \in Seq(Nat) /\ Once(retained[s], lines)
      /\ \A m \in Window!Tasks : task[m].buffer \in Seq(Nat) /\ Once(task[m].buffer, lines)
  BY LinesAreNaturals DEF WindowTypes, ViewRecord, TaskRecord, LineInv, OnceBut
<1>7. current # 0 => current \in Window!Views
  BY DEF WindowTypes, Window!Views
<1>8. /\ \A s, k : ClosesFrom(s, k)' <=> ClosesFrom(s, k)
      /\ \A s : Attached(s)' <=> Attached(s)
  BY <1>1 DEF ClosesFrom, Attached
<1>9. \A s \in Servers : sessions[s] # 0 => sessions[s] \in Window!Tasks
  BY DEF WindowTypes, Window!Tasks
<1>10. WindowTypes'
  <2>1. \A m \in Window!Tasks : Len(task'[m].buffer) <= RingCap
    BY <1>3, <1>4 DEF WindowTypes
  <2>2. QED BY <1>1, <1>4, <2>1 DEF WindowTypes
<1>11. QueueInv'
  BY <1>1, <1>8 DEF QueueInv, Unused, Asked, InOrder
<1>12. SessionInv'
  <2>1. ASSUME NEW m \in Window!Tasks
        PROVE  /\ m > spawned => ~task'[m].stop /\ task'[m].buffer = <<>> /\ task'[m].out = 0
               /\ ~task'[m].stop => task'[m].late = 0
    <3>1. m > spawned => m # n
      BY <1>1 DEF WindowTypes, Window!Tasks
    <3>2. QED BY <1>4, <3>1 DEF SessionInv
  <2>2. QED BY <1>1, <1>4, <1>8, <1>9, <2>1 DEF SessionInv, Owned
<1>13. ScreenInv'
  <2>1. ASSUME current # 0
        PROVE  /\ Listening(current, view[current].server, view[current].pc)'
               /\ Seeded(current, view[current].server, view[current].pc)'
    <3>0. PICK v \in Window!Views : v = current
      BY <1>7, <2>1
    <3>1. PICK s \in Servers : s = view[v].server
      BY <2>1, <3>0 DEF QueueInv, WindowTypes, Window!Views
    <3>2. PICK p : p = view[v].pc
      OBVIOUS
    <3>3. Listening(v, s, p) /\ Seeded(v, s, p)
      BY <2>1, <3>0, <3>1, <3>2 DEF ScreenInv
    <3>4. Listening(v, s, p)'
      BY <1>1, <1>8, <3>3 DEF Listening
    <3>5. ASSUME p \in {"opened", "shown"}
          PROVE  /\ sessions[s] # 0
                 /\ Range(task'[sessions[s]].buffer) \ {task'[sessions[s]].out} \subseteq Range(view[v].screen)
      <4>1. /\ sessions[s] # 0
            /\ Range(task[sessions[s]].buffer) \ {task[sessions[s]].out} \subseteq Range(view[v].screen)
        BY <3>3, <3>5 DEF Seeded
      <4>2. CASE sessions[s] = n
        <5>1. 0 \notin Range(task[n].buffer)
          BY <1>2 DEF Range, Window!Lines
        <5>2. QED BY <1>1, <1>3, <1>4, <4>1, <4>2, <5>1
      <4>3. CASE sessions[s] # n
        BY <1>4, <1>9, <4>1, <4>3
      <4>4. QED BY <4>1, <4>2, <4>3
    <3>6. Seeded(v, s, p)'
      BY <1>1, <1>l, <3>3, <3>5 DEF Seeded, Window!Seed
    <3>7. QED BY <1>1, <3>0, <3>1, <3>2, <3>4, <3>6
  <2>2. QED BY <1>1, <2>1 DEF ScreenInv, Window!Pending
<1>14. LineInv'
  <2>1. ASSUME NEW v \in Window!Views
        PROVE  OnceBut(view[v].screen, line, Window!Late) /\ Known(view[v].reply, line)
    BY <1>5, <1>6 DEF LineInv, OnceBut
  <2>2. ASSUME NEW s \in DOMAIN retained PROVE Once(retained[s], line)
    BY <1>5, <1>6 DEF Once
  <2>3. ASSUME NEW m \in Window!Tasks PROVE Once(task'[m].buffer, line)
    BY <1>3, <1>4, <1>5, <1>6 DEF Once
  <2>4. QED BY <1>1, <1>l, <2>1, <2>2, <2>3 DEF LineInv
<1>15. OutInv'
  <2>1. \A m \in Window!Tasks : /\ task[m].out \in Nat /\ task[m].out <= lines /\ task[m].out # line
                                /\ task[m].out <= line /\ line \notin Range(task[m].buffer)
    <3>1. \A m \in Window!Tasks : task[m].out \in Nat /\ task[m].out <= lines
      BY DEF OutInv, Apart, WindowTypes, TaskRecord
    <3>2. \A m \in Window!Tasks : line \notin Range(task[m].buffer)
      BY <1>5, <1>6 DEF Once
    <3>3. QED BY <1>0, <1>1, <3>1, <3>2
  <2>2. ASSUME NEW m \in Window!Tasks PROVE Apart(m)'
    <3>1. CASE m = n
      BY <1>1, <1>4, <2>1, <3>1 DEF Apart
    <3>2. CASE m # n
      <4>1. Apart(m) /\ task'[m].out = task[m].out
        BY <1>4, <3>2 DEF OutInv
      <4>2. QED BY <1>1, <1>3, <1>4, <2>1, <4>1 DEF Apart
    <3>3. QED BY <3>1, <3>2
  <2>3. ASSUME NEW m \in Window!Tasks, Fresh(m)' PROVE Unseen(task[m].out)'
    <3>1. CASE m = n
      <4>1. /\ \A v \in Window!Views : line \notin Range(view[v].screen) /\ line \notin Range(view[v].reply)
            /\ \A s \in DOMAIN retained : line \notin Range(retained[s])
        BY <1>5, <1>6 DEF Once
      <4>2. QED BY <1>1, <1>4, <1>7, <3>1, <4>1 DEF Unseen
    <3>2. CASE m # n
      BY <1>1, <1>4, <1>l, <2>3, <3>2 DEF OutInv, Fresh, Unseen
    <3>3. QED BY <3>1, <3>2
  <2>4. QED BY <2>2, <2>3 DEF OutInv
<1>16. QED BY <1>10, <1>11, <1>12, <1>13, <1>14, <1>15

\* The views that listen get the line; the one on screen that is attached to the
\* session is among them.
LEMMA EmitStep ==
    ASSUME WindowInv, NEW n \in Window!Tasks, Window!Emit(n)
    PROVE  WindowInv'
<1> USE WindowAssumption DEF WindowAssumption, WindowInv
<1>b. PICK line : line = task[n].out
  OBVIOUS
<1>1. /\ line \in 0..MaxLines /\ line # 0 /\ line \in Window!Lines /\ line \in Nat /\ line <= lines /\ lines \in Nat
      /\ task' = [task EXCEPT ![n].out = 0]
      /\ view' = [v \in Window!Views |-> IF Window!Hears(v, "console", task[n].server)
                                         THEN [view[v] EXCEPT !.screen = Append(@, line)] ELSE view[v]]
      /\ UNCHANGED <<current, mounted, calls, sessions, retained, spawned, lines>>
  <2>1. line \in 0..MaxLines /\ line # 0 /\ line <= lines /\ lines \in Nat
    BY <1>b DEF Window!Emit, WindowTypes, TaskRecord, OutInv, Apart
  <2>2. line \in Window!Lines /\ line \in Nat
    BY <2>1 DEF Window!Lines
  <2>3. QED BY <1>b, <2>1, <2>2 DEF Window!Emit, Window!manager
<1>2. /\ view' \in [Window!Views -> ViewRecord]
      /\ \A v \in Window!Views :
            /\ view'[v].pc = view[v].pc /\ view'[v].server = view[v].server
            /\ view'[v].ears = view[v].ears /\ view'[v].reply = view[v].reply
            /\ view'[v].screen = IF Window!Hears(v, "console", task[n].server)
                                 THEN Append(view[v].screen, line) ELSE view[v].screen
  <2>1. view \in [Window!Views -> ViewRecord]
    BY DEF WindowTypes
  <2>2. ASSUME NEW v \in Window!Views
        PROVE  LET x == [view[v] EXCEPT !.screen = Append(@, line)]
               IN  /\ x \in ViewRecord /\ x.pc = view[v].pc /\ x.server = view[v].server
                   /\ x.ears = view[v].ears /\ x.screen = Append(view[v].screen, line)
                   /\ x.reply = view[v].reply
    <3>1. view[v] \in ViewRecord /\ view[v].screen \in Seq(Window!Lines)
      BY <2>1 DEF ViewRecord
    <3>2. Append(view[v].screen, line) \in Seq(Window!Lines)
      BY <1>1, <3>1
    <3>3. QED BY <3>1, <3>2 DEF ViewRecord
  <2>3. ASSUME NEW v \in Window!Views
        PROVE  /\ view'[v] \in ViewRecord
               /\ view'[v].pc = view[v].pc /\ view'[v].server = view[v].server
               /\ view'[v].ears = view[v].ears /\ view'[v].reply = view[v].reply
               /\ view'[v].screen = IF Window!Hears(v, "console", task[n].server)
                                    THEN Append(view[v].screen, line) ELSE view[v].screen
    <3>1. view'[v] = IF Window!Hears(v, "console", task[n].server)
                     THEN [view[v] EXCEPT !.screen = Append(@, line)] ELSE view[v]
      BY <1>1
    <3>2. QED BY <2>1, <2>2, <3>1
  <2>4. view' = [v \in Window!Views |-> view'[v]]
    BY <1>1
  <2>5. QED BY <2>3, <2>4
<1>3. /\ task' \in [Window!Tasks -> TaskRecord] /\ task'[n].out = 0
      /\ \A m \in Window!Tasks : /\ task'[m].server = task[m].server /\ task'[m].stop = task[m].stop
                                 /\ task'[m].buffer = task[m].buffer /\ task'[m].late = task[m].late
                                 /\ m # n => task'[m].out = task[m].out
  <2>1. task \in [Window!Tasks -> TaskRecord] /\ 0 \in 0..MaxLines
    BY DEF WindowTypes
  <2>2. QED BY <1>1, <2>1 DEF TaskRecord
<1>l. Window!Late' = Window!Late
  BY <1>3 DEF Window!Late
<1>4. line \in Window!Late \/ Unseen(line)
  BY <1>b, <1>1 DEF OutInv, Fresh
<1>5. \A v \in Window!Views : /\ OnceBut(view[v].screen, lines, Window!Late)
                              /\ OnceBut(Append(view[v].screen, line), lines, Window!Late)
                              /\ Range(Append(view[v].screen, line)) = Range(view[v].screen) \cup {line}
  <2>1. ASSUME NEW v \in Window!Views
        PROVE  view[v].screen \in Seq(Nat) /\ OnceBut(view[v].screen, lines, Window!Late)
    BY LinesAreNaturals DEF WindowTypes, ViewRecord, LineInv
  <2>2. \A v \in Window!Views : line \in Window!Late \/ line \notin Range(view[v].screen)
    BY <1>4 DEF Unseen
  <2>3. QED BY <1>1, <2>1, <2>2, AppendBut
<1>6. current # 0 => current \in Window!Views
  BY DEF WindowTypes, Window!Views
<1>7. \A s, k : ClosesFrom(s, k)' <=> ClosesFrom(s, k)
  BY <1>1 DEF ClosesFrom
<1>8. \A s : Attached(s)' <=> Attached(s)
  BY <1>1, <1>2, <1>6 DEF Attached
<1>9. \A s \in Servers : sessions[s] # 0 => sessions[s] \in Window!Tasks
  BY DEF WindowTypes, Window!Tasks
<1>10. WindowTypes'
  BY <1>1, <1>2, <1>3 DEF WindowTypes
<1>11. QueueInv'
  <2>1. \A v \in Window!Views : (IF v > mounted THEN Unused(v) ELSE view[v].server \in Servers)'
    BY <1>1, <1>2 DEF QueueInv, Unused, Window!Hears
  <2>2. ASSUME NEW i \in DOMAIN calls PROVE Asked(i)'
    BY <1>1, <1>2, <1>7, CallTyped DEF QueueInv, Asked
  <2>3. current # 0 => view'[current].server = view[current].server
    BY <1>2, <1>6
  <2>4. QED BY <1>1, <1>8, <2>1, <2>2, <2>3 DEF QueueInv, InOrder
<1>12. SessionInv'
  <2>1. ASSUME NEW m \in Window!Tasks
        PROVE  /\ m > spawned => ~task'[m].stop /\ task'[m].buffer = <<>> /\ task'[m].out = 0
               /\ ~task'[m].stop => task'[m].late = 0
    BY <1>3 DEF SessionInv
  <2>2. QED BY <1>1, <1>3, <1>7, <1>8, <1>9, <2>1 DEF SessionInv, Owned
<1>13. ScreenInv'
  <2>1. ASSUME current # 0
        PROVE  /\ Listening(current, view[current].server, view[current].pc)'
               /\ Seeded(current, view[current].server, view[current].pc)'
    <3>0. PICK v \in Window!Views : v = current
      BY <1>6, <2>1
    <3>1. PICK s \in Servers : s = view[v].server
      BY <2>1, <3>0 DEF QueueInv, WindowTypes, Window!Views
    <3>2. PICK p : p = view[v].pc
      OBVIOUS
    <3>3. Listening(v, s, p) /\ Seeded(v, s, p)
      BY <2>1, <3>0, <3>1, <3>2 DEF ScreenInv
    <3>4. /\ view'[v].pc = p /\ view'[v].server = s /\ view'[v].ears = view[v].ears
          /\ view'[v].reply = view[v].reply
          /\ Range(view[v].screen) \subseteq Range(view'[v].screen)
          /\ Range(view'[v].screen) \subseteq Range(view[v].screen) \cup {line}
      BY <1>2, <1>5, <3>1, <3>2
    <3>5. Listening(v, s, p)'
      <4>1. p = "listen_console" => view'[v].screen = <<>>
        BY <1>2, <3>3 DEF Listening, Window!Hears
      <4>2. QED BY <1>1, <1>7, <3>3, <3>4, <4>1 DEF Listening
    <3>6. ASSUME p \notin {"listen_console", "opened", "shown"}
          PROVE  Range(view'[v].screen) \cap Range(Window!Seed(s)) \subseteq Window!Late
      <4>1. line \in Window!Late \/ line \notin Range(Window!Seed(s))
        BY <1>4 DEF Unseen, Window!Seed, Range
      <4>2. Range(view[v].screen) \cap Range(Window!Seed(s)) \subseteq Window!Late
        BY <3>3, <3>6 DEF Seeded
      <4>3. QED BY <3>4, <4>1, <4>2
    <3>7. ASSUME p = "opened"
          PROVE  /\ Range(view'[v].screen) \cap Range(view[v].reply) \subseteq Window!Late
                 /\ IsInjective(view[v].reply)
      <4>1. line \in Window!Late \/ line \notin Range(view[v].reply)
        BY <1>4, <2>1, <3>0, <3>2, <3>7 DEF Unseen
      <4>2. /\ Range(view[v].screen) \cap Range(view[v].reply) \subseteq Window!Late
            /\ IsInjective(view[v].reply)
        BY <3>3, <3>7 DEF Seeded
      <4>3. QED BY <3>4, <4>1, <4>2
    <3>8. p = "shown" => Range(view[v].reply) \subseteq Range(view'[v].screen)
      BY <3>3, <3>4 DEF Seeded
    <3>9. ASSUME p \in {"opened", "shown"}
          PROVE  /\ sessions[s] # 0
                 /\ Range(task'[sessions[s]].buffer) \ {task'[sessions[s]].out} \subseteq Range(view'[v].screen)
      <4>1. /\ sessions[s] # 0
            /\ Range(task[sessions[s]].buffer) \ {task[sessions[s]].out} \subseteq Range(view[v].screen)
        BY <3>3, <3>9 DEF Seeded
      <4>2. CASE sessions[s] = n
        <5>1. task[n].server = s /\ "console" \in view[v].ears
          BY <3>3, <3>9, <4>1, <4>2 DEF SessionInv, Listening
        <5>2. Range(view'[v].screen) = Range(view[v].screen) \cup {line}
          BY <1>2, <1>5, <3>1, <5>1 DEF Window!Hears
        <5>3. task'[n].buffer = task[n].buffer
          BY <1>3
        <5>4. QED BY <1>b, <4>1, <4>2, <5>2, <5>3
      <4>3. CASE sessions[s] # n
        BY <1>3, <1>9, <3>4, <4>1, <4>3
      <4>4. QED BY <4>1, <4>2, <4>3
    <3>10. Seeded(v, s, p)'
      <4>1. Window!Seed(s)' = Window!Seed(s)
        BY <1>1 DEF Window!Seed
      <4>2. QED BY <1>1, <1>l, <3>4, <3>6, <3>7, <3>8, <3>9, <4>1 DEF Seeded
    <3>11. QED BY <1>1, <3>0, <3>4, <3>5, <3>10
  <2>2. QED BY <1>1, <1>2, <2>1 DEF ScreenInv, Window!Pending
<1>14. LineInv'
  <2>1. ASSUME NEW v \in Window!Views
        PROVE  OnceBut(view'[v].screen, lines, Window!Late) /\ Known(view'[v].reply, lines)
    BY <1>2, <1>5 DEF LineInv
  <2>2. QED BY <1>1, <1>3, <1>l, <2>1 DEF LineInv
<1>15. OutInv'
  <2>1. ASSUME NEW m \in Window!Tasks PROVE Apart(m)'
    <3>1. Apart(m) /\ lines \in Nat
      BY <1>1 DEF OutInv
    <3>2. QED BY <1>1, <1>3, <3>1 DEF Apart
  <2>2. ASSUME NEW m \in Window!Tasks, Fresh(m)' PROVE Unseen(task[m].out)'
    <3>1. m # n /\ task'[m].out = task[m].out /\ Fresh(m)
      BY <1>3, <1>l, <2>2 DEF Fresh
    <3>2. Unseen(task[m].out) /\ task[m].out # line
      BY <1>b, <1>1, <3>1 DEF OutInv, Apart, Fresh
    <3>3. \A v \in Window!Views : Range(view'[v].screen) \subseteq Range(view[v].screen) \cup {line}
      BY <1>2, <1>5
    <3>4. QED BY <1>1, <1>2, <1>6, <3>1, <3>2, <3>3 DEF Unseen
  <2>3. QED BY <2>1, <2>2 DEF OutInv
<1>16. QED BY <1>10, <1>11, <1>12, <1>13, <1>14, <1>15

-----------------------------------------------------------------------------
(* The invariant, and what follows from it *)

LEMMA WindowStep == WindowInv /\ (Window!Next \/ UNCHANGED window) => WindowInv'
<1>1. ASSUME WindowInv, Window!Next PROVE WindowInv'
  <2>1. CASE \E s \in Servers : Window!Mount(s)
    BY <1>1, <2>1, MountStep
  <2>2. CASE Window!Unmount
    BY <1>1, <2>2, UnmountStep
  <2>3. CASE \E v \in Window!Views : Window!ViewStep(v)
    BY <1>1, <2>3, ViewStepInv
  <2>4. CASE Window!Serve
    BY <1>1, <2>4, ServeStep
  <2>5. CASE \E n \in Window!Tasks : Window!Say(n) \/ Window!Push(n) \/ Window!Emit(n)
    BY <1>1, <2>5, SayStep, PushStep, EmitStep
  <2>6. QED BY <1>1, <2>1, <2>2, <2>3, <2>4, <2>5 DEF Window!Next
<1>2. ASSUME WindowInv, UNCHANGED window PROVE WindowInv'
  <2>1. UNCHANGED <<current, mounted, view, calls, sessions, retained, spawned, task, lines>>
    BY <1>2 DEF window
  <2>2. \A s, k : ClosesFrom(s, k)' <=> ClosesFrom(s, k)
    BY <2>1 DEF ClosesFrom
  <2>3. \A s : Attached(s)' <=> Attached(s)
    BY <2>1 DEF Attached
  <2>4. WindowTypes'
    BY <1>2, <2>1 DEF WindowInv, WindowTypes
  <2>5. QueueInv'
    BY <1>2, <2>1, <2>2, <2>3 DEF WindowInv, QueueInv, Unused, Asked, InOrder
  <2>o. OutInv' /\ Window!Late' = Window!Late
    BY <1>2, <2>1, OutKept DEF WindowInv
  <2>6. SessionInv'
    BY <1>2, <2>1, <2>2, <2>3 DEF WindowInv, SessionInv, Owned
  <2>7. ScreenInv'
    BY <1>2, <2>1, <2>2, <2>o DEF WindowInv, ScreenInv, Listening, Seeded, Window!Seed, Window!Pending
  <2>8. LineInv'
    BY <1>2, <2>1, <2>o DEF WindowInv, LineInv
  <2>9. QED BY <2>4, <2>5, <2>6, <2>7, <2>8, <2>o DEF WindowInv
<1>3. QED BY <1>1, <1>2

LEMMA WindowTyped == WindowInv => Window!TypeOK
<1> SUFFICES ASSUME WindowInv PROVE Window!TypeOK
  OBVIOUS
<1>1. /\ current \in 0..MaxViews /\ mounted \in 0..MaxViews /\ spawned \in 0..MaxViews
      /\ sessions \in [Servers -> 0..spawned] /\ lines \in 0..MaxLines
      /\ DOMAIN retained \subseteq Servers /\ Cardinality(DOMAIN retained) <= Retained
  BY DEF WindowInv, WindowTypes
<1>2. \A v \in Window!Views :
         /\ view[v].server \in Servers \cup {None} /\ view[v].ears \subseteq {"console", "conn"}
         /\ view[v].pc \in ViewSteps
         /\ {view[v].screen, view[v].reply} \subseteq Seq(Window!Lines)
  BY DEF WindowInv, WindowTypes, ViewRecord, Ears
<1>3. \A n \in Window!Tasks : /\ task[n].buffer \in Seq(Window!Lines) /\ Len(task[n].buffer) <= RingCap
                             /\ {task[n].out, task[n].late} \subseteq 0..MaxLines
  BY DEF WindowInv, WindowTypes, TaskRecord
<1>4. QED BY <1>1, <1>2, <1>3, SameOperators DEF Window!TypeOK, ViewSteps

LEMMA WindowScreen == WindowInv => Window!ScreenHasTheSession
<1> SUFFICES ASSUME WindowInv PROVE Window!ScreenHasTheSession
  OBVIOUS
<1>1. ASSUME calls = <<>> PROVE \A s \in Servers : sessions[s] # 0 => Window!OnScreen(s)
  <2>1. \A s : ~ClosesFrom(s, 1)
    BY <1>1 DEF ClosesFrom
  <2>2. QED BY <2>1 DEF WindowInv, SessionInv, Owned, Attached, Window!OnScreen
<1>2. ASSUME Window!Shown(current)
      PROVE  sessions[view[current].server] # 0 /\ ~task[sessions[view[current].server]].stop
  <2>1. current # 0 /\ view[current].pc = "shown" /\ view[current].server \in Servers
    BY <1>2 DEF Window!Shown, WindowInv, QueueInv, WindowTypes, Window!Views
  <2>2. sessions[view[current].server] # 0
    BY <2>1 DEF WindowInv, ScreenInv, Seeded
  <2>3. QED BY <2>1, <2>2 DEF WindowInv, SessionInv
<1>3. QED BY <1>1, <1>2 DEF Window!ScreenHasTheSession, Window!OnlyScreenIsOpen, Window!ScreenIsFed,
                            Window!NoEarsLeft, WindowInv, ScreenInv

LEMMA WindowLines == WindowInv => Window!EveryLineOnce
<1> SUFFICES ASSUME WindowInv PROVE Window!EveryLineOnce
  OBVIOUS
<1>1. Window!NoLineMissed
  BY SameOperators DEF WindowInv, ScreenInv, Seeded, Window!NoLineMissed, Window!Shown
<1>2. Window!NoLineTwice
  BY SameOperators DEF WindowInv, LineInv, OnceBut, Window!NoLineTwice
<1>3. QED BY <1>1, <1>2 DEF Window!EveryLineOnce

-----------------------------------------------------------------------------
(* Both parts side by side *)

LEMMA SessionRuns == SpecParts => Spec
<1>1. InitParts => Init
  BY DEF InitParts
<1>2. [NextPart]_<<part, alone, window>> => [Next]_vars
  BY DEF NextPart, alone
<1>3. QED BY <1>1, <1>2, PTL DEF SpecParts, Spec

LEMMA WindowAlways == SpecParts => []WindowInv
<1>1. InitParts => WindowInv
  BY WindowInit DEF InitParts
<1>2. WindowInv /\ [NextPart]_<<part, alone, window>> => WindowInv'
  BY WindowStep DEF NextPart
<1>3. QED BY <1>1, <1>2, PTL DEF SpecParts

\* Every variable of the session (session.rs) and of the window's consoles
\* (Console.tsx, console/mod.rs) keeps its type; the ring buffers and the retained
\* scrollback never outgrow their caps.
THEOREM ConsolesAreTyped == SpecParts => []TypesOK
<1>1. TypeOK /\ WindowInv => TypesOK
  BY WindowTyped DEF TypesOK
<1>2. QED BY <1>1, SessionTyped, SessionRuns, WindowAlways, PTL

\* However views mount, unmount and open, and however late their calls are served,
\* the server on the screen has the one session, it has not been told to stop, and
\* nobody else listens (Console.tsx:97-160, mod.rs:63-125).
THEOREM ScreenKeepsItsSession == SpecParts => []ScreenHasTheSession
<1>1. WindowInv => ScreenHasTheSession
  BY WindowScreen DEF ScreenHasTheSession
<1>2. QED BY <1>1, WindowAlways, PTL

\* A console on screen shows every line its session keeps, but for the one on its
\* way out, and every line it was seeded with; it shows a line twice only when that
\* line's session was closed between the push and the emit of it
\* (Console.tsx:114-130, mod.rs:84-91, session.rs:299-306).
THEOREM LinesAreShownOnce == SpecParts => []EveryLineOnce
<1>1. WindowInv => EveryLineOnce
  BY WindowLines DEF EveryLineOnce
<1>2. QED BY <1>1, WindowAlways, PTL

=============================================================================
