-------------------------- MODULE AuthManagerProofs --------------------------
(***************************************************************************)
(* What holds of AuthManager for every set of tokens and tasks, every      *)
(* admitted event and every bound on crashes.                              *)
(***************************************************************************)
EXTENDS AuthManager, TLAPS

-----------------------------------------------------------------------------
(* Type correctness *)

Results == {"ok", "expired", "empty", "network", "other", "denied",
            "not_signed_in", "offline"}

LEMMA UiAfterType ==
    ASSUME TypeOK, NEW p, NEW r
    PROVE  UiAfter(p, r) \in UiStates
BY DEF TypeOK, UiAfter, UiStates

\* What Finish and Resume do to the variables they own.
LEMMA FinishType ==
    ASSUME TypeOK, NEW p \in Proc, NEW r, Finish(p, r)
    PROVE  /\ ui' \in UiStates
           /\ pc' \in [Proc -> Phases]
           /\ access' \in [Proc -> TokenOrNone]
           /\ held' \in [Proc -> TokenOrNone]
           /\ got' \in [Proc -> TokenOrNone]
           /\ retried' \in [Proc -> BOOLEAN]
           /\ stale' \subseteq Proc
BY UiAfterType DEF TypeOK, Finish, Goto, Drop, Phases, TokenOrNone

LEMMA ResumeType ==
    ASSUME TypeOK, NEW p \in Proc, NEW f \in Phases, Resume(p, f)
    PROVE  /\ ui' \in UiStates
           /\ pc' \in [Proc -> Phases]
           /\ access' \in [Proc -> TokenOrNone]
           /\ held' \in [Proc -> TokenOrNone]
           /\ got' \in [Proc -> TokenOrNone]
           /\ retried' \in [Proc -> BOOLEAN]
           /\ stale' \subseteq Proc
BY DEF TypeOK, Resume, Goto, Drop, TokenOrNone

LEMMA LeaveType ==
    ASSUME TypeOK, NEW p \in Proc,
           NEW r \in {"ok", "expired", "empty", "network", "other", "denied"},
           Leave(p, r)
    PROVE  /\ ui' \in UiStates
           /\ pc' \in [Proc -> Phases]
           /\ access' \in [Proc -> TokenOrNone]
           /\ held' \in [Proc -> TokenOrNone]
           /\ got' \in [Proc -> TokenOrNone]
           /\ retried' \in [Proc -> BOOLEAN]
           /\ stale' \subseteq Proc
           /\ gate' \in Proc \cup {Free}
           /\ slotLock' \in Proc \cup {Free}
           /\ slot' \in {"unknown", "yes", "no"}
           /\ answer' \in {"none", "ok", "expired", "empty", "network", "other", "denied"}
<1>1. "resend" \in Phases /\ "whoami" \in Phases /\ "slot" \in Phases
  BY DEF Phases, RequestPhases, ResumePhases
<1>2. CASE gate = p
  BY <1>1, <1>2, FinishType, ResumeType DEF Leave, ReleaseGate, TypeOK
<1>3. CASE gate # p /\ slotLock = p
  BY <1>1, <1>3, ResumeType DEF Leave, TypeOK
<1>4. CASE gate # p /\ slotLock # p
  BY <1>1, <1>4, ResumeType DEF Leave, TypeOK
<1>5. QED
  BY <1>2, <1>3, <1>4


\* The initial states are well typed.
LEMMA InitType == Init => TypeOK
<1> SUFFICES ASSUME Init PROVE TypeOK
  OBVIOUS
<1>1. 0 \in 0..MaxCrashes
  BY ConstAssumption DEF ConstAssumption
<1>2. PICK t \in TokenOrNone :
        /\ vault = t
        /\ status = [x \in Token |-> IF x = t THEN "live" ELSE "unissued"]
  BY DEF Init
<1>3. status \in [Token -> {"unissued", "live", "grace", "spent", "revoked"}]
  BY <1>2
<1>4. QED
  BY <1>1, <1>2, <1>3 DEF Init, TypeOK, Phases, UiStates, TokenOrNone

\* The steps of an authenticated request.
LEMMA RequestType ==
    ASSUME TypeOK, NEW p \in Proc, Request(p)
    PROVE  TypeOK'
<1> USE DEF panel, core, locks, local, hist
<1>1. CASE Send(p)
  <2>1. Goto(p, IF pc[p] = "send" THEN "sent" ELSE "resent") => pc' \in [Proc -> Phases]
    BY DEF Goto, TypeOK, Phases, RequestPhases
  <2>2. CASE tokens = None
    BY <1>1, <2>2, FinishType DEF Send, TypeOK
  <2>3. CASE tokens # None
    BY <1>1, <2>1, <2>3 DEF Send, TypeOK
  <2>4. QED BY <2>2, <2>3
<1>2. CASE Respond(p)
  <2>1. CASE \E r : Finish(p, r)
    <3>1. PICK r : Finish(p, r) BY <2>1
    <3>2. QED BY <1>2, <3>1, FinishType DEF Respond, TypeOK
  <2>2. CASE Goto(p, "gate") /\ UNCHANGED <<local, ui, stale>>
    BY <1>2, <2>2 DEF Respond, Goto, TypeOK, Phases, RequestPhases
  <2>3. QED BY <1>2, <2>1, <2>2 DEF Respond
<1>3. CASE TakeGate(p)
  BY <1>3 DEF TakeGate, Goto, TypeOK, Phases, RequestPhases
<1>4. CASE CheckRefreshed(p)
  <2>1. CASE Finish(p, "not_signed_in")
    BY <1>4, <2>1, FinishType DEF CheckRefreshed, ReleaseGate, TypeOK
  <2>2. CASE \E f \in {"resend", "pick"} : Goto(p, f) /\ UNCHANGED <<local, ui, stale>>
    BY <1>4, <2>2 DEF CheckRefreshed, ReleaseGate, Goto, TypeOK, Phases, RequestPhases
  <2>3. QED BY <1>4, <2>1, <2>2 DEF CheckRefreshed
<1>5. CASE PickRefresh(p)
  <2>1. CASE tokens = None
    BY <1>5, <2>1, FinishType DEF PickRefresh, ReleaseGate, TypeOK
  <2>2. CASE tokens # None
    BY <1>5, <2>2 DEF PickRefresh, Goto, TypeOK, Phases, RotatePhases
  <2>3. QED BY <2>1, <2>2
<1>6. QED BY <1>1, <1>2, <1>3, <1>4, <1>5 DEF Request

\* The steps of a rotation and of install().
LEMMA RotateType ==
    ASSUME TypeOK, NEW p \in Proc, Rotate(p)
    PROVE  TypeOK'
<1> USE DEF panel, core, locks, local, hist
<1>1. CASE ServeRefresh(p)
  <2> USE DEF Goto, TypeOK, Phases, RotatePhases, TokenOrNone, Unissued
  <2>1. CASE status[held[p]] \in {"live", "grace"}
    BY <1>1, <2>1 DEF ServeRefresh
  <2>2. CASE status[held[p]] = "spent"
    BY <1>1, <2>2 DEF ServeRefresh
  <2>3. CASE status[held[p]] = "revoked"
    BY <1>1, <2>3 DEF ServeRefresh
  <2>4. QED BY <1>1, <2>1, <2>2, <2>3 DEF ServeRefresh
<1>2. CASE LoseOnce(p)
  BY <1>2 DEF LoseOnce, Goto, TypeOK, Phases, RotatePhases, TokenOrNone
<1>3. CASE GiveUp(p)
  <2>1. PICK r \in {"network", "other"} : Leave(p, r)
    BY <1>3 DEF GiveUp
  <2>2. QED BY <1>3, <2>1, LeaveType DEF GiveUp, TypeOK
<1>4. CASE Accept(p)
  BY <1>4 DEF Accept, Goto, TypeOK, Phases, RotatePhases
<1>5. CASE Store(p)
  BY <1>5 DEF Store, Goto, TypeOK, Phases, RotatePhases, TokenOrNone
<1>6. CASE Adopt(p)
  <2>1. Leave(p, "ok") BY <1>6 DEF Adopt
  <2>2. QED BY <1>6, <2>1, LeaveType DEF Adopt, TypeOK
<1>7. CASE Denied(p)
  BY <1>7 DEF Denied, Goto, TypeOK, Phases, RotatePhases, TokenOrNone
<1>8. CASE Wipe(p)
  <2>1. CASE \E r \in {"expired", "denied"} : Leave(p, r)
    <3>1. PICK r \in {"expired", "denied"} : Leave(p, r) BY <2>1
    <3>2. vault' \in TokenOrNone BY <1>8 DEF Wipe, TypeOK, TokenOrNone
    <3>3. QED BY <1>8, <3>1, <3>2, LeaveType DEF Wipe, TypeOK
  <2>2. CASE vault' = None /\ Goto(p, "rewipe") /\ UNCHANGED <<locks, ui, local, stale, answer>>
    BY <1>8, <2>2 DEF Wipe, Goto, TypeOK, Phases, RotatePhases, TokenOrNone
  <2>3. QED BY <1>8, <2>1, <2>2 DEF Wipe
<1>9. CASE Rewipe(p)
  <2>1. PICK r \in {"expired", "denied"} : Leave(p, r) BY <1>9 DEF Rewipe
  <2>2. vault' \in TokenOrNone BY <1>9 DEF Rewipe, TypeOK, TokenOrNone
  <2>3. QED BY <1>9, <2>1, <2>2, LeaveType DEF Rewipe, TypeOK
<1>10. QED
  BY <1>1, <1>2, <1>3, <1>4, <1>5, <1>6, <1>7, <1>8, <1>9 DEF Rotate

\* The steps of auth_status.
LEMMA ResumeSessionType ==
    ASSUME TypeOK, NEW p \in Proc, ResumeSession(p)
    PROVE  TypeOK'
<1> USE DEF panel, core, locks, local, hist
<1>1. CASE TakeSlot(p)
  BY <1>1 DEF TakeSlot, Goto, TypeOK, Phases, ResumePhases
<1>2. CASE LoadVault(p)
  <2>1. CASE \E r \in {"empty", "other"} : Leave(p, r)
    <3>1. PICK r \in {"empty", "other"} : Leave(p, r) BY <2>1
    <3>2. QED BY <1>2, <3>1, LeaveType DEF LoadVault, TypeOK
  <2>2. CASE /\ held' = [held EXCEPT ![p] = vault]
             /\ Goto(p, "asked")
             /\ UNCHANGED <<locks, ui, access, got, retried, stale, answer>>
    BY <1>2, <2>2 DEF LoadVault, Goto, TypeOK, Phases, RotatePhases
  <2>3. QED BY <1>2, <2>1, <2>2 DEF LoadVault
<1>3. CASE WhoAmI(p)
  <2>1. CASE \E r : Finish(p, r)
    <3>1. PICK r : Finish(p, r) BY <2>1
    <3>2. QED BY <1>3, <3>1, FinishType DEF WhoAmI, TypeOK
  <2>2. CASE Goto(p, "send") /\ UNCHANGED <<ui, local, stale>>
    BY <1>3, <2>2 DEF WhoAmI, Goto, TypeOK, Phases, RequestPhases
  <2>3. QED BY <1>3, <2>1, <2>2 DEF WhoAmI
<1>4. QED BY <1>1, <1>2, <1>3 DEF ResumeSession

\* Signing in.
LEMMA LogInType == ASSUME TypeOK, LogIn PROVE TypeOK'
<1> USE DEF panel, core, locks, local, hist
<1>0. SignIn \in Proc
  BY DEF Proc
<1>1. CASE LoginAnswer
  <2>1. CASE Resume(SignIn, "idle") /\ UNCHANGED <<status, pending>>
    BY <1>0, <1>1, <2>1, ResumeType DEF LoginAnswer, TypeOK, Phases
  <2>2. CASE pending' = TRUE /\ Goto(SignIn, "mfaScreen") /\ UNCHANGED <<status, local, ui, stale>>
    BY <1>0, <1>1, <2>2 DEF LoginAnswer, Goto, TypeOK, Phases, SignInPhases
  <2>3. CASE \E n \in Unissued :
               /\ status' = [status EXCEPT ![n] = "live"]
               /\ got' = [got EXCEPT ![SignIn] = n]
               /\ Goto(SignIn, "store")
               /\ UNCHANGED <<pending, access, held, retried, ui, stale>>
    BY <1>0, <1>1, <2>3 DEF LoginAnswer, Goto, TypeOK, Phases, RotatePhases, TokenOrNone, Unissued
  <2>4. QED BY <1>1, <2>1, <2>2, <2>3 DEF LoginAnswer
<1>2. CASE MfaAnswer
  <2>1. CASE Goto(SignIn, "mfaScreen") /\ UNCHANGED <<status, pending, got>>
    BY <1>0, <1>2, <2>1 DEF MfaAnswer, Goto, TypeOK, Phases, SignInPhases
  <2>2. CASE \E n \in Unissued :
               /\ status' = [status EXCEPT ![n] = "live"]
               /\ pending' = FALSE
               /\ got' = [got EXCEPT ![SignIn] = n]
               /\ Goto(SignIn, "store")
    <3>1. PICK n \in Unissued :
               /\ status' = [status EXCEPT ![n] = "live"]
               /\ pending' = FALSE
               /\ got' = [got EXCEPT ![SignIn] = n]
               /\ Goto(SignIn, "store")
      BY <2>2
    <3>2. pending' \in BOOLEAN
      BY <3>1
    <3>3. QED
      BY <1>0, <1>2, <3>1, <3>2 DEF MfaAnswer, Goto, TypeOK, Phases, RotatePhases, TokenOrNone, Unissued
  <2>3. QED BY <1>2, <2>1, <2>2 DEF MfaAnswer
<1>3. QED BY <1>1, <1>2 DEF LogIn

\* Signing out.
LEMMA LogOutType == ASSUME TypeOK, LogOut PROVE TypeOK'
<1> USE DEF panel, core, locks, local, hist
<1>0. SignOut \in Proc
  BY DEF Proc
<1>1. CASE LogoutTakeGate
  BY <1>0, <1>1 DEF LogoutTakeGate, Goto, TypeOK, Phases, SignOutPhases
<1>2. CASE LogoutPost
  BY <1>0, <1>2 DEF LogoutPost, Goto, TypeOK, Phases, SignOutPhases
<1>3. CASE LogoutForget
  BY <1>0, <1>3 DEF LogoutForget, Goto, TypeOK, Phases, SignOutPhases, TokenOrNone
<1>4. CASE LogoutWipe
  BY <1>0, <1>4
  DEF LogoutWipe, Goto, Drop, TypeOK, Phases, UiStates, TokenOrNone, Installing
<1>5. QED BY <1>1, <1>2, <1>3, <1>4 DEF LogOut

\* What the user and the environment do.
LEMMA UserType == ASSUME TypeOK, User PROVE TypeOK'
<1> USE DEF panel, core, locks, local, hist
<1>1. \E p \in Proc, f \in Phases : Goto(p, f) /\ UNCHANGED <<panel, core, locks, ui, local, hist>>
  BY DEF User, StartStatus, StartLogin, SubmitMfa, StartLogout, StartRequest, Proc, Phases,
         RequestPhases, ResumePhases, SignInPhases, SignOutPhases
<1>2. QED BY <1>1 DEF Goto, TypeOK

LEMMA EnvironmentType == ASSUME TypeOK, Environment PROVE TypeOK'
<1> USE DEF panel, core, locks, local, hist
<1>1. PICK t \in Token : GraceExpire(t) \/ ExpireAccess(t) \/ RemoteRevoke(t)
  BY DEF Environment
<1>2. QED BY <1>1 DEF GraceExpire, ExpireAccess, RemoteRevoke, TypeOK

LEMMA CrashType == ASSUME TypeOK, Crash PROVE TypeOK'
<1>1. crashes + 1 \in 0..MaxCrashes
  BY ConstAssumption DEF ConstAssumption, Crash, TypeOK
<1>2. QED
  BY <1>1 DEF Crash, TypeOK, panel, Phases, UiStates, TokenOrNone

\* Every step keeps every variable in its type.
LEMMA TypeStep == TypeOK /\ [Next]_vars => TypeOK'
<1> SUFFICES ASSUME TypeOK, [Next]_vars PROVE TypeOK'
  OBVIOUS
<1>1. CASE \E p \in Proc : Request(p) \/ Rotate(p) \/ ResumeSession(p)
  BY <1>1, RequestType, RotateType, ResumeSessionType
<1>2. CASE LogIn \/ LogOut \/ User \/ Environment \/ Crash
  BY <1>2, LogInType, LogOutType, UserType, EnvironmentType, CrashType
<1>3. CASE UNCHANGED vars
  BY <1>3 DEF vars, panel, core, locks, local, hist, TypeOK
<1>4. QED BY <1>1, <1>2, <1>3 DEF Next

\* Whatever requests, resumes, sign-ins, sign-outs and crashes interleave, every
\* part of the session keeps its type: a held token is a token, a lock names
\* a process, the crash counter respects its bound.
THEOREM TypeCorrect == Spec => []TypeOK
BY InitType, TypeStep, PTL DEF Spec

-----------------------------------------------------------------------------
(* Locks *)

HoldsGate == {"outPost", "outForget", "outWipe"}

\* The inductive invariant: which lock each phase implies, and what its holder
\* may be doing.  A task rotates only under the gate, a resume only under the
\* slot lock, and no process holds both.
LockInv ==
    /\ pc[SignOut] \in {"idle"} \cup SignOutPhases
    /\ pc[Status] \notin SignOutPhases /\ pc[SignIn] \notin SignOutPhases
    /\ \A p \in Task : pc[p] \in ({"idle"} \cup RequestPhases \cup RotatePhases) \ {"rewipe"}
    /\ \A p \in Proc : pc[p] \in {"check", "pick"} => gate = p
    /\ \A p \in Task : pc[p] \in RotatePhases => gate = p
    /\ pc[SignOut] \in HoldsGate => gate = SignOut
    /\ gate # Free => pc[gate] \in GatedPhases \cup HoldsGate
    /\ slotLock # Free => pc[slotLock] \in {"load"} \cup RotatePhases
    /\ slotLock \notin Task
    /\ gate = slotLock => gate = Free
    /\ \A p \in Task : held[p] # None => pc[p] \in RotatePhases
    /\ \A p \in Task : got[p] # None => pc[p] \in RotatePhases
    /\ NoStaleRefresh

LEMMA LockInit == Init => LockInv
BY ConstAssumption
DEF ConstAssumption, Init, LockInv, NoStaleRefresh, Proc, SignOutPhases, RotatePhases,
    RequestPhases, HoldsGate

\* Leaving rotate() gives back the lock it ran under.
LEMMA LockLeave ==
    ASSUME TypeOK, LockInv, NEW p \in Proc, NEW r, Leave(p, r),
           pc[p] \in {"load"} \cup RotatePhases
    PROVE  LockInv'
<1> USE ConstAssumption DEF ConstAssumption, TypeOK, LockInv, NoStaleRefresh, Proc,
        Goto, Drop, SignOutPhases, RotatePhases, RequestPhases, HoldsGate, GatedPhases
<1>1. CASE gate = p
  <2>1. CASE Resume(p, "resend") /\ ReleaseGate /\ UNCHANGED <<slot, slotLock>>
    BY <1>1, <2>1 DEF Resume, ReleaseGate
  <2>2. CASE Finish(p, r) /\ ReleaseGate /\ UNCHANGED <<slot, slotLock>>
    BY <1>1, <2>2 DEF Finish, ReleaseGate
  <2>3. QED BY <1>1, <2>1, <2>2 DEF Leave
<1>2. CASE gate # p /\ slotLock = p
  BY <1>2 DEF Leave, Resume
<1>3. CASE gate # p /\ slotLock # p
  BY <1>3 DEF Leave, Resume
<1>4. QED BY <1>1, <1>2, <1>3

\* The steps of an authenticated request.
LEMMA LockRequest ==
    ASSUME TypeOK, LockInv, NEW p \in Proc, Request(p)
    PROVE  LockInv'
<1> USE ConstAssumption DEF ConstAssumption, TypeOK, LockInv, NoStaleRefresh, Proc, Goto, Drop,
        SignOutPhases, RotatePhases, RequestPhases, HoldsGate, GatedPhases,
        panel, core, locks, local, hist
<1>1. CASE Send(p)
  BY <1>1 DEF Send, Finish
<1>2. CASE Respond(p)
  BY <1>2 DEF Respond, Finish
<1>3. CASE TakeGate(p)
  BY <1>3 DEF TakeGate, GateFree
<1>4. CASE CheckRefreshed(p)
  BY <1>4 DEF CheckRefreshed, ReleaseGate, Finish
<1>5. CASE PickRefresh(p)
  BY <1>5 DEF PickRefresh, ReleaseGate, Finish
<1>6. QED BY <1>1, <1>2, <1>3, <1>4, <1>5 DEF Request

\* The steps of a rotation and of install().
LEMMA LockRotate ==
    ASSUME TypeOK, LockInv, NEW p \in Proc, Rotate(p)
    PROVE  LockInv'
<1> USE DEF panel, core, locks, local, hist
<1>a. ASSUME NEW r, Leave(p, r), pc[p] \in RotatePhases PROVE LockInv'
  BY <1>a, LockLeave
<1>b. ASSUME NEW f \in RotatePhases \ {"rewipe"}, pc[p] \in RotatePhases, Goto(p, f),
             UNCHANGED <<locks, stale>>,
             \A q \in Proc \ {p} : held'[q] = held[q] /\ got'[q] = got[q]
      PROVE  LockInv'
  BY <1>b, ConstAssumption
  DEF ConstAssumption, TypeOK, LockInv, NoStaleRefresh, Proc, Goto, SignOutPhases, RotatePhases,
      RequestPhases, HoldsGate, GatedPhases
<1>1. CASE ServeRefresh(p)
  BY <1>1, <1>b DEF ServeRefresh, RotatePhases, TypeOK
<1>2. CASE LoseOnce(p)
  BY <1>2, <1>b DEF LoseOnce, RotatePhases, TypeOK
<1>3. CASE GiveUp(p)
  BY <1>3, <1>a DEF GiveUp, RotatePhases
<1>4. CASE Accept(p)
  BY <1>4, <1>b DEF Accept, RotatePhases
<1>5. CASE Store(p)
  BY <1>5, <1>b DEF Store, RotatePhases
<1>6. CASE Adopt(p)
  BY <1>6, <1>a DEF Adopt, RotatePhases
<1>7. CASE Denied(p)
  BY <1>7, <1>b DEF Denied, RotatePhases
<1>8. CASE Wipe(p)
  <2>1. CASE \E r : Leave(p, r)
    BY <1>8, <2>1, <1>a DEF Wipe, RotatePhases
  <2>2. CASE slotLock = p /\ Goto(p, "rewipe") /\ UNCHANGED <<locks, local, stale>>
    BY <1>8, <2>2, ConstAssumption
    DEF Wipe, ConstAssumption, TypeOK, LockInv, NoStaleRefresh, Proc, Goto, SignOutPhases,
        RotatePhases, RequestPhases, HoldsGate, GatedPhases
  <2>3. QED BY <1>8, <2>1, <2>2 DEF Wipe
<1>9. CASE Rewipe(p)
  BY <1>9, <1>a DEF Rewipe, RotatePhases
<1>10. QED
  BY <1>1, <1>2, <1>3, <1>4, <1>5, <1>6, <1>7, <1>8, <1>9 DEF Rotate

\* auth_status never touches the gate; it takes and releases the slot lock.
LEMMA LockResumeSession ==
    ASSUME TypeOK, LockInv, NEW p \in Proc, ResumeSession(p)
    PROVE  LockInv'
<1>1. CASE TakeSlot(p)
  BY <1>1, ConstAssumption
  DEF TakeSlot, ConstAssumption, TypeOK, LockInv, NoStaleRefresh, Proc, Goto, SignOutPhases,
      RotatePhases, RequestPhases, HoldsGate, GatedPhases, panel, core, local, hist
<1>2. CASE LoadVault(p)
  <2>1. CASE \E r : Leave(p, r)
    BY <1>2, <2>1, LockLeave DEF LoadVault
  <2>2. CASE Goto(p, "asked") /\ held' = [held EXCEPT ![p] = vault]
               /\ UNCHANGED <<locks, got, stale>>
    BY <1>2, <2>2, ConstAssumption
    DEF LoadVault, ConstAssumption, TypeOK, LockInv, NoStaleRefresh, Proc, Goto, SignOutPhases,
        RotatePhases, RequestPhases, HoldsGate, GatedPhases, locks
  <2>3. QED BY <1>2, <2>1, <2>2 DEF LoadVault
<1>3. CASE WhoAmI(p)
  BY <1>3, ConstAssumption
  DEF WhoAmI, Finish, ConstAssumption, TypeOK, LockInv, NoStaleRefresh, Proc, Goto, Drop,
      SignOutPhases, RotatePhases, RequestPhases, HoldsGate, GatedPhases, core, locks, local
<1>4. QED BY <1>1, <1>2, <1>3 DEF ResumeSession

\* Signing in holds no lock until init() runs.
LEMMA LockLogIn == ASSUME TypeOK, LockInv, LogIn PROVE LockInv'
<1> USE ConstAssumption DEF ConstAssumption, TypeOK, LockInv, NoStaleRefresh, Proc, Goto, Drop,
        SignOutPhases, RotatePhases, RequestPhases, HoldsGate, GatedPhases, locks, local, hist
<1>1. CASE LoginAnswer
  BY <1>1 DEF LoginAnswer, Resume
<1>2. CASE MfaAnswer
  BY <1>2 DEF MfaAnswer
<1>3. QED BY <1>1, <1>2 DEF LogIn

\* logout holds the gate from its first step to its last, so that no task is
\* rotating when it ends.
LEMMA LockLogOut == ASSUME TypeOK, LockInv, LogOut PROVE LockInv'
<1> USE ConstAssumption DEF ConstAssumption, TypeOK, LockInv, NoStaleRefresh, Proc, Goto, Drop,
        SignOutPhases, RotatePhases, RequestPhases, HoldsGate, GatedPhases,
        panel, core, locks, local, hist
<1>1. CASE LogoutTakeGate
  BY <1>1 DEF LogoutTakeGate, GateFree
<1>2. CASE LogoutPost
  BY <1>2 DEF LogoutPost
<1>3. CASE LogoutForget
  BY <1>3 DEF LogoutForget
<1>4. CASE LogoutWipe
  <2>1. gate = SignOut
    BY <1>4 DEF LogoutWipe
  <2>2. Installing \cap Task = {}
    BY <2>1 DEF Installing, Rotating
  <2>3. QED
    BY <1>4, <2>1, <2>2 DEF LogoutWipe
<1>5. QED BY <1>1, <1>2, <1>3, <1>4 DEF LogOut

\* What the user starts begins outside every lock.
LEMMA LockUser == ASSUME TypeOK, LockInv, User PROVE LockInv'
<1> USE ConstAssumption DEF ConstAssumption, TypeOK, LockInv, NoStaleRefresh, Proc, Goto,
        SignOutPhases, RotatePhases, RequestPhases, HoldsGate, GatedPhases,
        panel, core, locks, local, hist
<1>1. CASE StartStatus
  BY <1>1 DEF StartStatus
<1>2. CASE StartLogin
  BY <1>2 DEF StartLogin
<1>3. CASE SubmitMfa
  BY <1>3 DEF SubmitMfa
<1>4. CASE StartLogout
  BY <1>4 DEF StartLogout
<1>5. CASE \E p \in Task : StartRequest(p)
  BY <1>5 DEF StartRequest
<1>6. QED BY <1>1, <1>2, <1>3, <1>4, <1>5 DEF User

LEMMA LockStep == TypeOK /\ LockInv /\ [Next]_vars => LockInv'
<1> SUFFICES ASSUME TypeOK, LockInv, [Next]_vars PROVE LockInv'
  OBVIOUS
<1> USE DEF panel, core, locks, local, hist
<1>1. CASE \E p \in Proc : Request(p) \/ Rotate(p) \/ ResumeSession(p)
  BY <1>1, LockRequest, LockRotate, LockResumeSession
<1>2. CASE LogIn \/ LogOut \/ User
  BY <1>2, LockLogIn, LockLogOut, LockUser
<1>3. CASE Environment
  BY <1>3 DEF Environment, GraceExpire, ExpireAccess, RemoteRevoke, LockInv, NoStaleRefresh
<1>4. CASE Crash
  BY <1>4, ConstAssumption
  DEF Crash, ConstAssumption, LockInv, NoStaleRefresh, Proc, SignOutPhases, RotatePhases,
      RequestPhases, HoldsGate
<1>5. CASE UNCHANGED vars
  BY <1>5 DEF vars, LockInv, NoStaleRefresh
<1>6. QED BY <1>1, <1>2, <1>3, <1>4, <1>5 DEF Next

\* The inductive invariant holds of every behaviour.
THEOREM LocksTyped == Spec => [](TypeOK /\ LockInv)
<1>1. Init => TypeOK /\ LockInv
  BY InitType, LockInit
<1>2. (TypeOK /\ LockInv) /\ [Next]_vars => (TypeOK /\ LockInv)'
  BY TypeStep, LockStep
<1>3. QED BY <1>1, <1>2, PTL DEF Spec

\* No refresh of an authenticated request is in flight when a sign-out ends:
\* a rotation under the gate cannot bring the session back (auth.rs:264-267).
THEOREM NoRefreshOutlivesSignOut == Spec => []NoStaleRefresh
<1>1. TypeOK /\ LockInv => NoStaleRefresh
  BY DEF LockInv
<1>2. QED BY <1>1, LocksTyped, PTL

\* Every early return and error path gives its lock back: a held lock always
\* belongs to a process in the section it guards (auth.rs:497-515, state.rs:86-101).
THEOREM LocksAlwaysHeldByWorkers == Spec => []LocksHeldByWorkers
<1>1. TypeOK /\ LockInv => LocksHeldByWorkers
  BY DEF LockInv, LocksHeldByWorkers, HoldsGate, SignOutPhases
<1>2. QED BY <1>1, LocksTyped, PTL

\* Two authenticated requests never rotate at the same time, whatever faults,
\* crashes, sign-ins and sign-outs are admitted (auth.rs:7-8, 497-498).
THEOREM TasksRefreshOneAtATime ==
    Spec => [](\A p, q \in Task : Rotating(p) /\ Rotating(q) => p = q)
<1>1. TypeOK /\ LockInv => \A p, q \in Task : Rotating(p) /\ Rotating(q) => p = q
  BY DEF LockInv, Rotating
<1>2. QED BY <1>1, LocksTyped, PTL

-----------------------------------------------------------------------------
(* One refresh at a time *)

\* The resume rotates without the gate, so it must be alone: either nobody can
\* sign in while it has no answer yet, or every path to the sign-in screen ends
\* with one.
OneResume == "sign_in" \notin Env \/ Env \cap {"load", "clear", "offline_sign_out"} = {}

\* A sign-in installs the pair it was given without rotating anything.
InstallOnly(p) == p = SignIn /\ pc[p] \in {"store", "adopt"} /\ held[p] = None

\* As long as the resume has no answer there is no session in memory, so no
\* request gets as far as a rotation; without faults of the credential store
\* the sign-in screen is not reached either.
Unanswered ==
    /\ tokens = None
    /\ gate \in {Free, SignOut}
    /\ \A p \in Proc : pc[p] \notin RequestPhases \ {"send"}
    /\ pc[Status] # "send" /\ pc[SignIn] # "send"
    /\ ui # "signedIn"
    /\ \A p \in UiTask : pc[p] = "idle"
    /\ "sign_in" \in Env =>
         /\ ui \in {"loading", "offline"}
         /\ pc[SignIn] = "idle" /\ pc[SignOut] = "idle"
         /\ pc[Status] \in {"asked", "answered", "denied", "whoami"} => vault # None

ResumeInv ==
    /\ "sign_in" \notin Env => pc[SignIn] = "idle"
    /\ \A p \in Proc : pc[p] \in {"load"} \cup RotatePhases
                         => gate = p \/ slotLock = p \/ InstallOnly(p)
    /\ \A p \in Proc \ {SignOut} : held[p] # None => pc[p] \in RotatePhases
    /\ slotLock # Free => slot = "unknown"
    /\ slot = "unknown" => Unanswered

LEMMA ResumeInit == Init => ResumeInv
BY ConstAssumption
DEF ConstAssumption, Init, ResumeInv, Unanswered, Proc, RotatePhases, RequestPhases

\* The steps of an authenticated request.
LEMMA ResumeRequest ==
    ASSUME OneResume, TypeOK, LockInv, ResumeInv, NEW p \in Proc, Request(p)
    PROVE  ResumeInv'
<1> USE ConstAssumption DEF ConstAssumption, TypeOK, LockInv, ResumeInv, Unanswered, InstallOnly,
        Proc, Goto, Drop, SignOutPhases, RotatePhases, RequestPhases, HoldsGate, GatedPhases,
        UiAfter, panel, core, locks, local, hist
<1>1. CASE Send(p)
  BY <1>1 DEF Send, Finish
<1>2. CASE Respond(p)
  BY <1>2 DEF Respond, Finish
<1>3. CASE TakeGate(p)
  BY <1>3 DEF TakeGate, GateFree
<1>4. CASE CheckRefreshed(p)
  BY <1>4 DEF CheckRefreshed, ReleaseGate, Finish
<1>5. CASE PickRefresh(p)
  BY <1>5 DEF PickRefresh, ReleaseGate, Finish
<1>6. QED BY <1>1, <1>2, <1>3, <1>4, <1>5 DEF Request

\* Leaving rotate() ends the resume with an answer, or with the vault as it was.
LEMMA ResumeLeave ==
    ASSUME OneResume, TypeOK, LockInv, ResumeInv, NEW p \in Proc,
           NEW r \in {"ok", "expired", "empty", "network", "other", "denied"}, Leave(p, r),
           pc[p] \in {"load"} \cup RotatePhases,
           r = "ok" \/ tokens' = tokens,
           r \in {"network", "other"} => vault' = vault /\ (pc[p] = "load" => "load" \in Env),
           pc[p] \in {"load", "asked", "answered", "denied"} \/ r \notin {"network", "other"},
           r = "denied" => "clear" \in Env
    PROVE  ResumeInv'
<1> USE ConstAssumption DEF ConstAssumption, TypeOK, LockInv, ResumeInv, Unanswered, InstallOnly,
        Proc, Goto, Drop, SignOutPhases, RotatePhases, RequestPhases, HoldsGate, GatedPhases,
        UiAfter, OneResume
<1>1. CASE gate = p
  <2>1. slot # "unknown" /\ slot' = slot /\ slotLock' = slotLock
    BY <1>1 DEF Leave
  <2>2. CASE Resume(p, "resend") /\ ReleaseGate
    BY <1>1, <2>1, <2>2 DEF Resume, ReleaseGate
  <2>3. CASE Finish(p, r) /\ ReleaseGate
    BY <1>1, <2>1, <2>3 DEF Finish, ReleaseGate
  <2>4. QED BY <1>1, <2>2, <2>3 DEF Leave
<1>2. CASE gate # p /\ slotLock = p
  BY <1>2 DEF Leave, Resume
<1>3. CASE gate # p /\ slotLock # p
  BY <1>3 DEF Leave, Resume
<1>4. QED BY <1>1, <1>2, <1>3

\* The steps of a rotation and of install().
LEMMA ResumeRotate ==
    ASSUME OneResume, TypeOK, LockInv, ResumeInv, NEW p \in Proc, Rotate(p)
    PROVE  ResumeInv'
<1> USE DEF panel, core, locks, local, hist, RotatePhases
<1>a. ASSUME NEW f \in RotatePhases, pc[p] \in RotatePhases, Goto(p, f),
             pc[p] # "adopt", pc[p] = "store" => f = "adopt",
             UNCHANGED <<locks, ui, tokens>>, held' = held,
             \/ f \notin {"asked", "answered", "denied"}
             \/ pc[p] \in {"asked", "answered", "denied"} /\ vault' = vault
      PROVE  ResumeInv'
  BY <1>a, ConstAssumption
  DEF ConstAssumption, TypeOK, LockInv, ResumeInv, Unanswered, InstallOnly, Proc, Goto,
      SignOutPhases, RequestPhases, HoldsGate, GatedPhases, OneResume
<1>1. CASE ServeRefresh(p)
  BY <1>1, <1>a DEF ServeRefresh
<1>2. CASE LoseOnce(p)
  BY <1>2, <1>a DEF LoseOnce
<1>3. CASE GiveUp(p)
  BY <1>3, ResumeLeave DEF GiveUp
<1>4. CASE Accept(p)
  BY <1>4, <1>a DEF Accept
<1>5. CASE Store(p)
  BY <1>5, <1>a DEF Store
<1>6. CASE Adopt(p)
  BY <1>6, ResumeLeave DEF Adopt
<1>7. CASE Denied(p)
  <2>1. tokens = None \/ slot # "unknown"
    BY DEF ResumeInv, Unanswered
  <2>2. QED BY <1>7, <2>1, ConstAssumption
    DEF Denied, ConstAssumption, TypeOK, LockInv, ResumeInv, Unanswered, InstallOnly, Proc, Goto,
      SignOutPhases, RequestPhases, HoldsGate, GatedPhases
<1>8. CASE Wipe(p)
  <2>1. CASE Leave(p, "expired") \/ ("clear" \in Env /\ Leave(p, "denied"))
    BY <1>8, <2>1, ResumeLeave DEF Wipe
  <2>2. CASE Goto(p, "rewipe") /\ UNCHANGED <<locks, ui, local>>
    BY <1>8, <2>2, <1>a DEF Wipe
  <2>3. QED BY <1>8, <2>1, <2>2 DEF Wipe
<1>9. CASE Rewipe(p)
  BY <1>9, ResumeLeave DEF Rewipe
<1>10. QED
  BY <1>1, <1>2, <1>3, <1>4, <1>5, <1>6, <1>7, <1>8, <1>9 DEF Rotate

\* auth_status takes the slot lock as long as there is no answer.
LEMMA ResumeResumeSession ==
    ASSUME OneResume, TypeOK, LockInv, ResumeInv, NEW p \in Proc, ResumeSession(p)
    PROVE  ResumeInv'
<1> USE ConstAssumption DEF ConstAssumption, TypeOK, LockInv, ResumeInv, Unanswered, InstallOnly,
        Proc, Goto, Drop, SignOutPhases, RotatePhases, RequestPhases, HoldsGate, GatedPhases,
        UiAfter, panel, core, locks, local, hist, OneResume
<1>1. CASE TakeSlot(p)
  BY <1>1 DEF TakeSlot
<1>2. CASE LoadVault(p)
  <2>1. CASE Leave(p, "empty") \/ ("load" \in Env /\ Leave(p, "other"))
    BY <1>2, <2>1, ResumeLeave DEF LoadVault
  <2>2. CASE vault # None /\ Goto(p, "asked") /\ UNCHANGED <<locks, ui>>
             /\ held' = [held EXCEPT ![p] = vault]
    BY <1>2, <2>2 DEF LoadVault
  <2>3. QED BY <1>2, <2>1, <2>2 DEF LoadVault
<1>3. CASE WhoAmI(p)
  BY <1>3 DEF WhoAmI, Finish
<1>4. QED BY <1>1, <1>2, <1>3 DEF ResumeSession

\* Everything else happens outside the resume.
LEMMA ResumeOther ==
    ASSUME OneResume, TypeOK, LockInv, ResumeInv,
           LogIn \/ LogOut \/ User \/ Environment \/ Crash \/ UNCHANGED vars
    PROVE  ResumeInv'
<1> USE ConstAssumption DEF ConstAssumption, TypeOK, LockInv, ResumeInv, Unanswered, InstallOnly,
        Proc, Goto, Drop, SignOutPhases, RotatePhases, RequestPhases, HoldsGate, GatedPhases,
        UiAfter, panel, core, locks, local, hist, OneResume
<1>1. CASE LogIn
  <2>1. CASE LoginAnswer
    BY <1>1, <2>1 DEF LoginAnswer, Resume
  <2>2. CASE MfaAnswer
    BY <1>1, <2>2 DEF MfaAnswer
  <2>3. QED BY <1>1, <2>1, <2>2 DEF LogIn
<1>2. CASE LogoutTakeGate
  BY <1>2 DEF LogoutTakeGate, GateFree
<1>3. CASE LogoutPost
  BY <1>3 DEF LogoutPost
<1>4. CASE LogoutForget
  BY <1>4 DEF LogoutForget
<1>5. CASE LogoutWipe
  BY <1>5 DEF LogoutWipe
<1>6. CASE User
  BY <1>6 DEF User, StartStatus, StartLogin, SubmitMfa, StartLogout, StartRequest
<1>7. CASE Environment
  BY <1>7 DEF Environment, GraceExpire, ExpireAccess, RemoteRevoke
<1>8. CASE Crash
  BY <1>8 DEF Crash
<1>9. CASE UNCHANGED vars
  BY <1>9 DEF vars
<1>10. QED BY <1>1, <1>2, <1>3, <1>4, <1>5, <1>6, <1>7, <1>8, <1>9 DEF LogOut

LEMMA ResumeStep == OneResume /\ TypeOK /\ LockInv /\ ResumeInv /\ [Next]_vars => ResumeInv'
BY ResumeRequest, ResumeRotate, ResumeResumeSession, ResumeOther DEF Next

LEMMA ResumeAlone == ASSUME OneResume PROVE Spec => [](TypeOK /\ LockInv /\ ResumeInv)
<1>1. Init => ResumeInv
  BY ResumeInit
<1>2. TypeOK /\ LockInv /\ ResumeInv /\ [Next]_vars => ResumeInv'
  BY ResumeStep
<1>3. QED BY <1>1, <1>2, LocksTyped, PTL DEF Spec

\* Refreshes are single-flight (auth.rs:7-8), those of the resume included,
\* however requests, sign-outs and crashes interleave, as long as no sign-in can
\* come before the resume has an answer.
THEOREM RefreshesAreSingleFlight == ASSUME OneResume PROVE Spec => []SingleFlight
<1>1. TypeOK /\ LockInv /\ ResumeInv => SingleFlight
  <2> SUFFICES ASSUME TypeOK, LockInv, ResumeInv, NEW p \in Proc, NEW q \in Proc,
                      Rotating(p), Rotating(q)
               PROVE  p = q
    BY DEF SingleFlight
  <2>1. (gate = p \/ slotLock = p) /\ (gate = q \/ slotLock = q)
    BY DEF ResumeInv, InstallOnly, Rotating
  <2>2. p # SignOut /\ q # SignOut /\ p # Free /\ q # Free
    BY ConstAssumption DEF ConstAssumption, Proc, LockInv, Rotating, RotatePhases, SignOutPhases
  <2>3. QED BY <2>1, <2>2 DEF ResumeInv, Unanswered
<1>2. QED BY <1>1, ResumeAlone, PTL

-----------------------------------------------------------------------------
(* The tokens that will be presented *)

\* A rotation whose successor was issued and will be adopted, or asked for again.
Covering(p) == pc[p] \in {"answered", "store", "adopt"} \/ (pc[p] = "asked" /\ retried[p])

\* A rotated-away token stays within its grace window as long as it can still
\* be presented: a rotation holds it, or the panel has nothing more to issue.
\* A retry that is lost too leaves a token behind that may only have been issued.
Covered(t) == status[t] = "grace" => Unissued = {} \/ \E p \in Proc : held[p] = t /\ Covering(p)
Sound(t) ==
    t # None =>
        /\ status[t] # "unissued"
        /\ "lose_twice" \notin Env => status[t] \in {"live", "grace", "revoked"} /\ Covered(t)

\* The inductive invariant: a pair on its way to install() is fresh, nobody else
\* has it, and the pair in memory can be presented.
MemInv ==
    /\ \A p \in Proc : held[p] # None => status[held[p]] # "unissued"
    /\ \A p \in Proc : got[p] # None <=> pc[p] \in {"answered", "store", "adopt"}
    /\ \A p \in Proc : got[p] # None => status[got[p]] \in {"live", "revoked"} /\ got[p] # tokens
    /\ \A p, q \in Proc : got[p] # None => held[q] # got[p]
    /\ \A p, q \in Proc : got[p] # None /\ got[p] = got[q] => p = q
    /\ \A p \in Proc : pc[p] \in {"asked", "answered", "denied"} => held[p] # None
    /\ vault # None => status[vault] # "unissued"
    /\ Sound(tokens)

LEMMA MemInit == Init => MemInv
<1> SUFFICES ASSUME Init PROVE MemInv
  OBVIOUS
<1>1. PICK t \in TokenOrNone :
        /\ vault = t
        /\ status = [x \in Token |-> IF x = t THEN "live" ELSE "unissued"]
  BY DEF Init
<1>2. vault # None => status[vault] # "unissued"
  BY <1>1 DEF TokenOrNone
<1>3. QED BY <1>2 DEF Init, MemInv, Sound

\* Whatever ends a rotation or a request drops what it held.
LEMMA LeaveDrops ==
    ASSUME NEW p, NEW r, Leave(p, r)
    PROVE  Drop(p) /\ \E f \in {"idle", "resend", "whoami", "slot"} : Goto(p, f)
BY DEF Leave, Finish, Resume

LEMMA MemDrop ==
    ASSUME TypeOK, MemInv, NEW p \in Proc, Drop(p), status' = status,
           NEW f \in Phases \ {"asked", "answered", "denied", "store", "adopt"}, Goto(p, f),
           vault' \in {vault, None},
           \/ tokens' = None
           \/ tokens' = got[p]
           \/ /\ tokens' = tokens
              /\ \/ "lose_twice" \in Env
                 \/ Covering(p) /\ held[p] = tokens /\ status[tokens] = "grace" => Unissued = {}
    PROVE  MemInv'
<1> USE ConstAssumption DEF ConstAssumption, TypeOK, MemInv, TokenOrNone, Goto, Drop
<1>1. Unissued' = Unissued
  BY DEF Unissued
<1>2. Sound(tokens)'
  <2>1. CASE tokens' = None
    BY <2>1 DEF Sound
  <2>2. CASE tokens' = got[p] /\ tokens' # None
    BY <2>2 DEF Sound, Covered
  <2>3. CASE tokens' = tokens /\ tokens # None
             /\ \/ "lose_twice" \in Env
                \/ Covering(p) /\ held[p] = tokens /\ status[tokens] = "grace" => Unissued = {}
    BY <1>1, <2>3 DEF Sound, Covered, Covering
  <2>4. QED BY <2>1, <2>2, <2>3
<1>3. QED BY <1>2

\* The steps of an authenticated request.
LEMMA MemRequest ==
    ASSUME TypeOK, LockInv, MemInv, NEW p \in Proc, Request(p)
    PROVE  MemInv'
<1> USE DEF panel, core, locks, local, hist
<1>1. ASSUME NEW r, Finish(p, r), pc[p] \in RequestPhases, UNCHANGED <<panel, core>>
      PROVE  MemInv'
  BY <1>1, MemDrop DEF Finish, Phases, RequestPhases, Covering
<1>2. ASSUME NEW f \in RequestPhases, Goto(p, f), pc[p] \in RequestPhases,
             UNCHANGED <<panel, core, held, got, retried>>
      PROVE  MemInv'
  <2>1. Unissued' = Unissued
    BY <1>2 DEF Unissued
  <2>2. \A q \in Proc : Covering(q)' <=> Covering(q)
    BY <1>2 DEF Covering, RequestPhases, Goto, TypeOK
  <2>3. Sound(tokens)'
    BY <1>2, <2>1, <2>2 DEF Sound, Covered, MemInv
  <2>4. QED BY <1>2, <2>3 DEF MemInv, RequestPhases, Goto, TypeOK
<1>3. CASE Send(p)
  BY <1>1, <1>2, <1>3 DEF Send, RequestPhases
<1>4. CASE Respond(p)
  BY <1>1, <1>2, <1>4 DEF Respond, RequestPhases
<1>5. CASE TakeGate(p)
  BY <1>2, <1>5 DEF TakeGate, RequestPhases
<1>6. CASE CheckRefreshed(p)
  BY <1>1, <1>2, <1>6 DEF CheckRefreshed, RequestPhases
<1>7. CASE PickRefresh(p)
  <2>1. CASE tokens = None
    BY <1>1, <1>7, <2>1 DEF PickRefresh, RequestPhases
  <2>2. CASE tokens # None
    <3> USE ConstAssumption DEF ConstAssumption, TypeOK, MemInv, TokenOrNone, Goto
    <3>1. held' = [held EXCEPT ![p] = tokens] /\ Goto(p, "asked") /\ pc[p] = "pick"
          /\ UNCHANGED <<panel, core, got, retried>>
      BY <1>7, <2>2 DEF PickRefresh
    <3>2. Unissued' = Unissued
      BY <3>1 DEF Unissued
    <3>3. Sound(tokens)'
      BY <3>1, <3>2 DEF Sound, Covered, Covering
    <3>4. QED BY <2>2, <3>1, <3>3 DEF Sound
  <2>3. QED BY <2>1, <2>2
<1>8. QED BY <1>3, <1>4, <1>5, <1>6, <1>7 DEF Request

\* The steps of a rotation and of install().  That the retry of a rotation whose
\* answer was lost gets through is what keeps the old pair from being left behind.
LEMMA MemRotate ==
    ASSUME TypeOK, LockInv, ResumeInv, MemInv, NEW p \in Proc, Rotate(p)
    PROVE  MemInv'
<1> USE DEF panel, core, locks, local, hist
<1>1. ASSUME NEW r, Leave(p, r), status' = status, vault' \in {vault, None},
             \/ tokens' \in {got[p], None}
             \/ /\ tokens' = tokens
                /\ \/ "lose_twice" \in Env
                   \/ Covering(p) /\ held[p] = tokens /\ status[tokens] = "grace" => Unissued = {}
      PROVE  MemInv'
  <2>1. PICK f \in {"idle", "resend", "whoami", "slot"} : Drop(p) /\ Goto(p, f)
    BY <1>1, LeaveDrops
  <2>2. f \in Phases \ {"asked", "answered", "denied", "store", "adopt"}
    BY DEF Phases, RequestPhases, ResumePhases
  <2>3. QED BY <1>1, <2>1, <2>2, MemDrop
<1>2. CASE ServeRefresh(p)
  <2> USE <1>2, ConstAssumption DEF ConstAssumption, TypeOK, MemInv, TokenOrNone, Goto
  <2>0. held[p] # None /\ pc[p] = "asked" /\ got[p] = None
    BY DEF ServeRefresh
  <2>1. CASE status[held[p]] \in {"live", "grace"}
    <3>1. PICK n \in Unissued : /\ status' = [status EXCEPT ![held[p]] = "grace", ![n] = "live"]
                                /\ got' = [got EXCEPT ![p] = n]
      BY <2>1 DEF ServeRefresh
    <3>2. n \in Token /\ status[n] = "unissued" /\ n # held[p] /\ n # None
      BY <2>1, <3>1 DEF Unissued
    <3>3. Goto(p, "answered") /\ UNCHANGED <<tokens, vault, held, retried>>
      BY <2>1 DEF ServeRefresh
    <3>4. n # tokens /\ \A q \in Proc : n # got[q] /\ n # held[q]
      BY <3>2 DEF Sound
    <3>5. Unissued' \subseteq Unissued
      BY <3>1, <3>2 DEF Unissued
    <3>6. \A q \in Proc : Covering(q) => Covering(q)'
      BY <3>3 DEF Covering
    <3>7. Sound(tokens)'
      <4>1. CASE tokens = held[p]
        BY <2>0, <3>1, <3>2, <3>3, <4>1 DEF Sound, Covered, Covering
      <4>2. CASE tokens # held[p] /\ tokens # None
        <5>1. status'[tokens] = status[tokens]
          BY <3>1, <3>2, <3>4, <4>2
        <5>2. QED BY <3>3, <3>5, <3>6, <4>2, <5>1 DEF Sound, Covered
      <4>3. CASE tokens = None
        BY <3>3, <4>3 DEF Sound
      <4>4. QED BY <4>1, <4>2, <4>3
    <3>8. QED BY <2>0, <3>1, <3>2, <3>3, <3>4, <3>7
  <2>2. CASE status[held[p]] \in {"spent", "revoked"}
    <3>1. Goto(p, "denied") /\ UNCHANGED <<tokens, vault, held, retried, got>>
      BY <2>2 DEF ServeRefresh
    <3>2. \A t \in Token : \/ status'[t] = status[t]
                           \/ status'[t] = "revoked" /\ status[t] \in {"live", "grace"}
      BY <2>2 DEF ServeRefresh
    <3>3. Unissued' \subseteq Unissued
      BY <3>2 DEF Unissued
    <3>4. \A q \in Proc \ {p} : Covering(q) => Covering(q)'
      BY <3>1 DEF Covering
    <3>5. Sound(tokens)'
      BY <2>2, <3>1, <3>2, <3>3, <3>4 DEF Sound, Covered
    <3>6. status' \in [Token -> {"unissued", "live", "grace", "spent", "revoked"}]
      BY <2>2 DEF ServeRefresh
    <3>7. QED BY <2>0, <3>1, <3>2, <3>5, <3>6
  <2>3. QED BY <2>1, <2>2 DEF ServeRefresh
<1>3. CASE LoseOnce(p)
  <2> USE <1>3, ConstAssumption DEF ConstAssumption, TypeOK, MemInv, TokenOrNone, Goto, LoseOnce
  <2>1. Unissued' = Unissued
    BY DEF Unissued
  <2>2. \A q \in Proc : Covering(q) => Covering(q)'
    BY DEF Covering
  <2>3. Sound(tokens)'
    BY <2>1, <2>2 DEF Sound, Covered
  <2>4. QED BY <2>3
<1>4. CASE GiveUp(p)
  <2>1. PICK r \in {"network", "other"} : Leave(p, r)
    BY <1>4 DEF GiveUp
  <2>2. \/ "lose_twice" \in Env
        \/ Covering(p) /\ held[p] = tokens /\ status[tokens] = "grace" => Unissued = {}
    BY <1>4 DEF GiveUp, Covering
  <2>3. QED BY <1>1, <1>4, <2>1, <2>2 DEF GiveUp
<1>5. ASSUME NEW f \in RotatePhases, Goto(p, f), UNCHANGED <<status, got, held, retried>>,
             tokens' \in {tokens, None}, vault' \in {vault, got[p], None},
             \/ pc[p] \in {"answered", "store"} /\ f \in {"store", "adopt"}
             \/ pc[p] \in {"denied", "wipe"} /\ f \in {"wipe", "rewipe"}
      PROVE  MemInv'
  <2> USE <1>5, ConstAssumption DEF ConstAssumption, TypeOK, MemInv, TokenOrNone, Goto, RotatePhases
  <2>1. Unissued' = Unissued
    BY DEF Unissued
  <2>2. \A q \in Proc : Covering(q) => Covering(q)'
    BY DEF Covering
  <2>3. Sound(tokens)'
    BY <2>1, <2>2 DEF Sound, Covered
  <2>4. QED BY <2>3
<1>6. CASE Accept(p)
  BY <1>5, <1>6 DEF Accept, RotatePhases
<1>7. CASE Store(p)
  BY <1>5, <1>7 DEF Store, RotatePhases
<1>8. CASE Adopt(p)
  BY <1>1, <1>8 DEF Adopt
<1>9. CASE Denied(p)
  BY <1>5, <1>9 DEF Denied, RotatePhases
<1>10. CASE Wipe(p)
  <2>1. CASE \E r : Leave(p, r)
    BY <1>1, <1>10, <2>1 DEF Wipe, Covering
  <2>2. CASE Goto(p, "rewipe") /\ UNCHANGED <<locks, ui, local, stale, answer>>
    BY <1>5, <1>10, <2>2 DEF Wipe, RotatePhases
  <2>3. QED BY <1>10, <2>1, <2>2 DEF Wipe
<1>11. CASE Rewipe(p)
  BY <1>1, <1>11 DEF Rewipe, Covering
<1>12. QED
  BY <1>2, <1>3, <1>4, <1>6, <1>7, <1>8, <1>9, <1>10, <1>11 DEF Rotate

\* Whoever reads the vault holds the slot lock, and there is no answer yet.
LEMMA LoadIsUnanswered ==
    ASSUME TypeOK, LockInv, ResumeInv, NEW p \in Proc, pc[p] = "load"
    PROVE  slotLock = p /\ slot = "unknown"
BY ConstAssumption
DEF ConstAssumption, TypeOK, LockInv, ResumeInv, InstallOnly, GatedPhases, RotatePhases, HoldsGate

\* The resume presents what is on disk; nobody is installing anything then.
LEMMA MemResumeSession ==
    ASSUME OneResume, TypeOK, LockInv, ResumeInv, MemInv, NEW p \in Proc, ResumeSession(p)
    PROVE  MemInv'
<1> USE DEF panel, core, locks, local, hist
<1>1. ASSUME NEW f \in Phases \ {"asked", "answered", "denied", "store", "adopt"}, Goto(p, f),
             pc[p] \notin {"asked", "answered", "denied", "store", "adopt"},
             UNCHANGED <<panel, core, held, got, retried>>
      PROVE  MemInv'
  <2> USE <1>1, ConstAssumption DEF ConstAssumption, TypeOK, MemInv, TokenOrNone, Goto
  <2>1. Unissued' = Unissued
    BY DEF Unissued
  <2>2. \A q \in Proc : Covering(q) => Covering(q)'
    BY DEF Covering
  <2>3. Sound(tokens)'
    BY <2>1, <2>2 DEF Sound, Covered
  <2>4. QED BY <2>3
<1>2. CASE TakeSlot(p)
  BY <1>1, <1>2 DEF TakeSlot, Phases, ResumePhases
<1>3. CASE LoadVault(p)
  <2>1. CASE \E r : Leave(p, r)
    <3>1. PICK f \in {"idle", "resend", "whoami", "slot"} : Drop(p) /\ Goto(p, f)
      BY <2>1, LeaveDrops
    <3>2. f \in Phases \ {"asked", "answered", "denied", "store", "adopt"}
      BY DEF Phases, RequestPhases, ResumePhases
    <3>3. ~Covering(p)
      BY <1>3 DEF LoadVault, Covering
    <3>4. QED BY <1>3, <3>1, <3>2, <3>3, MemDrop DEF LoadVault
  <2>2. CASE /\ vault # None
             /\ held' = [held EXCEPT ![p] = vault]
             /\ Goto(p, "asked")
             /\ UNCHANGED <<got, retried>>
    <3> USE <1>3, <2>2, ConstAssumption
        DEF ConstAssumption, TypeOK, MemInv, TokenOrNone, Goto, LoadVault
    <3>1. slotLock = p /\ slot = "unknown"
      BY LoadIsUnanswered
    <3>2. \A q \in Proc : q # p => pc[q] \notin RotatePhases
      BY <3>1 DEF ResumeInv, Unanswered, InstallOnly, LockInv, SignOutPhases, OneResume, Proc,
                  RotatePhases
    <3>3. \A q \in Proc : got[q] = None
      BY <3>2 DEF RotatePhases
    <3>4. Sound(tokens)'
      BY <3>1 DEF ResumeInv, Unanswered, Sound
    <3>5. QED BY <3>3, <3>4
  <2>3. QED BY <1>3, <2>1, <2>2 DEF LoadVault
<1>4. CASE WhoAmI(p)
  <2>1. CASE \E r : Finish(p, r)
    BY <1>4, <2>1, MemDrop DEF WhoAmI, Finish, Phases, Covering
  <2>2. CASE Goto(p, "send") /\ UNCHANGED <<local>>
    BY <1>1, <1>4, <2>2 DEF WhoAmI, Phases, RequestPhases
  <2>3. QED BY <1>4, <2>1, <2>2 DEF WhoAmI
<1>5. QED BY <1>2, <1>3, <1>4 DEF ResumeSession

\* A sign-in is given a fresh pair.
LEMMA MemLogIn == ASSUME TypeOK, ResumeInv, MemInv, LogIn PROVE MemInv'
<1> USE ConstAssumption DEF ConstAssumption, TypeOK, MemInv, TokenOrNone, Goto, Proc,
        panel, core, locks, local, hist
<1>1. ASSUME NEW n \in Unissued, pc[SignIn] \in SignInPhases,
             status' = [status EXCEPT ![n] = "live"],
             got' = [got EXCEPT ![SignIn] = n],
             Goto(SignIn, "store"), UNCHANGED <<tokens, vault, held, retried>>
      PROVE  MemInv'
  <2> USE <1>1
  <2>1. n \in Token /\ status[n] = "unissued" /\ n # None
    BY DEF Unissued
  <2>2. n # tokens /\ \A q \in Proc : n # got[q] /\ n # held[q]
    BY <2>1 DEF Sound
  <2>3. Unissued' \subseteq Unissued
    BY <2>1 DEF Unissued
  <2>4. \A q \in Proc : Covering(q) => Covering(q)'
    BY DEF Covering, SignInPhases
  <2>5. Sound(tokens)'
    BY <2>1, <2>2, <2>3, <2>4 DEF Sound, Covered
  <2>6. QED BY <2>1, <2>2, <2>5 DEF SignInPhases
<1>2. ASSUME NEW f \in {"mfaScreen"}, pc[SignIn] \in SignInPhases, Goto(SignIn, f),
             UNCHANGED <<status, tokens, vault, held, got, retried>>
      PROVE  MemInv'
  <2> USE <1>2 DEF SignInPhases
  <2>1. Unissued' = Unissued
    BY DEF Unissued
  <2>2. \A q \in Proc : Covering(q) => Covering(q)'
    BY DEF Covering
  <2>3. Sound(tokens)'
    BY <2>1, <2>2 DEF Sound, Covered
  <2>4. QED BY <2>3
<1>3. CASE LoginAnswer
  <2>1. CASE Resume(SignIn, "idle") /\ UNCHANGED status
    BY <1>3, <2>1, MemDrop DEF LoginAnswer, Resume, Phases, Covering
  <2>2. CASE ~(Resume(SignIn, "idle") /\ UNCHANGED <<status, pending>>)
    BY <1>1, <1>2, <1>3, <2>2 DEF LoginAnswer, SignInPhases
  <2>3. QED BY <1>3, <2>1, <2>2
<1>4. CASE MfaAnswer
  BY <1>1, <1>2, <1>4 DEF MfaAnswer, SignInPhases
<1>5. QED BY <1>3, <1>4 DEF LogIn

\* Signing out revokes and forgets.
LEMMA MemLogOut == ASSUME TypeOK, LockInv, MemInv, LogOut PROVE MemInv'
<1> USE ConstAssumption DEF ConstAssumption, TypeOK, LockInv, MemInv, TokenOrNone, Goto, Proc,
        SignOutPhases, panel, core, locks, local, hist
<1>1. CASE LogoutTakeGate
  <2> USE <1>1 DEF LogoutTakeGate
  <2>1. Unissued' = Unissued
    BY DEF Unissued
  <2>2. \A q \in Proc : Covering(q) => q # SignOut /\ Covering(q)'
    BY DEF Covering
  <2>3. Sound(tokens)'
    BY <2>1, <2>2 DEF Sound, Covered
  <2>4. QED BY <2>3 DEF Sound
<1>2. CASE LogoutPost
  <2> USE <1>2 DEF LogoutPost
  <2>1. \A t \in Token : status'[t] = status[t] \/ (status'[t] = "revoked" /\ status[t] \in {"live", "grace"})
    OBVIOUS
  <2>2. Unissued' \subseteq Unissued
    BY <2>1 DEF Unissued
  <2>3. \A q \in Proc : Covering(q) => Covering(q)'
    BY DEF Covering
  <2>4. Sound(tokens)'
    BY <2>1, <2>2, <2>3 DEF Sound, Covered
  <2>5. status' \in [Token -> {"unissued", "live", "grace", "spent", "revoked"}]
    OBVIOUS
  <2>6. pc' = [pc EXCEPT ![SignOut] = "outForget"] /\ UNCHANGED <<tokens, vault, held, got, retried>>
    OBVIOUS
  <2> HIDE <1>2 DEF LogoutPost
  <2>7. pc[SignOut] = "outPost"
    BY <1>2 DEF LogoutPost
  <2>8. QED BY <2>1, <2>4, <2>5, <2>6, <2>7
<1>3. CASE LogoutForget
  BY <1>3 DEF LogoutForget, Sound
<1>4. CASE LogoutWipe
  BY <1>4, MemDrop DEF LogoutWipe, Phases, Covering
<1>5. QED BY <1>1, <1>2, <1>3, <1>4 DEF LogOut

\* The environment never lets the window of a presented token close.
LEMMA MemOther ==
    ASSUME TypeOK, LockInv, MemInv, User \/ Environment \/ Crash \/ UNCHANGED vars
    PROVE  MemInv'
<1> USE ConstAssumption DEF ConstAssumption, TypeOK, MemInv, TokenOrNone, Proc,
        panel, core, locks, local, hist
<1>1. CASE User
  <2> USE <1>1 DEF User, StartStatus, StartLogin, SubmitMfa, StartLogout, StartRequest
  <2>1. PICK p \in Proc, f \in Phases \ {"asked", "answered", "denied", "store", "adopt"} :
          /\ Goto(p, f) /\ UNCHANGED <<panel, core, local>>
          /\ pc[p] \notin {"asked", "answered", "denied", "store", "adopt"}
    BY DEF Phases, RequestPhases, ResumePhases, SignInPhases, SignOutPhases
  <2> HIDE <1>1
  <2>2. Unissued' = Unissued
    BY <2>1 DEF Unissued
  <2>3. \A q \in Proc : Covering(q) => Covering(q)'
    BY <2>1 DEF Covering, Goto
  <2>4. Sound(tokens)'
    BY <2>1, <2>2, <2>3 DEF Sound, Covered
  <2>5. QED BY <2>1, <2>4 DEF Goto
<1>2. CASE Environment
  <2>1. PICK t \in Token : GraceExpire(t) \/ ExpireAccess(t) \/ RemoteRevoke(t)
    BY <1>2 DEF Environment
  <2>2. UNCHANGED <<core, pc, local>>
    BY <2>1 DEF GraceExpire, ExpireAccess, RemoteRevoke
  <2>3. status' \in [Token -> {"unissued", "live", "grace", "spent", "revoked"}]
        /\ Unissued' = Unissued
        /\ \A x \in Token : \/ status'[x] = status[x]
                            \/ status[x] \in {"live", "grace"} /\ status'[x] = "revoked"
                            \/ /\ status[x] = "grace" /\ status'[x] = "spent" /\ Unissued # {}
                               /\ \A p \in Proc : held[p] # x
    BY <2>1 DEF GraceExpire, ExpireAccess, RemoteRevoke, Unissued
  <2>4. \A q \in Proc : Covering(q)' <=> Covering(q)
    BY <2>2 DEF Covering
  <2>5. Sound(tokens)'
    BY <2>2, <2>3, <2>4 DEF Sound, Covered
  <2>6. QED BY <2>2, <2>3, <2>5
<1>3. CASE Crash
  BY <1>3 DEF Crash, Sound
<1>4. CASE UNCHANGED vars
  <2>1. Unissued' = Unissued /\ \A q \in Proc : Covering(q)' <=> Covering(q)
    BY <1>4 DEF vars, Unissued, Covering
  <2>2. Sound(tokens)'
    BY <1>4, <2>1 DEF vars, Sound, Covered
  <2>3. QED BY <1>4, <2>2 DEF vars
<1>5. QED BY <1>1, <1>2, <1>3, <1>4

LEMMA MemStep ==
    ASSUME OneResume
    PROVE  TypeOK /\ LockInv /\ ResumeInv /\ MemInv /\ [Next]_vars => MemInv'
BY MemRequest, MemRotate, MemResumeSession, MemLogIn, MemLogOut, MemOther DEF Next

LEMMA MemAlways ==
    ASSUME OneResume
    PROVE  Spec => [](TypeOK /\ LockInv /\ ResumeInv /\ MemInv)
<1>1. Init => MemInv
  BY MemInit
<1>2. TypeOK /\ LockInv /\ ResumeInv /\ MemInv /\ [Next]_vars => MemInv'
  BY MemStep
<1>3. QED BY <1>1, <1>2, ResumeAlone, PTL DEF Spec

\* What the next 401 would present is never a token whose replay the panel takes
\* for theft (auth.rs:5-9), whatever crashes and however often the credential
\* store fails: it takes a rotation whose retry is lost as well.
THEOREM MemoryIsNeverSpent ==
    ASSUME OneResume, "lose_twice" \notin Env
    PROVE  Spec => []MemoryNeverSpent
<1>1. MemInv => MemoryNeverSpent
  BY DEF MemInv, Sound, MemoryNeverSpent
<1>2. QED BY <1>1, MemAlways, PTL

-----------------------------------------------------------------------------
(* No replay *)

\* Nobody presents a spent token, and while the resume has no answer the one on
\* disk can be presented.
BurnInv ==
    /\ ~burned
    /\ \A p \in Proc : held[p] # None => status[held[p]] # "spent"
    /\ slot = "unknown" => Sound(vault)

LEMMA BurnInit == Init => BurnInv
<1> SUFFICES ASSUME Init PROVE BurnInv
  OBVIOUS
<1>1. PICK t \in TokenOrNone :
        /\ vault = t
        /\ status = [x \in Token |-> IF x = t THEN "live" ELSE "unissued"]
  BY DEF Init
<1>2. Sound(vault)
  BY <1>1 DEF Sound, Covered, TokenOrNone
<1>3. QED BY <1>2 DEF Init, BurnInv

\* A token that can be presented stays so until a rotation replaces it.
LEMMA SoundStep ==
    ASSUME Env \cap {"lose_twice", "crash"} = {}, TypeOK, LockInv, MemInv,
           NEW t \in Token, Sound(t), [Next]_vars
    PROVE  Sound(t)' \/ \E p \in Proc : Adopt(p) /\ held[p] = t
<1> USE ConstAssumption DEF ConstAssumption, TypeOK, MemInv, TokenOrNone, panel, core, locks, local, hist
<1>0. t # None /\ status[t] \in {"live", "grace", "revoked"} /\ Covered(t)
  BY DEF Sound
<1>1. ASSUME status'[t] = status[t] \/ status'[t] = "revoked", Unissued' \subseteq Unissued,
             \A q \in Proc : held[q] = t /\ Covering(q) => held'[q] = t /\ Covering(q)'
      PROVE  Sound(t)'
  BY <1>0, <1>1 DEF Sound, Covered
<1>2. ASSUME NEW p \in Proc, NEW f, Drop(p), Goto(p, f), status' = status,
             Covering(p) /\ held[p] = t /\ status[t] = "grace" => Unissued = {}
      PROVE  Sound(t)'
  BY <1>0, <1>2 DEF Sound, Covered, Covering, Drop, Goto, Unissued
<1>3. ASSUME NEW p \in Proc, NEW f, Goto(p, f), ~Covering(p), status' = status,
             \A q \in Proc \ {p} : held'[q] = held[q], retried' = retried
      PROVE  Sound(t)'
  BY <1>0, <1>3 DEF Sound, Covered, Covering, Goto, Unissued
<1>4. ASSUME NEW p \in Proc, Request(p) PROVE Sound(t)'
  <2>1. CASE \E r : Finish(p, r)
    BY <1>2, <1>4, <2>1 DEF Request, Send, Respond, TakeGate, CheckRefreshed, PickRefresh, Finish, Covering
  <2>2. CASE \E f : Goto(p, f) /\ retried' = retried /\ \A q \in Proc \ {p} : held'[q] = held[q]
    BY <1>3, <1>4, <2>2 DEF Request, Send, Respond, TakeGate, CheckRefreshed, PickRefresh, Covering
  <2>3. QED BY <1>4, <2>1, <2>2 DEF Request, Send, Respond, TakeGate, CheckRefreshed, PickRefresh
<1>5. ASSUME NEW p \in Proc, Rotate(p) PROVE Sound(t)' \/ (Adopt(p) /\ held[p] = t)
  <2>1. CASE ServeRefresh(p)
    <3> USE <2>1 DEF ServeRefresh, Goto
    <3>1. CASE status[held[p]] \in {"live", "grace"}
      <4>1. PICK n \in Unissued : status' = [status EXCEPT ![held[p]] = "grace", ![n] = "live"]
        BY <3>1
      <4>2. n # t /\ n \in Token /\ Unissued' \subseteq Unissued
        BY <1>0, <4>1 DEF Unissued
      <4>3. \A q \in Proc : Covering(q) => Covering(q)'
        BY <3>1 DEF Covering
      <4>4. CASE held[p] = t
        BY <1>0, <3>1, <4>1, <4>2, <4>4 DEF Sound, Covered, Covering
      <4>5. CASE held[p] # t
        BY <1>1, <3>1, <4>1, <4>2, <4>3, <4>5
      <4>6. QED BY <4>4, <4>5
    <3>2. CASE status[held[p]] \in {"spent", "revoked"}
      <4>1. \A x \in Token : \/ status'[x] = status[x]
                             \/ status'[x] = "revoked" /\ status[x] \in {"live", "grace"}
        BY <3>2
      <4>2. Unissued' \subseteq Unissued
        BY <4>1 DEF Unissued
      <4>3. \A q \in Proc \ {p} : Covering(q) => Covering(q)'
        BY <3>2 DEF Covering
      <4>4. Sound(t)'
        BY <1>0, <3>2, <4>1, <4>2, <4>3 DEF Sound, Covered
      <4>5. QED BY <4>4
    <3>3. QED BY <3>1, <3>2
  <2>2. CASE LoseOnce(p)
    BY <1>1, <2>2 DEF LoseOnce, Goto, Covering, Unissued
  <2>3. CASE GiveUp(p)
    <3>1. PICK r \in {"network", "other"} : Leave(p, r)
      BY <2>3 DEF GiveUp
    <3>2. Covering(p) /\ held[p] = t /\ status[t] = "grace" => Unissued = {}
      BY <2>3 DEF GiveUp, Covering
    <3>3. QED BY <1>2, <2>3, <3>1, <3>2, LeaveDrops DEF GiveUp
  <2>4. CASE Accept(p) \/ Store(p)
    BY <1>1, <2>4 DEF Accept, Store, Goto, Covering, Unissued
  <2>5. CASE Adopt(p)
    <3>1. CASE held[p] # t
      BY <1>2, <2>5, <3>1, LeaveDrops DEF Adopt
    <3>2. QED BY <2>5, <3>1
  <2>6. CASE Denied(p)
    BY <1>3, <2>6 DEF Denied, Covering
  <2>7. CASE Wipe(p) \/ Rewipe(p)
    <3>1. CASE \E r : Leave(p, r)
      BY <1>2, <2>7, <3>1, LeaveDrops DEF Wipe, Rewipe, Covering
    <3>2. CASE Goto(p, "rewipe") /\ UNCHANGED local /\ pc[p] = "wipe"
      BY <1>3, <2>7, <3>2 DEF Wipe, Rewipe, Covering
    <3>3. QED BY <2>7, <3>1, <3>2 DEF Wipe, Rewipe
  <2>8. QED BY <1>5, <2>1, <2>2, <2>3, <2>4, <2>5, <2>6, <2>7 DEF Rotate
<1>6. ASSUME NEW p \in Proc, ResumeSession(p) PROVE Sound(t)'
  <2>1. CASE \E r : Finish(p, r)
    BY <1>2, <1>6, <2>1 DEF ResumeSession, TakeSlot, LoadVault, WhoAmI, Finish, Covering
  <2>2. CASE \E r : Leave(p, r)
    BY <1>2, <1>6, <2>2, LeaveDrops DEF ResumeSession, TakeSlot, LoadVault, WhoAmI, Covering
  <2>3. CASE \E f : Goto(p, f) /\ retried' = retried /\ \A q \in Proc \ {p} : held'[q] = held[q]
    BY <1>3, <1>6, <2>3 DEF ResumeSession, TakeSlot, LoadVault, WhoAmI, Covering
  <2>4. QED BY <1>6, <2>1, <2>2, <2>3 DEF ResumeSession, TakeSlot, LoadVault, WhoAmI
<1>7. CASE LogIn
  <2>1. SignIn \in Proc /\ pc[SignIn] \in SignInPhases
    BY <1>7 DEF LogIn, LoginAnswer, MfaAnswer, SignInPhases, Proc
  <2>2. CASE Resume(SignIn, "idle") /\ status' = status
    BY <1>2, <2>1, <2>2 DEF Resume, Covering, SignInPhases
  <2>3. CASE \E f : Goto(SignIn, f) /\ held' = held /\ retried' = retried
    <3>1. \A q \in Proc : Covering(q) => Covering(q)'
      BY <2>1, <2>3 DEF Covering, Goto, SignInPhases
    <3>2. status'[t] = status[t] /\ Unissued' \subseteq Unissued
      BY <1>0, <1>7 DEF LogIn, LoginAnswer, MfaAnswer, Unissued
    <3>3. QED BY <1>1, <2>3, <3>1, <3>2
  <2>4. QED BY <1>7, <2>2, <2>3 DEF LogIn, LoginAnswer, MfaAnswer
<1>8. CASE LogOut
  <2>0. SignOut \in Proc /\ pc[SignOut] \in SignOutPhases /\ ~Covering(SignOut)
    BY <1>8 DEF LogOut, LogoutTakeGate, LogoutPost, LogoutForget, LogoutWipe, SignOutPhases, Proc, Covering
  <2>1. CASE LogoutTakeGate \/ LogoutForget
    BY <1>3, <2>0, <2>1 DEF LogoutTakeGate, LogoutForget
  <2>2. CASE LogoutPost
    <3>1. \A x \in Token : \/ status'[x] = status[x]
                           \/ status'[x] = "revoked" /\ status[x] \in {"live", "grace"}
      BY <2>2 DEF LogoutPost
    <3>2. Unissued' \subseteq Unissued
      BY <3>1 DEF Unissued
    <3>3. \A q \in Proc : Covering(q) => Covering(q)' /\ held'[q] = held[q]
      BY <2>0, <2>2 DEF LogoutPost, Goto, Covering
    <3>4. QED BY <1>1, <3>1, <3>2, <3>3
  <2>3. CASE LogoutWipe
    BY <1>2, <2>0, <2>3 DEF LogoutWipe
  <2>4. QED BY <1>8, <2>1, <2>2, <2>3 DEF LogOut
<1>9. CASE User
  <2>1. PICK p \in Proc, f \in Phases :
          /\ Goto(p, f) /\ UNCHANGED <<panel, core, local>>
          /\ pc[p] \notin {"asked", "answered", "denied", "store", "adopt"}
    BY <1>9 DEF Phases, RequestPhases, ResumePhases, SignInPhases, SignOutPhases, Proc,
       User, StartStatus, StartLogin, SubmitMfa, StartLogout, StartRequest
  <2>2. QED BY <1>3, <2>1 DEF Covering
<1>10. CASE Environment
  <2>1. PICK x \in Token : GraceExpire(x) \/ ExpireAccess(x) \/ RemoteRevoke(x)
    BY <1>10 DEF Environment
  <2>2. UNCHANGED <<pc, local>> /\ Unissued' = Unissued
    BY <2>1 DEF GraceExpire, ExpireAccess, RemoteRevoke, Unissued
  <2>3. CASE GraceExpire(x) /\ x = t
    BY <1>0, <2>3 DEF GraceExpire, Covered
  <2>4. CASE ~(GraceExpire(x) /\ x = t)
    <3>1. status'[t] = status[t] \/ status'[t] = "revoked"
      BY <2>1, <2>4 DEF GraceExpire, ExpireAccess, RemoteRevoke
    <3>2. QED BY <1>1, <2>2, <3>1 DEF Covering
  <2>5. QED BY <2>3, <2>4
<1>11. CASE UNCHANGED vars
  BY <1>1, <1>11 DEF vars, Covering, Unissued
<1>12. ~Crash
  BY DEF Crash
<1>13. QED BY <1>4, <1>5, <1>6, <1>7, <1>8, <1>9, <1>10, <1>11, <1>12 DEF Next

\* Who writes the vault: install() its new token, the wipes nothing.
LEMMA VaultNext ==
    ASSUME [Next]_vars, vault' # vault
    PROVE  \/ vault' = None
           \/ \E p \in Proc : Store(p) /\ vault' = got[p]
<1> USE DEF panel, core, locks, local, hist
<1>1. ASSUME NEW p \in Proc, Rotate(p)
      PROVE  vault' = None \/ (Store(p) /\ vault' = got[p])
  BY <1>1 DEF Rotate, ServeRefresh, LoseOnce, GiveUp, Accept, Store, Adopt, Denied, Wipe, Rewipe
<1>2. ASSUME NEW p \in Proc, Request(p) \/ ResumeSession(p)
      PROVE  FALSE
  BY <1>2 DEF Request, Send, Respond, TakeGate, CheckRefreshed, PickRefresh,
              ResumeSession, TakeSlot, LoadVault, WhoAmI
<1>3. CASE LogIn \/ LogOut \/ User \/ Environment \/ Crash
  BY <1>3 DEF LogIn, LoginAnswer, MfaAnswer, LogOut, LogoutTakeGate, LogoutPost, LogoutForget,
              LogoutWipe, User, StartStatus, StartLogin, SubmitMfa, StartLogout, StartRequest,
              Environment, GraceExpire, ExpireAccess, RemoteRevoke, Crash
<1>4. QED BY <1>1, <1>2, <1>3 DEF Next, vars

\* A written token is fresh, so it can be presented.
LEMMA StoredIsSound ==
    ASSUME TypeOK, MemInv, NEW p \in Proc, Store(p), vault' = got[p]
    PROVE  Sound(vault)'
BY ConstAssumption DEF ConstAssumption, TypeOK, TokenOrNone, MemInv, Store, Sound, Covered, panel

\* Who starts to present a token: a refresh and a sign-out the one in memory, the
\* resume the one on disk.
LEMMA HeldNext ==
    ASSUME TypeOK, [Next]_vars, NEW p \in Proc, held'[p] # held[p], held'[p] # None
    PROVE  /\ UNCHANGED <<status, vault>>
           /\ \/ held'[p] = tokens
              \/ held'[p] = vault /\ LoadVault(p)
<1> USE DEF panel, core, locks, local, hist
<1>0. ASSUME NEW q, Drop(q) PROVE FALSE
  BY <1>0 DEF Drop, TypeOK
<1>1. ASSUME NEW q \in Proc, Request(q)
      PROVE  UNCHANGED <<status, vault>> /\ held'[p] = tokens
  BY <1>0, <1>1 DEF TypeOK, Request, Send, Respond, TakeGate, CheckRefreshed, PickRefresh, Finish
<1>2. ASSUME NEW q \in Proc, Rotate(q) PROVE FALSE
  <2>1. ASSUME NEW r, Leave(q, r) PROVE FALSE
    BY <1>0, <2>1, LeaveDrops
  <2>2. QED BY <1>2, <2>1
    DEF Rotate, ServeRefresh, LoseOnce, GiveUp, Accept, Store, Adopt, Denied, Wipe, Rewipe
<1>3. ASSUME NEW q \in Proc, ResumeSession(q)
      PROVE  UNCHANGED <<status, vault>> /\ held'[p] = vault /\ LoadVault(p)
  <2>1. ASSUME NEW r, Leave(q, r) PROVE FALSE
    BY <1>0, <2>1, LeaveDrops
  <2>2. QED BY <1>0, <1>3, <2>1 DEF TypeOK, ResumeSession, TakeSlot, LoadVault, WhoAmI, Finish
<1>4. CASE LogIn \/ LogOut \/ User \/ Environment
  BY <1>0, <1>4 DEF TypeOK, LogIn, LoginAnswer, MfaAnswer, Resume, LogOut, LogoutTakeGate, LogoutPost,
     LogoutForget, LogoutWipe, User, StartStatus, StartLogin, SubmitMfa, StartLogout, StartRequest,
     Environment, GraceExpire, ExpireAccess, RemoteRevoke, Drop
<1>5. CASE Crash
  BY <1>5 DEF Crash
<1>6. QED BY <1>1, <1>2, <1>3, <1>4, <1>5 DEF Next, vars

\* What becomes spent is held by nobody, and only the replay of a spent token burns.
LEMMA StatusNext ==
    ASSUME TypeOK, [Next]_vars
    PROVE  /\ \A t \in Token : status'[t] = "spent"
                 => status[t] = "spent" \/ (held' = held /\ \A p \in Proc : held[p] # t)
           /\ burned' = burned \/ \E p \in Proc : pc[p] = "asked" /\ status[held[p]] = "spent"
<1> USE DEF panel, core, locks, local, hist
<1>1. ASSUME NEW p \in Proc, ServeRefresh(p)
      PROVE  /\ \A t \in Token : status'[t] = "spent" => status[t] = "spent"
             /\ burned' = burned \/ (pc[p] = "asked" /\ status[held[p]] = "spent")
  BY <1>1 DEF ServeRefresh, TypeOK, Unissued
<1>2. CASE LogIn
  BY <1>2 DEF LogIn, LoginAnswer, MfaAnswer, TypeOK, Unissued
<1>3. CASE LogoutPost
  BY <1>3 DEF LogoutPost, TypeOK
<1>4. CASE Environment
  BY <1>4 DEF Environment, GraceExpire, ExpireAccess, RemoteRevoke, TypeOK
<1>5. ASSUME NEW p \in Proc, Request(p) \/ Rotate(p) \/ ResumeSession(p), ~ServeRefresh(p)
      PROVE  UNCHANGED <<status, burned>>
  BY <1>5 DEF Request, Send, Respond, TakeGate, CheckRefreshed, PickRefresh, Rotate, LoseOnce,
     GiveUp, Accept, Store, Adopt, Denied, Wipe, Rewipe, ResumeSession, TakeSlot, LoadVault, WhoAmI
<1>6. CASE LogoutTakeGate \/ LogoutForget \/ LogoutWipe \/ User \/ Crash \/ UNCHANGED vars
  BY <1>6 DEF LogoutTakeGate, LogoutForget, LogoutWipe, User, StartStatus, StartLogin, SubmitMfa,
              StartLogout, StartRequest, Crash, vars
<1>7. QED BY <1>1, <1>2, <1>3, <1>4, <1>5, <1>6 DEF Next, LogOut

\* Without a crash the resume that has no answer never had one, and nobody adopts
\* a pair without giving it one.
LEMMA UnansweredBefore ==
    ASSUME OneResume, "crash" \notin Env, TypeOK, LockInv, ResumeInv, [Next]_vars,
           slot' = "unknown"
    PROVE  slot = "unknown" /\ \A p \in Proc : ~Adopt(p)
<1> USE DEF panel, core, locks, local, hist
<1>1. slot = "unknown"
  <2>1. ASSUME NEW p \in Proc, NEW r, Leave(p, r) PROVE slot = "unknown"
    BY <2>1 DEF Leave
  <2>2. ASSUME NEW p \in Proc, Request(p) \/ Rotate(p) \/ ResumeSession(p) PROVE slot = "unknown"
    BY <2>1, <2>2 DEF Request, Send, Respond, TakeGate, CheckRefreshed, PickRefresh, Rotate,
       ServeRefresh, LoseOnce, GiveUp, Accept, Store, Adopt, Denied, Wipe, Rewipe, ResumeSession,
       TakeSlot, LoadVault, WhoAmI
  <2>3. CASE LogIn \/ LogOut \/ User \/ Environment \/ Crash \/ UNCHANGED vars
    BY <2>3 DEF LogIn, LoginAnswer, MfaAnswer, LogOut, LogoutTakeGate, LogoutPost, LogoutForget,
       LogoutWipe, User, StartStatus, StartLogin, SubmitMfa, StartLogout, StartRequest,
       Environment, GraceExpire, ExpireAccess, RemoteRevoke, Crash, vars
  <2>4. QED BY <2>2, <2>3 DEF Next
<1>2. ASSUME NEW p \in Proc, Adopt(p) PROVE FALSE
  <2>1. pc[p] = "adopt" /\ Leave(p, "ok")
    BY <1>2 DEF Adopt
  <2>2. slotLock # p /\ gate # p
    BY <1>1, <2>1, ConstAssumption
    DEF Leave, ReleaseGate, ConstAssumption, ResumeInv, Unanswered, LockInv, SignOutPhases, Proc
  <2>3. InstallOnly(p)
    BY <2>1, <2>2 DEF ResumeInv, RotatePhases
  <2>4. QED BY <1>1, <2>3 DEF InstallOnly, ResumeInv, Unanswered
<1>3. QED BY <1>1, <1>2

LEMMA BurnStep ==
    ASSUME OneResume, Env \cap {"lose_twice", "crash"} = {}, TypeOK, LockInv, ResumeInv, MemInv,
           BurnInv, [Next]_vars
    PROVE  BurnInv'
<1>1. ~burned'
  BY StatusNext DEF BurnInv, MemInv
<1>2. ASSUME NEW p \in Proc, held'[p] # None
      PROVE  status'[held'[p]] # "spent"
  <2>1. CASE held'[p] = held[p]
    BY <1>2, <2>1, StatusNext DEF BurnInv, TypeOK, TokenOrNone
  <2>2. CASE held'[p] = tokens /\ status' = status
    BY <1>2, <2>2 DEF MemInv, Sound
  <2>3. CASE held'[p] = vault /\ LoadVault(p) /\ status' = status
    <3>1. slot = "unknown"
      BY <2>3, LoadIsUnanswered DEF LoadVault
    <3>2. QED BY <1>2, <2>3, <3>1 DEF BurnInv, Sound
  <2>4. QED BY <1>2, <2>1, <2>2, <2>3, HeldNext
<1>3. ASSUME slot' = "unknown" PROVE Sound(vault)'
  <2>1. slot = "unknown" /\ \A p \in Proc : ~Adopt(p)
    BY <1>3, UnansweredBefore
  <2>2. CASE vault' = None
    BY <2>2 DEF Sound
  <2>3. CASE vault' = vault /\ vault # None
    <3>1. PICK t \in Token : vault = t
      BY <2>3 DEF TypeOK, TokenOrNone
    <3>2. Sound(t)
      BY <2>1, <3>1 DEF BurnInv, Sound, Covered
    <3>3. Sound(t)'
      BY <2>1, <3>2, SoundStep
    <3>4. QED BY <2>3, <3>1, <3>3 DEF Sound, Covered
  <2>4. CASE \E p \in Proc : Store(p) /\ vault' = got[p]
    BY <2>4, StoredIsSound
  <2>5. QED BY <2>2, <2>3, <2>4, VaultNext
<1>4. QED BY <1>1, <1>2, <1>3 DEF BurnInv

LEMMA BurnAlways ==
    ASSUME OneResume, Env \cap {"lose_twice", "crash"} = {}
    PROVE  Spec => [](TypeOK /\ LockInv /\ ResumeInv /\ MemInv /\ BurnInv)
<1>1. Init => BurnInv
  BY BurnInit
<1>2. TypeOK /\ LockInv /\ ResumeInv /\ MemInv /\ BurnInv /\ [Next]_vars => BurnInv'
  BY BurnStep
<1>3. Spec => [](TypeOK /\ LockInv /\ ResumeInv /\ MemInv)
  BY MemAlways
<1>4. QED BY <1>1, <1>2, <1>3, PTL DEF Spec

\* The panel is never shown a token it takes for stolen, which would revoke every
\* session of the user (auth.rs:5-9), as long as the app does not die and the retry
\* of a rotation gets through: the faults of the credential store cannot do it.
THEOREM SessionsAreNeverBurned ==
    ASSUME OneResume, Env \cap {"lose_twice", "crash"} = {}
    PROVE  Spec => []NeverBurned
<1>1. BurnInv => NeverBurned
  BY DEF BurnInv, NeverBurned
<1>2. QED BY <1>1, BurnAlways, PTL

-----------------------------------------------------------------------------
(* The disk *)

\* What is on disk can be presented, and it is the session in memory or nothing,
\* but for the moment between the two halves of install().
DiskInv ==
    /\ Env \cap {"lose_twice", "crash"} = {} => Sound(vault)
    /\ \A p \in Proc : pc[p] = "adopt" => vault \in {got[p], None}
    /\ tokens # None /\ vault \notin {tokens, None} => \E p \in Proc : pc[p] = "adopt"

LEMMA DiskInit == Init => DiskInv
<1>1. Init => Sound(vault)
  BY BurnInit DEF BurnInv, Init
<1>2. QED BY <1>1 DEF Init, DiskInv

\* Who writes the memory: the second half of install(), and those who forget.
LEMMA TokensNext ==
    ASSUME [Next]_vars, tokens' # tokens
    PROVE  tokens' = None \/ \E p \in Proc : Adopt(p)
<1> USE DEF panel, core, locks, local, hist
<1>1. ASSUME NEW p \in Proc, Request(p) \/ Rotate(p) \/ ResumeSession(p)
      PROVE  tokens' = None \/ Adopt(p)
  BY <1>1 DEF Request, Send, Respond, TakeGate, CheckRefreshed, PickRefresh, Rotate, ServeRefresh,
     LoseOnce, GiveUp, Accept, Store, Adopt, Denied, Wipe, Rewipe, ResumeSession, TakeSlot,
     LoadVault, WhoAmI
<1>2. CASE LogIn \/ LogOut \/ User \/ Environment \/ Crash \/ UNCHANGED vars
  BY <1>2 DEF LogIn, LoginAnswer, MfaAnswer, LogOut, LogoutTakeGate, LogoutPost, LogoutForget,
     LogoutWipe, User, StartStatus, StartLogin, SubmitMfa, StartLogout, StartRequest,
     Environment, GraceExpire, ExpireAccess, RemoteRevoke, Crash, vars
<1>3. QED BY <1>1, <1>2 DEF Next

\* When nobody signs in, whoever rotates or installs is alone.
LEMMA RotatesAlone ==
    ASSUME "sign_in" \notin Env, TypeOK, LockInv, ResumeInv, NEW p \in Proc, NEW q \in Proc,
           pc[p] \in RotatePhases, pc[q] \in RotatePhases
    PROVE  p = q
<1>1. (gate = p \/ slotLock = p) /\ (gate = q \/ slotLock = q)
  BY DEF ResumeInv, InstallOnly, RotatePhases
<1>2. p # SignOut /\ q # SignOut /\ p # Free /\ q # Free
  BY ConstAssumption DEF ConstAssumption, Proc, LockInv, RotatePhases, SignOutPhases
<1>3. QED BY <1>1, <1>2 DEF ResumeInv, Unanswered

\* Who is at the second half of install() came from the first, and leaves it only
\* to adopt the pair.
LEMMA AdoptNext ==
    ASSUME TypeOK, [Next]_vars, NEW p \in Proc
    PROVE  /\ pc'[p] = "adopt" => Store(p) \/ (pc[p] = "adopt" /\ got'[p] = got[p])
           /\ pc[p] = "adopt" /\ pc'[p] # "adopt" => Adopt(p) \/ Crash
<1> USE DEF panel, core, locks, local, hist, Goto
<1>1. ASSUME NEW q \in Proc, Request(q)
      PROVE  pc[q] # "adopt" /\ \E f \in RequestPhases \cup {"idle", "asked"} :
               /\ Goto(q, f)
               /\ got' = got \/ got' = [got EXCEPT ![q] = None]
  BY <1>1 DEF Request, Send, Respond, TakeGate, CheckRefreshed, PickRefresh, Finish, Drop, RequestPhases
<1>2. ASSUME NEW q \in Proc, Rotate(q), ~Store(q), ~Adopt(q)
      PROVE  pc[q] # "adopt" /\ \E f \in Phases \ {"adopt"} :
               /\ Goto(q, f)
               /\ got' = got \/ \E g : got' = [got EXCEPT ![q] = g]
  <2>1. ASSUME NEW r, Leave(q, r)
        PROVE  \E f \in Phases \ {"adopt"} : Goto(q, f) /\ got' = [got EXCEPT ![q] = None]
    BY <2>1, LeaveDrops DEF Drop, Phases, RequestPhases, ResumePhases
  <2>2. QED BY <1>2, <2>1
    DEF Rotate, ServeRefresh, LoseOnce, GiveUp, Accept, Denied, Wipe, Rewipe, Phases, RotatePhases
<1>3. ASSUME NEW q \in Proc, ResumeSession(q)
      PROVE  pc[q] # "adopt" /\ \E f \in Phases \ {"adopt"} :
               /\ Goto(q, f)
               /\ got' = got \/ got' = [got EXCEPT ![q] = None]
  <2>1. ASSUME NEW r, Leave(q, r)
        PROVE  \E f \in Phases \ {"adopt"} : Goto(q, f) /\ got' = [got EXCEPT ![q] = None]
    BY <2>1, LeaveDrops DEF Drop, Phases, RequestPhases, ResumePhases
  <2>2. QED BY <1>3, <2>1
    DEF ResumeSession, TakeSlot, LoadVault, WhoAmI, Finish, Drop, Phases, RequestPhases,
        RotatePhases, ResumePhases
<1>4. CASE LogIn \/ LogOut \/ User
  <2>1. PICK q \in Proc, f \in Phases \ {"adopt"} :
          /\ Goto(q, f) /\ pc[q] # "adopt"
          /\ got' = got \/ \E g : got' = [got EXCEPT ![q] = g]
    <3>1. CASE LogIn
      BY <3>1 DEF LogIn, LoginAnswer, MfaAnswer, Resume, Drop, Proc, Phases, SignInPhases, RotatePhases
    <3>2. CASE LogOut
      BY <3>2 DEF LogOut, LogoutTakeGate, LogoutPost, LogoutForget, LogoutWipe, Drop, Proc, Phases,
                  SignOutPhases
    <3>3. CASE User
      BY <3>3 DEF User, StartStatus, StartLogin, SubmitMfa, StartLogout, StartRequest, Proc, Phases,
                  RequestPhases, ResumePhases, SignInPhases, SignOutPhases
    <3>4. QED BY <1>4, <3>1, <3>2, <3>3
  <2>2. QED BY <2>1 DEF TypeOK
<1>5. CASE Environment \/ UNCHANGED vars
  BY <1>5 DEF Environment, GraceExpire, ExpireAccess, RemoteRevoke, vars
<1>6. CASE Crash
  BY <1>6 DEF Crash
<1>7. CASE \E q \in Proc : Request(q)
  BY <1>1, <1>7 DEF TypeOK, RequestPhases
<1>8. CASE \E q \in Proc : Rotate(q)
  <2>1. PICK q \in Proc : Rotate(q)
    BY <1>8
  <2>2. CASE Store(q)
    BY <2>2 DEF Store, TypeOK
  <2>3. CASE Adopt(q)
    <3>1. PICK f \in {"idle", "resend", "whoami", "slot"} : Drop(q) /\ Goto(q, f)
      BY <2>3, LeaveDrops DEF Adopt
    <3>2. QED BY <2>3, <3>1 DEF Drop, TypeOK
  <2>4. QED BY <1>2, <2>1, <2>2, <2>3 DEF TypeOK
<1>9. CASE \E q \in Proc : ResumeSession(q)
  BY <1>3, <1>9 DEF TypeOK
<1>10. QED BY <1>4, <1>5, <1>6, <1>7, <1>8, <1>9 DEF Next

LEMMA DiskStep ==
    ASSUME "sign_in" \notin Env, ~({"store", "clear"} \subseteq Env),
           TypeOK, LockInv, ResumeInv, MemInv, DiskInv, [Next]_vars
    PROVE  DiskInv'
<1> USE DEF panel, core, locks, local, hist
<1>1. ASSUME Env \cap {"lose_twice", "crash"} = {} PROVE Sound(vault)'
  <2>1. CASE vault' = None
    BY <2>1 DEF Sound
  <2>2. CASE vault' = vault /\ vault # None
    <3>1. PICK t \in Token : vault = t
      BY <2>2 DEF TypeOK, TokenOrNone
    <3>2. Sound(t)
      BY <1>1, <3>1 DEF DiskInv, Sound, Covered
    <3>3. ASSUME NEW p \in Proc, Adopt(p) PROVE held[p] # t
      BY <2>2, <3>1, <3>3 DEF Adopt, DiskInv, MemInv
    <3>4. Sound(t)'
      BY <1>1, <3>2, <3>3, SoundStep
    <3>5. QED BY <2>2, <3>1, <3>4 DEF Sound, Covered
  <2>3. CASE \E p \in Proc : Store(p) /\ vault' = got[p]
    BY <2>3, StoredIsSound
  <2>4. QED BY <2>1, <2>2, <2>3, VaultNext
<1>2. ASSUME NEW p \in Proc, pc'[p] = "adopt" PROVE vault' \in {got'[p], None}
  <2>1. CASE Store(p)
    BY <2>1 DEF Store
  <2>2. CASE pc[p] = "adopt" /\ got'[p] = got[p]
    <3>1. \A q \in Proc : ~Store(q)
      BY <2>2, RotatesAlone DEF Store, RotatePhases
    <3>2. vault' \in {vault, None}
      BY <3>1, VaultNext
    <3>3. QED BY <2>2, <3>2 DEF DiskInv
  <2>3. QED BY <1>2, <2>1, <2>2, AdoptNext
<1>3. ASSUME tokens' # None, vault' \notin {tokens', None}
      PROVE  \E p \in Proc : pc'[p] = "adopt"
  <2>1. CASE \E p \in Proc : Adopt(p)
    BY <1>3, <2>1 DEF Adopt, DiskInv
  <2>2. CASE \A p \in Proc : ~Adopt(p)
    <3>1. tokens' = tokens
      BY <1>3, <2>2, TokensNext
    <3>2. CASE vault' = vault
      <4>1. PICK p \in Proc : pc[p] = "adopt"
        BY <1>3, <3>1, <3>2 DEF DiskInv
      <4>2. ~Crash
        BY <1>3 DEF Crash
      <4>3. QED BY <2>2, <4>1, <4>2, AdoptNext
    <3>3. CASE vault' # vault
      <4>1. PICK p \in Proc : Store(p)
        BY <1>3, <3>3, VaultNext
      <4>2. pc'[p] = "adopt"
        BY <4>1 DEF Store, Goto, TypeOK
      <4>3. QED BY <4>2
    <3>4. QED BY <3>2, <3>3
  <2>3. QED BY <2>1, <2>2
<1>4. QED BY <1>1, <1>2, <1>3 DEF DiskInv

LEMMA DiskAlways ==
    ASSUME "sign_in" \notin Env, ~({"store", "clear"} \subseteq Env)
    PROVE  Spec => [](TypeOK /\ LockInv /\ ResumeInv /\ MemInv /\ DiskInv)
<1>1. OneResume
  BY DEF OneResume
<1>2. Init => DiskInv
  BY DiskInit
<1>3. TypeOK /\ LockInv /\ ResumeInv /\ MemInv /\ DiskInv /\ [Next]_vars => DiskInv'
  BY DiskStep
<1>4. Spec => [](TypeOK /\ LockInv /\ ResumeInv /\ MemInv)
  BY <1>1, MemAlways
<1>5. QED BY <1>2, <1>3, <1>4, PTL DEF Spec

\* Between activities the disk holds the session in memory, or nothing when it could
\* not be written (auth.rs:454-463), crashes and sign-outs included.
THEOREM DiskFollowsMemory ==
    ASSUME "sign_in" \notin Env, ~({"store", "clear"} \subseteq Env)
    PROVE  Spec => []DiskMatchesMemory
<1>1. TypeOK /\ MemInv /\ DiskInv => DiskMatchesMemory
  BY ConstAssumption DEF ConstAssumption, MemInv, DiskInv, DiskMatchesMemory, Quiet
<1>2. QED BY <1>1, DiskAlways, PTL

\* The next launch never resumes from a token whose replay is taken for theft
\* (auth.rs:454-463), as long as no crash comes between the panel's rotation and the
\* vault write, the retry of a rotation gets through, and a failed write is cleared.
THEOREM DiskIsAlwaysSound ==
    ASSUME "sign_in" \notin Env, Env \cap {"lose_twice", "crash"} = {},
           ~({"store", "clear"} \subseteq Env)
    PROVE  Spec => []DiskIsSound
<1>1. DiskInv => DiskNeverSpent
  BY DEF DiskInv, Sound, DiskNeverSpent
<1>2. Spec => [](TypeOK /\ LockInv /\ ResumeInv /\ MemInv /\ DiskInv)
  BY DiskAlways
<1>3. Spec => []DiskMatchesMemory
  BY DiskFollowsMemory
<1>4. DiskNeverSpent /\ DiskMatchesMemory => DiskIsSound
  BY DEF DiskIsSound
<1>5. QED BY <1>1, <1>2, <1>3, <1>4, PTL

=============================================================================
