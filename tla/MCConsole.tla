------------------------------- MODULE MCConsole -------------------------------
(* Small instances for TLC: one session, or the consoles of a window whose sessions keep what      *)
(* ConsoleStatus promises of them. A behaviour is one of the two.                                   *)
EXTENDS ConsoleSession, FiniteSets

CONSTANTS Servers, None, RingCap, Retained, MaxViews, MaxLines

ASSUME WindowAssumption == {RingCap, Retained, MaxViews, MaxLines} \subseteq Nat

VARIABLES part, current, mounted, view, calls, sessions, retained, spawned, task, lines

Window == INSTANCE ConsoleManager

alone  == vars
window == <<current, mounted, view, calls, sessions, retained, spawned, task, lines>>

InitParts ==
    /\ part \in {"session", "window"}
    /\ Init /\ Window!Init
    /\ part = "window" => access = "valid" /\ account = "active" /\ allowed

NextPart ==
    /\ UNCHANGED part
    /\ \/ part = "session" /\ Next /\ UNCHANGED window
       \/ part = "window" /\ Window!Next /\ UNCHANGED alone

SpecParts == InitParts /\ [][NextPart]_<<part, alone, window>>

\* The session of the window's behaviours is the one that never dials.
FairParts ==
    /\ WF_alone(part = "session" /\ Session)
    /\ WF_alone(part = "session" /\ Pump /\ pc' = "closing")
    /\ Window!Fairness

LiveParts == SpecParts /\ FairParts

-----------------------------------------------------------------------------
(* It comes back until it is stopped, and then it ends. *)
SessionLivesAndEnds == part = "session" => LivesAndEnds

ScreenHasTheSession == Window!ScreenHasTheSession
EveryLineOnce == Window!EveryLineOnce
OffScreenCloses == Window!OffScreenCloses
ScrollbackReturns == Window!ScrollbackReturns

(* Type correctness of both parts. *)
TypesOK == TypeOK /\ Window!TypeOK
=============================================================================
