------------------------------- MODULE MCWindow -------------------------------
(* The parts of the window that do not touch each other and whose runs check liveness, one in each *)
(* behaviour. A part that does not run stays in one of its initial states, where no fair action is *)
(* enabled.                                                                                        *)
EXTENDS ServerFocus, Naturals, FiniteSets

CONSTANTS Link, MaxCalls, Calls, MaxOrphans

ASSUME BoundAssumption == MaxOrphans \in Nat

VARIABLES
    part,
    link, ready, queue, emitted, calls, phase, drained, opening, tray, left,
    session, status, busy, mustChange, suite, request, armed, orphans, handlers, byHand,
    banner, busyRef, pendingManual, check, install, fades, owed, clicked, spurious,
    signedIn, perms, view, adminScreen

\* Profiles with nothing, with everything, with one permission of an area, and with one that no
\* screen asks for.
Profiles ==
    LET areas == {"dashboard", "servers", "nodes", "locations", "users", "billing", "payments",
                  "catalog", "content", "support", "audit", "settings", "roles"}
    IN {{}, {<<"*", "*">>}, {<<"users", "create">>}} \cup {{p} : p \in areas \X {"read", "manage"}}

Inbox  == INSTANCE OpenInbox
Store  == INSTANCE WindowSession
Update == INSTANCE UpdateBanner WITH phase <- banner
Access == INSTANCE AdminAccess

focus  == vars
inbox  == <<link, ready, queue, emitted, calls, phase, drained, opening, tray, left>>
store  == <<session, status, busy, mustChange, suite, request, armed, orphans, handlers, byHand>>
update == <<banner, busyRef, pendingManual, check, install, fades, owed, clicked, spurious>>
access == <<signedIn, perms, view, adminScreen>>

InitParts ==
    /\ part \in {"focus", "inbox", "store", "update", "access"}
    /\ Init /\ Inbox!Init /\ Store!Init /\ Update!Init /\ Access!Init
    /\ part # "store" => session = "none"
    /\ part # "access" => perms = {}

NextPart ==
    /\ UNCHANGED part
    /\ \/ part = "focus" /\ Next /\ UNCHANGED <<inbox, store, update, access>>
       \/ part = "inbox" /\ Inbox!Next /\ UNCHANGED <<focus, store, update, access>>
       \/ part = "store" /\ Store!Next /\ UNCHANGED <<focus, inbox, update, access>>
       \/ part = "update" /\ Update!Next /\ UNCHANGED <<focus, inbox, store, access>>
       \/ part = "access" /\ Access!Next /\ UNCHANGED <<focus, inbox, store, update>>

SpecParts == InitParts /\ [][NextPart]_<<part, focus, inbox, store, update, access>>

LiveParts ==
    SpecParts /\ Fairness /\ Inbox!Fairness /\ Store!Fairness /\ Update!Fairness /\ Access!Fairness

-----------------------------------------------------------------------------
(* The properties of the parts *)
TypesOK == TypeOK /\ Store!TypeOK /\ Update!TypeOK /\ Access!TypeOK

(* A server that is focused gets its console and its rates. *)
FocusServes == ConsoleForItsServer /\ StatsCome

(* A link is opened once: never again, and in the end at least once. *)
EachLinkOnce == []Inbox!OpenedOnce /\ Inbox!LinksAreHandled

(* The store of the window never gives up on the panel, sends no form twice and shows a session *)
(* that is gone to be gone.                                                                     *)
StoreIsSound == [](Store!OfflineRetries /\ Store!OneSubmit) /\ Store!SignOutShows

(* The banner tells the truth, and what the user asks for is answered. *)
BannerKeepsFaith == []Update!BannerIsTrue /\ Update!ManualIsAnswered

LandsSomewhere == Access!LandsSomewhere
NoDeadEnd == Access!NoDeadEnd
=============================================================================
