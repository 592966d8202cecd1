------------------------------- MODULE OpenInbox -------------------------------
(***************************************************************************)
(* How a refx:// link or the tray's Open reaches the servers screen: the   *)
(* backend's inbox (deeplink.rs, state.rs, tray.rs, deeplink_ready) and    *)
(* the effect of the screen that listens, says that it is ready and opens  *)
(* what was kept (Servers.tsx). ServerFocus models what opening does.      *)
(***************************************************************************)
EXTENDS Naturals, Sequences, SequencesExt

CONSTANTS Link, MaxCalls   \* bounds: the links that arrive, calls under way

VARIABLES
    link,       \* each link: "unsent", "sent", "opened", "opened twice", "lost"
    ready, queue,   \* DeepLinkInbox: ready, pending
    emitted,    \* app:open-server events on their way to the window
    calls,      \* deeplinkReady calls still to be served: [ready, live]; live while the
                \* screen that waits for the answer is there
    phase,      \* the effect of the screen: "off", "listen", "ask", "drain"
    drained,    \* links it opens one after another
    opening,    \* links whose focusServer is under way
    tray, left  \* history: links that the tray sent; a screen has gone

history == <<tray, left>>
vars == <<link, ready, queue, emitted, calls, phase, drained, opening, history>>

Init ==
    /\ link = [n \in Link |-> "unsent"]
    /\ ready = FALSE /\ queue = <<>> /\ emitted = <<>> /\ calls = <<>>
    /\ phase = "off" /\ drained = <<>> /\ opening = {}
    /\ tray = {} /\ left = FALSE

\* The links of S are lost.
Lose(S) == link' = [n \in Link |-> IF n \in S THEN "lost" ELSE link[n]]

Open(n) ==
    /\ link' = [link EXCEPT ![n] = IF @ = "sent" THEN "opened" ELSE "opened twice"]
    /\ opening' = opening \cup {n}

-----------------------------------------------------------------------------
(* The backend *)

\* The inbox is a single slot.
RouteToSlot(n) ==
    /\ link[n] = "unsent" /\ link' = [link EXCEPT ![n] = "sent"]
    /\ IF ready THEN emitted' = Append(emitted, n) /\ UNCHANGED queue
                ELSE queue' = <<n>> /\ UNCHANGED emitted
    /\ UNCHANGED <<ready, calls, phase, drained, opening, history>>

\* Every link is emitted at once.
RouteLikeTray(n) ==
    /\ link[n] = "unsent" /\ link' = [link EXCEPT ![n] = "sent"]
    /\ emitted' = Append(emitted, n)
    /\ UNCHANGED <<ready, queue, calls, phase, drained, opening, history>>

\* A link is kept even when it can be emitted.
RouteTwice(n) ==
    /\ link[n] = "unsent" /\ link' = [link EXCEPT ![n] = "sent"]
    /\ emitted' = IF ready THEN Append(emitted, n) ELSE emitted
    /\ queue' = Append(queue, n)
    /\ UNCHANGED <<ready, calls, phase, drained, opening, history>>

\* route(): emitted to a screen that is ready, kept for one that is not, decided under the lock.
Route(n) ==
    /\ link[n] = "unsent" /\ link' = [link EXCEPT ![n] = "sent"]
    /\ IF ready THEN emitted' = Append(emitted, n) /\ UNCHANGED queue
                ELSE queue' = Append(queue, n) /\ UNCHANGED emitted
    /\ UNCHANGED <<ready, calls, phase, drained, opening, history>>

\* The tray does not look at the inbox.
TrayOpen(n) ==
    /\ link[n] = "unsent" /\ link' = [link EXCEPT ![n] = "sent"]
    /\ emitted' = Append(emitted, n) /\ tray' = tray \cup {n}
    /\ UNCHANGED <<ready, queue, calls, phase, drained, opening, left>>

\* deeplink_ready: the answer is the whole inbox. A screen that has gone drops it.
DeeplinkReady ==
    /\ calls # <<>> /\ calls' = Tail(calls) /\ ready' = Head(calls).ready
    /\ IF ~Head(calls).ready THEN UNCHANGED <<link, queue, phase, drained>>
       ELSE /\ queue' = <<>>
            /\ IF Head(calls).live
               THEN phase' = "drain" /\ drained' = queue /\ UNCHANGED link
               ELSE Lose(ToSet(queue)) /\ UNCHANGED <<phase, drained>>
    /\ UNCHANGED <<emitted, opening, history>>

-----------------------------------------------------------------------------
(* The effect of the servers screen *)

Mount ==
    /\ phase = "off" /\ Len(calls) < MaxCalls /\ phase' = "listen"
    /\ UNCHANGED <<link, ready, queue, emitted, calls, drained, opening, history>>

\* The listener is registered; only then the backend is told.
Listens ==
    /\ phase = "listen" /\ phase' = "ask"
    /\ calls' = Append(calls, [ready |-> TRUE, live |-> TRUE])
    /\ UNCHANGED <<link, ready, queue, emitted, drained, opening, history>>

\* The screen goes: links that it has not begun to open are dropped.
Unmount ==
    /\ phase # "off" /\ phase' = "off" /\ drained' = <<>>
    /\ Lose({n \in ToSet(drained) : link[n] = "sent"})
    /\ calls' = Append([k \in DOMAIN calls |-> [calls[k] EXCEPT !.live = FALSE]],
                       [ready |-> FALSE, live |-> FALSE])
    /\ left' = TRUE
    /\ UNCHANGED <<ready, queue, emitted, opening, tray>>

Hear ==
    /\ emitted # <<>> /\ emitted' = Tail(emitted)
    /\ IF phase \in {"ask", "drain"} THEN Open(Head(emitted))
       ELSE Lose({Head(emitted)}) /\ UNCHANGED opening
    /\ UNCHANGED <<ready, queue, calls, phase, drained, history>>

\* The next link of the drain, when the one before is done.
Drain ==
    /\ drained # <<>> /\ link[Head(drained)] = "sent" /\ Open(Head(drained))
    /\ UNCHANGED <<ready, queue, emitted, calls, phase, drained, history>>

FocusEnds(n) ==
    /\ n \in opening /\ opening' = opening \ {n}
    /\ drained' = IF drained # <<>> /\ Head(drained) = n THEN Tail(drained) ELSE drained
    /\ UNCHANGED <<link, ready, queue, emitted, calls, phase, history>>

-----------------------------------------------------------------------------
Next ==
    \/ \E n \in Link : Route(n) \/ TrayOpen(n) \/ FocusEnds(n)
    \/ DeeplinkReady \/ Mount \/ Listens \/ Unmount \/ Hear \/ Drain

Spec == Init /\ [][Next]_vars

\* Calls and events are served and requests end.
Fairness ==
    /\ WF_vars(DeeplinkReady) /\ WF_vars(Listens)
    /\ WF_vars(Hear) /\ WF_vars(Drain)
    /\ \A n \in Link : WF_vars(FocusEnds(n))

LiveSpec == Spec /\ Fairness

-----------------------------------------------------------------------------
(* deeplink.rs:55: a link is not handled twice, wherever it meets the screen's arrival; and the *)
(* arrival loses none: as long as no screen has gone away, only what the tray sent to a screen *)
(* that was not there is lost (Servers.tsx: listen first, then say ready and drain;            *)
(* deeplink.rs, "so a cold-start (or signed-out) deep link isn't dropped").                    *)
OpenedOnce ==
    /\ \A n \in Link : link[n] # "opened twice"
    /\ ~left => \A n \in Link \ tray : link[n] # "lost"

(* On a screen that stays nothing is left lying: not in the inbox, not in the drain, not as an *)
(* event (state.rs: "A queue (not a single slot) so two links ... both survive").              *)
LinksAreHandled ==
    <>[](phase # "off") => \A n \in Link : []<>(link[n] # "sent")

(* deeplink.rs:55: "a link racing frontend-ready is handled exactly once".                     *)
NoLinkLost == \A n \in Link : link[n] # "lost"
=============================================================================
