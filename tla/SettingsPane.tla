------------------------------ MODULE SettingsPane ------------------------------
(***************************************************************************)
(* The settings pane (Settings.tsx) over the settings that the backend     *)
(* keeps (commands.rs settings_get, settings_set): toggles that change at  *)
(* once and go back when the backend refuses.                              *)
(***************************************************************************)
EXTENDS Naturals, Sequences, FiniteSets

CONSTANTS
    None,
    MaxEdits    \* bound: edits on their way together

VARIABLES
    stored,     \* SettingsStore
    shown,      \* s: what the pane shows; None until settingsGet has answered
    edits,      \* settingsSet calls the backend has still to serve: [prev, next, pane]
    refused,    \* refusals on their way back
    pane,       \* the pane: 0 when it is closed, else its number
    opened,     \* how often it was opened
    overlapped  \* history: an edit was made while another was under way

vars == <<stored, shown, edits, refused, pane, opened, overlapped>>

Toggles == {"startWithWindows", "other"}   \* only the first is ever refused
Settings == SUBSET Toggles     \* those that are on
Edit == [prev : Settings, next : Settings, pane : 1..2]

Init ==
    /\ stored = {"other"} /\ shown = None
    /\ edits = <<>> /\ refused = {} /\ pane = 0 /\ opened = 0 /\ overlapped = FALSE

\* The pane asks for the settings; the call is served after the ones before it.
Open ==
    /\ pane = 0 /\ opened < 2 /\ opened' = opened + 1 /\ pane' = opened'
    /\ shown' = None
    /\ UNCHANGED <<stored, edits, refused, overlapped>>

SettingsGet ==
    /\ pane # 0 /\ shown = None /\ edits = <<>> /\ shown' = stored
    /\ UNCHANGED <<stored, edits, refused, pane, opened, overlapped>>

Close ==
    /\ pane # 0 /\ pane' = 0 /\ shown' = None
    /\ UNCHANGED <<stored, edits, refused, opened, overlapped>>

\* The toggle changes at once, and all of the settings are sent.
Update(t) ==
    /\ pane # 0 /\ shown # None /\ Len(edits) + Cardinality(refused) < MaxEdits
    /\ shown' = IF t \in shown THEN shown \ {t} ELSE shown \cup {t}
    /\ edits' = Append(edits, [prev |-> shown, next |-> shown', pane |-> pane])
    /\ overlapped' = (overlapped \/ edits # <<>> \/ refused # {})
    /\ UNCHANGED <<stored, refused, pane, opened>>

ChangesStart(next) == ("startWithWindows" \in next) # ("startWithWindows" \in stored)

\* A refusal that nobody reads.
UnansweredSet ==
    /\ edits # <<>> /\ edits' = Tail(edits)
    /\ \/ stored' = Head(edits).next
       \/ ChangesStart(Head(edits).next) /\ UNCHANGED stored
    /\ UNCHANGED <<shown, refused, pane, opened, overlapped>>

\* settings_set: the system is asked first when "Start with Windows" changes; when it refuses,
\* nothing is stored.
SettingsSet ==
    /\ edits # <<>> /\ edits' = Tail(edits)
    /\ \/ stored' = Head(edits).next /\ UNCHANGED refused
       \/ /\ ChangesStart(Head(edits).next)
          /\ refused' = refused \cup {Head(edits)} /\ UNCHANGED stored
    /\ UNCHANGED <<shown, pane, opened, overlapped>>

\* The settings that are shown outlive their pane.
RevertedAnywhere(e) ==
    /\ e \in refused /\ refused' = refused \ {e}
    /\ shown' = e.prev
    /\ UNCHANGED <<stored, edits, pane, opened, overlapped>>

\* The pane that made the edit goes back to what it showed before it.
Reverted(e) ==
    /\ e \in refused /\ refused' = refused \ {e}
    /\ shown' = IF e.pane = pane THEN e.prev ELSE shown
    /\ UNCHANGED <<stored, edits, pane, opened, overlapped>>

Next ==
    \/ Open \/ SettingsGet \/ Close \/ SettingsSet
    \/ \E t \in Toggles : Update(t)
    \/ \E e \in refused : Reverted(e)

Spec == Init /\ [][Next]_vars

TypeOK ==
    /\ stored \in Settings /\ shown \in Settings \cup {None}
    /\ edits \in Seq(Edit) /\ Len(edits) <= MaxEdits /\ refused \subseteq Edit
    /\ pane \in 0..opened /\ opened \in 0..2 /\ overlapped \in BOOLEAN
    /\ pane = 0 => shown = None

AtRest == pane # 0 /\ shown # None /\ edits = <<>> /\ refused = {}

(* Settings.tsx:79-82, "so the UI matches the persisted state": with one edit at a time the    *)
(* pane at rest shows what is stored, also one that was opened while an edit was under way.    *)
ShownIsStored == AtRest /\ ~overlapped => shown = stored

(* Settings.tsx:79-82 for every edit.                                                          *)
RevertMatchesStored == AtRest => shown = stored
=============================================================================
