------------------------------- MODULE PanelForm -------------------------------
(***************************************************************************)
(* The dialogs of the staff suite and of the server tabs: the one slot of  *)
(* a screen in which a dialog opens, the call its button makes, and what   *)
(* the answer does to the slot.  The dialogs differ in four features; a    *)
(* behaviour picks one kind of dialog and opens it again and again.        *)
(***************************************************************************)
EXTENDS Naturals

CONSTANTS
    MaxOpened,  \* bound: times a dialog is opened
    MaxSent,    \* bound: calls on their way together
    MaxMade     \* bound: things made by one opening

\* first: the dialog goes before the call is made. held: its button is off while its call is under
\* way. locked: it cannot be dismissed meanwhile. kept: it stays when the call has succeeded, and
\* then changes what it has made.
Confirm == [first |-> TRUE, held |-> FALSE, locked |-> FALSE, kept |-> FALSE]
Submit == [first |-> FALSE, held |-> TRUE, locked |-> FALSE, kept |-> FALSE]

\* Dialogs that go first: a question, a word to be typed, a name to be given.
SimpleConfirm == Confirm
NodeDelete == Confirm
AlertDelete == Confirm
HostDelete == Confirm
TeamRemove == Confirm
RoleDelete == Confirm
BackupConfirm == Confirm
ScheduleDialog == Confirm
DatabaseDialogs == Confirm

\* Dialogs that wait for their call.
ResizeDialog == Submit
CreateUserDialog == Submit
CreditDialog == Submit
RefundDialog == Submit
CouponDialog == Submit
GiftCardDialog == Submit
AlertDialog == Submit
HomepageDialog == Submit
IncidentCreateDialog == Submit
IncidentUpdateDialog == Submit
HostDialog == Submit
StaffDialog == Submit
RoleEditor == Submit

\* One whose button never goes off, one that cannot be left while it waits, one that stays.
VanityDialog == [Submit EXCEPT !.held = FALSE]
ProductDelete == [Submit EXCEPT !.locked = TRUE]
ProductDialog == [Submit EXCEPT !.kept = TRUE]

Kinds == {SimpleConfirm, NodeDelete, AlertDelete, HostDelete, TeamRemove, RoleDelete, BackupConfirm,
          ScheduleDialog, DatabaseDialogs, ResizeDialog, CreateUserDialog, CreditDialog,
          RefundDialog, CouponDialog, GiftCardDialog, AlertDialog, HomepageDialog,
          IncidentCreateDialog, IncidentUpdateDialog, HostDialog, StaffDialog, RoleEditor,
          VanityDialog, ProductDelete, ProductDialog}

VARIABLES
    kind,       \* the dialog of this behaviour
    opened,     \* how often it was opened; the number of the newest opening
    slot,       \* the opening that is on display, or 0
    held,       \* its button is off
    made,       \* the dialog shows what it has made
    sent,       \* calls under way: [from, no, change, done]
    effects,    \* what each opening has made at the panel
    unheard     \* history: openings whose call took effect and was reported as failed

vars == <<kind, opened, slot, held, made, sent, effects, unheard>>

Init ==
    /\ kind \in Kinds
    /\ opened = 0 /\ slot = 0 /\ held = FALSE /\ made = FALSE
    /\ sent = {} /\ effects = [n \in 1 .. MaxOpened |-> 0]
    /\ unheard = {}

Calls(n) == {c \in sent : c.from = n}

-----------------------------------------------------------------------------
(* The user *)

\* A button of the screen opens the dialog anew.
Open ==
    /\ slot = 0 /\ opened < MaxOpened
    /\ opened' = opened + 1 /\ slot' = opened'
    /\ held' = FALSE /\ made' = FALSE
    /\ UNCHANGED <<kind, sent, effects, unheard>>

\* Cancel, Escape or a click beside the dialog; none of them looks at the call.
Dismiss ==
    /\ slot # 0 /\ ~(kind.locked /\ held)
    /\ slot' = 0
    /\ UNCHANGED <<kind, opened, held, made, sent, effects, unheard>>

\* The button is never off.
AnyClick(no) ==
    /\ slot # 0 /\ \A c \in sent : c.no # no
    /\ sent' = sent \cup {[from |-> slot, no |-> no, change |-> made, done |-> FALSE]}
    /\ slot' = IF kind.first THEN 0 ELSE slot
    /\ held' = (kind.held /\ ~kind.first)
    /\ UNCHANGED <<kind, opened, made, effects, unheard>>

\* The button: its call is made, from a dialog that is gone by then or one that waits.
Click(no) ==
    /\ slot # 0 /\ ~held /\ \A c \in sent : c.no # no
    /\ sent' = sent \cup {[from |-> slot, no |-> no, change |-> made, done |-> FALSE]}
    /\ slot' = IF kind.first THEN 0 ELSE slot
    /\ held' = (kind.held /\ ~kind.first)
    /\ UNCHANGED <<kind, opened, made, effects, unheard>>

-----------------------------------------------------------------------------
(* The panel *)
Effect(c) ==
    /\ ~c.done /\ effects[c.from] < MaxMade
    /\ sent' = (sent \ {c}) \cup {[c EXCEPT !.done = TRUE]}
    /\ effects' = IF c.change THEN effects ELSE [effects EXCEPT ![c.from] = @ + 1]
    /\ UNCHANGED <<kind, opened, slot, held, made, unheard>>

-----------------------------------------------------------------------------
(* The answer *)

\* onDone() empties the slot, whatever is in it by then; the dialog that is kept shows what was made.
Accepted(c) ==
    /\ c.done /\ sent' = sent \ {c}
    /\ slot' = IF kind.first \/ kind.kept THEN slot ELSE 0
    /\ IF kind.kept /\ c.from = slot THEN held' = FALSE /\ made' = TRUE ELSE UNCHANGED <<held, made>>
    /\ UNCHANGED <<kind, opened, effects, unheard>>

\* The button stays off.
RefusedHeld(c) ==
    /\ sent' = sent \ {c}
    /\ unheard' = IF c.done THEN unheard \cup {c.from} ELSE unheard
    /\ UNCHANGED <<kind, opened, slot, held, made, effects>>

\* A refusal, or an answer that is lost: the error is shown and the dialog may be sent again; the
\* one that deletes a product goes.
Refused(c) ==
    /\ sent' = sent \ {c}
    /\ held' = (held /\ c.from # slot)
    /\ slot' = IF kind.locked THEN 0 ELSE slot
    /\ unheard' = IF c.done THEN unheard \cup {c.from} ELSE unheard
    /\ UNCHANGED <<kind, opened, made, effects>>

-----------------------------------------------------------------------------
Next ==
    \/ Open \/ Dismiss
    \/ \E no \in 1 .. MaxSent : Click(no)
    \/ \E c \in sent : Effect(c) \/ Accepted(c) \/ Refused(c)

Spec == Init /\ [][Next]_vars

-----------------------------------------------------------------------------
(* Properties *)
TypeOK ==
    /\ kind \in Kinds /\ opened \in 0 .. MaxOpened /\ slot \in 0 .. opened
    /\ {held, made} \subseteq BOOLEAN
    /\ sent \subseteq [from : 1 .. MaxOpened, no : 1 .. MaxSent, change : BOOLEAN, done : BOOLEAN]
    /\ effects \in [1 .. MaxOpened -> 0 .. MaxMade]
    /\ unheard \subseteq 1 .. MaxOpened

(* One opening of a dialog makes one thing at the panel, however often its button is pressed, as *)
(* long as the panel's answers arrive, and a dialog whose button is off has a call under way that *)
(* will turn it on.  The dialog that strips an address never turns its button off.                *)
MadeOnce ==
    /\ kind # VanityDialog => \A n \in 1 .. opened : n \notin unheard => effects[n] <= 1
    /\ slot # 0 /\ held => Calls(slot) # {}

(* What the code does not see to: a dialog goes with its own call only. The answer to a dialog *)
(* that was dismissed closes the next one.                                                      *)
ClosedByItsOwn ==
    [][slot # 0 /\ slot' = 0 /\ sent' # sent /\ ~kind.first => \E c \in sent \ sent' : c.from = slot]_vars
=============================================================================
