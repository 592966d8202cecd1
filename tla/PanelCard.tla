------------------------------- MODULE PanelCard -------------------------------
(***************************************************************************)
(* A form that stays on its screen: the cards of the staff settings, the   *)
(* startup variables of a server, the reply of a ticket, the rows that add *)
(* a location, a tier or a price.  One field is typed into; the rest of    *)
(* the form is one more value, which nobody touches.                       *)
(***************************************************************************)
EXTENDS Naturals, FiniteSets

CONSTANTS
    None,
    MaxTexts,   \* bound: texts that are typed; a text is a number
    MaxSent     \* bound: calls on their way

\* fills: what a save that has worked puts into the form: its answer, a fresh "get", "empty", or
\* "nothing". blind: it can be saved before it was loaded, with the values it starts from. held: its
\* button is off while it is saved. swallows: a refusal is taken for a success.
Card == [fills |-> "empty", blind |-> FALSE, held |-> TRUE, swallows |-> FALSE]
EmailCard == [Card EXCEPT !.fills = "get", !.blind = TRUE]
SteamCard == [Card EXCEPT !.fills = "get"]
VanityCard == [Card EXCEPT !.fills = "answer", !.blind = TRUE]
ReferralsCard == [Card EXCEPT !.fills = "answer", !.blind = TRUE]
VariableRow == [Card EXCEPT !.fills = "get"]
SlotConfig == [Card EXCEPT !.fills = "nothing"]
TicketThread == Card
TierEditor == Card
PriceEditor == [Card EXCEPT !.swallows = TRUE]
AddLocation == [Card EXCEPT !.held = FALSE]

Cards == {EmailCard, SteamCard, VanityCard, ReferralsCard, VariableRow, SlotConfig, TicketThread,
          TierEditor, PriceEditor, AddLocation}

VARIABLES
    card,       \* the form of this behaviour
    text, rest, \* what it holds; the values it starts from are 0
    loaded,     \* it has been filled from the panel
    saving,     \* its button is off
    problem,    \* an error is shown
    sent,       \* calls under way: [op, text, rest, done]
    stored, storedRest,     \* what the panel holds
    typed,      \* texts typed so far
    draft,      \* history: what was typed and not heard to be taken, or None
    crossed,    \* history: typed while a call was under way
    blindly     \* history: saved before it was loaded

vars == <<card, text, rest, loaded, saving, problem, sent, stored, storedRest, typed, draft, crossed, blindly>>

Fetches == card.fills \in {"get", "answer"}
Ask(op) == [op |-> op, text |-> 0, rest |-> 0, done |-> FALSE]
Gets == {"load", "reload"}

Init ==
    /\ card \in Cards
    /\ text = 0 /\ rest = 0 /\ loaded = ~Fetches /\ saving = FALSE /\ problem = FALSE
    /\ sent = IF Fetches THEN {Ask("load")} ELSE {}
    /\ stored = IF Fetches THEN 1 ELSE 0
    /\ storedRest = 1
    /\ typed = 1 /\ draft = None /\ crossed = FALSE /\ blindly = FALSE

-----------------------------------------------------------------------------
\* No field is off while something is under way.
Type ==
    /\ typed < MaxTexts /\ typed' = typed + 1
    /\ text' = typed' /\ draft' = typed'
    /\ crossed' = (crossed \/ sent # {})
    /\ UNCHANGED <<card, rest, loaded, saving, problem, sent, stored, storedRest, blindly>>

\* Save, Send, Add or Create. What is added or sent must not be empty; a variable must be there and
\* have been changed.
Save ==
    /\ ~saving /\ Cardinality(sent) < MaxSent
    /\ text # 0 \/ Fetches
    /\ card = VariableRow => loaded /\ draft # None
    /\ saving' = card.held /\ problem' = FALSE
    /\ sent' = sent \cup {[op |-> "save", text |-> text, rest |-> rest, done |-> FALSE]}
    /\ crossed' = (crossed \/ sent # {})
    /\ blindly' = (blindly \/ ~loaded)
    /\ UNCHANGED <<card, text, rest, loaded, stored, storedRest, typed, draft>>

-----------------------------------------------------------------------------
\* The panel serves a load.
Serve(c) ==
    /\ ~c.done /\ c.op \in Gets
    /\ sent' = (sent \ {c}) \cup {[op |-> c.op, text |-> stored, rest |-> storedRest, done |-> TRUE]}
    /\ UNCHANGED <<card, text, rest, loaded, saving, problem, stored, storedRest, typed, draft, crossed, blindly>>

\* The panel takes a save. An empty field is left out of it, and what was not loaded where the card can.
Take(c) ==
    /\ ~c.done /\ c.op = "save"
    /\ sent' = (sent \ {c}) \cup {[c EXCEPT !.done = TRUE]}
    /\ stored' = IF c.text = 0 /\ card.fills = "get" THEN stored ELSE c.text
    /\ storedRest' = IF Fetches /\ (c.rest # 0 \/ card.blind) THEN c.rest ELSE storedRest
    /\ UNCHANGED <<card, text, rest, loaded, saving, problem, typed, draft, crossed, blindly>>

\* Only the field that is typed into is filled.
FillHalf(c) == text' = c.text /\ rest' = rest /\ loaded' = TRUE /\ draft' = None

\* The form is filled with what the panel told.
Fill(c) == text' = c.text /\ rest' = c.rest /\ loaded' = TRUE /\ draft' = None

\* The card's own load, or the one after a save.
Got(c) ==
    /\ c.op \in Gets /\ c.done /\ sent' = sent \ {c}
    /\ Fill(c) /\ saving' = (saving /\ c.op = "load") /\ problem' = FALSE
    /\ UNCHANGED <<card, stored, storedRest, typed, crossed, blindly>>

\* A save has worked.
Saved(c) ==
    /\ c.op = "save" /\ c.done
    /\ sent' = (sent \ {c}) \cup (IF card.fills = "get" THEN {Ask("reload")} ELSE {})
    /\ CASE card.fills = "answer"  -> Fill(c)
         [] card.fills = "empty"   -> text' = 0 /\ draft' = None /\ UNCHANGED <<rest, loaded>>
         [] card.fills = "get"     -> UNCHANGED <<text, rest, loaded, draft>>
         [] card.fills = "nothing" -> draft' = None /\ UNCHANGED <<text, rest, loaded>>
    /\ saving' = (saving /\ card.fills = "get")
    /\ UNCHANGED <<card, problem, stored, storedRest, typed, crossed, blindly>>

\* The field is emptied before the answer is looked at.
WipedFirst(c) ==
    /\ c.op \in Gets => ~c.done
    /\ sent' = sent \ {c} /\ problem' = TRUE /\ saving' = (saving /\ c.op = "load")
    /\ text' = IF c.op = "save" THEN 0 ELSE text
    /\ UNCHANGED <<card, rest, loaded, stored, storedRest, typed, draft, crossed, blindly>>

\* Refused, or not heard of. The row of a new price empties its field all the same.
Failed(c) ==
    /\ c.op \in Gets => ~c.done
    /\ sent' = sent \ {c} /\ problem' = TRUE /\ saving' = (saving /\ c.op = "load")
    /\ text' = IF card.swallows THEN 0 ELSE text
    /\ UNCHANGED <<card, rest, loaded, stored, storedRest, typed, draft, crossed, blindly>>

-----------------------------------------------------------------------------
Next == Type \/ Save \/ \E c \in sent : Serve(c) \/ Take(c) \/ Got(c) \/ Saved(c) \/ Failed(c)

Spec == Init /\ [][Next]_vars

-----------------------------------------------------------------------------
TypeOK ==
    /\ card \in Cards
    /\ {text, rest, stored, storedRest, typed} \subseteq 0 .. MaxTexts
    /\ draft \in (1 .. MaxTexts) \cup {None}
    /\ {loaded, saving, problem, crossed, blindly} \subseteq BOOLEAN
    /\ sent \subseteq [op : {"load", "reload", "save"}, text : 0 .. MaxTexts, rest : 0 .. 1, done : BOOLEAN]

(* What was typed stays in the form until the panel is heard to have taken it, refusals included, *)
(* unless it was typed into a load or a save; the row of a new price is the exception.            *)
DraftKept == ~crossed /\ draft # None /\ ~card.swallows => text = draft

(* A form that was loaded and is at rest shows what the panel holds, and a save never changes what *)
(* nobody typed, unless it was made before the form was loaded.                                    *)
CardIsTrue ==
    /\ Fetches /\ loaded /\ sent = {} /\ ~problem /\ draft = None /\ ~crossed => text = stored
    /\ ~blindly => storedRest = 1
=============================================================================
