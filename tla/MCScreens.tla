------------------------------- MODULE MCScreens -------------------------------
(* Screens and dialogs that show what the panel holds and change it, one in each behaviour. *)
EXTENDS Naturals

CONSTANTS
    None, Texts, Picks, Pages, MaxWork, MaxChanges, MaxOpened, MaxSent, MaxMade, MaxTexts,
    Folders, Files, Root, MaxAsked, MaxEdits

\* "Nothing" is told from whatever can be there; the rest is what the screens start from.
ASSUME NothingAssumption ==
    LET Wants == [text : Texts, pick : Picks, page : Pages] IN
    /\ None \notin Nat /\ None \notin Folders \cup Files
    /\ None \notin {"setup", "codes", "confirm", "asked", "ok", "failed"}
    /\ None \notin Wants /\ None \notin [step : {"sent", "done"}, want : Wants]
    /\ None \notin [text : Texts, pick : Picks, page : Pages, seen : Nat]

ASSUME StartAssumption ==
    /\ "" \in Texts /\ Picks # {} /\ 1 \in Pages /\ Root \in Folders
    /\ {MaxChanges, MaxOpened, MaxSent, MaxMade, MaxTexts, MaxEdits} \subseteq Nat

VARIABLES
    part,
    screen, want, timer, loads, table, errors, op, version, muddled,
    kind, opened, slot, held, made, sent, effects, unheard,
    card, text, rest, loaded, saving, problem, calls, kept, keptRest, keys, draft, mixed, blindly,
    path, listing, loading, error, astray, newest, asked, working, disk, editing, initial, buffer,
    baseline, dirty, crossed,
    stored, shown, edits, refused, pane, paneOpened, overlapped,
    totp, dialog, secret, codeWorking, known, enroll, verify, disable, asker, strays,
    excused, seen

List     == INSTANCE PanelList
Form     == INSTANCE PanelForm
Card     == INSTANCE PanelCard WITH MaxTexts <- MaxTexts + 3, sent <- calls, stored <- kept,
                                    storedRest <- keptRest, typed <- keys, crossed <- mixed
Tab      == INSTANCE FilesTab
Settings == INSTANCE SettingsPane WITH opened <- paneOpened
Codes    == INSTANCE TwoFactor WITH working <- codeWorking

list     == <<screen, want, timer, loads, table, errors, op, version, muddled>>
form     == <<kind, opened, slot, held, made, sent, effects, unheard>>
fields   == <<card, text, rest, loaded, saving, problem, calls, kept, keptRest, keys, draft, mixed, blindly>>
files    == <<path, listing, loading, error, astray, newest, asked, working, disk, editing, initial,
              buffer, baseline, dirty, crossed>>
settings == <<stored, shown, edits, refused, pane, paneOpened, overlapped>>
codes    == <<totp, dialog, secret, codeWorking, known, enroll, verify, disable, asker, strays,
              excused, seen>>

vars == <<part, list, form, fields, files, settings, codes>>

Init ==
    /\ part \in {"list", "form", "card", "files", "settings", "codes"}
    /\ List!Init /\ Form!Init /\ Card!Init /\ Tab!Init /\ Settings!Init /\ Codes!Init
    /\ part # "list" => screen = List!AdminAudit
    /\ part # "form" => kind = Form!Confirm
    /\ part # "card" => card = Card!EmailCard

Next ==
    /\ UNCHANGED part
    /\ \/ part = "list" /\ List!Next /\ UNCHANGED <<form, fields, files, settings, codes>>
       \/ part = "form" /\ Form!Next /\ UNCHANGED <<list, fields, files, settings, codes>>
       \/ part = "card" /\ Card!Next /\ UNCHANGED <<list, form, files, settings, codes>>
       \/ part = "files" /\ Tab!Next /\ UNCHANGED <<list, form, fields, settings, codes>>
       \/ part = "settings" /\ Settings!Next /\ UNCHANGED <<list, form, fields, files, codes>>
       \/ part = "codes" /\ Codes!Next /\ UNCHANGED <<list, form, fields, files, settings>>

Spec == Init /\ [][Next]_vars

-----------------------------------------------------------------------------
(* The properties of the parts *)
TypeOK ==
    List!TypeOK /\ Form!TypeOK /\ Card!TypeOK /\ Tab!TypeOK /\ Settings!TypeOK /\ Codes!TypeOK

ShownIsAsked == List!ShownIsAsked
ActionErrorStays == List!ActionErrorStays

(* A form makes one thing, keeps what was typed and shows what the panel holds. *)
FormsAreTrue == Form!MadeOnce /\ Card!DraftKept /\ Card!CardIsTrue
ClosedByItsOwn == Form!ClosedByItsOwn

(* The files tab shows the folder it names, and marks what is not saved. *)
EditorIsTrue == Tab!RightFolder /\ Tab!UnsavedIsMarked

(* Settings show what is stored, and the codes of a new second factor are shown. *)
SettingsAreTrue == Settings!ShownIsStored /\ Codes!CodesAreShown
RevertMatchesStored == Settings!RevertMatchesStored
=============================================================================
