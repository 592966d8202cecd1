-------------------------------- MODULE FilesTab --------------------------------
(***************************************************************************)
(* The files tab of a server (Files.tsx) and its editor (FileEditor.tsx):  *)
(* the folder it shows, the operations that reload a folder when they are  *)
(* done, and one file that is opened, edited and saved.                    *)
(***************************************************************************)
EXTENDS Naturals, FiniteSets

CONSTANTS
    None, Folders, Files,
    Root,       \* the folder "/"
    MaxTexts,   \* bound: texts beside the empty one
    MaxAsked    \* bound: requests on their way

VARIABLES
    path, listing,      \* the breadcrumb; the folder that the entries are of
    loading, error,     \* error: one is shown
    asked,      \* requests on their way: [kind, at, text, newest]
    working,    \* busy
    disk,       \* what each file holds; a text is a number
    editing, initial, buffer, baseline, dirty,  \* the editor
    astray,     \* history: the newest listing was asked for a folder already left
    newest,     \* history: of the newest listing, "asked", "shown", "failed", or "hushed": failed
                \* and an operation has taken the error away
    crossed     \* history: typing, or another file, met a read or a save under way, or the answer
                \* to a save was lost

browser == <<path, listing, loading, error, astray, newest>>
folder  == <<path, listing, loading, astray>>
editor  == <<editing, initial, buffer, baseline, dirty>>
vars    == <<browser, asked, working, disk, editor, crossed>>

Request == [kind : {"list", "relist", "change", "read", "save"}, at : Folders \cup Files,
            text : 0..MaxTexts, newest : BOOLEAN]
Ask(kind, at) == [kind |-> kind, at |-> at, text |-> 0, newest |-> kind \in {"list", "relist"}]
Room == Cardinality(asked) < MaxAsked

Init ==
    /\ path = Root /\ listing = None /\ loading = TRUE /\ error = FALSE
    /\ astray = FALSE /\ newest = "asked"
    /\ asked = {Ask("list", Root)} /\ working = FALSE /\ disk = [f \in Files |-> 0]
    /\ editing = None /\ initial = 0 /\ buffer = 0 /\ baseline = 0 /\ dirty = FALSE
    /\ crossed = FALSE

-----------------------------------------------------------------------------
(* The browser *)

\* load(d): the listings asked for before are superseded.
Load(kind, d, others) ==
    /\ asked' = {[r EXCEPT !.newest = FALSE] : r \in others} \cup {Ask(kind, d)}
    /\ loading' = TRUE /\ error' = FALSE /\ astray' = (d # path') /\ newest' = "asked"

\* run(): whatever error is shown goes.
Run(request) ==
    /\ Room /\ asked' = asked \cup {request} /\ working' = TRUE
    /\ error' = FALSE /\ newest' = IF newest = "failed" THEN "hushed" ELSE newest
    /\ UNCHANGED folder

\* run() ends.
Over(r, fails) ==
    /\ asked' = asked \ {r} /\ working' = FALSE
    /\ error' = (error \/ fails) /\ UNCHANGED <<folder, newest>>

Navigate(d) ==
    /\ editing = None /\ d # path /\ Room /\ path' = d /\ Load("list", d, asked)
    /\ UNCHANGED <<listing, working, disk, editor, crossed>>

Refresh ==
    /\ editing = None /\ Room /\ UNCHANGED path /\ Load("list", path, asked)
    /\ UNCHANGED <<listing, working, disk, editor, crossed>>

Shown(r, ok) ==
    /\ loading' = FALSE /\ error' = (error \/ ~ok) /\ listing' = IF ok THEN r.at ELSE listing
    /\ newest' = IF ok THEN "shown" ELSE "failed"

\* Every answer is shown.
AnyListing(r, ok) ==
    /\ r \in asked /\ r.kind \in {"list", "relist"} /\ asked' = asked \ {r}
    /\ working' = (working /\ r.kind = "list")
    /\ Shown(r, ok)
    /\ UNCHANGED <<path, astray, disk, editor, crossed>>

\* Only the newest listing counts; the operation that asked for it is over.
Listed(r, ok) ==
    /\ r \in asked /\ r.kind \in {"list", "relist"} /\ asked' = asked \ {r}
    /\ working' = (working /\ r.kind = "list")
    /\ \/ r.newest /\ Shown(r, ok)
       \/ ~r.newest /\ UNCHANGED <<loading, error, listing, newest>>
    /\ UNCHANGED <<path, astray, disk, editor, crossed>>

\* New folder, Upload, Rename, Delete, Extract and Download in the folder that is shown then. New
\* folder and Upload wait for the one under way, the others do not.
Change == editing = None /\ Run(Ask("change", path)) /\ UNCHANGED <<disk, editor, crossed>>

\* The folder of the operation is listed again, whatever is shown by now.
Changed(r) ==
    /\ r \in asked /\ r.kind = "change" /\ UNCHANGED path
    /\ Load("relist", r.at, asked \ {r})
    /\ UNCHANGED <<listing, working, disk, editor, crossed>>

\* A download that is done, or a dialog of the system that was cancelled.
Done(r) ==
    /\ r \in asked /\ r.kind = "change" /\ Over(r, FALSE)
    /\ UNCHANGED <<disk, editor, crossed>>

Refused(r) ==
    /\ r \in asked /\ r.kind \in {"change", "read", "save"} /\ Over(r, TRUE)
    /\ UNCHANGED <<disk, editor, crossed>>

-----------------------------------------------------------------------------
(* The editor *)

OpenFile(f) ==
    /\ editing = None /\ listing # None /\ ~loading /\ Run(Ask("read", f))
    /\ UNCHANGED <<disk, editor, crossed>>

\* The file opens over whatever is open; the editor is built anew unless name and text are those
\* it was built for. Files of two folders may have one name.
Read(r) ==
    /\ r \in asked /\ r.kind = "read" /\ Over(r, FALSE)
    /\ editing' = r.at /\ initial' = disk[r.at] /\ dirty' = FALSE
    /\ \/ editing # None /\ initial = disk[r.at] /\ UNCHANGED <<buffer, baseline>>
       \/ (editing # r.at \/ initial # disk[r.at]) /\ buffer' = disk[r.at] /\ baseline' = disk[r.at]
    /\ crossed' = (crossed \/ editing # None)
    /\ UNCHANGED disk

\* Any other text, that of before too.
Type ==
    /\ editing # None /\ \E t \in 0..MaxTexts : t # buffer /\ buffer' = t
    /\ dirty' = (buffer' # baseline)
    /\ crossed' = (crossed \/ \E r \in asked : r.kind = "save")
    /\ UNCHANGED <<browser, asked, working, disk, editing, initial, baseline>>

\* The file is said to be saved before the answer.
SaveAtOnce ==
    /\ editing # None /\ dirty /\ ~working /\ Run([Ask("save", editing) EXCEPT !.text = buffer])
    /\ baseline' = buffer /\ dirty' = FALSE
    /\ UNCHANGED <<disk, editing, initial, buffer, crossed>>

Save ==
    /\ editing # None /\ dirty /\ ~working /\ Run([Ask("save", editing) EXCEPT !.text = buffer])
    /\ UNCHANGED <<disk, editor, crossed>>

\* markSaved() takes the text that is in the editor by now, of whatever file.
Saved(r) ==
    /\ r \in asked /\ r.kind = "save" /\ Over(r, FALSE)
    /\ disk' = [disk EXCEPT ![r.at] = r.text]
    /\ IF editing = None THEN UNCHANGED baseline ELSE baseline' = buffer
    /\ dirty' = FALSE
    /\ UNCHANGED <<editing, initial, buffer, crossed>>

\* The panel has written the file and its answer is lost: the editor takes it for not saved.
SavedUnheard(r) ==
    /\ r \in asked /\ r.kind = "save" /\ Over(r, TRUE)
    /\ disk' = [disk EXCEPT ![r.at] = r.text] /\ crossed' = TRUE
    /\ UNCHANGED editor

\* Close, at once or after the question whether to discard what is not saved.
Close ==
    /\ editing # None /\ editing' = None
    /\ crossed' = (crossed \/ \E r \in asked : r.kind \in {"read", "save"})
    /\ UNCHANGED <<browser, asked, working, disk, initial, buffer, baseline, dirty>>

-----------------------------------------------------------------------------
Next ==
    \/ \E d \in Folders : Navigate(d)
    \/ Refresh \/ Change \/ Type \/ Save \/ Close
    \/ \E r \in asked, ok \in BOOLEAN : Listed(r, ok)
    \/ \E r \in asked : Changed(r) \/ Done(r) \/ Refused(r) \/ Read(r) \/ Saved(r) \/ SavedUnheard(r)
    \/ \E f \in Files : OpenFile(f)

Spec == Init /\ [][Next]_vars

TypeOK ==
    /\ path \in Folders /\ listing \in Folders \cup {None}
    /\ asked \subseteq Request /\ disk \in [Files -> 0..MaxTexts] /\ editing \in Files \cup {None}
    /\ {initial, buffer, baseline} \subseteq 0..MaxTexts
    /\ newest \in {"asked", "shown", "failed", "hushed"}
    /\ {loading, error, working, dirty, astray, crossed} \subseteq BOOLEAN

(* Files.tsx:54-55: whatever order listings and operations end in, the entries are of the      *)
(* folder that the breadcrumb names, or the listing of that folder has failed and an error     *)
(* shows until the next operation takes it away; only an operation that reloads a folder which *)
(* was left meanwhile breaks this.                                                             *)
RightFolder ==
    listing # None /\ ~loading /\ ~astray =>
        listing = path \/ (newest = "failed" /\ error) \/ newest = "hushed"

(* A text that is not on the disk is marked as such, so that closing the editor asks first,    *)
(* undone or typed, saved or refused, as long as nobody types into a save or opens a file over *)
(* another and no answer to a save is lost.                                                    *)
UnsavedIsMarked == editing # None /\ ~dirty /\ ~crossed => buffer = disk[editing]

(* Files.tsx:54-55 with no exception.                                                          *)
RightFolderAlways == listing # None /\ ~loading => listing = path

=============================================================================
