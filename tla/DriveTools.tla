----------------------------- MODULE DriveTools -----------------------------
(***************************************************************************)
(* The tools that change files of Google Drive, called by several sessions *)
(* at a time:                                                              *)
(*   src/src/tools/drive-base.ts    the handlers                           *)
(*   src/src/tools/docs.ts          new documents, edits of text files     *)
(*   src/src/tools/sheets.ts        new spreadsheets                       *)
(*   src/src/tools/slides.ts        new presentations                      *)
(*   src/src/index.ts               folder paths, the check of a name      *)
(*   src/src/utils/retry.core.js    attempts of one insertion              *)
(*   src/src/download-file.ts       a download to a local path             *)
(*   src/src/tools/openai-drive-parity*.ts, google-drive-extended-base.ts  *)
(*                                  copies, new files, sheets, deletion    *)
(*                                                                         *)
(* A handler keeps nothing between calls.  It is a list of requests to     *)
(* Google, one step each, and what other sessions do gets in between.      *)
(* Google's answer to a request is atomic, and any request may fail.       *)
(***************************************************************************)
EXTENDS Integers, Sequences, FiniteSets

CONSTANTS
    Callers,            \* sessions; one call at a time each
    Names, None,
    Paths,              \* folder paths that calls name, as sequences of names
    Start,              \* the items on Drive, in the order of their ids
    RetryMax,
    MaxResults,         \* PDFs that one page of a folder's list holds
    MaxItems,           \* bounds of the model: items, calls,
    MaxCalls,
    MaxFaults           \* and requests that fail

Root == 0

Ids == 1..MaxItems

Roles == {"reader", "writer"}

Kinds == {"folder", "text", "pdf", "doc", "sheet", "slides", "shortcut", "gone"}

\* What Drive keeps of an item; its content is the numbers of the calls that wrote it.
Items ==
    [kind : Kinds, name : Names \cup {None}, parent : {Root} \cup Ids, body : Seq(Nat),
     trashed : BOOLEAN, locked : BOOLEAN, role : Roles \cup {None}]

ASSUME ConstantsAssumption ==
    /\ Paths \subseteq Seq(Names) /\ None \notin Names \cup Items
    /\ Start \in Seq(Items) /\ Len(Start) <= MaxItems
    /\ {RetryMax, MaxItems, MaxCalls, MaxFaults} \subseteq Nat
    /\ MaxResults \in Nat \ {0}

VARIABLES
    items,      \* id -> item
    revisions,  \* id -> contents that the item had
    call,       \* caller -> its call, until the next one
    calls, faults,
    local,      \* the file at the local path of downloads
    writers,    \* downloads that write to that path itself
    chunks      \* calls whose directory of PDF chunks is there

drive == <<items, revisions>>
disk == <<local, writers, chunks>>
counters == <<calls, faults>>
vars == <<drive, call, counters, disk>>

-----------------------------------------------------------------------------
(***************************************************************************)
(* The handlers: the requests that each makes, in order.                   *)
(***************************************************************************)

createTextFile == <<"resolve", "check", "create">>
createFolder == <<"resolve", "check", "create">>
createDocFromHTML == <<"resolve", "check", "create">>
createGoogleDoc == <<"resolve", "check", "create", "fill">>
createGoogleSheet == <<"resolve", "check", "new", "place", "values">>
createGoogleSlides == <<"resolve", "check", "new", "place", "slide", "look", "text">>
createShortcut == <<"resolve", "read", "create">>
uploadFile == <<"resolve", "create">>
uploadNewVersion == <<"read", "write">>
uploadPdfWithSplit == <<"resolve", "split", "parts">>
copyFile == <<"read", "resolve", "copy">>
convertPdfToGoogleDoc == <<"read", "copy">>
bulkConvertFolderPdfs == <<"list", "convert">>
moveItem == <<"resolve", "read", "move", "confirm">>
renameItem == <<"read", "rename">>
deleteItem == <<"read", "trash">>
lockFile == <<"read", "lock">>
unlockFile == <<"read", "unlock">>
updateTextFile == <<"read", "write">>
insertText == <<"read", "fetch", "write">>
deleteRange == <<"read", "fetch", "write">>
restoreRevision == <<"read", "fetch", "write">>
addPermission == <<"share">>
updatePermission == <<"share">>
shareFile == <<"read", "share">>
removePermission == <<"read", "unshare">>
downloadFile == <<"read", "stream", "save">>
copy_file == <<"provider", "copy">>
create_file == <<"provider", "create">>
duplicate_sheet_in_new_spreadsheet == <<"read", "new", "tab", "title">>
delete_file == <<"erase">>
empty_trash == <<"empty">>
restore_from_trash == <<"restore">>

Handlers ==
    [createTextFile |-> createTextFile, createFolder |-> createFolder,
     createDocFromHTML |-> createDocFromHTML, createGoogleDoc |-> createGoogleDoc,
     createGoogleSheet |-> createGoogleSheet, createGoogleSlides |-> createGoogleSlides,
     createShortcut |-> createShortcut, uploadFile |-> uploadFile,
     uploadNewVersion |-> uploadNewVersion, uploadPdfWithSplit |-> uploadPdfWithSplit,
     copyFile |-> copyFile, convertPdfToGoogleDoc |-> convertPdfToGoogleDoc,
     bulkConvertFolderPdfs |-> bulkConvertFolderPdfs, moveItem |-> moveItem,
     renameItem |-> renameItem, deleteItem |-> deleteItem, lockFile |-> lockFile,
     unlockFile |-> unlockFile, updateTextFile |-> updateTextFile,
     insertText |-> insertText, deleteRange |-> deleteRange,
     restoreRevision |-> restoreRevision, addPermission |-> addPermission,
     updatePermission |-> updatePermission, shareFile |-> shareFile,
     removePermission |-> removePermission, downloadFile |-> downloadFile,
     copy_file |-> copy_file, create_file |-> create_file,
     duplicate_sheet_in_new_spreadsheet |-> duplicate_sheet_in_new_spreadsheet,
     delete_file |-> delete_file, empty_trash |-> empty_trash,
     restore_from_trash |-> restore_from_trash]

Tools == DOMAIN Handlers

\* Those that place something in a folder, named by its id or by a path.
Placing == {t \in Tools : \E i \in DOMAIN Handlers[t] : Handlers[t][i] = "resolve"}

\* Those that take the id of a folder as well.
InFolder == Placing \cup {"copy_file", "create_file"}

\* Those that make an item of a new name, and those that only do so if it is free.
Checked == {"createTextFile", "createFolder", "createDocFromHTML", "createGoogleDoc", "createGoogleSheet", "createGoogleSlides"}

Making == Checked \cup {"uploadFile", "uploadPdfWithSplit", "create_file", "empty_trash"}

\* A call: its number, which also stands for the content it writes; its
\* arguments; the folder it has reached and the names that remain; what it read,
\* the page of PDFs that it listed, what it made and tried; and whether it is alone:
\* no other session has changed anything since it began, and no error was passed
\* over.  A call that was answered without an error stays here, at pc 0, until
\* something changes.
Idle ==
    [n |-> 0, tool |-> None, id |-> 0, folder |-> 0, path |-> <<>>, name |-> None, opt |-> None,
     pc |-> 0, at |-> 0, rest |-> <<>>, absent |-> FALSE, saw |-> None, listed |-> {}, made |-> 0,
     tries |-> 0, alone |-> FALSE]

Item(kind, name, parent, body) ==
    [kind |-> kind, name |-> name, parent |-> parent, body |-> body,
     trashed |-> FALSE, locked |-> FALSE, role |-> None]

\* A deleted item leaves its id behind.
Gone(i) == i # Root /\ items[i].kind = "gone"

Live(i) == items[i] # None /\ ~items[i].trashed

In(f) == {i \in Ids : Live(i) /\ items[i].parent = f}

Init ==
    /\ items = [i \in Ids |-> IF i <= Len(Start) THEN Start[i] ELSE None]
    /\ revisions = [i \in Ids |-> IF i <= Len(Start) THEN {Start[i].body} ELSE {}]
    /\ call = [c \in Callers |-> Idle]
    /\ calls = 0 /\ faults = 0
    /\ local = [state |-> "absent", by |-> 0]
    /\ writers = {} /\ chunks = {}

-----------------------------------------------------------------------------
(***************************************************************************)
(* Calls and their steps.                                                  *)
(***************************************************************************)

Step(r) == Handlers[r.tool][r.pc]

Ended(r, error) == IF error \/ ~r.alone THEN Idle ELSE [r EXCEPT !.pc = 0]

\* A presentation is filled slide by slide, opt of them.
MoreSlides(r) == r.tool = "createGoogleSlides" /\ r.tries < r.opt

\* The next request; a folder given by its id is not looked up.
Next1(r) ==
    IF r.pc < Len(Handlers[r.tool]) THEN [r EXCEPT !.pc = @ + 1]
    ELSE IF MoreSlides(r) THEN [r EXCEPT !.pc = 5]
    ELSE Ended(r, FALSE)

Advance(r) ==
    LET n == Next1(r)
        skipped == \/ Step(n) = "resolve" /\ n.rest = <<>>
                   \/ Step(n) = "provider" /\ ~n.opt
    IN  IF n.pc # 0 /\ skipped THEN Next1(n) ELSE n

\* The items that the next request names.
Needs(r) ==
    CASE Step(r) \in {"check", "split", "new", "convert", "save", "empty"} -> {}
      [] Step(r) \in {"read", "confirm"} -> {r.id}
      [] Step(r) = "resolve" -> {r.at}
      [] Step(r) = "title" -> {r.made}
      [] OTHER -> {r.id, r.at, r.made}

\* Google has no such item any more, or does not copy it: a folder.
Impossible(r) ==
    \/ \E i \in Needs(r) : Gone(i)
    \/ Step(r) \in {"copy", "provider"} /\ r.id # Root /\ items[r.id].kind = "folder"

Before(c, step) == call[c].pc # 0 /\ Step(call[c]) = step

At(c, step) == Before(c, step) /\ ~Impossible(call[c])

\* Call c goes on as r, and has changed something on Drive or not.
Goes(c, r) == call' = [call EXCEPT ![c] = r]

Changes(c, r) ==
    call' = [d \in Callers |->
                 IF d = c THEN r ELSE IF call[d].pc = 0 THEN Idle ELSE [call[d] EXCEPT !.alone = FALSE]]

\* The options of a tool: which role is given, where an
\* edit starts, whether a copy goes beside its original, whether a conversion
\* goes on after an error, whether a download may replace a file, whether Google's
\* own server is to be asked first, how many slides.
Options(t) ==
    CASE t \in {"addPermission", "updatePermission", "shareFile"} -> Roles
      [] t \in {"insertText", "deleteRange"} -> 0..1
      [] t = "createGoogleSlides" -> {2}
      [] t \in {"copyFile", "bulkConvertFolderPdfs", "downloadFile", "copy_file", "create_file"} -> BOOLEAN
      [] OTHER -> {None}

Folders == {Root} \cup {i \in Ids : items[i] # None /\ items[i].kind = "folder"}

Targets(t) ==
    IF t \in Making THEN {0}
    ELSE IF t = "bulkConvertFolderPdfs" THEN Folders
    ELSE {i \in Ids : items[i] # None /\ ~Gone(i) /\ (t \in {"insertText", "deleteRange"} => items[i].kind # "doc")}

\* A name that is left out, or that no other step looks at, is None.
NamesFor(t) ==
    IF t \in Checked \cup {"renameItem"} THEN Names
    ELSE IF t = "updateTextFile" THEN Names \cup {None}
    ELSE {None}

\* A call as it begins.
Called(n, t, id, folder, path, name, opt) ==
    [Idle EXCEPT !.n = n, !.tool = t, !.id = id, !.folder = folder, !.path = path,
                 !.name = name, !.opt = opt, !.at = folder, !.rest = path, !.alone = TRUE]

Begin(c) ==
    /\ call[c].pc = 0
    /\ calls < MaxCalls /\ calls' = calls + 1
    /\ \E t \in Tools :
       \E id \in Targets(t), name \in NamesFor(t), opt \in Options(t),
          path \in IF t \in Placing THEN Paths \cup {<<>>} ELSE {<<>>},
          folder \in IF t \in InFolder THEN Folders ELSE {Root} :
         /\ path # <<>> => folder = Root
         /\ t = "copyFile" /\ opt => path = <<>> /\ folder = Root
         /\ t \in {"copy_file", "create_file"} /\ ~opt => folder = Root
         /\ Goes(c, Advance(Called(calls + 1, t, id, folder, path, name, opt)))
    /\ UNCHANGED <<drive, faults, disk>>

Fault == faults < MaxFaults /\ faults' = faults + 1 /\ UNCHANGED calls

Quiet == UNCHANGED <<drive, counters, disk>>

\* A request was carried out; its answer may be lost.
Heard(answered) == IF answered THEN UNCHANGED counters ELSE Fault

After(r, answered) == IF answered THEN Advance(r) ELSE Ended(r, TRUE)

\* The next id; none is used again.
NewId == Cardinality({i \in Ids : items[i] # None}) + 1

CanCreate == NewId \in Ids

Creates(item) ==
    /\ CanCreate
    /\ items' = [items EXCEPT ![NewId] = item]
    /\ UNCHANGED revisions

-----------------------------------------------------------------------------
(***************************************************************************)
(* Folder paths and names.                                                 *)
(***************************************************************************)

\* resolvePath: a folder of that name, any of them, or none.
LookUpFolder(c) ==
    /\ At(c, "resolve") /\ ~call[c].absent
    /\ LET r == call[c]
           found == {i \in In(r.at) : items[i].kind = "folder" /\ items[i].name = Head(r.rest)}
       IN  IF found = {} THEN Goes(c, [r EXCEPT !.absent = TRUE])
           ELSE \E f \in found :
                  LET n == [r EXCEPT !.at = f, !.rest = Tail(@)] IN
                    Goes(c, IF n.rest = <<>> THEN Advance(n) ELSE n)
    /\ Quiet

MakeFolder(c) ==
    /\ At(c, "resolve") /\ call[c].absent
    /\ LET r == call[c]
           n == [r EXCEPT !.at = NewId, !.rest = Tail(@), !.absent = FALSE]
       IN  /\ Creates(Item("folder", Head(r.rest), r.at, <<>>))
           /\ Changes(c, IF n.rest = <<>> THEN Advance(n) ELSE n)
    /\ UNCHANGED <<counters, disk>>

Named(name, f) == {i \in In(f) : items[i].name = name}

\* checkFileExists; an error counts as "does not exist".
CheckName(c, ok) ==
    /\ At(c, "check")
    /\ IF ok THEN UNCHANGED counters ELSE Fault
    /\ LET r == call[c] IN
         Goes(c, IF ~ok THEN Advance([r EXCEPT !.alone = FALSE])
                 ELSE IF Named(r.name, r.at) # {} THEN Ended(r, TRUE)
                 ELSE Advance(r))
    /\ UNCHANGED <<drive, disk>>

KindMade(t) ==
    CASE t = "createTextFile" -> "text"
      [] t = "createFolder" -> "folder"
      [] t \in {"createGoogleDoc", "createDocFromHTML"} -> "doc"
      [] t = "createShortcut" -> "shortcut"
      [] t = "uploadFile" -> "pdf"
      [] t = "create_file" -> "sheet"

Create(c, answered) ==
    /\ At(c, "create")
    /\ Heard(answered)
    /\ LET r == call[c]
           name == IF r.tool = "createShortcut" THEN r.saw.name ELSE r.name
           blank == r.tool \in {"createFolder", "createGoogleDoc"} \/ (r.tool = "create_file" /\ ~r.opt)
           body == IF blank THEN <<>> ELSE <<r.n>>
       IN  /\ Creates(Item(KindMade(r.tool), name, r.at, body))
           /\ Changes(c, After([r EXCEPT !.made = NewId], answered))
    /\ UNCHANGED disk

\* A spreadsheet or a presentation is made in the root and then placed.
New(c, answered) ==
    /\ At(c, "new")
    /\ Heard(answered)
    /\ LET r == call[c] IN
         /\ Creates(Item(IF r.tool = "createGoogleSlides" THEN "slides" ELSE "sheet", r.name, Root, <<>>))
         /\ Changes(c, After([r EXCEPT !.id = IF r.tool \in Checked THEN NewId ELSE @,
                                       !.made = NewId], answered))
    /\ UNCHANGED disk

\* The source's sheet is copied into the new spreadsheet; its title is not kept here.
CopyTab(c, answered) ==
    /\ At(c, "tab")
    /\ Heard(answered)
    /\ LET r == call[c] IN
         /\ items' = [items EXCEPT ![r.made].body = items[r.id].body]
         /\ Changes(c, After(r, answered))
    /\ UNCHANGED <<revisions, disk>>

\* Google's own server is asked first, and then this one does it, unless that one
\* has answered in time: it may have done it all the same.
Provider(c, made, answered) ==
    /\ At(c, "provider")
    /\ answered => made
    /\ Heard(answered)
    /\ LET r == call[c]
           item == IF r.tool = "create_file" THEN Item("sheet", r.name, r.at, <<r.n>>)
                   ELSE Item(items[r.id].kind, r.name, r.at, items[r.id].body)
           after == IF answered THEN Ended([r EXCEPT !.made = NewId], FALSE)
                    ELSE Advance(r)
       IN  IF made
           THEN Creates(item) /\ Changes(c, after)
           ELSE UNCHANGED drive /\ Goes(c, after)
    /\ UNCHANGED disk

\* withRetry around the insertion: an attempt is applied or not, and answered,
\* lost to a retryable error, or refused for good.
FillDocument(c, applied, outcome) ==
    /\ At(c, "fill")
    /\ outcome = "ok" => applied
    /\ IF outcome = "ok" THEN UNCHANGED counters ELSE Fault
    /\ LET r == call[c]
           retried == outcome = "retryable" /\ r.tries < RetryMax
           after == IF outcome = "ok" THEN Advance(r)
                    ELSE IF retried THEN [r EXCEPT !.tries = @ + 1] ELSE Ended(r, TRUE)
       IN  IF applied
           THEN /\ items' = [items EXCEPT ![r.made].body = <<r.n>> \o @]
                /\ Changes(c, after)
           ELSE UNCHANGED items /\ Goes(c, after)
    /\ UNCHANGED <<revisions, disk>>

-----------------------------------------------------------------------------
(***************************************************************************)
(* What a handler reads of its item, and when it goes no further.          *)
(***************************************************************************)

\* The answer is already so.
NothingToDo(r, item) ==
    \/ r.tool = "lockFile" /\ item.locked
    \/ r.tool = "unlockFile" /\ ~item.locked
    \/ r.tool = "shareFile" /\ item.role = r.opt

Native == {"doc", "sheet", "slides"}

Declined(r, item) ==
    \/ r.tool \in {"updateTextFile", "insertText", "deleteRange"} /\ item.kind # "text"
    \/ r.tool = "uploadNewVersion" /\ item.kind \in Native \cup {"folder", "shortcut"}
    \/ r.tool = "convertPdfToGoogleDoc" /\ item.kind # "pdf"
    \/ r.tool = "removePermission" /\ item.role = None
    \/ r.tool = "restoreRevision" /\ item.kind \in {"folder", "shortcut"}
    \/ r.tool = "duplicate_sheet_in_new_spreadsheet" /\ item.kind # "sheet"
    \/ r.tool = "downloadFile" /\ (item.kind \in {"folder", "shortcut"} \/ (local.state # "absent" /\ ~r.opt))

\* The folder of a copy that is to lie beside its original, as read.
Beside(r, item) ==
    IF (r.tool = "copyFile" /\ r.opt) \/ r.tool = "convertPdfToGoogleDoc" THEN item.parent ELSE r.at

\* moveItem compares the two ids it was given before it reads.
IntoItself(r) == r.tool = "moveItem" /\ r.path = <<>> /\ r.folder = r.id

Read(c) ==
    /\ At(c, "read")
    /\ LET r == call[c]
           item == items[r.id]
           n == [r EXCEPT !.saw = item, !.at = Beside(r, item),
                          !.absent = (r.tool = "downloadFile" /\ local.state = "absent")]
       IN  Goes(c, IF IntoItself(r) \/ Declined(r, item) THEN Ended(r, TRUE)
                   ELSE IF NothingToDo(r, item) THEN Ended(r, FALSE)
                   ELSE Advance(n))
    /\ Quiet

\* The text of a file or of a revision; offsets must lie in it.
Fetch(c) ==
    /\ At(c, "fetch")
    /\ LET r == call[c] IN
         \E text \in IF r.tool = "restoreRevision" THEN revisions[r.id] ELSE {items[r.id].body} :
           LET last == IF r.tool = "deleteRange" THEN r.opt + 1 ELSE r.opt IN
             Goes(c, IF r.tool # "restoreRevision" /\ last > Len(text) THEN Ended(r, TRUE)
                     ELSE Advance([r EXCEPT !.saw = text]))
    /\ Quiet

-----------------------------------------------------------------------------
(***************************************************************************)
(* What a handler writes.                                                  *)
(***************************************************************************)

\* One request changes item id to new, or Google refuses it.
Updates(c, step, allowed, new, answered) ==
    /\ At(c, step)
    /\ IF allowed
       THEN /\ Heard(answered)
            /\ items' = [items EXCEPT ![call[c].id] = new]
            /\ Changes(c, After(call[c], answered))
       ELSE /\ answered
            /\ Goes(c, Ended(call[c], TRUE))
            /\ UNCHANGED <<items, counters>>
    /\ UNCHANGED disk

\* Folder f, the folder it is in, and so on up to the root.
Ancestors(f) ==
    LET up[d \in 0..MaxItems] ==
            IF d = 0 THEN f ELSE IF up[d - 1] = Root THEN Root ELSE items[up[d - 1]].parent
    IN  up

\* Folder f is i or lies in it.
Inside(f, i) == \E d \in 0..MaxItems : Ancestors(f)[d] = i

\* Google keeps one parent, and no folder in itself.
Move(c, answered) ==
    LET r == call[c] IN
      /\ Updates(c, "move", items[r.id].parent = r.saw.parent /\ ~Inside(r.at, r.id),
                 [items[r.id] EXCEPT !.parent = r.at], answered)
      /\ UNCHANGED revisions

Confirm(c) == (\E step \in {"confirm", "look", "title"} : At(c, step)) /\ Goes(c, Advance(call[c])) /\ Quiet

\* The new item goes from the root to its folder.
Place(c, answered) ==
    LET r == call[c] IN
      /\ Updates(c, "place", items[r.id].parent = Root, [items[r.id] EXCEPT !.parent = r.at], answered)
      /\ UNCHANGED revisions

FillSheet(c, answered) ==
    /\ Updates(c, "values", TRUE, [items[call[c].id] EXCEPT !.body = <<call[c].n>>], answered)
    /\ UNCHANGED revisions

\* A slide is added, its placeholders are looked up, and filled.
AddSlide(c, answered) ==
    /\ At(c, "slide")
    /\ Heard(answered)
    /\ LET r == call[c] IN
         /\ items' = [items EXCEPT ![r.id].body = Append(@, 0)]
         /\ Changes(c, After([r EXCEPT !.tries = @ + 1], answered))
    /\ UNCHANGED <<revisions, disk>>

FillSlide(c, answered) ==
    /\ Updates(c, "text", TRUE, [items[call[c].id] EXCEPT !.body[call[c].tries] = call[c].n], answered)
    /\ UNCHANGED revisions

Rename(c, answered) ==
    /\ Updates(c, "rename", TRUE, [items[call[c].id] EXCEPT !.name = call[c].name], answered)
    /\ UNCHANGED revisions

Trash(c, answered) ==
    /\ Updates(c, "trash", TRUE, [items[call[c].id] EXCEPT !.trashed = TRUE], answered)
    /\ UNCHANGED revisions

Restore(c, answered) ==
    /\ Updates(c, "restore", TRUE, [items[call[c].id] EXCEPT !.trashed = FALSE], answered)
    /\ UNCHANGED revisions

\* Deleted for good, with all that lies in them.
Without(S) ==
    [i \in Ids |-> IF items[i] # None /\ \E j \in S : Inside(i, j)
                   THEN [Item("gone", None, Root, <<>>) EXCEPT !.trashed = TRUE] ELSE items[i]]

Erase(c, answered) ==
    /\ At(c, "erase") \/ At(c, "empty")
    /\ Heard(answered)
    /\ items' = Without(IF Step(call[c]) = "erase" THEN {call[c].id}
                        ELSE {i \in Ids : items[i] # None /\ items[i].trashed})
    /\ Changes(c, After(call[c], answered))
    /\ UNCHANGED <<revisions, disk>>

Lock(c, answered) ==
    /\ Updates(c, "lock", TRUE, [items[call[c].id] EXCEPT !.locked = TRUE], answered)
    /\ UNCHANGED revisions

Unlock(c, answered) ==
    /\ Updates(c, "unlock", TRUE, [items[call[c].id] EXCEPT !.locked = FALSE], answered)
    /\ UNCHANGED revisions

\* A role is given, or changed where the person has one.
Share(c, answered) ==
    LET r == call[c]
        creates == r.tool = "addPermission" \/ (r.tool = "shareFile" /\ r.saw.role = None)
    IN  /\ Updates(c, "share", creates \/ items[r.id].role # None,
                   [items[r.id] EXCEPT !.role = r.opt], answered)
        /\ UNCHANGED revisions

Unshare(c, answered) ==
    /\ Updates(c, "unshare", items[call[c].id].role # None,
               [items[call[c].id] EXCEPT !.role = None], answered)
    /\ UNCHANGED revisions

\* The new text, made of the one that was fetched.
NewText(r) ==
    CASE r.tool = "insertText" ->
            SubSeq(r.saw, 1, r.opt) \o <<r.n>> \o SubSeq(r.saw, r.opt + 1, Len(r.saw))
      [] r.tool = "deleteRange" -> SubSeq(r.saw, 1, r.opt) \o SubSeq(r.saw, r.opt + 2, Len(r.saw))
      [] r.tool = "restoreRevision" -> r.saw
      [] OTHER -> <<r.n>>

Write(c, answered) ==
    LET r == call[c]
        old == items[r.id]
        name == IF r.name = None THEN old.name ELSE r.name
    IN  /\ Updates(c, "write", ~old.locked, [old EXCEPT !.body = NewText(r), !.name = name], answered)
        /\ revisions' = IF items' = items THEN revisions
                        ELSE [revisions EXCEPT ![r.id] = @ \cup {NewText(r)}]

\* copyFile, convertPdfToGoogleDoc, copy_file: of the item as it is now.
Copy(c, answered) ==
    /\ At(c, "copy")
    /\ Heard(answered)
    /\ LET r == call[c]
           kind == IF r.tool = "convertPdfToGoogleDoc" THEN "doc" ELSE items[r.id].kind
       IN  /\ Creates(Item(kind, r.name, r.at, items[r.id].body))
           /\ Changes(c, After([r EXCEPT !.made = NewId], answered))
    /\ UNCHANGED disk

\* Mutant: a list that may be partial.
PartialPages(f) == SUBSET {i \in In(f) : items[i].kind = "pdf"}

\* One page of a folder's PDFs: all of them, or as many as were asked for.
PagesOf(f) ==
    LET pdfs == {i \in In(f) : items[i].kind = "pdf"} IN
      {page \in SUBSET pdfs : Cardinality(page) = MaxResults \/ (page = pdfs /\ Cardinality(pdfs) < MaxResults)}

\* bulkConvertFolderPdfs: one page of the PDFs that are there, one after the other,
\* and never the next page; an error ends it or not, and is only reported.
ListPdfs(c) ==
    /\ At(c, "list")
    /\ \E page \in PagesOf(call[c].id) :
         LET r == [call[c] EXCEPT !.saw = page, !.listed = page] IN
           Goes(c, IF page = {} THEN Ended(r, FALSE) ELSE Advance(r))
    /\ Quiet

ConvertOne(c, made, answered) ==
    /\ At(c, "convert")
    /\ answered => made
    /\ \E f \in call[c].saw :
         LET r == [call[c] EXCEPT !.saw = @ \ {f}, !.alone = @ /\ answered]
             ends == r.saw = {} \/ (~answered /\ ~r.opt)
             after == IF ends THEN Ended(r, FALSE) ELSE r
         IN  /\ IF Gone(f) \/ Gone(r.id) THEN ~made /\ UNCHANGED counters ELSE Heard(answered)
             /\ IF made
                THEN Creates(Item("doc", None, r.id, items[f].body)) /\ Changes(c, after)
                ELSE UNCHANGED drive /\ Goes(c, after)
    /\ UNCHANGED disk

-----------------------------------------------------------------------------
(***************************************************************************)
(* Local files.                                                            *)
(***************************************************************************)

Parts == 2

\* splitPdfIntoChunkFiles: it fails before or after it has made its directory.
Split(c, made, ok) ==
    /\ At(c, "split")
    /\ ok => made
    /\ Heard(ok)
    /\ chunks' = IF made THEN chunks \cup {call[c].n} ELSE chunks
    /\ Goes(c, After([call[c] EXCEPT !.tries = Parts], ok))
    /\ UNCHANGED <<drive, local, writers>>

\* Mutant: the directory is removed after the last part only.
TidyAfterAll(c, r) == IF r.tool # None /\ r.tries = 0 THEN chunks \ {call[c].n} ELSE chunks

\* finally
Tidy(c, r) == IF r.pc = 0 THEN chunks \ {call[c].n} ELSE chunks

UploadPart(c, made, answered) ==
    /\ At(c, "parts")
    /\ answered => made
    /\ Heard(answered)
    /\ LET r == [call[c] EXCEPT !.tries = @ - 1]
           after == IF answered /\ r.tries > 0 THEN r ELSE Ended(r, ~answered)
       IN  /\ IF made
              THEN Creates(Item("pdf", None, r.at, <<r.n>>)) /\ Changes(c, after)
              ELSE UNCHANGED drive /\ Goes(c, after)
           /\ chunks' = Tidy(c, after)
    /\ UNCHANGED <<local, writers>>

\* Mutant: the file is always written where it is to be.
AlwaysDirect(r) == TRUE

\* A download writes to the path itself unless it is to replace a file there.
Direct(r) == r.absent

\* The content arrives and the file is opened.
OpenLocal(c) ==
    /\ At(c, "stream")
    /\ LET r == call[c] IN
         IF Direct(r)
         THEN /\ local' = [state |-> IF writers = {} THEN "partial" ELSE "mixed", by |-> r.n]
              /\ writers' = writers \cup {r.n}
         ELSE UNCHANGED <<local, writers>>
    /\ Goes(c, Advance(call[c]))
    /\ UNCHANGED <<drive, counters, chunks>>

\* It is complete: in place, to be renamed, or unlinked by another download.
SaveLocal(c) ==
    /\ At(c, "save")
    /\ LET r == call[c] IN
         IF ~Direct(r)
         THEN /\ local' = [state |-> "whole", by |-> r.n] /\ writers' = {}
              /\ Goes(c, Advance(r))
         ELSE /\ local' = IF r.n \in writers /\ local.state = "partial"
                          THEN [state |-> "whole", by |-> r.n] ELSE local
              /\ writers' = writers \ {r.n}
              /\ Goes(c, IF local.state = "absent" THEN Ended(r, TRUE) ELSE Advance(r))
    /\ UNCHANGED <<drive, counters, chunks>>

\* It breaks off: what was written is unlinked.
SaveFails(c) ==
    /\ At(c, "save")
    /\ Fault
    /\ IF Direct(call[c])
       THEN /\ local' = [state |-> "absent", by |-> 0] /\ writers' = {}
       ELSE UNCHANGED <<local, writers>>
    /\ Goes(c, Ended(call[c], TRUE))
    /\ UNCHANGED <<drive, chunks>>

-----------------------------------------------------------------------------
\* Google refuses a request for what is not there, and the call ends.
Refused(c) ==
    /\ call[c].pc # 0 /\ Impossible(call[c])
    /\ Goes(c, Ended(call[c], TRUE))
    /\ chunks' = chunks \ {call[c].n}
    /\ UNCHANGED <<drive, counters, local, writers>>

\* A request fails before it is carried out, and the call with it.
RequestFails(c) ==
    /\ call[c].pc # 0 /\ Step(call[c]) \notin {"check", "fill", "convert", "split", "parts", "save"}
    /\ Fault
    /\ Goes(c, Ended(call[c], TRUE))
    /\ UNCHANGED <<drive, disk>>

Handle(c) ==
    \/ LookUpFolder(c) \/ MakeFolder(c) \/ Read(c) \/ Fetch(c) \/ Confirm(c) \/ ListPdfs(c)
    \/ OpenLocal(c) \/ SaveLocal(c) \/ SaveFails(c) \/ Refused(c) \/ RequestFails(c)
    \/ \E ok \in BOOLEAN :
         \/ CheckName(c, ok) \/ Create(c, ok) \/ New(c, ok) \/ Place(c, ok) \/ FillSheet(c, ok)
         \/ AddSlide(c, ok) \/ FillSlide(c, ok) \/ Move(c, ok) \/ Rename(c, ok) \/ Trash(c, ok)
         \/ Lock(c, ok) \/ Unlock(c, ok) \/ Share(c, ok) \/ Unshare(c, ok) \/ Write(c, ok) \/ Copy(c, ok)
         \/ CopyTab(c, ok) \/ Restore(c, ok) \/ Erase(c, ok)
         \/ \E done \in BOOLEAN : Provider(c, done, ok) \/ ConvertOne(c, done, ok) \/ Split(c, done, ok) \/ UploadPart(c, done, ok)
    \/ \E applied \in BOOLEAN, outcome \in {"ok", "retryable", "final"} : FillDocument(c, applied, outcome)

Next == \E c \in Callers : Begin(c) \/ Handle(c)

Spec == Init /\ [][Next]_vars

-----------------------------------------------------------------------------
(***************************************************************************)
(* Properties.                                                             *)
(***************************************************************************)

\* The folders that the first n names of a path lead to.
FoldersAlong(path) ==
    LET at[n \in 0..Len(path)] ==
            IF n = 0 THEN {Root}
            ELSE {f \in Folders \ {Root} : Live(f) /\ items[f].parent \in at[n - 1] /\ items[f].name = path[n]}
    IN  at

\* The folders that a path names.
FoldersAt(path) == FoldersAlong(path)[Len(path)]

\* What a tool promises, said of the Drive after it.
Promise(r) ==
    LET item == items[r.id] IN
    CASE r.tool \in Checked ->
             /\ Named(r.name, r.at) = {r.made}
             /\ r.tool = "createGoogleDoc" => items[r.made].body # <<>>
             /\ r.tool = "createGoogleSheet" => items[r.made].body = <<r.n>>
             /\ r.tool = "createGoogleSlides" => items[r.made].body = [i \in 1..r.opt |-> r.n]
      [] r.tool = "moveItem" -> item.parent = r.at
      [] r.tool = "renameItem" -> item.name = r.name
      [] r.tool = "deleteItem" -> item.trashed
      [] r.tool = "lockFile" -> item.locked
      [] r.tool = "unlockFile" -> ~item.locked
      [] r.tool \in {"addPermission", "updatePermission", "shareFile"} -> item.role = r.opt
      [] r.tool = "restore_from_trash" -> ~item.trashed
      [] r.tool = "delete_file" -> Gone(r.id)
      [] r.tool = "empty_trash" -> \A i \in Ids : items[i] # None /\ items[i].trashed => Gone(i)
      [] r.tool \in {"copyFile", "convertPdfToGoogleDoc", "copy_file"} ->
             items[r.made].parent = r.at /\ items[r.made].body = item.body
      [] r.tool \in {"createShortcut", "uploadFile", "create_file"} ->
             items[r.made].parent = r.at /\ (r.tool = "create_file" => items[r.made].kind = "sheet")
      [] r.tool \in {"uploadNewVersion", "updateTextFile"} -> item.body = <<r.n>>
      [] r.tool = "restoreRevision" -> item.body = r.saw
      [] r.tool = "duplicate_sheet_in_new_spreadsheet" ->
             items[r.made].name = r.name /\ items[r.made].body = item.body
      [] r.tool = "removePermission" -> item.role = None
      [] r.tool = "insertText" -> item.body[r.opt + 1] = r.n
                                  /\ \A i \in 1..Len(r.saw) :
                                       item.body[IF i <= r.opt THEN i ELSE i + 1] = r.saw[i]
      [] r.tool = "bulkConvertFolderPdfs" -> \A p \in In(r.id) : items[p].kind = "pdf" =>
             \/ \E d \in In(r.id) : items[d].kind = "doc" /\ items[d].body = items[p].body
             \/ p \notin r.listed /\ Cardinality(r.listed) = MaxResults
      [] OTHER -> TRUE

\* A call that answers without an error has done what it is for, also when Google's
\* own server was asked first and did it too late; it has done it in the folder
\* that its path names; and a tool that checks a name has made the only item of
\* that name.  bulkConvertFolderPdfs has converted every PDF of its folder, but for
\* those that a full page leaves out.  Said of calls during which no other session
\* changed anything, and which passed over no error: a name that could not be
\* checked, or a PDF that was reported as not converted.
AnsweredIsDone ==
    \A c \in Callers :
        LET r == call[c] IN
          r.tool # None /\ r.pc = 0 =>
              /\ Promise(r)
              /\ r.path # <<>> => r.at \in FoldersAt(r.path)

\* A download that replaces a file does so with a whole one or not at all: the
\* only downloads that may open, cut short or unlink a whole local file are those
\* that found none there when they began.
WholeStaysWhole ==
    [][local.state = "whole" /\ local'.state # "whole" =>
          \E c \in Callers : call[c] # call'[c] /\ call[c].tool = "downloadFile" /\ call[c].absent]_vars

\* However the upload of the parts of a PDF ends, whichever part fails, and even if
\* its folder is deleted under it, the directory of the parts is gone when the call
\* has ended.
ChunksAreRemoved ==
    [][\A c \in Callers :
          Before(c, "parts") /\ ~Before(c, "parts")' => call[c].n \notin chunks']_vars
===============================================================================
