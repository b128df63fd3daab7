-------------------------- MODULE DriveToolsProofs --------------------------
(***************************************************************************)
(* Proofs about DriveTools, for any sessions, names, paths, items at the   *)
(* start and bounds: what a call that answered without an error has done   *)
(* (AnsweredIsDone), the local file of downloads (WholeStaysWhole) and the *)
(* directories of PDF parts (ChunksAreRemoved).                            *)
(***************************************************************************)
EXTENDS DriveTools, FiniteSetTheorems, SequenceTheorems, WellFoundedInduction, TLAPS

(***************************************************************************)
(* The handlers: which requests each makes, and what comes after which.    *)
(***************************************************************************)

\* The tools.
LEMMA ToolsAre ==
  Tools = {"createTextFile", "createFolder", "createDocFromHTML", "createGoogleDoc",
           "createGoogleSheet", "createGoogleSlides", "createShortcut", "uploadFile",
           "uploadNewVersion", "uploadPdfWithSplit", "copyFile",
           "convertPdfToGoogleDoc", "bulkConvertFolderPdfs", "moveItem",
           "renameItem", "deleteItem", "lockFile", "unlockFile", "updateTextFile",
           "insertText", "deleteRange", "restoreRevision", "addPermission",
           "updatePermission", "shareFile", "removePermission", "downloadFile",
           "copy_file", "create_file", "duplicate_sheet_in_new_spreadsheet",
           "delete_file", "empty_trash", "restore_from_trash"}
  BY DEF Tools, Handlers

\* The number of requests of a tool.
Length(t) == Len(Handlers[t])

LEMMA Lengths ==
  /\ \A t \in {"addPermission", "updatePermission", "delete_file", "empty_trash",
               "restore_from_trash"} : Length(t) = 1
  /\ \A t \in {"uploadFile", "uploadNewVersion", "convertPdfToGoogleDoc",
               "bulkConvertFolderPdfs", "renameItem", "deleteItem", "lockFile", "unlockFile",
               "updateTextFile", "shareFile", "removePermission", "copy_file", "create_file"} :
         Length(t) = 2
  /\ \A t \in {"createTextFile", "createFolder", "createDocFromHTML", "createShortcut",
               "uploadPdfWithSplit", "copyFile", "insertText", "deleteRange",
               "restoreRevision", "downloadFile"} : Length(t) = 3
  /\ \A t \in {"createGoogleDoc", "moveItem", "duplicate_sheet_in_new_spreadsheet"} :
         Length(t) = 4
  /\ Length("createGoogleSheet") = 5
  /\ Length("createGoogleSlides") = 7
  BY DEF Length, Tools, Handlers, createTextFile, createFolder, createDocFromHTML, createGoogleDoc,
     createGoogleSheet, createGoogleSlides, createShortcut, uploadFile, uploadNewVersion,
     uploadPdfWithSplit, copyFile, convertPdfToGoogleDoc, bulkConvertFolderPdfs, moveItem,
     renameItem, deleteItem, lockFile, unlockFile, updateTextFile, insertText, deleteRange,
     restoreRevision, addPermission, updatePermission, shareFile, removePermission,
     downloadFile, copy_file, create_file, duplicate_sheet_in_new_spreadsheet, delete_file,
     empty_trash, restore_from_trash

\* A handler is a sequence of requests, seven at most.
LEMMA HandlersAreSequences ==
  ASSUME NEW t \in Tools
  PROVE  Length(t) \in 1..7 /\ DOMAIN Handlers[t] = 1..Length(t)
  <1>1. CASE t \in {"addPermission", "updatePermission", "delete_file", "empty_trash",
                    "restore_from_trash"}
    BY <1>1 DEF Length, Handlers, addPermission, updatePermission, delete_file, empty_trash,
       restore_from_trash
  <1>2. CASE t \in {"uploadFile", "uploadNewVersion", "convertPdfToGoogleDoc",
                    "bulkConvertFolderPdfs", "renameItem", "deleteItem", "lockFile",
                    "unlockFile", "updateTextFile", "shareFile", "removePermission",
                    "copy_file", "create_file"}
    BY <1>2 DEF Length, Handlers, uploadFile, uploadNewVersion, convertPdfToGoogleDoc,
       bulkConvertFolderPdfs, renameItem, deleteItem, lockFile, unlockFile,
       updateTextFile, shareFile, removePermission, copy_file, create_file
  <1>3. CASE t \in {"createTextFile", "createFolder", "createDocFromHTML",
                    "createShortcut", "uploadPdfWithSplit", "copyFile", "insertText",
                    "deleteRange", "restoreRevision", "downloadFile"}
    BY <1>3 DEF Length, Handlers, createTextFile, createFolder, createDocFromHTML,
       createShortcut, uploadPdfWithSplit, copyFile, insertText, deleteRange,
       restoreRevision, downloadFile
  <1>4. CASE t \in {"createGoogleDoc", "moveItem",
                    "duplicate_sheet_in_new_spreadsheet"}
    BY <1>4 DEF Length, Handlers, createGoogleDoc, moveItem,
       duplicate_sheet_in_new_spreadsheet
  <1>5. CASE t \in {"createGoogleSheet"}
    BY <1>5 DEF Length, Handlers, createGoogleSheet
  <1>6. CASE t \in {"createGoogleSlides"}
    BY SMTT(30), <1>6 DEF Length, Handlers, createGoogleSlides
  <1> QED
    BY <1>1, <1>2, <1>3, <1>4, <1>5, <1>6, ToolsAre

\* Where each request stands in the handlers.
LEMMA Requests ==
  ASSUME NEW t \in Tools, NEW i \in 1..Length(t)
  PROVE  /\ Handlers[t][i] = "resolve" <=>
              \/ i = 1 /\ t \in {"createTextFile", "createFolder", "createDocFromHTML",
                           "createGoogleDoc", "createGoogleSheet", "createGoogleSlides",
                           "createShortcut", "uploadFile", "uploadPdfWithSplit", "moveItem"}
              \/ i = 2 /\ t = "copyFile"
         /\ Handlers[t][i] = "check" <=> i = 2 /\ t \in Checked
         /\ Handlers[t][i] = "create" <=>
              \/ i = 3 /\ t \in {"createTextFile", "createFolder", "createDocFromHTML",
                                 "createGoogleDoc", "createShortcut"}
              \/ i = 2 /\ t \in {"uploadFile", "create_file"}
         /\ Handlers[t][i] = "fill" <=> i = 4 /\ t = "createGoogleDoc"
         /\ Handlers[t][i] = "new" <=>
              \/ i = 3 /\ t \in {"createGoogleSheet", "createGoogleSlides"}
              \/ i = 2 /\ t = "duplicate_sheet_in_new_spreadsheet"
         /\ Handlers[t][i] = "place" <=>
              i = 4 /\ t \in {"createGoogleSheet", "createGoogleSlides"}
         /\ Handlers[t][i] = "values" <=> i = 5 /\ t = "createGoogleSheet"
         /\ Handlers[t][i] = "slide" <=> i = 5 /\ t = "createGoogleSlides"
         /\ Handlers[t][i] = "look" <=> i = 6 /\ t = "createGoogleSlides"
         /\ Handlers[t][i] = "text" <=> i = 7 /\ t = "createGoogleSlides"
         /\ Handlers[t][i] = "read" <=>
              \/ i = 1 /\ t \in {"uploadNewVersion", "copyFile", "convertPdfToGoogleDoc",
                                 "renameItem", "deleteItem", "lockFile", "unlockFile",
                                 "updateTextFile", "insertText", "deleteRange",
                                 "restoreRevision", "shareFile", "removePermission",
                                 "downloadFile", "duplicate_sheet_in_new_spreadsheet"}
              \/ i = 2 /\ t \in {"createShortcut", "moveItem"}
         /\ Handlers[t][i] = "fetch" <=>
              i = 2 /\ t \in {"insertText", "deleteRange", "restoreRevision"}
         /\ Handlers[t][i] = "write" <=>
              \/ i = 2 /\ t \in {"uploadNewVersion", "updateTextFile"}
              \/ i = 3 /\ t \in {"insertText", "deleteRange", "restoreRevision"}
         /\ Handlers[t][i] = "split" <=> i = 2 /\ t = "uploadPdfWithSplit"
         /\ Handlers[t][i] = "parts" <=> i = 3 /\ t = "uploadPdfWithSplit"
         /\ Handlers[t][i] = "copy" <=>
              \/ i = 3 /\ t = "copyFile"
              \/ i = 2 /\ t \in {"convertPdfToGoogleDoc", "copy_file"}
         /\ Handlers[t][i] = "list" <=> i = 1 /\ t = "bulkConvertFolderPdfs"
         /\ Handlers[t][i] = "convert" <=> i = 2 /\ t = "bulkConvertFolderPdfs"
         /\ Handlers[t][i] = "move" <=> i = 3 /\ t = "moveItem"
         /\ Handlers[t][i] = "confirm" <=> i = 4 /\ t = "moveItem"
         /\ Handlers[t][i] = "rename" <=> i = 2 /\ t = "renameItem"
         /\ Handlers[t][i] = "trash" <=> i = 2 /\ t = "deleteItem"
         /\ Handlers[t][i] = "lock" <=> i = 2 /\ t = "lockFile"
         /\ Handlers[t][i] = "unlock" <=> i = 2 /\ t = "unlockFile"
         /\ Handlers[t][i] = "share" <=>
              \/ i = 1 /\ t \in {"addPermission", "updatePermission"}
              \/ i = 2 /\ t = "shareFile"
         /\ Handlers[t][i] = "unshare" <=> i = 2 /\ t = "removePermission"
         /\ Handlers[t][i] = "stream" <=> i = 2 /\ t = "downloadFile"
         /\ Handlers[t][i] = "save" <=> i = 3 /\ t = "downloadFile"
         /\ Handlers[t][i] = "provider" <=> i = 1 /\ t \in {"copy_file", "create_file"}
         /\ Handlers[t][i] = "tab" <=> i = 3 /\ t = "duplicate_sheet_in_new_spreadsheet"
         /\ Handlers[t][i] = "title" <=> i = 4 /\ t = "duplicate_sheet_in_new_spreadsheet"
         /\ Handlers[t][i] = "erase" <=> i = 1 /\ t = "delete_file"
         /\ Handlers[t][i] = "empty" <=> i = 1 /\ t = "empty_trash"
         /\ Handlers[t][i] = "restore" <=> i = 1 /\ t = "restore_from_trash"
  <1>1. CASE t \in {"createTextFile", "createFolder", "createDocFromHTML"}
    BY <1>1 DEF Length, Handlers, createTextFile, createFolder, createDocFromHTML, Checked
  <1>2. CASE t = "createGoogleDoc"
    BY <1>2 DEF Length, Handlers, createGoogleDoc, Checked
  <1>3. CASE t = "createGoogleSheet"
    BY <1>3 DEF Length, Handlers, createGoogleSheet, Checked
  <1>4. CASE t = "createGoogleSlides"
    BY <1>4 DEF Length, Handlers, createGoogleSlides, Checked
  <1>5. CASE t = "createShortcut"
    BY <1>5 DEF Length, Handlers, createShortcut, Checked
  <1>6. CASE t = "uploadFile"
    BY <1>6 DEF Length, Handlers, uploadFile, Checked
  <1>7. CASE t \in {"uploadNewVersion", "updateTextFile"}
    BY <1>7 DEF Length, Handlers, uploadNewVersion, updateTextFile, Checked
  <1>8. CASE t = "uploadPdfWithSplit"
    BY <1>8 DEF Length, Handlers, uploadPdfWithSplit, Checked
  <1>9. CASE t = "copyFile"
    BY <1>9 DEF Length, Handlers, copyFile, Checked
  <1>10. CASE t = "convertPdfToGoogleDoc"
    BY <1>10 DEF Length, Handlers, convertPdfToGoogleDoc, Checked
  <1>11. CASE t = "bulkConvertFolderPdfs"
    BY <1>11 DEF Length, Handlers, bulkConvertFolderPdfs, Checked
  <1>12. CASE t = "moveItem"
    BY <1>12 DEF Length, Handlers, moveItem, Checked
  <1>13. CASE t = "renameItem"
    BY <1>13 DEF Length, Handlers, renameItem, Checked
  <1>14. CASE t = "deleteItem"
    BY <1>14 DEF Length, Handlers, deleteItem, Checked
  <1>15. CASE t = "lockFile"
    BY <1>15 DEF Length, Handlers, lockFile, Checked
  <1>16. CASE t = "unlockFile"
    BY <1>16 DEF Length, Handlers, unlockFile, Checked
  <1>17. CASE t \in {"insertText", "deleteRange", "restoreRevision"}
    BY <1>17 DEF Length, Handlers, insertText, deleteRange, restoreRevision, Checked
  <1>18. CASE t \in {"addPermission", "updatePermission"}
    BY <1>18 DEF Length, Handlers, addPermission, updatePermission, Checked
  <1>19. CASE t = "shareFile"
    BY <1>19 DEF Length, Handlers, shareFile, Checked
  <1>20. CASE t = "removePermission"
    BY <1>20 DEF Length, Handlers, removePermission, Checked
  <1>21. CASE t = "downloadFile"
    BY <1>21 DEF Length, Handlers, downloadFile, Checked
  <1>22. CASE t = "copy_file"
    BY <1>22 DEF Length, Handlers, copy_file, Checked
  <1>23. CASE t = "create_file"
    BY <1>23 DEF Length, Handlers, create_file, Checked
  <1>24. CASE t = "duplicate_sheet_in_new_spreadsheet"
    BY <1>24 DEF Length, Handlers, duplicate_sheet_in_new_spreadsheet, Checked
  <1>25. CASE t = "delete_file"
    BY <1>25 DEF Length, Handlers, delete_file, Checked
  <1>26. CASE t = "empty_trash"
    BY <1>26 DEF Length, Handlers, empty_trash, Checked
  <1>27. CASE t = "restore_from_trash"
    BY <1>27 DEF Length, Handlers, restore_from_trash, Checked
  <1> QED
    BY ZenonT(30), <1>1, <1>2, <1>3, <1>4, <1>5, <1>6, <1>7, <1>8, <1>9, <1>10, <1>11, <1>12,
    <1>13, <1>14, <1>15, <1>16, <1>17, <1>18, <1>19, <1>20, <1>21, <1>22, <1>23,
    <1>24, <1>25, <1>26, <1>27, ToolsAre

\* The tools that place something in a folder.
LEMMA PlacingAre ==
  Placing \subseteq {"createTextFile", "createFolder", "createDocFromHTML", "createGoogleDoc",
                     "createGoogleSheet", "createGoogleSlides", "createShortcut", "uploadFile",
                     "uploadPdfWithSplit", "copyFile", "moveItem"}
  <1>1. ASSUME NEW t \in Tools PROVE DOMAIN Handlers[t] = 1..Length(t)
    BY HandlersAreSequences
  <1>2. ASSUME NEW t \in Tools, NEW i \in 1..Length(t), Handlers[t][i] = "resolve"
        PROVE  t \in {"createTextFile", "createFolder", "createDocFromHTML", "createGoogleDoc",
                      "createGoogleSheet", "createGoogleSlides", "createShortcut", "uploadFile",
                      "uploadPdfWithSplit", "copyFile", "moveItem"}
    BY <1>2, Requests
  <1> QED
    BY <1>1, <1>2 DEF Placing

-----------------------------------------------------------------------------
(***************************************************************************)
(* The invariant.                                                          *)
(***************************************************************************)

Opts == Roles \cup (0..2) \cup BOOLEAN \cup {None}

SomeTool == Tools \cup {None}

SomeName == Names \cup {None}

\* The root, which also stands for no item, or an item.
Places == {Root} \cup Ids

\* What a call may have read: an item, a text, a set of ids.
Seen == Items \cup Seq(Nat) \cup (SUBSET Ids) \cup {None}

Calls ==
    [n : Nat, tool : SomeTool, id : Places, folder : Places, path : Seq(Names),
     name : SomeName, opt : Opts, pc : 0..7, at : Places, rest : Seq(Names),
     absent : BOOLEAN, saw : Seen, listed : SUBSET Ids, made : Places, tries : Int, alone : BOOLEAN]

Texts == {"insertText", "deleteRange", "restoreRevision"}

\* The fields of a call fit its tool and the request it has reached.
Formed(r) ==
    /\ r \in Calls
    /\ r.pc # 0 => /\ r.tool \in Tools /\ r.opt \in Options(r.tool)
                   /\ r.pc <= Length(r.tool)
                   /\ r.id = 0 => r.tool \in Making \cup {"bulkConvertFolderPdfs"}
                   /\ Step(r) = "resolve" => r.rest # <<>>
                   /\ r.path # <<>> => r.tool \in Placing /\ (r.tool = "copyFile" => ~r.opt)
    /\ r.id # 0 => items[r.id] # None
    /\ r.made # 0 => items[r.made] # None
    /\ r.rest # <<>> => r.pc # 0 /\ (Step(r) = "resolve" \/ (r.tool = "copyFile" /\ r.pc = 1))
    /\ r.tool = "createShortcut" /\ r.pc = 3 => r.saw \in Items
    /\ r.tool \in Texts /\ r.pc = 3 => r.saw \in Seq(Nat)
    /\ r.tool = "insertText" /\ r.pc = 3 => r.opt <= Len(r.saw)
    /\ r.tool = "deleteRange" /\ r.pc = 3 => r.opt + 1 <= Len(r.saw)
    /\ r.tool = "bulkConvertFolderPdfs" /\ r.pc = 2 =>
          r.saw \in SUBSET {i \in Ids : items[i] # None}
    /\ r.tool = "createGoogleSlides" /\ r.pc \in 1..4 => r.tries = 0

SubFolder(f, name, p) ==
    /\ f \in Ids /\ Live(f)
    /\ items[f].kind = "folder" /\ items[f].name = name /\ items[f].parent = p

\* The first k names of a path lead to folder f.
Leads(path, k, f) ==
    \E chain \in [0..k -> Places] :
        /\ chain[0] = Root /\ chain[k] = f
        /\ \A i \in 1..k : SubFolder(chain[i], path[i], chain[i - 1])

\* A call alone is where the names that it has resolved lead to.
Reached(r) ==
    r.alone /\ r.path # <<>> =>
        \E k \in 0..Len(r.path) :
            r.rest = SubSeq(r.path, k + 1, Len(r.path)) /\ Leads(r.path, k, r.at)

\* A PDF that is still to be converted, or a document made of it.
HasDoc(p, f) == \E d \in In(f) : items[d].kind = "doc" /\ items[d].body = items[p].body

\* A PDF that a full page leaves out.
OffPage(p, page) == p \notin page /\ Cardinality(page) = MaxResults

Filling == {"createGoogleSheet", "createGoogleSlides"}

\* What a call alone has done so far.
Underway(r) ==
    r.pc # 0 /\ r.alone =>
        /\ r.tool \in Checked /\ r.pc = 3 => Named(r.name, r.at) = {}
        /\ r.tool = "createGoogleDoc" /\ r.pc = 4 =>
              r.made # 0 /\ Named(r.name, r.at) = {r.made}
        /\ r.tool \in Filling /\ r.pc = 4 =>
              /\ r.made # 0 /\ r.id = r.made
              /\ Named(r.name, r.at) \subseteq {r.made}
              /\ Live(r.made) /\ items[r.made].kind # "folder"
              /\ items[r.made].name = r.name /\ items[r.made].body = <<>>
        /\ r.tool \in Filling /\ r.pc \in 5..7 =>
              r.made # 0 /\ r.id = r.made /\ Named(r.name, r.at) = {r.made}
        /\ r.tool = "createGoogleSlides" /\ r.pc \in 5..7 =>
              /\ r.tries \in (IF r.pc = 5 THEN 0..1 ELSE 1..2)
              /\ Len(items[r.made].body) = r.tries
              /\ \A i \in 1..(IF r.pc = 5 THEN r.tries ELSE r.tries - 1) :
                    items[r.made].body[i] = r.n
        /\ r.tool = "moveItem" /\ r.pc = 4 => items[r.id].parent = r.at
        /\ r.tool = "duplicate_sheet_in_new_spreadsheet" /\ r.pc \in 3..4 =>
              r.made # 0 /\ items[r.made].name = r.name
        /\ r.tool = "duplicate_sheet_in_new_spreadsheet" /\ r.pc = 4 =>
              items[r.made].body = items[r.id].body
        /\ r.tool = "insertText" /\ r.pc = 3 => r.saw = items[r.id].body
        /\ r.tool = "bulkConvertFolderPdfs" /\ r.pc = 2 =>
              \A p \in In(r.id) : items[p].kind = "pdf" =>
                 p \in r.saw \/ HasDoc(p, r.id) \/ OffPage(p, r.listed)

\* A call that is kept was alone to its end and has done what it promised.
Fulfilled(r) == r.pc = 0 /\ r.tool # None => r.alone /\ Promise(r)

Sound(r) == Formed(r) /\ Reached(r) /\ Underway(r) /\ Fulfilled(r)

\* Ids are used in order.
NoGaps == \E k \in 0..MaxItems : \A i \in Ids : items[i] # None <=> i <= k

DriveTyped ==
    /\ items \in [Ids -> Items \cup {None}]
    /\ revisions \in [Ids -> SUBSET Seq(Nat)]
    /\ NoGaps

\* The inductive invariant.
IInv ==
    /\ DriveTyped
    /\ calls \in Nat
    /\ call \in [Callers -> Calls]
    /\ \A c \in Callers : Sound(call[c])

-----------------------------------------------------------------------------
(***************************************************************************)
(* The steps of one call.                                                  *)
(***************************************************************************)

\* The call r at request k.
ToStep(r, k) == [r EXCEPT !.pc = k]

LEMMA AtPc ==
  ASSUME NEW r \in Calls, NEW k \in 0..7
  PROVE  /\ ToStep(r, k) \in Calls /\ ToStep(r, k).pc = k
         /\ ToStep(r, k).n = r.n /\ ToStep(r, k).tool = r.tool /\ ToStep(r, k).id = r.id
         /\ ToStep(r, k).folder = r.folder /\ ToStep(r, k).path = r.path
         /\ ToStep(r, k).name = r.name /\ ToStep(r, k).opt = r.opt /\ ToStep(r, k).at = r.at
         /\ ToStep(r, k).rest = r.rest /\ ToStep(r, k).absent = r.absent
         /\ ToStep(r, k).saw = r.saw /\ ToStep(r, k).listed = r.listed /\ ToStep(r, k).made = r.made
         /\ ToStep(r, k).tries = r.tries /\ ToStep(r, k).alone = r.alone
  BY DEF Calls, ToStep

LEMMA AtPcTwice ==
  ASSUME NEW r \in Calls, NEW k, NEW j
  PROVE  ToStep(ToStep(r, k), j) = ToStep(r, j)
  BY DEF Calls, ToStep

LEMMA NextStep ==
  ASSUME NEW r \in Calls, NEW k, k = r.pc + 1, r.pc < Length(r.tool)
  PROVE  Next1(r) = ToStep(r, k)
  BY DEF ToStep, Next1, Length

LEMMA LastStep ==
  ASSUME NEW r, ~(r.pc < Length(r.tool))
  PROVE  Next1(r) = IF MoreSlides(r) THEN ToStep(r, 5) ELSE Ended(r, FALSE)
  BY DEF ToStep, Next1, Length

\* What is left of a call that ends.
LEMMA EndsAs ==
  ASSUME NEW r
  PROVE  /\ Ended(r, TRUE) = Idle
         /\ Ended(r, FALSE) = IF r.alone THEN ToStep(r, 0) ELSE Idle
  BY DEF Ended, ToStep

\* What a call that has a request to make is known to be.
LEMMA AtStep ==
  ASSUME IInv, NEW c \in Callers, call[c].pc # 0
  PROVE  /\ Sound(call[c]) /\ call[c] \in Calls
         /\ call[c].tool \in Tools /\ call[c].pc \in 1..Length(call[c].tool)
         /\ Step(call[c]) = Handlers[call[c].tool][call[c].pc]
  <1>1. Sound(call[c]) /\ call[c] \in Calls /\ call[c].tool \in Tools
    BY DEF IInv, Sound, Formed
  <1>2. call[c].pc <= Length(call[c].tool)
    BY <1>1 DEF Sound, Formed
  <1>3. call[c].pc \in 0..7
    BY <1>1 DEF Calls
  <1>4. Length(call[c].tool) \in 1..7
    BY <1>1, HandlersAreSequences
  <1>5. call[c].pc \in 1..Length(call[c].tool)
    BY <1>2, <1>3, <1>4
  <1> QED
    BY <1>1, <1>5 DEF Step

\* Where a call goes on.
LEMMA AdvanceTo ==
  ASSUME NEW r \in Calls, r.tool \in Tools, r.pc \in 1..Length(r.tool)
  PROVE  Advance(r) =
           IF r.tool = "copyFile" /\ r.pc = 1 /\ r.rest = <<>> THEN ToStep(r, 3)
           ELSE IF r.pc < Length(r.tool) THEN ToStep(r, r.pc + 1)
           ELSE IF MoreSlides(r) THEN ToStep(r, 5)
           ELSE Ended(r, FALSE)
  <1> PICK t \in Tools : t = r.tool
    OBVIOUS
  <1> PICK p : p = r.pc
    OBVIOUS
  <1>0. Length(t) \in 1..7 /\ p \in 1..Length(t)
    BY HandlersAreSequences
  <1>1. CASE p < Length(t)
    <2> PICK k : k = p + 1
      OBVIOUS
    <2>0. k \in 2..Length(t) /\ k \in 0..7
      BY <1>0, <1>1
    <2> PICK n : n = ToStep(r, k)
      OBVIOUS
    <2>1. n \in Calls /\ n.tool = t /\ n.rest = r.rest /\ n.pc = k
      BY <2>0, AtPc
    <2>2. Next1(r) = n
      BY <1>1, NextStep
    <2>3. /\ Step(n) # "provider"
          /\ Step(n) = "resolve" <=> t = "copyFile" /\ p = 1
      <3>1. /\ Handlers[t][k] # "provider"
            /\ Handlers[t][k] = "resolve" <=> k = 2 /\ t = "copyFile"
        BY <2>0, Requests
      <3>2. k = 2 <=> p = 1
        BY <1>0
      <3> QED
        BY <2>1, <3>1, <3>2 DEF Step
    <2>4. CASE t = "copyFile" /\ p = 1 /\ r.rest = <<>>
      <3>1. Length(t) = 3 /\ k = 2
        BY <2>4, Lengths
      <3>2. Next1(n) = ToStep(n, 3)
        BY <2>1, <3>1, NextStep
      <3>3. ToStep(n, 3) = ToStep(r, 3)
        BY AtPcTwice
      <3> QED
        BY <2>0, <2>1, <2>2, <2>3, <2>4, <3>2, <3>3 DEF Advance
    <2>5. CASE ~(t = "copyFile" /\ p = 1 /\ r.rest = <<>>)
      BY <1>1, <2>1, <2>2, <2>3, <2>5 DEF Advance
    <2> QED
      BY <2>4, <2>5
  <1>2. CASE ~(p < Length(t))
    <2>0. ~(r.pc < Length(r.tool))
      BY <1>2
    <2>1. ~(t = "copyFile" /\ p = 1)
      BY <1>2, Lengths
    <2>2. CASE MoreSlides(r)
      <3> PICK n : n = ToStep(r, 5)
        OBVIOUS
      <3>1. t = "createGoogleSlides" /\ n.tool = t /\ n.pc = 5
        BY <2>2, AtPc DEF MoreSlides
      <3>2. Length(t) = 7
        BY <3>1, Lengths
      <3>3. Handlers[t][5] # "provider" /\ Handlers[t][5] # "resolve"
        BY <3>1, <3>2, Requests
      <3>4. Next1(r) = n
        BY <2>0, <2>2, LastStep
      <3> QED
        BY <1>2, <2>1, <2>2, <3>1, <3>3, <3>4 DEF Advance, Step
    <2>3. CASE ~MoreSlides(r)
      <3>1. Next1(r) = Ended(r, FALSE)
        BY <2>0, <2>3, LastStep
      <3>2. ToStep(r, 0).pc = 0 /\ Idle.pc = 0
        BY AtPc DEF Idle
      <3>3. Ended(r, FALSE).pc = 0
        BY <3>2, EndsAs
      <3> QED
        BY <1>2, <2>1, <2>3, <3>1, <3>3 DEF Advance
    <2> QED
      BY <2>2, <2>3
  <1> QED
    BY <1>1, <1>2

\* The same, for a tool that has no such exception.
LEMMA GoesTo ==
  ASSUME NEW r \in Calls, r.tool \in Tools, r.pc \in 1..Length(r.tool),
         NEW k, k = r.pc + 1, r.pc < Length(r.tool), r.tool # "copyFile"
  PROVE  Advance(r) = ToStep(r, k)
  BY AdvanceTo

LEMMA GoesOut ==
  ASSUME NEW r \in Calls, r.tool \in Tools, r.pc \in 1..Length(r.tool),
         r.pc = Length(r.tool), r.tool # "createGoogleSlides"
  PROVE  Advance(r) = IF r.alone THEN ToStep(r, 0) ELSE Idle
  <1>1. ~(r.tool = "copyFile" /\ r.pc = 1)
    <2> SUFFICES ASSUME r.tool = "copyFile", r.pc = 1 PROVE FALSE
      OBVIOUS
    <2>1. Length("copyFile") = 3
      BY Lengths
    <2> QED
      BY <2>1
  <1>2. ~(r.pc < Length(r.tool)) /\ ~MoreSlides(r)
    BY HandlersAreSequences DEF MoreSlides
  <1> QED
    BY <1>1, <1>2, AdvanceTo, EndsAs

\* Where a call begins.
LEMMA FirstStep ==
  ASSUME NEW r \in Calls, r.tool \in Tools, r.pc = 0
  PROVE  \E k \in 1..Length(r.tool) :
           /\ k \in 1..2 /\ Advance(r) = ToStep(r, k)
           /\ Handlers[r.tool][k] = "resolve" => r.rest # <<>>
           /\ k = 2 => \/ r.tool \in Placing /\ r.tool # "copyFile" /\ r.rest = <<>>
                       \/ r.tool \in {"copy_file", "create_file"}
  <1> PICK t \in Tools : t = r.tool
    OBVIOUS
  <1>0. Length(t) \in 1..7
    BY HandlersAreSequences
  <1> PICK n : n = ToStep(r, 1)
    OBVIOUS
  <1>1. /\ n \in Calls /\ n.tool = t /\ n.rest = r.rest /\ n.opt = r.opt /\ n.pc = 1
        /\ ToStep(n, 2) = ToStep(r, 2)
    BY AtPc, AtPcTwice
  <1>2. Next1(r) = n
    BY <1>0, NextStep
  <1>3. Step(n) = Handlers[t][1]
    BY <1>1 DEF Step
  <1>4. CASE Step(n) = "resolve" /\ n.rest = <<>>
    <2>1. t \in Placing
      <3>1. 1 \in DOMAIN Handlers[t]
        BY <1>0, HandlersAreSequences
      <3> QED
        BY <1>3, <1>4, <3>1 DEF Placing
    <2>2. Handlers[t][1] = "resolve"
      BY <1>3, <1>4
    <2>3. t # "copyFile"
      BY <1>0, <2>2, Requests
    <2>4. Length(t) >= 2
      <3>1. t \in {"createTextFile", "createFolder", "createDocFromHTML", "createShortcut",
                  "uploadPdfWithSplit"} => Length(t) = 3
        BY Lengths
      <3>2. t \in {"createGoogleDoc", "moveItem"} => Length(t) = 4
        BY Lengths
      <3>3. t = "uploadFile" => Length(t) = 2
        BY Lengths
      <3>4. t = "createGoogleSheet" => Length(t) = 5
        BY Lengths
      <3>5. t = "createGoogleSlides" => Length(t) = 7
        BY Lengths
      <3>6. t \in {"createTextFile", "createFolder", "createDocFromHTML", "createGoogleDoc",
                  "createGoogleSheet", "createGoogleSlides", "createShortcut", "uploadFile",
                  "uploadPdfWithSplit", "copyFile", "moveItem"}
        BY <2>1, PlacingAre
      <3> QED
        BY <2>3, <3>1, <3>2, <3>3, <3>4, <3>5, <3>6
    <2>5. Next1(n) = ToStep(n, 2)
      <3>1. n.pc < Length(n.tool) /\ 2 = n.pc + 1
        BY <1>0, <1>1, <2>4
      <3> QED
        BY <1>1, <3>1, NextStep
    <2>6. Advance(r) = ToStep(r, 2)
      BY <1>1, <1>2, <1>4, <2>5 DEF Advance
    <2>7. 2 \in 1..Length(t)
      BY <1>0, <2>4
    <2>8. Handlers[t][2] # "resolve"
      BY <2>3, <2>7, Requests
    <2> QED
      BY <1>1, <1>4, <2>1, <2>3, <2>6, <2>7, <2>8
  <1>5. CASE Step(n) = "provider" /\ ~n.opt
    <2>1. Handlers[t][1] = "provider"
      BY <1>3, <1>5
    <2>2. t \in {"copy_file", "create_file"}
      BY <1>0, <2>1, Requests
    <2>3. Length(t) = 2
      BY <2>2, Lengths
    <2>4. Next1(n) = ToStep(n, 2)
      BY <1>1, <2>3, NextStep
    <2>5. Advance(r) = ToStep(r, 2)
      BY <1>1, <1>2, <1>5, <2>4 DEF Advance
    <2>6. Handlers[t][2] # "resolve"
      BY <2>2, <2>3, Requests
    <2> QED
      BY <2>2, <2>3, <2>5, <2>6
  <1>6. CASE ~(Step(n) = "resolve" /\ n.rest = <<>>) /\ ~(Step(n) = "provider" /\ ~n.opt)
    <2>1. Advance(r) = ToStep(r, 1)
      BY <1>1, <1>2, <1>6 DEF Advance
    <2> QED
      BY <1>0, <1>1, <1>3, <1>6, <2>1
  <1> QED
    BY <1>4, <1>5, <1>6

-----------------------------------------------------------------------------
(***************************************************************************)
(* The files on disk.                                                      *)
(***************************************************************************)

\* Only downloads change the local file.
LEMMA OthersLeaveLocal ==
  ASSUME NEW c \in Callers, Begin(c) \/ Handle(c),
         ~OpenLocal(c), ~SaveLocal(c), ~SaveFails(c)
  PROVE  local' = local
  <1>1. CASE \/ Begin(c) \/ LookUpFolder(c) \/ MakeFolder(c) \/ Read(c) \/ Fetch(c)
             \/ Confirm(c) \/ ListPdfs(c) \/ Refused(c) \/ RequestFails(c)
    BY Zenon, <1>1 DEF Begin, LookUpFolder, MakeFolder, Read, Fetch, Confirm, ListPdfs, Refused,
       RequestFails, Quiet, disk
  <1>2. ASSUME NEW ok \in BOOLEAN,
               \/ CheckName(c, ok) \/ Create(c, ok) \/ New(c, ok) \/ AddSlide(c, ok)
               \/ Copy(c, ok) \/ CopyTab(c, ok) \/ Erase(c, ok)
        PROVE  local' = local
    BY ZenonT(30), <1>2 DEF CheckName, Create, New, AddSlide, Copy, CopyTab, Erase, disk
  <1>3. ASSUME NEW ok \in BOOLEAN,
               \/ Place(c, ok) \/ FillSheet(c, ok) \/ FillSlide(c, ok) \/ Move(c, ok)
               \/ Rename(c, ok) \/ Trash(c, ok) \/ Lock(c, ok) \/ Unlock(c, ok) \/ Share(c, ok)
               \/ Unshare(c, ok) \/ Write(c, ok) \/ Restore(c, ok)
        PROVE  local' = local
    BY Zenon, <1>3 DEF Place, FillSheet, FillSlide, Move, Rename, Trash, Lock, Unlock, Share, Unshare,
       Write, Restore, Updates, disk
  <1>4. ASSUME NEW ok \in BOOLEAN, NEW done \in BOOLEAN,
               \/ Provider(c, done, ok) \/ ConvertOne(c, done, ok) \/ Split(c, done, ok)
               \/ UploadPart(c, done, ok)
        PROVE  local' = local
    BY Zenon, <1>4 DEF Provider, ConvertOne, Split, UploadPart, disk
  <1>5. ASSUME NEW applied \in BOOLEAN, NEW outcome \in {"ok", "retryable", "final"},
               FillDocument(c, applied, outcome)
        PROVE  local' = local
    BY <1>5 DEF FillDocument, disk
  <1> QED
    BY SMTT(30), <1>1, <1>2, <1>3, <1>4, <1>5 DEF Handle

\* A step that cuts short or unlinks a whole local file is of a download that found
\* none there.
LEMMA WholeStep ==
  ASSUME IInv, NEW c \in Callers, Begin(c) \/ Handle(c),
         local.state = "whole", local'.state # "whole"
  PROVE  call[c] # call'[c] /\ call[c].tool = "downloadFile" /\ call[c].absent
  <1>0. c \in DOMAIN call
    BY DEF IInv
  <1> PICK r : r = call[c]
    OBVIOUS
  <1>1. CASE OpenLocal(c)
    <2>1. call[c].pc # 0 /\ Step(call[c]) = "stream"
      BY <1>1 DEF OpenLocal, At, Before
    <2>2. /\ r \in Calls /\ r.tool \in Tools /\ r.pc \in 1..Length(r.tool)
          /\ Handlers[r.tool][r.pc] = "stream"
      BY <2>1, AtStep
    <2>3. r.tool = "downloadFile" /\ r.pc = 2
      BY <2>2, Requests
    <2>4. Length(r.tool) = 3
      BY <2>3, Lengths
    <2>5. Advance(r) = ToStep(r, 3)
      BY <2>2, <2>3, <2>4, GoesTo
    <2>6. Advance(r) # r
      BY <2>2, <2>3, <2>5, AtPc
    <2>7. call'[c] = Advance(r)
      BY <1>0, <1>1 DEF OpenLocal, Goes
    <2>8. r.absent
      BY <1>1 DEF OpenLocal, Direct
    <2> QED
      BY <2>3, <2>6, <2>7, <2>8
  <1>2. CASE SaveLocal(c)
    BY <1>2 DEF SaveLocal
  <1>3. CASE SaveFails(c)
    <2>1. call[c].pc # 0 /\ Step(call[c]) = "save"
      BY <1>3 DEF SaveFails, At, Before
    <2>2. /\ r \in Calls /\ r.tool \in Tools /\ r.pc \in 1..Length(r.tool)
          /\ Handlers[r.tool][r.pc] = "save"
      BY <2>1, AtStep
    <2>3. r.tool = "downloadFile"
      BY <2>2, Requests
    <2>4. call'[c] = Idle
      BY <1>0, <1>3, EndsAs DEF SaveFails, Goes
    <2>5. Idle.pc = 0
      BY DEF Idle
    <2>6. r.absent
      BY <1>3 DEF SaveFails, Direct
    <2> QED
      BY <2>1, <2>3, <2>4, <2>5, <2>6
  <1> QED
    BY <1>1, <1>2, <1>3, OthersLeaveLocal

\* What a step of one session does to the calls of the others, if it changes
\* Drive and if it does not.
LEMMA StepShape ==
  ASSUME NEW c \in Callers, Begin(c) \/ Handle(c)
  PROVE  \E n : \/ Goes(c, n) /\ items' = items /\ revisions' = revisions
                \/ Changes(c, n)
  <1>1. CASE \/ Begin(c) \/ LookUpFolder(c) \/ Read(c) \/ Fetch(c) \/ Confirm(c)
             \/ ListPdfs(c) \/ Refused(c) \/ RequestFails(c)
             \/ OpenLocal(c) \/ SaveLocal(c) \/ SaveFails(c)
    <2>1. items' = items /\ revisions' = revisions
      BY Zenon, <1>1 DEF Begin, LookUpFolder, Read, Fetch, Confirm, ListPdfs, Refused, RequestFails,
         OpenLocal, SaveLocal, SaveFails, Quiet, drive
    <2>2. \E n : Goes(c, n)
      <3>1. CASE Begin(c)
        BY <3>1 DEF Begin
      <3>2. CASE LookUpFolder(c)
        BY Zenon, <3>2 DEF LookUpFolder
      <3>3. CASE Fetch(c)
        BY <3>3 DEF Fetch
      <3>4. CASE Read(c)
        BY <3>4, Zenon DEF Read
      <3>5. CASE SaveLocal(c)
        BY <3>5 DEF SaveLocal
      <3>6. CASE \/ Confirm(c) \/ ListPdfs(c) \/ Refused(c) \/ RequestFails(c)
                 \/ OpenLocal(c) \/ SaveFails(c)
        BY <3>6 DEF Confirm, ListPdfs, Refused, RequestFails, OpenLocal, SaveFails
      <3> QED
        BY <1>1, <3>1, <3>2, <3>3, <3>4, <3>5, <3>6
    <2> QED
      BY <2>1, <2>2
  <1>2. CASE MakeFolder(c)
    BY <1>2 DEF MakeFolder
  <1>3. ASSUME NEW ok \in BOOLEAN, CheckName(c, ok)
        PROVE  \E n : Goes(c, n) /\ items' = items /\ revisions' = revisions
    BY <1>3 DEF CheckName, drive
  <1>4. ASSUME NEW ok \in BOOLEAN,
               \/ Create(c, ok) \/ New(c, ok) \/ AddSlide(c, ok) \/ Copy(c, ok) \/ CopyTab(c, ok)
               \/ Erase(c, ok)
        PROVE  \E n : Changes(c, n)
    BY <1>4 DEF Create, New, AddSlide, Copy, CopyTab, Erase
  <1>5. ASSUME NEW ok \in BOOLEAN,
               \/ Place(c, ok) \/ FillSheet(c, ok) \/ FillSlide(c, ok) \/ Move(c, ok)
               \/ Rename(c, ok) \/ Trash(c, ok) \/ Lock(c, ok) \/ Unlock(c, ok) \/ Share(c, ok)
               \/ Unshare(c, ok) \/ Write(c, ok) \/ Restore(c, ok)
        PROVE  \E n : \/ Goes(c, n) /\ items' = items /\ revisions' = revisions
                      \/ Changes(c, n)
    <2>1. \E step, allowed, new : Updates(c, step, allowed, new, ok)
      BY <1>5 DEF Place, FillSheet, FillSlide, Move, Rename, Trash, Lock, Unlock, Share, Unshare,
         Write, Restore
    <2>2. items' = items => revisions' = revisions
      BY <1>5 DEF Place, FillSheet, FillSlide, Move, Rename, Trash, Lock, Unlock, Share, Unshare,
         Write, Restore
    <2> QED
      BY <2>1, <2>2 DEF Updates
  <1>6. ASSUME NEW ok \in BOOLEAN, NEW done \in BOOLEAN,
               \/ Provider(c, done, ok) \/ ConvertOne(c, done, ok) \/ Split(c, done, ok)
               \/ UploadPart(c, done, ok)
        PROVE  \E n : \/ Goes(c, n) /\ items' = items /\ revisions' = revisions
                      \/ Changes(c, n)
    <2>1. CASE Provider(c, done, ok)
      BY <2>1 DEF Provider, drive
    <2>2. CASE ConvertOne(c, done, ok)
      BY <2>2 DEF ConvertOne, drive
    <2>3. CASE Split(c, done, ok)
      BY <2>3 DEF Split, drive
    <2>4. CASE UploadPart(c, done, ok)
      BY <2>4 DEF UploadPart, drive
    <2> QED
      BY <1>6, <2>1, <2>2, <2>3, <2>4
  <1>7. ASSUME NEW applied \in BOOLEAN, NEW outcome \in {"ok", "retryable", "final"},
               FillDocument(c, applied, outcome)
        PROVE  \E n : \/ Goes(c, n) /\ items' = items /\ revisions' = revisions
                      \/ Changes(c, n)
    BY <1>7 DEF FillDocument
  <1> QED
    BY <1>1, <1>2, <1>3, <1>4, <1>5, <1>6, <1>7 DEF Handle

\* A call with one part fewer to upload is the same call.
LEMMA PartLess ==
  ASSUME NEW q \in Calls, NEW r, r = [q EXCEPT !.tries = @ - 1]
  PROVE  r \in Calls /\ r.tool = q.tool /\ r.pc = q.pc
  <1>1. q.tries - 1 \in Int
    BY DEF Calls
  <1> PICK tries : tries = q.tries - 1
    OBVIOUS
  <1>2. r = [q EXCEPT !.tries = tries]
    OBVIOUS
  <1> QED
    BY <1>1, <1>2 DEF Calls

\* Whoever uploads the parts of a PDF goes on with it, or its directory goes.
LEMMA PartsStep ==
  ASSUME IInv, NEW c \in Callers, NEW d \in Callers, Begin(c) \/ Handle(c),
         Before(d, "parts"), ~Before(d, "parts")'
  PROVE  call[d].n \notin chunks'
  <1>0. call[d].pc # 0 /\ Step(call[d]) = "parts" /\ c \in DOMAIN call /\ d \in DOMAIN call
    BY DEF IInv, Before
  <1>1. CASE c # d
    <2>1. PICK n : Goes(c, n) \/ Changes(c, n)
      BY StepShape
    <2>2. call'[d] = call[d] \/ call'[d] = [call[d] EXCEPT !.alone = FALSE]
      BY <1>0, <1>1, <2>1 DEF Goes, Changes
    <2>3. Step(call[d])' = Step(call[d]) /\ call'[d].pc = call[d].pc
      <3>1. call[d] \in Calls
        BY DEF IInv
      <3>2. call'[d].pc = call[d].pc /\ call'[d].tool = call[d].tool
        BY <2>2, <3>1 DEF Calls
      <3> QED
        BY <3>2 DEF Step
    <2> QED
      BY <1>0, <2>3 DEF Before
  <1>2. CASE c = d /\ Refused(c)
    BY <1>2 DEF Refused
  <1>3. ASSUME c = d, NEW made \in BOOLEAN, NEW answered \in BOOLEAN,
               UploadPart(c, made, answered)
        PROVE  call[d].n \notin chunks'
    <2> PICK r : r = [call[c] EXCEPT !.tries = @ - 1]
      OBVIOUS
    <2> PICK after : after = IF answered /\ r.tries > 0 THEN r ELSE Ended(r, ~answered)
      OBVIOUS
    <2>1. call'[c] = after /\ chunks' = Tidy(c, after)
      BY <1>0, <1>3 DEF UploadPart, Goes, Changes
    <2>2. CASE after.pc = 0
      BY <1>3, <2>1, <2>2 DEF Tidy
    <2>3. CASE after.pc # 0
      <3>1. call[c] \in Calls
        BY DEF IInv
      <3>2. r \in Calls /\ r.tool = call[c].tool /\ r.pc = call[c].pc
        BY <3>1, PartLess
      <3>3. ToStep(r, 0).pc = 0 /\ Idle.pc = 0
        BY <3>2, AtPc DEF Idle
      <3>4. Ended(r, TRUE).pc = 0 /\ Ended(r, FALSE).pc = 0
        BY <3>3, EndsAs
      <3>5. after = r
        BY <2>3, <3>4
      <3>6. Step(call[c])' = Step(call[c]) /\ call'[c].pc = call[c].pc
        BY <2>1, <3>2, <3>5 DEF Step
      <3> QED
        BY <1>0, <1>3, <3>6 DEF Before
    <2> QED
      BY <2>2, <2>3
  <1>4. CASE c = d /\ ~Refused(c) /\ ~(\E made, answered \in BOOLEAN : UploadPart(c, made, answered))
    <2>1. ~(\E step \in {"resolve", "check", "create", "new", "tab", "provider", "fill", "read",
                        "fetch", "confirm", "look", "title", "slide", "erase", "empty", "copy",
                        "list", "convert", "split", "stream", "save", "place", "values", "text",
                        "move", "rename", "trash", "restore", "lock", "unlock", "share",
                        "unshare", "write"} : At(c, step))
      BY <1>0, <1>4 DEF At, Before
    <2>2. ~(\/ Begin(c) \/ LookUpFolder(c) \/ MakeFolder(c) \/ Read(c) \/ Fetch(c) \/ Confirm(c)
            \/ ListPdfs(c) \/ RequestFails(c) \/ OpenLocal(c) \/ SaveLocal(c) \/ SaveFails(c))
      BY Zenon, <1>0, <1>4, <2>1 DEF Begin, LookUpFolder, MakeFolder, Read, Fetch, Confirm, ListPdfs,
         RequestFails, OpenLocal, SaveLocal, SaveFails
    <2>3. ASSUME NEW ok \in BOOLEAN
          PROVE  ~(\/ CheckName(c, ok) \/ Create(c, ok) \/ New(c, ok) \/ AddSlide(c, ok)
                   \/ Copy(c, ok) \/ CopyTab(c, ok) \/ Erase(c, ok))
      BY <2>1 DEF CheckName, Create, New, AddSlide, Copy, CopyTab, Erase
    <2>4. ASSUME NEW ok \in BOOLEAN
          PROVE  ~(\/ Place(c, ok) \/ FillSheet(c, ok) \/ FillSlide(c, ok) \/ Move(c, ok)
                   \/ Rename(c, ok) \/ Trash(c, ok) \/ Lock(c, ok) \/ Unlock(c, ok)
                   \/ Share(c, ok) \/ Unshare(c, ok) \/ Write(c, ok) \/ Restore(c, ok))
      BY <2>1 DEF Place, FillSheet, FillSlide, Move, Rename, Trash, Lock, Unlock, Share, Unshare,
         Write, Restore, Updates
    <2>5. ASSUME NEW ok \in BOOLEAN, NEW done \in BOOLEAN
          PROVE  ~(Provider(c, done, ok) \/ ConvertOne(c, done, ok) \/ Split(c, done, ok))
      BY Zenon, <2>1 DEF Provider, ConvertOne, Split
    <2>6. ASSUME NEW applied \in BOOLEAN, NEW outcome \in {"ok", "retryable", "final"}
          PROVE  ~FillDocument(c, applied, outcome)
      BY <2>1 DEF FillDocument
    <2> QED
      BY <1>4, <2>2, <2>3, <2>4, <2>5, <2>6 DEF Handle
  <1> QED
    BY <1>1, <1>2, <1>3, <1>4

-----------------------------------------------------------------------------
(***************************************************************************)
(* The items of Drive.                                                     *)
(***************************************************************************)

\* The next id is the first one that no item has.
LEMMA NewIdIsFree ==
  ASSUME DriveTyped, CanCreate
  PROVE  NewId \in Ids /\ \A i \in Ids : items[i] # None <=> i < NewId
  <1>1. MaxItems \in Nat
    BY ConstantsAssumption
  <1>2. PICK k \in 0..MaxItems : \A i \in Ids : items[i] # None <=> i <= k
    BY DEF DriveTyped, NoGaps
  <1>3. {i \in Ids : items[i] # None} = 1..k
    BY <1>1, <1>2 DEF Ids
  <1>4. Cardinality(1..k) = k
    BY <1>1, <1>2, FS_Interval
  <1>5. NewId = k + 1
    BY <1>3, <1>4 DEF NewId
  <1>6. NewId \in Ids
    BY DEF CanCreate
  <1> QED
    BY <1>1, <1>2, <1>5, <1>6 DEF Ids

\* A new item takes a free id, and the others stay as they are.
LEMMA CreatesOne ==
  ASSUME DriveTyped, NEW item \in Items, Creates(item)
  PROVE  \E new \in Ids :
           /\ new = NewId /\ items[new] = None /\ items' = [items EXCEPT ![new] = item]
           /\ items'[new] = item /\ item # None /\ DriveTyped'
  <1>1. CanCreate /\ items' = [items EXCEPT ![NewId] = item] /\ revisions' = revisions
    BY DEF Creates
  <1>2. PICK new \in Ids : new = NewId
    BY <1>1, NewIdIsFree
  <1>3. \A i \in Ids : items[i] # None <=> i < new
    BY <1>1, <1>2, NewIdIsFree
  <1>4. MaxItems \in Nat /\ None \notin Items
    BY ConstantsAssumption
  <1>5. items \in [Ids -> Items \cup {None}] /\ items' = [items EXCEPT ![new] = item]
    BY <1>1, <1>2 DEF DriveTyped
  <1>6. items[new] = None
    BY <1>3, <1>4 DEF Ids
  <1>7. items' \in [Ids -> Items \cup {None}]
    BY <1>5
  <1>8. NoGaps'
    <2>1. \A i \in Ids : items'[i] # None <=> i <= new
      BY <1>3, <1>4, <1>5 DEF Ids
    <2>2. new \in 0..MaxItems
      BY <1>4 DEF Ids
    <2> QED
      BY <2>1, <2>2 DEF NoGaps
  <1> QED
    BY <1>1, <1>2, <1>4, <1>5, <1>6, <1>7, <1>8 DEF DriveTyped

\* An item that is changed keeps its id.
LEMMA ChangesOne ==
  ASSUME DriveTyped, NEW id, NEW item, items' = [items EXCEPT ![id] = item],
         id \in Ids => items[id] # None /\ item \in Items,
         revisions' \in [Ids -> SUBSET Seq(Nat)]
  PROVE  /\ DriveTyped'
         /\ \A i \in Ids : items'[i] = IF i = id THEN item ELSE items[i]
         /\ \A i \in Ids : items[i] # None <=> items'[i] # None
  <1>1. items \in [Ids -> Items \cup {None}] /\ None \notin Items
    BY ConstantsAssumption DEF DriveTyped
  <1>2. \A i \in Ids : items'[i] = IF i = id THEN item ELSE items[i]
    BY <1>1
  <1>3. \A i \in Ids : items[i] # None <=> items'[i] # None
    BY <1>1, <1>2
  <1>4. items' \in [Ids -> Items \cup {None}]
    BY <1>1
  <1>5. NoGaps'
    BY <1>3 DEF DriveTyped, NoGaps
  <1> QED
    BY <1>2, <1>3, <1>4, <1>5 DEF DriveTyped

-----------------------------------------------------------------------------
(***************************************************************************)
(* What is known of a call stays true while others read, and what is known *)
(* of its arguments while they write.                                      *)
(***************************************************************************)

LEMMA SameDrive ==
  ASSUME items' = items
  PROVE  /\ \A i : Live(i)' <=> Live(i)
         /\ \A i : Gone(i)' <=> Gone(i)
         /\ \A f : In(f)' = In(f)
         /\ \A name, f : Named(name, f)' = Named(name, f)
         /\ \A f, name, p : SubFolder(f, name, p)' <=> SubFolder(f, name, p)
         /\ \A path, k, f : Leads(path, k, f)' <=> Leads(path, k, f)
         /\ \A p, f : HasDoc(p, f)' <=> HasDoc(p, f)
  BY DEF Live, Gone, In, Named, SubFolder, Leads, HasDoc

LEMMA SoundStays ==
  ASSUME items' = items, NEW r, Sound(r)
  PROVE  Sound(r)'
  <1>1. Formed(r)'
    BY DEF Sound, Formed
  <1>2. Reached(r)'
    BY SameDrive DEF Sound, Reached
  <1>3. Underway(r)'
    BY SameDrive DEF Sound, Underway
  <1>4. Fulfilled(r)'
    <2>1. Promise(r)' <=> Promise(r)
      BY SameDrive DEF Promise
    <2> QED
      BY <2>1 DEF Sound, Fulfilled
  <1> QED
    BY <1>1, <1>2, <1>3, <1>4 DEF Sound

Grows == \A i \in Ids : items[i] # None => items'[i] # None

\* A call that is not alone any more.
Disturbed(r) == [r EXCEPT !.alone = FALSE]

LEMMA DisturbedIs ==
  ASSUME NEW r \in Calls
  PROVE  /\ Disturbed(r) \in Calls /\ Disturbed(r).alone = FALSE /\ Disturbed(r).pc = r.pc
         /\ Disturbed(r).tool = r.tool /\ Disturbed(r).id = r.id
         /\ Disturbed(r).path = r.path /\ Disturbed(r).name = r.name
         /\ Disturbed(r).opt = r.opt /\ Disturbed(r).rest = r.rest
         /\ Disturbed(r).saw = r.saw /\ Disturbed(r).made = r.made
         /\ Disturbed(r).tries = r.tries
  BY DEF Disturbed, Calls

LEMMA IdleIsSound ==
  Idle \in Calls /\ Sound(Idle) /\ Sound(Idle)'
  <1>1. Idle \in Calls
    <2>1. None \in SomeTool /\ None \in SomeName /\ None \in Seen /\ None \in Opts
      BY DEF SomeTool, SomeName, Seen, Opts
    <2>2. 0 \in Places /\ <<>> \in Seq(Names) /\ 0 \in 0..7 /\ FALSE \in BOOLEAN /\ {} \in SUBSET Ids
      BY DEF Places, Root
    <2> QED
      BY <2>1, <2>2 DEF Idle, Calls
  <1>2. Formed(Idle) /\ Formed(Idle)'
    BY <1>1 DEF Formed, Idle
  <1>3. Reached(Idle) /\ Reached(Idle)' /\ Underway(Idle) /\ Underway(Idle)'
    BY DEF Reached, Underway, Idle
  <1>4. Fulfilled(Idle) /\ Fulfilled(Idle)'
    BY DEF Fulfilled, Idle
  <1> QED
    BY <1>1, <1>2, <1>3, <1>4 DEF Sound

LEMMA FormedStays ==
  ASSUME Grows, NEW r, Formed(r), r.pc # 0
  PROVE  Formed(Disturbed(r))'
  <1> PICK m : m = Disturbed(r)
    OBVIOUS
  <1>1. /\ m \in Calls /\ m.pc = r.pc /\ m.tool = r.tool /\ m.id = r.id /\ m.path = r.path
        /\ m.opt = r.opt /\ m.rest = r.rest /\ m.saw = r.saw /\ m.made = r.made
        /\ m.tries = r.tries
    BY DisturbedIs DEF Formed
  <1>2. Step(m) = Step(r)
    BY <1>1 DEF Step
  <1>3. r.id \in Places /\ r.made \in Places
    BY DEF Formed, Calls
  <1>4. (m.id # 0 => items'[m.id] # None) /\ (m.made # 0 => items'[m.made] # None)
    BY <1>1, <1>3 DEF Formed, Grows, Places, Root
  <1>5. m.tool = "bulkConvertFolderPdfs" /\ m.pc = 2 =>
          m.saw \in SUBSET {i \in Ids : items'[i] # None}
    BY <1>1 DEF Formed, Grows
  <1>6. Formed(m)'
    BY <1>1, <1>2, <1>4, <1>5 DEF Formed
  <1> QED
    BY <1>6

\* What one session does leaves the calls of the others sound.
LEMMA OthersStaySound ==
  ASSUME IInv, NEW c \in Callers, NEW d \in Callers, c # d, NEW n,
         \/ Goes(c, n) /\ items' = items
         \/ Changes(c, n) /\ Grows
  PROVE  Sound(call[d])' /\ call'[d] \in Calls
  <1>0. Sound(call[d]) /\ call[d] \in Calls /\ d \in DOMAIN call
    BY DEF IInv
  <1> PICK r : r = call[d]
    OBVIOUS
  <1>1. CASE Goes(c, n) /\ items' = items
    <2>1. call'[d] = r
      BY <1>0, <1>1 DEF Goes
    <2>2. Sound(r)'
      BY <1>0, <1>1, SoundStays
    <2> QED
      BY <1>0, <2>1, <2>2
  <1>2. CASE Changes(c, n) /\ Grows /\ r.pc = 0
    <2>1. call'[d] = Idle
      BY <1>2 DEF Changes
    <2> QED
      BY <2>1, IdleIsSound
  <1>3. CASE Changes(c, n) /\ Grows /\ r.pc # 0
    <2> PICK m : m = Disturbed(r)
      OBVIOUS
    <2>1. call'[d] = m
      BY <1>3 DEF Changes, Disturbed
    <2>2. Formed(m)'
      BY <1>0, <1>3, FormedStays DEF Sound
    <2>3. m \in Calls /\ m.alone = FALSE /\ m.pc # 0
      BY <1>0, <1>3, DisturbedIs
    <2>4. Sound(m)'
      BY <2>2, <2>3 DEF Sound, Reached, Underway, Fulfilled
    <2> QED
      BY <2>1, <2>3, <2>4
  <1> QED
    BY <1>1, <1>2, <1>3

-----------------------------------------------------------------------------
(***************************************************************************)
(* Folder paths.                                                           *)
(***************************************************************************)

FoldersKept ==
    \A i, name, p : SubFolder(i, name, p) => SubFolder(i, name, p)'

LEMMA LeadsKept ==
  ASSUME FoldersKept, NEW path, NEW k, NEW f, Leads(path, k, f)
  PROVE  Leads(path, k, f)'
  BY DEF FoldersKept, Leads

\* One folder further.
LEMMA LeadsOn ==
  ASSUME NEW path, NEW k \in Nat, NEW f, NEW g, Leads(path, k, f)',
         SubFolder(g, path[k + 1], f)'
  PROVE  Leads(path, k + 1, g)'
  <1>1. PICK chain \in [0..k -> Places] :
           /\ chain[0] = Root /\ chain[k] = f
           /\ \A i \in 1..k : SubFolder(chain[i], path[i], chain[i - 1])'
    BY DEF Leads
  <1> PICK longer : longer = [i \in 0..(k + 1) |-> IF i = k + 1 THEN g ELSE chain[i]]
    OBVIOUS
  <1>2. g \in Places
    BY DEF SubFolder, Places
  <1>3. longer \in [0..(k + 1) -> Places]
    BY <1>2
  <1>4. longer[0] = Root /\ longer[k + 1] = g
    BY <1>1
  <1>5. ASSUME NEW i \in 1..(k + 1)
        PROVE  SubFolder(longer[i], path[i], longer[i - 1])'
    <2>1. CASE i = k + 1
      <3>1. longer[i] = g /\ longer[i - 1] = f
        BY <1>1, <2>1
      <3> QED
        BY <2>1, <3>1
    <2>2. CASE i # k + 1
      <3>1. i \in 1..k /\ i - 1 \in 0..k
        BY <2>2
      <3>2. longer[i] = chain[i] /\ longer[i - 1] = chain[i - 1]
        BY <2>2, <3>1
      <3> QED
        BY <1>1, <3>1, <3>2
    <2> QED
      BY <2>1, <2>2
  <1> QED
    BY <1>3, <1>4, <1>5 DEF Leads

\* No name leads to the root.
LEMMA LeadsNowhere ==
  ASSUME NEW path
  PROVE  Leads(path, 0, Root) /\ Leads(path, 0, Root)'
  <1> PICK chain : chain = [i \in 0..0 |-> Root]
    OBVIOUS
  <1>1. chain \in [0..0 -> Places] /\ chain[0] = Root
    BY DEF Places
  <1>2. 1..0 = {}
    OBVIOUS
  <1> QED
    BY <1>1, <1>2 DEF Leads

\* A call that stays in its folder.
LEMMA ReachedOn ==
  ASSUME NEW r, Reached(r), NEW n, n.alone => r.alone, n.path = r.path, n.rest = r.rest,
         n.at = r.at, n.path # <<>> => FoldersKept
  PROVE  Reached(n)'
  BY LeadsKept DEF Reached

-----------------------------------------------------------------------------
(***************************************************************************)
(* The next call of a session, when it keeps what is known of it.          *)
(***************************************************************************)

\* What every step keeps.
Keeps(c) == DriveTyped' /\ Grows /\ Sound(call[c])'

\* A call that has nothing more to resolve, in a tool of which no more is known.
LEMMA FormedOn ==
  ASSUME Grows, NEW r, Formed(r), r.pc # 0,
         NEW n \in Calls, n.tool = r.tool, n.opt = r.opt, n.path = r.path,
         n.id = r.id \/ (n.id # 0 /\ items'[n.id] # None),
         n.made = r.made \/ items'[n.made] # None,
         n.rest = <<>>, n.pc <= Length(n.tool), n.pc # 0 => Step(n) # "resolve",
         n.pc = 0 \/ n.tool \notin Texts \cup {"createShortcut", "bulkConvertFolderPdfs"},
         n.tool = "createGoogleSlides" /\ n.pc \in 1..4 => n.tries = 0
  PROVE  Formed(n)'
  <1>1. r.id \in Places /\ r.made \in Places
    BY DEF Formed, Calls
  <1>2. (n.id # 0 => items'[n.id] # None) /\ (n.made # 0 => items'[n.made] # None)
    BY <1>1 DEF Formed, Grows, Places, Root
  <1> QED
    BY <1>2 DEF Formed, Texts

\* A promise is about these fields.
LEMMA SamePromise ==
  ASSUME NEW m, NEW n, n.tool = m.tool, n.id = m.id, n.made = m.made, n.at = m.at,
         n.name = m.name, n.opt = m.opt, n.saw = m.saw, n.listed = m.listed, n.n = m.n,
         Promise(m)'
  PROVE  Promise(n)'
  <1>1. CASE m.tool \in Checked
    BY <1>1 DEF Promise, Checked
  <1>2. CASE m.tool = "insertText"
    BY <1>2 DEF Promise, Checked
  <1>3. CASE m.tool = "bulkConvertFolderPdfs"
    BY <1>3 DEF Promise, Checked
  <1>4. CASE m.tool = "empty_trash"
    BY <1>4 DEF Promise, Checked
  <1>5. CASE m.tool \notin Checked \cup {"insertText", "bulkConvertFolderPdfs", "empty_trash"}
    BY <1>5 DEF Promise, Checked
  <1> QED
    BY <1>1, <1>2, <1>3, <1>4, <1>5

\* A call that ends without an error.
LEMMA DoneIsSound ==
  ASSUME Grows, NEW r, Formed(r), r.pc # 0,
         NEW m \in Calls, m.tool = r.tool, m.opt = r.opt, m.path = r.path,
         m.id = r.id \/ (m.id # 0 /\ items'[m.id] # None),
         m.made = r.made \/ items'[m.made] # None, m.rest = <<>>,
         NEW n, n = IF m.alone THEN ToStep(m, 0) ELSE Idle,
         m.alone => Reached(m)' /\ Promise(m)'
  PROVE  Sound(n)'
  <1>1. CASE ~m.alone
    BY <1>1, IdleIsSound
  <1>2. CASE m.alone
    <2>1. /\ n \in Calls /\ n.pc = 0 /\ n.tool = m.tool /\ n.opt = m.opt /\ n.path = m.path
          /\ n.id = m.id /\ n.made = m.made /\ n.rest = m.rest /\ n.alone /\ n.at = m.at
          /\ n.name = m.name /\ n.saw = m.saw /\ n.listed = m.listed /\ n.n = m.n
      BY <1>2, AtPc
    <2>2. Formed(n)'
      <3>1. n.pc <= Length(n.tool)
        <4>1. Length(r.tool) \in 1..7
          BY HandlersAreSequences DEF Formed
        <4> QED
          BY <2>1, <4>1
      <3> QED
        BY <2>1, <3>1, FormedOn
    <2>3. Reached(n)'
      BY <1>2, <2>1 DEF Reached
    <2>4. Promise(n)'
      BY <1>2, <2>1, SamePromise
    <2> QED
      BY <1>2, <2>1, <2>2, <2>3, <2>4 DEF Sound, Underway, Fulfilled
  <1> QED
    BY <1>1, <1>2

-----------------------------------------------------------------------------
(***************************************************************************)
(* Requests that change one item.                                          *)
(***************************************************************************)

\* An item that one of its fields is changed of.
LEMMA ItemWith ==
  ASSUME NEW item \in Items
  PROVE  /\ \A x \in SomeName : [item EXCEPT !.name = x] \in Items
         /\ \A x \in Places : [item EXCEPT !.parent = x] \in Items
         /\ \A x \in Seq(Nat) : [item EXCEPT !.body = x] \in Items
         /\ [item EXCEPT !.trashed = TRUE] \in Items /\ [item EXCEPT !.trashed = FALSE] \in Items
         /\ [item EXCEPT !.locked = TRUE] \in Items /\ [item EXCEPT !.locked = FALSE] \in Items
         /\ \A x \in Roles \cup {None} : [item EXCEPT !.role = x] \in Items
  BY DEF Items, SomeName, Places

LEMMA ItemIs ==
  ASSUME NEW kind \in Kinds, NEW name \in SomeName, NEW parent \in Places, NEW body \in Seq(Nat)
  PROVE  /\ Item(kind, name, parent, body) \in Items
         /\ Item(kind, name, parent, body).kind = kind
         /\ Item(kind, name, parent, body).name = name
         /\ Item(kind, name, parent, body).parent = parent
         /\ Item(kind, name, parent, body).body = body
         /\ Item(kind, name, parent, body).trashed = FALSE
  BY DEF Item, Items, SomeName, Places

\* The item of a call that has one.
LEMMA ItsItem ==
  ASSUME DriveTyped, NEW r, Formed(r), r.id # 0
  PROVE  r.id \in Ids /\ items[r.id] \in Items /\ items[r.id] # None
  BY DEF DriveTyped, Formed, Calls, Places, Root

\* A call that ends here, with a call that is idle if it has failed.
LEMMA EndsHere ==
  ASSUME NEW r \in Calls, r.tool \in Tools, r.pc = Length(r.tool), r.pc # 0,
         r.tool # "createGoogleSlides", NEW m \in Calls, m.tool = r.tool, m.pc = r.pc,
         NEW answered \in BOOLEAN
  PROVE  After(m, answered) = IF answered /\ m.alone THEN ToStep(m, 0) ELSE Idle
  <1>1. m.pc \in 1..Length(m.tool) /\ m.pc = Length(m.tool) /\ m.tool \in Tools
    BY HandlersAreSequences
  <1>2. Advance(m) = IF m.alone THEN ToStep(m, 0) ELSE Idle
    BY <1>1, GoesOut
  <1>3. Ended(m, TRUE) = Idle
    BY EndsAs
  <1> QED
    BY <1>2, <1>3 DEF After

\* The last request of a tool that changes its item.
LEMMA FinalUpdate ==
  ASSUME IInv, NEW c \in Callers, NEW ok \in BOOLEAN, NEW step, NEW allowed, NEW new,
         Updates(c, step, allowed, new, ok),
         NEW r, r = call[c], r.pc = Length(r.tool), r.tool # "createGoogleSlides",
         r.id \in Ids => new \in Items,
         revisions' = revisions \/ revisions' \in [Ids -> SUBSET Seq(Nat)],
         r.rest = <<>>,
         r.alone /\ items' = [items EXCEPT ![r.id] = new] => Reached(r)' /\ Promise(r)'
  PROVE  Keeps(c)
  <1>0. /\ DriveTyped /\ call[c].pc # 0 /\ c \in DOMAIN call
        /\ revisions' \in [Ids -> SUBSET Seq(Nat)]
    BY DEF IInv, DriveTyped, Updates, At, Before
  <1>1. Sound(r) /\ Formed(r) /\ r \in Calls /\ r.tool \in Tools
    BY <1>0, AtStep DEF Sound
  <1>2. CASE ~allowed
    <2>1. items' = items /\ call'[c] = Idle
      BY <1>0, <1>2, EndsAs DEF Updates, Goes
    <2>2. DriveTyped'
      BY <1>0, <2>1 DEF DriveTyped, NoGaps
    <2> QED
      BY <2>1, <2>2, IdleIsSound DEF Keeps, Grows
  <1>3. CASE allowed
    <2>1. items' = [items EXCEPT ![r.id] = new] /\ call'[c] = After(r, ok)
      BY <1>0, <1>3 DEF Updates, Changes
    <2>2. r.id \in Ids => items[r.id] # None /\ new \in Items
      BY <1>0, <1>1, ItsItem DEF Ids
    <2>3. DriveTyped' /\ Grows
      BY <1>0, <2>1, <2>2, ChangesOne DEF Grows
    <2> PICK n : n = After(r, ok)
      OBVIOUS
    <2>4. n = IF ok /\ r.alone THEN ToStep(r, 0) ELSE Idle
      BY <1>0, <1>1, EndsHere
    <2>5. Sound(n)'
      <3>1. CASE ~ok
        BY <2>4, <3>1, IdleIsSound
      <3>2. CASE ok
        BY <1>0, <1>1, <1>3, <2>1, <2>3, <2>4, <3>2, DoneIsSound
      <3> QED
        BY <3>1, <3>2
    <2> QED
      BY <2>1, <2>3, <2>5 DEF Keeps
  <1> QED
    BY <1>2, <1>3

\* A call whose next request is this one.
LEMMA CallAt ==
  ASSUME IInv, NEW c \in Callers, NEW s, Before(c, s), NEW r, r = call[c]
  PROVE  /\ r \in Calls /\ Formed(r) /\ Reached(r) /\ Underway(r) /\ r.pc # 0
         /\ r.tool \in Tools /\ r.pc \in 1..Length(r.tool) /\ Handlers[r.tool][r.pc] = s
         /\ r.opt \in Options(r.tool) /\ c \in DOMAIN call /\ DriveTyped
         /\ r.id = 0 => r.tool \in Making \cup {"bulkConvertFolderPdfs"}
         /\ r.rest # <<>> => s = "resolve" \/ (r.tool = "copyFile" /\ r.pc = 1)
         /\ r.path # <<>> => r.tool \in Checked \cup
               {"createShortcut", "uploadFile", "uploadPdfWithSplit", "copyFile", "moveItem"}
  <1>1. call[c].pc # 0 /\ Step(call[c]) = s /\ c \in DOMAIN call /\ DriveTyped
    BY DEF Before, IInv
  <1>2. /\ r \in Calls /\ Formed(r) /\ Reached(r) /\ Underway(r) /\ r.pc # 0
        /\ r.tool \in Tools /\ r.pc \in 1..Length(r.tool) /\ Handlers[r.tool][r.pc] = s
        /\ r.opt \in Options(r.tool)
        /\ r.id = 0 => r.tool \in Making \cup {"bulkConvertFolderPdfs"}
    BY <1>1, AtStep DEF Sound, Formed
  <1>3. r.path # <<>> => r.tool \in Checked \cup
               {"createShortcut", "uploadFile", "uploadPdfWithSplit", "copyFile", "moveItem"}
    BY <1>2, PlacingAre DEF Formed, Checked
  <1>4. r.rest # <<>> => s = "resolve" \/ (r.tool = "copyFile" /\ r.pc = 1)
    BY <1>1, <1>2 DEF Formed
  <1> QED
    BY <1>1, <1>2, <1>3, <1>4

-----------------------------------------------------------------------------
(***************************************************************************)
(* The tools that change one field of their item.                          *)
(***************************************************************************)

LEMMA RenameKeeps ==
  ASSUME IInv, NEW c \in Callers, NEW ok \in BOOLEAN, Rename(c, ok)
  PROVE  Keeps(c)
  <1> PICK r : r = call[c]
    OBVIOUS
  <1> PICK allowed : allowed = TRUE
    OBVIOUS
  <1> PICK new : new = [items[r.id] EXCEPT !.name = r.name]
    OBVIOUS
  <1>1. Before(c, "rename") /\ Updates(c, "rename", allowed, new, ok) /\ revisions' = revisions
    BY DEF Rename, Updates, At
  <1>2. /\ r \in Calls /\ Formed(r) /\ r.tool \in Tools /\ r.pc \in 1..Length(r.tool)
        /\ Handlers[r.tool][r.pc] = "rename" /\ DriveTyped
        /\ r.id = 0 => r.tool \in Making \cup {"bulkConvertFolderPdfs"}
    BY <1>1, CallAt
  <1>3. r.tool = "renameItem" /\ r.pc = 2
    BY <1>2, Requests
  <1>4. Length(r.tool) = 2
    BY <1>3, Lengths
  <1>5. r.rest = <<>> /\ r.path = <<>>
    BY <1>1, <1>3, CallAt DEF Checked
  <1>6. r.id # 0
    BY <1>2, <1>3 DEF Making, Checked
  <1>7. r.id \in Ids /\ items[r.id] \in Items /\ items \in [Ids -> Items \cup {None}]
    BY <1>2, <1>6, ItsItem DEF DriveTyped
  <1>8. new \in Items
    BY <1>2, <1>7, ItemWith DEF Calls
  <1>9. ASSUME r.alone, items' = [items EXCEPT ![r.id] = new] PROVE Reached(r)' /\ Promise(r)'
    <2>1. items'[r.id] = new /\ new.name = r.name
      BY <1>7, <1>9 DEF Items
    <2> QED
      BY <1>3, <1>5, <2>1 DEF Reached, Promise, Checked
  <1> QED
    BY ZenonT(30), <1>1, <1>3, <1>4, <1>5, <1>8, <1>9, FinalUpdate

LEMMA TrashKeeps ==
  ASSUME IInv, NEW c \in Callers, NEW ok \in BOOLEAN, Trash(c, ok)
  PROVE  Keeps(c)
  <1> PICK r : r = call[c]
    OBVIOUS
  <1> PICK allowed : allowed = TRUE
    OBVIOUS
  <1> PICK new : new = [items[r.id] EXCEPT !.trashed = TRUE]
    OBVIOUS
  <1>1. Before(c, "trash") /\ Updates(c, "trash", allowed, new, ok) /\ revisions' = revisions
    BY DEF Trash, Updates, At
  <1>2. /\ r \in Calls /\ Formed(r) /\ r.tool \in Tools /\ r.pc \in 1..Length(r.tool)
        /\ Handlers[r.tool][r.pc] = "trash" /\ DriveTyped
        /\ r.id = 0 => r.tool \in Making \cup {"bulkConvertFolderPdfs"}
    BY <1>1, CallAt
  <1>3. r.tool = "deleteItem" /\ r.pc = 2
    BY <1>2, Requests
  <1>4. Length(r.tool) = 2
    BY <1>3, Lengths
  <1>5. r.rest = <<>> /\ r.path = <<>>
    BY <1>1, <1>3, CallAt DEF Checked
  <1>6. r.id # 0
    BY <1>2, <1>3 DEF Making, Checked
  <1>7. r.id \in Ids /\ items[r.id] \in Items /\ items \in [Ids -> Items \cup {None}]
    BY <1>2, <1>6, ItsItem DEF DriveTyped
  <1>8. new \in Items
    BY <1>2, <1>7, ItemWith
  <1>9. ASSUME r.alone, items' = [items EXCEPT ![r.id] = new] PROVE Reached(r)' /\ Promise(r)'
    <2>1. items'[r.id] = new /\ new.trashed = TRUE
      BY <1>7, <1>9 DEF Items
    <2> QED
      BY <1>3, <1>5, <2>1 DEF Reached, Promise, Checked
  <1> QED
    BY <1>1, <1>3, <1>4, <1>5, <1>8, <1>9, FinalUpdate

LEMMA RestoreKeeps ==
  ASSUME IInv, NEW c \in Callers, NEW ok \in BOOLEAN, Restore(c, ok)
  PROVE  Keeps(c)
  <1> PICK r : r = call[c]
    OBVIOUS
  <1> PICK allowed : allowed = TRUE
    OBVIOUS
  <1> PICK new : new = [items[r.id] EXCEPT !.trashed = FALSE]
    OBVIOUS
  <1>1. Before(c, "restore") /\ Updates(c, "restore", allowed, new, ok) /\ revisions' = revisions
    BY DEF Restore, Updates, At
  <1>2. /\ r \in Calls /\ Formed(r) /\ r.tool \in Tools /\ r.pc \in 1..Length(r.tool)
        /\ Handlers[r.tool][r.pc] = "restore" /\ DriveTyped
        /\ r.id = 0 => r.tool \in Making \cup {"bulkConvertFolderPdfs"}
    BY <1>1, CallAt
  <1>3. r.tool = "restore_from_trash" /\ r.pc = 1
    BY <1>2, Requests
  <1>4. Length(r.tool) = 1
    BY <1>3, Lengths
  <1>5. r.rest = <<>> /\ r.path = <<>>
    BY <1>1, <1>3, CallAt DEF Checked
  <1>6. r.id # 0
    BY <1>2, <1>3 DEF Making, Checked
  <1>7. r.id \in Ids /\ items[r.id] \in Items /\ items \in [Ids -> Items \cup {None}]
    BY <1>2, <1>6, ItsItem DEF DriveTyped
  <1>8. new \in Items
    BY <1>2, <1>7, ItemWith
  <1>9. ASSUME r.alone, items' = [items EXCEPT ![r.id] = new] PROVE Reached(r)' /\ Promise(r)'
    <2>1. items'[r.id] = new /\ new.trashed = FALSE
      BY <1>7, <1>9 DEF Items
    <2> QED
      BY <1>3, <1>5, <2>1 DEF Reached, Promise, Checked
  <1> QED
    BY <1>1, <1>3, <1>4, <1>5, <1>8, <1>9, FinalUpdate

LEMMA LockKeeps ==
  ASSUME IInv, NEW c \in Callers, NEW ok \in BOOLEAN, Lock(c, ok)
  PROVE  Keeps(c)
  <1> PICK r : r = call[c]
    OBVIOUS
  <1> PICK allowed : allowed = TRUE
    OBVIOUS
  <1> PICK new : new = [items[r.id] EXCEPT !.locked = TRUE]
    OBVIOUS
  <1>1. Before(c, "lock") /\ Updates(c, "lock", allowed, new, ok) /\ revisions' = revisions
    BY DEF Lock, Updates, At
  <1>2. /\ r \in Calls /\ Formed(r) /\ r.tool \in Tools /\ r.pc \in 1..Length(r.tool)
        /\ Handlers[r.tool][r.pc] = "lock" /\ DriveTyped
        /\ r.id = 0 => r.tool \in Making \cup {"bulkConvertFolderPdfs"}
    BY <1>1, CallAt
  <1>3. r.tool = "lockFile" /\ r.pc = 2
    BY <1>2, Requests
  <1>4. Length(r.tool) = 2
    BY <1>3, Lengths
  <1>5. r.rest = <<>> /\ r.path = <<>>
    BY <1>1, <1>3, CallAt DEF Checked
  <1>6. r.id # 0
    BY <1>2, <1>3 DEF Making, Checked
  <1>7. r.id \in Ids /\ items[r.id] \in Items /\ items \in [Ids -> Items \cup {None}]
    BY <1>2, <1>6, ItsItem DEF DriveTyped
  <1>8. new \in Items
    BY <1>2, <1>7, ItemWith
  <1>9. ASSUME r.alone, items' = [items EXCEPT ![r.id] = new] PROVE Reached(r)' /\ Promise(r)'
    <2>1. items'[r.id] = new /\ new.locked = TRUE
      BY <1>7, <1>9 DEF Items
    <2> QED
      BY <1>3, <1>5, <2>1 DEF Reached, Promise, Checked
  <1> QED
    BY <1>1, <1>3, <1>4, <1>5, <1>8, <1>9, FinalUpdate

LEMMA UnlockKeeps ==
  ASSUME IInv, NEW c \in Callers, NEW ok \in BOOLEAN, Unlock(c, ok)
  PROVE  Keeps(c)
  <1> PICK r : r = call[c]
    OBVIOUS
  <1> PICK allowed : allowed = TRUE
    OBVIOUS
  <1> PICK new : new = [items[r.id] EXCEPT !.locked = FALSE]
    OBVIOUS
  <1>1. Before(c, "unlock") /\ Updates(c, "unlock", allowed, new, ok) /\ revisions' = revisions
    BY DEF Unlock, Updates, At
  <1>2. /\ r \in Calls /\ Formed(r) /\ r.tool \in Tools /\ r.pc \in 1..Length(r.tool)
        /\ Handlers[r.tool][r.pc] = "unlock" /\ DriveTyped
        /\ r.id = 0 => r.tool \in Making \cup {"bulkConvertFolderPdfs"}
    BY <1>1, CallAt
  <1>3. r.tool = "unlockFile" /\ r.pc = 2
    BY <1>2, Requests
  <1>4. Length(r.tool) = 2
    BY <1>3, Lengths
  <1>5. r.rest = <<>> /\ r.path = <<>>
    BY <1>1, <1>3, CallAt DEF Checked
  <1>6. r.id # 0
    BY <1>2, <1>3 DEF Making, Checked
  <1>7. r.id \in Ids /\ items[r.id] \in Items /\ items \in [Ids -> Items \cup {None}]
    BY <1>2, <1>6, ItsItem DEF DriveTyped
  <1>8. new \in Items
    BY <1>2, <1>7, ItemWith
  <1>9. ASSUME r.alone, items' = [items EXCEPT ![r.id] = new] PROVE Reached(r)' /\ Promise(r)'
    <2>1. items'[r.id] = new /\ new.locked = FALSE
      BY <1>7, <1>9 DEF Items
    <2> QED
      BY <1>3, <1>5, <2>1 DEF Reached, Promise, Checked
  <1> QED
    BY <1>1, <1>3, <1>4, <1>5, <1>8, <1>9, FinalUpdate


LEMMA ShareKeeps ==
  ASSUME IInv, NEW c \in Callers, NEW ok \in BOOLEAN, Share(c, ok)
  PROVE  Keeps(c)
  <1> PICK r : r = call[c]
    OBVIOUS
  <1> PICK new : new = [items[r.id] EXCEPT !.role = r.opt]
    OBVIOUS
  <1>1. PICK allowed : Updates(c, "share", allowed, new, ok) /\ revisions' = revisions
    BY DEF Share
  <1>2. /\ Before(c, "share") /\ r \in Calls /\ Formed(r) /\ r.tool \in Tools
        /\ r.pc \in 1..Length(r.tool) /\ Handlers[r.tool][r.pc] = "share" /\ DriveTyped
        /\ r.id = 0 => r.tool \in Making \cup {"bulkConvertFolderPdfs"}
        /\ r.opt \in Options(r.tool)
    BY <1>1, CallAt DEF Updates, At
  <1>3. r.tool \in {"addPermission", "updatePermission", "shareFile"} /\ r.pc = Length(r.tool)
    BY <1>2, Requests, Lengths
  <1>4. r.opt \in Roles
    BY <1>2, <1>3 DEF Options
  <1>5. r.rest = <<>> /\ r.path = <<>>
    BY <1>2, <1>3, CallAt DEF Checked
  <1>6. r.id # 0
    BY <1>2, <1>3 DEF Making, Checked
  <1>7. r.id \in Ids /\ items[r.id] \in Items /\ items \in [Ids -> Items \cup {None}]
    BY <1>2, <1>6, ItsItem DEF DriveTyped
  <1>8. new \in Items
    BY <1>4, <1>7, ItemWith
  <1>9. ASSUME r.alone, items' = [items EXCEPT ![r.id] = new] PROVE Reached(r)' /\ Promise(r)'
    <2>1. items'[r.id] = new /\ new.role = r.opt
      BY <1>7, <1>9 DEF Items
    <2> QED
      BY <1>3, <1>5, <2>1 DEF Reached, Promise, Checked
  <1> QED
    BY <1>1, <1>3, <1>5, <1>8, <1>9, FinalUpdate

LEMMA UnshareKeeps ==
  ASSUME IInv, NEW c \in Callers, NEW ok \in BOOLEAN, Unshare(c, ok)
  PROVE  Keeps(c)
  <1> PICK r : r = call[c]
    OBVIOUS
  <1> PICK new : new = [items[r.id] EXCEPT !.role = None]
    OBVIOUS
  <1>1. PICK allowed : Updates(c, "unshare", allowed, new, ok) /\ revisions' = revisions
    BY DEF Unshare
  <1>2. /\ Before(c, "unshare") /\ r \in Calls /\ Formed(r) /\ r.tool \in Tools
        /\ r.pc \in 1..Length(r.tool) /\ Handlers[r.tool][r.pc] = "unshare" /\ DriveTyped
        /\ r.id = 0 => r.tool \in Making \cup {"bulkConvertFolderPdfs"}
    BY <1>1, CallAt DEF Updates, At
  <1>3. r.tool = "removePermission" /\ r.pc = Length(r.tool)
    BY <1>2, Requests, Lengths
  <1>5. r.rest = <<>> /\ r.path = <<>>
    BY <1>2, <1>3, CallAt DEF Checked
  <1>6. r.id # 0
    BY <1>2, <1>3 DEF Making, Checked
  <1>7. r.id \in Ids /\ items[r.id] \in Items /\ items \in [Ids -> Items \cup {None}]
    BY <1>2, <1>6, ItsItem DEF DriveTyped
  <1>8. new \in Items
    BY <1>7, ItemWith
  <1>9. ASSUME r.alone, items' = [items EXCEPT ![r.id] = new] PROVE Reached(r)' /\ Promise(r)'
    <2>1. items'[r.id] = new /\ new.role = None
      BY <1>7, <1>9 DEF Items
    <2> QED
      BY <1>3, <1>5, <2>1 DEF Reached, Promise, Checked
  <1> QED
    BY <1>1, <1>3, <1>5, <1>8, <1>9, FinalUpdate

-----------------------------------------------------------------------------
(***************************************************************************)
(* New contents.                                                           *)
(***************************************************************************)

LEMMA Joined ==
  ASSUME NEW m \in Seq(Nat), NEW b \in Seq(Nat)
  PROVE  /\ m \o b \in Seq(Nat)
         /\ \A i \in 1..Len(m) : (m \o b)[i] = m[i]
         /\ \A i \in 1..Len(b) : (m \o b)[Len(m) + i] = b[i]
  <1>1. Len(m) \in Nat /\ Len(b) \in Nat
    OBVIOUS
  <1>2. /\ m \o b \in Seq(Nat)
        /\ \A i \in 1 .. Len(m) + Len(b) : (m \o b)[i] = IF i <= Len(m) THEN m[i] ELSE b[i - Len(m)]
    BY ConcatProperties
  <1>3. ASSUME NEW i \in 1..Len(m) PROVE (m \o b)[i] = m[i]
    BY <1>1, <1>2
  <1>4. ASSUME NEW i \in 1..Len(b) PROVE (m \o b)[Len(m) + i] = b[i]
    <2>1. Len(m) + i \in 1 .. Len(m) + Len(b) /\ ~(Len(m) + i <= Len(m))
      BY <1>1
    <2>2. (Len(m) + i) - Len(m) = i
      BY <1>1
    <2> QED
      BY <1>2, <2>1, <2>2
  <1> QED
    BY <1>2, <1>3, <1>4

LEMMA OneMore ==
  ASSUME NEW a \in Seq(Nat), NEW x \in Nat
  PROVE  /\ a \o <<x>> \in Seq(Nat) /\ Len(a \o <<x>>) = Len(a) + 1
         /\ \A i \in 1..Len(a) : (a \o <<x>>)[i] = a[i]
         /\ (a \o <<x>>)[Len(a) + 1] = x
  <1>1. <<x>> \in Seq(Nat) /\ Len(<<x>>) = 1 /\ <<x>>[1] = x
    OBVIOUS
  <1> PICK one \in Seq(Nat) : one = <<x>>
    BY <1>1
  <1>2. a \o one \in Seq(Nat) /\ Len(a \o one) = Len(a) + 1
    BY <1>1, ConcatProperties
  <1>3. /\ \A i \in 1..Len(a) : (a \o one)[i] = a[i]
        /\ \A i \in 1..Len(one) : (a \o one)[Len(a) + i] = one[i]
    BY Joined, Zenon
  <1>4. 1 \in 1..Len(one) /\ one[1] = x
    BY <1>1
  <1> QED
    BY <1>2, <1>3, <1>4, Zenon

\* The text s with x put in after its first k characters.
Insertion(s, k, x) == SubSeq(s, 1, k) \o <<x>> \o SubSeq(s, k + 1, Len(s))

\* The text that insertText writes is the one it has read, with its own at its place.
LEMMA Inserted ==
  ASSUME NEW s \in Seq(Nat), NEW k \in 0..Len(s), NEW x \in Nat
  PROVE  /\ Insertion(s, k, x) \in Seq(Nat) /\ Insertion(s, k, x)[k + 1] = x
         /\ \A i \in 1..k : Insertion(s, k, x)[i] = s[i]
         /\ \A i \in (k + 1)..Len(s) : Insertion(s, k, x)[i + 1] = s[i]
  <1>1. \E a \in Seq(Nat), b \in Seq(Nat) :
          /\ Insertion(s, k, x) = a \o <<x>> \o b
          /\ Len(a) = k /\ \A i \in 1..k : a[i] = s[i]
          /\ Len(b) = Len(s) - k /\ \A i \in 1..(Len(s) - k) : b[i] = s[k + i]
    <2> PICK a : a = SubSeq(s, 1, k)
      OBVIOUS
    <2> PICK b : b = SubSeq(s, k + 1, Len(s))
      OBVIOUS
    <2>1. a \in Seq(Nat) /\ Len(a) = k /\ \A i \in 1..k : a[i] = s[i]
      BY SubSeqProperties
    <2>2. /\ b \in Seq(Nat) /\ Len(b) = Len(s) - k
          /\ \A i \in 1..(Len(s) - k) : b[i] = s[k + i]
      BY SubSeqProperties
    <2>3. Insertion(s, k, x) = a \o <<x>> \o b
      BY DEF Insertion
    <2> QED
      BY <2>1, <2>2, <2>3
  <1>2. PICK a \in Seq(Nat), b \in Seq(Nat) :
          /\ Insertion(s, k, x) = a \o <<x>> \o b
          /\ Len(a) = k /\ \A i \in 1..k : a[i] = s[i]
          /\ Len(b) = Len(s) - k /\ \A i \in 1..(Len(s) - k) : b[i] = s[k + i]
    BY <1>1
  <1>3. \E m \in Seq(Nat) :
          /\ Insertion(s, k, x) = m \o b
          /\ Len(m) = Len(a) + 1 /\ m[Len(a) + 1] = x /\ \A i \in 1..Len(a) : m[i] = a[i]
    BY <1>2, OneMore, Zenon
  <1>4. PICK m \in Seq(Nat) :
          /\ Insertion(s, k, x) = m \o b
          /\ Len(m) = Len(a) + 1 /\ m[Len(a) + 1] = x /\ \A i \in 1..Len(a) : m[i] = a[i]
    BY <1>3
  <1>5. \E t \in Seq(Nat) :
          /\ t = m \o b
          /\ \A i \in 1..Len(m) : t[i] = m[i]
          /\ \A i \in 1..Len(b) : t[Len(m) + i] = b[i]
    BY Joined, Zenon
  <1>6. PICK t \in Seq(Nat) :
          /\ t = m \o b
          /\ \A i \in 1..Len(m) : t[i] = m[i]
          /\ \A i \in 1..Len(b) : t[Len(m) + i] = b[i]
    BY <1>5
  <1>7. t = Insertion(s, k, x)
    BY <1>4, <1>6, Zenon
  <1>8. Len(m) = k + 1 /\ k \in Nat /\ Len(s) \in Nat
    BY <1>2, <1>4
  <1>9. t[k + 1] = x
    BY <1>2, <1>4, <1>6, <1>8
  <1>10. ASSUME NEW i \in 1..k PROVE t[i] = s[i]
    <2>1. i \in 1..Len(m) /\ i \in 1..Len(a)
      BY <1>2, <1>8
    <2>2. t[i] = m[i] /\ m[i] = a[i] /\ a[i] = s[i]
      BY <1>2, <1>4, <1>6, <2>1, Zenon
    <2> QED
      BY <2>2, Zenon
  <1>11. ASSUME NEW i \in (k + 1)..Len(s) PROVE t[i + 1] = s[i]
    <2> PICK j : j = i - k
      OBVIOUS
    <2>1. j \in 1..(Len(s) - k) /\ i + 1 = Len(m) + j /\ k + j = i
      BY <1>8
    <2>2. t[Len(m) + j] = b[j] /\ b[j] = s[k + j]
      BY <1>2, <1>6, <2>1, Zenon
    <2> QED
      BY <2>1, <2>2, Zenon
  <1> QED
    BY <1>7, <1>9, <1>10, <1>11

LEMMA InsertedIs ==
  ASSUME NEW s \in Seq(Nat), NEW k \in 0..Len(s), NEW x \in Nat, NEW t, t = Insertion(s, k, x)
  PROVE  t[k + 1] = x /\ \A i \in 1..Len(s) : t[IF i <= k THEN i ELSE i + 1] = s[i]
  <1>1. /\ t[k + 1] = x
        /\ \A i \in 1..k : t[i] = s[i]
        /\ \A i \in (k + 1)..Len(s) : t[i + 1] = s[i]
    BY Inserted
  <1> QED
    BY <1>1

LEMMA Deleted ==
  ASSUME NEW s \in Seq(Nat), NEW k \in Nat, k + 1 <= Len(s)
  PROVE  SubSeq(s, 1, k) \o SubSeq(s, k + 2, Len(s)) \in Seq(Nat)
  <1>1. SubSeq(s, 1, k) \in Seq(Nat) /\ SubSeq(s, k + 2, Len(s)) \in Seq(Nat)
    BY SubSeqProperties
  <1> QED
    BY <1>1

LEMMA WriteKeeps ==
  ASSUME IInv, NEW c \in Callers, NEW ok \in BOOLEAN, Write(c, ok)
  PROVE  Keeps(c)
  <1> PICK r : r = call[c]
    OBVIOUS
  <1> PICK text : text = NewText(r)
    OBVIOUS
  <1> PICK name : name = IF r.name = None THEN items[r.id].name ELSE r.name
    OBVIOUS
  <1> PICK new : new = [items[r.id] EXCEPT !.body = text, !.name = name]
    OBVIOUS
  <1>1. PICK allowed :
          /\ Updates(c, "write", allowed, new, ok)
          /\ revisions' = IF items' = items THEN revisions
                          ELSE [revisions EXCEPT ![r.id] = @ \cup {text}]
    BY DEF Write
  <1>2. /\ Before(c, "write") /\ r \in Calls /\ Formed(r) /\ r.tool \in Tools
        /\ r.pc \in 1..Length(r.tool) /\ Handlers[r.tool][r.pc] = "write" /\ DriveTyped
        /\ r.id = 0 => r.tool \in Making \cup {"bulkConvertFolderPdfs"}
        /\ r.opt \in Options(r.tool) /\ Underway(r)
    BY <1>1, CallAt DEF Updates, At
  <1>3. /\ r.tool \in Texts \cup {"uploadNewVersion", "updateTextFile"}
        /\ r.tool \in Texts => r.pc = 3
        /\ r.pc = Length(r.tool)
    BY <1>2, Requests, Lengths DEF Texts
  <1>5. r.rest = <<>> /\ r.path = <<>>
    BY <1>2, <1>3, CallAt DEF Checked, Texts
  <1>6. r.id # 0
    BY <1>2, <1>3 DEF Making, Checked, Texts
  <1>7. r.id \in Ids /\ items[r.id] \in Items /\ items \in [Ids -> Items \cup {None}]
    BY <1>2, <1>6, ItsItem DEF DriveTyped
  <1>8. r.n \in Nat /\ r.name \in SomeName
    BY SMTT(30), <1>2 DEF Calls
  <1>9. ASSUME r.tool = "insertText"
        PROVE  /\ r.saw \in Seq(Nat) /\ r.opt \in 0..Len(r.saw)
               /\ text = Insertion(r.saw, r.opt, r.n)
    <2>1. r.saw \in Seq(Nat) /\ r.opt <= Len(r.saw)
      BY <1>2, <1>3, <1>9 DEF Formed, Texts
    <2>2. r.opt \in 0..1
      BY <1>2, <1>9 DEF Options
    <2>3. r.opt \in 0..Len(r.saw)
      BY <2>1, <2>2
    <2> QED
      BY Zenon, <1>9, <2>1, <2>3 DEF NewText, Insertion
  <1>10. text \in Seq(Nat)
    <2>1. CASE r.tool = "insertText"
      BY <1>8, <1>9, <2>1, Inserted
    <2>2. CASE r.tool = "deleteRange"
      <3>1. r.saw \in Seq(Nat) /\ r.opt + 1 <= Len(r.saw)
        BY <1>2, <1>3, <2>2 DEF Formed, Texts
      <3>2. r.opt \in Nat
        <4>1. r.opt \in 0..1
          BY SMTT(30), <1>2, <2>2 DEF Options
        <4> QED
          BY <4>1
      <3>3. text = SubSeq(r.saw, 1, r.opt) \o SubSeq(r.saw, r.opt + 2, Len(r.saw))
        BY Zenon, <2>2 DEF NewText
      <3> QED
        BY <3>1, <3>2, <3>3, Deleted, Zenon
    <2>3. CASE r.tool = "restoreRevision"
      <3>1. r.saw \in Seq(Nat)
        BY <1>2, <1>3, <2>3 DEF Formed, Texts
      <3>2. text = r.saw
        BY <2>3 DEF NewText
      <3> QED
        BY <3>1, <3>2
    <2>4. CASE r.tool \in {"uploadNewVersion", "updateTextFile"}
      <3>1. text = <<r.n>>
        BY <2>4 DEF NewText
      <3> QED
        BY SMTT(30), <1>8, <3>1
    <2> QED
      BY <1>3, <2>1, <2>2, <2>3, <2>4 DEF Texts
  <1>11. new \in Items /\ new.body = text
    BY <1>7, <1>8, <1>10 DEF Items, SomeName
  <1>12. revisions' \in [Ids -> SUBSET Seq(Nat)]
    BY <1>1, <1>2, <1>7, <1>10 DEF DriveTyped
  <1>13. ASSUME r.alone, items' = [items EXCEPT ![r.id] = new] PROVE Reached(r)' /\ Promise(r)'
    <2>1. items'[r.id].body = text
      BY <1>7, <1>11, <1>13
    <2>2. Reached(r)'
      BY <1>5 DEF Reached
    <2>3. CASE r.tool = "insertText"
      <3>1. /\ text[r.opt + 1] = r.n
            /\ \A i \in 1..Len(r.saw) : text[IF i <= r.opt THEN i ELSE i + 1] = r.saw[i]
        <4>1. /\ r.saw \in Seq(Nat) /\ r.opt \in 0..Len(r.saw)
              /\ text = Insertion(r.saw, r.opt, r.n)
          BY <1>9, <2>3
        <4> QED
          BY SMTT(30), <1>8, <4>1, InsertedIs
      <3> QED
        BY <2>1, <2>2, <2>3, <3>1 DEF Promise, Checked
    <2>4. CASE r.tool = "deleteRange"
      BY <2>2, <2>4 DEF Promise, Checked
    <2>5. CASE r.tool = "restoreRevision"
      <3>1. text = r.saw
        BY <2>5 DEF NewText
      <3> QED
        BY <2>1, <2>2, <2>5, <3>1 DEF Promise, Checked
    <2>6. CASE r.tool \in {"uploadNewVersion", "updateTextFile"}
      <3>1. text = <<r.n>>
        BY <2>6 DEF NewText
      <3> QED
        BY <2>1, <2>2, <2>6, <3>1 DEF Promise, Checked
    <2> QED
      BY <1>3, <2>3, <2>4, <2>5, <2>6 DEF Texts
  <1> QED
    BY <1>1, <1>3, <1>5, <1>11, <1>12, <1>13, FinalUpdate DEF Texts

-----------------------------------------------------------------------------
(***************************************************************************)
(* Calls that go on.                                                       *)
(***************************************************************************)

\* A call that has a further request to make.
LEMMA NextIsSound ==
  ASSUME Grows, NEW r, Formed(r), r.pc # 0,
         NEW n \in Calls, n.tool = r.tool, n.opt = r.opt, n.path = r.path,
         n.id = r.id \/ (n.id # 0 /\ items'[n.id] # None),
         n.made = r.made \/ items'[n.made] # None,
         n.rest = <<>>, n.pc <= Length(n.tool), n.pc # 0, Step(n) # "resolve",
         n.tool \notin Texts \cup {"createShortcut", "bulkConvertFolderPdfs"},
         n.tool = "createGoogleSlides" /\ n.pc \in 1..4 => n.tries = 0,
         Reached(n)', Underway(n)'
  PROVE  Sound(n)'
  <1>1. Formed(n)'
    BY FormedOn
  <1>2. Fulfilled(n)'
    BY DEF Fulfilled
  <1> QED
    BY <1>1, <1>2 DEF Sound

\* The next request of a call, with a call that is idle if this one has failed.
LEMMA GoesOnTo ==
  ASSUME NEW r \in Calls, r.tool \in Tools, r.pc \in 1..Length(r.tool), r.pc < Length(r.tool),
         r.tool # "copyFile", NEW m \in Calls, m.tool = r.tool, m.pc = r.pc,
         NEW k, k = r.pc + 1, NEW answered \in BOOLEAN
  PROVE  After(m, answered) = IF answered THEN ToStep(m, k) ELSE Idle
  <1>1. Advance(m) = ToStep(m, k)
    BY GoesTo
  <1>2. Ended(m, TRUE) = Idle
    BY EndsAs
  <1> QED
    BY <1>1, <1>2 DEF After

\* The body of an item does not tell where it lies.
LEMMA BodyOnly ==
  ASSUME DriveTyped, NEW id \in Ids, items[id] # None, NEW new \in Items,
         items' = [items EXCEPT ![id] = new], new.kind = items[id].kind,
         new.name = items[id].name, new.parent = items[id].parent,
         new.trashed = items[id].trashed
  PROVE  /\ FoldersKept
         /\ \A f : In(f)' = In(f)
         /\ \A name, f : Named(name, f)' = Named(name, f)
  <1>1. items \in [Ids -> Items \cup {None}] /\ None \notin Items
    BY ConstantsAssumption DEF DriveTyped
  <1>2. \A i \in Ids : items'[i] = IF i = id THEN new ELSE items[i]
    BY <1>1
  <1>3. \A i \in Ids : /\ Live(i)' <=> Live(i)
                       /\ items'[i].name = items[i].name /\ items'[i].parent = items[i].parent
                       /\ items'[i].kind = items[i].kind
    BY <1>1, <1>2 DEF Live
  <1>4. \A f : In(f)' = In(f)
    BY <1>3 DEF In
  <1>5. \A name, f : Named(name, f)' = Named(name, f)
    BY <1>3, <1>4 DEF Named, In
  <1>6. FoldersKept
    BY <1>3 DEF FoldersKept, SubFolder
  <1> QED
    BY <1>4, <1>5, <1>6

\* A new spreadsheet with its values.
WithValues(r) == [items[r.id] EXCEPT !.body = <<r.n>>]

LEMMA FillSheetKeeps ==
  ASSUME IInv, NEW c \in Callers, NEW ok \in BOOLEAN, FillSheet(c, ok)
  PROVE  Keeps(c)
  <1> PICK r : r = call[c]
    OBVIOUS
  <1> PICK new : new = WithValues(r)
    OBVIOUS
  <1>1. PICK allowed : Updates(c, "values", allowed, new, ok) /\ revisions' = revisions
    BY DEF FillSheet, WithValues
  <1>2. /\ Before(c, "values") /\ r \in Calls /\ Formed(r) /\ r.tool \in Tools
        /\ r.pc \in 1..Length(r.tool) /\ Handlers[r.tool][r.pc] = "values" /\ DriveTyped
        /\ Reached(r) /\ Underway(r)
    BY <1>1, CallAt DEF Updates, At
  <1>3. r.tool = "createGoogleSheet" /\ r.pc = 5 /\ r.pc = Length(r.tool)
    BY <1>2, Requests, Lengths
  <1>4. r.rest = <<>>
    BY <1>2, <1>3, CallAt
  <1>5. r.n \in Nat /\ <<r.n>> \in Seq(Nat)
    BY <1>2 DEF Calls
  <1>6. r.id # 0 => /\ r.id \in Ids /\ items[r.id] \in Items /\ new \in Items /\ items[r.id] # None
                    /\ new.body = <<r.n>> /\ new.kind = items[r.id].kind
                    /\ new.name = items[r.id].name /\ new.parent = items[r.id].parent
                    /\ new.trashed = items[r.id].trashed
    <2> SUFFICES ASSUME r.id # 0
                 PROVE  /\ r.id \in Ids /\ items[r.id] \in Items /\ new \in Items
                        /\ items[r.id] # None
                        /\ new.body = <<r.n>> /\ new.kind = items[r.id].kind
                        /\ new.name = items[r.id].name /\ new.parent = items[r.id].parent
                        /\ new.trashed = items[r.id].trashed
      OBVIOUS
    <2>1. r.id \in Ids /\ items[r.id] \in Items /\ items[r.id] # None
      BY <1>2, ItsItem
    <2> QED
      BY <1>5, <2>1 DEF Items, WithValues
  <1>7. ASSUME r.alone, items' = [items EXCEPT ![r.id] = new] PROVE Reached(r)' /\ Promise(r)'
    <2>1. r.made # 0 /\ r.id = r.made /\ Named(r.name, r.at) = {r.made}
      BY <1>2, <1>3, <1>7 DEF Underway, Filling
    <2>2. FoldersKept /\ \A name, f : Named(name, f)' = Named(name, f)
      BY <1>2, <1>6, <1>7, <2>1, BodyOnly
    <2>3. Reached(r)'
      BY <1>2, <2>2, ReachedOn
    <2>4. items'[r.made].body = <<r.n>>
      BY <1>2, <1>6, <1>7, <2>1 DEF DriveTyped
    <2> QED
      BY <1>3, <2>1, <2>2, <2>3, <2>4 DEF Promise, Checked
  <1>8. r.id \in Ids => new \in Items
    BY <1>6 DEF Ids
  <1> QED
    <2>1. r.pc = Length(r.tool) /\ r.tool # "createGoogleSlides"
      BY <1>3
    <2>2. r.alone /\ items' = [items EXCEPT ![r.id] = new] => Reached(r)' /\ Promise(r)'
      BY <1>7
    <2> QED
      BY <1>1, <1>4, <1>8, <2>1, <2>2, FinalUpdate

LEMMA NextCall ==
  ASSUME NEW r \in Calls, r.tool \in Tools, r.pc \in 1..Length(r.tool), r.pc < Length(r.tool),
         NEW k, k = r.pc + 1, NEW n, n = ToStep(r, k)
  PROVE  /\ n \in Calls /\ n.pc = k /\ n.n = r.n /\ n.tool = r.tool /\ n.id = r.id
         /\ n.folder = r.folder /\ n.path = r.path /\ n.name = r.name /\ n.opt = r.opt
         /\ n.at = r.at /\ n.rest = r.rest /\ n.absent = r.absent /\ n.saw = r.saw
         /\ n.made = r.made /\ n.tries = r.tries /\ n.alone = r.alone
  <1>1. k \in 0..7
    BY HandlersAreSequences
  <1> QED
    BY <1>1, AtPc

\* A request that changes an item, and is not the last.
LEMMA UpdateGoesOn ==
  ASSUME IInv, NEW c \in Callers, NEW ok \in BOOLEAN, NEW step, NEW allowed, NEW new,
         Updates(c, step, allowed, new, ok), revisions' = revisions,
         NEW r, r = call[c], r.pc < Length(r.tool),
         r.tool \notin Texts \cup {"copyFile", "createShortcut", "bulkConvertFolderPdfs"},
         r.id \in Ids => new \in Items, r.rest = <<>>,
         NEW k, k = r.pc + 1, Handlers[r.tool][k] # "resolve",
         r.tool = "createGoogleSlides" /\ k \in 1..4 => r.tries = 0,
         NEW n, n = ToStep(r, k),
         allowed /\ items' = [items EXCEPT ![r.id] = new] => Reached(n)' /\ Underway(n)'
  PROVE  Keeps(c)
  <1>0. /\ DriveTyped /\ call[c].pc # 0 /\ c \in DOMAIN call
        /\ revisions' \in [Ids -> SUBSET Seq(Nat)]
    BY DEF IInv, DriveTyped, Updates, At, Before
  <1>1. Sound(r) /\ Formed(r) /\ r \in Calls /\ r.tool \in Tools /\ r.pc \in 1..Length(r.tool)
    BY <1>0, AtStep DEF Sound
  <1>2. CASE ~allowed
    <2>1. items' = items /\ call'[c] = Idle
      BY <1>0, <1>2, EndsAs DEF Updates, Goes
    <2>2. DriveTyped'
      BY <1>0, <2>1 DEF DriveTyped, NoGaps
    <2> QED
      BY <2>1, <2>2, IdleIsSound DEF Keeps, Grows
  <1>3. CASE allowed
    <2>1. items' = [items EXCEPT ![r.id] = new] /\ call'[c] = After(r, ok)
      BY <1>0, <1>3 DEF Updates, Changes
    <2>2. r.id \in Ids => items[r.id] # None /\ new \in Items
      BY <1>0, <1>1, ItsItem DEF Ids
    <2>3. DriveTyped' /\ Grows
      BY <1>0, <2>1, <2>2, ChangesOne DEF Grows
    <2>4. After(r, ok) = IF ok THEN n ELSE Idle
      BY <1>1, GoesOnTo
    <2>5. k \in 0..7 /\ k # 0 /\ k <= Length(r.tool)
      BY SMTT(30), <1>1, HandlersAreSequences
    <2>6. /\ n \in Calls /\ n.pc = k /\ n.tool = r.tool /\ n.opt = r.opt /\ n.path = r.path
          /\ n.id = r.id /\ n.made = r.made /\ n.rest = <<>> /\ n.tries = r.tries
      BY <1>1, NextCall
    <2>7. Step(n) # "resolve"
      BY <2>6 DEF Step
    <2>8. Sound(n)'
      BY <1>0, <1>1, <1>3, <2>1, <2>3, <2>5, <2>6, <2>7, NextIsSound
    <2> QED
      BY <2>1, <2>3, <2>4, <2>8, IdleIsSound DEF Keeps
  <1> QED
    BY <1>2, <1>3

LEMMA PlaceKeeps ==
  ASSUME IInv, NEW c \in Callers, NEW ok \in BOOLEAN, Place(c, ok)
  PROVE  Keeps(c)
  <1> PICK r : r = call[c]
    OBVIOUS
  <1> PICK new : new = [items[r.id] EXCEPT !.parent = r.at]
    OBVIOUS
  <1> PICK n : n = ToStep(r, 5)
    OBVIOUS
  <1>1. PICK allowed : Updates(c, "place", allowed, new, ok) /\ revisions' = revisions
    BY DEF Place
  <1>2. /\ Before(c, "place") /\ r \in Calls /\ Formed(r) /\ r.tool \in Tools
        /\ r.pc \in 1..Length(r.tool) /\ Handlers[r.tool][r.pc] = "place" /\ DriveTyped
        /\ Reached(r) /\ Underway(r)
    BY <1>1, CallAt DEF Updates, At
  <1>3. /\ r.tool \in Filling /\ r.pc = 4 /\ r.pc < Length(r.tool)
        /\ 5 \in 1..Length(r.tool) /\ r.tries \in Int /\ r.at \in Places
    BY <1>2, Requests, Lengths DEF Filling, Calls
  <1>4. r.rest = <<>>
    BY <1>2, <1>3, CallAt DEF Filling
  <1>5. Handlers[r.tool][5] # "resolve"
    BY <1>2, <1>3, Requests
  <1>6. r.tool = "createGoogleSlides" => r.tries = 0
    BY <1>2, <1>3 DEF Formed
  <1>7. r.id \in Ids => new \in Items
    <2> SUFFICES ASSUME r.id \in Ids PROVE new \in Items
      OBVIOUS
    <2>1. r.id # 0
      BY DEF Ids
    <2>2. items[r.id] \in Items
      BY <1>2, <2>1, ItsItem
    <2> QED
      BY <1>3, <2>2, ItemWith
  <1>8. /\ n.pc = 5 /\ n.tool = r.tool /\ n.path = r.path /\ n.name = r.name /\ n.at = r.at
        /\ n.id = r.id /\ n.made = r.made /\ n.rest = r.rest /\ n.tries = r.tries
        /\ n.alone = r.alone /\ n.n = r.n
    BY <1>2, AtPc
  <1>9. ASSUME r.alone, items' = [items EXCEPT ![r.id] = new]
        PROVE  /\ r.made # 0 /\ r.id = r.made /\ FoldersKept
               /\ Named(r.name, r.at)' = {r.made} /\ items'[r.made].body = <<>>
    <2>1. /\ r.made # 0 /\ r.id = r.made
          /\ Named(r.name, r.at) \subseteq {r.made}
          /\ Live(r.made) /\ items[r.made].kind # "folder"
          /\ items[r.made].name = r.name /\ items[r.made].body = <<>>
      BY <1>2, <1>3, <1>9 DEF Underway
    <2>2. r.made \in Ids /\ items[r.made] \in Items /\ items \in [Ids -> Items \cup {None}]
      BY <1>2, <2>1, ItsItem DEF DriveTyped
    <2>3. /\ new.parent = r.at /\ new.name = r.name /\ new.body = <<>> /\ new # None
          /\ new.trashed = items[r.made].trashed
      BY <1>7, <2>1, <2>2, ConstantsAssumption DEF Items
    <2>4. \A i \in Ids : items'[i] = IF i = r.made THEN new ELSE items[i]
      BY <1>9, <2>1, <2>2
    <2>5. Named(r.name, r.at)' = {r.made}
      <3>1. ASSUME NEW i \in Ids, i # r.made
            PROVE  ~(items'[i] # None /\ ~items'[i].trashed /\ items'[i].parent = r.at
                     /\ items'[i].name = r.name)
        BY <2>1, <2>4, <3>1 DEF Named, In, Live
      <3>2. /\ items'[r.made] # None /\ ~items'[r.made].trashed /\ items'[r.made].parent = r.at
            /\ items'[r.made].name = r.name
        BY <2>1, <2>2, <2>3, <2>4 DEF Live
      <3> QED
        BY <2>2, <3>1, <3>2 DEF Named, In, Live
    <2>6. FoldersKept
      BY <2>1, <2>4 DEF FoldersKept, SubFolder, Live
    <2> QED
      BY <2>1, <2>2, <2>3, <2>4, <2>5, <2>6
  <1>10. ASSUME items' = [items EXCEPT ![r.id] = new] PROVE Reached(n)' /\ Underway(n)'
    <2>1. CASE ~r.alone
      BY <1>8, <2>1 DEF Reached, Underway
    <2>2. CASE r.alone
      <3>1. Reached(n)'
        BY <1>2, <1>8, <1>9, <1>10, <2>2, ReachedOn
      <3>2. Len(<<>>) = 0
        OBVIOUS
      <3>3. Underway(n)'
        BY <1>3, <1>6, <1>8, <1>9, <1>10, <2>2, <3>2 DEF Underway, Filling, Checked
      <3> QED
        BY <3>1, <3>3
    <2> QED
      BY <2>1, <2>2
  <1>11. r.tool \notin Texts \cup {"copyFile", "createShortcut", "bulkConvertFolderPdfs"}
    BY <1>3 DEF Filling, Texts
  <1>12. 5 = r.pc + 1
    BY <1>3
  <1> QED
    BY <1>1, <1>3, <1>4, <1>5, <1>6, <1>7, <1>10, <1>11, <1>12, UpdateGoesOn

\* Any request that is not the last.
LEMMA CallGoesOn ==
  ASSUME IInv, NEW c \in Callers, NEW ok \in BOOLEAN, NEW a, Goes(c, a) \/ Changes(c, a),
         DriveTyped', Grows,
         NEW r, r = call[c], r.pc # 0, r.pc < Length(r.tool),
         r.tool \notin Texts \cup {"copyFile", "createShortcut", "bulkConvertFolderPdfs"},
         NEW m \in Calls, m.tool = r.tool, m.pc = r.pc, m.opt = r.opt, m.path = r.path,
         m.id = r.id \/ (m.id # 0 /\ items'[m.id] # None),
         m.made = r.made \/ items'[m.made] # None, m.rest = <<>>, a = After(m, ok),
         NEW k, k = r.pc + 1, Handlers[r.tool][k] # "resolve",
         r.tool = "createGoogleSlides" /\ k \in 1..4 => m.tries = 0,
         NEW n, n = ToStep(m, k),
         ok => Reached(n)' /\ Underway(n)'
  PROVE  Keeps(c)
  <1>0. c \in DOMAIN call /\ call'[c] = a
    BY DEF IInv, Goes, Changes
  <1>1. Formed(r) /\ r \in Calls /\ r.tool \in Tools /\ r.pc \in 1..Length(r.tool)
    BY AtStep DEF Sound
  <1>2. a = IF ok THEN n ELSE Idle
    BY <1>1, GoesOnTo
  <1>3. k \in 0..7 /\ k # 0 /\ k <= Length(r.tool)
    BY <1>1, HandlersAreSequences
  <1>4. /\ n \in Calls /\ n.pc = k /\ n.tool = m.tool /\ n.opt = m.opt /\ n.path = m.path
        /\ n.id = m.id /\ n.made = m.made /\ n.rest = m.rest /\ n.tries = m.tries
    BY <1>1, NextCall
  <1>5. Step(n) # "resolve"
    BY <1>4 DEF Step
  <1>6. ok => Sound(n)'
    BY <1>1, <1>3, <1>4, <1>5, NextIsSound
  <1> QED
    BY <1>0, <1>2, <1>6, IdleIsSound DEF Keeps

\* The last request of a tool.
LEMMA CallEnds ==
  ASSUME IInv, NEW c \in Callers, NEW ok \in BOOLEAN, NEW a, Goes(c, a) \/ Changes(c, a),
         DriveTyped', Grows,
         NEW r, r = call[c], r.pc # 0, r.pc = Length(r.tool), r.tool # "createGoogleSlides",
         NEW m \in Calls, m.tool = r.tool, m.pc = r.pc, m.opt = r.opt, m.path = r.path,
         m.id = r.id \/ (m.id # 0 /\ items'[m.id] # None),
         m.made = r.made \/ items'[m.made] # None, m.rest = <<>>, a = After(m, ok),
         ok /\ m.alone => Reached(m)' /\ Promise(m)'
  PROVE  Keeps(c)
  <1>0. c \in DOMAIN call /\ call'[c] = a
    BY DEF IInv, Goes, Changes
  <1>1. Formed(r) /\ r \in Calls /\ r.tool \in Tools
    BY AtStep DEF Sound
  <1>2. a = IF ok /\ m.alone THEN ToStep(m, 0) ELSE Idle
    BY <1>1, EndsHere
  <1>3. CASE ok
    <2>1. a = IF m.alone THEN ToStep(m, 0) ELSE Idle
      BY <1>2, <1>3
    <2>2. Sound(a)'
      BY <1>1, <1>3, <2>1, DoneIsSound
    <2> QED
      BY <1>0, <2>2 DEF Keeps
  <1>4. CASE ~ok
    BY <1>0, <1>2, <1>4, IdleIsSound DEF Keeps
  <1> QED
    BY <1>3, <1>4

\* A request that fails, or is refused.
LEMMA CallFails ==
  ASSUME IInv, NEW c \in Callers, Goes(c, Idle) \/ Changes(c, Idle), DriveTyped', Grows
  PROVE  Keeps(c)
  <1>1. call'[c] = Idle
    BY DEF IInv, Goes, Changes
  <1> QED
    BY <1>1, IdleIsSound DEF Keeps

\* A request that changes nothing on Drive.
LEMMA DriveStays ==
  ASSUME IInv, items' = items, revisions' = revisions
  PROVE  DriveTyped' /\ Grows /\ FoldersKept
  BY SameDrive DEF IInv, DriveTyped, NoGaps, Grows, FoldersKept

\* A call that has tried once more.
Tried(r) == [r EXCEPT !.tries = @ + 1]

LEMMA TriedIs ==
  ASSUME NEW r \in Calls
  PROVE  /\ Tried(r) \in Calls /\ Tried(r).tool = r.tool /\ Tried(r).pc = r.pc
         /\ Tried(r).opt = r.opt /\ Tried(r).path = r.path /\ Tried(r).id = r.id
         /\ Tried(r).made = r.made /\ Tried(r).rest = r.rest /\ Tried(r).name = r.name
         /\ Tried(r).at = r.at /\ Tried(r).n = r.n /\ Tried(r).alone = r.alone
         /\ Tried(r).tries = r.tries + 1
  BY SMTT(30) DEF Tried, Calls

\* The item of a call with another body.
Rewritten(r, body) == [items[r.id] EXCEPT !.body = body]

LEMMA RewrittenIs ==
  ASSUME DriveTyped, NEW r, Formed(r), r.id \in Ids, NEW body \in Seq(Nat)
  PROVE  /\ items[r.id] \in Items /\ items[r.id] # None /\ Rewritten(r, body) \in Items
         /\ Rewritten(r, body).body = body /\ Rewritten(r, body).kind = items[r.id].kind
         /\ Rewritten(r, body).name = items[r.id].name
         /\ Rewritten(r, body).parent = items[r.id].parent
         /\ Rewritten(r, body).trashed = items[r.id].trashed
  <1>1. r.id # 0
    BY DEF Ids
  <1>2. items[r.id] \in Items /\ items[r.id] # None
    BY <1>1, ItsItem
  <1> QED
    BY <1>2 DEF Rewritten, Items

\* A presentation with one more, empty slide.
WithSlide(r) == Append(items[r.id].body, 0)

OneLonger(body, old) ==
  Len(body) = Len(old) + 1 /\ \A i \in 1..Len(old) : body[i] = old[i]

\* The first k slides are filled with x.
FilledTo(body, k, x) == \A i \in 1..k : body[i] = x

FilledBefore(body, k, x) == \A i \in 1..(k - 1) : body[i] = x

LEMMA WithSlideIs ==
  ASSUME NEW r, NEW old \in Seq(Nat), old = items[r.id].body, NEW body, body = WithSlide(r)
  PROVE  body \in Seq(Nat) /\ OneLonger(body, old)
  BY DEF WithSlide, OneLonger

LEMMA OneMoreSlide ==
  ASSUME NEW r, NEW n, NEW old, NEW body, r.tries \in 0..1 /\ Len(old) = r.tries,
         FilledTo(old, r.tries, r.n), n.tries = r.tries + 1, n.n = r.n, OneLonger(body, old)
  PROVE  n.tries \in 1..2 /\ Len(body) = n.tries /\ FilledBefore(body, n.tries, n.n)
  BY DEF OneLonger, FilledTo, FilledBefore

\* What is underway while slides are looked at.
LEMMA SlidesUnderway ==
  ASSUME NEW n, n.tool = "createGoogleSlides", n.pc \in 6..7,
         n.alone => /\ n.made # 0 /\ n.id = n.made /\ Named(n.name, n.at)' = {n.made}
                    /\ n.tries \in 1..2 /\ Len(items'[n.made].body) = n.tries
                    /\ FilledBefore(items'[n.made].body, n.tries, n.n)
  PROVE  Underway(n)'
  <1>1. n.pc # 5 /\ n.pc # 3 /\ n.pc # 4
    OBVIOUS
  <1> QED
    BY <1>1 DEF Underway, Filling, Checked, FilledBefore

LEMMA AddSlideKeeps ==
  ASSUME IInv, NEW c \in Callers, NEW ok \in BOOLEAN, AddSlide(c, ok)
  PROVE  Keeps(c)
  <1> PICK r : r = call[c]
    OBVIOUS
  <1> PICK m : m = Tried(r)
    OBVIOUS
  <1> PICK old : old = items[r.id].body
    OBVIOUS
  <1> PICK body : body = WithSlide(r)
    OBVIOUS
  <1> PICK new : new = Rewritten(r, body)
    OBVIOUS
  <1> PICK a : a = After(m, ok)
    OBVIOUS
  <1> PICK n : n = ToStep(m, 6)
    BY SMTT(30)
  <1>1. /\ Before(c, "slide") /\ Changes(c, a) /\ revisions' = revisions
        /\ items' = [items EXCEPT ![r.id] = new]
    BY DEF AddSlide, At, Tried, Rewritten, WithSlide
  <1>2. /\ r \in Calls /\ Formed(r) /\ r.tool \in Tools /\ r.pc # 0
        /\ r.pc \in 1..Length(r.tool) /\ Handlers[r.tool][r.pc] = "slide" /\ DriveTyped
        /\ Reached(r) /\ Underway(r)
    BY <1>1, CallAt
  <1>3. r.tool = "createGoogleSlides" /\ r.pc = 5 /\ Length(r.tool) = 7
    BY <1>2, Requests, Lengths
  <1>4. r.rest = <<>>
    BY <1>1, <1>3, CallAt
  <1>5. /\ m \in Calls /\ m.tool = r.tool /\ m.pc = r.pc /\ m.opt = r.opt /\ m.path = r.path
        /\ m.id = r.id /\ m.made = r.made /\ m.rest = r.rest /\ m.name = r.name /\ m.at = r.at
        /\ m.n = r.n /\ m.alone = r.alone /\ m.tries = r.tries + 1
    BY <1>2, TriedIs
  <1>6. /\ n.pc = 6 /\ n.tool = m.tool /\ n.path = m.path /\ n.name = m.name /\ n.at = m.at
        /\ n.id = m.id /\ n.made = m.made /\ n.rest = m.rest /\ n.tries = m.tries
        /\ n.alone = m.alone /\ n.n = m.n
    BY <1>5, AtPc
  <1>7. r.id \in Ids => /\ items[r.id] \in Items /\ items[r.id] # None /\ new \in Items
                        /\ new.body = body /\ new.kind = items[r.id].kind
                        /\ new.name = items[r.id].name /\ new.parent = items[r.id].parent
                        /\ new.trashed = items[r.id].trashed
    <2> SUFFICES ASSUME r.id \in Ids
                 PROVE  /\ items[r.id] \in Items /\ items[r.id] # None /\ new \in Items
                        /\ new.body = body /\ new.kind = items[r.id].kind
                        /\ new.name = items[r.id].name /\ new.parent = items[r.id].parent
                        /\ new.trashed = items[r.id].trashed
      OBVIOUS
    <2>1. r.id # 0
      BY DEF Ids
    <2>2. items[r.id] \in Items
      BY <1>2, <2>1, ItsItem
    <2>3. old \in Seq(Nat)
      BY <2>2 DEF Items
    <2>4. body \in Seq(Nat)
      BY <2>3, WithSlideIs
    <2> QED
      BY <1>2, <2>4, RewrittenIs
  <1>8. DriveTyped' /\ Grows
    <2>1. revisions' \in [Ids -> SUBSET Seq(Nat)]
      BY <1>1, <1>2 DEF DriveTyped
    <2>2. r.id \in Ids => items[r.id] # None /\ new \in Items
      BY <1>7
    <2> QED
      BY <1>1, <1>2, <2>1, <2>2, ChangesOne DEF Grows
  <1>9. Reached(n)' /\ Underway(n)'
    <2>1. CASE ~r.alone
      BY <1>5, <1>6, <2>1 DEF Reached, Underway
    <2>2. CASE r.alone
      <3>1. /\ r.made # 0 /\ r.id = r.made /\ Named(r.name, r.at) = {r.made}
            /\ r.tries \in 0..1 /\ Len(old) = r.tries
            /\ FilledTo(old, r.tries, r.n)
        BY <1>2, <1>3, <2>2 DEF Underway, Filling, FilledTo
      <3>2. r.id \in Ids /\ old \in Seq(Nat)
        BY <1>2, <3>1, ItsItem DEF Items
      <3>3. FoldersKept /\ \A name, f : Named(name, f)' = Named(name, f)
        BY <1>1, <1>2, <1>7, <3>2, BodyOnly
      <3>4. Reached(n)'
        BY <1>2, <1>5, <1>6, <3>3, ReachedOn
      <3>5. items'[n.made].body = body
        BY <1>1, <1>2, <1>5, <1>6, <1>7, <3>1, <3>2 DEF DriveTyped
      <3>6. Named(n.name, n.at)' = {n.made}
        <4>1. n.name = r.name /\ n.at = r.at /\ n.made = r.made
          BY <1>5, <1>6
        <4>2. Named(n.name, n.at) = {n.made}
          BY <3>1, <4>1
        <4> QED
          BY <3>3, <4>2
      <3>7. n.tries \in 1..2 /\ Len(body) = n.tries /\ FilledBefore(body, n.tries, n.n)
        <4>1. n.tries = r.tries + 1 /\ n.n = r.n
          BY <1>5, <1>6
        <4>2. OneLonger(body, old)
          BY <3>2, WithSlideIs
        <4> QED
          BY <3>1, <4>1, <4>2, OneMoreSlide
      <3>8. n.made # 0 /\ n.id = n.made /\ n.pc \in 6..7 /\ n.tool = "createGoogleSlides"
        BY <1>3, <1>5, <1>6, <3>1
      <3>9. Underway(n)'
        BY <3>5, <3>6, <3>7, <3>8, SlidesUnderway
      <3> QED
        BY <3>4, <3>9
    <2> QED
      BY <2>1, <2>2
  <1>10. Handlers[r.tool][6] # "resolve"
    BY <1>3, <1>2, Requests
  <1>11. /\ r.pc < Length(r.tool) /\ 6 = r.pc + 1
         /\ r.tool \notin Texts \cup {"copyFile", "createShortcut", "bulkConvertFolderPdfs"}
    BY <1>3 DEF Texts
  <1> QED
    BY <1>1, <1>2, <1>4, <1>5, <1>8, <1>9, <1>10, <1>11, CallGoesOn


\* A presentation whose last slide is filled.
Put(s, k, x) == [s EXCEPT ![k] = x]

Filled(r) == Put(items[r.id].body, r.tries, r.n)

LEMMA OneReplaced ==
  ASSUME NEW s \in Seq(Nat), NEW k \in Int, NEW x \in Nat, NEW t, t = Put(s, k, x)
  PROVE  /\ t \in Seq(Nat) /\ Len(t) = Len(s)
         /\ \A i \in 1..Len(s) : t[i] = IF i = k THEN x ELSE s[i]
  <1>1. s \in [1..Len(s) -> Nat] /\ Len(s) \in Nat
    BY LenProperties
  <1>2. /\ t \in [1..Len(s) -> Nat]
        /\ \A i \in 1..Len(s) : t[i] = IF i = k THEN x ELSE s[i]
    BY <1>1 DEF Put
  <1>3. t \in Seq(Nat) /\ Len(t) = Len(s)
    BY <1>1, <1>2
  <1> QED
    BY <1>2, <1>3

LEMMA FilledIs ==
  ASSUME NEW r \in Calls, NEW old \in Seq(Nat), old = items[r.id].body, NEW body, body = Filled(r)
  PROVE  /\ body \in Seq(Nat) /\ Len(body) = Len(old)
         /\ r.tries \in 1..2 /\ Len(old) = r.tries /\ FilledBefore(old, r.tries, r.n) =>
              FilledTo(body, r.tries, r.n)
  <1>1. r.n \in Nat /\ r.tries \in Int
    BY DEF Calls
  <1>2. /\ body \in Seq(Nat) /\ Len(body) = Len(old)
        /\ \A i \in 1..Len(old) : body[i] = IF i = r.tries THEN r.n ELSE old[i]
    <2>1. body = Put(old, r.tries, r.n)
      BY DEF Filled
    <2> QED
      BY SMTT(30), <1>1, <2>1, OneReplaced
  <1>3. ASSUME r.tries \in 1..2, Len(old) = r.tries, FilledBefore(old, r.tries, r.n)
        PROVE  FilledTo(body, r.tries, r.n)
    <2> SUFFICES ASSUME NEW i \in 1..r.tries PROVE body[i] = r.n
      BY DEF FilledTo
    <2>1. CASE i = r.tries
      BY <1>2, <1>3, <2>1
    <2>2. CASE i # r.tries
      <3>1. i \in 1..(r.tries - 1)
        BY <1>1, <2>2
      <3> QED
        BY <1>2, <1>3, <2>2, <3>1 DEF FilledBefore
    <2> QED
      BY <2>1, <2>2
  <1> QED
    BY <1>2, <1>3

Twice(x) == [i \in 1..2 |-> x]

LEMMA AllFilled ==
  ASSUME NEW body \in Seq(Nat), NEW x, Len(body) = 2, FilledTo(body, 2, x)
  PROVE  body = Twice(x)
  <1>1. DOMAIN body = 1..2 /\ body = [i \in 1..2 |-> body[i]]
    OBVIOUS
  <1>2. \A i \in 1..2 : body[i] = x
    BY DEF FilledTo
  <1> QED
    BY <1>1, <1>2 DEF Twice

\* What is underway before a slide is added.
LEMMA OneSlideUnderway ==
  ASSUME NEW n, n.tool = "createGoogleSlides", n.pc = 5,
         n.alone => /\ n.made # 0 /\ n.id = n.made /\ Named(n.name, n.at)' = {n.made}
                    /\ n.tries \in 0..1 /\ Len(items'[n.made].body) = n.tries
                    /\ FilledTo(items'[n.made].body, n.tries, n.n)
  PROVE  Underway(n)'
  BY DEF Underway, Filling, Checked, FilledTo

\* The last slide was filled.
LEMMA SlidesPromise ==
  ASSUME NEW r, r.tool = "createGoogleSlides", r.opt = 2, Named(r.name, r.at)' = {r.made},
         items'[r.made].body = Twice(r.n)
  PROVE  Promise(r)'
  BY DEF Promise, Checked, Twice

LEMMA SlidesAdvance ==
  ASSUME NEW r \in Calls, r.tool = "createGoogleSlides", r.pc = 7, r.opt = 2
  PROVE  Advance(r) = IF r.tries < 2 THEN ToStep(r, 5) ELSE IF r.alone THEN ToStep(r, 0) ELSE Idle
  <1>1. r.tool \in Tools /\ r.pc \in 1..Length(r.tool) /\ Length(r.tool) = 7
    BY ToolsAre, Lengths
  <1> PICK z : z = ToStep(r, r.pc + 1)
    OBVIOUS
  <1>2. Advance(r) = IF r.tool = "copyFile" /\ r.pc = 1 /\ r.rest = <<>> THEN ToStep(r, 3)
                     ELSE IF r.pc < Length(r.tool) THEN z
                     ELSE IF MoreSlides(r) THEN ToStep(r, 5)
                     ELSE Ended(r, FALSE)
    BY <1>1, AdvanceTo
  <1>3. Advance(r) = IF MoreSlides(r) THEN ToStep(r, 5) ELSE Ended(r, FALSE)
    BY <1>1, <1>2
  <1>4. MoreSlides(r) <=> r.tries < 2
    BY DEF MoreSlides
  <1> QED
    BY <1>3, <1>4, EndsAs

LEMMA FillSlideKeeps ==
  ASSUME IInv, NEW c \in Callers, NEW ok \in BOOLEAN, FillSlide(c, ok)
  PROVE  Keeps(c)
  <1> PICK r : r = call[c]
    OBVIOUS
  <1> PICK old : old = items[r.id].body
    OBVIOUS
  <1> PICK body : body = Filled(r)
    OBVIOUS
  <1> PICK new : new = Rewritten(r, body)
    OBVIOUS
  <1> PICK n : n = ToStep(r, 5)
    OBVIOUS
  <1>1. /\ Before(c, "text") /\ Changes(c, After(r, ok)) /\ revisions' = revisions
        /\ items' = [items EXCEPT ![r.id] = new]
    BY DEF FillSlide, Updates, At, Filled, Put, Rewritten
  <1>2. /\ r \in Calls /\ Formed(r) /\ r.tool \in Tools /\ r.pc # 0
        /\ r.pc \in 1..Length(r.tool) /\ Handlers[r.tool][r.pc] = "text" /\ DriveTyped
        /\ Reached(r) /\ Underway(r) /\ r.opt \in Options(r.tool) /\ c \in DOMAIN call
    BY <1>1, CallAt
  <1>3. r.tool = "createGoogleSlides" /\ r.pc = 7 /\ Length(r.tool) = 7 /\ r.opt = 2
    BY <1>2, Requests, Lengths DEF Options
  <1>4. r.rest = <<>>
    BY <1>1, <1>3, CallAt
  <1>5. /\ n \in Calls /\ n.pc = 5 /\ n.tool = r.tool /\ n.path = r.path /\ n.name = r.name
        /\ n.at = r.at /\ n.id = r.id /\ n.made = r.made /\ n.rest = r.rest /\ n.opt = r.opt
        /\ n.tries = r.tries /\ n.alone = r.alone /\ n.n = r.n
    BY <1>2, AtPc
  <1>6. r.id \in Ids => /\ old \in Seq(Nat) /\ body \in Seq(Nat) /\ items[r.id] # None
                        /\ new \in Items
                        /\ new.body = body /\ new.kind = items[r.id].kind
                        /\ new.name = items[r.id].name /\ new.parent = items[r.id].parent
                        /\ new.trashed = items[r.id].trashed
    <2> SUFFICES ASSUME r.id \in Ids
                 PROVE  /\ old \in Seq(Nat) /\ body \in Seq(Nat) /\ items[r.id] # None
                        /\ new \in Items
                        /\ new.body = body /\ new.kind = items[r.id].kind
                        /\ new.name = items[r.id].name /\ new.parent = items[r.id].parent
                        /\ new.trashed = items[r.id].trashed
      OBVIOUS
    <2>1. r.id # 0
      BY DEF Ids
    <2>2. items[r.id] \in Items
      BY <1>2, <2>1, ItsItem
    <2>3. old \in Seq(Nat)
      BY <2>2 DEF Items
    <2>4. body \in Seq(Nat)
      BY <1>2, <2>3, FilledIs
    <2> QED
      BY <1>2, <2>3, <2>4, RewrittenIs
  <1>7. DriveTyped' /\ Grows
    <2>1. revisions' \in [Ids -> SUBSET Seq(Nat)]
      BY <1>1, <1>2 DEF DriveTyped
    <2>2. r.id \in Ids => items[r.id] # None /\ new \in Items
      BY <1>6
    <2> QED
      BY <1>1, <1>2, <2>1, <2>2, ChangesOne DEF Grows
  <1>8. ASSUME r.alone
        PROVE  /\ r.made # 0 /\ r.id = r.made /\ FoldersKept /\ Named(r.name, r.at)' = {r.made}
               /\ items'[r.made].body = body /\ r.tries \in 1..2 /\ Len(body) = r.tries
               /\ FilledTo(body, r.tries, r.n) /\ body \in Seq(Nat)
    <2>1. /\ r.made # 0 /\ r.id = r.made /\ Named(r.name, r.at) = {r.made}
          /\ r.tries \in 1..2 /\ Len(old) = r.tries
          /\ FilledBefore(old, r.tries, r.n)
      BY <1>2, <1>3, <1>8 DEF Underway, Filling, FilledBefore
    <2>2. r.id \in Ids
      BY <1>2, <2>1, ItsItem
    <2>3. FoldersKept /\ \A name, f : Named(name, f)' = Named(name, f)
      BY <1>1, <1>2, <1>6, <2>2, BodyOnly
    <2>4. items'[r.id].body = body
      BY <1>1, <1>2, <1>6, <2>2 DEF DriveTyped
    <2>5. Len(body) = Len(old) /\ FilledTo(body, r.tries, r.n)
      BY <1>2, <1>6, <2>1, <2>2, FilledIs
    <2> QED
      BY <1>6, <2>1, <2>2, <2>3, <2>4, <2>5
  <1>9. call'[c] = After(r, ok)
    BY <1>1, <1>2 DEF Changes
  <1>10. CASE ~ok
    <2>1. After(r, ok) = Idle
      BY <1>10, EndsAs DEF After
    <2> QED
      BY <1>7, <1>9, <2>1, IdleIsSound DEF Keeps
  <1>11. CASE ok /\ r.tries < 2
    <2>1. After(r, ok) = n
      BY <1>2, <1>3, <1>11, SlidesAdvance DEF After
    <2>2. Reached(n)'
      <3>1. CASE ~r.alone
        BY <1>5, <3>1 DEF Reached
      <3>2. CASE r.alone
        BY <1>2, <1>5, <1>8, <3>2, ReachedOn
      <3> QED
        BY <3>1, <3>2
    <2>3. Underway(n)'
      <3>1. CASE ~r.alone
        BY <1>5, <3>1 DEF Underway
      <3>2. CASE r.alone
        <4>1. r.tries \in 0..1
          BY <1>8, <1>11, <3>2
        <4>2. Named(n.name, n.at)' = {n.made}
          BY <1>5, <1>8, <3>2 DEF Named, In, Live
        <4> QED
          BY <1>3, <1>5, <1>8, <3>2, <4>1, <4>2, OneSlideUnderway
      <3> QED
        BY <3>1, <3>2
    <2>4. Step(n) # "resolve"
      BY <1>2, <1>3, <1>5, Requests DEF Step
    <2>5. n.pc # 0 /\ n.pc <= Length(n.tool) /\ n.rest = <<>>
          /\ n.tool \notin Texts \cup {"createShortcut", "bulkConvertFolderPdfs"}
      BY <1>3, <1>4, <1>5 DEF Texts
    <2>6. n.tool = "createGoogleSlides" /\ n.pc \in 1..4 => n.tries = 0
      BY <1>5
    <2>7. Sound(n)'
      BY <1>2, <1>5, <1>7, <2>2, <2>3, <2>4, <2>5, <2>6, NextIsSound
    <2> QED
      BY <1>5, <1>7, <1>9, <2>1, <2>7 DEF Keeps
  <1>12. CASE ok /\ ~(r.tries < 2)
    <2> PICK z : z = IF r.alone THEN ToStep(r, 0) ELSE Idle
      OBVIOUS
    <2>1. After(r, ok) = z
      BY <1>2, <1>3, <1>12, SlidesAdvance DEF After
    <2>2. r.alone => Reached(r)' /\ Promise(r)'
      <3> SUFFICES ASSUME r.alone PROVE Reached(r)' /\ Promise(r)'
        OBVIOUS
      <3>1. Reached(r)'
        BY <1>2, <1>8, ReachedOn
      <3>2. r.tries = 2
        BY <1>8, <1>12
      <3>3. body = Twice(r.n)
        BY <1>8, <3>2, AllFilled
      <3>4. Promise(r)'
        BY <1>3, <1>8, <3>3, SlidesPromise
      <3> QED
        BY <3>1, <3>4
    <2>3. Sound(z)'
      BY <1>2, <1>4, <1>7, <2>2, DoneIsSound
    <2>4. z \in Calls
      BY <1>2, AtPc, IdleIsSound
    <2> QED
      BY <1>7, <1>9, <2>1, <2>3, <2>4 DEF Keeps
  <1> QED
    BY <1>10, <1>11, <1>12


-----------------------------------------------------------------------------
(***************************************************************************)
(* Folders in folders.                                                     *)
(***************************************************************************)

\* A set of numbers has a least one.
LEMMA NatMin ==
  ASSUME NEW S \in SUBSET Nat, S # {}
  PROVE  \E n \in S : \A m \in S : n <= m
  <1>1. IsWellFoundedOn(OpToRel(<, Nat), Nat)
    BY Zenon, NatLessThanWellFounded
  <1>2. PICK n \in S : \A m \in S : ~(<<m, n>> \in OpToRel(<, Nat))
    BY Zenon, <1>1, WFMin
  <1>3. ASSUME NEW m \in S PROVE n <= m
    <2>1. ~(m < n)
      BY <1>2 DEF OpToRel
    <2> QED
      BY <2>1
  <1> QED
    BY <1>3

\* The folder that folder g is in.
Above(g) == IF g = Root THEN Root ELSE items[g].parent

\* The folders above f, as far as m steps.
IsWayUp(g, f, m) ==
  g = [d \in 0..m |-> IF d = 0 THEN f ELSE Above(g[d - 1])]

LEMMA WayUpExists ==
  ASSUME NEW f, NEW m \in Nat
  PROVE  \E g : IsWayUp(g, f, m)
  <1> DEFINE S == {k \in Nat : ~\E g : IsWayUp(g, f, k)}
  <1> SUFFICES ASSUME S # {} PROVE FALSE
    OBVIOUS
  <1>1. PICK k \in S : \A j \in S : k <= j
    BY NatMin
  <1>2. CASE k = 0
    <2>1. IsWayUp([d \in 0..0 |-> f], f, 0)
      BY DEF IsWayUp
    <2> QED
      BY <1>1, <1>2, <2>1
  <1>3. CASE k # 0
    <2>1. k - 1 \in Nat /\ k - 1 \notin S
      BY <1>1, <1>3
    <2>2. PICK g : IsWayUp(g, f, k - 1)
      BY <2>1
    <2> PICK h : h = [d \in 0..k |-> IF d = 0 THEN f ELSE Above(g[d - 1])]
      OBVIOUS
    <2>3. ASSUME NEW d \in 0..(k - 1) PROVE h[d] = g[d]
      BY <2>1, <2>2 DEF IsWayUp
    <2>4. ASSUME NEW d \in 0..k, d # 0 PROVE h[d - 1] = g[d - 1]
      <3>1. d - 1 \in 0..(k - 1)
        BY <2>1, <2>4
      <3> QED
        BY <2>3, <3>1
    <2>5. h = [d \in 0..k |-> IF d = 0 THEN f ELSE Above(h[d - 1])]
      BY <2>4
    <2> QED
      BY <1>1, <2>5 DEF IsWayUp
  <1> QED
    BY <1>2, <1>3

LEMMA AncestorsAre ==
  ASSUME NEW f
  PROVE  \A d \in 0..MaxItems :
             Ancestors(f)[d] = IF d = 0 THEN f ELSE Above(Ancestors(f)[d - 1])
  <1>1. MaxItems \in Nat
    BY ConstantsAssumption
  <1>2. PICK g : IsWayUp(g, f, MaxItems)
    BY <1>1, WayUpExists
  <1>3. Ancestors(f) = CHOOSE h : IsWayUp(h, f, MaxItems)
    BY DEF Ancestors, IsWayUp, Above
  <1>4. IsWayUp(Ancestors(f), f, MaxItems)
    BY <1>2, <1>3
  <1> PICK h : h = Ancestors(f)
    OBVIOUS
  <1>5. h = [d \in 0..MaxItems |-> IF d = 0 THEN f ELSE Above(h[d - 1])]
    BY <1>4 DEF IsWayUp
  <1> QED
    BY <1>5

\* The chain of folders that a path leads through.
IsChain(chain, path, k, f) ==
    /\ chain \in [0..k -> Places]
    /\ chain[0] = Root /\ chain[k] = f
    /\ \A i \in 1..k : SubFolder(chain[i], path[i], chain[i - 1])

\* No folder comes twice in it.
LEMMA ChainIsInjective ==
  ASSUME NEW chain, NEW path, NEW k \in Nat, NEW f, IsChain(chain, path, k, f)
  PROVE  \A a, b \in 0..k : a < b => chain[a] # chain[b]
  <1> PICK S : S = {a \in 0..k : \E b \in 0..k : a < b /\ chain[a] = chain[b]}
    OBVIOUS
  <1> SUFFICES ASSUME S # {} PROVE FALSE
    OBVIOUS
  <1>0. S \in SUBSET Nat
    OBVIOUS
  <1>1. PICK a \in S : \A j \in S : a <= j
    BY <1>0, NatMin
  <1>2. PICK b \in 0..k : a < b /\ chain[a] = chain[b]
    OBVIOUS
  <1>3. b \in 1..k /\ SubFolder(chain[b], path[b], chain[b - 1])
    BY <1>2 DEF IsChain
  <1>4. chain[b] \in Ids /\ items[chain[b]].parent = chain[b - 1]
    BY <1>3 DEF SubFolder
  <1>5. a # 0
    BY <1>2, <1>4 DEF IsChain, Ids, Root
  <1>6. a \in 1..k /\ SubFolder(chain[a], path[a], chain[a - 1])
    BY <1>5 DEF IsChain
  <1>7. items[chain[a]].parent = chain[a - 1]
    BY <1>6 DEF SubFolder
  <1>8. chain[a - 1] = chain[b - 1]
    BY <1>2, <1>4, <1>7
  <1>9. a - 1 \in S /\ ~(a <= a - 1)
    BY <1>2, <1>3, <1>6, <1>8
  <1> QED
    BY <1>1, <1>9

LEMMA ChainIsShort ==
  ASSUME NEW chain, NEW path, NEW k \in Nat, NEW f, IsChain(chain, path, k, f)
  PROVE  k <= MaxItems
  <1> PICK g : g = [i \in 1..k |-> chain[i]]
    OBVIOUS
  <1>1. \A i \in 1..k : chain[i] \in Ids
    BY DEF IsChain, SubFolder
  <1>2. \A a, b \in 1..k : g[a] = g[b] => a = b
    <2> SUFFICES ASSUME NEW a \in 1..k, NEW b \in 1..k, g[a] = g[b], a # b PROVE FALSE
      OBVIOUS
    <2>1. a \in 0..k /\ b \in 0..k /\ (a < b \/ b < a) /\ chain[a] = chain[b]
      OBVIOUS
    <2> QED
      BY <2>1, ChainIsInjective
  <1>3. g \in Injection(1..k, Ids)
    BY <1>1, <1>2 DEF Injection, IsInjective
  <1>4. IsFiniteSet(Ids) /\ Cardinality(Ids) = MaxItems /\ Cardinality(1..k) = k
    <2>1. MaxItems \in Nat
      BY ConstantsAssumption
    <2>2. \A m \in Nat : IsFiniteSet(1..m) /\ Cardinality(1..m) = m
      BY FS_Interval
    <2> QED
      BY <2>1, <2>2 DEF Ids
  <1> QED
    BY <1>3, <1>4, FS_Injection

\* The folders above the last one are those of the chain.
LEMMA ChainGoesUp ==
  ASSUME NEW chain, NEW path, NEW k \in Nat, NEW f, IsChain(chain, path, k, f)
  PROVE  \A d \in 0..k : Ancestors(f)[d] = chain[k - d]
  <1> PICK up : up = Ancestors(f)
    OBVIOUS
  <1> PICK S : S = {d \in 0..k : up[d] # chain[k - d]}
    OBVIOUS
  <1> SUFFICES ASSUME S # {} PROVE FALSE
    OBVIOUS
  <1>0. S \in SUBSET Nat
    OBVIOUS
  <1>1. PICK d \in S : \A j \in S : d <= j
    BY <1>0, NatMin
  <1>2. k <= MaxItems /\ MaxItems \in Nat
    BY ChainIsShort, ConstantsAssumption
  <1>3. \A e \in 0..MaxItems : up[e] = IF e = 0 THEN f ELSE Above(up[e - 1])
    BY AncestorsAre
  <1>4. CASE d = 0
    <2>1. up[0] = f /\ chain[k - 0] = f
      BY <1>2, <1>3 DEF IsChain
    <2> QED
      BY <1>4, <2>1
  <1>5. CASE d # 0
    <2>1. d - 1 \in 0..k /\ d - 1 \notin S /\ k - (d - 1) \in 1..k /\ k - (d - 1) - 1 = k - d
      BY <1>1, <1>5
    <2>2. up[d - 1] = chain[k - (d - 1)]
      BY <2>1
    <2> PICK e \in 1..k : e = k - (d - 1)
      BY <2>1
    <2>3. chain[e] \in Ids /\ items[chain[e]].parent = chain[e - 1]
      BY DEF IsChain, SubFolder
    <2>4. up[d] = Above(up[d - 1])
      BY <1>2, <1>3, <1>5
    <2>5. chain[e] # Root
      BY <2>3 DEF Ids, Root
    <2>6. up[d] = chain[e - 1]
      BY <2>2, <2>3, <2>4, <2>5 DEF Above
    <2> QED
      BY <2>1, <2>6
  <1> QED
    BY <1>4, <1>5

\* A path leads through no folder that its last one does not lie in.
LEMMA ChainAvoids ==
  ASSUME NEW chain, NEW path, NEW k \in Nat, NEW f, IsChain(chain, path, k, f),
         NEW i, ~Inside(f, i)
  PROVE  \A j \in 0..k : chain[j] # i
  <1> SUFFICES ASSUME NEW j \in 0..k, chain[j] = i PROVE FALSE
    OBVIOUS
  <1> PICK d \in 0..k : d = k - j /\ j = k - d
    OBVIOUS
  <1>1. Ancestors(f)[d] = i
    BY ChainGoesUp
  <1>2. d \in 0..MaxItems
    BY ChainIsShort, ConstantsAssumption
  <1> QED
    BY <1>1, <1>2 DEF Inside


LEMMA LeadsStay ==
  ASSUME NEW path, NEW k \in Nat, NEW f, Leads(path, k, f), NEW i, ~Inside(f, i),
         \A j \in Ids : j # i => items'[j] = items[j]
  PROVE  Leads(path, k, f)'
  <1>1. PICK chain : IsChain(chain, path, k, f)
    BY DEF Leads, IsChain
  <1>2. ASSUME NEW j \in 1..k PROVE SubFolder(chain[j], path[j], chain[j - 1])'
    <2>1. chain[j] # i
      BY <1>1, ChainAvoids
    <2>2. SubFolder(chain[j], path[j], chain[j - 1])
      BY <1>1 DEF IsChain
    <2> PICK a, b, n : a = chain[j] /\ b = chain[j - 1] /\ n = path[j]
      OBVIOUS
    <2>3. SubFolder(a, n, b) /\ items'[a] = items[a]
      BY <2>1, <2>2 DEF SubFolder
    <2>4. SubFolder(a, n, b)'
      BY <2>3 DEF SubFolder, Live
    <2> QED
      BY <2>4 DEF SubFolder, Live
  <1> QED
    BY <1>1, <1>2 DEF Leads, IsChain

-----------------------------------------------------------------------------
(***************************************************************************)
(* What is underway after a request, for each tool and request that follows. *)
(***************************************************************************)

\* Nothing is yet, or the tool needs no more to be known.
LEMMA NothingUnderway ==
  ASSUME NEW n,
         \/ n.pc \in 0..1
         \/ n.pc = 2 /\ n.tool # "bulkConvertFolderPdfs"
         \/ n.pc = 3 /\ n.tool = "moveItem"
         \/ n.tool \notin Checked \cup {"moveItem", "duplicate_sheet_in_new_spreadsheet",
                                        "insertText", "bulkConvertFolderPdfs"}
  PROVE  Underway(n)'
  BY DEF Underway, Filling, Checked

\* The name is free.
LEMMA NameUnderway ==
  ASSUME NEW n, n.tool \in Checked, n.pc = 3, n.alone => Named(n.name, n.at)' = {}
  PROVE  Underway(n)'
  BY DEF Underway, Filling, Checked

\* The document is made, and is to be filled.
LEMMA DocUnderway ==
  ASSUME NEW n, n.tool = "createGoogleDoc", n.pc = 4,
         n.alone => n.made # 0 /\ Named(n.name, n.at)' = {n.made}
  PROVE  Underway(n)'
  BY DEF Underway, Filling, Checked

\* The spreadsheet or presentation is made, in the root.
LEMMA MadeUnderway ==
  ASSUME NEW n, n.tool \in Filling, n.pc = 4,
         n.alone => /\ n.made # 0 /\ n.id = n.made
                    /\ Named(n.name, n.at)' \subseteq {n.made}
                    /\ Live(n.made)' /\ items'[n.made].kind # "folder"
                    /\ items'[n.made].name = n.name /\ items'[n.made].body = <<>>
  PROVE  Underway(n)'
  BY DEF Underway, Filling, Checked

\* The item has been moved.
LEMMA MoveUnderway ==
  ASSUME NEW n, n.tool = "moveItem", n.pc = 4, n.alone => items'[n.id].parent = n.at
  PROVE  Underway(n)'
  BY DEF Underway, Filling, Checked

\* The new spreadsheet is made, and is to hold a copy of the sheet.
LEMMA TabUnderway ==
  ASSUME NEW n, n.tool = "duplicate_sheet_in_new_spreadsheet", n.pc \in 3..4,
         n.alone => n.made # 0 /\ items'[n.made].name = n.name,
         n.alone /\ n.pc = 4 => items'[n.made].body = items'[n.id].body
  PROVE  Underway(n)'
  BY DEF Underway, Filling, Checked

\* The text has been fetched.
LEMMA InsertUnderway ==
  ASSUME NEW n, n.tool = "insertText", n.pc = 3, n.alone => n.saw = items'[n.id].body
  PROVE  Underway(n)'
  BY DEF Underway, Filling, Checked

\* Some PDFs are to be converted, and the others are.
LEMMA BulkUnderway ==
  ASSUME NEW n, n.tool = "bulkConvertFolderPdfs", n.pc = 2,
         n.alone => \A p \in In(n.id)' : items'[p].kind = "pdf" =>
                       p \in n.saw \/ HasDoc(p, n.id)' \/ OffPage(p, n.listed)
  PROVE  Underway(n)'
  BY DEF Underway, Filling, Checked

\* A call alone is still where it was when its item has moved elsewhere.
LEMMA ReachedStays ==
  ASSUME NEW r, Reached(r), NEW n, n.alone => r.alone, n.path = r.path, n.rest = r.rest,
         n.at = r.at, r.path \in Seq(Names), NEW i, ~Inside(r.at, i),
         \A j \in Ids : j # i => items'[j] = items[j]
  PROVE  Reached(n)'
  <1> SUFFICES ASSUME n.alone, n.path # <<>>
               PROVE  \E k \in 0..Len(n.path) :
                          n.rest = SubSeq(n.path, k + 1, Len(n.path)) /\ Leads(n.path, k, n.at)'
    BY DEF Reached
  <1>1. PICK k \in 0..Len(n.path) :
            n.rest = SubSeq(n.path, k + 1, Len(n.path)) /\ Leads(n.path, k, n.at)
    BY DEF Reached
  <1>2. k \in Nat /\ ~Inside(n.at, i)
    OBVIOUS
  <1>3. Leads(n.path, k, n.at)'
    BY <1>1, <1>2, LeadsStay
  <1> QED
    BY <1>1, <1>3

LEMMA MoveKeeps ==
  ASSUME IInv, NEW c \in Callers, NEW ok \in BOOLEAN, Move(c, ok)
  PROVE  Keeps(c)
  <1> PICK r : r = call[c]
    OBVIOUS
  <1> PICK new : new = [items[r.id] EXCEPT !.parent = r.at]
    OBVIOUS
  <1> PICK n : n = ToStep(r, 4)
    OBVIOUS
  <1>1. PICK allowed : /\ Updates(c, "move", allowed, new, ok) /\ revisions' = revisions
                       /\ allowed => ~Inside(r.at, r.id)
    BY DEF Move
  <1>2. /\ Before(c, "move") /\ r \in Calls /\ Formed(r) /\ r.tool \in Tools
        /\ r.pc \in 1..Length(r.tool) /\ Handlers[r.tool][r.pc] = "move" /\ DriveTyped
        /\ Reached(r) /\ Underway(r)
    BY <1>1, CallAt DEF Updates, At
  <1>3. /\ r.tool = "moveItem" /\ r.pc = 3 /\ r.pc < Length(r.tool)
        /\ 4 \in 1..Length(r.tool) /\ r.at \in Places
    BY <1>2, Requests, Lengths DEF Calls
  <1>4. r.rest = <<>> /\ r.id # 0
    BY <1>2, <1>3, CallAt DEF Making, Checked
  <1>5. Handlers[r.tool][4] # "resolve"
    BY <1>2, <1>3, Requests
  <1>6. r.id \in Ids /\ items[r.id] \in Items /\ items[r.id] # None
    BY <1>2, <1>4, ItsItem
  <1>7. new \in Items /\ new.parent = r.at
    BY ZenonT(30), <1>3, <1>6, ItemWith DEF Items
  <1>8. /\ n.pc = 4 /\ n.tool = r.tool /\ n.path = r.path /\ n.at = r.at
        /\ n.id = r.id /\ n.rest = r.rest /\ n.alone = r.alone
    BY <1>2, AtPc
  <1>9. ASSUME allowed, items' = [items EXCEPT ![r.id] = new]
        PROVE  Reached(n)' /\ Underway(n)'
    <2>1. ~Inside(r.at, r.id) /\ r.path \in Seq(Names)
      BY <1>1, <1>2, <1>9 DEF Calls
    <2>2. items'[r.id] = new /\ \A j \in Ids : j # r.id => items'[j] = items[j]
      BY <1>2, <1>6, <1>9 DEF DriveTyped
    <2>3. Reached(n)'
      BY <1>2, <1>8, <2>1, <2>2, ReachedStays
    <2>4. Underway(n)'
      BY ZenonT(30), <1>3, <1>7, <1>8, <2>2, MoveUnderway
    <2> QED
      BY <2>3, <2>4
  <1>10. r.tool \notin Texts \cup {"copyFile", "createShortcut", "bulkConvertFolderPdfs"}
    BY <1>3 DEF Texts
  <1>11. 4 = r.pc + 1 /\ r.tool # "createGoogleSlides"
    BY <1>3
  <1>12. r.id \in Ids => new \in Items
    BY <1>7
  <1> QED
    BY <1>1, <1>3, <1>4, <1>5, <1>9, <1>10, <1>11, <1>12, UpdateGoesOn


-----------------------------------------------------------------------------
(***************************************************************************)
(* The copy of a sheet, and the text of a new document.                    *)
(***************************************************************************)

\* A call that names no path.
LEMMA NoPath ==
  ASSUME NEW n, n.path = <<>>
  PROVE  Reached(n)'
  BY DEF Reached

\* The new spreadsheet of a call, with another body.
Made(r, body) == [items[r.made] EXCEPT !.body = body]

LEMMA MadeIs ==
  ASSUME DriveTyped, NEW r \in Calls, Formed(r), r.made \in Ids, NEW body \in Seq(Nat)
  PROVE  /\ items[r.made] \in Items /\ items[r.made] # None /\ Made(r, body) \in Items
         /\ Made(r, body).body = body /\ Made(r, body).kind = items[r.made].kind
         /\ Made(r, body).name = items[r.made].name
         /\ Made(r, body).parent = items[r.made].parent
         /\ Made(r, body).trashed = items[r.made].trashed
  <1>1. r.made # 0
    BY DEF Ids
  <1>2. items[r.made] \in Items /\ items[r.made] # None
    BY <1>1 DEF DriveTyped, Formed
  <1> QED
    BY <1>2 DEF Made, Items

LEMMA CopyTabKeeps ==
  ASSUME IInv, NEW c \in Callers, NEW ok \in BOOLEAN, CopyTab(c, ok)
  PROVE  Keeps(c)
  <1> PICK r : r = call[c]
    OBVIOUS
  <1> PICK body : body = items[r.id].body
    OBVIOUS
  <1> PICK new : new = Made(r, body)
    OBVIOUS
  <1> PICK a : a = After(r, ok)
    OBVIOUS
  <1> PICK n : n = ToStep(r, 4)
    OBVIOUS
  <1>1. /\ Before(c, "tab") /\ Changes(c, a) /\ revisions' = revisions
        /\ items' = [items EXCEPT ![r.made] = new]
    BY DEF CopyTab, At, Made
  <1>2. /\ r \in Calls /\ Formed(r) /\ r.tool \in Tools /\ r.pc # 0
        /\ r.pc \in 1..Length(r.tool) /\ Handlers[r.tool][r.pc] = "tab" /\ DriveTyped
        /\ Underway(r)
    BY <1>1, CallAt
  <1>3. /\ r.tool = "duplicate_sheet_in_new_spreadsheet" /\ r.pc = 3 /\ r.pc < Length(r.tool)
        /\ 4 \in 1..Length(r.tool)
    BY <1>2, Requests, Lengths
  <1>4. r.rest = <<>> /\ r.path = <<>> /\ r.id # 0
    BY <1>1, <1>3, CallAt DEF Making, Checked
  <1>5. r.id \in Ids /\ items[r.id] \in Items /\ items[r.id] # None
    BY <1>2, <1>4, ItsItem
  <1>6. body \in Seq(Nat)
    BY <1>5 DEF Items
  <1>7. r.made \in Ids => /\ items[r.made] # None /\ new \in Items /\ new.body = body
                          /\ new.name = items[r.made].name
    BY <1>2, <1>6, MadeIs
  <1>8. DriveTyped' /\ Grows
    <2>1. revisions' \in [Ids -> SUBSET Seq(Nat)]
      BY <1>1, <1>2 DEF DriveTyped
    <2>2. r.made \in Ids => items[r.made] # None /\ new \in Items
      BY <1>7
    <2> QED
      BY <1>1, <1>2, <2>1, <2>2, ChangesOne DEF Grows
  <1>9. /\ n.pc = 4 /\ n.tool = r.tool /\ n.path = r.path /\ n.name = r.name
        /\ n.id = r.id /\ n.made = r.made /\ n.alone = r.alone
    BY <1>2, AtPc
  <1>10. Reached(n)'
    BY <1>4, <1>9, NoPath
  <1>11. Underway(n)'
    <2>1. ASSUME r.alone
          PROVE  /\ r.made # 0 /\ items'[r.made].name = r.name
                 /\ items'[r.made].body = items'[r.id].body
      <3>1. r.made # 0 /\ items[r.made].name = r.name
        BY <1>2, <1>3, <2>1 DEF Underway
      <3>2. r.made \in Ids
        BY <1>2, <3>1 DEF Calls, Places, Root
      <3>3. items'[r.made] = new /\ (r.id # r.made => items'[r.id] = items[r.id])
        BY <1>1, <1>2, <1>5, <3>2 DEF DriveTyped
      <3>4. items'[r.id].body = body
        BY <1>7, <3>2, <3>3
      <3> QED
        BY <1>7, <3>1, <3>2, <3>3, <3>4
    <2> QED
      BY <1>3, <1>9, <2>1, TabUnderway
  <1>12. Handlers[r.tool][4] # "resolve"
    BY <1>2, <1>3, Requests
  <1>13. /\ r.pc < Length(r.tool) /\ 4 = r.pc + 1 /\ r.tool # "createGoogleSlides"
         /\ r.tool \notin Texts \cup {"copyFile", "createShortcut", "bulkConvertFolderPdfs"}
    BY <1>3 DEF Texts
  <1> QED
    BY <1>1, <1>2, <1>4, <1>8, <1>10, <1>11, <1>12, <1>13, CallGoesOn

\* A document with the text once more in front.
WithText(r) == <<r.n>> \o items[r.made].body

LEMMA WithTextIs ==
  ASSUME NEW r \in Calls, items[r.made].body \in Seq(Nat)
  PROVE  WithText(r) \in Seq(Nat) /\ WithText(r) # <<>>
  <1> PICK old \in Seq(Nat) : old = items[r.made].body
    OBVIOUS
  <1> PICK x \in Nat : x = r.n
    BY DEF Calls
  <1>1. <<x>> \in Seq(Nat) /\ Len(<<x>>) = 1
    OBVIOUS
  <1>2. <<x>> \o old \in Seq(Nat) /\ Len(<<x>> \o old) = 1 + Len(old)
    BY <1>1
  <1>3. <<x>> \o old # <<>>
    BY <1>2
  <1> QED
    BY <1>2, <1>3 DEF WithText

LEMMA FillDocumentKeeps ==
  ASSUME IInv, NEW c \in Callers, NEW applied \in BOOLEAN,
         NEW outcome \in {"ok", "retryable", "final"}, FillDocument(c, applied, outcome)
  PROVE  Keeps(c)
  <1> PICK r : r = call[c]
    OBVIOUS
  <1> PICK body : body = WithText(r)
    OBVIOUS
  <1> PICK new : new = Made(r, body)
    OBVIOUS
  <1> PICK m : m = Tried(r)
    OBVIOUS
  <1> PICK a : a = IF outcome = "ok" THEN Advance(r)
                   ELSE IF outcome = "retryable" /\ r.tries < RetryMax THEN m ELSE Ended(r, TRUE)
    OBVIOUS
  <1>1. /\ Before(c, "fill") /\ revisions' = revisions /\ (outcome = "ok" => applied)
        /\ \/ applied /\ items' = [items EXCEPT ![r.made] = new] /\ Changes(c, a)
           \/ ~applied /\ items' = items /\ Goes(c, a)
    BY DEF FillDocument, At, Made, WithText, Tried
  <1>2. /\ r \in Calls /\ Formed(r) /\ r.tool \in Tools /\ r.pc # 0 /\ c \in DOMAIN call
        /\ r.pc \in 1..Length(r.tool) /\ Handlers[r.tool][r.pc] = "fill" /\ DriveTyped
        /\ Reached(r) /\ Underway(r)
    BY <1>1, CallAt
  <1>3. r.tool = "createGoogleDoc" /\ r.pc = 4 /\ r.pc = Length(r.tool)
    BY <1>2, Requests, Lengths
  <1>4. r.rest = <<>>
    BY <1>1, <1>3, CallAt
  <1>5. /\ m \in Calls /\ m.tool = r.tool /\ m.pc = r.pc /\ m.opt = r.opt /\ m.path = r.path
        /\ m.id = r.id /\ m.made = r.made /\ m.rest = r.rest /\ m.name = r.name /\ m.at = r.at
        /\ m.alone = r.alone
    BY <1>2, TriedIs
  <1>6. \/ a = m
        \/ a = Idle
        \/ outcome = "ok" /\ a = Advance(r)
    BY EndsAs
  <1>7. r.made \in Ids => /\ items[r.made] # None /\ new \in Items /\ new.body = body /\ body # <<>>
                          /\ new.name = items[r.made].name /\ new.kind = items[r.made].kind
                          /\ new.parent = items[r.made].parent
                          /\ new.trashed = items[r.made].trashed
    <2> SUFFICES ASSUME r.made \in Ids
                 PROVE  /\ items[r.made] # None /\ new \in Items /\ new.body = body /\ body # <<>>
                        /\ new.name = items[r.made].name /\ new.kind = items[r.made].kind
                        /\ new.parent = items[r.made].parent
                        /\ new.trashed = items[r.made].trashed
      OBVIOUS
    <2>0. r.made # 0
      BY DEF Ids
    <2>1. items[r.made] \in Items
      BY <1>2, <2>0 DEF DriveTyped, Formed
    <2>2. items[r.made].body \in Seq(Nat)
      BY <2>1 DEF Items
    <2>3. body \in Seq(Nat) /\ body # <<>>
      BY <1>2, <2>2, WithTextIs
    <2> QED
      BY <1>2, <2>3, MadeIs
  <1>8. DriveTyped' /\ Grows
    <2>1. CASE items' = items
      BY <1>1, <2>1, DriveStays
    <2>2. CASE items' = [items EXCEPT ![r.made] = new]
      <3>1. revisions' \in [Ids -> SUBSET Seq(Nat)]
        BY <1>1, <1>2 DEF DriveTyped
      <3>2. r.made \in Ids => items[r.made] # None /\ new \in Items
        BY <1>7
      <3> QED
        BY <1>2, <2>2, <3>1, <3>2, ChangesOne DEF Grows
    <2> QED
      BY <1>1, <2>1, <2>2
  <1>9. ASSUME r.alone
        PROVE  /\ r.made \in Ids /\ r.made # 0 /\ FoldersKept
               /\ Named(r.name, r.at) = {r.made}
               /\ \A name, f : Named(name, f)' = Named(name, f)
               /\ applied => items'[r.made].body # <<>>
    <2>1. r.made # 0 /\ Named(r.name, r.at) = {r.made}
      BY <1>2, <1>3, <1>9 DEF Underway
    <2>2. r.made \in Ids
      BY <1>2, <2>1 DEF Calls, Places, Root
    <2>3. CASE ~applied /\ items' = items
      <3>1. \A name, f : Named(name, f)' = Named(name, f)
        BY <2>3, SameDrive
      <3> QED
        BY <1>1, <2>1, <2>2, <2>3, <3>1, DriveStays
    <2>4. CASE items' = [items EXCEPT ![r.made] = new]
      <3>1. FoldersKept /\ \A name, f : Named(name, f)' = Named(name, f)
        BY <1>2, <1>7, <2>2, <2>4, BodyOnly
      <3>2. items'[r.made] = new
        BY <1>2, <2>2, <2>4 DEF DriveTyped
      <3> QED
        BY <1>7, <2>1, <2>2, <3>1, <3>2
    <2> QED
      BY <1>1, <2>3, <2>4
  <1>10. Goes(c, a) \/ Changes(c, a)
    BY <1>1
  <1>11. CASE a = Idle
    BY <1>8, <1>10, <1>11, CallFails
  <1>12. CASE a = m
    <2>1. call'[c] = m
      BY <1>2, <1>10, <1>12 DEF Goes, Changes
    <2>2. Reached(m)'
      <3>1. CASE ~r.alone
        BY <1>5, <3>1 DEF Reached
      <3>2. CASE r.alone
        BY <1>2, <1>5, <1>9, <3>2, ReachedOn
      <3> QED
        BY <3>1, <3>2
    <2>3. Underway(m)'
      <3>1. ASSUME m.alone PROVE m.made # 0 /\ Named(m.name, m.at)' = {m.made}
        <4>1. r.alone
          BY <1>5, <3>1
        <4>2. Named(m.name, m.at) = {m.made}
          BY <1>5, <1>9, <4>1
        <4> QED
          BY <1>5, <1>9, <4>1, <4>2
      <3> QED
        BY <1>3, <1>5, <3>1, DocUnderway
    <2>4. Step(m) # "resolve" /\ m.pc <= Length(m.tool)
      BY <1>2, <1>3, <1>5, Requests DEF Step
    <2>5. m.tool \notin Texts \cup {"createShortcut", "bulkConvertFolderPdfs"}
      BY <1>3, <1>5 DEF Texts
    <2>6. ~(m.tool = "createGoogleSlides")
      BY <1>3, <1>5
    <2>7. Sound(m)'
      BY <1>2, <1>4, <1>5, <1>8, <2>2, <2>3, <2>4, <2>5, <2>6, NextIsSound
    <2> QED
      BY <1>8, <2>1, <2>7 DEF Keeps
  <1>13. CASE outcome = "ok" /\ a = Advance(r)
    <2>1. a = After(r, TRUE)
      BY <1>13 DEF After
    <2>2. r.alone => Reached(r)' /\ Promise(r)'
      <3> SUFFICES ASSUME r.alone PROVE Reached(r)' /\ Promise(r)'
        OBVIOUS
      <3>1. Reached(r)'
        BY <1>2, <1>9, ReachedOn
      <3>2. Named(r.name, r.at)' = {r.made}
        BY <1>9
      <3>3. items'[r.made].body # <<>>
        BY <1>1, <1>9, <1>13
      <3>4. Promise(r)'
        BY <1>3, <3>2, <3>3 DEF Promise, Checked
      <3> QED
        BY <3>1, <3>4
    <2>3. r.tool # "createGoogleSlides"
      BY <1>3
    <2> QED
      BY <1>2, <1>3, <1>4, <1>8, <1>10, <2>1, <2>2, <2>3, CallEnds
  <1> QED
    BY <1>6, <1>11, <1>12, <1>13


-----------------------------------------------------------------------------
(***************************************************************************)
(* Requests that make an item.                                             *)
(***************************************************************************)

\* A new item is where it was made, and nothing else is other than before.
LEMMA Added ==
  ASSUME DriveTyped, NEW item \in Items, Creates(item)
  PROVE  \E new \in Ids :
           /\ new = NewId /\ items[new] = None /\ items'[new] = item /\ item # None
           /\ \A i \in Ids : i # new => items'[i] = items[i]
           /\ DriveTyped' /\ Grows /\ FoldersKept
           /\ \A name, f : /\ Named(name, f) \subseteq Named(name, f)'
                           /\ Named(name, f)' \subseteq Named(name, f) \cup {new}
           /\ \A name, f : new \in Named(name, f)' <=>
                 ~item.trashed /\ item.name = name /\ item.parent = f
  <1>1. PICK new \in Ids :
           /\ new = NewId /\ items[new] = None /\ items' = [items EXCEPT ![new] = item]
           /\ items'[new] = item /\ item # None /\ DriveTyped'
    BY CreatesOne
  <1>2. \A i \in Ids : i # new => items'[i] = items[i]
    BY <1>1 DEF DriveTyped
  <1>3. Grows
    BY <1>1, <1>2 DEF Grows
  <1>4. FoldersKept
    BY <1>1, <1>2 DEF FoldersKept, SubFolder, Live
  <1>5. ASSUME NEW name, NEW f, NEW i \in Ids, i # new
        PROVE  i \in Named(name, f)' <=> i \in Named(name, f)
    <2>1. items'[i] = items[i]
      BY <1>2, <1>5
    <2> QED
      BY <2>1 DEF Named, In, Live
  <1>6. ASSUME NEW name, NEW f
        PROVE  /\ new \notin Named(name, f)
               /\ new \in Named(name, f)' <=> ~item.trashed /\ item.name = name /\ item.parent = f
    BY <1>1 DEF Named, In, Live
  <1>7. ASSUME NEW name, NEW f
        PROVE  Named(name, f) \subseteq Ids /\ Named(name, f)' \subseteq Ids
    BY DEF Named, In
  <1>8. ASSUME NEW name, NEW f
        PROVE  /\ Named(name, f) \subseteq Named(name, f)'
               /\ Named(name, f)' \subseteq Named(name, f) \cup {new}
    BY <1>5, <1>6, <1>7
  <1> QED
    BY <1>1, <1>2, <1>3, <1>4, <1>6, <1>8

\* A call that has made item new.
Makes(r, new) == [r EXCEPT !.made = new]

LEMMA MakesIs ==
  ASSUME NEW r \in Calls, NEW new \in Ids
  PROVE  /\ Makes(r, new) \in Calls /\ Makes(r, new).tool = r.tool /\ Makes(r, new).pc = r.pc
         /\ Makes(r, new).opt = r.opt /\ Makes(r, new).path = r.path
         /\ Makes(r, new).id = r.id /\ Makes(r, new).made = new
         /\ Makes(r, new).rest = r.rest /\ Makes(r, new).name = r.name
         /\ Makes(r, new).at = r.at /\ Makes(r, new).n = r.n
         /\ Makes(r, new).alone = r.alone /\ Makes(r, new).tries = r.tries
         /\ Makes(r, new).saw = r.saw
  BY DEF Makes, Calls, Places

\* What Create makes.
TextMade(r) ==
  IF r.tool \in {"createFolder", "createGoogleDoc"} \/ (r.tool = "create_file" /\ ~r.opt)
  THEN <<>> ELSE <<r.n>>

NameMade(r) == IF r.tool = "createShortcut" THEN r.saw.name ELSE r.name

ItemMade(r) == Item(KindMade(r.tool), NameMade(r), r.at, TextMade(r))

LEMMA TextMadeIs ==
  ASSUME NEW r \in Calls
  PROVE  TextMade(r) \in Seq(Nat)
  <1>1. r.n \in Nat
    BY DEF Calls
  <1>2. <<>> \in Seq(Nat) /\ <<r.n>> \in Seq(Nat)
    BY <1>1
  <1> QED
    BY <1>2 DEF TextMade

LEMMA ItemMadeIs ==
  ASSUME NEW r \in Calls,
         r.tool \in {"createTextFile", "createFolder", "createDocFromHTML", "createGoogleDoc",
                     "createShortcut", "uploadFile", "create_file"},
         r.tool = "createShortcut" => r.saw \in Items
  PROVE  /\ ItemMade(r) \in Items /\ ItemMade(r).trashed = FALSE /\ ItemMade(r).parent = r.at
         /\ r.tool \in Checked => ItemMade(r).name = r.name
         /\ r.tool = "create_file" => ItemMade(r).kind = "sheet"
  <1>1. KindMade(r.tool) \in Kinds
    BY DEF KindMade, Kinds
  <1>2. NameMade(r) \in SomeName
    BY DEF NameMade, Calls, SomeName, Items
  <1>3. TextMade(r) \in Seq(Nat)
    BY TextMadeIs
  <1>4. r.at \in Places
    BY DEF Calls
  <1>5. ItemMade(r) \in Items
    BY <1>1, <1>2, <1>3, <1>4, ItemIs DEF ItemMade
  <1>7. /\ ItemMade(r).trashed = FALSE /\ ItemMade(r).parent = r.at
        /\ ItemMade(r).name = NameMade(r)
    BY DEF ItemMade, Item
  <1>6. r.tool \in Checked => NameMade(r) = r.name
    BY DEF Checked, NameMade
  <1>8. r.tool = "create_file" => KindMade(r.tool) = "sheet"
    BY DEF KindMade
  <1>9. ItemMade(r).kind = KindMade(r.tool)
    BY DEF ItemMade, Item
  <1> QED
    BY <1>5, <1>6, <1>7, <1>8, <1>9

LEMMA CreatePromise ==
  ASSUME NEW m, m.tool \in {"createShortcut", "uploadFile", "create_file"},
         items'[m.made].parent = m.at, m.tool = "create_file" => items'[m.made].kind = "sheet"
  PROVE  Promise(m)'
  BY DEF Promise, Checked

LEMMA CreateKeeps ==
  ASSUME IInv, NEW c \in Callers, NEW ok \in BOOLEAN, Create(c, ok)
  PROVE  Keeps(c)
  <1> PICK r : r = call[c]
    OBVIOUS
  <1> PICK item : item = ItemMade(r)
    OBVIOUS
  <1> PICK m : m = Makes(r, NewId)
    OBVIOUS
  <1> PICK a : a = After(m, ok)
    OBVIOUS
  <1> PICK n : n = ToStep(m, 4)
    OBVIOUS
  <1>1. Before(c, "create") /\ Changes(c, a) /\ Creates(item)
    BY DEF Create, At, ItemMade, NameMade, TextMade, Makes
  <1>2. /\ r \in Calls /\ Formed(r) /\ r.tool \in Tools /\ r.pc # 0
        /\ r.pc \in 1..Length(r.tool) /\ Handlers[r.tool][r.pc] = "create" /\ DriveTyped
        /\ Reached(r) /\ Underway(r)
    BY <1>1, CallAt
  <1>3. /\ \/ r.pc = 3 /\ r.tool \in {"createTextFile", "createFolder", "createDocFromHTML",
                                      "createGoogleDoc", "createShortcut"}
           \/ r.pc = 2 /\ r.tool \in {"uploadFile", "create_file"}
        /\ r.tool # "createGoogleDoc" => r.pc = Length(r.tool)
        /\ r.tool = "createGoogleDoc" => Length(r.tool) = 4
    BY <1>2, Requests, Lengths
  <1>4. r.rest = <<>>
    BY <1>1, <1>3, CallAt
  <1>5. r.tool = "createShortcut" => r.saw \in Items
    BY <1>2, <1>3 DEF Formed
  <1>6. /\ item \in Items /\ item.trashed = FALSE /\ item.parent = r.at
        /\ r.tool \in Checked => item.name = r.name
    BY <1>2, <1>3, <1>5, ItemMadeIs
  <1>7. PICK new \in Ids :
           /\ new = NewId /\ items[new] = None /\ items'[new] = item /\ item # None
           /\ DriveTyped' /\ Grows /\ FoldersKept
           /\ \A name, f : /\ Named(name, f) \subseteq Named(name, f)'
                           /\ Named(name, f)' \subseteq Named(name, f) \cup {new}
           /\ \A name, f : new \in Named(name, f)' <=>
                 ~item.trashed /\ item.name = name /\ item.parent = f
    BY <1>1, <1>2, <1>6, Added
  <1>8. /\ m \in Calls /\ m.tool = r.tool /\ m.pc = r.pc /\ m.opt = r.opt /\ m.path = r.path
        /\ m.id = r.id /\ m.made = new /\ m.rest = r.rest /\ m.name = r.name /\ m.at = r.at
        /\ m.alone = r.alone /\ new # 0
    BY <1>2, <1>7, MakesIs DEF Ids
  <1>9. r.alone /\ r.tool \in Checked => Named(m.name, m.at)' = {new}
    <2> SUFFICES ASSUME r.alone, r.tool \in Checked PROVE Named(m.name, m.at)' = {new}
      OBVIOUS
    <2>1. Named(m.name, m.at) = {}
      BY <1>2, <1>3, <1>8 DEF Underway, Checked
    <2>2. new \in Named(m.name, m.at)'
      BY <1>6, <1>7, <1>8
    <2> QED
      BY <1>7, <2>1, <2>2
  <1>10. items'[m.made] # None
    BY <1>7, <1>8
  <1>11. Reached(m)'
    BY <1>2, <1>7, <1>8, ReachedOn
  <1>12. Goes(c, a) \/ Changes(c, a)
    BY <1>1
  <1>13. CASE r.tool = "createGoogleDoc"
    <2>1. /\ n.pc = 4 /\ n.tool = m.tool /\ n.path = m.path /\ n.name = m.name
          /\ n.at = m.at /\ n.rest = m.rest /\ n.made = m.made /\ n.alone = m.alone
      BY <1>8, AtPc
    <2>2. Reached(n)'
      BY <1>11, <2>1 DEF Reached
    <2>3. n.alone => n.made # 0 /\ Named(n.name, n.at)' = {n.made}
      <3> SUFFICES ASSUME n.alone PROVE n.made # 0 /\ Named(n.name, n.at)' = {n.made}
        OBVIOUS
      <3>1. Named(m.name, m.at)' = {new}
        BY <1>8, <1>9, <1>13, <2>1 DEF Checked
      <3>2. n.name = m.name /\ n.at = m.at /\ n.made = new
        BY <1>8, <2>1
      <3> QED
        BY <1>8, <3>1, <3>2 DEF Named, In, Live
    <2>4. Underway(n)'
      BY <1>8, <1>13, <2>1, <2>3, DocUnderway
    <2>5. Handlers[r.tool][4] # "resolve"
      BY <1>2, <1>3, <1>13, Requests
    <2>6. /\ r.pc < Length(r.tool) /\ 4 = r.pc + 1 /\ r.tool # "createGoogleSlides"
          /\ r.tool \notin Texts \cup {"copyFile", "createShortcut", "bulkConvertFolderPdfs"}
      BY <1>3, <1>13 DEF Texts
    <2> QED
      BY <1>2, <1>4, <1>7, <1>8, <1>10, <1>12, <2>2, <2>4, <2>5, <2>6, CallGoesOn
  <1>14. CASE r.tool # "createGoogleDoc"
    <2>1. r.alone => Promise(m)'
      <3>1. CASE r.tool \in Checked
        BY <1>3, <1>8, <1>9, <1>14, <3>1 DEF Promise, Checked
      <3>2. CASE r.tool \notin Checked
        <4>1. items'[m.made] = item /\ (r.tool = "create_file" => item.kind = "sheet")
          BY <1>2, <1>3, <1>5, <1>7, <1>8, ItemMadeIs
        <4>2. m.tool \in {"createShortcut", "uploadFile", "create_file"}
          BY <1>3, <1>8, <3>2 DEF Checked
        <4> QED
          BY <1>6, <1>8, <4>1, <4>2, CreatePromise
      <3> QED
        BY <3>1, <3>2
    <2>2. r.pc = Length(r.tool) /\ r.tool # "createGoogleSlides"
      BY <1>3, <1>14
    <2> QED
      BY <1>2, <1>4, <1>7, <1>8, <1>10, <1>11, <1>12, <2>1, <2>2, CallEnds
  <1> QED
    BY <1>13, <1>14


\* What New makes.
BlankMade(r) ==
  Item(IF r.tool = "createGoogleSlides" THEN "slides" ELSE "sheet", r.name, Root, <<>>)

LEMMA BlankMadeIs ==
  ASSUME NEW r \in Calls
  PROVE  /\ BlankMade(r) \in Items /\ BlankMade(r).trashed = FALSE /\ BlankMade(r).body = <<>>
         /\ BlankMade(r).name = r.name /\ BlankMade(r).kind # "folder"
         /\ BlankMade(r).parent = Root
  <1>1. r.name \in SomeName /\ Root \in Places
    BY DEF Calls, Places
  <1>2. <<>> \in Seq(Nat)
    OBVIOUS
  <1>3. "slides" \in Kinds /\ "sheet" \in Kinds
    BY DEF Kinds
  <1>4. BlankMade(r) \in Items
    <2>1. CASE r.tool = "createGoogleSlides"
      BY <1>1, <1>2, <1>3, <2>1, ItemIs DEF BlankMade
    <2>2. CASE r.tool # "createGoogleSlides"
      BY <1>1, <1>2, <1>3, <2>2, ItemIs DEF BlankMade
    <2> QED
      BY <2>1, <2>2
  <1> QED
    BY <1>4 DEF BlankMade, Item

\* A call that has made spreadsheet or presentation new.
NewCall(r, new) == [r EXCEPT !.id = IF r.tool \in Checked THEN new ELSE @, !.made = new]

LEMMA NewCallIs ==
  ASSUME NEW r \in Calls, NEW new \in Ids
  PROVE  /\ NewCall(r, new) \in Calls /\ NewCall(r, new).tool = r.tool
         /\ NewCall(r, new).pc = r.pc /\ NewCall(r, new).opt = r.opt
         /\ NewCall(r, new).path = r.path /\ NewCall(r, new).made = new
         /\ r.tool \in Checked => NewCall(r, new).id = new
         /\ r.tool \notin Checked => NewCall(r, new).id = r.id
         /\ NewCall(r, new).rest = r.rest /\ NewCall(r, new).name = r.name
         /\ NewCall(r, new).at = r.at /\ NewCall(r, new).n = r.n
         /\ NewCall(r, new).alone = r.alone /\ NewCall(r, new).tries = r.tries
  <1>1. CASE r.tool \in Checked
    BY <1>1 DEF NewCall, Calls, Places
  <1>2. CASE r.tool \notin Checked
    BY <1>2 DEF NewCall, Calls, Places
  <1> QED
    BY <1>1, <1>2

LEMMA NewKeeps ==
  ASSUME IInv, NEW c \in Callers, NEW ok \in BOOLEAN, New(c, ok)
  PROVE  Keeps(c)
  <1> PICK r : r = call[c]
    OBVIOUS
  <1> PICK item : item = BlankMade(r)
    OBVIOUS
  <1> PICK m : m = NewCall(r, NewId)
    OBVIOUS
  <1> PICK a : a = After(m, ok)
    OBVIOUS
  <1>1. Before(c, "new") /\ Changes(c, a) /\ Creates(item)
    BY DEF New, At, BlankMade, NewCall
  <1>2. /\ r \in Calls /\ Formed(r) /\ r.tool \in Tools /\ r.pc # 0
        /\ r.pc \in 1..Length(r.tool) /\ Handlers[r.tool][r.pc] = "new" /\ DriveTyped
        /\ Reached(r) /\ Underway(r)
    BY <1>1, CallAt
  <1>3. \/ r.pc = 3 /\ r.tool \in Filling /\ Length(r.tool) \in 5..7
        \/ r.pc = 2 /\ r.tool = "duplicate_sheet_in_new_spreadsheet" /\ Length(r.tool) = 4
    BY <1>2, Requests, Lengths DEF Filling
  <1>4. r.rest = <<>> /\ (r.tool \notin Filling => r.path = <<>>)
    BY <1>1, <1>3, CallAt DEF Checked, Filling
  <1>5. /\ item \in Items /\ item.trashed = FALSE /\ item.body = <<>>
        /\ item.name = r.name /\ item.kind # "folder"
    BY <1>2, BlankMadeIs
  <1>6. PICK new \in Ids :
           /\ new = NewId /\ items[new] = None /\ items'[new] = item /\ item # None
           /\ DriveTyped' /\ Grows /\ FoldersKept
           /\ \A name, f : /\ Named(name, f) \subseteq Named(name, f)'
                           /\ Named(name, f)' \subseteq Named(name, f) \cup {new}
    BY <1>1, <1>2, <1>5, Added
  <1>7. /\ m \in Calls /\ m.tool = r.tool /\ m.pc = r.pc /\ m.opt = r.opt /\ m.path = r.path
        /\ r.tool \in Checked => m.id = new
        /\ r.tool \notin Checked => m.id = r.id
        /\ m.made = new /\ m.rest = r.rest /\ m.name = r.name /\ m.at = r.at
        /\ m.alone = r.alone /\ m.tries = r.tries /\ new # 0
    BY <1>2, <1>6, NewCallIs DEF Ids
  <1>8. /\ items'[m.made] # None /\ items'[m.made] = item
        /\ m.id = r.id \/ (m.id # 0 /\ items'[m.id] # None)
    BY <1>6, <1>7
  <1>9. Reached(m)'
    BY <1>2, <1>6, <1>7, ReachedOn
  <1>10. Goes(c, a) \/ Changes(c, a)
    BY <1>1
  <1>11. r.tool \notin Texts \cup {"copyFile", "createShortcut", "bulkConvertFolderPdfs"}
    BY <1>3 DEF Texts, Filling
  <1>12. CASE r.tool \in Filling
    <2> PICK n : n = ToStep(m, 4)
      OBVIOUS
    <2>0. r.pc = 3 /\ r.tool \in Checked /\ r.pc < Length(r.tool) /\ 4 = r.pc + 1
          /\ 4 \in 1..Length(r.tool)
      BY <1>3, <1>12 DEF Filling, Checked
    <2>1. /\ n.pc = 4 /\ n.tool = m.tool /\ n.path = m.path /\ n.name = m.name /\ n.id = m.id
          /\ n.at = m.at /\ n.rest = m.rest /\ n.made = m.made /\ n.alone = m.alone
      BY <1>7, AtPc
    <2>2. Reached(n)'
      BY ZenonT(30), <1>9, <2>1 DEF Reached
    <2>3. ASSUME n.alone
          PROVE  /\ n.made # 0 /\ n.id = n.made
                 /\ Named(n.name, n.at)' \subseteq {n.made}
                 /\ Live(n.made)' /\ items'[n.made].kind # "folder"
                 /\ items'[n.made].name = n.name /\ items'[n.made].body = <<>>
      <3>1. n.made = new /\ n.id = new /\ n.name = r.name /\ n.at = r.at /\ r.alone
        BY <1>7, <2>0, <2>1, <2>3
      <3>2. Named(r.name, r.at) = {}
        BY <1>2, <2>0, <3>1 DEF Underway
      <3>3. Named(n.name, n.at) = {}
        BY <3>1, <3>2
      <3>4. Named(n.name, n.at)' \subseteq {n.made}
        BY <1>6, <3>1, <3>3
      <3>5. items'[n.made] = item /\ n.made # 0
        BY <1>6, <1>7, <3>1
      <3>6. Live(n.made)'
        BY <1>5, <1>6, <3>5 DEF Live
      <3> QED
        BY <1>5, <3>1, <3>4, <3>5, <3>6
    <2>4. Underway(n)'
      BY <1>7, <1>12, <2>1, <2>3, MadeUnderway
    <2>5. Handlers[r.tool][4] # "resolve"
      BY <1>2, <2>0, Requests
    <2>6. r.tool = "createGoogleSlides" => m.tries = 0
      BY <1>2, <1>7, <2>0 DEF Formed
    <2> QED
      BY <1>2, <1>4, <1>6, <1>7, <1>8, <1>10, <1>11, <2>0, <2>2, <2>4, <2>5, <2>6, CallGoesOn
  <1>13. CASE r.tool \notin Filling
    <2> PICK n : n = ToStep(m, 3)
      OBVIOUS
    <2>0. /\ r.tool = "duplicate_sheet_in_new_spreadsheet" /\ r.pc = 2
          /\ r.pc < Length(r.tool) /\ 3 = r.pc + 1 /\ 3 \in 1..Length(r.tool)
      BY <1>3, <1>13
    <2>1. /\ n.pc = 3 /\ n.tool = m.tool /\ n.path = m.path /\ n.name = m.name /\ n.id = m.id
          /\ n.made = m.made /\ n.alone = m.alone
      BY <1>7, AtPc
    <2>2. Reached(n)'
      BY <1>4, <1>7, <1>13, <2>1, NoPath
    <2>3. n.made # 0 /\ items'[n.made].name = n.name
      BY <1>5, <1>7, <1>8, <2>1
    <2>4. Underway(n)'
      BY <1>7, <2>0, <2>1, <2>3, TabUnderway
    <2>5. Handlers[r.tool][3] # "resolve"
      BY <1>2, <2>0, Requests
    <2>6. r.tool # "createGoogleSlides"
      BY <2>0
    <2> QED
      BY <1>2, <1>4, <1>6, <1>7, <1>8, <1>10, <1>11, <2>0, <2>2, <2>4, <2>5, <2>6, CallGoesOn
  <1> QED
    BY <1>12, <1>13


\* What Copy makes of its item, or Google's own server.
KindCopied(r) == IF r.tool = "convertPdfToGoogleDoc" THEN "doc" ELSE items[r.id].kind

ItemCopied(r) == Item(KindCopied(r), r.name, r.at, items[r.id].body)

LEMMA ItemCopiedIs ==
  ASSUME NEW r \in Calls, items[r.id] \in Items
  PROVE  /\ ItemCopied(r) \in Items /\ ItemCopied(r).parent = r.at
         /\ ItemCopied(r).body = items[r.id].body
  <1>1. r.name \in SomeName /\ r.at \in Places
    BY DEF Calls
  <1>2. items[r.id].body \in Seq(Nat) /\ items[r.id].kind \in Kinds /\ "doc" \in Kinds
    BY DEF Items, Kinds
  <1>3. ItemCopied(r) \in Items
    <2>1. KindCopied(r) \in Kinds
      BY <1>2 DEF KindCopied
    <2> PICK kind : kind = KindCopied(r)
      OBVIOUS
    <2> PICK body : body = items[r.id].body
      OBVIOUS
    <2> PICK name : name = r.name
      OBVIOUS
    <2> PICK at : at = r.at
      OBVIOUS
    <2>2. kind \in Kinds /\ body \in Seq(Nat) /\ name \in SomeName /\ at \in Places
      BY <1>1, <1>2, <2>1
    <2>3. Item(kind, name, at, body) \in Items
      BY ONLY <2>2, ItemIs
    <2> QED
      BY <2>3 DEF ItemCopied
  <1> QED
    BY <1>3 DEF ItemCopied, Item

\* A copy is made, and its original is as before.
LEMMA CopyPromise ==
  ASSUME NEW m, m.tool \in {"copyFile", "convertPdfToGoogleDoc", "copy_file"},
         items'[m.made].parent = m.at, items'[m.made].body = items'[m.id].body
  PROVE  Promise(m)'
  BY DEF Promise, Checked

LEMMA CopyKeeps ==
  ASSUME IInv, NEW c \in Callers, NEW ok \in BOOLEAN, Copy(c, ok)
  PROVE  Keeps(c)
  <1> PICK r : r = call[c]
    OBVIOUS
  <1> PICK item : item = ItemCopied(r)
    OBVIOUS
  <1> PICK m : m = Makes(r, NewId)
    OBVIOUS
  <1> PICK a : a = After(m, ok)
    OBVIOUS
  <1>1. Before(c, "copy") /\ Changes(c, a) /\ Creates(item)
    BY DEF Copy, At, ItemCopied, KindCopied, Makes
  <1>2. /\ r \in Calls /\ Formed(r) /\ r.tool \in Tools /\ r.pc # 0
        /\ r.pc \in 1..Length(r.tool) /\ Handlers[r.tool][r.pc] = "copy" /\ DriveTyped
        /\ Reached(r)
    BY <1>1, CallAt
  <1>3. /\ r.tool \in {"copyFile", "convertPdfToGoogleDoc", "copy_file"}
        /\ r.pc = Length(r.tool) /\ r.pc \in 2..3
    BY <1>2, Requests, Lengths
  <1>4. r.rest = <<>> /\ r.id # 0
    BY <1>1, <1>3, CallAt DEF Making, Checked
  <1>5. r.id \in Ids /\ items[r.id] \in Items /\ items[r.id] # None
    BY <1>2, <1>4, ItsItem
  <1>6. item \in Items /\ item.parent = r.at /\ item.body = items[r.id].body
    BY <1>2, <1>5, ItemCopiedIs
  <1>7. PICK new \in Ids :
           /\ new = NewId /\ items[new] = None /\ items'[new] = item /\ item # None
           /\ \A i \in Ids : i # new => items'[i] = items[i]
           /\ DriveTyped' /\ Grows /\ FoldersKept
    BY <1>1, <1>2, <1>6, Added
  <1>8. /\ m \in Calls /\ m.tool = r.tool /\ m.pc = r.pc /\ m.opt = r.opt /\ m.path = r.path
        /\ m.id = r.id /\ m.made = new /\ m.rest = r.rest /\ m.at = r.at
        /\ m.alone = r.alone
    BY <1>2, <1>7, MakesIs
  <1>9. items'[m.made] # None
    BY <1>7, <1>8
  <1>10. Reached(m)'
    BY <1>2, <1>7, <1>8, ReachedOn
  <1>11. Promise(m)'
    <2>1. items'[m.id] = items[r.id] /\ items'[m.made] = item
      BY <1>5, <1>7, <1>8
    <2> QED
      BY <1>3, <1>6, <1>8, <2>1, CopyPromise
  <1>12. Goes(c, a) \/ Changes(c, a)
    BY <1>1
  <1>13. r.tool # "createGoogleSlides"
    BY <1>3
  <1> QED
    BY <1>2, <1>3, <1>4, <1>7, <1>8, <1>9, <1>10, <1>11, <1>12, <1>13, CallEnds

\* What Google's own server makes.
ItemServed(r) ==
  IF r.tool = "create_file" THEN Item("sheet", r.name, r.at, <<r.n>>)
  ELSE Item(items[r.id].kind, r.name, r.at, items[r.id].body)

LEMMA ItemServedIs ==
  ASSUME NEW r \in Calls, r.tool # "create_file" => items[r.id] \in Items
  PROVE  /\ ItemServed(r) \in Items
         /\ r.tool # "create_file" => /\ ItemServed(r).parent = r.at
                                      /\ ItemServed(r).body = items[r.id].body
         /\ r.tool = "create_file" => ItemServed(r).parent = r.at /\ ItemServed(r).kind = "sheet"
  <1>1. r.name \in SomeName /\ r.at \in Places /\ r.n \in Nat
    BY DEF Calls
  <1>2. CASE r.tool = "create_file"
    <2>1. <<r.n>> \in Seq(Nat) /\ "sheet" \in Kinds
      BY <1>1 DEF Kinds
    <2>2. ItemServed(r) = Item("sheet", r.name, r.at, <<r.n>>)
      BY <1>2 DEF ItemServed
    <2> PICK name, at, body : name = r.name /\ at = r.at /\ body = <<r.n>>
      OBVIOUS
    <2>4. Item("sheet", name, at, body) \in Items
      BY <1>1, <2>1, ItemIs
    <2>3. ItemServed(r) \in Items
      BY <2>2, <2>4
    <2> QED
      BY <1>2, <2>2, <2>3 DEF Item
  <1>3. CASE r.tool # "create_file"
    <2>1. items[r.id].body \in Seq(Nat) /\ items[r.id].kind \in Kinds
      BY <1>3 DEF Items
    <2>2. ItemServed(r) \in Items
      BY ZenonT(30), <1>1, <1>3, <2>1, ItemIs DEF ItemServed
    <2> QED
      BY <1>3, <2>2 DEF ItemServed, Item
  <1> QED
    BY <1>2, <1>3

LEMMA ProviderKeeps ==
  ASSUME IInv, NEW c \in Callers, NEW made \in BOOLEAN, NEW ok \in BOOLEAN,
         Provider(c, made, ok)
  PROVE  Keeps(c)
  <1> PICK r : r = call[c]
    OBVIOUS
  <1> PICK item : item = ItemServed(r)
    OBVIOUS
  <1> PICK m : m = Makes(r, NewId)
    OBVIOUS
  <1> PICK n : n = ToStep(r, 2)
    OBVIOUS
  <1> PICK a : a = IF ok THEN Ended(m, FALSE) ELSE Advance(r)
    OBVIOUS
  <1>1. /\ Before(c, "provider") /\ (ok => made)
        /\ \/ made /\ Changes(c, a) /\ Creates(item)
           \/ ~made /\ Goes(c, a) /\ items' = items /\ revisions' = revisions
    BY DEF Provider, At, ItemServed, Makes, drive
  <1>2. /\ r \in Calls /\ Formed(r) /\ r.tool \in Tools /\ r.pc # 0 /\ c \in DOMAIN call
        /\ r.pc \in 1..Length(r.tool) /\ Handlers[r.tool][r.pc] = "provider" /\ DriveTyped
    BY <1>1, CallAt
  <1>3. r.tool \in {"copy_file", "create_file"} /\ r.pc = 1 /\ Length(r.tool) = 2
    BY <1>2, Requests, Lengths
  <1>4. r.rest = <<>> /\ r.path = <<>> /\ (r.tool # "create_file" => r.id # 0)
    BY <1>1, <1>3, CallAt DEF Making, Checked
  <1>5. r.tool # "create_file" => r.id \in Ids /\ items[r.id] \in Items /\ items[r.id] # None
    BY <1>2, <1>4, ItsItem
  <1>6. /\ item \in Items
        /\ r.tool # "create_file" => item.parent = r.at /\ item.body = items[r.id].body
        /\ r.tool = "create_file" => item.parent = r.at /\ item.kind = "sheet"
    BY <1>2, <1>5, ItemServedIs
  <1>7. made => \E new \in Ids :
           /\ new = NewId /\ items[new] = None /\ items'[new] = item /\ item # None
           /\ \A i \in Ids : i # new => items'[i] = items[i]
           /\ DriveTyped' /\ Grows
    BY <1>1, <1>2, <1>6, Added
  <1>8. DriveTyped' /\ Grows
    BY <1>1, <1>7, DriveStays
  <1>9. call'[c] = a
    BY <1>1, <1>2 DEF Goes, Changes
  <1>10. CASE ok
    <2>1. PICK new \in Ids :
           /\ new = NewId /\ items[new] = None /\ items'[new] = item /\ item # None
           /\ \A i \in Ids : i # new => items'[i] = items[i]
      BY <1>1, <1>7, <1>10
    <2>2. /\ m \in Calls /\ m.tool = r.tool /\ m.pc = r.pc /\ m.opt = r.opt /\ m.path = r.path
          /\ m.id = r.id /\ m.made = new /\ m.rest = r.rest /\ m.at = r.at
      BY <1>2, <2>1, MakesIs
    <2>3. a = IF m.alone THEN ToStep(m, 0) ELSE Idle
      BY <1>10, EndsAs
    <2>4. Reached(m)'
      BY <1>4, <2>2, NoPath
    <2>5. Promise(m)'
      <3>1. CASE r.tool = "create_file"
        <4>1. items'[m.made] = item /\ m.tool = "create_file"
          BY <2>1, <2>2, <3>1
        <4> QED
          BY <1>6, <2>2, <3>1, <4>1, CreatePromise
      <3>2. CASE r.tool = "copy_file"
        <4>1. items'[m.id] = items[r.id] /\ items'[m.made] = item
          BY <1>5, <2>1, <2>2, <3>2
        <4> QED
          BY <1>6, <2>2, <3>2, <4>1, CopyPromise
      <3> QED
        BY <1>3, <3>1, <3>2
    <2>6. items'[m.made] # None
      BY <2>1, <2>2
    <2>7. Sound(a)'
      BY <1>2, <1>4, <1>8, <2>2, <2>3, <2>4, <2>5, <2>6, DoneIsSound
    <2> QED
      BY <1>8, <1>9, <2>7 DEF Keeps
  <1>11. CASE ~ok
    <2>2. a = n
      <3>1. 2 = r.pc + 1 /\ r.pc < Length(r.tool) /\ r.tool # "copyFile"
        BY <1>2, <1>3
      <3>2. Advance(r) = ToStep(r, 2)
        BY <1>2, <3>1, GoesTo
      <3> QED
        BY <1>11, <3>2
    <2>3. /\ n \in Calls /\ n.pc = 2 /\ n.tool = r.tool /\ n.id = r.id /\ n.path = r.path
          /\ n.opt = r.opt /\ n.rest = r.rest /\ n.made = r.made
      BY <1>2, AtPc
    <2>4. Reached(n)' /\ Underway(n)'
      <3>1. Reached(n)'
        BY <1>4, <2>3, NoPath
      <3> QED
        BY <1>3, <2>3, <3>1, NothingUnderway
    <2>5. Step(n) # "resolve" /\ n.pc <= Length(n.tool)
      BY <1>2, <1>3, <2>3, Requests DEF Step
    <2>6. /\ n.tool \notin Texts \cup {"createShortcut", "bulkConvertFolderPdfs"}
          /\ n.tool # "createGoogleSlides"
      BY <1>3, <2>3 DEF Texts
    <2>7. Sound(n)'
      BY <1>2, <1>4, <1>8, <2>3, <2>4, <2>5, <2>6, NextIsSound
    <2> QED
      BY <1>8, <1>9, <2>2, <2>7 DEF Keeps
  <1> QED
    BY <1>10, <1>11

\* The PDF f is converted, or not, and the rest remains.
Converted(r, f, ok) == [r EXCEPT !.saw = @ \ {f}, !.alone = @ /\ ok]

AfterOne(m, ok) == IF m.saw = {} \/ (~ok /\ ~m.opt) THEN Ended(m, FALSE) ELSE m

DocOf(m, f) == Item("doc", None, m.id, items[f].body)

LEMMA ConvertedIs ==
  ASSUME NEW r \in Calls, r.saw \in SUBSET Ids, NEW f, NEW ok \in BOOLEAN
  PROVE  /\ Converted(r, f, ok) \in Calls /\ Converted(r, f, ok).tool = r.tool
         /\ Converted(r, f, ok).pc = r.pc /\ Converted(r, f, ok).opt = r.opt
         /\ Converted(r, f, ok).path = r.path /\ Converted(r, f, ok).id = r.id
         /\ Converted(r, f, ok).made = r.made /\ Converted(r, f, ok).rest = r.rest
         /\ Converted(r, f, ok).saw = r.saw \ {f} /\ Converted(r, f, ok).listed = r.listed
         /\ Converted(r, f, ok).alone = (r.alone /\ ok)
  <1>1. r.alone \in BOOLEAN
    BY DEF Calls
  <1>2. (r.alone /\ ok) \in BOOLEAN
    BY <1>1
  <1>3. r.saw \ {f} \in Seen
    BY DEF Seen
  <1> PICK saw : saw = r.saw \ {f}
    OBVIOUS
  <1> PICK alone : alone = (r.alone /\ ok)
    OBVIOUS
  <1> PICK m : m = [r EXCEPT !.saw = saw, !.alone = alone]
    OBVIOUS
  <1>4. /\ m \in Calls /\ m.tool = r.tool /\ m.pc = r.pc /\ m.opt = r.opt /\ m.path = r.path
        /\ m.id = r.id /\ m.made = r.made /\ m.rest = r.rest /\ m.saw = saw
        /\ m.listed = r.listed /\ m.alone = alone
    BY <1>2, <1>3 DEF Calls
  <1>5. Converted(r, f, ok) = m
    BY DEF Converted
  <1> QED
    BY <1>4, <1>5

LEMMA DocOfIs ==
  ASSUME NEW m \in Calls, NEW f, items[f] \in Items
  PROVE  /\ DocOf(m, f) \in Items /\ DocOf(m, f).kind = "doc" /\ DocOf(m, f).parent = m.id
         /\ DocOf(m, f).body = items[f].body /\ DocOf(m, f).trashed = FALSE
  <1> PICK id : id = m.id
    OBVIOUS
  <1> PICK body : body = items[f].body
    OBVIOUS
  <1> PICK kind : kind = "doc"
    OBVIOUS
  <1> PICK name : name = None
    OBVIOUS
  <1>1. kind \in Kinds /\ body \in Seq(Nat) /\ name \in SomeName /\ id \in Places
    BY DEF Items, Kinds, SomeName, Calls
  <1>2. Item(kind, name, id, body) \in Items
    BY ONLY <1>1, ItemIs
  <1>3. DocOf(m, f) = Item(kind, name, id, body)
    BY DEF DocOf
  <1> QED
    BY <1>2, <1>3 DEF Item

\* The PDFs of folder g have a document, are still on the list, or off its page.
Listed(saw, g, page) ==
    \A p \in In(g) : items[p].kind = "pdf" => p \in saw \/ HasDoc(p, g) \/ OffPage(p, page)

OnlyNew(new) == \A i \in Ids : i # new => items'[i] = items[i]

\* A document made of f in folder g, next to those that were there.
LEMMA DocsAfter ==
  ASSUME DriveTyped, NEW g, NEW f \in Ids, items[f] # None, NEW new \in Ids, items[new] = None,
         items'[new] # None, items'[new].kind = "doc", items'[new].parent = g,
         items'[new].body = items[f].body, items'[new].trashed = FALSE,
         OnlyNew(new), NEW saw, NEW page, Listed(saw, g, page)
  PROVE  Listed(saw \ {f}, g, page)'
  <1> SUFFICES ASSUME NEW p \in In(g)', items'[p].kind = "pdf", p \notin saw \ {f},
                      ~OffPage(p, page)
               PROVE  HasDoc(p, g)'
    BY DEF Listed, OffPage
  <1> USE DEF Listed, OnlyNew
  <1>1. p \in Ids /\ p # new
    BY DEF In
  <1>2. items'[p] = items[p] /\ items'[f] = items[f]
    BY <1>1
  <1>3. p \in In(g)
    BY <1>1, <1>2 DEF In, Live
  <1>4. CASE p = f
    <2>1. new \in In(g)'
      BY DEF In, Live
    <2> QED
      BY <1>2, <1>4, <2>1 DEF HasDoc
  <1>5. CASE p # f
    <2>1. HasDoc(p, g)
      BY <1>2, <1>3, <1>5
    <2>2. PICK d \in In(g) : items[d].kind = "doc" /\ items[d].body = items[p].body
      BY <2>1 DEF HasDoc
    <2>3. d \in Ids /\ d # new
      BY <2>2 DEF In, Live
    <2>4. items'[d] = items[d]
      BY <2>3
    <2>5. d \in In(g)'
      BY <2>2, <2>3, <2>4 DEF In, Live
    <2> QED
      BY <1>2, <2>2, <2>4, <2>5 DEF HasDoc
  <1> QED
    BY <1>4, <1>5

LEMMA BulkPromise ==
  ASSUME NEW m, m.tool = "bulkConvertFolderPdfs", Listed({}, m.id, m.listed)'
  PROVE  Promise(m)'
  BY DEF Promise, Checked, HasDoc, Listed, OffPage

LEMMA ConvertOneKeeps ==
  ASSUME IInv, NEW c \in Callers, NEW made \in BOOLEAN, NEW ok \in BOOLEAN,
         ConvertOne(c, made, ok)
  PROVE  Keeps(c)
  <1> PICK r : r = call[c]
    OBVIOUS
  <1>1. PICK f \in r.saw :
          /\ Before(c, "convert") /\ (ok => made)
          /\ \/ /\ made /\ Changes(c, AfterOne(Converted(r, f, ok), ok))
                /\ Creates(DocOf(Converted(r, f, ok), f))
             \/ /\ ~made /\ Goes(c, AfterOne(Converted(r, f, ok), ok))
                /\ items' = items /\ revisions' = revisions
    BY Zenon DEF ConvertOne, At, AfterOne, Converted, DocOf, drive
  <1> PICK m : m = Converted(r, f, ok)
    OBVIOUS
  <1> PICK item : item = DocOf(m, f)
    OBVIOUS
  <1> PICK a : a = AfterOne(m, ok)
    OBVIOUS
  <1>2. /\ r \in Calls /\ Formed(r) /\ r.tool \in Tools /\ r.pc # 0 /\ c \in DOMAIN call
        /\ r.pc \in 1..Length(r.tool) /\ Handlers[r.tool][r.pc] = "convert" /\ DriveTyped
        /\ Underway(r)
    BY <1>1, CallAt
  <1>3. r.tool = "bulkConvertFolderPdfs" /\ r.pc = 2 /\ Length(r.tool) = 2
    BY <1>2, Requests, Lengths
  <1>4. r.rest = <<>> /\ r.path = <<>>
    BY <1>1, <1>3, CallAt DEF Checked
  <1>5. r.saw \in SUBSET {i \in Ids : items[i] # None}
    BY <1>2, <1>3 DEF Formed
  <1>6. r.saw \in SUBSET Ids /\ f \in Ids /\ items[f] \in Items /\ items[f] # None
    BY <1>2, <1>5 DEF DriveTyped
  <1>7. /\ m \in Calls /\ m.tool = r.tool /\ m.pc = r.pc /\ m.opt = r.opt /\ m.path = r.path
        /\ m.id = r.id /\ m.made = r.made /\ m.rest = r.rest /\ m.saw = r.saw \ {f}
        /\ m.listed = r.listed /\ m.alone = (r.alone /\ ok)
    BY <1>2, <1>6, ConvertedIs
  <1>8. /\ item \in Items /\ item.kind = "doc" /\ item.parent = m.id
        /\ item.body = items[f].body /\ item.trashed = FALSE
    BY ZenonT(30), <1>6, <1>7, DocOfIs
  <1>9. made => \E new \in Ids :
           /\ new = NewId /\ items[new] = None /\ items'[new] = item /\ item # None
           /\ \A i \in Ids : i # new => items'[i] = items[i]
           /\ DriveTyped' /\ Grows
    BY <1>1, <1>2, <1>8, Added
  <1>10. DriveTyped' /\ Grows
    BY <1>1, <1>9, DriveStays
  <1>11. call'[c] = a
    BY <1>1, <1>2 DEF Goes, Changes
  <1>12. ASSUME m.alone PROVE Listed(m.saw, m.id, m.listed)'
    <2>1. r.alone /\ made
      BY <1>1, <1>7, <1>12
    <2>2. PICK new \in Ids :
             /\ items[new] = None /\ items'[new] = item /\ item # None
             /\ OnlyNew(new)
      BY <1>9, <2>1 DEF OnlyNew
    <2>3. Listed(r.saw, m.id, m.listed)
      BY <1>2, <1>3, <1>7, <2>1 DEF Underway, Listed
    <2> PICK g : g = m.id
      OBVIOUS
    <2> PICK saw : saw = r.saw
      OBVIOUS
    <2> PICK page : page = m.listed
      OBVIOUS
    <2>4. /\ items'[new].kind = "doc" /\ items'[new].parent = g /\ items'[new].trashed = FALSE
          /\ items'[new].body = items[f].body /\ items'[new] # None
      BY <1>8, <2>2
    <2>5. Listed(saw, g, page)
      BY <2>3
    <2>6. Listed(saw \ {f}, g, page)'
      BY <1>2, <1>6, <2>2, <2>4, <2>5, DocsAfter
    <2> QED
      BY <1>7, <2>6
  <1>13. Reached(m)'
    BY <1>4, <1>7, NoPath
  <1>14. CASE a = m
    <2>1. Formed(m)'
      <3>1. m.id \in Places /\ m.made \in Places
        BY <1>7 DEF Calls
      <3>2. (m.id # 0 => items'[m.id] # None) /\ (m.made # 0 => items'[m.made] # None)
        BY <1>2, <1>7, <1>10, <3>1 DEF Formed, Grows, Places, Root
      <3>3. m.saw \in SUBSET {i \in Ids : items'[i] # None}
        BY <1>5, <1>7, <1>10 DEF Grows
      <3>4. /\ m.opt \in Options(m.tool) /\ Step(m) # "resolve" /\ m.pc <= Length(m.tool)
            /\ m.tool \in Tools
        BY <1>2, <1>3, <1>7 DEF Formed, Step
      <3>5. m.tool = "bulkConvertFolderPdfs" /\ m.pc = 2 /\ m.path = <<>> /\ m.rest = <<>>
        BY <1>3, <1>4, <1>7
      <3> QED
        BY <1>7, <3>2, <3>3, <3>4, <3>5 DEF Formed, Texts
    <2>2. Underway(m)'
      BY <1>3, <1>7, <1>12, BulkUnderway DEF Listed, OffPage
    <2>3. Sound(m)'
      BY <1>3, <1>7, <1>13, <2>1, <2>2 DEF Sound, Fulfilled
    <2> QED
      BY <1>10, <1>11, <1>14, <2>3 DEF Keeps
  <1>15. CASE a = Ended(m, FALSE) /\ (m.saw = {} \/ ~ok)
    <2>1. a = IF m.alone THEN ToStep(m, 0) ELSE Idle
      BY <1>15, EndsAs
    <2>2. m.alone => Promise(m)'
      <3>1. ASSUME m.alone PROVE m.saw = {}
        BY <1>7, <1>15, <3>1
      <3> QED
        BY <1>3, <1>7, <1>12, <3>1, BulkPromise DEF Listed
    <2>3. Sound(a)'
      BY <1>2, <1>4, <1>7, <1>10, <1>13, <2>1, <2>2, DoneIsSound
    <2> QED
      BY <1>10, <1>11, <2>3 DEF Keeps
  <1> QED
    BY <1>14, <1>15 DEF AfterOne

-----------------------------------------------------------------------------
(***************************************************************************)
(* The folders of a path are looked up, and made.                          *)
(***************************************************************************)

Resolving == Checked \cup {"createShortcut", "uploadFile", "uploadPdfWithSplit", "copyFile", "moveItem"}

\* A call in its first requests.
LEMMA EarlyIsSound ==
  ASSUME Grows, NEW r, Formed(r), r.pc \in 1..3, r.tool \in Resolving,
         NEW n \in Calls, n.tool = r.tool, n.opt = r.opt, n.path = r.path, n.id = r.id,
         n.made = r.made, n.tries = r.tries, n.pc \in 1..3, n.pc <= Length(n.tool),
         n.pc = 3 => n.tool = "copyFile",
         Step(n) = "resolve" => n.rest # <<>>, 
         n.rest # <<>> => Step(n) = "resolve" \/ (n.tool = "copyFile" /\ n.pc = 1),
         Reached(n)'
  PROVE  Sound(n)'
  <1>1. r.id \in Places /\ r.made \in Places
    BY DEF Formed, Calls
  <1>2. (n.id # 0 => items'[n.id] # None) /\ (n.made # 0 => items'[n.made] # None)
    BY <1>1 DEF Formed, Grows, Places, Root
  <1>3. n.tool \notin Texts \cup {"bulkConvertFolderPdfs"}
    BY DEF Resolving, Texts, Checked
  <1>4. n.tool = "createGoogleSlides" => n.tries = 0
    BY DEF Formed
  <1>5. n.pc # 0 /\ r.pc # 0
    OBVIOUS
  <1>6. Formed(n)'
    BY <1>2, <1>3, <1>4, <1>5 DEF Formed, Texts
  <1>7. n.pc \in 0..1 \/ n.pc = 2 \/ n.tool = "copyFile"
    OBVIOUS
  <1>8. Underway(n)'
    BY <1>3, <1>7, NothingUnderway DEF Checked
  <1> QED
    BY <1>5, <1>6, <1>8 DEF Sound, Fulfilled

\* The names of a path that remain after the next one.
LEMMA NamesRemaining ==
  ASSUME NEW path \in Seq(Names), NEW k \in 0..Len(path), NEW rest,
         rest = SubSeq(path, k + 1, Len(path)), rest # <<>>
  PROVE  /\ k + 1 \in 0..Len(path) /\ Head(rest) = path[k + 1]
         /\ Tail(rest) = SubSeq(path, k + 1 + 1, Len(path))
  <1>1. Len(path) \in Nat
    OBVIOUS
  <1>2. k < Len(path)
    BY <1>1
  <1>3. Head(rest) = path[k + 1]
    BY <1>1, <1>2
  <1>4. Tail(rest) = SubSeq(path, k + 1 + 1, Len(path))
    BY <1>1, <1>2
  <1> QED
    BY <1>1, <1>2, <1>3, <1>4

\* The call r one folder further.
Deeper(r, f) == [r EXCEPT !.at = f, !.rest = Tail(@)]

DeeperMade(r, f) == [r EXCEPT !.at = f, !.rest = Tail(@), !.absent = FALSE]

LEMMA DeeperIs ==
  ASSUME NEW r \in Calls, NEW f \in Ids, r.rest # <<>>, NEW n \in {Deeper(r, f), DeeperMade(r, f)}
  PROVE  /\ n \in Calls /\ n.tool = r.tool /\ n.pc = r.pc /\ n.opt = r.opt /\ n.path = r.path
         /\ n.id = r.id /\ n.made = r.made /\ n.tries = r.tries /\ n.alone = r.alone
         /\ n.at = f /\ n.rest = Tail(r.rest)
  <1>1. r.rest \in Seq(Names) /\ f \in Places
    BY DEF Calls, Places
  <1>2. Tail(r.rest) \in Seq(Names)
    BY <1>1
  <1> PICK rest : rest = Tail(r.rest)
    OBVIOUS
  <1>3. n \in {[r EXCEPT !.at = f, !.rest = rest], [r EXCEPT !.at = f, !.rest = rest, !.absent = FALSE]}
    BY DEF Deeper, DeeperMade
  <1>4. CASE n = [r EXCEPT !.at = f, !.rest = rest]
    BY <1>1, <1>2, <1>4 DEF Calls
  <1>5. CASE n = [r EXCEPT !.at = f, !.rest = rest, !.absent = FALSE]
    BY <1>1, <1>2, <1>5 DEF Calls
  <1> QED
    BY <1>3, <1>4, <1>5

LEMMA ResolvedKeeps ==
  ASSUME IInv, NEW c \in Callers, NEW a, Goes(c, a) \/ Changes(c, a), DriveTyped', Grows,
         FoldersKept, Before(c, "resolve"), NEW r, r = call[c], NEW f \in Ids,
         SubFolder(f, Head(r.rest), r.at)', NEW n \in {Deeper(r, f), DeeperMade(r, f)},
         a = IF n.rest = <<>> THEN Advance(n) ELSE n
  PROVE  Keeps(c)
  <1>1. /\ r \in Calls /\ Formed(r) /\ Reached(r) /\ r.pc # 0 /\ r.tool \in Tools
        /\ r.pc \in 1..Length(r.tool) /\ Handlers[r.tool][r.pc] = "resolve"
        /\ c \in DOMAIN call
    BY CallAt
  <1>2. /\ r.tool \in Resolving
        /\ \/ r.pc = 1 /\ r.tool # "copyFile"
           \/ r.pc = 2 /\ r.tool = "copyFile"
    BY <1>1, Requests DEF Resolving, Checked
  <1>3. Step(r) = "resolve" /\ r.rest # <<>>
    BY <1>1 DEF Step, Formed
  <1>4. /\ n \in Calls /\ n.tool = r.tool /\ n.pc = r.pc /\ n.opt = r.opt /\ n.path = r.path
        /\ n.id = r.id /\ n.made = r.made /\ n.tries = r.tries /\ n.alone = r.alone
        /\ n.at = f /\ n.rest = Tail(r.rest)
    BY <1>1, <1>3, DeeperIs
  <1>5. Reached(n)'
    <2> SUFFICES ASSUME n.alone, n.path # <<>>
                 PROVE  \E k \in 0..Len(n.path) :
                          n.rest = SubSeq(n.path, k + 1, Len(n.path)) /\ Leads(n.path, k, n.at)'
      BY DEF Reached
    <2>1. PICK k \in 0..Len(r.path) :
             r.rest = SubSeq(r.path, k + 1, Len(r.path)) /\ Leads(r.path, k, r.at)
      BY <1>1, <1>4 DEF Reached
    <2>2. r.path \in Seq(Names)
      BY <1>1 DEF Calls
    <2>3. /\ k + 1 \in 0..Len(r.path) /\ Head(r.rest) = r.path[k + 1]
          /\ Tail(r.rest) = SubSeq(r.path, k + 1 + 1, Len(r.path))
      BY <1>3, <2>1, <2>2, NamesRemaining
    <2>4. Leads(r.path, k, r.at)'
      BY <2>1, LeadsKept
    <2>5. SubFolder(f, r.path[k + 1], r.at)'
      BY <2>3
    <2>6. Leads(r.path, k + 1, f)'
      <3>1. k \in Nat
        OBVIOUS
      <3> QED
        BY <2>4, <2>5, <3>1, LeadsOn
    <2> QED
      BY <1>4, <2>3, <2>6
  <1>6. call'[c] = a
    BY <1>1 DEF Goes, Changes
  <1>7. r.pc \in 1..3 /\ r.pc < Length(r.tool)
    BY <1>2, Lengths DEF Resolving, Checked
  <1>8. CASE n.rest # <<>>
    <2>1. Step(n) = "resolve" /\ n.pc \in 1..3 /\ n.pc <= Length(n.tool) /\ (n.pc = 3 => n.tool = "copyFile")
      BY <1>1, <1>2, <1>4, <1>7, HandlersAreSequences DEF Step
    <2>2. Sound(n)'
      BY <1>1, <1>2, <1>4, <1>5, <1>7, <1>8, <2>1, EarlyIsSound
    <2> QED
      BY <1>6, <1>8, <2>2 DEF Keeps
  <1>9. CASE n.rest = <<>>
    <2> PICK k : k = r.pc + 1
      OBVIOUS
    <2> PICK q : q = ToStep(n, k)
      OBVIOUS
    <2>1. k \in 1..3 /\ k <= Length(r.tool) /\ (k = 3 => r.tool = "copyFile") /\ k # 0 /\ k \in 0..7
      BY <1>1, <1>2, <1>7, HandlersAreSequences
    <2>2. Advance(n) = q
      <3>1. n.tool \in Tools /\ n.pc \in 1..Length(n.tool)
        BY <1>1, <1>4
      <3>2. ~(n.tool = "copyFile" /\ n.pc = 1 /\ n.rest = <<>>) /\ n.pc < Length(n.tool) /\ n.pc + 1 = k
        BY <1>2, <1>4, <1>7
      <3> QED
        BY <1>4, <3>1, <3>2, AdvanceTo
    <2>3. /\ q \in Calls /\ q.pc = k /\ q.tool = r.tool /\ q.opt = r.opt /\ q.path = r.path
          /\ q.id = r.id /\ q.made = r.made /\ q.tries = r.tries /\ q.alone = n.alone
          /\ q.at = n.at /\ q.rest = n.rest
      BY <1>4, <2>1, AtPc
    <2>4. Step(q) # "resolve"
      <3>1. k \in 1..Length(r.tool)
        BY <1>1, <2>1, HandlersAreSequences
      <3>2. Handlers[r.tool][k] # "resolve"
        BY <1>1, <1>2, <3>1, Requests
      <3> QED
        BY <2>3, <3>2 DEF Step
    <2>5. Reached(q)'
      BY ZenonT(30), <1>4, <1>5, <2>3 DEF Reached
    <2>6. q.pc \in 1..3 /\ q.pc <= Length(q.tool) /\ (q.pc = 3 => q.tool = "copyFile")
      BY <2>1, <2>3
    <2>7. Sound(q)'
      BY <1>1, <1>2, <1>7, <1>9, <2>3, <2>4, <2>5, <2>6, EarlyIsSound
    <2> QED
      BY <1>6, <1>9, <2>2, <2>7 DEF Keeps
  <1> QED
    BY <1>8, <1>9

Absent(r) == [r EXCEPT !.absent = TRUE]

LEMMA LookUpFolderKeeps ==
  ASSUME IInv, NEW c \in Callers, LookUpFolder(c)
  PROVE  Keeps(c)
  <1> PICK r : r = call[c]
    BY SMTT(30)
  <1>1. /\ Before(c, "resolve") /\ items' = items /\ revisions' = revisions
        /\ \/ Goes(c, Absent(r))
           \/ \E f \in In(r.at) :
                /\ items[f].kind = "folder" /\ items[f].name = Head(r.rest)
                /\ Goes(c, IF Deeper(r, f).rest = <<>> THEN Advance(Deeper(r, f)) ELSE Deeper(r, f))
    BY Zenon DEF LookUpFolder, At, Quiet, drive, Absent, Deeper
  <1>2. DriveTyped' /\ Grows /\ FoldersKept
    BY <1>1, DriveStays
  <1>3. CASE Goes(c, Absent(r))
    <2> PICK n : n = Absent(r)
      OBVIOUS
    <2>1. /\ r \in Calls /\ Formed(r) /\ Reached(r) /\ r.pc # 0 /\ r.tool \in Tools
          /\ r.pc \in 1..Length(r.tool) /\ Handlers[r.tool][r.pc] = "resolve" /\ c \in DOMAIN call
      BY <1>1, CallAt
    <2>2. r.tool \in Resolving /\ r.pc \in 1..3 /\ (r.pc = 3 => r.tool = "copyFile")
      BY <2>1, Requests DEF Resolving, Checked
    <2>3. /\ n \in Calls /\ n.tool = r.tool /\ n.pc = r.pc /\ n.opt = r.opt /\ n.path = r.path
          /\ n.id = r.id /\ n.made = r.made /\ n.tries = r.tries /\ n.alone = r.alone
          /\ n.at = r.at /\ n.rest = r.rest
      BY <2>1 DEF Absent, Calls
    <2>4. Reached(n)'
      BY <1>2, <2>1, <2>3, ReachedOn
    <2>5. Step(n) = "resolve" /\ n.rest # <<>> /\ n.pc <= Length(n.tool)
      BY <2>1, <2>3, HandlersAreSequences DEF Step, Formed
    <2>6. Sound(n)'
      BY <1>2, <2>1, <2>2, <2>3, <2>4, <2>5, EarlyIsSound
    <2> QED
      BY <1>2, <1>3, <2>1, <2>6 DEF Keeps, Goes
  <1>4. ASSUME NEW f \in In(r.at), items[f].kind = "folder", items[f].name = Head(r.rest),
               Goes(c, IF Deeper(r, f).rest = <<>> THEN Advance(Deeper(r, f)) ELSE Deeper(r, f))
        PROVE  Keeps(c)
    <2> PICK n : n = Deeper(r, f)
      OBVIOUS
    <2> PICK a : a = IF n.rest = <<>> THEN Advance(n) ELSE n
      OBVIOUS
    <2>1. f \in Ids /\ SubFolder(f, Head(r.rest), r.at)
      BY <1>4 DEF In, SubFolder
    <2>2. SubFolder(f, Head(r.rest), r.at)'
      BY <1>1, <2>1, SameDrive
    <2>3. Goes(c, a) \/ Changes(c, a)
      BY <1>4
    <2>4. n \in {Deeper(r, f), DeeperMade(r, f)}
      OBVIOUS
    <2> QED
      BY <1>1, <1>2, <2>1, <2>2, <2>3, <2>4, ResolvedKeeps
  <1> QED
    BY <1>1, <1>3, <1>4

NewFolder(r) == Item("folder", Head(r.rest), r.at, <<>>)

LEMMA MakeFolderKeeps ==
  ASSUME IInv, NEW c \in Callers, MakeFolder(c)
  PROVE  Keeps(c)
  <1> PICK r : r = call[c]
    OBVIOUS
  <1> PICK item : item = NewFolder(r)
    OBVIOUS
  <1> PICK f : f = NewId
    OBVIOUS
  <1> PICK n : n = DeeperMade(r, f)
    OBVIOUS
  <1> PICK a : a = IF n.rest = <<>> THEN Advance(n) ELSE n
    OBVIOUS
  <1>1. Before(c, "resolve") /\ Creates(item) /\ Changes(c, a)
    BY DEF MakeFolder, At, NewFolder, DeeperMade
  <1>2. r \in Calls /\ Formed(r) /\ DriveTyped /\ r.pc # 0 /\ Step(r) = "resolve"
    BY <1>1, CallAt DEF Before
  <1>3. r.rest # <<>> /\ r.rest \in Seq(Names)
    BY <1>2 DEF Formed, Calls
  <1>4. /\ item \in Items /\ item.kind = "folder" /\ item.name = Head(r.rest)
        /\ item.parent = r.at /\ item.trashed = FALSE
    <2> PICK kind : kind = "folder"
      OBVIOUS
    <2> PICK name : name = Head(r.rest)
      OBVIOUS
    <2> PICK at : at = r.at
      OBVIOUS
    <2> PICK body : body = <<>>
      OBVIOUS
    <2>1. kind \in Kinds /\ name \in SomeName /\ at \in Places /\ body \in Seq(Nat)
      BY <1>2, <1>3 DEF Kinds, SomeName, Calls
    <2>2. Item(kind, name, at, body) \in Items
      BY ONLY <2>1, ItemIs
    <2>3. item = Item(kind, name, at, body)
      BY DEF NewFolder
    <2> QED
      BY <2>2, <2>3 DEF Item
  <1>5. /\ f \in Ids /\ items'[f] = item /\ item # None /\ DriveTyped' /\ Grows /\ FoldersKept
    BY <1>1, <1>2, <1>4, Added
  <1>6. SubFolder(f, Head(r.rest), r.at)'
    BY <1>4, <1>5 DEF SubFolder, Live
  <1>7. Goes(c, a) \/ Changes(c, a)
    BY <1>1
  <1>8. n \in {Deeper(r, f), DeeperMade(r, f)}
    OBVIOUS
  <1> QED
    BY <1>1, <1>5, <1>6, <1>7, <1>8, ResolvedKeeps

-----------------------------------------------------------------------------
(***************************************************************************)
(* The parts of a PDF are uploaded; items are deleted for good.            *)
(***************************************************************************)

Part(r) == [r EXCEPT !.tries = @ - 1]

LEMMA PartIs ==
  ASSUME NEW r \in Calls
  PROVE  /\ Part(r) \in Calls /\ Part(r).tool = r.tool /\ Part(r).pc = r.pc
         /\ Part(r).opt = r.opt /\ Part(r).path = r.path /\ Part(r).id = r.id
         /\ Part(r).made = r.made /\ Part(r).rest = r.rest /\ Part(r).at = r.at
         /\ Part(r).n = r.n /\ Part(r).alone = r.alone
  BY SMTT(30) DEF Part, Calls

PartMade(m) == Item("pdf", None, m.at, <<m.n>>)

LEMMA PartMadeIs ==
  ASSUME NEW m \in Calls
  PROVE  PartMade(m) \in Items
  <1> PICK kind : kind = "pdf"
    OBVIOUS
  <1> PICK name : name = None
    OBVIOUS
  <1> PICK at : at = m.at
    OBVIOUS
  <1> PICK body : body = <<m.n>>
    OBVIOUS
  <1>1. m.n \in Nat
    BY DEF Calls
  <1>2. kind \in Kinds /\ name \in SomeName /\ at \in Places /\ body \in Seq(Nat)
    BY <1>1 DEF Kinds, SomeName, Calls
  <1>3. Item(kind, name, at, body) \in Items
    BY ONLY <1>2, ItemIs
  <1> QED
    BY <1>3 DEF PartMade

AfterPart(m, ok) == IF ok /\ m.tries > 0 THEN m ELSE Ended(m, ~ok)

LEMMA UploadPartKeeps ==
  ASSUME IInv, NEW c \in Callers, NEW made \in BOOLEAN, NEW ok \in BOOLEAN,
         UploadPart(c, made, ok)
  PROVE  Keeps(c)
  <1> PICK r : r = call[c]
    OBVIOUS
  <1> PICK m : m = Part(r)
    OBVIOUS
  <1> PICK a : a = AfterPart(m, ok)
    OBVIOUS
  <1>1. /\ Before(c, "parts") /\ (ok => made)
        /\ \/ made /\ Changes(c, a) /\ Creates(PartMade(m))
           \/ ~made /\ Goes(c, a) /\ items' = items /\ revisions' = revisions
    BY DEF UploadPart, At, Part, PartMade, AfterPart, drive
  <1>2. /\ r \in Calls /\ Formed(r) /\ Reached(r) /\ r.tool \in Tools /\ r.pc # 0
        /\ c \in DOMAIN call /\ r.pc \in 1..Length(r.tool)
        /\ Handlers[r.tool][r.pc] = "parts" /\ DriveTyped
    BY <1>1, CallAt
  <1>3. r.tool = "uploadPdfWithSplit" /\ r.pc = 3 /\ Length(r.tool) = 3
    BY <1>2, Requests, Lengths
  <1>4. r.rest = <<>>
    BY <1>1, <1>3, CallAt
  <1>5. /\ m \in Calls /\ m.tool = r.tool /\ m.pc = r.pc /\ m.opt = r.opt /\ m.path = r.path
        /\ m.id = r.id /\ m.made = r.made /\ m.rest = r.rest /\ m.at = r.at
        /\ m.alone = r.alone
    BY <1>2, PartIs
  <1>6. DriveTyped' /\ Grows /\ FoldersKept
    <2>1. CASE made
      BY <1>1, <1>2, <1>5, <2>1, PartMadeIs, Added
    <2>2. CASE ~made
      BY <1>1, <2>2, DriveStays
    <2> QED
      BY <2>1, <2>2
  <1>7. call'[c] = a
    BY <1>1, <1>2 DEF Goes, Changes
  <1>8. Reached(m)'
    BY <1>2, <1>5, <1>6, ReachedOn
  <1>9. CASE a = m
    <2>1. /\ m.tool \notin Checked \cup {"moveItem", "duplicate_sheet_in_new_spreadsheet",
                                         "insertText", "bulkConvertFolderPdfs"}
          /\ m.tool \notin Texts \cup {"createShortcut", "bulkConvertFolderPdfs"}
          /\ m.tool # "createGoogleSlides"
      BY <1>3, <1>5 DEF Checked, Texts
    <2>2. Underway(m)'
      BY <2>1, NothingUnderway
    <2>3. Step(m) # "resolve" /\ m.pc <= Length(m.tool) /\ m.pc # 0
      BY <1>2, <1>3, <1>5 DEF Step
    <2>4. Sound(m)'
      BY <1>2, <1>4, <1>5, <1>6, <1>8, <2>1, <2>2, <2>3, NextIsSound
    <2> QED
      BY <1>6, <1>7, <1>9, <2>4 DEF Keeps
  <1>10. CASE a = Ended(m, FALSE)
    <2>1. a = IF m.alone THEN ToStep(m, 0) ELSE Idle
      BY <1>10, EndsAs
    <2>2. Promise(m)'
      BY <1>3, <1>5 DEF Promise, Checked
    <2>3. Sound(a)'
      BY <1>2, <1>4, <1>5, <1>6, <1>8, <2>1, <2>2, DoneIsSound
    <2> QED
      BY <1>6, <1>7, <2>3 DEF Keeps
  <1>11. CASE a = Ended(m, TRUE)
    <2>1. a = Idle
      BY <1>11, EndsAs
    <2> QED
      BY <1>1, <1>6, <2>1, CallFails
  <1>12. a = m \/ a = Ended(m, FALSE) \/ a = Ended(m, TRUE)
    <2>1. CASE ok
      BY <2>1 DEF AfterPart
    <2>2. CASE ~ok
      BY <2>2 DEF AfterPart
    <2> QED
      BY <2>1, <2>2
  <1> QED
    BY <1>9, <1>10, <1>11, <1>12

Tombstone == [Item("gone", None, Root, <<>>) EXCEPT !.trashed = TRUE]

LEMMA TombstoneIs ==
  Tombstone \in Items /\ Tombstone # None /\ Tombstone.kind = "gone"
  <1>1. <<>> \in Seq(Nat)
    OBVIOUS
  <1>2. Tombstone \in Items /\ Tombstone.kind = "gone"
    BY <1>1 DEF Tombstone, Item, Items, Kinds
  <1> QED
    BY <1>2, ConstantsAssumption

\* What is left without the items of S and all that lies in them.
LEMMA WithoutIs ==
  ASSUME DriveTyped, NEW S, items' = Without(S), revisions' = revisions
  PROVE  /\ DriveTyped' /\ Grows
         /\ \A i \in Ids : items'[i] = items[i] \/ items'[i] = Tombstone
         /\ \A i \in Ids : items[i] # None /\ i \in S => items'[i] = Tombstone
  <1>1. \A i \in Ids : items'[i] = IF items[i] # None /\ \E j \in S : Inside(i, j)
                                   THEN Tombstone ELSE items[i]
    BY DEF Without, Tombstone
  <1>2. \A i \in Ids : items'[i] = items[i] \/ (items[i] # None /\ items'[i] = Tombstone)
    BY <1>1
  <1>3. \A i : Inside(i, i)
    <2> TAKE i
    <2>1. 0 \in 0..MaxItems
      BY ConstantsAssumption
    <2>2. Ancestors(i)[0] = i
      BY <2>1, AncestorsAre
    <2> QED
      BY <2>1, <2>2 DEF Inside
  <1>4. items' \in [Ids -> Items \cup {None}]
    <2>1. items' = [i \in Ids |-> IF items[i] # None /\ \E j \in S : Inside(i, j)
                                  THEN Tombstone ELSE items[i]]
      BY DEF Without, Tombstone
    <2>2. \A i \in Ids : items'[i] \in Items \cup {None}
      BY <1>2, TombstoneIs DEF DriveTyped
    <2> QED
      BY <2>1, <2>2
  <1>5. \A i \in Ids : items[i] # None <=> items'[i] # None
    BY <1>2, TombstoneIs
  <1>6. DriveTyped' /\ Grows
    BY <1>4, <1>5 DEF DriveTyped, NoGaps, Grows
  <1> QED
    BY <1>1, <1>2, <1>3, <1>6

Doomed(r) ==
  IF Step(r) = "erase" THEN {r.id} ELSE {i \in Ids : items[i] # None /\ items[i].trashed}

LEMMA EraseKeeps ==
  ASSUME IInv, NEW c \in Callers, NEW ok \in BOOLEAN, Erase(c, ok)
  PROVE  Keeps(c)
  <1> PICK r : r = call[c]
    OBVIOUS
  <1> PICK S : S = Doomed(r)
    OBVIOUS
  <1> PICK a : a = After(r, ok)
    OBVIOUS
  <1>1. /\ Before(c, "erase") \/ Before(c, "empty")
        /\ items' = Without(S) /\ revisions' = revisions /\ Changes(c, a)
    BY DEF Erase, At, Doomed
  <1>2. /\ r \in Calls /\ Formed(r) /\ r.tool \in Tools /\ r.pc # 0
        /\ r.pc \in 1..Length(r.tool) /\ Handlers[r.tool][r.pc] \in {"erase", "empty"}
        /\ DriveTyped
    BY <1>1, CallAt
  <1>3. /\ r.pc = 1 /\ Length(r.tool) = 1
        /\ \/ r.tool = "delete_file" /\ Step(r) = "erase"
           \/ r.tool = "empty_trash" /\ Step(r) = "empty"
    BY <1>2, Requests, Lengths DEF Step
  <1>4. r.rest = <<>> /\ r.path = <<>> /\ (r.tool = "delete_file" => r.id # 0)
    BY <1>1, <1>3, CallAt DEF Making, Checked
  <1>5. /\ DriveTyped' /\ Grows
        /\ \A i \in Ids : items'[i] = items[i] \/ items'[i] = Tombstone
        /\ \A i \in Ids : items[i] # None /\ i \in S => items'[i] = Tombstone
    BY <1>1, <1>2, WithoutIs
  <1>6. \A i \in Ids : items'[i] = Tombstone => Gone(i)'
    BY TombstoneIs DEF Gone, Ids, Root
  <1>7. Promise(r)'
    <2>1. CASE r.tool = "delete_file"
      <3>1. r.id \in Ids /\ items[r.id] # None
        BY <1>2, <1>4, <2>1, ItsItem
      <3>2. r.id \in S
        BY <1>3, <2>1 DEF Doomed
      <3>3. Gone(r.id)'
        BY <1>5, <1>6, <3>1, <3>2
      <3> QED
        BY <2>1, <3>3 DEF Promise, Checked
    <2>2. CASE r.tool = "empty_trash"
      <3>1. \A i \in Ids : items'[i] # None /\ items'[i].trashed => Gone(i)'
        <4> TAKE i \in Ids
        <4>1. CASE items'[i] = Tombstone
          BY <1>6, <4>1
        <4>2. CASE items'[i] = items[i] /\ items'[i] # None /\ items'[i].trashed
          <5>1. i \in S
            BY <1>3, <2>2, <4>2 DEF Doomed
          <5> QED
            BY <1>5, <1>6, <4>2, <5>1
        <4> QED
          BY <1>5, <4>1, <4>2
      <3> QED
        BY <2>2, <3>1 DEF Promise, Checked
    <2> QED
      BY <1>3, <2>1, <2>2
  <1>8. Reached(r)'
    BY <1>4, NoPath
  <1>9. Goes(c, a) \/ Changes(c, a)
    BY <1>1
  <1>10. r.tool # "createGoogleSlides" /\ r.pc = Length(r.tool)
    BY <1>3
  <1> QED
    BY <1>2, <1>4, <1>5, <1>7, <1>8, <1>9, <1>10, CallEnds

-----------------------------------------------------------------------------
(***************************************************************************)
(* What only asks.                                                         *)
(***************************************************************************)

LEMMA UnderwayStays ==
  ASSUME items' = items, NEW r, Underway(r)
  PROVE  Underway(r)'
  BY SameDrive DEF Underway

LEMMA CheckNameKeeps ==
  ASSUME IInv, NEW c \in Callers, NEW ok \in BOOLEAN, CheckName(c, ok)
  PROVE  Keeps(c)
  <1> PICK r : r = call[c]
    OBVIOUS
  <1> PICK d : d = Disturbed(r)
    OBVIOUS
  <1> PICK k : k = 3
    OBVIOUS
  <1> PICK yes \in BOOLEAN : yes = TRUE
    OBVIOUS
  <1>1. /\ Before(c, "check") /\ items' = items /\ revisions' = revisions
        /\ \/ ~ok /\ Goes(c, Advance(d))
           \/ ok /\ Goes(c, Ended(r, TRUE))
           \/ ok /\ Named(r.name, r.at) = {} /\ Goes(c, Advance(r))
    BY DEF CheckName, At, Disturbed, drive
  <1>2. /\ r \in Calls /\ Formed(r) /\ Reached(r) /\ r.tool \in Tools /\ r.pc # 0
        /\ r.pc \in 1..Length(r.tool) /\ Handlers[r.tool][r.pc] = "check"
    BY <1>1, CallAt
  <1>3. r.tool \in Checked /\ r.pc = 2
    BY <1>2, Requests
  <1>4. r.rest = <<>>
    BY <1>1, <1>3, CallAt
  <1>5. DriveTyped' /\ Grows /\ FoldersKept
    BY <1>1, DriveStays
  <1>6. k \in 1..Length(r.tool) /\ r.pc < Length(r.tool) /\ k = r.pc + 1 /\ k \in 0..7
    BY <1>3, Lengths DEF Checked
  <1>7. Handlers[r.tool][k] # "resolve"
    BY <1>2, <1>6, Requests
  <1>8. r.tool \notin Texts \cup {"copyFile", "createShortcut", "bulkConvertFolderPdfs"}
    BY <1>3 DEF Checked, Texts
  <1>9. r.tool = "createGoogleSlides" => r.tries = 0
    BY <1>2, <1>3 DEF Formed
  <1>10. CASE Goes(c, Ended(r, TRUE))
    <2>1. Goes(c, Idle)
      BY <1>10, EndsAs
    <2> QED
      BY <1>5, <2>1, CallFails
  <1>11. CASE ~ok /\ Goes(c, Advance(d))
    <2> PICK n : n = ToStep(d, k)
      OBVIOUS
    <2> PICK a : a = After(d, yes)
      OBVIOUS
    <2>1. /\ d \in Calls /\ d.alone = FALSE /\ d.pc = r.pc /\ d.tool = r.tool /\ d.id = r.id
          /\ d.path = r.path /\ d.opt = r.opt /\ d.rest = r.rest /\ d.made = r.made
          /\ d.tries = r.tries
      BY <1>2, DisturbedIs
    <2>2. Goes(c, a) \/ Changes(c, a)
      BY <1>11 DEF After
    <2>3. n.alone = FALSE
      BY <1>6, <2>1, AtPc
    <2>4. Reached(n)' /\ Underway(n)'
      BY <2>3 DEF Reached, Underway
    <2>5. d.rest = <<>> /\ (r.tool = "createGoogleSlides" => d.tries = 0)
      BY <1>4, <1>9, <2>1
    <2>6. /\ n \in Calls /\ n.pc = k /\ n.tool = r.tool /\ n.id = r.id /\ n.path = r.path
          /\ n.opt = r.opt /\ n.rest = <<>> /\ n.made = r.made /\ n.tries = r.tries
      BY <1>6, <2>1, <2>5, AtPc
    <2>7. Advance(d) = n
      <3>1. /\ d.tool \in Tools /\ d.pc \in 1..Length(d.tool) /\ k = d.pc + 1
            /\ d.pc < Length(d.tool) /\ d.tool # "copyFile"
        BY <1>2, <1>6, <1>8, <2>1
      <3> QED
        BY <2>1, <3>1, GoesTo
    <2>8. call'[c] = n
      BY <1>2, <1>11, <2>7, CallAt, <1>1 DEF Goes
    <2>9. Step(n) # "resolve" /\ n.pc <= Length(n.tool) /\ n.pc # 0
      BY <1>6, <1>7, <2>6 DEF Step
    <2>10. n.tool \notin Texts \cup {"createShortcut", "bulkConvertFolderPdfs"}
      BY <1>8, <2>6
    <2>11. n.tool = "createGoogleSlides" => n.tries = 0
      BY <1>9, <2>6
    <2>12. Sound(n)'
      BY <1>2, <1>5, <2>4, <2>6, <2>9, <2>10, <2>11, NextIsSound
    <2> QED
      BY <1>5, <2>8, <2>12 DEF Keeps
  <1>12. CASE Named(r.name, r.at) = {} /\ Goes(c, Advance(r))
    <2> PICK n : n = ToStep(r, k)
      OBVIOUS
    <2> PICK a : a = After(r, yes)
      OBVIOUS
    <2>1. /\ n \in Calls /\ n.pc = 3 /\ n.tool = r.tool /\ n.name = r.name /\ n.at = r.at
          /\ n.path = r.path /\ n.rest = r.rest /\ n.alone = r.alone
      BY <1>2, <1>6, AtPc
    <2>2. Goes(c, a) \/ Changes(c, a)
      BY <1>12 DEF After
    <2>3. Named(n.name, n.at) = {}
      BY <1>12, <2>1
    <2>4. Named(n.name, n.at)' = {}
      BY <1>1, <2>3, SameDrive
    <2>5. Underway(n)'
      BY <1>3, <2>1, <2>4, NameUnderway
    <2>6. Reached(n)'
      BY <1>2, <1>5, <2>1, ReachedOn
    <2> QED
      BY ZenonT(30), <1>2, <1>4, <1>5, <1>6, <1>7, <1>8, <1>9, <2>2, <2>5, <2>6, CallGoesOn
  <1> QED
    BY <1>1, <1>10, <1>11, <1>12

LEMMA ConfirmKeeps ==
  ASSUME IInv, NEW c \in Callers, Confirm(c)
  PROVE  Keeps(c)
  <1> PICK r : r = call[c]
    OBVIOUS
  <1> PICK yes \in BOOLEAN : yes = TRUE
    OBVIOUS
  <1> PICK a : a = After(r, yes)
    OBVIOUS
  <1>1. PICK s \in {"confirm", "look", "title"} :
          Before(c, s) /\ Goes(c, a) /\ items' = items /\ revisions' = revisions
    BY DEF Confirm, At, Quiet, drive, After
  <1>2. /\ r \in Calls /\ Formed(r) /\ Reached(r) /\ Underway(r) /\ r.tool \in Tools /\ r.pc # 0
        /\ r.pc \in 1..Length(r.tool) /\ Handlers[r.tool][r.pc] = s
    BY <1>1, CallAt
  <1>3. \/ r.tool = "moveItem" /\ r.pc = 4 /\ Length(r.tool) = 4
        \/ r.tool = "duplicate_sheet_in_new_spreadsheet" /\ r.pc = 4 /\ Length(r.tool) = 4
        \/ r.tool = "createGoogleSlides" /\ r.pc = 6 /\ Length(r.tool) = 7
    BY <1>2, Requests, Lengths
  <1>4. r.rest = <<>>
    BY <1>1, <1>3, CallAt
  <1>5. DriveTyped' /\ Grows /\ FoldersKept /\ Underway(r)'
    BY <1>1, <1>2, DriveStays, UnderwayStays
  <1>6. Goes(c, a) \/ Changes(c, a)
    BY <1>1
  <1>7. CASE r.tool = "moveItem"
    <2>1. r.alone => Promise(r)'
      BY <1>3, <1>5, <1>7 DEF Underway, Promise, Checked
    <2>2. Reached(r)'
      BY <1>2, <1>5, ReachedOn
    <2>3. r.pc = Length(r.tool) /\ r.tool # "createGoogleSlides"
      BY <1>3, <1>7
    <2> QED
      BY <1>2, <1>4, <1>5, <1>6, <2>1, <2>2, <2>3, CallEnds
  <1>8. CASE r.tool = "duplicate_sheet_in_new_spreadsheet"
    <2>1. r.alone => Promise(r)'
      BY <1>3, <1>5, <1>8 DEF Underway, Promise, Checked
    <2>2. Reached(r)'
      BY <1>2, <1>5, ReachedOn
    <2>3. r.pc = Length(r.tool) /\ r.tool # "createGoogleSlides"
      BY <1>3, <1>8
    <2> QED
      BY <1>2, <1>4, <1>5, <1>6, <2>1, <2>2, <2>3, CallEnds
  <1>9. CASE r.tool = "createGoogleSlides"
    <2> PICK k : k = 7
      OBVIOUS
    <2> PICK n : n = ToStep(r, k)
      OBVIOUS
    <2>1. /\ n \in Calls /\ n.pc = 7 /\ n.tool = r.tool /\ n.name = r.name /\ n.at = r.at
          /\ n.path = r.path /\ n.rest = r.rest /\ n.alone = r.alone /\ n.made = r.made
          /\ n.id = r.id /\ n.tries = r.tries /\ n.n = r.n
      BY <1>2, AtPc
    <2>2. r.alone => /\ r.made # 0 /\ r.id = r.made /\ Named(r.name, r.at)' = {r.made}
                     /\ r.tries \in 1..2 /\ Len(items'[r.made].body) = r.tries
                     /\ FilledBefore(items'[r.made].body, r.tries, r.n)
      <3>1. r.pc = 6 /\ r.tool \in Filling
        BY <1>3, <1>9 DEF Filling
      <3> QED
        BY <1>5, <1>9, <3>1 DEF Underway, FilledBefore
    <2>3. r.name = n.name /\ r.at = n.at
      BY <2>1
    <2>4. n.alone => Named(n.name, n.at)' = {n.made}
      BY <2>1, <2>2, <2>3
    <2>5. Underway(n)'
      BY <1>9, <2>1, <2>2, <2>4, SlidesUnderway
    <2>6. Reached(n)'
      BY <1>2, <1>5, <2>1, ReachedOn
    <2>7. r.pc < Length(r.tool) /\ k = r.pc + 1 /\ k \in 1..Length(r.tool)
      BY <1>3, <1>9
    <2>8. Handlers[r.tool][k] # "resolve"
      BY <1>2, <2>7, Requests
    <2>9. r.tool \notin Texts \cup {"copyFile", "createShortcut", "bulkConvertFolderPdfs"}
      BY <1>9 DEF Texts
    <2>10. ~(k \in 1..4)
      OBVIOUS
    <2> QED
      BY <1>2, <1>4, <1>5, <1>6, <2>5, <2>6, <2>7, <2>8, <2>9, <2>10, CallGoesOn
  <1> QED
    BY <1>3, <1>7, <1>8, <1>9


-----------------------------------------------------------------------------
(***************************************************************************)
(* What a handler reads of Drive.                                          *)
(***************************************************************************)

\* What it has read fits its next request.
Known(n) ==
    /\ n.tool = "createShortcut" /\ n.pc = 3 => n.saw \in Items
    /\ n.tool \in Texts /\ n.pc = 3 => n.saw \in Seq(Nat)
    /\ n.tool = "insertText" /\ n.pc = 3 => n.opt <= Len(n.saw)
    /\ n.tool = "deleteRange" /\ n.pc = 3 => n.opt + 1 <= Len(n.saw)
    /\ n.tool = "bulkConvertFolderPdfs" /\ n.pc = 2 =>
          n.saw \in SUBSET {i \in Ids : items[i] # None}

\* A call that has read something and goes on.
LEMMA KnownIsSound ==
  ASSUME Grows, NEW r, Formed(r), r.pc # 0, r.tool # "createGoogleSlides",
         NEW n \in Calls, n.tool = r.tool, n.opt = r.opt, n.path = r.path, n.id = r.id,
         n.made = r.made, n.rest = <<>>, n.pc # 0, n.pc <= Length(n.tool),
         Step(n) # "resolve", Known(n)', Reached(n)', Underway(n)'
  PROVE  Sound(n)'
  <1>1. r.id \in Places /\ r.made \in Places
    BY DEF Formed, Calls
  <1>2. (n.id # 0 => items'[n.id] # None) /\ (n.made # 0 => items'[n.made] # None)
    BY <1>1 DEF Formed, Grows, Places, Root
  <1>3. Formed(n)'
    BY <1>2 DEF Formed, Known
  <1> QED
    BY <1>3 DEF Sound, Fulfilled

\* A call with something that it has read.
SeenBy(r, saw) == [r EXCEPT !.saw = saw]

LEMMA SeenByIs ==
  ASSUME NEW r \in Calls, NEW saw \in Seen
  PROVE  /\ SeenBy(r, saw) \in Calls /\ SeenBy(r, saw).tool = r.tool /\ SeenBy(r, saw).pc = r.pc
         /\ SeenBy(r, saw).opt = r.opt /\ SeenBy(r, saw).path = r.path
         /\ SeenBy(r, saw).id = r.id /\ SeenBy(r, saw).made = r.made
         /\ SeenBy(r, saw).rest = r.rest /\ SeenBy(r, saw).at = r.at
         /\ SeenBy(r, saw).alone = r.alone /\ SeenBy(r, saw).saw = saw
  BY DEF SeenBy, Calls

\* A call with a page that it has read.
Lists(r, page) == [r EXCEPT !.saw = page, !.listed = page]

LEMMA ListsIs ==
  ASSUME NEW r \in Calls, NEW page \in SUBSET Ids
  PROVE  /\ Lists(r, page) \in Calls /\ Lists(r, page).tool = r.tool /\ Lists(r, page).pc = r.pc
         /\ Lists(r, page).opt = r.opt /\ Lists(r, page).path = r.path
         /\ Lists(r, page).id = r.id /\ Lists(r, page).made = r.made
         /\ Lists(r, page).rest = r.rest /\ Lists(r, page).at = r.at
         /\ Lists(r, page).alone = r.alone /\ Lists(r, page).saw = page
         /\ Lists(r, page).listed = page
  <1>1. page \in Seen
    BY DEF Seen
  <1> QED
    BY <1>1 DEF Lists, Calls

\* What a page leaves out, a full one leaves out.
LEMMA PdfsAreListed ==
  ASSUME NEW g, NEW page \in PagesOf(g)
  PROVE  Listed(page, g, page) /\ page \in SUBSET {i \in Ids : items[i] # None}
  BY DEF PagesOf, Listed, OffPage, In, Live

LEMMA ListPdfsKeeps ==
  ASSUME IInv, NEW c \in Callers, ListPdfs(c)
  PROVE  Keeps(c)
  <1> PICK r : r = call[c]
    OBVIOUS
  <1>0. PICK pdfs \in PagesOf(r.id) :
          /\ Before(c, "list") /\ items' = items /\ revisions' = revisions
          /\ Goes(c, IF pdfs = {} THEN Ended(Lists(r, pdfs), FALSE) ELSE Advance(Lists(r, pdfs)))
    BY DEF ListPdfs, At, Quiet, drive, Lists
  <1> PICK m : m = Lists(r, pdfs)
    OBVIOUS
  <1> PICK k : k = 2
    OBVIOUS
  <1> PICK n : n = ToStep(m, k)
    OBVIOUS
  <1> PICK a : a = IF pdfs = {} THEN Ended(m, FALSE) ELSE Advance(m)
    OBVIOUS
  <1>1. Before(c, "list") /\ Goes(c, a) /\ items' = items /\ revisions' = revisions
    BY <1>0
  <1>2. /\ r \in Calls /\ Formed(r) /\ Reached(r) /\ r.tool \in Tools /\ r.pc # 0
        /\ c \in DOMAIN call
        /\ r.pc \in 1..Length(r.tool) /\ Handlers[r.tool][r.pc] = "list"
    BY <1>1, CallAt
  <1>3. r.tool = "bulkConvertFolderPdfs" /\ r.pc = 1 /\ Length(r.tool) = 2
    BY <1>2, Requests, Lengths
  <1>4. r.rest = <<>> /\ r.path = <<>>
    BY <1>1, <1>3, CallAt DEF Checked
  <1>5. DriveTyped' /\ Grows /\ FoldersKept
    BY <1>1, DriveStays
  <1>6. call'[c] = a
    BY <1>1, <1>2 DEF Goes
  <1>7. Listed(pdfs, r.id, pdfs) /\ pdfs \in SUBSET {i \in Ids : items[i] # None}
    BY <1>0, PdfsAreListed
  <1>8. Listed(pdfs, r.id, pdfs)'
    BY <1>1, <1>7, SameDrive DEF Listed, OffPage
  <1>11. /\ m \in Calls /\ m.tool = r.tool /\ m.pc = r.pc /\ m.opt = r.opt /\ m.path = r.path
         /\ m.id = r.id /\ m.made = r.made /\ m.rest = r.rest /\ m.at = r.at
         /\ m.alone = r.alone /\ m.saw = pdfs /\ m.listed = pdfs
    BY <1>2, <1>7, ListsIs
  <1>9. CASE pdfs = {}
    <2>1. a = IF m.alone THEN ToStep(m, 0) ELSE Idle
      BY <1>9, EndsAs
    <2>2. Promise(m)'
      <3>1. Listed({}, m.id, m.listed)'
        BY <1>8, <1>9, <1>11
      <3> QED
        BY <1>3, <1>11, <3>1, BulkPromise
    <2>3. Reached(m)'
      BY <1>4, <1>11, NoPath
    <2>4. Sound(a)'
      BY <1>2, <1>4, <1>5, <1>11, <2>1, <2>2, <2>3, DoneIsSound
    <2> QED
      BY <1>5, <1>6, <2>4 DEF Keeps
  <1>10. CASE pdfs # {}
    <2>1. k \in 0..7 /\ k # 0 /\ k = m.pc + 1 /\ m.pc < Length(m.tool)
          /\ m.pc \in 1..Length(m.tool) /\ m.tool \in Tools /\ m.tool # "copyFile"
      BY <1>2, <1>3, <1>11
    <2>3. a = n
      BY <1>10, <1>11, <2>1, GoesTo
    <2>4. /\ n \in Calls /\ n.pc = 2 /\ n.tool = r.tool /\ n.id = r.id /\ n.path = r.path
          /\ n.opt = r.opt /\ n.rest = <<>> /\ n.made = r.made /\ n.saw = pdfs
          /\ n.listed = pdfs
      BY <1>4, <1>11, <2>1, AtPc
    <2>5. Known(n)'
      BY <1>1, <1>3, <1>7, <2>4 DEF Known, Texts
    <2>6. Step(n) # "resolve" /\ n.pc <= Length(n.tool) /\ n.pc # 0
      BY <1>2, <1>3, <2>4, Requests DEF Step
    <2>7. Reached(n)'
      BY <1>4, <2>4, NoPath
    <2>8. Underway(n)'
      BY <1>3, <1>8, <2>4, BulkUnderway DEF Listed, OffPage
    <2>9. Sound(n)'
      BY <1>2, <1>3, <1>5, <2>4, <2>5, <2>6, <2>7, <2>8, KnownIsSound
    <2> QED
      BY <1>5, <1>6, <2>3, <2>9 DEF Keeps
  <1> QED
    BY <1>9, <1>10


-----------------------------------------------------------------------------
(***************************************************************************)
(* Local files, and requests that fail.                                    *)
(***************************************************************************)

LEMMA OpenLocalKeeps ==
  ASSUME IInv, NEW c \in Callers, OpenLocal(c)
  PROVE  Keeps(c)
  <1> PICK r : r = call[c]
    OBVIOUS
  <1> PICK k : k = 3
    OBVIOUS
  <1> PICK yes \in BOOLEAN : yes = TRUE
    OBVIOUS
  <1> PICK n : n = ToStep(r, k)
    OBVIOUS
  <1> PICK a : a = After(r, yes)
    OBVIOUS
  <1>1. Before(c, "stream") /\ Goes(c, a) /\ items' = items /\ revisions' = revisions
    BY DEF OpenLocal, At, drive, After
  <1>2. /\ r \in Calls /\ Formed(r) /\ Reached(r) /\ r.tool \in Tools /\ r.pc # 0
        /\ r.pc \in 1..Length(r.tool) /\ Handlers[r.tool][r.pc] = "stream"
    BY <1>1, CallAt
  <1>3. r.tool = "downloadFile" /\ r.pc = 2 /\ Length(r.tool) = 3
    BY <1>2, Requests, Lengths
  <1>4. r.rest = <<>> /\ r.path = <<>>
    BY <1>1, <1>3, CallAt DEF Checked
  <1>5. DriveTyped' /\ Grows /\ FoldersKept
    BY <1>1, DriveStays
  <1>6. k = r.pc + 1 /\ r.pc < Length(r.tool) /\ k \in 1..Length(r.tool)
    BY <1>3
  <1>7. Handlers[r.tool][k] # "resolve"
    BY <1>2, <1>3, <1>6, Requests
  <1>8. /\ r.tool \notin Texts \cup {"copyFile", "createShortcut", "bulkConvertFolderPdfs"}
        /\ r.tool # "createGoogleSlides"
    BY <1>3 DEF Texts
  <1>9. n.tool = r.tool /\ n.path = r.path
    BY <1>2, <1>6, NextCall
  <1>10. Reached(n)' /\ Underway(n)'
    BY <1>3, <1>4, <1>9, NoPath, NothingUnderway DEF Checked
  <1>11. Goes(c, a) \/ Changes(c, a)
    BY <1>1
  <1> QED
    BY <1>2, <1>4, <1>5, <1>6, <1>7, <1>8, <1>10, <1>11, CallGoesOn

LEMMA SaveLocalKeeps ==
  ASSUME IInv, NEW c \in Callers, SaveLocal(c)
  PROVE  Keeps(c)
  <1> PICK r : r = call[c]
    OBVIOUS
  <1> PICK yes \in BOOLEAN : yes = TRUE
    OBVIOUS
  <1> PICK a : a = After(r, yes)
    OBVIOUS
  <1>1. /\ Before(c, "save") /\ items' = items /\ revisions' = revisions
        /\ Goes(c, a) \/ Goes(c, Ended(r, TRUE))
    BY DEF SaveLocal, At, drive, After
  <1>2. /\ r \in Calls /\ Formed(r) /\ Reached(r) /\ r.tool \in Tools /\ r.pc # 0
        /\ r.pc \in 1..Length(r.tool) /\ Handlers[r.tool][r.pc] = "save"
    BY <1>1, CallAt
  <1>3. r.tool = "downloadFile" /\ r.pc = Length(r.tool) /\ r.tool # "createGoogleSlides"
    BY <1>2, Requests, Lengths
  <1>4. r.rest = <<>> /\ r.path = <<>>
    BY <1>1, <1>3, CallAt DEF Checked
  <1>5. DriveTyped' /\ Grows
    BY <1>1, DriveStays
  <1>6. CASE Goes(c, a)
    <2>1. Reached(r)' /\ Promise(r)'
      BY <1>3, <1>4, NoPath DEF Promise, Checked
    <2>2. Goes(c, a) \/ Changes(c, a)
      BY <1>6
    <2> QED
      BY <1>2, <1>3, <1>4, <1>5, <2>1, <2>2, CallEnds
  <1>7. CASE Goes(c, Ended(r, TRUE))
    BY <1>5, <1>7, EndsAs, CallFails
  <1> QED
    BY <1>1, <1>6, <1>7

LEMMA SaveFailsKeeps ==
  ASSUME IInv, NEW c \in Callers, SaveFails(c)
  PROVE  Keeps(c)
  <1>1. Goes(c, Ended(call[c], TRUE)) /\ items' = items /\ revisions' = revisions
    BY DEF SaveFails, drive
  <1> QED
    BY <1>1, DriveStays, EndsAs, CallFails

LEMMA RefusedKeeps ==
  ASSUME IInv, NEW c \in Callers, Refused(c)
  PROVE  Keeps(c)
  <1>1. Goes(c, Ended(call[c], TRUE)) /\ items' = items /\ revisions' = revisions
    BY DEF Refused, drive
  <1> QED
    BY <1>1, DriveStays, EndsAs, CallFails

LEMMA RequestFailsKeeps ==
  ASSUME IInv, NEW c \in Callers, RequestFails(c)
  PROVE  Keeps(c)
  <1>1. Goes(c, Ended(call[c], TRUE)) /\ items' = items /\ revisions' = revisions
    BY DEF RequestFails, drive
  <1> QED
    BY <1>1, DriveStays, EndsAs, CallFails

\* A call whose PDF has been cut.
Cut(r) == [r EXCEPT !.tries = Parts]

LEMMA CutIs ==
  ASSUME NEW r \in Calls
  PROVE  /\ Cut(r) \in Calls /\ Cut(r).tool = r.tool /\ Cut(r).pc = r.pc
         /\ Cut(r).opt = r.opt /\ Cut(r).path = r.path /\ Cut(r).id = r.id
         /\ Cut(r).made = r.made /\ Cut(r).rest = r.rest /\ Cut(r).at = r.at
         /\ Cut(r).alone = r.alone
  <1> PICK p \in Int : p = Parts
    BY DEF Parts
  <1>1. Cut(r) = [r EXCEPT !.tries = p]
    BY DEF Cut
  <1> QED
    BY <1>1 DEF Calls

LEMMA SplitKeeps ==
  ASSUME IInv, NEW c \in Callers, NEW made \in BOOLEAN, NEW ok \in BOOLEAN, Split(c, made, ok)
  PROVE  Keeps(c)
  <1> PICK r : r = call[c]
    OBVIOUS
  <1> PICK m : m = Cut(r)
    OBVIOUS
  <1> PICK k : k = 3
    OBVIOUS
  <1> PICK n : n = ToStep(m, k)
    OBVIOUS
  <1> PICK a : a = After(m, ok)
    OBVIOUS
  <1>1. Before(c, "split") /\ Goes(c, a) /\ items' = items /\ revisions' = revisions
    BY DEF Split, At, drive, Cut
  <1>2. /\ r \in Calls /\ Formed(r) /\ Reached(r) /\ r.tool \in Tools /\ r.pc # 0
        /\ r.pc \in 1..Length(r.tool) /\ Handlers[r.tool][r.pc] = "split"
    BY <1>1, CallAt
  <1>3. r.tool = "uploadPdfWithSplit" /\ r.pc = 2 /\ Length(r.tool) = 3
    BY <1>2, Requests, Lengths
  <1>4. r.rest = <<>>
    BY <1>1, <1>3, CallAt
  <1>5. DriveTyped' /\ Grows /\ FoldersKept
    BY <1>1, DriveStays
  <1>6. k = r.pc + 1 /\ r.pc < Length(r.tool) /\ k \in 1..Length(r.tool) /\ k \in 0..7
    BY <1>3
  <1>7. Handlers[r.tool][k] # "resolve"
    BY <1>2, <1>3, <1>6, Requests
  <1>8. /\ r.tool \notin Texts \cup {"copyFile", "createShortcut", "bulkConvertFolderPdfs"}
        /\ r.tool # "createGoogleSlides"
    BY <1>3 DEF Texts
  <1>9. /\ m \in Calls /\ m.tool = r.tool /\ m.pc = r.pc /\ m.opt = r.opt /\ m.path = r.path
        /\ m.id = r.id /\ m.made = r.made /\ m.rest = r.rest /\ m.at = r.at /\ m.alone = r.alone
    BY <1>2, CutIs
  <1>10. n.tool = m.tool /\ n.path = m.path /\ n.rest = m.rest /\ n.at = m.at /\ n.alone = m.alone
    BY <1>6, <1>9, AtPc
  <1>11. Reached(n)'
    BY <1>2, <1>5, <1>9, <1>10, ReachedOn
  <1>12. Underway(n)'
    BY <1>3, <1>9, <1>10, NothingUnderway DEF Checked
  <1>13. Goes(c, a) \/ Changes(c, a)
    BY <1>1
  <1> QED
    BY <1>2, <1>4, <1>5, <1>6, <1>7, <1>8, <1>9, <1>11, <1>12, <1>13, CallGoesOn


-----------------------------------------------------------------------------
(***************************************************************************)
(* The text of a file.                                                     *)
(***************************************************************************)

\* What is fetched for an edit, or of a revision.
MayFetch(r, text) ==
    IF r.tool = "restoreRevision" THEN text \in revisions[r.id] ELSE text = items[r.id].body

\* The edit lies in the text.
Fits(r, text) ==
    /\ r.tool = "insertText" => r.opt <= Len(text)
    /\ r.tool = "deleteRange" => r.opt + 1 <= Len(text)

LEMMA FitsIs ==
  ASSUME NEW r, NEW text \in Seq(Nat), r.tool \in Texts,
         r.tool # "restoreRevision" => r.opt \in 0..1,
         ~(r.tool # "restoreRevision"
           /\ (IF r.tool = "deleteRange" THEN r.opt + 1 ELSE r.opt) > Len(text))
  PROVE  Fits(r, text)
  BY DEF Fits, Texts

LEMMA FetchedIsKnown ==
  ASSUME NEW n, n.tool \in Texts, n.pc = 3, n.saw \in Seq(Nat), Fits(n, n.saw)
  PROVE  Known(n)'
  BY DEF Known, Texts, Fits

LEMMA FetchKeeps ==
  ASSUME IInv, NEW c \in Callers, Fetch(c)
  PROVE  Keeps(c)
  <1> PICK r : r = call[c]
    OBVIOUS
  <1> PICK k : k = 3
    OBVIOUS
  <1>1. /\ Before(c, "fetch") /\ items' = items /\ revisions' = revisions
        /\ \E text : /\ MayFetch(r, text)
                     /\ \/ Goes(c, Ended(r, TRUE))
                        \/ /\ Goes(c, Advance(SeenBy(r, text)))
                           /\ ~(r.tool # "restoreRevision"
                                /\ (IF r.tool = "deleteRange" THEN r.opt + 1 ELSE r.opt) > Len(text))
    BY DEF Fetch, At, Quiet, drive, MayFetch, SeenBy
  <1>2. /\ r \in Calls /\ Formed(r) /\ Reached(r) /\ r.tool \in Tools /\ r.pc # 0
        /\ c \in DOMAIN call /\ DriveTyped /\ r.opt \in Options(r.tool)
        /\ r.pc \in 1..Length(r.tool) /\ Handlers[r.tool][r.pc] = "fetch"
    BY <1>1, CallAt
  <1>3. r.tool \in Texts /\ r.pc = 2 /\ Length(r.tool) = 3
    BY <1>2, Requests, Lengths DEF Texts
  <1>4. r.rest = <<>> /\ r.path = <<>> /\ r.id # 0
    BY <1>1, <1>3, CallAt DEF Checked, Texts, Making
  <1>5. DriveTyped' /\ Grows
    BY <1>1, DriveStays
  <1>6. r.id \in Ids /\ items[r.id] \in Items
    BY <1>2, <1>4, ItsItem
  <1>7. r.tool # "restoreRevision" => r.opt \in 0..1
    BY <1>2, <1>3 DEF Options, Texts
  <1>8. CASE Goes(c, Ended(r, TRUE))
    BY <1>5, <1>8, EndsAs, CallFails
  <1>9. ASSUME NEW text, MayFetch(r, text), Goes(c, Advance(SeenBy(r, text))),
               ~(r.tool # "restoreRevision"
                 /\ (IF r.tool = "deleteRange" THEN r.opt + 1 ELSE r.opt) > Len(text))
        PROVE  Keeps(c)
    <2> PICK m : m = SeenBy(r, text)
      OBVIOUS
    <2> PICK n : n = ToStep(m, k)
      OBVIOUS
    <2>1. text \in Seq(Nat)
      <3>1. items[r.id].body \in Seq(Nat)
        BY <1>6 DEF Items
      <3>2. revisions[r.id] \in SUBSET Seq(Nat)
        BY <1>2, <1>6 DEF DriveTyped
      <3> QED
        BY <1>9, <3>1, <3>2 DEF MayFetch
    <2>2. Fits(r, text)
      BY <1>3, <1>7, <1>9, <2>1, FitsIs
    <2>3. text \in Seen
      BY <2>1 DEF Seen
    <2>4. /\ m \in Calls /\ m.tool = r.tool /\ m.pc = r.pc /\ m.opt = r.opt /\ m.path = r.path
          /\ m.id = r.id /\ m.made = r.made /\ m.rest = r.rest /\ m.saw = text
      BY <1>2, <2>3, SeenByIs
    <2>5. /\ k \in 0..7 /\ k # 0 /\ k = m.pc + 1 /\ m.pc < Length(m.tool)
          /\ m.pc \in 1..Length(m.tool) /\ m.tool \in Tools /\ m.tool # "copyFile"
      BY <1>2, <1>3, <2>4 DEF Texts
    <2>6. Advance(m) = n
      BY <2>4, <2>5, GoesTo
    <2>7. /\ n \in Calls /\ n.pc = 3 /\ n.tool = r.tool /\ n.id = r.id /\ n.path = r.path
          /\ n.opt = r.opt /\ n.rest = <<>> /\ n.made = r.made /\ n.saw = text
      BY <1>4, <2>4, <2>5, AtPc
    <2>8. Fits(n, n.saw)
      BY <2>2, <2>7 DEF Fits
    <2>9. Known(n)'
      BY <1>3, <2>1, <2>7, <2>8, FetchedIsKnown
    <2>10. Step(n) # "resolve" /\ n.pc <= Length(n.tool) /\ n.pc # 0
      BY <1>2, <1>3, <2>7, Requests DEF Step, Texts
    <2>11. Reached(n)'
      BY <1>4, <2>7, NoPath
    <2>12. Underway(n)'
      <3>1. CASE r.tool = "insertText"
        <4>1. n.saw = items'[n.id].body
          BY <1>1, <1>9, <2>7, <3>1 DEF MayFetch
        <4> QED
          BY <2>7, <3>1, <4>1, InsertUnderway
      <3>2. CASE r.tool # "insertText"
        BY <1>3, <2>7, <3>2, NothingUnderway DEF Texts, Checked
      <3> QED
        BY <3>1, <3>2
    <2>13. r.tool # "createGoogleSlides"
      BY <1>3 DEF Texts
    <2>14. Sound(n)'
      BY <1>2, <1>5, <2>7, <2>9, <2>10, <2>11, <2>12, <2>13, KnownIsSound
    <2>15. call'[c] = n
      BY <1>2, <1>9, <2>6 DEF Goes
    <2> QED
      BY <1>5, <2>14, <2>15 DEF Keeps
  <1> QED
    BY <1>1, <1>8, <1>9


-----------------------------------------------------------------------------
(***************************************************************************)
(* The item of a call is read.                                             *)
(***************************************************************************)

ReadBy(r, item) ==
  [r EXCEPT !.saw = item, !.at = Beside(r, item),
            !.absent = (r.tool = "downloadFile" /\ local.state = "absent")]

LEMMA BesideIs ==
  ASSUME NEW r \in Calls, NEW item \in Items
  PROVE  Beside(r, item) \in Places
  <1>1. r.at \in Places /\ item.parent \in Places
    BY DEF Calls, Items, Places
  <1> QED
    BY <1>1 DEF Beside

LEMMA ReadByIs ==
  ASSUME NEW r \in Calls, NEW item \in Items, NEW m, m = ReadBy(r, item)
  PROVE  /\ m \in Calls /\ m.tool = r.tool /\ m.pc = r.pc /\ m.opt = r.opt /\ m.path = r.path
         /\ m.id = r.id /\ m.made = r.made /\ m.rest = r.rest /\ m.tries = r.tries
         /\ m.saw = item /\ m.at = Beside(r, item) /\ m.alone = r.alone
  <1> PICK at \in Places : at = Beside(r, item)
    BY BesideIs
  <1> PICK seen \in Seen : seen = item
    BY DEF Seen
  <1> PICK absent \in BOOLEAN : absent = (r.tool = "downloadFile" /\ local.state = "absent")
    OBVIOUS
  <1>1. m = [r EXCEPT !.saw = seen, !.at = at, !.absent = absent]
    BY DEF ReadBy
  <1>2. m.saw = seen /\ m.at = at
    BY <1>1 DEF Calls
  <1>3. m \in Calls
    BY <1>1 DEF Calls
  <1>4. /\ m.tool = r.tool /\ m.pc = r.pc /\ m.opt = r.opt /\ m.path = r.path
        /\ m.id = r.id /\ m.made = r.made /\ m.rest = r.rest /\ m.tries = r.tries
        /\ m.alone = r.alone
    BY <1>1 DEF Calls
  <1> QED
    BY <1>2, <1>3, <1>4

\* The tools that read an item first, and those that resolve a path before.
FirstReading == {"uploadNewVersion", "copyFile", "convertPdfToGoogleDoc", "renameItem",
                 "deleteItem", "lockFile", "unlockFile", "updateTextFile", "insertText",
                 "deleteRange", "restoreRevision", "shareFile", "removePermission",
                 "downloadFile", "duplicate_sheet_in_new_spreadsheet"}

ThenReading == {"createShortcut", "moveItem"}

\* A call that has read its item, in a tool that has no folder left to resolve.
LEMMA ReadGoesOn ==
  ASSUME Grows, NEW r, Formed(r), r.tool \in Tools, r.tool # "copyFile",
         \/ r.pc = 1 /\ r.tool \in FirstReading
         \/ r.pc = 2 /\ r.tool \in ThenReading,
         r.pc < Length(r.tool), r.pc \in 1..Length(r.tool),
         NEW m \in Calls, m.tool = r.tool, m.pc = r.pc, m.opt = r.opt, m.path = r.path,
         m.id = r.id, m.made = r.made, m.rest = <<>>, m.saw \in Items,
         NEW k, k = r.pc + 1, NEW n, n = ToStep(m, k), Reached(m)'
  PROVE  Advance(m) = n /\ Sound(n)'
  <1>1. k \in 2..3 /\ k \in 0..7 /\ k \in 1..Length(r.tool)
    BY HandlersAreSequences
  <1>2. /\ n \in Calls /\ n.pc = k /\ n.tool = r.tool /\ n.id = r.id /\ n.path = m.path
        /\ n.opt = r.opt /\ n.rest = m.rest /\ n.made = r.made /\ n.saw = m.saw
        /\ n.at = m.at /\ n.alone = m.alone
    BY <1>1, AtPc
  <1>3. Advance(m) = n
    BY GoesTo
  <1>4. Handlers[r.tool][k] # "resolve"
    BY <1>1, Requests
  <1>5. Step(n) # "resolve" /\ n.pc <= Length(n.tool) /\ n.pc # 0
    BY <1>1, <1>2, <1>4, HandlersAreSequences DEF Step
  <1>6. Reached(n)'
    BY <1>2 DEF Reached
  <1>7. CASE r.pc = 1 /\ r.tool \in FirstReading
    <2>1. n.pc = 2 /\ n.tool # "bulkConvertFolderPdfs" /\ n.tool # "createGoogleSlides"
      BY <1>2, <1>7 DEF FirstReading
    <2>2. Known(n)' /\ Underway(n)'
      BY <2>1, NothingUnderway DEF Known
    <2>3. Sound(n)'
      BY <1>2, <1>5, <1>6, <2>1, <2>2, KnownIsSound
    <2> QED
      BY <1>3, <2>3
  <1>8. CASE r.pc = 2 /\ r.tool \in ThenReading
    <2>1. /\ n.pc = 3 /\ n.tool \in ThenReading /\ n.tool \notin Texts
          /\ n.tool \notin {"bulkConvertFolderPdfs", "createGoogleSlides"}
      BY <1>2, <1>8 DEF ThenReading, Texts
    <2>2. Known(n)'
      BY <1>2, <2>1 DEF Known, Texts
    <2>3. Underway(n)'
      BY <2>1, NothingUnderway DEF ThenReading, Checked
    <2>4. Sound(n)'
      BY <1>2, <1>5, <1>6, <2>1, <2>2, <2>3, KnownIsSound
    <2> QED
      BY <1>3, <2>4
  <1> QED
    BY <1>7, <1>8

\* A copy that has read its original: its folder is still to be resolved, or known.
LEMMA CopyReads ==
  ASSUME Grows, NEW r, Formed(r), r.tool = "copyFile", r.pc = 1,
         NEW m \in Calls, m.tool = r.tool, m.pc = r.pc, m.opt = r.opt, m.path = r.path,
         m.id = r.id, m.made = r.made, m.rest = r.rest, m.tries = r.tries, Reached(m)'
  PROVE  Sound(Advance(m))'
  <1> PICK k : k = IF m.rest = <<>> THEN 3 ELSE 2
    OBVIOUS
  <1> PICK n : n = ToStep(m, k)
    OBVIOUS
  <1>1. r.tool \in Tools /\ Length(r.tool) = 3 /\ k \in 1..3 /\ k \in 0..7
    BY ToolsAre, Lengths
  <1>2. Advance(m) = n
    <2>1. m.tool \in Tools /\ m.pc \in 1..Length(m.tool) /\ m.pc + 1 = 2 /\ m.pc < Length(m.tool)
      BY <1>1
    <2>2. CASE m.rest = <<>>
      BY <2>1, <2>2, AdvanceTo
    <2>3. CASE m.rest # <<>>
      BY <2>1, <2>3, AdvanceTo
    <2> QED
      BY <2>2, <2>3
  <1>3. /\ n \in Calls /\ n.pc = k /\ n.tool = r.tool /\ n.id = r.id /\ n.path = m.path
        /\ n.opt = r.opt /\ n.rest = m.rest /\ n.made = r.made /\ n.tries = r.tries
        /\ n.at = m.at /\ n.alone = m.alone
    BY <1>1, AtPc
  <1>4. Reached(n)'
    BY <1>3 DEF Reached
  <1>5. Handlers[r.tool][k] = "resolve" <=> k = 2
    BY <1>1, Requests
  <1>6. Step(n) = "resolve" <=> k = 2
    BY <1>3, <1>5 DEF Step
  <1>7. /\ r.pc \in 1..3 /\ r.tool \in Resolving /\ n.pc \in 1..3 /\ n.pc <= Length(n.tool)
        /\ n.pc = 3 => n.tool = "copyFile"
    BY <1>1, <1>3 DEF Resolving
  <1>8. /\ Step(n) = "resolve" => n.rest # <<>>
        /\ n.rest # <<>> => Step(n) = "resolve"
    BY <1>3, <1>6
  <1>9. Sound(n)'
    BY <1>3, <1>4, <1>7, <1>8, EarlyIsSound
  <1> QED
    BY <1>2, <1>9

LEMMA ReadKeeps ==
  ASSUME IInv, NEW c \in Callers, Read(c)
  PROVE  Keeps(c)
  <1> PICK r : r = call[c]
    OBVIOUS
  <1> PICK item : item = items[r.id]
    OBVIOUS
  <1> PICK m : m = ReadBy(r, item)
    OBVIOUS
  <1>1. /\ Before(c, "read") /\ items' = items /\ revisions' = revisions
        /\ \/ Goes(c, Ended(r, TRUE))
           \/ NothingToDo(r, item) /\ Goes(c, Ended(r, FALSE))
           \/ Goes(c, Advance(m))
    BY DEF Read, At, Quiet, drive, ReadBy
  <1>2. /\ r \in Calls /\ Formed(r) /\ Reached(r) /\ r.tool \in Tools /\ r.pc # 0
        /\ c \in DOMAIN call /\ DriveTyped
        /\ r.pc \in 1..Length(r.tool) /\ Handlers[r.tool][r.pc] = "read"
    BY <1>1, CallAt
  <1>3. /\ \/ r.pc = 1 /\ r.tool \in FirstReading
           \/ r.pc = 2 /\ r.tool \in ThenReading
        /\ r.pc < Length(r.tool)
    BY <1>2, Requests, Lengths DEF FirstReading, ThenReading
  <1>4. /\ r.id # 0 /\ (r.tool # "copyFile" => r.rest = <<>>)
        /\ r.path # <<>> => r.tool \in {"copyFile"} \cup ThenReading
    <2>1. r.tool \notin Making \cup {"bulkConvertFolderPdfs"}
      BY <1>3 DEF FirstReading, ThenReading, Making, Checked
    <2>2. r.path # <<>> => r.tool \in {"copyFile"} \cup ThenReading
      BY <1>1, <1>3, CallAt DEF FirstReading, ThenReading, Checked
    <2> QED
      BY <1>1, <2>1, <2>2, CallAt
  <1>5. DriveTyped' /\ Grows /\ FoldersKept
    BY <1>1, DriveStays
  <1>6. item \in Items /\ r.id \in Ids /\ item = items'[r.id]
    BY <1>1, <1>2, <1>4, ItsItem
  <1>7. CASE Goes(c, Ended(r, TRUE))
    BY <1>5, <1>7, EndsAs, CallFails
  <1>8. CASE NothingToDo(r, item) /\ Goes(c, Ended(r, FALSE))
    <2> PICK a : a = Ended(r, FALSE)
      OBVIOUS
    <2>1. r.tool \in {"lockFile", "unlockFile", "shareFile"}
      BY <1>8 DEF NothingToDo
    <2>2. r.path = <<>> /\ r.rest = <<>>
      BY <1>4, <2>1 DEF ThenReading
    <2>3. Promise(r)'
      BY <1>6, <1>8, <2>1 DEF Promise, NothingToDo, Checked
    <2>4. Reached(r)'
      BY <2>2, NoPath
    <2>5. a = IF r.alone THEN ToStep(r, 0) ELSE Idle
      BY EndsAs
    <2>6. Sound(a)'
      BY <1>2, <1>5, <2>2, <2>3, <2>4, <2>5, DoneIsSound
    <2> QED
      BY <1>2, <1>5, <1>8, <2>6 DEF Keeps, Goes
  <1>9. CASE Goes(c, Advance(m))
    <2>1. /\ m \in Calls /\ m.tool = r.tool /\ m.pc = r.pc /\ m.opt = r.opt /\ m.path = r.path
          /\ m.id = r.id /\ m.made = r.made /\ m.rest = r.rest /\ m.tries = r.tries
          /\ m.saw = item /\ m.at = Beside(r, item) /\ m.alone = r.alone
      BY <1>2, <1>6, ReadByIs
    <2>2. Reached(m)'
      <3>1. CASE r.path = <<>>
        BY <2>1, <3>1, NoPath
      <3>2. CASE r.path # <<>>
        <4>1. r.tool = "copyFile" => ~r.opt
          BY <1>2, <3>2 DEF Formed
        <4>2. m.at = r.at
          BY <1>4, <2>1, <3>2, <4>1 DEF Beside, ThenReading
        <4> QED
          BY <1>2, <1>5, <2>1, <4>2, ReachedOn
      <3> QED
        BY <3>1, <3>2
    <2>3. Sound(Advance(m))'
      <3>1. CASE r.tool = "copyFile"
        <4>1. r.pc = 1
          BY <1>3, <3>1 DEF ThenReading
        <4> QED
          BY <1>2, <1>5, <2>1, <2>2, <3>1, <4>1, CopyReads
      <3>2. CASE r.tool # "copyFile"
        <4> PICK k : k = r.pc + 1
          OBVIOUS
        <4> PICK n : n = ToStep(m, k)
          OBVIOUS
        <4>1. m.rest = <<>> /\ m.saw \in Items
          BY <1>4, <1>6, <2>1, <3>2
        <4>2. Advance(m) = n /\ Sound(n)'
          BY <1>2, <1>3, <1>5, <2>1, <2>2, <3>2, <4>1, ReadGoesOn
        <4> QED
          BY <4>2
      <3> QED
        BY <3>1, <3>2
    <2>4. call'[c] = Advance(m)
      BY <1>2, <1>9 DEF Goes
    <2> QED
      BY <1>5, <2>3, <2>4 DEF Keeps
  <1> QED
    BY <1>1, <1>7, <1>8, <1>9


-----------------------------------------------------------------------------
(***************************************************************************)
(* A call begins.                                                          *)
(***************************************************************************)

LEMMA OptionsAre ==
  ASSUME NEW t \in Tools
  PROVE  Options(t) \subseteq Opts
  BY DEF Options, Opts

\* What a call may be about.
LEMMA TargetsAre ==
  ASSUME DriveTyped, NEW t \in Tools, NEW id \in Targets(t)
  PROVE  /\ id \in Places
         /\ id # 0 => items[id] # None
         /\ id = 0 => t \in Making \cup {"bulkConvertFolderPdfs"}
  <1>1. 0 \notin Ids
    BY DEF Ids
  <1> QED
    BY <1>1 DEF Targets, Folders, Places, Root

LEMMA NamesForAre ==
  ASSUME NEW t \in Tools
  PROVE  NamesFor(t) \subseteq SomeName
  BY DEF NamesFor, SomeName

\* A call that has taken nothing of its path yet has reached the root.
LEMMA ReachedAtFirst ==
  ASSUME NEW n, n.path \in Seq(Names), n.rest = n.path, n.path # <<>> => n.at = Root
  PROVE  Reached(n)'
  <1> SUFFICES ASSUME n.alone, n.path # <<>>
               PROVE  \E k \in 0..Len(n.path) :
                         n.rest = SubSeq(n.path, k + 1, Len(n.path)) /\ Leads(n.path, k, n.at)'
    BY DEF Reached
  <1>1. 0 \in 0..Len(n.path) /\ n.path = SubSeq(n.path, 0 + 1, Len(n.path))
    BY DEF Reached
  <1>2. Leads(n.path, 0, n.at)'
    BY LeadsNowhere
  <1> QED
    BY <1>1, <1>2

LEMMA BegunIsSound ==
  ASSUME DriveTyped, items' = items, NEW m \in Calls, m.tool \in Tools, m.pc = 0,
         m.opt \in Options(m.tool), m.id # 0 => items[m.id] # None,
         m.id = 0 => m.tool \in Making \cup {"bulkConvertFolderPdfs"},
         m.path # <<>> => m.tool \in Placing /\ m.at = Root /\ (m.tool = "copyFile" => ~m.opt),
         m.rest = m.path, m.made = 0, m.tries = 0
  PROVE  Sound(Advance(m))'
  <1>1. PICK k \in 1..Length(m.tool) :
           /\ k \in 1..2 /\ Advance(m) = ToStep(m, k)
           /\ Handlers[m.tool][k] = "resolve" => m.rest # <<>>
           /\ k = 2 => \/ m.tool \in Placing /\ m.tool # "copyFile" /\ m.rest = <<>>
                       \/ m.tool \in {"copy_file", "create_file"}
    BY FirstStep
  <1> PICK n : n = ToStep(m, k)
    OBVIOUS
  <1>2. /\ n \in Calls /\ n.pc = k /\ n.tool = m.tool /\ n.id = m.id /\ n.path = m.path
        /\ n.opt = m.opt /\ n.rest = m.rest /\ n.made = m.made /\ n.tries = m.tries
        /\ n.at = m.at
    BY <1>1, AtPc
  <1>3. Step(n) = Handlers[m.tool][k] /\ n.pc <= Length(n.tool) /\ n.pc \in 1..2
    BY <1>1, <1>2, HandlersAreSequences DEF Step
  <1>4. n.rest # <<>> => Step(n) = "resolve" \/ (n.tool = "copyFile" /\ n.pc = 1)
    <2> SUFFICES ASSUME n.rest # <<>>, n.tool # "copyFile"
                 PROVE  Step(n) = "resolve"
      BY <1>1, <1>2
    <2>1. m.tool \in Placing /\ m.tool \notin {"copy_file", "create_file"}
      BY <1>2, PlacingAre
    <2>2. k = 1
      BY <1>1, <1>2, <2>1
    <2>3. m.tool \in Checked \cup {"createShortcut", "uploadFile", "uploadPdfWithSplit", "moveItem"}
      BY <1>2, <2>1, PlacingAre DEF Checked
    <2>4. Handlers[m.tool][k] = "resolve"
      BY <2>2, <2>3, Requests DEF Checked
    <2> QED
      BY <1>3, <2>4
  <1>5. ~(n.tool = "bulkConvertFolderPdfs" /\ n.pc = 2)
    BY <1>1, <1>2, PlacingAre
  <1>6. Formed(n)'
    <2>1. /\ n.pc # 0 /\ n.pc # 3 /\ n.tool \in Tools /\ n.opt \in Options(n.tool)
          /\ Step(n) = "resolve" => n.rest # <<>>
          /\ n.path # <<>> => n.tool \in Placing /\ (n.tool = "copyFile" => ~n.opt)
          /\ n.id = 0 => n.tool \in Making \cup {"bulkConvertFolderPdfs"}
          /\ n.id # 0 => items'[n.id] # None
          /\ n.made = 0 /\ n.tries = 0
      BY <1>1, <1>2, <1>3
    <2> QED
      BY <1>2, <1>3, <1>4, <1>5, <2>1 DEF Formed
  <1>7. Reached(n)'
    <2>1. n.path \in Seq(Names)
      BY <1>2 DEF Calls
    <2> QED
      BY <1>2, <2>1, ReachedAtFirst
  <1>8. Underway(n)'
    BY <1>3, <1>5, NothingUnderway
  <1>9. Sound(n)'
    BY <1>3, <1>6, <1>7, <1>8 DEF Sound, Fulfilled
  <1> QED
    BY <1>1, <1>9

LEMMA BeginKeeps ==
  ASSUME IInv, NEW c \in Callers, Begin(c)
  PROVE  Keeps(c)
  <1>1. PICK t \in Tools :
          \E id \in Targets(t), name \in NamesFor(t), opt \in Options(t),
             path \in IF t \in Placing THEN Paths \cup {<<>>} ELSE {<<>>},
             folder \in IF t \in InFolder THEN Folders ELSE {Root} :
            /\ path # <<>> => folder = Root
            /\ t = "copyFile" /\ opt => path = <<>> /\ folder = Root
            /\ Goes(c, Advance(Called(calls + 1, t, id, folder, path, name, opt)))
    BY DEF Begin
  <1>2. PICK id, name, opt, path, folder :
            /\ id \in Targets(t) /\ name \in NamesFor(t) /\ opt \in Options(t)
            /\ path \in IF t \in Placing THEN Paths \cup {<<>>} ELSE {<<>>}
            /\ folder \in IF t \in InFolder THEN Folders ELSE {Root}
            /\ path # <<>> => folder = Root
            /\ t = "copyFile" /\ opt => path = <<>> /\ folder = Root
            /\ Goes(c, Advance(Called(calls + 1, t, id, folder, path, name, opt)))
    BY <1>1
  <1> PICK number : number = calls + 1
    OBVIOUS
  <1> PICK m : m = Called(number, t, id, folder, path, name, opt)
    OBVIOUS
  <1>3. items' = items /\ revisions' = revisions /\ DriveTyped /\ c \in DOMAIN call
    BY DEF Begin, drive, IInv
  <1>4. DriveTyped' /\ Grows
    BY <1>3, DriveStays
  <1>5. /\ id \in Places
        /\ id # 0 => items[id] # None
        /\ id = 0 => t \in Making \cup {"bulkConvertFolderPdfs"}
    BY <1>2, <1>3, TargetsAre
  <1>6. path \in Seq(Names) /\ (path # <<>> => t \in Placing)
    <2>1. <<>> \in Seq(Names)
      OBVIOUS
    <2>2. path \in Paths \cup {<<>>} /\ (path # <<>> => t \in Placing)
      BY <1>2
    <2> QED
      BY <2>1, <2>2, ConstantsAssumption
  <1>7. folder \in Places
    BY <1>2 DEF Folders, Places
  <1>8. name \in SomeName /\ opt \in Opts /\ t \in SomeTool /\ number \in Nat
    BY <1>2, NamesForAre, OptionsAre DEF SomeTool, IInv
  <1>9. /\ m \in Calls /\ m.tool = t /\ m.id = id /\ m.path = path /\ m.name = name
        /\ m.opt = opt /\ m.pc = 0 /\ m.at = folder /\ m.rest = path /\ m.made = 0
        /\ m.tries = 0
    <2>1. Idle \in Calls /\ Idle.made = 0 /\ Idle.tries = 0 /\ Idle.pc = 0
      BY IdleIsSound DEF Idle
    <2>2. m = Called(number, t, id, folder, path, name, opt)
      OBVIOUS
    <2> QED
      BY ONLY Zenon, <1>5, <1>6, <1>7, <1>8, <2>1, <2>2 DEF Called, Calls
  <1>10. m.path # <<>> => m.tool \in Placing /\ m.at = Root /\ (m.tool = "copyFile" => ~m.opt)
    BY <1>2, <1>6, <1>9
  <1>11. /\ m.opt \in Options(m.tool) /\ m.tool \in Tools
         /\ m.id # 0 => items[m.id] # None
         /\ m.id = 0 => m.tool \in Making \cup {"bulkConvertFolderPdfs"}
         /\ m.rest = m.path
    BY <1>2, <1>5, <1>9
  <1>12. Sound(Advance(m))'
    BY <1>3, <1>9, <1>10, <1>11, BegunIsSound
  <1>13. call'[c] = Advance(m)
    BY <1>2, <1>3 DEF Goes
  <1> QED
    BY <1>4, <1>12, <1>13 DEF Keeps


-----------------------------------------------------------------------------
(***************************************************************************)
(* The invariant is inductive.                                             *)
(***************************************************************************)

\* Only a beginning call counts.
LEMMA CallsAreCounted ==
  ASSUME calls \in Nat, NEW c \in Callers, Begin(c) \/ Handle(c)
  PROVE  calls' \in Nat
  <1>1. CASE Begin(c)
    BY SMTT(30), <1>1 DEF Begin
  <1>2. CASE \/ LookUpFolder(c) \/ MakeFolder(c) \/ Read(c) \/ Fetch(c) \/ Confirm(c)
             \/ ListPdfs(c) \/ OpenLocal(c) \/ SaveLocal(c) \/ SaveFails(c) \/ Refused(c)
             \/ RequestFails(c)
    BY Zenon, <1>2 DEF LookUpFolder, MakeFolder, Read, Fetch, Confirm, ListPdfs, OpenLocal, SaveLocal,
       SaveFails, Refused, RequestFails, Quiet, Fault, counters
  <1>3. ASSUME NEW ok \in BOOLEAN,
               \/ CheckName(c, ok) \/ Create(c, ok) \/ New(c, ok) \/ AddSlide(c, ok)
               \/ Copy(c, ok) \/ CopyTab(c, ok) \/ Erase(c, ok)
        PROVE  calls' = calls
    BY Zenon, <1>3 DEF CheckName, Create, New, AddSlide, Copy, CopyTab, Erase, Heard, Fault, counters
  <1>4. ASSUME NEW ok \in BOOLEAN,
               \/ Place(c, ok) \/ FillSheet(c, ok) \/ FillSlide(c, ok) \/ Move(c, ok)
               \/ Rename(c, ok) \/ Trash(c, ok) \/ Lock(c, ok) \/ Unlock(c, ok) \/ Share(c, ok)
               \/ Unshare(c, ok) \/ Write(c, ok) \/ Restore(c, ok)
        PROVE  calls' = calls
    BY Zenon, <1>4 DEF Place, FillSheet, FillSlide, Move, Rename, Trash, Lock, Unlock, Share, Unshare,
       Write, Restore, Updates, Heard, Fault, counters
  <1>5. ASSUME NEW ok \in BOOLEAN, NEW done \in BOOLEAN,
               \/ Provider(c, done, ok) \/ ConvertOne(c, done, ok) \/ Split(c, done, ok)
               \/ UploadPart(c, done, ok)
        PROVE  calls' = calls
    <2>1. CASE Provider(c, done, ok)
      BY <2>1 DEF Provider, Heard, Fault, counters
    <2>2. CASE ConvertOne(c, done, ok)
      BY <2>2 DEF ConvertOne, Heard, Fault, counters
    <2>3. CASE Split(c, done, ok)
      BY <2>3 DEF Split, Heard, Fault, counters
    <2>4. CASE UploadPart(c, done, ok)
      BY <2>4 DEF UploadPart, Heard, Fault, counters
    <2> QED
      BY <1>5, <2>1, <2>2, <2>3, <2>4
  <1>6. ASSUME NEW applied \in BOOLEAN, NEW outcome \in {"ok", "retryable", "final"},
               FillDocument(c, applied, outcome)
        PROVE  calls' = calls
    BY <1>6 DEF FillDocument, Fault, counters
  <1> QED
    BY <1>1, <1>2, <1>3, <1>4, <1>5, <1>6 DEF Handle

\* Each step of a session keeps what is known of its call.
LEMMA EveryStepKeeps ==
  ASSUME IInv, NEW c \in Callers, Begin(c) \/ Handle(c)
  PROVE  Keeps(c)
  <1>1. CASE \/ Begin(c) \/ LookUpFolder(c) \/ MakeFolder(c) \/ Read(c) \/ Fetch(c) \/ Confirm(c)
             \/ ListPdfs(c) \/ OpenLocal(c) \/ SaveLocal(c) \/ SaveFails(c) \/ Refused(c)
             \/ RequestFails(c)
    BY <1>1, BeginKeeps, LookUpFolderKeeps, MakeFolderKeeps, ReadKeeps, FetchKeeps,
       ConfirmKeeps, ListPdfsKeeps, OpenLocalKeeps, SaveLocalKeeps, SaveFailsKeeps,
       RefusedKeeps, RequestFailsKeeps
  <1>2. ASSUME NEW ok \in BOOLEAN,
               \/ CheckName(c, ok) \/ Create(c, ok) \/ New(c, ok) \/ AddSlide(c, ok)
               \/ Copy(c, ok) \/ CopyTab(c, ok) \/ Erase(c, ok)
        PROVE  Keeps(c)
    BY <1>2, CheckNameKeeps, CreateKeeps, NewKeeps, AddSlideKeeps, CopyKeeps, CopyTabKeeps,
       EraseKeeps
  <1>3. ASSUME NEW ok \in BOOLEAN,
               \/ Place(c, ok) \/ FillSheet(c, ok) \/ FillSlide(c, ok) \/ Move(c, ok)
               \/ Rename(c, ok) \/ Trash(c, ok) \/ Lock(c, ok) \/ Unlock(c, ok) \/ Share(c, ok)
               \/ Unshare(c, ok) \/ Write(c, ok) \/ Restore(c, ok)
        PROVE  Keeps(c)
    BY <1>3, PlaceKeeps, FillSheetKeeps, FillSlideKeeps, MoveKeeps, RenameKeeps, TrashKeeps,
       LockKeeps, UnlockKeeps, ShareKeeps, UnshareKeeps, WriteKeeps, RestoreKeeps
  <1>4. ASSUME NEW ok \in BOOLEAN, NEW done \in BOOLEAN,
               \/ Provider(c, done, ok) \/ ConvertOne(c, done, ok) \/ Split(c, done, ok)
               \/ UploadPart(c, done, ok)
        PROVE  Keeps(c)
    BY <1>4, ProviderKeeps, ConvertOneKeeps, SplitKeeps, UploadPartKeeps
  <1>5. ASSUME NEW applied \in BOOLEAN, NEW outcome \in {"ok", "retryable", "final"},
               FillDocument(c, applied, outcome)
        PROVE  Keeps(c)
    BY <1>5, FillDocumentKeeps
  <1> QED
    BY <1>1, <1>2, <1>3, <1>4, <1>5 DEF Handle

LEMMA InvHoldsAtFirst ==
  ASSUME Init
  PROVE  IInv
  <1>1. Len(Start) \in 0..MaxItems /\ \A i \in 1..Len(Start) : Start[i] \in Items
    BY ConstantsAssumption
  <1>2. ASSUME NEW i \in Ids, i <= Len(Start)
        PROVE  /\ Start[i] \in Items /\ Start[i] # None /\ items[i] = Start[i]
               /\ revisions[i] = {Start[i].body}
    BY <1>1, <1>2, ConstantsAssumption DEF Init, Ids
  <1>3. ASSUME NEW i \in Ids, ~(i <= Len(Start))
        PROVE  items[i] = None /\ revisions[i] = {}
    BY <1>3 DEF Init
  <1>4. NoGaps
    BY <1>1, <1>2, <1>3 DEF NoGaps
  <1>5. items \in [Ids -> Items \cup {None}]
    BY <1>2, <1>3 DEF Init
  <1>6. revisions \in [Ids -> SUBSET Seq(Nat)]
    <2>1. ASSUME NEW i \in Ids PROVE revisions[i] \in SUBSET Seq(Nat)
      BY <1>2, <1>3 DEF Items
    <2>2. revisions = [i \in Ids |-> revisions[i]]
      BY DEF Init
    <2> QED
      BY <2>1, <2>2
  <1>7. call = [c \in Callers |-> Idle] /\ calls \in Nat
    BY DEF Init
  <1>8. call \in [Callers -> Calls] /\ \A c \in Callers : Sound(call[c])
    BY <1>7, IdleIsSound
  <1> QED
    BY <1>4, <1>5, <1>6, <1>7, <1>8 DEF IInv, DriveTyped

LEMMA InvIsInductive ==
  ASSUME IInv, [Next]_vars
  PROVE  IInv'
  <1>1. CASE UNCHANGED vars
    <2>1. items' = items /\ revisions' = revisions /\ call' = call /\ calls' = calls
      BY <1>1 DEF vars, drive, counters
    <2>2. DriveTyped'
      BY <2>1, DriveStays
    <2>3. \A c \in Callers : Sound(call[c])'
      <3> TAKE c \in Callers
      <3> PICK r : r = call[c]
        OBVIOUS
      <3>1. Sound(r)
        BY DEF IInv
      <3>2. Sound(r)'
        BY <2>1, <3>1, SoundStays
      <3> QED
        BY <2>1, <3>2
    <2> QED
      BY <2>1, <2>2, <2>3 DEF IInv
  <1>2. ASSUME NEW c \in Callers, Begin(c) \/ Handle(c)
        PROVE  IInv'
    <2>1. DriveTyped' /\ Grows /\ Sound(call[c])'
      BY <1>2, EveryStepKeeps DEF Keeps
    <2>2. PICK n : \/ Goes(c, n) /\ items' = items /\ revisions' = revisions
                   \/ Changes(c, n)
      BY <1>2, StepShape
    <2>3. ASSUME NEW d \in Callers PROVE Sound(call[d])' /\ call'[d] \in Calls
      <3>1. CASE d = c
        BY <2>1, <3>1 DEF Sound, Formed
      <3>2. CASE d # c
        BY <2>1, <2>2, <3>2, OthersStaySound
      <3> QED
        BY <3>1, <3>2
    <2>4. call' \in [Callers -> Calls]
      <3>1. call' = [d \in Callers |-> call'[d]]
        BY <2>2 DEF Goes, Changes, IInv
      <3> QED
        BY <2>3, <3>1
    <2>5. calls' \in Nat
      BY <1>2, CallsAreCounted DEF IInv
    <2> QED
      BY <2>1, <2>3, <2>4, <2>5 DEF IInv
  <1> QED
    BY <1>1, <1>2 DEF Next

\* What is known of each call holds throughout: its fields fit the request that it
\* has reached, a call that no other session has disturbed stands where the names
\* that it has resolved lead, and has done what the requests behind it were for.
THEOREM Invariance == Spec => []IInv
  <1>1. Init => IInv
    BY InvHoldsAtFirst
  <1>2. IInv /\ [Next]_vars => IInv'
    BY InvIsInductive
  <1> QED
    BY <1>1, <1>2, PTL DEF Spec


-----------------------------------------------------------------------------
(***************************************************************************)
(* The folders that a path names.                                          *)
(***************************************************************************)

\* The folders of that name in those of a set.
Below(S, name) ==
  {f \in Folders \ {Root} : Live(f) /\ items[f].parent \in S /\ items[f].name = name}

\* The folders along the first m names of a path.
IsWayDown(g, path, m) ==
  g = [n \in 0..m |-> IF n = 0 THEN {Root} ELSE Below(g[n - 1], path[n])]

LEMMA WayDownExists ==
  ASSUME NEW path, NEW m \in Nat
  PROVE  \E g : IsWayDown(g, path, m)
  <1> DEFINE S == {k \in Nat : ~\E g : IsWayDown(g, path, k)}
  <1> SUFFICES ASSUME S # {} PROVE FALSE
    OBVIOUS
  <1>1. PICK k \in S : \A j \in S : k <= j
    BY NatMin
  <1>2. CASE k = 0
    <2>1. IsWayDown([n \in 0..0 |-> {Root}], path, 0)
      BY DEF IsWayDown
    <2> QED
      BY <1>1, <1>2, <2>1
  <1>3. CASE k # 0
    <2>1. k - 1 \in Nat /\ k - 1 \notin S
      BY <1>1, <1>3
    <2>2. PICK g : IsWayDown(g, path, k - 1)
      BY <2>1
    <2> PICK h : h = [n \in 0..k |-> IF n = 0 THEN {Root} ELSE Below(g[n - 1], path[n])]
      OBVIOUS
    <2>3. ASSUME NEW n \in 0..(k - 1) PROVE h[n] = g[n]
      <3>1. n \in 0..k
        BY <2>1
      <3>2. g[n] = IF n = 0 THEN {Root} ELSE Below(g[n - 1], path[n])
        BY <2>2 DEF IsWayDown
      <3>3. h[n] = IF n = 0 THEN {Root} ELSE Below(g[n - 1], path[n])
        BY <3>1
      <3> QED
        BY <3>2, <3>3
    <2>4. ASSUME NEW n \in 0..k, n # 0 PROVE h[n - 1] = g[n - 1]
      <3>1. n - 1 \in 0..(k - 1)
        BY <2>1, <2>4
      <3> QED
        BY <2>3, <3>1
    <2>5. h = [n \in 0..k |-> IF n = 0 THEN {Root} ELSE Below(h[n - 1], path[n])]
      BY <2>4
    <2> QED
      BY ZenonT(30), <1>1, <2>5 DEF IsWayDown
  <1> QED
    BY <1>2, <1>3

LEMMA FoldersAlongAre ==
  ASSUME NEW path \in Seq(Names)
  PROVE  \A n \in 0..Len(path) :
             FoldersAlong(path)[n] =
               IF n = 0 THEN {Root} ELSE Below(FoldersAlong(path)[n - 1], path[n])
  <1>1. Len(path) \in Nat
    OBVIOUS
  <1>2. PICK g : IsWayDown(g, path, Len(path))
    BY <1>1, WayDownExists
  <1>3. FoldersAlong(path) = CHOOSE h : IsWayDown(h, path, Len(path))
    BY DEF FoldersAlong, IsWayDown, Below
  <1>4. IsWayDown(FoldersAlong(path), path, Len(path))
    BY <1>2, <1>3
  <1> PICK h : h = FoldersAlong(path)
    OBVIOUS
  <1>5. h = [n \in 0..Len(path) |-> IF n = 0 THEN {Root} ELSE Below(h[n - 1], path[n])]
    BY <1>4 DEF IsWayDown
  <1> QED
    BY <1>5

\* The folders of a chain are among those along its path.
LEMMA ChainGoesDown ==
  ASSUME NEW chain, NEW path \in Seq(Names), NEW k \in 0..Len(path), NEW f,
         IsChain(chain, path, k, f)
  PROVE  f \in FoldersAlong(path)[k]
  <1> PICK along : along = FoldersAlong(path)
    OBVIOUS
  <1> PICK S : S = {d \in 0..k : chain[d] \notin along[d]}
    OBVIOUS
  <1> SUFFICES ASSUME S # {} PROVE FALSE
    BY DEF IsChain
  <1>0. S \in SUBSET Nat
    OBVIOUS
  <1>1. PICK d \in S : \A j \in S : d <= j
    BY <1>0, NatMin
  <1>2. \A n \in 0..Len(path) :
           along[n] = IF n = 0 THEN {Root} ELSE Below(along[n - 1], path[n])
    BY FoldersAlongAre
  <1>3. CASE d = 0
    BY <1>2, <1>3 DEF IsChain
  <1>4. CASE d # 0
    <2>1. d - 1 \in 0..k /\ d - 1 \notin S /\ d \in 1..k /\ d \in 0..Len(path)
      BY <1>1, <1>4
    <2>2. chain[d - 1] \in along[d - 1]
      BY <2>1
    <2>3. SubFolder(chain[d], path[d], chain[d - 1])
      BY <2>1 DEF IsChain
    <2>4. along[d] = Below(along[d - 1], path[d])
      BY <1>2, <1>4, <2>1
    <2> PICK g : g = chain[d]
      OBVIOUS
    <2>5. /\ g \in Ids /\ Live(g) /\ items[g].kind = "folder" /\ items[g].name = path[d]
          /\ items[g].parent = chain[d - 1] /\ items[g] # None /\ g # Root
      BY <2>3 DEF SubFolder, Live, Ids, Root
    <2>6. g \in Below(along[d - 1], path[d])
      BY <2>2, <2>5 DEF Below, Folders
    <2> QED
      BY <2>4, <2>6
  <1> QED
    BY <1>3, <1>4

\* A call that has resolved its whole path is in a folder that it names.
LEMMA ReachedItsFolder ==
  ASSUME NEW r \in Calls, Reached(r), r.alone, r.path # <<>>, r.rest = <<>>
  PROVE  r.at \in FoldersAt(r.path)
  <1> PICK path \in Seq(Names) : path = r.path
    BY DEF Calls
  <1>1. PICK k \in 0..Len(path) : r.rest = SubSeq(path, k + 1, Len(path)) /\ Leads(path, k, r.at)
    BY DEF Reached
  <1>2. k = Len(path)
    <2> SUFFICES ASSUME k # Len(path) PROVE FALSE
      OBVIOUS
    <2>1. Len(SubSeq(path, k + 1, Len(path))) = Len(path) - k
      BY <1>1
    <2> QED
      BY <1>1, <2>1
  <1>3. PICK chain : IsChain(chain, path, k, r.at)
    BY <1>1 DEF Leads, IsChain
  <1>4. r.at \in FoldersAlong(path)[k]
    BY <1>1, <1>3, ChainGoesDown
  <1> QED
    BY <1>2, <1>4 DEF FoldersAt

-----------------------------------------------------------------------------
(***************************************************************************)
(* The properties.                                                         *)
(***************************************************************************)

LEMMA InvImpliesAnswered ==
  ASSUME IInv
  PROVE  AnsweredIsDone
  <1> SUFFICES ASSUME NEW c \in Callers, call[c].tool # None, call[c].pc = 0
               PROVE  /\ Promise(call[c])
                      /\ call[c].path # <<>> => call[c].at \in FoldersAt(call[c].path)
    BY DEF AnsweredIsDone
  <1> PICK r : r = call[c]
    OBVIOUS
  <1>1. r \in Calls /\ Formed(r) /\ Reached(r) /\ Fulfilled(r)
    BY DEF IInv, Sound
  <1>2. r.alone /\ Promise(r)
    BY <1>1 DEF Fulfilled
  <1>3. r.rest = <<>>
    BY <1>1 DEF Formed
  <1>4. r.path # <<>> => r.at \in FoldersAt(r.path)
    BY <1>1, <1>2, <1>3, ReachedItsFolder
  <1> QED
    BY <1>2, <1>4

\* A call that was answered without an error, and that no other session disturbed,
\* has done what it is for; and it stands in a folder that its path names.
THEOREM AnsweredAlwaysDone == Spec => []AnsweredIsDone
  <1>1. IInv => AnsweredIsDone
    BY InvImpliesAnswered
  <1> QED
    BY <1>1, Invariance, PTL

\* No step but of a download that found no file there when it began opens, cuts
\* short or unlinks a whole local file.
THEOREM WholeAlwaysStaysWhole == Spec => WholeStaysWhole
  <1>1. IInv /\ [Next]_vars =>
          [local.state = "whole" /\ local'.state # "whole" =>
             \E c \in Callers : call[c] # call'[c] /\ call[c].tool = "downloadFile" /\ call[c].absent]_vars
    BY WholeStep DEF Next
  <1> QED
    BY <1>1, Invariance, PTL DEF Spec, WholeStaysWhole

\* Whoever uploads the parts of a PDF leaves no directory of them when it goes on to
\* anything else.
THEOREM ChunksAlwaysRemoved == Spec => ChunksAreRemoved
  <1>1. IInv /\ [Next]_vars =>
          [\A c \in Callers :
             Before(c, "parts") /\ ~Before(c, "parts")' => call[c].n \notin chunks']_vars
    BY PartsStep DEF Next
  <1> QED
    BY <1>1, Invariance, PTL DEF Spec, ChunksAreRemoved
=============================================================================
