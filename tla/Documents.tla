----------------------------- MODULE Documents ------------------------------
(***************************************************************************)
(* Edits of a Google document (src/src/tools/docs.ts): what each tool asks *)
(* Google to change, computed from what it has read, and what Google does  *)
(* with it.  Operators only; Editors calls them.                           *)
(*                                                                         *)
(* The body of a tab is a sequence of tokens, and the index of a token is  *)
(* its place in the sequence.  A paragraph ends with "nl", which carries   *)
(* its attributes.  A table is "table", for each row "row", for each cell  *)
(* "cell" and a paragraph, and "end"; a table is never inside another.     *)
(***************************************************************************)
EXTENDS EditRequests

CONSTANTS
    Main, Other, New,   \* the first tab, a second one, and one to be added
    Spots, Tables,      \* indexes that calls name, and those of tables
    Needles,            \* texts that they look for
    Word                \* and the text that they put in

Structure == {"table", "row", "cell", "end"}

IsPlace(b, i) == i \in 1..Len(b) /\ b[i].is \notin Structure

IsRange(b, from, to) == from \in 1..(to - 1) /\ to <= Len(b) + 1

Tab(title, body) == [title |-> title, body |-> body]

IsDocument(doc) ==
    /\ doc = [tabs |-> doc.tabs, comments |-> doc.comments, notes |-> doc.notes]
    /\ doc.tabs = [t \in DOMAIN doc.tabs |-> Tab(doc.tabs[t].title, doc.tabs[t].body)]

Newline == Token("nl", {})

-----------------------------------------------------------------------------
(***************************************************************************)
(* What Google does with a request: the document after it, or Refused.     *)
(***************************************************************************)

ParaEnd(b, i) == MinOf({j \in i..Len(b) : b[j].is = "nl"})

ParaStart(b, i) == MaxOf({j \in 1..i : j = 1 \/ b[j - 1].is \in Structure \cup {"nl"}})

EndsIn(b, from, to) == {ParaEnd(b, i) : i \in {j \in from..(to - 1) : IsPlace(b, j)}}

\* Tables that overlap the range lie in it.
WholeTables(b, from, to) ==
    \A i \in from..(to - 1) : b[i].is \in Structure =>
        \E t \in from..i : /\ b[t].is = "table"
                           /\ MinOf({j \in t..Len(b) : b[j].is = "end"}) \in i..(to - 1)

Put(b, i, tokens) ==
    IF IsPlace(b, i) /\ tokens # <<>> THEN SubSeq(b, 1, i - 1) \o tokens \o SubSeq(b, i, Len(b))
    ELSE Refused

\* Text takes the style of the character before it.
PutText(b, i, text) ==
    LET style == IF i \in 2..Len(b) /\ b[i - 1].is \in Letters THEN b[i - 1].style ELSE {} IN
      Put(b, i, [k \in DOMAIN text |-> Token(text[k], style)])

Cut(b, from, to) ==
    IF from \in 1..(to - 1) /\ IsPlace(b, to) /\ WholeTables(b, from, to)
    THEN SubSeq(b, 1, from - 1) \o SubSeq(b, to, Len(b))
    ELSE Refused

EmptyTable(rows, columns) ==
    LET row == <<Token("row", {})>>
                 \o [i \in 1..(2 * columns) |-> IF i % 2 = 1 THEN Token("cell", {}) ELSE Newline]
        many[n \in 0..rows] == IF n = 0 THEN <<>> ELSE many[n - 1] \o row
    IN  <<Newline, Token("table", {})>> \o many[rows] \o <<Token("end", {})>>

\* One change of the body of a tab.
Changed(b, q) ==
    CASE q.op = "insertText" -> PutText(b, q.from, q.text)
      [] q.op = "insertTable" -> Put(b, q.from, EmptyTable(q.rows, q.columns))
      [] q.op = "insertInline" -> Put(b, q.from, <<Token(q.text, {})>>)
      [] q.op = "deleteContentRange" -> Cut(b, q.from, q.to)
      [] q.op \in {"updateTextStyle", "updateParagraphs"} ->
            IF ~IsRange(b, q.from, q.to) THEN Refused
            ELSE Mark(b, IF q.op = "updateTextStyle" THEN LettersIn(b, q.from..(q.to - 1)) ELSE EndsIn(b, q.from, q.to),
                      q.attr, q.on)

\* One request about a tab that is there.  A footnote exists while its mark does.
CarryInTab(doc, q) ==
    LET b == doc.tabs[q.tab].body IN
      CASE q.op = "updateDocumentTabProperties" -> [doc EXCEPT !.tabs[q.tab].title = q.text]
        [] q.op = "createFootnote" ->
              LET c == Put(b, IF q.from = None THEN Len(b) ELSE q.from, <<Token("note", {Len(doc.notes) + 1})>>) IN
                IF c = Refused THEN Refused ELSE [doc EXCEPT !.tabs[q.tab].body = c, !.notes = Append(@, <<>>)]
        [] q.op = "insertNote" ->
              IF Token("note", {q.id}) \in {b[i] : i \in DOMAIN b} THEN [doc EXCEPT !.notes[q.id] = q.text \o @] ELSE Refused
        [] OTHER -> LET c == Changed(b, q) IN IF c = Refused THEN Refused ELSE [doc EXCEPT !.tabs[q.tab].body = c]

\* One request.
Carry(doc, q) ==
    CASE q.op = "addDocumentTab" ->
            IF New \in DOMAIN doc.tabs THEN Refused
            ELSE [doc EXCEPT !.tabs = [t \in DOMAIN @ \cup {New} |-> IF t = New THEN Tab(q.text, <<Newline>>) ELSE @[t]]]
      [] q.op = "createComment" -> [doc EXCEPT !.comments = Append(@, q.comment)]
      [] q.op \in {"createReply", "deleteComment"} ->
            IF q.id \notin DOMAIN doc.comments \/ doc.comments[q.id] = None THEN Refused
            ELSE IF q.op = "deleteComment" THEN [doc EXCEPT !.comments[q.id] = None]
            ELSE [doc EXCEPT !.comments[q.id].replies = Append(@, q.text), !.comments[q.id].resolved = @ \/ q.on]
      [] q.op = "replaceAllText" ->
            [doc EXCEPT !.tabs = [t \in DOMAIN doc.tabs |->
                IF t \in q.tabs THEN [doc.tabs[t] EXCEPT !.body = ReplaceAll(@, q.find, q.text)] ELSE doc.tabs[t]]]
      [] OTHER -> IF q.tab \notin DOMAIN doc.tabs THEN Refused ELSE CarryInTab(doc, q)

\* A list of requests, all or none.
Batch(doc, requests) ==
    LET after[n \in 0..Len(requests)] ==
            IF n = 0 THEN doc
            ELSE IF after[n - 1] = Refused THEN Refused ELSE Carry(after[n - 1], requests[n])
    IN  after[Len(requests)]

-----------------------------------------------------------------------------
(***************************************************************************)
(* The handlers.  The fields of a call are the tool's parameters; None     *)
(* stands for one that is left out.                                        *)
(***************************************************************************)

Call(tool) ==
    [tool |-> tool, tab |-> None, from |-> None, to |-> None, find |-> <<>>, instance |-> 1,
     text |-> None, attr |-> None, on |-> TRUE, id |-> 0, row |-> 0, column |-> 0,
     align |-> None, public |-> FALSE, folder |-> FALSE,
     images |-> 0, requests |-> <<>>]

TabOf(a) == IF a.tab = None THEN Main ELSE a.tab

\* Mutant: the request leaves the tab out, and so means the first.
RequestWithoutTab(a, op) ==
    [op |-> op, tab |-> Main, from |-> a.from, to |-> a.to, text |-> a.text,
     attr |-> a.attr, on |-> a.on]

Request(a, op) ==
    [op |-> op, tab |-> TabOf(a), from |-> a.from, to |-> a.to, text |-> a.text,
     attr |-> a.attr, on |-> a.on]

Over(request, from, to) == [request EXCEPT !.from = from, !.to = to]

NoRange == [from |-> None, to |-> None]

\* The text of a body, and where each character of it stands.  A search goes on
\* behind the first character of the occurrence before.
findTextRange(b, find, instance) ==
    LET text == SelectSeq([i \in DOMAIN b |-> i], LAMBDA i : b[i].is \in Letters \cup {"nl"})
        starts == {k \in 1..(Len(text) - Len(find) + 1) : \A i \in DOMAIN find : b[text[k + i - 1]].is = find[i]}
        next(k) == {j \in starts : j > k}
        found[n \in 0..instance] ==
            IF n = 0 THEN 0
            ELSE IF found[n - 1] = None \/ next(found[n - 1]) = {} THEN None
            ELSE MinOf(next(found[n - 1]))
        k == found[instance]
    IN  IF k = None THEN NoRange
        ELSE [from |-> text[k], to |-> text[k + Len(find) - 1] + 1]

getParagraphRange(b, i) ==
    IF IsPlace(b, i) THEN [from |-> ParaStart(b, i), to |-> ParaEnd(b, i) + 1] ELSE NoRange

\* What the handler sees of its tab.
getTabBodyContent(doc, a) == IF TabOf(a) \in DOMAIN doc.tabs THEN doc.tabs[TabOf(a)].body ELSE <<>>

FindText(doc, a) == findTextRange(getTabBodyContent(doc, a), a.find, a.instance)

\* One request over a range that is given, or found by its text.
OverText(a, saw, request) ==
    LET given == a.find = <<>>
        r == IF given THEN [from |-> a.from, to |-> a.to] ELSE FindText(saw[1], a)
    IN  IF ~given /\ saw = <<>> THEN Read
        ELSE IF r = NoRange \/ request = None THEN Decline
        ELSE Last(saw, IF given THEN 0 ELSE 1, <<Over(request, r.from, r.to)>>)

\* None without any style.
buildUpdateTextStyleRequest(a) == IF a.attr = None THEN None ELSE Request(a, "updateTextStyle")

buildUpdateParagraphStyleRequest(a) == IF a.attr = None THEN None ELSE Request(a, "updateParagraphs")

applyTextStyle(a, saw) == OverText(a, saw, buildUpdateTextStyleRequest(a))

createParagraphBullets(a, saw) == OverText(a, saw, Request(a, "updateParagraphs"))

\* The paragraph of a text, or of an index.  Outside tabs the document is read
\* once for the text and once for the paragraph.
applyParagraphStyle(a, saw) ==
    LET reads == IF a.find # <<>> /\ a.tab = None THEN 2 ELSE 1
        at == IF a.find = <<>> THEN a.from ELSE FindText(saw[1], a).from
        r == getParagraphRange(getTabBodyContent(saw[reads], a), at)
        request == buildUpdateParagraphStyleRequest(a)
    IN  CASE a.to # None -> IF request = None THEN Decline ELSE Last(saw, 0, <<request>>)
          [] a.to = None /\ saw = <<>> -> Read
          [] a.to = None /\ saw # <<>> /\ at = None -> Decline
          [] a.to = None /\ saw # <<>> /\ at # None /\ Len(saw) < reads -> Read
          [] OTHER -> IF r = NoRange \/ request = None THEN Decline
                      ELSE Last(saw, reads, <<Over(request, r.from, r.to)>>)

\* Everything but the last newline goes, and the new text comes: in one list of
\* requests in a tab, in two without.
updateGoogleDoc(a, saw) ==
    LET b == getTabBodyContent(saw[1], a)
        cut == IF Len(b) > 1 THEN <<Over(Request(a, "deleteContentRange"), 1, Len(b))>> ELSE <<>>
        fill == << [Request(a, "insertText") EXCEPT !.from = 1],
                   [Over(Request(a, "updateParagraphs"), 1, Len(a.text) + 1) EXCEPT !.attr = "heading", !.on = FALSE] >>
    IN  IF saw = <<>> THEN Read
        ELSE IF b = <<>> THEN Decline
        ELSE IF a.tab # None \/ cut = <<>> THEN Last(saw, 1, cut \o fill)
        ELSE IF Len(saw) = 1 THEN Send(cut)
        ELSE Last(saw, 2, fill)

insertText(a, saw) == IF saw = <<>> THEN Read ELSE Last(saw, 1, <<Request(a, "insertText")>>)

deleteRange(a, saw) ==
    IF a.to <= a.from THEN Decline
    ELSE IF saw = <<>> THEN Read
    ELSE Last(saw, 1, <<Request(a, "deleteContentRange")>>)

\* A dry run counts and changes nothing.
findAndReplaceInDoc(a, saw) ==
    IF ~a.on THEN IF saw = <<>> THEN Read ELSE Finish
    ELSE Last(saw, 0, <<[op |-> "replaceAllText", find |-> a.find, text |-> a.text,
                         tabs |-> IF a.tab = None THEN {Main, Other, New} ELSE {a.tab}]>>)

insertTable(a, saw) ==
    Last(saw, 0, <<[op |-> "insertTable", tab |-> TabOf(a), from |-> a.from, rows |-> a.row, columns |-> a.column]>>)

Comment(from, length, quote) ==
    [from |-> from, length |-> length, quote |-> quote, replies |-> <<>>, resolved |-> FALSE]

\* The comment's anchor counts from zero; its quote is what of the range stands
\* outside tables.
addComment(a, saw) ==
    LET b == saw[1].tabs[Main].body
        tables(i) == Cardinality({j \in 1..(i - 1) : b[j].is = "table"}) - Cardinality({j \in 1..(i - 1) : b[j].is = "end"})
        quote == SelectSeq([i \in 1..Len(b) |-> i],
                     LAMBDA i : i \in a.from..(a.to - 1) /\ b[i].is \in Letters \cup {"nl"} /\ tables(i) = 0)
    IN  IF a.to <= a.from THEN Decline
        ELSE IF saw = <<>> THEN Read
        ELSE Last(saw, 1, <<[op |-> "createComment",
                comment |-> Comment(a.from - 1, a.to - a.from, [k \in DOMAIN quote |-> b[quote[k]].is])]>>)

replyToComment(a, saw) == Last(saw, 0, <<[op |-> "createReply", id |-> a.id, text |-> a.text, on |-> a.on]>>)

deleteComment(a, saw) == Last(saw, 0, <<[op |-> "deleteComment", id |-> a.id]>>)

\* The cell of a table, with the indexes of its mark and behind it.
TableCell(b, t, row, column) ==
    LET end == MinOf({i \in t..Len(b) : b[i].is = "end"})
        rows == {i \in t..end : b[i].is = "row"}
        rowAt == {i \in rows : Cardinality({j \in rows : j < i}) = row}
        rowEnd == MinOf({i \in (MinOf(rowAt) + 1)..end : b[i].is \in {"row", "end"}})
        cells == {i \in MinOf(rowAt)..rowEnd : b[i].is = "cell"}
        cellAt == {i \in cells : Cardinality({j \in cells : j < i}) = column}
    IN  IF rowAt = {} \/ cellAt = {} THEN NoRange
        ELSE [from |-> MinOf(cellAt),
              to |-> MinOf({i \in (MinOf(cellAt) + 1)..end : b[i].is \in Structure})]

\* All indexes are those of the document that was read, also the ones behind the
\* text that goes and the text that comes.
editTableCell(a, saw) ==
    LET b == getTabBodyContent(saw[1], a)
        cell == TableCell(b, a.from, a.row, a.column)
        first == cell.from + 1
        last == cell.to - 1
        cut == IF a.text # None /\ last > first THEN <<Over(Request(a, "deleteContentRange"), first, last)>> ELSE <<>>
        fill == IF a.text # None /\ a.text # <<>> THEN <<[Request(a, "insertText") EXCEPT !.from = first]>> ELSE <<>>
        style == IF a.attr = None THEN <<>>
                 ELSE <<Over(Request(a, "updateTextStyle"), first, IF a.text # None THEN first + Len(a.text) ELSE last)>>
        align == IF a.align = None THEN <<>>
                 ELSE <<[Over(Request(a, "updateParagraphs"), first, last) EXCEPT !.attr = a.align]>>
        requests == cut \o fill \o style \o align
    IN  CASE saw = <<>> -> Read
          [] saw # <<>> /\ (a.from \notin DOMAIN b \/ b[a.from].is # "table") -> Decline
          [] OTHER -> IF cell = NoRange \/ requests = <<>> THEN Decline ELSE Last(saw, 1, requests)

InsertInline(a, what) == <<[op |-> "insertInline", tab |-> TabOf(a), from |-> a.from, text |-> what]>>

insertImageFromUrl(a, saw) == Last(saw, 0, InsertInline(a, "image"))

\* The image goes to the document's folder, or to the user's root, and stays.
insertLocalImage(a, saw) ==
    LET first == (IF a.folder THEN <<"read">> ELSE <<>>) \o UploadImage(a.public) IN
      IF Len(saw) < Len(first) THEN Ask(first[Len(saw) + 1])
      ELSE Last(saw, Len(first), InsertInline(a, "image"))

insertSmartChip(a, saw) == Last(saw, 0, InsertInline(a, "person"))

addDocumentTab(a, saw) == Last(saw, 0, <<Request(a, "addDocumentTab")>>)

renameDocumentTab(a, saw) == Last(saw, 0, <<Request(a, "updateDocumentTabProperties")>>)

\* The mark, and then the text of the footnote that Google has named.
createFootnote(a, saw) ==
    IF saw = <<>> THEN Send(<<Request(a, "createFootnote")>>)
    ELSE IF a.text = None THEN Finish
    ELSE Last(saw, 1, <<[op |-> "insertNote", tab |-> TabOf(a), id |-> Len(saw[1].notes), text |-> a.text]>>)

\* openai-drive-parity-base.ts: comments, then replies, each a request.
bulk_update_file_comments(a, saw) ==
    IF Len(saw) < Len(a.requests) THEN Send(<<a.requests[Len(saw) + 1]>>)
    ELSE IF saw = <<>> THEN Decline ELSE Finish

Handler(a, saw) ==
    CASE a.tool = "insertText" -> insertText(a, saw)
      [] a.tool = "deleteRange" -> deleteRange(a, saw)
      [] a.tool = "updateGoogleDoc" -> updateGoogleDoc(a, saw)
      [] a.tool = "applyTextStyle" -> applyTextStyle(a, saw)
      [] a.tool = "applyParagraphStyle" -> applyParagraphStyle(a, saw)
      [] a.tool = "createParagraphBullets" -> createParagraphBullets(a, saw)
      [] a.tool = "findAndReplaceInDoc" -> findAndReplaceInDoc(a, saw)
      [] a.tool = "insertTable" -> insertTable(a, saw)
      [] a.tool = "editTableCell" -> editTableCell(a, saw)
      [] a.tool = "addComment" -> addComment(a, saw)
      [] a.tool = "replyToComment" -> replyToComment(a, saw)
      [] a.tool = "deleteComment" -> deleteComment(a, saw)
      [] a.tool = "insertImageFromUrl" -> insertImageFromUrl(a, saw)
      [] a.tool = "insertLocalImage" -> insertLocalImage(a, saw)
      [] a.tool = "insertSmartChip" -> insertSmartChip(a, saw)
      [] a.tool = "addDocumentTab" -> addDocumentTab(a, saw)
      [] a.tool = "renameDocumentTab" -> renameDocumentTab(a, saw)
      [] a.tool = "createFootnote" -> createFootnote(a, saw)
      [] a.tool = "bulk_update_file_comments" -> bulk_update_file_comments(a, saw)
      [] a.tool = "batch_update_document" -> BatchUpdate(a, saw, FALSE)

\* insertText and deleteRange first ask for the type of the file, and take it for a
\* document when that fails.
Catches(a, saw) ==
    (a.tool \in {"insertText", "deleteRange"} /\ saw = <<>>) \/ a.tool = "batch_update_document"

-----------------------------------------------------------------------------
(***************************************************************************)
(* The calls of an instance: every tool, at the indexes Spots and for the  *)
(* texts Needles, with indexes that are wrong among them.                  *)
(***************************************************************************)

InTab(C) == C \cup {[c EXCEPT !.tab = Other] : c \in C}

At1(tool, S) == {[Call(tool) EXCEPT !.from = i] : i \in S}

AtRange(tool) == {[Call(tool) EXCEPT !.from = r[1], !.to = r[2]] : r \in {p \in Spots \X Spots : p[1] <= p[2]}}

AtText(tool) == {[Call(tool) EXCEPT !.find = f, !.instance = n] : f \in Needles, n \in 1..2}

Styled(C, attr) == {[c EXCEPT !.attr = attr] : c \in C}

CellEdits ==
    {[Call("editTableCell") EXCEPT !.from = t, !.column = k, !.text = word, !.attr = s[1], !.align = s[2]] :
        t \in Tables, k \in 0..1, word \in {None, <<>>, <<Word>>}, s \in {<<None, None>>, <<"bold", "center">>}}
      \cup {[Call("editTableCell") EXCEPT !.from = t, !.column = 2, !.text = <<Word>>] : t \in Tables \cup {1}}

Calls ==
    LET text(C) == {[c EXCEPT !.text = <<Word>>] : c \in C}
        off(C) == {[c EXCEPT !.on = FALSE] : c \in C}
        replies(n) == <<[op |-> "createComment", comment |-> Comment(1, 1, <<>>)],
                        [op |-> "createReply", id |-> n, text |-> Word, on |-> TRUE]>>
    IN  InTab(text(At1("insertText", Spots)))
          \cup {[c EXCEPT !.tab = New] : c \in text(At1("insertText", {1}) \cup {Call("renameDocumentTab")})}
          \cup AtRange("deleteRange")
          \cup InTab({[Call("updateGoogleDoc") EXCEPT !.text = word] : word \in {<<>>, <<Word>>}})
          \cup Styled(InTab(AtText("applyTextStyle")) \cup AtRange("applyTextStyle"), "bold")
          \cup Styled(InTab(AtText("applyParagraphStyle")) \cup off(InTab(At1("applyParagraphStyle", Spots))), "heading")
          \cup {c \in AtText("applyTextStyle") \cup AtText("applyParagraphStyle") : Len(c.find) > 1}
          \cup Styled(AtText("createParagraphBullets"), "bullets")
          \cup {[c EXCEPT !.find = f] : c \in InTab(text({Call("findAndReplaceInDoc")})) \cup off({Call("findAndReplaceInDoc")}), f \in Needles}
          \cup {[Call("insertTable") EXCEPT !.from = 1, !.row = r, !.column = c] : r \in {1, 2}, c \in {1, 2}}
          \cup CellEdits
          \cup AtRange("addComment")
          \cup {[Call("replyToComment") EXCEPT !.id = n, !.text = Word, !.on = on] : n \in {1, 2}, on \in BOOLEAN}
          \cup {[Call("deleteComment") EXCEPT !.id = n] : n \in {1, 2}}
          \cup At1("insertImageFromUrl", Spots) \cup At1("insertSmartChip", {1})
          \cup {[c EXCEPT !.public = p, !.folder = f] : c \in At1("insertLocalImage", {1}), p \in BOOLEAN, f \in BOOLEAN}
          \cup InTab(text({Call("renameDocumentTab")})) \cup text({Call("addDocumentTab")})
          \cup InTab(text(At1("createFootnote", {None, 1}))) \cup At1("createFootnote", {None})
          \cup {[Call("bulk_update_file_comments") EXCEPT !.requests = replies(n)] : n \in {1, 2}}
          \cup {[Call("batch_update_document") EXCEPT !.images = n, !.requests = InsertInline([Call(None) EXCEPT !.from = i], "image")] :
                   n \in 0..2, i \in Tables \cup {1}}

-----------------------------------------------------------------------------
(***************************************************************************)
(* What the tools promise, said of the document before and after a call    *)
(* that nothing disturbed, and without indexes into what is read.          *)
(***************************************************************************)

IsText(t) == t.is \in Letters \cup {"nl"}

\* The places of the n-th occurrence of a text, from its first character.
Occurrence(b, find, n) ==
    LET rest(i) == SelectSeq(SubSeq(b, i, Len(b)), IsText)
        starts == {i \in DOMAIN b : IsText(b[i]) /\ At(rest(i), 1, find)}
        first == CHOOSE i \in starts : Cardinality({j \in starts : j < i}) = n - 1
    IN  {i \in first..Len(b) : IsText(b[i]) /\ Cardinality({j \in first..(i - 1) : IsText(b[j])}) < Len(find)}

Places(b, a) == IF a.find # <<>> THEN Occurrence(b, a.find, a.instance)
                ELSE IF a.to # None THEN a.from..(a.to - 1) ELSE {a.from}

\* The ends of the paragraphs that some places are in.
Ends(b, S) == {i \in DOMAIN b : b[i].is = "nl" /\ \E j \in S : j <= i /\ \A k \in j..(i - 1) : IsPlace(b, k) /\ b[k].is # "nl"}

\* One token has come.
Came(b, c, i, is) ==
    c[i].is = is /\ SubSeq(c, 1, i - 1) \o SubSeq(c, i + 1, Len(c)) = b

\* The text of a cell, and the tokens before and behind it.
Cell(b, t, row, column) ==
    LET rowsTo(i) == Cardinality({j \in t..i : b[j].is = "row"})
        cellsTo(i) == {j \in t..i : b[j].is = "cell" /\ rowsTo(j) = rowsTo(i)}
        mark == CHOOSE i \in t..Len(b) : b[i].is = "cell" /\ rowsTo(i) = row + 1 /\ Cardinality(cellsTo(i)) = column + 1
        end == ParaEnd(b, mark)
    IN  [before |-> SubSeq(b, 1, mark), text |-> SubSeq(b, mark + 1, end - 1), end |-> b[end], after |-> SubSeq(b, end + 1, Len(b))]

CellIsEdited(b, c, a) ==
    LET x == Cell(b, a.from, a.row, a.column)
        y == Cell(c, a.from, a.row, a.column)
    IN  /\ x.before = y.before /\ x.after = y.after
        /\ Spelled(y.text) = IF a.text = None THEN Spelled(x.text) ELSE a.text
        /\ a.attr # None => \A i \in DOMAIN y.text : y.text[i].is \in Letters => a.attr \in y.text[i].style
        /\ y.end.style = IF a.align = None THEN x.end.style ELSE x.end.style \cup {a.align}

Replaced(b, c, find, text) ==
    IF Len(find) = 1 THEN Spelled(c) = [i \in DOMAIN b |-> IF b[i].is = find[1] THEN text[1] ELSE b[i].is]
    ELSE ~\E i \in DOMAIN c : At(c, i, find)

Done(a, was, is) ==
    LET b == was.tabs[TabOf(a)].body
        c == is.tabs[TabOf(a)].body
    IN  CASE a.tool = "insertText" -> Spelled(c) = SubSeq(Spelled(b), 1, a.from - 1) \o a.text \o SubSeq(Spelled(b), a.from, Len(b))
          [] a.tool = "deleteRange" -> /\ Len(c) = Len(b) - (a.to - a.from)
                                       /\ \A i \in DOMAIN c : c[i] = IF i < a.from THEN b[i] ELSE b[i + a.to - a.from]
          [] a.tool = "updateGoogleDoc" -> Spelled(c) = Append(a.text, "nl") /\ "heading" \notin c[Len(c)].style
          [] a.tool = "applyTextStyle" -> c = Mark(b, LettersIn(b, Places(b, a)), a.attr, a.on)
          [] a.tool \in {"applyParagraphStyle", "createParagraphBullets"} ->
                c = Mark(b, Ends(b, IF a.tool = "createParagraphBullets" THEN Places(b, a) ELSE {MinOf(Places(b, a))}), a.attr, a.on)
          [] a.tool = "findAndReplaceInDoc" ->
                \A t \in DOMAIN was.tabs :
                    IF a.on /\ a.tab \in {None, t} THEN Replaced(was.tabs[t].body, is.tabs[t].body, a.find, a.text)
                    ELSE a.tab = None => is.tabs[t].body = was.tabs[t].body
          [] a.tool = "insertTable" ->
                LET end == MinOf({i \in DOMAIN c : c[i].is = "end"})
                    t == SubSeq(c, a.from + 1, end)
                IN  /\ SubSeq(c, 1, a.from - 1) \o SubSeq(c, end + 1, Len(c)) = b
                    /\ t[1].is = "table"
                    /\ \A i \in 0..(a.row - 1), j \in 0..(a.column - 1) : Cell(t, 1, i, j).text = <<>>
                    /\ Cardinality({i \in DOMAIN t : t[i].is = "cell"}) = a.row * a.column
          [] a.tool = "editTableCell" ->
                a.text = None \/ a.align = None \/ Len(a.text) >= Len(Cell(b, a.from, a.row, a.column).text) => CellIsEdited(b, c, a)
          [] a.tool = "addComment" ->
                (\A i \in 1..(a.to - 1) : IsPlace(b, i)) =>
                    is.comments[Len(is.comments)].quote = Spelled(SelectSeq(SubSeq(b, a.from, a.to - 1), IsText))
          [] a.tool = "replyToComment" -> is.comments[a.id].replies = Append(was.comments[a.id].replies, a.text) /\ (a.on => is.comments[a.id].resolved)
          [] a.tool = "deleteComment" -> is.comments[a.id] = None
          [] a.tool = "bulk_update_file_comments" -> Len(is.comments) = Len(was.comments) + 1
          [] a.tool = "batch_update_document" -> Came(b, c, a.requests[1].from, "image")
          [] a.tool \in {"insertImageFromUrl", "insertLocalImage"} -> Came(b, c, a.from, "image")
          [] a.tool = "insertSmartChip" -> Came(b, c, a.from, "person")
          [] a.tool \in {"addDocumentTab", "renameDocumentTab"} ->
                is.tabs[IF a.tool = "addDocumentTab" THEN New ELSE TabOf(a)].title = a.text
          [] a.tool = "createFootnote" ->
                LET n == Len(was.notes) + 1
                    i == IF a.from = None THEN Len(b) ELSE a.from
                IN  Came(b, c, i, "note") /\ c[i].style = {n} /\ is.notes[n] = IF a.text = None THEN <<>> ELSE a.text

\* What a call reads and changes, and the document without it.
OnComments == {"addComment", "replyToComment", "deleteComment", "bulk_update_file_comments"}

Part(a, doc) ==
    LET tab == IF TabOf(a) \in DOMAIN doc.tabs THEN doc.tabs[TabOf(a)] ELSE None IN
      CASE a.tool \in OnComments -> <<doc.comments, tab.body>>
        [] a.tool = "addDocumentTab" -> DOMAIN doc.tabs
        [] a.tool = "renameDocumentTab" -> tab
        [] a.tool = "findAndReplaceInDoc" -> doc.tabs
        [] a.tool = "createFootnote" -> <<tab, doc.notes>>
        [] OTHER -> IF tab = None THEN None ELSE tab.body

Rest(a, ref, doc) ==
    IF a.tool \in OnComments THEN [doc EXCEPT !.comments = <<>>]
    ELSE IF a.tool = "addDocumentTab" THEN [doc EXCEPT !.tabs = [t \in DOMAIN @ \ {New} |-> @[t]]]
    ELSE IF a.tool = "findAndReplaceInDoc" /\ a.tab = None THEN [doc EXCEPT !.tabs = [t \in DOMAIN @ |-> @[t].title]]
    ELSE IF TabOf(a) \notin DOMAIN doc.tabs THEN doc
    ELSE IF a.tool = "renameDocumentTab" THEN [doc EXCEPT !.tabs[TabOf(a)].title = None]
    ELSE [doc EXCEPT !.tabs[TabOf(a)].body = <<>>, !.notes = <<>>]

=============================================================================
