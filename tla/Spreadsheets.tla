---------------------------- MODULE Spreadsheets ----------------------------
(***************************************************************************)
(* Edits of a Google spreadsheet (src/src/tools/sheets.ts, A1 notation in  *)
(* src/src/utils.ts): what each tool asks Google to change, computed from  *)
(* what it has read, and what Google does with it.  Operators only;        *)
(* Editors calls them.                                                     *)
(*                                                                         *)
(* What a cell has is a set of marks: formats, borders, rules, values.  So *)
(* it is for a row or a column as a whole.  Indexes are counted from zero. *)
(***************************************************************************)
EXTENDS EditRequests

CONSTANTS
    Base,           \* letters in the alphabet that names columns: 26 in the code
    Columns,        \* columns of every sheet
    Sheet1, Titles  \* the title taken when a range names none, and the others

Sheet(id, title) == [id |-> id, title |-> title, rows |-> 3, marks |-> {}, dims |-> {}]

IsSheet(s) == s = [id |-> s.id, title |-> s.title, rows |-> s.rows, marks |-> s.marks, dims |-> s.dims]

IsSpreadsheet(file) ==
    /\ file = [sheets |-> file.sheets, names |-> file.names, next |-> file.next]
    /\ file.sheets \in Seq({file.sheets[i] : i \in DOMAIN file.sheets})
    /\ \A i \in DOMAIN file.sheets : IsSheet(file.sheets[i])

Cells(sheet) == (0..(sheet.rows - 1)) \X (0..(Columns - 1))

WithId(file, id) == {i \in DOMAIN file.sheets : file.sheets[i].id = id}
Titled(file, title) == {i \in DOMAIN file.sheets : file.sheets[i].title = title}

\* The sheet of a range: Google takes the first one when none is named.
SheetOf(file, range) == IF range.sheet = None THEN {1} \cap DOMAIN file.sheets ELSE Titled(file, range.sheet)

\* A range in A1 notation: a column is a sequence of letters, a row a number from
\* one; a corner may lack either, and a range its second corner.
Corner(column, row) == [column |-> column, row |-> row]
Range(sheet, from, to) == [sheet |-> sheet, from |-> from, to |-> to]

-----------------------------------------------------------------------------
(***************************************************************************)
(* A1 notation as Google defines it, for values and for what the tools     *)
(* promise.                                                                *)
(***************************************************************************)

ColumnNames == UNION {[1..n -> 1..Base] : n \in 1..3}

\* Shorter names come first, then the order of the alphabet.
Before(x, y) ==
    \/ Len(x) < Len(y)
    \/ Len(x) = Len(y) /\ \E i \in DOMAIN x : x[i] < y[i] /\ \A k \in 1..(i - 1) : x[k] = y[k]

ColumnOf(name) == Cardinality({x \in ColumnNames : Before(x, name)})

\* The cells of a range whose corners name the same things.
Named(sheet, range) ==
    LET last == IF range.to = None THEN range.from ELSE range.to
        rows == IF range.from.row = None THEN 1..sheet.rows ELSE range.from.row..last.row
        columns == IF range.from.column = <<>> THEN 0..(Columns - 1)
                   ELSE ColumnOf(range.from.column)..ColumnOf(last.column)
    IN  {c \in Cells(sheet) : c[1] + 1 \in rows /\ c[2] \in columns}

-----------------------------------------------------------------------------
(***************************************************************************)
(* What Google does with a request: the spreadsheet after it, or Refused.  *)
(***************************************************************************)

\* The cells of a grid; an end that is left out is that of the sheet.
Or(x, default) == IF x = None THEN default ELSE x

GridCells(sheet, g) ==
    (Or(g.startRow, 0)..(Or(g.endRow, sheet.rows) - 1)) \X (Or(g.startColumn, 0)..(Or(g.endColumn, Columns) - 1))

IsGrid(sheet, g) ==
    /\ Or(g.endRow, sheet.rows) <= sheet.rows /\ Or(g.endColumn, Columns) <= Columns
    /\ GridCells(sheet, g) # {}

\* Of a border, the cells on that side.
Side(cells, mark) ==
    CASE mark = "top" -> {c \in cells : \A d \in cells : c[1] <= d[1]}
      [] mark = "bottom" -> {c \in cells : \A d \in cells : c[1] >= d[1]}
      [] mark = "left" -> {c \in cells : \A d \in cells : c[2] <= d[2]}
      [] mark = "right" -> {c \in cells : \A d \in cells : c[2] >= d[2]}
      [] OTHER -> cells

Marks(cells, marks) == UNION {{m} \X Side(cells, m) : m \in marks}

\* Behind the last row that has values, a row comes; what was there moves down.
AppendRow(sheet) ==
    LET used == {m[2][1] : m \in {x \in sheet.marks : x[1] = "value"}}
        row == IF used = {} THEN 0 ELSE 1 + MaxOf(used)
    IN  [sheet EXCEPT !.rows = @ + 1,
                      !.marks = {<<m[1], <<IF m[2][1] < row THEN m[2][1] ELSE m[2][1] + 1, m[2][2]>>>> : m \in @}
                                  \cup {<<"value", <<row, 0>>>>}]

Altered(sheet, q) ==
    CASE q.op = "mark" -> IF IsGrid(sheet, q.grid) /\ q.marks # {}
                          THEN [sheet EXCEPT !.marks = @ \cup Marks(GridCells(sheet, q.grid), q.marks)] ELSE Refused
      [] q.op = "values" -> IF Named(sheet, q.range) = {} THEN Refused
                            ELSE [sheet EXCEPT !.marks = @ \cup Marks(Named(sheet, q.range), {"value"})]
      [] q.op = "append" -> AppendRow(sheet)
      [] q.op = "rename" -> [sheet EXCEPT !.title = q.title]
      [] q.op = "dimension" ->
            IF q.to > (IF q.dimension = "ROWS" THEN sheet.rows ELSE Columns) THEN Refused
            ELSE LET set == {<<q.dimension, i, q.mark>> : i \in q.from..(q.to - 1)} IN
                   [sheet EXCEPT !.dims = IF q.on THEN @ \cup set ELSE @ \ set]

\* Values go to the sheet that their range names, all else to one by its id.
Target(file, q) == IF q.op \in {"values", "append"} THEN SheetOf(file, q.range) ELSE WithId(file, q.id)

\* Names are unique, and the last sheet stays.
IsRefused(file, q) ==
    LET there == Target(file, q) IN
      \/ q.op \in {"addSheet", "rename"} /\ Titled(file, q.title) \ there # {}
      \/ q.op = "addNamedRange" /\ q.title \in file.names
      \/ q.op # "addSheet" /\ there = {}
      \/ q.op = "deleteSheet" /\ Len(file.sheets) = 1

\* One request.
Carry(file, q) ==
    LET i == MinOf(Target(file, q)) IN
        CASE IsRefused(file, q) -> Refused
          [] ~IsRefused(file, q) /\ q.op = "addSheet" ->
                [file EXCEPT !.next = @ + 1, !.sheets = Append(@, Sheet(file.next, q.title))]
          [] ~IsRefused(file, q) /\ q.op = "deleteSheet" ->
                [file EXCEPT !.sheets = SubSeq(@, 1, i - 1) \o SubSeq(@, i + 1, Len(@))]
          [] ~IsRefused(file, q) /\ q.op = "addNamedRange" ->
                IF IsGrid(file.sheets[i], q.grid)
                THEN [file EXCEPT !.names = @ \cup {q.title},
                                  !.sheets[i].marks = @ \cup Marks(GridCells(file.sheets[i], q.grid), q.marks)]
                ELSE Refused
          [] OTHER -> LET s == Altered(file.sheets[i], q) IN
                        IF s = Refused THEN Refused ELSE [file EXCEPT !.sheets[i] = s]

\* The handlers send one request at a time.
Batch(file, requests) == Carry(file, requests[1])

-----------------------------------------------------------------------------
(***************************************************************************)
(* The handlers.  The fields of a call are the tool's parameters; what a   *)
(* range is to get is the set marks, what is switched off the set off.     *)
(***************************************************************************)

Call(tool) ==
    [tool |-> tool, range |-> None, id |-> None, title |-> None, marks |-> {}, off |-> {},
     dimension |-> None, from |-> 0, to |-> 0, images |-> 0, requests |-> <<>>]

Request(op, id) ==
    [op |-> op, id |-> id, range |-> None, grid |-> None, title |-> None, marks |-> {},
     dimension |-> None, from |-> 0, to |-> 0, mark |-> None, on |-> TRUE]

\* A range that names no sheet is taken to be on the one with the default title.
parseA1Range(range) == IF range.sheet = None THEN Sheet1 ELSE range.sheet

\* Mutant: the letters are the digits from zero.
colToIndexFromZero(name) ==
    LET num[i \in 0..Len(name)] == IF i = 0 THEN 0 ELSE num[i - 1] * Base + name[i] - 1 IN num[Len(name)]

\* A number in the alphabet that has no zero, less one.
colToIndex(name) ==
    LET num[i \in 0..Len(name)] == IF i = 0 THEN 0 ELSE num[i - 1] * Base + name[i] IN num[Len(name)] - 1

convertA1ToGridRange(range) ==
    LET from == range.from
        to == IF range.to = None THEN Corner(<<>>, None) ELSE range.to
        start == IF from.column = <<>> THEN None ELSE colToIndex(from.column)
    IN  [startColumn |-> start,
         startRow |-> IF from.row = None THEN None ELSE from.row - 1,
         endColumn |-> IF to.column # <<>> THEN colToIndex(to.column) + 1
                       ELSE IF start # None THEN start + 1 ELSE None,
         endRow |-> IF to.row # None THEN to.row ELSE from.row]

\* Google answers with the sheets that the range is on; the title must be the one
\* that the range was parsed to.
resolveGridRange(file, range) ==
    {file.sheets[i].id : i \in SheetOf(file, range) \cap Titled(file, parseA1Range(range))}

\* A range resolved, and one request for the cells of it.
OverRange(a, saw, op, marks) ==
    IF saw = <<>> THEN Read
    ELSE LET ids == resolveGridRange(saw[1], a.range) IN
           IF ids = {} THEN Decline
           ELSE Last(saw, 1, <<[Request(op, MinOf(ids)) EXCEPT
                                  !.grid = convertA1ToGridRange(a.range), !.marks = marks, !.title = a.title]>>)

\* The fields that are given are named in the request; it is refused without any.
formatGoogleSheetCells(a, saw) == OverRange(a, saw, "mark", a.marks)

formatGoogleSheetText(a, saw) == OverRange(a, saw, "mark", a.marks)

formatGoogleSheetNumbers(a, saw) == OverRange(a, saw, "mark", {"number"})

\* The four sides unless they are switched off, the inner lines if they are asked for.
setGoogleSheetBorders(a, saw) == OverRange(a, saw, "mark", ({"top", "bottom", "left", "right"} \ a.off) \cup a.marks)

mergeGoogleSheetCells(a, saw) == OverRange(a, saw, "mark", {"merged"})

addGoogleSheetConditionalFormat(a, saw) == OverRange(a, saw, "mark", {"rule"})

addDataValidation(a, saw) == OverRange(a, saw, "mark", {"validation"})

protectRange(a, saw) == OverRange(a, saw, "mark", {"protected"})

addNamedRange(a, saw) == OverRange(a, saw, "addNamedRange", {"named"})

\* These send the range itself.
updateGoogleSheet(a, saw) == Last(saw, 0, <<[Request("values", None) EXCEPT !.range = a.range]>>)

appendSpreadsheetRows(a, saw) == Last(saw, 0, <<[Request("append", None) EXCEPT !.range = a.range]>>)

addSheet(a, saw) == Last(saw, 0, <<[Request("addSheet", None) EXCEPT !.title = a.title]>>)

renameSheet(a, saw) == Last(saw, 0, <<[Request("rename", a.id) EXCEPT !.title = a.title]>>)

deleteSheet(a, saw) == Last(saw, 0, <<Request("deleteSheet", a.id)>>)

\* Half-open ranges of rows or columns.
batchUpdateOne(a, saw, dimension, mark, on) ==
    IF a.to <= a.from THEN Decline
    ELSE Last(saw, 0, <<[Request("dimension", a.id) EXCEPT
                            !.dimension = dimension, !.from = a.from, !.to = a.to, !.mark = mark, !.on = on]>>)

setColumnWidth(a, saw) == batchUpdateOne(a, saw, "COLUMNS", "size", TRUE)
setRowHeight(a, saw) == batchUpdateOne(a, saw, "ROWS", "size", TRUE)
autoResizeColumns(a, saw) == batchUpdateOne(a, saw, "COLUMNS", "size", FALSE)
autoResizeRows(a, saw) == batchUpdateOne(a, saw, "ROWS", "size", FALSE)
hideSheetDimension(a, saw) == batchUpdateOne(a, saw, a.dimension, "hidden", TRUE)
showSheetDimension(a, saw) == batchUpdateOne(a, saw, a.dimension, "hidden", FALSE)

Handler(a, saw) ==
    CASE a.tool = "formatGoogleSheetCells" -> formatGoogleSheetCells(a, saw)
      [] a.tool = "formatGoogleSheetText" -> formatGoogleSheetText(a, saw)
      [] a.tool = "formatGoogleSheetNumbers" -> formatGoogleSheetNumbers(a, saw)
      [] a.tool = "setGoogleSheetBorders" -> setGoogleSheetBorders(a, saw)
      [] a.tool = "mergeGoogleSheetCells" -> mergeGoogleSheetCells(a, saw)
      [] a.tool = "addGoogleSheetConditionalFormat" -> addGoogleSheetConditionalFormat(a, saw)
      [] a.tool = "addDataValidation" -> addDataValidation(a, saw)
      [] a.tool = "protectRange" -> protectRange(a, saw)
      [] a.tool = "addNamedRange" -> addNamedRange(a, saw)
      [] a.tool = "updateGoogleSheet" -> updateGoogleSheet(a, saw)
      [] a.tool = "appendSpreadsheetRows" -> appendSpreadsheetRows(a, saw)
      [] a.tool = "addSheet" -> addSheet(a, saw)
      [] a.tool = "renameSheet" -> renameSheet(a, saw)
      [] a.tool = "deleteSheet" -> deleteSheet(a, saw)
      [] a.tool = "setColumnWidth" -> setColumnWidth(a, saw)
      [] a.tool = "setRowHeight" -> setRowHeight(a, saw)
      [] a.tool = "autoResizeColumns" -> autoResizeColumns(a, saw)
      [] a.tool = "autoResizeRows" -> autoResizeRows(a, saw)
      [] a.tool = "hideSheetDimension" -> hideSheetDimension(a, saw)
      [] a.tool = "showSheetDimension" -> showSheetDimension(a, saw)
      [] a.tool = "batch_update_spreadsheet" -> BatchUpdate(a, saw, TRUE)

Catches(a, saw) == a.tool = "batch_update_spreadsheet"

-----------------------------------------------------------------------------
(***************************************************************************)
(* The calls of an instance: every tool, on ranges of all forms and on     *)
(* sheets that are there or not.                                           *)
(***************************************************************************)

OnMarks == {"formatGoogleSheetCells", "formatGoogleSheetText"}
OnGrid == {"formatGoogleSheetNumbers", "setGoogleSheetBorders", "mergeGoogleSheetCells",
           "addGoogleSheetConditionalFormat", "addDataValidation", "protectRange", "addNamedRange"}
OnSize == {"setColumnWidth", "setRowHeight", "autoResizeColumns", "autoResizeRows"}
OnDimension == {"hideSheetDimension", "showSheetDimension"}

\* A cell, a block up to columns of two letters, rows, columns, a cell outside.
Areas ==
    { Range(None, Corner(<<2>>, 2), None), Range(None, Corner(<<1>>, 1), Corner(<<1, 2>>, 2)),
      Range(None, Corner(<<>>, 1), Corner(<<>>, 2)), Range(None, Corner(<<2>>, None), Corner(<<1, 1>>, None)),
      Range(None, Corner(<<2, 2>>, 1), None) }

Calls(p) ==
    LET first == CHOOSE r \in Areas : r.to = None
        ranges == {[r EXCEPT !.sheet = t] : r \in Areas, t \in Titles}
                    \cup {[first EXCEPT !.sheet = t] : t \in {None, Sheet1}}
        ids == {0, 1, 2}
        titles == Titles \cup {Sheet1}
        sized(C) == {[c EXCEPT !.id = 1, !.from = i[1], !.to = i[2]] : c \in C, i \in {<<0, 1>>, <<1, 2>>, <<0, 5>>}}
        insert(n) == <<[Request("append", None) EXCEPT !.range = Range(None, Corner(<<1>>, 1), None)]>>
    IN  {[Call(t) EXCEPT !.range = r, !.marks = {"bold", "fill"}] : t \in OnMarks, r \in ranges}
          \cup {[Call(t) EXCEPT !.range = first] : t \in OnMarks}
          \cup {[Call(t) EXCEPT !.range = r, !.title = "name"] : t \in OnGrid, r \in ranges}
          \cup {[Call("setGoogleSheetBorders") EXCEPT !.range = r, !.off = {"top", "left"}, !.marks = {"inner"}] : r \in ranges}
          \cup {[Call(t) EXCEPT !.range = r] : t \in {"updateGoogleSheet", "appendSpreadsheetRows"}, r \in ranges}
          \cup {[Call("addSheet") EXCEPT !.title = t] : t \in titles}
          \cup {[Call("renameSheet") EXCEPT !.id = i, !.title = t] : i \in ids, t \in titles}
          \cup {[Call("deleteSheet") EXCEPT !.id = i] : i \in ids}
          \cup sized({Call(t) : t \in OnSize} \cup {[Call(t) EXCEPT !.dimension = d] : t \in OnDimension, d \in {"ROWS", "COLUMNS"}})
          \cup {[Call("batch_update_spreadsheet") EXCEPT !.images = k, !.requests = insert(k)] : k \in 0..2}

-----------------------------------------------------------------------------
(***************************************************************************)
(* What the tools promise, said of the spreadsheet before and after a call *)
(* that nothing disturbed.                                                 *)
(***************************************************************************)

Given(a) ==
    CASE a.tool \in OnMarks -> a.marks
      [] a.tool = "formatGoogleSheetNumbers" -> {"number"}
      [] a.tool = "setGoogleSheetBorders" -> {m \in {"top", "bottom", "left", "right", "inner"} :
                                                IF m = "inner" THEN m \in a.marks ELSE m \notin a.off}
      [] a.tool = "mergeGoogleSheetCells" -> {"merged"}
      [] a.tool = "addGoogleSheetConditionalFormat" -> {"rule"}
      [] a.tool = "addDataValidation" -> {"validation"}
      [] a.tool = "protectRange" -> {"protected"}
      [] a.tool = "addNamedRange" -> {"named"}
      [] a.tool = "updateGoogleSheet" -> {"value"}

\* The cells that the range names are marked, on the sheet that it names.
Marked(a, was, is) ==
    LET i == MinOf(SheetOf(was, a.range))
        s == was.sheets[i]
    IN  is.sheets[i].marks = s.marks \cup Marks(Named(s, a.range), Given(a))

ById(p, id) == p.sheets[MinOf(WithId(p, id))]

Dimension(a) ==
    IF a.tool \in OnDimension THEN a.dimension
    ELSE IF a.tool \in {"setColumnWidth", "autoResizeColumns"} THEN "COLUMNS" ELSE "ROWS"

Done(a, was, is) ==
    CASE a.tool \in OnMarks \cup OnGrid \cup {"updateGoogleSheet"} -> Marked(a, was, is)
      [] a.tool = "appendSpreadsheetRows" ->
            LET i == MinOf(SheetOf(was, a.range)) IN
              Cardinality({m \in is.sheets[i].marks : m[1] = "value"}) = 1 + Cardinality({m \in was.sheets[i].marks : m[1] = "value"})
      [] a.tool = "addSheet" -> Len(is.sheets) = Len(was.sheets) + 1 /\ is.sheets[Len(is.sheets)].title = a.title
      [] a.tool = "renameSheet" -> ById(is, a.id).title = a.title
      [] a.tool = "deleteSheet" -> Len(is.sheets) = Len(was.sheets) - 1 /\ WithId(is, a.id) = {}
      [] a.tool \in OnSize \cup OnDimension ->
            LET mark == IF a.tool \in OnDimension THEN "hidden" ELSE "size"
                on == a.tool \in {"setColumnWidth", "setRowHeight", "hideSheetDimension"}
            IN  \A i \in 0..(Columns - 1) :
                  LET d == <<Dimension(a), i, mark>> IN
                    d \in ById(is, a.id).dims <=> IF a.from <= i /\ i < a.to THEN on ELSE d \in ById(was, a.id).dims
      [] OTHER -> TRUE

\* What a call reads and changes: the sheets' ids and titles, and its sheet.
Part(a, p) ==
    <<[i \in DOMAIN p.sheets |-> <<p.sheets[i].id, p.sheets[i].title>>],
      {p.sheets[i] : i \in IF a.range # None THEN SheetOf(p, a.range) ELSE WithId(p, a.id)}>>

\* The spreadsheet without the sheet that a call is for, named as when it read.
Rest(a, ref, p) ==
    LET own == IF a.tool = "batch_update_spreadsheet" THEN DOMAIN p.sheets
               ELSE IF a.tool = "addSheet" THEN Titled(p, a.title)
               ELSE IF a.tool \in OnMarks \cup OnGrid THEN WithId(p, MinOf(resolveGridRange(ref, a.range)))
               ELSE IF a.tool \in {"updateGoogleSheet", "appendSpreadsheetRows"} THEN SheetOf(p, a.range)
               ELSE WithId(p, a.id)
    IN  {p.sheets[i] : i \in DOMAIN p.sheets \ own}
=============================================================================
