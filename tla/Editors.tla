------------------------------ MODULE Editors -------------------------------
(***************************************************************************)
(* Tool calls that edit one Google file: a document, a presentation, a     *)
(* spreadsheet or a calendar (src/src/tools/docs.ts, slides.ts, sheets.ts, *)
(* calendar-base.ts, and the lists of requests of                          *)
(* openai-drive-parity-base.ts).                                           *)
(*                                                                         *)
(* A call is a sequence of requests, each made of the answers before it.   *)
(* Several sessions make calls, so that the file may change between two    *)
(* requests of one; and a request may fail, before or after its effect.    *)
(***************************************************************************)
EXTENDS Integers, Sequences, FiniteSets

CONSTANTS
    Sessions,
    Start,              \* a file of each kind that is edited
    MaxCalls,           \* calls in all
    MaxFaults,          \* requests that fail
    Letters, None, Refused, Failed,                 \* see EditRequests
    Main, Other, New, Spots, Tables, Needles, Word,         \* see Documents
    Needle,                                         \* see Presentations
    Base, Columns, Sheet1, Titles                   \* see Spreadsheets

Docs == INSTANCE Documents
Slides == INSTANCE Presentations
Sheets == INSTANCE Spreadsheets
Cals == INSTANCE Calendars

Kinds == {"document", "presentation", "spreadsheet", "calendar"}

IsFile(k, f) ==
    CASE k = "document" -> Docs!IsDocument(f)
      [] k = "presentation" -> Slides!IsPresentation(f)
      [] k = "spreadsheet" -> Sheets!IsSpreadsheet(f)
      [] k = "calendar" -> Cals!IsCalendar(f)

\* The ids of elements at the start, those that call n makes, from 10 * n on, and
\* those that Google makes are apart.
ASSUME ConstantsAssumption ==
    /\ MaxCalls \in Nat
    /\ None # Failed
    /\ DOMAIN Start \subseteq Kinds
    /\ \A k \in DOMAIN Start : IsFile(k, Start[k])
    /\ "presentation" \in DOMAIN Start =>
          LET p == Start["presentation"] IN
            /\ \A e \in Slides!Objects(p) : e.id[1] < 10
            /\ p.next >= 10 * (MaxCalls + 1)

VARIABLES
    kind,       \* of the file
    file,
    call,       \* of each session, the call that it makes or made last
    calls, faults

vars == <<kind, file, call, calls, faults>>

Idle == [a |-> None, n |-> 0, end |-> "none", next |-> None, saw |-> <<>>, before |-> None, alone |-> FALSE,
         images |-> <<>>, kept |-> FALSE]

Init ==
    /\ kind \in DOMAIN Start
    /\ file = Start[kind]
    /\ call = [s \in Sessions |-> Idle]
    /\ calls = 0 /\ faults = 0

-----------------------------------------------------------------------------
(***************************************************************************)
(* The kinds of files.                                                     *)
(***************************************************************************)

Arguments ==
    CASE kind = "document" -> Docs!Calls
      [] kind = "presentation" -> Slides!Calls(file)
      [] kind = "spreadsheet" -> Sheets!Calls(file)
      [] kind = "calendar" -> Cals!Calls(file)

\* The next request of a call.
Request(r) ==
    CASE kind = "document" -> Docs!Handler(r.a, r.saw)
      [] kind = "presentation" -> Slides!Handler(r.a, r.saw, r.n)
      [] kind = "spreadsheet" -> Sheets!Handler(r.a, r.saw)
      [] kind = "calendar" -> Cals!Handler(r.a, r.saw)

\* It goes on when that request fails.
Catches(r) ==
    CASE kind = "document" -> Docs!Catches(r.a, r.saw)
      [] kind = "presentation" -> Slides!Catches(r.a, r.saw)
      [] kind = "spreadsheet" -> Sheets!Catches(r.a, r.saw)
      [] kind = "calendar" -> FALSE

Batch(requests) ==
    CASE kind = "document" -> Docs!Batch(file, requests)
      [] kind = "presentation" -> Slides!Batch(file, requests)
      [] kind = "spreadsheet" -> Sheets!Batch(file, requests)
      [] kind = "calendar" -> Cals!Batch(file, requests)

Part(a, f) ==
    CASE kind = "document" -> Docs!Part(a, f)
      [] kind = "presentation" -> Slides!Part(a, f)
      [] kind = "spreadsheet" -> Sheets!Part(a, f)
      [] kind = "calendar" -> Cals!Part(a, f)

Rest(r, f) ==
    CASE kind = "document" -> Docs!Rest(r.a, r.saw[1], f)
      [] kind = "presentation" -> Slides!Rest(r.a, r.saw[1], f)
      [] kind = "spreadsheet" -> Sheets!Rest(r.a, r.saw[1], f)
      [] kind = "calendar" -> Cals!Rest(r.a, f)

Done(a, was, is) ==
    CASE kind = "document" -> Docs!Done(a, was, is)
      [] kind = "presentation" -> Slides!Done(a, was, is)
      [] kind = "spreadsheet" -> Sheets!Done(a, was, is)
      [] kind = "calendar" -> Cals!Done(a, was, is)

-----------------------------------------------------------------------------
IsOpen(s) == call[s].end = "open"

\* Of a call that has ended only its images matter.
Ended(r, end) ==
    IF r.images = <<>> THEN [Idle EXCEPT !.end = end]
    ELSE [Idle EXCEPT !.a = r.a, !.end = end, !.images = r.images, !.kept = r.kept]

\* The call with its next request, or ended.
GoesOn(r) ==
    CASE r.next.op = "finish" -> Ended(r, "ok")
      [] r.next.op = "decline" -> Ended(r, "error")
      [] OTHER -> r

\* The call with an answer.
Heard(r, answer) ==
    LET n == [r EXCEPT !.saw = Append(@, answer)] IN
      IF answer = Failed /\ ~Catches(r) THEN Ended(n, "error") ELSE GoesOn([n EXCEPT !.next = Request(n)])

\* A call begins; one that its arguments alone refuse is not a step.
Begin(s) ==
    /\ ~IsOpen(s) /\ calls < MaxCalls
    /\ \E a \in Arguments :
         LET r == [Idle EXCEPT !.a = a, !.n = calls + 1, !.end = "open", !.before = file, !.alone = TRUE] IN
           /\ call' = [call EXCEPT ![s] = GoesOn([r EXCEPT !.next = Request(r)])]
           /\ call'[s].end = "open"
    /\ calls' = calls + 1
    /\ UNCHANGED <<kind, file, faults>>

\* Session s goes on with r, and the file with f; calls that it changed something
\* for are no longer alone.
Step(s, r, f) ==
    /\ file' = f
    /\ call' = [t \in Sessions |->
          IF t = s THEN r
          ELSE [call[t] EXCEPT !.alone = @ /\ (f = file \/ Part(call[t].a, f) = Part(call[t].a, file))]]
    /\ UNCHANGED <<kind, calls>>

Asks(s, op) == IsOpen(s) /\ call[s].next.op = op

ReadFile(s) ==
    /\ Asks(s, "read")
    /\ Step(s, Heard(call[s], file), file)
    /\ UNCHANGED faults

\* A list of changes; its answer may be lost.
Change(s) ==
    LET r == call[s]
        f == Batch(r.next.requests)
    IN  /\ Asks(s, "batch")
        /\ \/ f = Refused /\ Step(s, Heard(r, Failed), file) /\ UNCHANGED faults
           \/ f # Refused /\ Step(s, Heard(r, f), f) /\ UNCHANGED faults
           \/ /\ f # Refused /\ faults < MaxFaults
              /\ faults' = faults + 1
              /\ Step(s, Heard([r EXCEPT !.alone = FALSE], Failed), f)

\* The images of a call at Google, with how far each has come.
Stored(images, op) ==
    CASE op = "create" -> Append(images, "stored")
      [] op = "share" -> [images EXCEPT ![Len(images)] = "shared"]
      [] op = "link" -> [images EXCEPT ![Len(images)] = "linked"]
      [] op = "drop" -> Tail(images)

Image(s) ==
    LET r == call[s]
        op == r.next.op
    IN  /\ IsOpen(s) /\ op \in {"create", "share", "link", "drop"}
        /\ Step(s, Heard([r EXCEPT !.images = Stored(@, op)], None), file)
        /\ UNCHANGED faults

\* A request fails and changes nothing.
RequestFails(s) ==
    LET r == call[s] IN
      /\ IsOpen(s) /\ faults < MaxFaults
      /\ faults' = faults + 1
      /\ Step(s, Heard([r EXCEPT !.kept = @ \/ r.next.op = "drop"], Failed), file)

Next ==
    \E s \in Sessions : Begin(s) \/ ReadFile(s) \/ Change(s) \/ Image(s) \/ RequestFails(s)

Spec == Init /\ [][Next]_vars

-----------------------------------------------------------------------------
(***************************************************************************)
(* Properties.                                                             *)
(***************************************************************************)

Ends(s, end) == IsOpen(s) /\ call'[s].end = end

Changes(s) == IsOpen(s) /\ file' # file /\ (~IsOpen(s)' \/ call'[s].saw # call[s].saw)

\* A call that answers without an error, and whose part of the file nobody else
\* changed meanwhile, has made the change that it was asked for, at the text, the
\* paragraph, the element or the cells that its arguments name, and no other
\* change there, whatever it had to compute from what it read.  Done leaves out:
\* lists of requests that the caller wrote, for a presentation or a spreadsheet; an
\* edit of a table's cell that aligns a text and shortens it; the quote of a comment
\* on more than text; and the size of an element that is moved and has scale zero.
EditsHitTheirTarget ==
    [][\A s \in Sessions : Ends(s, "ok") /\ call[s].alone => Done(call[s].a, call[s].before, file')]_vars

\* Whatever other sessions do between a call's reading and its writing, it never
\* changes anything outside the tab, the element, the slide or the sheet that it
\* is for: the indexes may be stale, but not what they are indexes of.  It says
\* nothing of the tools that are for a whole presentation or its slides, nor of the
\* deletion of an element by its id: there Rest is constant.
EditsStayInTheirPart ==
    [][\A s \in Sessions : Changes(s) => Rest(call[s], file') = Rest(call[s], file)]_vars

\* The images that a tool shares with anyone only for the time of its request are
\* deleted once it has ended, however it ends, if the link of each was fetched and
\* the deletion does not fail; those of a sheet when the request fails.
ImagesAreCleared ==
    \A s \in Sessions :
        LET r == call[s] IN
          /\ r.end \in {"ok", "error"} /\ ~r.kept /\ r.images # <<>>
          /\ \/ r.a.tool \in {"insertSlidesLocalImage", "batch_update_document", "batch_update_presentation"}
             \/ r.a.tool = "batch_update_spreadsheet" /\ r.end = "error"
          => \A i \in DOMAIN r.images : r.images[i] # "linked"
=============================================================================
