------------------------------ MODULE Calendars ------------------------------
(***************************************************************************)
(* Edits of a Google calendar (src/src/tools/calendar-base.ts and          *)
(* buildCalendarEventUpdate of src/src/utils.ts).  Operators only; Editors *)
(* calls them.                                                             *)
(*                                                                         *)
(* Google replaces an event as a whole, so a tool that changes a field has *)
(* to send the others again as it read them.                               *)
(***************************************************************************)
EXTENDS EditRequests

CONSTANTS
    Word            \* what a call gives for a field

\* The fields of an event that stand for others with the same rule: text for its
\* summary, description and location, time for start and end, kept for recurrence,
\* visibility and reminders, extras for all that no tool knows, such as its colour.
Content == [text |-> <<>>, time |-> <<>>, attendees |-> <<>>, attachments |-> <<>>, kept |-> <<>>]

Event(id, content, meet, extras) ==
    [id |-> id, content |-> content, meet |-> meet, extras |-> extras]

IsCalendar(file) ==
    /\ file = [events |-> file.events, next |-> file.next]
    /\ file.next \in Nat
    /\ \A e \in file.events : e = Event(e.id, e.content, e.meet, e.extras) /\ e.id \in 0..(file.next - 1)

WithId(file, id) == {e \in file.events : e.id = id}

-----------------------------------------------------------------------------
(***************************************************************************)
(* What Google does with a request: the calendar after it, or Refused.     *)
(***************************************************************************)

\* An update leaves the conference as it is: it states no conference version.
Carry(file, q) ==
    LET there == WithId(file, q.id)
        others == file.events \ there
    IN  CASE q.op = "insert" ->
                [file EXCEPT !.next = @ + 1, !.events = @ \cup {Event(file.next, q.content, q.meet, <<>>)}]
          [] q.op # "insert" /\ there = {} -> Refused
          [] q.op = "delete" /\ there # {} -> [file EXCEPT !.events = others]
          [] q.op = "update" /\ there # {} ->
                [file EXCEPT !.events = others \cup {Event(q.id, q.content, e.meet, <<>>) : e \in there}]

\* The handlers send one request at a time.
Batch(file, requests) == Carry(file, requests[1])

-----------------------------------------------------------------------------
(***************************************************************************)
(* The handlers.  A field of a call that is not given is None.             *)
(***************************************************************************)

Call(tool) ==
    [tool |-> tool, id |-> None, text |-> None, time |-> None, attendees |-> None, attachments |-> None,
     kept |-> None, meet |-> FALSE]

Request(op, id, content, meet) == [op |-> op, id |-> id, content |-> content, meet |-> meet]

Or(given, default) == IF given = None THEN default ELSE given

\* What is empty is not sent, which is the same to Google.
createCalendarEvent(a, saw) ==
    Last(saw, 0, <<Request("insert", None,
                           [text |-> a.text, time |-> a.time, attendees |-> Or(a.attendees, <<>>),
                            attachments |-> Or(a.attachments, <<>>), kept |-> Or(a.kept, <<>>)], a.meet)>>)

\* Given fields win, also the empty ones; the others are sent as they were.
buildCalendarEventUpdate(existing, a) ==
    [text |-> Or(a.text, existing.text), time |-> Or(a.time, existing.time),
     attendees |-> Or(a.attendees, existing.attendees), attachments |-> Or(a.attachments, existing.attachments),
     kept |-> existing.kept]

updateCalendarEvent(a, saw) ==
    IF saw = <<>> THEN Read
    ELSE LET there == WithId(saw[1], a.id) IN
           IF there = {} THEN Decline
           ELSE LET existing == CHOOSE e \in there : TRUE IN
                  Last(saw, 1, <<Request("update", a.id, buildCalendarEventUpdate(existing.content, a), FALSE)>>)

deleteCalendarEvent(a, saw) == Last(saw, 0, <<Request("delete", a.id, Content, FALSE)>>)

Handler(a, saw) ==
    CASE a.tool = "createCalendarEvent" -> createCalendarEvent(a, saw)
      [] a.tool = "updateCalendarEvent" -> updateCalendarEvent(a, saw)
      [] a.tool = "deleteCalendarEvent" -> deleteCalendarEvent(a, saw)

-----------------------------------------------------------------------------
(***************************************************************************)
(* The calls of an instance: no field, each alone, given or emptied, and   *)
(* all; on events that are there or not.                                   *)
(***************************************************************************)

Calls(file) ==
    LET given == {<<>>, <<Word>>}
        update == Call("updateCalendarEvent")
        create == [Call("createCalendarEvent") EXCEPT !.text = <<Word>>, !.time = <<Word>>]
        fields == {update, [update EXCEPT !.time = <<Word>>]}
                    \cup {[update EXCEPT !.text = v] : v \in given}
                    \cup {[update EXCEPT !.attendees = v] : v \in given}
                    \cup {[update EXCEPT !.attachments = v] : v \in given}
                    \cup {[update EXCEPT !.text = v, !.time = <<Word>>, !.attendees = v, !.attachments = v] : v \in given}
    IN  {[c EXCEPT !.id = i] : c \in fields \cup {Call("deleteCalendarEvent")}, i \in 0..2}
          \cup {create} \cup {[create EXCEPT !.attendees = v, !.attachments = v, !.kept = <<Word>>, !.meet = TRUE] : v \in given}

-----------------------------------------------------------------------------
(***************************************************************************)
(* What the tools promise, said of the calendar before and after a call    *)
(* that nothing disturbed.  An update's extras are not promised: they are  *)
(* not sent again, and the event loses them.                               *)
(***************************************************************************)

Given(a, field) == a[field] # None

Fields == {"text", "time", "attendees", "attachments"}

Done(a, was, is) ==
    CASE a.tool = "createCalendarEvent" ->
            /\ was.events \subseteq is.events
            /\ \E e \in is.events :
                 /\ is.events \ was.events = {e} /\ e.id \notin {d.id : d \in was.events} /\ e.meet = a.meet
                 /\ \A f \in Fields : e.content[f] = IF Given(a, f) THEN a[f] ELSE <<>>
      [] a.tool = "updateCalendarEvent" ->
            \E d \in WithId(was, a.id), e \in WithId(is, a.id) :
                /\ e.meet = d.meet /\ e.content.kept = d.content.kept
                /\ \A f \in Fields : e.content[f] = IF Given(a, f) THEN a[f] ELSE d.content[f]
      [] a.tool = "deleteCalendarEvent" -> WithId(was, a.id) # {} /\ WithId(is, a.id) = {}

\* What a call reads and changes: its event, for a new one all of them.
Part(a, p) == IF a.tool = "createCalendarEvent" THEN p.events ELSE WithId(p, a.id)

\* The other events; a new one has the content that was asked for.
Rest(a, p) ==
    IF a.tool = "createCalendarEvent" THEN {e \in p.events : e.content.text # a.text \/ e.content.time # a.time}
    ELSE p.events \ WithId(p, a.id)
=============================================================================
