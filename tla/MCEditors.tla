------------------------------ MODULE MCEditors -----------------------------
(***************************************************************************)
(* TLC instances of Editors: two sessions, two calls in all, and small     *)
(* files of each kind.                                                     *)
(***************************************************************************)
EXTENDS Editors, TLC

CONSTANTS s1, s2, cA, cB, cX, mainTab, otherTab, newTab, none, inbox, later

AllSessions == Permutations(Sessions)

\* A text, an image in it; a table of a row with two cells; an empty paragraph.
MCDocument ==
    [tabs |-> (mainTab :> Docs!Tab(<<cA>>, Docs!Plain(<<cA, cA, "image", cA, "nl",
                                                    "table", "row", "cell", cA, cB, "nl", "cell", cB, "nl", "end",
                                                    "nl">>)))
               @@ (otherTab :> Docs!Tab(<<cB>>, Docs!Mark(Docs!Plain(<<cB, "nl">>), {2}, "heading", TRUE))),
     comments |-> <<>>, notes |-> <<>>]

\* Three slides: with notes, with none, with empty ones.  On the first a title and
\* two bodies, one of them turned by 90 degrees, on the second a box, on the third
\* nothing.
MCPresentation ==
    LET element(id, type, text) == Slides!Element(id, type, Slides!Plain(text)) IN
      [slides |-> << Slides!Slide(<<1, 0>>, <<element(<<1, 1>>, "title", <<cA>>), element(<<1, 2>>, "body", <<>>),
                                                  [element(<<1, 4>>, "body", <<cB>>) EXCEPT !.scale = 0]>>,
                                  element(<<1, 3>>, "notes", <<cA>>)),
                     Slides!Slide(<<2, 0>>, <<element(<<2, 1>>, "box", <<cA, cB>>)>>, none),
                     Slides!Slide(<<3, 0>>, <<>>, element(<<3, 3>>, "notes", <<>>)) >>,
       next |-> 100]

MCSpreadsheet ==
    [sheets |-> <<Sheets!Sheet(0, inbox), Sheets!Sheet(1, later)>>, names |-> {}, next |-> 2]

\* An event with everything, and a plain one.
MCCalendar ==
    [events |-> {Cals!Event(0, [f \in DOMAIN Cals!Content |-> <<cA>>], TRUE, <<cB>>),
                 Cals!Event(1, [Cals!Content EXCEPT !.text = <<cB>>, !.time = <<cB>>], FALSE, <<>>)},
     next |-> 2]

MCStart ==
    [k \in {"document", "presentation", "spreadsheet", "calendar"} |->
        CASE k = "document" -> MCDocument [] k = "presentation" -> MCPresentation
          [] k = "spreadsheet" -> MCSpreadsheet [] k = "calendar" -> MCCalendar]

MCNeedles == {<<cA>>, <<cA, cA, cA>>, <<cB>>}
MCSpots == {1, 4, 10, 16}
MCTables == {6}
MCNeedle == <<cA>>
=============================================================================
