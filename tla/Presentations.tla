--------------------------- MODULE Presentations ----------------------------
(***************************************************************************)
(* Edits of a Google Slides presentation (src/src/tools/slides.ts): what   *)
(* each tool asks Google to change, computed from what it has read, and    *)
(* what Google does with it.  Operators only; Editors calls them.          *)
(*                                                                         *)
(* A slide is a sequence of elements: placeholders for a title and a body, *)
(* boxes, images; and perhaps speaker notes, an element on a page of their *)
(* own.  Ids are pairs of numbers, <<n, 0>> for a slide; the second number *)
(* of notes, and of no other element, ends in 3.                           *)
(***************************************************************************)
EXTENDS EditRequests

Enumerations == INSTANCE SequencesExt

CONSTANTS
    Needle,     \* a text that calls look for
    Word        \* and the text that they put in

Element(id, kind, text) ==
    [id |-> id, kind |-> kind, text |-> text, attrs |-> {}, x |-> 0, scale |-> 1, size |-> 2]

Slide(id, elements, notes) == [id |-> id, elements |-> elements, notes |-> notes, fill |-> FALSE]

Placeholders == {"title", "body"}

TitleAndBody(n) == <<Element(<<n, 1>>, "title", <<>>), Element(<<n, 2>>, "body", <<>>)>>

ElementsOf(slide) == {slide.elements[i] : i \in DOMAIN slide.elements}

SlidesOf(p) == {p.slides[i] : i \in DOMAIN p.slides}

OnSlides(p) == UNION {ElementsOf(s) : s \in SlidesOf(p)}

\* All that has an id and a text, notes too.
Objects(p) == OnSlides(p) \cup {s.notes : s \in {t \in SlidesOf(p) : t.notes # None}}

IsElement(e) ==
    /\ e = [id |-> e.id, kind |-> e.kind, text |-> e.text, attrs |-> e.attrs, x |-> e.x, scale |-> e.scale, size |-> e.size]
    /\ e.id \in Nat \X Nat

IsSlide(s) ==
    /\ s = [id |-> s.id, elements |-> s.elements, notes |-> s.notes, fill |-> s.fill]
    /\ s.elements \in Seq(ElementsOf(s))
    /\ \A e \in ElementsOf(s) : IsElement(e) /\ e.id[2] % 10 # 3
    /\ s.notes # None => IsElement(s.notes) /\ s.notes.id[2] % 10 = 3

IsPresentation(p) ==
    /\ p = [slides |-> p.slides, next |-> p.next]
    /\ p.next \in Nat
    /\ p.slides \in Seq(SlidesOf(p)) /\ \A s \in SlidesOf(p) : IsSlide(s)

Object(p, id) == CHOOSE e \in Objects(p) : e.id = id

-----------------------------------------------------------------------------
(***************************************************************************)
(* What Google does with a request: the presentation after it, or Refused. *)
(***************************************************************************)

\* One element changed, wherever it is.
Replace(p, new) ==
    LET swap(e) == IF e # None /\ e.id = new.id THEN new ELSE e IN
      [p EXCEPT !.slides = [i \in DOMAIN p.slides |->
          [p.slides[i] EXCEPT !.notes = swap(@), !.elements = [k \in DOMAIN @ |-> swap(@[k])]]]]

\* A change of the element that a request names.
Altered(e, q) ==
    CASE q.op = "insertText" -> [e EXCEPT !.text = Plain(q.text) \o @]
      [] q.op = "deleteText" -> IF e.text = <<>> THEN Refused ELSE [e EXCEPT !.text = <<>>]
      [] q.op = "updateTextStyle" ->
            IF q.to # None /\ ~(q.from < q.to /\ q.to <= Len(e.text)) THEN Refused
            ELSE [e EXCEPT !.text = Mark(@, IF q.to = None THEN DOMAIN @ ELSE (q.from + 1)..q.to, q.attr, q.on)]
      [] q.op = "updateAttributes" -> [e EXCEPT !.attrs = With(@, q.attr, q.on)]
      [] q.op = "updateTransform" -> [e EXCEPT !.x = q.x, !.scale = q.scale]

OnPage(p, id, element) ==
    [p EXCEPT !.slides = [i \in DOMAIN p.slides |->
        IF p.slides[i].id = id THEN [p.slides[i] EXCEPT !.elements = Append(@, element)] ELSE p.slides[i]]]

Deleted(p, id) ==
    LET others(s) == {e \in ElementsOf(s) : e.id # id}
        left == Those(p.slides, {s \in SlidesOf(p) : s.id # id})
    IN  [p EXCEPT !.slides = [i \in DOMAIN left |-> [left[i] EXCEPT !.elements = Those(@, others(left[i]))]]]

\* The copy comes behind the slide, with ids that Google makes.
Duplicated(p, id) ==
    LET i == CHOOSE k \in DOMAIN p.slides : p.slides[k].id = id
        new(e) == IF e = None THEN None ELSE [e EXCEPT !.id = <<p.next, 10 * e.id[1] + e.id[2]>>]
        s == p.slides[i]
        copy == [s EXCEPT !.id = <<p.next, 0>>, !.notes = new(@), !.elements = [k \in DOMAIN @ |-> new(@[k])]]
    IN  [next |-> p.next + 1, slides |-> SubSeq(p.slides, 1, i) \o <<copy>> \o SubSeq(p.slides, i + 1, Len(p.slides))]

\* The slides that move keep their order, and the index is one of the order before.
Reordered(p, ids, index) ==
    LET among == {s \in SlidesOf(p) : s.id \in {ids[k] : k \in DOMAIN ids}}
        moved == Those(p.slides, among)
        others(from, to) == Those(SubSeq(p.slides, from, to), SlidesOf(p) \ among)
    IN  IF [k \in DOMAIN moved |-> moved[k].id] # ids \/ index > Len(p.slides) THEN Refused
        ELSE [p EXCEPT !.slides = others(1, index) \o moved \o others(index + 1, Len(p.slides))]

PageRequests == {"createShape", "createImage", "duplicateObject", "updatePage"}

\* One request about a slide that is there.
CarryOnPage(p, q) ==
    CASE q.op = "createShape" -> OnPage(p, q.page, Element(q.id, "box", <<>>))
      [] q.op = "createImage" -> OnPage(p, q.page, Element(q.id, "image", <<>>))
      [] q.op = "duplicateObject" -> Duplicated(p, q.page)
      [] q.op = "updatePage" ->
            [p EXCEPT !.slides = [i \in DOMAIN p.slides |->
                IF p.slides[i].id = q.page THEN [p.slides[i] EXCEPT !.fill = TRUE] ELSE p.slides[i]]]

\* One request.
Carry(p, q) ==
    CASE q.op = "replaceAllText" ->
            [p EXCEPT !.slides = [i \in DOMAIN p.slides |-> LET s == p.slides[i] IN
                [s EXCEPT !.elements = [k \in DOMAIN s.elements |->
                    [s.elements[k] EXCEPT !.text = ReplaceAll(@, q.find, q.text)]]]]]
      [] q.op = "createSlide" -> [p EXCEPT !.slides = Append(@, Slide(q.id, TitleAndBody(q.id[1]), None))]
      [] q.op = "updateSlidesPosition" -> Reordered(p, q.ids, q.index)
      [] q.op = "deleteObject" ->
            IF q.id \in {x.id : x \in SlidesOf(p) \cup OnSlides(p)} THEN Deleted(p, q.id) ELSE Refused
      [] q.op \in PageRequests -> IF q.page \notin {s.id : s \in SlidesOf(p)} THEN Refused ELSE CarryOnPage(p, q)
      [] OTHER -> LET e == Altered(Object(p, q.id), q) IN
                    IF q.id \notin {x.id : x \in Objects(p)} \/ e = Refused THEN Refused ELSE Replace(p, e)

\* A list of requests, all or none.
Batch(p, requests) ==
    LET after[n \in 0..Len(requests)] ==
            IF n = 0 THEN p
            ELSE IF after[n - 1] = Refused THEN Refused ELSE Carry(after[n - 1], requests[n])
    IN  after[Len(requests)]

-----------------------------------------------------------------------------
(***************************************************************************)
(* The handlers.  The fields of a call are the tool's parameters; None     *)
(* stands for one that is left out, and n for the ids that a call makes.   *)
(***************************************************************************)

Call(tool) ==
    [tool |-> tool, id |-> None, page |-> None, from |-> 0, to |-> None, text |-> None, attrs |-> {},
     on |-> TRUE, ids |-> <<>>, index |-> 0, x |-> None, width |-> None, slides |-> <<>>, images |-> 0, requests |-> <<>>]

InsertText(id, text) == [op |-> "insertText", id |-> id, text |-> text]

\* Of each kind, the element that comes last.
LastOfKind(slide) ==
    {slide.elements[i] : i \in {k \in DOMAIN slide.elements :
        \A j \in DOMAIN slide.elements : j > k => slide.elements[j].kind # slide.elements[k].kind}}

\* The first slide stays and is cleared, and the last of its titles and bodies are
\* filled; the others go, new ones come; those are filled by their places in the
\* presentation, once it has been read again.
updateGoogleSlides(a, saw, n) ==
    LET first == saw[1].slides[1]
        delete == [i \in 1..(Len(saw[1].slides) - 1) |-> [op |-> "deleteObject", id |-> saw[1].slides[i + 1].id]]
        full == Those(first.elements, {e \in ElementsOf(first) : e.text # <<>>})
        clear == [i \in DOMAIN full |-> [op |-> "deleteText", id |-> full[i].id]]
        fill(slide, among, content) ==
            LET into == Those(slide.elements, {e \in among : e.kind \in Placeholders}) IN
              [i \in DOMAIN into |-> InsertText(into[i].id, content[into[i].kind])]
        create == [i \in 1..(Len(a.slides) - 1) |-> [op |-> "createSlide", id |-> <<10 * n + i, 0>>]]
        contents[i \in 1..Len(a.slides)] ==
            IF i = 1 THEN <<>>
            ELSE contents[i - 1] \o (IF i > Len(saw[3].slides) THEN <<>> ELSE fill(saw[3].slides[i], ElementsOf(saw[3].slides[i]), a.slides[i]))
    IN  CASE saw = <<>> -> Read
          [] Len(saw) = 1 -> IF saw[1].slides = <<>> \/ a.slides = <<>> THEN Decline
                             ELSE Send(delete \o clear \o fill(first, LastOfKind(first), a.slides[1]) \o create)
          [] Len(saw) = 2 -> IF Len(a.slides) > 1 THEN Read ELSE Finish
          [] Len(saw) = 3 -> IF contents[Len(a.slides)] = <<>> THEN Finish ELSE Send(contents[Len(a.slides)])
          [] Len(saw) = 4 -> Finish

OneEach(S, request(_)) ==
    LET list == Enumerations!SetToSeq(S) IN [i \in DOMAIN list |-> request(list[i])]

formatGoogleSlidesText(a, saw) ==
    IF a.attrs = {} THEN Decline
    ELSE Last(saw, 0, OneEach(a.attrs, LAMBDA x : [op |-> "updateTextStyle", id |-> a.id, from |-> a.from, to |-> a.to, attr |-> x, on |-> a.on]))

Attributes(a, id) == OneEach(a.attrs, LAMBDA x : [op |-> "updateAttributes", id |-> id, attr |-> x, on |-> a.on])

formatGoogleSlidesParagraph(a, saw) == IF a.attrs = {} THEN Decline ELSE Last(saw, 0, Attributes(a, a.id))

styleGoogleSlidesShape(a, saw) == IF a.attrs = {} THEN Decline ELSE Last(saw, 0, Attributes(a, a.id))

setGoogleSlidesBackground(a, saw) ==
    Last(saw, 0, [i \in DOMAIN a.ids |-> [op |-> "updatePage", page |-> a.ids[i]]])

createGoogleSlidesTextBox(a, saw, n) ==
    LET new == <<10 * n, 1>> IN
      Last(saw, 0, <<[op |-> "createShape", page |-> a.page, id |-> new], InsertText(new, a.text)>>
                     \o OneEach(a.attrs, LAMBDA x : [op |-> "updateTextStyle", id |-> new, from |-> 0, to |-> None, attr |-> x, on |-> TRUE]))

createGoogleSlidesShape(a, saw, n) ==
    LET new == <<10 * n, 1>> IN
      Last(saw, 0, <<[op |-> "createShape", page |-> a.page, id |-> new]>> \o Attributes(a, new))

\* Notes that are empty cannot be cleared.
updateGoogleSlidesSpeakerNotes(a, saw) ==
    LET notes == saw[1].slides[a.index + 1].notes IN
      IF saw = <<>> THEN Read
      ELSE IF a.index >= Len(saw[1].slides) \/ notes = None THEN Decline
      ELSE Last(saw, 1, (IF notes.text = <<>> THEN <<>> ELSE <<[op |-> "deleteText", id |-> notes.id]>>)
                          \o <<InsertText(notes.id, a.text)>>)

deleteGoogleSlide(a, saw) == Last(saw, 0, <<[op |-> "deleteObject", id |-> a.page]>>)

duplicateSlide(a, saw) == Last(saw, 0, <<[op |-> "duplicateObject", page |-> a.page]>>)

reorderSlides(a, saw) == Last(saw, 0, <<[op |-> "updateSlidesPosition", ids |-> a.ids, index |-> a.index]>>)

replaceAllTextInSlides(a, saw) == Last(saw, 0, <<[op |-> "replaceAllText", find |-> Needle, text |-> a.text]>>)

\* What is not given stays, as it was read; a scale of zero counts as one.
moveSlideElement(a, saw) ==
    LET found == {e \in OnSlides(saw[1]) : e.id = a.id}
        e == CHOOSE f \in found : TRUE
        scale == IF a.width # None THEN a.width \div e.size ELSE IF e.scale = 0 THEN 1 ELSE e.scale
    IN  IF saw = <<>> THEN Read
        ELSE IF found = {} THEN Decline
        ELSE Last(saw, 1, <<[op |-> "updateTransform", id |-> a.id, scale |-> scale, x |-> IF a.x = None THEN e.x ELSE a.x]>>)

deleteSlideElement(a, saw) == Last(saw, 0, <<[op |-> "deleteObject", id |-> a.id]>>)

insertImageIntoSlide(a, n) == <<[op |-> "createImage", page |-> a.page, id |-> <<10 * n, 1>>]>>

insertSlidesImageFromUrl(a, saw, n) == Last(saw, 0, insertImageIntoSlide(a, n))

\* Mutant: the image stays when the copying fails.
insertSlidesLocalImageOrStop(a, saw, n) ==
    LET first == UploadImage(TRUE) IN
      CASE Len(saw) < 3 -> Ask(first[Len(saw) + 1])
        [] Len(saw) = 3 -> Send(insertImageIntoSlide(a, n))
        [] Len(saw) = 4 -> IF saw[4] = Failed THEN Decline ELSE Ask("drop")
        [] Len(saw) = 5 -> Finish

\* The image is public while Google copies it, and goes however the copying ends.
insertSlidesLocalImage(a, saw, n) ==
    LET first == UploadImage(TRUE) IN
      CASE Len(saw) < 3 -> Ask(first[Len(saw) + 1])
        [] Len(saw) = 3 -> Send(insertImageIntoSlide(a, n))
        [] Len(saw) = 4 -> Ask("drop")
        [] Len(saw) = 5 -> IF saw[4] = Failed THEN Decline ELSE Finish

Handler(a, saw, n) ==
    CASE a.tool = "updateGoogleSlides" -> updateGoogleSlides(a, saw, n)
      [] a.tool = "formatGoogleSlidesText" -> formatGoogleSlidesText(a, saw)
      [] a.tool = "formatGoogleSlidesParagraph" -> formatGoogleSlidesParagraph(a, saw)
      [] a.tool = "styleGoogleSlidesShape" -> styleGoogleSlidesShape(a, saw)
      [] a.tool = "setGoogleSlidesBackground" -> setGoogleSlidesBackground(a, saw)
      [] a.tool = "createGoogleSlidesTextBox" -> createGoogleSlidesTextBox(a, saw, n)
      [] a.tool = "createGoogleSlidesShape" -> createGoogleSlidesShape(a, saw, n)
      [] a.tool = "updateGoogleSlidesSpeakerNotes" -> updateGoogleSlidesSpeakerNotes(a, saw)
      [] a.tool = "deleteGoogleSlide" -> deleteGoogleSlide(a, saw)
      [] a.tool = "duplicateSlide" -> duplicateSlide(a, saw)
      [] a.tool = "reorderSlides" -> reorderSlides(a, saw)
      [] a.tool = "replaceAllTextInSlides" -> replaceAllTextInSlides(a, saw)
      [] a.tool = "moveSlideElement" -> moveSlideElement(a, saw)
      [] a.tool = "deleteSlideElement" -> deleteSlideElement(a, saw)
      [] a.tool = "insertSlidesImageFromUrl" -> insertSlidesImageFromUrl(a, saw, n)
      [] a.tool = "insertSlidesLocalImage" -> insertSlidesLocalImage(a, saw, n)
      [] a.tool = "batch_update_presentation" -> BatchUpdate(a, saw, FALSE)

\* The handler goes on when this request fails: the copying, and the image's end.
Catches(a, saw) ==
    (a.tool = "insertSlidesLocalImage" /\ Len(saw) \in {3, 4}) \/ a.tool = "batch_update_presentation"


-----------------------------------------------------------------------------
(***************************************************************************)
(* The calls of an instance: every tool on the objects and the slides that *)
(* are there, on one that is not, and on a slide in the place of a text.   *)
(***************************************************************************)

Calls(p) ==
    LET pages == {s.id : s \in SlidesOf(p)}
        objects == {e.id : e \in Objects(p)} \cup {<<0, 0>>}
        on(tool) == {[Call(tool) EXCEPT !.id = i] : i \in objects}
        page(tool) == {[Call(tool) EXCEPT !.page = i, !.text = <<Word>>] : i \in pages \cup {<<0, 0>>}}
        given(C, S) == {[c EXCEPT !.attrs = S] : c \in C}
        content == [title |-> <<Word>>, body |-> Needle]
    IN  {[Call("updateGoogleSlides") EXCEPT !.slides = [i \in 1..k |-> content]] : k \in 0..3}
          \cup given({[c EXCEPT !.from = i[1], !.to = i[2]] : c \in on("formatGoogleSlidesText"), i \in {<<0, None>>, <<0, 1>>, <<1, 2>>}}, {"bold"})
          \cup given(on("formatGoogleSlidesParagraph"), {"centered", "bullets"})
          \cup given(on("styleGoogleSlidesShape"), {"filled"})
          \cup {[Call("setGoogleSlidesBackground") EXCEPT !.ids = <<p.slides[1].id, i>>] : i \in pages \cup {<<0, 0>>}}
          \cup given(page("createGoogleSlidesTextBox"), {"bold"}) \cup given(page("createGoogleSlidesShape"), {"filled"})
          \cup {[Call("updateGoogleSlidesSpeakerNotes") EXCEPT !.index = i, !.text = <<Word>>] : i \in 0..3}
          \cup page("deleteGoogleSlide") \cup page("duplicateSlide")
          \cup {[Call("reorderSlides") EXCEPT !.ids = <<i>>, !.index = k] : i \in pages, k \in {0, 1, Len(p.slides)}}
          \cup {[Call("reorderSlides") EXCEPT !.ids = <<p.slides[i].id, p.slides[i + 1].id>>, !.index = k] :
                   i \in 1..(Len(p.slides) - 1), k \in {0, Len(p.slides)}}
          \cup {[Call("replaceAllTextInSlides") EXCEPT !.text = <<Word>>]}
          \cup {[c EXCEPT !.x = i[1], !.width = i[2]] : c \in on("moveSlideElement"), i \in {<<None, None>>, <<3, None>>, <<3, 4>>}}
          \cup on("deleteSlideElement")
          \cup page("insertSlidesImageFromUrl") \cup page("insertSlidesLocalImage")
          \cup {[Call("batch_update_presentation") EXCEPT !.images = k, !.requests = insertImageIntoSlide([Call(None) EXCEPT !.page = i], 0)] :
                    k \in 0..2, i \in pages}

-----------------------------------------------------------------------------
(***************************************************************************)
(* What the tools promise, said of the presentation before and after a     *)
(* call that nothing disturbed.                                            *)
(***************************************************************************)

SlideOf(p, id) == CHOOSE s \in SlidesOf(p) : s.id = id

IdsOf(p) == {s.id : s \in SlidesOf(p)} \cup {e.id : e \in Objects(p)}

\* The slides without their ids.
Content(slide) ==
    LET bare(e) == IF e = None THEN None ELSE [e EXCEPT !.id = None] IN
      [slide EXCEPT !.id = None, !.notes = bare(@), !.elements = [k \in DOMAIN @ |-> bare(@[k])]]

Done(a, was, is) ==
    LET d == Object(was, a.id)
        e == Object(is, a.id)
        s == SlideOf(was, a.page).elements
        t == SlideOf(is, a.page).elements
        new == t[Len(t)]
        Grown(kind) == SubSeq(t, 1, Len(t) - 1) = s /\ new.kind = kind
    IN  CASE a.tool = "updateGoogleSlides" ->
                /\ Len(is.slides) = Len(a.slides)
                /\ \A i \in DOMAIN a.slides : \A x \in ElementsOf(is.slides[i]) :
                      Spelled(x.text) = IF x.kind \in Placeholders /\ (i = 1 => x \in LastOfKind(is.slides[1]))
                                        THEN a.slides[i][x.kind] ELSE <<>>
          [] a.tool = "formatGoogleSlidesText" ->
                \A i \in DOMAIN d.text :
                    e.text[i].style = d.text[i].style \cup (IF a.to = None \/ i - 1 \in a.from..(a.to - 1) THEN a.attrs ELSE {})
          [] a.tool \in {"formatGoogleSlidesParagraph", "styleGoogleSlidesShape"} -> e = [d EXCEPT !.attrs = @ \cup a.attrs]
          [] a.tool = "setGoogleSlidesBackground" ->
                \A i \in DOMAIN is.slides : is.slides[i].fill =
                    (was.slides[i].fill \/ \E k \in DOMAIN a.ids : a.ids[k] = is.slides[i].id)
          [] a.tool = "createGoogleSlidesTextBox" ->
                Grown("box") /\ Spelled(new.text) = a.text /\ \A i \in DOMAIN new.text : new.text[i].style = a.attrs
          [] a.tool = "createGoogleSlidesShape" -> Grown("box") /\ new.attrs = a.attrs
          [] a.tool \in {"insertSlidesImageFromUrl", "insertSlidesLocalImage"} -> Grown("image")
          [] a.tool = "updateGoogleSlidesSpeakerNotes" ->
                \A i \in DOMAIN is.slides : LET notes == is.slides[i].notes IN
                    IF i = a.index + 1 THEN Spelled(notes.text) = a.text ELSE notes = was.slides[i].notes
          [] a.tool \in {"deleteGoogleSlide", "deleteSlideElement"} ->
                LET id == IF a.page = None THEN a.id ELSE a.page
                    gone == IF a.page = None THEN {id} ELSE {id} \cup {x.id : x \in {y \in Objects(was) : y \in ElementsOf(SlideOf(was, id)) \cup {SlideOf(was, id).notes}}}
                IN  IdsOf(is) = IdsOf(was) \ gone
          [] a.tool = "duplicateSlide" ->
                \E i \in DOMAIN was.slides :
                    /\ was.slides[i].id = a.page
                    /\ SubSeq(is.slides, 1, i) \o SubSeq(is.slides, i + 2, Len(is.slides)) = was.slides
                    /\ Content(is.slides[i + 1]) = Content(was.slides[i])
          [] a.tool = "reorderSlides" ->
                LET from == Cardinality({i \in 1..a.index : was.slides[i].id \notin {a.ids[k] : k \in DOMAIN a.ids}}) IN
                  /\ SlidesOf(is) = SlidesOf(was) /\ Len(is.slides) = Len(was.slides)
                  /\ \A k \in DOMAIN a.ids : is.slides[from + k].id = a.ids[k]
          [] a.tool = "replaceAllTextInSlides" ->
                \A x \in OnSlides(is) : \A i \in DOMAIN x.text : ~At(x.text, i, Needle)
          [] a.tool = "moveSlideElement" ->
                /\ e.x = IF a.x = None THEN d.x ELSE a.x
                /\ a.width # None => e.scale * e.size = a.width
                /\ a.width = None => d.scale \in {e.scale, 0}
          [] OTHER -> TRUE

\* What a call reads and changes, and the presentation without it.
OnObject == {"formatGoogleSlidesText", "formatGoogleSlidesParagraph", "styleGoogleSlidesShape", "moveSlideElement"}
OnSlide == {"createGoogleSlidesTextBox", "createGoogleSlidesShape", "insertSlidesImageFromUrl", "insertSlidesLocalImage"}

Part(a, p) ==
    IF a.tool \in OnObject THEN {e \in Objects(p) : e.id = a.id}
    ELSE IF a.tool \in OnSlide THEN {s \in SlidesOf(p) : s.id = a.page}
    ELSE p.slides

\* A presentation without the elements that have an id.
Blank(p, id) ==
    [i \in DOMAIN p.slides |->
        [p.slides[i] EXCEPT !.notes = IF @ # None /\ @.id = id THEN None ELSE @,
                            !.elements = [k \in DOMAIN @ |-> IF @[k].id = id THEN None ELSE @[k]]]]

Rest(a, ref, p) ==
    IF a.tool \in OnObject THEN Blank(p, a.id)
    ELSE IF a.tool \in OnSlide THEN [i \in DOMAIN p.slides |-> IF p.slides[i].id = a.page THEN None ELSE p.slides[i]]
    ELSE IF a.tool = "updateGoogleSlidesSpeakerNotes" THEN [i \in DOMAIN p.slides |-> [p.slides[i] EXCEPT !.notes = None]]
    ELSE None
=============================================================================
