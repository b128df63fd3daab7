---------------------------- MODULE EditorsProofs ----------------------------
(***************************************************************************)
(* Proofs about Editors and the modules of the four kinds of files: the    *)
(* requests by which calls of several sessions edit a file.  For any       *)
(* constants that satisfy ConstantsAssumption.                             *)
(***************************************************************************)
EXTENDS Editors, FiniteSetTheorems, SequenceTheorems, WellFoundedInduction, TLAPS

Requests == INSTANCE EditRequests

-----------------------------------------------------------------------------
(***************************************************************************)
(* The images of a call.                                                   *)
(***************************************************************************)

Stages == {"stored", "shared", "linked"}

\* After m requests without a failure, every third of which fetches a link.
IsUpTo(images, m) ==
    /\ images \in Seq(Stages) /\ Len(images) = (m + 2) \div 3
    /\ \A i \in 1..Len(images) :
          images[i] = IF 3 * i <= m THEN "linked" ELSE IF 3 * i = m + 1 THEN "shared" ELSE "stored"

Uploading(r) ==
    /\ Len(r.saw) <= 3 * r.a.images
    /\ \A i \in 1..Len(r.saw) : r.saw[i] # Failed
    /\ IsUpTo(r.images, Len(r.saw))

\* With the R-th answer it turns to deleting D images.
Turned(a, saw, stays, R, D) ==
    LET uploads == 3 * a.images IN
      /\ R \in 1..(uploads + 1) /\ R <= Len(saw) /\ D \in Nat
      /\ \A i \in 1..(R - 1) : saw[i] # Failed
      /\ R <= uploads => saw[R] = Failed /\ D = (R - 1) \div 3
      /\ R > uploads => D = IF stays /\ saw[R] # Failed THEN 0 ELSE a.images

\* The first of its images are still to be deleted, and only those have a link.
AreLeft(r, due) ==
    /\ r.images \in Seq(Stages) /\ Len(r.images) >= due
    /\ r.kept \/ \A i \in 1..Len(r.images) : r.images[i] = "linked" => i <= due

Dropping(r, stays) ==
    \E R \in 1..(3 * r.a.images + 1), D \in 0..r.a.images :
        /\ Turned(r.a, r.saw, stays, R, D)
        /\ Len(r.saw) < R + D
        /\ AreLeft(r, R + D - Len(r.saw))

\* A sequence of whatever elements.
IsSequence(s) == s \in Seq({s[i] : i \in DOMAIN s})

IsCall(r) ==
    /\ r = [a |-> r.a, n |-> r.n, end |-> r.end, next |-> r.next, saw |-> r.saw, before |-> r.before,
            alone |-> r.alone, images |-> r.images, kept |-> r.kept]
    /\ IsSequence(r.saw)

\* The tool that a list of requests with images belongs to.
Batches == {"batch_update_document", "batch_update_presentation", "batch_update_spreadsheet"}

KindOf(tool) ==
    CASE tool = "batch_update_document" -> "document"
      [] tool \in {"batch_update_presentation", "insertSlidesLocalImage"} -> "presentation"
      [] tool = "batch_update_spreadsheet" -> "spreadsheet"

Stays(tool) == tool = "batch_update_spreadsheet"

WithImages == Batches \cup {"insertSlidesLocalImage"}

OfLocalImage(r) ==
    /\ Len(r.saw) \in 0..4
    /\ r.images = CASE Len(r.saw) = 0 -> <<>> [] Len(r.saw) = 1 -> <<"stored">> [] Len(r.saw) = 2 -> <<"shared">>
                    [] OTHER -> <<"linked">>

OfOpen(r) ==
    r.end = "open" /\ r.a.tool \in WithImages =>
        /\ kind = KindOf(r.a.tool)
        /\ r.next = Request(r)
        /\ r.a.tool = "insertSlidesLocalImage" => OfLocalImage(r)
        /\ r.a.tool \in Batches =>
              /\ r.a.images \in Nat /\ r.a.requests # <<>>
              /\ Uploading(r) \/ Dropping(r, Stays(r.a.tool))

Clearing(tool, end) ==
    \/ tool \in {"insertSlidesLocalImage", "batch_update_document", "batch_update_presentation"}
    \/ tool = "batch_update_spreadsheet" /\ end = "error"

OfEnded(r) ==
    r.end \in {"ok", "error"} /\ ~r.kept /\ r.images # <<>> /\ Clearing(r.a.tool, r.end) =>
        \A i \in DOMAIN r.images : r.images[i] # "linked"

ImagesInv ==
    /\ kind \in Kinds
    /\ call = [s \in Sessions |-> call[s]]
    /\ \A s \in Sessions : IsCall(call[s]) /\ OfOpen(call[s]) /\ OfEnded(call[s])

-----------------------------------------------------------------------------
(***************************************************************************)
(* Calls and their answers.                                                *)
(***************************************************************************)

LEMMA SequenceOf ==
    ASSUME NEW S, NEW s \in Seq(S)
    PROVE  IsSequence(s)
  <1>1. s = [i \in 1..Len(s) |-> s[i]] /\ Len(s) \in Nat /\ DOMAIN s = 1..Len(s) OBVIOUS
  <1> QED BY <1>1 DEF IsSequence

LEMMA EmptyIsSequence == IsSequence(<<>>)
  <1> <<>> \in Seq({}) OBVIOUS
  <1> QED BY SequenceOf

\* A sequence with one more element.
LEMMA OneMore ==
    ASSUME NEW s, IsSequence(s), NEW x
    PROVE  /\ IsSequence(Append(s, x))
           /\ Len(s) \in Nat /\ Len(Append(s, x)) = Len(s) + 1 /\ Append(s, x) # <<>>
           /\ \A i \in 1..Len(s) : Append(s, x)[i] = s[i]
           /\ Append(s, x)[Len(s) + 1] = x
  <1> DEFINE T == {s[i] : i \in DOMAIN s} \cup {x}
  <1>1. s \in Seq(T) /\ x \in T BY DEF IsSequence
  <1> HIDE DEF T
  <1>2. Append(s, x) \in Seq(T) BY <1>1
  <1>3. IsSequence(Append(s, x)) BY <1>2, SequenceOf
  <1>4. /\ Len(s) \in Nat /\ Len(Append(s, x)) = Len(s) + 1 /\ Append(s, x) # <<>>
        /\ \A i \in 1..Len(s) : Append(s, x)[i] = s[i]
        /\ Append(s, x)[Len(s) + 1] = x
    BY <1>1
  <1> QED BY <1>3, <1>4

\* What the updates of a call are.
LEMMA CallUpdates ==
    ASSUME NEW r, IsCall(r), NEW v
    PROVE  /\ [r EXCEPT !.saw = Append(@, v)] =
                 [a |-> r.a, n |-> r.n, end |-> r.end, next |-> r.next, saw |-> Append(r.saw, v), before |-> r.before,
                  alone |-> r.alone, images |-> r.images, kept |-> r.kept]
           /\ [r EXCEPT !.next = v] =
                 [a |-> r.a, n |-> r.n, end |-> r.end, next |-> v, saw |-> r.saw, before |-> r.before,
                  alone |-> r.alone, images |-> r.images, kept |-> r.kept]
           /\ [r EXCEPT !.images = v] =
                 [a |-> r.a, n |-> r.n, end |-> r.end, next |-> r.next, saw |-> r.saw, before |-> r.before,
                  alone |-> r.alone, images |-> v, kept |-> r.kept]
           /\ [r EXCEPT !.alone = v] =
                 [a |-> r.a, n |-> r.n, end |-> r.end, next |-> r.next, saw |-> r.saw, before |-> r.before,
                  alone |-> v, images |-> r.images, kept |-> r.kept]
           /\ [r EXCEPT !.kept = v] =
                 [a |-> r.a, n |-> r.n, end |-> r.end, next |-> r.next, saw |-> r.saw, before |-> r.before,
                  alone |-> r.alone, images |-> r.images, kept |-> v]
  <1> DEFINE w == [a |-> r.a, n |-> r.n, end |-> r.end, next |-> r.next, saw |-> r.saw, before |-> r.before,
                   alone |-> r.alone, images |-> r.images, kept |-> r.kept]
  <1>1. r = w BY DEF IsCall
  <1>2. [r EXCEPT !.saw = Append(@, v)] =
            [a |-> r.a, n |-> r.n, end |-> r.end, next |-> r.next, saw |-> Append(r.saw, v), before |-> r.before, alone |-> r.alone, images |-> r.images, kept |-> r.kept]
    BY SMTT(30), <1>1
  <1>3. [r EXCEPT !.next = v] =
            [a |-> r.a, n |-> r.n, end |-> r.end, next |-> v, saw |-> r.saw, before |-> r.before, alone |-> r.alone, images |-> r.images, kept |-> r.kept]
    BY <1>1
  <1>4. [r EXCEPT !.images = v] =
            [a |-> r.a, n |-> r.n, end |-> r.end, next |-> r.next, saw |-> r.saw, before |-> r.before, alone |-> r.alone, images |-> v, kept |-> r.kept]
    BY <1>1
  <1>5. [r EXCEPT !.alone = v] =
            [a |-> r.a, n |-> r.n, end |-> r.end, next |-> r.next, saw |-> r.saw, before |-> r.before, alone |-> v, images |-> r.images, kept |-> r.kept]
    BY <1>1
  <1>6. [r EXCEPT !.kept = v] =
            [a |-> r.a, n |-> r.n, end |-> r.end, next |-> r.next, saw |-> r.saw, before |-> r.before, alone |-> r.alone, images |-> r.images, kept |-> v]
    BY <1>1
  <1> QED BY <1>2, <1>3, <1>4, <1>5, <1>6

LEMMA EndedIs ==
    ASSUME NEW r, NEW end
    PROVE  Ended(r, end) = [a |-> IF r.images = <<>> THEN None ELSE r.a, n |-> 0, end |-> end, next |-> None,
                            saw |-> <<>>, before |-> None, alone |-> FALSE, images |-> r.images,
                            kept |-> IF r.images = <<>> THEN FALSE ELSE r.kept]
  BY DEF Ended, Idle

LEMMA CallShape ==
    ASSUME NEW r, IsCall(r), NEW v
    PROVE  /\ IsCall(Ended(r, v))
           /\ IsCall([r EXCEPT !.saw = Append(@, v)])
           /\ IsCall([r EXCEPT !.next = v])
           /\ IsCall([r EXCEPT !.images = v])
           /\ IsCall([r EXCEPT !.alone = v])
           /\ IsCall([r EXCEPT !.kept = v])
  <1>1. IsSequence(r.saw) /\ IsSequence(Append(r.saw, v)) /\ IsSequence(<<>>)
    BY OneMore, EmptyIsSequence DEF IsCall
  <1>2. IsCall(Ended(r, v)) BY <1>1, EndedIs DEF IsCall
  <1>3. IsCall([r EXCEPT !.saw = Append(@, v)])
    <2>1. IsCall([a |-> r.a, n |-> r.n, end |-> r.end, next |-> r.next, saw |-> Append(r.saw, v), before |-> r.before, alone |-> r.alone, images |-> r.images, kept |-> r.kept])
      BY <1>1 DEF IsCall
    <2> QED BY <2>1, CallUpdates
  <1>4. IsCall([r EXCEPT !.next = v])
    <2>1. IsCall([a |-> r.a, n |-> r.n, end |-> r.end, next |-> v, saw |-> r.saw, before |-> r.before, alone |-> r.alone, images |-> r.images, kept |-> r.kept])
      BY <1>1 DEF IsCall
    <2> QED BY <2>1, CallUpdates
  <1>5. IsCall([r EXCEPT !.images = v])
    <2>1. IsCall([a |-> r.a, n |-> r.n, end |-> r.end, next |-> r.next, saw |-> r.saw, before |-> r.before, alone |-> r.alone, images |-> v, kept |-> r.kept])
      BY <1>1 DEF IsCall
    <2> QED BY <2>1, CallUpdates
  <1>6. IsCall([r EXCEPT !.alone = v])
    <2>1. IsCall([a |-> r.a, n |-> r.n, end |-> r.end, next |-> r.next, saw |-> r.saw, before |-> r.before, alone |-> v, images |-> r.images, kept |-> r.kept])
      BY <1>1 DEF IsCall
    <2> QED BY <2>1, CallUpdates
  <1>7. IsCall([r EXCEPT !.kept = v])
    <2>1. IsCall([a |-> r.a, n |-> r.n, end |-> r.end, next |-> r.next, saw |-> r.saw, before |-> r.before, alone |-> r.alone, images |-> r.images, kept |-> v])
      BY <1>1 DEF IsCall
    <2> QED BY <2>1, CallUpdates
  <1> QED BY <1>2, <1>3, <1>4, <1>5, <1>6, <1>7

LEMMA IdleIsCall == IsCall(Idle)
  BY EmptyIsSequence DEF IsCall, Idle

-----------------------------------------------------------------------------
(***************************************************************************)
(* The images that are uploaded before a list of requests.                 *)
(***************************************************************************)

LEMMA SameBatchUpdate ==
    ASSUME NEW a, NEW saw, NEW stays
    PROVE  /\ Docs!BatchUpdate(a, saw, stays) = Requests!BatchUpdate(a, saw, stays)
           /\ Slides!BatchUpdate(a, saw, stays) = Requests!BatchUpdate(a, saw, stays)
           /\ Sheets!BatchUpdate(a, saw, stays) = Requests!BatchUpdate(a, saw, stays)
  BY DEF Requests!BatchUpdate, Docs!BatchUpdate, Slides!BatchUpdate, Sheets!BatchUpdate,
         Requests!Decline, Docs!Decline, Slides!Decline, Sheets!Decline,
         Requests!Finish, Docs!Finish, Slides!Finish, Sheets!Finish,
         Requests!Ask, Docs!Ask, Slides!Ask, Sheets!Ask,
         Requests!Send, Docs!Send, Slides!Send, Sheets!Send,
         Requests!MinOf, Docs!MinOf, Slides!MinOf, Sheets!MinOf,
         Requests!UploadImage, Docs!UploadImage, Slides!UploadImage, Sheets!UploadImage

\* The request for the next image of which m requests have been made.
Upload(m) == IF m % 3 = 0 THEN "create" ELSE IF m % 3 = 1 THEN "share" ELSE "link"

LEMMA BatchWhileUploading ==
    ASSUME NEW a, NEW saw, NEW stays, IsSequence(saw), a.images \in Nat, a.requests # <<>>,
           Len(saw) <= 3 * a.images, \A i \in 1..Len(saw) : saw[i] # Failed
    PROVE  Requests!BatchUpdate(a, saw, stays) =
              IF Len(saw) < 3 * a.images THEN [op |-> Upload(Len(saw))] ELSE [op |-> "batch", requests |-> a.requests]
  <1>1. Len(saw) \in Nat /\ DOMAIN saw = 1..Len(saw) BY DEF IsSequence
  <1>2. {i \in DOMAIN saw : i <= 3 * a.images /\ saw[i] = Failed} = {} BY <1>1
  <1>3. Requests!UploadImage(TRUE)[(Len(saw) % 3) + 1] = Upload(Len(saw))
    <2>1. Requests!UploadImage(TRUE) = <<"create", "share", "link">> BY DEF Requests!UploadImage
    <2>2. Len(saw) % 3 \in {0, 1, 2} BY <1>1
    <2>3. \A x \in {0, 1, 2} :
            <<"create", "share", "link">>[x + 1] = IF x = 0 THEN "create" ELSE IF x = 1 THEN "share" ELSE "link"
      OBVIOUS
    <2> QED BY <2>1, <2>2, <2>3 DEF Upload
  <1>4. CASE Len(saw) < 3 * a.images
    <2>1. Requests!BatchUpdate(a, saw, stays) = Requests!Ask(Requests!UploadImage(TRUE)[(Len(saw) % 3) + 1])
      <3>1. Len(saw) # 3 * a.images BY <1>1, <1>4
      <3> QED BY <1>2, <1>4, <3>1 DEF Requests!BatchUpdate
    <2> QED BY <1>3, <1>4, <2>1 DEF Requests!Ask
  <1>5. CASE ~(Len(saw) < 3 * a.images)
    <2>1. Len(saw) = 3 * a.images BY <1>1, <1>5
    <2> QED BY <1>2, <1>5, <2>1 DEF Requests!BatchUpdate, Requests!Send
  <1> QED BY <1>4, <1>5

LEMMA BatchOnceTurned ==
    ASSUME NEW a, NEW saw, NEW stays \in BOOLEAN, IsSequence(saw), a.images \in Nat, a.requests # <<>>,
           NEW R, NEW D, Turned(a, saw, stays, R, D)
    PROVE  Requests!BatchUpdate(a, saw, stays) =
              IF Len(saw) < R + D THEN [op |-> "drop"]
              ELSE IF saw[R] = Failed THEN [op |-> "decline"] ELSE [op |-> "finish"]
  <1> DEFINE failed == {i \in DOMAIN saw : i <= 3 * a.images /\ saw[i] = Failed}
  <1>1. Len(saw) \in Nat /\ DOMAIN saw = 1..Len(saw) BY DEF IsSequence
  <1>2. CASE R <= 3 * a.images
    <2>1. R \in failed /\ \A i \in failed : R <= i BY SMTT(30), <1>1, <1>2 DEF Turned
    <2>2. Requests!MinOf(failed) = R
      <3>1. \A x \in failed : x \in Nat BY <1>1
      <3> HIDE DEF failed
      <3> QED BY <2>1, <3>1 DEF Requests!MinOf
    <2>3. saw[R] = Failed /\ D = (R - 1) \div 3 /\ failed # {} BY <1>2, <2>1 DEF Turned
    <2> QED BY <2>2, <2>3 DEF Requests!BatchUpdate, Requests!Ask, Requests!Decline
  <1>3. CASE R > 3 * a.images
    <2>1. R = 3 * a.images + 1 /\ failed = {} /\ ~(Len(saw) < 3 * a.images) /\ Len(saw) # 3 * a.images
      BY SMTT(30), <1>1, <1>3 DEF Turned
    <2>2. D = IF stays /\ ~(saw[R] = Failed) THEN 0 ELSE a.images BY <1>3 DEF Turned
    <2> QED BY <2>1, <2>2 DEF Requests!BatchUpdate, Requests!Ask, Requests!Decline, Requests!Finish
  <1>4. R \in Nat BY DEF Turned
  <1> QED BY <1>2, <1>3, <1>4

LEMMA OneMoreUploaded ==
    ASSUME NEW images, NEW m \in Nat, IsUpTo(images, m)
    PROVE  IsUpTo(Stored(images, Upload(m)), m + 1)
  <1> DEFINE new == Stored(images, Upload(m))
             l == Len(images)
             Is(i, n) == IF 3 * i <= n THEN "linked" ELSE IF 3 * i = n + 1 THEN "shared" ELSE "stored"
  <1>0. images \in Seq(Stages) /\ l = (m + 2) \div 3 /\ l \in Nat /\ \A i \in 1..l : images[i] = Is(i, m)
    BY DEF IsUpTo
  <1>1. CASE m % 3 = 0
    <2>1. 3 * l = m /\ (m + 3) \div 3 = l + 1 BY <1>0, <1>1
    <2>2. new = Append(images, "stored") BY <1>1 DEF Stored, Upload
    <2>3. new \in Seq(Stages) /\ Len(new) = l + 1 /\ new[l + 1] = "stored" /\ \A i \in 1..l : new[i] = images[i]
      BY <1>0, <2>2 DEF Stages
    <2>4. ASSUME NEW i \in 1..(l + 1) PROVE new[i] = Is(i, m + 1)
      <3>1. CASE i = l + 1 BY <1>0, <2>1, <2>3, <3>1
      <3>2. CASE i \in 1..l
        <4>1. 3 * i <= m /\ 3 * i <= m + 1 BY <1>0, <2>1, <3>2
        <4> QED BY <1>0, <2>3, <3>2, <4>1
      <3> QED BY <1>0, <3>1, <3>2
    <2> QED BY <2>1, <2>3, <2>4 DEF IsUpTo
  <1>2. CASE m % 3 = 1
    <2>1. 3 * l = m + 2 /\ (m + 3) \div 3 = l BY <1>0, <1>2
    <2>2. new = [images EXCEPT ![l] = "shared"] BY <1>2 DEF Stored, Upload
    <2>3. new \in Seq(Stages) /\ Len(new) = l /\ new[l] = "shared" /\ \A i \in 1..(l - 1) : new[i] = images[i]
      BY <1>0, <2>1, <2>2 DEF Stages
    <2>4. ASSUME NEW i \in 1..l PROVE new[i] = Is(i, m + 1)
      <3>1. CASE i = l BY <1>0, <2>1, <2>3, <3>1
      <3>2. CASE i \in 1..(l - 1)
        <4>1. 3 * i <= m /\ 3 * i <= m + 1 BY <1>0, <2>1, <3>2
        <4> QED BY <1>0, <2>3, <3>2, <4>1
      <3> QED BY <1>0, <3>1, <3>2
    <2> QED BY <2>1, <2>3, <2>4 DEF IsUpTo
  <1>3. CASE m % 3 = 2
    <2>1. 3 * l = m + 1 /\ (m + 3) \div 3 = l BY <1>0, <1>3
    <2>2. new = [images EXCEPT ![l] = "linked"] BY <1>3 DEF Stored, Upload
    <2>3. new \in Seq(Stages) /\ Len(new) = l /\ new[l] = "linked" /\ \A i \in 1..(l - 1) : new[i] = images[i]
      BY <1>0, <2>1, <2>2 DEF Stages
    <2>4. ASSUME NEW i \in 1..l PROVE new[i] = Is(i, m + 1)
      <3>1. CASE i = l BY <1>0, <2>1, <2>3, <3>1
      <3>2. CASE i \in 1..(l - 1)
        <4>1. 3 * i <= m /\ 3 * i <= m + 1 BY <1>0, <2>1, <3>2
        <4> QED BY <1>0, <2>3, <3>2, <4>1
      <3> QED BY <1>0, <3>1, <3>2
    <2> QED BY <2>1, <2>3, <2>4 DEF IsUpTo
  <1> QED BY <1>1, <1>2, <1>3

\* When the request after m of them fails, the images with a link are to be deleted.
LEMMA UploadedAreLeft ==
    ASSUME NEW r, NEW m \in Nat, IsUpTo(r.images, m)
    PROVE  AreLeft(r, m \div 3)
  <1>1. r.images \in Seq(Stages) /\ Len(r.images) \in Nat /\ Len(r.images) = (m + 2) \div 3
    BY DEF IsUpTo
  <1>2. Len(r.images) >= m \div 3 BY <1>1
  <1>3. ASSUME NEW i \in 1..Len(r.images), r.images[i] = "linked" PROVE i <= m \div 3
    <2>1. 3 * i <= m BY <1>3 DEF IsUpTo
    <2> QED BY <1>1, <2>1
  <1> QED BY <1>1, <1>2, <1>3 DEF AreLeft

\* A deletion.
LEMMA OneIsLeftLess ==
    ASSUME NEW r, NEW due \in Nat, due > 0, AreLeft(r, due), IsCall(r)
    PROVE  /\ AreLeft([r EXCEPT !.images = Stored(@, "drop")], due - 1)
           /\ AreLeft([r EXCEPT !.kept = TRUE], due - 1)
  <1>1. r.images \in Seq(Stages) /\ Len(r.images) \in Nat /\ r.images # <<>> /\ Len(r.images) > 0
    BY DEF AreLeft
  <1>2. Stored(r.images, "drop") = Tail(r.images) BY DEF Stored
  <1>3. /\ Tail(r.images) \in Seq(Stages) /\ Len(Tail(r.images)) = Len(r.images) - 1
        /\ \A i \in 1..(Len(r.images) - 1) : Tail(r.images)[i] = r.images[i + 1]
    BY <1>1
  <1>4. /\ [r EXCEPT !.images = Stored(@, "drop")].images = Tail(r.images)
        /\ [r EXCEPT !.images = Stored(@, "drop")].kept = r.kept
        /\ [r EXCEPT !.kept = TRUE].images = r.images /\ [r EXCEPT !.kept = TRUE].kept
    BY <1>2, CallUpdates
  <1>5. ASSUME ~r.kept, NEW i \in 1..Len(Tail(r.images)), Tail(r.images)[i] = "linked" PROVE i <= due - 1
    <2>1. i + 1 \in 1..Len(r.images) /\ r.images[i + 1] = "linked" BY <1>1, <1>3, <1>5
    <2> QED BY <1>5, <2>1 DEF AreLeft
  <1>6. Len(Tail(r.images)) >= due - 1 /\ Len(r.images) >= due - 1 BY <1>1, <1>3 DEF AreLeft
  <1> QED BY <1>1, <1>3, <1>4, <1>5, <1>6 DEF AreLeft

-----------------------------------------------------------------------------
(***************************************************************************)
(* The next request, and the end.                                          *)
(***************************************************************************)

LEMMA BatchRequest ==
    ASSUME NEW r, r.a.tool \in Batches, kind = KindOf(r.a.tool)
    PROVE  Request(r) = Requests!BatchUpdate(r.a, r.saw, Stays(r.a.tool)) /\ Catches(r) /\ Stays(r.a.tool) \in BOOLEAN
  <1>1. CASE r.a.tool = "batch_update_document"
    <2>1. kind = "document" /\ Stays(r.a.tool) = FALSE BY <1>1 DEF KindOf, Stays
    <2>2. Request(r) = Docs!Handler(r.a, r.saw) /\ Catches(r)
      BY <1>1, <2>1 DEF Request, Catches, Docs!Catches
    <2>3. Docs!Handler(r.a, r.saw) = Docs!BatchUpdate(r.a, r.saw, FALSE) BY <1>1 DEF Docs!Handler
    <2> QED BY <2>1, <2>2, <2>3, SameBatchUpdate
  <1>2. CASE r.a.tool = "batch_update_presentation"
    <2>1. kind = "presentation" /\ Stays(r.a.tool) = FALSE BY <1>2 DEF KindOf, Stays
    <2>2. Request(r) = Slides!Handler(r.a, r.saw, r.n) /\ Catches(r)
      BY <1>2, <2>1 DEF Request, Catches, Slides!Catches
    <2>3. Slides!Handler(r.a, r.saw, r.n) = Slides!BatchUpdate(r.a, r.saw, FALSE)
      BY <1>2 DEF Slides!Handler
    <2> QED BY <2>1, <2>2, <2>3, SameBatchUpdate
  <1>3. CASE r.a.tool = "batch_update_spreadsheet"
    <2>1. kind = "spreadsheet" /\ Stays(r.a.tool) = TRUE BY <1>3 DEF KindOf, Stays
    <2>2. Request(r) = Sheets!Handler(r.a, r.saw) /\ Catches(r)
      BY <1>3, <2>1 DEF Request, Catches, Sheets!Catches
    <2>3. Sheets!Handler(r.a, r.saw) = Sheets!BatchUpdate(r.a, r.saw, TRUE)
      BY <1>3 DEF Sheets!Handler
    <2> QED BY <2>1, <2>2, <2>3, SameBatchUpdate
  <1> QED BY <1>1, <1>2, <1>3 DEF Batches

LEMMA FirstThree ==
    ASSUME NEW m \in Nat, m < 3
    PROVE  <<"create", "share", "link">>[m + 1] = Upload(m) /\ m # 3 /\ m # 4 /\ m # 5
  <1>1. m \in {0, 1, 2} OBVIOUS
  <1>2. /\ <<"create", "share", "link">>[0 + 1] = Upload(0) /\ <<"create", "share", "link">>[1 + 1] = Upload(1)
        /\ <<"create", "share", "link">>[2 + 1] = Upload(2)
    BY DEF Upload
  <1> QED BY <1>1, <1>2

LEMMA LocalImageRequest ==
    ASSUME NEW r, r.a.tool = "insertSlidesLocalImage", kind = "presentation", IsCall(r)
    PROVE  /\ Request(r) = Slides!insertSlidesLocalImage(r.a, r.saw, r.n)
           /\ Catches(r) <=> Len(r.saw) \in {3, 4}
           /\ Len(r.saw) < 3 => Request(r) = [op |-> Upload(Len(r.saw))]
           /\ Len(r.saw) = 3 => Request(r).op = "batch"
           /\ Len(r.saw) = 4 => Request(r) = [op |-> "drop"]
           /\ Len(r.saw) = 5 => Request(r).op \in {"finish", "decline"}
  <1>1. Request(r) = Slides!insertSlidesLocalImage(r.a, r.saw, r.n) BY DEF Request, Slides!Handler
  <1>2. Catches(r) <=> Len(r.saw) \in {3, 4} BY DEF Catches, Slides!Catches
  <1>3. Len(r.saw) \in Nat BY DEF IsCall, IsSequence
  <1>4. Slides!UploadImage(TRUE) = <<"create", "share", "link">> BY DEF Slides!UploadImage
  <1>5. ASSUME Len(r.saw) < 3 PROVE Request(r) = [op |-> Upload(Len(r.saw))]
    <2>1. <<"create", "share", "link">>[Len(r.saw) + 1] = Upload(Len(r.saw))
      BY <1>3, <1>5, FirstThree
    <2>2. Len(r.saw) # 3 /\ Len(r.saw) # 4 /\ Len(r.saw) # 5 BY <1>3, <1>5, FirstThree
    <2>3. Slides!insertSlidesLocalImage(r.a, r.saw, r.n) = Slides!Ask(<<"create", "share", "link">>[Len(r.saw) + 1])
      BY <1>5, <2>2, <1>4 DEF Slides!insertSlidesLocalImage
    <2> QED BY <1>1, <2>1, <2>3 DEF Slides!Ask
  <1>6. Len(r.saw) = 3 => Request(r).op = "batch"
    BY <1>1 DEF Slides!insertSlidesLocalImage, Slides!Send
  <1>7. Len(r.saw) = 4 => Request(r) = [op |-> "drop"]
    BY <1>1 DEF Slides!insertSlidesLocalImage, Slides!Ask
  <1>8. Len(r.saw) = 5 => Request(r).op \in {"finish", "decline"}
    BY <1>1 DEF Slides!insertSlidesLocalImage, Slides!Ask, Slides!Decline, Slides!Finish
  <1> QED BY <1>1, <1>2, <1>5, <1>6, <1>7, <1>8

LEMMA EndedIsOfEnded ==
    ASSUME NEW r, NEW end, end # "open",
           r.kept \/ (end = "ok" /\ r.a.tool = "batch_update_spreadsheet") \/ \A i \in DOMAIN r.images : r.images[i] # "linked"
    PROVE  OfOpen(Ended(r, end)) /\ OfEnded(Ended(r, end))
  <1> DEFINE e == Ended(r, end)
  <1>1. e.end = end /\ e.images = r.images BY EndedIs
  <1>2. e.images # <<>> => e.a = r.a /\ e.kept = r.kept BY EndedIs
  <1> HIDE DEF e
  <1>3. OfOpen(e) BY <1>1 DEF OfOpen
  <1>4. OfEnded(e) BY <1>1, <1>2 DEF OfEnded, Clearing
  <1> QED BY <1>3, <1>4 DEF e

\* What a call x becomes when its answer has been taken.
LEMMA GoesOnWhileOpen ==
    ASSUME NEW x, x.next.op \notin {"finish", "decline"}
    PROVE  GoesOn(x) = x
  BY DEF GoesOn

LEMMA GoesOnToItsEnd ==
    ASSUME NEW x
    PROVE  /\ x.next.op = "finish" => GoesOn(x) = Ended(x, "ok")
           /\ x.next.op = "decline" => GoesOn(x) = Ended(x, "error")
  BY DEF GoesOn

\* The call x is the call r with the answer v to its request, and goes on.
IsHeard(r, v, x) ==
    /\ IsCall(r) /\ IsCall(x)
    /\ x.a = r.a /\ x.n = r.n /\ x.end = "open" /\ x.saw = Append(r.saw, v) /\ x.next = Request(x)
    /\ r.kept => x.kept
    /\ \/ r.next.op \in {"create", "share", "link", "drop"} /\ v = None /\ x.images = Stored(r.images, r.next.op)
       \/ r.next.op = "batch" /\ x.images = r.images
       \/ v = Failed /\ x.images = r.images /\ (r.next.op = "drop" => x.kept)

LEMMA WithinUploads ==
    ASSUME NEW m \in Nat, NEW k \in Nat, m < 3 * k
    PROVE  m + 1 \in 1..(3 * k + 1) /\ m \div 3 \in 0..k /\ (m + 1) - 1 = m /\ m + 1 <= 3 * k /\ m \div 3 \in Nat /\ ~(m + 1 > 3 * k)
  OBVIOUS

LEMMA AfterUploads ==
    ASSUME NEW m \in Nat, NEW k \in Nat, m <= 3 * k, ~(m < 3 * k)
    PROVE  m = 3 * k /\ m + 1 \in 1..(3 * k + 1) /\ m \div 3 = k /\ (m + 1) - 1 = m /\ ~(m + 1 <= 3 * k) /\ k \in 0..k /\ 0 \in 0..k
  OBVIOUS

LEMMA TurnsHere ==
    ASSUME NEW a, NEW saw, NEW stays, NEW m \in Nat, a.images \in Nat, Len(saw) = m + 1,
           \A i \in 1..m : saw[i] # Failed
    PROVE  /\ m < 3 * a.images /\ saw[m + 1] = Failed => Turned(a, saw, stays, m + 1, m \div 3)
           /\ m = 3 * a.images => Turned(a, saw, stays, m + 1, IF stays /\ saw[m + 1] # Failed THEN 0 ELSE a.images)
  <1> DEFINE k == a.images
  <1>1. ASSUME m < 3 * k, saw[m + 1] = Failed PROVE Turned(a, saw, stays, m + 1, m \div 3)
    <2>1. m + 1 \in 1..(3 * k + 1) /\ m \div 3 \in Nat /\ (m + 1) - 1 = m /\ m + 1 <= 3 * k /\ ~(m + 1 > 3 * k)
      BY <1>1, WithinUploads
    <2> QED BY <1>1, <2>1 DEF Turned
  <1>2. ASSUME m = 3 * k PROVE Turned(a, saw, stays, m + 1, IF stays /\ saw[m + 1] # Failed THEN 0 ELSE k)
    <2>1. m + 1 \in 1..(3 * k + 1) /\ (m + 1) - 1 = m /\ ~(m + 1 <= 3 * k) BY <1>2
    <2> QED BY <1>2, <2>1 DEF Turned
  <1> QED BY <1>1, <1>2

LEMMA WhatIsLeft ==
    ASSUME NEW m \in Nat, NEW R \in Nat, NEW D \in Nat, m < R + D
    PROVE  /\ R + D - m \in Nat /\ R + D - m > 0 /\ R + D - (m + 1) = (R + D - m) - 1 /\ m + 1 <= R + D
  OBVIOUS

LEMMA HeardWhileUploading ==
    ASSUME NEW r, NEW v, NEW x, IsHeard(r, v, x), None # Failed,
           r.a.tool \in Batches, kind = KindOf(r.a.tool), r.next = Request(r), r.a.images \in Nat, r.a.requests # <<>>,
           Uploading(r)
    PROVE  \/ Uploading(x)
           \/ \E R \in 1..(3 * r.a.images + 1), D \in 0..r.a.images :
                /\ Turned(x.a, x.saw, Stays(r.a.tool), R, D) /\ Len(x.saw) = R
                /\ AreLeft(x, D) \/ (Stays(r.a.tool) /\ x.saw[R] # Failed /\ D = 0)
  <1> DEFINE m == Len(r.saw)
             k == r.a.images
             stays == Stays(r.a.tool)
  <1>1. /\ m \in Nat /\ Len(x.saw) = m + 1 /\ x.saw[m + 1] = v /\ \A i \in 1..m : x.saw[i] = r.saw[i]
        /\ x.a = r.a
    BY OneMore DEF IsHeard, IsCall
  <1>2. m <= 3 * k /\ IsUpTo(r.images, m) /\ \A i \in 1..m : r.saw[i] # Failed BY DEF Uploading
  <1>3. r.next = IF m < 3 * k THEN [op |-> Upload(m)] ELSE [op |-> "batch", requests |-> r.a.requests]
    BY <1>2, BatchRequest, BatchWhileUploading DEF IsHeard, IsCall
  <1>4. x.images = r.images => AreLeft(x, m \div 3) BY <1>1, <1>2, UploadedAreLeft
  <1>5. \A i \in 1..m : x.saw[i] # Failed BY <1>1, <1>2
  <1>6. CASE m < 3 * k
    <2>1. r.next.op = Upload(m) /\ r.next.op \in {"create", "share", "link"}
      BY <1>3, <1>6 DEF Upload
    <2>2. CASE v = None /\ x.images = Stored(r.images, r.next.op)
      <3>1. IsUpTo(x.images, m + 1) BY <1>1, <1>2, <2>1, <2>2, OneMoreUploaded
      <3>2. ASSUME NEW i \in 1..(m + 1) PROVE x.saw[i] # Failed BY <1>1, <1>5, <2>2
      <3>3. m + 1 <= 3 * k BY <1>1, <1>6
      <3> QED BY <1>1, <3>1, <3>2, <3>3 DEF Uploading
    <2>3. CASE v = Failed /\ x.images = r.images
      <3>1. m + 1 \in 1..(3 * k + 1) /\ m \div 3 \in 0..k /\ (m + 1) - 1 = m /\ m + 1 <= 3 * k
        BY <1>1, <1>6, WithinUploads
      <3>2. Turned(x.a, x.saw, stays, m + 1, m \div 3) BY <1>1, <1>5, <1>6, <2>3, TurnsHere
      <3> QED BY <1>1, <1>4, <2>3, <3>1, <3>2
    <2> QED BY <2>1, <2>2, <2>3 DEF IsHeard
  <1>7. CASE ~(m < 3 * k)
    <2>0. r.next.op = "batch" BY <1>3, <1>7
    <2>1. m = 3 * k /\ r.next.op = "batch" /\ m \div 3 = k BY <1>1, <1>2, <1>7, <2>0, AfterUploads
    <2>2. x.images = r.images BY <2>1 DEF IsHeard
    <2> DEFINE D == IF stays /\ v # Failed THEN 0 ELSE k
    <2>3. m + 1 \in 1..(3 * k + 1) /\ D \in 0..k /\ (m + 1) - 1 = m /\ ~(m + 1 <= 3 * k) /\ D \in Nat
      BY <1>1, <1>2, <1>7, AfterUploads
    <2>4. Turned(x.a, x.saw, stays, m + 1, D)
      <3>1. x.a.images \in Nat /\ m = 3 * x.a.images BY <1>1, <2>1
      <3>2. Turned(x.a, x.saw, stays, m + 1, IF stays /\ x.saw[m + 1] # Failed THEN 0 ELSE x.a.images)
        BY <1>1, <1>5, <3>1, TurnsHere
      <3> QED BY <1>1, <3>2
    <2>5. AreLeft(x, D) \/ (stays /\ x.saw[m + 1] # Failed /\ D = 0) BY <1>1, <1>4, <2>1, <2>2
    <2> QED BY <1>1, <2>3, <2>4, <2>5
  <1> QED BY <1>6, <1>7

LEMMA HeardWhileDropping ==
    ASSUME NEW r, NEW v, NEW x, IsHeard(r, v, x), NEW R, NEW D,
           r.a.tool \in Batches, kind = KindOf(r.a.tool), r.next = Request(r), r.a.images \in Nat, r.a.requests # <<>>,
           Turned(r.a, r.saw, Stays(r.a.tool), R, D), Len(r.saw) < R + D, AreLeft(r, R + D - Len(r.saw))
    PROVE  Turned(x.a, x.saw, Stays(r.a.tool), R, D) /\ Len(x.saw) <= R + D /\ AreLeft(x, R + D - Len(x.saw))
  <1> DEFINE m == Len(r.saw)
             due == R + D - m
  <1>1. /\ m \in Nat /\ Len(x.saw) = m + 1 /\ x.saw[m + 1] = v /\ \A i \in 1..m : x.saw[i] = r.saw[i]
        /\ x.a = r.a
    BY OneMore DEF IsHeard, IsCall
  <1>2. R \in Nat /\ D \in Nat /\ R \in 1..m BY <1>1 DEF Turned
  <1>3. r.next = [op |-> "drop"] BY BatchRequest, BatchOnceTurned DEF IsHeard, IsCall
  <1>4. x.saw[R] = r.saw[R] /\ \A i \in 1..(R - 1) : x.saw[i] = r.saw[i]
    <2>1. R \in 1..m /\ \A i \in 1..(R - 1) : i \in 1..m BY <1>1, <1>2
    <2>2. \A i \in 1..m : x.saw[i] = r.saw[i] BY <1>1
    <2> HIDE DEF m
    <2> QED BY <2>1, <2>2
  <1>5. R <= m + 1 BY <1>1, <1>2
  <1>6. Turned(x.a, x.saw, Stays(r.a.tool), R, D) BY <1>1, <1>4, <1>5 DEF Turned
  <1>7. due \in Nat /\ due > 0 /\ R + D - (m + 1) = due - 1 /\ m + 1 <= R + D
    BY <1>1, <1>2, WhatIsLeft
  <1>8. AreLeft(x, due - 1)
    <2>1. CASE x.images = Stored(r.images, "drop")
      <3>1. AreLeft([r EXCEPT !.images = Stored(@, "drop")], due - 1)
        BY <1>7, OneIsLeftLess DEF IsHeard
      <3>2. /\ [r EXCEPT !.images = Stored(@, "drop")].images = Stored(r.images, "drop")
            /\ [r EXCEPT !.images = Stored(@, "drop")].kept = r.kept
        BY CallUpdates DEF IsHeard
      <3> QED BY <2>1, <3>1, <3>2 DEF AreLeft, IsHeard
    <2>2. CASE x.images = r.images /\ x.kept
      <3>1. AreLeft([r EXCEPT !.kept = TRUE], due - 1) BY <1>7, OneIsLeftLess DEF IsHeard
      <3>2. [r EXCEPT !.kept = TRUE].images = r.images BY CallUpdates DEF IsHeard
      <3> QED BY <2>2, <3>1, <3>2 DEF AreLeft
    <2> QED BY <1>3, <2>1, <2>2 DEF IsHeard
  <1> QED BY <1>1, <1>6, <1>7, <1>8

\* Whatever it hears, a call with a list of requests stays as it has to be.
LEMMA BatchStays ==
    ASSUME NEW r, NEW v, NEW x, IsHeard(r, v, x), None # Failed, r.a.tool \in Batches, OfOpen(r), r.end = "open"
    PROVE  OfOpen(GoesOn(x)) /\ OfEnded(GoesOn(x))
  <1> DEFINE stays == Stays(r.a.tool)
             k == r.a.images
  <1>1. /\ kind = KindOf(r.a.tool) /\ r.next = Request(r) /\ k \in Nat /\ r.a.requests # <<>>
        /\ Uploading(r) \/ Dropping(r, stays)
    BY DEF OfOpen, WithImages
  <1>2. IsCall(x) /\ x.a = r.a /\ x.end = "open" /\ x.next = Request(x) /\ IsSequence(x.saw)
    BY DEF IsHeard, IsCall
  <1>3. Request(x) = Requests!BatchUpdate(x.a, x.saw, stays) /\ stays \in BOOLEAN
    BY <1>1, <1>2, BatchRequest
  <1>4. CASE Uploading(x)
    <2>1. Len(x.saw) <= 3 * k /\ \A i \in 1..Len(x.saw) : x.saw[i] # Failed
      BY <1>2, <1>4 DEF Uploading
    <2>2. x.next = IF Len(x.saw) < 3 * k THEN [op |-> Upload(Len(x.saw))] ELSE [op |-> "batch", requests |-> x.a.requests]
      BY <1>1, <1>2, <1>3, <2>1, BatchWhileUploading
    <2>3. x.next.op \in {"create", "share", "link", "batch"} BY <2>2 DEF Upload
    <2>4. GoesOn(x) = x BY <2>3, GoesOnWhileOpen
    <2>5. OfOpen(x) BY <1>1, <1>2, <1>4 DEF OfOpen, Batches
    <2>6. OfEnded(x) BY <1>2 DEF OfEnded
    <2> QED BY <2>4, <2>5, <2>6
  <1>5. ASSUME NEW R \in 1..(3 * k + 1), NEW D \in 0..k, Turned(x.a, x.saw, stays, R, D), Len(x.saw) <= R + D,
               AreLeft(x, R + D - Len(x.saw)) \/ (stays /\ x.saw[R] # Failed /\ D = 0)
        PROVE  OfOpen(GoesOn(x)) /\ OfEnded(GoesOn(x))
    <2>1. x.next = IF Len(x.saw) < R + D THEN [op |-> "drop"]
                   ELSE IF x.saw[R] = Failed THEN [op |-> "decline"] ELSE [op |-> "finish"]
      BY <1>1, <1>2, <1>3, <1>5, BatchOnceTurned
    <2>2. Len(x.saw) \in Nat /\ R \in Nat /\ D \in Nat /\ R <= Len(x.saw)
      BY <1>1, <1>2, <1>5 DEF IsSequence, Turned
    <2>3. CASE Len(x.saw) < R + D
      <3>1. x.next.op = "drop" BY <2>1, <2>3
      <3>2. GoesOn(x) = x BY <3>1, GoesOnWhileOpen
      <3>3. D # 0 BY <2>2, <2>3
      <3>4. Dropping(x, stays) BY <1>2, <1>5, <2>3, <3>3 DEF Dropping
      <3>5. OfOpen(x) BY <1>1, <1>2, <3>4 DEF OfOpen, Batches
      <3>6. OfEnded(x) BY <1>2 DEF OfEnded
      <3> QED BY <3>2, <3>5, <3>6
    <2>4. CASE ~(Len(x.saw) < R + D)
      <3>1. R + D - Len(x.saw) = 0 BY <1>5, <2>2, <2>4
      <3>2. GoesOn(x) = Ended(x, IF x.saw[R] = Failed THEN "error" ELSE "ok")
        BY <2>1, <2>4, GoesOnToItsEnd
      <3>3. CASE AreLeft(x, 0)
        <4>1. x.kept \/ \A i \in DOMAIN x.images : x.images[i] # "linked"
          <5>1. x.images \in Seq(Stages) /\ DOMAIN x.images = 1..Len(x.images) BY <3>3 DEF AreLeft
          <5>2. \A i \in 1..Len(x.images) : ~(i <= 0) BY <5>1
          <5> QED BY <3>3, <5>1, <5>2 DEF AreLeft
        <4> QED BY <3>2, <4>1, EndedIsOfEnded
      <3>4. CASE stays /\ x.saw[R] # Failed
        <4>1. x.a.tool = "batch_update_spreadsheet" BY <1>2, <3>4 DEF Stays
        <4> QED BY <3>2, <3>4, <4>1, EndedIsOfEnded
      <3> QED BY <1>5, <3>1, <3>3, <3>4
    <2> QED BY <2>3, <2>4
  <1>6. CASE Uploading(r)
    <2>1. CASE Uploading(x) BY <1>4, <2>1
    <2>2. CASE ~Uploading(x)
      <3>1. PICK R \in 1..(3 * k + 1), D \in 0..k :
              /\ Turned(x.a, x.saw, stays, R, D) /\ Len(x.saw) = R
              /\ AreLeft(x, D) \/ (stays /\ x.saw[R] # Failed /\ D = 0)
        BY <1>1, <1>6, <2>2, HeardWhileUploading
      <3>2. Len(x.saw) <= R + D /\ R + D - Len(x.saw) = D BY <1>1, <3>1
      <3> QED BY <1>5, <3>1, <3>2
    <2> QED BY <2>1, <2>2
  <1>7. CASE Dropping(r, stays)
    <2>1. PICK R \in 1..(3 * k + 1), D \in 0..k :
            Turned(r.a, r.saw, stays, R, D) /\ Len(r.saw) < R + D /\ AreLeft(r, R + D - Len(r.saw))
      BY <1>7 DEF Dropping
    <2>2. Turned(x.a, x.saw, stays, R, D) /\ Len(x.saw) <= R + D /\ AreLeft(x, R + D - Len(x.saw))
      BY <1>1, <2>1, HeardWhileDropping
    <2> QED BY <1>5, <2>1, <2>2
  <1> QED BY <1>1, <1>6, <1>7

LEMMA UpToThree ==
    ASSUME NEW m \in {0, 1, 2}
    PROVE  m < 3 /\ m \notin {3, 4} /\ (m + 1 < 3 \/ m + 1 = 3)
  OBVIOUS

LEMMA LocalImageStays ==
    ASSUME NEW r, NEW v, NEW x, IsHeard(r, v, x), r.a.tool = "insertSlidesLocalImage", OfOpen(r), r.end = "open",
           v # Failed \/ Catches(r)
    PROVE  OfOpen(GoesOn(x)) /\ OfEnded(GoesOn(x))
  <1>1. kind = "presentation" /\ r.next = Request(r) /\ OfLocalImage(r)
    BY DEF OfOpen, WithImages, KindOf
  <1>2. IsCall(r) /\ IsCall(x) /\ x.a = r.a /\ x.end = "open" /\ x.next = Request(x) BY DEF IsHeard
  <1>3. Len(r.saw) \in 0..4 /\ Len(x.saw) = Len(r.saw) + 1
    BY <1>1, <1>2, OneMore DEF OfLocalImage, IsHeard, IsCall
  <1>4. ASSUME x.next.op \in {"create", "share", "link", "batch", "drop"}, OfLocalImage(x)
        PROVE  OfOpen(GoesOn(x)) /\ OfEnded(GoesOn(x))
    <2>1. GoesOn(x) = x BY <1>4, GoesOnWhileOpen
    <2>2. OfOpen(x) /\ OfEnded(x) BY <1>1, <1>2, <1>4 DEF OfOpen, OfEnded, Batches, KindOf
    <2> QED BY <2>1, <2>2
  <1>5. CASE Len(r.saw) \in {0, 1, 2}
    <2>0. Len(r.saw) < 3 /\ Len(r.saw) \notin {3, 4} BY <1>5, UpToThree
    <2>1. r.next = [op |-> Upload(Len(r.saw))] /\ ~Catches(r) BY <1>1, <1>2, <2>0, LocalImageRequest
    <2>2. r.next.op \in {"create", "share", "link"} BY <2>1 DEF Upload
    <2>3. x.images = Stored(r.images, Upload(Len(r.saw))) BY <2>1, <2>2 DEF IsHeard
    <2>4. OfLocalImage(x)
      <3>1. CASE Len(r.saw) = 0
        <4>1. r.images = <<>> /\ Upload(Len(r.saw)) = "create"
          BY <1>1, <3>1 DEF OfLocalImage, Upload
        <4>2. x.images = <<"stored">> BY <2>3, <4>1 DEF Stored
        <4> QED BY <1>3, <3>1, <4>2 DEF OfLocalImage
      <3>2. CASE Len(r.saw) = 1
        <4>1. r.images = <<"stored">> /\ Upload(Len(r.saw)) = "share"
          BY <1>1, <3>2 DEF OfLocalImage, Upload
        <4>2. x.images = <<"shared">> BY <2>3, <4>1 DEF Stored
        <4> QED BY <1>3, <3>2, <4>2 DEF OfLocalImage
      <3>3. CASE Len(r.saw) = 2
        <4>1. r.images = <<"shared">> /\ Upload(Len(r.saw)) = "link"
          BY <1>1, <3>3 DEF OfLocalImage, Upload
        <4>2. x.images = <<"linked">> BY <2>3, <4>1 DEF Stored
        <4> QED BY <1>3, <3>3, <4>2 DEF OfLocalImage
      <3> QED BY <1>5, <3>1, <3>2, <3>3
    <2>5. x.next.op \in {"create", "share", "link", "batch"}
      <3>1. Len(x.saw) < 3 \/ Len(x.saw) = 3 BY <1>3, <1>5, UpToThree
      <3>2. Request(x) = [op |-> Upload(Len(x.saw))] \/ Request(x).op = "batch"
        BY <1>1, <1>2, <3>1, LocalImageRequest
      <3>3. Upload(Len(x.saw)) \in {"create", "share", "link"} BY DEF Upload
      <3> QED BY <1>2, <3>2, <3>3
    <2> QED BY <1>4, <2>4, <2>5
  <1>6. CASE Len(r.saw) = 3
    <2>1. r.next.op = "batch" /\ r.images = <<"linked">>
      BY <1>1, <1>2, <1>6, LocalImageRequest DEF OfLocalImage
    <2>2. x.images = <<"linked">> BY <2>1 DEF IsHeard
    <2>3. x.next = [op |-> "drop"] BY <1>1, <1>2, <1>3, <1>6, LocalImageRequest
    <2>4. OfLocalImage(x) BY <1>3, <1>6, <2>2 DEF OfLocalImage
    <2> QED BY <1>4, <2>3, <2>4
  <1>7. CASE Len(r.saw) = 4
    <2>1. r.next = [op |-> "drop"] /\ r.images = <<"linked">>
      BY <1>1, <1>2, <1>7, LocalImageRequest DEF OfLocalImage
    <2>2. x.kept \/ x.images = <<>>
      <3>1. Stored(<<"linked">>, "drop") = <<>> BY DEF Stored
      <3> QED BY <2>1, <3>1 DEF IsHeard
    <2>3. x.next.op \in {"finish", "decline"} BY <1>1, <1>2, <1>3, <1>7, LocalImageRequest
    <2>4. GoesOn(x) = Ended(x, "ok") \/ GoesOn(x) = Ended(x, "error") BY <2>3, GoesOnToItsEnd
    <2>5. x.kept \/ \A i \in DOMAIN x.images : x.images[i] # "linked" BY <2>2
    <2> QED BY <2>4, <2>5, EndedIsOfEnded
  <1> QED BY <1>3, <1>5, <1>6, <1>7

\* A failure that is not caught.
LEMMA LocalImageStops ==
    ASSUME NEW r, NEW y, IsCall(r), r.a.tool = "insertSlidesLocalImage", OfOpen(r), r.end = "open", ~Catches(r),
           y.images = r.images
    PROVE  OfOpen(Ended(y, "error")) /\ OfEnded(Ended(y, "error"))
  <1>1. kind = "presentation" /\ OfLocalImage(r) BY DEF OfOpen, WithImages, KindOf
  <1>2. Len(r.saw) \notin {3, 4} BY <1>1, LocalImageRequest
  <1>3. r.images \in {<<>>, <<"stored">>, <<"shared">>} BY <1>1, <1>2 DEF OfLocalImage
  <1>4. \A i \in DOMAIN y.images : y.images[i] # "linked" BY <1>3
  <1> QED BY <1>4, EndedIsOfEnded

-----------------------------------------------------------------------------
(***************************************************************************)
(* The steps.                                                              *)
(***************************************************************************)

LEMMA SameRequest ==
    ASSUME NEW r, NEW x, x.a = r.a, x.saw = r.saw, x.n = r.n
    PROVE  Request(x) = Request(r) /\ (Catches(x) <=> Catches(r))
  BY DEF Request, Catches

LEMMA HeardIs ==
    ASSUME NEW r, NEW v, IsCall(r)
    PROVE  \E x : /\ IsCall(x) /\ x.a = r.a /\ x.n = r.n /\ x.end = r.end /\ x.saw = Append(r.saw, v)
                  /\ x.images = r.images /\ x.kept = r.kept /\ x.alone = r.alone /\ x.before = r.before
                  /\ x.next = Request(x)
                  /\ Heard(r, v) = IF v = Failed /\ ~Catches(r) THEN Ended(x, "error") ELSE GoesOn(x)
  <1> DEFINE n == [r EXCEPT !.saw = Append(@, v)]
             x == [n EXCEPT !.next = Request(n)]
  <1>1. IsCall(n) /\ IsCall(x) BY CallShape
  <1>2. n = [a |-> r.a, n |-> r.n, end |-> r.end, next |-> r.next, saw |-> Append(r.saw, v), before |-> r.before,
             alone |-> r.alone, images |-> r.images, kept |-> r.kept]
    BY CallUpdates
  <1>3. x = [a |-> n.a, n |-> n.n, end |-> n.end, next |-> Request(n), saw |-> n.saw, before |-> n.before,
             alone |-> n.alone, images |-> n.images, kept |-> n.kept]
    BY <1>1, CallUpdates
  <1>4. /\ n.a = r.a /\ n.n = r.n /\ n.end = r.end /\ n.saw = Append(r.saw, v)
        /\ n.images = r.images /\ n.kept = r.kept /\ n.alone = r.alone /\ n.before = r.before
    BY <1>2
  <1>5. /\ x.a = n.a /\ x.n = n.n /\ x.end = n.end /\ x.saw = n.saw /\ x.next = Request(n)
        /\ x.images = n.images /\ x.kept = n.kept /\ x.alone = n.alone /\ x.before = n.before
    BY <1>3
  <1>6. x.next = Request(x)
    <2> HIDE DEF x, n
    <2> QED BY <1>5, SameRequest
  <1>7. Heard(r, v) = IF v = Failed /\ ~Catches(r) THEN Ended(n, "error") ELSE GoesOn(x)
    BY DEF Heard
  <1>8. Ended(n, "error") = Ended(x, "error")
    <2> HIDE DEF x, n
    <2> QED BY <1>5, EndedIs
  <1> HIDE DEF x, n
  <1>9. Heard(r, v) = IF v = Failed /\ ~Catches(r) THEN Ended(x, "error") ELSE GoesOn(x)
    BY <1>7, <1>8
  <1> QED BY <1>1, <1>4, <1>5, <1>6, <1>9

LEMMA OthersStay ==
    ASSUME NEW r, NEW b, IsCall(r), OfOpen(r), OfEnded(r)
    PROVE  LET x == [r EXCEPT !.alone = b] IN IsCall(x) /\ OfOpen(x) /\ OfEnded(x)
  <1> DEFINE x == [r EXCEPT !.alone = b]
  <1>1. IsCall(x) BY CallShape
  <1>2. /\ x.a = r.a /\ x.n = r.n /\ x.end = r.end /\ x.saw = r.saw /\ x.next = r.next
        /\ x.images = r.images /\ x.kept = r.kept
    BY CallUpdates
  <1> HIDE DEF x
  <1>3. Request(x) = Request(r) BY <1>2, SameRequest
  <1>4. OfEnded(x) BY <1>2 DEF OfEnded
  <1>5. /\ OfLocalImage(r) => OfLocalImage(x)
        /\ Uploading(r) => Uploading(x)
        /\ Dropping(r, Stays(r.a.tool)) => Dropping(x, Stays(r.a.tool))
    BY <1>2 DEF OfLocalImage, Uploading, Dropping, AreLeft
  <1>6. OfOpen(x) BY <1>2, <1>3, <1>5 DEF OfOpen
  <1> QED BY <1>1, <1>4, <1>6 DEF x

-----------------------------------------------------------------------------
(***************************************************************************)
(* The arguments of calls.                                                 *)
(***************************************************************************)

\* A call for a document has all its fields.
DocCall(c) ==
    c = [tool |-> c.tool, tab |-> c.tab, from |-> c.from, to |-> c.to, find |-> c.find, instance |-> c.instance, text |-> c.text, attr |-> c.attr, on |-> c.on, id |-> c.id, row |-> c.row, column |-> c.column, align |-> c.align, public |-> c.public, folder |-> c.folder, images |-> c.images, requests |-> c.requests]

\* With another field changed it is a call of the same tool.
LEMMA DocCallUpdates ==
    ASSUME NEW c, DocCall(c), NEW v, NEW d,
           \/ d = [c EXCEPT !.tab = v]
           \/ d = [c EXCEPT !.from = v]
           \/ d = [c EXCEPT !.to = v]
           \/ d = [c EXCEPT !.find = v]
           \/ d = [c EXCEPT !.instance = v]
           \/ d = [c EXCEPT !.text = v]
           \/ d = [c EXCEPT !.attr = v]
           \/ d = [c EXCEPT !.on = v]
           \/ d = [c EXCEPT !.id = v]
           \/ d = [c EXCEPT !.row = v]
           \/ d = [c EXCEPT !.column = v]
           \/ d = [c EXCEPT !.align = v]
           \/ d = [c EXCEPT !.public = v]
           \/ d = [c EXCEPT !.folder = v]
    PROVE  DocCall(d) /\ d.tool = c.tool
  <1>1. CASE d = [c EXCEPT !.tab = v]
    <2> DEFINE w == [tool |-> c.tool, tab |-> c.tab, from |-> c.from, to |-> c.to, find |-> c.find, instance |-> c.instance, text |-> c.text, attr |-> c.attr, on |-> c.on, id |-> c.id, row |-> c.row, column |-> c.column, align |-> c.align, public |-> c.public, folder |-> c.folder, images |-> c.images, requests |-> c.requests]
    <2>1. c = w BY DEF DocCall
    <2>2. d = [tool |-> c.tool, tab |-> v, from |-> c.from, to |-> c.to, find |-> c.find, instance |-> c.instance, text |-> c.text, attr |-> c.attr, on |-> c.on, id |-> c.id, row |-> c.row, column |-> c.column, align |-> c.align, public |-> c.public, folder |-> c.folder, images |-> c.images, requests |-> c.requests]
      BY <1>1, <2>1
    <2> QED BY <2>2 DEF DocCall
  <1>2. CASE d = [c EXCEPT !.from = v]
    <2> DEFINE w == [tool |-> c.tool, tab |-> c.tab, from |-> c.from, to |-> c.to, find |-> c.find, instance |-> c.instance, text |-> c.text, attr |-> c.attr, on |-> c.on, id |-> c.id, row |-> c.row, column |-> c.column, align |-> c.align, public |-> c.public, folder |-> c.folder, images |-> c.images, requests |-> c.requests]
    <2>1. c = w BY DEF DocCall
    <2>2. d = [tool |-> c.tool, tab |-> c.tab, from |-> v, to |-> c.to, find |-> c.find, instance |-> c.instance, text |-> c.text, attr |-> c.attr, on |-> c.on, id |-> c.id, row |-> c.row, column |-> c.column, align |-> c.align, public |-> c.public, folder |-> c.folder, images |-> c.images, requests |-> c.requests]
      BY <1>2, <2>1
    <2> QED BY <2>2 DEF DocCall
  <1>3. CASE d = [c EXCEPT !.to = v]
    <2> DEFINE w == [tool |-> c.tool, tab |-> c.tab, from |-> c.from, to |-> c.to, find |-> c.find, instance |-> c.instance, text |-> c.text, attr |-> c.attr, on |-> c.on, id |-> c.id, row |-> c.row, column |-> c.column, align |-> c.align, public |-> c.public, folder |-> c.folder, images |-> c.images, requests |-> c.requests]
    <2>1. c = w BY DEF DocCall
    <2>2. d = [tool |-> c.tool, tab |-> c.tab, from |-> c.from, to |-> v, find |-> c.find, instance |-> c.instance, text |-> c.text, attr |-> c.attr, on |-> c.on, id |-> c.id, row |-> c.row, column |-> c.column, align |-> c.align, public |-> c.public, folder |-> c.folder, images |-> c.images, requests |-> c.requests]
      BY <1>3, <2>1
    <2> QED BY <2>2 DEF DocCall
  <1>4. CASE d = [c EXCEPT !.find = v]
    <2> DEFINE w == [tool |-> c.tool, tab |-> c.tab, from |-> c.from, to |-> c.to, find |-> c.find, instance |-> c.instance, text |-> c.text, attr |-> c.attr, on |-> c.on, id |-> c.id, row |-> c.row, column |-> c.column, align |-> c.align, public |-> c.public, folder |-> c.folder, images |-> c.images, requests |-> c.requests]
    <2>1. c = w BY DEF DocCall
    <2>2. d = [tool |-> c.tool, tab |-> c.tab, from |-> c.from, to |-> c.to, find |-> v, instance |-> c.instance, text |-> c.text, attr |-> c.attr, on |-> c.on, id |-> c.id, row |-> c.row, column |-> c.column, align |-> c.align, public |-> c.public, folder |-> c.folder, images |-> c.images, requests |-> c.requests]
      BY <1>4, <2>1
    <2> QED BY <2>2 DEF DocCall
  <1>5. CASE d = [c EXCEPT !.instance = v]
    <2> DEFINE w == [tool |-> c.tool, tab |-> c.tab, from |-> c.from, to |-> c.to, find |-> c.find, instance |-> c.instance, text |-> c.text, attr |-> c.attr, on |-> c.on, id |-> c.id, row |-> c.row, column |-> c.column, align |-> c.align, public |-> c.public, folder |-> c.folder, images |-> c.images, requests |-> c.requests]
    <2>1. c = w BY DEF DocCall
    <2>2. d = [tool |-> c.tool, tab |-> c.tab, from |-> c.from, to |-> c.to, find |-> c.find, instance |-> v, text |-> c.text, attr |-> c.attr, on |-> c.on, id |-> c.id, row |-> c.row, column |-> c.column, align |-> c.align, public |-> c.public, folder |-> c.folder, images |-> c.images, requests |-> c.requests]
      BY <1>5, <2>1
    <2> QED BY <2>2 DEF DocCall
  <1>6. CASE d = [c EXCEPT !.text = v]
    <2> DEFINE w == [tool |-> c.tool, tab |-> c.tab, from |-> c.from, to |-> c.to, find |-> c.find, instance |-> c.instance, text |-> c.text, attr |-> c.attr, on |-> c.on, id |-> c.id, row |-> c.row, column |-> c.column, align |-> c.align, public |-> c.public, folder |-> c.folder, images |-> c.images, requests |-> c.requests]
    <2>1. c = w BY DEF DocCall
    <2>2. d = [tool |-> c.tool, tab |-> c.tab, from |-> c.from, to |-> c.to, find |-> c.find, instance |-> c.instance, text |-> v, attr |-> c.attr, on |-> c.on, id |-> c.id, row |-> c.row, column |-> c.column, align |-> c.align, public |-> c.public, folder |-> c.folder, images |-> c.images, requests |-> c.requests]
      BY <1>6, <2>1
    <2> QED BY <2>2 DEF DocCall
  <1>7. CASE d = [c EXCEPT !.attr = v]
    <2> DEFINE w == [tool |-> c.tool, tab |-> c.tab, from |-> c.from, to |-> c.to, find |-> c.find, instance |-> c.instance, text |-> c.text, attr |-> c.attr, on |-> c.on, id |-> c.id, row |-> c.row, column |-> c.column, align |-> c.align, public |-> c.public, folder |-> c.folder, images |-> c.images, requests |-> c.requests]
    <2>1. c = w BY DEF DocCall
    <2>2. d = [tool |-> c.tool, tab |-> c.tab, from |-> c.from, to |-> c.to, find |-> c.find, instance |-> c.instance, text |-> c.text, attr |-> v, on |-> c.on, id |-> c.id, row |-> c.row, column |-> c.column, align |-> c.align, public |-> c.public, folder |-> c.folder, images |-> c.images, requests |-> c.requests]
      BY <1>7, <2>1
    <2> QED BY <2>2 DEF DocCall
  <1>8. CASE d = [c EXCEPT !.on = v]
    <2> DEFINE w == [tool |-> c.tool, tab |-> c.tab, from |-> c.from, to |-> c.to, find |-> c.find, instance |-> c.instance, text |-> c.text, attr |-> c.attr, on |-> c.on, id |-> c.id, row |-> c.row, column |-> c.column, align |-> c.align, public |-> c.public, folder |-> c.folder, images |-> c.images, requests |-> c.requests]
    <2>1. c = w BY DEF DocCall
    <2>2. d = [tool |-> c.tool, tab |-> c.tab, from |-> c.from, to |-> c.to, find |-> c.find, instance |-> c.instance, text |-> c.text, attr |-> c.attr, on |-> v, id |-> c.id, row |-> c.row, column |-> c.column, align |-> c.align, public |-> c.public, folder |-> c.folder, images |-> c.images, requests |-> c.requests]
      BY <1>8, <2>1
    <2> QED BY <2>2 DEF DocCall
  <1>9. CASE d = [c EXCEPT !.id = v]
    <2> DEFINE w == [tool |-> c.tool, tab |-> c.tab, from |-> c.from, to |-> c.to, find |-> c.find, instance |-> c.instance, text |-> c.text, attr |-> c.attr, on |-> c.on, id |-> c.id, row |-> c.row, column |-> c.column, align |-> c.align, public |-> c.public, folder |-> c.folder, images |-> c.images, requests |-> c.requests]
    <2>1. c = w BY DEF DocCall
    <2>2. d = [tool |-> c.tool, tab |-> c.tab, from |-> c.from, to |-> c.to, find |-> c.find, instance |-> c.instance, text |-> c.text, attr |-> c.attr, on |-> c.on, id |-> v, row |-> c.row, column |-> c.column, align |-> c.align, public |-> c.public, folder |-> c.folder, images |-> c.images, requests |-> c.requests]
      BY <1>9, <2>1
    <2> QED BY <2>2 DEF DocCall
  <1>10. CASE d = [c EXCEPT !.row = v]
    <2> DEFINE w == [tool |-> c.tool, tab |-> c.tab, from |-> c.from, to |-> c.to, find |-> c.find, instance |-> c.instance, text |-> c.text, attr |-> c.attr, on |-> c.on, id |-> c.id, row |-> c.row, column |-> c.column, align |-> c.align, public |-> c.public, folder |-> c.folder, images |-> c.images, requests |-> c.requests]
    <2>1. c = w BY DEF DocCall
    <2>2. d = [tool |-> c.tool, tab |-> c.tab, from |-> c.from, to |-> c.to, find |-> c.find, instance |-> c.instance, text |-> c.text, attr |-> c.attr, on |-> c.on, id |-> c.id, row |-> v, column |-> c.column, align |-> c.align, public |-> c.public, folder |-> c.folder, images |-> c.images, requests |-> c.requests]
      BY <1>10, <2>1
    <2> QED BY <2>2 DEF DocCall
  <1>11. CASE d = [c EXCEPT !.column = v]
    <2> DEFINE w == [tool |-> c.tool, tab |-> c.tab, from |-> c.from, to |-> c.to, find |-> c.find, instance |-> c.instance, text |-> c.text, attr |-> c.attr, on |-> c.on, id |-> c.id, row |-> c.row, column |-> c.column, align |-> c.align, public |-> c.public, folder |-> c.folder, images |-> c.images, requests |-> c.requests]
    <2>1. c = w BY DEF DocCall
    <2>2. d = [tool |-> c.tool, tab |-> c.tab, from |-> c.from, to |-> c.to, find |-> c.find, instance |-> c.instance, text |-> c.text, attr |-> c.attr, on |-> c.on, id |-> c.id, row |-> c.row, column |-> v, align |-> c.align, public |-> c.public, folder |-> c.folder, images |-> c.images, requests |-> c.requests]
      BY <1>11, <2>1
    <2> QED BY <2>2 DEF DocCall
  <1>12. CASE d = [c EXCEPT !.align = v]
    <2> DEFINE w == [tool |-> c.tool, tab |-> c.tab, from |-> c.from, to |-> c.to, find |-> c.find, instance |-> c.instance, text |-> c.text, attr |-> c.attr, on |-> c.on, id |-> c.id, row |-> c.row, column |-> c.column, align |-> c.align, public |-> c.public, folder |-> c.folder, images |-> c.images, requests |-> c.requests]
    <2>1. c = w BY DEF DocCall
    <2>2. d = [tool |-> c.tool, tab |-> c.tab, from |-> c.from, to |-> c.to, find |-> c.find, instance |-> c.instance, text |-> c.text, attr |-> c.attr, on |-> c.on, id |-> c.id, row |-> c.row, column |-> c.column, align |-> v, public |-> c.public, folder |-> c.folder, images |-> c.images, requests |-> c.requests]
      BY <1>12, <2>1
    <2> QED BY <2>2 DEF DocCall
  <1>13. CASE d = [c EXCEPT !.public = v]
    <2> DEFINE w == [tool |-> c.tool, tab |-> c.tab, from |-> c.from, to |-> c.to, find |-> c.find, instance |-> c.instance, text |-> c.text, attr |-> c.attr, on |-> c.on, id |-> c.id, row |-> c.row, column |-> c.column, align |-> c.align, public |-> c.public, folder |-> c.folder, images |-> c.images, requests |-> c.requests]
    <2>1. c = w BY DEF DocCall
    <2>2. d = [tool |-> c.tool, tab |-> c.tab, from |-> c.from, to |-> c.to, find |-> c.find, instance |-> c.instance, text |-> c.text, attr |-> c.attr, on |-> c.on, id |-> c.id, row |-> c.row, column |-> c.column, align |-> c.align, public |-> v, folder |-> c.folder, images |-> c.images, requests |-> c.requests]
      BY <1>13, <2>1
    <2> QED BY <2>2 DEF DocCall
  <1>14. CASE d = [c EXCEPT !.folder = v]
    <2> DEFINE w == [tool |-> c.tool, tab |-> c.tab, from |-> c.from, to |-> c.to, find |-> c.find, instance |-> c.instance, text |-> c.text, attr |-> c.attr, on |-> c.on, id |-> c.id, row |-> c.row, column |-> c.column, align |-> c.align, public |-> c.public, folder |-> c.folder, images |-> c.images, requests |-> c.requests]
    <2>1. c = w BY DEF DocCall
    <2>2. d = [tool |-> c.tool, tab |-> c.tab, from |-> c.from, to |-> c.to, find |-> c.find, instance |-> c.instance, text |-> c.text, attr |-> c.attr, on |-> c.on, id |-> c.id, row |-> c.row, column |-> c.column, align |-> c.align, public |-> c.public, folder |-> v, images |-> c.images, requests |-> c.requests]
      BY <1>14, <2>1
    <2> QED BY <2>2 DEF DocCall
  <1> QED BY <1>1, <1>2, <1>3, <1>4, <1>5, <1>6, <1>7, <1>8, <1>9, <1>10, <1>11, <1>12, <1>13, <1>14

DocPlain ==
    {"insertText", "deleteRange", "updateGoogleDoc", "applyTextStyle", "applyParagraphStyle", "createParagraphBullets",
     "findAndReplaceInDoc", "insertTable", "editTableCell", "addComment", "replyToComment", "deleteComment",
     "insertImageFromUrl", "insertLocalImage", "insertSmartChip", "addDocumentTab", "renameDocumentTab", "createFootnote"}

\* The calls with a list of requests of the client's own.
BulkComments(a) ==
    /\ DocCall(a) /\ a.tool = "bulk_update_file_comments"
    /\ \E q1, q2 : a.requests = <<q1, q2>> /\ q1.op = "createComment" /\ q2.op = "createReply"

BatchDocument(a) ==
    /\ DocCall(a) /\ a.tool = "batch_update_document" /\ a.tab = None /\ a.images \in 0..2
    /\ \E i : a.requests = <<[op |-> "insertInline", tab |-> Main, from |-> i, text |-> "image"]>>

ArePlain(C) == \A c \in C : DocCall(c) /\ c.tool \in DocPlain

LEMMA DocumentCall ==
    ASSUME NEW tool
    PROVE  LET c == Docs!Call(tool) IN DocCall(c) /\ c.tool = tool /\ c.tab = None
  BY DEF Docs!Call, DocCall

\* The sets that the calls of an instance are made of.
Worded(C) == {[c EXCEPT !.text = <<Word>>] : c \in C}
Off(C) == {[c EXCEPT !.on = FALSE] : c \in C}
InNew(C) == {[c EXCEPT !.tab = New] : c \in C}
Sought(C) == {[c EXCEPT !.find = f] : c \in C, f \in Needles}
Stored2(C) == {[c EXCEPT !.public = p, !.folder = f] : c \in C, p \in BOOLEAN, f \in BOOLEAN}
Retexted == {[Docs!Call("updateGoogleDoc") EXCEPT !.text = word] : word \in {<<>>, <<Word>>}}
Tabled == {[Docs!Call("insertTable") EXCEPT !.from = 1, !.row = r, !.column = c] : r \in {1, 2}, c \in {1, 2}}
Replied == {[Docs!Call("replyToComment") EXCEPT !.id = n, !.text = Word, !.on = on] : n \in {1, 2}, on \in BOOLEAN}
Undone == {[Docs!Call("deleteComment") EXCEPT !.id = n] : n \in {1, 2}}
Long(C) == {c \in C : Len(c.find) > 1}

Bulk ==
    LET replies(n) == <<[op |-> "createComment", comment |-> Docs!Comment(1, 1, <<>>)],
                        [op |-> "createReply", id |-> n, text |-> Word, on |-> TRUE]>>
    IN  {[Docs!Call("bulk_update_file_comments") EXCEPT !.requests = replies(n)] : n \in {1, 2}}

Batched ==
    {[Docs!Call("batch_update_document") EXCEPT
        !.images = n, !.requests = Docs!InsertInline([Docs!Call(None) EXCEPT !.from = i], "image")] :
            n \in 0..2, i \in Tables \cup {1}}

LEMMA PlainSets ==
    ASSUME NEW C, ArePlain(C), NEW v
    PROVE  /\ ArePlain(InNew(C))
           /\ ArePlain(Worded(C))
           /\ ArePlain(Off(C))
           /\ ArePlain(Docs!Styled(C, v))
           /\ ArePlain(Sought(C))
           /\ ArePlain(Docs!InTab(C))
  <1>1. ArePlain(InNew(C))
    <2> SUFFICES ASSUME NEW c \in C, NEW d, d = [c EXCEPT !.tab = New] PROVE DocCall(d) /\ d.tool \in DocPlain
      BY DEF ArePlain, InNew, Worded, Off, Sought
    <2> QED BY DocCallUpdates DEF ArePlain
  <1>2. ArePlain(Worded(C))
    <2> SUFFICES ASSUME NEW c \in C, NEW d, d = [c EXCEPT !.text = <<Word>>] PROVE DocCall(d) /\ d.tool \in DocPlain
      BY DEF ArePlain, InNew, Worded, Off, Sought
    <2> QED BY DocCallUpdates DEF ArePlain
  <1>3. ArePlain(Off(C))
    <2> SUFFICES ASSUME NEW c \in C, NEW d, d = [c EXCEPT !.on = FALSE] PROVE DocCall(d) /\ d.tool \in DocPlain
      BY DEF ArePlain, InNew, Worded, Off, Sought
    <2> QED BY DocCallUpdates DEF ArePlain
  <1>4. ArePlain(Docs!Styled(C, v))
    <2> SUFFICES ASSUME NEW c \in C, NEW d, d = [c EXCEPT !.attr = v] PROVE DocCall(d) /\ d.tool \in DocPlain
      BY DEF ArePlain, Docs!Styled
    <2> QED BY DocCallUpdates DEF ArePlain
  <1>5. ArePlain(Sought(C))
    <2> SUFFICES ASSUME NEW c \in C, NEW f \in Needles, NEW d, d = [c EXCEPT !.find = f] PROVE DocCall(d) /\ d.tool \in DocPlain
      BY DEF ArePlain, InNew, Worded, Off, Sought
    <2> QED BY DocCallUpdates DEF ArePlain
  <1>6. ArePlain(Docs!InTab(C))
    <2> SUFFICES ASSUME NEW c \in C, NEW d, d = c \/ d = [c EXCEPT !.tab = Other] PROVE DocCall(d) /\ d.tool \in DocPlain
      BY DEF ArePlain, Docs!InTab
    <2> QED BY DocCallUpdates DEF ArePlain
  <1> QED BY <1>1, <1>2, <1>3, <1>4, <1>5, <1>6

LEMMA PlainGenerators ==
    ASSUME NEW tool \in DocPlain
    PROVE  /\ ArePlain({Docs!Call(tool)}) /\ \A S : ArePlain(Docs!At1(tool, S))
           /\ ArePlain(Docs!AtRange(tool)) /\ ArePlain(Docs!AtText(tool))
  <1>1. DocCall(Docs!Call(tool)) /\ Docs!Call(tool).tool = tool BY DocumentCall
  <1>2. ASSUME NEW S PROVE ArePlain(Docs!At1(tool, S))
    <2> SUFFICES ASSUME NEW i \in S, NEW d, d = [Docs!Call(tool) EXCEPT !.from = i] PROVE DocCall(d) /\ d.tool \in DocPlain
      BY DEF ArePlain, Docs!At1
    <2> QED BY <1>1, DocCallUpdates
  <1>3. ArePlain(Docs!AtRange(tool))
    <2> SUFFICES ASSUME NEW i, NEW j, NEW c, NEW d, c = [Docs!Call(tool) EXCEPT !.from = i], d = [c EXCEPT !.to = j]
                 PROVE  DocCall(d) /\ d.tool \in DocPlain
      BY Zenon DEF ArePlain, Docs!AtRange
    <2>1. DocCall(c) /\ c.tool = tool BY <1>1, DocCallUpdates
    <2> QED BY <2>1, DocCallUpdates
  <1>4. ArePlain(Docs!AtText(tool))
    <2>1. ASSUME NEW i, NEW j
          PROVE  LET d == [[Docs!Call(tool) EXCEPT !.find = i] EXCEPT !.instance = j] IN DocCall(d) /\ d.tool \in DocPlain
      <3> DEFINE c == [Docs!Call(tool) EXCEPT !.find = i]
                 d == [c EXCEPT !.instance = j]
      <3>1. DocCall(c) /\ c.tool = tool BY <1>1, DocCallUpdates
      <3> HIDE DEF c
      <3>2. DocCall(d) /\ d.tool \in DocPlain BY <3>1, DocCallUpdates
      <3> QED BY <3>2 DEF c
    <2> DEFINE d(f, n) == [[Docs!Call(tool) EXCEPT !.find = f] EXCEPT !.instance = n]
    <2>2. Docs!AtText(tool) = {d(f, n) : f \in Needles, n \in 1..2} BY DEF Docs!AtText
    <2>3. \A f, n : DocCall(d(f, n)) /\ d(f, n).tool \in DocPlain BY Zenon, <2>1
    <2> HIDE DEF d
    <2> QED BY <2>2, <2>3 DEF ArePlain
  <1> QED BY <1>1, <1>2, <1>3, <1>4 DEF ArePlain

LEMMA PlainUnion ==
    ASSUME NEW C, NEW D, ArePlain(C), ArePlain(D)
    PROVE  ArePlain(C \cup D) /\ \A S : S \subseteq C => ArePlain(S)
  BY DEF ArePlain

\* Two or three of its fields given.
LEMMA PlainFields ==
    ASSUME NEW tool \in DocPlain, NEW u, NEW v, NEW w
    PROVE  /\ ArePlain({[Docs!Call(tool) EXCEPT !.id = u]})
           /\ ArePlain({[Docs!Call(tool) EXCEPT !.id = u, !.text = v, !.on = w]})
           /\ ArePlain({[Docs!Call(tool) EXCEPT !.text = u]})
           /\ ArePlain({[Docs!Call(tool) EXCEPT !.from = u, !.row = v, !.column = w]})
  <1> DEFINE c == Docs!Call(tool)
  <1>1. DocCall(c) /\ c.tool = tool BY DocumentCall
  <1> HIDE DEF c
  <1>2. DocCall([c EXCEPT !.id = u]) /\ [c EXCEPT !.id = u].tool = tool BY <1>1, DocCallUpdates
  <1>3. DocCall([c EXCEPT !.text = u]) /\ [c EXCEPT !.text = u].tool = tool BY <1>1, DocCallUpdates
  <1>4. DocCall([c EXCEPT !.id = u, !.text = v, !.on = w]) /\ [c EXCEPT !.id = u, !.text = v, !.on = w].tool = tool
    <2> DEFINE d == [c EXCEPT !.id = u]
               e == [d EXCEPT !.text = v]
    <2> HIDE DEF d
    <2>1. DocCall(d) /\ d.tool = tool BY <1>2 DEF d
    <2>2. DocCall(e) /\ e.tool = tool BY <2>1, DocCallUpdates
    <2> HIDE DEF e
    <2>3. DocCall([e EXCEPT !.on = w]) /\ [e EXCEPT !.on = w].tool = tool BY <2>2, DocCallUpdates
    <2> QED BY <2>3 DEF d, e
  <1>5. DocCall([c EXCEPT !.from = u, !.row = v, !.column = w]) /\ [c EXCEPT !.from = u, !.row = v, !.column = w].tool = tool
    <2> DEFINE d == [c EXCEPT !.from = u]
               e == [d EXCEPT !.row = v]
    <2>0. DocCall(d) /\ d.tool = tool BY <1>1, DocCallUpdates
    <2> HIDE DEF d
    <2>2. DocCall(e) /\ e.tool = tool BY <2>0, DocCallUpdates
    <2> HIDE DEF e
    <2>3. DocCall([e EXCEPT !.column = w]) /\ [e EXCEPT !.column = w].tool = tool
      BY <2>2, DocCallUpdates
    <2> QED BY <2>3 DEF d, e
  <1> QED BY <1>2, <1>3, <1>4, <1>5 DEF ArePlain, c

LEMMA CellEditsArePlain == ArePlain(Docs!CellEdits)
  <1> DEFINE c == Docs!Call("editTableCell")
             d(t) == [c EXCEPT !.from = t]
             e(t, k) == [d(t) EXCEPT !.column = k]
             f(t, k, v) == [e(t, k) EXCEPT !.text = v]
             g(t, k, v, x) == [f(t, k, v) EXCEPT !.attr = x]
             h(t, k, v, x, y) == [g(t, k, v, x) EXCEPT !.align = y]
             P(z) == DocCall(z) /\ z.tool = "editTableCell"
  <1>1. P(c) BY DocumentCall
  <1>2. ASSUME NEW t PROVE P(d(t))
    <2> HIDE DEF c
    <2> QED BY <1>1, DocCallUpdates
  <1>3. ASSUME NEW t, NEW k PROVE P(e(t, k))
    <2> HIDE DEF d
    <2> QED BY <1>2, DocCallUpdates
  <1>4. ASSUME NEW t, NEW k, NEW v PROVE P(f(t, k, v))
    <2> HIDE DEF e
    <2> QED BY <1>3, DocCallUpdates
  <1>5. ASSUME NEW t, NEW k, NEW v, NEW x PROVE P(g(t, k, v, x))
    <2> HIDE DEF f
    <2> QED BY <1>4, DocCallUpdates
  <1>6. ASSUME NEW t, NEW k, NEW v, NEW x, NEW y PROVE P(h(t, k, v, x, y))
    <2> HIDE DEF g
    <2> QED BY <1>5, DocCallUpdates
  <1>7. Docs!CellEdits =
            {h(t, k, word, s[1], s[2]) :
                t \in Tables, k \in 0..1, word \in {None, <<>>, <<Word>>}, s \in {<<None, None>>, <<"bold", "center">>}}
              \cup {f(t, 2, <<Word>>) : t \in Tables \cup {1}}
    BY DEF Docs!CellEdits
  <1> HIDE DEF h, f
  <1>8. ArePlain({h(t, k, word, s[1], s[2]) :
                t \in Tables, k \in 0..1, word \in {None, <<>>, <<Word>>}, s \in {<<None, None>>, <<"bold", "center">>}})
    BY <1>6 DEF ArePlain, DocPlain
  <1>9. ArePlain({f(t, 2, <<Word>>) : t \in Tables \cup {1}}) BY <1>4 DEF ArePlain, DocPlain
  <1> QED BY <1>7, <1>8, <1>9, PlainUnion

LEMMA DocumentCallSets ==
    Docs!Calls =
        Docs!InTab(Worded(Docs!At1("insertText", Spots)))
          \cup InNew(Worded(Docs!At1("insertText", {1}) \cup {Docs!Call("renameDocumentTab")}))
          \cup Docs!AtRange("deleteRange")
          \cup Docs!InTab(Retexted)
          \cup Docs!Styled(Docs!InTab(Docs!AtText("applyTextStyle")) \cup Docs!AtRange("applyTextStyle"), "bold")
          \cup Docs!Styled(Docs!InTab(Docs!AtText("applyParagraphStyle")) \cup Off(Docs!InTab(Docs!At1("applyParagraphStyle", Spots))), "heading")
          \cup Long(Docs!AtText("applyTextStyle") \cup Docs!AtText("applyParagraphStyle"))
          \cup Docs!Styled(Docs!AtText("createParagraphBullets"), "bullets")
          \cup Sought(Docs!InTab(Worded({Docs!Call("findAndReplaceInDoc")})) \cup Off({Docs!Call("findAndReplaceInDoc")}))
          \cup Tabled \cup Docs!CellEdits \cup Docs!AtRange("addComment") \cup Replied \cup Undone
          \cup Docs!At1("insertImageFromUrl", Spots) \cup Docs!At1("insertSmartChip", {1})
          \cup Stored2(Docs!At1("insertLocalImage", {1}))
          \cup Docs!InTab(Worded({Docs!Call("renameDocumentTab")})) \cup Worded({Docs!Call("addDocumentTab")})
          \cup Docs!InTab(Worded(Docs!At1("createFootnote", {None, 1}))) \cup Docs!At1("createFootnote", {None})
          \cup Bulk \cup Batched
  BY DEF Docs!Calls, Worded, Off, InNew, Sought, Stored2, Retexted, Tabled, Replied, Undone, Long, Bulk, Batched

LEMMA PlainMore ==
    ASSUME NEW C, ArePlain(C)
    PROVE  /\ ArePlain(Worded(C)) /\ ArePlain(Off(C)) /\ ArePlain(InNew(C)) /\ ArePlain(Sought(C)) /\ ArePlain(Long(C))
           /\ ArePlain(Docs!InTab(C)) /\ \A v : ArePlain(Docs!Styled(C, v))
           /\ ArePlain(Stored2(C))
  <1>1. /\ ArePlain(Worded(C)) /\ ArePlain(Off(C)) /\ ArePlain(InNew(C)) /\ ArePlain(Sought(C))
        /\ ArePlain(Docs!InTab(C)) /\ \A v : ArePlain(Docs!Styled(C, v))
    BY PlainSets
  <1>2. ArePlain(Long(C)) BY DEF Long, ArePlain
  <1>3. ArePlain(Stored2(C))
    <2> DEFINE d(c, p) == [c EXCEPT !.public = p]
               e(c, p, f) == [d(c, p) EXCEPT !.folder = f]
    <2>1. ASSUME NEW c \in C, NEW p PROVE DocCall(d(c, p)) /\ d(c, p).tool \in DocPlain
      BY DocCallUpdates DEF ArePlain
    <2>2. ASSUME NEW c \in C, NEW p, NEW f PROVE DocCall(e(c, p, f)) /\ e(c, p, f).tool \in DocPlain
      <3> HIDE DEF d
      <3> QED BY <2>1, DocCallUpdates
    <2>3. Stored2(C) = {e(c, p, f) : c \in C, p \in BOOLEAN, f \in BOOLEAN} BY DEF Stored2
    <2> HIDE DEF e
    <2> QED BY <2>2, <2>3 DEF ArePlain
  <1> QED BY <1>1, <1>2, <1>3

\* The fields that lists of requests are in.
LEMMA DocCallWithImages ==
    ASSUME NEW c, DocCall(c), NEW v, NEW d, d = [c EXCEPT !.images = v]
    PROVE  DocCall(d) /\ d.images = v /\ d.tool = c.tool /\ d.tab = c.tab /\ d.requests = c.requests
  <1>1. c = [tool |-> c.tool, tab |-> c.tab, from |-> c.from, to |-> c.to, find |-> c.find, instance |-> c.instance, text |-> c.text, attr |-> c.attr, on |-> c.on, id |-> c.id, row |-> c.row, column |-> c.column, align |-> c.align, public |-> c.public, folder |-> c.folder, images |-> c.images, requests |-> c.requests]
    BY DEF DocCall
  <1>2. d = [tool |-> c.tool, tab |-> c.tab, from |-> c.from, to |-> c.to, find |-> c.find, instance |-> c.instance, text |-> c.text, attr |-> c.attr, on |-> c.on, id |-> c.id, row |-> c.row, column |-> c.column, align |-> c.align, public |-> c.public, folder |-> c.folder, images |-> v, requests |-> c.requests]
    BY <1>1
  <1> QED BY <1>2 DEF DocCall

LEMMA DocCallWithRequests ==
    ASSUME NEW c, DocCall(c), NEW v, NEW d, d = [c EXCEPT !.requests = v]
    PROVE  DocCall(d) /\ d.requests = v /\ d.tool = c.tool /\ d.tab = c.tab /\ d.images = c.images
  <1>1. c = [tool |-> c.tool, tab |-> c.tab, from |-> c.from, to |-> c.to, find |-> c.find, instance |-> c.instance, text |-> c.text, attr |-> c.attr, on |-> c.on, id |-> c.id, row |-> c.row, column |-> c.column, align |-> c.align, public |-> c.public, folder |-> c.folder, images |-> c.images, requests |-> c.requests]
    BY DEF DocCall
  <1>2. d = [tool |-> c.tool, tab |-> c.tab, from |-> c.from, to |-> c.to, find |-> c.find, instance |-> c.instance, text |-> c.text, attr |-> c.attr, on |-> c.on, id |-> c.id, row |-> c.row, column |-> c.column, align |-> c.align, public |-> c.public, folder |-> c.folder, images |-> c.images, requests |-> v]
    BY <1>1
  <1> QED BY <1>2 DEF DocCall

LEMMA ListsOfTheClient ==
    /\ \A a \in Bulk : BulkComments(a)
    /\ \A a \in Batched : BatchDocument(a)
  <1>1. ASSUME NEW n
        PROVE  BulkComments([Docs!Call("bulk_update_file_comments") EXCEPT !.requests =
                   <<[op |-> "createComment", comment |-> Docs!Comment(1, 1, <<>>)],
                     [op |-> "createReply", id |-> n, text |-> Word, on |-> TRUE]>>])
    <2> DEFINE q1 == [op |-> "createComment", comment |-> Docs!Comment(1, 1, <<>>)]
               q2 == [op |-> "createReply", id |-> n, text |-> Word, on |-> TRUE]
               c == Docs!Call("bulk_update_file_comments")
               a == [c EXCEPT !.requests = <<q1, q2>>]
    <2>1. q1.op = "createComment" /\ q2.op = "createReply" OBVIOUS
    <2>2. DocCall(c) /\ c.tool = "bulk_update_file_comments" BY DocumentCall
    <2> HIDE DEF q1, q2, c
    <2>3. DocCall(a) /\ a.tool = "bulk_update_file_comments" /\ a.requests = <<q1, q2>>
      BY <2>2, DocCallWithRequests
    <2> HIDE DEF a
    <2>4. BulkComments(a) BY <2>1, <2>3 DEF BulkComments
    <2> QED BY <2>4 DEF a, q1, q2, c
  <1>2. \A a \in Bulk : BulkComments(a) BY <1>1 DEF Bulk
  <1>3. ASSUME NEW n \in 0..2, NEW i
        PROVE  BatchDocument([[Docs!Call("batch_update_document") EXCEPT !.images = n] EXCEPT
                   !.requests = Docs!InsertInline([Docs!Call(None) EXCEPT !.from = i], "image")])
    <2> DEFINE q == Docs!InsertInline([Docs!Call(None) EXCEPT !.from = i], "image")
               c == Docs!Call("batch_update_document")
               b == [c EXCEPT !.images = n]
               a == [b EXCEPT !.requests = q]
    <2>1. q = <<[op |-> "insertInline", tab |-> Main, from |-> i, text |-> "image"]>>
      BY DEF Docs!InsertInline, Docs!Call, Docs!TabOf
    <2>2. DocCall(c) /\ c.tool = "batch_update_document" /\ c.tab = None BY DocumentCall
    <2> HIDE DEF q, c
    <2>3. DocCall(b) /\ b.tool = "batch_update_document" /\ b.tab = None /\ b.images = n
      BY <2>2, DocCallWithImages
    <2> HIDE DEF b
    <2>4. DocCall(a) /\ a.tool = "batch_update_document" /\ a.requests = q /\ a.tab = None /\ a.images = n
      BY <2>3, DocCallWithRequests
    <2> HIDE DEF a
    <2>5. BatchDocument(a) BY <2>1, <2>4 DEF BatchDocument
    <2> QED BY <2>5 DEF a, b, c, q
  <1>4. \A a \in Batched : BatchDocument(a)
    <2> DEFINE d(n, i) == [[Docs!Call("batch_update_document") EXCEPT !.images = n] EXCEPT
                             !.requests = Docs!InsertInline([Docs!Call(None) EXCEPT !.from = i], "image")]
    <2>1. Batched = {d(n, i) : n \in 0..2, i \in Tables \cup {1}} BY DEF Batched
    <2>2. \A n \in 0..2 : \A i : BatchDocument(d(n, i)) BY Zenon, <1>3
    <2> HIDE DEF d
    <2> QED BY <2>1, <2>2
  <1> QED BY <1>2, <1>4

DocArgs(a) == (DocCall(a) /\ a.tool \in DocPlain) \/ BulkComments(a) \/ BatchDocument(a)

LEMMA DocumentCalls ==
    ASSUME NEW a \in Docs!Calls
    PROVE  DocArgs(a)
  <1>1. /\ ArePlain(Docs!InTab(Worded(Docs!At1("insertText", Spots))))
        /\ ArePlain(Docs!AtRange("deleteRange")) /\ ArePlain(Docs!AtRange("addComment"))
        /\ ArePlain(Docs!At1("insertImageFromUrl", Spots)) /\ ArePlain(Docs!At1("insertSmartChip", {1}))
        /\ ArePlain(Docs!InTab(Worded(Docs!At1("createFootnote", {None, 1})))) /\ ArePlain(Docs!At1("createFootnote", {None}))
    BY PlainGenerators, PlainMore DEF DocPlain
  <1>2. ArePlain(InNew(Worded(Docs!At1("insertText", {1}) \cup {Docs!Call("renameDocumentTab")})))
    <2>1. ArePlain(Docs!At1("insertText", {1})) /\ ArePlain({Docs!Call("renameDocumentTab")})
      BY PlainGenerators DEF DocPlain
    <2> QED BY <2>1, PlainUnion, PlainMore
  <1>3. ArePlain(Docs!InTab(Retexted))
    <2>1. ArePlain(Retexted)
      <3>1. \A word : ArePlain({[Docs!Call("updateGoogleDoc") EXCEPT !.text = word]})
        BY Zenon, PlainFields DEF DocPlain
      <3> QED BY Zenon, <3>1 DEF Retexted, ArePlain
    <2> QED BY <2>1, PlainMore
  <1>4. ArePlain(Docs!Styled(Docs!InTab(Docs!AtText("applyTextStyle")) \cup Docs!AtRange("applyTextStyle"), "bold"))
    <2>1. ArePlain(Docs!AtText("applyTextStyle")) /\ ArePlain(Docs!AtRange("applyTextStyle"))
      BY PlainGenerators DEF DocPlain
    <2> QED BY <2>1, PlainUnion, PlainMore
  <1>5. ArePlain(Docs!Styled(Docs!InTab(Docs!AtText("applyParagraphStyle")) \cup Off(Docs!InTab(Docs!At1("applyParagraphStyle", Spots))), "heading"))
    <2>1. ArePlain(Docs!AtText("applyParagraphStyle")) /\ ArePlain(Docs!At1("applyParagraphStyle", Spots))
      BY PlainGenerators DEF DocPlain
    <2> QED BY <2>1, PlainUnion, PlainMore
  <1>6. /\ ArePlain(Long(Docs!AtText("applyTextStyle") \cup Docs!AtText("applyParagraphStyle")))
        /\ ArePlain(Docs!Styled(Docs!AtText("createParagraphBullets"), "bullets"))
    <2>1. ArePlain(Docs!AtText("applyTextStyle")) /\ ArePlain(Docs!AtText("applyParagraphStyle"))
          /\ ArePlain(Docs!AtText("createParagraphBullets"))
      BY PlainGenerators DEF DocPlain
    <2> QED BY <2>1, PlainUnion, PlainMore
  <1>7. ArePlain(Sought(Docs!InTab(Worded({Docs!Call("findAndReplaceInDoc")})) \cup Off({Docs!Call("findAndReplaceInDoc")})))
    <2>1. ArePlain({Docs!Call("findAndReplaceInDoc")}) BY PlainGenerators DEF DocPlain
    <2> QED BY <2>1, PlainUnion, PlainMore
  <1>8. ArePlain(Tabled) /\ ArePlain(Replied) /\ ArePlain(Undone)
    <2> DEFINE t(r, c) == [Docs!Call("insertTable") EXCEPT !.from = 1, !.row = r, !.column = c]
               e(n, on) == [Docs!Call("replyToComment") EXCEPT !.id = n, !.text = Word, !.on = on]
               u(n) == [Docs!Call("deleteComment") EXCEPT !.id = n]
    <2>1. /\ Tabled = {t(r, c) : r \in {1, 2}, c \in {1, 2}}
          /\ Replied = {e(n, on) : n \in {1, 2}, on \in BOOLEAN}
          /\ Undone = {u(n) : n \in {1, 2}}
      BY SMTT(30) DEF Tabled, Replied, Undone
    <2>2. \A v, w : ArePlain({t(v, w)}) BY ZenonT(30), PlainFields DEF DocPlain
    <2>3. \A v, w : ArePlain({e(v, w)}) BY ZenonT(30), PlainFields DEF DocPlain
    <2>4. \A v : ArePlain({u(v)}) BY Zenon, PlainFields DEF DocPlain
    <2> HIDE DEF t, e, u
    <2> QED BY <2>1, <2>2, <2>3, <2>4 DEF ArePlain
  <1>9. ArePlain(Stored2(Docs!At1("insertLocalImage", {1})))
    BY PlainGenerators, PlainMore DEF DocPlain
  <1>10. ArePlain(Docs!InTab(Worded({Docs!Call("renameDocumentTab")}))) /\ ArePlain(Worded({Docs!Call("addDocumentTab")}))
    <2>1. ArePlain({Docs!Call("renameDocumentTab")}) /\ ArePlain({Docs!Call("addDocumentTab")})
      BY PlainGenerators DEF DocPlain
    <2> QED BY <2>1, PlainMore
  <1> DEFINE Good(C) == \A c \in C : DocArgs(c)
  <1>11. \A C : ArePlain(C) => Good(C) BY DEF ArePlain, DocArgs
  <1>12. Good(Bulk) /\ Good(Batched) BY ListsOfTheClient DEF DocArgs
  <1>13. Good(Docs!CellEdits) BY <1>11, CellEditsArePlain
  <1>14. \A C, D : Good(C) /\ Good(D) => Good(C \cup D) OBVIOUS
  <1> HIDE DEF Good
  <1>15. /\ Good(Docs!InTab(Worded(Docs!At1("insertText", Spots))))
         /\ Good(Docs!AtRange("deleteRange")) /\ Good(Docs!AtRange("addComment"))
         /\ Good(Docs!At1("insertImageFromUrl", Spots)) /\ Good(Docs!At1("insertSmartChip", {1}))
         /\ Good(Docs!InTab(Worded(Docs!At1("createFootnote", {None, 1})))) /\ Good(Docs!At1("createFootnote", {None}))
    BY <1>1, <1>11
  <1>16. /\ Good(InNew(Worded(Docs!At1("insertText", {1}) \cup {Docs!Call("renameDocumentTab")})))
         /\ Good(Docs!InTab(Retexted))
    BY <1>2, <1>3, <1>11
  <1>17. /\ Good(Docs!Styled(Docs!InTab(Docs!AtText("applyTextStyle")) \cup Docs!AtRange("applyTextStyle"), "bold"))
         /\ Good(Docs!Styled(Docs!InTab(Docs!AtText("applyParagraphStyle")) \cup Off(Docs!InTab(Docs!At1("applyParagraphStyle", Spots))), "heading"))
         /\ Good(Long(Docs!AtText("applyTextStyle") \cup Docs!AtText("applyParagraphStyle")))
    BY <1>4, <1>5, <1>6, <1>11
  <1>18. /\ Good(Docs!Styled(Docs!AtText("createParagraphBullets"), "bullets"))
         /\ Good(Sought(Docs!InTab(Worded({Docs!Call("findAndReplaceInDoc")})) \cup Off({Docs!Call("findAndReplaceInDoc")})))
    BY <1>6, <1>7, <1>11
  <1>19. Good(Tabled) /\ Good(Replied) /\ Good(Undone) /\ Good(Stored2(Docs!At1("insertLocalImage", {1})))
    BY <1>8, <1>9, <1>11
  <1>20. Good(Docs!InTab(Worded({Docs!Call("renameDocumentTab")}))) /\ Good(Worded({Docs!Call("addDocumentTab")}))
    BY <1>10, <1>11
  <1>21. Good(Docs!InTab(Worded(Docs!At1("insertText", Spots)))
          \cup InNew(Worded(Docs!At1("insertText", {1}) \cup {Docs!Call("renameDocumentTab")}))
          \cup Docs!AtRange("deleteRange")
          \cup Docs!InTab(Retexted)
          \cup Docs!Styled(Docs!InTab(Docs!AtText("applyTextStyle")) \cup Docs!AtRange("applyTextStyle"), "bold")
          \cup Docs!Styled(Docs!InTab(Docs!AtText("applyParagraphStyle")) \cup Off(Docs!InTab(Docs!At1("applyParagraphStyle", Spots))), "heading"))
    BY <1>14, <1>15, <1>16, <1>17
  <1>22. Good(Docs!InTab(Worded(Docs!At1("insertText", Spots)))
          \cup InNew(Worded(Docs!At1("insertText", {1}) \cup {Docs!Call("renameDocumentTab")}))
          \cup Docs!AtRange("deleteRange")
          \cup Docs!InTab(Retexted)
          \cup Docs!Styled(Docs!InTab(Docs!AtText("applyTextStyle")) \cup Docs!AtRange("applyTextStyle"), "bold")
          \cup Docs!Styled(Docs!InTab(Docs!AtText("applyParagraphStyle")) \cup Off(Docs!InTab(Docs!At1("applyParagraphStyle", Spots))), "heading")
          \cup Long(Docs!AtText("applyTextStyle") \cup Docs!AtText("applyParagraphStyle"))
          \cup Docs!Styled(Docs!AtText("createParagraphBullets"), "bullets")
          \cup Sought(Docs!InTab(Worded({Docs!Call("findAndReplaceInDoc")})) \cup Off({Docs!Call("findAndReplaceInDoc")}))
          \cup Tabled \cup Docs!CellEdits \cup Docs!AtRange("addComment"))
    BY <1>13, <1>14, <1>15, <1>17, <1>18, <1>19, <1>21
  <1>23. \E S : Good(S) /\ Docs!Calls = S \cup Replied \cup Undone
          \cup Docs!At1("insertImageFromUrl", Spots) \cup Docs!At1("insertSmartChip", {1})
          \cup Stored2(Docs!At1("insertLocalImage", {1}))
          \cup Docs!InTab(Worded({Docs!Call("renameDocumentTab")})) \cup Worded({Docs!Call("addDocumentTab")})
          \cup Docs!InTab(Worded(Docs!At1("createFootnote", {None, 1}))) \cup Docs!At1("createFootnote", {None})
          \cup Bulk \cup Batched
    BY <1>22, DocumentCallSets
  <1>24. \E S : Good(S) /\ Docs!Calls = S
          \cup Docs!InTab(Worded({Docs!Call("renameDocumentTab")})) \cup Worded({Docs!Call("addDocumentTab")})
          \cup Docs!InTab(Worded(Docs!At1("createFootnote", {None, 1}))) \cup Docs!At1("createFootnote", {None})
          \cup Bulk \cup Batched
    BY <1>14, <1>15, <1>19, <1>23
  <1>25. Good(Docs!Calls) BY ZenonT(30), <1>12, <1>14, <1>15, <1>20, <1>24
  <1> QED BY <1>25 DEF Good

SlideTools ==
    {"updateGoogleSlides", "formatGoogleSlidesText", "formatGoogleSlidesParagraph", "styleGoogleSlidesShape",
     "setGoogleSlidesBackground", "createGoogleSlidesTextBox", "createGoogleSlidesShape", "updateGoogleSlidesSpeakerNotes",
     "deleteGoogleSlide", "duplicateSlide", "reorderSlides", "replaceAllTextInSlides", "moveSlideElement", "deleteSlideElement",
     "insertSlidesImageFromUrl", "insertSlidesLocalImage"}

\* The indexes of a presentation of m slides.
Indexes(m) == {0, 1, m}

\* A call for a presentation of m slides has all its fields; with another one changed it is a call of the same tool.
PlainSlide(c, m) ==
    /\ c = [tool |-> c.tool, id |-> c.id, page |-> c.page, from |-> c.from, to |-> c.to, text |-> c.text, attrs |-> c.attrs, on |-> c.on, ids |-> c.ids, index |-> c.index, x |-> c.x, width |-> c.width, slides |-> c.slides, images |-> c.images, requests |-> c.requests]
    /\ c.tool \in SlideTools
    /\ IsFiniteSet(c.attrs)
    /\ c.tool = "updateGoogleSlidesSpeakerNotes" => c.index \in Nat
    /\ c.tool = "reorderSlides" => c.index \in Indexes(m)
    /\ Len(c.slides) \in 0..3
    /\ IsSequence(c.ids)

LEMMA PlainSlideUpdates ==
    ASSUME NEW m, NEW c, PlainSlide(c, m), NEW v, NEW d,
           \/ d = [c EXCEPT !.id = v]
           \/ d = [c EXCEPT !.page = v]
           \/ d = [c EXCEPT !.from = v]
           \/ d = [c EXCEPT !.to = v]
           \/ d = [c EXCEPT !.text = v]
           \/ d = [c EXCEPT !.attrs = v] /\ IsFiniteSet(v)
           \/ d = [c EXCEPT !.on = v]
           \/ d = [c EXCEPT !.ids = v] /\ IsSequence(v)
           \/ /\ d = [c EXCEPT !.index = v] /\ (c.tool = "updateGoogleSlidesSpeakerNotes" => v \in Nat)
              /\ c.tool = "reorderSlides" => v \in Indexes(m)
           \/ d = [c EXCEPT !.x = v]
           \/ d = [c EXCEPT !.width = v]
           \/ d = [c EXCEPT !.slides = v] /\ Len(v) \in 0..3
    PROVE  PlainSlide(d, m) /\ d.tool = c.tool
  <1>1. CASE d = [c EXCEPT !.id = v]
    <2>1. c = [tool |-> c.tool, id |-> c.id, page |-> c.page, from |-> c.from, to |-> c.to, text |-> c.text, attrs |-> c.attrs, on |-> c.on, ids |-> c.ids, index |-> c.index, x |-> c.x, width |-> c.width, slides |-> c.slides, images |-> c.images, requests |-> c.requests]
      BY DEF PlainSlide
    <2>2. d = [tool |-> c.tool, id |-> v, page |-> c.page, from |-> c.from, to |-> c.to, text |-> c.text, attrs |-> c.attrs, on |-> c.on, ids |-> c.ids, index |-> c.index, x |-> c.x, width |-> c.width, slides |-> c.slides, images |-> c.images, requests |-> c.requests]
      BY <1>1, <2>1
    <2> QED BY <1>1, <2>2 DEF PlainSlide
  <1>2. CASE d = [c EXCEPT !.page = v]
    <2>1. c = [tool |-> c.tool, id |-> c.id, page |-> c.page, from |-> c.from, to |-> c.to, text |-> c.text, attrs |-> c.attrs, on |-> c.on, ids |-> c.ids, index |-> c.index, x |-> c.x, width |-> c.width, slides |-> c.slides, images |-> c.images, requests |-> c.requests]
      BY DEF PlainSlide
    <2>2. d = [tool |-> c.tool, id |-> c.id, page |-> v, from |-> c.from, to |-> c.to, text |-> c.text, attrs |-> c.attrs, on |-> c.on, ids |-> c.ids, index |-> c.index, x |-> c.x, width |-> c.width, slides |-> c.slides, images |-> c.images, requests |-> c.requests]
      BY <1>2, <2>1
    <2> QED BY <1>2, <2>2 DEF PlainSlide
  <1>3. CASE d = [c EXCEPT !.from = v]
    <2>1. c = [tool |-> c.tool, id |-> c.id, page |-> c.page, from |-> c.from, to |-> c.to, text |-> c.text, attrs |-> c.attrs, on |-> c.on, ids |-> c.ids, index |-> c.index, x |-> c.x, width |-> c.width, slides |-> c.slides, images |-> c.images, requests |-> c.requests]
      BY DEF PlainSlide
    <2>2. d = [tool |-> c.tool, id |-> c.id, page |-> c.page, from |-> v, to |-> c.to, text |-> c.text, attrs |-> c.attrs, on |-> c.on, ids |-> c.ids, index |-> c.index, x |-> c.x, width |-> c.width, slides |-> c.slides, images |-> c.images, requests |-> c.requests]
      BY <1>3, <2>1
    <2> QED BY <1>3, <2>2 DEF PlainSlide
  <1>4. CASE d = [c EXCEPT !.to = v]
    <2>1. c = [tool |-> c.tool, id |-> c.id, page |-> c.page, from |-> c.from, to |-> c.to, text |-> c.text, attrs |-> c.attrs, on |-> c.on, ids |-> c.ids, index |-> c.index, x |-> c.x, width |-> c.width, slides |-> c.slides, images |-> c.images, requests |-> c.requests]
      BY DEF PlainSlide
    <2>2. d = [tool |-> c.tool, id |-> c.id, page |-> c.page, from |-> c.from, to |-> v, text |-> c.text, attrs |-> c.attrs, on |-> c.on, ids |-> c.ids, index |-> c.index, x |-> c.x, width |-> c.width, slides |-> c.slides, images |-> c.images, requests |-> c.requests]
      BY <1>4, <2>1
    <2> QED BY <1>4, <2>2 DEF PlainSlide
  <1>5. CASE d = [c EXCEPT !.text = v]
    <2>1. c = [tool |-> c.tool, id |-> c.id, page |-> c.page, from |-> c.from, to |-> c.to, text |-> c.text, attrs |-> c.attrs, on |-> c.on, ids |-> c.ids, index |-> c.index, x |-> c.x, width |-> c.width, slides |-> c.slides, images |-> c.images, requests |-> c.requests]
      BY DEF PlainSlide
    <2>2. d = [tool |-> c.tool, id |-> c.id, page |-> c.page, from |-> c.from, to |-> c.to, text |-> v, attrs |-> c.attrs, on |-> c.on, ids |-> c.ids, index |-> c.index, x |-> c.x, width |-> c.width, slides |-> c.slides, images |-> c.images, requests |-> c.requests]
      BY <1>5, <2>1
    <2> QED BY <1>5, <2>2 DEF PlainSlide
  <1>6. CASE d = [c EXCEPT !.attrs = v] /\ IsFiniteSet(v)
    <2>1. c = [tool |-> c.tool, id |-> c.id, page |-> c.page, from |-> c.from, to |-> c.to, text |-> c.text, attrs |-> c.attrs, on |-> c.on, ids |-> c.ids, index |-> c.index, x |-> c.x, width |-> c.width, slides |-> c.slides, images |-> c.images, requests |-> c.requests]
      BY DEF PlainSlide
    <2>2. d = [tool |-> c.tool, id |-> c.id, page |-> c.page, from |-> c.from, to |-> c.to, text |-> c.text, attrs |-> v, on |-> c.on, ids |-> c.ids, index |-> c.index, x |-> c.x, width |-> c.width, slides |-> c.slides, images |-> c.images, requests |-> c.requests]
      BY <1>6, <2>1
    <2> QED BY <1>6, <2>2 DEF PlainSlide
  <1>7. CASE d = [c EXCEPT !.on = v]
    <2>1. c = [tool |-> c.tool, id |-> c.id, page |-> c.page, from |-> c.from, to |-> c.to, text |-> c.text, attrs |-> c.attrs, on |-> c.on, ids |-> c.ids, index |-> c.index, x |-> c.x, width |-> c.width, slides |-> c.slides, images |-> c.images, requests |-> c.requests]
      BY DEF PlainSlide
    <2>2. d = [tool |-> c.tool, id |-> c.id, page |-> c.page, from |-> c.from, to |-> c.to, text |-> c.text, attrs |-> c.attrs, on |-> v, ids |-> c.ids, index |-> c.index, x |-> c.x, width |-> c.width, slides |-> c.slides, images |-> c.images, requests |-> c.requests]
      BY <1>7, <2>1
    <2> QED BY <1>7, <2>2 DEF PlainSlide
  <1>8. CASE d = [c EXCEPT !.ids = v] /\ IsSequence(v)
    <2>1. c = [tool |-> c.tool, id |-> c.id, page |-> c.page, from |-> c.from, to |-> c.to, text |-> c.text, attrs |-> c.attrs, on |-> c.on, ids |-> c.ids, index |-> c.index, x |-> c.x, width |-> c.width, slides |-> c.slides, images |-> c.images, requests |-> c.requests]
      BY DEF PlainSlide
    <2>2. d = [tool |-> c.tool, id |-> c.id, page |-> c.page, from |-> c.from, to |-> c.to, text |-> c.text, attrs |-> c.attrs, on |-> c.on, ids |-> v, index |-> c.index, x |-> c.x, width |-> c.width, slides |-> c.slides, images |-> c.images, requests |-> c.requests]
      BY <1>8, <2>1
    <2> QED BY <1>8, <2>2 DEF PlainSlide
  <1>9. CASE /\ d = [c EXCEPT !.index = v] /\ (c.tool = "updateGoogleSlidesSpeakerNotes" => v \in Nat)
             /\ c.tool = "reorderSlides" => v \in Indexes(m)
    <2>1. c = [tool |-> c.tool, id |-> c.id, page |-> c.page, from |-> c.from, to |-> c.to, text |-> c.text, attrs |-> c.attrs, on |-> c.on, ids |-> c.ids, index |-> c.index, x |-> c.x, width |-> c.width, slides |-> c.slides, images |-> c.images, requests |-> c.requests]
      BY DEF PlainSlide
    <2>2. d = [tool |-> c.tool, id |-> c.id, page |-> c.page, from |-> c.from, to |-> c.to, text |-> c.text, attrs |-> c.attrs, on |-> c.on, ids |-> c.ids, index |-> v, x |-> c.x, width |-> c.width, slides |-> c.slides, images |-> c.images, requests |-> c.requests]
      BY <1>9, <2>1
    <2> QED BY <1>9, <2>2 DEF PlainSlide
  <1>10. CASE d = [c EXCEPT !.x = v]
    <2>1. c = [tool |-> c.tool, id |-> c.id, page |-> c.page, from |-> c.from, to |-> c.to, text |-> c.text, attrs |-> c.attrs, on |-> c.on, ids |-> c.ids, index |-> c.index, x |-> c.x, width |-> c.width, slides |-> c.slides, images |-> c.images, requests |-> c.requests]
      BY DEF PlainSlide
    <2>2. d = [tool |-> c.tool, id |-> c.id, page |-> c.page, from |-> c.from, to |-> c.to, text |-> c.text, attrs |-> c.attrs, on |-> c.on, ids |-> c.ids, index |-> c.index, x |-> v, width |-> c.width, slides |-> c.slides, images |-> c.images, requests |-> c.requests]
      BY <1>10, <2>1
    <2> QED BY <1>10, <2>2 DEF PlainSlide
  <1>11. CASE d = [c EXCEPT !.width = v]
    <2>1. c = [tool |-> c.tool, id |-> c.id, page |-> c.page, from |-> c.from, to |-> c.to, text |-> c.text, attrs |-> c.attrs, on |-> c.on, ids |-> c.ids, index |-> c.index, x |-> c.x, width |-> c.width, slides |-> c.slides, images |-> c.images, requests |-> c.requests]
      BY DEF PlainSlide
    <2>2. d = [tool |-> c.tool, id |-> c.id, page |-> c.page, from |-> c.from, to |-> c.to, text |-> c.text, attrs |-> c.attrs, on |-> c.on, ids |-> c.ids, index |-> c.index, x |-> c.x, width |-> v, slides |-> c.slides, images |-> c.images, requests |-> c.requests]
      BY <1>11, <2>1
    <2> QED BY <1>11, <2>2 DEF PlainSlide
  <1>12. CASE d = [c EXCEPT !.slides = v] /\ Len(v) \in 0..3
    <2>1. c = [tool |-> c.tool, id |-> c.id, page |-> c.page, from |-> c.from, to |-> c.to, text |-> c.text, attrs |-> c.attrs, on |-> c.on, ids |-> c.ids, index |-> c.index, x |-> c.x, width |-> c.width, slides |-> c.slides, images |-> c.images, requests |-> c.requests]
      BY DEF PlainSlide
    <2>2. d = [tool |-> c.tool, id |-> c.id, page |-> c.page, from |-> c.from, to |-> c.to, text |-> c.text, attrs |-> c.attrs, on |-> c.on, ids |-> c.ids, index |-> c.index, x |-> c.x, width |-> c.width, slides |-> v, images |-> c.images, requests |-> c.requests]
      BY <1>12, <2>1
    <2> QED BY <1>12, <2>2 DEF PlainSlide
  <1> QED BY <1>1, <1>2, <1>3, <1>4, <1>5, <1>6, <1>7, <1>8, <1>9, <1>10, <1>11, <1>12

SheetTools ==
    {"formatGoogleSheetCells", "formatGoogleSheetText", "formatGoogleSheetNumbers", "setGoogleSheetBorders", "mergeGoogleSheetCells",
     "addGoogleSheetConditionalFormat", "addDataValidation", "protectRange", "addNamedRange", "updateGoogleSheet",
     "appendSpreadsheetRows", "addSheet", "renameSheet", "deleteSheet", "setColumnWidth", "setRowHeight", "autoResizeColumns",
     "autoResizeRows", "hideSheetDimension", "showSheetDimension"}

\* The same for a spreadsheet.
PlainSheet(c) ==
    /\ c = [tool |-> c.tool, range |-> c.range, id |-> c.id, title |-> c.title, marks |-> c.marks, off |-> c.off, dimension |-> c.dimension, from |-> c.from, to |-> c.to, images |-> c.images, requests |-> c.requests]
    /\ c.tool \in SheetTools

LEMMA PlainSheetUpdates ==
    ASSUME NEW c, PlainSheet(c), NEW v, NEW d,
           \/ d = [c EXCEPT !.range = v]
           \/ d = [c EXCEPT !.id = v]
           \/ d = [c EXCEPT !.title = v]
           \/ d = [c EXCEPT !.marks = v]
           \/ d = [c EXCEPT !.off = v]
           \/ d = [c EXCEPT !.dimension = v]
           \/ d = [c EXCEPT !.from = v]
           \/ d = [c EXCEPT !.to = v]
    PROVE  PlainSheet(d) /\ d.tool = c.tool
  <1>1. CASE d = [c EXCEPT !.range = v]
    <2>1. c = [tool |-> c.tool, range |-> c.range, id |-> c.id, title |-> c.title, marks |-> c.marks, off |-> c.off, dimension |-> c.dimension, from |-> c.from, to |-> c.to, images |-> c.images, requests |-> c.requests]
      BY DEF PlainSheet
    <2>2. d = [tool |-> c.tool, range |-> v, id |-> c.id, title |-> c.title, marks |-> c.marks, off |-> c.off, dimension |-> c.dimension, from |-> c.from, to |-> c.to, images |-> c.images, requests |-> c.requests]
      BY <1>1, <2>1
    <2> QED BY <1>1, <2>2 DEF PlainSheet
  <1>2. CASE d = [c EXCEPT !.id = v]
    <2>1. c = [tool |-> c.tool, range |-> c.range, id |-> c.id, title |-> c.title, marks |-> c.marks, off |-> c.off, dimension |-> c.dimension, from |-> c.from, to |-> c.to, images |-> c.images, requests |-> c.requests]
      BY DEF PlainSheet
    <2>2. d = [tool |-> c.tool, range |-> c.range, id |-> v, title |-> c.title, marks |-> c.marks, off |-> c.off, dimension |-> c.dimension, from |-> c.from, to |-> c.to, images |-> c.images, requests |-> c.requests]
      BY <1>2, <2>1
    <2> QED BY <1>2, <2>2 DEF PlainSheet
  <1>3. CASE d = [c EXCEPT !.title = v]
    <2>1. c = [tool |-> c.tool, range |-> c.range, id |-> c.id, title |-> c.title, marks |-> c.marks, off |-> c.off, dimension |-> c.dimension, from |-> c.from, to |-> c.to, images |-> c.images, requests |-> c.requests]
      BY DEF PlainSheet
    <2>2. d = [tool |-> c.tool, range |-> c.range, id |-> c.id, title |-> v, marks |-> c.marks, off |-> c.off, dimension |-> c.dimension, from |-> c.from, to |-> c.to, images |-> c.images, requests |-> c.requests]
      BY <1>3, <2>1
    <2> QED BY <1>3, <2>2 DEF PlainSheet
  <1>4. CASE d = [c EXCEPT !.marks = v]
    <2>1. c = [tool |-> c.tool, range |-> c.range, id |-> c.id, title |-> c.title, marks |-> c.marks, off |-> c.off, dimension |-> c.dimension, from |-> c.from, to |-> c.to, images |-> c.images, requests |-> c.requests]
      BY DEF PlainSheet
    <2>2. d = [tool |-> c.tool, range |-> c.range, id |-> c.id, title |-> c.title, marks |-> v, off |-> c.off, dimension |-> c.dimension, from |-> c.from, to |-> c.to, images |-> c.images, requests |-> c.requests]
      BY <1>4, <2>1
    <2> QED BY <1>4, <2>2 DEF PlainSheet
  <1>5. CASE d = [c EXCEPT !.off = v]
    <2>1. c = [tool |-> c.tool, range |-> c.range, id |-> c.id, title |-> c.title, marks |-> c.marks, off |-> c.off, dimension |-> c.dimension, from |-> c.from, to |-> c.to, images |-> c.images, requests |-> c.requests]
      BY DEF PlainSheet
    <2>2. d = [tool |-> c.tool, range |-> c.range, id |-> c.id, title |-> c.title, marks |-> c.marks, off |-> v, dimension |-> c.dimension, from |-> c.from, to |-> c.to, images |-> c.images, requests |-> c.requests]
      BY <1>5, <2>1
    <2> QED BY <1>5, <2>2 DEF PlainSheet
  <1>6. CASE d = [c EXCEPT !.dimension = v]
    <2>1. c = [tool |-> c.tool, range |-> c.range, id |-> c.id, title |-> c.title, marks |-> c.marks, off |-> c.off, dimension |-> c.dimension, from |-> c.from, to |-> c.to, images |-> c.images, requests |-> c.requests]
      BY DEF PlainSheet
    <2>2. d = [tool |-> c.tool, range |-> c.range, id |-> c.id, title |-> c.title, marks |-> c.marks, off |-> c.off, dimension |-> v, from |-> c.from, to |-> c.to, images |-> c.images, requests |-> c.requests]
      BY <1>6, <2>1
    <2> QED BY <1>6, <2>2 DEF PlainSheet
  <1>7. CASE d = [c EXCEPT !.from = v]
    <2>1. c = [tool |-> c.tool, range |-> c.range, id |-> c.id, title |-> c.title, marks |-> c.marks, off |-> c.off, dimension |-> c.dimension, from |-> c.from, to |-> c.to, images |-> c.images, requests |-> c.requests]
      BY DEF PlainSheet
    <2>2. d = [tool |-> c.tool, range |-> c.range, id |-> c.id, title |-> c.title, marks |-> c.marks, off |-> c.off, dimension |-> c.dimension, from |-> v, to |-> c.to, images |-> c.images, requests |-> c.requests]
      BY <1>7, <2>1
    <2> QED BY <1>7, <2>2 DEF PlainSheet
  <1>8. CASE d = [c EXCEPT !.to = v]
    <2>1. c = [tool |-> c.tool, range |-> c.range, id |-> c.id, title |-> c.title, marks |-> c.marks, off |-> c.off, dimension |-> c.dimension, from |-> c.from, to |-> c.to, images |-> c.images, requests |-> c.requests]
      BY DEF PlainSheet
    <2>2. d = [tool |-> c.tool, range |-> c.range, id |-> c.id, title |-> c.title, marks |-> c.marks, off |-> c.off, dimension |-> c.dimension, from |-> c.from, to |-> v, images |-> c.images, requests |-> c.requests]
      BY <1>8, <2>1
    <2> QED BY <1>8, <2>2 DEF PlainSheet
  <1> QED BY <1>1, <1>2, <1>3, <1>4, <1>5, <1>6, <1>7, <1>8

EventTools ==
    {"createCalendarEvent", "updateCalendarEvent", "deleteCalendarEvent"}

\* The same for a calendar.
PlainEvent(c) ==
    /\ c = [tool |-> c.tool, id |-> c.id, text |-> c.text, time |-> c.time, attendees |-> c.attendees, attachments |-> c.attachments, kept |-> c.kept, meet |-> c.meet]
    /\ c.tool \in EventTools

LEMMA PlainEventUpdates ==
    ASSUME NEW c, PlainEvent(c), NEW v, NEW d,
           \/ d = [c EXCEPT !.id = v]
           \/ d = [c EXCEPT !.text = v]
           \/ d = [c EXCEPT !.time = v]
           \/ d = [c EXCEPT !.attendees = v]
           \/ d = [c EXCEPT !.attachments = v]
           \/ d = [c EXCEPT !.kept = v]
           \/ d = [c EXCEPT !.meet = v]
    PROVE  PlainEvent(d) /\ d.tool = c.tool
  <1>1. CASE d = [c EXCEPT !.id = v]
    <2>1. c = [tool |-> c.tool, id |-> c.id, text |-> c.text, time |-> c.time, attendees |-> c.attendees, attachments |-> c.attachments, kept |-> c.kept, meet |-> c.meet]
      BY DEF PlainEvent
    <2>2. d = [tool |-> c.tool, id |-> v, text |-> c.text, time |-> c.time, attendees |-> c.attendees, attachments |-> c.attachments, kept |-> c.kept, meet |-> c.meet]
      BY <1>1, <2>1
    <2> QED BY <1>1, <2>2 DEF PlainEvent
  <1>2. CASE d = [c EXCEPT !.text = v]
    <2>1. c = [tool |-> c.tool, id |-> c.id, text |-> c.text, time |-> c.time, attendees |-> c.attendees, attachments |-> c.attachments, kept |-> c.kept, meet |-> c.meet]
      BY DEF PlainEvent
    <2>2. d = [tool |-> c.tool, id |-> c.id, text |-> v, time |-> c.time, attendees |-> c.attendees, attachments |-> c.attachments, kept |-> c.kept, meet |-> c.meet]
      BY <1>2, <2>1
    <2> QED BY <1>2, <2>2 DEF PlainEvent
  <1>3. CASE d = [c EXCEPT !.time = v]
    <2>1. c = [tool |-> c.tool, id |-> c.id, text |-> c.text, time |-> c.time, attendees |-> c.attendees, attachments |-> c.attachments, kept |-> c.kept, meet |-> c.meet]
      BY DEF PlainEvent
    <2>2. d = [tool |-> c.tool, id |-> c.id, text |-> c.text, time |-> v, attendees |-> c.attendees, attachments |-> c.attachments, kept |-> c.kept, meet |-> c.meet]
      BY <1>3, <2>1
    <2> QED BY <1>3, <2>2 DEF PlainEvent
  <1>4. CASE d = [c EXCEPT !.attendees = v]
    <2>1. c = [tool |-> c.tool, id |-> c.id, text |-> c.text, time |-> c.time, attendees |-> c.attendees, attachments |-> c.attachments, kept |-> c.kept, meet |-> c.meet]
      BY DEF PlainEvent
    <2>2. d = [tool |-> c.tool, id |-> c.id, text |-> c.text, time |-> c.time, attendees |-> v, attachments |-> c.attachments, kept |-> c.kept, meet |-> c.meet]
      BY <1>4, <2>1
    <2> QED BY <1>4, <2>2 DEF PlainEvent
  <1>5. CASE d = [c EXCEPT !.attachments = v]
    <2>1. c = [tool |-> c.tool, id |-> c.id, text |-> c.text, time |-> c.time, attendees |-> c.attendees, attachments |-> c.attachments, kept |-> c.kept, meet |-> c.meet]
      BY DEF PlainEvent
    <2>2. d = [tool |-> c.tool, id |-> c.id, text |-> c.text, time |-> c.time, attendees |-> c.attendees, attachments |-> v, kept |-> c.kept, meet |-> c.meet]
      BY <1>5, <2>1
    <2> QED BY <1>5, <2>2 DEF PlainEvent
  <1>6. CASE d = [c EXCEPT !.kept = v]
    <2>1. c = [tool |-> c.tool, id |-> c.id, text |-> c.text, time |-> c.time, attendees |-> c.attendees, attachments |-> c.attachments, kept |-> c.kept, meet |-> c.meet]
      BY DEF PlainEvent
    <2>2. d = [tool |-> c.tool, id |-> c.id, text |-> c.text, time |-> c.time, attendees |-> c.attendees, attachments |-> c.attachments, kept |-> v, meet |-> c.meet]
      BY <1>6, <2>1
    <2> QED BY <1>6, <2>2 DEF PlainEvent
  <1>7. CASE d = [c EXCEPT !.meet = v]
    <2>1. c = [tool |-> c.tool, id |-> c.id, text |-> c.text, time |-> c.time, attendees |-> c.attendees, attachments |-> c.attachments, kept |-> c.kept, meet |-> c.meet]
      BY DEF PlainEvent
    <2>2. d = [tool |-> c.tool, id |-> c.id, text |-> c.text, time |-> c.time, attendees |-> c.attendees, attachments |-> c.attachments, kept |-> c.kept, meet |-> v]
      BY <1>7, <2>1
    <2> QED BY <1>7, <2>2 DEF PlainEvent
  <1> QED BY <1>1, <1>2, <1>3, <1>4, <1>5, <1>6, <1>7

-----------------------------------------------------------------------------
\* The sets that the calls of an instance for a presentation are made of.
SlideIds(p) == {s.id : s \in Slides!SlidesOf(p)}
ObjectIds(p) == {e.id : e \in Slides!Objects(p)} \cup {<<0, 0>>}
OnObjects(tool, p) == {[Slides!Call(tool) EXCEPT !.id = i] : i \in ObjectIds(p)}
OnPages(tool, p) == {[Slides!Call(tool) EXCEPT !.page = i, !.text = <<Word>>] : i \in SlideIds(p) \cup {<<0, 0>>}}
WithAttrs(C, S) == {[c EXCEPT !.attrs = S] : c \in C}
InRanges(C) == {[c EXCEPT !.from = i[1], !.to = i[2]] : c \in C, i \in {<<0, None>>, <<0, 1>>, <<1, 2>>}}
Moved(C) == {[c EXCEPT !.x = i[1], !.width = i[2]] : c \in C, i \in {<<None, None>>, <<3, None>>, <<3, 4>>}}
Refilled == {[Slides!Call("updateGoogleSlides") EXCEPT !.slides = [i \in 1..k |-> [title |-> <<Word>>, body |-> Needle]]] : k \in 0..3}
Backgrounds(p) == {[Slides!Call("setGoogleSlidesBackground") EXCEPT !.ids = <<p.slides[1].id, i>>] : i \in SlideIds(p) \cup {<<0, 0>>}}
Noted == {[Slides!Call("updateGoogleSlidesSpeakerNotes") EXCEPT !.index = i, !.text = <<Word>>] : i \in 0..3}
OneMoved(p) == {[Slides!Call("reorderSlides") EXCEPT !.ids = <<i>>, !.index = k] : i \in SlideIds(p), k \in {0, 1, Len(p.slides)}}
TwoMoved(p) ==
    {[Slides!Call("reorderSlides") EXCEPT !.ids = <<p.slides[i].id, p.slides[i + 1].id>>, !.index = k] :
        i \in 1..(Len(p.slides) - 1), k \in {0, Len(p.slides)}}
AllReplaced == {[Slides!Call("replaceAllTextInSlides") EXCEPT !.text = <<Word>>]}
SlidesBatched(p) ==
    {[Slides!Call("batch_update_presentation") EXCEPT
        !.images = k, !.requests = Slides!insertImageIntoSlide([Slides!Call(None) EXCEPT !.page = i], 0)] :
            k \in 0..2, i \in SlideIds(p)}

LEMMA PresentationCallSets ==
    ASSUME NEW p
    PROVE  Slides!Calls(p) =
              Refilled \cup WithAttrs(InRanges(OnObjects("formatGoogleSlidesText", p)), {"bold"})
                \cup WithAttrs(OnObjects("formatGoogleSlidesParagraph", p), {"centered", "bullets"})
                \cup WithAttrs(OnObjects("styleGoogleSlidesShape", p), {"filled"})
                \cup Backgrounds(p)
                \cup WithAttrs(OnPages("createGoogleSlidesTextBox", p), {"bold"}) \cup WithAttrs(OnPages("createGoogleSlidesShape", p), {"filled"})
                \cup Noted \cup OnPages("deleteGoogleSlide", p) \cup OnPages("duplicateSlide", p)
                \cup OneMoved(p) \cup TwoMoved(p) \cup AllReplaced
                \cup Moved(OnObjects("moveSlideElement", p)) \cup OnObjects("deleteSlideElement", p)
                \cup OnPages("insertSlidesImageFromUrl", p) \cup OnPages("insertSlidesLocalImage", p)
                \cup SlidesBatched(p)
  BY DEF Slides!Calls, Refilled, WithAttrs, InRanges, OnObjects, Backgrounds, OnPages, Noted, OneMoved, TwoMoved, AllReplaced,
         Moved, SlidesBatched, SlideIds, ObjectIds

LEMMA PresentationCall ==
    ASSUME NEW m, NEW tool \in SlideTools
    PROVE  PlainSlide(Slides!Call(tool), m) /\ Slides!Call(tool).tool = tool
  <1>1. IsFiniteSet({}) BY FS_EmptySet
  <1>2. Slides!Call(tool).attrs = {} /\ Slides!Call(tool).tool = tool /\ Slides!Call(tool).index = 0 /\ Slides!Call(tool).slides = <<>>
        /\ Slides!Call(tool).ids = <<>>
    BY DEF Slides!Call
  <1>3. Slides!Call(tool) =
          [tool |-> tool, id |-> None, page |-> None, from |-> 0, to |-> None, text |-> None, attrs |-> {},
           on |-> TRUE, ids |-> <<>>, index |-> 0, x |-> None, width |-> None, slides |-> <<>>, images |-> 0, requests |-> <<>>]
    BY DEF Slides!Call
  <1> DEFINE c == Slides!Call(tool)
  <1> HIDE DEF c
  <1>4. c = [tool |-> c.tool, id |-> c.id, page |-> c.page, from |-> c.from, to |-> c.to, text |-> c.text, attrs |-> c.attrs,
             on |-> c.on, ids |-> c.ids, index |-> c.index, x |-> c.x, width |-> c.width, slides |-> c.slides,
             images |-> c.images, requests |-> c.requests]
    BY <1>3 DEF c
  <1>5. c.attrs = {} /\ c.tool = tool /\ c.index = 0 /\ Len(c.slides) = 0 /\ IsSequence(c.ids)
    BY <1>2, EmptyIsSequence DEF c
  <1>6. PlainSlide(c, m) /\ c.tool = tool BY <1>1, <1>4, <1>5 DEF PlainSlide, Indexes
  <1> QED BY <1>6 DEF c

\* Every call of the sets is plain.
ArePlainSlides(C, m) == \A c \in C : PlainSlide(c, m)

LEMMA PlainSlideGenerators ==
    ASSUME NEW m, NEW tool \in SlideTools, NEW p
    PROVE  ArePlainSlides(OnObjects(tool, p), m) /\ ArePlainSlides(OnPages(tool, p), m)
  <1>1. \A z \in OnObjects(tool, p) : PlainSlide(z, m)
    <2> DEFINE d(u) == [Slides!Call(tool) EXCEPT !.id = u]
    <2>1. ASSUME NEW u PROVE PlainSlide(d(u), m) BY PresentationCall, PlainSlideUpdates
    <2>2. OnObjects(tool, p) = {d(i) : i \in ObjectIds(p)} BY DEF OnObjects
    <2> HIDE DEF d
    <2> QED BY <2>1, <2>2
  <1>2. \A z \in OnPages(tool, p) : PlainSlide(z, m)
    <2> DEFINE d(u) == [Slides!Call(tool) EXCEPT !.page = u]
               e(u, v) == [d(u) EXCEPT !.text = v]
    <2>1. ASSUME NEW u PROVE PlainSlide(d(u), m) BY PresentationCall, PlainSlideUpdates
    <2>2. ASSUME NEW u, NEW v PROVE PlainSlide(e(u, v), m)
      <3> HIDE DEF d
      <3> QED BY <2>1, <2>2, PlainSlideUpdates
    <2>3. OnPages(tool, p) = {e(i, <<Word>>) : i \in SlideIds(p) \cup {<<0, 0>>}} BY DEF OnPages
    <2> HIDE DEF e
    <2> QED BY <2>2, <2>3
  <1> QED BY <1>1, <1>2 DEF ArePlainSlides

LEMMA PlainSlideSets ==
    ASSUME NEW m, NEW C, ArePlainSlides(C, m)
    PROVE  /\ \A S : IsFiniteSet(S) => ArePlainSlides(WithAttrs(C, S), m)
           /\ ArePlainSlides(InRanges(C), m) /\ ArePlainSlides(Moved(C), m)
  <1>0. \A c \in C : PlainSlide(c, m) BY DEF ArePlainSlides
  <1>1. ASSUME NEW S, IsFiniteSet(S) PROVE \A z \in WithAttrs(C, S) : PlainSlide(z, m)
    <2>1. ASSUME NEW c \in C, NEW d, d = [c EXCEPT !.attrs = S] PROVE PlainSlide(d, m)
      BY <1>0, <1>1, <2>1, PlainSlideUpdates
    <2> QED BY <2>1 DEF WithAttrs
  <1>2. \A z \in InRanges(C) : PlainSlide(z, m)
    <2> DEFINE d(c, u) == [c EXCEPT !.from = u]
               e(c, u, v) == [d(c, u) EXCEPT !.to = v]
    <2>1. ASSUME NEW c \in C, NEW u PROVE PlainSlide(d(c, u), m) BY <1>0, PlainSlideUpdates
    <2>2. ASSUME NEW c \in C, NEW u, NEW v PROVE PlainSlide(e(c, u, v), m)
      <3> HIDE DEF d
      <3> QED BY <2>1, <2>2, PlainSlideUpdates
    <2>3. InRanges(C) = {e(c, i[1], i[2]) : c \in C, i \in {<<0, None>>, <<0, 1>>, <<1, 2>>}}
      BY DEF InRanges
    <2> HIDE DEF e
    <2> QED BY <2>2, <2>3
  <1>3. \A z \in Moved(C) : PlainSlide(z, m)
    <2> DEFINE d(c, u) == [c EXCEPT !.x = u]
               e(c, u, v) == [d(c, u) EXCEPT !.width = v]
    <2>1. ASSUME NEW c \in C, NEW u PROVE PlainSlide(d(c, u), m) BY <1>0, PlainSlideUpdates
    <2>2. ASSUME NEW c \in C, NEW u, NEW v PROVE PlainSlide(e(c, u, v), m)
      <3> HIDE DEF d
      <3> QED BY <2>1, <2>2, PlainSlideUpdates
    <2>3. Moved(C) = {e(c, i[1], i[2]) : c \in C, i \in {<<None, None>>, <<3, None>>, <<3, 4>>}}
      BY DEF Moved
    <2> HIDE DEF e
    <2> QED BY <2>2, <2>3
  <1> QED BY <1>1, <1>2, <1>3 DEF ArePlainSlides

HasSlides(p, m) == m = Len(p.slides)

\* What a tool counts slides with.
Fits(tool, v, m) == (tool = "updateGoogleSlidesSpeakerNotes" => v \in Nat) /\ (tool = "reorderSlides" => v \in Indexes(m))

LEMMA SlideIndexed ==
    ASSUME NEW m, NEW c, PlainSlide(c, m), NEW v, Fits(c.tool, v, m), NEW d, d = [c EXCEPT !.index = v]
    PROVE  PlainSlide(d, m) /\ d.tool = c.tool
  <1>1. c = [tool |-> c.tool, id |-> c.id, page |-> c.page, from |-> c.from, to |-> c.to, text |-> c.text, attrs |-> c.attrs, on |-> c.on, ids |-> c.ids, index |-> c.index, x |-> c.x, width |-> c.width, slides |-> c.slides, images |-> c.images, requests |-> c.requests]
    BY DEF PlainSlide
  <1>2. d = [tool |-> c.tool, id |-> c.id, page |-> c.page, from |-> c.from, to |-> c.to, text |-> c.text, attrs |-> c.attrs, on |-> c.on, ids |-> c.ids, index |-> v, x |-> c.x, width |-> c.width, slides |-> c.slides, images |-> c.images, requests |-> c.requests]
    BY <1>1
  <1> QED BY <1>2 DEF PlainSlide, Fits

LEMMA PlainSlideFields ==
    ASSUME NEW m, NEW c, PlainSlide(c, m), NEW v
    PROVE  /\ PlainSlide([c EXCEPT !.text = v], m) /\ [c EXCEPT !.text = v].tool = c.tool
           /\ Fits(c.tool, v, m) => PlainSlide([c EXCEPT !.index = v], m) /\ [c EXCEPT !.index = v].tool = c.tool
  <1>1. ASSUME NEW d, d = [c EXCEPT !.text = v] PROVE PlainSlide(d, m) /\ d.tool = c.tool
    BY <1>1, PlainSlideUpdates
  <1>2. ASSUME NEW d, d = [c EXCEPT !.index = v], Fits(c.tool, v, m) PROVE PlainSlide(d, m) /\ d.tool = c.tool
    BY <1>2, SlideIndexed
  <1> QED BY Zenon, <1>1, <1>2

LEMMA ListsOfTwo == \A x, y : IsSequence(<<x>>) /\ IsSequence(<<x, y>>)
  <1> SUFFICES ASSUME NEW x, NEW y PROVE IsSequence(<<x>>) /\ IsSequence(<<x, y>>) BY Zenon
  <1>1. <<x>> \in Seq({x, y}) /\ <<x, y>> \in Seq({x, y}) OBVIOUS
  <1> QED BY <1>1, SequenceOf

LEMMA PlainSlideSingles ==
    ASSUME NEW m, NEW p, HasSlides(p, m)
    PROVE  /\ ArePlainSlides(Refilled, m) /\ ArePlainSlides(Backgrounds(p), m) /\ ArePlainSlides(Noted, m)
           /\ ArePlainSlides(OneMoved(p), m) /\ ArePlainSlides(TwoMoved(p), m) /\ ArePlainSlides(AllReplaced, m)
  <1>1. \A z \in Refilled : PlainSlide(z, m)
    <2> DEFINE d(u) == [Slides!Call("updateGoogleSlides") EXCEPT !.slides = u]
    <2>0. PlainSlide(Slides!Call("updateGoogleSlides"), m) /\ Slides!Call("updateGoogleSlides").tool = "updateGoogleSlides"
      BY PresentationCall DEF SlideTools
    <2>1. ASSUME NEW u, Len(u) \in 0..3 PROVE PlainSlide(d(u), m) /\ d(u).tool = "updateGoogleSlides"
      BY <2>0, <2>1, PlainSlideUpdates
    <2> DEFINE content == [title |-> <<Word>>, body |-> Needle]
    <2>2. Refilled = {d([i \in 1..k |-> content]) : k \in 0..3} BY DEF Refilled
    <2> HIDE DEF d, content
    <2>3. \A k \in 0..3 : Len([i \in 1..k |-> content]) \in 0..3 OBVIOUS
    <2> QED BY <2>1, <2>2, <2>3
  <1>2. \A z \in Backgrounds(p) : PlainSlide(z, m)
    <2> DEFINE d(u) == [Slides!Call("setGoogleSlidesBackground") EXCEPT !.ids = u]
    <2>0. PlainSlide(Slides!Call("setGoogleSlidesBackground"), m) /\ Slides!Call("setGoogleSlidesBackground").tool = "setGoogleSlidesBackground"
      BY PresentationCall DEF SlideTools
    <2>1. ASSUME NEW u, IsSequence(u) PROVE PlainSlide(d(u), m) /\ d(u).tool = "setGoogleSlidesBackground"
      BY ZenonT(30), <2>0, <2>1, PlainSlideUpdates
    <2>2. Backgrounds(p) = {d(<<p.slides[1].id, i>>) : i \in SlideIds(p) \cup {<<0, 0>>}}
      BY DEF Backgrounds
    <2> HIDE DEF d
    <2>3. \A i : PlainSlide(d(<<p.slides[1].id, i>>), m) BY <2>1, ListsOfTwo
    <2> QED BY <2>2, <2>3
  <1>3. \A z \in Noted : PlainSlide(z, m)
    <2> DEFINE d(u) == [Slides!Call("updateGoogleSlidesSpeakerNotes") EXCEPT !.index = u]
               e(u, v) == [d(u) EXCEPT !.text = v]
    <2>0. PlainSlide(Slides!Call("updateGoogleSlidesSpeakerNotes"), m) /\ Slides!Call("updateGoogleSlidesSpeakerNotes").tool = "updateGoogleSlidesSpeakerNotes"
      BY PresentationCall DEF SlideTools
    <2>1. ASSUME NEW u, u \in Nat PROVE PlainSlide(d(u), m) /\ d(u).tool = "updateGoogleSlidesSpeakerNotes"
      <3> DEFINE c == Slides!Call("updateGoogleSlidesSpeakerNotes")
      <3>1. PlainSlide(c, m) /\ c.tool = "updateGoogleSlidesSpeakerNotes" BY <2>0
      <3>2. Fits(c.tool, u, m)
        <4> HIDE DEF c
        <4> QED BY <2>1, <3>1 DEF Fits
      <3>3. PlainSlide([c EXCEPT !.index = u], m) /\ [c EXCEPT !.index = u].tool = c.tool
        <4> HIDE DEF c
        <4> DEFINE moved == [c EXCEPT !.index = u]
        <4>1. moved = [c EXCEPT !.index = u] OBVIOUS
        <4> HIDE DEF moved
        <4>2. PlainSlide(moved, m) /\ moved.tool = c.tool BY <3>1, <3>2, <4>1, SlideIndexed
        <4> QED BY <4>2 DEF moved
      <3> QED BY Zenon, <3>1, <3>3
    <2>2. ASSUME NEW u, NEW v, u \in Nat PROVE PlainSlide(e(u, v), m) /\ e(u, v).tool = "updateGoogleSlidesSpeakerNotes"
      <3> HIDE DEF d
      <3> DEFINE c == d(u)
      <3>1. PlainSlide(c, m) /\ c.tool = "updateGoogleSlidesSpeakerNotes" BY <2>1, <2>2
      <3>2. PlainSlide([c EXCEPT !.text = v], m) /\ [c EXCEPT !.text = v].tool = c.tool
        <4> HIDE DEF c
        <4> QED BY <3>1, PlainSlideFields
      <3> QED BY Zenon, <3>1, <3>2
    <2>3. Noted = {e(i, <<Word>>) : i \in 0..3} BY DEF Noted
    <2> HIDE DEF e
    <2> QED BY <2>2, <2>3
  <1>4. \A z \in OneMoved(p) : PlainSlide(z, m)
    <2> DEFINE d(u) == [Slides!Call("reorderSlides") EXCEPT !.ids = u]
               e(u, v) == [d(u) EXCEPT !.index = v]
    <2>0. PlainSlide(Slides!Call("reorderSlides"), m) /\ Slides!Call("reorderSlides").tool = "reorderSlides"
      BY PresentationCall DEF SlideTools
    <2>1. ASSUME NEW u, IsSequence(u) PROVE PlainSlide(d(u), m) /\ d(u).tool = "reorderSlides"
      BY ZenonT(30), <2>0, <2>1, PlainSlideUpdates
    <2>2. ASSUME NEW u, IsSequence(u), NEW v \in Indexes(m) PROVE PlainSlide(e(u, v), m) /\ e(u, v).tool = "reorderSlides"
      <3> HIDE DEF d
      <3> DEFINE c == d(u)
      <3>1. PlainSlide(c, m) /\ c.tool = "reorderSlides" BY <2>1, <2>2
      <3>3. Fits(c.tool, v, m)
        <4> HIDE DEF c
        <4> QED BY <3>1 DEF Fits
      <3>2. PlainSlide([c EXCEPT !.index = v], m) /\ [c EXCEPT !.index = v].tool = c.tool
        <4> HIDE DEF c
        <4> DEFINE moved == [c EXCEPT !.index = v]
        <4>1. moved = [c EXCEPT !.index = v] OBVIOUS
        <4> HIDE DEF moved
        <4>2. PlainSlide(moved, m) /\ moved.tool = c.tool BY <3>1, <3>3, <4>1, SlideIndexed
        <4> QED BY <4>2 DEF moved
      <3> QED BY Zenon, <3>1, <3>2
    <2> DEFINE K == {0, 1, Len(p.slides)}
               f(i, k) == e(<<i>>, k)
    <2>3. OneMoved(p) = {f(i, k) : i \in SlideIds(p), k \in K} BY DEF OneMoved
    <2>4. \A i : \A k \in K : PlainSlide(f(i, k), m)
      <3> HIDE DEF e
      <3> QED BY Zenon, <2>2, ListsOfTwo DEF HasSlides, Indexes
    <2> HIDE DEF f, K
    <2> QED BY <2>3, <2>4
  <1>5. \A z \in TwoMoved(p) : PlainSlide(z, m)
    <2> DEFINE d(u) == [Slides!Call("reorderSlides") EXCEPT !.ids = u]
               e(u, v) == [d(u) EXCEPT !.index = v]
    <2>0. PlainSlide(Slides!Call("reorderSlides"), m) /\ Slides!Call("reorderSlides").tool = "reorderSlides"
      BY PresentationCall DEF SlideTools
    <2>1. ASSUME NEW u, IsSequence(u) PROVE PlainSlide(d(u), m) /\ d(u).tool = "reorderSlides"
      BY <2>0, <2>1, PlainSlideUpdates
    <2>2. ASSUME NEW u, IsSequence(u), NEW v \in Indexes(m) PROVE PlainSlide(e(u, v), m) /\ e(u, v).tool = "reorderSlides"
      <3> HIDE DEF d
      <3> DEFINE c == d(u)
      <3>1. PlainSlide(c, m) /\ c.tool = "reorderSlides" BY <2>1, <2>2
      <3>3. Fits(c.tool, v, m)
        <4> HIDE DEF c
        <4> QED BY <3>1 DEF Fits
      <3>2. PlainSlide([c EXCEPT !.index = v], m) /\ [c EXCEPT !.index = v].tool = c.tool
        <4> HIDE DEF c
        <4> DEFINE moved == [c EXCEPT !.index = v]
        <4>1. moved = [c EXCEPT !.index = v] OBVIOUS
        <4> HIDE DEF moved
        <4>2. PlainSlide(moved, m) /\ moved.tool = c.tool BY <3>1, <3>3, <4>1, SlideIndexed
        <4> QED BY <4>2 DEF moved
      <3> QED BY Zenon, <3>1, <3>2
    <2> DEFINE K == {0, Len(p.slides)}
               f(i, k) == e(<<p.slides[i].id, p.slides[i + 1].id>>, k)
    <2>3. TwoMoved(p) = {f(i, k) : i \in 1..(Len(p.slides) - 1), k \in K} BY DEF TwoMoved
    <2>4. \A i : \A k \in K : PlainSlide(f(i, k), m)
      <3> HIDE DEF e
      <3> QED BY <2>2, ListsOfTwo DEF HasSlides, Indexes
    <2> HIDE DEF f, K
    <2> QED BY <2>3, <2>4
  <1>6. \A z \in AllReplaced : PlainSlide(z, m)
    <2> DEFINE d(u) == [Slides!Call("replaceAllTextInSlides") EXCEPT !.text = u]
    <2>0. PlainSlide(Slides!Call("replaceAllTextInSlides"), m) /\ Slides!Call("replaceAllTextInSlides").tool = "replaceAllTextInSlides"
      BY PresentationCall DEF SlideTools
    <2>1. ASSUME NEW u PROVE PlainSlide(d(u), m) /\ d(u).tool = "replaceAllTextInSlides"
      BY Zenon, <2>0, PlainSlideFields
    <2>2. AllReplaced = {d(w) : w \in {<<Word>>}} BY DEF AllReplaced
    <2> HIDE DEF d
    <2> QED BY <2>1, <2>2
  <1> QED BY <1>1, <1>2, <1>3, <1>4, <1>5, <1>6 DEF ArePlainSlides

SlideShape(c) == c = [tool |-> c.tool, id |-> c.id, page |-> c.page, from |-> c.from, to |-> c.to, text |-> c.text, attrs |-> c.attrs, on |-> c.on, ids |-> c.ids, index |-> c.index, x |-> c.x, width |-> c.width, slides |-> c.slides, images |-> c.images, requests |-> c.requests]

LEMMA SlideShapeWithImages ==
    ASSUME NEW c, SlideShape(c), NEW v, NEW d, d = [c EXCEPT !.images = v]
    PROVE  SlideShape(d) /\ d.tool = c.tool /\ d.images = v /\ d.requests = c.requests
  <1>1. c = [tool |-> c.tool, id |-> c.id, page |-> c.page, from |-> c.from, to |-> c.to, text |-> c.text, attrs |-> c.attrs, on |-> c.on, ids |-> c.ids, index |-> c.index, x |-> c.x, width |-> c.width, slides |-> c.slides, images |-> c.images, requests |-> c.requests]
    BY DEF SlideShape
  <1>2. d = [tool |-> c.tool, id |-> c.id, page |-> c.page, from |-> c.from, to |-> c.to, text |-> c.text, attrs |-> c.attrs, on |-> c.on, ids |-> c.ids, index |-> c.index, x |-> c.x, width |-> c.width, slides |-> c.slides, images |-> v, requests |-> c.requests]
    BY <1>1
  <1> QED BY <1>2 DEF SlideShape

LEMMA SlideShapeWithRequests ==
    ASSUME NEW c, SlideShape(c), NEW v, NEW d, d = [c EXCEPT !.requests = v]
    PROVE  SlideShape(d) /\ d.tool = c.tool /\ d.requests = v /\ d.images = c.images
  <1>1. c = [tool |-> c.tool, id |-> c.id, page |-> c.page, from |-> c.from, to |-> c.to, text |-> c.text, attrs |-> c.attrs, on |-> c.on, ids |-> c.ids, index |-> c.index, x |-> c.x, width |-> c.width, slides |-> c.slides, images |-> c.images, requests |-> c.requests]
    BY DEF SlideShape
  <1>2. d = [tool |-> c.tool, id |-> c.id, page |-> c.page, from |-> c.from, to |-> c.to, text |-> c.text, attrs |-> c.attrs, on |-> c.on, ids |-> c.ids, index |-> c.index, x |-> c.x, width |-> c.width, slides |-> c.slides, images |-> c.images, requests |-> v]
    BY <1>1
  <1> QED BY <1>2 DEF SlideShape

\* A list of requests of the client's own, with images.
BatchPresentation(a) ==
    /\ a.tool = "batch_update_presentation" /\ a.images \in 0..2
    /\ \E q : a.requests = <<q>> /\ q.op = "createImage" /\ q.id = <<0, 1>>

LEMMA BatchPresentations ==
    ASSUME NEW p
    PROVE  \A a \in SlidesBatched(p) : BatchPresentation(a)
  <1>1. ASSUME NEW n \in 0..2, NEW i
        PROVE  BatchPresentation([[Slides!Call("batch_update_presentation") EXCEPT !.images = n] EXCEPT !.requests = Slides!insertImageIntoSlide([Slides!Call(None) EXCEPT !.page = i], 0)])
    <2> DEFINE q == Slides!insertImageIntoSlide([Slides!Call(None) EXCEPT !.page = i], 0)
               c == Slides!Call("batch_update_presentation")
               b == [c EXCEPT !.images = n]
               d == [b EXCEPT !.requests = q]
    <2>1. \E x : q = <<x>> /\ x.op = "createImage" /\ x.id = <<0, 1>>
      <3> DEFINE x == q[1]
      <3>1. q = <<x>> BY DEF Slides!insertImageIntoSlide
      <3>2. x.op = "createImage" /\ x.id = <<10 * 0, 1>> BY DEF Slides!insertImageIntoSlide
      <3> QED BY <3>1, <3>2
    <2>2. SlideShape(c) /\ c.tool = "batch_update_presentation" BY DEF Slides!Call, SlideShape
    <2> HIDE DEF q, c
    <2>5. SlideShape(b) /\ b.tool = "batch_update_presentation" /\ b.images = n
      BY <2>2, SlideShapeWithImages
    <2> HIDE DEF b
    <2>3. SlideShape(d) /\ d.tool = "batch_update_presentation" /\ d.images = n /\ d.requests = q
      BY <2>5, SlideShapeWithRequests
    <2> HIDE DEF d
    <2>4. BatchPresentation(d) BY <2>1, <2>3 DEF BatchPresentation
    <2> QED BY <2>4 DEF d, b, c, q
  <1> DEFINE d(k, i) == [[Slides!Call("batch_update_presentation") EXCEPT !.images = k] EXCEPT !.requests = Slides!insertImageIntoSlide([Slides!Call(None) EXCEPT !.page = i], 0)]
  <1>2. SlidesBatched(p) = {d(k, i) : k \in 0..2, i \in SlideIds(p)} BY DEF SlidesBatched
  <1>3. \A k \in 0..2 : \A i : BatchPresentation(d(k, i)) BY Zenon, <1>1
  <1> HIDE DEF d
  <1> QED BY <1>2, <1>3

SlideArgs(a, m) == PlainSlide(a, m) \/ BatchPresentation(a)

LEMMA PresentationCalls ==
    ASSUME NEW p, NEW a \in Slides!Calls(p), NEW m, m = Len(p.slides)
    PROVE  SlideArgs(a, m)
  <1> DEFINE Good(C) == \A c \in C : SlideArgs(c, m)
  <1>1. \A C : ArePlainSlides(C, m) => Good(C) BY DEF ArePlainSlides, SlideArgs
  <1>2. \A C, D : Good(C) /\ Good(D) => Good(C \cup D) OBVIOUS
  <1>3. \A tool \in SlideTools : ArePlainSlides(OnObjects(tool, p), m) /\ ArePlainSlides(OnPages(tool, p), m)
    BY PlainSlideGenerators
  <1>4. IsFiniteSet({"bold"}) /\ IsFiniteSet({"filled"}) /\ IsFiniteSet({"centered", "bullets"})
    <2>1. \A x : IsFiniteSet({x}) BY FS_Singleton
    <2>2. IsFiniteSet({"centered"} \cup {"bullets"}) BY <2>1, FS_Union
    <2>3. {"centered"} \cup {"bullets"} = {"centered", "bullets"} OBVIOUS
    <2> QED BY <2>1, <2>2, <2>3
  <1> HIDE DEF Good
  <1>5. Good(Refilled) /\ Good(Backgrounds(p)) /\ Good(Noted) /\ Good(OneMoved(p)) /\ Good(TwoMoved(p)) /\ Good(AllReplaced)
    BY <1>1, PlainSlideSingles DEF HasSlides
  <1>6. /\ Good(WithAttrs(InRanges(OnObjects("formatGoogleSlidesText", p)), {"bold"}))
        /\ Good(WithAttrs(OnObjects("formatGoogleSlidesParagraph", p), {"centered", "bullets"}))
        /\ Good(WithAttrs(OnObjects("styleGoogleSlidesShape", p), {"filled"}))
    <2>1. /\ ArePlainSlides(OnObjects("formatGoogleSlidesText", p), m) /\ ArePlainSlides(OnObjects("formatGoogleSlidesParagraph", p), m)
          /\ ArePlainSlides(OnObjects("styleGoogleSlidesShape", p), m)
      BY <1>3 DEF SlideTools
    <2>2. ArePlainSlides(InRanges(OnObjects("formatGoogleSlidesText", p)), m)
      BY <2>1, PlainSlideSets
    <2> QED BY <1>1, <1>4, <2>1, <2>2, PlainSlideSets
  <1>7. /\ Good(WithAttrs(OnPages("createGoogleSlidesTextBox", p), {"bold"}))
        /\ Good(WithAttrs(OnPages("createGoogleSlidesShape", p), {"filled"}))
    <2>1. ArePlainSlides(OnPages("createGoogleSlidesTextBox", p), m) /\ ArePlainSlides(OnPages("createGoogleSlidesShape", p), m)
      BY <1>3 DEF SlideTools
    <2> QED BY <1>1, <1>4, <2>1, PlainSlideSets
  <1>8. Good(Moved(OnObjects("moveSlideElement", p))) /\ Good(OnObjects("deleteSlideElement", p))
    <2>1. ArePlainSlides(OnObjects("moveSlideElement", p), m) /\ ArePlainSlides(OnObjects("deleteSlideElement", p), m)
      BY <1>3 DEF SlideTools
    <2> QED BY <1>1, <2>1, PlainSlideSets
  <1>9. /\ Good(OnPages("deleteGoogleSlide", p)) /\ Good(OnPages("duplicateSlide", p))
        /\ Good(OnPages("insertSlidesImageFromUrl", p)) /\ Good(OnPages("insertSlidesLocalImage", p))
    BY <1>1, <1>3 DEF SlideTools
  <1>10. Good(SlidesBatched(p)) BY BatchPresentations DEF Good, SlideArgs
  <1>11. Good(Refilled \cup WithAttrs(InRanges(OnObjects("formatGoogleSlidesText", p)), {"bold"})
                \cup WithAttrs(OnObjects("formatGoogleSlidesParagraph", p), {"centered", "bullets"})
                \cup WithAttrs(OnObjects("styleGoogleSlidesShape", p), {"filled"})
                \cup Backgrounds(p)
                \cup WithAttrs(OnPages("createGoogleSlidesTextBox", p), {"bold"}) \cup WithAttrs(OnPages("createGoogleSlidesShape", p), {"filled"})
                \cup Noted)
    BY <1>2, <1>5, <1>6, <1>7
  <1>12. Good(Slides!Calls(p))
    BY ZenonT(30), <1>2, <1>5, <1>8, <1>9, <1>10, <1>11, PresentationCallSets
  <1> QED BY <1>12 DEF Good

-----------------------------------------------------------------------------
\* The sets that the calls of an instance for a spreadsheet are made of.
Ranges ==
    LET first == CHOOSE r \in Sheets!Areas : r.to = None IN
      {[r EXCEPT !.sheet = t] : r \in Sheets!Areas, t \in Titles} \cup {[first EXCEPT !.sheet = t] : t \in {None, Sheet1}}
SheetTitles == Titles \cup {Sheet1}
TwoMarks == {[Sheets!Call(t) EXCEPT !.range = r, !.marks = {"bold", "fill"}] : t \in Sheets!OnMarks, r \in Ranges}
NoMarks == {[Sheets!Call(t) EXCEPT !.range = CHOOSE r \in Sheets!Areas : r.to = None] : t \in Sheets!OnMarks}
Grids == {[Sheets!Call(t) EXCEPT !.range = r, !.title = "name"] : t \in Sheets!OnGrid, r \in Ranges}
Borders == {[Sheets!Call("setGoogleSheetBorders") EXCEPT !.range = r, !.off = {"top", "left"}, !.marks = {"inner"}] : r \in Ranges}
Written == {[Sheets!Call(t) EXCEPT !.range = r] : t \in {"updateGoogleSheet", "appendSpreadsheetRows"}, r \in Ranges}
Added == {[Sheets!Call("addSheet") EXCEPT !.title = t] : t \in SheetTitles}
Renamed == {[Sheets!Call("renameSheet") EXCEPT !.id = i, !.title = t] : i \in {0, 1, 2}, t \in SheetTitles}
Removed == {[Sheets!Call("deleteSheet") EXCEPT !.id = i] : i \in {0, 1, 2}}
Sized(C) == {[c EXCEPT !.id = 1, !.from = i[1], !.to = i[2]] : c \in C, i \in {<<0, 1>>, <<1, 2>>, <<0, 5>>}}
Sizes == {Sheets!Call(t) : t \in Sheets!OnSize}
Hides == {[Sheets!Call(t) EXCEPT !.dimension = d] : t \in Sheets!OnDimension, d \in {"ROWS", "COLUMNS"}}
SheetsBatched ==
    {[Sheets!Call("batch_update_spreadsheet") EXCEPT
        !.images = k, !.requests = <<[Sheets!Request("append", None) EXCEPT !.range = Sheets!Range(None, Sheets!Corner(<<1>>, 1), None)]>>] :
            k \in 0..2}

LEMMA SpreadsheetCallSets ==
    ASSUME NEW p
    PROVE  Sheets!Calls(p) =
              TwoMarks \cup NoMarks \cup Grids \cup Borders \cup Written \cup Added \cup Renamed \cup Removed
                \cup Sized(Sizes \cup Hides) \cup SheetsBatched
  BY DEF Sheets!Calls, Ranges, SheetTitles, TwoMarks, NoMarks, Grids, Borders, Written, Added, Renamed, Removed, Sized, Sizes, Hides,
         SheetsBatched

LEMMA SpreadsheetCall ==
    ASSUME NEW tool \in SheetTools
    PROVE  PlainSheet(Sheets!Call(tool)) /\ Sheets!Call(tool).tool = tool
  <1> DEFINE c == Sheets!Call(tool)
  <1>1. c = [tool |-> c.tool, range |-> c.range, id |-> c.id, title |-> c.title, marks |-> c.marks, off |-> c.off,
             dimension |-> c.dimension, from |-> c.from, to |-> c.to, images |-> c.images, requests |-> c.requests]
        /\ c.tool = tool
    BY DEF Sheets!Call
  <1> HIDE DEF c
  <1>2. PlainSheet(c) /\ c.tool = tool BY <1>1 DEF PlainSheet
  <1> QED BY <1>2 DEF c

LEMMA PlainSheetSets ==
    /\ \A C : (\A c \in C : PlainSheet(c)) => \A c \in Sized(C) : PlainSheet(c)
    /\ \A c \in TwoMarks \cup NoMarks \cup Grids \cup Borders \cup Written \cup Added \cup Renamed \cup Removed \cup Sizes \cup Hides : PlainSheet(c)
  <1>1. \A z \in TwoMarks : PlainSheet(z)
    <2> DEFINE d(t, u) == [Sheets!Call(t) EXCEPT !.range = u]
               e(t, u, v) == [d(t, u) EXCEPT !.marks = v]
    <2>0. \A t \in Sheets!OnMarks : PlainSheet(Sheets!Call(t))
      BY SpreadsheetCall DEF SheetTools, Sheets!OnMarks, Sheets!OnGrid, Sheets!OnSize, Sheets!OnDimension
    <2>1. ASSUME NEW t \in Sheets!OnMarks, NEW u PROVE PlainSheet(d(t, u))
      BY <2>0, PlainSheetUpdates
    <2>2. ASSUME NEW t \in Sheets!OnMarks, NEW u, NEW v PROVE PlainSheet(e(t, u, v))
      <3> HIDE DEF d
      <3> QED BY <2>1, PlainSheetUpdates
    <2>3. TwoMarks = {e(t, r, {"bold", "fill"}) : t \in Sheets!OnMarks, r \in Ranges}
      BY DEF TwoMarks
    <2> HIDE DEF e
    <2> QED BY <2>2, <2>3
  <1>2. \A z \in NoMarks : PlainSheet(z)
    <2> DEFINE d(t, u) == [Sheets!Call(t) EXCEPT !.range = u]
    <2>0. \A t \in Sheets!OnMarks : PlainSheet(Sheets!Call(t))
      BY SpreadsheetCall DEF SheetTools, Sheets!OnMarks, Sheets!OnGrid, Sheets!OnSize, Sheets!OnDimension
    <2>1. ASSUME NEW t \in Sheets!OnMarks, NEW u PROVE PlainSheet(d(t, u))
      BY <2>0, PlainSheetUpdates
    <2>2. NoMarks = {d(t, CHOOSE r \in Sheets!Areas : r.to = None) : t \in Sheets!OnMarks}
      BY DEF NoMarks
    <2> HIDE DEF d
    <2> QED BY <2>1, <2>2
  <1>3. \A z \in Grids : PlainSheet(z)
    <2> DEFINE d(t, u) == [Sheets!Call(t) EXCEPT !.range = u]
               e(t, u, v) == [d(t, u) EXCEPT !.title = v]
    <2>0. \A t \in Sheets!OnGrid : PlainSheet(Sheets!Call(t))
      BY SpreadsheetCall DEF SheetTools, Sheets!OnMarks, Sheets!OnGrid, Sheets!OnSize, Sheets!OnDimension
    <2>1. ASSUME NEW t \in Sheets!OnGrid, NEW u PROVE PlainSheet(d(t, u)) BY <2>0, PlainSheetUpdates
    <2>2. ASSUME NEW t \in Sheets!OnGrid, NEW u, NEW v PROVE PlainSheet(e(t, u, v))
      <3> HIDE DEF d
      <3> QED BY <2>1, PlainSheetUpdates
    <2>3. Grids = {e(t, r, "name") : t \in Sheets!OnGrid, r \in Ranges} BY DEF Grids
    <2> HIDE DEF e
    <2> QED BY <2>2, <2>3
  <1>4. \A z \in Borders : PlainSheet(z)
    <2> DEFINE d(u) == [Sheets!Call("setGoogleSheetBorders") EXCEPT !.range = u]
               e(u, v) == [d(u) EXCEPT !.off = v]
               f(u, v, w) == [e(u, v) EXCEPT !.marks = w]
    <2>0. PlainSheet(Sheets!Call("setGoogleSheetBorders")) BY SpreadsheetCall DEF SheetTools
    <2>1. ASSUME NEW u PROVE PlainSheet(d(u)) BY <2>0, PlainSheetUpdates
    <2>2. ASSUME NEW u, NEW v PROVE PlainSheet(e(u, v))
      <3> HIDE DEF d
      <3> QED BY <2>1, PlainSheetUpdates
    <2>3. ASSUME NEW u, NEW v, NEW w PROVE PlainSheet(f(u, v, w))
      <3> HIDE DEF e
      <3> QED BY <2>2, PlainSheetUpdates
    <2>4. Borders = {f(r, {"top", "left"}, {"inner"}) : r \in Ranges} BY DEF Borders
    <2> HIDE DEF f
    <2> QED BY <2>3, <2>4
  <1>5. \A z \in Written : PlainSheet(z)
    <2> DEFINE d(t, u) == [Sheets!Call(t) EXCEPT !.range = u]
    <2>0. \A t \in {"updateGoogleSheet", "appendSpreadsheetRows"} : PlainSheet(Sheets!Call(t))
      BY SpreadsheetCall DEF SheetTools, Sheets!OnMarks, Sheets!OnGrid, Sheets!OnSize, Sheets!OnDimension
    <2>1. ASSUME NEW t \in {"updateGoogleSheet", "appendSpreadsheetRows"}, NEW u PROVE PlainSheet(d(t, u))
      BY <2>0, PlainSheetUpdates
    <2>2. Written = {d(t, r) : t \in {"updateGoogleSheet", "appendSpreadsheetRows"}, r \in Ranges}
      BY DEF Written
    <2> HIDE DEF d
    <2> QED BY <2>1, <2>2
  <1>6. \A z \in Added : PlainSheet(z)
    <2> DEFINE d(u) == [Sheets!Call("addSheet") EXCEPT !.title = u]
    <2>0. PlainSheet(Sheets!Call("addSheet")) BY SpreadsheetCall DEF SheetTools
    <2>1. ASSUME NEW u PROVE PlainSheet(d(u)) BY <2>0, PlainSheetUpdates
    <2>2. Added = {d(t) : t \in SheetTitles} BY DEF Added
    <2> HIDE DEF d
    <2> QED BY <2>1, <2>2
  <1>7. \A z \in Renamed : PlainSheet(z)
    <2> DEFINE d(u) == [Sheets!Call("renameSheet") EXCEPT !.id = u]
               e(u, v) == [d(u) EXCEPT !.title = v]
    <2>0. PlainSheet(Sheets!Call("renameSheet")) BY SpreadsheetCall DEF SheetTools
    <2>1. ASSUME NEW u PROVE PlainSheet(d(u)) BY <2>0, PlainSheetUpdates
    <2>2. ASSUME NEW u, NEW v PROVE PlainSheet(e(u, v))
      <3> HIDE DEF d
      <3> QED BY <2>1, PlainSheetUpdates
    <2>3. Renamed = {e(i, t) : i \in {0, 1, 2}, t \in SheetTitles} BY DEF Renamed
    <2> HIDE DEF e
    <2> QED BY <2>2, <2>3
  <1>8. \A z \in Removed : PlainSheet(z)
    <2> DEFINE d(u) == [Sheets!Call("deleteSheet") EXCEPT !.id = u]
    <2>0. PlainSheet(Sheets!Call("deleteSheet")) BY SpreadsheetCall DEF SheetTools
    <2>1. ASSUME NEW u PROVE PlainSheet(d(u)) BY <2>0, PlainSheetUpdates
    <2>2. Removed = {d(i) : i \in {0, 1, 2}} BY DEF Removed
    <2> HIDE DEF d
    <2> QED BY <2>1, <2>2
  <1>9. \A z \in Hides : PlainSheet(z)
    <2> DEFINE d(t, u) == [Sheets!Call(t) EXCEPT !.dimension = u]
    <2>0. \A t \in Sheets!OnDimension : PlainSheet(Sheets!Call(t))
      BY SpreadsheetCall DEF SheetTools, Sheets!OnMarks, Sheets!OnGrid, Sheets!OnSize, Sheets!OnDimension
    <2>1. ASSUME NEW t \in Sheets!OnDimension, NEW u PROVE PlainSheet(d(t, u))
      BY <2>0, PlainSheetUpdates
    <2>2. Hides = {d(t, k) : t \in Sheets!OnDimension, k \in {"ROWS", "COLUMNS"}} BY DEF Hides
    <2> HIDE DEF d
    <2> QED BY <2>1, <2>2
  <1>10. \A z \in Sizes : PlainSheet(z) BY SpreadsheetCall DEF Sizes, SheetTools, Sheets!OnSize
  <1>11. ASSUME NEW C, \A c \in C : PlainSheet(c) PROVE \A z \in Sized(C) : PlainSheet(z)
    <2> DEFINE d(c) == [c EXCEPT !.id = 1]
               e(c, u) == [d(c) EXCEPT !.from = u]
               f(c, u, v) == [e(c, u) EXCEPT !.to = v]
    <2>1. ASSUME NEW c \in C PROVE PlainSheet(d(c)) BY <1>11, PlainSheetUpdates
    <2>2. ASSUME NEW c \in C, NEW u PROVE PlainSheet(e(c, u))
      <3> HIDE DEF d
      <3> QED BY <2>1, PlainSheetUpdates
    <2>3. ASSUME NEW c \in C, NEW u, NEW v PROVE PlainSheet(f(c, u, v))
      <3> HIDE DEF e
      <3> QED BY <2>2, PlainSheetUpdates
    <2>4. Sized(C) = {f(c, i[1], i[2]) : c \in C, i \in {<<0, 1>>, <<1, 2>>, <<0, 5>>}} BY DEF Sized
    <2> HIDE DEF f
    <2> QED BY <2>3, <2>4
  <1> QED BY <1>1, <1>2, <1>3, <1>4, <1>5, <1>6, <1>7, <1>8, <1>9, <1>10, <1>11

SheetShape(c) == c = [tool |-> c.tool, range |-> c.range, id |-> c.id, title |-> c.title, marks |-> c.marks, off |-> c.off, dimension |-> c.dimension, from |-> c.from, to |-> c.to, images |-> c.images, requests |-> c.requests]

LEMMA SheetShapeWithImages ==
    ASSUME NEW c, SheetShape(c), NEW v, NEW d, d = [c EXCEPT !.images = v]
    PROVE  SheetShape(d) /\ d.tool = c.tool /\ d.images = v /\ d.requests = c.requests
  <1>1. c = [tool |-> c.tool, range |-> c.range, id |-> c.id, title |-> c.title, marks |-> c.marks, off |-> c.off, dimension |-> c.dimension, from |-> c.from, to |-> c.to, images |-> c.images, requests |-> c.requests]
    BY DEF SheetShape
  <1>2. d = [tool |-> c.tool, range |-> c.range, id |-> c.id, title |-> c.title, marks |-> c.marks, off |-> c.off, dimension |-> c.dimension, from |-> c.from, to |-> c.to, images |-> v, requests |-> c.requests]
    BY <1>1
  <1> QED BY <1>2 DEF SheetShape

LEMMA SheetShapeWithRequests ==
    ASSUME NEW c, SheetShape(c), NEW v, NEW d, d = [c EXCEPT !.requests = v]
    PROVE  SheetShape(d) /\ d.tool = c.tool /\ d.requests = v /\ d.images = c.images
  <1>1. c = [tool |-> c.tool, range |-> c.range, id |-> c.id, title |-> c.title, marks |-> c.marks, off |-> c.off, dimension |-> c.dimension, from |-> c.from, to |-> c.to, images |-> c.images, requests |-> c.requests]
    BY DEF SheetShape
  <1>2. d = [tool |-> c.tool, range |-> c.range, id |-> c.id, title |-> c.title, marks |-> c.marks, off |-> c.off, dimension |-> c.dimension, from |-> c.from, to |-> c.to, images |-> c.images, requests |-> v]
    BY <1>1
  <1> QED BY <1>2 DEF SheetShape

\* The same for a spreadsheet.
BatchSpreadsheet(a) ==
    /\ a.tool = "batch_update_spreadsheet" /\ a.images \in 0..2
    /\ \E q : a.requests = <<q>> /\ q.op = "append"

LEMMA BatchSpreadsheets ==
    \A a \in SheetsBatched : BatchSpreadsheet(a)
  <1>1. ASSUME NEW n \in 0..2
        PROVE  BatchSpreadsheet([[Sheets!Call("batch_update_spreadsheet") EXCEPT !.images = n] EXCEPT !.requests = <<[Sheets!Request("append", None) EXCEPT !.range = Sheets!Range(None, Sheets!Corner(<<1>>, 1), None)]>>])
    <2> DEFINE q == <<[Sheets!Request("append", None) EXCEPT !.range = Sheets!Range(None, Sheets!Corner(<<1>>, 1), None)]>>
               c == Sheets!Call("batch_update_spreadsheet")
               b == [c EXCEPT !.images = n]
               d == [b EXCEPT !.requests = q]
    <2>2. SheetShape(c) /\ c.tool = "batch_update_spreadsheet" BY DEF Sheets!Call, SheetShape
    <2> HIDE DEF q, c
    <2>5. SheetShape(b) /\ b.tool = "batch_update_spreadsheet" /\ b.images = n
      BY <2>2, SheetShapeWithImages
    <2> HIDE DEF b
    <2>3. SheetShape(d) /\ d.tool = "batch_update_spreadsheet" /\ d.images = n /\ d.requests = q
      BY <2>5, SheetShapeWithRequests
    <2> HIDE DEF d
    <2>1. \E r : q = <<r>> /\ r.op = "append"
      <3> DEFINE r1 == Sheets!Request("append", None)
                 r2 == [r1 EXCEPT !.range = Sheets!Range(None, Sheets!Corner(<<1>>, 1), None)]
      <3>1. r2.op = "append" BY DEF Sheets!Request
      <3>2. q = <<r2>> BY DEF q
      <3> HIDE DEF r2
      <3> QED BY <3>1, <3>2
    <2>4. BatchSpreadsheet(d) BY <2>1, <2>3 DEF BatchSpreadsheet
    <2> QED BY <2>4 DEF d, b, c, q
  <1> DEFINE d(k) == [[Sheets!Call("batch_update_spreadsheet") EXCEPT !.images = k] EXCEPT !.requests = <<[Sheets!Request("append", None) EXCEPT !.range = Sheets!Range(None, Sheets!Corner(<<1>>, 1), None)]>>]
  <1>2. SheetsBatched = {d(k) : k \in 0..2} BY DEF SheetsBatched
  <1>3. \A k \in 0..2 : BatchSpreadsheet(d(k)) BY <1>1
  <1> HIDE DEF d
  <1> QED BY <1>2, <1>3

SheetArgs(a) == PlainSheet(a) \/ BatchSpreadsheet(a)

LEMMA SpreadsheetCalls ==
    ASSUME NEW p, NEW a \in Sheets!Calls(p)
    PROVE  SheetArgs(a)
  <1>1. \A c \in Sized(Sizes \cup Hides) : PlainSheet(c)
    <2>1. \A c \in Sizes \cup Hides : PlainSheet(c) BY PlainSheetSets
    <2> QED BY <2>1, PlainSheetSets
  <1>2. CASE a \in TwoMarks \cup NoMarks \cup Grids \cup Borders \cup Written \cup Added \cup Renamed \cup Removed
    BY <1>2, PlainSheetSets DEF SheetArgs
  <1>3. CASE a \in Sized(Sizes \cup Hides) \cup SheetsBatched
    BY <1>1, <1>3, BatchSpreadsheets DEF SheetArgs
  <1> QED BY <1>2, <1>3, SpreadsheetCallSets

-----------------------------------------------------------------------------
\* The sets that the calls of an instance for a calendar are made of.
Update == Cals!Call("updateCalendarEvent")
Create == [Cals!Call("createCalendarEvent") EXCEPT !.text = <<Word>>, !.time = <<Word>>]
Values == {<<>>, <<Word>>}
AllFields(v) == [Update EXCEPT !.text = v, !.time = <<Word>>, !.attendees = v, !.attachments = v]
CreateFully(v) == [Create EXCEPT !.attendees = v, !.attachments = v, !.kept = <<Word>>, !.meet = TRUE]
EventFields ==
    {Update, [Update EXCEPT !.time = <<Word>>]}
      \cup {[Update EXCEPT !.text = v] : v \in Values}
      \cup {[Update EXCEPT !.attendees = v] : v \in Values}
      \cup {[Update EXCEPT !.attachments = v] : v \in Values}
      \cup {AllFields(v) : v \in Values}

LEMMA CalendarCallSets ==
    ASSUME NEW p
    PROVE  Cals!Calls(p) =
              {[c EXCEPT !.id = i] : c \in EventFields \cup {Cals!Call("deleteCalendarEvent")}, i \in 0..2}
                \cup {Create} \cup {CreateFully(v) : v \in Values}
  BY DEF Cals!Calls, Update, Create, Values, AllFields, CreateFully, EventFields

LEMMA CalendarCall ==
    ASSUME NEW tool \in EventTools
    PROVE  PlainEvent(Cals!Call(tool))
  <1> DEFINE c == Cals!Call(tool)
  <1>1. c = [tool |-> c.tool, id |-> c.id, text |-> c.text, time |-> c.time, attendees |-> c.attendees,
             attachments |-> c.attachments, kept |-> c.kept, meet |-> c.meet] /\ c.tool = tool
    BY DEF Cals!Call
  <1> HIDE DEF c
  <1>2. PlainEvent(c) BY <1>1 DEF PlainEvent
  <1> QED BY <1>2 DEF c

LEMMA CalendarCalls ==
    ASSUME NEW p, NEW a \in Cals!Calls(p)
    PROVE  PlainEvent(a)
  <1>1. PlainEvent(Update) /\ PlainEvent(Cals!Call("deleteCalendarEvent")) /\ PlainEvent(Cals!Call("createCalendarEvent"))
    BY CalendarCall DEF Update, EventTools
  <1>2. ASSUME NEW v
        PROVE  /\ PlainEvent([Update EXCEPT !.time = v]) /\ PlainEvent([Update EXCEPT !.text = v])
               /\ PlainEvent([Update EXCEPT !.attendees = v]) /\ PlainEvent([Update EXCEPT !.attachments = v])
    BY <1>1, PlainEventUpdates
  <1>3. ASSUME NEW v PROVE PlainEvent(AllFields(v))
    <2> DEFINE d == [Update EXCEPT !.text = v]
               e == [d EXCEPT !.time = <<Word>>]
               f == [e EXCEPT !.attendees = v]
               g == [f EXCEPT !.attachments = v]
    <2>1. PlainEvent(d) BY <1>2
    <2>2. PlainEvent(e)
      <3> HIDE DEF d
      <3> QED BY <2>1, PlainEventUpdates
    <2>3. PlainEvent(f)
      <3> HIDE DEF e
      <3> QED BY <2>2, PlainEventUpdates
    <2>4. PlainEvent(g)
      <3> HIDE DEF f
      <3> QED BY <2>3, PlainEventUpdates
    <2>5. AllFields(v) = g BY DEF AllFields
    <2> HIDE DEF g
    <2> QED BY <2>4, <2>5
  <1>4. PlainEvent(Create)
    <2> DEFINE d == [Cals!Call("createCalendarEvent") EXCEPT !.text = <<Word>>]
               e == [d EXCEPT !.time = <<Word>>]
    <2>1. PlainEvent(d) BY <1>1, PlainEventUpdates
    <2>2. PlainEvent(e)
      <3> HIDE DEF d
      <3> QED BY <2>1, PlainEventUpdates
    <2>3. Create = e BY DEF Create
    <2> HIDE DEF e
    <2> QED BY <2>2, <2>3
  <1>5. ASSUME NEW v PROVE PlainEvent(CreateFully(v))
    <2> DEFINE d == [Create EXCEPT !.attendees = v]
               e == [d EXCEPT !.attachments = v]
               f == [e EXCEPT !.kept = <<Word>>]
               g == [f EXCEPT !.meet = TRUE]
    <2>1. PlainEvent(d) BY <1>4, PlainEventUpdates
    <2>2. PlainEvent(e)
      <3> HIDE DEF d
      <3> QED BY <2>1, PlainEventUpdates
    <2>3. PlainEvent(f)
      <3> HIDE DEF e
      <3> QED BY <2>2, PlainEventUpdates
    <2>4. PlainEvent(g)
      <3> HIDE DEF f
      <3> QED BY <2>3, PlainEventUpdates
    <2>5. CreateFully(v) = g BY DEF CreateFully
    <2> HIDE DEF g
    <2> QED BY <2>4, <2>5
  <1> HIDE DEF Update
  <1>6. \A c \in EventFields \cup {Cals!Call("deleteCalendarEvent")} : PlainEvent(c)
    <2>1. \A c \in {Update, [Update EXCEPT !.time = <<Word>>]} : PlainEvent(c) BY <1>1, <1>2
    <2>2. \A c \in {[Update EXCEPT !.text = v] : v \in Values} : PlainEvent(c) BY <1>2
    <2>3. \A c \in {[Update EXCEPT !.attendees = v] : v \in Values} : PlainEvent(c) BY <1>2
    <2>4. \A c \in {[Update EXCEPT !.attachments = v] : v \in Values} : PlainEvent(c) BY <1>2
    <2>5. \A c \in {AllFields(v) : v \in Values} : PlainEvent(c) BY <1>3
    <2> QED BY <1>1, <2>1, <2>2, <2>3, <2>4, <2>5 DEF EventFields
  <1>7. \A c \in {[c EXCEPT !.id = i] : c \in EventFields \cup {Cals!Call("deleteCalendarEvent")}, i \in 0..2} : PlainEvent(c)
    <2> DEFINE S == EventFields \cup {Cals!Call("deleteCalendarEvent")}
    <2>1. ASSUME NEW c \in S, NEW i, NEW d, d = [c EXCEPT !.id = i] PROVE PlainEvent(d)
      BY <1>6, <2>1, PlainEventUpdates
    <2> HIDE DEF S
    <2>2. \A z \in {[c EXCEPT !.id = i] : c \in S, i \in 0..2} : PlainEvent(z) BY <2>1
    <2> QED BY <2>2 DEF S
  <1> QED BY <1>4, <1>5, <1>7, CalendarCallSets

-----------------------------------------------------------------------------
(***************************************************************************)
(* The invariant.                                                          *)
(***************************************************************************)

LEMMA ArgumentsSuit ==
    ASSUME kind \in Kinds, NEW a \in Arguments, a.tool \in WithImages
    PROVE  kind = KindOf(a.tool) /\ (a.tool \in Batches => a.images \in Nat)
  <1>1. CASE kind = "document"
    <2>1. DocArgs(a) BY <1>1, DocumentCalls DEF Arguments
    <2>2. a.tool \in DocPlain \cup {"bulk_update_file_comments"} \/ (a.tool = "batch_update_document" /\ a.images \in 0..2)
      BY <2>1 DEF DocArgs, BulkComments, BatchDocument
    <2>3. a.tool = "batch_update_document" /\ a.images \in 0..2
      BY <2>2 DEF WithImages, Batches, DocPlain
    <2> QED BY <1>1, <2>3 DEF KindOf
  <1>2. CASE kind = "presentation"
    <2>1. SlideArgs(a, Len(file.slides)) BY <1>2, PresentationCalls DEF Arguments
    <2>2. a.tool \in SlideTools \/ (a.tool = "batch_update_presentation" /\ a.images \in 0..2)
      BY <2>1 DEF SlideArgs, PlainSlide, BatchPresentation
    <2>3. a.tool = "insertSlidesLocalImage" \/ (a.tool = "batch_update_presentation" /\ a.images \in 0..2)
      BY <2>2 DEF WithImages, Batches, SlideTools
    <2> QED BY <1>2, <2>3 DEF KindOf, Batches
  <1>3. CASE kind = "spreadsheet"
    <2>1. SheetArgs(a) BY <1>3, SpreadsheetCalls DEF Arguments
    <2>2. a.tool \in SheetTools \/ (a.tool = "batch_update_spreadsheet" /\ a.images \in 0..2)
      BY <2>1 DEF SheetArgs, PlainSheet, BatchSpreadsheet
    <2>3. a.tool = "batch_update_spreadsheet" /\ a.images \in 0..2
      BY <2>2 DEF WithImages, Batches, SheetTools
    <2> QED BY <1>3, <2>3 DEF KindOf
  <1>4. CASE kind = "calendar"
    <2>1. PlainEvent(a) BY <1>4, CalendarCalls DEF Arguments
    <2>2. a.tool \notin WithImages BY <2>1 DEF PlainEvent, EventTools, WithImages, Batches
    <2> QED BY <2>2
  <1> QED BY <1>1, <1>2, <1>3, <1>4 DEF Kinds

\* What a call is when it begins.
LEMMA BeginIs ==
    ASSUME NEW a
    PROVE  LET r == [Idle EXCEPT !.a = a, !.n = calls + 1, !.end = "open", !.before = file, !.alone = TRUE] IN
             \E x : /\ IsCall(x) /\ x.a = a /\ x.n = calls + 1 /\ x.end = "open" /\ x.saw = <<>> /\ x.before = file
                    /\ x.alone = TRUE /\ x.images = <<>> /\ x.kept = FALSE /\ x.next = Request(x)
                    /\ [r EXCEPT !.next = Request(r)] = x
  <1> DEFINE r == [Idle EXCEPT !.a = a, !.n = calls + 1, !.end = "open", !.before = file, !.alone = TRUE]
             x == [r EXCEPT !.next = Request(r)]
  <1>1. r = [a |-> a, n |-> calls + 1, end |-> "open", next |-> None, saw |-> <<>>, before |-> file, alone |-> TRUE,
             images |-> <<>>, kept |-> FALSE]
    <2> DEFINE c == Idle
    <2>1. /\ c = [a |-> c.a, n |-> c.n, end |-> c.end, next |-> c.next, saw |-> c.saw, before |-> c.before,
                  alone |-> c.alone, images |-> c.images, kept |-> c.kept]
          /\ c.next = None /\ c.saw = <<>> /\ c.images = <<>> /\ c.kept = FALSE
      BY DEF Idle
    <2> HIDE DEF c
    <2> DEFINE d == [c EXCEPT !.a = a]
               e == [d EXCEPT !.n = calls + 1]
               f == [e EXCEPT !.end = "open"]
               g == [f EXCEPT !.before = file]
               h == [g EXCEPT !.alone = TRUE]
    <2>2. d = [a |-> a, n |-> c.n, end |-> c.end, next |-> c.next, saw |-> c.saw, before |-> c.before, alone |-> c.alone, images |-> c.images, kept |-> c.kept]
      BY <2>1
    <2> HIDE DEF d
    <2>3. e = [a |-> a, n |-> calls + 1, end |-> c.end, next |-> c.next, saw |-> c.saw, before |-> c.before, alone |-> c.alone, images |-> c.images, kept |-> c.kept]
      BY <2>2
    <2> HIDE DEF e
    <2>4. f = [a |-> a, n |-> calls + 1, end |-> "open", next |-> c.next, saw |-> c.saw, before |-> c.before, alone |-> c.alone, images |-> c.images, kept |-> c.kept]
      BY <2>3
    <2> HIDE DEF f
    <2>5. g = [a |-> a, n |-> calls + 1, end |-> "open", next |-> c.next, saw |-> c.saw, before |-> file, alone |-> c.alone, images |-> c.images, kept |-> c.kept]
      BY <2>4
    <2> HIDE DEF g
    <2>6. h = [a |-> a, n |-> calls + 1, end |-> "open", next |-> c.next, saw |-> c.saw, before |-> file, alone |-> TRUE, images |-> c.images, kept |-> c.kept]
      <3>1. ASSUME NEW v
            PROVE  [g EXCEPT !.alone = v] =
                      [a |-> a, n |-> calls + 1, end |-> "open", next |-> c.next, saw |-> c.saw, before |-> file, alone |-> v, images |-> c.images, kept |-> c.kept]
        BY <2>5
      <3> QED BY <3>1
    <2> HIDE DEF h
    <2>7. h = [a |-> a, n |-> calls + 1, end |-> "open", next |-> None, saw |-> <<>>, before |-> file, alone |-> TRUE, images |-> <<>>, kept |-> FALSE]
      BY <2>1, <2>6
    <2> QED BY <2>7 DEF c, d, e, f, g, h
  <1>2. IsCall(r)
    <2> HIDE DEF r
    <2>1. r = [a |-> r.a, n |-> r.n, end |-> r.end, next |-> r.next, saw |-> r.saw, before |-> r.before,
               alone |-> r.alone, images |-> r.images, kept |-> r.kept] /\ r.saw = <<>>
      BY <1>1
    <2> QED BY <2>1, EmptyIsSequence DEF IsCall
  <1>3. /\ r.a = a /\ r.n = calls + 1 /\ r.end = "open" /\ r.saw = <<>> /\ r.before = file /\ r.alone = TRUE
        /\ r.images = <<>> /\ r.kept = FALSE
    <2> HIDE DEF r
    <2> QED BY <1>1
  <1> HIDE DEF r
  <1>4. IsCall(x) BY <1>2, CallShape
  <1>5. x = [a |-> r.a, n |-> r.n, end |-> r.end, next |-> Request(r), saw |-> r.saw, before |-> r.before,
             alone |-> r.alone, images |-> r.images, kept |-> r.kept]
    BY <1>2, CallUpdates
  <1>6. /\ x.a = r.a /\ x.n = r.n /\ x.end = r.end /\ x.saw = r.saw /\ x.before = r.before /\ x.alone = r.alone
        /\ x.images = r.images /\ x.kept = r.kept /\ x.next = Request(r)
    <2> HIDE DEF x
    <2> QED BY <1>5
  <1>7. x.next = Request(x)
    <2> HIDE DEF x
    <2> QED BY <1>6, SameRequest
  <1>8. x = [r EXCEPT !.next = Request(r)] OBVIOUS
  <1> HIDE DEF x
  <1> QED BY ZenonT(30), <1>3, <1>4, <1>6, <1>7, <1>8 DEF r

LEMMA BeginsWell ==
    ASSUME kind \in Kinds, NEW a \in Arguments, NEW x,
           IsCall(x), x.a = a, x.end = "open", x.saw = <<>>, x.images = <<>>, x.next = Request(x), GoesOn(x).end = "open"
    PROVE  IsCall(GoesOn(x)) /\ OfOpen(GoesOn(x)) /\ OfEnded(GoesOn(x))
  <1>1. x.next.op \notin {"finish", "decline"}
    <2>1. \A end : Ended(x, end).end = end BY EndedIs
    <2>2. x.next.op = "finish" => GoesOn(x).end = "ok" BY <2>1, GoesOnToItsEnd
    <2>3. x.next.op = "decline" => GoesOn(x).end = "error" BY <2>1, GoesOnToItsEnd
    <2> QED BY <2>2, <2>3
  <1>2. GoesOn(x) = x BY <1>1, GoesOnWhileOpen
  <1>3. OfEnded(x) BY DEF OfEnded
  <1>4. OfOpen(x)
    <2>1. SUFFICES ASSUME a.tool \in WithImages PROVE OfOpen(x) BY DEF OfOpen
    <2>2. kind = KindOf(a.tool) /\ (a.tool \in Batches => a.images \in Nat) BY <2>1, ArgumentsSuit
    <2>3. CASE a.tool = "insertSlidesLocalImage"
      <3>1. OfLocalImage(x) BY DEF OfLocalImage
      <3> QED BY <2>2, <2>3, <3>1 DEF OfOpen, Batches
    <2>4. CASE a.tool \in Batches
      <3>1. a.requests # <<>>
        <4>1. x.next = Requests!BatchUpdate(x.a, x.saw, Stays(a.tool)) BY <2>2, <2>4, BatchRequest
        <4>2. a.requests = <<>> => x.next.op = "decline"
          BY <4>1 DEF Requests!BatchUpdate, Requests!Decline, Requests!Ask
        <4> QED BY <1>1, <4>2
      <3>2. Uploading(x)
        <4>1. IsUpTo(x.images, 0) BY DEF IsUpTo
        <4>2. Len(x.saw) = 0 OBVIOUS
        <4> QED BY <2>2, <2>4, <4>1, <4>2 DEF Uploading
      <3> QED BY <2>2, <2>4, <3>1, <3>2 DEF OfOpen, Batches
    <2> QED BY <2>1, <2>3, <2>4 DEF WithImages
  <1> QED BY <1>2, <1>3, <1>4

\* Whatever answer it gets, a call stays as it has to be.
LEMMA HearsWell ==
    ASSUME NEW r, NEW y, NEW v, None # Failed, IsCall(r), OfOpen(r), r.end = "open",
           IsCall(y), y.a = r.a, y.n = r.n, y.end = r.end, y.saw = r.saw, y.next = r.next, r.kept => y.kept,
           \/ r.next.op \in {"create", "share", "link", "drop"} /\ v = None /\ y.images = Stored(r.images, r.next.op)
           \/ r.next.op \in {"batch", "read"} /\ y.images = r.images
           \/ v = Failed /\ y.images = r.images /\ (r.next.op = "drop" => y.kept)
    PROVE  IsCall(Heard(y, v)) /\ OfOpen(Heard(y, v)) /\ OfEnded(Heard(y, v))
  <1>1. PICK x : /\ IsCall(x) /\ x.a = y.a /\ x.n = y.n /\ x.end = y.end /\ x.saw = Append(y.saw, v)
                 /\ x.images = y.images /\ x.kept = y.kept /\ x.next = Request(x)
                 /\ Heard(y, v) = IF v = Failed /\ ~Catches(y) THEN Ended(x, "error") ELSE GoesOn(x)
    BY HeardIs
  <1>2. Catches(y) <=> Catches(r) BY SameRequest
  <1>3. IsCall(Heard(y, v))
    <2>1. IsCall(Ended(x, "error")) /\ IsCall(Ended(x, "ok")) BY <1>1, CallShape
    <2>2. IsCall(GoesOn(x)) BY <1>1, <2>1 DEF GoesOn
    <2> QED BY <1>1, <2>1, <2>2
  <1>4. CASE r.a.tool \notin WithImages
    <2>1. OfOpen(x) /\ OfEnded(x) BY <1>1, <1>4 DEF OfOpen, OfEnded
    <2>2. \A end : Ended(x, end).end = end /\ (Ended(x, end).a = None \/ Ended(x, end).a = r.a) /\ Ended(x, end).images = x.images
                   /\ (x.images # <<>> => Ended(x, end).a = r.a)
      BY <1>1, EndedIs
    <2>3. ASSUME NEW end \in {"ok", "error"} PROVE OfOpen(Ended(x, end)) /\ OfEnded(Ended(x, end))
      <3>1. OfOpen(Ended(x, end)) BY <2>2 DEF OfOpen
      <3>2. OfEnded(Ended(x, end)) BY <1>4, <2>2 DEF OfEnded, Clearing, WithImages, Batches
      <3> QED BY <3>1, <3>2
    <2>4. GoesOn(x) \in {x, Ended(x, "ok"), Ended(x, "error")} BY DEF GoesOn
    <2>5. Heard(y, v) \in {x, Ended(x, "ok"), Ended(x, "error")} BY <1>1, <2>4
    <2> QED BY <1>3, <2>1, <2>3, <2>5
  <1>5. CASE r.a.tool \in WithImages
    <2>1. r.next.op # "read"
      <3>1. CASE r.a.tool \in Batches
        <4>1. kind = KindOf(r.a.tool) /\ r.next = Request(r) /\ r.a.requests # <<>>
          BY <3>1 DEF OfOpen, WithImages
        <4>2. r.next = Requests!BatchUpdate(r.a, r.saw, Stays(r.a.tool)) BY <3>1, <4>1, BatchRequest
        <4>3. Stays(r.a.tool) \in BOOLEAN /\ r.a.images \in Nat /\ IsSequence(r.saw)
          BY <3>1 DEF OfOpen, WithImages, IsCall, Stays
        <4>4. CASE Uploading(r)
          <5>1. r.next = IF Len(r.saw) < 3 * r.a.images THEN [op |-> Upload(Len(r.saw))] ELSE [op |-> "batch", requests |-> r.a.requests]
            BY <4>1, <4>2, <4>3, <4>4, BatchWhileUploading DEF Uploading
          <5> QED BY <5>1 DEF Upload
        <4>5. CASE Dropping(r, Stays(r.a.tool))
          <5>1. PICK R \in 1..(3 * r.a.images + 1), D \in 0..r.a.images : Turned(r.a, r.saw, Stays(r.a.tool), R, D)
            BY <4>5 DEF Dropping
          <5>2. r.next = IF Len(r.saw) < R + D THEN [op |-> "drop"]
                         ELSE IF r.saw[R] = Failed THEN [op |-> "decline"] ELSE [op |-> "finish"]
            BY <4>1, <4>2, <4>3, <5>1, BatchOnceTurned
          <5> QED BY <5>2
        <4> QED BY <3>1, <4>4, <4>5 DEF OfOpen, WithImages
      <3>2. CASE r.a.tool = "insertSlidesLocalImage"
        <4>1. kind = "presentation" /\ r.next = Request(r) /\ Len(r.saw) \in 0..4
          BY <3>2 DEF OfOpen, WithImages, KindOf, OfLocalImage
        <4>2. Len(r.saw) < 3 \/ Len(r.saw) = 3 \/ Len(r.saw) = 4
          <5>1. \A m \in 0..4 : m < 3 \/ m = 3 \/ m = 4 OBVIOUS
          <5> QED BY <4>1, <5>1
        <4>3. Upload(Len(r.saw)) # "read" BY DEF Upload
        <4> QED BY <3>2, <4>1, <4>2, <4>3, LocalImageRequest
      <3> QED BY <1>5, <3>1, <3>2 DEF WithImages
    <2>2. IsHeard(r, v, x) BY <1>1, <2>1 DEF IsHeard
    <2>3. CASE r.a.tool \in Batches
      <3>1. Catches(r) BY <2>3, BatchRequest DEF OfOpen, WithImages
      <3>2. Heard(y, v) = GoesOn(x) BY <1>1, <1>2, <3>1
      <3>3. OfOpen(GoesOn(x)) /\ OfEnded(GoesOn(x)) BY <2>2, <2>3, BatchStays
      <3> QED BY <1>3, <3>2, <3>3
    <2>4. CASE r.a.tool = "insertSlidesLocalImage"
      <3>1. CASE v # Failed \/ Catches(r)
        <4>1. Heard(y, v) = GoesOn(x) BY <1>1, <1>2, <3>1
        <4>2. OfOpen(GoesOn(x)) /\ OfEnded(GoesOn(x)) BY <2>2, <2>4, <3>1, LocalImageStays
        <4> QED BY <1>3, <4>1, <4>2
      <3>2. CASE v = Failed /\ ~Catches(r)
        <4>1. Heard(y, v) = Ended(x, "error") BY <1>1, <1>2, <3>2
        <4>2. x.images = r.images
          <5>1. r.next.op \notin {"create", "share", "link", "drop"} \/ v # None BY <3>2
          <5> QED BY <1>1, <5>1
        <4>3. OfOpen(Ended(x, "error")) /\ OfEnded(Ended(x, "error"))
          BY <2>4, <3>2, <4>2, LocalImageStops
        <4> QED BY <1>3, <4>1, <4>3
      <3> QED BY <3>1, <3>2
    <2> QED BY <1>5, <2>3, <2>4 DEF WithImages
  <1> QED BY <1>4, <1>5

\* What a call is depends on nothing that changes but itself.
LEMMA SameCallsLater ==
    ASSUME kind' = kind, \A t \in Sessions : IsCall(call'[t]) /\ OfOpen(call'[t]) /\ OfEnded(call'[t])
    PROVE  (\A t \in Sessions : IsCall(call[t]) /\ OfOpen(call[t]) /\ OfEnded(call[t]))'
  <1> SUFFICES ASSUME NEW t \in Sessions PROVE IsCall(call[t])' /\ OfOpen(call[t])' /\ OfEnded(call[t])'
    OBVIOUS
  <1>1. (Request(call[t]))' = Request(call'[t]) BY DEF Request
  <1>2. OfOpen(call[t])'
    BY <1>1 DEF OfOpen, OfLocalImage, Uploading, Dropping, AreLeft, Turned, IsUpTo
  <1> QED BY <1>2 DEF IsCall, OfEnded

\* A step of session s, whose call goes on as x.
LEMMA StepKeepsImages ==
    ASSUME ImagesInv, NEW s \in Sessions, NEW x, NEW f, Step(s, x, f), IsCall(x), OfOpen(x), OfEnded(x)
    PROVE  ImagesInv'
  <1>1. kind' = kind /\ call' = [t \in Sessions |->
          IF t = s THEN x
          ELSE [call[t] EXCEPT !.alone = @ /\ (f = file \/ Part(call[t].a, f) = Part(call[t].a, file))]]
    BY DEF Step
  <1>2. \A t \in Sessions : t # s => \E b : call'[t] = [call[t] EXCEPT !.alone = b] BY <1>1
  <1>3. \A t \in Sessions : IsCall(call[t]) /\ OfOpen(call[t]) /\ OfEnded(call[t]) BY DEF ImagesInv
  <1>4. \A t \in Sessions : IsCall(call'[t]) /\ OfOpen(call'[t]) /\ OfEnded(call'[t])
    <2> SUFFICES ASSUME NEW t \in Sessions PROVE IsCall(call'[t]) /\ OfOpen(call'[t]) /\ OfEnded(call'[t])
      OBVIOUS
    <2>1. CASE t = s BY <1>1, <2>1
    <2>2. CASE t # s
      <3>1. PICK b : call'[t] = [call[t] EXCEPT !.alone = b] BY <1>2, <2>2
      <3> QED BY <1>3, <3>1, OthersStay
    <2> QED BY <2>1, <2>2
  <1>5. call' = [t \in Sessions |-> call'[t]] BY <1>1
  <1> QED BY <1>1, <1>4, <1>5, SameCallsLater DEF ImagesInv

LEMMA ImagesInit == Init => ImagesInv
  <1> SUFFICES ASSUME Init PROVE ImagesInv OBVIOUS
  <1>1. kind \in Kinds BY ConstantsAssumption DEF Init
  <1>2. call = [s \in Sessions |-> call[s]] /\ \A s \in Sessions : call[s] = Idle BY DEF Init
  <1>3. OfOpen(Idle) /\ OfEnded(Idle) BY DEF OfOpen, OfEnded, Idle
  <1> QED BY <1>1, <1>2, <1>3, IdleIsCall DEF ImagesInv

LEMMA ImagesNext == ImagesInv /\ [Next]_vars => ImagesInv'
  <1> SUFFICES ASSUME ImagesInv, [Next]_vars PROVE ImagesInv' OBVIOUS
  <1>0. \A s \in Sessions : IsCall(call[s]) /\ OfOpen(call[s]) /\ OfEnded(call[s]) BY DEF ImagesInv
  <1>n. None # Failed BY ConstantsAssumption
  <1>1. ASSUME NEW s \in Sessions, Begin(s) PROVE ImagesInv'
    <2>1. PICK a \in Arguments :
            LET r == [Idle EXCEPT !.a = a, !.n = calls + 1, !.end = "open", !.before = file, !.alone = TRUE] IN
              /\ call' = [call EXCEPT ![s] = GoesOn([r EXCEPT !.next = Request(r)])]
              /\ call'[s].end = "open"
      BY Zenon, <1>1 DEF Begin
    <2> DEFINE r == [Idle EXCEPT !.a = a, !.n = calls + 1, !.end = "open", !.before = file, !.alone = TRUE]
               y == [r EXCEPT !.next = Request(r)]
    <2>a. IsCall(y) /\ y.a = a /\ y.end = "open" /\ y.saw = <<>> /\ y.images = <<>> /\ y.next = Request(y)
      <3>1. \E x : /\ IsCall(x) /\ x.a = a /\ x.n = calls + 1 /\ x.end = "open" /\ x.saw = <<>> /\ x.before = file
                   /\ x.alone = TRUE /\ x.images = <<>> /\ x.kept = FALSE /\ x.next = Request(x)
                   /\ y = x
        BY Zenon, BeginIs
      <3> HIDE DEF y
      <3> QED BY <3>1
    <2>b. call' = [call EXCEPT ![s] = GoesOn(y)] BY <2>1
    <2> HIDE DEF y
    <2>2. PICK x : /\ IsCall(x) /\ x.a = a /\ x.end = "open" /\ x.saw = <<>> /\ x.images = <<>> /\ x.next = Request(x)
                   /\ call' = [call EXCEPT ![s] = GoesOn(x)]
      BY <2>a, <2>b
    <2>3. kind' = kind /\ kind \in Kinds /\ call = [t \in Sessions |-> call[t]]
      BY <1>1 DEF Begin, ImagesInv
    <2>4. call'[s] = GoesOn(x) /\ \A t \in Sessions : t # s => call'[t] = call[t] BY <2>2, <2>3
    <2>5. IsCall(call'[s]) /\ OfOpen(call'[s]) /\ OfEnded(call'[s])
      BY <2>1, <2>2, <2>3, <2>4, BeginsWell
    <2>6. \A t \in Sessions : IsCall(call'[t]) /\ OfOpen(call'[t]) /\ OfEnded(call'[t])
      BY <1>0, <2>4, <2>5
    <2>7. call' = [t \in Sessions |-> call'[t]] BY <2>2, <2>3
    <2> QED BY <2>3, <2>6, <2>7, SameCallsLater DEF ImagesInv
  <1>2. ASSUME NEW s \in Sessions, ReadFile(s) PROVE ImagesInv'
    <2>1. call[s].end = "open" /\ call[s].next.op = "read" BY <1>2 DEF ReadFile, Asks, IsOpen
    <2>2. IsCall(Heard(call[s], file)) /\ OfOpen(Heard(call[s], file)) /\ OfEnded(Heard(call[s], file))
      BY <1>0, <1>n, <2>1, HearsWell
    <2> QED BY <1>2, <2>2, StepKeepsImages DEF ReadFile
  <1>3. ASSUME NEW s \in Sessions, Change(s) PROVE ImagesInv'
    <2> DEFINE r == call[s]
               f == Batch(r.next.requests)
               y == [r EXCEPT !.alone = FALSE]
    <2>1. r.end = "open" /\ r.next.op = "batch" BY <1>3 DEF Change, Asks, IsOpen
    <2>2. ASSUME NEW v PROVE IsCall(Heard(r, v)) /\ OfOpen(Heard(r, v)) /\ OfEnded(Heard(r, v))
      BY <1>0, <1>n, <2>1, HearsWell
    <2>3. IsCall(Heard(y, Failed)) /\ OfOpen(Heard(y, Failed)) /\ OfEnded(Heard(y, Failed))
      <3>1. IsCall(y) BY <1>0, CallShape
      <3>2. y = [a |-> r.a, n |-> r.n, end |-> r.end, next |-> r.next, saw |-> r.saw, before |-> r.before,
                 alone |-> FALSE, images |-> r.images, kept |-> r.kept]
        BY <1>0, CallUpdates
      <3>3. y.a = r.a /\ y.n = r.n /\ y.end = r.end /\ y.next = r.next /\ y.saw = r.saw /\ y.images = r.images /\ y.kept = r.kept
        <4> HIDE DEF y
        <4> QED BY <3>2
      <3> HIDE DEF y
      <3> QED BY <1>0, <1>n, <2>1, <3>1, <3>3, HearsWell
    <2>4. \/ Step(s, Heard(r, Failed), file) \/ Step(s, Heard(r, f), f) \/ Step(s, Heard(y, Failed), f)
      BY <1>3 DEF Change
    <2> HIDE DEF f, y, r
    <2> QED BY <2>2, <2>3, <2>4, StepKeepsImages
  <1>4. ASSUME NEW s \in Sessions, Image(s) PROVE ImagesInv'
    <2> DEFINE r == call[s]
               y == [r EXCEPT !.images = Stored(@, r.next.op)]
    <2>1. r.end = "open" /\ r.next.op \in {"create", "share", "link", "drop"} /\ Step(s, Heard(y, None), file)
      BY <1>4 DEF Image, IsOpen
    <2>2. IsCall(y) BY <1>0, CallShape
    <2>3. y = [a |-> r.a, n |-> r.n, end |-> r.end, next |-> r.next, saw |-> r.saw, before |-> r.before,
               alone |-> r.alone, images |-> Stored(r.images, r.next.op), kept |-> r.kept]
      BY <1>0, CallUpdates
    <2>4. /\ y.a = r.a /\ y.n = r.n /\ y.end = r.end /\ y.next = r.next /\ y.saw = r.saw
          /\ y.images = Stored(r.images, r.next.op) /\ y.kept = r.kept
      <3> HIDE DEF y
      <3> QED BY <2>3
    <2> HIDE DEF y
    <2>5. IsCall(Heard(y, None)) /\ OfOpen(Heard(y, None)) /\ OfEnded(Heard(y, None))
      BY <1>0, <1>n, <2>1, <2>2, <2>4, HearsWell
    <2> QED BY <2>1, <2>5, StepKeepsImages
  <1>5. ASSUME NEW s \in Sessions, RequestFails(s) PROVE ImagesInv'
    <2> DEFINE r == call[s]
               y == [r EXCEPT !.kept = @ \/ r.next.op = "drop"]
    <2>1. r.end = "open" /\ Step(s, Heard(y, Failed), file) BY <1>5 DEF RequestFails, IsOpen
    <2>2. IsCall(y) BY <1>0, CallShape
    <2>3. y = [a |-> r.a, n |-> r.n, end |-> r.end, next |-> r.next, saw |-> r.saw, before |-> r.before,
               alone |-> r.alone, images |-> r.images, kept |-> r.kept \/ r.next.op = "drop"]
      BY <1>0, CallUpdates
    <2>4. /\ y.a = r.a /\ y.n = r.n /\ y.end = r.end /\ y.next = r.next /\ y.saw = r.saw
          /\ y.images = r.images /\ y.kept = (r.kept \/ r.next.op = "drop")
      <3> HIDE DEF y
      <3> QED BY <2>3
    <2> HIDE DEF y
    <2>5. IsCall(Heard(y, Failed)) /\ OfOpen(Heard(y, Failed)) /\ OfEnded(Heard(y, Failed))
      BY <1>0, <1>n, <2>1, <2>2, <2>4, HearsWell
    <2> QED BY <2>1, <2>5, StepKeepsImages
  <1>6. CASE UNCHANGED vars
    <2>1. kind' = kind /\ call' = call BY <1>6 DEF vars
    <2> QED BY <1>0, <2>1, SameCallsLater DEF ImagesInv
  <1> QED BY <1>1, <1>2, <1>3, <1>4, <1>5, <1>6 DEF Next

\* ImagesAreCleared of Editors: once a call has ended, however its requests went
\* and whatever other sessions did meanwhile, no image that it uploaded for the
\* time of its request still has the link that makes it public, unless its
\* deletion failed.
THEOREM ImagesAlwaysCleared == Spec => []ImagesAreCleared
  <1>1. ImagesInv => ImagesAreCleared BY DEF ImagesInv, ImagesAreCleared, OfEnded, Clearing
  <1> QED BY <1>1, ImagesInit, ImagesNext, PTL DEF Spec

----------------------------------------------------------------------------
(***************************************************************************)
(* Requests about a document.                                              *)
(***************************************************************************)

DocumentOf(tabs, comments, notes) == [tabs |-> tabs, comments |-> comments, notes |-> notes]

\* A document with one of its fields changed.
LEMMA DocumentUpdates ==
    ASSUME NEW d, Docs!IsDocument(d), NEW v
    PROVE  /\ [d EXCEPT !.tabs = v] = DocumentOf(v, d.comments, d.notes)
           /\ [d EXCEPT !.comments = v] = DocumentOf(d.tabs, v, d.notes)
           /\ [d EXCEPT !.notes = v] = DocumentOf(d.tabs, d.comments, v)
  <1>1. PICK a, b, c : d = [tabs |-> a, comments |-> b, notes |-> c] /\ d.tabs = a /\ d.comments = b /\ d.notes = c
    BY DEF Docs!IsDocument
  <1> QED BY <1>1 DEF DocumentOf

LEMMA DocumentParts ==
    ASSUME NEW a, NEW b, NEW c
    PROVE  /\ DocumentOf(a, b, c).tabs = a /\ DocumentOf(a, b, c).comments = b /\ DocumentOf(a, b, c).notes = c
           /\ a = [t \in DOMAIN a |-> Docs!Tab(a[t].title, a[t].body)] => Docs!IsDocument(DocumentOf(a, b, c))
  BY DEF DocumentOf, Docs!IsDocument

AreTabs(tabs) == tabs = [t \in DOMAIN tabs |-> Docs!Tab(tabs[t].title, tabs[t].body)]

\* A tab with another body or title, the rest of the document with it.
LEMMA TabUpdates ==
    ASSUME NEW d, Docs!IsDocument(d), NEW t \in DOMAIN d.tabs, NEW v
    PROVE  /\ [d EXCEPT !.tabs[t].body = v] = DocumentOf([d.tabs EXCEPT ![t] = Docs!Tab(d.tabs[t].title, v)], d.comments, d.notes)
           /\ [d EXCEPT !.tabs[t].title = v] = DocumentOf([d.tabs EXCEPT ![t] = Docs!Tab(v, d.tabs[t].body)], d.comments, d.notes)
           /\ AreTabs([d.tabs EXCEPT ![t] = Docs!Tab(d.tabs[t].title, v)])
           /\ AreTabs([d.tabs EXCEPT ![t] = Docs!Tab(v, d.tabs[t].body)])
  <1>1. PICK a, b, c : d = [tabs |-> a, comments |-> b, notes |-> c] /\ d.tabs = a /\ d.comments = b /\ d.notes = c
    BY DEF Docs!IsDocument
  <1>2. PICK x, y : a[t] = [title |-> x, body |-> y] /\ a[t].title = x /\ a[t].body = y
    BY <1>1 DEF Docs!IsDocument, Docs!Tab
  <1>3. [a[t] EXCEPT !.body = v] = Docs!Tab(x, v) /\ [a[t] EXCEPT !.title = v] = Docs!Tab(v, y)
    BY <1>2 DEF Docs!Tab
  <1>4. /\ [d EXCEPT !.tabs[t].body = v] = [tabs |-> [a EXCEPT ![t] = [a[t] EXCEPT !.body = v]], comments |-> b, notes |-> c]
        /\ [d EXCEPT !.tabs[t].title = v] = [tabs |-> [a EXCEPT ![t] = [a[t] EXCEPT !.title = v]], comments |-> b, notes |-> c]
    BY <1>1
  <1>5. AreTabs(a) BY <1>1 DEF AreTabs, Docs!IsDocument
  <1>6. ASSUME NEW x1, NEW y1 PROVE AreTabs([a EXCEPT ![t] = Docs!Tab(x1, y1)])
    <2> DEFINE e == [a EXCEPT ![t] = Docs!Tab(x1, y1)]
    <2>1. DOMAIN e = DOMAIN a /\ e[t] = Docs!Tab(x1, y1) /\ (\A s \in DOMAIN a : s # t => e[s] = a[s]) /\ e = [s \in DOMAIN a |-> e[s]]
      BY <1>1
    <2> HIDE DEF e
    <2>2. \A s \in DOMAIN a : e[s] = Docs!Tab(e[s].title, e[s].body)
      BY <1>5, <2>1 DEF AreTabs, Docs!Tab
    <2> QED BY <2>1, <2>2 DEF AreTabs
  <1> QED BY <1>1, <1>2, <1>3, <1>4, <1>6 DEF DocumentOf

\* The tools whose requests are about the body of their tab.
InBody(a) ==
    /\ a.tool \notin Docs!OnComments \cup {"addDocumentTab", "renameDocumentTab"}
    /\ a.tool = "findAndReplaceInDoc" => a.tab # None

LEMMA RestOfTab ==
    ASSUME NEW d, Docs!IsDocument(d), NEW a, NEW ref, InBody(a), Docs!TabOf(a) \in DOMAIN d.tabs
    PROVE  Docs!Rest(a, ref, d) =
              DocumentOf([d.tabs EXCEPT ![Docs!TabOf(a)] = Docs!Tab(d.tabs[Docs!TabOf(a)].title, <<>>)], d.comments, <<>>)
  <1> DEFINE T == Docs!TabOf(a)
             e == [d EXCEPT !.tabs[T].body = <<>>]
  <1>1. Docs!Rest(a, ref, d) = [e EXCEPT !.notes = <<>>]
    <2>1. [e EXCEPT !.notes = <<>>] = [d EXCEPT !.tabs[T].body = <<>>, !.notes = <<>>] OBVIOUS
    <2>2. Docs!Rest(a, ref, d) = [d EXCEPT !.tabs[T].body = <<>>, !.notes = <<>>]
      BY DEF Docs!Rest, InBody
    <2> QED BY <2>1, <2>2
  <1>2. e = DocumentOf([d.tabs EXCEPT ![T] = Docs!Tab(d.tabs[T].title, <<>>)], d.comments, d.notes)
        /\ AreTabs([d.tabs EXCEPT ![T] = Docs!Tab(d.tabs[T].title, <<>>)])
    BY ZenonT(30), TabUpdates
  <1> HIDE DEF e, T
  <1>3. Docs!IsDocument(e) BY <1>2, DocumentParts DEF AreTabs
  <1>4. [e EXCEPT !.notes = <<>>] = DocumentOf(e.tabs, e.comments, <<>>) BY <1>3, DocumentUpdates
  <1>5. e.tabs = [d.tabs EXCEPT ![T] = Docs!Tab(d.tabs[T].title, <<>>)] /\ e.comments = d.comments
    BY <1>2, DocumentParts
  <1> QED BY <1>1, <1>4, <1>5 DEF T

\* Another body of that tab leaves the rest.
LEMMA BodyIsNoRest ==
    ASSUME NEW d, Docs!IsDocument(d), NEW a, NEW ref, InBody(a), Docs!TabOf(a) \in DOMAIN d.tabs, NEW b, NEW n, NEW c,
           c = DocumentOf([d.tabs EXCEPT ![Docs!TabOf(a)] = Docs!Tab(d.tabs[Docs!TabOf(a)].title, b)], d.comments, n)
    PROVE  Docs!IsDocument(c) /\ Docs!Rest(a, ref, c) = Docs!Rest(a, ref, d)
  <1> DEFINE T == Docs!TabOf(a)
             title == d.tabs[T].title
             tabs == [d.tabs EXCEPT ![T] = Docs!Tab(title, b)]
  <1>1. AreTabs(tabs) BY TabUpdates
  <1>2. tabs[T].title = title /\ T \in DOMAIN tabs BY DEF Docs!Tab
  <1>3. [tabs EXCEPT ![T] = Docs!Tab(title, <<>>)] = [d.tabs EXCEPT ![T] = Docs!Tab(title, <<>>)]
    BY DEF Docs!IsDocument
  <1>4. c = DocumentOf(tabs, d.comments, n) OBVIOUS
  <1> HIDE DEF tabs, title, T
  <1>5. Docs!IsDocument(c) /\ c.tabs = tabs /\ c.comments = d.comments
    BY <1>1, <1>4, DocumentParts DEF AreTabs
  <1>6. Docs!Rest(a, ref, c) = DocumentOf([c.tabs EXCEPT ![T] = Docs!Tab(c.tabs[T].title, <<>>)], c.comments, <<>>)
    BY <1>2, <1>5, RestOfTab DEF T
  <1>7. Docs!Rest(a, ref, d) = DocumentOf([d.tabs EXCEPT ![T] = Docs!Tab(title, <<>>)], d.comments, <<>>)
    BY RestOfTab DEF T, title
  <1> QED BY <1>2, <1>3, <1>5, <1>6, <1>7

-----------------------------------------------------------------------------
(***************************************************************************)
(* Definitions by recursion: lists of requests, and elements of a list.    *)
(***************************************************************************)

\* A set of numbers has a least one.
LEMMA LeastNumber ==
    ASSUME NEW S \in SUBSET Nat, S # {}
    PROVE  \E n \in S : \A m \in S : n <= m
  <1>1. IsWellFoundedOn(OpToRel(<, Nat), Nat) BY Zenon, NatLessThanWellFounded
  <1>2. PICK n \in S : \A m \in S : ~(<<m, n>> \in OpToRel(<, Nat)) BY Zenon, <1>1, WFMin
  <1>3. ASSUME NEW m \in S PROVE n <= m
    <2>1. ~(m < n) BY <1>2 DEF OpToRel
    <2> QED BY <2>1
  <1> QED BY <1>3

\* What the n-th step makes of v: a request on a file, or an element kept.
StepOn(k, x, v, n) ==
    CASE k = "document" -> IF v = Refused THEN Refused ELSE Docs!Carry(v, x[n])
      [] k = "presentation" -> IF v = Refused THEN Refused ELSE Slides!Carry(v, x[n])
      [] k = "those" -> IF x.seq[n] \in x.set THEN Append(v, x.seq[n]) ELSE v

IsRun(g, k, x, v, m) == g = [n \in 0..m |-> IF n = 0 THEN v ELSE StepOn(k, x, g[n - 1], n)]

LEMMA RunExists ==
    ASSUME NEW k, NEW x, NEW v, NEW m \in Nat
    PROVE  \E g : IsRun(g, k, x, v, m)
  <1> DEFINE S == {j \in Nat : ~\E g : IsRun(g, k, x, v, j)}
  <1> SUFFICES ASSUME S # {} PROVE FALSE OBVIOUS
  <1>1. PICK i \in S : \A j \in S : i <= j BY LeastNumber
  <1>2. CASE i = 0
    <2>1. IsRun([n \in 0..0 |-> v], k, x, v, 0) BY DEF IsRun
    <2> QED BY <1>1, <1>2, <2>1
  <1>3. CASE i # 0
    <2>1. i - 1 \in Nat /\ i - 1 \notin S BY <1>1, <1>3
    <2>2. PICK g : IsRun(g, k, x, v, i - 1) BY <2>1
    <2> PICK h : h = [n \in 0..i |-> IF n = 0 THEN v ELSE StepOn(k, x, g[n - 1], n)] OBVIOUS
    <2>3. ASSUME NEW n \in 0..(i - 1) PROVE h[n] = g[n]
      <3>1. n \in 0..i BY <2>1
      <3>2. g[n] = IF n = 0 THEN v ELSE StepOn(k, x, g[n - 1], n) BY <2>2 DEF IsRun
      <3>3. h[n] = IF n = 0 THEN v ELSE StepOn(k, x, g[n - 1], n) BY <3>1
      <3> QED BY <3>2, <3>3
    <2>4. ASSUME NEW n \in 0..i, n # 0 PROVE h[n - 1] = g[n - 1]
      <3>1. n - 1 \in 0..(i - 1) BY <2>1, <2>4
      <3> QED BY <2>3, <3>1
    <2>5. h = [n \in 0..i |-> IF n = 0 THEN v ELSE StepOn(k, x, h[n - 1], n)] BY <2>4
    <2> QED BY ZenonT(30), <1>1, <2>5 DEF IsRun
  <1> QED BY <1>2, <1>3

LEMMA StepsAre ==
    \A x, v, n : /\ StepOn("document", x, v, n) = IF v = Refused THEN Refused ELSE Docs!Carry(v, x[n])
                 /\ StepOn("presentation", x, v, n) = IF v = Refused THEN Refused ELSE Slides!Carry(v, x[n])
                 /\ StepOn("those", x, v, n) = IF x.seq[n] \in x.set THEN Append(v, x.seq[n]) ELSE v
  BY ZenonT(30) DEF StepOn

\* A list of requests is carried out one after another.
DocumentRun(g, d, requests) ==
    g = [n \in 0..Len(requests) |->
            IF n = 0 THEN d
            ELSE IF g[n - 1] = Refused THEN Refused ELSE Docs!Carry(g[n - 1], requests[n])]

DocumentSteps(g, d, requests) ==
    /\ g[0] = d
    /\ \A n \in 1..Len(requests) : g[n] = IF g[n - 1] = Refused THEN Refused ELSE Docs!Carry(g[n - 1], requests[n])

LEMMA DocumentRuns ==
    ASSUME NEW d, NEW requests, Len(requests) \in Nat
    PROVE  \E g : Docs!Batch(d, requests) = g[Len(requests)] /\ DocumentSteps(g, d, requests)
  <1>1. PICK f : IsRun(f, "document", requests, d, Len(requests)) BY RunExists
  <1>2. DocumentRun(f, d, requests) BY <1>1, StepsAre DEF IsRun, DocumentRun
  <1>3. Docs!Batch(d, requests) = (CHOOSE g : DocumentRun(g, d, requests))[Len(requests)]
    BY DEF DocumentRun, Docs!Batch
  <1> PICK g : g = CHOOSE h : DocumentRun(h, d, requests) OBVIOUS
  <1>4. DocumentRun(g, d, requests) BY <1>2
  <1>5. \A n \in 0..Len(requests) :
            g[n] = IF n = 0 THEN d ELSE IF g[n - 1] = Refused THEN Refused ELSE Docs!Carry(g[n - 1], requests[n])
    BY <1>4 DEF DocumentRun
  <1>6. 0 \in 0..Len(requests) /\ \A n \in 1..Len(requests) : n \in 0..Len(requests) /\ n # 0
    OBVIOUS
  <1>7. Docs!Batch(d, requests) = g[Len(requests)] /\ g[0] = d BY <1>3, <1>5, <1>6
  <1>8. \A n \in 1..Len(requests) :
            g[n] = IF g[n - 1] = Refused THEN Refused ELSE Docs!Carry(g[n - 1], requests[n])
    BY <1>5, <1>6
  <1>9. DocumentSteps(g, d, requests) BY Zenon, <1>7, <1>8 DEF DocumentSteps
  <1> QED BY <1>7, <1>9

PresentationRun(g, p, requests) ==
    g = [n \in 0..Len(requests) |->
            IF n = 0 THEN p
            ELSE IF g[n - 1] = Refused THEN Refused ELSE Slides!Carry(g[n - 1], requests[n])]

PresentationSteps(g, p, requests) ==
    /\ g[0] = p
    /\ \A n \in 1..Len(requests) : g[n] = IF g[n - 1] = Refused THEN Refused ELSE Slides!Carry(g[n - 1], requests[n])

LEMMA PresentationRuns ==
    ASSUME NEW p, NEW requests, Len(requests) \in Nat
    PROVE  \E g : Slides!Batch(p, requests) = g[Len(requests)] /\ PresentationSteps(g, p, requests)
  <1>1. PICK f : IsRun(f, "presentation", requests, p, Len(requests)) BY RunExists
  <1>2. PresentationRun(f, p, requests) BY <1>1, StepsAre DEF IsRun, PresentationRun
  <1>3. Slides!Batch(p, requests) = (CHOOSE g : PresentationRun(g, p, requests))[Len(requests)]
    BY DEF PresentationRun, Slides!Batch
  <1> PICK g : g = CHOOSE h : PresentationRun(h, p, requests) OBVIOUS
  <1>4. PresentationRun(g, p, requests) BY <1>2
  <1>5. \A n \in 0..Len(requests) :
            g[n] = IF n = 0 THEN p ELSE IF g[n - 1] = Refused THEN Refused ELSE Slides!Carry(g[n - 1], requests[n])
    BY <1>4 DEF PresentationRun
  <1>6. 0 \in 0..Len(requests) /\ \A n \in 1..Len(requests) : n \in 0..Len(requests) /\ n # 0
    OBVIOUS
  <1>7. Slides!Batch(p, requests) = g[Len(requests)] /\ g[0] = p BY <1>3, <1>5, <1>6
  <1>8. \A n \in 1..Len(requests) :
            g[n] = IF g[n - 1] = Refused THEN Refused ELSE Slides!Carry(g[n - 1], requests[n])
    BY <1>5, <1>6
  <1>9. PresentationSteps(g, p, requests) BY Zenon, <1>7, <1>8 DEF PresentationSteps
  <1> QED BY <1>7, <1>9

ThoseRun(g, seq, S) ==
    g = [i \in 0..Len(seq) |->
            IF i = 0 THEN <<>> ELSE IF seq[i] \in S THEN Append(g[i - 1], seq[i]) ELSE g[i - 1]]

ThoseSteps(g, seq, S) ==
    /\ g[0] = <<>>
    /\ \A n \in 1..Len(seq) : g[n] = IF seq[n] \in S THEN Append(g[n - 1], seq[n]) ELSE g[n - 1]

LEMMA ThoseRuns ==
    ASSUME NEW seq, NEW S, Len(seq) \in Nat
    PROVE  \E g : Slides!Those(seq, S) = g[Len(seq)] /\ ThoseSteps(g, seq, S)
  <1> DEFINE x == [seq |-> seq, set |-> S]
  <1>0. \A v, n : StepOn("those", x, v, n) = IF seq[n] \in S THEN Append(v, seq[n]) ELSE v
    BY StepsAre
  <1> HIDE DEF x
  <1>1. PICK f : IsRun(f, "those", x, <<>>, Len(seq)) BY RunExists
  <1>2. ThoseRun(f, seq, S)
    <2>1. f = [n \in 0..Len(seq) |-> IF n = 0 THEN <<>> ELSE StepOn("those", x, f[n - 1], n)]
      BY <1>1 DEF IsRun
    <2>2. \A n : StepOn("those", x, f[n - 1], n) = IF seq[n] \in S THEN Append(f[n - 1], seq[n]) ELSE f[n - 1]
      BY <1>0
    <2>3. f = [i \in 0..Len(seq) |-> IF i = 0 THEN <<>> ELSE IF seq[i] \in S THEN Append(f[i - 1], seq[i]) ELSE f[i - 1]]
      BY Zenon, <2>1, <2>2
    <2> QED BY <2>3 DEF ThoseRun
  <1>3. Slides!Those(seq, S) = (CHOOSE g : ThoseRun(g, seq, S))[Len(seq)]
    BY DEF ThoseRun, Slides!Those
  <1> PICK g : g = CHOOSE h : ThoseRun(h, seq, S) OBVIOUS
  <1>4. ThoseRun(g, seq, S) BY <1>2
  <1>5. \A n \in 0..Len(seq) :
            g[n] = IF n = 0 THEN <<>> ELSE IF seq[n] \in S THEN Append(g[n - 1], seq[n]) ELSE g[n - 1]
    BY <1>4 DEF ThoseRun
  <1>6. 0 \in 0..Len(seq) /\ \A n \in 1..Len(seq) : n \in 0..Len(seq) /\ n # 0 OBVIOUS
  <1>7. Slides!Those(seq, S) = g[Len(seq)] /\ g[0] = <<>> BY <1>3, <1>5, <1>6
  <1>8. \A n \in 1..Len(seq) : g[n] = IF seq[n] \in S THEN Append(g[n - 1], seq[n]) ELSE g[n - 1]
    BY <1>5, <1>6
  <1>9. ThoseSteps(g, seq, S) BY Zenon, <1>7, <1>8 DEF ThoseSteps
  <1> QED BY <1>7, <1>9

\* Some elements of a sequence, in their order.
LEMMA ThoseAre ==
    ASSUME NEW T, NEW seq \in Seq(T), NEW S
    PROVE  Slides!Those(seq, S) \in Seq(T \cap S)
  <1>1. Len(seq) \in Nat /\ \A n \in 1..Len(seq) : seq[n] \in T OBVIOUS
  <1>0. PICK g : Slides!Those(seq, S) = g[Len(seq)] /\ ThoseSteps(g, seq, S) BY <1>1, ThoseRuns
  <1>2. /\ Slides!Those(seq, S) = g[Len(seq)] /\ g[0] = <<>>
        /\ \A n \in 1..Len(seq) : g[n] = IF seq[n] \in S THEN Append(g[n - 1], seq[n]) ELSE g[n - 1]
    BY <1>0 DEF ThoseSteps
  <1> DEFINE N == {n \in 0..Len(seq) : g[n] \notin Seq(T \cap S)}
  <1> SUFFICES ASSUME N # {} PROVE FALSE BY <1>1, <1>2
  <1>n. N \in SUBSET Nat BY <1>1
  <1>3. PICK n \in N : \A j \in N : n <= j
    <2> HIDE DEF N
    <2> QED BY <1>n, LeastNumber
  <1>4. n # 0
    <2>1. <<>> \in Seq(T \cap S) OBVIOUS
    <2> QED BY <1>2, <2>1
  <1>5. n - 1 \in 0..Len(seq) /\ n \in 1..Len(seq) /\ n - 1 \notin N BY <1>1, <1>3, <1>4
  <1>6. g[n - 1] \in Seq(T \cap S) /\ g[n] \notin Seq(T \cap S) BY <1>5
  <1>7. g[n] = IF seq[n] \in S THEN Append(g[n - 1], seq[n]) ELSE g[n - 1] BY <1>2, <1>5
  <1>8. seq[n] \in T BY <1>1, <1>5
  <1> HIDE DEF N
  <1>9. \A y \in T \cap S : Append(g[n - 1], y) \in Seq(T \cap S) BY <1>6
  <1> QED BY <1>6, <1>7, <1>8, <1>9

-----------------------------------------------------------------------------
(***************************************************************************)
(* What the requests of a tool for documents may be about.                 *)
(***************************************************************************)

OfBody == {"insertText", "insertTable", "insertInline", "deleteContentRange", "updateTextStyle", "updateParagraphs",
           "createFootnote", "insertNote"}

OfComments == {"createComment", "createReply", "deleteComment"}

OnWhole == {"addDocumentTab", "renameDocumentTab", "findAndReplaceInDoc"}

Within(a, q) ==
    /\ a.tool \in Docs!OnComments => q.op \in OfComments
    /\ a.tool = "addDocumentTab" => q.op = "addDocumentTab"
    /\ a.tool = "renameDocumentTab" => q.op = "updateDocumentTabProperties" /\ q.tab = Docs!TabOf(a)
    /\ a.tool = "findAndReplaceInDoc" => q.op = "replaceAllText" /\ (a.tab # None => q.tabs = {a.tab})
    /\ a.tool \notin Docs!OnComments \cup OnWhole => q.op \in OfBody /\ q.tab = Docs!TabOf(a)

SameRest(a, ref, d, c) == Docs!IsDocument(c) /\ Docs!Rest(a, ref, c) = Docs!Rest(a, ref, d)

LEMMA OtherComments ==
    ASSUME NEW d, Docs!IsDocument(d), NEW a, a.tool \in Docs!OnComments, NEW ref, NEW x
    PROVE  SameRest(a, ref, d, DocumentOf(d.tabs, x, d.notes))
  <1> DEFINE c == DocumentOf(d.tabs, x, d.notes)
  <1>1. Docs!IsDocument(c) /\ c.tabs = d.tabs /\ c.notes = d.notes
    BY DocumentParts DEF Docs!IsDocument
  <1> HIDE DEF c
  <1>2. Docs!Rest(a, ref, c) = [c EXCEPT !.comments = <<>>] /\ Docs!Rest(a, ref, d) = [d EXCEPT !.comments = <<>>]
    BY DEF Docs!Rest
  <1>3. /\ [c EXCEPT !.comments = <<>>] = DocumentOf(c.tabs, <<>>, c.notes)
        /\ [d EXCEPT !.comments = <<>>] = DocumentOf(d.tabs, <<>>, d.notes)
    BY <1>1, DocumentUpdates
  <1> QED BY <1>1, <1>2, <1>3 DEF SameRest, c

LEMMA CarryComments ==
    ASSUME NEW d, Docs!IsDocument(d), NEW q, q.op \in OfComments, Docs!Carry(d, q) # Refused
    PROVE  \E x : Docs!Carry(d, q) = DocumentOf(d.tabs, x, d.notes)
  <1>1. CASE q.op = "createComment"
    <2>1. Docs!Carry(d, q) = [d EXCEPT !.comments = Append(d.comments, q.comment)]
      BY <1>1 DEF Docs!Carry
    <2>2. Docs!Carry(d, q) = DocumentOf(d.tabs, Append(d.comments, q.comment), d.notes)
      BY Zenon, <2>1, DocumentUpdates
    <2> QED BY Zenon, <2>2
  <1>2. CASE q.op = "deleteComment"
    <2>1. Docs!Carry(d, q) = [d EXCEPT !.comments[q.id] = None] BY <1>2 DEF Docs!Carry
    <2>2. Docs!Carry(d, q) = DocumentOf(d.tabs, [d.comments EXCEPT ![q.id] = None], d.notes)
      BY Zenon, <2>1, DocumentUpdates
    <2> QED BY Zenon, <2>2
  <1>3. CASE q.op = "createReply"
    <2> DEFINE u == Append(d.comments[q.id].replies, q.text)
               w == d.comments[q.id].resolved \/ q.on
               e == [d EXCEPT !.comments[q.id].replies = u]
               f == [d.comments EXCEPT ![q.id].replies = u]
               g == [e EXCEPT !.comments[q.id].resolved = e.comments[q.id].resolved \/ q.on]
    <2>1. Docs!Carry(d, q) = g BY ZenonT(30), <1>3 DEF Docs!Carry
    <2>2. e = DocumentOf(d.tabs, f, d.notes)
      <3>1. e = [d EXCEPT !.comments = f] OBVIOUS
      <3> HIDE DEF f, e
      <3> QED BY <3>1, DocumentUpdates
    <2>3. Docs!IsDocument(e) /\ e.tabs = d.tabs /\ e.notes = d.notes
      <3> HIDE DEF f, e
      <3> QED BY <2>2, DocumentParts DEF Docs!IsDocument
    <2> HIDE DEF e, f
    <2>4. PICK z : g = [e EXCEPT !.comments = z] OBVIOUS
    <2> HIDE DEF g
    <2>5. g = DocumentOf(e.tabs, z, e.notes) BY Zenon, <2>3, <2>4, DocumentUpdates
    <2>6. Docs!Carry(d, q) = DocumentOf(d.tabs, z, d.notes) BY <2>1, <2>3, <2>5
    <2> QED BY Zenon, <2>6
  <1> QED BY <1>1, <1>2, <1>3 DEF OfComments

\* A request about the body of a tab makes another body, or other notes.
BodyOf(d, T, b, n) == DocumentOf([d.tabs EXCEPT ![T] = Docs!Tab(d.tabs[T].title, b)], d.comments, n)

LEMMA CarryBody ==
    ASSUME NEW d, Docs!IsDocument(d), NEW q, q.op \in OfBody, Docs!Carry(d, q) # Refused
    PROVE  q.tab \in DOMAIN d.tabs /\ \E b, n : Docs!Carry(d, q) = BodyOf(d, q.tab, b, n)
  <1> DEFINE T == q.tab
             old == d.tabs[T].body
  <1>1. Docs!Carry(d, q) = IF T \notin DOMAIN d.tabs THEN Refused ELSE Docs!CarryInTab(d, q)
    BY DEF Docs!Carry, OfBody
  <1>2. T \in DOMAIN d.tabs /\ Docs!Carry(d, q) = Docs!CarryInTab(d, q) BY <1>1
  <1>3. ASSUME NEW v PROVE [d EXCEPT !.tabs[T].body = v] = BodyOf(d, T, v, d.notes)
    BY ZenonT(30), <1>2, TabUpdates DEF BodyOf
  <1>4. CASE q.op = "createFootnote"
    <2> DEFINE c == Docs!Put(old, IF q.from = None THEN Len(old) ELSE q.from, <<Docs!Token("note", {Len(d.notes) + 1})>>)
               e == [d EXCEPT !.tabs[T].body = c]
               f == [e EXCEPT !.notes = Append(d.notes, <<>>)]
    <2>1. Docs!CarryInTab(d, q) = IF c = Refused THEN Refused ELSE [d EXCEPT !.tabs[T].body = c, !.notes = Append(@, <<>>)]
      BY <1>4 DEF Docs!CarryInTab
    <2>2. [d EXCEPT !.tabs[T].body = c, !.notes = Append(@, <<>>)] = f BY DEF Docs!IsDocument
    <2>3. Docs!Carry(d, q) = f BY <1>2, <2>1, <2>2
    <2> HIDE DEF c
    <2>4. e = BodyOf(d, T, c, d.notes) BY <1>3
    <2>5. AreTabs([d.tabs EXCEPT ![T] = Docs!Tab(d.tabs[T].title, c)]) BY <1>2, TabUpdates
    <2> HIDE DEF e
    <2>6. /\ Docs!IsDocument(e) /\ e.comments = d.comments
          /\ e.tabs = [d.tabs EXCEPT ![T] = Docs!Tab(d.tabs[T].title, c)]
      BY <2>4, <2>5, DocumentParts DEF BodyOf, AreTabs
    <2>7. f = DocumentOf(e.tabs, e.comments, Append(d.notes, <<>>)) BY <2>6, DocumentUpdates
    <2>8. f = BodyOf(d, T, c, Append(d.notes, <<>>)) BY <2>6, <2>7 DEF BodyOf
    <2> QED BY Zenon, <1>2, <2>3, <2>8
  <1>5. CASE q.op = "insertNote"
    <2>1. Docs!CarryInTab(d, q) \in {[d EXCEPT !.notes[q.id] = q.text \o @], Refused}
      BY <1>5 DEF Docs!CarryInTab
    <2>2. Docs!Carry(d, q) = [d EXCEPT !.notes = [d.notes EXCEPT ![q.id] = q.text \o @]]
      BY <1>2, <2>1
    <2> PICK n : n = [d.notes EXCEPT ![q.id] = q.text \o @] OBVIOUS
    <2>3. Docs!Carry(d, q) = DocumentOf(d.tabs, d.comments, n) BY <2>2, DocumentUpdates
    <2>4. d.tabs = [d.tabs EXCEPT ![T] = Docs!Tab(d.tabs[T].title, old)] BY <1>2 DEF Docs!IsDocument
    <2>5. Docs!Carry(d, q) = BodyOf(d, T, old, n) BY <2>3, <2>4 DEF BodyOf
    <2> QED BY Zenon, <1>2, <2>5
  <1>6. CASE q.op \notin {"createFootnote", "insertNote"}
    <2> DEFINE c == Docs!Changed(old, q)
    <2>1. Docs!CarryInTab(d, q) = IF c = Refused THEN Refused ELSE [d EXCEPT !.tabs[T].body = c]
      BY <1>6 DEF Docs!CarryInTab, OfBody
    <2> HIDE DEF c
    <2>2. Docs!Carry(d, q) = BodyOf(d, T, c, d.notes) BY <1>2, <1>3, <2>1
    <2> QED BY Zenon, <1>2, <2>2
  <1> QED BY <1>4, <1>5, <1>6

\* A change of all tabs.
LEMMA OtherTabs ==
    ASSUME NEW d, Docs!IsDocument(d), NEW tabs, AreTabs(tabs), NEW c, c = [d EXCEPT !.tabs = tabs]
    PROVE  Docs!IsDocument(c) /\ c.tabs = tabs /\ c.comments = d.comments /\ c.notes = d.notes
  <1>1. c = DocumentOf(tabs, d.comments, d.notes) BY DocumentUpdates
  <1> QED BY <1>1, DocumentParts DEF AreTabs

LEMMA NewTab ==
    ASSUME NEW d, Docs!IsDocument(d), NEW a, a.tool = "addDocumentTab", NEW ref, NEW q, q.op = "addDocumentTab",
           NEW c, c = Docs!Carry(d, q), c # Refused
    PROVE  SameRest(a, ref, d, c)
  <1> DEFINE tabs == [t \in DOMAIN d.tabs \cup {New} |-> IF t = New THEN Docs!Tab(q.text, <<Docs!Newline>>) ELSE d.tabs[t]]
  <1>1. New \notin DOMAIN d.tabs /\ c = [d EXCEPT !.tabs = tabs] BY DEF Docs!Carry
  <1>2. AreTabs(tabs)
    <2>1. DOMAIN tabs = DOMAIN d.tabs \cup {New} OBVIOUS
    <2>2. tabs[New] = Docs!Tab(tabs[New].title, tabs[New].body) BY DEF Docs!Tab
    <2>3. \A t \in DOMAIN d.tabs : d.tabs[t] = Docs!Tab(d.tabs[t].title, d.tabs[t].body)
      BY DEF Docs!IsDocument
    <2>4. \A t \in DOMAIN tabs : tabs[t] = Docs!Tab(tabs[t].title, tabs[t].body)
      BY <1>1, <2>1, <2>2, <2>3
    <2>5. tabs = [t \in DOMAIN tabs |-> tabs[t]] OBVIOUS
    <2> HIDE DEF tabs
    <2> QED BY <2>4, <2>5 DEF AreTabs
  <1>3. [t \in DOMAIN tabs \ {New} |-> tabs[t]] = [t \in DOMAIN d.tabs \ {New} |-> d.tabs[t]]
    BY <1>1
  <1> HIDE DEF tabs
  <1>4. Docs!IsDocument(c) /\ c.tabs = tabs /\ c.comments = d.comments /\ c.notes = d.notes
    BY <1>1, <1>2, OtherTabs
  <1>5. ASSUME NEW e, Docs!IsDocument(e)
        PROVE  Docs!Rest(a, ref, e) = DocumentOf([t \in DOMAIN e.tabs \ {New} |-> e.tabs[t]], e.comments, e.notes)
    <2>1. Docs!Rest(a, ref, e) = [e EXCEPT !.tabs = [t \in DOMAIN e.tabs \ {New} |-> e.tabs[t]]]
      BY DEF Docs!Rest, Docs!OnComments
    <2> QED BY <1>5, <2>1, DocumentUpdates
  <1> QED BY <1>3, <1>4, <1>5 DEF SameRest

\* Text is replaced in some tabs, whose titles stay.
LEMMA Replacing ==
    ASSUME NEW d, Docs!IsDocument(d), NEW q, q.op = "replaceAllText"
    PROVE  \E tabs : /\ AreTabs(tabs) /\ DOMAIN tabs = DOMAIN d.tabs /\ Docs!Carry(d, q) = [d EXCEPT !.tabs = tabs]
                     /\ \A t \in DOMAIN d.tabs : tabs[t].title = d.tabs[t].title /\ (t \notin q.tabs => tabs[t] = d.tabs[t])
  <1> DEFINE r(t) == Docs!ReplaceAll(d.tabs[t].body, q.find, q.text)
             w == [t \in DOMAIN d.tabs |-> IF t \in q.tabs THEN [d.tabs[t] EXCEPT !.body = r(t)] ELSE d.tabs[t]]
  <1>1. Docs!Carry(d, q) = [d EXCEPT !.tabs = w] BY DEF Docs!Carry
  <1> HIDE DEF r
  <1>2. ASSUME NEW t \in DOMAIN d.tabs
        PROVE  w[t] = Docs!Tab(d.tabs[t].title, w[t].body) /\ (t \notin q.tabs => w[t] = d.tabs[t])
               /\ w[t].title = d.tabs[t].title
    <2>1. PICK x, y : d.tabs[t] = [title |-> x, body |-> y] /\ d.tabs[t].title = x /\ d.tabs[t].body = y
      BY DEF Docs!IsDocument, Docs!Tab
    <2>2. [d.tabs[t] EXCEPT !.body = r(t)] = [title |-> x, body |-> r(t)] BY <2>1
    <2>3. w[t] = [title |-> x, body |-> IF t \in q.tabs THEN r(t) ELSE y] BY <2>1, <2>2
    <2> QED BY <2>1, <2>3 DEF Docs!Tab
  <1>3. DOMAIN w = DOMAIN d.tabs /\ w = [t \in DOMAIN w |-> w[t]] OBVIOUS
  <1> HIDE DEF w
  <1>4. AreTabs(w) BY <1>2, <1>3 DEF AreTabs
  <1> QED BY ZenonT(30), <1>1, <1>2, <1>3, <1>4

LEMMA Replaced ==
    ASSUME NEW d, Docs!IsDocument(d), NEW a, a.tool = "findAndReplaceInDoc", NEW ref, NEW q, q.op = "replaceAllText",
           a.tab # None => q.tabs = {a.tab}, NEW c, c = Docs!Carry(d, q)
    PROVE  SameRest(a, ref, d, c)
  <1>1. PICK tabs : /\ AreTabs(tabs) /\ DOMAIN tabs = DOMAIN d.tabs /\ c = [d EXCEPT !.tabs = tabs]
                    /\ \A t \in DOMAIN d.tabs : tabs[t].title = d.tabs[t].title /\ (t \notin q.tabs => tabs[t] = d.tabs[t])
    BY Replacing
  <1>2. Docs!IsDocument(c) /\ c.tabs = tabs /\ c.comments = d.comments /\ c.notes = d.notes
    BY <1>1, OtherTabs
  <1>3. CASE a.tab = None
    <2>1. ASSUME NEW e, Docs!IsDocument(e)
          PROVE  Docs!Rest(a, ref, e) = DocumentOf([t \in DOMAIN e.tabs |-> e.tabs[t].title], e.comments, e.notes)
      <3>1. Docs!Rest(a, ref, e) = [e EXCEPT !.tabs = [t \in DOMAIN e.tabs |-> e.tabs[t].title]]
        BY <1>3 DEF Docs!Rest, Docs!OnComments
      <3> QED BY <2>1, <3>1, DocumentUpdates
    <2>2. [t \in DOMAIN c.tabs |-> c.tabs[t].title] = [t \in DOMAIN d.tabs |-> d.tabs[t].title]
      BY <1>1, <1>2
    <2>3. Docs!Rest(a, ref, c) = DocumentOf([t \in DOMAIN c.tabs |-> c.tabs[t].title], c.comments, c.notes)
      BY Zenon, <1>2, <2>1
    <2>4. Docs!Rest(a, ref, d) = DocumentOf([t \in DOMAIN d.tabs |-> d.tabs[t].title], d.comments, d.notes)
      BY Zenon, <2>1
    <2> QED BY <1>2, <2>2, <2>3, <2>4 DEF SameRest
  <1>4. CASE a.tab # None
    <2>0. Docs!TabOf(a) = a.tab /\ q.tabs = {a.tab} /\ InBody(a)
      BY <1>4 DEF Docs!TabOf, InBody, Docs!OnComments
    <2>1. CASE a.tab \in DOMAIN d.tabs
      <3> DEFINE b == tabs[a.tab].body
                 own == [d.tabs EXCEPT ![a.tab] = Docs!Tab(d.tabs[a.tab].title, b)]
      <3>1. tabs[a.tab] = Docs!Tab(d.tabs[a.tab].title, b) BY <1>1, <2>1 DEF AreTabs
      <3>2. tabs = own
        <4>1. tabs = [t \in DOMAIN d.tabs |-> tabs[t]] BY <1>1 DEF AreTabs
        <4>2. \A t \in DOMAIN d.tabs : tabs[t] = IF t = a.tab THEN Docs!Tab(d.tabs[a.tab].title, b) ELSE d.tabs[t]
          BY <1>1, <2>0, <3>1
        <4>3. own = [t \in DOMAIN d.tabs |-> IF t = a.tab THEN Docs!Tab(d.tabs[a.tab].title, b) ELSE d.tabs[t]]
          BY DEF Docs!IsDocument
        <4> HIDE DEF own, b
        <4> QED BY <4>1, <4>2, <4>3
      <3> HIDE DEF b, own
      <3>3. c = DocumentOf(own, d.comments, d.notes) BY <1>1, <3>2, DocumentUpdates
      <3> QED BY <2>0, <2>1, <3>3, BodyIsNoRest DEF SameRest, own
    <2>2. CASE a.tab \notin DOMAIN d.tabs
      <3>1. tabs = d.tabs
        <4>1. tabs = [t \in DOMAIN d.tabs |-> tabs[t]] /\ d.tabs = [t \in DOMAIN d.tabs |-> d.tabs[t]]
          BY <1>1 DEF AreTabs, Docs!IsDocument
        <4>2. \A t \in DOMAIN d.tabs : tabs[t] = d.tabs[t] BY <1>1, <2>0, <2>2
        <4> QED BY <4>1, <4>2
      <3>2. c = DocumentOf(d.tabs, d.comments, d.notes) /\ d = DocumentOf(d.tabs, d.comments, d.notes)
        <4>1. c = DocumentOf(tabs, d.comments, d.notes) BY <1>1, DocumentUpdates
        <4> QED BY <3>1, <4>1 DEF DocumentOf, Docs!IsDocument
      <3> QED BY <3>2 DEF SameRest
    <2> QED BY <2>1, <2>2
  <1> QED BY <1>3, <1>4

LEMMA TabRenamed ==
    ASSUME NEW d, Docs!IsDocument(d), NEW a, a.tool = "renameDocumentTab", NEW ref, NEW q,
           q.op = "updateDocumentTabProperties", q.tab = Docs!TabOf(a), NEW c, c = Docs!Carry(d, q), c # Refused
    PROVE  SameRest(a, ref, d, c)
  <1> DEFINE T == Docs!TabOf(a)
             tabs == [d.tabs EXCEPT ![T] = Docs!Tab(q.text, d.tabs[T].body)]
  <1>1. T \in DOMAIN d.tabs /\ c = [d EXCEPT !.tabs[T].title = q.text]
    BY DEF Docs!Carry, Docs!CarryInTab
  <1>2. c = DocumentOf(tabs, d.comments, d.notes) /\ AreTabs(tabs) BY ZenonT(30), <1>1, TabUpdates
  <1>3. Docs!IsDocument(c) /\ c.tabs = tabs /\ c.comments = d.comments /\ c.notes = d.notes
    <2> HIDE DEF tabs
    <2> QED BY <1>2, DocumentParts DEF AreTabs
  <1>4. ASSUME NEW e, Docs!IsDocument(e), T \in DOMAIN e.tabs
        PROVE  Docs!Rest(a, ref, e) = DocumentOf([e.tabs EXCEPT ![T] = Docs!Tab(None, e.tabs[T].body)], e.comments, e.notes)
    <2>1. Docs!Rest(a, ref, e) = [e EXCEPT !.tabs[T].title = None]
      BY <1>4 DEF Docs!Rest, Docs!OnComments
    <2> HIDE DEF T
    <2> QED BY <1>4, <2>1, TabUpdates
  <1>5. /\ T \in DOMAIN tabs /\ tabs[T].body = d.tabs[T].body
        /\ [tabs EXCEPT ![T] = Docs!Tab(None, d.tabs[T].body)] = [d.tabs EXCEPT ![T] = Docs!Tab(None, d.tabs[T].body)]
    BY <1>1 DEF Docs!IsDocument, Docs!Tab
  <1> HIDE DEF tabs, T
  <1>6. Docs!Rest(a, ref, c) = DocumentOf([c.tabs EXCEPT ![T] = Docs!Tab(None, c.tabs[T].body)], c.comments, c.notes)
    <2>1. T \in DOMAIN c.tabs BY <1>3, <1>5
    <2> QED BY Zenon, <1>3, <1>4, <2>1
  <1>7. Docs!Rest(a, ref, d) = DocumentOf([d.tabs EXCEPT ![T] = Docs!Tab(None, d.tabs[T].body)], d.comments, d.notes)
    BY Zenon, <1>1, <1>4
  <1> QED BY <1>3, <1>5, <1>6, <1>7 DEF SameRest

\* Whatever a request within the part of a call does, the rest stays.
LEMMA DocumentCarry ==
    ASSUME NEW d, Docs!IsDocument(d), NEW a, NEW ref, NEW q, Within(a, q), NEW c, c = Docs!Carry(d, q), c # Refused
    PROVE  SameRest(a, ref, d, c)
  <1>1. CASE a.tool \in Docs!OnComments
    <2>1. \E x : c = DocumentOf(d.tabs, x, d.notes) BY <1>1, CarryComments DEF Within
    <2> QED BY <1>1, <2>1, OtherComments
  <1>2. CASE a.tool = "addDocumentTab" BY <1>2, NewTab DEF Within
  <1>3. CASE a.tool = "findAndReplaceInDoc" BY <1>3, Replaced DEF Within
  <1>4. CASE a.tool = "renameDocumentTab" BY <1>4, TabRenamed DEF Within
  <1>5. CASE a.tool \notin Docs!OnComments \cup OnWhole
    <2>1. q.op \in OfBody /\ q.tab = Docs!TabOf(a) /\ InBody(a) BY <1>5 DEF Within, InBody, OnWhole
    <2>2. PICK b, n : c = BodyOf(d, q.tab, b, n) BY <2>1, CarryBody
    <2>3. q.tab \in DOMAIN d.tabs BY <2>1, CarryBody
    <2> QED BY <2>1, <2>2, <2>3, BodyIsNoRest DEF SameRest, BodyOf
  <1> QED BY <1>1, <1>2, <1>3, <1>4, <1>5 DEF OnWhole

LEMMA DocumentBatch ==
    ASSUME NEW d, Docs!IsDocument(d), NEW a, NEW ref, NEW requests, Len(requests) \in Nat,
           \A i \in 1..Len(requests) : Within(a, requests[i]), NEW c, c = Docs!Batch(d, requests), c # Refused
    PROVE  SameRest(a, ref, d, c)
  <1>1. PICK g : c = g[Len(requests)] /\ DocumentSteps(g, d, requests) BY DocumentRuns
  <1>2. /\ g[0] = d
        /\ \A n \in 1..Len(requests) : g[n] = IF g[n - 1] = Refused THEN Refused ELSE Docs!Carry(g[n - 1], requests[n])
    BY Zenon, <1>1 DEF DocumentSteps
  <1> DEFINE N == {n \in 0..Len(requests) : g[n] # Refused /\ ~SameRest(a, ref, d, g[n])}
  <1> SUFFICES ASSUME N # {} PROVE FALSE BY <1>1
  <1>3. PICK n \in N : \A j \in N : n <= j
    <2>1. N \in SUBSET Nat OBVIOUS
    <2> HIDE DEF N
    <2> QED BY <2>1, LeastNumber
  <1>4. n # 0 BY <1>2 DEF SameRest
  <1>5. n - 1 \in 0..Len(requests) /\ n \in 1..Len(requests) /\ n - 1 \notin N BY <1>3, <1>4
  <1>6. g[n] # Refused /\ ~SameRest(a, ref, d, g[n]) /\ (g[n - 1] = Refused \/ SameRest(a, ref, d, g[n - 1]))
    BY <1>5
  <1>7. g[n] = IF g[n - 1] = Refused THEN Refused ELSE Docs!Carry(g[n - 1], requests[n])
    BY Zenon, <1>2, <1>5
  <1>8. Within(a, requests[n]) BY <1>5
  <1> HIDE DEF N
  <1>9. SameRest(a, ref, d, g[n - 1]) /\ g[n] = Docs!Carry(g[n - 1], requests[n]) BY <1>6, <1>7
  <1>10. SameRest(a, ref, g[n - 1], g[n]) BY <1>6, <1>8, <1>9, DocumentCarry DEF SameRest
  <1> QED BY <1>6, <1>9, <1>10 DEF SameRest

-----------------------------------------------------------------------------
(***************************************************************************)
(* The requests that a tool for documents makes.                           *)
(***************************************************************************)

AreWithin(a, requests) ==
    /\ IsSequence(requests)
    /\ \A i \in 1..Len(requests) : Within(a, requests[i])

LEMMA NoneWithin == \A a : AreWithin(a, <<>>)
  BY EmptyIsSequence DEF AreWithin

LEMMA OneIsSequence ==
    ASSUME NEW q
    PROVE  IsSequence(<<q>>) /\ Len(<<q>>) = 1 /\ <<q>>[1] = q
  <1>1. <<q>> \in Seq({q}) OBVIOUS
  <1>2. IsSequence(<<q>>) BY <1>1, SequenceOf
  <1> QED BY <1>2

LEMMA OneWithin ==
    ASSUME NEW a, NEW q, Within(a, q)
    PROVE  AreWithin(a, <<q>>)
  BY OneIsSequence DEF AreWithin

LEMMA JoinedSequences ==
    ASSUME NEW s, IsSequence(s), NEW t, IsSequence(t)
    PROVE  /\ IsSequence(s \o t) /\ Len(s) \in Nat /\ Len(t) \in Nat /\ Len(s \o t) = Len(s) + Len(t)
           /\ \A i \in 1..Len(s \o t) : IF i <= Len(s) THEN (s \o t)[i] = s[i]
                                        ELSE i - Len(s) \in 1..Len(t) /\ (s \o t)[i] = t[i - Len(s)]
  <1> DEFINE T == {s[i] : i \in DOMAIN s} \cup {t[i] : i \in DOMAIN t}
  <1>1. s \in Seq(T) /\ t \in Seq(T) BY DEF IsSequence
  <1> HIDE DEF T
  <1>2. s \o t \in Seq(T) BY <1>1
  <1>3. IsSequence(s \o t) BY <1>2, SequenceOf
  <1>4. Len(s) \in Nat /\ Len(t) \in Nat /\ Len(s \o t) = Len(s) + Len(t) BY <1>1
  <1>5. \A i \in 1..Len(s \o t) : IF i <= Len(s) THEN (s \o t)[i] = s[i]
                                  ELSE i - Len(s) \in 1..Len(t) /\ (s \o t)[i] = t[i - Len(s)]
    BY <1>1, <1>4
  <1> QED BY <1>3, <1>4, <1>5

LEMMA JoinedWithin ==
    ASSUME NEW a, NEW s, AreWithin(a, s), NEW t, AreWithin(a, t)
    PROVE  AreWithin(a, s \o t)
  <1>1. IsSequence(s) /\ IsSequence(t) BY DEF AreWithin
  <1>2. /\ IsSequence(s \o t) /\ Len(s) \in Nat
        /\ \A i \in 1..Len(s \o t) : IF i <= Len(s) THEN (s \o t)[i] = s[i]
                                        ELSE i - Len(s) \in 1..Len(t) /\ (s \o t)[i] = t[i - Len(s)]
    BY <1>1, JoinedSequences
  <1> SUFFICES ASSUME NEW i \in 1..Len(s \o t) PROVE Within(a, (s \o t)[i]) BY <1>2 DEF AreWithin
  <1>3. CASE i <= Len(s)
    <2>1. i \in 1..Len(s) /\ (s \o t)[i] = s[i] BY <1>2, <1>3
    <2> QED BY <2>1 DEF AreWithin
  <1>4. CASE ~(i <= Len(s))
    <2>1. i - Len(s) \in 1..Len(t) /\ (s \o t)[i] = t[i - Len(s)] BY <1>2, <1>4
    <2> QED BY <2>1 DEF AreWithin
  <1> QED BY <1>3, <1>4

\* The tools whose requests are about the body of their tab, and those requests.
OnBody == (DocPlain \ (Docs!OnComments \cup OnWhole)) \cup {"batch_update_document"}

IsOfBody(a, q) == q.op \in OfBody /\ q.tab = Docs!TabOf(a)

LEMMA WithinBody ==
    ASSUME NEW a, a.tool \in OnBody, NEW q, IsOfBody(a, q)
    PROVE  Within(a, q)
  BY DEF OnBody, DocPlain, Docs!OnComments, OnWhole, Within, IsOfBody

\* Such a request with another field changed.
BodyFields(a, q) == IsOfBody(a, q) /\ {"op", "tab"} \subseteq DOMAIN q

LEMMA BodyUpdates ==
    ASSUME NEW a, NEW q, BodyFields(a, q), NEW v
    PROVE  /\ BodyFields(a, [q EXCEPT !.from = v]) /\ BodyFields(a, [q EXCEPT !.to = v])
           /\ BodyFields(a, [q EXCEPT !.attr = v]) /\ BodyFields(a, [q EXCEPT !.on = v])
  BY DEF BodyFields, IsOfBody

LEMMA BodyRequests ==
    ASSUME NEW a, NEW op \in OfBody, NEW x, NEW y, NEW z, NEW w
    PROVE  /\ IsOfBody(a, Docs!Request(a, op))
           /\ IsOfBody(a, Docs!Over(Docs!Request(a, op), x, y))
           /\ IsOfBody(a, [Docs!Request(a, op) EXCEPT !.from = x])
           /\ IsOfBody(a, [Docs!Over(Docs!Request(a, op), x, y) EXCEPT !.attr = z])
           /\ IsOfBody(a, [Docs!Over(Docs!Request(a, op), x, y) EXCEPT !.attr = z, !.on = w])
  <1> DEFINE q == Docs!Request(a, op)
             q1 == [q EXCEPT !.from = x]
             q2 == [q1 EXCEPT !.to = y]
             q3 == [q2 EXCEPT !.attr = z]
             q4 == [q3 EXCEPT !.on = w]
  <1>1. BodyFields(a, q) BY DEF BodyFields, IsOfBody, Docs!Request
  <1>2. Docs!Over(q, x, y) = q2 BY DEF Docs!Over
  <1>3. [Docs!Over(q, x, y) EXCEPT !.attr = z] = q3 /\ [Docs!Over(q, x, y) EXCEPT !.attr = z, !.on = w] = q4
    BY <1>2
  <1> HIDE DEF q
  <1>4. BodyFields(a, q1) BY <1>1, BodyUpdates
  <1> HIDE DEF q1
  <1>5. BodyFields(a, q2) BY <1>4, BodyUpdates
  <1> HIDE DEF q2
  <1>6. BodyFields(a, q3) BY <1>5, BodyUpdates
  <1> HIDE DEF q3
  <1>7. BodyFields(a, q4) BY <1>6, BodyUpdates
  <1> HIDE DEF q4
  <1>8. IsOfBody(a, q) /\ IsOfBody(a, Docs!Over(q, x, y)) /\ IsOfBody(a, [q EXCEPT !.from = x])
    BY <1>1, <1>2, <1>4, <1>5 DEF BodyFields, q1
  <1>9. IsOfBody(a, [Docs!Over(q, x, y) EXCEPT !.attr = z]) /\ IsOfBody(a, [Docs!Over(q, x, y) EXCEPT !.attr = z, !.on = w])
    BY <1>3, <1>6, <1>7 DEF BodyFields
  <1> QED BY <1>8, <1>9 DEF q

\* What a handler asks, if it is a list of changes, is within its part.
AsksWithin(a, r) == r.op = "batch" => AreWithin(a, r.requests)

LEMMA AsksLittle ==
    ASSUME NEW a
    PROVE  /\ AsksWithin(a, Docs!Read) /\ AsksWithin(a, Docs!Decline) /\ AsksWithin(a, Docs!Finish)
           /\ \A op \in {"read", "create", "share", "link", "drop"} : AsksWithin(a, Docs!Ask(op))
           /\ \A requests : AreWithin(a, requests) => /\ AsksWithin(a, Docs!Send(requests))
                                                      /\ \A saw, n : AsksWithin(a, Docs!Last(saw, n, requests))
  <1>1. /\ Docs!Read.op # "batch" /\ Docs!Decline.op # "batch" /\ Docs!Finish.op # "batch"
        /\ \A op : Docs!Ask(op).op = op
    BY DEF Docs!Read, Docs!Decline, Docs!Finish, Docs!Ask
  <1>2. \A requests : Docs!Send(requests).requests = requests BY DEF Docs!Send
  <1>3. \A requests, saw, n : Docs!Last(saw, n, requests) \in {Docs!Send(requests), Docs!Finish}
    BY DEF Docs!Last
  <1>4. AsksWithin(a, Docs!Read) /\ AsksWithin(a, Docs!Decline) /\ AsksWithin(a, Docs!Finish)
    BY <1>1 DEF AsksWithin
  <1>5. \A op \in {"read", "create", "share", "link", "drop"} : AsksWithin(a, Docs!Ask(op))
    BY <1>1 DEF AsksWithin
  <1>6. ASSUME NEW requests, AreWithin(a, requests) PROVE AsksWithin(a, Docs!Send(requests))
    BY <1>2, <1>6 DEF AsksWithin
  <1> QED BY <1>3, <1>4, <1>5, <1>6

\* A list of one request about the body.
LEMMA OneOfBody ==
    ASSUME NEW a, a.tool \in OnBody, NEW q, IsOfBody(a, q)
    PROVE  AreWithin(a, <<q>>)
  BY WithinBody, OneWithin

LEMMA AskOverText ==
    ASSUME NEW a, a.tool \in OnBody, NEW saw, NEW q, NEW op \in OfBody, q \in {None, Docs!Request(a, op)}
    PROVE  AsksWithin(a, Docs!OverText(a, saw, q))
  <1>1. ASSUME NEW x, NEW y PROVE AreWithin(a, <<Docs!Over(Docs!Request(a, op), x, y)>>)
    BY Zenon, BodyRequests, OneOfBody
  <1>2. \A x, y, n : AsksWithin(a, Docs!Last(saw, n, <<Docs!Over(Docs!Request(a, op), x, y)>>))
    BY <1>1, AsksLittle
  <1>3. \/ Docs!OverText(a, saw, q) \in {Docs!Read, Docs!Decline}
        \/ q # None /\ \E x, y, n : Docs!OverText(a, saw, q) = Docs!Last(saw, n, <<Docs!Over(q, x, y)>>)
    BY DEF Docs!OverText
  <1>4. q # None => q = Docs!Request(a, op) OBVIOUS
  <1> QED BY <1>2, <1>3, <1>4, AsksLittle

LEMMA AskParagraph ==
    ASSUME NEW a, a.tool \in OnBody, NEW saw
    PROVE  AsksWithin(a, Docs!applyParagraphStyle(a, saw))
  <1> DEFINE q == Docs!Request(a, "updateParagraphs")
  <1>0. "updateParagraphs" \in OfBody BY DEF OfBody
  <1>1. ASSUME NEW x, NEW y PROVE AreWithin(a, <<Docs!Over(q, x, y)>>)
    BY Zenon, <1>0, BodyRequests, OneOfBody
  <1>2. AreWithin(a, <<q>>) BY Zenon, <1>0, BodyRequests, OneOfBody
  <1>3. \A n : AsksWithin(a, Docs!Last(saw, n, <<q>>)) /\ \A x, y : AsksWithin(a, Docs!Last(saw, n, <<Docs!Over(q, x, y)>>))
    BY <1>1, <1>2, AsksLittle
  <1> DEFINE p == Docs!buildUpdateParagraphStyleRequest(a)
  <1>4. p # None => p = q BY DEF Docs!buildUpdateParagraphStyleRequest
  <1>5. \/ Docs!applyParagraphStyle(a, saw) \in {Docs!Read, Docs!Decline}
        \/ p # None /\ Docs!applyParagraphStyle(a, saw) = Docs!Last(saw, 0, <<p>>)
        \/ p # None /\ \E x, y, n : Docs!applyParagraphStyle(a, saw) = Docs!Last(saw, n, <<Docs!Over(p, x, y)>>)
    BY DEF Docs!applyParagraphStyle
  <1> HIDE DEF p, q
  <1> QED BY <1>3, <1>4, <1>5, AsksLittle

LEMMA PairWithin ==
    ASSUME NEW a, NEW x, NEW y, Within(a, x), Within(a, y)
    PROVE  AreWithin(a, <<x, y>>)
  <1>1. <<x, y>> \in Seq({x, y}) /\ Len(<<x, y>>) = 2 /\ <<x, y>>[1] = x /\ <<x, y>>[2] = y OBVIOUS
  <1>2. IsSequence(<<x, y>>) BY <1>1, SequenceOf
  <1>3. \A i \in 1..Len(<<x, y>>) : i = 1 \/ i = 2 BY <1>1
  <1> QED BY <1>1, <1>2, <1>3 DEF AreWithin

LEMMA AskReplacement ==
    ASSUME NEW a, a.tool \in OnBody, NEW saw
    PROVE  AsksWithin(a, Docs!updateGoogleDoc(a, saw))
  <1> DEFINE b == Docs!getTabBodyContent(saw[1], a)
             cut == IF Len(b) > 1 THEN <<Docs!Over(Docs!Request(a, "deleteContentRange"), 1, Len(b))>> ELSE <<>>
             q1 == [Docs!Request(a, "insertText") EXCEPT !.from = 1]
             q2 == [Docs!Over(Docs!Request(a, "updateParagraphs"), 1, Len(a.text) + 1) EXCEPT !.attr = "heading", !.on = FALSE]
  <1>0. {"deleteContentRange", "insertText", "updateParagraphs"} \subseteq OfBody BY DEF OfBody
  <1>1. AreWithin(a, cut) BY Zenon, <1>0, BodyRequests, OneOfBody, NoneWithin
  <1>2. IsOfBody(a, q1) BY Zenon, <1>0, BodyRequests
  <1>3. IsOfBody(a, q2) BY Zenon, <1>0, BodyRequests
  <1>4. Docs!updateGoogleDoc(a, saw) \in {Docs!Read, Docs!Decline, Docs!Last(saw, 1, cut \o <<q1, q2>>), Docs!Send(cut), Docs!Last(saw, 2, <<q1, q2>>)}
    BY DEF Docs!updateGoogleDoc
  <1> HIDE DEF b, cut, q1, q2
  <1>5. AreWithin(a, <<q1, q2>>) BY <1>2, <1>3, WithinBody, PairWithin
  <1>6. AreWithin(a, cut \o <<q1, q2>>) BY <1>1, <1>5, JoinedWithin
  <1> QED BY <1>1, <1>4, <1>5, <1>6, AsksLittle

LEMMA AskCell ==
    ASSUME NEW a, a.tool \in OnBody, NEW saw
    PROVE  AsksWithin(a, Docs!editTableCell(a, saw))
  <1> DEFINE b == Docs!getTabBodyContent(saw[1], a)
             cell == Docs!TableCell(b, a.from, a.row, a.column)
             first == cell.from + 1
             last == cell.to - 1
             cut == IF a.text # None /\ last > first THEN <<Docs!Over(Docs!Request(a, "deleteContentRange"), first, last)>> ELSE <<>>
             fill == IF a.text # None /\ a.text # <<>> THEN <<[Docs!Request(a, "insertText") EXCEPT !.from = first]>> ELSE <<>>
             style == IF a.attr = None THEN <<>>
                      ELSE <<Docs!Over(Docs!Request(a, "updateTextStyle"), first, IF a.text # None THEN first + Len(a.text) ELSE last)>>
             align == IF a.align = None THEN <<>>
                      ELSE <<[Docs!Over(Docs!Request(a, "updateParagraphs"), first, last) EXCEPT !.attr = a.align]>>
  <1>0. {"deleteContentRange", "insertText", "updateTextStyle", "updateParagraphs"} \subseteq OfBody
    BY DEF OfBody
  <1>1. AreWithin(a, cut) /\ AreWithin(a, style)
    <2>1. \A op \in OfBody : \A x, y : AreWithin(a, <<Docs!Over(Docs!Request(a, op), x, y)>>)
      BY Zenon, BodyRequests, OneOfBody
    <2> HIDE DEF first, last
    <2> QED BY <1>0, <2>1, NoneWithin
  <1>2. AreWithin(a, fill)
    <2>1. \A op \in OfBody : \A x : AreWithin(a, <<[Docs!Request(a, op) EXCEPT !.from = x]>>)
      <3> SUFFICES ASSUME NEW op \in OfBody, NEW x PROVE AreWithin(a, <<[Docs!Request(a, op) EXCEPT !.from = x]>>)
        OBVIOUS
      <3>1. IsOfBody(a, [Docs!Request(a, op) EXCEPT !.from = x]) BY Zenon, BodyRequests
      <3> QED BY <3>1, OneOfBody
    <2> HIDE DEF first
    <2> QED BY <1>0, <2>1, NoneWithin
  <1>3. AreWithin(a, align)
    <2> DEFINE q == [Docs!Over(Docs!Request(a, "updateParagraphs"), first, last) EXCEPT !.attr = a.align]
    <2>1. IsOfBody(a, q)
      <3> HIDE DEF first, last
      <3> QED BY Zenon, <1>0, BodyRequests
    <2>2. align \in {<<>>, <<q>>} OBVIOUS
    <2> HIDE DEF q, align
    <2> QED BY <2>1, <2>2, OneOfBody, NoneWithin
  <1>4. Docs!editTableCell(a, saw) \in {Docs!Read, Docs!Decline, Docs!Last(saw, 1, cut \o fill \o style \o align)}
    BY DEF Docs!editTableCell
  <1> HIDE DEF b, cell, first, last, cut, fill, style, align
  <1>5. AreWithin(a, cut \o fill) BY <1>1, <1>2, JoinedWithin
  <1>6. AreWithin(a, cut \o fill \o style) BY <1>1, <1>5, JoinedWithin
  <1>7. AreWithin(a, cut \o fill \o style \o align) BY <1>3, <1>6, JoinedWithin
  <1> QED BY <1>4, <1>7, AsksLittle

\* The tools that make one request about the body.
LEMMA AskOnce ==
    ASSUME NEW a, a.tool \in OnBody, NEW saw
    PROVE  /\ AsksWithin(a, Docs!insertText(a, saw)) /\ AsksWithin(a, Docs!deleteRange(a, saw))
           /\ AsksWithin(a, Docs!insertTable(a, saw)) /\ AsksWithin(a, Docs!createFootnote(a, saw))
  <1> DEFINE table == [op |-> "insertTable", tab |-> Docs!TabOf(a), from |-> a.from, rows |-> a.row, columns |-> a.column]
             note == [op |-> "insertNote", tab |-> Docs!TabOf(a), id |-> Len(saw[1].notes), text |-> a.text]
  <1>0. {"insertText", "deleteContentRange", "createFootnote", "insertTable", "insertNote"} \subseteq OfBody
    BY DEF OfBody
  <1>1. \A op \in {"insertText", "deleteContentRange", "createFootnote"} : AreWithin(a, <<Docs!Request(a, op)>>)
    BY Zenon, <1>0, BodyRequests, OneOfBody
  <1>2. IsOfBody(a, table) /\ IsOfBody(a, note) BY <1>0 DEF IsOfBody
  <1>3. Docs!insertText(a, saw) \in {Docs!Read, Docs!Last(saw, 1, <<Docs!Request(a, "insertText")>>)}
    BY DEF Docs!insertText
  <1>4. Docs!deleteRange(a, saw) \in {Docs!Read, Docs!Decline, Docs!Last(saw, 1, <<Docs!Request(a, "deleteContentRange")>>)}
    BY DEF Docs!deleteRange
  <1>5. Docs!insertTable(a, saw) = Docs!Last(saw, 0, <<table>>) BY DEF Docs!insertTable
  <1>6. Docs!createFootnote(a, saw) \in {Docs!Send(<<Docs!Request(a, "createFootnote")>>), Docs!Finish, Docs!Last(saw, 1, <<note>>)}
    BY DEF Docs!createFootnote
  <1> HIDE DEF table, note
  <1>7. AreWithin(a, <<table>>) /\ AreWithin(a, <<note>>) BY <1>2, OneOfBody
  <1>8. AsksWithin(a, Docs!insertText(a, saw)) /\ AsksWithin(a, Docs!deleteRange(a, saw))
    BY <1>1, <1>3, <1>4, AsksLittle
  <1>9. AsksWithin(a, Docs!insertTable(a, saw)) /\ AsksWithin(a, Docs!createFootnote(a, saw))
    BY <1>1, <1>5, <1>6, <1>7, AsksLittle
  <1> QED BY <1>8, <1>9

LEMMA AskInline ==
    ASSUME NEW a, a.tool \in OnBody, NEW saw, Len(saw) \in Nat
    PROVE  /\ AsksWithin(a, Docs!insertImageFromUrl(a, saw)) /\ AsksWithin(a, Docs!insertSmartChip(a, saw))
           /\ AsksWithin(a, Docs!insertLocalImage(a, saw))
  <1>1. ASSUME NEW what PROVE AreWithin(a, Docs!InsertInline(a, what))
    <2> DEFINE q == [op |-> "insertInline", tab |-> Docs!TabOf(a), from |-> a.from, text |-> what]
    <2>1. IsOfBody(a, q) BY DEF IsOfBody, OfBody
    <2>2. Docs!InsertInline(a, what) = <<q>> BY DEF Docs!InsertInline
    <2> HIDE DEF q
    <2> QED BY <2>1, <2>2, OneOfBody
  <1>2. AsksWithin(a, Docs!insertImageFromUrl(a, saw)) /\ AsksWithin(a, Docs!insertSmartChip(a, saw))
    BY <1>1, AsksLittle DEF Docs!insertImageFromUrl, Docs!insertSmartChip
  <1>3. AsksWithin(a, Docs!insertLocalImage(a, saw))
    <2> DEFINE first == (IF a.folder THEN <<"read">> ELSE <<>>) \o Docs!UploadImage(a.public)
    <2>1. /\ Len(first) \in Nat
          /\ \A i \in 1..Len(first) : first[i] \in {"read", "create", "share", "link", "drop"}
      <3> DEFINE T == {"read", "create", "share", "link", "drop"}
      <3>1. (IF a.folder THEN <<"read">> ELSE <<>>) \in Seq(T)
        <4>1. <<"read">> \in Seq(T) /\ <<>> \in Seq(T) OBVIOUS
        <4> QED BY <4>1
      <3>2. Docs!UploadImage(a.public) \in Seq(T)
        <4>1. <<"create", "share", "link">> \in Seq(T) /\ <<"create", "link">> \in Seq(T) OBVIOUS
        <4> HIDE DEF T
        <4> QED BY <4>1 DEF Docs!UploadImage
      <3> HIDE DEF T
      <3>3. first \in Seq(T) BY <3>1, <3>2
      <3> HIDE DEF first
      <3>4. \A i \in 1..Len(first) : first[i] \in T BY <3>3
      <3> QED BY <3>3, <3>4 DEF T
    <2>2. Docs!insertLocalImage(a, saw) = IF Len(saw) < Len(first) THEN Docs!Ask(first[Len(saw) + 1])
                                          ELSE Docs!Last(saw, Len(first), Docs!InsertInline(a, "image"))
      BY DEF Docs!insertLocalImage
    <2> HIDE DEF first
    <2>3. CASE Len(saw) < Len(first)
      <3>1. Len(saw) + 1 \in 1..Len(first) BY <2>1, <2>3
      <3> QED BY <2>1, <2>2, <2>3, <3>1, AsksLittle
    <2>4. CASE ~(Len(saw) < Len(first)) BY <1>1, <2>2, <2>4, AsksLittle
    <2> QED BY <2>3, <2>4
  <1> QED BY <1>2, <1>3

\* The tools that are about comments, or about more than a body.
LEMMA AskComments ==
    ASSUME NEW a, a.tool \in Docs!OnComments, NEW saw, IsSequence(saw)
    PROVE  /\ AsksWithin(a, Docs!addComment(a, saw)) /\ AsksWithin(a, Docs!replyToComment(a, saw))
           /\ AsksWithin(a, Docs!deleteComment(a, saw))
           /\ BulkComments(a) => AsksWithin(a, Docs!bulk_update_file_comments(a, saw))
  <1>1. ASSUME NEW q, q.op \in OfComments PROVE Within(a, q)
    BY <1>1 DEF Within, Docs!OnComments, OnWhole
  <1>2. ASSUME NEW x PROVE AreWithin(a, <<[op |-> "createComment", comment |-> x]>>)
    <2> DEFINE q == [op |-> "createComment", comment |-> x]
    <2>1. q.op \in OfComments BY DEF OfComments
    <2> HIDE DEF q
    <2>2. AreWithin(a, <<q>>) BY <1>1, <2>1, OneWithin
    <2> QED BY <2>2 DEF q
  <1>3. AsksWithin(a, Docs!addComment(a, saw))
    <2>1. \/ Docs!addComment(a, saw) \in {Docs!Read, Docs!Decline}
          \/ \E x : Docs!addComment(a, saw) = Docs!Last(saw, 1, <<[op |-> "createComment", comment |-> x]>>)
      BY Zenon DEF Docs!addComment
    <2> QED BY <1>2, <2>1, AsksLittle
  <1>4. AsksWithin(a, Docs!replyToComment(a, saw)) /\ AsksWithin(a, Docs!deleteComment(a, saw))
    <2> DEFINE q1 == [op |-> "createReply", id |-> a.id, text |-> a.text, on |-> a.on]
               q2 == [op |-> "deleteComment", id |-> a.id]
    <2>1. q1.op \in OfComments /\ q2.op \in OfComments BY DEF OfComments
    <2>2. Docs!replyToComment(a, saw) = Docs!Last(saw, 0, <<q1>>) /\ Docs!deleteComment(a, saw) = Docs!Last(saw, 0, <<q2>>)
      BY DEF Docs!replyToComment, Docs!deleteComment
    <2> HIDE DEF q1, q2
    <2>3. AreWithin(a, <<q1>>) /\ AreWithin(a, <<q2>>) BY <1>1, <2>1, OneWithin
    <2> QED BY <2>2, <2>3, AsksLittle
  <1>5. ASSUME BulkComments(a) PROVE AsksWithin(a, Docs!bulk_update_file_comments(a, saw))
    <2>1. PICK q1, q2 : a.requests = <<q1, q2>> /\ q1.op = "createComment" /\ q2.op = "createReply"
      BY <1>5 DEF BulkComments
    <2>2. Len(a.requests) = 2 /\ a.requests[1] = q1 /\ a.requests[2] = q2 BY <2>1
    <2>3. AreWithin(a, <<q1>>) /\ AreWithin(a, <<q2>>) BY <1>1, <2>1, OneWithin DEF OfComments
    <2>4. Len(saw) \in Nat BY DEF IsSequence
    <2>5. Len(saw) < 2 => Len(saw) + 1 = 1 \/ Len(saw) + 1 = 2 BY <2>4
    <2>6. Docs!bulk_update_file_comments(a, saw) \in {Docs!Send(<<q1>>), Docs!Send(<<q2>>), Docs!Decline, Docs!Finish}
      BY <2>2, <2>5 DEF Docs!bulk_update_file_comments
    <2> QED BY <2>3, <2>6, AsksLittle
  <1> QED BY <1>3, <1>4, <1>5

LEMMA AskOnWhole ==
    ASSUME NEW a, NEW saw
    PROVE  /\ a.tool = "addDocumentTab" => AsksWithin(a, Docs!addDocumentTab(a, saw))
           /\ a.tool = "renameDocumentTab" => AsksWithin(a, Docs!renameDocumentTab(a, saw))
           /\ a.tool = "findAndReplaceInDoc" => AsksWithin(a, Docs!findAndReplaceInDoc(a, saw))
  <1>1. ASSUME NEW op PROVE Docs!Request(a, op).op = op /\ Docs!Request(a, op).tab = Docs!TabOf(a)
    BY DEF Docs!Request
  <1>2. ASSUME a.tool = "addDocumentTab" PROVE AsksWithin(a, Docs!addDocumentTab(a, saw))
    <2>1. Within(a, Docs!Request(a, "addDocumentTab"))
      BY <1>1, <1>2 DEF Within, Docs!OnComments, OnWhole
    <2>2. AreWithin(a, <<Docs!Request(a, "addDocumentTab")>>) BY <2>1, OneWithin
    <2> QED BY <2>2, AsksLittle DEF Docs!addDocumentTab
  <1>3. ASSUME a.tool = "renameDocumentTab" PROVE AsksWithin(a, Docs!renameDocumentTab(a, saw))
    <2>1. Within(a, Docs!Request(a, "updateDocumentTabProperties"))
      BY <1>1, <1>3 DEF Within, Docs!OnComments, OnWhole
    <2>2. AreWithin(a, <<Docs!Request(a, "updateDocumentTabProperties")>>) BY <2>1, OneWithin
    <2> QED BY <2>2, AsksLittle DEF Docs!renameDocumentTab
  <1>4. ASSUME a.tool = "findAndReplaceInDoc" PROVE AsksWithin(a, Docs!findAndReplaceInDoc(a, saw))
    <2> DEFINE tabs == IF a.tab = None THEN {Main, Other, New} ELSE {a.tab}
               q == [op |-> "replaceAllText", find |-> a.find, text |-> a.text, tabs |-> tabs]
    <2>1. Within(a, q) BY <1>4 DEF Within, Docs!OnComments, OnWhole
    <2>2. Docs!findAndReplaceInDoc(a, saw) \in {Docs!Read, Docs!Finish, Docs!Last(saw, 0, <<q>>)}
      BY DEF Docs!findAndReplaceInDoc
    <2> HIDE DEF q
    <2>3. AreWithin(a, <<q>>) BY <2>1, OneWithin
    <2> QED BY <2>2, <2>3, AsksLittle
  <1> QED BY <1>2, <1>3, <1>4

\* The client's own list about one inline in the first tab.
LEMMA AskClient ==
    ASSUME NEW a, BatchDocument(a), NEW saw, IsSequence(saw)
    PROVE  AsksWithin(a, Docs!BatchUpdate(a, saw, FALSE))
  <1>1. PICK i : a.requests = <<[op |-> "insertInline", tab |-> Main, from |-> i, text |-> "image"]>>
    BY DEF BatchDocument
  <1> DEFINE q == [op |-> "insertInline", tab |-> Main, from |-> i, text |-> "image"]
  <1>2. a.tool \in OnBody /\ IsOfBody(a, q)
    <2>1. a.tool = "batch_update_document" /\ a.tab = None BY DEF BatchDocument
    <2>2. Docs!TabOf(a) = Main BY <2>1 DEF Docs!TabOf
    <2>3. q.op = "insertInline" /\ q.tab = Main OBVIOUS
    <2> HIDE DEF q
    <2>4. IsOfBody(a, q) BY <2>2, <2>3 DEF IsOfBody, OfBody
    <2> QED BY <2>1, <2>4 DEF OnBody
  <1>3. a.requests = <<q>> BY <1>1
  <1> HIDE DEF q
  <1>4. AreWithin(a, a.requests) BY <1>2, <1>3, OneOfBody
  <1>5. ASSUME NEW op \in {"create", "share", "link"} PROVE AsksWithin(a, Docs!Ask(op))
    BY AsksLittle
  <1> DEFINE uploads == 3 * a.images
             failed == {k \in DOMAIN saw : k <= uploads /\ saw[k] = Failed}
             image == Docs!UploadImage(TRUE)[(Len(saw) % 3) + 1]
  <1>6. image \in {"create", "share", "link"}
    <2>1. Docs!UploadImage(TRUE) = <<"create", "share", "link">> BY DEF Docs!UploadImage
    <2>2. Len(saw) % 3 \in {0, 1, 2} BY DEF IsSequence
    <2>3. \A x \in {0, 1, 2} : <<"create", "share", "link">>[x + 1] \in {"create", "share", "link"}
      OBVIOUS
    <2> QED BY <2>1, <2>2, <2>3
  <1>7. Docs!BatchUpdate(a, saw, FALSE) \in {Docs!Decline, Docs!Finish, Docs!Send(a.requests), Docs!Ask("drop"), Docs!Ask(image)}
    BY DEF Docs!BatchUpdate
  <1> HIDE DEF image, failed, uploads
  <1> QED BY <1>4, <1>5, <1>6, <1>7, AsksLittle

LEMMA DocumentHandler ==
    ASSUME NEW a, DocArgs(a), NEW saw, IsSequence(saw)
    PROVE  AsksWithin(a, Docs!Handler(a, saw))
  <1> DEFINE h == Docs!Handler(a, saw)
  <1>0. Len(saw) \in Nat BY DEF IsSequence
  <1>1. CASE BulkComments(a)
    <2>1. a.tool = "bulk_update_file_comments" BY <1>1 DEF BulkComments
    <2>2. h = Docs!bulk_update_file_comments(a, saw) BY <2>1 DEF Docs!Handler
    <2> QED BY <1>1, <2>1, <2>2, AskComments DEF Docs!OnComments
  <1>2. CASE BatchDocument(a)
    <2>1. a.tool = "batch_update_document" BY <1>2 DEF BatchDocument
    <2>2. h = Docs!BatchUpdate(a, saw, FALSE) BY <2>1 DEF Docs!Handler
    <2> QED BY Zenon, <1>2, <2>2, AskClient
  <1>3. CASE DocCall(a) /\ a.tool \in DocPlain
    <2>1. CASE a.tool \in {"applyTextStyle", "createParagraphBullets"}
      <3>1. a.tool \in OnBody BY <2>1 DEF OnBody, DocPlain, Docs!OnComments, OnWhole
      <3>2. /\ Docs!buildUpdateTextStyleRequest(a) \in {None, Docs!Request(a, "updateTextStyle")}
            /\ {"updateTextStyle", "updateParagraphs"} \subseteq OfBody
        BY DEF Docs!buildUpdateTextStyleRequest, OfBody
      <3>3. h \in {Docs!OverText(a, saw, Docs!buildUpdateTextStyleRequest(a)), Docs!OverText(a, saw, Docs!Request(a, "updateParagraphs"))}
        BY <2>1 DEF Docs!Handler, Docs!applyTextStyle, Docs!createParagraphBullets
      <3> QED BY <3>1, <3>2, <3>3, AskOverText
    <2>2. CASE a.tool \in {"applyParagraphStyle", "updateGoogleDoc", "editTableCell"}
      <3>1. a.tool \in OnBody BY <2>2 DEF OnBody, DocPlain, Docs!OnComments, OnWhole
      <3>2. h \in {Docs!applyParagraphStyle(a, saw), Docs!updateGoogleDoc(a, saw), Docs!editTableCell(a, saw)}
        BY <2>2 DEF Docs!Handler
      <3> QED BY <3>1, <3>2, AskParagraph, AskReplacement, AskCell
    <2>3. CASE a.tool \in {"insertText", "deleteRange", "insertTable", "createFootnote"}
      <3>1. a.tool \in OnBody BY <2>3 DEF OnBody, DocPlain, Docs!OnComments, OnWhole
      <3>2. h \in {Docs!insertText(a, saw), Docs!deleteRange(a, saw), Docs!insertTable(a, saw), Docs!createFootnote(a, saw)}
        BY <2>3 DEF Docs!Handler
      <3> QED BY <3>1, <3>2, AskOnce
    <2>4. CASE a.tool \in {"insertImageFromUrl", "insertSmartChip", "insertLocalImage"}
      <3>1. a.tool \in OnBody BY <2>4 DEF OnBody, DocPlain, Docs!OnComments, OnWhole
      <3>2. h \in {Docs!insertImageFromUrl(a, saw), Docs!insertSmartChip(a, saw), Docs!insertLocalImage(a, saw)}
        BY <2>4 DEF Docs!Handler
      <3> QED BY <1>0, <3>1, <3>2, AskInline
    <2>5. CASE a.tool \in {"addComment", "replyToComment", "deleteComment"}
      <3>1. a.tool \in Docs!OnComments BY <2>5 DEF Docs!OnComments
      <3>2. h \in {Docs!addComment(a, saw), Docs!replyToComment(a, saw), Docs!deleteComment(a, saw)}
        BY <2>5 DEF Docs!Handler
      <3> QED BY <3>1, <3>2, AskComments
    <2>6. CASE a.tool = "addDocumentTab" BY <2>6, AskOnWhole DEF Docs!Handler
    <2>7. CASE a.tool = "renameDocumentTab" BY <2>7, AskOnWhole DEF Docs!Handler
    <2>8. CASE a.tool = "findAndReplaceInDoc" BY <2>8, AskOnWhole DEF Docs!Handler
    <2>9. \/ a.tool \in {"applyTextStyle", "createParagraphBullets"} \/ a.tool \in {"applyParagraphStyle", "updateGoogleDoc", "editTableCell"}
          \/ a.tool \in {"insertText", "deleteRange", "insertTable", "createFootnote"} \/ a.tool \in {"insertImageFromUrl", "insertSmartChip", "insertLocalImage"}
          \/ a.tool \in {"addComment", "replyToComment", "deleteComment"} \/ a.tool \in OnWhole
      BY <1>3 DEF DocPlain, OnWhole
    <2> QED BY <2>1, <2>2, <2>3, <2>4, <2>5, <2>6, <2>7, <2>8, <2>9 DEF OnWhole
  <1> QED BY <1>1, <1>2, <1>3 DEF DocArgs

\* Whatever a call for a document asks for leaves the rest of it as it was.
LEMMA DocumentsKeepTheRest ==
    ASSUME NEW d, Docs!IsDocument(d), NEW a, DocArgs(a), NEW saw, IsSequence(saw), Docs!Handler(a, saw).op = "batch",
           NEW ref, NEW c, c = Docs!Batch(d, Docs!Handler(a, saw).requests), c # Refused
    PROVE  Docs!IsDocument(c) /\ Docs!Rest(a, ref, c) = Docs!Rest(a, ref, d)
  <1> DEFINE requests == Docs!Handler(a, saw).requests
  <1>1. AreWithin(a, requests) BY DocumentHandler DEF AsksWithin
  <1>2. Len(requests) \in Nat /\ \A i \in 1..Len(requests) : Within(a, requests[i])
    BY <1>1 DEF AreWithin, IsSequence
  <1>3. c = Docs!Batch(d, requests) OBVIOUS
  <1> HIDE DEF requests
  <1>4. SameRest(a, ref, d, c) BY <1>2, <1>3, DocumentBatch
  <1> QED BY <1>4 DEF SameRest

-----------------------------------------------------------------------------
(***************************************************************************)
(* Requests about a spreadsheet.                                           *)
(***************************************************************************)

SpreadsheetOf(sheets, names, next) == [sheets |-> sheets, names |-> names, next |-> next]

AreSheets(sheets) == IsSequence(sheets) /\ \A i \in DOMAIN sheets : Sheets!IsSheet(sheets[i])

LEMMA SpreadsheetParts ==
    /\ \A p : Sheets!IsSpreadsheet(p) => AreSheets(p.sheets)
    /\ \A s, n, x : AreSheets(s) => Sheets!IsSpreadsheet(SpreadsheetOf(s, n, x)) /\ SpreadsheetOf(s, n, x).sheets = s
  BY DEF Sheets!IsSpreadsheet, AreSheets, IsSequence, SpreadsheetOf

LEMMA SheetsReplaced ==
    ASSUME NEW p, Sheets!IsSpreadsheet(p), NEW v, NEW c, c = [p EXCEPT !.sheets = v]
    PROVE  c = SpreadsheetOf(v, p.names, p.next)
  <1>1. PICK a, b, d : p = [sheets |-> a, names |-> b, next |-> d] /\ p.sheets = a /\ p.names = b /\ p.next = d
    BY DEF Sheets!IsSpreadsheet
  <1> QED BY <1>1 DEF SpreadsheetOf

LEMMA SheetsWithNext ==
    ASSUME NEW p, Sheets!IsSpreadsheet(p), NEW v, NEW w, NEW c, c = [p EXCEPT !.next = w, !.sheets = v]
    PROVE  c = SpreadsheetOf(v, p.names, w)
  <1>1. PICK a, b, d : p = [sheets |-> a, names |-> b, next |-> d] /\ p.sheets = a /\ p.names = b /\ p.next = d
    BY DEF Sheets!IsSpreadsheet
  <1>2. [p EXCEPT !.next = w] = SpreadsheetOf(a, b, w) BY <1>1 DEF SpreadsheetOf
  <1>3. [SpreadsheetOf(a, b, w) EXCEPT !.sheets = v] = SpreadsheetOf(v, b, w) BY DEF SpreadsheetOf
  <1> QED BY <1>1, <1>2, <1>3

LEMMA OneReplaced ==
    ASSUME NEW p, Sheets!IsSpreadsheet(p), NEW i \in DOMAIN p.sheets, NEW v, NEW c, c = [p EXCEPT !.sheets[i] = v]
    PROVE  c = SpreadsheetOf([p.sheets EXCEPT ![i] = v], p.names, p.next)
  <1>1. PICK a, b, d : p = [sheets |-> a, names |-> b, next |-> d] /\ p.sheets = a /\ p.names = b /\ p.next = d
    BY DEF Sheets!IsSpreadsheet
  <1> QED BY <1>1 DEF SpreadsheetOf

LEMMA OneWithNames ==
    ASSUME NEW p, Sheets!IsSpreadsheet(p), NEW i \in DOMAIN p.sheets, NEW v, NEW w, NEW c,
           c = [p EXCEPT !.names = w, !.sheets[i].marks = v]
    PROVE  c = SpreadsheetOf([p.sheets EXCEPT ![i] = [p.sheets[i] EXCEPT !.marks = v]], w, p.next)
  <1>1. PICK a, b, d : p = [sheets |-> a, names |-> b, next |-> d] /\ p.sheets = a /\ p.names = b /\ p.next = d
    BY DEF Sheets!IsSpreadsheet
  <1>2. [p EXCEPT !.names = w] = SpreadsheetOf(a, w, d) BY <1>1 DEF SpreadsheetOf
  <1>3. [SpreadsheetOf(a, w, d) EXCEPT !.sheets[i].marks = v] = SpreadsheetOf([a EXCEPT ![i] = [a[i] EXCEPT !.marks = v]], w, d)
    BY DEF SpreadsheetOf
  <1> QED BY <1>1, <1>2, <1>3

\* A sheet with one of its fields changed.
SheetWith(id, title, rows, marks, dims) == [id |-> id, title |-> title, rows |-> rows, marks |-> marks, dims |-> dims]

LEMMA SheetUpdates ==
    ASSUME NEW s, Sheets!IsSheet(s), NEW v, NEW t
    PROVE  /\ t = [s EXCEPT !.marks = v] => t = SheetWith(s.id, s.title, s.rows, v, s.dims)
           /\ t = [s EXCEPT !.title = v] => t = SheetWith(s.id, v, s.rows, s.marks, s.dims)
           /\ t = [s EXCEPT !.dims = v] => t = SheetWith(s.id, s.title, s.rows, s.marks, v)
  <1>1. PICK a, b, c, d, e : /\ s = [id |-> a, title |-> b, rows |-> c, marks |-> d, dims |-> e]
                             /\ s.id = a /\ s.title = b /\ s.rows = c /\ s.marks = d /\ s.dims = e
    BY DEF Sheets!IsSheet
  <1> QED BY <1>1 DEF SheetWith

LEMMA SheetWithRow ==
    ASSUME NEW s, Sheets!IsSheet(s), NEW v, NEW w, NEW t, t = [s EXCEPT !.rows = w, !.marks = v]
    PROVE  t = SheetWith(s.id, s.title, w, v, s.dims)
  <1>1. PICK a, b, c, d, e : /\ s = [id |-> a, title |-> b, rows |-> c, marks |-> d, dims |-> e]
                             /\ s.id = a /\ s.title = b /\ s.rows = c /\ s.marks = d /\ s.dims = e
    BY DEF Sheets!IsSheet
  <1>2. [s EXCEPT !.rows = w] = SheetWith(a, b, w, d, e) BY <1>1 DEF SheetWith
  <1>3. [SheetWith(a, b, w, d, e) EXCEPT !.marks = v] = SheetWith(a, b, w, v, e) BY DEF SheetWith
  <1> QED BY <1>1, <1>2, <1>3

LEMMA SheetParts ==
    ASSUME NEW id, NEW title, NEW rows, NEW marks, NEW dims
    PROVE  LET s == SheetWith(id, title, rows, marks, dims) IN Sheets!IsSheet(s) /\ s.id = id /\ s.title = title
  BY DEF SheetWith, Sheets!IsSheet

\* What a request may do with one sheet.
SameSheet(s, t, q) == Sheets!IsSheet(t) /\ t.id = s.id /\ (q.op # "rename" => t.title = s.title)

LEMMA OneAltered ==
    ASSUME NEW s, Sheets!IsSheet(s), NEW q, NEW t, t = Sheets!Altered(s, q), t # Refused,
           q.op \in {"mark", "values", "append", "rename", "dimension"}
    PROVE  SameSheet(s, t, q)
  <1>1. CASE q.op \in {"mark", "values"}
    <2>1. \E v : t = [s EXCEPT !.marks = v] BY <1>1 DEF Sheets!Altered
    <2>2. PICK v : t = [s EXCEPT !.marks = v] BY <2>1
    <2>3. t = SheetWith(s.id, s.title, s.rows, v, s.dims) BY <2>2, SheetUpdates
    <2> QED BY <2>3, SheetParts DEF SameSheet
  <1>2. CASE q.op = "append"
    <2>1. t = Sheets!AppendRow(s) BY <1>2 DEF Sheets!Altered
    <2>2. \E v, w : t = [s EXCEPT !.rows = w, !.marks = v]
      <3> DEFINE used == {m[2][1] : m \in {x \in s.marks : x[1] = "value"}}
                 row == IF used = {} THEN 0 ELSE 1 + Sheets!MaxOf(used)
                 moved == {<<m[1], <<IF m[2][1] < row THEN m[2][1] ELSE m[2][1] + 1, m[2][2]>>>> : m \in s.marks}
                                  \cup {<<"value", <<row, 0>>>>}
      <3>1. t = [s EXCEPT !.rows = s.rows + 1, !.marks = moved] BY <2>1 DEF Sheets!AppendRow
      <3> HIDE DEF moved
      <3> QED BY Zenon, <3>1
    <2>3. PICK v, w : t = [s EXCEPT !.rows = w, !.marks = v] BY Zenon, <2>2
    <2>4. t = SheetWith(s.id, s.title, w, v, s.dims) BY Zenon, <2>3, SheetWithRow
    <2> QED BY <2>4, SheetParts DEF SameSheet
  <1>3. CASE q.op = "rename"
    <2>1. \E v : t = [s EXCEPT !.title = v] BY <1>3 DEF Sheets!Altered
    <2>2. PICK v : t = [s EXCEPT !.title = v] BY <2>1
    <2>3. t = SheetWith(s.id, v, s.rows, s.marks, s.dims) BY <2>2, SheetUpdates
    <2> QED BY <1>3, <2>3, SheetParts DEF SameSheet
  <1>4. CASE q.op = "dimension"
    <2>1. \E v : t = [s EXCEPT !.dims = v] BY <1>4 DEF Sheets!Altered
    <2>2. PICK v : t = [s EXCEPT !.dims = v] BY <2>1
    <2>3. t = SheetWith(s.id, s.title, s.rows, s.marks, v) BY <2>2, SheetUpdates
    <2> QED BY <2>3, SheetParts DEF SameSheet
  <1> QED BY <1>1, <1>2, <1>3, <1>4

LEMMA LeastIsMember ==
    ASSUME NEW S \in SUBSET Nat, S # {}
    PROVE  Sheets!MinOf(S) \in S
  BY LeastNumber DEF Sheets!MinOf

\* The sheets with a row or a mark more, one less, one more.
LEMMA SheetChanged ==
    ASSUME NEW sheets, AreSheets(sheets), NEW i \in DOMAIN sheets, NEW t, Sheets!IsSheet(t)
    PROVE  LET s == [sheets EXCEPT ![i] = t] IN
             AreSheets(s) /\ DOMAIN s = DOMAIN sheets /\ s[i] = t /\ \A j \in DOMAIN sheets : j # i => s[j] = sheets[j]
  <1> DEFINE s == [sheets EXCEPT ![i] = t]
             T == {sheets[j] : j \in DOMAIN sheets} \cup {t}
  <1>0. sheets \in Seq({sheets[j] : j \in DOMAIN sheets}) BY DEF AreSheets, IsSequence
  <1>1. sheets \in Seq(T)
    <2>1. {sheets[j] : j \in DOMAIN sheets} \subseteq T OBVIOUS
    <2>2. \A j \in 1..Len(sheets) : sheets[j] \in T BY <1>0, <2>1
    <2> HIDE DEF T
    <2> QED BY <1>0, <2>2, SeqDef
  <1>2. t \in T OBVIOUS
  <1> HIDE DEF T
  <1>3. s \in Seq(T) /\ DOMAIN s = DOMAIN sheets /\ s[i] = t /\ \A j \in DOMAIN sheets : j # i => s[j] = sheets[j]
    BY <1>1, <1>2
  <1> HIDE DEF s
  <1>4. IsSequence(s) BY <1>3, SequenceOf
  <1>5. \A j \in DOMAIN s : Sheets!IsSheet(s[j]) BY <1>3 DEF AreSheets
  <1> QED BY <1>3, <1>4, <1>5 DEF AreSheets, s

LEMMA SheetAdded ==
    ASSUME NEW sheets, AreSheets(sheets), NEW t, Sheets!IsSheet(t)
    PROVE  LET s == Append(sheets, t) IN
             /\ AreSheets(s) /\ DOMAIN s = DOMAIN sheets \cup {Len(sheets) + 1} /\ s[Len(sheets) + 1] = t
             /\ \A j \in DOMAIN sheets : s[j] = sheets[j]
  <1> DEFINE s == Append(sheets, t)
  <1>1. IsSequence(s) /\ Len(s) = Len(sheets) + 1 /\ Len(sheets) \in Nat /\ s[Len(s)] = t /\ \A j \in 1..Len(sheets) : s[j] = sheets[j]
    BY OneMore DEF AreSheets
  <1>2. DOMAIN s = 1..Len(s) /\ DOMAIN sheets = 1..Len(sheets) BY <1>1 DEF AreSheets, IsSequence
  <1>3. DOMAIN s = DOMAIN sheets \cup {Len(sheets) + 1} BY <1>1, <1>2
  <1> HIDE DEF s
  <1>4. \A j \in DOMAIN s : Sheets!IsSheet(s[j]) BY <1>1, <1>2, <1>3 DEF AreSheets
  <1> QED BY <1>1, <1>2, <1>3, <1>4 DEF AreSheets, s

LEMMA SheetRemoved ==
    ASSUME NEW sheets, AreSheets(sheets), NEW i \in DOMAIN sheets
    PROVE  LET s == SubSeq(sheets, 1, i - 1) \o SubSeq(sheets, i + 1, Len(sheets)) IN
             /\ AreSheets(s) /\ DOMAIN s = 1..(Len(sheets) - 1)
             /\ \A j \in DOMAIN s : s[j] = sheets[IF j < i THEN j ELSE j + 1]
  <1> DEFINE s == SubSeq(sheets, 1, i - 1) \o SubSeq(sheets, i + 1, Len(sheets))
             T == {sheets[j] : j \in DOMAIN sheets}
  <1>0. sheets \in Seq(T) /\ Len(sheets) \in Nat /\ DOMAIN sheets = 1..Len(sheets) /\ i \in 1..Len(sheets)
    BY DEF AreSheets, IsSequence
  <1> HIDE DEF T
  <1>1. SubSeq(sheets, 1, i - 1) \in Seq(T) /\ Len(SubSeq(sheets, 1, i - 1)) = i - 1
        /\ \A j \in 1..(i - 1) : SubSeq(sheets, 1, i - 1)[j] = sheets[j]
    BY <1>0
  <1>2. SubSeq(sheets, i + 1, Len(sheets)) \in Seq(T) /\ Len(SubSeq(sheets, i + 1, Len(sheets))) = Len(sheets) - i
        /\ \A j \in 1..(Len(sheets) - i) : SubSeq(sheets, i + 1, Len(sheets))[j] = sheets[i + j]
    BY <1>0
  <1> DEFINE l == SubSeq(sheets, 1, i - 1)
             r == SubSeq(sheets, i + 1, Len(sheets))
  <1> HIDE DEF l, r
  <1>3. s = l \o r BY DEF l, r
  <1> HIDE DEF s
  <1>9. l \in Seq(T) /\ r \in Seq(T) /\ Len(l) = i - 1 /\ Len(r) = Len(sheets) - i
        /\ (\A j \in 1..(i - 1) : l[j] = sheets[j]) /\ \A j \in 1..(Len(sheets) - i) : r[j] = sheets[i + j]
    BY Zenon, <1>1, <1>2 DEF l, r
  <1>10. s \in Seq(T) /\ Len(s) = Len(sheets) - 1
    <2>0. l \in Seq(T) /\ r \in Seq(T) BY <1>9
    <2>1. s \in Seq(T) /\ Len(s) = Len(l) + Len(r) BY <1>3, <2>0
    <2>2. \A n, k \in Int : (k - 1) + (n - k) = n - 1 OBVIOUS
    <2>3. Len(l) + Len(r) = Len(sheets) - 1 BY <1>0, <1>9, <2>2
    <2> QED BY <2>1, <2>3
  <1>11. /\ \A j \in 1..Len(l) : s[j] = l[j]
         /\ \A j \in 1..(Len(l) + Len(r)) : j > Len(l) => s[j] = r[j - Len(l)]
    <2>1. l \in Seq(T) /\ r \in Seq(T) BY <1>9
    <2> QED BY <1>3, <2>1
  <1>4. \A j \in 1..(Len(sheets) - 1) : s[j] = sheets[IF j < i THEN j ELSE j + 1]
    <2> SUFFICES ASSUME NEW j \in 1..(Len(sheets) - 1) PROVE s[j] = sheets[IF j < i THEN j ELSE j + 1]
      OBVIOUS
    <2>1. CASE j < i BY <1>0, <1>3, <1>9, <2>1
    <2>2. CASE ~(j < i)
      <3>1. j - (i - 1) \in 1..(Len(sheets) - i) /\ i + (j - (i - 1)) = j + 1 /\ j \in 1..(Len(l) + Len(r)) /\ j > Len(l)
        <4>1. \A n, k, m \in Int : m \in 1..(n - 1) /\ ~(m < k) => m - (k - 1) \in 1..(n - k) /\ k + (m - (k - 1)) = m + 1 /\ m \in 1..((k - 1) + (n - k)) /\ m > k - 1
          OBVIOUS
        <4>2. i \in Int /\ Len(sheets) \in Int /\ j \in Int BY <1>0
        <4> QED BY SMTT(30), <1>9, <2>2, <4>1, <4>2
      <3>2. s[j] = r[j - (i - 1)] BY <1>9, <1>11, <3>1
      <3>3. r[j - (i - 1)] = sheets[i + (j - (i - 1))] BY <1>9, <3>1
      <3> QED BY <2>2, <3>1, <3>2, <3>3
    <2> QED BY <2>1, <2>2
  <1>5. IsSequence(s) /\ DOMAIN s = 1..(Len(sheets) - 1) BY <1>10, SequenceOf
  <1>6. \A j \in 1..(Len(sheets) - 1) : (IF j < i THEN j ELSE j + 1) \in 1..Len(sheets) BY <1>0
  <1>7. \A j \in DOMAIN s : Sheets!IsSheet(s[j]) BY <1>0, <1>4, <1>5, <1>6 DEF AreSheets
  <1> QED BY <1>4, <1>5, <1>7 DEF AreSheets, s

SheetOps == {"mark", "values", "append", "rename", "dimension", "addSheet", "deleteSheet", "addNamedRange"}

\* What a request leaves of a spreadsheet p.
CameSheet(p, c, q) ==
    q.op = "addSheet" /\ \E t : Sheets!IsSheet(t) /\ t.title = q.title /\ c.sheets = Append(p.sheets, t)

WentSheet(p, c, q) ==
    q.op = "deleteSheet" /\ \E i \in Sheets!WithId(p, q.id) :
        c.sheets = SubSeq(p.sheets, 1, i - 1) \o SubSeq(p.sheets, i + 1, Len(p.sheets))

OneSheet(p, c, q) ==
    q.op \notin {"addSheet", "deleteSheet"} /\ \E i \in Sheets!Target(p, q) : \E t :
        SameSheet(p.sheets[i], t, q) /\ c.sheets = [p.sheets EXCEPT ![i] = t]

LEMMA SheetsCarry ==
    ASSUME NEW p, Sheets!IsSpreadsheet(p), NEW q, q.op \in SheetOps, NEW c, c = Sheets!Carry(p, q), c # Refused
    PROVE  Sheets!IsSpreadsheet(c) /\ (CameSheet(p, c, q) \/ WentSheet(p, c, q) \/ OneSheet(p, c, q))
  <1> DEFINE there == Sheets!Target(p, q)
             i == Sheets!MinOf(there)
  <1>0. AreSheets(p.sheets) /\ DOMAIN p.sheets \in SUBSET Nat
    <2>1. AreSheets(p.sheets) BY SpreadsheetParts
    <2> QED BY <2>1 DEF AreSheets, IsSequence
  <1>1. ~Sheets!IsRefused(p, q) BY DEF Sheets!Carry
  <1>2. q.op # "addSheet" => i \in there
    <2>1. there \subseteq DOMAIN p.sheets
      BY DEF Sheets!Target, Sheets!SheetOf, Sheets!WithId, Sheets!Titled
    <2>2. q.op # "addSheet" => there # {} BY <1>1 DEF Sheets!IsRefused
    <2> HIDE DEF there
    <2>3. there \in SUBSET Nat BY <1>0, <2>1
    <2> QED BY <2>2, <2>3, LeastIsMember
  <1>3. i \in there => i \in DOMAIN p.sheets
    BY DEF Sheets!Target, Sheets!SheetOf, Sheets!WithId, Sheets!Titled
  <1>4. CASE q.op = "addSheet"
    <2> DEFINE t == Sheets!Sheet(p.next, q.title)
    <2>1. c = [p EXCEPT !.next = p.next + 1, !.sheets = Append(p.sheets, t)]
      BY <1>1, <1>4 DEF Sheets!Carry
    <2>2. Sheets!IsSheet(t) /\ t.title = q.title BY DEF Sheets!Sheet, Sheets!IsSheet
    <2> HIDE DEF t
    <2>3. AreSheets(Append(p.sheets, t)) BY <1>0, <2>2, SheetAdded
    <2>4. c = SpreadsheetOf(Append(p.sheets, t), p.names, p.next + 1) BY Zenon, <2>1, SheetsWithNext
    <2>5. Sheets!IsSpreadsheet(c) /\ c.sheets = Append(p.sheets, t)
      BY Zenon, <2>3, <2>4, SpreadsheetParts
    <2> QED BY Zenon, <1>4, <2>2, <2>5 DEF CameSheet
  <1>5. CASE q.op = "deleteSheet"
    <2> DEFINE s == SubSeq(p.sheets, 1, i - 1) \o SubSeq(p.sheets, i + 1, Len(p.sheets))
    <2>1. c = [p EXCEPT !.sheets = s] BY <1>1, <1>5 DEF Sheets!Carry
    <2>2. there = Sheets!WithId(p, q.id) /\ i \in there BY <1>2, <1>5 DEF Sheets!Target
    <2>3. AreSheets(s) BY <1>0, <1>3, <2>2, SheetRemoved
    <2>4. \E k \in Sheets!WithId(p, q.id) : s = SubSeq(p.sheets, 1, k - 1) \o SubSeq(p.sheets, k + 1, Len(p.sheets))
      BY Zenon, <2>2
    <2> HIDE DEF s, i, there
    <2>5. c = SpreadsheetOf(s, p.names, p.next) BY <2>1, SheetsReplaced
    <2>6. Sheets!IsSpreadsheet(c) /\ c.sheets = s BY <2>3, <2>5, SpreadsheetParts
    <2> QED BY Zenon, <1>5, <2>4, <2>6 DEF WentSheet
  <1>6. CASE q.op = "addNamedRange"
    <2> DEFINE marks == p.sheets[i].marks \cup Sheets!Marks(Sheets!GridCells(p.sheets[i], q.grid), q.marks)
               t == [p.sheets[i] EXCEPT !.marks = marks]
               s == [p.sheets EXCEPT ![i] = t]
    <2>0. i \in there /\ i \in DOMAIN p.sheets BY <1>2, <1>3, <1>6
    <2>1. c = [p EXCEPT !.names = p.names \cup {q.title}, !.sheets[i].marks = marks]
      BY <1>1, <1>6 DEF Sheets!Carry
    <2> HIDE DEF marks, i, there
    <2>2. Sheets!IsSheet(p.sheets[i]) BY <1>0, <2>0 DEF AreSheets
    <2>3. t = SheetWith(p.sheets[i].id, p.sheets[i].title, p.sheets[i].rows, marks, p.sheets[i].dims)
      BY <2>2, SheetUpdates
    <2>4. c = SpreadsheetOf(s, p.names \cup {q.title}, p.next) BY Zenon, <2>0, <2>1, OneWithNames
    <2> HIDE DEF t
    <2>5. SameSheet(p.sheets[i], t, q) BY <2>3, SheetParts DEF SameSheet
    <2>6. AreSheets(s) BY <1>0, <2>0, <2>5, SheetChanged DEF SameSheet
    <2>7. \E k \in Sheets!Target(p, q) : \E v : SameSheet(p.sheets[k], v, q) /\ s = [p.sheets EXCEPT ![k] = v]
      BY Zenon, <2>0, <2>5 DEF there
    <2> HIDE DEF s
    <2> QED BY <1>6, <2>4, <2>6, <2>7, SpreadsheetParts DEF OneSheet
  <1>7. CASE q.op \in {"mark", "values", "append", "rename", "dimension"}
    <2> DEFINE t == Sheets!Altered(p.sheets[i], q)
               s == [p.sheets EXCEPT ![i] = t]
    <2>0. i \in there /\ i \in DOMAIN p.sheets BY <1>2, <1>3, <1>7
    <2>1. c = IF t = Refused THEN Refused ELSE [p EXCEPT !.sheets[i] = t]
      BY <1>1, <1>7 DEF Sheets!Carry
    <2> HIDE DEF i, there
    <2>2. Sheets!IsSheet(p.sheets[i]) BY <1>0, <2>0 DEF AreSheets
    <2> HIDE DEF t
    <2>3. t # Refused /\ c = [p EXCEPT !.sheets[i] = t] BY <2>1
    <2>4. c = SpreadsheetOf(s, p.names, p.next) BY <2>0, <2>3, OneReplaced
    <2>5. SameSheet(p.sheets[i], t, q) BY <1>7, <2>2, <2>3, OneAltered DEF t
    <2>6. AreSheets(s) BY <1>0, <2>0, <2>5, SheetChanged DEF SameSheet
    <2>7. \E k \in Sheets!Target(p, q) : \E v : SameSheet(p.sheets[k], v, q) /\ s = [p.sheets EXCEPT ![k] = v]
      BY Zenon, <2>0, <2>5 DEF there
    <2> HIDE DEF s
    <2> QED BY <1>7, <2>4, <2>6, <2>7, SpreadsheetParts DEF OneSheet
  <1> QED BY <1>4, <1>5, <1>6, <1>7 DEF SheetOps

-----------------------------------------------------------------------------
(***************************************************************************)
(* What they leave alone.                                                  *)
(***************************************************************************)

\* The sheets that are not among some.
SheetsBut(p, own) == {p.sheets[i] : i \in DOMAIN p.sheets \ own}

LEMMA OthersUntouched ==
    ASSUME NEW p, NEW c, NEW own, NEW i \in DOMAIN p.sheets \cap own, NEW t, AreSheets(p.sheets), Sheets!IsSheet(t),
           c.sheets = [p.sheets EXCEPT ![i] = t]
    PROVE  SheetsBut(c, own) = SheetsBut(p, own)
  <1>1. DOMAIN c.sheets = DOMAIN p.sheets /\ \A j \in DOMAIN p.sheets : j # i => c.sheets[j] = p.sheets[j]
    BY SheetChanged
  <1> QED BY <1>1 DEF SheetsBut

\* One sheet altered: it keeps its id, and its title unless that is what changes.
LEMMA SameOwners ==
    ASSUME NEW p, NEW c, NEW q, Sheets!IsSpreadsheet(p), OneSheet(p, c, q)
    PROVE  /\ DOMAIN c.sheets = DOMAIN p.sheets
           /\ \A id : Sheets!WithId(c, id) = Sheets!WithId(p, id)
           /\ q.op # "rename" => \A range : Sheets!SheetOf(c, range) = Sheets!SheetOf(p, range)
           /\ \A own : Sheets!Target(p, q) \subseteq own => SheetsBut(c, own) = SheetsBut(p, own)
  <1>0. AreSheets(p.sheets) BY SpreadsheetParts
  <1>t. PICK i \in Sheets!Target(p, q) : \E t : SameSheet(p.sheets[i], t, q) /\ c.sheets = [p.sheets EXCEPT ![i] = t]
    BY DEF OneSheet
  <1>1. PICK t : SameSheet(p.sheets[i], t, q) /\ c.sheets = [p.sheets EXCEPT ![i] = t]
    BY <1>t
  <1>2. i \in DOMAIN p.sheets BY DEF Sheets!Target, Sheets!SheetOf, Sheets!WithId, Sheets!Titled
  <1>3. DOMAIN c.sheets = DOMAIN p.sheets /\ c.sheets[i] = t /\ \A j \in DOMAIN p.sheets : j # i => c.sheets[j] = p.sheets[j]
    BY <1>0, <1>1, <1>2, SheetChanged DEF SameSheet
  <1>4. \A j \in DOMAIN p.sheets : c.sheets[j].id = p.sheets[j].id /\ (q.op # "rename" => c.sheets[j].title = p.sheets[j].title)
    BY <1>1, <1>3 DEF SameSheet
  <1>5. \A id : Sheets!WithId(c, id) = Sheets!WithId(p, id) BY <1>3, <1>4 DEF Sheets!WithId
  <1>6. q.op # "rename" => \A title : Sheets!Titled(c, title) = Sheets!Titled(p, title)
    BY <1>3, <1>4 DEF Sheets!Titled
  <1>7. q.op # "rename" => \A range : Sheets!SheetOf(c, range) = Sheets!SheetOf(p, range)
    BY <1>3, <1>6 DEF Sheets!SheetOf
  <1>8. ASSUME NEW own, Sheets!Target(p, q) \subseteq own PROVE SheetsBut(c, own) = SheetsBut(p, own)
    BY <1>0, <1>1, <1>2, <1>8, OthersUntouched DEF SameSheet
  <1> QED BY <1>3, <1>5, <1>7, <1>8

\* What a request of each tool may be, as the tool's part has it.
OfSheets(a, ref, q) ==
    /\ a.tool = "addSheet" => q.op = "addSheet" /\ q.title = a.title
    /\ a.tool \in Sheets!OnMarks \cup Sheets!OnGrid =>
          q.op \in {"mark", "addNamedRange"} /\ q.id = Sheets!MinOf(Sheets!resolveGridRange(ref, a.range))
    /\ a.tool \in {"updateGoogleSheet", "appendSpreadsheetRows"} => q.op \in {"values", "append"} /\ q.range = a.range
    /\ a.tool \in {"renameSheet", "deleteSheet"} \cup Sheets!OnSize \cup Sheets!OnDimension =>
          q.op \in {"rename", "deleteSheet", "dimension"} /\ q.id = a.id
    /\ q.op \in SheetOps

SheetsOwn(a, ref, p) ==
    IF a.tool = "batch_update_spreadsheet" THEN DOMAIN p.sheets
    ELSE IF a.tool = "addSheet" THEN Sheets!Titled(p, a.title)
    ELSE IF a.tool \in Sheets!OnMarks \cup Sheets!OnGrid THEN Sheets!WithId(p, Sheets!MinOf(Sheets!resolveGridRange(ref, a.range)))
    ELSE IF a.tool \in {"updateGoogleSheet", "appendSpreadsheetRows"} THEN Sheets!SheetOf(p, a.range)
    ELSE Sheets!WithId(p, a.id)

LEMMA RestOfSheets ==
    \A a, ref, p : Sheets!Rest(a, ref, p) = SheetsBut(p, SheetsOwn(a, ref, p))
  BY DEF Sheets!Rest, SheetsBut, SheetsOwn

LEMMA CameOutside ==
    ASSUME NEW p, NEW c, NEW q, Sheets!IsSpreadsheet(p), CameSheet(p, c, q)
    PROVE  SheetsBut(c, Sheets!Titled(c, q.title)) = SheetsBut(p, Sheets!Titled(p, q.title))
  <1>0. AreSheets(p.sheets) BY SpreadsheetParts
  <1>1. PICK t : Sheets!IsSheet(t) /\ t.title = q.title /\ c.sheets = Append(p.sheets, t)
    BY DEF CameSheet
  <1> DEFINE n == Len(p.sheets) + 1
  <1>2. DOMAIN c.sheets = DOMAIN p.sheets \cup {n} /\ c.sheets[n] = t /\ \A j \in DOMAIN p.sheets : c.sheets[j] = p.sheets[j]
    BY <1>0, <1>1, SheetAdded
  <1>3. n \notin DOMAIN p.sheets BY <1>0 DEF AreSheets, IsSequence
  <1> HIDE DEF n
  <1>4. DOMAIN c.sheets \ Sheets!Titled(c, q.title) = DOMAIN p.sheets \ Sheets!Titled(p, q.title)
    BY <1>1, <1>2, <1>3 DEF Sheets!Titled
  <1>5. \A j \in DOMAIN p.sheets \ Sheets!Titled(p, q.title) : c.sheets[j] = p.sheets[j] BY <1>2
  <1> QED BY <1>4, <1>5 DEF SheetsBut

LEMMA WentInside ==
    ASSUME NEW p, NEW c, NEW q, Sheets!IsSpreadsheet(p), WentSheet(p, c, q)
    PROVE  SheetsBut(c, Sheets!WithId(c, q.id)) = SheetsBut(p, Sheets!WithId(p, q.id))
  <1>0. AreSheets(p.sheets) BY SpreadsheetParts
  <1>1. PICK i \in Sheets!WithId(p, q.id) : c.sheets = SubSeq(p.sheets, 1, i - 1) \o SubSeq(p.sheets, i + 1, Len(p.sheets))
    BY DEF WentSheet
  <1>2. i \in DOMAIN p.sheets /\ p.sheets[i].id = q.id BY DEF Sheets!WithId
  <1>3. DOMAIN c.sheets = 1..(Len(p.sheets) - 1) /\ \A j \in DOMAIN c.sheets : c.sheets[j] = p.sheets[IF j < i THEN j ELSE j + 1]
    BY ZenonT(30), <1>0, <1>1, <1>2, SheetRemoved
  <1>4. DOMAIN p.sheets = 1..Len(p.sheets) /\ Len(p.sheets) \in Nat
    BY <1>0 DEF AreSheets, IsSequence
  <1>5. \A x : SheetsBut(x, Sheets!WithId(x, q.id)) = {s \in {x.sheets[j] : j \in DOMAIN x.sheets} : s.id # q.id}
    BY DEF SheetsBut, Sheets!WithId
  <1>6. ASSUME NEW j \in DOMAIN c.sheets PROVE \E k \in DOMAIN p.sheets : c.sheets[j] = p.sheets[k]
    <2> DEFINE k == IF j < i THEN j ELSE j + 1
    <2>1. k \in 1..Len(p.sheets) BY <1>3, <1>4
    <2> QED BY <1>3, <1>4, <2>1
  <1>7. ASSUME NEW k \in DOMAIN p.sheets, k # i PROVE \E j \in DOMAIN c.sheets : c.sheets[j] = p.sheets[k]
    <2> DEFINE j == IF k < i THEN k ELSE k - 1
    <2>1. j \in 1..(Len(p.sheets) - 1) /\ (IF j < i THEN j ELSE j + 1) = k BY <1>2, <1>4, <1>7
    <2> HIDE DEF j
    <2>2. c.sheets[j] = p.sheets[k] BY <1>3, <2>1
    <2> QED BY <1>3, <2>1, <2>2
  <1>8. {s \in {c.sheets[j] : j \in DOMAIN c.sheets} : s.id # q.id} = {s \in {p.sheets[j] : j \in DOMAIN p.sheets} : s.id # q.id}
    BY <1>2, <1>6, <1>7
  <1> QED BY <1>5, <1>8

LEMMA SpreadsheetsKeepTheRest ==
    ASSUME NEW p, Sheets!IsSpreadsheet(p), NEW a, a.tool \in SheetTools \cup {"batch_update_spreadsheet"}, NEW ref, NEW q, OfSheets(a, ref, q),
           NEW c, c = Sheets!Carry(p, q), c # Refused
    PROVE  Sheets!IsSpreadsheet(c) /\ Sheets!Rest(a, ref, c) = Sheets!Rest(a, ref, p)
  <1>1. Sheets!IsSpreadsheet(c) /\ (CameSheet(p, c, q) \/ WentSheet(p, c, q) \/ OneSheet(p, c, q))
    BY SheetsCarry DEF OfSheets
  <1> SUFFICES SheetsBut(c, SheetsOwn(a, ref, c)) = SheetsBut(p, SheetsOwn(a, ref, p))
    BY <1>1, RestOfSheets
  <1>2. CASE a.tool = "batch_update_spreadsheet"
    <2>1. \A x : SheetsOwn(a, ref, x) = DOMAIN x.sheets BY <1>2 DEF SheetsOwn
    <2> QED BY <2>1 DEF SheetsBut
  <1>3. CASE a.tool = "addSheet"
    <2>1. \A x : SheetsOwn(a, ref, x) = Sheets!Titled(x, q.title) BY <1>3 DEF SheetsOwn, OfSheets
    <2>2. CameSheet(p, c, q) BY <1>1, <1>3 DEF OfSheets, WentSheet, OneSheet
    <2> QED BY <2>1, <2>2, CameOutside
  <1>4. CASE a.tool \in Sheets!OnMarks \cup Sheets!OnGrid
    <2>1. \A x : SheetsOwn(a, ref, x) = Sheets!WithId(x, q.id)
      BY <1>4 DEF SheetsOwn, OfSheets, Sheets!OnMarks, Sheets!OnGrid
    <2>2. OneSheet(p, c, q) /\ Sheets!Target(p, q) = Sheets!WithId(p, q.id)
      BY <1>1, <1>4 DEF OfSheets, WentSheet, CameSheet, Sheets!Target
    <2> QED BY <2>1, <2>2, SameOwners
  <1>5. CASE a.tool \in {"updateGoogleSheet", "appendSpreadsheetRows"}
    <2>1. \A x : SheetsOwn(a, ref, x) = Sheets!SheetOf(x, q.range)
      BY <1>5 DEF SheetsOwn, OfSheets, Sheets!OnMarks, Sheets!OnGrid
    <2>2. OneSheet(p, c, q) /\ Sheets!Target(p, q) = Sheets!SheetOf(p, q.range) /\ q.op # "rename"
      BY <1>1, <1>5 DEF OfSheets, WentSheet, CameSheet, Sheets!Target
    <2> QED BY <2>1, <2>2, SameOwners
  <1>6. CASE a.tool \in {"renameSheet", "deleteSheet"} \cup Sheets!OnSize \cup Sheets!OnDimension
    <2>1. \A x : SheetsOwn(a, ref, x) = Sheets!WithId(x, q.id)
      BY <1>6 DEF SheetsOwn, OfSheets, Sheets!OnMarks, Sheets!OnGrid, Sheets!OnSize, Sheets!OnDimension
    <2>2. Sheets!Target(p, q) = Sheets!WithId(p, q.id) /\ ~CameSheet(p, c, q)
      BY <1>6 DEF OfSheets, CameSheet, Sheets!Target
    <2>3. CASE WentSheet(p, c, q) BY <2>1, <2>3, WentInside
    <2>4. CASE OneSheet(p, c, q) BY <2>1, <2>2, <2>4, SameOwners
    <2> QED BY <1>1, <2>2, <2>3, <2>4
  <1> QED BY <1>2, <1>3, <1>4, <1>5, <1>6 DEF SheetTools, Sheets!OnMarks, Sheets!OnGrid, Sheets!OnSize, Sheets!OnDimension

\* What a handler asks, if it is a request, is one about its part.
AsksOf(a, saw, r) == r.op = "batch" => \E q : r.requests = <<q>> /\ OfSheets(a, saw[1], q)

LEMMA SheetsAskLittle ==
    ASSUME NEW a, NEW saw
    PROVE  /\ AsksOf(a, saw, Sheets!Read) /\ AsksOf(a, saw, Sheets!Decline) /\ AsksOf(a, saw, Sheets!Finish)
           /\ \A op \in {"create", "share", "link", "drop"} : AsksOf(a, saw, Sheets!Ask(op))
           /\ \A q, n : OfSheets(a, saw[1], q) => AsksOf(a, saw, Sheets!Last(saw, n, <<q>>)) /\ AsksOf(a, saw, Sheets!Send(<<q>>))
  <1>1. /\ Sheets!Read.op # "batch" /\ Sheets!Decline.op # "batch" /\ Sheets!Finish.op # "batch"
        /\ \A op : Sheets!Ask(op).op = op
    BY DEF Sheets!Read, Sheets!Decline, Sheets!Finish, Sheets!Ask
  <1>2. \A requests : Sheets!Send(requests).requests = requests BY DEF Sheets!Send
  <1>3. \A requests, n : Sheets!Last(saw, n, requests) \in {Sheets!Send(requests), Sheets!Finish}
    BY DEF Sheets!Last
  <1>4. AsksOf(a, saw, Sheets!Read) /\ AsksOf(a, saw, Sheets!Decline) /\ AsksOf(a, saw, Sheets!Finish)
    BY <1>1 DEF AsksOf
  <1>5. \A op \in {"create", "share", "link", "drop"} : AsksOf(a, saw, Sheets!Ask(op))
    BY <1>1 DEF AsksOf
  <1>6. ASSUME NEW q, OfSheets(a, saw[1], q) PROVE AsksOf(a, saw, Sheets!Send(<<q>>))
    BY <1>2, <1>6 DEF AsksOf
  <1> QED BY <1>3, <1>4, <1>5, <1>6

\* The fields that a part depends on.
SheetFields(q, op, id) == q.op = op /\ q.id = id /\ {"op", "id"} \subseteq DOMAIN q

LEMMA SheetFieldUpdates ==
    ASSUME NEW q, NEW op, NEW id, SheetFields(q, op, id), NEW v
    PROVE  /\ SheetFields([q EXCEPT !.grid = v], op, id) /\ SheetFields([q EXCEPT !.marks = v], op, id)
           /\ SheetFields([q EXCEPT !.title = v], op, id) /\ SheetFields([q EXCEPT !.dimension = v], op, id)
           /\ SheetFields([q EXCEPT !.from = v], op, id) /\ SheetFields([q EXCEPT !.to = v], op, id)
           /\ SheetFields([q EXCEPT !.mark = v], op, id) /\ SheetFields([q EXCEPT !.on = v], op, id)
  BY DEF SheetFields

LEMMA AskOverRange ==
    ASSUME NEW a, a.tool \in Sheets!OnMarks \cup Sheets!OnGrid, NEW saw, NEW op \in {"mark", "addNamedRange"}, NEW marks
    PROVE  AsksOf(a, saw, Sheets!OverRange(a, saw, op, marks))
  <1> DEFINE id == Sheets!MinOf(Sheets!resolveGridRange(saw[1], a.range))
             grid == Sheets!convertA1ToGridRange(a.range)
             q == Sheets!Request(op, id)
             q1 == [q EXCEPT !.grid = grid]
             q2 == [q1 EXCEPT !.marks = marks]
             q3 == [q2 EXCEPT !.title = a.title]
  <1>1. Sheets!OverRange(a, saw, op, marks) \in {Sheets!Read, Sheets!Decline, Sheets!Last(saw, 1, <<q3>>)}
    BY DEF Sheets!OverRange
  <1> HIDE DEF id, grid
  <1>2. SheetFields(q, op, id) BY DEF Sheets!Request, SheetFields
  <1> HIDE DEF q
  <1>3. SheetFields(q1, op, id) BY <1>2, SheetFieldUpdates
  <1> HIDE DEF q1
  <1>4. SheetFields(q2, op, id) BY <1>3, SheetFieldUpdates
  <1> HIDE DEF q2
  <1>5. SheetFields(q3, op, id) BY <1>4, SheetFieldUpdates
  <1> HIDE DEF q3
  <1>6. OfSheets(a, saw[1], q3)
    BY <1>5 DEF OfSheets, SheetFields, SheetOps, id, Sheets!OnMarks, Sheets!OnGrid, Sheets!OnSize, Sheets!OnDimension
  <1> QED BY <1>1, <1>6, SheetsAskLittle

LEMMA AskDimension ==
    ASSUME NEW a, a.tool \in Sheets!OnSize \cup Sheets!OnDimension, NEW saw, NEW dimension, NEW mark, NEW on
    PROVE  AsksOf(a, saw, Sheets!batchUpdateOne(a, saw, dimension, mark, on))
  <1> DEFINE q == Sheets!Request("dimension", a.id)
             q1 == [q EXCEPT !.dimension = dimension]
             q2 == [q1 EXCEPT !.from = a.from]
             q3 == [q2 EXCEPT !.to = a.to]
             q4 == [q3 EXCEPT !.mark = mark]
             q5 == [q4 EXCEPT !.on = on]
  <1>1. Sheets!batchUpdateOne(a, saw, dimension, mark, on) \in {Sheets!Decline, Sheets!Last(saw, 0, <<q5>>)}
    BY DEF Sheets!batchUpdateOne
  <1>2. SheetFields(q, "dimension", a.id) BY DEF Sheets!Request, SheetFields
  <1> HIDE DEF q
  <1>3. SheetFields(q1, "dimension", a.id) BY <1>2, SheetFieldUpdates
  <1> HIDE DEF q1
  <1>4. SheetFields(q2, "dimension", a.id) BY <1>3, SheetFieldUpdates
  <1> HIDE DEF q2
  <1>5. SheetFields(q3, "dimension", a.id) BY <1>4, SheetFieldUpdates
  <1> HIDE DEF q3
  <1>6. SheetFields(q4, "dimension", a.id) BY <1>5, SheetFieldUpdates
  <1> HIDE DEF q4
  <1>7. SheetFields(q5, "dimension", a.id) BY <1>6, SheetFieldUpdates
  <1> HIDE DEF q5
  <1>8. OfSheets(a, saw[1], q5)
    BY <1>7 DEF OfSheets, SheetFields, SheetOps, Sheets!OnMarks, Sheets!OnGrid, Sheets!OnSize, Sheets!OnDimension
  <1> QED BY <1>1, <1>8, SheetsAskLittle

LEMMA AskSheets ==
    ASSUME NEW a, NEW saw
    PROVE  /\ a.tool = "updateGoogleSheet" => AsksOf(a, saw, Sheets!updateGoogleSheet(a, saw))
           /\ a.tool = "appendSpreadsheetRows" => AsksOf(a, saw, Sheets!appendSpreadsheetRows(a, saw))
           /\ a.tool = "addSheet" => AsksOf(a, saw, Sheets!addSheet(a, saw))
           /\ a.tool = "renameSheet" => AsksOf(a, saw, Sheets!renameSheet(a, saw))
           /\ a.tool = "deleteSheet" => AsksOf(a, saw, Sheets!deleteSheet(a, saw))
  <1>1. ASSUME NEW op \in {"values", "append"}, a.tool \in {"updateGoogleSheet", "appendSpreadsheetRows"}
        PROVE  AsksOf(a, saw, Sheets!Last(saw, 0, <<[Sheets!Request(op, None) EXCEPT !.range = a.range]>>))
    <2> DEFINE q == [Sheets!Request(op, None) EXCEPT !.range = a.range]
    <2>1. q.op = op /\ q.range = a.range BY DEF Sheets!Request
    <2> HIDE DEF q
    <2>2. OfSheets(a, saw[1], q)
      BY <1>1, <2>1 DEF OfSheets, SheetOps, Sheets!OnMarks, Sheets!OnGrid, Sheets!OnSize, Sheets!OnDimension
    <2>3. AsksOf(a, saw, Sheets!Last(saw, 0, <<q>>)) BY <2>2, SheetsAskLittle
    <2> QED BY <2>3 DEF q
  <1>2. ASSUME a.tool = "addSheet" PROVE AsksOf(a, saw, Sheets!addSheet(a, saw))
    <2> DEFINE q == [Sheets!Request("addSheet", None) EXCEPT !.title = a.title]
    <2>1. q.op = "addSheet" /\ q.title = a.title BY DEF Sheets!Request
    <2>0. Sheets!addSheet(a, saw) = Sheets!Last(saw, 0, <<q>>) BY DEF Sheets!addSheet
    <2> HIDE DEF q
    <2>2. OfSheets(a, saw[1], q)
      BY <1>2, <2>1 DEF OfSheets, SheetOps, Sheets!OnMarks, Sheets!OnGrid, Sheets!OnSize, Sheets!OnDimension
    <2> QED BY <2>0, <2>2, SheetsAskLittle
  <1>3. ASSUME a.tool = "renameSheet" PROVE AsksOf(a, saw, Sheets!renameSheet(a, saw))
    <2> DEFINE q == [Sheets!Request("rename", a.id) EXCEPT !.title = a.title]
    <2>1. q.op = "rename" /\ q.id = a.id BY DEF Sheets!Request
    <2>0. Sheets!renameSheet(a, saw) = Sheets!Last(saw, 0, <<q>>) BY DEF Sheets!renameSheet
    <2> HIDE DEF q
    <2>2. OfSheets(a, saw[1], q)
      BY <1>3, <2>1 DEF OfSheets, SheetOps, Sheets!OnMarks, Sheets!OnGrid, Sheets!OnSize, Sheets!OnDimension
    <2> QED BY <2>0, <2>2, SheetsAskLittle
  <1>4. ASSUME a.tool = "deleteSheet" PROVE AsksOf(a, saw, Sheets!deleteSheet(a, saw))
    <2> DEFINE q == Sheets!Request("deleteSheet", a.id)
    <2>1. q.op = "deleteSheet" /\ q.id = a.id BY DEF Sheets!Request
    <2>0. Sheets!deleteSheet(a, saw) = Sheets!Last(saw, 0, <<q>>) BY DEF Sheets!deleteSheet
    <2> HIDE DEF q
    <2>2. OfSheets(a, saw[1], q)
      BY <1>4, <2>1 DEF OfSheets, SheetOps, Sheets!OnMarks, Sheets!OnGrid, Sheets!OnSize, Sheets!OnDimension
    <2> QED BY <2>0, <2>2, SheetsAskLittle
  <1> QED BY <1>1, <1>2, <1>3, <1>4 DEF Sheets!updateGoogleSheet, Sheets!appendSpreadsheetRows

\* The client's own list: one request for a row.
LEMMA AskRow ==
    ASSUME NEW a, BatchSpreadsheet(a), NEW saw, IsSequence(saw)
    PROVE  AsksOf(a, saw, Sheets!BatchUpdate(a, saw, TRUE))
  <1>1. PICK q : a.requests = <<q>> /\ q.op = "append" BY DEF BatchSpreadsheet
  <1>2. OfSheets(a, saw[1], q)
    BY <1>1 DEF BatchSpreadsheet, OfSheets, SheetOps, Sheets!OnMarks, Sheets!OnGrid, Sheets!OnSize, Sheets!OnDimension
  <1> DEFINE uploads == 3 * a.images
             failed == {i \in DOMAIN saw : i <= uploads /\ saw[i] = Failed}
             image == Sheets!UploadImage(TRUE)[(Len(saw) % 3) + 1]
  <1>3. image \in {"create", "share", "link"}
    <2>1. Sheets!UploadImage(TRUE) = <<"create", "share", "link">> BY DEF Sheets!UploadImage
    <2>2. Len(saw) % 3 \in {0, 1, 2} BY DEF IsSequence
    <2>3. \A x \in {0, 1, 2} : <<"create", "share", "link">>[x + 1] \in {"create", "share", "link"}
      OBVIOUS
    <2> QED BY <2>1, <2>2, <2>3
  <1>4. Sheets!BatchUpdate(a, saw, TRUE) \in {Sheets!Decline, Sheets!Finish, Sheets!Send(a.requests), Sheets!Ask("drop"), Sheets!Ask(image)}
    BY DEF Sheets!BatchUpdate
  <1> HIDE DEF image, failed, uploads
  <1>5. \A op \in {"create", "share", "link", "drop"} : AsksOf(a, saw, Sheets!Ask(op))
    BY SheetsAskLittle
  <1>6. AsksOf(a, saw, Sheets!Ask(image)) /\ AsksOf(a, saw, Sheets!Ask("drop")) BY <1>3, <1>5
  <1> QED BY <1>1, <1>2, <1>4, <1>6, SheetsAskLittle

LEMMA SpreadsheetHandler ==
    ASSUME NEW a, SheetArgs(a), NEW saw, IsSequence(saw)
    PROVE  a.tool \in SheetTools \cup {"batch_update_spreadsheet"} /\ AsksOf(a, saw, Sheets!Handler(a, saw))
  <1> DEFINE h == Sheets!Handler(a, saw)
  <1>0. a.tool \in SheetTools \cup {"batch_update_spreadsheet"}
    BY DEF SheetArgs, PlainSheet, BatchSpreadsheet
  <1>1. CASE BatchSpreadsheet(a)
    <2>1. h = Sheets!BatchUpdate(a, saw, TRUE) BY <1>1 DEF BatchSpreadsheet, Sheets!Handler
    <2> QED BY <1>0, <1>1, <2>1, AskRow
  <1>2. CASE a.tool \in Sheets!OnMarks \cup Sheets!OnGrid
    <2>1. \/ \E marks : h = Sheets!OverRange(a, saw, "mark", marks)
          \/ \E marks : h = Sheets!OverRange(a, saw, "addNamedRange", marks)
      <3>1. h \in {Sheets!OverRange(a, saw, "mark", a.marks), Sheets!OverRange(a, saw, "mark", {"number"}),
                   Sheets!OverRange(a, saw, "mark", ({"top", "bottom", "left", "right"} \ a.off) \cup a.marks),
                   Sheets!OverRange(a, saw, "mark", {"merged"}), Sheets!OverRange(a, saw, "mark", {"rule"}),
                   Sheets!OverRange(a, saw, "mark", {"validation"}), Sheets!OverRange(a, saw, "mark", {"protected"}),
                   Sheets!OverRange(a, saw, "addNamedRange", {"named"})}
        BY <1>2 DEF Sheets!Handler, Sheets!OnMarks, Sheets!OnGrid, Sheets!formatGoogleSheetCells, Sheets!formatGoogleSheetText,
              Sheets!formatGoogleSheetNumbers, Sheets!setGoogleSheetBorders, Sheets!mergeGoogleSheetCells,
              Sheets!addGoogleSheetConditionalFormat, Sheets!addDataValidation, Sheets!protectRange, Sheets!addNamedRange
      <3> HIDE DEF h
      <3> QED BY <3>1
    <2> HIDE DEF h
    <2>2. \A marks : AsksOf(a, saw, Sheets!OverRange(a, saw, "mark", marks)) /\ AsksOf(a, saw, Sheets!OverRange(a, saw, "addNamedRange", marks))
      BY <1>2, AskOverRange
    <2>3. AsksOf(a, saw, h) BY <2>1, <2>2
    <2> QED BY <1>0, <2>3 DEF h
  <1>3. CASE a.tool \in Sheets!OnSize \cup Sheets!OnDimension
    <2>1. \E dimension, mark, on : h = Sheets!batchUpdateOne(a, saw, dimension, mark, on)
      <3>1. h \in {Sheets!batchUpdateOne(a, saw, "COLUMNS", "size", TRUE), Sheets!batchUpdateOne(a, saw, "ROWS", "size", TRUE),
                   Sheets!batchUpdateOne(a, saw, "COLUMNS", "size", FALSE), Sheets!batchUpdateOne(a, saw, "ROWS", "size", FALSE),
                   Sheets!batchUpdateOne(a, saw, a.dimension, "hidden", TRUE), Sheets!batchUpdateOne(a, saw, a.dimension, "hidden", FALSE)}
        BY <1>3 DEF Sheets!Handler, Sheets!OnSize, Sheets!OnDimension, Sheets!setColumnWidth, Sheets!setRowHeight, Sheets!autoResizeColumns,
              Sheets!autoResizeRows, Sheets!hideSheetDimension, Sheets!showSheetDimension
      <3> HIDE DEF h
      <3> QED BY Zenon, <3>1
    <2> HIDE DEF h
    <2>2. \A dimension, mark, on : AsksOf(a, saw, Sheets!batchUpdateOne(a, saw, dimension, mark, on))
      BY <1>3, AskDimension
    <2>3. AsksOf(a, saw, h) BY <2>1, <2>2
    <2> QED BY <1>0, <2>3 DEF h
  <1>4. CASE a.tool = "updateGoogleSheet" BY <1>0, <1>4, AskSheets DEF Sheets!Handler
  <1>5. CASE a.tool = "appendSpreadsheetRows" BY <1>0, <1>5, AskSheets DEF Sheets!Handler
  <1>6. CASE a.tool = "addSheet" BY <1>0, <1>6, AskSheets DEF Sheets!Handler
  <1>7. CASE a.tool = "renameSheet" BY <1>0, <1>7, AskSheets DEF Sheets!Handler
  <1>8. CASE a.tool = "deleteSheet" BY <1>0, <1>8, AskSheets DEF Sheets!Handler
  <1>9. \/ BatchSpreadsheet(a) \/ a.tool \in Sheets!OnMarks \cup Sheets!OnGrid \/ a.tool \in Sheets!OnSize \cup Sheets!OnDimension
        \/ a.tool \in {"updateGoogleSheet", "appendSpreadsheetRows", "addSheet", "renameSheet", "deleteSheet"}
    BY DEF SheetArgs, PlainSheet, SheetTools, Sheets!OnMarks, Sheets!OnGrid, Sheets!OnSize, Sheets!OnDimension
  <1> HIDE DEF h
  <1> QED BY <1>1, <1>2, <1>3, <1>4, <1>5, <1>6, <1>7, <1>8, <1>9 DEF h

\* Whatever a call for a spreadsheet asks for leaves the sheets it is not for as they were.
LEMMA SheetsKeepTheRest ==
    ASSUME NEW p, Sheets!IsSpreadsheet(p), NEW a, SheetArgs(a), NEW saw, IsSequence(saw), Sheets!Handler(a, saw).op = "batch",
           NEW c, c = Sheets!Batch(p, Sheets!Handler(a, saw).requests), c # Refused
    PROVE  Sheets!IsSpreadsheet(c) /\ Sheets!Rest(a, saw[1], c) = Sheets!Rest(a, saw[1], p)
  <1> DEFINE requests == Sheets!Handler(a, saw).requests
  <1>1. a.tool \in SheetTools \cup {"batch_update_spreadsheet"} /\ \E q : requests = <<q>> /\ OfSheets(a, saw[1], q)
    BY SpreadsheetHandler DEF AsksOf
  <1>2. c = Sheets!Carry(p, requests[1]) BY DEF Sheets!Batch
  <1> HIDE DEF requests
  <1>3. OfSheets(a, saw[1], requests[1]) BY <1>1
  <1> QED BY <1>1, <1>2, <1>3, SpreadsheetsKeepTheRest

-----------------------------------------------------------------------------
(***************************************************************************)
(* Requests about a calendar.                                              *)
(***************************************************************************)

CalendarOf(events, next) == [events |-> events, next |-> next]

IsEvent(e, next) == e = Cals!Event(e.id, e.content, e.meet, e.extras) /\ e.id \in 0..(next - 1)

LEMMA CalendarParts ==
    ASSUME NEW events, NEW next \in Nat, \A e \in events : IsEvent(e, next)
    PROVE  Cals!IsCalendar(CalendarOf(events, next)) /\ CalendarOf(events, next).events = events
  BY DEF CalendarOf, Cals!IsCalendar, IsEvent

LEMMA EventParts ==
    ASSUME NEW id, NEW content, NEW meet, NEW extras, NEW next \in Nat, id \in 0..(next - 1)
    PROVE  LET e == Cals!Event(id, content, meet, extras) IN IsEvent(e, next) /\ e.id = id /\ e.content = content
  BY DEF Cals!Event, IsEvent

LEMMA EventsReplaced ==
    ASSUME NEW p, Cals!IsCalendar(p), NEW v, NEW c, c = [p EXCEPT !.events = v]
    PROVE  c = CalendarOf(v, p.next)
  <1>1. PICK a, b : p = [events |-> a, next |-> b] /\ p.events = a /\ p.next = b
    BY DEF Cals!IsCalendar
  <1> QED BY <1>1 DEF CalendarOf

LEMMA EventsWithNext ==
    ASSUME NEW p, Cals!IsCalendar(p), NEW v, NEW w, NEW c, c = [p EXCEPT !.next = w, !.events = v]
    PROVE  c = CalendarOf(v, w)
  <1>1. PICK a, b : p = [events |-> a, next |-> b] /\ p.events = a /\ p.next = b
    BY DEF Cals!IsCalendar
  <1> QED BY <1>1 DEF CalendarOf

\* Whatever a call for a calendar asks for leaves the other events as they were.
LEMMA CalendarsKeepTheRest ==
    ASSUME NEW p, Cals!IsCalendar(p), NEW a, PlainEvent(a), NEW saw, Cals!Handler(a, saw).op = "batch",
           NEW c, c = Cals!Batch(p, Cals!Handler(a, saw).requests), c # Refused
    PROVE  Cals!IsCalendar(c) /\ Cals!Rest(a, c) = Cals!Rest(a, p)
  <1> DEFINE h == Cals!Handler(a, saw)
  <1>0. /\ Cals!Read.op # "batch" /\ Cals!Decline.op # "batch" /\ Cals!Finish.op # "batch"
        /\ \A requests, n : Cals!Last(saw, n, requests) = IF Len(saw) = n THEN Cals!Send(requests) ELSE Cals!Finish
        /\ \A requests : Cals!Send(requests).requests = requests
    BY DEF Cals!Read, Cals!Decline, Cals!Finish, Cals!Ask, Cals!Last, Cals!Send
  <1>1. p.next \in Nat /\ \A e \in p.events : IsEvent(e, p.next) BY DEF Cals!IsCalendar, IsEvent
  <1>2. CASE a.tool = "createCalendarEvent"
    <2> DEFINE content == [text |-> a.text, time |-> a.time, attendees |-> Cals!Or(a.attendees, <<>>),
                           attachments |-> Cals!Or(a.attachments, <<>>), kept |-> Cals!Or(a.kept, <<>>)]
               q == Cals!Request("insert", None, content, a.meet)
               e == Cals!Event(p.next, content, a.meet, <<>>)
    <2>1. h = Cals!Last(saw, 0, <<q>>) BY <1>2 DEF Cals!Handler, Cals!createCalendarEvent
    <2>2. q.op = "insert" /\ q.content = content /\ q.meet = a.meet BY DEF Cals!Request
    <2>3. content.text = a.text /\ content.time = a.time OBVIOUS
    <2> HIDE DEF content, q, h
    <2>4. h = Cals!Send(<<q>>) BY <1>0, <2>1 DEF h
    <2>5. h.requests = <<q>> BY <1>0, <2>4
    <2>6. c = Cals!Carry(p, q) BY <2>5 DEF Cals!Batch, h
    <2>7. c = [p EXCEPT !.next = p.next + 1, !.events = p.events \cup {e}]
      BY <2>2, <2>6 DEF Cals!Carry
    <2>8. IsEvent(e, p.next + 1) /\ e.content = content
      <3>1. p.next + 1 \in Nat /\ p.next \in 0..(p.next + 1 - 1) BY <1>1
      <3> QED BY <3>1, EventParts
    <2> HIDE DEF e
    <2>9. c = CalendarOf(p.events \cup {e}, p.next + 1) BY ZenonT(30), <2>7, EventsWithNext
    <2>10. \A d \in p.events \cup {e} : IsEvent(d, p.next + 1) BY <1>1, <2>8 DEF IsEvent
    <2>11. Cals!IsCalendar(c) /\ c.events = p.events \cup {e} BY <1>1, <2>9, <2>10, CalendarParts
    <2>12. \A x : Cals!Rest(a, x) = {d \in x.events : d.content.text # a.text \/ d.content.time # a.time}
      BY <1>2 DEF Cals!Rest
    <2> QED BY <2>3, <2>8, <2>11, <2>12
  <1>3. CASE a.tool = "updateCalendarEvent"
    <2>1. saw # <<>> /\ \E content : h = Cals!Last(saw, 1, <<Cals!Request("update", a.id, content, FALSE)>>)
      <3> DEFINE there == Cals!WithId(saw[1], a.id)
                 existing == CHOOSE e \in there : TRUE
                 content == Cals!buildCalendarEventUpdate(existing.content, a)
      <3>1. h \in {Cals!Read, Cals!Decline, Cals!Last(saw, 1, <<Cals!Request("update", a.id, content, FALSE)>>)}
            /\ (saw = <<>> => h = Cals!Read)
        BY <1>3 DEF Cals!Handler, Cals!updateCalendarEvent
      <3> HIDE DEF content
      <3>2. h # Cals!Read /\ h # Cals!Decline BY <1>0
      <3> QED BY <3>1, <3>2
    <2>2. PICK content : h = Cals!Last(saw, 1, <<Cals!Request("update", a.id, content, FALSE)>>)
      BY <2>1
    <2> DEFINE q == Cals!Request("update", a.id, content, FALSE)
               there == Cals!WithId(p, a.id)
               new == {Cals!Event(a.id, content, e.meet, <<>>) : e \in there}
               events == (p.events \ there) \cup new
    <2>3. q.op = "update" /\ q.id = a.id /\ q.content = content BY DEF Cals!Request
    <2>4. h = Cals!Last(saw, 1, <<q>>) BY <2>2
    <2> HIDE DEF q, h
    <2>5. h = Cals!Send(<<q>>) BY <1>0, <2>4 DEF h
    <2>6. h.requests = <<q>> BY <1>0, <2>5
    <2>7. c = Cals!Carry(p, q) BY <2>6 DEF Cals!Batch, h
    <2>8. there # {} /\ c = [p EXCEPT !.events = events] BY <2>3, <2>7 DEF Cals!Carry
    <2>9. a.id \in 0..(p.next - 1) BY <1>1, <2>8 DEF Cals!WithId, IsEvent
    <2>10. \A e \in new : IsEvent(e, p.next) /\ e.id = a.id BY <1>1, <2>9, EventParts
    <2> HIDE DEF new
    <2>11. \A e \in events : IsEvent(e, p.next) BY <1>1, <2>10
    <2>12. events \ {e \in events : e.id = a.id} = p.events \ there BY <2>10 DEF Cals!WithId
    <2> HIDE DEF events
    <2>13. c = CalendarOf(events, p.next) BY <2>8, EventsReplaced
    <2>14. Cals!IsCalendar(c) /\ c.events = events BY <1>1, <2>11, <2>13, CalendarParts
    <2>15. \A x : Cals!Rest(a, x) = x.events \ {e \in x.events : e.id = a.id}
      BY <1>3 DEF Cals!Rest, Cals!WithId
    <2> QED BY <2>12, <2>14, <2>15 DEF Cals!WithId
  <1>4. CASE a.tool = "deleteCalendarEvent"
    <2> DEFINE q == Cals!Request("delete", a.id, Cals!Content, FALSE)
               events == p.events \ Cals!WithId(p, a.id)
    <2>1. h = Cals!Last(saw, 0, <<q>>) BY <1>4 DEF Cals!Handler, Cals!deleteCalendarEvent
    <2>2. q.op = "delete" /\ q.id = a.id BY DEF Cals!Request
    <2> HIDE DEF q, h
    <2>3. h = Cals!Send(<<q>>) BY <1>0, <2>1 DEF h
    <2>4. h.requests = <<q>> BY <1>0, <2>3
    <2>5. c = Cals!Carry(p, q) BY <2>4 DEF Cals!Batch, h
    <2>6. c = [p EXCEPT !.events = events] BY <2>2, <2>5 DEF Cals!Carry
    <2>7. \A e \in events : IsEvent(e, p.next) BY <1>1
    <2>8. \A x : Cals!Rest(a, x) = x.events \ {e \in x.events : e.id = a.id}
      BY <1>4 DEF Cals!Rest, Cals!WithId
    <2>9. events \ {e \in events : e.id = a.id} = events BY DEF Cals!WithId
    <2> HIDE DEF events
    <2>10. c = CalendarOf(events, p.next) BY <2>6, EventsReplaced
    <2>11. Cals!IsCalendar(c) /\ c.events = events BY <1>1, <2>7, <2>10, CalendarParts
    <2> QED BY <2>8, <2>9, <2>11 DEF events, Cals!WithId
  <1> QED BY <1>2, <1>3, <1>4 DEF PlainEvent, EventTools

-----------------------------------------------------------------------------
(***************************************************************************)
(* Requests about a presentation.  In a presentation that is good for N    *)
(* the first numbers of the ids of elements and notes are in N; those that *)
(* Google makes start behind the numbers of all calls.                     *)
(***************************************************************************)

PresentationOf(slides, next) == [slides |-> slides, next |-> next]

SlideWith(id, elements, notes, fill) == [id |-> id, elements |-> elements, notes |-> notes, fill |-> fill]

\* The numbers that Google starts from.
Far == 10 * (MaxCalls + 1)

IsNotes(id) == id[2] % 10 = 3

GoodElement(e, N) == Slides!IsElement(e) /\ ~IsNotes(e.id) /\ e.id[1] \in N

GoodNotes(e, N) == e # None => Slides!IsElement(e) /\ IsNotes(e.id) /\ e.id[1] \in N

GoodElements(elements, N) == IsSequence(elements) /\ \A k \in DOMAIN elements : GoodElement(elements[k], N)

GoodSlide(s, N) ==
    /\ s = SlideWith(s.id, s.elements, s.notes, s.fill)
    /\ GoodElements(s.elements, N) /\ GoodNotes(s.notes, N)

GoodSlides(slides, N) == IsSequence(slides) /\ \A i \in DOMAIN slides : GoodSlide(slides[i], N)

GoodPresentation(p, N) ==
    /\ p = PresentationOf(p.slides, p.next)
    /\ p.next \in Nat /\ p.next >= Far
    /\ GoodSlides(p.slides, N)

HoldsFar(N) == N \in SUBSET Nat /\ \A i \in Nat : i >= Far => i \in N

LEMMA GoodIsPresentation ==
    ASSUME NEW p, NEW N, GoodPresentation(p, N)
    PROVE  Slides!IsPresentation(p)
  <1>1. \A i \in DOMAIN p.slides : Slides!IsSlide(p.slides[i])
    <2> SUFFICES ASSUME NEW s, GoodSlide(s, N) PROVE Slides!IsSlide(s)
      BY DEF GoodPresentation, GoodSlides
    <2>1. \A e : e \in Slides!ElementsOf(s) => GoodElement(e, N)
      BY DEF Slides!ElementsOf, GoodSlide, GoodElements
    <2>2. s.elements \in Seq(Slides!ElementsOf(s))
      BY DEF Slides!ElementsOf, GoodSlide, GoodElements, IsSequence
    <2>3. s = [id |-> s.id, elements |-> s.elements, notes |-> s.notes, fill |-> s.fill]
      BY DEF GoodSlide, SlideWith
    <2>4. s.notes # None => Slides!IsElement(s.notes) /\ s.notes.id[2] % 10 = 3
      BY DEF GoodSlide, GoodNotes, IsNotes
    <2>5. \A e : e \in Slides!ElementsOf(s) => Slides!IsElement(e) /\ e.id[2] % 10 # 3
      BY <2>1 DEF GoodElement, IsNotes
    <2> QED BY <2>2, <2>3, <2>4, <2>5 DEF Slides!IsSlide
  <1>2. p.slides \in Seq(Slides!SlidesOf(p))
    BY DEF Slides!SlidesOf, GoodPresentation, GoodSlides, IsSequence
  <1>3. p = [slides |-> p.slides, next |-> p.next] /\ p.next \in Nat
    BY DEF GoodPresentation, PresentationOf
  <1> QED BY <1>1, <1>2, <1>3 DEF Slides!IsPresentation, Slides!SlidesOf

\* A presentation with its elements' numbers in N is good.
LEMMA PresentationIsGood ==
    ASSUME NEW p, Slides!IsPresentation(p), p.next >= Far, NEW N, \A e \in Slides!Objects(p) : e.id[1] \in N
    PROVE  GoodPresentation(p, N)
  <1>1. IsSequence(p.slides) /\ \A i \in DOMAIN p.slides : Slides!IsSlide(p.slides[i])
    BY DEF Slides!IsPresentation, Slides!SlidesOf, IsSequence
  <1>2. ASSUME NEW i \in DOMAIN p.slides PROVE GoodSlide(p.slides[i], N)
    <2> DEFINE s == p.slides[i]
    <2>1. Slides!IsSlide(s) /\ s \in Slides!SlidesOf(p) BY <1>1 DEF Slides!SlidesOf
    <2> HIDE DEF s
    <2>2. \A e \in Slides!ElementsOf(s) : e \in Slides!Objects(p)
      BY <2>1 DEF Slides!Objects, Slides!OnSlides
    <2>3. s.notes # None => s.notes \in Slides!Objects(p) BY <2>1 DEF Slides!Objects
    <2>4. GoodElements(s.elements, N)
      <3>1. IsSequence(s.elements) BY <2>1 DEF Slides!IsSlide, Slides!ElementsOf, IsSequence
      <3>2. \A k \in DOMAIN s.elements : s.elements[k] \in Slides!ElementsOf(s)
        BY DEF Slides!ElementsOf
      <3>3. \A e \in Slides!ElementsOf(s) : GoodElement(e, N)
        BY <2>1, <2>2 DEF Slides!IsSlide, GoodElement, IsNotes
      <3> QED BY <3>1, <3>2, <3>3 DEF GoodElements
    <2>5. GoodNotes(s.notes, N) BY <2>1, <2>3 DEF Slides!IsSlide, GoodNotes, IsNotes
    <2>6. s = SlideWith(s.id, s.elements, s.notes, s.fill) BY <2>1 DEF Slides!IsSlide, SlideWith
    <2>7. GoodSlide(s, N) BY <2>4, <2>5, <2>6 DEF GoodSlide
    <2> QED BY <2>7 DEF s
  <1>3. p = PresentationOf(p.slides, p.next) /\ p.next \in Nat
    BY DEF Slides!IsPresentation, PresentationOf
  <1> QED BY <1>1, <1>2, <1>3 DEF GoodPresentation, GoodSlides

-----------------------------------------------------------------------------
(***************************************************************************)
(* Updates of presentations, slides and elements.                          *)
(***************************************************************************)

LEMMA SlidesReplaced ==
    ASSUME NEW p, p = PresentationOf(p.slides, p.next), NEW v, NEW c, c = [p EXCEPT !.slides = v]
    PROVE  c = PresentationOf(v, p.next) /\ c.slides = v /\ c.next = p.next
  <1>1. PICK a, b : p = [slides |-> a, next |-> b] /\ p.slides = a /\ p.next = b
    BY DEF PresentationOf
  <1> QED BY <1>1 DEF PresentationOf

LEMMA GoodWithSlides ==
    ASSUME NEW p, NEW N, GoodPresentation(p, N), NEW M, NEW v, GoodSlides(v, M), NEW c, c = [p EXCEPT !.slides = v]
    PROVE  GoodPresentation(c, M) /\ c.slides = v
  <1>1. p = PresentationOf(p.slides, p.next) BY DEF GoodPresentation
  <1>2. c = PresentationOf(v, p.next) /\ c.slides = v /\ c.next = p.next BY <1>1, SlidesReplaced
  <1> QED BY <1>2 DEF GoodPresentation

LEMMA SlideWithElements ==
    ASSUME NEW s, s = SlideWith(s.id, s.elements, s.notes, s.fill), NEW v, NEW c, c = [s EXCEPT !.elements = v]
    PROVE  c = SlideWith(s.id, v, s.notes, s.fill) /\ c.id = s.id /\ c.elements = v /\ c.notes = s.notes /\ c.fill = s.fill
  <1>1. PICK a, b, d, e : s = [id |-> a, elements |-> b, notes |-> d, fill |-> e] /\ s.id = a /\ s.elements = b /\ s.notes = d /\ s.fill = e
    BY DEF SlideWith
  <1> QED BY <1>1 DEF SlideWith

LEMMA SlideWithNotes ==
    ASSUME NEW s, s = SlideWith(s.id, s.elements, s.notes, s.fill), NEW v, NEW c, c = [s EXCEPT !.notes = v]
    PROVE  c = SlideWith(s.id, s.elements, v, s.fill) /\ c.id = s.id /\ c.elements = s.elements /\ c.notes = v /\ c.fill = s.fill
  <1>1. PICK a, b, d, e : s = [id |-> a, elements |-> b, notes |-> d, fill |-> e] /\ s.id = a /\ s.elements = b /\ s.notes = d /\ s.fill = e
    BY DEF SlideWith
  <1> QED BY <1>1 DEF SlideWith

LEMMA SlideWithFill ==
    ASSUME NEW s, s = SlideWith(s.id, s.elements, s.notes, s.fill), NEW c, c = [s EXCEPT !.fill = TRUE]
    PROVE  c = SlideWith(s.id, s.elements, s.notes, TRUE) /\ c.id = s.id /\ c.elements = s.elements /\ c.notes = s.notes /\ c.fill = TRUE
  <1>1. PICK a, b, d, e : s = [id |-> a, elements |-> b, notes |-> d, fill |-> e] /\ s.id = a /\ s.elements = b /\ s.notes = d /\ s.fill = e
    BY DEF SlideWith
  <1> QED BY <1>1 DEF SlideWith

LEMMA SlideRenamed ==
    ASSUME NEW s, s = SlideWith(s.id, s.elements, s.notes, s.fill), NEW v, NEW c, c = [s EXCEPT !.id = v]
    PROVE  c = SlideWith(v, s.elements, s.notes, s.fill) /\ c.id = v /\ c.elements = s.elements /\ c.notes = s.notes /\ c.fill = s.fill
  <1>1. PICK a, b, d, e : s = [id |-> a, elements |-> b, notes |-> d, fill |-> e] /\ s.id = a /\ s.elements = b /\ s.notes = d /\ s.fill = e
    BY DEF SlideWith
  <1> QED BY <1>1 DEF SlideWith

\* Of an element only its id matters.
LEMMA ElementUpdates ==
    ASSUME NEW e, Slides!IsElement(e), NEW v, NEW c
    PROVE  /\ c = [e EXCEPT !.text = v] => Slides!IsElement(c) /\ c.id = e.id
           /\ c = [e EXCEPT !.attrs = v] => Slides!IsElement(c) /\ c.id = e.id
           /\ c = [e EXCEPT !.x = v] => Slides!IsElement(c) /\ c.id = e.id
           /\ c = [e EXCEPT !.scale = v] => Slides!IsElement(c) /\ c.id = e.id
  <1>1. PICK a, b, d, f, g, h, i : e = [id |-> a, kind |-> b, text |-> d, attrs |-> f, x |-> g, scale |-> h, size |-> i] /\ e.id = a
    BY DEF Slides!IsElement
  <1>2. e.id \in Nat \X Nat BY DEF Slides!IsElement
  <1> QED BY <1>1, <1>2 DEF Slides!IsElement

LEMMA ElementRenamed ==
    ASSUME NEW e, Slides!IsElement(e), NEW v \in Nat \X Nat, NEW c, c = [e EXCEPT !.id = v]
    PROVE  Slides!IsElement(c) /\ c.id = v
  <1>1. PICK a, b, d, f, g, h, i : e = [id |-> a, kind |-> b, text |-> d, attrs |-> f, x |-> g, scale |-> h, size |-> i] /\ e.id = a
    BY DEF Slides!IsElement
  <1> QED BY <1>1 DEF Slides!IsElement

LEMMA ElementParts ==
    ASSUME NEW id \in Nat \X Nat, NEW k, NEW text
    PROVE  Slides!IsElement(Slides!Element(id, k, text)) /\ Slides!Element(id, k, text).id = id
  BY DEF Slides!Element, Slides!IsElement

-----------------------------------------------------------------------------
(***************************************************************************)
(* One element changed, wherever it is.                                    *)
(***************************************************************************)

LEMMA MappedSequence ==
    ASSUME NEW s, IsSequence(s), NEW v, v = [i \in DOMAIN s |-> v[i]]
    PROVE  IsSequence(v) /\ DOMAIN v = DOMAIN s /\ Len(v) = Len(s)
  <1>1. Len(s) \in Nat /\ DOMAIN s = 1..Len(s) BY DEF IsSequence
  <1>2. v = [i \in 1..Len(s) |-> v[i]] /\ \A i \in 1..Len(s) : v[i] \in {v[k] : k \in DOMAIN v}
    BY <1>1
  <1>3. v \in Seq({v[k] : k \in DOMAIN v}) /\ Len(v) = Len(s) BY <1>1, <1>2
  <1> QED BY <1>1, <1>2, <1>3 DEF IsSequence

Swapped(e, new) == IF e # None /\ e.id = new.id THEN new ELSE e

SwappedIn(elements, new) == [k \in DOMAIN elements |-> Swapped(elements[k], new)]

ReplacedIn(s, new) == [s EXCEPT !.notes = Swapped(s.notes, new), !.elements = SwappedIn(s.elements, new)]

ReplacedSlides(slides, new) == [i \in DOMAIN slides |-> ReplacedIn(slides[i], new)]

LEMMA ReplaceIs ==
    \A p, new : Slides!Replace(p, new) = [p EXCEPT !.slides = ReplacedSlides(p.slides, new)]
  BY DEF Slides!Replace, ReplacedSlides, ReplacedIn, SwappedIn, Swapped

LEMMA GoodSlideReplaced ==
    ASSUME NEW N, NEW s, GoodSlide(s, N), NEW new, Slides!IsElement(new), new.id[1] \in N
    PROVE  /\ GoodSlide(ReplacedIn(s, new), N)
           /\ ReplacedIn(s, new) = SlideWith(s.id, SwappedIn(s.elements, new), Swapped(s.notes, new), s.fill)
  <1> DEFINE c == ReplacedIn(s, new)
             elements == SwappedIn(s.elements, new)
             notes == Swapped(s.notes, new)
  <1>1. c = SlideWith(s.id, elements, notes, s.fill) /\ c.id = s.id /\ c.elements = elements /\ c.notes = notes /\ c.fill = s.fill
    <2> DEFINE b == [s EXCEPT !.notes = notes]
    <2>1. c = [b EXCEPT !.elements = elements] /\ s = SlideWith(s.id, s.elements, s.notes, s.fill)
      BY DEF ReplacedIn, GoodSlide
    <2> HIDE DEF c, elements, notes
    <2>2. b = SlideWith(s.id, s.elements, notes, s.fill) /\ b.id = s.id /\ b.elements = s.elements /\ b.notes = notes /\ b.fill = s.fill
      BY <2>1, SlideWithNotes
    <2> HIDE DEF b
    <2> QED BY <2>1, <2>2, SlideWithElements
  <1>2. GoodElements(elements, N)
    <2>1. IsSequence(elements) /\ DOMAIN elements = DOMAIN s.elements
      <3>1. elements = [i \in DOMAIN s.elements |-> elements[i]] /\ IsSequence(s.elements)
        BY DEF SwappedIn, GoodSlide, GoodElements
      <3> HIDE DEF elements
      <3> QED BY <3>1, MappedSequence
    <2>2. ASSUME NEW k \in DOMAIN elements PROVE GoodElement(elements[k], N)
      <3>1. GoodElement(s.elements[k], N) BY <2>1 DEF GoodSlide, GoodElements
      <3>2. elements[k] = Swapped(s.elements[k], new) BY <2>1 DEF SwappedIn
      <3> QED BY <3>1, <3>2 DEF GoodElement, Swapped
    <2> QED BY <2>1, <2>2 DEF GoodElements
  <1>3. GoodNotes(notes, N) BY DEF GoodSlide, GoodNotes, Swapped
  <1> HIDE DEF c, elements, notes
  <1>4. GoodSlide(c, N) BY <1>1, <1>2, <1>3 DEF GoodSlide
  <1> QED BY <1>1, <1>4 DEF c, elements, notes

LEMMA GoodReplaced ==
    ASSUME NEW N, NEW p, GoodPresentation(p, N), NEW new, Slides!IsElement(new), new.id[1] \in N
    PROVE  /\ GoodPresentation(Slides!Replace(p, new), N)
           /\ Slides!Replace(p, new).slides = ReplacedSlides(p.slides, new)
  <1> DEFINE v == ReplacedSlides(p.slides, new)
  <1>1. v = [i \in DOMAIN p.slides |-> v[i]] /\ \A i \in DOMAIN p.slides : v[i] = ReplacedIn(p.slides[i], new)
    BY DEF ReplacedSlides
  <1>2. IsSequence(p.slides) /\ \A i \in DOMAIN p.slides : GoodSlide(p.slides[i], N)
    BY DEF GoodPresentation, GoodSlides
  <1>3. \A i \in DOMAIN p.slides : GoodSlide(v[i], N)
    <2>1. \A i \in DOMAIN p.slides : GoodSlide(ReplacedIn(p.slides[i], new), N)
      BY <1>2, GoodSlideReplaced
    <2> HIDE DEF v
    <2> QED BY <1>1, <2>1
  <1>4. Slides!Replace(p, new) = [p EXCEPT !.slides = v] BY ReplaceIs
  <1> HIDE DEF v
  <1>5. IsSequence(v) /\ DOMAIN v = DOMAIN p.slides BY <1>1, <1>2, MappedSequence
  <1>6. GoodSlides(v, N) BY <1>3, <1>5 DEF GoodSlides
  <1>7. GoodPresentation(Slides!Replace(p, new), N) /\ Slides!Replace(p, new).slides = v
    BY <1>4, <1>6, GoodWithSlides
  <1> QED BY <1>7 DEF v

ElementOps == {"insertText", "deleteText", "updateTextStyle", "updateAttributes", "updateTransform"}

LEMMA AlteredIs ==
    ASSUME NEW e, Slides!IsElement(e), NEW q, q.op \in ElementOps, NEW c, c = Slides!Altered(e, q), c # Refused
    PROVE  Slides!IsElement(c) /\ c.id = e.id
  <1>1. CASE q.op = "insertText"
    <2>1. c = [e EXCEPT !.text = Slides!Plain(q.text) \o e.text] BY <1>1 DEF Slides!Altered
    <2> QED BY <2>1, ElementUpdates
  <1>2. CASE q.op = "deleteText"
    <2>1. c = [e EXCEPT !.text = <<>>] BY <1>2 DEF Slides!Altered
    <2> QED BY <2>1, ElementUpdates
  <1>3. CASE q.op = "updateTextStyle"
    <2>1. c = [e EXCEPT !.text = Slides!Mark(e.text, IF q.to = None THEN DOMAIN e.text ELSE (q.from + 1)..q.to, q.attr, q.on)]
      BY <1>3 DEF Slides!Altered
    <2>2. PICK v : c = [e EXCEPT !.text = v] BY <2>1
    <2> QED BY <2>2, ElementUpdates
  <1>4. CASE q.op = "updateAttributes"
    <2>1. c = [e EXCEPT !.attrs = Slides!With(e.attrs, q.attr, q.on)] BY <1>4 DEF Slides!Altered
    <2> QED BY <2>1, ElementUpdates
  <1>5. CASE q.op = "updateTransform"
    <2> DEFINE b == [e EXCEPT !.x = q.x]
    <2>1. c = [b EXCEPT !.scale = q.scale] BY <1>5 DEF Slides!Altered
    <2>2. Slides!IsElement(b) /\ b.id = e.id BY ElementUpdates
    <2> HIDE DEF b
    <2> QED BY <2>1, <2>2, ElementUpdates
  <1> QED BY <1>1, <1>2, <1>3, <1>4, <1>5 DEF ElementOps

\* The objects of a good presentation.
LEMMA GoodObjects ==
    ASSUME NEW N, NEW p, GoodPresentation(p, N), NEW e \in Slides!Objects(p)
    PROVE  Slides!IsElement(e) /\ e.id[1] \in N
  <1>1. \A i \in DOMAIN p.slides : GoodSlide(p.slides[i], N) BY DEF GoodPresentation, GoodSlides
  <1>2. CASE e \in Slides!OnSlides(p)
    <2>1. PICK i \in DOMAIN p.slides : e \in Slides!ElementsOf(p.slides[i])
      BY <1>2 DEF Slides!OnSlides, Slides!SlidesOf
    <2>2. PICK k \in DOMAIN p.slides[i].elements : e = p.slides[i].elements[k]
      BY <2>1 DEF Slides!ElementsOf
    <2>3. GoodElement(e, N) BY <1>1, <2>2 DEF GoodSlide, GoodElements
    <2> QED BY <2>3 DEF GoodElement
  <1>3. CASE e \notin Slides!OnSlides(p)
    <2>1. PICK i \in DOMAIN p.slides : p.slides[i].notes # None /\ e = p.slides[i].notes
      BY <1>3 DEF Slides!Objects, Slides!SlidesOf
    <2>2. GoodNotes(e, N) BY <1>1, <2>1 DEF GoodSlide
    <2> QED BY <2>1, <2>2 DEF GoodNotes
  <1> QED BY <1>2, <1>3

\* A request about an element replaces it by one of the same id.
LEMMA CarryOnElement ==
    ASSUME NEW N, NEW p, GoodPresentation(p, N), NEW q, q.op \in ElementOps, NEW c, c = Slides!Carry(p, q), c # Refused
    PROVE  /\ GoodPresentation(c, N)
           /\ \E new : c.slides = ReplacedSlides(p.slides, new) /\ new.id = q.id /\ Slides!IsElement(new) /\ new.id[1] \in N
  <1> DEFINE d == Slides!Object(p, q.id)
             e == Slides!Altered(d, q)
  <1>1. q.id \in {x.id : x \in Slides!Objects(p)} /\ e # Refused /\ c = Slides!Replace(p, e)
    BY DEF Slides!Carry, ElementOps, Slides!PageRequests
  <1>2. d \in Slides!Objects(p) /\ d.id = q.id BY <1>1 DEF Slides!Object
  <1>3. Slides!IsElement(d) /\ d.id[1] \in N BY <1>2, GoodObjects
  <1> HIDE DEF d
  <1>4. Slides!IsElement(e) /\ e.id = d.id BY <1>1, <1>3, AlteredIs
  <1> HIDE DEF e
  <1>5. e.id[1] \in N /\ e.id = q.id BY <1>2, <1>3, <1>4
  <1> QED BY <1>1, <1>4, <1>5, GoodReplaced

-----------------------------------------------------------------------------
(***************************************************************************)
(* Each request leaves a good presentation good.                           *)
(***************************************************************************)

LEMMA GoodFromSet ==
    ASSUME NEW N, NEW T, NEW v \in Seq(T)
    PROVE  /\ (\A s \in T : GoodSlide(s, N)) => GoodSlides(v, N)
           /\ (\A e \in T : GoodElement(e, N)) => GoodElements(v, N)
  <1>1. IsSequence(v) BY SequenceOf
  <1>2. \A i \in DOMAIN v : v[i] \in T OBVIOUS
  <1> QED BY <1>1, <1>2 DEF GoodSlides, GoodElements

LEMMA GoodInSet ==
    ASSUME NEW N, NEW p, GoodPresentation(p, N)
    PROVE  p.slides \in Seq(Slides!SlidesOf(p)) /\ \A s \in Slides!SlidesOf(p) : GoodSlide(s, N)
  BY DEF GoodPresentation, GoodSlides, IsSequence, Slides!SlidesOf

LEMMA GoodSlideWithElements ==
    ASSUME NEW N, NEW s, GoodSlide(s, N), NEW M, GoodNotes(s.notes, M), NEW v, GoodElements(v, M), NEW c, c = [s EXCEPT !.elements = v]
    PROVE  GoodSlide(c, M) /\ c.id = s.id /\ c.elements = v /\ c.notes = s.notes
  <1>1. s = SlideWith(s.id, s.elements, s.notes, s.fill) BY DEF GoodSlide
  <1>2. c = SlideWith(s.id, v, s.notes, s.fill) /\ c.id = s.id /\ c.elements = v /\ c.notes = s.notes /\ c.fill = s.fill
    BY <1>1, SlideWithElements
  <1> QED BY <1>2 DEF GoodSlide

LEMMA CarryIs ==
    ASSUME NEW p, NEW q
    PROVE  /\ q.op = "replaceAllText" => Slides!Carry(p, q) =
                [p EXCEPT !.slides = [i \in DOMAIN p.slides |-> LET s == p.slides[i] IN
                    [s EXCEPT !.elements = [k \in DOMAIN s.elements |->
                        [s.elements[k] EXCEPT !.text = Slides!ReplaceAll(s.elements[k].text, q.find, q.text)]]]]]
           /\ q.op = "createSlide" => Slides!Carry(p, q) =
                [p EXCEPT !.slides = Append(p.slides, Slides!Slide(q.id, Slides!TitleAndBody(q.id[1]), None))]
           /\ q.op = "updateSlidesPosition" => Slides!Carry(p, q) = Slides!Reordered(p, q.ids, q.index)
           /\ q.op = "deleteObject" => Slides!Carry(p, q) \in {Slides!Deleted(p, q.id), Refused}
           /\ q.op \in Slides!PageRequests => Slides!Carry(p, q) =
                IF q.page \notin {s.id : s \in Slides!SlidesOf(p)} THEN Refused ELSE Slides!CarryOnPage(p, q)
  <1> DEFINE a == [p EXCEPT !.slides = [i \in DOMAIN p.slides |-> LET s == p.slides[i] IN
                    [s EXCEPT !.elements = [k \in DOMAIN s.elements |->
                        [s.elements[k] EXCEPT !.text = Slides!ReplaceAll(s.elements[k].text, q.find, q.text)]]]]]
             b == [p EXCEPT !.slides = Append(p.slides, Slides!Slide(q.id, Slides!TitleAndBody(q.id[1]), None))]
             c == Slides!Reordered(p, q.ids, q.index)
             d == IF q.id \in {x.id : x \in Slides!SlidesOf(p) \cup Slides!OnSlides(p)} THEN Slides!Deleted(p, q.id) ELSE Refused
             e == IF q.page \notin {s.id : s \in Slides!SlidesOf(p)} THEN Refused ELSE Slides!CarryOnPage(p, q)
             g == Slides!Altered(Slides!Object(p, q.id), q)
             f == IF q.id \notin {x.id : x \in Slides!Objects(p)} \/ g = Refused THEN Refused ELSE Slides!Replace(p, g)
             op == q.op
             r == Slides!Carry(p, q)
  <1>1. r = CASE op = "replaceAllText" -> a
              [] op = "createSlide" -> b
              [] op = "updateSlidesPosition" -> c
              [] op = "deleteObject" -> d
              [] op \in Slides!PageRequests -> e
              [] OTHER -> f
    BY Zenon DEF Slides!Carry
  <1>2. d \in {Slides!Deleted(p, q.id), Refused} OBVIOUS
  <1> HIDE DEF a, b, c, d, e, f, r, op
  <1>3. /\ op = "replaceAllText" => r = a
        /\ op = "createSlide" => r = b
        /\ op = "updateSlidesPosition" => r = c
        /\ op = "deleteObject" => r = d
        /\ op \in Slides!PageRequests => r = e
    BY <1>1 DEF Slides!PageRequests
  <1>4. op = "deleteObject" => r \in {Slides!Deleted(p, q.id), Refused} BY <1>2, <1>3
  <1> QED BY Zenon, <1>3, <1>4 DEF a, b, c, e, r, op

LEMMA AllTextReplaced ==
    ASSUME NEW N, NEW p, GoodPresentation(p, N), NEW q, q.op = "replaceAllText"
    PROVE  GoodPresentation(Slides!Carry(p, q), N)
  <1> DEFINE e(s, k) == [s.elements[k] EXCEPT !.text = Slides!ReplaceAll(s.elements[k].text, q.find, q.text)]
             l(s) == [k \in DOMAIN s.elements |-> e(s, k)]
             t(s) == [s EXCEPT !.elements = l(s)]
             v == [i \in DOMAIN p.slides |-> t(p.slides[i])]
  <1>1. Slides!Carry(p, q) = [p EXCEPT !.slides = v] BY CarryIs
  <1>2. IsSequence(p.slides) /\ \A i \in DOMAIN p.slides : GoodSlide(p.slides[i], N)
    BY DEF GoodPresentation, GoodSlides
  <1>3. ASSUME NEW s, GoodSlide(s, N) PROVE GoodSlide(t(s), N)
    <2>1. IsSequence(s.elements) /\ (\A k \in DOMAIN s.elements : GoodElement(s.elements[k], N)) /\ GoodNotes(s.notes, N)
      BY <1>3 DEF GoodSlide, GoodElements
    <2>2. ASSUME NEW k \in DOMAIN s.elements PROVE GoodElement(e(s, k), N)
      <3>1. Slides!IsElement(s.elements[k]) /\ GoodElement(s.elements[k], N) BY <2>1 DEF GoodElement
      <3>2. Slides!IsElement(e(s, k)) /\ e(s, k).id = s.elements[k].id BY <3>1, ElementUpdates
      <3> QED BY <3>1, <3>2 DEF GoodElement
    <2> HIDE DEF e
    <2>3. l(s) = [k \in DOMAIN s.elements |-> l(s)[k]] /\ \A k \in DOMAIN s.elements : l(s)[k] = e(s, k)
      OBVIOUS
    <2> HIDE DEF l
    <2>4. IsSequence(l(s)) /\ DOMAIN l(s) = DOMAIN s.elements BY <2>1, <2>3, MappedSequence
    <2>5. GoodElements(l(s), N) BY <2>2, <2>3, <2>4 DEF GoodElements
    <2> QED BY <1>3, <2>1, <2>5, GoodSlideWithElements
  <1> HIDE DEF t
  <1>4. v = [i \in DOMAIN p.slides |-> v[i]] /\ \A i \in DOMAIN p.slides : v[i] = t(p.slides[i])
    OBVIOUS
  <1> HIDE DEF v
  <1>5. IsSequence(v) /\ DOMAIN v = DOMAIN p.slides BY <1>2, <1>4, MappedSequence
  <1>6. GoodSlides(v, N) BY <1>2, <1>3, <1>4, <1>5 DEF GoodSlides
  <1> QED BY <1>1, <1>6, GoodWithSlides

\* A request that makes an element or a slide gives it an id of its own.
LEMMA NewElement ==
    ASSUME NEW N, HoldsFar(N), NEW i \in N, NEW k \in {0, 1, 2}, NEW name, NEW text
    PROVE  GoodElement(Slides!Element(<<i, k>>, name, text), N) /\ Slides!Element(<<i, k>>, name, text).id = <<i, k>>
  <1>1. <<i, k>> \in Nat \X Nat /\ ~IsNotes(<<i, k>>) /\ <<i, k>>[1] = i BY DEF HoldsFar, IsNotes
  <1> QED BY <1>1, ElementParts DEF GoodElement

LEMMA NewSlide ==
    ASSUME NEW N, HoldsFar(N), NEW i \in N, NEW id
    PROVE  GoodSlide(Slides!Slide(id, Slides!TitleAndBody(i), None), N)
  <1> DEFINE a == Slides!Element(<<i, 1>>, "title", <<>>)
             b == Slides!Element(<<i, 2>>, "body", <<>>)
             l == <<a, b>>
  <1>1. GoodElement(a, N) /\ GoodElement(b, N) BY NewElement
  <1>2. Slides!TitleAndBody(i) = l BY DEF Slides!TitleAndBody
  <1> HIDE DEF a, b
  <1>3. l \in Seq({a, b})
    <2>1. \A x, y : <<x, y>> \in Seq({x, y}) OBVIOUS
    <2> QED BY <2>1
  <1> HIDE DEF l
  <1>4. GoodElements(l, N)
    <2>1. IsSequence(l) BY <1>3, SequenceOf
    <2>2. \A k \in DOMAIN l : l[k] \in {a, b} BY <1>3
    <2> QED BY <1>1, <2>1, <2>2 DEF GoodElements
  <1>5. Slides!Slide(id, l, None) = SlideWith(id, l, None, FALSE) BY DEF Slides!Slide, SlideWith
  <1>6. GoodSlide(SlideWith(id, l, None, FALSE), N) BY <1>4 DEF GoodSlide, SlideWith, GoodNotes
  <1> QED BY <1>2, <1>5, <1>6

LEMMA SlideCreated ==
    ASSUME NEW N, HoldsFar(N), NEW p, GoodPresentation(p, N), NEW q, q.op = "createSlide", q.id[1] \in N
    PROVE  GoodPresentation(Slides!Carry(p, q), N)
  <1> DEFINE s == Slides!Slide(q.id, Slides!TitleAndBody(q.id[1]), None)
             v == Append(p.slides, s)
             T == Slides!SlidesOf(p) \cup {s}
  <1>1. Slides!Carry(p, q) = [p EXCEPT !.slides = v] BY CarryIs
  <1>2. GoodSlide(s, N) BY NewSlide
  <1> HIDE DEF s
  <1>3. p.slides \in Seq(T) /\ s \in T /\ \A x \in T : GoodSlide(x, N)
    <2>1. p.slides \in Seq(Slides!SlidesOf(p)) /\ \A x \in Slides!SlidesOf(p) : GoodSlide(x, N)
      BY GoodInSet
    <2> QED BY <1>2, <2>1
  <1> HIDE DEF T
  <1>4. v \in Seq(T) BY <1>3
  <1> HIDE DEF v
  <1>5. GoodSlides(v, N) BY <1>3, <1>4, GoodFromSet
  <1> QED BY <1>1, <1>5, GoodWithSlides

LEMMA SlidesReordered ==
    ASSUME NEW N, NEW p, GoodPresentation(p, N), NEW q, q.op = "updateSlidesPosition", q.index \in Nat, Slides!Carry(p, q) # Refused
    PROVE  GoodPresentation(Slides!Carry(p, q), N)
  <1> DEFINE T == Slides!SlidesOf(p)
             among == {s \in T : s.id \in {q.ids[k] : k \in DOMAIN q.ids}}
             moved == Slides!Those(p.slides, among)
             before == Slides!Those(SubSeq(p.slides, 1, q.index), T \ among)
             behind == Slides!Those(SubSeq(p.slides, q.index + 1, Len(p.slides)), T \ among)
             v == before \o moved \o behind
  <1>1. Slides!Carry(p, q) = [p EXCEPT !.slides = v] /\ ~(q.index > Len(p.slides))
    <2>1. Slides!Reordered(p, q.ids, q.index) # Refused /\ Slides!Carry(p, q) = Slides!Reordered(p, q.ids, q.index)
      BY CarryIs
    <2> QED BY Zenon, <2>1 DEF Slides!Reordered
  <1>2. p.slides \in Seq(T) /\ \A s \in T : GoodSlide(s, N) BY GoodInSet
  <1>3. Len(p.slides) \in Nat BY <1>2
  <1> HIDE DEF T
  <1>5. SubSeq(p.slides, 1, q.index) \in Seq(T) /\ SubSeq(p.slides, q.index + 1, Len(p.slides)) \in Seq(T)
    <2> DEFINE n == Len(p.slides)
    <2>1. \A i \in 1..n : p.slides[i] \in T BY SMTT(30), <1>2
    <2>2. n \in Nat /\ q.index \in Nat /\ ~(q.index > n) BY Zenon, <1>1, <1>3
    <2> HIDE DEF n
    <2>3. 1 \in Int /\ q.index \in Int /\ q.index + 1 \in Int /\ n \in Int BY <2>2
    <2>4. (\A i \in 1..q.index : i \in 1..n) /\ (\A i \in (q.index + 1)..n : i \in 1..n)
      <3>1. \A j, m \in Nat : ~(j > m) => (\A i \in 1..j : i \in 1..m) /\ (\A i \in (j + 1)..m : i \in 1..m)
        OBVIOUS
      <3> QED BY <2>2, <3>1
    <2>5. SubSeq(p.slides, 1, q.index) \in Seq(T) BY <2>1, <2>3, <2>4, SubSeqProperties
    <2>6. SubSeq(p.slides, q.index + 1, n) \in Seq(T) BY <2>1, <2>3, <2>4, SubSeqProperties
    <2> QED BY <2>5, <2>6 DEF n
  <1>6. moved \in Seq(T) /\ before \in Seq(T) /\ behind \in Seq(T)
    <2>1. \A S : \A z \in Seq(T) : Slides!Those(z, S) \in Seq(T)
      <3>1. \A S : \A z \in Seq(T) : Slides!Those(z, S) \in Seq(T \cap S) BY ThoseAre
      <3>2. \A S : \A z \in Seq(T \cap S) : z \in Seq(T) OBVIOUS
      <3> QED BY Zenon, <3>1, <3>2
    <2> QED BY <1>2, <1>5, <2>1
  <1> HIDE DEF moved, before, behind
  <1>7. v \in Seq(T) BY <1>6
  <1> HIDE DEF v
  <1>8. GoodSlides(v, N) BY <1>2, <1>7, GoodFromSet
  <1> QED BY SMTT(30), <1>1, <1>8, GoodWithSlides

LEMMA ObjectDeleted ==
    ASSUME NEW N, NEW p, GoodPresentation(p, N), NEW q, q.op = "deleteObject", Slides!Carry(p, q) # Refused
    PROVE  GoodPresentation(Slides!Carry(p, q), N)
  <1> DEFINE left == Slides!Those(p.slides, {s \in Slides!SlidesOf(p) : s.id # q.id})
             l(s) == Slides!Those(s.elements, {e \in Slides!ElementsOf(s) : e.id # q.id})
             t(s) == [s EXCEPT !.elements = l(s)]
             v == [i \in DOMAIN left |-> t(left[i])]
  <1>1. Slides!Carry(p, q) = [p EXCEPT !.slides = v]
    <2>1. Slides!Carry(p, q) = Slides!Deleted(p, q.id) BY CarryIs
    <2>2. Slides!Deleted(p, q.id) = [p EXCEPT !.slides = v] BY Zenon DEF Slides!Deleted
    <2> QED BY Zenon, <2>1, <2>2
  <1>2. GoodSlides(left, N)
    <2> DEFINE T == Slides!SlidesOf(p)
               S == {s \in T : s.id # q.id}
    <2>1. p.slides \in Seq(T) /\ \A s \in T : GoodSlide(s, N) BY GoodInSet
    <2>2. \A s \in T \cap S : GoodSlide(s, N) BY <2>1
    <2> HIDE DEF T, S
    <2>3. Slides!Those(p.slides, S) \in Seq(T \cap S) BY <2>1, ThoseAre
    <2>4. GoodSlides(Slides!Those(p.slides, S), N) BY <2>2, <2>3, GoodFromSet
    <2> QED BY <2>4 DEF S, T
  <1>3. ASSUME NEW s, GoodSlide(s, N) PROVE GoodSlide(t(s), N)
    <2> DEFINE T == Slides!ElementsOf(s)
               S == {e \in Slides!ElementsOf(s) : e.id # q.id}
    <2>1. GoodNotes(s.notes, N) /\ s.elements \in Seq(T) /\ \A e \in T : GoodElement(e, N)
      BY <1>3 DEF GoodSlide, GoodElements, IsSequence, Slides!ElementsOf
    <2> HIDE DEF T, S
    <2>2. Slides!Those(s.elements, S) \in Seq(T \cap S) BY <2>1, ThoseAre
    <2>3. \A e \in T \cap S : GoodElement(e, N) BY <2>1
    <2>4. GoodElements(Slides!Those(s.elements, S), N) BY <2>2, <2>3, GoodFromSet
    <2>5. GoodElements(l(s), N) BY <2>4 DEF S
    <2> HIDE DEF l
    <2> QED BY <1>3, <2>1, <2>5, GoodSlideWithElements
  <1> HIDE DEF t, left
  <1>4. v = [i \in DOMAIN left |-> v[i]] /\ \A i \in DOMAIN left : v[i] = t(left[i]) OBVIOUS
  <1>5. IsSequence(left) /\ \A i \in DOMAIN left : GoodSlide(left[i], N) BY <1>2 DEF GoodSlides
  <1> HIDE DEF v
  <1>6. IsSequence(v) /\ DOMAIN v = DOMAIN left BY <1>4, <1>5, MappedSequence
  <1>7. GoodSlides(v, N) BY <1>3, <1>4, <1>5, <1>6 DEF GoodSlides
  <1> QED BY <1>1, <1>7, GoodWithSlides

\* A slide with one more element.
LEMMA GoodAppended ==
    ASSUME NEW M, NEW elements, GoodElements(elements, M), NEW e, GoodElement(e, M)
    PROVE  GoodElements(Append(elements, e), M)
  <1> DEFINE T == {elements[k] : k \in DOMAIN elements} \cup {e}
             v == Append(elements, e)
  <1>1. elements \in Seq(T) /\ e \in T /\ \A x \in T : GoodElement(x, M)
    BY DEF GoodElements, IsSequence
  <1> HIDE DEF T
  <1>2. v \in Seq(T) BY <1>1
  <1> HIDE DEF v
  <1>3. GoodElements(v, M) BY <1>1, <1>2, GoodFromSet
  <1> QED BY <1>3 DEF v

AppendedTo(slides, id, e) ==
    [i \in DOMAIN slides |-> IF slides[i].id = id THEN [slides[i] EXCEPT !.elements = Append(slides[i].elements, e)] ELSE slides[i]]

LEMMA GoodOnPage ==
    ASSUME NEW N, NEW p, GoodPresentation(p, N), NEW id, NEW e, GoodElement(e, N)
    PROVE  /\ GoodPresentation(Slides!OnPage(p, id, e), N)
           /\ Slides!OnPage(p, id, e).slides = AppendedTo(p.slides, id, e)
  <1> DEFINE t(s) == [s EXCEPT !.elements = Append(s.elements, e)]
             u(s) == IF s.id = id THEN t(s) ELSE s
             v == [i \in DOMAIN p.slides |-> u(p.slides[i])]
  <1>1. Slides!OnPage(p, id, e) = [p EXCEPT !.slides = v] /\ v = AppendedTo(p.slides, id, e)
    BY DEF Slides!OnPage, AppendedTo
  <1>2. ASSUME NEW s, GoodSlide(s, N) PROVE GoodSlide(u(s), N)
    <2>1. GoodNotes(s.notes, N) /\ GoodElements(s.elements, N) BY <1>2 DEF GoodSlide
    <2>2. GoodSlide(t(s), N)
      <3> DEFINE w == Append(s.elements, e)
                 c == t(s)
      <3>1. c = [s EXCEPT !.elements = w] OBVIOUS
      <3>2. GoodElements(w, N) BY <2>1, GoodAppended
      <3> HIDE DEF c, w
      <3>3. GoodSlide(c, N) BY <1>2, <2>1, <3>1, <3>2, GoodSlideWithElements
      <3> QED BY <3>3 DEF c
    <2> QED BY <1>2, <2>2
  <1> HIDE DEF u
  <1>3. v = [i \in DOMAIN p.slides |-> v[i]] /\ \A i \in DOMAIN p.slides : v[i] = u(p.slides[i])
    OBVIOUS
  <1>4. IsSequence(p.slides) /\ \A i \in DOMAIN p.slides : GoodSlide(p.slides[i], N)
    BY DEF GoodPresentation, GoodSlides
  <1> HIDE DEF v
  <1>5. IsSequence(v) /\ DOMAIN v = DOMAIN p.slides BY <1>3, <1>4, MappedSequence
  <1>6. GoodSlides(v, N) BY <1>2, <1>3, <1>4, <1>5 DEF GoodSlides
  <1> QED BY <1>1, <1>6, GoodWithSlides

LEMMA GoodFilled ==
    ASSUME NEW N, NEW p, GoodPresentation(p, N), NEW q, q.op = "updatePage"
    PROVE  GoodPresentation(Slides!CarryOnPage(p, q), N)
  <1> DEFINE t(s) == [s EXCEPT !.fill = TRUE]
             u(s) == IF s.id = q.page THEN t(s) ELSE s
             v == [i \in DOMAIN p.slides |-> u(p.slides[i])]
  <1>1. Slides!CarryOnPage(p, q) = [p EXCEPT !.slides = v] BY DEF Slides!CarryOnPage
  <1>2. ASSUME NEW s, GoodSlide(s, N) PROVE GoodSlide(u(s), N)
    <2>1. s = SlideWith(s.id, s.elements, s.notes, s.fill) BY <1>2 DEF GoodSlide
    <2>2. t(s) = SlideWith(s.id, s.elements, s.notes, TRUE) /\ t(s).id = s.id /\ t(s).elements = s.elements /\ t(s).notes = s.notes
          /\ t(s).fill = TRUE
      BY Zenon, <2>1, SlideWithFill
    <2> HIDE DEF t
    <2>3. GoodSlide(t(s), N) BY Zenon, <1>2, <2>2 DEF GoodSlide
    <2> QED BY <1>2, <2>3
  <1> HIDE DEF u
  <1>3. v = [i \in DOMAIN p.slides |-> v[i]] /\ \A i \in DOMAIN p.slides : v[i] = u(p.slides[i])
    OBVIOUS
  <1>4. IsSequence(p.slides) /\ \A i \in DOMAIN p.slides : GoodSlide(p.slides[i], N)
    BY DEF GoodPresentation, GoodSlides
  <1> HIDE DEF v
  <1>5. IsSequence(v) /\ DOMAIN v = DOMAIN p.slides BY <1>3, <1>4, MappedSequence
  <1>6. GoodSlides(v, N) BY <1>2, <1>3, <1>4, <1>5 DEF GoodSlides
  <1> QED BY <1>1, <1>6, GoodWithSlides

\* The id of a copy.
CopyId(n, id) == <<n, 10 * id[1] + id[2]>>

CopyOf(n, e) == IF e = None THEN None ELSE [e EXCEPT !.id = CopyId(n, e.id)]

LEMMA CopyIds ==
    ASSUME NEW n \in Nat, NEW id \in Nat \X Nat
    PROVE  CopyId(n, id) \in Nat \X Nat /\ CopyId(n, id)[1] = n /\ (IsNotes(CopyId(n, id)) <=> IsNotes(id))
  <1>1. \A a, b \in Nat : 10 * a + b \in Nat /\ (10 * a + b) % 10 = b % 10 OBVIOUS
  <1>2. id[1] \in Nat /\ id[2] \in Nat OBVIOUS
  <1>3. CopyId(n, id)[1] = n /\ CopyId(n, id)[2] = 10 * id[1] + id[2] BY DEF CopyId
  <1>4. CopyId(n, id) \in Nat \X Nat BY <1>1, <1>2 DEF CopyId
  <1> QED BY <1>1, <1>2, <1>3, <1>4 DEF IsNotes

LEMMA CopyIsElement ==
    ASSUME NEW e, e # None, Slides!IsElement(e), NEW n \in Nat
    PROVE  LET c == CopyOf(n, e) IN Slides!IsElement(c) /\ c.id = CopyId(n, e.id) /\ c.id[1] = n /\ (IsNotes(c.id) <=> IsNotes(e.id))
  <1> DEFINE c == CopyOf(n, e)
             id == CopyId(n, e.id)
  <1>1. e.id \in Nat \X Nat BY DEF Slides!IsElement
  <1>2. id \in Nat \X Nat /\ id[1] = n /\ (IsNotes(id) <=> IsNotes(e.id)) BY <1>1, CopyIds
  <1>3. c = [e EXCEPT !.id = id] BY DEF CopyOf
  <1> HIDE DEF c, id
  <1>4. Slides!IsElement(c) /\ c.id = id BY <1>2, <1>3, ElementRenamed
  <1> QED BY <1>2, <1>4 DEF c, id

\* What Google copies is good wherever the original is, and the copy's number is.
LEMMA CopyIsGood ==
    ASSUME NEW N, NEW s, GoodSlide(s, N), NEW n \in Nat, n \in N
    PROVE  GoodElements([k \in DOMAIN s.elements |-> CopyOf(n, s.elements[k])], N) /\ GoodNotes(CopyOf(n, s.notes), N)
  <1> DEFINE v == [k \in DOMAIN s.elements |-> CopyOf(n, s.elements[k])]
  <1>1. s = SlideWith(s.id, s.elements, s.notes, s.fill) /\ GoodElements(s.elements, N) /\ GoodNotes(s.notes, N)
    BY DEF GoodSlide
  <1>2. IsSequence(s.elements) /\ \A k \in DOMAIN s.elements : GoodElement(s.elements[k], N)
    BY <1>1 DEF GoodElements
  <1>3. GoodElements(v, N)
    <2>1. v = [k \in DOMAIN s.elements |-> v[k]] /\ \A k \in DOMAIN s.elements : v[k] = CopyOf(n, s.elements[k])
      OBVIOUS
    <2> HIDE DEF v
    <2>2. IsSequence(v) /\ DOMAIN v = DOMAIN s.elements BY <1>2, <2>1, MappedSequence
    <2>3. \A e : GoodElement(e, N) => GoodElement(CopyOf(n, e), N)
      <3>1. ASSUME NEW e, GoodElement(e, N), e # None PROVE GoodElement(CopyOf(n, e), N)
        BY <3>1, CopyIsElement DEF GoodElement
      <3>2. CopyOf(n, None) = None BY DEF CopyOf
      <3> QED BY <3>1, <3>2
    <2> QED BY <1>2, <2>1, <2>2, <2>3 DEF GoodElements
  <1>4. GoodNotes(CopyOf(n, s.notes), N)
    <2>1. CASE s.notes = None BY <2>1 DEF GoodNotes, CopyOf
    <2>2. CASE s.notes # None
      <3>1. Slides!IsElement(s.notes) /\ IsNotes(s.notes.id) BY <1>1, <2>2 DEF GoodNotes
      <3> QED BY <2>2, <3>1, CopyIsElement DEF GoodNotes
    <2> QED BY <2>1, <2>2
  <1> QED BY <1>3, <1>4

LEMMA SlideDuplicated ==
    ASSUME NEW N, HoldsFar(N), NEW p, GoodPresentation(p, N), NEW id, id \in {s.id : s \in Slides!SlidesOf(p)}
    PROVE  GoodPresentation(Slides!Duplicated(p, id), N)
  <1> DEFINE n == p.next
             i == CHOOSE k \in DOMAIN p.slides : p.slides[k].id = id
             s == p.slides[i]
             b == [s EXCEPT !.id = <<n, 0>>]
             c == [b EXCEPT !.notes = CopyOf(n, s.notes)]
             v == [k \in DOMAIN s.elements |-> CopyOf(n, s.elements[k])]
             d == [c EXCEPT !.elements = v]
             slides == SubSeq(p.slides, 1, i) \o <<d>> \o SubSeq(p.slides, i + 1, Len(p.slides))
  <1>1. Slides!Duplicated(p, id) = PresentationOf(slides, n + 1)
    BY DEF Slides!Duplicated, PresentationOf, CopyOf, CopyId
  <1>2. \E k \in DOMAIN p.slides : p.slides[k].id = id BY DEF Slides!SlidesOf
  <1>3. i \in DOMAIN p.slides BY <1>2
  <1> HIDE DEF i
  <1>4. n \in Nat /\ n >= Far /\ n \in N BY DEF GoodPresentation, HoldsFar
  <1>5. GoodSlide(s, N) BY <1>3 DEF GoodPresentation, GoodSlides
  <1>6. GoodSlide(d, N)
    <2> DEFINE w == CopyOf(n, s.notes)
               new == <<n, 0>>
    <2>1. s = SlideWith(s.id, s.elements, s.notes, s.fill) BY <1>5 DEF GoodSlide
    <2>2. GoodElements(v, N) /\ GoodNotes(w, N)
      <3> HIDE DEF n, s
      <3> QED BY <1>4, <1>5, CopyIsGood
    <2> HIDE DEF n, s, v, w, new
    <2>3. b = SlideWith(new, s.elements, s.notes, s.fill) /\ b.id = new /\ b.elements = s.elements /\ b.notes = s.notes /\ b.fill = s.fill
      <3>1. b = [s EXCEPT !.id = new] BY DEF new
      <3> HIDE DEF b
      <3> QED BY <2>1, <3>1, SlideRenamed
    <2> HIDE DEF b
    <2>4. c = SlideWith(new, s.elements, w, s.fill) /\ c.id = new /\ c.elements = s.elements /\ c.notes = w /\ c.fill = s.fill
      <3>1. c = [b EXCEPT !.notes = w] BY DEF w
      <3> HIDE DEF c
      <3>2. b = SlideWith(b.id, b.elements, b.notes, b.fill) BY <2>3
      <3>3. c = SlideWith(b.id, b.elements, w, b.fill) /\ c.id = b.id /\ c.elements = b.elements /\ c.notes = w /\ c.fill = b.fill
        BY <3>1, <3>2, SlideWithNotes
      <3> QED BY <2>3, <3>3
    <2> HIDE DEF c
    <2>5. d = SlideWith(new, v, w, s.fill) /\ d.id = new /\ d.elements = v /\ d.notes = w /\ d.fill = s.fill
      <3>1. d = [c EXCEPT !.elements = v] OBVIOUS
      <3> HIDE DEF d
      <3>2. c = SlideWith(c.id, c.elements, c.notes, c.fill) BY <2>4
      <3>3. d = SlideWith(c.id, v, c.notes, c.fill) /\ d.id = c.id /\ d.elements = v /\ d.notes = c.notes /\ d.fill = c.fill
        BY <3>1, <3>2, SlideWithElements
      <3> QED BY <2>4, <3>3
    <2> HIDE DEF d
    <2> QED BY Zenon, <2>2, <2>5 DEF GoodSlide
  <1> DEFINE T == Slides!SlidesOf(p) \cup {d}
  <1>7. p.slides \in Seq(T) /\ d \in T /\ \A x \in T : GoodSlide(x, N)
    <2> HIDE DEF d
    <2>1. p.slides \in Seq(Slides!SlidesOf(p)) /\ \A x \in Slides!SlidesOf(p) : GoodSlide(x, N)
      BY GoodInSet
    <2> QED BY <1>6, <2>1
  <1> HIDE DEF d, T
  <1>8. slides \in Seq(T)
    <2> DEFINE m == Len(p.slides)
    <2>1. m \in Nat /\ i \in 1..m /\ \A k \in 1..m : p.slides[k] \in T BY <1>3, <1>7
    <2> HIDE DEF m
    <2>2. 1 \in Int /\ i \in Int /\ i + 1 \in Int /\ m \in Int /\ (\A k \in 1..i : k \in 1..m) /\ (\A k \in (i + 1)..m : k \in 1..m)
      BY <2>1
    <2>3. SubSeq(p.slides, 1, i) \in Seq(T) BY <2>1, <2>2, SubSeqProperties
    <2>4. SubSeq(p.slides, i + 1, m) \in Seq(T) BY <2>1, <2>2, SubSeqProperties
    <2>5. <<d>> \in Seq(T) BY <1>7
    <2>6. \A x, y, z \in Seq(T) : x \o y \o z \in Seq(T) OBVIOUS
    <2> QED BY Zenon, <2>3, <2>4, <2>5, <2>6 DEF m
  <1> HIDE DEF slides
  <1>9. GoodSlides(slides, N) BY <1>7, <1>8, GoodFromSet
  <1>10. n + 1 \in Nat /\ n + 1 >= Far
    <2>1. Far \in Nat BY ConstantsAssumption DEF Far
    <2> QED BY <1>4, <2>1
  <1>11. PresentationOf(slides, n + 1).slides = slides /\ PresentationOf(slides, n + 1).next = n + 1
    BY DEF PresentationOf
  <1> HIDE DEF n
  <1> QED BY <1>1, <1>9, <1>10, <1>11 DEF GoodPresentation

-----------------------------------------------------------------------------
(***************************************************************************)
(* What a request leaves as it was, for the calls that are for an element, *)
(* for a slide or for the notes.                                           *)
(***************************************************************************)

\* What is known of the requests of a call: the elements and the slides that they
\* make have numbers in N.
IsClean(q, N) ==
    /\ q.op \in ElementOps \cup Slides!PageRequests \cup {"replaceAllText", "createSlide", "updateSlidesPosition", "deleteObject"}
    /\ q.op = "createSlide" => q.id[1] \in N
    /\ q.op = "updateSlidesPosition" => q.index \in Nat
    /\ q.op \in {"createShape", "createImage"} => \E i \in N : q.id = <<i, 1>>

LEMMA GoodCarry ==
    ASSUME NEW N, HoldsFar(N), NEW p, GoodPresentation(p, N), NEW q, IsClean(q, N), Slides!Carry(p, q) # Refused
    PROVE  GoodPresentation(Slides!Carry(p, q), N)
  <1>1. CASE q.op \in ElementOps BY Zenon, <1>1, CarryOnElement
  <1>2. CASE q.op \in Slides!PageRequests
    <2>1. q.page \in {s.id : s \in Slides!SlidesOf(p)} /\ Slides!Carry(p, q) = Slides!CarryOnPage(p, q)
      BY <1>2, CarryIs
    <2>2. CASE q.op \in {"createShape", "createImage"}
      <3> PICK i \in N : q.id = <<i, 1>> BY <2>2 DEF IsClean
      <3> DEFINE e == Slides!Element(<<i, 1>>, IF q.op = "createShape" THEN "box" ELSE "image", <<>>)
      <3>1. Slides!CarryOnPage(p, q) = Slides!OnPage(p, q.page, e) BY <2>2 DEF Slides!CarryOnPage
      <3>2. GoodElement(e, N) BY NewElement
      <3> HIDE DEF e
      <3> QED BY <2>1, <3>1, <3>2, GoodOnPage
    <2>3. CASE q.op = "duplicateObject"
      <3>1. Slides!CarryOnPage(p, q) = Slides!Duplicated(p, q.page) BY <2>3 DEF Slides!CarryOnPage
      <3> QED BY <2>1, <3>1, SlideDuplicated
    <2>4. CASE q.op = "updatePage" BY <2>1, <2>4, GoodFilled
    <2> QED BY <1>2, <2>2, <2>3, <2>4 DEF Slides!PageRequests
  <1>3. CASE q.op = "replaceAllText" BY <1>3, AllTextReplaced
  <1>4. CASE q.op = "createSlide" BY <1>4, SlideCreated DEF IsClean
  <1>5. CASE q.op = "updateSlidesPosition" BY <1>5, SlidesReordered DEF IsClean
  <1>6. CASE q.op = "deleteObject" BY <1>6, ObjectDeleted
  <1> QED BY <1>1, <1>2, <1>3, <1>4, <1>5, <1>6 DEF IsClean

\* A presentation without the elements of an id.
BlankNotes(e, id) == IF e # None /\ e.id = id THEN None ELSE e

BlankElements(elements, id) == [k \in DOMAIN elements |-> IF elements[k].id = id THEN None ELSE elements[k]]

BlankIn(s, id) == [s EXCEPT !.notes = BlankNotes(s.notes, id), !.elements = BlankElements(s.elements, id)]

LEMMA BlankIs ==
    \A p, id : Slides!Blank(p, id) = [i \in DOMAIN p.slides |-> BlankIn(p.slides[i], id)]
  BY DEF Slides!Blank, BlankIn, BlankNotes, BlankElements

LEMMA BlankParts ==
    ASSUME NEW N, NEW s, GoodSlide(s, N), NEW id
    PROVE  BlankIn(s, id) = SlideWith(s.id, BlankElements(s.elements, id), BlankNotes(s.notes, id), s.fill)
  <1> DEFINE v == BlankNotes(s.notes, id)
             w == BlankElements(s.elements, id)
             b == [s EXCEPT !.notes = v]
             c == [b EXCEPT !.elements = w]
  <1>1. BlankIn(s, id) = c BY DEF BlankIn
  <1>2. s = SlideWith(s.id, s.elements, s.notes, s.fill) BY DEF GoodSlide
  <1> HIDE DEF v, w
  <1>3. b = SlideWith(s.id, s.elements, v, s.fill) /\ b.id = s.id /\ b.elements = s.elements /\ b.notes = v /\ b.fill = s.fill
    BY <1>2, SlideWithNotes
  <1> HIDE DEF b
  <1>4. c = SlideWith(s.id, w, v, s.fill) BY <1>3, SlideWithElements
  <1> QED BY <1>1, <1>4 DEF v, w

LEMMA SwappedIsBlank ==
    ASSUME NEW elements, NEW notes, NEW new
    PROVE  /\ BlankElements(SwappedIn(elements, new), new.id) = BlankElements(elements, new.id)
           /\ BlankNotes(Swapped(notes, new), new.id) = BlankNotes(notes, new.id)
  BY DEF BlankElements, SwappedIn, Swapped, BlankNotes

LEMMA BlankStays ==
    ASSUME NEW N, NEW p, GoodPresentation(p, N), NEW new, Slides!IsElement(new), new.id[1] \in N,
           NEW c, c.slides = ReplacedSlides(p.slides, new)
    PROVE  Slides!Blank(c, new.id) = Slides!Blank(p, new.id)
  <1>1. DOMAIN c.slides = DOMAIN p.slides /\ \A i \in DOMAIN p.slides : c.slides[i] = ReplacedIn(p.slides[i], new)
    BY DEF ReplacedSlides
  <1>2. ASSUME NEW s, GoodSlide(s, N) PROVE BlankIn(ReplacedIn(s, new), new.id) = BlankIn(s, new.id)
    <2> DEFINE t == ReplacedIn(s, new)
               elements == SwappedIn(s.elements, new)
               notes == Swapped(s.notes, new)
    <2>1. GoodSlide(t, N) /\ t = SlideWith(s.id, elements, notes, s.fill) BY <1>2, GoodSlideReplaced
    <2>2. BlankElements(elements, new.id) = BlankElements(s.elements, new.id) /\ BlankNotes(notes, new.id) = BlankNotes(s.notes, new.id)
      BY SwappedIsBlank
    <2> HIDE DEF t, elements, notes
    <2>3. t.id = s.id /\ t.elements = elements /\ t.notes = notes /\ t.fill = s.fill
      BY <2>1 DEF SlideWith
    <2>4. BlankIn(t, new.id) = SlideWith(t.id, BlankElements(t.elements, new.id), BlankNotes(t.notes, new.id), t.fill)
      BY <2>1, BlankParts
    <2>5. BlankIn(s, new.id) = SlideWith(s.id, BlankElements(s.elements, new.id), BlankNotes(s.notes, new.id), s.fill)
      BY <1>2, BlankParts
    <2> QED BY <2>2, <2>3, <2>4, <2>5 DEF t
  <1>3. \A i \in DOMAIN p.slides : GoodSlide(p.slides[i], N) BY DEF GoodPresentation, GoodSlides
  <1>4. \A i \in DOMAIN p.slides : BlankIn(c.slides[i], new.id) = BlankIn(p.slides[i], new.id)
    BY <1>1, <1>2, <1>3
  <1> QED BY <1>1, <1>4, BlankIs

\* Elements of other ids stay.
LEMMA OthersUnswapped ==
    ASSUME NEW elements, IsSequence(elements), NEW new, \A k \in DOMAIN elements : elements[k].id # new.id
    PROVE  SwappedIn(elements, new) = elements
  <1>1. elements = [k \in DOMAIN elements |-> elements[k]] BY DEF IsSequence
  <1>2. SwappedIn(elements, new) = [k \in DOMAIN elements |-> elements[k]] BY DEF SwappedIn, Swapped
  <1> QED BY <1>1, <1>2

\* The slides without their notes.
NotesOff(slides) == [i \in DOMAIN slides |-> [slides[i] EXCEPT !.notes = None]]

LEMMA NotesStay ==
    ASSUME NEW N, NEW p, GoodPresentation(p, N), NEW new, Slides!IsElement(new), new.id[1] \in N, IsNotes(new.id),
           NEW c, c.slides = ReplacedSlides(p.slides, new)
    PROVE  NotesOff(c.slides) = NotesOff(p.slides)
  <1>1. DOMAIN c.slides = DOMAIN p.slides /\ \A i \in DOMAIN p.slides : c.slides[i] = ReplacedIn(p.slides[i], new)
    BY DEF ReplacedSlides
  <1> DEFINE t(s) == [s EXCEPT !.notes = None]
  <1>2. ASSUME NEW s, GoodSlide(s, N) PROVE t(ReplacedIn(s, new)) = t(s)
    <2> DEFINE r == ReplacedIn(s, new)
               notes == Swapped(s.notes, new)
    <2>1. s = SlideWith(s.id, s.elements, s.notes, s.fill) /\ IsSequence(s.elements)
          /\ \A k \in DOMAIN s.elements : s.elements[k].id # new.id
      BY <1>2 DEF GoodSlide, GoodElements, GoodElement
    <2>2. r = SlideWith(s.id, s.elements, notes, s.fill)
      <3>1. r = SlideWith(s.id, SwappedIn(s.elements, new), notes, s.fill)
        BY <1>2, GoodSlideReplaced
      <3>2. SwappedIn(s.elements, new) = s.elements BY <2>1, OthersUnswapped
      <3> QED BY <3>1, <3>2
    <2> HIDE DEF r, notes
    <2>3. r.id = s.id /\ r.elements = s.elements /\ r.notes = notes /\ r.fill = s.fill
      BY <2>2 DEF SlideWith
    <2>4. t(r) = SlideWith(r.id, r.elements, None, r.fill) BY <2>2, <2>3, SlideWithNotes
    <2>5. t(s) = SlideWith(s.id, s.elements, None, s.fill) BY <2>1, SlideWithNotes
    <2> HIDE DEF t
    <2> QED BY <2>3, <2>4, <2>5 DEF r
  <1>3. \A i \in DOMAIN p.slides : GoodSlide(p.slides[i], N) BY DEF GoodPresentation, GoodSlides
  <1> HIDE DEF t
  <1>4. \A i \in DOMAIN p.slides : t(c.slides[i]) = t(p.slides[i]) BY <1>1, <1>2, <1>3
  <1>5. [i \in DOMAIN c.slides |-> t(c.slides[i])] = [i \in DOMAIN p.slides |-> t(p.slides[i])]
    BY <1>1, <1>4
  <1> QED BY <1>5 DEF t, NotesOff

\* The other slides than a call's, and that none of them has an element that it makes.
PagesBut(slides, page) == [i \in DOMAIN slides |-> IF slides[i].id = page THEN None ELSE slides[i]]

HasNone(s, id) == (\A k \in DOMAIN s.elements : s.elements[k].id # id) /\ (s.notes # None => s.notes.id # id)

Own(p, id, page) == \A i \in DOMAIN p.slides : p.slides[i].id # page => HasNone(p.slides[i], id)

LEMMA AppendedBeside ==
    ASSUME NEW N, NEW p, GoodPresentation(p, N), NEW page, NEW e, NEW c, c.slides = AppendedTo(p.slides, page, e), NEW id
    PROVE  /\ PagesBut(c.slides, page) = PagesBut(p.slides, page)
           /\ Own(p, id, page) => Own(c, id, page)
  <1>1. ASSUME NEW s, GoodSlide(s, N) PROVE [s EXCEPT !.elements = Append(s.elements, e)].id = s.id
    <2> DEFINE w == Append(s.elements, e)
               t == [s EXCEPT !.elements = w]
    <2>1. s = SlideWith(s.id, s.elements, s.notes, s.fill) BY <1>1 DEF GoodSlide
    <2> HIDE DEF w
    <2>2. t = [s EXCEPT !.elements = w] OBVIOUS
    <2> HIDE DEF t
    <2>3. t.id = s.id BY <2>1, <2>2, SlideWithElements
    <2> QED BY <2>3 DEF t, w
  <1>2. \A i \in DOMAIN p.slides : GoodSlide(p.slides[i], N) BY DEF GoodPresentation, GoodSlides
  <1>3. DOMAIN c.slides = DOMAIN p.slides
        /\ \A i \in DOMAIN p.slides :
              c.slides[i] = IF p.slides[i].id = page THEN [p.slides[i] EXCEPT !.elements = Append(p.slides[i].elements, e)] ELSE p.slides[i]
    BY DEF AppendedTo
  <1>4. \A i \in DOMAIN p.slides : c.slides[i].id = p.slides[i].id /\ (p.slides[i].id # page => c.slides[i] = p.slides[i])
    BY <1>1, <1>2, <1>3
  <1> QED BY <1>3, <1>4 DEF PagesBut, Own

LEMMA ReplacedBeside ==
    ASSUME NEW N, NEW p, GoodPresentation(p, N), NEW new, Slides!IsElement(new), new.id[1] \in N,
           NEW c, c.slides = ReplacedSlides(p.slides, new), NEW page, Own(p, new.id, page)
    PROVE  PagesBut(c.slides, page) = PagesBut(p.slides, page) /\ Own(c, new.id, page)
  <1>1. ASSUME NEW s, GoodSlide(s, N)
        PROVE  ReplacedIn(s, new).id = s.id /\ (HasNone(s, new.id) => ReplacedIn(s, new) = s)
    <2>1. /\ ReplacedIn(s, new) = SlideWith(s.id, SwappedIn(s.elements, new), Swapped(s.notes, new), s.fill)
          /\ s = SlideWith(s.id, s.elements, s.notes, s.fill) /\ IsSequence(s.elements)
      BY <1>1, GoodSlideReplaced DEF GoodSlide, GoodElements
    <2>2. ReplacedIn(s, new).id = s.id BY <2>1 DEF SlideWith
    <2>3. ASSUME HasNone(s, new.id) PROVE ReplacedIn(s, new) = s
      <3>1. SwappedIn(s.elements, new) = s.elements BY <2>1, <2>3, OthersUnswapped DEF HasNone
      <3>2. Swapped(s.notes, new) = s.notes BY <2>3 DEF HasNone, Swapped
      <3> QED BY <2>1, <3>1, <3>2
    <2> QED BY <2>2, <2>3
  <1>2. \A i \in DOMAIN p.slides : GoodSlide(p.slides[i], N) BY DEF GoodPresentation, GoodSlides
  <1>3. DOMAIN c.slides = DOMAIN p.slides /\ \A i \in DOMAIN p.slides : c.slides[i] = ReplacedIn(p.slides[i], new)
    BY DEF ReplacedSlides
  <1>4. \A i \in DOMAIN p.slides : c.slides[i].id = p.slides[i].id /\ (p.slides[i].id # page => c.slides[i] = p.slides[i])
    BY <1>1, <1>2, <1>3 DEF Own
  <1> QED BY <1>3, <1>4 DEF PagesBut, Own

\* What is known of a request of a call for an element, for a slide or for notes;
\* new is the id of the element that the call makes.
Boxes == {"createGoogleSlidesTextBox", "createGoogleSlidesShape"}

OfTool(a, new, q) ==
    /\ a.tool \in Slides!OnObject => q.op \in ElementOps /\ q.id = a.id
    /\ a.tool = "updateGoogleSlidesSpeakerNotes" => q.op \in ElementOps /\ IsNotes(q.id)
    /\ a.tool \in Boxes => (q.op = "createShape" /\ q.page = a.page) \/ (q.op \in ElementOps /\ q.id = new)
    /\ a.tool \in Slides!OnSlide \ Boxes => q.op = "createImage" /\ q.page = a.page

Keeps(a, new, p, N, x) ==
    /\ GoodPresentation(x, N)
    /\ Slides!Rest(a, None, x) = Slides!Rest(a, None, p)
    /\ a.tool \in Boxes => Own(x, new, a.page)

LEMMA RestOfPresentation ==
    ASSUME NEW a
    PROVE  /\ \A ref, x : Slides!Rest(a, ref, x) = Slides!Rest(a, None, x)
           /\ a.tool \in Slides!OnObject => \A x : Slides!Rest(a, None, x) = Slides!Blank(x, a.id)
           /\ a.tool \in Slides!OnSlide => \A x : Slides!Rest(a, None, x) = PagesBut(x.slides, a.page)
           /\ a.tool = "updateGoogleSlidesSpeakerNotes" => \A x : Slides!Rest(a, None, x) = NotesOff(x.slides)
           /\ a.tool \notin Slides!OnObject \cup Slides!OnSlide \cup {"updateGoogleSlidesSpeakerNotes"} =>
                \A x : Slides!Rest(a, None, x) = None
  <1>1. \A ref, x : Slides!Rest(a, ref, x) = Slides!Rest(a, None, x) BY Zenon DEF Slides!Rest
  <1>2. Slides!OnObject \cap Slides!OnSlide = {} /\ "updateGoogleSlidesSpeakerNotes" \notin Slides!OnObject \cup Slides!OnSlide
    BY DEF Slides!OnObject, Slides!OnSlide
  <1> USE <1>2 DEF Slides!Rest
  <1>3. a.tool \in Slides!OnObject => \A x : Slides!Rest(a, None, x) = Slides!Blank(x, a.id)
    BY Zenon
  <1>4. a.tool \in Slides!OnSlide => \A x : Slides!Rest(a, None, x) = PagesBut(x.slides, a.page)
    BY Zenon DEF PagesBut
  <1>5. a.tool = "updateGoogleSlidesSpeakerNotes" => \A x : Slides!Rest(a, None, x) = NotesOff(x.slides)
    BY Zenon DEF NotesOff
  <1>6. a.tool \notin Slides!OnObject \cup Slides!OnSlide \cup {"updateGoogleSlidesSpeakerNotes"} =>
                \A x : Slides!Rest(a, None, x) = None
    BY Zenon
  <1> QED BY Zenon, <1>1, <1>3, <1>4, <1>5, <1>6

LEMMA CarryKeeps ==
    ASSUME NEW N, HoldsFar(N), NEW p, GoodPresentation(p, N), NEW a, NEW new, NEW q, IsClean(q, N), OfTool(a, new, q),
           a.tool \in Boxes => Own(p, new, a.page), NEW c, c = Slides!Carry(p, q), c # Refused
    PROVE  Keeps(a, new, p, N, c)
  <1>1. GoodPresentation(c, N) BY GoodCarry
  <1>2. q.op \in ElementOps =>
          \E e : c.slides = ReplacedSlides(p.slides, e) /\ e.id = q.id /\ Slides!IsElement(e) /\ e.id[1] \in N
    BY CarryOnElement
  <1>3. q.op \in {"createShape", "createImage"} => \E e : c.slides = AppendedTo(p.slides, q.page, e)
    <2> SUFFICES ASSUME q.op \in {"createShape", "createImage"} PROVE \E e : c.slides = AppendedTo(p.slides, q.page, e)
      OBVIOUS
    <2>1. Slides!Carry(p, q) = Slides!CarryOnPage(p, q) BY CarryIs DEF Slides!PageRequests
    <2> PICK i \in N : q.id = <<i, 1>> BY DEF IsClean
    <2> DEFINE e == Slides!Element(<<i, 1>>, IF q.op = "createShape" THEN "box" ELSE "image", <<>>)
    <2>2. Slides!CarryOnPage(p, q) = Slides!OnPage(p, q.page, e) BY DEF Slides!CarryOnPage
    <2>3. GoodElement(e, N) BY NewElement
    <2> HIDE DEF e
    <2> QED BY <2>1, <2>2, <2>3, GoodOnPage
  <1> HIDE DEF IsClean
  <1>4. CASE a.tool \in Slides!OnObject
    <2>1. q.op \in ElementOps /\ q.id = a.id BY <1>4 DEF OfTool
    <2> PICK e : c.slides = ReplacedSlides(p.slides, e) /\ e.id = q.id /\ Slides!IsElement(e) /\ e.id[1] \in N
      BY <1>2, <2>1
    <2>2. Slides!Blank(c, e.id) = Slides!Blank(p, e.id) BY BlankStays
    <2>3. a.tool \notin Boxes BY <1>4 DEF Slides!OnObject, Boxes
    <2> QED BY <1>1, <1>4, <2>1, <2>2, <2>3, RestOfPresentation DEF Keeps
  <1>5. CASE a.tool = "updateGoogleSlidesSpeakerNotes"
    <2>1. q.op \in ElementOps /\ IsNotes(q.id) BY <1>5 DEF OfTool
    <2> PICK e : c.slides = ReplacedSlides(p.slides, e) /\ e.id = q.id /\ Slides!IsElement(e) /\ e.id[1] \in N
      BY <1>2, <2>1
    <2>2. NotesOff(c.slides) = NotesOff(p.slides) BY <2>1, NotesStay
    <2>3. a.tool \notin Boxes BY <1>5 DEF Boxes
    <2>4. Slides!Rest(a, None, c) = Slides!Rest(a, None, p) BY <1>5, <2>2, RestOfPresentation
    <2> QED BY <1>1, <2>3, <2>4 DEF Keeps
  <1>6. CASE a.tool \in Slides!OnSlide
    <2>1. ASSUME q.op \in {"createShape", "createImage"}, q.page = a.page PROVE Keeps(a, new, p, N, c)
      <3> PICK e : c.slides = AppendedTo(p.slides, a.page, e) BY <1>3, <2>1
      <3>1. PagesBut(c.slides, a.page) = PagesBut(p.slides, a.page) /\ (Own(p, new, a.page) => Own(c, new, a.page))
        BY AppendedBeside
      <3> QED BY <1>1, <1>6, <3>1, RestOfPresentation DEF Keeps
    <2>2. ASSUME q.op \in ElementOps, q.id = new, a.tool \in Boxes PROVE Keeps(a, new, p, N, c)
      <3> PICK e : c.slides = ReplacedSlides(p.slides, e) /\ e.id = q.id /\ Slides!IsElement(e) /\ e.id[1] \in N
        BY <1>2, <2>2
      <3>1. PagesBut(c.slides, a.page) = PagesBut(p.slides, a.page) /\ Own(c, new, a.page)
        BY <2>2, ReplacedBeside
      <3> QED BY <1>1, <1>6, <3>1, RestOfPresentation DEF Keeps
    <2>3. CASE a.tool \in Boxes BY <2>1, <2>2, <2>3 DEF OfTool
    <2>4. CASE a.tool \notin Boxes BY <1>6, <2>1, <2>4 DEF OfTool
    <2> QED BY <2>3, <2>4
  <1>7. CASE a.tool \notin Slides!OnObject \cup Slides!OnSlide \cup {"updateGoogleSlidesSpeakerNotes"}
    <2>1. a.tool \notin Boxes BY <1>7 DEF Slides!OnSlide, Boxes
    <2>2. Slides!Rest(a, None, c) = Slides!Rest(a, None, p) BY <1>7, RestOfPresentation
    <2> QED BY <1>1, <2>1, <2>2 DEF Keeps
  <1> QED BY <1>4, <1>5, <1>6, <1>7

LEMMA PresentationBatch ==
    ASSUME NEW N, HoldsFar(N), NEW p, GoodPresentation(p, N), NEW a, NEW new, a.tool \in Boxes => Own(p, new, a.page),
           NEW requests, Len(requests) \in Nat, \A i \in 1..Len(requests) : IsClean(requests[i], N) /\ OfTool(a, new, requests[i]),
           NEW c, c = Slides!Batch(p, requests), c # Refused
    PROVE  Keeps(a, new, p, N, c)
  <1>1. PICK g : c = g[Len(requests)] /\ PresentationSteps(g, p, requests) BY PresentationRuns
  <1>2. /\ g[0] = p
        /\ \A n \in 1..Len(requests) : g[n] = IF g[n - 1] = Refused THEN Refused ELSE Slides!Carry(g[n - 1], requests[n])
    BY Zenon, <1>1 DEF PresentationSteps
  <1> DEFINE S == {n \in 0..Len(requests) : g[n] # Refused /\ ~Keeps(a, new, p, N, g[n])}
  <1> SUFFICES ASSUME S # {} PROVE FALSE BY <1>1
  <1>3. PICK n \in S : \A j \in S : n <= j
    <2>1. S \in SUBSET Nat OBVIOUS
    <2> HIDE DEF S
    <2> QED BY <2>1, LeastNumber
  <1>4. n # 0 BY <1>2 DEF Keeps
  <1>5. n - 1 \in 0..Len(requests) /\ n \in 1..Len(requests) /\ n - 1 \notin S BY <1>3, <1>4
  <1>6. g[n] # Refused /\ ~Keeps(a, new, p, N, g[n]) /\ (g[n - 1] = Refused \/ Keeps(a, new, p, N, g[n - 1]))
    BY <1>5
  <1>7. g[n] = IF g[n - 1] = Refused THEN Refused ELSE Slides!Carry(g[n - 1], requests[n])
    BY Zenon, <1>2, <1>5
  <1>8. IsClean(requests[n], N) /\ OfTool(a, new, requests[n]) BY <1>5
  <1> HIDE DEF S
  <1>9. Keeps(a, new, p, N, g[n - 1]) /\ g[n] = Slides!Carry(g[n - 1], requests[n]) BY <1>6, <1>7
  <1>10. Keeps(a, new, g[n - 1], N, g[n]) BY <1>6, <1>8, <1>9, CarryKeeps DEF Keeps
  <1> QED BY <1>6, <1>9, <1>10 DEF Keeps

-----------------------------------------------------------------------------
(***************************************************************************)
(* The requests of the tools.                                              *)
(***************************************************************************)

LEMMA Enumerated ==
    ASSUME NEW S, IsFiniteSet(S)
    PROVE  Slides!Enumerations!SetToSeq(S) \in Seq(S)
  <1>1. Cardinality(S) \in Nat /\ ExistsBijection(1..Cardinality(S), S) BY FS_CardinalityType
  <1>2. \E f \in [1..Cardinality(S) -> S] : Slides!Enumerations!IsInjective(f)
    BY <1>1 DEF ExistsBijection, Bijection, Injection, IsInjective, Slides!Enumerations!IsInjective
  <1>3. Slides!Enumerations!Cardinality(S) = Cardinality(S)
    BY DEF Slides!Enumerations!Cardinality, Cardinality
  <1>4. Slides!Enumerations!SetToSeq(S) \in [1..Cardinality(S) -> S]
    BY <1>2, <1>3 DEF Slides!Enumerations!SetToSeq
  <1> QED BY <1>1, <1>4

\* Requests of a call with new objects, in a presentation with ids in N.
AreClean(a, new, N, requests) ==
    IsSequence(requests) /\ \A i \in DOMAIN requests : IsClean(requests[i], N) /\ OfTool(a, new, requests[i])

AsksCleanly(a, new, N, r) == r.op = "batch" => AreClean(a, new, N, r.requests)

\* The numbers of a call's own ids are in N.
HoldsOwn(N, n) == n \in Nat /\ N \in SUBSET Nat /\ {0, 10 * n, 10 * n + 1, 10 * n + 2} \subseteq N

LEMMA OneIsClean ==
    ASSUME NEW a, NEW new, NEW N, NEW q, IsClean(q, N), OfTool(a, new, q)
    PROVE  AreClean(a, new, N, <<q>>)
  <1>1. IsSequence(<<q>>) /\ Len(<<q>>) = 1 /\ <<q>>[1] = q BY OneIsSequence
  <1>2. DOMAIN <<q>> = 1..1 BY <1>1 DEF IsSequence
  <1> QED BY <1>1, <1>2 DEF AreClean

LEMMA JoinedClean ==
    ASSUME NEW a, NEW new, NEW N, NEW s, AreClean(a, new, N, s), NEW t, AreClean(a, new, N, t)
    PROVE  AreClean(a, new, N, s \o t)
  <1>1. IsSequence(s) /\ IsSequence(t) /\ DOMAIN s = 1..Len(s) /\ DOMAIN t = 1..Len(t)
    BY DEF AreClean, IsSequence
  <1>2. /\ IsSequence(s \o t) /\ Len(s) \in Nat
        /\ \A i \in 1..Len(s \o t) : IF i <= Len(s) THEN (s \o t)[i] = s[i]
                                        ELSE i - Len(s) \in 1..Len(t) /\ (s \o t)[i] = t[i - Len(s)]
    BY <1>1, JoinedSequences
  <1>3. DOMAIN (s \o t) = 1..Len(s \o t) BY <1>2 DEF IsSequence
  <1> SUFFICES ASSUME NEW i \in 1..Len(s \o t) PROVE IsClean((s \o t)[i], N) /\ OfTool(a, new, (s \o t)[i])
    BY <1>2, <1>3 DEF AreClean
  <1>4. CASE i <= Len(s)
    <2>1. i \in 1..Len(s) /\ (s \o t)[i] = s[i] BY <1>2, <1>4
    <2> QED BY <1>1, <2>1 DEF AreClean
  <1>5. CASE ~(i <= Len(s))
    <2>1. i - Len(s) \in 1..Len(t) /\ (s \o t)[i] = t[i - Len(s)] BY <1>2, <1>5
    <2> QED BY <1>1, <2>1 DEF AreClean
  <1> QED BY <1>4, <1>5

\* One request for each of a list.
LEMMA EachIsClean ==
    ASSUME NEW a, NEW new, NEW N, NEW list, IsSequence(list), NEW v, v = [i \in DOMAIN list |-> v[i]],
           \A i \in DOMAIN list : IsClean(v[i], N) /\ OfTool(a, new, v[i])
    PROVE  AreClean(a, new, N, v)
  <1>1. IsSequence(v) /\ DOMAIN v = DOMAIN list BY MappedSequence
  <1> QED BY <1>1 DEF AreClean

LEMMA NoneIsClean == \A a, new, N : AreClean(a, new, N, <<>>)
  <1>1. IsSequence(<<>>) /\ DOMAIN <<>> = {} BY EmptyIsSequence
  <1> QED BY <1>1 DEF AreClean

LEMMA SlidesAskLittle ==
    ASSUME NEW a, NEW new, NEW N
    PROVE  /\ AsksCleanly(a, new, N, Slides!Read) /\ AsksCleanly(a, new, N, Slides!Decline) /\ AsksCleanly(a, new, N, Slides!Finish)
           /\ \A op \in {"read", "create", "share", "link", "drop"} : AsksCleanly(a, new, N, Slides!Ask(op))
           /\ \A requests : AreClean(a, new, N, requests) =>
                  /\ AsksCleanly(a, new, N, Slides!Send(requests))
                  /\ \A saw, n : AsksCleanly(a, new, N, Slides!Last(saw, n, requests))
  <1>1. /\ Slides!Read.op # "batch" /\ Slides!Decline.op # "batch" /\ Slides!Finish.op # "batch"
        /\ \A op : Slides!Ask(op).op = op
    BY DEF Slides!Read, Slides!Decline, Slides!Finish, Slides!Ask
  <1>2. \A requests : Slides!Send(requests).requests = requests BY DEF Slides!Send
  <1>3. \A requests, saw, n : Slides!Last(saw, n, requests) \in {Slides!Send(requests), Slides!Finish}
    BY DEF Slides!Last
  <1>4. AsksCleanly(a, new, N, Slides!Read) /\ AsksCleanly(a, new, N, Slides!Decline) /\ AsksCleanly(a, new, N, Slides!Finish)
    BY <1>1 DEF AsksCleanly
  <1>5. \A op \in {"read", "create", "share", "link", "drop"} : AsksCleanly(a, new, N, Slides!Ask(op))
    BY <1>1 DEF AsksCleanly
  <1>6. ASSUME NEW requests, AreClean(a, new, N, requests) PROVE AsksCleanly(a, new, N, Slides!Send(requests))
    BY <1>2, <1>6 DEF AsksCleanly
  <1> QED BY <1>3, <1>4, <1>5, <1>6

\* Tools whose requests may be of any kind.
Free == SlideTools \ (Slides!OnObject \cup Slides!OnSlide \cup {"updateGoogleSlidesSpeakerNotes"})

LEMMA ElementsAreClean ==
    ASSUME NEW a, NEW new, NEW N, NEW q, q.op \in ElementOps
    PROVE  /\ IsClean(q, N)
           /\ a.tool \in Slides!OnObject /\ q.id = a.id => OfTool(a, new, q)
           /\ a.tool \in Boxes /\ q.id = new => OfTool(a, new, q)
           /\ a.tool = "updateGoogleSlidesSpeakerNotes" /\ IsNotes(q.id) => OfTool(a, new, q)
  <1>1. IsClean(q, N) BY DEF IsClean, ElementOps
  <1> QED BY <1>1 DEF OfTool, Slides!OnObject, Slides!OnSlide, Boxes

LEMMA FreeOfTool ==
    ASSUME NEW a, a.tool \in Free \cup {"batch_update_presentation"}
    PROVE  \A new, q : OfTool(a, new, q)
  BY DEF Free, OfTool, Slides!OnObject, Slides!OnSlide, Boxes

\* Requests that style the text of an object, one for each attribute.
Styles(a, id, from, to, on) ==
    LET list == Slides!Enumerations!SetToSeq(a.attrs) IN
      [i \in DOMAIN list |-> [op |-> "updateTextStyle", id |-> id, from |-> from, to |-> to, attr |-> list[i], on |-> on]]

LEMMA StylesAreClean ==
    ASSUME NEW a, NEW new, NEW N, IsFiniteSet(a.attrs), NEW id,
           \/ a.tool \in Slides!OnObject /\ id = a.id
           \/ a.tool \in Boxes /\ id = new
    PROVE  /\ AreClean(a, new, N, Slides!Attributes(a, id))
           /\ \A from, to, on : AreClean(a, new, N, Styles(a, id, from, to, on))
  <1> DEFINE list == Slides!Enumerations!SetToSeq(a.attrs)
  <1>1. IsSequence(list) BY Enumerated, SequenceOf
  <1>2. \A q : q.op \in ElementOps /\ q.id = id => IsClean(q, N) /\ OfTool(a, new, q)
    BY ElementsAreClean
  <1>3. AreClean(a, new, N, Slides!Attributes(a, id))
    <2> DEFINE v == [i \in DOMAIN list |-> [op |-> "updateAttributes", id |-> id, attr |-> list[i], on |-> a.on]]
    <2>1. Slides!Attributes(a, id) = v BY DEF Slides!Attributes, Slides!OneEach
    <2>2. v = [i \in DOMAIN list |-> v[i]] /\ \A i \in DOMAIN list : v[i].op \in ElementOps /\ v[i].id = id
      BY DEF ElementOps
    <2> HIDE DEF v, list
    <2>3. AreClean(a, new, N, v) BY <1>1, <1>2, <2>2, EachIsClean
    <2> QED BY <2>1, <2>3
  <1>4. ASSUME NEW from, NEW to, NEW on PROVE AreClean(a, new, N, Styles(a, id, from, to, on))
    <2> DEFINE v == Styles(a, id, from, to, on)
    <2>1. v = [i \in DOMAIN list |-> v[i]] /\ \A i \in DOMAIN list : v[i].op \in ElementOps /\ v[i].id = id
      BY DEF Styles, ElementOps
    <2> HIDE DEF v, list
    <2>2. AreClean(a, new, N, v) BY <1>1, <1>2, <2>1, EachIsClean
    <2> QED BY <2>2 DEF v
  <1> QED BY <1>3, <1>4

LEMMA AskOnObject ==
    ASSUME NEW a, a.tool \in Slides!OnObject, IsFiniteSet(a.attrs), NEW new, NEW N, NEW saw,
           NEW h \in {Slides!formatGoogleSlidesText(a, saw), Slides!formatGoogleSlidesParagraph(a, saw),
                      Slides!styleGoogleSlidesShape(a, saw), Slides!moveSlideElement(a, saw)}
    PROVE  AsksCleanly(a, new, N, h)
  <1>1. CASE h = Slides!formatGoogleSlidesText(a, saw)
    <2> DEFINE r == Styles(a, a.id, a.from, a.to, a.on)
    <2>1. h \in {Slides!Decline, Slides!Last(saw, 0, r)}
      BY <1>1 DEF Slides!formatGoogleSlidesText, Slides!OneEach, Styles
    <2>2. AreClean(a, new, N, r) BY StylesAreClean
    <2> HIDE DEF r
    <2> QED BY <2>1, <2>2, SlidesAskLittle
  <1>2. CASE h \in {Slides!formatGoogleSlidesParagraph(a, saw), Slides!styleGoogleSlidesShape(a, saw)}
    <2>1. h \in {Slides!Decline, Slides!Last(saw, 0, Slides!Attributes(a, a.id))}
      BY <1>2 DEF Slides!formatGoogleSlidesParagraph, Slides!styleGoogleSlidesShape
    <2>2. AreClean(a, new, N, Slides!Attributes(a, a.id)) BY StylesAreClean
    <2> QED BY <2>1, <2>2, SlidesAskLittle
  <1>3. CASE h = Slides!moveSlideElement(a, saw)
    <2>1. \/ h \in {Slides!Read, Slides!Decline}
          \/ \E scale, x : h = Slides!Last(saw, 1, <<[op |-> "updateTransform", id |-> a.id, scale |-> scale, x |-> x]>>)
      BY Zenon, <1>3 DEF Slides!moveSlideElement
    <2>2. ASSUME NEW scale, NEW x
          PROVE  AreClean(a, new, N, <<[op |-> "updateTransform", id |-> a.id, scale |-> scale, x |-> x]>>)
      <3> DEFINE q == [op |-> "updateTransform", id |-> a.id, scale |-> scale, x |-> x]
      <3>1. q.op \in ElementOps /\ q.id = a.id BY DEF ElementOps
      <3> HIDE DEF q
      <3>2. IsClean(q, N) /\ OfTool(a, new, q) BY <3>1, ElementsAreClean
      <3>3. AreClean(a, new, N, <<q>>) BY <3>2, OneIsClean
      <3> QED BY <3>3 DEF q
    <2> QED BY <2>1, <2>2, SlidesAskLittle
  <1> QED BY <1>1, <1>2, <1>3

NewId(n) == <<10 * n, 1>>

LEMMA MakingIsClean ==
    ASSUME NEW a, NEW N, NEW n, HoldsOwn(N, n), NEW q, q.page = a.page, q.id = NewId(n),
           \/ a.tool \in Boxes /\ q.op = "createShape"
           \/ a.tool \in Slides!OnSlide \ Boxes /\ q.op = "createImage"
    PROVE  IsClean(q, N) /\ OfTool(a, NewId(n), q)
  <1>1. 10 * n \in N BY DEF HoldsOwn
  <1>2. IsClean(q, N) BY <1>1 DEF IsClean, Slides!PageRequests, NewId
  <1>3. OfTool(a, NewId(n), q) BY DEF OfTool, Boxes, Slides!OnObject, Slides!OnSlide
  <1> QED BY <1>2, <1>3

LEMMA PairIsJoined == \A x, y : <<x>> \o <<y>> = <<x, y>>
  <1> SUFFICES ASSUME NEW x, NEW y PROVE <<x>> \o <<y>> = <<x, y>> BY Zenon
  <1>1. <<x>> \in Seq({x, y}) /\ <<y>> \in Seq({x, y}) /\ <<x, y>> \in Seq({x, y}) OBVIOUS
  <1>2. Len(<<x>>) = 1 /\ Len(<<y>>) = 1 /\ Len(<<x, y>>) = 2 /\ <<x>>[1] = x /\ <<y>>[1] = y /\ <<x, y>>[1] = x /\ <<x, y>>[2] = y
    OBVIOUS
  <1> DEFINE u == <<x>>
             v == <<y>>
             w == <<x, y>>
  <1> HIDE DEF u, v, w
  <1>3. u \in Seq({x, y}) /\ v \in Seq({x, y}) /\ w \in Seq({x, y}) /\ Len(u) = 1 /\ Len(v) = 1 /\ Len(w) = 2
        /\ u[1] = x /\ v[1] = y /\ w[1] = x /\ w[2] = y
    BY <1>1, <1>2 DEF u, v, w
  <1>4. u \o v \in Seq({x, y}) /\ Len(u \o v) = 2 /\ (u \o v)[1] = x /\ (u \o v)[2] = y
    BY SMTT(30), <1>3
  <1>5. u \o v = w BY <1>3, <1>4
  <1> QED BY <1>5 DEF u, v, w

LEMMA AskForBox ==
    ASSUME NEW a, a.tool \in Boxes, IsFiniteSet(a.attrs), NEW N, NEW n, HoldsOwn(N, n), NEW saw,
           NEW h \in {Slides!createGoogleSlidesTextBox(a, saw, n), Slides!createGoogleSlidesShape(a, saw, n)}
    PROVE  AsksCleanly(a, NewId(n), N, h)
  <1> DEFINE make == [op |-> "createShape", page |-> a.page, id |-> NewId(n)]
             fill == [op |-> "insertText", id |-> NewId(n), text |-> a.text]
  <1>1. IsClean(make, N) /\ OfTool(a, NewId(n), make)
    <2>1. make.op = "createShape" /\ make.page = a.page /\ make.id = NewId(n) OBVIOUS
    <2> HIDE DEF make
    <2> QED BY <2>1, MakingIsClean
  <1>2. IsClean(fill, N) /\ OfTool(a, NewId(n), fill)
    <2>1. fill.op \in ElementOps /\ fill.id = NewId(n) BY DEF ElementOps
    <2> HIDE DEF fill
    <2> QED BY <2>1, ElementsAreClean
  <1>3. CASE h = Slides!createGoogleSlidesTextBox(a, saw, n)
    <2> DEFINE r == (<<make, fill>>) \o Styles(a, NewId(n), 0, None, TRUE)
    <2>1. h = Slides!Last(saw, 0, r)
      BY <1>3 DEF Slides!createGoogleSlidesTextBox, Slides!OneEach, Slides!InsertText, Styles, NewId
    <2> HIDE DEF make, fill
    <2>2. AreClean(a, NewId(n), N, <<make>>) /\ AreClean(a, NewId(n), N, <<fill>>)
      BY <1>1, <1>2, OneIsClean
    <2>3. <<make>> \o <<fill>> = <<make, fill>> BY PairIsJoined
    <2>4. AreClean(a, NewId(n), N, <<make, fill>>) BY <2>2, <2>3, JoinedClean
    <2>5. AreClean(a, NewId(n), N, Styles(a, NewId(n), 0, None, TRUE)) BY StylesAreClean
    <2>6. AreClean(a, NewId(n), N, r) BY <2>4, <2>5, JoinedClean
    <2> HIDE DEF r
    <2> QED BY <2>1, <2>6, SlidesAskLittle
  <1>4. CASE h = Slides!createGoogleSlidesShape(a, saw, n)
    <2> DEFINE r == (<<make>>) \o Slides!Attributes(a, NewId(n))
    <2>1. h = Slides!Last(saw, 0, r) BY <1>4 DEF Slides!createGoogleSlidesShape, NewId
    <2> HIDE DEF make
    <2>2. AreClean(a, NewId(n), N, <<make>>) BY <1>1, OneIsClean
    <2>3. AreClean(a, NewId(n), N, Slides!Attributes(a, NewId(n))) BY StylesAreClean
    <2>4. AreClean(a, NewId(n), N, r) BY <2>2, <2>3, JoinedClean
    <2> HIDE DEF r
    <2> QED BY <2>1, <2>4, SlidesAskLittle
  <1> QED BY <1>3, <1>4

LEMMA AskForImage ==
    ASSUME NEW a, a.tool \in Slides!OnSlide \ Boxes, NEW N, NEW n, HoldsOwn(N, n), NEW saw,
           a.tool = "insertSlidesLocalImage" => Len(saw) \in 0..4,
           NEW h, \/ h = Slides!insertSlidesImageFromUrl(a, saw, n)
                  \/ h = Slides!insertSlidesLocalImage(a, saw, n) /\ a.tool = "insertSlidesLocalImage"
    PROVE  AsksCleanly(a, NewId(n), N, h)
  <1> DEFINE q == [op |-> "createImage", page |-> a.page, id |-> NewId(n)]
             r == Slides!insertImageIntoSlide(a, n)
  <1>1. AreClean(a, NewId(n), N, r)
    <2>1. q.op = "createImage" /\ q.page = a.page /\ q.id = NewId(n) /\ r = <<q>>
      BY DEF Slides!insertImageIntoSlide, NewId
    <2> HIDE DEF q, r
    <2>2. IsClean(q, N) /\ OfTool(a, NewId(n), q) BY <2>1, MakingIsClean
    <2> QED BY <2>1, <2>2, OneIsClean
  <1> HIDE DEF r
  <1>2. CASE h = Slides!insertSlidesImageFromUrl(a, saw, n)
    <2>1. h = Slides!Last(saw, 0, r) BY <1>2 DEF Slides!insertSlidesImageFromUrl, r
    <2> QED BY <1>1, <2>1, SlidesAskLittle
  <1>3. CASE h = Slides!insertSlidesLocalImage(a, saw, n) /\ a.tool = "insertSlidesLocalImage"
    <2> DEFINE m == Len(saw)
    <2>1. m \in {0, 1, 2} \/ m = 3 \/ m = 4 BY <1>3
    <2>2. CASE m \in {0, 1, 2}
      <3>0. \A k \in {0, 1, 2} : k < 3 /\ k # 3 /\ k # 4 /\ k # 5 /\ k \in Nat OBVIOUS
      <3>1. m < 3 /\ m # 3 /\ m # 4 /\ m # 5 /\ m \in Nat BY <2>2, <3>0
      <3>2. h = Slides!Ask(<<"create", "share", "link">>[m + 1])
        BY <1>3, <3>1 DEF Slides!insertSlidesLocalImage, Slides!UploadImage
      <3>3. <<"create", "share", "link">>[m + 1] \in {"create", "share", "link"}
        BY <3>1, FirstThree DEF Upload
      <3> QED BY <3>2, <3>3, SlidesAskLittle
    <2>3. CASE m = 3
      <3>1. h = Slides!Send(r) BY <1>3, <2>3 DEF Slides!insertSlidesLocalImage, r
      <3> QED BY <1>1, <3>1, SlidesAskLittle
    <2>4. CASE m = 4
      <3>1. h = Slides!Ask("drop") BY <1>3, <2>4 DEF Slides!insertSlidesLocalImage
      <3> QED BY <3>1, SlidesAskLittle
    <2> QED BY <2>1, <2>2, <2>3, <2>4
  <1> QED BY <1>2, <1>3

\* Requests of the tools that may change anything.
LEMMA FreelyClean ==
    ASSUME NEW a, a.tool \in Free \cup {"batch_update_presentation"}, NEW new, NEW N, NEW q, IsClean(q, N)
    PROVE  AreClean(a, new, N, <<q>>)
  BY OneIsClean, FreeOfTool

LEMMA AskFreely ==
    ASSUME NEW a, NEW m, PlainSlide(a, m), m \in Nat, a.tool \in Free \ {"updateGoogleSlides"}, NEW new, NEW N, NEW saw
    PROVE  \A n : AsksCleanly(a, new, N, Slides!Handler(a, saw, n))
  <1> SUFFICES ASSUME NEW n PROVE AsksCleanly(a, new, N, Slides!Handler(a, saw, n)) OBVIOUS
  <1> DEFINE h == Slides!Handler(a, saw, n)
  <1>1. CASE a.tool = "setGoogleSlidesBackground"
    <2> DEFINE r == [i \in DOMAIN a.ids |-> [op |-> "updatePage", page |-> a.ids[i]]]
    <2>1. h = Slides!Last(saw, 0, r) BY <1>1 DEF Slides!Handler, Slides!setGoogleSlidesBackground
    <2>2. IsSequence(a.ids) BY <1>1 DEF PlainSlide
    <2>3. r = [i \in DOMAIN a.ids |-> r[i]] /\ \A i \in DOMAIN a.ids : r[i].op = "updatePage"
      OBVIOUS
    <2> HIDE DEF h, r
    <2>4. \A i \in DOMAIN a.ids : IsClean(r[i], N) /\ OfTool(a, new, r[i])
      BY <2>3, FreeOfTool DEF IsClean, Slides!PageRequests
    <2>5. AreClean(a, new, N, r) BY <2>2, <2>3, <2>4, EachIsClean
    <2>6. AsksCleanly(a, new, N, h) BY <2>1, <2>5, SlidesAskLittle
    <2> QED BY <2>6 DEF h
  <1>2. ASSUME NEW q, h = Slides!Last(saw, 0, <<q>>), IsClean(q, N) PROVE AsksCleanly(a, new, N, h)
    <2>1. AreClean(a, new, N, <<q>>) BY <1>2, FreelyClean
    <2> HIDE DEF h
    <2> QED BY <1>2, <2>1, SlidesAskLittle
  <1>3. CASE a.tool = "deleteGoogleSlide"
    <2> DEFINE q == [op |-> "deleteObject", id |-> a.page]
    <2>1. h = Slides!Last(saw, 0, <<q>>) BY <1>3 DEF Slides!Handler, Slides!deleteGoogleSlide
    <2>2. IsClean(q, N) BY DEF IsClean, ElementOps, Slides!PageRequests
    <2> HIDE DEF q, h
    <2>9. AsksCleanly(a, new, N, h) BY <1>2, <2>1, <2>2
    <2> QED BY <2>9 DEF h
  <1>4. CASE a.tool = "duplicateSlide"
    <2> DEFINE q == [op |-> "duplicateObject", page |-> a.page]
    <2>1. h = Slides!Last(saw, 0, <<q>>) BY <1>4 DEF Slides!Handler, Slides!duplicateSlide
    <2>2. IsClean(q, N) BY DEF IsClean, ElementOps, Slides!PageRequests
    <2> HIDE DEF q, h
    <2>9. AsksCleanly(a, new, N, h) BY <1>2, <2>1, <2>2
    <2> QED BY <2>9 DEF h
  <1>5. CASE a.tool = "reorderSlides"
    <2> DEFINE q == [op |-> "updateSlidesPosition", ids |-> a.ids, index |-> a.index]
    <2>1. h = Slides!Last(saw, 0, <<q>>) BY <1>5 DEF Slides!Handler, Slides!reorderSlides
    <2>2. a.index \in Nat BY <1>5 DEF PlainSlide, Indexes
    <2>3. IsClean(q, N) BY <2>2 DEF IsClean, ElementOps, Slides!PageRequests
    <2> HIDE DEF q, h
    <2>9. AsksCleanly(a, new, N, h) BY <1>2, <2>1, <2>3
    <2> QED BY <2>9 DEF h
  <1>6. CASE a.tool = "replaceAllTextInSlides"
    <2> DEFINE q == [op |-> "replaceAllText", find |-> Needle, text |-> a.text]
    <2>1. h = Slides!Last(saw, 0, <<q>>) BY <1>6 DEF Slides!Handler, Slides!replaceAllTextInSlides
    <2>2. IsClean(q, N) BY DEF IsClean, ElementOps, Slides!PageRequests
    <2> HIDE DEF q, h
    <2>9. AsksCleanly(a, new, N, h) BY <1>2, <2>1, <2>2
    <2> QED BY <2>9 DEF h
  <1>7. CASE a.tool = "deleteSlideElement"
    <2> DEFINE q == [op |-> "deleteObject", id |-> a.id]
    <2>1. h = Slides!Last(saw, 0, <<q>>) BY <1>7 DEF Slides!Handler, Slides!deleteSlideElement
    <2>2. IsClean(q, N) BY DEF IsClean, ElementOps, Slides!PageRequests
    <2> HIDE DEF q, h
    <2>9. AsksCleanly(a, new, N, h) BY <1>2, <2>1, <2>2
    <2> QED BY <2>9 DEF h
  <1> QED BY <1>1, <1>3, <1>4, <1>5, <1>6, <1>7 DEF Free, SlideTools, Slides!OnObject, Slides!OnSlide

LEMMA AskForNotes ==
    ASSUME NEW a, a.tool = "updateGoogleSlidesSpeakerNotes", a.index \in Nat, NEW new, NEW N,
           NEW saw, IsSequence(saw), \A i \in DOMAIN saw : Slides!IsPresentation(saw[i])
    PROVE  AsksCleanly(a, new, N, Slides!updateGoogleSlidesSpeakerNotes(a, saw))
  <1> DEFINE notes == saw[1].slides[a.index + 1].notes
             d == [op |-> "deleteText", id |-> notes.id]
             q == Slides!InsertText(notes.id, a.text)
             h == Slides!updateGoogleSlidesSpeakerNotes(a, saw)
  <1>1. \/ h \in {Slides!Read, Slides!Decline}
        \/ /\ saw # <<>> /\ ~(a.index >= Len(saw[1].slides)) /\ notes # None
           /\ h \in {Slides!Last(saw, 1, (<<>>) \o <<q>>), Slides!Last(saw, 1, (<<d>>) \o <<q>>)}
    BY DEF Slides!updateGoogleSlidesSpeakerNotes
  <1>2. q.op \in ElementOps /\ q.id = notes.id /\ d.op \in ElementOps /\ d.id = notes.id
    BY DEF Slides!InsertText, ElementOps
  <1>3. ASSUME saw # <<>>, ~(a.index >= Len(saw[1].slides)), notes # None PROVE IsNotes(notes.id)
    <2>1. 1 \in DOMAIN saw
      <3>1. Len(saw) \in Nat /\ Len(saw) # 0 /\ DOMAIN saw = 1..Len(saw) BY <1>3 DEF IsSequence
      <3>2. \A k \in Nat : k # 0 => 1 \in 1..k OBVIOUS
      <3> QED BY <3>1, <3>2
    <2> DEFINE p == saw[1]
               i == a.index + 1
    <2>2. /\ p.slides \in Seq(Slides!SlidesOf(p)) /\ \A s \in Slides!SlidesOf(p) : Slides!IsSlide(s)
      BY <2>1 DEF Slides!IsPresentation
    <2>3. i \in DOMAIN p.slides
      <3> DEFINE m == Len(p.slides)
      <3>1. m \in Nat /\ DOMAIN p.slides = 1..m BY <2>2
      <3>2. \A k, l \in Nat : ~(k >= l) => k + 1 \in 1..l OBVIOUS
      <3> QED BY <1>3, <3>1, <3>2
    <2>4. Slides!IsSlide(p.slides[i])
      <3> HIDE DEF p, i
      <3> QED BY <2>2, <2>3 DEF Slides!SlidesOf
    <2> HIDE DEF p, i
    <2>5. p.slides[i].notes # None => p.slides[i].notes.id[2] % 10 = 3 BY <2>4 DEF Slides!IsSlide
    <2> QED BY <1>3, <2>5 DEF IsNotes, p, i
  <1> HIDE DEF notes, d, q, h
  <1>4. CASE h \in {Slides!Read, Slides!Decline}
    <2>1. AsksCleanly(a, new, N, h) BY <1>4, SlidesAskLittle
    <2> QED BY <2>1 DEF h
  <1>5. CASE saw # <<>> /\ ~(a.index >= Len(saw[1].slides)) /\ notes # None
             /\ h \in {Slides!Last(saw, 1, (<<>>) \o <<q>>), Slides!Last(saw, 1, (<<d>>) \o <<q>>)}
    <2>1. IsClean(q, N) /\ OfTool(a, new, q) /\ IsClean(d, N) /\ OfTool(a, new, d)
      BY <1>2, <1>3, <1>5, ElementsAreClean
    <2>2. AreClean(a, new, N, <<q>>) /\ AreClean(a, new, N, <<d>>) /\ AreClean(a, new, N, <<>>)
      BY <2>1, OneIsClean, NoneIsClean
    <2>3. AreClean(a, new, N, (<<>>) \o <<q>>) /\ AreClean(a, new, N, (<<d>>) \o <<q>>)
      BY <2>2, JoinedClean
    <2>4. AsksCleanly(a, new, N, h) BY <1>5, <2>3, SlidesAskLittle
    <2> QED BY <2>4 DEF h
  <1> QED BY SMTT(30), <1>1, <1>4, <1>5

Into(slide, among) == Slides!Those(slide.elements, {e \in among : e.kind \in Slides!Placeholders})

Fill(slide, among, content) ==
    [i \in DOMAIN Into(slide, among) |-> Slides!InsertText(Into(slide, among)[i].id, content[Into(slide, among)[i].kind])]

\* The second and the third slide are filled after they have been made.
More(saw, a, i) == IF i > Len(saw[3].slides) THEN <<>> ELSE Fill(saw[3].slides[i], Slides!ElementsOf(saw[3].slides[i]), a.slides[i])

ContentsRun(g, saw, a) == g = [i \in 1..Len(a.slides) |-> IF i = 1 THEN <<>> ELSE g[i - 1] \o More(saw, a, i)]

Contents(saw, a) == CHOOSE g : ContentsRun(g, saw, a)

LEMMA ContentsAre ==
    ASSUME NEW a, NEW saw, Len(a.slides) \in {2, 3}
    PROVE  LET c == Contents(saw, a) IN
             /\ c[1] = <<>> /\ c[2] = c[1] \o More(saw, a, 2)
             /\ Len(a.slides) = 3 => c[3] = c[2] \o More(saw, a, 3)
  <1> DEFINE m == Len(a.slides)
             two == (<<>>) \o More(saw, a, 2)
             f == [i \in 1..m |-> IF i = 1 THEN <<>> ELSE IF i = 2 THEN two ELSE two \o More(saw, a, 3)]
             c == Contents(saw, a)
  <1>0. \A k \in {2, 3} : /\ 1 \in 1..k /\ 2 \in 1..k /\ (k = 3 => 3 \in 1..k)
                          /\ \A i \in 1..k : i = 1 \/ (i = 2 /\ i - 1 = 1) \/ (i = 3 /\ i - 1 = 2)
    OBVIOUS
  <1>1. /\ 1 \in 1..m /\ 2 \in 1..m /\ (m = 3 => 3 \in 1..m)
        /\ \A i \in 1..m : i = 1 \/ (i = 2 /\ i - 1 = 1) \/ (i = 3 /\ i - 1 = 2)
    BY <1>0
  <1>2. ContentsRun(f, saw, a)
    <2> HIDE DEF two
    <2>1. f[1] = <<>> /\ f[2] = two
      <3> HIDE DEF m
      <3> QED BY <1>1
    <2>2. \A i \in 1..m : f[i] = IF i = 1 THEN <<>> ELSE f[i - 1] \o More(saw, a, i)
      <3> SUFFICES ASSUME NEW i \in 1..m PROVE f[i] = IF i = 1 THEN <<>> ELSE f[i - 1] \o More(saw, a, i)
        OBVIOUS
      <3>1. CASE i = 1 BY <2>1, <3>1
      <3>2. CASE i = 2 /\ i - 1 = 1
        <4>1. f[i] = two /\ f[i - 1] = <<>> BY <2>1, <3>2
        <4> QED BY <3>2, <4>1 DEF two
      <3>3. CASE i = 3 /\ i - 1 = 2
        <4>1. f[i] = two \o More(saw, a, 3) BY <3>3
        <4>2. f[i - 1] = two BY <2>1, <3>3
        <4> QED BY <3>3, <4>1, <4>2
      <3> QED BY <1>1, <3>1, <3>2, <3>3
    <2>3. f = [i \in 1..m |-> f[i]] OBVIOUS
    <2> HIDE DEF f
    <2>4. f = [i \in 1..m |-> IF i = 1 THEN <<>> ELSE f[i - 1] \o More(saw, a, i)] BY <2>2, <2>3
    <2> QED BY <2>4 DEF ContentsRun
  <1>3. ContentsRun(c, saw, a) BY <1>2 DEF Contents
  <1> HIDE DEF c
  <1>4. \A i \in 1..m : c[i] = IF i = 1 THEN <<>> ELSE c[i - 1] \o More(saw, a, i)
    BY <1>3 DEF ContentsRun
  <1>5. \A i \in 1..m : \A j : j = i - 1 => c[i] = IF i = 1 THEN <<>> ELSE c[j] \o More(saw, a, i)
    BY <1>4
  <1>6. 1 = 2 - 1 /\ 2 = 3 - 1 /\ 2 # 1 /\ 3 # 1 OBVIOUS
  <1>7. c[1] = <<>> BY Zenon, <1>1, <1>4
  <1>8. c[2] = c[1] \o More(saw, a, 2) BY Zenon, <1>1, <1>5, <1>6
  <1>9. m = 3 => c[3] = c[2] \o More(saw, a, 3) BY Zenon, <1>1, <1>5, <1>6
  <1> QED BY Zenon, <1>7, <1>8, <1>9 DEF c

LEMMA RangeIsClean ==
    ASSUME NEW a, NEW new, NEW N, NEW k \in Int, NEW v, v = [i \in 1..k |-> v[i]],
           \A i \in 1..k : IsClean(v[i], N) /\ OfTool(a, new, v[i])
    PROVE  AreClean(a, new, N, v)
  <1>1. CASE k >= 0
    <2>1. v \in Seq({v[i] : i \in 1..k}) /\ DOMAIN v = 1..k BY <1>1
    <2>2. IsSequence(v) BY <2>1, SequenceOf
    <2> QED BY <2>1, <2>2 DEF AreClean
  <1>2. CASE ~(k >= 0)
    <2>1. 1..k = 1..0 /\ DOMAIN v = 1..k BY <1>2
    <2>2. v \in Seq({}) BY <2>1
    <2>3. IsSequence(v) BY <2>2, SequenceOf
    <2> QED BY <2>1, <2>3 DEF AreClean
  <1> QED BY <1>1, <1>2

LEMMA FillIsClean ==
    ASSUME NEW a, a.tool = "updateGoogleSlides", NEW new, NEW N, NEW slide, Slides!IsSlide(slide), NEW among, NEW content
    PROVE  AreClean(a, new, N, Fill(slide, among, content))
  <1> DEFINE v == Fill(slide, among, content)
             into == Into(slide, among)
  <1>1. slide.elements \in Seq(Slides!ElementsOf(slide)) BY DEF Slides!IsSlide
  <1>2. \E T : into \in Seq(T) BY <1>1, ThoseAre DEF Into
  <1>3. IsSequence(into) BY <1>2, SequenceOf
  <1>4. v = [i \in DOMAIN into |-> v[i]] /\ \A i \in DOMAIN into : v[i].op \in ElementOps
    BY DEF Fill, Slides!InsertText, ElementOps
  <1> HIDE DEF v, into
  <1>5. \A i \in DOMAIN into : IsClean(v[i], N) /\ OfTool(a, new, v[i])
    BY <1>4, ElementsAreClean, FreeOfTool DEF Free, SlideTools, Slides!OnObject, Slides!OnSlide
  <1>6. AreClean(a, new, N, v) BY <1>3, <1>4, <1>5, EachIsClean
  <1> QED BY <1>6 DEF v

\* The list that clears the first slide, and makes the others.
Clear(slide) ==
    LET full == Slides!Those(slide.elements, {e \in Slides!ElementsOf(slide) : e.text # <<>>}) IN
      [i \in DOMAIN full |-> [op |-> "deleteText", id |-> full[i].id]]

DeleteOthers(p) == [i \in 1..(Len(p.slides) - 1) |-> [op |-> "deleteObject", id |-> p.slides[i + 1].id]]

CreateOthers(a, n) == [i \in 1..(Len(a.slides) - 1) |-> [op |-> "createSlide", id |-> <<10 * n + i, 0>>]]

Refill(a, p, n) ==
    DeleteOthers(p) \o Clear(p.slides[1]) \o Fill(p.slides[1], Slides!LastOfKind(p.slides[1]), a.slides[1]) \o CreateOthers(a, n)

LEMMA RefillIs ==
    ASSUME NEW a, NEW saw, NEW n
    PROVE  Slides!updateGoogleSlides(a, saw, n) =
             CASE saw = <<>> -> Slides!Read
               [] Len(saw) = 1 -> IF saw[1].slides = <<>> \/ a.slides = <<>> THEN Slides!Decline
                                  ELSE Slides!Send(Refill(a, saw[1], n))
               [] Len(saw) = 2 -> IF Len(a.slides) > 1 THEN Slides!Read ELSE Slides!Finish
               [] Len(saw) = 3 -> IF Contents(saw, a)[Len(a.slides)] = <<>> THEN Slides!Finish
                                  ELSE Slides!Send(Contents(saw, a)[Len(a.slides)])
               [] Len(saw) = 4 -> Slides!Finish
  BY Zenon DEF Slides!updateGoogleSlides, Refill, Clear, DeleteOthers, CreateOthers, Fill, Into, Contents, ContentsRun, More

LEMMA SlidesInside ==
    ASSUME NEW p, Slides!IsPresentation(p), NEW i \in Nat, i >= 1, ~(i > Len(p.slides))
    PROVE  Slides!IsSlide(p.slides[i]) /\ Len(p.slides) \in Nat /\ DOMAIN p.slides = 1..Len(p.slides)
  <1>1. p.slides \in Seq(Slides!SlidesOf(p)) /\ \A s \in Slides!SlidesOf(p) : Slides!IsSlide(s)
    BY DEF Slides!IsPresentation
  <1>2. Len(p.slides) \in Nat /\ DOMAIN p.slides = 1..Len(p.slides) BY <1>1
  <1>3. \A k \in Nat : ~(i > k) => i \in 1..k OBVIOUS
  <1>4. i \in DOMAIN p.slides BY <1>2, <1>3
  <1> QED BY <1>1, <1>2, <1>4 DEF Slides!SlidesOf

LEMMA RefillIsClean ==
    ASSUME NEW a, a.tool = "updateGoogleSlides", Len(a.slides) \in 0..3, NEW N, NEW n, HoldsOwn(N, n), NEW new,
           NEW p, Slides!IsPresentation(p), p.slides # <<>>
    PROVE  AreClean(a, new, N, Refill(a, p, n))
  <1>0. \A q : OfTool(a, new, q) BY FreeOfTool DEF Free, SlideTools, Slides!OnObject, Slides!OnSlide
  <1>1. p.slides \in Seq(Slides!SlidesOf(p)) BY DEF Slides!IsPresentation
  <1>2. Len(p.slides) \in Nat /\ Len(p.slides) # 0 BY <1>1
  <1>3. Slides!IsSlide(p.slides[1])
    <2>1. \A k \in Nat : k # 0 => ~(1 > k) OBVIOUS
    <2> QED BY <1>2, <2>1, SlidesInside
  <1>4. AreClean(a, new, N, DeleteOthers(p))
    <2> DEFINE k == Len(p.slides) - 1
               v == DeleteOthers(p)
    <2>1. k \in Int BY <1>2
    <2>2. v = [i \in 1..k |-> v[i]] /\ \A i \in 1..k : v[i].op = "deleteObject" BY DEF DeleteOthers
    <2> HIDE DEF k, v
    <2>3. \A i \in 1..k : IsClean(v[i], N) /\ OfTool(a, new, v[i])
      BY <1>0, <2>2 DEF IsClean, ElementOps, Slides!PageRequests
    <2>4. AreClean(a, new, N, v) BY <2>1, <2>2, <2>3, RangeIsClean
    <2> QED BY <2>4 DEF v
  <1>5. AreClean(a, new, N, Clear(p.slides[1]))
    <2> DEFINE slide == p.slides[1]
               full == Slides!Those(slide.elements, {e \in Slides!ElementsOf(slide) : e.text # <<>>})
               v == Clear(slide)
    <2>1. slide.elements \in Seq(Slides!ElementsOf(slide)) BY <1>3 DEF Slides!IsSlide
    <2>2. \E T : full \in Seq(T)
      <3> HIDE DEF slide
      <3> QED BY <2>1, ThoseAre
    <2>3. IsSequence(full) BY <2>2, SequenceOf
    <2>4. v = [i \in DOMAIN full |-> v[i]] /\ \A i \in DOMAIN full : v[i].op = "deleteText"
      BY DEF Clear
    <2> HIDE DEF v, full, slide
    <2>5. \A i \in DOMAIN full : IsClean(v[i], N) /\ OfTool(a, new, v[i])
      BY <1>0, <2>4 DEF IsClean, ElementOps, Slides!PageRequests
    <2>6. AreClean(a, new, N, v) BY <2>3, <2>4, <2>5, EachIsClean
    <2> QED BY <2>6 DEF v, slide
  <1>6. AreClean(a, new, N, Fill(p.slides[1], Slides!LastOfKind(p.slides[1]), a.slides[1])) BY <1>3, FillIsClean
  <1>7. AreClean(a, new, N, CreateOthers(a, n))
    <2> DEFINE k == Len(a.slides) - 1
               v == CreateOthers(a, n)
    <2>1. k \in Int /\ \A i \in 1..k : i \in {1, 2}
      <3>1. \A m \in 0..3 : m - 1 \in Int /\ \A i \in 1..(m - 1) : i \in {1, 2} OBVIOUS
      <3> QED BY <3>1
    <2>2. v = [i \in 1..k |-> v[i]] /\ \A i \in 1..k : v[i].op = "createSlide" /\ v[i].id[1] = 10 * n + i
      BY DEF CreateOthers
    <2> HIDE DEF k, v
    <2>3. \A i \in 1..k : 10 * n + i \in N BY <2>1 DEF HoldsOwn
    <2>4. \A i \in 1..k : IsClean(v[i], N) /\ OfTool(a, new, v[i])
      BY <1>0, <2>2, <2>3 DEF IsClean, ElementOps, Slides!PageRequests
    <2>5. AreClean(a, new, N, v) BY <2>1, <2>2, <2>4, RangeIsClean
    <2> QED BY <2>5 DEF v
  <1> DEFINE b == DeleteOthers(p)
             c == Clear(p.slides[1])
             d == Fill(p.slides[1], Slides!LastOfKind(p.slides[1]), a.slides[1])
             e == CreateOthers(a, n)
  <1> HIDE DEF b, c, d, e
  <1>8. AreClean(a, new, N, b) /\ AreClean(a, new, N, c) /\ AreClean(a, new, N, d) /\ AreClean(a, new, N, e)
    BY <1>4, <1>5, <1>6, <1>7 DEF b, c, d, e
  <1>9. AreClean(a, new, N, b \o c) BY <1>8, JoinedClean
  <1>10. AreClean(a, new, N, b \o c \o d) BY <1>8, <1>9, JoinedClean
  <1>11. AreClean(a, new, N, b \o c \o d \o e) BY <1>8, <1>10, JoinedClean
  <1> QED BY <1>11 DEF Refill, b, c, d, e

LEMMA MoreIsClean ==
    ASSUME NEW a, a.tool = "updateGoogleSlides", NEW new, NEW N, NEW saw, Slides!IsPresentation(saw[3]), NEW i \in {2, 3}
    PROVE  AreClean(a, new, N, More(saw, a, i))
  <1> DEFINE p == saw[3]
             m == More(saw, a, i)
  <1>1. m = IF i > Len(p.slides) THEN <<>> ELSE Fill(p.slides[i], Slides!ElementsOf(p.slides[i]), a.slides[i]) BY DEF More
  <1>2. Slides!IsPresentation(p) OBVIOUS
  <1> HIDE DEF p, m
  <1>3. CASE i > Len(p.slides)
    <2>1. AreClean(a, new, N, m) BY <1>1, <1>3, NoneIsClean
    <2> QED BY <2>1 DEF m
  <1>4. CASE ~(i > Len(p.slides))
    <2>1. i \in Nat /\ i >= 1 OBVIOUS
    <2>2. Slides!IsSlide(p.slides[i]) BY <1>2, <1>4, <2>1, SlidesInside
    <2>3. AreClean(a, new, N, Fill(p.slides[i], Slides!ElementsOf(p.slides[i]), a.slides[i])) BY <2>2, FillIsClean
    <2>4. AreClean(a, new, N, m) BY <1>1, <1>4, <2>3
    <2> QED BY <2>4 DEF m
  <1> QED BY <1>3, <1>4

\* It reads, makes one change, reads again and makes another.
RefillSaw(a, saw) ==
    /\ IsSequence(saw) /\ Len(saw) \in 0..4
    /\ \A i \in DOMAIN saw : Slides!IsPresentation(saw[i])
    /\ Len(saw) = 3 => Len(a.slides) \in {2, 3}

LEMMA AskRefill ==
    ASSUME NEW a, a.tool = "updateGoogleSlides", Len(a.slides) \in 0..3, NEW saw, RefillSaw(a, saw),
           NEW n, NEW N, HoldsOwn(N, n), NEW new
    PROVE  LET h == Slides!updateGoogleSlides(a, saw, n) IN
             /\ AsksCleanly(a, new, N, h)
             /\ h.op \in {"read", "batch", "finish", "decline"}
             /\ Len(saw) = 2 => Len(a.slides) \in {2, 3} \/ h.op = "finish"
             /\ Len(saw) = 4 => h.op = "finish"
  <1> DEFINE h == Slides!updateGoogleSlides(a, saw, n)
             fill == Refill(a, saw[1], n)
             rest == Contents(saw, a)[Len(a.slides)]
  <1>1. h = CASE saw = <<>> -> Slides!Read
              [] Len(saw) = 1 -> IF saw[1].slides = <<>> \/ a.slides = <<>> THEN Slides!Decline ELSE Slides!Send(fill)
              [] Len(saw) = 2 -> IF Len(a.slides) > 1 THEN Slides!Read ELSE Slides!Finish
              [] Len(saw) = 3 -> IF rest = <<>> THEN Slides!Finish ELSE Slides!Send(rest)
              [] Len(saw) = 4 -> Slides!Finish
    BY Zenon, RefillIs
  <1>2. /\ Slides!Read.op = "read" /\ Slides!Decline.op = "decline" /\ Slides!Finish.op = "finish"
        /\ \A requests : Slides!Send(requests).op = "batch"
    BY DEF Slides!Read, Slides!Decline, Slides!Finish, Slides!Send, Slides!Ask
  <1>3. IsSequence(saw) /\ Len(saw) \in 0..4 /\ DOMAIN saw = 1..Len(saw)
    BY DEF RefillSaw, IsSequence
  <1>4. \/ saw = <<>>
        \/ saw # <<>> /\ Len(saw) \in 1..4
    <2>1. saw # <<>> => Len(saw) # 0 BY <1>3 DEF IsSequence
    <2> QED BY <1>3, <2>1
  <1>5. ASSUME Len(saw) = 1, saw[1].slides # <<>> PROVE AreClean(a, new, N, fill)
    <2>1. Slides!IsPresentation(saw[1]) BY <1>3, <1>5 DEF RefillSaw
    <2> QED BY <1>5, <2>1, RefillIsClean
  <1>6. ASSUME Len(saw) = 3 PROVE AreClean(a, new, N, rest)
    <2>1. Slides!IsPresentation(saw[3]) BY <1>3, <1>6 DEF RefillSaw
    <2>2. Len(a.slides) \in {2, 3} BY <1>6 DEF RefillSaw
    <2> DEFINE c == Contents(saw, a)
               m2 == More(saw, a, 2)
               m3 == More(saw, a, 3)
    <2>3. c[1] = <<>> /\ c[2] = c[1] \o m2 /\ (Len(a.slides) = 3 => c[3] = c[2] \o m3)
      BY <2>2, ContentsAre
    <2>4. AreClean(a, new, N, m2) /\ AreClean(a, new, N, m3) BY <2>1, MoreIsClean
    <2>5. rest = c[Len(a.slides)] OBVIOUS
    <2> HIDE DEF c, m2, m3, rest
    <2>6. AreClean(a, new, N, c[1]) BY <2>3, NoneIsClean
    <2>7. AreClean(a, new, N, c[2]) BY <2>3, <2>4, <2>6, JoinedClean
    <2>8. Len(a.slides) = 3 => AreClean(a, new, N, c[3]) BY <2>3, <2>4, <2>7, JoinedClean
    <2>9. AreClean(a, new, N, rest) BY <2>2, <2>5, <2>7, <2>8
    <2> QED BY <2>9 DEF rest
  <1> HIDE DEF h, fill, rest
  <1>7. CASE saw = <<>>
    <2>3. Len(saw) = 0 BY <1>7
    <2>1. h = Slides!Read BY <1>1, <1>7, <2>3
    <2>2. AsksCleanly(a, new, N, h) /\ h.op = "read" BY <1>2, <2>1, SlidesAskLittle
    <2> QED BY <2>2, <2>3 DEF h
  <1>8. CASE saw # <<>> /\ Len(saw) = 1
    <2>1. h = Slides!Decline \/ (h = Slides!Send(fill) /\ saw[1].slides # <<>>) BY <1>1, <1>8
    <2>2. AsksCleanly(a, new, N, h) /\ h.op \in {"decline", "batch"}
      BY <1>2, <1>5, <1>8, <2>1, SlidesAskLittle
    <2> QED BY <1>8, <2>2 DEF h
  <1>9. CASE saw # <<>> /\ Len(saw) = 2
    <2>1. IF Len(a.slides) > 1 THEN h = Slides!Read ELSE h = Slides!Finish BY <1>1, <1>9
    <2>2. AsksCleanly(a, new, N, h) /\ h.op \in {"read", "finish"} /\ (Len(a.slides) > 1 \/ h.op = "finish")
      BY <1>2, <2>1, SlidesAskLittle
    <2>3. Len(a.slides) > 1 => Len(a.slides) \in {2, 3}
      <3>1. \A k \in 0..3 : k > 1 => k \in {2, 3} OBVIOUS
      <3> QED BY <3>1
    <2> QED BY <1>9, <2>2, <2>3 DEF h
  <1>10. CASE saw # <<>> /\ Len(saw) = 3
    <2>1. h \in {Slides!Finish, Slides!Send(rest)} BY <1>1, <1>10
    <2>2. AsksCleanly(a, new, N, h) /\ h.op \in {"finish", "batch"}
      BY <1>2, <1>6, <1>10, <2>1, SlidesAskLittle
    <2> QED BY <1>10, <2>2 DEF h
  <1>11. CASE saw # <<>> /\ Len(saw) = 4
    <2>1. h = Slides!Finish BY <1>1, <1>11
    <2>2. AsksCleanly(a, new, N, h) /\ h.op = "finish" BY <1>2, <2>1, SlidesAskLittle
    <2> QED BY <1>11, <2>2 DEF h
  <1> QED BY <1>4, <1>7, <1>8, <1>9, <1>10, <1>11

\* The client's own requests make the image <<0, 1>>.
LEMMA AskClientOfSlides ==
    ASSUME NEW a, BatchPresentation(a), NEW saw, IsSequence(saw), NEW N, NEW n, HoldsOwn(N, n), NEW new
    PROVE  AsksCleanly(a, new, N, Slides!BatchUpdate(a, saw, FALSE))
  <1>1. PICK q : a.requests = <<q>> /\ q.op = "createImage" /\ q.id = <<0, 1>>
    BY DEF BatchPresentation
  <1>2. IsClean(q, N)
    <2>1. 0 \in N BY DEF HoldsOwn
    <2> QED BY <1>1, <2>1 DEF IsClean, ElementOps, Slides!PageRequests
  <1>3. OfTool(a, new, q) BY FreeOfTool DEF BatchPresentation
  <1>4. AreClean(a, new, N, a.requests) BY <1>1, <1>2, <1>3, OneIsClean
  <1>5. ASSUME NEW op \in {"create", "share", "link"} PROVE AsksCleanly(a, new, N, Slides!Ask(op))
    BY SlidesAskLittle
  <1> DEFINE uploads == 3 * a.images
             failed == {i \in DOMAIN saw : i <= uploads /\ saw[i] = Failed}
             image == Slides!UploadImage(TRUE)[(Len(saw) % 3) + 1]
  <1>6. image \in {"create", "share", "link"}
    <2>1. Slides!UploadImage(TRUE) = <<"create", "share", "link">> BY DEF Slides!UploadImage
    <2>2. Len(saw) % 3 \in {0, 1, 2} BY DEF IsSequence
    <2>3. \A x \in {0, 1, 2} : <<"create", "share", "link">>[x + 1] \in {"create", "share", "link"}
      OBVIOUS
    <2> QED BY <2>1, <2>2, <2>3
  <1>7. Slides!BatchUpdate(a, saw, FALSE) \in {Slides!Decline, Slides!Finish, Slides!Send(a.requests), Slides!Ask("drop"), Slides!Ask(image)}
    BY DEF Slides!BatchUpdate
  <1> HIDE DEF image, failed, uploads
  <1> QED BY <1>4, <1>5, <1>6, <1>7, SlidesAskLittle

\* What a call has seen of a presentation.
SlidesSaw(a, saw) ==
    /\ IsSequence(saw)
    /\ a.tool = "updateGoogleSlides" => RefillSaw(a, saw)
    /\ a.tool = "updateGoogleSlidesSpeakerNotes" => \A i \in DOMAIN saw : Slides!IsPresentation(saw[i])
    /\ a.tool = "insertSlidesLocalImage" => Len(saw) \in 0..4

LEMMA SlideHandler ==
    ASSUME NEW a, NEW m \in Nat, SlideArgs(a, m), NEW saw, SlidesSaw(a, saw), NEW N, NEW n, HoldsOwn(N, n)
    PROVE  AsksCleanly(a, NewId(n), N, Slides!Handler(a, saw, n))
  <1> DEFINE h == Slides!Handler(a, saw, n)
  <1>1. CASE BatchPresentation(a)
    <2>1. a.tool = "batch_update_presentation" BY <1>1 DEF BatchPresentation
    <2>2. h = Slides!BatchUpdate(a, saw, FALSE) BY <2>1 DEF Slides!Handler
    <2> QED BY <1>1, <2>2, AskClientOfSlides DEF SlidesSaw
  <1>2. CASE PlainSlide(a, m)
    <2>0. IsFiniteSet(a.attrs) /\ a.tool \in SlideTools /\ Len(a.slides) \in 0..3
      BY <1>2 DEF PlainSlide
    <2>1. CASE a.tool \in Slides!OnObject
      <3>1. h \in {Slides!formatGoogleSlidesText(a, saw), Slides!formatGoogleSlidesParagraph(a, saw),
                   Slides!styleGoogleSlidesShape(a, saw), Slides!moveSlideElement(a, saw)}
        BY <2>1 DEF Slides!Handler, Slides!OnObject
      <3> HIDE DEF h
      <3>2. AsksCleanly(a, NewId(n), N, h) BY <2>0, <2>1, <3>1, AskOnObject
      <3> QED BY <3>2 DEF h
    <2>2. CASE a.tool \in Boxes
      <3>1. h \in {Slides!createGoogleSlidesTextBox(a, saw, n), Slides!createGoogleSlidesShape(a, saw, n)}
        BY <2>2 DEF Slides!Handler, Boxes
      <3> HIDE DEF h
      <3>2. AsksCleanly(a, NewId(n), N, h) BY <2>0, <2>2, <3>1, AskForBox
      <3> QED BY <3>2 DEF h
    <2>3. CASE a.tool \in {"insertSlidesImageFromUrl", "insertSlidesLocalImage"}
      <3>1. \/ h = Slides!insertSlidesImageFromUrl(a, saw, n)
            \/ h = Slides!insertSlidesLocalImage(a, saw, n) /\ a.tool = "insertSlidesLocalImage"
        BY <2>3 DEF Slides!Handler
      <3>2. a.tool \in Slides!OnSlide \ Boxes BY <2>3 DEF Slides!OnSlide, Boxes
      <3> HIDE DEF h
      <3>3. AsksCleanly(a, NewId(n), N, h) BY <3>1, <3>2, AskForImage DEF SlidesSaw
      <3> QED BY <3>3 DEF h
    <2>4. CASE a.tool = "updateGoogleSlidesSpeakerNotes"
      <3>1. h = Slides!updateGoogleSlidesSpeakerNotes(a, saw) BY <2>4 DEF Slides!Handler
      <3>2. a.index \in Nat BY <1>2, <2>4 DEF PlainSlide
      <3> QED BY <2>4, <3>1, <3>2, AskForNotes DEF SlidesSaw
    <2>5. CASE a.tool = "updateGoogleSlides"
      <3>1. h = Slides!updateGoogleSlides(a, saw, n) BY <2>5 DEF Slides!Handler
      <3> QED BY <2>0, <2>5, <3>1, AskRefill DEF SlidesSaw
    <2>6. CASE a.tool \in Free \ {"updateGoogleSlides"} BY <1>2, <2>6, AskFreely
    <2> QED BY <2>0, <2>1, <2>2, <2>3, <2>4, <2>5, <2>6 DEF Free, Slides!OnObject, Slides!OnSlide, Boxes
  <1> QED BY <1>1, <1>2 DEF SlideArgs

\* A call makes a box at its first request.
LEMMA BoxesAtOnce ==
    ASSUME NEW a, a.tool \in Boxes, NEW saw, IsSequence(saw), NEW n, Slides!Handler(a, saw, n).op = "batch"
    PROVE  saw = <<>>
  <1> DEFINE h == Slides!Handler(a, saw, n)
  <1>1. \E requests : h = Slides!Last(saw, 0, requests)
    <2>1. h \in {Slides!createGoogleSlidesTextBox(a, saw, n), Slides!createGoogleSlidesShape(a, saw, n)}
      BY DEF Slides!Handler, Boxes
    <2> HIDE DEF h
    <2> QED BY Zenon, <2>1 DEF Slides!createGoogleSlidesTextBox, Slides!createGoogleSlidesShape
  <1>2. Slides!Finish.op # "batch" BY DEF Slides!Finish, Slides!Ask
  <1>3. h.op = "batch" OBVIOUS
  <1> HIDE DEF h
  <1>4. Len(saw) = 0 BY <1>1, <1>2, <1>3 DEF Slides!Last
  <1> QED BY <1>4 DEF IsSequence

LEMMA SlidesKeepTheRest ==
    ASSUME NEW N, HoldsFar(N), NEW p, GoodPresentation(p, N), NEW a, NEW m \in Nat, SlideArgs(a, m), NEW saw, SlidesSaw(a, saw),
           NEW n, HoldsOwn(N, n), a.tool \in Boxes => Own(p, NewId(n), a.page), Slides!Handler(a, saw, n).op = "batch",
           NEW c, c = Slides!Batch(p, Slides!Handler(a, saw, n).requests), c # Refused
    PROVE  GoodPresentation(c, N) /\ \A ref : Slides!Rest(a, ref, c) = Slides!Rest(a, ref, p)
  <1> DEFINE requests == Slides!Handler(a, saw, n).requests
             new == NewId(n)
  <1>1. AreClean(a, new, N, requests) BY SlideHandler DEF AsksCleanly
  <1>2. Len(requests) \in Nat /\ \A i \in 1..Len(requests) : IsClean(requests[i], N) /\ OfTool(a, new, requests[i])
    BY <1>1 DEF AreClean, IsSequence
  <1>3. c = Slides!Batch(p, requests) /\ (a.tool \in Boxes => Own(p, new, a.page)) OBVIOUS
  <1> HIDE DEF requests, new
  <1>4. Keeps(a, new, p, N, c) BY <1>2, <1>3, PresentationBatch
  <1>5. \A ref, x : Slides!Rest(a, ref, x) = Slides!Rest(a, None, x) BY RestOfPresentation
  <1> QED BY <1>4, <1>5 DEF Keeps

LEMMA NotesAsk ==
    ASSUME NEW a, NEW saw
    PROVE  Slides!updateGoogleSlidesSpeakerNotes(a, saw).op \in {"read", "batch", "finish", "decline"}
  <1> DEFINE h == Slides!updateGoogleSlidesSpeakerNotes(a, saw)
  <1>1. \/ h \in {Slides!Read, Slides!Decline}
        \/ \E requests : h = Slides!Last(saw, 1, requests)
    BY DEF Slides!updateGoogleSlidesSpeakerNotes
  <1>2. /\ Slides!Read.op = "read" /\ Slides!Decline.op = "decline" /\ Slides!Finish.op = "finish"
        /\ \A requests : Slides!Send(requests).op = "batch"
    BY DEF Slides!Read, Slides!Decline, Slides!Finish, Slides!Send, Slides!Ask
  <1> HIDE DEF h
  <1>3. h.op \in {"read", "batch", "finish", "decline"} BY <1>1, <1>2 DEF Slides!Last
  <1> QED BY SMTT(30), <1>3 DEF h

-----------------------------------------------------------------------------
(***************************************************************************)
(* The invariant about the parts that calls are for.  The ids that a call  *)
(* makes are not yet in the presentation when it has asked for nothing.    *)
(***************************************************************************)

\* What a call for a presentation that is open has seen of it.
Seen(r) ==
    /\ r.a.tool = "updateGoogleSlides" => RefillSaw(r.a, r.saw) /\ Len(r.saw) \in 0..3
    /\ r.a.tool = "updateGoogleSlidesSpeakerNotes" => \A i \in DOMAIN r.saw : Slides!IsPresentation(r.saw[i])

OfKind(r) ==
    /\ kind = "document" => DocArgs(r.a)
    /\ kind = "presentation" => (\E m \in Nat : SlideArgs(r.a, m)) /\ Seen(r)
    /\ kind = "spreadsheet" => SheetArgs(r.a)
    /\ kind = "calendar" => PlainEvent(r.a)

OfParts(r) == r.end = "open" => r.next = Request(r) /\ OfKind(r)

Numbered ==
    /\ calls \in 0..MaxCalls
    /\ \A s \in Sessions : call[s].end = "open" => call[s].n \in 1..calls
    /\ \A s, t \in Sessions : s # t /\ call[s].end = "open" /\ call[t].end = "open" => call[s].n # call[t].n

Unused(n) ==
    /\ n \in 1..MaxCalls
    /\ n > calls \/ \E s \in Sessions : call[s].end = "open" /\ call[s].n = n /\ call[s].saw = <<>>

Without(n) == Nat \ {10 * n}

GoodFile(f) ==
    /\ kind = "document" => Docs!IsDocument(f)
    /\ kind = "presentation" => GoodPresentation(f, Nat) /\ \A n : Unused(n) => GoodPresentation(f, Without(n))
    /\ kind = "spreadsheet" => Sheets!IsSpreadsheet(f)
    /\ kind = "calendar" => Cals!IsCalendar(f)

PartsInv == ImagesInv /\ Numbered /\ GoodFile(file) /\ \A s \in Sessions : OfParts(call[s])

LEMMA OwnIsUnused ==
    ASSUME NEW n \in Nat, NEW p, GoodPresentation(p, Without(n)), NEW page
    PROVE  Own(p, NewId(n), page)
  <1> SUFFICES ASSUME NEW i \in DOMAIN p.slides PROVE HasNone(p.slides[i], NewId(n)) BY DEF Own
  <1> DEFINE s == p.slides[i]
  <1>1. GoodSlide(s, Without(n)) BY DEF GoodPresentation, GoodSlides
  <1>2. NewId(n)[1] = 10 * n /\ 10 * n \notin Without(n) BY DEF NewId, Without
  <1> HIDE DEF s
  <1>3. \A k \in DOMAIN s.elements : s.elements[k].id # NewId(n)
    BY <1>1, <1>2 DEF GoodSlide, GoodElements, GoodElement
  <1>4. s.notes # None => s.notes.id # NewId(n) BY <1>1, <1>2 DEF GoodSlide, GoodNotes
  <1>5. HasNone(s, NewId(n)) BY <1>3, <1>4 DEF HasNone
  <1> QED BY <1>5 DEF s

LEMMA WithoutOthers ==
    ASSUME MaxCalls \in Nat, NEW n \in 1..MaxCalls, NEW m \in 1..MaxCalls
    PROVE  /\ HoldsFar(Without(n)) /\ HoldsFar(Nat) /\ HoldsOwn(Nat, m)
           /\ n # m => HoldsOwn(Without(n), m)
  <1>1. \A i \in Nat : i >= Far => i # 10 * n BY DEF Far
  <1>2. HoldsFar(Without(n)) /\ HoldsFar(Nat) BY <1>1 DEF HoldsFar, Without
  <1>3. /\ 10 * m \in Nat /\ 10 * m + 1 \in Nat /\ 10 * m + 2 \in Nat
        /\ 0 # 10 * n /\ 10 * m + 1 # 10 * n /\ 10 * m + 2 # 10 * n /\ (n # m => 10 * m # 10 * n)
    OBVIOUS
  <1> QED BY <1>2, <1>3 DEF HoldsOwn, Without

LEMMA RefillAsks ==
    ASSUME NEW a, a.tool = "updateGoogleSlides", Len(a.slides) \in 0..3, NEW saw, RefillSaw(a, saw), NEW n, HoldsOwn(Nat, n),
           NEW u, u = Slides!updateGoogleSlides(a, saw, n)
    PROVE  /\ u.op \in {"read", "batch", "finish", "decline"}
           /\ Len(saw) = 2 => Len(a.slides) \in {2, 3} \/ u.op = "finish"
           /\ Len(saw) = 4 => u.op = "finish"
  BY AskRefill

\* What a call has seen, that it goes on with.
LEMMA SeesWell ==
    ASSUME NEW r, NEW x, kind = "presentation", IsSequence(r.saw), NEW m \in Nat, SlideArgs(r.a, m), Seen(r), r.next = Request(r),
           NEW v, x.a = r.a, x.saw = Append(r.saw, v), x.next = Request(x), x.n = r.n, x.n \in 1..MaxCalls, MaxCalls \in Nat,
           x.next.op \notin {"finish", "decline"},
           \/ r.next.op \in {"read", "batch"} /\ Slides!IsPresentation(v)
           \/ r.next.op \in {"create", "share", "link", "drop"}
           \/ r.a.tool \notin {"updateGoogleSlides", "updateGoogleSlidesSpeakerNotes"}
    PROVE  Seen(x)
  <1> DEFINE n == r.n
             h == Slides!Handler(r.a, r.saw, n)
             g == Slides!Handler(r.a, x.saw, n)
  <1>1. r.next = h /\ x.next = g BY DEF Request
  <1>2. /\ IsSequence(x.saw) /\ Len(r.saw) \in Nat /\ Len(x.saw) = Len(r.saw) + 1
        /\ DOMAIN x.saw = 1..(Len(r.saw) + 1) /\ DOMAIN r.saw = 1..Len(r.saw)
        /\ \A i \in 1..Len(r.saw) : x.saw[i] = r.saw[i]
        /\ x.saw[Len(r.saw) + 1] = v
    <2>1. /\ IsSequence(x.saw) /\ Len(r.saw) \in Nat /\ Len(x.saw) = Len(r.saw) + 1
          /\ \A i \in 1..Len(r.saw) : x.saw[i] = r.saw[i]
          /\ x.saw[Len(r.saw) + 1] = v
      BY OneMore
    <2>2. DOMAIN x.saw = 1..Len(x.saw) /\ DOMAIN r.saw = 1..Len(r.saw) BY <2>1 DEF IsSequence
    <2> QED BY <2>1, <2>2
  <1>3. ASSUME Slides!IsPresentation(v), \A i \in DOMAIN r.saw : Slides!IsPresentation(r.saw[i])
        PROVE  \A i \in DOMAIN x.saw : Slides!IsPresentation(x.saw[i])
    <2>1. \A k \in Nat : \A i \in 1..(k + 1) : i \in 1..k \/ i = k + 1 OBVIOUS
    <2> QED BY <1>2, <1>3, <2>1
  <1>4. CASE r.a.tool = "updateGoogleSlidesSpeakerNotes"
    <2>1. h.op \in {"read", "batch", "finish", "decline"} BY <1>4, NotesAsk DEF Slides!Handler
    <2> HIDE DEF h, g
    <2>2. Slides!IsPresentation(v) BY <1>1, <1>4, <2>1
    <2> QED BY <1>3, <1>4, <2>2 DEF Seen
  <1>5. CASE r.a.tool = "updateGoogleSlides"
    <2>0. HoldsOwn(Nat, n) BY WithoutOthers
    <2>1. h = Slides!updateGoogleSlides(r.a, r.saw, n) /\ g = Slides!updateGoogleSlides(x.a, x.saw, n)
      BY <1>5 DEF Slides!Handler
    <2>2. Len(r.a.slides) \in 0..3 BY <1>5 DEF SlideArgs, PlainSlide, BatchPresentation
    <2>3. RefillSaw(r.a, r.saw) /\ Len(r.saw) \in 0..3 BY <1>5 DEF Seen
    <2> DEFINE u == Slides!updateGoogleSlides(r.a, r.saw, n)
               w == Slides!updateGoogleSlides(x.a, x.saw, n)
    <2>4. u.op \in {"read", "batch", "finish", "decline"} /\ (Len(r.saw) = 2 => Len(r.a.slides) \in {2, 3} \/ u.op = "finish")
      <3> DEFINE b == r.a
                 saw == r.saw
      <3>1. b.tool = "updateGoogleSlides" /\ Len(b.slides) \in 0..3 /\ RefillSaw(b, saw) /\ HoldsOwn(Nat, n)
        BY <1>5, <2>0, <2>2, <2>3
      <3>2. u = Slides!updateGoogleSlides(b, saw, n) OBVIOUS
      <3> HIDE DEF b, saw, n, u
      <3>3. u.op \in {"read", "batch", "finish", "decline"} /\ (Len(saw) = 2 => Len(b.slides) \in {2, 3} \/ u.op = "finish")
        BY <3>1, <3>2, RefillAsks
      <3> QED BY <3>3 DEF b, saw
    <2> HIDE DEF h, g, u
    <2>5. r.next.op \in {"read", "batch"} /\ Slides!IsPresentation(v)
      BY <1>1, <1>5, <2>1, <2>4 DEF u
    <2>6. Len(r.saw) = 2 => Len(r.a.slides) \in {2, 3} BY <1>1, <2>1, <2>4, <2>5 DEF u
    <2>7. Len(x.saw) \in 0..4 /\ (Len(x.saw) = 3 => Len(r.saw) = 2) /\ (Len(x.saw) # 4 => Len(x.saw) \in 0..3)
      <3>1. \A k \in 0..3 : k + 1 \in 0..4 /\ (k + 1 = 3 => k = 2) /\ (k + 1 # 4 => k + 1 \in 0..3)
        OBVIOUS
      <3> QED BY <1>2, <2>3, <3>1
    <2>8. \A i \in DOMAIN x.saw : Slides!IsPresentation(x.saw[i]) BY <1>3, <2>3, <2>5 DEF RefillSaw
    <2>9. RefillSaw(x.a, x.saw) BY <1>2, <2>6, <2>7, <2>8 DEF RefillSaw
    <2>a. x.a.tool = "updateGoogleSlides" /\ Len(x.a.slides) \in 0..3 BY <1>5, <2>2
    <2>10. Len(x.saw) = 4 => w.op = "finish"
      <3> DEFINE b == x.a
                 saw == x.saw
                 y == Slides!updateGoogleSlides(b, saw, n)
      <3>1. b.tool = "updateGoogleSlides" /\ Len(b.slides) \in 0..3 /\ RefillSaw(b, saw) /\ HoldsOwn(Nat, n) /\ y = w
        BY <2>0, <2>9, <2>a
      <3>2. y = Slides!updateGoogleSlides(b, saw, n) OBVIOUS
      <3> HIDE DEF b, saw, n, w, y
      <3>3. Len(saw) = 4 => y.op = "finish" BY <3>1, <3>2, RefillAsks
      <3> QED BY <3>1, <3>3 DEF saw
    <2> HIDE DEF w
    <2>11. Len(x.saw) # 4 BY <1>1, <2>1, <2>10 DEF w
    <2> QED BY <1>5, <2>7, <2>9, <2>11 DEF Seen
  <1>6. CASE r.a.tool \notin {"updateGoogleSlides", "updateGoogleSlidesSpeakerNotes"}
    BY <1>6 DEF Seen
  <1> QED BY <1>4, <1>5, <1>6

\* Whatever answer it gets, a call stays one for its part.
LEMMA HearsItsPart ==
    ASSUME NEW r, NEW y, NEW v, MaxCalls \in Nat, IsCall(r), OfParts(r), r.end = "open", r.n \in 1..MaxCalls,
           y.a = r.a, y.n = r.n, y.end = r.end, y.saw = r.saw, IsCall(y),
           kind = "presentation" =>
              \/ r.next.op \in {"read", "batch"} /\ Slides!IsPresentation(v)
              \/ r.next.op \in {"create", "share", "link", "drop"}
              \/ v = Failed
    PROVE  LET h == Heard(y, v) IN
             OfParts(h) /\ (h.end = "open" => h.n = r.n /\ h.saw = Append(r.saw, v) /\ h.saw # <<>>)
  <1>1. PICK x : /\ IsCall(x) /\ x.a = y.a /\ x.n = y.n /\ x.end = y.end /\ x.saw = Append(y.saw, v)
                 /\ x.next = Request(x)
                 /\ Heard(y, v) = IF v = Failed /\ ~Catches(y) THEN Ended(x, "error") ELSE GoesOn(x)
    BY HeardIs
  <1> DEFINE h == Heard(y, v)
  <1>2. Ended(x, "error").end = "error" /\ Ended(x, "ok").end = "ok" BY EndedIs
  <1>3. \/ h.end # "open"
        \/ h = x /\ x.next.op \notin {"finish", "decline"} /\ (v # Failed \/ Catches(y))
    <2>1. x.next.op \notin {"finish", "decline"} => GoesOn(x) = x BY GoesOnWhileOpen
    <2>2. x.next.op \in {"finish", "decline"} => GoesOn(x).end # "open" BY <1>2, GoesOnToItsEnd
    <2> QED BY <1>1, <1>2, <2>1, <2>2
  <1> HIDE DEF h
  <1>4. CASE h.end # "open"
    <2>1. OfParts(h) BY <1>4 DEF OfParts
    <2> QED BY <1>4, <2>1 DEF h
  <1>5. CASE h = x /\ x.next.op \notin {"finish", "decline"} /\ (v # Failed \/ Catches(y))
    <2>1. r.next = Request(r) /\ OfKind(r) BY DEF OfParts
    <2>2. x.saw = Append(r.saw, v) /\ x.a = r.a /\ x.n = r.n /\ IsSequence(r.saw) BY <1>1 DEF IsCall
    <2>3. x.saw # <<>> BY <2>2, OneMore
    <2>4. kind = "presentation" => Seen(x)
      <3> SUFFICES ASSUME kind = "presentation" PROVE Seen(x) OBVIOUS
      <3>1. Seen(r) /\ \E m \in Nat : SlideArgs(r.a, m) BY <2>1 DEF OfKind
      <3> PICK m \in Nat : SlideArgs(r.a, m) BY <3>1
      <3>2. v = Failed => r.a.tool \notin {"updateGoogleSlides", "updateGoogleSlidesSpeakerNotes"}
        BY <1>5 DEF Catches, Slides!Catches
      <3> QED BY <1>1, <1>5, <2>1, <2>2, <3>1, <3>2, SeesWell
    <2>5. OfKind(x) BY <2>1, <2>2, <2>4 DEF OfKind
    <2>6. OfParts(x) BY <1>1, <2>5 DEF OfParts
    <2> QED BY <1>5, <2>2, <2>3, <2>6 DEF h
  <1> QED BY <1>3, <1>4, <1>5

\* What a change by the call with number m leaves of the file.
GoodAfter(f, m) ==
    /\ kind = "document" => Docs!IsDocument(f)
    /\ kind = "presentation" =>
          GoodPresentation(f, Nat) /\ \A n : Unused(n) /\ n # m => GoodPresentation(f, Without(n))
    /\ kind = "spreadsheet" => Sheets!IsSpreadsheet(f)
    /\ kind = "calendar" => Cals!IsCalendar(f)

LEMMA PartsLater ==
    ASSUME kind' = kind, \A t \in Sessions : OfParts(call'[t])
    PROVE  (\A t \in Sessions : OfParts(call[t]))'
  <1> SUFFICES ASSUME NEW t \in Sessions PROVE OfParts(call[t])' OBVIOUS
  <1>1. (Request(call[t]))' = Request(call'[t]) BY DEF Request
  <1>2. OfKind(call[t])' <=> OfKind(call'[t]) BY DEF OfKind, Seen
  <1> QED BY <1>1, <1>2 DEF OfParts

\* A step of session s, whose call goes on as x.
LEMMA StepKeepsParts ==
    ASSUME PartsInv, NEW s \in Sessions, NEW x, NEW f, Step(s, x, f), IsCall(x), OfOpen(x), OfEnded(x),
           call[s].end = "open", OfParts(x), x.end = "open" => x.n = call[s].n /\ x.saw # <<>>,
           GoodAfter(f, call[s].n)
    PROVE  PartsInv'
  <1>1. ImagesInv' BY StepKeepsImages DEF PartsInv
  <1>2. kind' = kind /\ calls' = calls /\ file' = f /\ call' = [t \in Sessions |->
          IF t = s THEN x
          ELSE [call[t] EXCEPT !.alone = @ /\ (f = file \/ Part(call[t].a, f) = Part(call[t].a, file))]]
    BY DEF Step
  <1>3. \A t \in Sessions : IsCall(call[t]) /\ OfParts(call[t]) BY DEF PartsInv, ImagesInv
  <1>4. call'[s] = x BY <1>2
  <1>5. \A t \in Sessions : t # s => call'[t].a = call[t].a /\ call'[t].n = call[t].n /\ call'[t].end = call[t].end
                                     /\ call'[t].saw = call[t].saw /\ call'[t].next = call[t].next
    <2> SUFFICES ASSUME NEW t \in Sessions, t # s
                 PROVE  call'[t].a = call[t].a /\ call'[t].n = call[t].n /\ call'[t].end = call[t].end
                        /\ call'[t].saw = call[t].saw /\ call'[t].next = call[t].next
      OBVIOUS
    <2>1. PICK b : call'[t] = [call[t] EXCEPT !.alone = b] BY <1>2
    <2> DEFINE c == call'[t]
               d == call[t]
    <2>2. c = [a |-> d.a, n |-> d.n, end |-> d.end, next |-> d.next, saw |-> d.saw, before |-> d.before,
               alone |-> b, images |-> d.images, kept |-> d.kept]
      BY <1>3, <2>1, CallUpdates
    <2> HIDE DEF c, d
    <2>3. c.a = d.a /\ c.n = d.n /\ c.end = d.end /\ c.saw = d.saw /\ c.next = d.next BY <2>2
    <2> QED BY <2>3 DEF c, d
  <1>6. \A t \in Sessions : OfParts(call'[t])
    <2> SUFFICES ASSUME NEW t \in Sessions PROVE OfParts(call'[t]) OBVIOUS
    <2>1. CASE t = s BY <1>4, <2>1
    <2>2. CASE t # s
      <3> DEFINE c == call'[t]
                 d == call[t]
      <3>1. c.a = d.a /\ c.n = d.n /\ c.end = d.end /\ c.saw = d.saw /\ c.next = d.next /\ OfParts(d)
        BY <1>3, <1>5, <2>2
      <3> HIDE DEF c, d
      <3>2. Request(c) = Request(d) BY <3>1, SameRequest
      <3>3. OfParts(c) BY <3>1, <3>2 DEF OfParts, OfKind, Seen
      <3> QED BY <3>3 DEF c
    <2> QED BY <2>1, <2>2
  <1>7. (\A t \in Sessions : OfParts(call[t]))' BY <1>2, <1>6, PartsLater
  <1>8. \A t \in Sessions : call'[t].end = "open" => call[t].end = "open" /\ call'[t].n = call[t].n /\ (t = s => call'[t].saw # <<>>)
    BY <1>4, <1>5
  <1>9. Numbered' BY <1>2, <1>8 DEF Numbered, PartsInv
  <1>10. \A n : Unused(n)' => Unused(n) /\ n # call[s].n
    <2> SUFFICES ASSUME NEW n, Unused(n)' PROVE Unused(n) /\ n # call[s].n OBVIOUS
    <2>1. n \in 1..MaxCalls /\ calls \in Nat /\ call[s].n \in 1..calls
      BY <1>2 DEF Unused, Numbered, PartsInv
    <2>2. CASE n > calls BY <2>1, <2>2 DEF Unused
    <2>3. CASE \E t \in Sessions : call'[t].end = "open" /\ call'[t].n = n /\ call'[t].saw = <<>>
      <3> PICK t \in Sessions : call'[t].end = "open" /\ call'[t].n = n /\ call'[t].saw = <<>>
        BY <2>3
      <3>1. t # s /\ call[t].end = "open" /\ call[t].n = n BY <1>8
      <3>2. call[t].saw = <<>> BY <1>5, <3>1
      <3>3. n # call[s].n BY <3>1 DEF PartsInv, Numbered
      <3> QED BY <2>1, <3>1, <3>2, <3>3 DEF Unused
    <2> QED BY <1>2, <2>2, <2>3 DEF Unused
  <1>11. GoodFile(file)' BY <1>2, <1>10 DEF GoodAfter, GoodFile
  <1> QED BY <1>1, <1>7, <1>9, <1>11 DEF PartsInv

\* A list of changes keeps the file good, and leaves the rest of it as it was.
LEMMA ChangeIsGood ==
    ASSUME PartsInv, MaxCalls \in Nat, NEW s \in Sessions, call[s].end = "open", call[s].next.op = "batch",
           NEW f, f = Batch(call[s].next.requests), f # Refused
    PROVE  GoodAfter(f, call[s].n) /\ Rest(call[s], f) = Rest(call[s], file)
  <1> DEFINE r == call[s]
  <1>1. /\ IsSequence(r.saw) /\ r.next = Request(r) /\ OfKind(r) /\ OfOpen(r) /\ r.n \in 1..calls /\ calls \in 0..MaxCalls
        /\ r.end = "open" /\ r.next.op = "batch" /\ f = Batch(r.next.requests)
    BY DEF PartsInv, ImagesInv, Numbered, IsCall, OfParts
  <1>2. GoodFile(file) /\ kind \in Kinds BY DEF PartsInv, ImagesInv
  <1>3. r.n \in 1..MaxCalls /\ r.n \in Nat
    <2>1. \A k \in 0..MaxCalls : \A i \in 1..k : i \in 1..MaxCalls /\ i \in Nat OBVIOUS
    <2> QED BY <1>1, <2>1
  <1>u. r.saw = <<>> => Unused(r.n) BY <1>1, <1>3 DEF Unused
  <1> HIDE DEF r
  <1>4. CASE kind = "document"
    <2>1. r.next = Docs!Handler(r.a, r.saw) /\ f = Docs!Batch(file, r.next.requests)
      BY <1>1, <1>4 DEF Request, Batch
    <2>2. DocArgs(r.a) /\ Docs!IsDocument(file) BY <1>1, <1>2, <1>4 DEF OfKind, GoodFile
    <2>3. Docs!IsDocument(f) /\ Docs!Rest(r.a, r.saw[1], f) = Docs!Rest(r.a, r.saw[1], file)
      BY <1>1, <2>1, <2>2, DocumentsKeepTheRest
    <2>4. Rest(r, f) = Rest(r, file) BY <1>4, <2>3 DEF Rest
    <2> QED BY <1>4, <2>3, <2>4 DEF GoodAfter, r
  <1>5. CASE kind = "presentation"
    <2>1. r.next = Slides!Handler(r.a, r.saw, r.n) /\ f = Slides!Batch(file, r.next.requests)
      BY <1>1, <1>5 DEF Request, Batch
    <2>2. GoodPresentation(file, Nat) /\ \A n : Unused(n) => GoodPresentation(file, Without(n))
      BY <1>2, <1>5 DEF GoodFile
    <2>3. (\E m \in Nat : SlideArgs(r.a, m)) /\ Seen(r) BY <1>1, <1>5 DEF OfKind
    <2> PICK m \in Nat : SlideArgs(r.a, m) BY <2>3
    <2>4. SlidesSaw(r.a, r.saw)
      <3>1. r.a.tool = "insertSlidesLocalImage" => Len(r.saw) \in 0..4
        BY <1>1 DEF OfOpen, OfLocalImage, WithImages
      <3> QED BY <1>1, <2>3, <3>1 DEF SlidesSaw, Seen
    <2>5. r.a.tool \in Boxes => Own(file, NewId(r.n), r.a.page)
      <3>1. r.a.tool \in Boxes => r.saw = <<>> BY <1>1, <2>1, BoxesAtOnce
      <3> QED BY <1>3, <1>u, <2>2, <3>1, OwnIsUnused
    <2>6. ASSUME NEW N, HoldsFar(N), HoldsOwn(N, r.n), GoodPresentation(file, N)
          PROVE  GoodPresentation(f, N) /\ \A ref : Slides!Rest(r.a, ref, f) = Slides!Rest(r.a, ref, file)
      BY <1>1, <2>1, <2>4, <2>5, <2>6, SlidesKeepTheRest
    <2>7. GoodPresentation(f, Nat) /\ \A ref : Slides!Rest(r.a, ref, f) = Slides!Rest(r.a, ref, file)
      <3>1. HoldsFar(Nat) /\ HoldsOwn(Nat, r.n) BY <1>3, WithoutOthers
      <3> QED BY <2>2, <2>6, <3>1
    <2>8. ASSUME NEW n, Unused(n), n # r.n PROVE GoodPresentation(f, Without(n))
      <3>1. n \in 1..MaxCalls BY <2>8 DEF Unused
      <3>2. HoldsFar(Without(n)) /\ HoldsOwn(Without(n), r.n) BY <1>3, <2>8, <3>1, WithoutOthers
      <3> QED BY <2>2, <2>6, <2>8, <3>2
    <2>9. Rest(r, f) = Rest(r, file) BY <1>5, <2>7 DEF Rest
    <2> QED BY <1>5, <2>7, <2>8, <2>9 DEF GoodAfter, r
  <1>6. CASE kind = "spreadsheet"
    <2>1. r.next = Sheets!Handler(r.a, r.saw) /\ f = Sheets!Batch(file, r.next.requests)
      BY <1>1, <1>6 DEF Request, Batch
    <2>2. SheetArgs(r.a) /\ Sheets!IsSpreadsheet(file) BY <1>1, <1>2, <1>6 DEF OfKind, GoodFile
    <2>3. Sheets!IsSpreadsheet(f) /\ Sheets!Rest(r.a, r.saw[1], f) = Sheets!Rest(r.a, r.saw[1], file)
      BY <1>1, <2>1, <2>2, SheetsKeepTheRest
    <2>4. Rest(r, f) = Rest(r, file) BY <1>6, <2>3 DEF Rest
    <2> QED BY <1>6, <2>3, <2>4 DEF GoodAfter, r
  <1>7. CASE kind = "calendar"
    <2>1. r.next = Cals!Handler(r.a, r.saw) /\ f = Cals!Batch(file, r.next.requests)
      BY SMTT(30), <1>1, <1>7 DEF Request, Batch
    <2>2. PlainEvent(r.a) /\ Cals!IsCalendar(file) BY <1>1, <1>2, <1>7 DEF OfKind, GoodFile
    <2>3. Cals!IsCalendar(f) /\ Cals!Rest(r.a, f) = Cals!Rest(r.a, file)
      BY <1>1, <2>1, <2>2, CalendarsKeepTheRest
    <2>4. Rest(r, f) = Rest(r, file) BY <1>7, <2>3 DEF Rest
    <2> QED BY <1>7, <2>3, <2>4 DEF GoodAfter, r
  <1> QED BY <1>2, <1>4, <1>5, <1>6, <1>7 DEF Kinds

LEMMA PartsInit == Init => PartsInv
  <1> SUFFICES ASSUME Init PROVE PartsInv OBVIOUS
  <1>1. ImagesInv BY ImagesInit
  <1>2. \A s \in Sessions : call[s] = Idle BY DEF Init
  <1>3. \A s \in Sessions : call[s].end = "none" BY <1>2 DEF Idle
  <1>4. Numbered /\ \A s \in Sessions : OfParts(call[s])
    BY <1>3, ConstantsAssumption DEF Numbered, OfParts, Init
  <1>5. kind \in DOMAIN Start /\ file = Start[kind] /\ IsFile(kind, file)
    BY ConstantsAssumption DEF Init
  <1>6. CASE kind = "presentation"
    <2>1. Slides!IsPresentation(file) /\ (\A e \in Slides!Objects(file) : e.id[1] < 10) /\ file.next >= Far
      BY <1>5, <1>6, ConstantsAssumption DEF IsFile, Far
    <2>2. \A e \in Slides!Objects(file) : e.id[1] \in Nat
      <3>1. \A e \in Slides!Objects(file) : Slides!IsElement(e)
        BY <2>1 DEF Slides!IsPresentation, Slides!IsSlide, Slides!Objects, Slides!OnSlides
      <3>2. \A e : Slides!IsElement(e) => e.id[1] \in Nat BY DEF Slides!IsElement
      <3> QED BY <3>1, <3>2
    <2>3. ASSUME NEW n, Unused(n) PROVE \A e \in Slides!Objects(file) : e.id[1] \in Without(n)
      <3>1. n \in Nat /\ n >= 1 BY <2>3, ConstantsAssumption DEF Unused
      <3>2. \A i \in Nat : i < 10 => i # 10 * n BY <3>1
      <3> QED BY <2>1, <2>2, <3>2 DEF Without
    <2> QED BY <1>1, <1>4, <1>6, <2>1, <2>2, <2>3, PresentationIsGood DEF PartsInv, GoodFile
  <1>7. CASE kind # "presentation"
    <2>1. GoodFile(file) BY <1>5, <1>7 DEF GoodFile, IsFile
    <2> QED BY <1>1, <1>4, <2>1 DEF PartsInv
  <1> QED BY <1>6, <1>7

LEMMA BeginKeepsParts ==
    ASSUME PartsInv, ImagesInv', NEW s \in Sessions, Begin(s)
    PROVE  PartsInv'
  <1>0. MaxCalls \in Nat BY ConstantsAssumption
  <1>1. PICK a \in Arguments :
          LET r == [Idle EXCEPT !.a = a, !.n = calls + 1, !.end = "open", !.before = file, !.alone = TRUE] IN
            /\ call' = [call EXCEPT ![s] = GoesOn([r EXCEPT !.next = Request(r)])]
            /\ call'[s].end = "open"
    BY Zenon DEF Begin
  <1> DEFINE r == [Idle EXCEPT !.a = a, !.n = calls + 1, !.end = "open", !.before = file, !.alone = TRUE]
             y == [r EXCEPT !.next = Request(r)]
  <1>2. y.a = a /\ y.n = calls + 1 /\ y.end = "open" /\ y.saw = <<>> /\ y.next = Request(y)
    <2>1. \E x : /\ IsCall(x) /\ x.a = a /\ x.n = calls + 1 /\ x.end = "open" /\ x.saw = <<>> /\ x.before = file
                 /\ x.alone = TRUE /\ x.images = <<>> /\ x.kept = FALSE /\ x.next = Request(x)
                 /\ y = x
      BY Zenon, BeginIs
    <2> HIDE DEF y
    <2> QED BY <2>1
  <1>3. call' = [call EXCEPT ![s] = GoesOn(y)] BY <1>1
  <1> HIDE DEF y, r
  <1>4. kind' = kind /\ file' = file /\ calls' = calls + 1 /\ calls < MaxCalls /\ call[s].end # "open"
    BY DEF Begin, IsOpen
  <1>5. call = [t \in Sessions |-> call[t]] /\ kind \in Kinds BY DEF PartsInv, ImagesInv
  <1>6. call'[s] = GoesOn(y) /\ \A t \in Sessions : t # s => call'[t] = call[t] BY <1>3, <1>5
  <1>7. GoesOn(y) = y
    <2>1. GoesOn(y).end = "open" BY <1>1, <1>6
    <2>2. \A end : Ended(y, end).end = end BY EndedIs
    <2>3. y.next.op \notin {"finish", "decline"} BY <2>1, <2>2, GoesOnToItsEnd
    <2> QED BY <2>3, GoesOnWhileOpen
  <1>8. OfKind(y)
    <2>1. kind = "document" => DocArgs(a) BY DocumentCalls DEF Arguments
    <2>2. kind = "presentation" => SlideArgs(a, Len(file.slides)) BY PresentationCalls DEF Arguments
    <2>3. kind = "presentation" => Len(file.slides) \in Nat
      BY DEF PartsInv, GoodFile, GoodPresentation, GoodSlides, IsSequence
    <2>4. kind = "spreadsheet" => SheetArgs(a) BY SpreadsheetCalls DEF Arguments
    <2>5. kind = "calendar" => PlainEvent(a) BY CalendarCalls DEF Arguments
    <2>6. Seen(y)
      <3>1. IsSequence(<<>>) /\ Len(<<>>) = 0 /\ DOMAIN <<>> = {} BY EmptyIsSequence
      <3> QED BY <1>2, <3>1 DEF Seen, RefillSaw
    <2> QED BY <1>2, <2>1, <2>2, <2>3, <2>4, <2>5, <2>6 DEF OfKind
  <1>9. OfParts(y) BY <1>2, <1>8 DEF OfParts
  <1>10. (\A t \in Sessions : OfParts(call[t]))'
    <2>1. \A t \in Sessions : OfParts(call'[t]) BY <1>6, <1>7, <1>9 DEF PartsInv
    <2> QED BY <1>4, <2>1, PartsLater
  <1>11. calls \in 0..MaxCalls /\ (\A t \in Sessions : call[t].end = "open" => call[t].n \in 1..calls)
         /\ \A t, u \in Sessions : t # u /\ call[t].end = "open" /\ call[u].end = "open" => call[t].n # call[u].n
    BY DEF PartsInv, Numbered
  <1>12. call'[s].n = calls + 1 /\ call'[s].saw = <<>> /\ call'[s].end = "open" BY <1>2, <1>6, <1>7
  <1>13. Numbered'
    <2>1. calls + 1 \in 0..MaxCalls /\ calls + 1 \in 1..(calls + 1) /\ (\A i \in 1..calls : i \in 1..(calls + 1) /\ i # calls + 1)
      BY <1>0, <1>4, <1>11
    <2>2. \A t \in Sessions : call'[t].end = "open" => call'[t].n \in 1..(calls + 1) /\ (t # s => call'[t].n # calls + 1)
      BY <1>6, <1>11, <1>12, <2>1
    <2>3. \A t, u \in Sessions : t # u /\ call'[t].end = "open" /\ call'[u].end = "open" => call'[t].n # call'[u].n
      BY <1>6, <1>11, <1>12, <2>2
    <2> QED BY <1>4, <2>1, <2>2, <2>3 DEF Numbered
  <1>14. \A n : Unused(n)' => Unused(n)
    <2> SUFFICES ASSUME NEW n, Unused(n)' PROVE Unused(n) OBVIOUS
    <2>1. n \in 1..MaxCalls BY DEF Unused
    <2>2. CASE n > calls + 1 \/ n = calls + 1 BY <1>11, <2>1, <2>2 DEF Unused
    <2>3. CASE \E t \in Sessions : call'[t].end = "open" /\ call'[t].n = n /\ call'[t].saw = <<>>
      <3> PICK t \in Sessions : call'[t].end = "open" /\ call'[t].n = n /\ call'[t].saw = <<>>
        BY <2>3
      <3>1. CASE t = s BY <1>12, <2>2, <3>1
      <3>2. CASE t # s BY <1>6, <2>1, <3>2 DEF Unused
      <3> QED BY <3>1, <3>2
    <2> QED BY <1>4, <2>2, <2>3 DEF Unused
  <1>15. GoodFile(file)' BY <1>4, <1>14 DEF PartsInv, GoodFile
  <1> QED BY <1>10, <1>13, <1>15 DEF PartsInv

LEMMA FileIsSeen ==
    ASSUME GoodFile(file), kind = "presentation"
    PROVE  Slides!IsPresentation(file)
  BY GoodIsPresentation DEF GoodFile

\* A step that leaves the file as it is.
LEMMA QuietStepKeepsParts ==
    ASSUME PartsInv, NEW s \in Sessions, call[s].end = "open", NEW y, IsCall(y), y.a = call[s].a, y.n = call[s].n,
           y.end = call[s].end, y.saw = call[s].saw, NEW v, Step(s, Heard(y, v), file),
           IsCall(Heard(y, v)), OfOpen(Heard(y, v)), OfEnded(Heard(y, v)),
           \/ call[s].next.op = "read" /\ v = file
           \/ call[s].next.op \in {"create", "share", "link", "drop"}
           \/ v = Failed
    PROVE  PartsInv'
  <1>0. MaxCalls \in Nat BY ConstantsAssumption
  <1>1. IsCall(call[s]) /\ OfParts(call[s]) /\ call[s].n \in 1..calls /\ calls \in 0..MaxCalls /\ GoodFile(file)
    BY DEF PartsInv, ImagesInv, Numbered
  <1>2. call[s].n \in 1..MaxCalls
    <2>1. \A k \in 0..MaxCalls : \A i \in 1..k : i \in 1..MaxCalls BY <1>0
    <2> QED BY <1>1, <2>1
  <1>3. kind = "presentation" => Slides!IsPresentation(file) BY <1>1, FileIsSeen
  <1> DEFINE r == call[s]
             h == Heard(y, v)
  <1>4. OfParts(h) /\ (h.end = "open" => h.n = r.n /\ h.saw # <<>>)
    BY <1>0, <1>1, <1>2, <1>3, HearsItsPart
  <1>5. GoodAfter(file, r.n) BY <1>1 DEF GoodFile, GoodAfter
  <1> HIDE DEF h
  <1> QED BY <1>4, <1>5, StepKeepsParts DEF h

\* A change by a session, or the answer to it lost.
LEMMA ChangeKeepsParts ==
    ASSUME PartsInv, NEW s \in Sessions, Change(s)
    PROVE  PartsInv' /\ (file' # file => Rest(call[s], file') = Rest(call[s], file))
  <1> DEFINE r == call[s]
             f == Batch(r.next.requests)
             y == [r EXCEPT !.alone = FALSE]
  <1>0. MaxCalls \in Nat /\ None # Failed BY ConstantsAssumption
  <1>1. IsCall(r) /\ OfOpen(r) /\ OfEnded(r) /\ OfParts(r) /\ GoodFile(file)
    BY DEF PartsInv, ImagesInv
  <1>2. r.end = "open" /\ r.next.op = "batch" BY DEF Change, Asks, IsOpen
  <1>3. r.n \in 1..MaxCalls
    <2>1. r.n \in 1..calls /\ calls \in 0..MaxCalls BY <1>2 DEF PartsInv, Numbered
    <2>2. \A k \in 0..MaxCalls : \A i \in 1..k : i \in 1..MaxCalls BY <1>0
    <2> QED BY <2>1, <2>2
  <1>4. /\ IsCall(y) /\ y.a = r.a /\ y.n = r.n /\ y.end = r.end /\ y.next = r.next /\ y.saw = r.saw
        /\ y.images = r.images /\ y.kept = r.kept
    <2>1. IsCall(y) BY <1>1, CallShape
    <2>2. y = [a |-> r.a, n |-> r.n, end |-> r.end, next |-> r.next, saw |-> r.saw, before |-> r.before,
               alone |-> FALSE, images |-> r.images, kept |-> r.kept]
      BY <1>1, CallUpdates
    <2> HIDE DEF y
    <2> QED BY <2>1, <2>2
  <1>5. \/ Step(s, Heard(r, Failed), file)
        \/ f # Refused /\ Step(s, Heard(r, f), f)
        \/ f # Refused /\ Step(s, Heard(y, Failed), f)
    BY DEF Change
  <1>6. f # Refused => GoodAfter(f, r.n) /\ Rest(r, f) = Rest(r, file) BY <1>0, <1>2, ChangeIsGood
  <1>7. \A c, x : Step(s, x, c) => file' = c BY DEF Step
  <1> HIDE DEF f, y
  <1>8. ASSUME NEW v PROVE IsCall(Heard(r, v)) /\ OfOpen(Heard(r, v)) /\ OfEnded(Heard(r, v))
    BY <1>0, <1>1, <1>2, HearsWell
  <1>9. IsCall(Heard(y, Failed)) /\ OfOpen(Heard(y, Failed)) /\ OfEnded(Heard(y, Failed))
    BY <1>0, <1>1, <1>2, <1>4, HearsWell
  <1>10. f # Refused /\ kind = "presentation" => Slides!IsPresentation(f)
    BY <1>6, GoodIsPresentation DEF GoodAfter
  <1>11. CASE Step(s, Heard(r, Failed), file)
    <2>1. PartsInv' BY <1>1, <1>2, <1>8, <1>11, QuietStepKeepsParts
    <2> QED BY <1>7, <1>11, <2>1
  <1>12. CASE f # Refused /\ Step(s, Heard(r, f), f)
    <2> DEFINE h == Heard(r, f)
    <2>1. OfParts(h) /\ (h.end = "open" => h.n = r.n /\ h.saw # <<>>)
      BY <1>0, <1>1, <1>2, <1>3, <1>10, <1>12, HearsItsPart
    <2>2. IsCall(h) /\ OfOpen(h) /\ OfEnded(h) /\ Step(s, h, f) BY <1>8, <1>12
    <2> HIDE DEF h
    <2>3. PartsInv' BY <1>2, <1>6, <1>12, <2>1, <2>2, StepKeepsParts
    <2> QED BY <1>6, <1>7, <1>12, <2>3
  <1>13. CASE f # Refused /\ Step(s, Heard(y, Failed), f)
    <2> DEFINE h == Heard(y, Failed)
    <2>1. OfParts(h) /\ (h.end = "open" => h.n = r.n /\ h.saw # <<>>)
      BY <1>0, <1>1, <1>2, <1>3, <1>4, HearsItsPart
    <2>2. IsCall(h) /\ OfOpen(h) /\ OfEnded(h) /\ Step(s, h, f) BY <1>9, <1>13
    <2> HIDE DEF h
    <2>3. PartsInv' BY <1>2, <1>6, <1>13, <2>1, <2>2, StepKeepsParts
    <2> QED BY <1>6, <1>7, <1>13, <2>3
  <1> QED BY <1>5, <1>11, <1>12, <1>13

LEMMA PartsNext == PartsInv /\ [Next]_vars => PartsInv'
  <1> SUFFICES ASSUME PartsInv, [Next]_vars PROVE PartsInv' OBVIOUS
  <1>0. \A s \in Sessions : IsCall(call[s]) /\ OfOpen(call[s]) /\ OfEnded(call[s])
    BY DEF PartsInv, ImagesInv
  <1>n. None # Failed BY ConstantsAssumption
  <1>i. ImagesInv' BY ImagesNext DEF PartsInv
  <1>1. ASSUME NEW s \in Sessions, Begin(s) PROVE PartsInv' BY <1>1, <1>i, BeginKeepsParts
  <1>2. ASSUME NEW s \in Sessions, ReadFile(s) PROVE PartsInv'
    <2>1. call[s].end = "open" /\ call[s].next.op = "read" /\ Step(s, Heard(call[s], file), file)
      BY <1>2 DEF ReadFile, Asks, IsOpen
    <2>2. IsCall(Heard(call[s], file)) /\ OfOpen(Heard(call[s], file)) /\ OfEnded(Heard(call[s], file))
      BY <1>0, <1>n, <2>1, HearsWell
    <2> QED BY <1>0, <2>1, <2>2, QuietStepKeepsParts
  <1>3. ASSUME NEW s \in Sessions, Change(s) PROVE PartsInv' BY <1>3, ChangeKeepsParts
  <1>4. ASSUME NEW s \in Sessions, Image(s) PROVE PartsInv'
    <2> DEFINE r == call[s]
               y == [r EXCEPT !.images = Stored(@, r.next.op)]
    <2>1. r.end = "open" /\ r.next.op \in {"create", "share", "link", "drop"} /\ Step(s, Heard(y, None), file)
      BY <1>4 DEF Image, IsOpen
    <2>2. IsCall(y) BY <1>0, CallShape
    <2>3. y = [a |-> r.a, n |-> r.n, end |-> r.end, next |-> r.next, saw |-> r.saw, before |-> r.before,
               alone |-> r.alone, images |-> Stored(r.images, r.next.op), kept |-> r.kept]
      BY <1>0, CallUpdates
    <2>4. /\ y.a = r.a /\ y.n = r.n /\ y.end = r.end /\ y.next = r.next /\ y.saw = r.saw
          /\ y.images = Stored(r.images, r.next.op) /\ y.kept = r.kept
      <3> HIDE DEF y
      <3> QED BY <2>3
    <2> HIDE DEF y
    <2>5. IsCall(Heard(y, None)) /\ OfOpen(Heard(y, None)) /\ OfEnded(Heard(y, None))
      BY <1>0, <1>n, <2>1, <2>2, <2>4, HearsWell
    <2> QED BY <2>1, <2>2, <2>4, <2>5, QuietStepKeepsParts
  <1>5. ASSUME NEW s \in Sessions, RequestFails(s) PROVE PartsInv'
    <2> DEFINE r == call[s]
               y == [r EXCEPT !.kept = @ \/ r.next.op = "drop"]
    <2>1. r.end = "open" /\ Step(s, Heard(y, Failed), file) BY <1>5 DEF RequestFails, IsOpen
    <2>2. IsCall(y) BY <1>0, CallShape
    <2>3. y = [a |-> r.a, n |-> r.n, end |-> r.end, next |-> r.next, saw |-> r.saw, before |-> r.before,
               alone |-> r.alone, images |-> r.images, kept |-> r.kept \/ r.next.op = "drop"]
      BY <1>0, CallUpdates
    <2>4. /\ y.a = r.a /\ y.n = r.n /\ y.end = r.end /\ y.next = r.next /\ y.saw = r.saw
          /\ y.images = r.images /\ y.kept = (r.kept \/ r.next.op = "drop")
      <3> HIDE DEF y
      <3> QED BY <2>3
    <2> HIDE DEF y
    <2>5. IsCall(Heard(y, Failed)) /\ OfOpen(Heard(y, Failed)) /\ OfEnded(Heard(y, Failed))
      BY <1>0, <1>n, <2>1, <2>2, <2>4, HearsWell
    <2> QED BY <2>1, <2>2, <2>4, <2>5, QuietStepKeepsParts
  <1>6. CASE UNCHANGED vars
    BY <1>i, <1>6 DEF vars, PartsInv, Numbered, GoodFile, Unused, OfParts, OfKind, Seen, Request
  <1> QED BY <1>1, <1>2, <1>3, <1>4, <1>5, <1>6 DEF Next

\* In a step of one session the calls of the others go on as they were.
LEMMA OthersChangeNothing ==
    ASSUME PartsInv, NEW s \in Sessions, Changes(s), [Next]_vars
    PROVE  Change(s)
  <1>1. IsOpen(s) /\ file' # file /\ (call'[s].end # "open" \/ call'[s].saw # call[s].saw)
    BY DEF Changes, IsOpen
  <1>2. PICK t \in Sessions : Change(t)
    <2>1. ASSUME NEW t \in Sessions PROVE Begin(t) => file' = file BY DEF Begin
    <2>2. ASSUME NEW t \in Sessions, NEW x, Step(t, x, file) PROVE file' = file BY <2>2 DEF Step
    <2>3. ASSUME NEW t \in Sessions PROVE ReadFile(t) \/ Image(t) \/ RequestFails(t) => file' = file
      BY <2>2 DEF ReadFile, Image, RequestFails
    <2>4. UNCHANGED vars => file' = file BY DEF vars
    <2> QED BY <1>1, <2>1, <2>3, <2>4 DEF Next
  <1>3. CASE t = s BY <1>2, <1>3
  <1>4. CASE t # s
    <2>1. \E x, f : Step(t, x, f) BY <1>2 DEF Change
    <2>2. \E b : call'[s] = [call[s] EXCEPT !.alone = b] BY <1>4, <2>1 DEF Step
    <2> PICK b : call'[s] = [call[s] EXCEPT !.alone = b] BY <2>2
    <2> DEFINE c == call'[s]
               d == call[s]
    <2>3. IsCall(d) BY DEF PartsInv, ImagesInv
    <2>4. c = [a |-> d.a, n |-> d.n, end |-> d.end, next |-> d.next, saw |-> d.saw, before |-> d.before,
               alone |-> b, images |-> d.images, kept |-> d.kept]
      BY <2>3, CallUpdates
    <2>5. d.end = "open" /\ (c.end # "open" \/ c.saw # d.saw) BY <1>1 DEF IsOpen
    <2> HIDE DEF c, d
    <2> QED BY <2>4, <2>5
  <1> QED BY <1>3, <1>4

\* EditsStayInTheirPart of Editors: whatever other sessions do between a call's
\* reading and its writing, it changes nothing outside the tab, the element, the
\* slide, the notes, the sheets or the event that it is for.
THEOREM EditsAlwaysStayInTheirPart == Spec => EditsStayInTheirPart
  <1>1. PartsInv /\ [Next]_vars => [\A s \in Sessions : Changes(s) => Rest(call[s], file') = Rest(call[s], file)]_vars
    <2> SUFFICES ASSUME PartsInv, [Next]_vars, NEW s \in Sessions, Changes(s)
                 PROVE  Rest(call[s], file') = Rest(call[s], file)
      OBVIOUS
    <2>1. Change(s) BY OthersChangeNothing
    <2>2. file' # file BY DEF Changes
    <2> QED BY <2>1, <2>2, ChangeKeepsParts
  <1> QED BY <1>1, PartsInit, PartsNext, PTL DEF Spec, EditsStayInTheirPart
=============================================================================
