---------------------------- MODULE EditRequests ----------------------------
(***************************************************************************)
(* What Documents, Presentations and Spreadsheets share: the requests that *)
(* a handler makes, and text.                                              *)
(*                                                                         *)
(* A handler is a function of its arguments and of the answers it has got  *)
(* so far, to its next request.                                            *)
(***************************************************************************)
EXTENDS Integers, Sequences, FiniteSets

CONSTANTS
    Letters,            \* the characters of texts
    None,
    Refused,            \* Google's answer to what it will not do
    Failed              \* no answer, or an error

Ask(op) == [op |-> op]

Read == Ask("read")
Finish == Ask("finish")
Decline == Ask("decline")   \* an answer to the client that says why not

\* A list of changes, all or none of them.
Send(requests) == [op |-> "batch", requests |-> requests]

\* The list is sent after n answers, and ends the call.
Last(saw, n, requests) == IF Len(saw) = n THEN Send(requests) ELSE Finish

\* utils/driveImageUpload.ts: an image is stored, shared with anyone if need be,
\* and its link fetched.
UploadImage(public) == IF public THEN <<"create", "share", "link">> ELSE <<"create", "link">>

-----------------------------------------------------------------------------
\* A character, or what stands in its place, and its style.
Token(is, style) == [is |-> is, style |-> style]

Plain(text) == [i \in DOMAIN text |-> Token(text[i], {})]

Spelled(tokens) == [i \in DOMAIN tokens |-> tokens[i].is]

\* The elements of a sequence that are in S, in their order.
Those(seq, S) ==
    LET upTo[i \in 0..Len(seq)] ==
            IF i = 0 THEN <<>> ELSE IF seq[i] \in S THEN Append(upTo[i - 1], seq[i]) ELSE upTo[i - 1]
    IN  upTo[Len(seq)]

MinOf(S) == CHOOSE x \in S : \A y \in S : x <= y
MaxOf(S) == CHOOSE x \in S : \A y \in S : x >= y

With(style, attr, on) == IF on THEN style \cup {attr} ELSE style \ {attr}

\* The tokens at S styled.
Mark(tokens, S, attr, on) ==
    [i \in DOMAIN tokens |->
        IF i \in S THEN [tokens[i] EXCEPT !.style = With(@, attr, on)] ELSE tokens[i]]

LettersIn(tokens, S) == {i \in S \cap DOMAIN tokens : tokens[i].is \in Letters}

At(tokens, i, text) ==
    /\ i + Len(text) - 1 <= Len(tokens)
    /\ \A k \in DOMAIN text : tokens[i + k - 1].is = text[k]

\* Google replaces occurrences from the left.
ReplaceAll(tokens, find, text) ==
    LET from[i \in 1..(Len(tokens) + 1)] ==
            IF i > Len(tokens) THEN <<>>
            ELSE IF At(tokens, i, find)
            THEN [k \in DOMAIN text |-> Token(text[k], tokens[i].style)] \o from[i + Len(find)]
            ELSE <<tokens[i]>> \o from[i + 1]
    IN  from[1]

-----------------------------------------------------------------------------
\* The client's own list of requests, with images that are uploaded first and
\* deleted in the end, or when anything fails; images of a sheet stay.
BatchUpdate(a, saw, stays) ==
    LET uploads == 3 * a.images
        failed == {i \in DOMAIN saw : i <= uploads /\ saw[i] = Failed}
        reached == IF failed = {} THEN uploads + 1 ELSE MinOf(failed)
        fails == failed # {} \/ saw[reached] = Failed
        drops == IF failed # {} THEN (reached - 1) \div 3
                 ELSE IF stays /\ ~fails THEN 0 ELSE a.images
    IN  CASE a.requests = <<>> -> Decline
          [] a.requests # <<>> /\ failed = {} /\ Len(saw) < uploads -> Ask(UploadImage(TRUE)[(Len(saw) % 3) + 1])
          [] a.requests # <<>> /\ failed = {} /\ Len(saw) = uploads -> Send(a.requests)
          [] OTHER -> IF Len(saw) < reached + drops THEN Ask("drop")
                      ELSE IF fails THEN Decline ELSE Finish
=============================================================================
