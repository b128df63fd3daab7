----------------------------- MODULE RelayProofs -----------------------------
(***************************************************************************)
(* Proofs about Relay, for any set of requests, any number of connections, *)
(* chunks and faults.                                                      *)
(*                                                                         *)
(* The invariant (IInv) speaks of one request at a time.  A step is about  *)
(* one request, or about a connection; of every other request it leaves    *)
(* the frames on the wires as they were, or loses all of a connection that *)
(* is cut (`Leaves`).  What is shown first is that the wires' part of the  *)
(* conversation survives such a step, and that of the request in question  *)
(* survives the work moving on (AtRest).                                   *)
(***************************************************************************)
EXTENDS Relay, FiniteSetTheorems, TLAPS

(***************************************************************************)
(* Sequences of frames.                                                    *)
(***************************************************************************)

\* How often a frame is on a wire is a number, and none on an empty one.
LEMMA TimesIsNat ==
    ASSUME NEW S, NEW q \in Seq(S), NEW f
    PROVE  /\ IsFiniteSet({i \in DOMAIN q : q[i] = f})
           /\ Times(f, q) \in Nat
           /\ (\A i \in DOMAIN q : q[i] # f) => Times(f, q) = 0
<1> DEFINE here == {i \in DOMAIN q : q[i] = f}
<1>1. IsFiniteSet(1..Len(q)) /\ here \subseteq 1..Len(q)
    BY FS_Interval
<1>2. IsFiniteSet(here)
    BY <1>1, FS_Subset
<1>3. Cardinality(here) \in Nat
    BY <1>2, FS_CardinalityType
<1>4. (\A i \in DOMAIN q : q[i] # f) => Cardinality(here) = 0
    BY FS_EmptySet
<1> QED BY <1>2, <1>3, <1>4 DEF Times

\* A frame put on a wire is one more of its kind.
LEMMA TimesAppend ==
    ASSUME NEW S, NEW q \in Seq(S), NEW f, NEW x \in S
    PROVE  Times(f, Append(q, x)) = Times(f, q) + (IF x = f THEN 1 ELSE 0)
<1> DEFINE here == {i \in DOMAIN q : q[i] = f}
           p == Append(q, x)
           there == {i \in DOMAIN p : p[i] = f}
<1>1. IsFiniteSet(here) /\ Len(q) + 1 \notin here
  <2>1. IsFiniteSet(here)
      BY TimesIsNat, Zenon
  <2>2. Len(q) + 1 \notin here
      OBVIOUS
  <2> QED BY <2>1, <2>2
<1>2. DOMAIN p = DOMAIN q \cup {Len(q) + 1} /\ p[Len(q) + 1] = x /\ \A i \in DOMAIN q : p[i] = q[i]
  <2>1. DOMAIN q = 1..Len(q) /\ Len(q) \in Nat /\ DOMAIN p = 1..(Len(q) + 1)
      OBVIOUS
  <2>2. 1..(Len(q) + 1) = 1..Len(q) \cup {Len(q) + 1}
      BY <2>1
  <2>3. p[Len(q) + 1] = x /\ \A i \in DOMAIN q : p[i] = q[i]
      OBVIOUS
  <2> QED BY <2>1, <2>2, <2>3
<1>3. there = IF x = f THEN here \cup {Len(q) + 1} ELSE here
    BY <1>2
<1>4. Cardinality(here \cup {Len(q) + 1}) = Cardinality(here) + 1
    BY <1>1, FS_AddElement
<1>5. Cardinality(here) \in Nat
    BY <1>1, FS_CardinalityType
<1>6. Times(f, q) = Cardinality(here) /\ Times(f, p) = Cardinality(there)
    BY DEF Times
<1>7. CASE x = f
  <2>1. there = here \cup {Len(q) + 1}
      BY <1>3, <1>7
  <2> HIDE DEF here, there, p
  <2> QED BY <2>1, <1>4, <1>6, <1>7 DEF p
<1>8. CASE x # f
  <2>1. there = here
      BY <1>3, <1>8
  <2> HIDE DEF here, there, p
  <2> QED BY <2>1, <1>5, <1>6, <1>8 DEF p
<1> QED BY <1>7, <1>8

\* A frame taken off a wire is one less of its kind.
LEMMA TimesTail ==
    ASSUME NEW S, NEW q \in Seq(S), NEW f, q # <<>>
    PROVE  Times(f, q) = Times(f, Tail(q)) + (IF Head(q) = f THEN 1 ELSE 0)
<1> DEFINE here == {i \in DOMAIN q : q[i] = f}
           p == Tail(q)
           there == {i \in DOMAIN p : p[i] = f}
           later == {i \in DOMAIN q : q[i] = f /\ i # 1}
           g == [i \in there |-> i + 1]
<1>1. DOMAIN p = 1..(Len(q) - 1) /\ Len(q) \in Nat \ {0} /\ DOMAIN q = 1..Len(q)
    OBVIOUS
<1>2. \A i \in DOMAIN p : p[i] = q[i + 1]
    OBVIOUS
<1>3. g \in Bijection(there, later)
  <2>1. \A i \in there : g[i] \in later
      BY <1>1, <1>2
  <2>2. \A i, j \in there : g[i] = g[j] => i = j
      BY <1>1
  <2>3. \A k \in later : \E i \in there : g[i] = k
    <3> TAKE k \in later
    <3>1. k - 1 \in there /\ g[k - 1] = k
        BY <1>1, <1>2
    <3> QED BY <3>1
  <2>4. g \in [there -> later] /\ DOMAIN g = there
      BY <2>1
  <2> HIDE DEF g, there, later
  <2> QED BY <2>2, <2>3, <2>4 DEF Bijection, Injection, Surjection, IsInjective
<1>4. IsFiniteSet(here) /\ IsFiniteSet(there) /\ IsFiniteSet(later)
  <2>1. p \in Seq(S)
      OBVIOUS
  <2>2. IsFiniteSet(here)
      BY TimesIsNat, Zenon
  <2>3. IsFiniteSet(there)
    <3> HIDE DEF p
    <3> QED BY <2>1, TimesIsNat, Zenon
  <2>4. later \subseteq here
      OBVIOUS
  <2>5. IsFiniteSet(later)
    <3> HIDE DEF here, later
    <3> QED BY <2>2, <2>4, FS_Subset
  <2> QED BY <2>2, <2>3, <2>5
<1>5. Cardinality(later) = Cardinality(there)
  <2> HIDE DEF g, there, later
  <2>1. ExistsBijection(there, later)
      BY <1>3 DEF ExistsBijection
  <2> QED BY <2>1, <1>4, FS_Bijection
<1>6. here = IF Head(q) = f THEN later \cup {1} ELSE later
    BY <1>1
<1>7. Cardinality(later \cup {1}) = Cardinality(later) + 1
    BY <1>4, FS_AddElement
<1>8. Cardinality(later) \in Nat
    BY <1>4, FS_CardinalityType
<1>9. Times(f, q) = Cardinality(here) /\ Times(f, p) = Cardinality(there)
    BY DEF Times
<1>10. 1 \notin later
    OBVIOUS
<1>11. CASE Head(q) = f
  <2>1. here = later \cup {1}
      BY <1>6, <1>11
  <2> HIDE DEF here, there, later, p
  <2> QED BY <2>1, <1>5, <1>7, <1>8, <1>9, <1>10, <1>11 DEF p
<1>12. CASE Head(q) # f
  <2>1. here = later
      BY <1>6, <1>12
  <2> HIDE DEF here, there, later, p
  <2> QED BY <2>1, <1>5, <1>8, <1>9, <1>12 DEF p
<1> QED BY <1>11, <1>12

(***************************************************************************)
(* What a wire says of one request.                                        *)
(***************************************************************************)

\* p says of the answer to r what q says.
Leaves(q, p, r) ==
    /\ \A type \in {"start", "startEmpty", "end", "error"} : On(<<type, r>>, p) <=> On(<<type, r>>, q)
    /\ About(r, p) => About(r, q)
    /\ HeadFirst(r, q) => HeadFirst(r, p)
    /\ EndLast(r, q) => EndLast(r, p)
    /\ Times(<<"chunk", r>>, p) = Times(<<"chunk", r>>, q)

\* p asks for r at most as often as q.
NoAsk(q, p, r) ==
    /\ On(<<"request", r>>, p) => On(<<"request", r>>, q)
    /\ OnceOn(<<"request", r>>, q) => OnceOn(<<"request", r>>, p)

\* A frame about something else, put on a wire, changes nothing for r.
LEMMA AppendLeaves ==
    ASSUME NEW S, NEW q \in Seq(S), NEW r, NEW x \in S, x[2] # r
    PROVE  Leaves(q, Append(q, x), r)
<1> DEFINE p == Append(q, x)
<1>1. Len(q) \in Nat /\ DOMAIN q = 1..Len(q) /\ DOMAIN p = 1..(Len(q) + 1)
    OBVIOUS
<1>2. (\A i \in DOMAIN q : p[i] = q[i]) /\ p[Len(q) + 1] = x
    OBVIOUS
<1>3. \A type : x # <<type, r>>
    OBVIOUS
<1>4. Times(<<"chunk", r>>, p) = Times(<<"chunk", r>>, q)
  <2>1. Times(<<"chunk", r>>, q) \in Nat
      BY TimesIsNat
  <2> QED BY <1>3, <2>1, TimesAppend
<1> HIDE DEF p
<1>5. \A type : On(<<type, r>>, p) <=> On(<<type, r>>, q)
    BY <1>1, <1>2, <1>3 DEF On
<1>6. About(r, p) => About(r, q)
    BY <1>1, <1>2 DEF About
<1>7. HeadFirst(r, q) => HeadFirst(r, p)
  <2> SUFFICES ASSUME HeadFirst(r, q), NEW i \in DOMAIN p, p[i] = <<"chunk", r>>
               PROVE  \E j \in 1..(i - 1) : p[j] = <<"start", r>>
      BY DEF HeadFirst
  <2>1. i \in DOMAIN q /\ q[i] = <<"chunk", r>>
    <3>1. i # Len(q) + 1
        BY <1>2, <1>3
    <3> QED BY <3>1, <1>1, <1>2
  <2>2. PICK j \in 1..(i - 1) : q[j] = <<"start", r>>
      BY <2>1 DEF HeadFirst
  <2>3. p[j] = q[j]
      BY <2>1, <1>1, <1>2
  <2> QED BY <2>2, <2>3
<1>8. EndLast(r, q) => EndLast(r, p)
    BY <1>1, <1>2, <1>3 DEF EndLast
<1> QED BY <1>4, <1>5, <1>6, <1>7, <1>8 DEF Leaves, p

\* A frame about something else, taken off a wire, changes nothing for r.
LEMMA TailLeaves ==
    ASSUME NEW S, NEW q \in Seq(S), NEW r, q # <<>>, Head(q)[2] # r
    PROVE  Leaves(q, Tail(q), r)
<1> DEFINE p == Tail(q)
<1>1. Len(q) \in Nat \ {0} /\ DOMAIN q = 1..Len(q) /\ DOMAIN p = 1..(Len(q) - 1)
    OBVIOUS
<1>2. (\A i \in DOMAIN p : p[i] = q[i + 1]) /\ q[1] = Head(q)
    OBVIOUS
<1>3. \A type : q[1] # <<type, r>>
    BY <1>2
<1>4. Times(<<"chunk", r>>, p) = Times(<<"chunk", r>>, q)
  <2>1. p \in Seq(S)
      OBVIOUS
  <2> HIDE DEF p
  <2>2. Times(<<"chunk", r>>, p) \in Nat
      BY <2>1, TimesIsNat, Zenon
  <2>3. Times(<<"chunk", r>>, q) = Times(<<"chunk", r>>, p) + 0
      BY <1>3, <1>2, TimesTail DEF p
  <2> QED BY <2>2, <2>3
<1>5. \A type : On(<<type, r>>, p) => On(<<type, r>>, q)
    BY <1>1, <1>2 DEF On
<1>6. \A type : On(<<type, r>>, q) => On(<<type, r>>, p)
  <2> SUFFICES ASSUME NEW type, NEW i \in DOMAIN q, q[i] = <<type, r>>
               PROVE  On(<<type, r>>, p)
      BY DEF On
  <2>1. i # 1 /\ i - 1 \in DOMAIN p /\ p[i - 1] = q[i]
      BY <1>1, <1>2, <1>3
  <2> QED BY <2>1 DEF On
<1>7. About(r, p) => About(r, q)
    BY <1>1, <1>2 DEF About
<1>8. HeadFirst(r, q) => HeadFirst(r, p)
  <2> SUFFICES ASSUME HeadFirst(r, q), NEW i \in DOMAIN p, p[i] = <<"chunk", r>>
               PROVE  \E j \in 1..(i - 1) : p[j] = <<"start", r>>
      BY DEF HeadFirst
  <2>1. i + 1 \in DOMAIN q /\ q[i + 1] = <<"chunk", r>>
      BY <1>1, <1>2
  <2>2. PICK j \in 1..i : q[j] = <<"start", r>>
    <3>1. i = (i + 1) - 1
        BY <1>1
    <3> QED BY <2>1, <3>1 DEF HeadFirst
  <2>3. j # 1
      BY <1>3, <2>2
  <2>4. j - 1 \in 1..(i - 1) /\ p[j - 1] = q[j]
      BY <1>1, <1>2, <2>2, <2>3
  <2> QED BY <2>2, <2>4
<1>9. EndLast(r, q) => EndLast(r, p)
  <2> SUFFICES ASSUME EndLast(r, q), NEW i \in DOMAIN p, NEW j \in DOMAIN p,
                      p[i] \in {<<"end", r>>, <<"error", r>>}, p[j][2] = r
               PROVE  j <= i
      BY DEF EndLast
  <2>1. i + 1 \in DOMAIN q /\ j + 1 \in DOMAIN q /\ q[i + 1] = p[i] /\ q[j + 1] = p[j]
      BY <1>1, <1>2
  <2>2. j + 1 <= i + 1
      BY <2>1 DEF EndLast
  <2> QED BY <2>2, <1>1
<1> QED BY <1>4, <1>5, <1>6, <1>7, <1>8, <1>9 DEF Leaves

\* Two such frames in a row, or none.
LEMMA LeavesAgain ==
    ASSUME NEW q, NEW p, NEW w, NEW r
    PROVE  /\ Leaves(q, q, r)
           /\ Leaves(q, p, r) /\ Leaves(p, w, r) => Leaves(q, w, r)
<1>1. Leaves(q, q, r)
    BY DEF Leaves
<1>2. ASSUME Leaves(q, p, r), Leaves(p, w, r)
      PROVE  Leaves(q, w, r)
    BY <1>2, Zenon DEF Leaves
<1> QED BY <1>1, <1>2

\* A frame the relay sends, or the bridge takes, asks for r no more than before.
LEMMA NothingAsked ==
    ASSUME NEW S, NEW q \in Seq(S), NEW r
    PROVE  /\ NoAsk(q, q, r)
           /\ NoAsk(q, <<>>, r)
           /\ \A x \in S : x # <<"request", r>> => NoAsk(q, Append(q, x), r)
           /\ q # <<>> => NoAsk(q, Tail(q), r)
<1>1. NoAsk(q, q, r) /\ NoAsk(q, <<>>, r)
    BY DEF NoAsk, On, OnceOn
<1>2. ASSUME NEW x \in S, x # <<"request", r>>
      PROVE  NoAsk(q, Append(q, x), r)
  <2> DEFINE p == Append(q, x)
  <2>1. Len(q) \in Nat /\ DOMAIN q = 1..Len(q) /\ DOMAIN p = 1..(Len(q) + 1)
      OBVIOUS
  <2>2. (\A i \in DOMAIN q : p[i] = q[i]) /\ p[Len(q) + 1] = x
      OBVIOUS
  <2> HIDE DEF p
  <2>3. \A i \in DOMAIN p : p[i] = <<"request", r>> => i \in DOMAIN q /\ q[i] = <<"request", r>>
    <3> TAKE i \in DOMAIN p
    <3>1. i = Len(q) + 1 => p[i] # <<"request", r>>
        BY <1>2, <2>2
    <3>2. i # Len(q) + 1 => i \in DOMAIN q
        BY <2>1
    <3> QED BY <3>1, <3>2, <2>2
  <2> QED BY <2>3 DEF NoAsk, On, OnceOn, p
<1>3. ASSUME q # <<>>
      PROVE  NoAsk(q, Tail(q), r)
  <2> DEFINE p == Tail(q)
  <2>1. Len(q) \in Nat \ {0} /\ DOMAIN q = 1..Len(q) /\ DOMAIN p = 1..(Len(q) - 1)
      BY <1>3
  <2>2. \A i \in DOMAIN p : p[i] = q[i + 1]
      BY <1>3
  <2> HIDE DEF p
  <2>3. \A i \in DOMAIN p : i + 1 \in DOMAIN q /\ p[i] = q[i + 1]
      BY <2>1, <2>2
  <2>4. On(<<"request", r>>, p) => On(<<"request", r>>, q)
      BY <2>3 DEF On
  <2>5. OnceOn(<<"request", r>>, q) => OnceOn(<<"request", r>>, p)
    <3> SUFFICES ASSUME OnceOn(<<"request", r>>, q), NEW i \in DOMAIN p, NEW j \in DOMAIN p,
                        p[i] = <<"request", r>>, p[j] = <<"request", r>>
                 PROVE  i = j
        BY DEF OnceOn
    <3>1. i + 1 = j + 1
        BY <2>3 DEF OnceOn
    <3> QED BY <3>1, <2>1
  <2> QED BY <2>4, <2>5 DEF NoAsk, p
<1> QED BY <1>1, <1>2, <1>3
\* p says of the answer to r what q says, and then t.
Says(q, p, r, t) ==
    /\ \A type : On(<<type, r>>, p) <=> On(<<type, r>>, q) \/ type = t
    /\ ~On(<<"end", r>>, q) /\ ~On(<<"error", r>>, q) => EndLast(r, p)
    /\ HeadFirst(r, q) /\ (t = "chunk" => On(<<"start", r>>, q)) => HeadFirst(r, p)
    /\ Times(<<"chunk", r>>, p) = Times(<<"chunk", r>>, q) + (IF t = "chunk" THEN 1 ELSE 0)

\* A frame of the answer to r is put on a wire.
LEMMA OwnAppend ==
    ASSUME NEW S, NEW q \in Seq(S), NEW r, NEW t, <<t, r>> \in S
    PROVE  Says(q, Append(q, <<t, r>>), r, t)
<1> DEFINE p == Append(q, <<t, r>>)
<1>1. Len(q) \in Nat /\ DOMAIN q = 1..Len(q) /\ DOMAIN p = 1..(Len(q) + 1)
    OBVIOUS
<1>2. (\A i \in DOMAIN q : p[i] = q[i]) /\ p[Len(q) + 1] = <<t, r>>
    OBVIOUS
<1>3. Times(<<"chunk", r>>, p) = Times(<<"chunk", r>>, q) + (IF t = "chunk" THEN 1 ELSE 0)
  <2>1. Times(<<"chunk", r>>, p)
            = Times(<<"chunk", r>>, q) + (IF <<t, r>> = <<"chunk", r>> THEN 1 ELSE 0)
      BY TimesAppend
  <2> QED BY <2>1
<1> HIDE DEF p
<1>4. \A i \in DOMAIN p : i \in DOMAIN q \/ i = Len(q) + 1
    BY <1>1
<1>5. \A type : On(<<type, r>>, p) <=> On(<<type, r>>, q) \/ type = t
  <2>1. Len(q) + 1 \in DOMAIN p /\ \A i \in DOMAIN q : i \in DOMAIN p
      BY <1>1
  <2> QED BY <1>2, <1>4, <2>1 DEF On
<1>6. ~On(<<"end", r>>, q) /\ ~On(<<"error", r>>, q) => EndLast(r, p)
  <2> SUFFICES ASSUME ~On(<<"end", r>>, q), ~On(<<"error", r>>, q), NEW i \in DOMAIN p, NEW j \in DOMAIN p,
                      p[i] \in {<<"end", r>>, <<"error", r>>}
               PROVE  j <= i
      BY DEF EndLast
  <2>1. i = Len(q) + 1
      BY <1>2, <1>4 DEF On
  <2> QED BY <2>1, <1>1
<1>7. HeadFirst(r, q) /\ (t = "chunk" => On(<<"start", r>>, q)) => HeadFirst(r, p)
  <2> SUFFICES ASSUME HeadFirst(r, q), t = "chunk" => On(<<"start", r>>, q),
                      NEW i \in DOMAIN p, p[i] = <<"chunk", r>>
               PROVE  \E j \in 1..(i - 1) : p[j] = <<"start", r>>
      BY DEF HeadFirst
  <2>1. CASE i \in DOMAIN q
    <3>1. PICK j \in 1..(i - 1) : q[j] = <<"start", r>>
        BY <2>1, <1>2 DEF HeadFirst
    <3>2. p[j] = q[j]
        BY <2>1, <1>1, <1>2
    <3> QED BY <3>1, <3>2
  <2>2. CASE i = Len(q) + 1
    <3>1. t = "chunk"
        BY <2>2, <1>2
    <3>2. PICK j \in DOMAIN q : q[j] = <<"start", r>>
        BY <3>1 DEF On
    <3>3. j \in 1..(i - 1) /\ p[j] = q[j]
        BY <2>2, <1>1, <1>2
    <3> QED BY <3>2, <3>3
  <2> QED BY <1>4, <2>1, <2>2
<1> QED BY <1>3, <1>5, <1>6, <1>7 DEF p, Says

\* A frame of the answer to r is taken off a wire.
LEMMA OwnTail ==
    ASSUME NEW S, NEW q \in Seq(S), NEW r, NEW t, q # <<>>, Head(q) = <<t, r>>
    PROVE  /\ \A type : On(<<type, r>>, Tail(q)) => On(<<type, r>>, q)
           /\ t # "start" /\ On(<<"start", r>>, q) => On(<<"start", r>>, Tail(q))
           /\ EndLast(r, q) => EndLast(r, Tail(q))
           /\ EndLast(r, q) /\ t \in {"end", "error"} => ~About(r, Tail(q))
           /\ t # "start" /\ HeadFirst(r, q) => HeadFirst(r, Tail(q))
           /\ HeadFirst(r, q) => t # "chunk"
           /\ On(<<t, r>>, q) /\ About(r, q)
<1> DEFINE p == Tail(q)
<1>1. Len(q) \in Nat \ {0} /\ DOMAIN q = 1..Len(q) /\ DOMAIN p = 1..(Len(q) - 1)
    OBVIOUS
<1>2. (\A i \in DOMAIN p : p[i] = q[i + 1]) /\ q[1] = <<t, r>>
    OBVIOUS
<1> HIDE DEF p
<1>3. \A i \in DOMAIN p : i + 1 \in DOMAIN q /\ i + 1 > 1 /\ p[i] = q[i + 1]
    BY <1>1, <1>2
<1>4. 1 \in DOMAIN q /\ q[1][2] = r
    BY <1>1, <1>2
<1>5. \A type : On(<<type, r>>, p) => On(<<type, r>>, q)
    BY <1>3 DEF On
<1>6. t # "start" /\ On(<<"start", r>>, q) => On(<<"start", r>>, p)
  <2> SUFFICES ASSUME t # "start", NEW i \in DOMAIN q, q[i] = <<"start", r>>
               PROVE  On(<<"start", r>>, p)
      BY DEF On
  <2>1. i # 1
      BY <1>2
  <2>2. i - 1 \in DOMAIN p /\ p[i - 1] = q[i]
      BY <2>1, <1>1, <1>2
  <2> QED BY <2>2 DEF On
<1>7. EndLast(r, q) => EndLast(r, p)
  <2> SUFFICES ASSUME EndLast(r, q), NEW i \in DOMAIN p, NEW j \in DOMAIN p,
                      p[i] \in {<<"end", r>>, <<"error", r>>}, p[j][2] = r
               PROVE  j <= i
      BY DEF EndLast
  <2>1. j + 1 <= i + 1
      BY <1>3 DEF EndLast
  <2> QED BY <2>1, <1>1
<1>8. EndLast(r, q) /\ t \in {"end", "error"} => ~About(r, p)
  <2> SUFFICES ASSUME EndLast(r, q), t \in {"end", "error"}, NEW i \in DOMAIN p, p[i][2] = r
               PROVE  FALSE
      BY DEF About
  <2>1. i + 1 <= 1
      BY <1>2, <1>3, <1>4 DEF EndLast
  <2> QED BY <2>1, <1>1
<1>9. t # "start" /\ HeadFirst(r, q) => HeadFirst(r, p)
  <2> SUFFICES ASSUME t # "start", HeadFirst(r, q), NEW i \in DOMAIN p, p[i] = <<"chunk", r>>
               PROVE  \E j \in 1..(i - 1) : p[j] = <<"start", r>>
      BY DEF HeadFirst
  <2>1. i + 1 \in DOMAIN q /\ q[i + 1] = <<"chunk", r>>
      BY <1>3
  <2>2. PICK j \in 1..i : q[j] = <<"start", r>>
    <3>1. i = (i + 1) - 1
        BY <1>1
    <3> QED BY <2>1, <3>1 DEF HeadFirst
  <2>3. j # 1
      BY <1>2, <2>2
  <2>4. j - 1 \in 1..(i - 1) /\ j - 1 \in DOMAIN p /\ (j - 1) + 1 = j
      BY <1>1, <2>2, <2>3
  <2>5. p[j - 1] = q[j]
      BY <1>3, <2>4
  <2> QED BY <2>2, <2>4, <2>5
<1>10. HeadFirst(r, q) => t # "chunk"
  <2> SUFFICES ASSUME HeadFirst(r, q), t = "chunk"
               PROVE  FALSE
      OBVIOUS
  <2>1. \E j \in 1..(1 - 1) : q[j] = <<"start", r>>
      BY <1>2, <1>4 DEF HeadFirst
  <2> QED BY <2>1
<1>11. On(<<t, r>>, q) /\ About(r, q)
    BY <1>2, <1>4 DEF On, About
<1> QED BY <1>5, <1>6, <1>7, <1>8, <1>9, <1>10, <1>11 DEF p

\* A wire with no frame of r has no chunk of it, and an empty one has none.
LEMMA Silent ==
    ASSUME NEW S, NEW q \in Seq(S), NEW r, ~About(r, q)
    PROVE  Times(<<"chunk", r>>, q) = 0
<1>1. \A i \in DOMAIN q : q[i] # <<"chunk", r>>
    BY DEF About
<1> QED BY <1>1, TimesIsNat

LEMMA EmptyWire ==
    ASSUME NEW r
    PROVE  /\ \A frame : ~On(frame, <<>>)
           /\ ~About(r, <<>>) /\ HeadFirst(r, <<>>) /\ EndLast(r, <<>>)
           /\ Times(<<"chunk", r>>, <<>>) = 0
<1>1. <<>> \in Seq({})
    OBVIOUS
<1>2. ~About(r, <<>>)
    BY DEF About
<1>3. Times(<<"chunk", r>>, <<>>) = 0
    BY <1>1, <1>2, Silent
<1> QED BY <1>2, <1>3 DEF On, HeadFirst, EndLast
----------------------------------------------------------------------------
(***************************************************************************)
(* The wires' part of the conversation about r, and a step that leaves it  *)
(* as it is: the relay hears nothing of r, the bridge says nothing of it,  *)
(* though its work may be broken off.                                      *)
(***************************************************************************)

Wire(r) == Over(r) /\ \A s \in Sockets : Ordered(r, s) /\ Begun(r, s) /\ Counted(r, s)

\* What the relay heard of r.
SameEntry(r) ==
    /\ entry'[r].got = entry[r].got /\ entry'[r].started = entry[r].started
    /\ entry'[r].empty = entry[r].empty /\ entry'[r].ended = entry[r].ended
    /\ entry'[r].socket = entry[r].socket

\* The work on r, unless it is broken off.
SameWork(r) ==
    /\ work'[r].socket = work[r].socket /\ work'[r].sent = work[r].sent
    /\ work'[r].step = "none" <=> work[r].step = "none"
    /\ work'[r].step \in {work[r].step, "aborted", "done"}
    /\ work[r].step = "done" => work'[r].step = "done"

\* What is on the wires about r, unless a connection is cut.
SameFrames(r) ==
    \A s \in Sockets : Leaves(toRelay[s], toRelay'[s], r) \/ (s \in cut' /\ toRelay'[s] = <<>>)

AtRest(r) ==
    /\ SameEntry(r) /\ SameWork(r) /\ SameFrames(r)
    /\ r \in pending' => r \in pending
    /\ caller'[r] = "complete" => work[r].step = "done" /\ entry[r].got = work[r].sent
    /\ cut \subseteq cut'

LEMMA WireKeeps ==
    ASSUME TypeOK, OneConnection, NEW r \in Requests, Wire(r), AtRest(r)
    PROVE  Wire(r)'
<1> USE DEF AtRest
<1>1. entry[r].got \in Nat /\ work[r].sent \in Nat
    BY DEF TypeOK
<1>2. \A s \in Sockets : About(r, toRelay'[s]) => About(r, toRelay[s])
    BY EmptyWire DEF SameFrames, Leaves
<1>3. \A s \in Sockets : \A type \in {"startEmpty", "end", "error"} :
        On(<<type, r>>, toRelay'[s]) => On(<<type, r>>, toRelay[s])
  <2> SUFFICES ASSUME NEW s \in Sockets, NEW type \in {"startEmpty", "end", "error"},
                      On(<<type, r>>, toRelay'[s])
               PROVE  On(<<type, r>>, toRelay[s])
      OBVIOUS
  <2>1. Leaves(toRelay[s], toRelay'[s], r)
      BY EmptyWire DEF SameFrames
  <2> QED BY <2>1 DEF Leaves
<1>4. Over(r)'
  <2>2. entry'[r].empty => work'[r].step = "done" /\ work'[r].sent = 0
      BY DEF Wire, Over, SameEntry, SameWork
  <2>3. entry'[r].ended => work'[r].step = "done" /\ entry'[r].got = work'[r].sent
                           /\ \A s \in Sockets : ~About(r, toRelay'[s])
      BY <1>2 DEF Wire, Over, SameEntry, SameWork
  <2>4. caller'[r] = "complete" => work'[r].step = "done" /\ entry'[r].got = work'[r].sent
      BY DEF SameEntry, SameWork
  <2> QED BY <2>2, <2>3, <2>4 DEF Over
<1>5. ASSUME NEW s \in Sockets
      PROVE  Ordered(r, s)'
  <2>1. Ordered(r, s)
      BY DEF Wire
  <2>2. EndLast(r, toRelay'[s])
      BY <2>1, EmptyWire DEF SameFrames, Leaves, Ordered
  <2>3. About(r, toRelay'[s]) => s = work'[r].socket /\ work'[r].step # "none"
      BY <1>2, <2>1 DEF Ordered, SameWork
  <2>4. \A type \in {"startEmpty", "end", "error"} : On(<<type, r>>, toRelay'[s]) => work'[r].step = "done"
      BY <1>3, <2>1 DEF Ordered, SameWork
  <2>5. On(<<"startEmpty", r>>, toRelay'[s]) => work'[r].sent = 0
      BY <1>3, <2>1 DEF Ordered, SameWork
  <2> QED BY <2>2, <2>3, <2>4, <2>5 DEF Ordered
<1>6. ASSUME NEW s \in Sockets
      PROVE  Begun(r, s)'
  <2> SUFFICES ASSUME r \in pending', ~entry'[r].started
               PROVE  /\ HeadFirst(r, toRelay'[s])
                      /\ work'[r].step = "body" /\ work'[r].socket = s /\ s \notin cut' =>
                           On(<<"start", r>>, toRelay'[s])
      BY DEF Begun
  <2>1. Begun(r, s) /\ r \in pending /\ ~entry[r].started
      BY DEF Wire, SameEntry
  <2>2. HeadFirst(r, toRelay'[s])
      BY <2>1, EmptyWire DEF SameFrames, Leaves, Begun
  <2>3. ASSUME work'[r].step = "body", work'[r].socket = s, s \notin cut'
        PROVE  On(<<"start", r>>, toRelay'[s])
    <3>1. work[r].step = "body" /\ work[r].socket = s /\ s \notin cut
        BY <2>3 DEF SameWork
    <3>2. On(<<"start", r>>, toRelay[s])
        BY <2>1, <3>1 DEF Begun
    <3> QED BY <2>3, <3>2 DEF SameFrames, Leaves
  <2> QED BY <2>2, <2>3
<1>7. ASSUME NEW s \in Sockets
      PROVE  Counted(r, s)'
  <2>1. Counted(r, s) /\ toRelay[s] \in Seq(Answers \cup {Close})
      BY DEF Wire, TypeOK
  <2>2. Times(<<"chunk", r>>, toRelay[s]) \in Nat
      BY <2>1, TimesIsNat
  <2>3. CASE Leaves(toRelay[s], toRelay'[s], r)
      BY <2>1, <2>3 DEF Leaves, Counted, SameEntry, SameWork
  <2>4. CASE s \in cut' /\ toRelay'[s] = <<>>
    <3>1. Times(<<"chunk", r>>, toRelay'[s]) = 0
        BY <2>4, EmptyWire
    <3>2. entry[r].got <= work[r].sent
        BY <1>1, <2>1, <2>2 DEF Counted
    <3> QED BY <1>1, <2>4, <3>1, <3>2 DEF Counted, SameEntry, SameWork
  <2> QED BY <2>3, <2>4 DEF SameFrames
<1> QED BY <1>4, <1>5, <1>6, <1>7 DEF Wire
----------------------------------------------------------------------------
(***************************************************************************)
(* Types, and connections.                                                 *)
(***************************************************************************)

Steps == {"none", "fetch", "body", "aborted", "done"}
Works == [step : Steps, socket : Sockets \cup {0}, sent : 0..MaxChunks]
Entries == [socket : Sockets \cup {0}, started : BOOLEAN, empty : BOOLEAN, controller : BOOLEAN,
            got : 0..MaxChunks, ended : BOOLEAN, streamError : BOOLEAN]
Callers == {"new", "reading", "waiting", "streaming"} \cup Ends
WiresOf(frames) == [Sockets -> Seq(frames \cup {Close})]

\* The only open connection is the one forward picks.
LEMMA BridgeSocketIsOpen ==
    ASSUME OneConnection, OpenLinks # {}
    PROVE  BridgeSocket \in Sockets /\ link[BridgeSocket] = "open"
<1>1. PICK s \in OpenLinks : TRUE
    OBVIOUS
<1>2. \A t \in OpenLinks : t <= s
  <2> TAKE t \in OpenLinks
  <2>1. t = s /\ s \in Int
      BY DEF OneConnection, OpenLinks, Sockets
  <2> QED BY <2>1
<1>3. BridgeSocket \in OpenLinks
    BY <1>1, <1>2 DEF BridgeSocket
<1> QED BY <1>3 DEF OpenLinks

\* One frame of the answer, or two, or none.
LEMMA SentOne ==
    ASSUME TypeOK, NEW r \in Requests, NEW t, SendFrames(r, <<t>>)
    PROVE  \/ /\ ~(work[r].socket = ws /\ wsOpen /\ ws \notin cut)
              /\ toRelay' = toRelay
           \/ /\ work[r].socket = ws /\ wsOpen /\ ws \notin cut
              /\ toRelay' = [toRelay EXCEPT ![ws] = Append(@, <<t, r>>)]
<1> DEFINE frames == [i \in DOMAIN <<t>> |-> <<<<t>>[i], r>>]
<1>1. frames = <<<<t, r>>>>
    OBVIOUS
<1> HIDE DEF frames
<1>2. SendFrames(r, <<t>>) <=>
          toRelay' = IF work[r].socket = ws /\ wsOpen /\ work[r].socket \notin cut
                     THEN [toRelay EXCEPT ![work[r].socket] = @ \o frames] ELSE toRelay
    BY DEF SendFrames, frames
<1>3. CASE work[r].socket = ws /\ wsOpen /\ ws \notin cut
  <2>1. toRelay' = [toRelay EXCEPT ![ws] = @ \o <<<<t, r>>>>]
      BY <1>1, <1>2, <1>3
  <2>2. ws \in DOMAIN toRelay => toRelay[ws] \o <<<<t, r>>>> = Append(toRelay[ws], <<t, r>>)
      BY DEF TypeOK
  <2> QED BY <1>3, <2>1, <2>2
<1> QED BY <1>2, <1>3

LEMMA TwoMore ==
    ASSUME NEW S, NEW q \in Seq(S), NEW a \in S, NEW b \in S
    PROVE  q \o <<a, b>> = Append(Append(q, a), b)
<1> DEFINE two == q \o <<a, b>>
           p == Append(Append(q, a), b)
<1>1. two \in Seq(S) /\ Len(two) = Len(q) + 2 /\ p \in Seq(S) /\ Len(p) = Len(q) + 2
    OBVIOUS
<1>2. ASSUME NEW i \in 1..(Len(q) + 2)
      PROVE  two[i] = p[i]
  <2>1. CASE i \in 1..Len(q)
      BY <2>1
  <2>2. CASE i = Len(q) + 1
    <3>1. two[i] = <<a, b>>[1]
        BY <2>2
    <3>2. p[i] = a
        BY <2>2
    <3> QED BY <3>1, <3>2
  <2>3. CASE i = Len(q) + 2
    <3>1. two[i] = <<a, b>>[2]
        BY <2>3
    <3>2. p[i] = b
        BY <2>3
    <3> QED BY <3>1, <3>2
  <2>4. i \in 1..Len(q) \/ i = Len(q) + 1 \/ i = Len(q) + 2
      OBVIOUS
  <2> QED BY <2>1, <2>2, <2>3, <2>4
<1> HIDE DEF two, p
<1>3. two = p
    BY <1>1, <1>2
<1> QED BY <1>3 DEF two, p

LEMMA SentTwo ==
    ASSUME TypeOK, NEW r \in Requests, NEW t, NEW u, SendFrames(r, <<t, u>>),
           {<<t, r>>, <<u, r>>} \subseteq Answers
    PROVE  \/ /\ ~(work[r].socket = ws /\ wsOpen /\ ws \notin cut)
              /\ toRelay' = toRelay
           \/ /\ work[r].socket = ws /\ wsOpen /\ ws \notin cut
              /\ toRelay' = [toRelay EXCEPT ![ws] = Append(Append(@, <<t, r>>), <<u, r>>)]
<1> DEFINE frames == [i \in DOMAIN <<t, u>> |-> <<<<t, u>>[i], r>>]
<1>1. frames = <<<<t, r>>, <<u, r>>>>
    OBVIOUS
<1> HIDE DEF frames
<1>2. SendFrames(r, <<t, u>>) <=>
          toRelay' = IF work[r].socket = ws /\ wsOpen /\ work[r].socket \notin cut
                     THEN [toRelay EXCEPT ![work[r].socket] = @ \o frames] ELSE toRelay
    BY DEF SendFrames, frames
<1>3. CASE work[r].socket = ws /\ wsOpen /\ ws \notin cut
  <2>1. toRelay' = [toRelay EXCEPT ![ws] = @ \o <<<<t, r>>, <<u, r>>>>]
      BY <1>1, <1>2, <1>3
  <2>2. ws \in DOMAIN toRelay =>
            toRelay[ws] \o <<<<t, r>>, <<u, r>>>> = Append(Append(toRelay[ws], <<t, r>>), <<u, r>>)
    <3>1. ws \in DOMAIN toRelay => toRelay[ws] \in Seq(Answers \cup {Close})
        BY DEF TypeOK
    <3> DEFINE a == <<t, r>>
               b == <<u, r>>
    <3>2. a \in Answers \cup {Close} /\ b \in Answers \cup {Close}
        OBVIOUS
    <3> HIDE DEF a, b
    <3>3. ws \in DOMAIN toRelay => toRelay[ws] \o <<a, b>> = Append(Append(toRelay[ws], a), b)
        BY <3>1, <3>2, TwoMore
    <3> QED BY <3>3 DEF a, b
  <2> QED BY <1>3, <2>1, <2>2
<1> QED BY <1>2, <1>3

\* A wire that takes a frame is still one.
LEMMA WithTypes ==
    ASSUME NEW frames, NEW wires \in WiresOf(frames), NEW s \in Sockets, NEW frame \in frames \cup {Close}
    PROVE  /\ With(wires, s, frame) \in WiresOf(frames)
           /\ With(wires, s, frame) = IF s \in cut THEN wires ELSE [wires EXCEPT ![s] = Append(@, frame)]
BY DEF With, WiresOf
Types ==
    /\ link \in [Sockets -> {"unused", "open", "closing", "closed"}]
    /\ pending \subseteq Requests /\ active \subseteq Requests
    /\ entry \in [Requests -> Entries]
    /\ caller \in [Requests -> Callers]
    /\ ws \in Sockets \cup {0}
    /\ wsOpen \in BOOLEAN /\ reconnect \in BOOLEAN /\ alive \in BOOLEAN
    /\ work \in [Requests -> Works]
    /\ toBridge \in WiresOf(Asks) /\ toRelay \in WiresOf(Answers)
    /\ cut \subseteq Sockets
    /\ faults \in 0..MaxFaults

LEMMA Typed == TypeOK <=> Types
BY DEF Types, TypeOK, Entries, Callers, Works, Steps, WiresOf

LEMMA TypedNext == TypeOK' <=> Types'
BY Typed, PTL

\* The relay's connections.
LEMMA AcceptTypes ==
    ASSUME IInv, NEW s \in Sockets, AcceptBridge(s), UNCHANGED bridgeVars, faults' \in 0..MaxFaults
    PROVE  TypeOK' /\ OneConnection'
<1> USE Typed DEF IInv, AcceptBridge, bridgeVars, Types
<1>1. link' \in [Sockets -> {"unused", "open", "closing", "closed"}]
    BY DEF Replaced
<1>2. toBridge' \in WiresOf(Asks)
    BY DEF WiresOf
<1>3. TypeOK'
    BY <1>1, <1>2, TypedNext
<1>4. OneConnection'
  <2>1. \A t \in Sockets : link'[t] = "open" => t = s
      BY DEF Replaced
  <2>2. wsOpen' => ws' # 0 /\ link'[ws'] # "unused"
      BY DEF OneConnection, Replaced
  <2>3. \A t \in cut' : toBridge'[t] = <<>> /\ toRelay'[t] = <<>>
      BY DEF OneConnection
  <2> QED BY <2>1, <2>2, <2>3 DEF OneConnection
<1> QED BY <1>3, <1>4
\* Of the relay's own steps, only those on connections touch them.
LEMMA FailTypes ==
    ASSUME Types, NEW s \in Sockets, FailSocketPending(s)
    PROVE  pending' \subseteq Requests /\ entry' \in [Requests -> Entries] /\ caller' \in [Requests -> Callers]
<1> USE DEF Types, FailSocketPending
<1>1. \A o \in Entries : [o EXCEPT !.streamError = TRUE] \in Entries
    BY DEF Entries
<1>2. pending' \subseteq Requests
    OBVIOUS
<1>3. entry' \in [Requests -> Entries]
    BY <1>1
<1>4. caller' \in [Requests -> Callers]
    BY DEF Callers, Ends, BrokenOff
<1> QED BY <1>2, <1>3, <1>4

\* How the fields of an entry change.
LEMMA EntryTypes ==
    ASSUME NEW o \in Entries, NEW b \in BOOLEAN, NEW c \in BOOLEAN, NEW n \in 0..MaxChunks,
           NEW s \in Sockets
    PROVE  /\ [o EXCEPT !.socket = s] \in Entries
           /\ [o EXCEPT !.controller = b] \in Entries
           /\ [o EXCEPT !.started = TRUE, !.empty = b] \in Entries
           /\ [o EXCEPT !.got = n] \in Entries
           /\ [o EXCEPT !.ended = b] \in Entries
           /\ [o EXCEPT !.streamError = b] \in Entries
BY DEF Entries

\* A chunk on its way has not been counted yet.
LEMMA RoomForChunk ==
    ASSUME TypeOK, NEW r \in Requests, NEW s \in Sockets, Counted(r, s),
           toRelay[s] # <<>>, Head(toRelay[s]) = <<"chunk", r>>
    PROVE  entry[r].got + 1 \in 0..MaxChunks
<1> USE Typed DEF Types
<1>1. toRelay[s] \in Seq(Answers \cup {Close})
    BY DEF WiresOf
<1>2. Tail(toRelay[s]) \in Seq(Answers \cup {Close})
    BY <1>1
<1>3. Times(<<"chunk", r>>, Tail(toRelay[s])) \in Nat
    BY <1>2, TimesIsNat
<1>4. Times(<<"chunk", r>>, toRelay[s]) = Times(<<"chunk", r>>, Tail(toRelay[s])) + 1
    BY <1>1, TimesTail
<1>5. entry[r].got \in 0..MaxChunks /\ work[r].sent \in 0..MaxChunks
    BY DEF Entries, Works
<1>6. MaxChunks \in Nat
    BY ConstantsAssumption
<1> QED BY <1>3, <1>4, <1>5, <1>6 DEF Counted

LEMMA FrameTypes ==
    ASSUME TypeOK, NEW r \in Requests, NEW s \in Sockets, NEW type, Counted(r, s),
           toRelay[s] # <<>>, Head(toRelay[s]) = <<type, r>>,
           <<type, r>> \in Answers, Frame(type, r, s)
    PROVE  pending' \subseteq Requests /\ entry' \in [Requests -> Entries] /\ caller' \in [Requests -> Callers]
<1> USE Typed DEF Types
<1>1. entry[r] \in Entries /\ caller \in [Requests -> Callers] /\ {"complete", "broken", "502"} \subseteq Callers
    BY DEF Callers, Ends
<1>2. CASE ~Expected(r, s)
    BY <1>1, <1>2 DEF Frame
<1>3. CASE Expected(r, s) /\ type \in {"start", "startEmpty"}
  <2>1. [entry[r] EXCEPT !.started = TRUE, !.empty = type = "startEmpty"] \in Entries
    <3>1. (type = "startEmpty") \in BOOLEAN
        OBVIOUS
    <3> QED BY <1>1, <3>1 DEF Entries
  <2>2. UNCHANGED <<pending, caller>> /\
        entry' = IF entry[r].started THEN entry
                 ELSE [entry EXCEPT ![r].started = TRUE, ![r].empty = type = "startEmpty"]
      BY <1>3 DEF Frame
  <2> QED BY <1>1, <2>1, <2>2
<1>4. CASE Expected(r, s) /\ type = "chunk"
  <2>1. [entry[r] EXCEPT !.got = @ + 1] \in Entries
    <3>1. entry[r].got + 1 \in 0..MaxChunks
        BY <1>4, RoomForChunk
    <3> QED BY <1>1, <3>1, EntryTypes
  <2>2. UNCHANGED <<pending, caller>> /\
        entry' = IF entry[r].started THEN [entry EXCEPT ![r].got = @ + 1] ELSE entry
      BY <1>4 DEF Frame
  <2> QED BY <1>1, <2>1, <2>2
<1>5. CASE Expected(r, s) /\ type = "end"
  <2>1. [entry[r] EXCEPT !.ended = entry[r].started] \in Entries
      BY <1>1, EntryTypes DEF Entries
  <2>2. /\ entry' = [entry EXCEPT ![r].ended = entry[r].started]
        /\ pending' = IF entry[r].controller THEN Forget(r) ELSE pending
        /\ caller' = IF entry[r].controller THEN [caller EXCEPT ![r] = "complete"] ELSE caller
      BY <1>5 DEF Frame
  <2> QED BY <1>1, <2>1, <2>2 DEF Forget
<1>6. CASE Expected(r, s) /\ type = "error"
  <2>1. [entry[r] EXCEPT !.streamError = entry[r].started] \in Entries
      BY <1>1, EntryTypes DEF Entries
  <2>2. /\ entry' = [entry EXCEPT ![r].streamError = entry[r].started]
        /\ pending' = IF Waits(r) \/ entry[r].controller THEN Forget(r) ELSE pending
        /\ caller' = IF Waits(r) THEN [caller EXCEPT ![r] = "502"]
                     ELSE IF entry[r].controller THEN [caller EXCEPT ![r] = "broken"]
                     ELSE caller
      BY <1>6 DEF Frame
  <2> QED BY <1>1, <2>1, <2>2 DEF Forget
<1> QED BY <1>2, <1>3, <1>4, <1>5, <1>6 DEF Answers
LEMMA WorkTypes ==
    ASSUME Types, NEW requests
    PROVE  /\ Aborted(requests) \in [Requests -> Works]
           /\ \A r \in Requests : \A step \in Steps : [work EXCEPT ![r].step = step] \in [Requests -> Works]
           /\ \A r \in Requests : \A s \in Sockets :
                [work EXCEPT ![r] = [step |-> "fetch", socket |-> s, sent |-> 0]] \in [Requests -> Works]
<1> USE DEF Types
<1>1. \A o \in Works : \A step \in Steps : [o EXCEPT !.step = step] \in Works
    BY DEF Works
<1>2. "aborted" \in Steps
    BY DEF Steps
<1>3. Aborted(requests) \in [Requests -> Works]
    BY <1>1, <1>2 DEF Aborted
<1>4. \A r \in Requests : \A step \in Steps : [work EXCEPT ![r].step = step] \in [Requests -> Works]
    BY <1>1
<1>5. \A s \in Sockets : [step |-> "fetch", socket |-> s, sent |-> 0] \in Works
    BY ConstantsAssumption DEF Works, Steps
<1>6. \A r \in Requests : \A s \in Sockets :
        [work EXCEPT ![r] = [step |-> "fetch", socket |-> s, sent |-> 0]] \in [Requests -> Works]
    BY <1>5
<1> QED BY <1>3, <1>4, <1>6

\* Frames the bridge sends, whatever they are.
LEMMA AnswerTypes ==
    ASSUME TypeOK, NEW r \in Requests,
           \/ \E t \in {"start", "chunk", "end", "error"} : SendFrames(r, <<t>>)
           \/ SendFrames(r, <<"startEmpty", "end">>)
    PROVE  /\ toRelay' \in WiresOf(Answers)
           /\ \A s \in cut : toRelay[s] = <<>> => toRelay'[s] = <<>>
<1> USE Typed DEF Types
<1>1. ASSUME NEW t \in {"start", "chunk", "end", "error"}, SendFrames(r, <<t>>)
      PROVE  toRelay' \in WiresOf(Answers) /\ \A s \in cut : toRelay[s] = <<>> => toRelay'[s] = <<>>
  <2>1. <<t, r>> \in Answers \cup {Close}
      BY DEF Answers
  <2>2. CASE toRelay' = toRelay
      BY <2>2
  <2>3. CASE ws \notin cut /\ toRelay' = [toRelay EXCEPT ![ws] = Append(@, <<t, r>>)]
    <3>1. toRelay' \in WiresOf(Answers)
      <4>1. ws \in Sockets => Append(toRelay[ws], <<t, r>>) \in Seq(Answers \cup {Close})
          BY <2>1 DEF WiresOf
      <4> QED BY <4>1, <2>3 DEF WiresOf
    <3>2. \A s \in cut : toRelay'[s] = toRelay[s]
        BY <2>3 DEF WiresOf
    <3> QED BY <3>1, <3>2
  <2> QED BY <1>1, <2>2, <2>3, SentOne
<1>2. ASSUME SendFrames(r, <<"startEmpty", "end">>)
      PROVE  toRelay' \in WiresOf(Answers) /\ \A s \in cut : toRelay[s] = <<>> => toRelay'[s] = <<>>
  <2>1. <<"startEmpty", r>> \in Answers \cup {Close} /\ <<"end", r>> \in Answers \cup {Close}
      BY DEF Answers
  <2>2. CASE toRelay' = toRelay
      BY <2>2
  <2>3. CASE ws \notin cut /\ toRelay' = [toRelay EXCEPT ![ws] = Append(Append(@, <<"startEmpty", r>>), <<"end", r>>)]
    <3>1. toRelay' \in WiresOf(Answers)
      <4>1. ws \in Sockets => Append(Append(toRelay[ws], <<"startEmpty", r>>), <<"end", r>>) \in Seq(Answers \cup {Close})
          BY <2>1 DEF WiresOf
      <4> QED BY <4>1, <2>3 DEF WiresOf
    <3>2. \A s \in cut : toRelay'[s] = toRelay[s]
        BY <2>3 DEF WiresOf
    <3> QED BY <3>1, <3>2
  <2>4. {<<"startEmpty", r>>, <<"end", r>>} \subseteq Answers
      BY DEF Answers
  <2>5. toRelay' = toRelay \/ (ws \notin cut /\
            toRelay' = [toRelay EXCEPT ![ws] = Append(Append(@, <<"startEmpty", r>>), <<"end", r>>)])
      BY <1>2, <2>4, SentTwo
  <2> QED BY <2>2, <2>3, <2>5
<1> QED BY <1>1, <1>2

\* A step of the relay about a request.
LEMMA RequestTypes ==
    ASSUME IInv, NEW r \in Requests, Forward(r) \/ RelaySteps(r) \/ Cancel(r)
    PROVE  TypeOK' /\ OneConnection'
<1> USE Typed DEF IInv, Types
<1>1. entry[r] \in Entries
    OBVIOUS
<1>2. {"reading", "waiting", "streaming", "413", "502", "503", "504", "complete", "broken", "cancelled"} \subseteq Callers
    BY DEF Callers, Ends
<1>3. caller[r] \in {"reading", "streaming"} \/ r \in pending => entry[r].socket \in Sockets
  <2>1. Conversation(r)
      OBVIOUS
  <2> QED BY <2>1 DEF Conversation, SentOnce, Held, Entries
<1>4. ASSUME NEW how \in Callers, Answered(r, how)
      PROVE  caller' \in [Requests -> Callers]
    BY <1>4 DEF Answered
<1>5. \A s \in Sockets : \A frame \in Asks :
         With(toBridge, s, frame) \in WiresOf(Asks) /\ \A t \in cut : With(toBridge, s, frame)[t] = toBridge[t]
    BY DEF With, WiresOf
<1>6. <<"request", r>> \in Asks /\ <<"cancel", r>> \in Asks
    BY DEF Asks
<1>7. CASE Forward(r)
  <2>1. entry' \in [Requests -> Entries]
    <3>1. OpenLinks # {} => [entry[r] EXCEPT !.socket = BridgeSocket] \in Entries
      <4>1. ASSUME OpenLinks # {}
            PROVE  BridgeSocket \in Sockets
          BY <4>1, BridgeSocketIsOpen
      <4>2. \A t \in Sockets : [entry[r] EXCEPT !.socket = t] \in Entries
          BY <1>1 DEF Entries
      <4> QED BY <4>1, <4>2
    <3>2. entry' = entry \/ (OpenLinks # {} /\ entry' = [entry EXCEPT ![r].socket = BridgeSocket])
        BY <1>7 DEF Forward
    <3> QED BY <3>1, <3>2
  <2>2. caller' \in [Requests -> Callers]
      BY <1>2, <1>4, <1>7 DEF Forward
  <2>3. TypeOK'
      BY <1>7, <2>1, <2>2, TypedNext DEF Forward, bridgeVars, wire
  <2>4. OneConnection'
      BY <1>7 DEF Forward, OneConnection, bridgeVars, wire
  <2> QED BY <2>3, <2>4
<1>8. CASE Send(r)
  <2>1. caller' \in [Requests -> Callers]
      BY <1>2, <1>4, <1>8 DEF Send
  <2>2. entry[r].socket \in Sockets
      BY <1>3, <1>8 DEF Send
  <2>3. toBridge' \in WiresOf(Asks) /\ \A t \in cut : toBridge'[t] = toBridge[t]
    <3>1. toBridge' = toBridge \/ toBridge' = With(toBridge, entry[r].socket, <<"request", r>>)
        BY <1>8 DEF Send
    <3> QED BY <1>5, <1>6, <2>2, <3>1
  <2>4. pending' \subseteq Requests
      BY <1>8 DEF Send, Forget
  <2>5. TypeOK'
      BY <1>8, <2>1, <2>3, <2>4, TypedNext DEF Send, bridgeVars
  <2>6. OneConnection'
      BY <1>8, <2>3 DEF Send, OneConnection, bridgeVars
  <2> QED BY <2>5, <2>6
<1>9. CASE Timeout(r) \/ Cancel(r)
  <2>1. caller' \in [Requests -> Callers]
      BY <1>2, <1>4, <1>9 DEF Timeout, Cancel
  <2>2. entry[r].socket \in Sockets
      BY <1>3, <1>9 DEF Timeout, Cancel
  <2>3. toBridge' \in WiresOf(Asks) /\ \A t \in cut : toBridge'[t] = toBridge[t]
      BY <1>5, <1>6, <1>9, <2>2 DEF Timeout, Cancel, SendCancel
  <2>4. pending' \subseteq Requests
      BY <1>9 DEF Timeout, Cancel, Forget
  <2>5. TypeOK'
      BY <1>9, <2>1, <2>3, <2>4, TypedNext DEF Timeout, Cancel, bridgeVars
  <2>6. OneConnection'
      BY <1>9, <2>3 DEF Timeout, Cancel, OneConnection, bridgeVars
  <2> QED BY <2>5, <2>6
<1>10. CASE Continue(r)
  <2>1. caller' \in [Requests -> Callers]
      BY <1>2, <1>4, <1>10 DEF Continue
  <2>2. entry' \in [Requests -> Entries]
      BY <1>1, <1>10, EntryTypes DEF Continue, Entries
  <2>3. pending' \subseteq Requests
      BY <1>10 DEF Continue, Forget
  <2>4. TypeOK'
      BY <1>10, <2>1, <2>2, <2>3, TypedNext DEF Continue, bridgeVars, wire
  <2>5. OneConnection'
      BY <1>10 DEF Continue, OneConnection, bridgeVars, wire
  <2> QED BY <2>4, <2>5
<1> QED BY <1>7, <1>8, <1>9, <1>10 DEF RelaySteps
\* A step of the relay about a connection.
LEMMA LinkTypes ==
    ASSUME IInv, NEW s \in Sockets, WebSocketGone(s) \/ DeliverToRelay(s)
    PROVE  TypeOK' /\ OneConnection'
<1> USE Typed DEF IInv, Types
<1>1. toRelay[s] \in Seq(Answers \cup {Close})
    BY DEF WiresOf
<1>2. \A l \in {"open", "closed"} : l # "unused"
    OBVIOUS
<1>3. CASE WebSocketGone(s)
  <2>1. link' \in [Sockets -> {"unused", "open", "closing", "closed"}]
      BY <1>3 DEF WebSocketGone
  <2>2. TypeOK'
      BY <1>3, <2>1, FailTypes, TypedNext DEF WebSocketGone, bridgeVars, wire
  <2>3. OneConnection'
      BY <1>3 DEF WebSocketGone, OneConnection, bridgeVars, wire
  <2> QED BY <2>2, <2>3
<1>4. CASE DeliverToRelay(s)
  <2> DEFINE frame == Head(toRelay[s])
  <2>1. frame \in Answers \cup {Close} /\ toRelay[s] # <<>>
      BY <1>1, <1>4 DEF DeliverToRelay
  <2>2. toRelay' \in WiresOf(Answers)
      BY <1>1, <1>4, <2>1 DEF DeliverToRelay, WiresOf
  <2>3. \A t \in cut : toRelay[t] = <<>> => toRelay'[t] = <<>>
    <3> TAKE t \in cut
    <3>1. CASE t = s
        BY <2>1, <3>1
    <3>2. CASE t # s
        BY <1>4, <3>2 DEF DeliverToRelay, WiresOf
    <3> QED BY <3>1, <3>2
  <2>4. link' \in [Sockets -> {"unused", "open", "closing", "closed"}]
        /\ \A t \in Sockets : /\ link'[t] = "open" => link[t] = "open"
                              /\ link[t] # "unused" => link'[t] # "unused"
      BY <1>4 DEF DeliverToRelay
  <2>5. pending' \subseteq Requests /\ entry' \in [Requests -> Entries] /\ caller' \in [Requests -> Callers]
    <3>1. CASE frame = Close
        BY <1>4, <3>1, FailTypes DEF DeliverToRelay
    <3>2. CASE frame # Close
      <4>1. PICK type \in {"start", "startEmpty", "chunk", "end", "error"}, r \in Requests : frame = <<type, r>>
          BY <2>1, <3>2 DEF Answers
      <4>2. Frame(type, r, s)
          BY <1>4, <3>2, <4>1 DEF DeliverToRelay
      <4>3. Counted(r, s) /\ <<type, r>> \in Answers
          BY <2>1, <3>2, <4>1 DEF Conversation
      <4> QED BY <2>1, <4>1, <4>2, <4>3, FrameTypes
    <3> QED BY <3>1, <3>2
  <2>6. TypeOK'
      BY <1>4, <2>2, <2>4, <2>5, TypedNext DEF DeliverToRelay, bridgeVars
  <2>7. OneConnection'
      BY <1>4, <2>3, <2>4 DEF DeliverToRelay, OneConnection, bridgeVars
  <2> QED BY <2>6, <2>7
<1> QED BY <1>3, <1>4

\* The bridge starts over.
LEMMA CloseTypes ==
    ASSUME TypeOK, OneConnection, WsClose
    PROVE  /\ ws' = 0 /\ wsOpen' = FALSE /\ active' = {} /\ reconnect' = TRUE /\ alive' = alive
           /\ work' \in [Requests -> Works]
           /\ toBridge' \in WiresOf(Asks)
           /\ \A s \in cut : toBridge'[s] = <<>>
<1> USE Typed DEF WsClose, Types
<1>1. work' \in [Requests -> Works]
  <2>1. Aborted(active) \in [Requests -> Works]
      BY WorkTypes, Zenon
  <2> QED BY <2>1 DEF AbortAll
<1>2. toBridge' \in WiresOf(Asks)
  <2>1. <<>> \in Seq(Asks \cup {Close})
      OBVIOUS
  <2> QED BY <2>1 DEF WiresOf
<1>3. \A s \in cut : toBridge'[s] = <<>>
    BY DEF WiresOf, OneConnection
<1> QED BY <1>1, <1>2, <1>3 DEF Rescheduled

\* A step of the bridge about its connection.
LEMMA BridgeTypes ==
    ASSUME IInv, WsOpens \/ Terminate \/ Connect \/ DeliverToBridge \/ Exit \/ Start
    PROVE  TypeOK' /\ OneConnection'
<1> USE Typed DEF IInv, Types
<1>1. CASE WsOpens
  <2>1. TypeOK'
      BY <1>1, TypedNext DEF WsOpens, relayVars, wire
  <2>2. OneConnection'
      BY <1>1 DEF WsOpens, OneConnection, relayVars, wire
  <2> QED BY <2>1, <2>2
<1>2. CASE Terminate
  <2>1. TypeOK'
      BY <1>2, CloseTypes, TypedNext DEF Terminate, relayVars
  <2>2. OneConnection'
      BY <1>2, CloseTypes DEF Terminate, OneConnection, relayVars
  <2> QED BY <2>1, <2>2
<1>3. CASE Connect
  <2>1. ~wsOpen
      BY <1>3 DEF Connect, OneConnection
  <2>2. TypeOK'
      BY <1>3, TypedNext DEF Connect, relayVars, wire
  <2>3. OneConnection'
      BY <1>3, <2>1 DEF Connect, OneConnection, relayVars, wire
  <2> QED BY <2>2, <2>3
<1>4. CASE DeliverToBridge
  <2> DEFINE frame == Head(toBridge[ws])
  <2>1. ws \in Sockets /\ toBridge[ws] \in Seq(Asks \cup {Close}) /\ toBridge[ws] # <<>>
      BY <1>4 DEF DeliverToBridge, WiresOf
  <2>2. frame \in Asks \cup {Close} /\ Tail(toBridge[ws]) \in Seq(Asks \cup {Close})
      BY <2>1
  <2>3. CASE frame = Close
    <3>1. WsClose /\ toRelay' = With(toRelay, ws, Close) /\ UNCHANGED <<relayVars, cut, faults>>
        BY <1>4, <2>3 DEF DeliverToBridge
    <3>2. toRelay' \in WiresOf(Answers) /\ \A t \in cut : toRelay'[t] = toRelay[t]
        BY <2>1, <3>1 DEF With, WiresOf
    <3>3. TypeOK'
        BY <3>1, <3>2, CloseTypes, TypedNext DEF relayVars
    <3>4. OneConnection'
        BY <3>1, <3>2, CloseTypes DEF OneConnection, relayVars
    <3> QED BY <3>3, <3>4
  <2>4. CASE frame # Close
    <3>1. frame[2] \in Requests
        BY <2>2, <2>4 DEF Asks
    <3>2. /\ active' \in {active \cup {frame[2]}, active \ {frame[2]}}
          /\ \/ work' = work
             \/ work' = [work EXCEPT ![frame[2]] = [step |-> "fetch", socket |-> ws, sent |-> 0]]
             \/ work' = Aborted({frame[2]} \cap active)
          /\ toBridge' = [toBridge EXCEPT ![ws] = Tail(@)]
          /\ UNCHANGED <<ws, wsOpen, reconnect, alive, toRelay, relayVars, cut, faults>>
        BY <1>4, <2>4 DEF DeliverToBridge
    <3>3. work' \in [Requests -> Works]
      <4>1. Aborted({frame[2]} \cap active) \in [Requests -> Works]
          BY WorkTypes, Zenon
      <4>2. [work EXCEPT ![frame[2]] = [step |-> "fetch", socket |-> ws, sent |-> 0]] \in [Requests -> Works]
        <5> HIDE DEF frame
        <5> QED BY <2>1, <3>1, WorkTypes
      <4> QED BY <3>2, <4>1, <4>2
    <3>4. toBridge' \in WiresOf(Asks)
        BY <2>1, <2>2, <3>2 DEF WiresOf
    <3>5. active' \subseteq Requests
        BY <3>1, <3>2
    <3>6. TypeOK'
        BY <3>2, <3>3, <3>4, <3>5, TypedNext DEF relayVars
    <3>7. ws \notin cut
        BY <2>1 DEF OneConnection
    <3>8. OneConnection'
        BY <3>2, <3>7 DEF OneConnection, relayVars, WiresOf
    <3> QED BY <3>6, <3>8
  <2> QED BY <2>3, <2>4
<1>5. CASE Exit
  <2>1. faults' \in 0..MaxFaults
      BY <1>5, ConstantsAssumption DEF Exit, Fault
  <2>2. work' \in [Requests -> Works]
    <3>1. \A o \in Works : [o EXCEPT !.step = IF @ = "none" THEN @ ELSE "done"] \in Works
        BY DEF Works, Steps
    <3> QED BY <1>5, <3>1 DEF Exit
  <2>3. <<>> \in Seq(Asks \cup {Close}) /\ <<>> \in Seq(Answers \cup {Close})
      OBVIOUS
  <2>4. toBridge' \in WiresOf(Asks) /\ toRelay' \in WiresOf(Answers)
      BY <1>5, <2>3 DEF Exit, WiresOf
  <2>5. cut' \subseteq Sockets
      BY <1>5 DEF Exit
  <2>6. /\ UNCHANGED relayVars
        /\ alive' = FALSE /\ ws' = 0 /\ wsOpen' = FALSE /\ reconnect' = FALSE /\ active' = {}
      BY <1>5 DEF Exit
  <2>7. TypeOK'
      BY <2>1, <2>2, <2>4, <2>5, <2>6, TypedNext DEF relayVars
  <2>8. \A s \in cut' : toBridge'[s] = <<>> /\ toRelay'[s] = <<>>
      BY <1>5 DEF Exit, OneConnection, WiresOf
  <2>9. OneConnection'
      BY <2>6, <2>8 DEF OneConnection, relayVars
  <2> QED BY <2>7, <2>9
<1>6. CASE Start
  <2>1. TypeOK'
      BY <1>6, TypedNext DEF Start, relayVars, wire
  <2>2. OneConnection'
      BY <1>6 DEF Start, OneConnection, relayVars, wire
  <2> QED BY <2>1, <2>2
<1> QED BY <1>1, <1>2, <1>3, <1>4, <1>5, <1>6
\* A step about an answer, or a cut.
LEMMA AnswerStepTypes ==
    ASSUME IInv, NEW r \in Requests,
           OriginAnswers(r) \/ OriginSends(r) \/ OriginEnds(r) \/ OriginFails(r) \/ AbortedFetch(r)
    PROVE  TypeOK' /\ OneConnection'
<1> USE Typed DEF IInv, Types
<1>1. /\ \/ \E t \in {"start", "chunk", "end", "error"} : SendFrames(r, <<t>>)
         \/ SendFrames(r, <<"startEmpty", "end">>)
      /\ \/ \E step \in Steps : work' = [work EXCEPT ![r].step = step]
         \/ work[r].sent < MaxChunks /\ work' = [work EXCEPT ![r].sent = @ + 1]
      /\ active' \in {active, active \ {r}}
      /\ UNCHANGED <<relayVars, ws, wsOpen, reconnect, alive, toBridge, cut, faults>>
    BY DEF OriginAnswers, OriginSends, OriginEnds, OriginFails, AbortedFetch, Work, Steps
<1>2. toRelay' \in WiresOf(Answers) /\ \A s \in cut : toRelay[s] = <<>> => toRelay'[s] = <<>>
    BY <1>1, AnswerTypes
<1>3. work' \in [Requests -> Works]
  <2>1. ASSUME work[r].sent < MaxChunks
        PROVE  [work[r] EXCEPT !.sent = @ + 1] \in Works
    <3>1. work[r] \in Works /\ work[r].sent + 1 \in 0..MaxChunks
        BY <2>1, ConstantsAssumption DEF Works
    <3> QED BY <3>1 DEF Works
  <2>2. CASE \E step \in Steps : work' = [work EXCEPT ![r].step = step]
      BY <2>2, WorkTypes
  <2>3. CASE work[r].sent < MaxChunks /\ work' = [work EXCEPT ![r].sent = @ + 1]
      BY <2>1, <2>3
  <2> QED BY <1>1, <2>2, <2>3
<1>4. TypeOK'
    BY <1>1, <1>2, <1>3, TypedNext DEF relayVars
<1>5. OneConnection'
    BY <1>1, <1>2 DEF OneConnection, relayVars
<1> QED BY <1>4, <1>5

LEMMA CutTypes ==
    ASSUME IInv, NEW s \in Sockets, CutSocket(s)
    PROVE  TypeOK' /\ OneConnection'
<1> USE Typed DEF IInv, Types
<1>1. <<>> \in Seq(Asks \cup {Close}) /\ <<>> \in Seq(Answers \cup {Close})
    OBVIOUS
<1>2. toBridge' \in WiresOf(Asks) /\ toRelay' \in WiresOf(Answers)
    BY <1>1 DEF CutSocket, WiresOf
<1>3. faults' \in 0..MaxFaults
    BY ConstantsAssumption DEF CutSocket, Fault
<1>4. TypeOK'
    BY <1>2, <1>3, TypedNext DEF CutSocket, relayVars, bridgeVars
<1>5. \A t \in cut' : toBridge'[t] = <<>> /\ toRelay'[t] = <<>>
    BY DEF CutSocket, OneConnection, WiresOf
<1>6. OneConnection'
    BY <1>5 DEF CutSocket, OneConnection, relayVars, bridgeVars
<1> QED BY <1>4, <1>6

\* Every step keeps the types and the connections.
LEMMA LinksKept ==
    ASSUME IInv, [Next]_vars
    PROVE  TypeOK' /\ OneConnection'
<1>1. CASE UNCHANGED vars
    BY <1>1, Typed, TypedNext DEF IInv, Types, OneConnection, vars, relayVars, bridgeVars, wire
<1>2. CASE Accept
  <2>1. ws \in Sockets /\ AcceptBridge(ws) /\ UNCHANGED bridgeVars /\ faults' \in 0..MaxFaults
      BY <1>2, Typed DEF Accept, IInv, Types
  <2> QED BY <2>1, AcceptTypes
<1>3. ASSUME NEW s \in Sockets, OtherBridge(s)
      PROVE  TypeOK' /\ OneConnection'
  <2>1. AcceptBridge(s) /\ UNCHANGED bridgeVars /\ faults' \in 0..MaxFaults
      BY <1>3, Typed, ConstantsAssumption DEF OtherBridge, Fault, IInv, Types
  <2> QED BY <2>1, AcceptTypes
<1>4. CASE WsOpens \/ Terminate \/ Connect \/ DeliverToBridge \/ Exit \/ Start
    BY <1>4, BridgeTypes
<1>5. ASSUME NEW s \in Sockets, WebSocketGone(s) \/ DeliverToRelay(s) \/ CutSocket(s)
      PROVE  TypeOK' /\ OneConnection'
    BY <1>5, LinkTypes, CutTypes
<1>6. ASSUME NEW r \in Requests,
             \/ Forward(r) \/ RelaySteps(r) \/ Cancel(r)
             \/ OriginAnswers(r) \/ OriginSends(r) \/ OriginEnds(r) \/ OriginFails(r) \/ AbortedFetch(r)
      PROVE  TypeOK' /\ OneConnection'
    BY <1>6, RequestTypes, AnswerStepTypes
<1> QED BY <1>1, <1>2, <1>3, <1>4, <1>5, <1>6 DEF Next, Connecting
----------------------------------------------------------------------------
(***************************************************************************)
(* The conversation about a request.                                       *)
(***************************************************************************)

\* What was asked of the bridge about r, unless it is lost or taken.
SameAsks(r) == \A s \in Sockets : NoAsk(toBridge[s], toBridge'[s], r)

SameStart(r) == caller'[r] \in {"new", "reading"} => caller'[r] = caller[r]

LEMMA SentOnceKeeps ==
    ASSUME NEW r \in Requests, SentOnce(r), SameEntry(r), SameWork(r), SameAsks(r), SameStart(r)
    PROVE  SentOnce(r)'
<1>1. caller'[r] \in {"new", "reading"} => work'[r].step = "none"
    BY DEF SentOnce, SameStart, SameWork
<1>2. caller'[r] = "reading" => entry'[r].socket # 0
    BY DEF SentOnce, SameStart, SameEntry
<1>3. /\ work'[r].step \in {"none", "fetch"} => work'[r].sent = 0
      /\ work'[r].step = "none" => ~entry'[r].started
    BY DEF SentOnce, SameWork, SameEntry
<1>4. work'[r].step # "none" => work'[r].socket = entry'[r].socket
    BY DEF SentOnce, SameWork, SameEntry
<1>5. ASSUME NEW s \in Sockets
      PROVE  /\ OnceOn(<<"request", r>>, toBridge'[s])
             /\ On(<<"request", r>>, toBridge'[s]) =>
                  s = entry'[r].socket /\ caller'[r] \notin {"new", "reading"} /\ work'[r].step = "none"
  <2>1. /\ OnceOn(<<"request", r>>, toBridge[s])
        /\ On(<<"request", r>>, toBridge[s]) =>
             s = entry[r].socket /\ caller[r] \notin {"new", "reading"} /\ work[r].step = "none"
      BY DEF SentOnce
  <2>2. NoAsk(toBridge[s], toBridge'[s], r)
      BY DEF SameAsks
  <2> QED BY <2>1, <2>2 DEF NoAsk, SameStart, SameWork, SameEntry
<1> QED BY <1>1, <1>2, <1>3, <1>4, <1>5 DEF SentOnce

\* What remains to be shown of a step that leaves the wires alone.
LEMMA Rested ==
    ASSUME TypeOK, OneConnection, NEW r \in Requests, Conversation(r),
           AtRest(r), SameAsks(r), SameStart(r), Held(r)'
    PROVE  Conversation(r)'
<1>1. Wire(r) /\ SentOnce(r)
    BY DEF Conversation, Wire
<1>2. Wire(r)'
    BY <1>1, WireKeeps
<1>3. SentOnce(r)'
    BY <1>1, SentOnceKeeps DEF AtRest
<1> QED BY <1>2, <1>3 DEF Conversation, Wire

\* A request the step is not about.
Bystander(r) ==
    /\ entry'[r] = entry[r] /\ work'[r] = work[r] /\ caller'[r] = caller[r]
    /\ r \in pending' <=> r \in pending
    /\ r \in active' <=> r \in active
    /\ r \in active => ws' = ws /\ wsOpen' = wsOpen
    /\ cut \subseteq cut'
    /\ SameAsks(r) /\ SameFrames(r)

LEMMA BystanderKeeps ==
    ASSUME TypeOK, OneConnection, NEW r \in Requests, Conversation(r), Bystander(r)
    PROVE  Conversation(r)'
<1>1. Held(r) /\ Over(r)
    BY DEF Conversation
<1>2. Held(r)'
    BY <1>1 DEF Held, Bystander
<1>3. work[r].step \in Steps
    BY Typed DEF Types, Works
<1>4. SameEntry(r) /\ SameWork(r)
    BY <1>3 DEF Bystander, SameEntry, SameWork, Steps
<1>5. AtRest(r)
    BY <1>1, <1>4 DEF AtRest, Bystander, Over
<1> QED BY <1>2, <1>5, Rested DEF Bystander, SameStart

\* A step that touches nothing of r, nor the wires.
LEMMA NoFrames ==
    ASSUME NEW r
    PROVE  /\ toRelay' = toRelay => SameFrames(r)
           /\ toBridge' = toBridge => SameAsks(r)
<1>1. toRelay' = toRelay => SameFrames(r)
    BY DEF SameFrames, Leaves
<1>2. toBridge' = toBridge => SameAsks(r)
    BY DEF SameAsks, NoAsk
<1> QED BY <1>1, <1>2
\* A frame for something else than r, on one wire each way.
LEMMA OtherFrames ==
    ASSUME TypeOK, NEW r \in Requests, NEW s \in Sockets
    PROVE  /\ \A x \in Asks \cup {Close} :
                x # <<"request", r>> /\ toBridge' = [toBridge EXCEPT ![s] = Append(@, x)] => SameAsks(r)
           /\ toBridge[s] # <<>> /\ toBridge' = [toBridge EXCEPT ![s] = Tail(@)] => SameAsks(r)
           /\ toBridge' = [toBridge EXCEPT ![s] = <<>>] => SameAsks(r)
           /\ \A x \in Answers \cup {Close} :
                x[2] # r /\ toRelay' = [toRelay EXCEPT ![s] = Append(@, x)] => SameFrames(r)
           /\ toRelay[s] # <<>> /\ Head(toRelay[s])[2] # r
                /\ toRelay' = [toRelay EXCEPT ![s] = Tail(@)] => SameFrames(r)
<1>1. /\ toBridge \in [Sockets -> Seq(Asks \cup {Close})]
      /\ toRelay \in [Sockets -> Seq(Answers \cup {Close})]
    BY DEF TypeOK
<1>2. \A t \in Sockets : NoAsk(toBridge[t], toBridge[t], r) /\ NoAsk(toBridge[t], <<>>, r)
    BY DEF NoAsk, On, OnceOn
<1>3. \A t \in Sockets : Leaves(toRelay[t], toRelay[t], r)
    BY LeavesAgain
<1>4. ASSUME NEW x \in Asks \cup {Close}, x # <<"request", r>>,
             toBridge' = [toBridge EXCEPT ![s] = Append(@, x)]
      PROVE  SameAsks(r)
  <2>1. NoAsk(toBridge[s], Append(toBridge[s], x), r)
    <3>1. toBridge[s] \in Seq(Asks \cup {Close})
        BY <1>1
    <3> QED BY <1>4, <3>1, NothingAsked
  <2> QED BY <1>1, <1>2, <1>4, <2>1 DEF SameAsks
<1>5. ASSUME toBridge[s] # <<>>, toBridge' = [toBridge EXCEPT ![s] = Tail(@)]
      PROVE  SameAsks(r)
  <2>1. NoAsk(toBridge[s], Tail(toBridge[s]), r)
    <3>1. toBridge[s] \in Seq(Asks \cup {Close})
        BY <1>1
    <3> QED BY <1>5, <3>1, NothingAsked
  <2> QED BY <1>1, <1>2, <1>5, <2>1 DEF SameAsks
<1>6. ASSUME toBridge' = [toBridge EXCEPT ![s] = <<>>]
      PROVE  SameAsks(r)
    BY <1>1, <1>2, <1>6 DEF SameAsks
<1>7. ASSUME NEW x \in Answers \cup {Close}, x[2] # r,
             toRelay' = [toRelay EXCEPT ![s] = Append(@, x)]
      PROVE  SameFrames(r)
  <2>1. Leaves(toRelay[s], Append(toRelay[s], x), r)
      BY <1>1, <1>7, AppendLeaves
  <2> QED BY <1>1, <1>3, <1>7, <2>1 DEF SameFrames
<1>8. ASSUME toRelay[s] # <<>>, Head(toRelay[s])[2] # r,
             toRelay' = [toRelay EXCEPT ![s] = Tail(@)]
      PROVE  SameFrames(r)
  <2>1. Leaves(toRelay[s], Tail(toRelay[s]), r)
      BY <1>1, <1>8, TailLeaves
  <2> QED BY <1>1, <1>3, <1>8, <2>1 DEF SameFrames
<1> QED BY <1>4, <1>5, <1>6, <1>7, <1>8

\* A connection is accepted: nothing happens to a request.
LEMMA AcceptKeeps ==
    ASSUME IInv, NEW r \in Requests, NEW s \in Sockets, AcceptBridge(s), UNCHANGED bridgeVars
    PROVE  Conversation(r)'
<1> USE DEF IInv
<1>1. SameAsks(r)
  <2>1. ASSUME NEW t \in Sockets
        PROVE  NoAsk(toBridge[t], toBridge'[t], r)
    <3>1. toBridge[t] \in Seq(Asks \cup {Close}) /\ Close # <<"request", r>>
        BY DEF TypeOK, Close
    <3>2. toBridge'[t] = toBridge[t] \/ toBridge'[t] = Append(toBridge[t], Close)
        BY DEF AcceptBridge
    <3> QED BY <3>1, <3>2, NothingAsked
  <2> QED BY <2>1 DEF SameAsks
<1>2. Bystander(r)
    BY <1>1, NoFrames DEF Bystander, AcceptBridge, bridgeVars
<1> QED BY <1>2, BystanderKeeps

\* A connection is lost for the relay: what waits on it is answered, what is
\* being read breaks off, and the rest is not concerned.
LEMMA FailKeeps ==
    ASSUME IInv, NEW r \in Requests, NEW s \in Sockets, FailSocketPending(s),
           UNCHANGED <<bridgeVars, toBridge, cut>>, SameFrames(r)
    PROVE  Conversation(r)'
<1> USE DEF IInv
<1>1. SameAsks(r)
    BY NoFrames
<1>2. CASE r \notin PendingOn(s)
  <2>1. Bystander(r)
      BY <1>1, <1>2 DEF Bystander, FailSocketPending, bridgeVars
  <2> QED BY <2>1, BystanderKeeps
<1>3. CASE r \in PendingOn(s)
  <2>1. Held(r) /\ r \in pending /\ Over(r)
      BY <1>3 DEF Conversation, PendingOn
  <2>2. /\ r \notin pending' /\ work' = work /\ active' = active /\ ws' = ws /\ wsOpen' = wsOpen
        /\ entry'[r] = IF ~Waits(r) /\ ~entry[r].controller
                       THEN [entry[r] EXCEPT !.streamError = TRUE] ELSE entry[r]
        /\ caller'[r] = IF Waits(r) THEN "503" ELSE IF entry[r].controller THEN "broken" ELSE caller[r]
      BY <1>3 DEF FailSocketPending, bridgeVars, BrokenOff
  <2>3. entry[r] \in Entries /\ work[r].step \in Steps
      BY Typed DEF Types, Works
  <2>4. /\ entry'[r].controller = entry[r].controller /\ SameEntry(r)
        /\ ~Waits(r) /\ ~entry[r].controller => entry'[r].streamError
      BY <2>2, <2>3 DEF SameEntry, Entries
  <2>5. caller[r] \in {"waiting", "streaming"}
      BY <2>1 DEF Held
  <2>6. Held(r)'
    <3>1. CASE Waits(r)
      <4>1. caller'[r] = "503"
          BY <2>2, <3>1
      <4> QED BY <2>1, <2>2, <4>1 DEF Held
    <3>2. CASE ~Waits(r) /\ entry[r].controller
      <4>1. caller'[r] = "broken"
          BY <2>2, <3>2
      <4> QED BY <2>1, <2>2, <4>1 DEF Held
    <3>3. CASE ~Waits(r) /\ ~entry[r].controller
      <4>1. caller'[r] = "waiting" /\ entry'[r].started /\ entry'[r].streamError /\ ~entry'[r].controller
          BY <2>1, <2>2, <2>3, <2>4, <2>5, <3>3 DEF Held, SameEntry, Waits, Entries
      <4> QED BY <2>1, <2>2, <4>1 DEF Held
    <3> QED BY <3>1, <3>2, <3>3
  <2>7. AtRest(r) /\ SameStart(r)
      BY <2>2, <2>3, <2>4, <2>5 DEF AtRest, SameWork, SameStart, Steps
  <2> QED BY <1>1, <2>6, <2>7, Rested
<1> QED BY <1>2, <1>3
\* A step of the relay about another request.
LEMMA OtherRequestKeeps ==
    ASSUME IInv, NEW r \in Requests, NEW o \in Requests, o # r,
           Forward(o) \/ RelaySteps(o) \/ Cancel(o)
    PROVE  Conversation(r)'
<1> USE DEF IInv
<1>1. /\ entry'[r] = entry[r] /\ caller'[r] = caller[r] /\ (r \in pending' <=> r \in pending)
      /\ UNCHANGED <<bridgeVars, toRelay, cut>>
      /\ \/ toBridge' = toBridge
         \/ \E type \in {"request", "cancel"} : toBridge' = With(toBridge, entry[o].socket, <<type, o>>)
    BY Typed DEF Types, Forward, RelaySteps, Send, Timeout, Continue, Cancel, SendCancel, Answered, Forget, wire
<1>2. SameAsks(r)
  <2>1. ASSUME NEW type \in {"request", "cancel"},
               toBridge' = With(toBridge, entry[o].socket, <<type, o>>)
        PROVE  SameAsks(r)
    <3>1. <<type, o>> \in Asks \cup {Close} /\ <<type, o>> # <<"request", r>>
        BY DEF Asks
    <3>2. CASE entry[o].socket \in Sockets /\ entry[o].socket \notin cut
        BY <2>1, <3>1, <3>2, OtherFrames DEF With
    <3>3. CASE entry[o].socket \notin Sockets \/ entry[o].socket \in cut
      <4>1. toBridge' = toBridge
          BY <2>1, <3>3, Typed DEF With, Types, WiresOf
      <4> QED BY <4>1, NoFrames
    <3> QED BY <3>2, <3>3
  <2> QED BY <1>1, <2>1, NoFrames
<1>3. Bystander(r)
    BY <1>1, <1>2, NoFrames DEF Bystander, bridgeVars
<1> QED BY <1>3, BystanderKeeps

\* The relay tells the bridge that nobody waits for r.
LEMMA CancelAsks ==
    ASSUME TypeOK, NEW r \in Requests, SendCancel(r)
    PROVE  SameAsks(r)
<1>1. <<"cancel", r>> \in Asks \cup {Close} /\ <<"cancel", r>> # <<"request", r>>
    BY DEF Asks
<1>2. CASE toBridge' = toBridge
    BY <1>2, NoFrames
<1>3. CASE /\ entry[r].socket \in Sockets
           /\ toBridge' = [toBridge EXCEPT ![entry[r].socket] = Append(@, <<"cancel", r>>)]
    BY <1>1, <1>3, OtherFrames
<1>4. CASE /\ entry[r].socket \notin Sockets
           /\ toBridge' = [toBridge EXCEPT ![entry[r].socket] = Append(@, <<"cancel", r>>)]
  <2>1. toBridge' = toBridge
      BY <1>4, Typed DEF Types, WiresOf
  <2> QED BY <2>1, NoFrames
<1> QED BY <1>2, <1>3, <1>4 DEF SendCancel, With

\* A request that starts: it is not on any wire.
LEMMA ForwardKeeps ==
    ASSUME IInv, NEW r \in Requests, Forward(r)
    PROVE  Conversation(r)'
<1> USE DEF IInv
<1>1. SentOnce(r) /\ Held(r) /\ Over(r) /\ Wire(r)
    BY DEF Conversation, Wire
<1>2. entry[r] \in Entries /\ work[r].step \in Steps /\ caller \in [Requests -> Callers]
    BY Typed DEF Types, Works
<1>3. caller[r] = "new" /\ work[r].step = "none" /\ r \notin pending
    BY <1>1 DEF Forward, SentOnce, Held
<1>4. UNCHANGED <<pending, bridgeVars, toBridge, toRelay, cut>>
    BY DEF Forward, wire
<1>5. CASE OpenLinks = {}
  <2>1. caller'[r] = "503" /\ entry' = entry
      BY <1>2, <1>5 DEF Forward, Answered
  <2>2. Held(r)'
      BY <1>1, <1>3, <1>4, <2>1 DEF Held, bridgeVars
  <2>3. AtRest(r) /\ SameAsks(r) /\ SameStart(r)
      BY <1>2, <1>4, <2>1, NoFrames DEF AtRest, SameEntry, SameWork, SameStart, bridgeVars, Steps
  <2> QED BY <2>2, <2>3, Rested
<1>6. CASE OpenLinks # {}
  <2>1. BridgeSocket \in Sockets
      BY <1>6, BridgeSocketIsOpen
  <2>2. caller'[r] = "reading" /\ entry'[r] = [entry[r] EXCEPT !.socket = BridgeSocket]
      BY <1>2, <1>6, Typed DEF Forward, Answered, Types
  <2>3. /\ entry'[r].socket = BridgeSocket /\ entry'[r].got = entry[r].got
        /\ entry'[r].started = entry[r].started /\ entry'[r].empty = entry[r].empty
        /\ entry'[r].ended = entry[r].ended /\ entry'[r].controller = entry[r].controller
      BY <1>2, <2>2 DEF Entries
  <2>4. Held(r)'
      BY <1>1, <1>3, <1>4, <2>2, <2>3 DEF Held, bridgeVars
  <2>5. SentOnce(r)'
    <3>1. \A s \in Sockets : ~On(<<"request", r>>, toBridge[s]) /\ OnceOn(<<"request", r>>, toBridge[s])
        BY <1>1, <1>3 DEF SentOnce
    <3>2. work' = work /\ toBridge' = toBridge /\ BridgeSocket # 0
        BY <1>4, <2>1 DEF bridgeVars, Sockets
    <3>3. work[r].sent = 0 /\ ~entry[r].started
        BY <1>1, <1>3 DEF SentOnce
    <3> QED BY <1>3, <2>2, <2>3, <3>1, <3>2, <3>3 DEF SentOnce
  <2>6. Over(r)'
      BY <1>1, <1>4, <2>2, <2>3 DEF Over, bridgeVars
  <2>7. ASSUME NEW s \in Sockets
        PROVE  Ordered(r, s)' /\ Begun(r, s)' /\ Counted(r, s)'
    <3>1. Ordered(r, s) /\ Counted(r, s)
        BY <1>1 DEF Wire
    <3>2. Ordered(r, s)'
        BY <1>4, <3>1 DEF Ordered, bridgeVars
    <3>3. Begun(r, s)'
        BY <1>3, <1>4 DEF Begun
    <3>4. Counted(r, s)'
        BY <1>3, <1>4, <2>3, <3>1 DEF Counted, bridgeVars
    <3> QED BY <3>2, <3>3, <3>4
  <2> QED BY <2>4, <2>5, <2>6, <2>7 DEF Conversation
<1> QED BY <1>5, <1>6
\* The request is sent: nothing of it was on any wire, and now one frame is.
LEMMA SendKeeps ==
    ASSUME IInv, NEW r \in Requests, Send(r)
    PROVE  Conversation(r)'
<1> USE DEF IInv
<1>1. SentOnce(r) /\ Held(r) /\ Over(r) /\ Wire(r)
    BY DEF Conversation, Wire
<1>2. /\ entry[r] \in Entries /\ work[r].step \in Steps /\ caller \in [Requests -> Callers]
      /\ toBridge \in [Sockets -> Seq(Asks \cup {Close})]
    BY Typed DEF Types, Works, WiresOf
<1>3. caller[r] = "reading" /\ work[r].step = "none" /\ r \notin pending /\ entry[r].socket # 0
    BY <1>1 DEF Send, SentOnce, Held
<1>4. UNCHANGED <<entry, bridgeVars, toRelay, cut>>
    BY DEF Send
<1>5. CASE toBridge' = toBridge /\ r \notin pending' /\ caller'[r] \in {"413", "503"}
  <2>1. Held(r)'
      BY <1>1, <1>3, <1>4, <1>5 DEF Held, bridgeVars
  <2>2. AtRest(r) /\ SameAsks(r) /\ SameStart(r)
      BY <1>2, <1>4, <1>5, NoFrames DEF AtRest, SameEntry, SameWork, SameStart, bridgeVars, Steps
  <2> QED BY <2>1, <2>2, Rested
<1>6. CASE /\ caller' = [caller EXCEPT ![r] = "waiting"]
           /\ pending' = pending \cup {r}
           /\ toBridge' = With(toBridge, entry[r].socket, <<"request", r>>)
  <2>1. entry[r].socket \in Sockets /\ caller'[r] = "waiting"
      BY <1>2, <1>3, <1>6 DEF Entries
  <2>2. ~entry[r].started /\ ~entry[r].controller /\ work[r].sent = 0
      BY <1>1, <1>3 DEF SentOnce, Held
  <2>3. Held(r)'
      BY <1>1, <1>3, <1>4, <1>6, <2>1, <2>2 DEF Held, bridgeVars
  <2>4. \A s \in Sockets : ~On(<<"request", r>>, toBridge[s])
      BY <1>1, <1>3 DEF SentOnce
  <2>5. ASSUME NEW s \in Sockets
        PROVE  /\ OnceOn(<<"request", r>>, toBridge'[s])
               /\ On(<<"request", r>>, toBridge'[s]) => s = entry[r].socket
    <3> DEFINE q == toBridge[s]
               p == Append(q, <<"request", r>>)
    <3>1. q \in Seq(Asks \cup {Close}) /\ <<"request", r>> \in Asks \cup {Close}
        BY <1>2 DEF Asks
    <3>2. ~On(<<"request", r>>, q)
        BY <2>4
    <3>3. Len(q) \in Nat /\ DOMAIN q = 1..Len(q) /\ DOMAIN p = 1..(Len(q) + 1)
        BY <3>1
    <3>4. \A i \in DOMAIN q : p[i] = q[i]
        BY <3>1
    <3>5. \A i \in DOMAIN p : p[i] = <<"request", r>> => i = Len(q) + 1
        BY <3>2, <3>3, <3>4 DEF On
    <3>6. OnceOn(<<"request", r>>, p)
        BY <3>5 DEF OnceOn
    <3>7. OnceOn(<<"request", r>>, q)
        BY <3>2 DEF OnceOn, On
    <3>8. toBridge'[s] = q \/ (s = entry[r].socket /\ toBridge'[s] = p)
        BY <1>2, <1>6, <2>1 DEF With
    <3> QED BY <3>2, <3>6, <3>7, <3>8
  <2>6. SentOnce(r)'
    <3>1. work' = work /\ entry' = entry
        BY <1>4 DEF bridgeVars
    <3> QED BY <1>1, <1>3, <2>1, <2>5, <3>1 DEF SentOnce
  <2>7. Over(r)'
      BY <1>1, <1>4, <2>1 DEF Over, bridgeVars
  <2>8. ASSUME NEW s \in Sockets
        PROVE  Ordered(r, s)' /\ Begun(r, s)' /\ Counted(r, s)'
    <3>1. Ordered(r, s) /\ Counted(r, s)
        BY <1>1 DEF Wire
    <3>2. work' = work /\ entry' = entry /\ toRelay' = toRelay
        BY <1>4 DEF bridgeVars
    <3>3. Ordered(r, s)'
        BY <3>1, <3>2 DEF Ordered
    <3>4. ~About(r, toRelay[s])
        BY <1>3, <3>1 DEF Ordered
    <3>5. HeadFirst(r, toRelay[s])
      <4>1. \A i \in DOMAIN toRelay[s] : toRelay[s][i] # <<"chunk", r>>
          BY <3>4 DEF About
      <4> QED BY <4>1 DEF HeadFirst
    <3>6. Begun(r, s)'
        BY <1>3, <3>2, <3>5 DEF Begun
    <3>7. Times(<<"chunk", r>>, toRelay[s]) = 0
        BY <3>4, Silent, Typed DEF Types, WiresOf
    <3>8. entry[r].got = 0
        BY <1>2, <2>2, <3>1, <3>7 DEF Counted, Entries
    <3>9. Counted(r, s)'
        BY <2>2, <3>2, <3>7, <3>8 DEF Counted
    <3> QED BY <3>3, <3>6, <3>9
  <2> QED BY <2>3, <2>6, <2>7, <2>8 DEF Conversation
<1>7. \/ toBridge' = toBridge /\ r \notin pending' /\ caller'[r] \in {"413", "503"}
      \/ /\ caller' = [caller EXCEPT ![r] = "waiting"]
         /\ pending' = pending \cup {r}
         /\ toBridge' = With(toBridge, entry[r].socket, <<"request", r>>)
    BY <1>2, <1>3 DEF Send, Answered, Forget
<1> QED BY <1>5, <1>6, <1>7

\* The relay gives r up.
LEMMA GiveUpKeeps ==
    ASSUME IInv, NEW r \in Requests, Timeout(r) \/ Cancel(r)
    PROVE  Conversation(r)'
<1> USE DEF IInv
<1>1. Held(r) /\ work[r].step \in Steps
    BY Typed DEF Conversation, Types, Works
<1>2. /\ caller'[r] \in {"504", "cancelled"} /\ r \notin pending' /\ SendCancel(r)
      /\ UNCHANGED <<entry, bridgeVars, toRelay, cut>>
    BY Typed DEF Timeout, Cancel, Answered, Forget, Types
<1>3. Held(r)'
    BY <1>1, <1>2 DEF Held, bridgeVars
<1>4. AtRest(r) /\ SameAsks(r) /\ SameStart(r)
    BY <1>1, <1>2, NoFrames, CancelAsks DEF AtRest, SameEntry, SameWork, SameStart, bridgeVars, Steps
<1> QED BY <1>3, <1>4, Rested

\* forward goes on: what ended meanwhile ended whole.
LEMMA ContinueKeeps ==
    ASSUME IInv, NEW r \in Requests, Continue(r)
    PROVE  Conversation(r)'
<1> USE DEF IInv
<1>1. Held(r) /\ Over(r) /\ Wire(r) /\ work[r].step \in Steps /\ entry[r] \in Entries
    BY Typed DEF Conversation, Wire, Types, Works
<1>2. /\ caller[r] = "waiting" /\ entry[r].started
      /\ entry'[r] = [entry[r] EXCEPT !.controller = ~entry[r].empty]
      /\ pending' = IF entry[r].empty \/ entry[r].streamError \/ entry[r].ended THEN Forget(r) ELSE pending
      /\ caller'[r] = CASE entry[r].empty -> "complete"
                       [] ~entry[r].empty /\ entry[r].streamError -> "broken"
                       [] ~entry[r].empty /\ ~entry[r].streamError /\ entry[r].ended -> "complete"
                       [] OTHER -> "streaming"
      /\ UNCHANGED <<bridgeVars, toBridge, toRelay, cut>>
    BY Typed DEF Continue, Answered, wire, Types
<1>3. /\ SameEntry(r) /\ entry'[r].controller = ~entry[r].empty
      /\ entry'[r].streamError = entry[r].streamError
    BY <1>1, <1>2 DEF SameEntry, Entries
<1>4. entry[r].empty => work[r].step = "done" /\ entry[r].got = work[r].sent
  <2> SUFFICES ASSUME entry[r].empty
               PROVE  work[r].step = "done" /\ entry[r].got = work[r].sent
      OBVIOUS
  <2>1. 1 \in Sockets
      BY ConstantsAssumption DEF Sockets
  <2>2. Counted(r, 1) /\ toRelay[1] \in Seq(Answers \cup {Close})
      BY <1>1, <2>1, Typed DEF Wire, Types, WiresOf
  <2>3. Times(<<"chunk", r>>, toRelay[1]) \in Nat
      BY <2>2, TimesIsNat
  <2>4. work[r].step = "done" /\ work[r].sent = 0
      BY <1>1 DEF Over
  <2> QED BY <1>1, <2>2, <2>3, <2>4 DEF Counted, Entries
<1>5. CASE entry[r].empty
  <2>1. caller'[r] = "complete" /\ r \notin pending'
      BY <1>2, <1>5 DEF Forget
  <2>2. Held(r)'
      BY <1>1, <1>2, <2>1 DEF Held, bridgeVars
  <2>3. AtRest(r) /\ SameAsks(r) /\ SameStart(r)
      BY <1>1, <1>2, <1>3, <1>4, <1>5, <2>1, NoFrames DEF AtRest, SameWork, SameStart, bridgeVars, Steps
  <2> QED BY <2>2, <2>3, Rested
<1>6. CASE ~entry[r].empty /\ (entry[r].streamError \/ entry[r].ended)
  <2>1. caller'[r] \in {"broken", "complete"} /\ (caller'[r] = "complete" => entry[r].ended) /\ r \notin pending'
      BY <1>2, <1>6 DEF Forget
  <2>2. Held(r)'
      BY <1>1, <1>2, <2>1 DEF Held, bridgeVars
  <2>3. AtRest(r) /\ SameAsks(r) /\ SameStart(r)
      BY <1>1, <1>2, <1>3, <2>1, NoFrames DEF AtRest, SameWork, SameStart, bridgeVars, Steps, Over
  <2> QED BY <2>2, <2>3, Rested
<1>7. CASE ~entry[r].empty /\ ~entry[r].streamError /\ ~entry[r].ended
  <2>1. caller'[r] = "streaming" /\ pending' = pending
      BY <1>2, <1>7
  <2>2. r \in pending
      BY <1>1, <1>2, <1>7 DEF Held
  <2>3. entry'[r].controller /\ entry'[r].started /\ entry'[r].socket = entry[r].socket
      BY <1>2, <1>3, <1>7 DEF SameEntry
  <2>4. Held(r)'
      BY <1>1, <1>2, <2>1, <2>2, <2>3 DEF Held, bridgeVars
  <2>5. AtRest(r) /\ SameAsks(r) /\ SameStart(r)
      BY <1>1, <1>2, <1>3, <2>1, NoFrames DEF AtRest, SameWork, SameStart, bridgeVars, Steps
  <2> QED BY <2>4, <2>5, Rested
<1> QED BY <1>5, <1>6, <1>7
\* What a frame of the answer does to the entry of its request.
LEMMA FrameEntry ==
    ASSUME TypeOK, NEW r \in Requests, NEW s \in Sockets,
           NEW type \in {"start", "startEmpty", "chunk", "end", "error"}, Frame(type, r, s)
    PROVE  /\ ~Expected(r, s) => UNCHANGED <<pending, entry, caller>>
           /\ entry'[r].socket = entry[r].socket /\ entry'[r].controller = entry[r].controller
           /\ entry'[r].started = (entry[r].started \/ (Expected(r, s) /\ type \in {"start", "startEmpty"}))
           /\ Expected(r, s) /\ type # "error" => entry'[r].streamError = entry[r].streamError
           /\ Expected(r, s) /\ type = "error" => entry'[r].streamError = entry[r].started
           /\ entry'[r].empty => entry[r].empty \/ (Expected(r, s) /\ type = "startEmpty")
           /\ entry'[r].got = IF Expected(r, s) /\ type = "chunk" /\ entry[r].started
                              THEN entry[r].got + 1 ELSE entry[r].got
           /\ Expected(r, s) /\ type = "end" => entry'[r].ended = entry[r].started
           /\ type # "end" => entry'[r].ended = entry[r].ended
<1> USE Typed DEF Types
<1>1. entry[r] \in Entries
    OBVIOUS
<1>2. CASE ~Expected(r, s)
    BY <1>1, <1>2 DEF Frame, Entries
<1>3. CASE Expected(r, s) /\ type \in {"start", "startEmpty"}
  <2>1. UNCHANGED <<pending, caller>> /\
        entry' = IF entry[r].started THEN entry
                 ELSE [entry EXCEPT ![r].started = TRUE, ![r].empty = type = "startEmpty"]
      BY <1>3 DEF Frame
  <2>2. CASE entry[r].started
      BY <1>1, <1>3, <2>1, <2>2 DEF Entries
  <2>3. CASE ~entry[r].started
    <3>1. entry'[r] = [entry[r] EXCEPT !.started = TRUE, !.empty = type = "startEmpty"]
        BY <2>1, <2>3
    <3>2. /\ entry'[r].started = TRUE /\ entry'[r].empty = (type = "startEmpty")
          /\ entry'[r].socket = entry[r].socket /\ entry'[r].controller = entry[r].controller
          /\ entry'[r].streamError = entry[r].streamError /\ entry'[r].got = entry[r].got
          /\ entry'[r].ended = entry[r].ended
        BY <1>1, <3>1 DEF Entries
    <3> QED BY <1>3, <3>2
  <2> QED BY <2>2, <2>3
<1>4. CASE Expected(r, s) /\ type = "chunk"
  <2>1. entry' = IF entry[r].started THEN [entry EXCEPT ![r].got = @ + 1] ELSE entry
      BY <1>4 DEF Frame
  <2> QED BY <1>1, <1>4, <2>1 DEF Entries
<1>5. CASE Expected(r, s) /\ type = "end"
  <2>1. entry' = [entry EXCEPT ![r].ended = entry[r].started]
      BY <1>5 DEF Frame
  <2> QED BY <1>1, <1>5, <2>1 DEF Entries
<1>6. CASE Expected(r, s) /\ type = "error"
  <2>1. entry' = [entry EXCEPT ![r].streamError = entry[r].started]
      BY <1>6 DEF Frame
  <2> QED BY <1>1, <1>6, <2>1 DEF Entries
<1> QED BY <1>2, <1>3, <1>4, <1>5, <1>6
\* The relay hears of r.
LEMMA HeardWire ==
    ASSUME IInv, NEW r \in Requests, NEW s \in Sockets,
           NEW type \in {"start", "startEmpty", "chunk", "end", "error"},
           toRelay[s] # <<>>, Head(toRelay[s]) = <<type, r>>,
           toRelay' = [toRelay EXCEPT ![s] = Tail(@)],
           Frame(type, r, s), UNCHANGED <<bridgeVars, toBridge, cut>>
    PROVE  Conversation(r)'
<1> USE DEF IInv
<1> DEFINE q == toRelay[s]
           p == Tail(q)
<1>1. SentOnce(r) /\ Held(r) /\ Over(r) /\ Wire(r)
    BY DEF Conversation, Wire
<1>2. /\ entry[r] \in Entries /\ work[r].step \in Steps /\ caller \in [Requests -> Callers]
      /\ q \in Seq(Answers \cup {Close}) /\ toRelay \in [Sockets -> Seq(Answers \cup {Close})]
      /\ work[r].sent \in Nat
    BY Typed, ConstantsAssumption DEF Types, Works, WiresOf
<1>3. /\ \A other : On(<<other, r>>, p) => On(<<other, r>>, q)
      /\ type # "start" /\ On(<<"start", r>>, q) => On(<<"start", r>>, p)
      /\ EndLast(r, q) => EndLast(r, p)
      /\ EndLast(r, q) /\ type \in {"end", "error"} => ~About(r, p)
      /\ type # "start" /\ HeadFirst(r, q) => HeadFirst(r, p)
      /\ HeadFirst(r, q) => type # "chunk"
      /\ On(<<type, r>>, q) /\ About(r, q)
    BY <1>2, OwnTail
<1>4. /\ Times(<<"chunk", r>>, p) \in Nat
      /\ Times(<<"chunk", r>>, q) = Times(<<"chunk", r>>, p) + (IF type = "chunk" THEN 1 ELSE 0)
      /\ ~About(r, p) => Times(<<"chunk", r>>, p) = 0
  <2>1. p \in Seq(Answers \cup {Close})
      BY <1>2
  <2>2. Times(<<"chunk", r>>, q) = Times(<<"chunk", r>>, p) + (IF <<type, r>> = <<"chunk", r>> THEN 1 ELSE 0)
      BY <1>2, TimesTail
  <2>3. Times(<<"chunk", r>>, p) \in Nat
    <3> HIDE DEF p
    <3> QED BY <2>1, TimesIsNat
  <2>4. ~About(r, p) => Times(<<"chunk", r>>, p) = 0
    <3> HIDE DEF p
    <3> QED BY <2>1, Silent
  <2> QED BY <2>2, <2>3, <2>4
<1>5. toRelay'[s] = p /\ \A t \in Sockets : t # s => toRelay'[t] = toRelay[t]
    BY <1>2
<1>6. Ordered(r, s) /\ Begun(r, s) /\ Counted(r, s) /\ s \notin cut
    BY <1>1 DEF Wire, OneConnection
<1>7. s = work[r].socket /\ s = entry[r].socket /\ work[r].step # "none"
    BY <1>1, <1>3, <1>6 DEF Ordered, SentOnce
<1>8. Expected(r, s) <=> r \in pending
    BY <1>7 DEF Expected
<1>9. r \in pending' => r \in pending
    BY <1>8 DEF Frame, Forget
<1>10. \A t \in Sockets : t # s => ~About(r, toRelay'[t])
    BY <1>1, <1>5, <1>7 DEF Wire, Ordered
<1>11. work' = work /\ active' = active /\ ws' = ws /\ wsOpen' = wsOpen /\ cut' = cut /\ toBridge' = toBridge
    BY DEF bridgeVars
<1>12. ASSUME NEW t \in Sockets
       PROVE  Ordered(r, t)'
  <2>1. CASE t = s
      BY <1>3, <1>5, <1>6, <1>11, <2>1 DEF Ordered
  <2>2. CASE t # s
    <3>1. Ordered(r, t)
        BY <1>1 DEF Wire
    <3> QED BY <1>5, <1>11, <2>2, <3>1 DEF Ordered
  <2> QED BY <2>1, <2>2
<1>13. /\ entry'[r].socket = entry[r].socket /\ entry'[r].controller = entry[r].controller
       /\ entry'[r].started = (entry[r].started \/ (r \in pending /\ type \in {"start", "startEmpty"}))
       /\ entry'[r].got = IF r \in pending /\ type = "chunk" /\ entry[r].started
                          THEN entry[r].got + 1 ELSE entry[r].got
    BY <1>8, FrameEntry
<1>14. r \in pending /\ type = "chunk" => entry[r].started
    BY <1>3, <1>6 DEF Begun
<1>15. ASSUME NEW t \in Sockets
       PROVE  Begun(r, t)'
  <2>1. CASE r \in pending' /\ ~entry'[r].started
    <3>1. r \in pending /\ ~entry[r].started /\ type # "start"
        BY <1>9, <1>13, <2>1
    <3>2. CASE t = s
        BY <1>3, <1>5, <1>6, <1>11, <3>1, <3>2 DEF Begun
    <3>3. CASE t # s
      <4>1. Begun(r, t)
          BY <1>1 DEF Wire
      <4> QED BY <1>5, <1>11, <3>1, <3>3, <4>1 DEF Begun
    <3> QED BY <3>2, <3>3
  <2>2. CASE ~(r \in pending' /\ ~entry'[r].started)
      BY <2>2 DEF Begun
  <2> QED BY <2>1, <2>2
<1>16. ASSUME NEW t \in Sockets
       PROVE  Counted(r, t)'
  <2>1. entry[r].got \in Nat
      BY <1>2 DEF Entries
  <2>2. CASE t = s
    <3>1. CASE r \in pending
      <4>1. entry[r].got + Times(<<"chunk", r>>, q) = work[r].sent
          BY <1>6, <1>7, <3>1 DEF Counted
      <4>2. entry'[r].got = entry[r].got + (IF type = "chunk" THEN 1 ELSE 0)
          BY <1>13, <1>14, <2>1, <3>1
      <4>3. entry'[r].got + Times(<<"chunk", r>>, p) = work[r].sent
          BY <1>4, <2>1, <4>1, <4>2
      <4>4. entry'[r].got + Times(<<"chunk", r>>, toRelay'[t]) = work'[r].sent
          BY <1>5, <1>11, <2>2, <4>3
      <4>5. work'[r].sent <= work'[r].sent
          BY <1>2, <1>11
      <4> HIDE DEF q, p
      <4> QED BY <4>4, <4>5 DEF Counted
    <3>2. CASE r \notin pending
      <4>1. entry[r].got + Times(<<"chunk", r>>, q) <= work[r].sent
          BY <1>6 DEF Counted
      <4>2. entry'[r].got = entry[r].got
          BY <1>13, <3>2
      <4>3. entry'[r].got + Times(<<"chunk", r>>, p) <= work[r].sent
          BY <1>2, <1>4, <2>1, <4>1, <4>2
      <4> HIDE DEF q, p
      <4> QED BY <1>5, <1>9, <1>11, <2>2, <3>2, <4>3 DEF Counted
    <3> QED BY <3>1, <3>2
  <2>3. CASE t # s
    <3>1. toRelay'[t] = toRelay[t] /\ ~About(r, toRelay'[t])
        BY <1>5, <1>10, <2>3
    <3>2. Times(<<"chunk", r>>, toRelay'[t]) = 0
        BY <1>2, <3>1, Silent
    <3>3. entry'[r].got <= work[r].sent
      <4>1. entry[r].got + Times(<<"chunk", r>>, q) <= work[r].sent
          BY <1>6 DEF Counted
      <4>2. CASE r \in pending /\ type = "chunk"
        <5>1. entry'[r].got = entry[r].got + 1 /\ Times(<<"chunk", r>>, q) = Times(<<"chunk", r>>, p) + 1
            BY <1>4, <1>13, <1>14, <4>2
        <5>2. Times(<<"chunk", r>>, p) \in Nat
            BY <1>4
        <5>3. entry[r].got + (Times(<<"chunk", r>>, p) + 1) <= work[r].sent
            BY <4>1, <5>1
        <5>4. entry[r].got + 1 <= work[r].sent
          <6> HIDE DEF p
          <6> QED BY <1>2, <2>1, <5>2, <5>3
        <5> QED BY <5>1, <5>4
      <4>3. CASE ~(r \in pending /\ type = "chunk")
        <5>1. entry'[r].got = entry[r].got
            BY <1>13, <4>3
        <5>2. Times(<<"chunk", r>>, q) \in Nat
          <6> HIDE DEF q
          <6> QED BY <1>2, TimesIsNat
        <5> HIDE DEF q, p
        <5> QED BY <1>2, <2>1, <4>1, <5>1, <5>2
      <4> QED BY <4>2, <4>3
    <3>4. entry'[r].socket # t
        BY <1>7, <1>13, <2>3
    <3>5. entry'[r].got \in Nat
        BY <1>13, <2>1
    <3> QED BY <1>11, <3>2, <3>3, <3>4, <3>5 DEF Counted
  <2> QED BY <2>2, <2>3
\* The end, once the head has come, comes after everything else.
<1>17. type = "end" /\ r \in pending =>
           work[r].step = "done" /\ entry[r].got = work[r].sent /\ \A t \in Sockets : ~About(r, toRelay'[t])
  <2> SUFFICES ASSUME type = "end", r \in pending
               PROVE  work[r].step = "done" /\ entry[r].got = work[r].sent
                      /\ \A t \in Sockets : ~About(r, toRelay'[t])
      OBVIOUS
  <2>1. work[r].step = "done"
      BY <1>3, <1>6 DEF Ordered
  <2>2. ~About(r, p)
      BY <1>3, <1>6 DEF Ordered
  <2>3. Times(<<"chunk", r>>, q) = 0
      BY <1>4, <2>2
  <2>4. entry[r].got + Times(<<"chunk", r>>, q) = work[r].sent
      BY <1>6, <1>7 DEF Counted
  <2>5. entry[r].got = work[r].sent
    <3> HIDE DEF q
    <3> QED BY <1>2, <2>3, <2>4 DEF Entries
  <2>6. \A t \in Sockets : ~About(r, toRelay'[t])
      BY <1>5, <1>10, <2>2
  <2> QED BY <2>1, <2>5, <2>6
<1>18. ~entry[r].ended
    BY <1>1, <1>3 DEF Over
<1>19. /\ r \in pending /\ type = "end" => entry'[r].ended = entry[r].started
       /\ entry'[r].ended => r \in pending /\ type = "end"
       /\ entry'[r].empty => entry[r].empty \/ type = "startEmpty"
  <2>1. CASE r \in pending
      BY <1>8, <1>18, <2>1, FrameEntry
  <2>2. CASE r \notin pending
      BY <1>8, <1>18, <2>2, FrameEntry
  <2> QED BY <2>1, <2>2
<1>20. caller'[r] \in {caller[r], "complete", "502", "broken"}
       /\ (caller'[r] # caller[r] => r \in pending)
       /\ (caller'[r] = "complete" => caller[r] = "complete" \/ type = "end")
    BY <1>2, <1>8 DEF Frame
<1>21. Over(r)'
  <2>1. entry'[r].empty => work'[r].step = "done" /\ work'[r].sent = 0
      BY <1>1, <1>3, <1>6, <1>11, <1>19 DEF Over, Ordered
  <2>2. type # "chunk" \/ r \notin pending => entry'[r].got = entry[r].got
      BY <1>13
  <2>3. entry'[r].ended => /\ work'[r].step = "done" /\ entry'[r].got = work'[r].sent
                           /\ \A t \in Sockets : ~About(r, toRelay'[t])
      BY <1>11, <1>17, <1>19, <2>2
  <2>4. caller'[r] = "complete" => work'[r].step = "done" /\ entry'[r].got = work'[r].sent
    <3>1. CASE caller[r] = "complete"
      <4>1. r \notin pending
          BY <1>1, <3>1 DEF Held
      <4> QED BY <1>1, <1>11, <2>2, <3>1, <4>1 DEF Over
    <3>2. CASE caller[r] # "complete"
        BY <1>11, <1>17, <1>20, <2>2, <3>2
    <3> QED BY <3>1, <3>2
  <2> QED BY <2>1, <2>3, <2>4 DEF Over
<1>22. SentOnce(r)'
    BY <1>1, <1>7, <1>11, <1>13, <1>20 DEF SentOnce
<1>23. Held(r)'
  <2>1. CASE r \notin pending
    <3>1. UNCHANGED <<pending, entry, caller>>
        BY <1>8, <2>1, FrameEntry
    <3> QED BY <1>1, <1>11, <3>1 DEF Held
  <2>2. CASE r \in pending /\ type \in {"start", "startEmpty", "chunk"}
    <3>1. pending' = pending /\ caller' = caller
        BY <1>8, <2>2 DEF Frame
    <3> QED BY <1>1, <1>11, <1>13, <2>2, <3>1 DEF Held
  <2>3. CASE r \in pending /\ type = "end"
    <3>1. /\ pending' = IF entry[r].controller THEN Forget(r) ELSE pending
          /\ caller' = IF entry[r].controller THEN [caller EXCEPT ![r] = "complete"] ELSE caller
        BY <1>8, <2>3 DEF Frame
    <3>2. CASE entry[r].controller
      <4>1. r \notin pending' /\ caller'[r] = "complete"
          BY <1>2, <3>1, <3>2 DEF Forget
      <4> QED BY <1>1, <1>11, <1>13, <4>1 DEF Held
    <3>3. CASE ~entry[r].controller
        BY <1>1, <1>11, <1>13, <2>3, <3>1, <3>3 DEF Held
    <3> QED BY <3>2, <3>3
  <2>4. CASE r \in pending /\ type = "error"
    <3>1. /\ pending' = IF Waits(r) \/ entry[r].controller THEN Forget(r) ELSE pending
          /\ caller' = IF Waits(r) THEN [caller EXCEPT ![r] = "502"]
                       ELSE IF entry[r].controller THEN [caller EXCEPT ![r] = "broken"]
                       ELSE caller
        BY <1>8, <2>4 DEF Frame
    <3>2. CASE Waits(r) \/ entry[r].controller
      <4>1. r \notin pending' /\ caller'[r] \in {"502", "broken"}
          BY <1>2, <3>1, <3>2 DEF Forget
      <4> QED BY <1>1, <1>11, <1>13, <4>1 DEF Held
    <3>3. CASE ~Waits(r) /\ ~entry[r].controller
        BY <1>1, <1>11, <1>13, <2>4, <3>1, <3>3 DEF Held
    <3> QED BY <3>2, <3>3
  <2> QED BY <2>1, <2>2, <2>3, <2>4
<1> QED BY <1>12, <1>15, <1>16, <1>21, <1>22, <1>23 DEF Conversation
\* A frame of the answer to another request is taken.
LEMMA OtherHeardKeeps ==
    ASSUME IInv, NEW r \in Requests, NEW o \in Requests, o # r, NEW s \in Sockets,
           NEW type \in {"start", "startEmpty", "chunk", "end", "error"},
           toRelay[s] # <<>>, Head(toRelay[s]) = <<type, o>>,
           toRelay' = [toRelay EXCEPT ![s] = Tail(@)],
           Frame(type, o, s), UNCHANGED <<bridgeVars, toBridge, cut>>
    PROVE  Conversation(r)'
<1> USE DEF IInv
<1>1. entry'[r] = entry[r] /\ caller'[r] = caller[r] /\ (r \in pending' <=> r \in pending)
    BY Typed DEF Types, Frame, Forget
<1>2. SameFrames(r)
  <2>1. Head(toRelay[s])[2] # r
      OBVIOUS
  <2> QED BY <2>1, OtherFrames
<1>3. Bystander(r)
    BY <1>1, <1>2, NoFrames DEF Bystander, bridgeVars
<1> QED BY <1>3, BystanderKeeps

LEMMA DeliverToRelayKeeps ==
    ASSUME IInv, NEW r \in Requests, NEW s \in Sockets, DeliverToRelay(s)
    PROVE  Conversation(r)'
<1> USE DEF IInv
<1> DEFINE frame == Head(toRelay[s])
<1>1. /\ toRelay[s] # <<>> /\ toRelay' = [toRelay EXCEPT ![s] = Tail(@)]
      /\ UNCHANGED <<bridgeVars, toBridge, cut>>
      /\ frame = Close => FailSocketPending(s)
      /\ frame # Close => Frame(frame[1], frame[2], s)
    BY DEF DeliverToRelay
<1>2. frame \in Answers \cup {Close}
    BY <1>1, Typed DEF Types, WiresOf
<1>3. CASE frame = Close
  <2>1. frame[2] # r
      BY <1>3, ConstantsAssumption DEF Close
  <2>2. SameFrames(r)
      BY <1>1, <2>1, OtherFrames
  <2> QED BY <1>1, <1>3, <2>2, FailKeeps
<1>4. CASE frame # Close
  <2>1. PICK type \in {"start", "startEmpty", "chunk", "end", "error"}, o \in Requests : frame = <<type, o>>
      BY <1>2, <1>4 DEF Answers
  <2>2. Frame(type, o, s)
      BY <1>1, <1>4, <2>1
  <2> QED BY <1>1, <2>1, <2>2, HeardWire, OtherHeardKeeps
<1> QED BY <1>3, <1>4

LEMMA WebSocketGoneKeeps ==
    ASSUME IInv, NEW r \in Requests, NEW s \in Sockets, WebSocketGone(s)
    PROVE  Conversation(r)'
<1>1. FailSocketPending(s) /\ UNCHANGED <<bridgeVars, toBridge, cut>> /\ SameFrames(r)
    BY NoFrames DEF WebSocketGone, wire
<1> QED BY <1>1, FailKeeps

\* The bridge starts over: its work breaks off.
LEMMA CloseKeeps ==
    ASSUME IInv, NEW r \in Requests, WsClose, ws \in Sockets,
           UNCHANGED <<relayVars, cut>>, SameFrames(r)
    PROVE  Conversation(r)'
<1> USE DEF IInv
<1>1. Held(r) /\ Over(r) /\ work[r] \in Works /\ entry[r] \in Entries
    BY Typed DEF Conversation, Types
<1>2. ws' = 0 /\ wsOpen' = FALSE /\ active' = {} /\ work' = Aborted(active)
      /\ toBridge' = [toBridge EXCEPT ![ws] = <<>>]
    BY DEF WsClose, AbortAll
<1>3. SameAsks(r)
    BY <1>2, OtherFrames
<1>4. work'[r] = IF r \in active THEN [work[r] EXCEPT !.step = "aborted"] ELSE work[r]
    BY <1>1, <1>2 DEF Aborted, Held
<1>5. /\ work'[r].step = IF r \in active THEN "aborted" ELSE work[r].step
      /\ work'[r].socket = work[r].socket /\ work'[r].sent = work[r].sent
    BY <1>1, <1>4 DEF Works
<1>6. r \in active <=> work[r].step \in {"fetch", "body"}
    BY <1>1 DEF Held
<1>7. Held(r)'
    BY <1>1, <1>2, <1>5, <1>6 DEF Held, relayVars
<1>8. SameWork(r)
    BY <1>1, <1>5, <1>6 DEF SameWork, Works, Steps
<1>9. AtRest(r) /\ SameStart(r)
    BY <1>1, <1>8 DEF AtRest, SameEntry, SameStart, relayVars, Over
<1> QED BY <1>3, <1>7, <1>9, Rested
\* The bridge's other steps about its connection.
LEMMA ConnectionKeeps ==
    ASSUME IInv, NEW r \in Requests, WsOpens \/ Terminate \/ Connect \/ Start
    PROVE  Conversation(r)'
<1> USE DEF IInv
<1>1. Held(r)
    BY DEF Conversation
<1>2. CASE WsOpens \/ Connect \/ Start
  <2>1. /\ UNCHANGED <<relayVars, active, work, wire>>
        /\ r \in active => ws' = ws /\ wsOpen' = wsOpen
    <3>1. r \in active => wsOpen /\ ws # 0
        BY <1>1 DEF Held, OneConnection
    <3> QED BY <1>2, <3>1 DEF WsOpens, Connect, Start
  <2>2. Bystander(r)
      BY <2>1, NoFrames DEF Bystander, relayVars, wire
  <2> QED BY <2>2, BystanderKeeps
<1>3. CASE Terminate
  <2>1. WsClose /\ ws \in Sockets /\ UNCHANGED <<relayVars, cut>> /\ SameFrames(r)
      BY <1>3, NoFrames, Typed DEF Terminate, Types
  <2> QED BY <2>1, CloseKeeps
<1> QED BY <1>2, <1>3

\* What the bridge is told: to stop, to forward r, to give r up, or of others.
LEMMA DeliverToBridgeKeeps ==
    ASSUME IInv, NEW r \in Requests, DeliverToBridge
    PROVE  Conversation(r)'
<1> USE DEF IInv
<1> DEFINE frame == Head(toBridge[ws])
<1>1. ws \in Sockets /\ wsOpen /\ toBridge[ws] # <<>> /\ ws \notin cut
    BY Typed DEF DeliverToBridge, Types, OneConnection
<1>2. toBridge[ws] \in Seq(Asks \cup {Close}) /\ toBridge \in [Sockets -> Seq(Asks \cup {Close})]
    BY <1>1, Typed DEF Types, WiresOf
<1>3. SentOnce(r) /\ Held(r) /\ Over(r) /\ Wire(r)
    BY DEF Conversation, Wire
<1>4. work[r] \in Works /\ entry[r] \in Entries /\ caller \in [Requests -> Callers]
    BY Typed DEF Types
<1>5. CASE frame = Close
  <2>1. WsClose /\ toRelay' = [toRelay EXCEPT ![ws] = Append(@, Close)] /\ UNCHANGED <<relayVars, cut>>
      BY <1>1, <1>5 DEF DeliverToBridge, With
  <2>2. Close \in Answers \cup {Close} /\ Close[2] # r
      BY ConstantsAssumption DEF Close
  <2>3. SameFrames(r)
      BY <1>1, <2>1, <2>2, OtherFrames
  <2> QED BY <1>1, <2>1, <2>3, CloseKeeps
<1>6. CASE frame # Close
  <2>1. PICK type \in {"request", "cancel"}, o \in Requests : frame = <<type, o>>
      BY <1>1, <1>2, <1>6 DEF Asks
  <2>2. /\ toBridge' = [toBridge EXCEPT ![ws] = Tail(@)]
        /\ UNCHANGED <<relayVars, ws, wsOpen, toRelay, cut>>
        /\ type = "request" =>
             /\ active' = active \cup {o}
             /\ work' = IF o \in active THEN work
                        ELSE [work EXCEPT ![o] = [step |-> "fetch", socket |-> ws, sent |-> 0]]
        /\ type # "request" => active' = active \ {o} /\ work' = Aborted({o} \cap active)
    <3>1. frame[1] = type /\ frame[2] = o
        BY <2>1
    <3> HIDE DEF frame
    <3> QED BY <1>6, <3>1 DEF DeliverToBridge, frame
  <2>3. SameAsks(r) /\ SameFrames(r)
      BY <1>1, <2>2, OtherFrames, NoFrames
  <2>4. CASE o # r
    <3>1. work'[r] = work[r] /\ (r \in active' <=> r \in active)
        BY <1>4, <2>1, <2>2, <2>4, Typed DEF Types, Aborted
    <3>2. Bystander(r)
        BY <2>2, <2>3, <3>1 DEF Bystander, relayVars
    <3> QED BY <3>2, BystanderKeeps
  <2>5. CASE o = r /\ type = "cancel"
    <3>1. active' = active \ {r} /\ work' = Aborted({r} \cap active)
        BY <2>2, <2>5
    <3>2. /\ work'[r].step = IF r \in active THEN "aborted" ELSE work[r].step
          /\ work'[r].socket = work[r].socket /\ work'[r].sent = work[r].sent
        BY <1>3, <1>4, <3>1 DEF Aborted, Held, Works
    <3>3. r \in active <=> work[r].step \in {"fetch", "body"}
        BY <1>3 DEF Held
    <3>4. Held(r)'
        BY <1>3, <2>2, <3>1, <3>2, <3>3 DEF Held, relayVars
    <3>5. SameWork(r)
        BY <1>4, <3>2, <3>3 DEF SameWork, Works, Steps
    <3>6. AtRest(r) /\ SameStart(r)
        BY <1>3, <2>2, <2>3, <3>5 DEF AtRest, SameEntry, SameStart, relayVars, Over
    <3> QED BY <2>3, <3>4, <3>6, Rested
  <2>6. CASE o = r /\ type = "request"
    <3>1. On(<<"request", r>>, toBridge[ws])
      <4>1. 1 \in DOMAIN toBridge[ws] /\ toBridge[ws][1] = <<"request", r>>
          BY <1>1, <1>2, <2>1, <2>6
      <4> QED BY <4>1 DEF On
    <3>2. ws = entry[r].socket /\ caller[r] \notin {"new", "reading"} /\ work[r].step = "none"
        BY <1>1, <1>3, <3>1 DEF SentOnce
    <3>3. r \notin active /\ work[r].sent = 0 /\ ~entry[r].started
        BY <1>3, <3>2 DEF Held, SentOnce
    <3>4. /\ active' = active \cup {r} /\ work'[r].step = "fetch"
          /\ work'[r].socket = ws /\ work'[r].sent = 0
        BY <2>2, <2>6, <3>3, Typed DEF Types
    <3>5. Held(r)'
        BY <1>1, <1>3, <2>2, <3>4 DEF Held, relayVars
    <3>6. ASSUME NEW s \in Sockets
          PROVE  ~On(<<"request", r>>, toBridge'[s]) /\ OnceOn(<<"request", r>>, toBridge'[s])
      <4>1. CASE s = ws
        <5> DEFINE q == toBridge[ws]
                   p == Tail(q)
        <5>1. Len(q) \in Nat \ {0} /\ DOMAIN q = 1..Len(q) /\ DOMAIN p = 1..(Len(q) - 1)
            BY <1>1, <1>2
        <5>2. (\A i \in DOMAIN p : p[i] = q[i + 1]) /\ q[1] = <<"request", r>>
            BY <1>1, <1>2, <2>1, <2>6
        <5>3. OnceOn(<<"request", r>>, q)
            BY <1>1, <1>3 DEF SentOnce
        <5>4. toBridge'[s] = p
            BY <1>1, <1>2, <2>2, <4>1
        <5> HIDE DEF q, p
        <5>5. ASSUME NEW i \in DOMAIN p
              PROVE  p[i] # <<"request", r>>
          <6>1. i + 1 \in DOMAIN q /\ i + 1 # 1 /\ 1 \in DOMAIN q /\ p[i] = q[i + 1]
              BY <5>1, <5>2
          <6> QED BY <5>2, <5>3, <6>1 DEF OnceOn
        <5> QED BY <5>4, <5>5 DEF On, OnceOn
      <4>2. CASE s # ws
        <5>1. toBridge'[s] = toBridge[s] /\ ~On(<<"request", r>>, toBridge[s])
            BY <1>2, <1>3, <2>2, <3>2, <4>2 DEF SentOnce
        <5> QED BY <5>1 DEF On, OnceOn
      <4> QED BY <4>1, <4>2
    <3>7. entry' = entry /\ caller' = caller /\ pending' = pending /\ toRelay' = toRelay /\ cut' = cut
        BY <2>2 DEF relayVars
    <3>8. SentOnce(r)'
        BY <3>2, <3>4, <3>6, <3>7 DEF SentOnce
    <3>9. Over(r)'
        BY <1>3, <3>2, <3>7 DEF Over
    <3>10. ASSUME NEW s \in Sockets
           PROVE  Ordered(r, s)' /\ Begun(r, s)' /\ Counted(r, s)'
      <4>1. Ordered(r, s) /\ Begun(r, s) /\ Counted(r, s)
          BY <1>3 DEF Wire
      <4>2. Ordered(r, s)'
          BY <3>2, <3>4, <3>7, <4>1 DEF Ordered
      <4>3. Begun(r, s)'
          BY <3>4, <3>7, <4>1 DEF Begun
      <4>4. Counted(r, s)'
          BY <3>3, <3>4, <3>7, <4>1 DEF Counted
      <4> QED BY <4>2, <4>3, <4>4
    <3> QED BY <3>5, <3>8, <3>9, <3>10 DEF Conversation
  <2> QED BY <2>1, <2>4, <2>5, <2>6
<1> QED BY <1>5, <1>6
\* A connection breaks, or the bridge dies and its connection with it.
LEMMA CutKeeps ==
    ASSUME IInv, NEW r \in Requests, NEW s \in Sockets, CutSocket(s)
    PROVE  Conversation(r)'
<1> USE DEF IInv
<1>1. SameAsks(r)
    BY OtherFrames DEF CutSocket
<1>2. ASSUME NEW t \in Sockets
      PROVE  Leaves(toRelay[t], toRelay'[t], r) \/ (t \in cut' /\ toRelay'[t] = <<>>)
  <2>1. CASE t = s
      BY <2>1, Typed DEF CutSocket, Types, WiresOf
  <2>2. CASE t # s
    <3>1. toRelay'[t] = toRelay[t]
        BY <2>2, Typed DEF CutSocket, Types, WiresOf
    <3> QED BY <3>1 DEF Leaves
  <2> QED BY <2>1, <2>2
<1>3. Bystander(r)
    BY <1>1, <1>2 DEF Bystander, CutSocket, relayVars, bridgeVars, SameFrames
<1> QED BY <1>3, BystanderKeeps

LEMMA ExitKeeps ==
    ASSUME IInv, NEW r \in Requests, Exit
    PROVE  Conversation(r)'
<1> USE DEF IInv
<1>1. Held(r) /\ Over(r) /\ work[r] \in Works /\ toRelay \in [Sockets -> Seq(Answers \cup {Close})]
    BY Typed DEF Conversation, Types, WiresOf
<1>2. ws = 0 \/ ws \in Sockets
    BY Typed DEF Types
<1>3. /\ UNCHANGED relayVars /\ ws' = 0 /\ wsOpen' = FALSE /\ active' = {} /\ cut \subseteq cut'
      /\ work'[r] = [work[r] EXCEPT !.step = IF @ = "none" THEN @ ELSE "done"]
    BY DEF Exit
<1>4. /\ work'[r].step = IF work[r].step = "none" THEN "none" ELSE "done"
      /\ work'[r].socket = work[r].socket /\ work'[r].sent = work[r].sent
    BY <1>1, <1>3 DEF Works
<1>5. SameAsks(r)
    BY <1>2, OtherFrames, NoFrames DEF Exit
<1>6. SameFrames(r)
  <2>1. CASE ws = 0
      BY <2>1, NoFrames DEF Exit
  <2>2. CASE ws \in Sockets /\ ws # 0
    <3>1. cut' = cut \cup {ws} /\ toRelay' = [toRelay EXCEPT ![ws] = <<>>]
        BY <2>2 DEF Exit
    <3>2. ASSUME NEW t \in Sockets
          PROVE  Leaves(toRelay[t], toRelay'[t], r) \/ (t \in cut' /\ toRelay'[t] = <<>>)
      <4>1. CASE t = ws
          BY <1>1, <3>1, <4>1
      <4>2. CASE t # ws
        <5>1. toRelay'[t] = toRelay[t]
            BY <1>1, <3>1, <4>2
        <5> QED BY <5>1 DEF Leaves
      <4> QED BY <4>1, <4>2
    <3> QED BY <3>2 DEF SameFrames
  <2> QED BY <1>2, <2>1, <2>2
<1>7. Held(r)'
    BY <1>1, <1>3, <1>4 DEF Held, relayVars
<1>8. SameWork(r)
    BY <1>1, <1>4 DEF SameWork, Works, Steps
<1>9. AtRest(r) /\ SameStart(r)
    BY <1>1, <1>3, <1>6, <1>8 DEF AtRest, SameEntry, SameStart, relayVars, Over
<1> QED BY <1>5, <1>7, <1>9, Rested

----------------------------------------------------------------------------
(* What the bridge says *)

\* A step of the work on another request.
LEMMA OtherWorkKeeps ==
    ASSUME IInv, NEW r \in Requests, NEW o \in Requests, o # r,
           OriginAnswers(o) \/ OriginSends(o) \/ OriginEnds(o) \/ OriginFails(o) \/ AbortedFetch(o)
    PROVE  Conversation(r)'
<1> USE DEF IInv
<1>1. /\ work'[r] = work[r] /\ (r \in active' <=> r \in active)
      /\ UNCHANGED <<relayVars, ws, wsOpen, toBridge, cut>>
      /\ \/ \E t \in {"start", "chunk", "end", "error"} : SendFrames(o, <<t>>)
         \/ SendFrames(o, <<"startEmpty", "end">>)
    BY Typed DEF Types, OriginAnswers, OriginSends, OriginEnds, OriginFails, AbortedFetch, Work
<1>2. ws = 0 \/ ws \in Sockets
    BY Typed DEF Types
<1>3. toRelay \in [Sockets -> Seq(Answers \cup {Close})]
    BY Typed DEF Types, WiresOf
<1>4. ASSUME NEW t \in {"start", "chunk", "end", "error"}, SendFrames(o, <<t>>)
      PROVE  SameFrames(r)
  <2>1. <<t, o>> \in Answers \cup {Close} /\ <<t, o>>[2] # r
      BY DEF Answers
  <2>2. toRelay' = toRelay \/ (wsOpen /\ toRelay' = [toRelay EXCEPT ![ws] = Append(@, <<t, o>>)])
      BY <1>4, SentOne
  <2>3. wsOpen => ws \in Sockets
      BY <1>2 DEF OneConnection
  <2> QED BY <2>1, <2>2, <2>3, OtherFrames, NoFrames
<1>5. ASSUME SendFrames(o, <<"startEmpty", "end">>)
      PROVE  SameFrames(r)
  <2> DEFINE x == <<"startEmpty", o>>
             y == <<"end", o>>
  <2>1. x \in Answers \cup {Close} /\ y \in Answers \cup {Close} /\ x[2] # r /\ y[2] # r
        /\ {<<"startEmpty", o>>, <<"end", o>>} \subseteq Answers
      BY DEF Answers
  <2>2. toRelay' = toRelay \/ (wsOpen /\ toRelay' = [toRelay EXCEPT ![ws] = Append(Append(@, x), y)])
      BY <1>5, <2>1, SentTwo
  <2>3. wsOpen => ws \in Sockets
      BY <1>2 DEF OneConnection
  <2>4. CASE wsOpen /\ toRelay' = [toRelay EXCEPT ![ws] = Append(Append(@, x), y)]
    <3> HIDE DEF x, y
    <3>1. toRelay[ws] \in Seq(Answers \cup {Close})
        BY <1>3, <2>3, <2>4
    <3>2. Leaves(toRelay[ws], Append(toRelay[ws], x), r)
        BY <2>1, <3>1, AppendLeaves
    <3>3. Append(toRelay[ws], x) \in Seq(Answers \cup {Close})
        BY <2>1, <3>1
    <3>4. Leaves(Append(toRelay[ws], x), Append(Append(toRelay[ws], x), y), r)
      <4> DEFINE p == Append(toRelay[ws], x)
      <4> HIDE DEF p
      <4>1. p \in Seq(Answers \cup {Close})
          BY <3>3 DEF p
      <4>2. Leaves(p, Append(p, y), r)
          BY <2>1, <4>1, AppendLeaves
      <4> QED BY <4>2 DEF p
    <3>5. Leaves(toRelay[ws], Append(Append(toRelay[ws], x), y), r)
        BY <3>2, <3>4, LeavesAgain
    <3>6. \A t \in Sockets : Leaves(toRelay[t], toRelay[t], r)
        BY DEF Leaves
    <3> QED BY <1>3, <2>3, <2>4, <3>5, <3>6 DEF SameFrames
  <2> QED BY <2>2, <2>4, NoFrames
<1>6. Bystander(r)
    BY <1>1, <1>4, <1>5, NoFrames DEF Bystander, relayVars
<1> QED BY <1>6, BystanderKeeps
\* The work on r that still runs, and what is known of it.
LEMMA Working ==
    ASSUME IInv, NEW r \in Requests, work[r].step \in {"fetch", "body", "aborted"}
    PROVE  /\ work[r].socket = entry[r].socket
           /\ ~entry[r].empty /\ ~entry[r].ended /\ caller[r] # "complete"
           /\ \A s \in Sockets :
                /\ ~On(<<"request", r>>, toBridge[s]) /\ OnceOn(<<"request", r>>, toBridge[s])
                /\ \A type \in {"startEmpty", "end", "error"} : ~On(<<type, r>>, toRelay[s])
                /\ Ordered(r, s) /\ Begun(r, s) /\ Counted(r, s)
           /\ caller[r] \notin {"new", "reading"}
<1> USE DEF IInv
<1>1. SentOnce(r) /\ Over(r) /\ Wire(r)
    BY DEF Conversation, Wire
<1>2. \A s \in Sockets : Ordered(r, s) /\ Begun(r, s) /\ Counted(r, s)
    BY <1>1 DEF Wire
<1>3. \A s \in Sockets : \A type \in {"startEmpty", "end", "error"} : ~On(<<type, r>>, toRelay[s])
    BY <1>2 DEF Ordered
<1>4. \A s \in Sockets : ~On(<<"request", r>>, toBridge[s]) /\ OnceOn(<<"request", r>>, toBridge[s])
    BY <1>1 DEF SentOnce
<1> QED BY <1>1, <1>2, <1>3, <1>4 DEF SentOnce, Over

\* What a step of the work leaves to the relay.
LEMMA WorkLeaves ==
    ASSUME IInv, NEW r \in Requests, work[r].step \in {"fetch", "body", "aborted"},
           work'[r].step \in {"body", "done"}, work'[r].socket = work[r].socket,
           active' = (IF work'[r].step = "done" THEN active \ {r} ELSE active),
           work'[r].step = "body" => work[r].step \in {"fetch", "body"},
           UNCHANGED <<relayVars, ws, wsOpen, toBridge, cut>>
    PROVE  SentOnce(r)' /\ Held(r)' /\ Over(r)'
<1> USE DEF IInv
<1>1. Held(r)
    BY DEF Conversation
<1>2. entry' = entry /\ caller' = caller /\ pending' = pending
    BY DEF relayVars
<1>3. SentOnce(r)'
    BY <1>2, Working DEF SentOnce
<1>4. Held(r)'
    BY <1>1, <1>2 DEF Held
<1>5. Over(r)'
    BY <1>2, Working DEF Over
<1> QED BY <1>3, <1>4, <1>5

\* As many more on either side of the count.
LEMMA BothMore ==
    ASSUME NEW got \in Nat, NEW here \in Nat, NEW sent \in Nat, NEW more \in Nat
    PROVE  /\ got + here <= sent => got + (here + more) <= sent + more
           /\ got + here = sent => got + (here + more) = sent + more
OBVIOUS

\* A frame of the answer is sent, or lost.
LEMMA SaidOne ==
    ASSUME IInv, NEW r \in Requests, work[r].step \in {"fetch", "body", "aborted"},
           NEW t \in {"start", "chunk", "end", "error"}, SendFrames(r, <<t>>),
           work'[r].socket = work[r].socket,
           work'[r].step = (IF t \in {"start", "chunk"} THEN "body" ELSE "done"),
           work'[r].sent = (IF t = "chunk" THEN work[r].sent + 1 ELSE work[r].sent),
           t # "error" => work[r].step \in {"fetch", "body"},
           t = "chunk" => work[r].step = "body",
           active' = (IF work'[r].step = "done" THEN active \ {r} ELSE active),
           UNCHANGED <<relayVars, ws, wsOpen, toBridge, cut>>
    PROVE  Conversation(r)'
<1> USE DEF IInv
<1>1. SentOnce(r)' /\ Held(r)' /\ Over(r)'
    BY WorkLeaves
<1>2. /\ entry' = entry /\ pending' = pending /\ cut' = cut
      /\ toRelay \in [Sockets -> Seq(Answers \cup {Close})]
      /\ entry[r].got \in Nat /\ work[r].sent \in Nat
    BY Typed, ConstantsAssumption DEF relayVars, Types, WiresOf, Entries, Works
<1>3. t \in {"start", "chunk"} => work[r].socket = ws /\ wsOpen
  <2>1. Held(r)
      BY DEF Conversation
  <2> QED BY <2>1 DEF Held
<1>4. CASE ~(work[r].socket = ws /\ wsOpen /\ ws \notin cut) /\ toRelay' = toRelay
  <2>1. t \in {"start", "chunk"} => work[r].socket \in cut
      BY <1>3, <1>4
  <2>2. ASSUME NEW s \in Sockets
        PROVE  Ordered(r, s)' /\ Begun(r, s)' /\ Counted(r, s)'
    <3>1. Ordered(r, s) /\ Begun(r, s) /\ Counted(r, s) /\ work[r].socket = entry[r].socket
          /\ ~On(<<"startEmpty", r>>, toRelay[s])
        BY Working
    <3>2. Ordered(r, s)'
        BY <1>4, <3>1, Working DEF Ordered
    <3>3. Begun(r, s)'
      <4>1. work'[r].step = "body" /\ work'[r].socket = s => s \in cut
          BY <2>1
      <4> QED BY <1>2, <1>4, <3>1, <4>1 DEF Begun
    <3>4. Counted(r, s)'
      <4>1. Times(<<"chunk", r>>, toRelay[s]) \in Nat
          BY <1>2, TimesIsNat
      <4>2. work'[r].sent = work[r].sent \/ (work'[r].sent = work[r].sent + 1 /\ work[r].socket \in cut)
          BY <2>1
      <4> QED BY <1>2, <1>4, <3>1, <4>1, <4>2 DEF Counted
    <3> QED BY <3>2, <3>3, <3>4
  <2> QED BY <1>1, <2>2 DEF Conversation
<1>5. CASE /\ work[r].socket = ws /\ wsOpen /\ ws \notin cut
           /\ toRelay' = [toRelay EXCEPT ![ws] = Append(@, <<t, r>>)]
  <2>1. ws \in Sockets
      BY <1>5, Typed DEF OneConnection, Types
  <2> DEFINE q == toRelay[ws]
             p == Append(q, <<t, r>>)
  <2>2. q \in Seq(Answers \cup {Close}) /\ <<t, r>> \in Answers \cup {Close}
      BY <1>2, <2>1 DEF Answers
  <2>3. Says(q, p, r, t) /\ Times(<<"chunk", r>>, q) \in Nat
    <3> HIDE DEF q
    <3>1. Says(q, p, r, t)
        BY <2>2, OwnAppend
    <3>2. Times(<<"chunk", r>>, q) \in Nat
        BY <2>2, TimesIsNat
    <3> QED BY <3>1, <3>2
  <2>4. toRelay'[ws] = p /\ \A s \in Sockets : s # ws => toRelay'[s] = toRelay[s]
      BY <1>2, <1>5, <2>1
  <2>5. ASSUME NEW s \in Sockets
        PROVE  Ordered(r, s)' /\ Begun(r, s)' /\ Counted(r, s)'
    <3>1. /\ Ordered(r, s) /\ Begun(r, s) /\ Counted(r, s) /\ work[r].socket = entry[r].socket
          /\ \A type \in {"startEmpty", "end", "error"} : ~On(<<type, r>>, toRelay[s])
        BY Working
    <3>2. CASE s = ws
      <4>1. EndLast(r, p)
          BY <2>3, <3>1, <3>2 DEF Says
      <4>2. Ordered(r, s)'
        <5>1. \A type \in {"startEmpty", "end", "error"} : On(<<type, r>>, p) => type = t
            BY <2>3, <3>1, <3>2 DEF Says
        <5> HIDE DEF p, q
        <5> QED BY <1>5, <2>4, <3>2, <4>1, <5>1 DEF Ordered
      <4>3. Begun(r, s)'
        <5> SUFFICES ASSUME r \in pending, ~entry[r].started
                     PROVE  /\ HeadFirst(r, p)
                            /\ t \in {"start", "chunk"} => On(<<"start", r>>, p)
          <6>1. work'[r].step = "body" => t \in {"start", "chunk"}
              OBVIOUS
          <6> HIDE DEF p
          <6> QED BY <1>2, <2>4, <3>2, <6>1 DEF Begun
        <5>1. HeadFirst(r, q) /\ (work[r].step = "body" => On(<<"start", r>>, q))
            BY <1>5, <3>1, <3>2 DEF Begun
        <5> HIDE DEF p, q
        <5> QED BY <2>3, <5>1 DEF Says
      <4>4. Counted(r, s)'
        <5>1. /\ entry[r].got + Times(<<"chunk", r>>, q) <= work[r].sent
              /\ r \in pending => entry[r].got + Times(<<"chunk", r>>, q) = work[r].sent
            BY <1>5, <3>1, <3>2 DEF Counted
        <5>2. /\ entry[r].got + Times(<<"chunk", r>>, p) <= work'[r].sent
              /\ r \in pending => entry[r].got + Times(<<"chunk", r>>, p) = work'[r].sent
          <6>1. \E more \in Nat : /\ Times(<<"chunk", r>>, p) = Times(<<"chunk", r>>, q) + more
                                 /\ work'[r].sent = work[r].sent + more
            <7>1. CASE t = "chunk"
                BY <2>3, <7>1 DEF Says
            <7>2. CASE t # "chunk"
                BY <1>2, <2>3, <7>2 DEF Says
            <7> QED BY <7>1, <7>2
          <6>2. PICK more \in Nat : /\ Times(<<"chunk", r>>, p) = Times(<<"chunk", r>>, q) + more
                                    /\ work'[r].sent = work[r].sent + more
              BY <6>1
          <6> DEFINE here == Times(<<"chunk", r>>, q)
          <6>3. entry[r].got \in Nat /\ here \in Nat /\ work[r].sent \in Nat
              BY <1>2, <2>3
          <6>4. /\ entry[r].got + here <= work[r].sent
                /\ r \in pending => entry[r].got + here = work[r].sent
              BY <5>1
          <6> HIDE DEF here
          <6>5. /\ entry[r].got + (here + more) <= work[r].sent + more
                /\ r \in pending => entry[r].got + (here + more) = work[r].sent + more
              BY <6>3, <6>4, BothMore
          <6> QED BY <6>2, <6>5 DEF here
        <5> HIDE DEF p, q
        <5> QED BY <1>2, <2>4, <3>2, <5>2 DEF Counted
      <4> QED BY <4>2, <4>3, <4>4
    <3>3. CASE s # ws
      <4>1. toRelay'[s] = toRelay[s] /\ s # work[r].socket /\ s # entry[r].socket
          BY <1>5, <2>4, <3>1, <3>3
      <4>2. Ordered(r, s)'
          BY <3>1, <4>1 DEF Ordered
      <4>3. Begun(r, s)'
          BY <1>2, <3>1, <4>1 DEF Begun
      <4>4. Counted(r, s)'
        <5>1. Times(<<"chunk", r>>, toRelay[s]) \in Nat
            BY <1>2, TimesIsNat
        <5> QED BY <1>2, <3>1, <4>1, <5>1 DEF Counted
      <4> QED BY <4>2, <4>3, <4>4
    <3> QED BY <3>2, <3>3
  <2> QED BY <1>1, <2>5 DEF Conversation
<1> QED BY <1>4, <1>5, SentOne
\* An answer without a body: head and end at once.
LEMMA SaidTwo ==
    ASSUME IInv, NEW r \in Requests, work[r].step = "fetch", SendFrames(r, <<"startEmpty", "end">>),
           work'[r].socket = work[r].socket, work'[r].step = "done", work'[r].sent = work[r].sent,
           active' = active \ {r},
           UNCHANGED <<relayVars, ws, wsOpen, toBridge, cut>>
    PROVE  Conversation(r)'
<1> USE DEF IInv
<1>1. SentOnce(r)' /\ Held(r)' /\ Over(r)'
    BY WorkLeaves
<1>2. /\ entry' = entry /\ pending' = pending /\ cut' = cut
      /\ toRelay \in [Sockets -> Seq(Answers \cup {Close})]
      /\ entry[r].got \in Nat /\ work[r].sent \in Nat
    BY Typed, ConstantsAssumption DEF relayVars, Types, WiresOf, Entries, Works
<1>3. work[r].sent = 0
    BY DEF Conversation, SentOnce
<1> DEFINE x == <<"startEmpty", r>>
           y == <<"end", r>>
<1>4. x \in Answers \cup {Close} /\ y \in Answers \cup {Close} /\ {<<"startEmpty", r>>, <<"end", r>>} \subseteq Answers
    BY DEF Answers
<1>5. CASE ~(work[r].socket = ws /\ wsOpen /\ ws \notin cut) /\ toRelay' = toRelay
  <2>1. ASSUME NEW s \in Sockets
        PROVE  Ordered(r, s)' /\ Begun(r, s)' /\ Counted(r, s)'
    <3>1. Ordered(r, s) /\ Begun(r, s) /\ Counted(r, s) /\ ~On(<<"startEmpty", r>>, toRelay[s])
        BY Working
    <3>2. Ordered(r, s)'
        BY <1>5, <3>1, Working DEF Ordered
    <3>3. Begun(r, s)'
        BY <1>2, <1>5, <3>1 DEF Begun
    <3>4. Counted(r, s)'
        BY <1>2, <1>5, <3>1 DEF Counted
    <3> QED BY <3>2, <3>3, <3>4
  <2> QED BY <1>1, <2>1 DEF Conversation
<1>6. CASE /\ work[r].socket = ws /\ wsOpen /\ ws \notin cut
           /\ toRelay' = [toRelay EXCEPT ![ws] = Append(Append(@, <<"startEmpty", r>>), <<"end", r>>)]
  <2>1. ws \in Sockets
      BY <1>6, Typed DEF OneConnection, Types
  <2> DEFINE q == toRelay[ws]
             p == Append(q, <<"startEmpty", r>>)
             w == Append(p, <<"end", r>>)
  <2>2. q \in Seq(Answers \cup {Close}) /\ p \in Seq(Answers \cup {Close})
      BY <1>2, <1>4, <2>1
  <2>3. Says(q, p, r, "startEmpty")
    <3> HIDE DEF q
    <3> QED BY <1>4, <2>2, OwnAppend
  <2>4. Says(p, w, r, "end")
    <3> HIDE DEF p
    <3> QED BY <1>4, <2>2, OwnAppend
  <2>5. toRelay'[ws] = w /\ \A s \in Sockets : s # ws => toRelay'[s] = toRelay[s]
      BY <1>2, <1>6, <2>1
  <2>6. ASSUME NEW s \in Sockets
        PROVE  Ordered(r, s)' /\ Begun(r, s)' /\ Counted(r, s)'
    <3>1. /\ Ordered(r, s) /\ Begun(r, s) /\ Counted(r, s) /\ work[r].socket = entry[r].socket
          /\ \A type \in {"startEmpty", "end", "error"} : ~On(<<type, r>>, toRelay[s])
        BY Working
    <3>2. CASE s = ws
      <4>1. ~On(<<"end", r>>, p) /\ ~On(<<"error", r>>, p)
          BY <2>3, <3>1, <3>2 DEF Says
      <4>2. EndLast(r, w)
          BY <2>4, <4>1 DEF Says
      <4>3. Ordered(r, s)'
        <5> HIDE DEF w, p, q
        <5> QED BY <1>3, <1>6, <2>5, <3>2, <4>2 DEF Ordered
      <4>4. Begun(r, s)'
        <5> SUFFICES ASSUME r \in pending, ~entry[r].started
                     PROVE  HeadFirst(r, w)
          <6> HIDE DEF w
          <6> QED BY <1>2, <2>5, <3>2 DEF Begun
        <5>1. HeadFirst(r, q)
            BY <3>1, <3>2 DEF Begun
        <5>2. HeadFirst(r, p)
            BY <2>3, <5>1 DEF Says
        <5> QED BY <2>4, <5>2 DEF Says
      <4>5. Counted(r, s)'
        <5>1. Times(<<"chunk", r>>, q) \in Nat
          <6> HIDE DEF q
          <6> QED BY <2>2, TimesIsNat
        <5>2. Times(<<"chunk", r>>, p) = Times(<<"chunk", r>>, q) + 0
            BY <2>3 DEF Says
        <5>3. Times(<<"chunk", r>>, w) = Times(<<"chunk", r>>, p) + 0
            BY <2>4 DEF Says
        <5>4. Times(<<"chunk", r>>, w) = Times(<<"chunk", r>>, q)
          <6> HIDE DEF q, p, w
          <6> QED BY <5>1, <5>2, <5>3
        <5>5. Times(<<"chunk", r>>, toRelay'[s]) = Times(<<"chunk", r>>, toRelay[s])
            BY <2>5, <3>2, <5>4
        <5> QED BY <1>2, <3>1, <5>5 DEF Counted
      <4> QED BY <4>3, <4>4, <4>5
    <3>3. CASE s # ws
      <4>1. toRelay'[s] = toRelay[s] /\ s # work[r].socket
          BY <1>6, <2>5, <3>3
      <4>2. Ordered(r, s)'
          BY <3>1, <4>1 DEF Ordered
      <4>3. Begun(r, s)'
          BY <1>2, <3>1, <4>1 DEF Begun
      <4>4. Counted(r, s)'
          BY <1>2, <3>1, <4>1 DEF Counted
      <4> QED BY <4>2, <4>3, <4>4
    <3> QED BY <3>2, <3>3
  <2> QED BY <1>1, <2>6 DEF Conversation
<1> QED BY <1>4, <1>5, <1>6, SentTwo

\* A step of the work on r.
LEMMA WorkKeeps ==
    ASSUME IInv, NEW r \in Requests,
           OriginAnswers(r) \/ OriginSends(r) \/ OriginEnds(r) \/ OriginFails(r) \/ AbortedFetch(r)
    PROVE  Conversation(r)'
<1> USE DEF IInv
<1>1. work \in [Requests -> Works] /\ work[r] \in Works
    BY Typed DEF Types
<1>2. \A step : [work EXCEPT ![r].step = step][r].step = step
        /\ [work EXCEPT ![r].step = step][r].socket = work[r].socket
        /\ [work EXCEPT ![r].step = step][r].sent = work[r].sent
    BY <1>1 DEF Works
<1>3. CASE work[r].step = "fetch" /\ Work(r, "body") /\ SendFrames(r, <<"start">>)
    BY <1>2, <1>3, SaidOne DEF Work
<1>4. CASE work[r].step = "fetch" /\ Work(r, "done") /\ SendFrames(r, <<"startEmpty", "end">>)
    BY <1>2, <1>4, SaidTwo DEF Work
<1>5. CASE OriginSends(r)
  <2>1. /\ work'[r].step = "body" /\ work[r].step = "body" /\ work'[r].socket = work[r].socket
        /\ work'[r].sent = work[r].sent + 1
      BY <1>1, <1>5 DEF OriginSends, Works
  <2>2. SendFrames(r, <<"chunk">>) /\ active' = active /\ UNCHANGED <<relayVars, ws, wsOpen, toBridge, cut>>
      BY <1>5 DEF OriginSends
  <2> QED BY <2>1, <2>2, SaidOne
<1>6. CASE work[r].step = "body" /\ Work(r, "done") /\ SendFrames(r, <<"end">>)
    BY <1>2, <1>6, SaidOne DEF Work
<1>7. CASE work[r].step \in {"fetch", "body", "aborted"} /\ Work(r, "done") /\ SendFrames(r, <<"error">>)
    BY <1>2, <1>7, SaidOne DEF Work
<1> QED BY <1>3, <1>4, <1>5, <1>6, <1>7 DEF OriginAnswers, OriginEnds, OriginFails, AbortedFetch

----------------------------------------------------------------------------
(* The theorems *)

LEMMA InitInv == Init => IInv
<1> SUFFICES ASSUME Init
             PROVE  IInv
    OBVIOUS
<1> USE ConstantsAssumption DEF Init
<1>1. TypeOK
  <2>1. NewEntry \in Entries
      BY DEF NewEntry, Entries
  <2>2. NoWork \in Works
      BY DEF NoWork, Works, Steps
  <2>3. 1 \in Sockets /\ <<>> \in Seq(Asks \cup {Close}) /\ <<>> \in Seq(Answers \cup {Close})
      BY DEF Sockets
  <2>4. /\ link \in [Sockets -> {"unused", "open", "closing", "closed"}]
        /\ pending \subseteq Requests /\ active \subseteq Requests /\ cut \subseteq Sockets
      OBVIOUS
  <2>5. caller \in [Requests -> Callers]
      BY DEF Callers
  <2>6. ws \in Sockets \cup {0} /\ wsOpen \in BOOLEAN /\ reconnect \in BOOLEAN /\ alive \in BOOLEAN
      BY <2>3
  <2>7. faults \in 0..MaxFaults
    <3>1. MaxFaults \in Nat
        OBVIOUS
    <3>2. faults = 0
        OBVIOUS
    <3> QED BY <3>1, <3>2
  <2>8. entry \in [Requests -> Entries] /\ work \in [Requests -> Works]
      BY <2>1, <2>2
  <2>9. toBridge \in WiresOf(Asks) /\ toRelay \in WiresOf(Answers)
      BY <2>3 DEF WiresOf
  <2> QED BY <2>4, <2>5, <2>6, <2>7, <2>8, <2>9, Typed DEF Types
<1>2. OneConnection
    BY DEF OneConnection
<1>3. ASSUME NEW r \in Requests
      PROVE  Conversation(r)
  <2>1. SentOnce(r) /\ Held(r) /\ Over(r)
    <3>1. entry[r] = NewEntry /\ work[r] = NoWork /\ caller[r] = "new" /\ r \notin pending /\ r \notin active
        OBVIOUS
    <3>2. \A s \in Sockets : toBridge[s] = <<>> /\ toRelay[s] = <<>>
        OBVIOUS
    <3>3. Held(r)
        BY <3>1 DEF Held, NewEntry, NoWork
    <3>4. Over(r)
        BY <3>1 DEF Over, NewEntry, NoWork
    <3>5. \A s \in Sockets : OnceOn(<<"request", r>>, toBridge[s]) /\ ~On(<<"request", r>>, toBridge[s])
      <4>1. OnceOn(<<"request", r>>, <<>>) /\ ~On(<<"request", r>>, <<>>)
          BY DEF OnceOn, On
      <4> QED BY <3>2, <4>1
    <3>6. SentOnce(r)
        BY <3>1, <3>5 DEF SentOnce, NewEntry, NoWork
    <3> QED BY <3>3, <3>4, <3>6
  <2>2. ASSUME NEW s \in Sockets
        PROVE  Ordered(r, s) /\ Begun(r, s) /\ Counted(r, s)
    <3>1. toRelay[s] = <<>>
        OBVIOUS
    <3> QED BY <3>1, EmptyWire DEF Ordered, Begun, Counted, NewEntry, NoWork
  <2> QED BY <2>1, <2>2 DEF Conversation
<1> QED BY <1>1, <1>2, <1>3 DEF IInv

LEMMA ConversationKept ==
    ASSUME IInv, [Next]_vars, NEW r \in Requests
    PROVE  Conversation(r)'
<1>1. CASE UNCHANGED vars
  <2>1. Bystander(r)
      BY <1>1, NoFrames DEF Bystander, vars, relayVars, bridgeVars, wire
  <2> QED BY <2>1, BystanderKeeps DEF IInv
<1>2. CASE Accept
  <2>1. ws \in Sockets /\ AcceptBridge(ws) /\ UNCHANGED bridgeVars
      BY <1>2, Typed DEF Accept, IInv, Types
  <2> QED BY <2>1, AcceptKeeps
<1>3. ASSUME NEW s \in Sockets, OtherBridge(s)
      PROVE  Conversation(r)'
    BY <1>3, AcceptKeeps DEF OtherBridge
<1>4. CASE WsOpens \/ Terminate \/ Connect \/ Start
    BY <1>4, ConnectionKeeps
<1>5. CASE DeliverToBridge \/ Exit
    BY <1>5, DeliverToBridgeKeeps, ExitKeeps
<1>6. ASSUME NEW s \in Sockets, WebSocketGone(s) \/ DeliverToRelay(s) \/ CutSocket(s)
      PROVE  Conversation(r)'
    BY <1>6, WebSocketGoneKeeps, DeliverToRelayKeeps, CutKeeps
<1>7. ASSUME NEW o \in Requests,
             \/ Forward(o) \/ RelaySteps(o) \/ Cancel(o)
             \/ OriginAnswers(o) \/ OriginSends(o) \/ OriginEnds(o) \/ OriginFails(o) \/ AbortedFetch(o)
      PROVE  Conversation(r)'
  <2>1. CASE o # r
      BY <1>7, <2>1, OtherRequestKeeps, OtherWorkKeeps
  <2>2. CASE o = r /\ (Forward(r) \/ RelaySteps(r) \/ Cancel(r))
      BY <2>2, ForwardKeeps, SendKeeps, GiveUpKeeps, ContinueKeeps DEF RelaySteps
  <2>3. CASE o = r /\ (OriginAnswers(r) \/ OriginSends(r) \/ OriginEnds(r) \/ OriginFails(r) \/ AbortedFetch(r))
      BY <2>3, WorkKeeps
  <2> QED BY <1>7, <2>1, <2>2, <2>3
<1> QED BY <1>1, <1>2, <1>3, <1>4, <1>5, <1>6, <1>7 DEF Next, Connecting

LEMMA NextInv == IInv /\ [Next]_vars => IInv'
<1> SUFFICES ASSUME IInv, [Next]_vars
             PROVE  IInv'
    OBVIOUS
<1>1. TypeOK' /\ OneConnection'
    BY LinksKept
<1>2. \A r \in Requests : Conversation(r)'
    BY ConversationKept
<1> QED BY <1>1, <1>2 DEF IInv

\* The inductive invariant: whatever connections break, whoever connects,
\* dies, gives up or answers late, what is on the wires about a request is a
\* part of one conversation, in its order.
THEOREM Invariance == Spec => []IInv
BY InitInv, NextInv, PTL DEF Spec

\* Every variable keeps its type; no more chunks are counted than were sent.
THEOREM TypeCorrect == Spec => []TypeOK
<1>1. IInv => TypeOK
    BY DEF IInv
<1> QED BY <1>1, Invariance, PTL

\* Nobody waits at the relay for what can no longer come, and the bridge can
\* abort exactly the fetches that run.
THEOREM HeldCorrect == Spec => []HeldAtBothEnds
<1>1. IInv => HeldAtBothEnds
    BY DEF IInv, Conversation, Held, HeldAtBothEnds
<1> QED BY <1>1, Invariance, PTL

\* A caller who sees the body end has read every chunk of one answer of the
\* origin: none is lost to a broken connection, and none counted twice.
THEOREM CompleteIsAlwaysWhole == Spec => []CompleteIsWhole
<1>1. IInv => CompleteIsWhole
    BY DEF IInv, Conversation, Over, CompleteIsWhole
<1> QED BY <1>1, Invariance, PTL
=============================================================================
