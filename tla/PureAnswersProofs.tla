-------------------------- MODULE PureAnswersProofs --------------------------
(***************************************************************************)
(* Theorems about the pure answers: for lines, indexes and rules of any      *)
(* length.  What a recursive definition computes is proved by looking at the *)
(* least place where it would be wrong.                                      *)
(***************************************************************************)
EXTENDS PureAnswers, FiniteSetTheorems, SequenceTheorems, WellFoundedInduction, TLAPS

(* Numbers and recursive functions. *)

\* A set of naturals that is not empty has a least element.
LEMMA LeastExists ==
  ASSUME NEW S, S \subseteq Nat, S # {}
  PROVE  \E x \in S : \A y \in S : x <= y
<1> DEFINE R == OpToRel(<, Nat)
<1>0. \A x, y \in Nat : y < x => <<y, x>> \in R
  BY DEF OpToRel
<1>1. IsWellFoundedOn(R, Nat)
  BY NatLessThanWellFounded
<1> HIDE DEF R
<1>2. PICK x \in S : \A y \in S : ~ (<<y, x>> \in R)
  BY <1>1, WFMin
<1>3. \A y \in S : ~ (y < x)
  BY <1>0, <1>2
<1> QED BY <1>3

\* What holds of 0, and of each number if of the one before it, holds of all up
\* to N.
LEMMA UpTo ==
  ASSUME NEW N \in Nat, NEW S, 0 \in S, \A i \in 1 .. N : i - 1 \in S => i \in S
  PROVE  0 .. N \subseteq S
<1> SUFFICES ASSUME NEW j \in 0 .. N, j \notin S
             PROVE  FALSE
  OBVIOUS
<1> DEFINE W == {i \in 0 .. N : i \notin S}
<1>1. W \subseteq Nat /\ W # {}
  OBVIOUS
<1>2. PICK x \in W : \A y \in W : x <= y
  BY <1>1, LeastExists
<1>3. x \in 1 .. N /\ x - 1 \in 0 .. N
  BY <1>2
<1>4. x - 1 \in S
  BY <1>2, <1>3
<1> QED BY <1>2, <1>3, <1>4

\* How a value in T follows from the one before it, at each place up to N.
Steps(N, T) == [T \X (1 .. N) -> T]

\* A function is defined step by step, each value from the one before it.
LEMMA BuiltUp ==
  ASSUME NEW N \in Nat, NEW T, NEW base \in T, NEW Step \in Steps(N, T)
  PROVE  \E g \in [0 .. N -> T] :
           g[0] = base /\ \A i \in 1 .. N : g[i] = Step[<<g[i - 1], i>>]
<1> DEFINE Good(g, n) == g \in [0 .. n -> T] /\ g[0] = base /\ \A i \in 1 .. n : g[i] = Step[<<g[i - 1], i>>]
           S == {n \in 0 .. N : \E g : Good(g, n)}
<1>1. 0 \in S
  <2>1. Good([i \in 0 .. 0 |-> base], 0)
    OBVIOUS
  <2> HIDE DEF Good
  <2> QED BY <2>1
<1>2. ASSUME NEW n \in 1 .. N, n - 1 \in S
      PROVE  n \in S
  <2>1. PICK g : Good(g, n - 1)
    BY <1>2
  <2> DEFINE h == [i \in 0 .. n |-> IF i = n THEN Step[<<g[n - 1], n>>] ELSE g[i]]
  <2>2. g[n - 1] \in T
    BY <2>1
  <2>3. /\ h \in [0 .. n -> T] /\ h[n] = Step[<<g[n - 1], n>>]
        /\ \A i \in 0 .. n - 1 : h[i] = g[i]
    BY <2>1, <2>2 DEF Steps
  <2> HIDE DEF h
  <2>4. h[0] = base
    BY <2>1, <2>3
  <2>5. ASSUME NEW i \in 1 .. n
        PROVE  h[i] = Step[<<h[i - 1], i>>]
    <3>1. h[i - 1] = g[i - 1]
      BY <2>3
    <3>2. CASE i = n
      BY <2>3, <3>1, <3>2
    <3>3. CASE i # n
      <4>1. i \in 1 .. n - 1 /\ i \in 0 .. n - 1
        BY <3>3
      <4> QED BY <2>1, <2>3, <3>1, <4>1
    <3> QED BY <3>2, <3>3
  <2>6. Good(h, n)
    BY <2>3, <2>4, <2>5
  <2> HIDE DEF Good
  <2> QED BY <2>6
<1> HIDE DEF S
<1>3. 0 .. N \subseteq S
  BY <1>1, <1>2, UpTo
<1> QED BY <1>3 DEF S

-----------------------------------------------------------------------------
(* The scan of a line. *)

\* The scan is in a string or not, from one character to the next.
LEMMA InStringSteps ==
  ASSUME NEW s \in Seq(Characters)
  PROVE  /\ InString(s) \in [0 .. Len(s) -> BOOLEAN] /\ InString(s)[0] = FALSE
         /\ \A i \in 1 .. Len(s) :
              InString(s)[i] = IF Toggles(s, i) THEN ~InString(s)[i - 1] ELSE InString(s)[i - 1]
<1> DEFINE N == Len(s)
           Next1(b, i) == IF Toggles(s, i) THEN ~b ELSE b
           Step == [p \in BOOLEAN \X (1 .. N) |-> Next1(p[1], p[2])]
           Body(g, i) == IF i = 0 THEN FALSE ELSE IF Toggles(s, i) THEN ~g[i - 1] ELSE g[i - 1]
           Fits(g) == g = [i \in 0 .. N |-> Body(g, i)]
<1>1. N \in Nat
  OBVIOUS
<1>2. ASSUME NEW p \in BOOLEAN \X (1 .. N)
      PROVE  Next1(p[1], p[2]) \in BOOLEAN
  <2>1. p[1] \in BOOLEAN
    OBVIOUS
  <2> QED BY <2>1
<1> HIDE DEF Next1
<1>3. Step \in [BOOLEAN \X (1 .. N) -> BOOLEAN]
  BY <1>2
<1> HIDE DEF Step, N
<1>4. PICK g \in [0 .. N -> BOOLEAN] : g[0] = FALSE /\ \A i \in 1 .. N : g[i] = Step[<<g[i - 1], i>>]
  <2> DEFINE T == BOOLEAN
             base == FALSE
  <2>0. base \in T
    OBVIOUS
  <2>1. Step \in Steps(N, T)
    BY <1>3 DEF Steps
  <2> HIDE DEF T, base
  <2>2. \E g \in [0 .. N -> T] : g[0] = base /\ \A i \in 1 .. N : g[i] = Step[<<g[i - 1], i>>]
    BY <1>1, <2>0, <2>1, BuiltUp
  <2> QED BY <2>2 DEF T, base
<1>5. ASSUME NEW i \in 0 .. N
      PROVE  g[i] = Body(g, i)
  <2>1. CASE i = 0
    BY <1>4, <2>1
  <2>2. CASE i # 0
    <3>1. i \in 1 .. N /\ i - 1 \in 0 .. N
      BY <1>1, <2>2
    <3>2. <<g[i - 1], i>> \in BOOLEAN \X (1 .. N)
      BY <1>4, <3>1
    <3>3. g[i] = Next1(g[i - 1], i)
      BY <1>4, <3>1, <3>2 DEF Step
    <3> QED BY <2>2, <3>3 DEF Next1
  <2> QED BY <2>1, <2>2
<1>6. Fits(g)
  BY <1>4, <1>5
<1>7. InString(s) = CHOOSE h : Fits(h)
  BY DEF InString, N
<1> HIDE DEF Fits
<1>8. Fits(InString(s))
  BY <1>6, <1>7
<1> DEFINE f == InString(s)
<1> HIDE DEF f
<1>9. f = [i \in 0 .. N |-> Body(f, i)]
  BY <1>8 DEF Fits, f
<1>10. /\ f[0] = FALSE
       /\ \A i \in 1 .. N : f[i] = IF Toggles(s, i) THEN ~f[i - 1] ELSE f[i - 1]
  <2> HIDE DEF Body
  <2>1. \A i \in 0 .. N : f[i] = Body(f, i)
    BY <1>9
  <2>2. ASSUME NEW i \in 1 .. N
        PROVE  f[i] = IF Toggles(s, i) THEN ~f[i - 1] ELSE f[i - 1]
    <3>1. i \in 0 .. N /\ i # 0
      BY <1>1
    <3> QED BY <2>1, <3>1 DEF Body
  <2>3. f[0] = FALSE
    BY <1>1, <2>1 DEF Body
  <2> QED BY <2>2, <2>3
<1>11. f \in [0 .. N -> BOOLEAN]
  <2> DEFINE S == {i \in 0 .. N : f[i] \in BOOLEAN}
  <2>1. 0 \in S
    <3>1. f[0] \in BOOLEAN
      BY <1>10
    <3> QED BY <1>1, <3>1
  <2>2. ASSUME NEW i \in 1 .. N, i - 1 \in S
        PROVE  i \in S
    <3>1. f[i] \in BOOLEAN
      BY <1>10, <2>2
    <3> QED BY <1>1, <3>1
  <2>3. 0 .. N \subseteq S
    <3> HIDE DEF S
    <3> QED BY <1>1, <2>1, <2>2, UpTo
  <2>4. DOMAIN f = 0 .. N /\ f = [i \in 0 .. N |-> f[i]]
    BY <1>9
  <2> QED BY <2>3, <2>4
<1> QED BY <1>10, <1>11 DEF f, N

\* The columns up to i where the scan finds a word.
Picked(s, i) == {k \in 1 .. i : ~InString(s)[k] /\ StartsWord(s, k)}

\* What the scan has found grows by the columns it picks.
LEMMA FoundSteps ==
  ASSUME NEW s \in Seq(Characters)
  PROVE  /\ Found(s) \in [0 .. Len(s) -> Seq(1 .. Len(s))] /\ Found(s)[0] = <<>>
         /\ \A i \in 1 .. Len(s) :
              Found(s)[i] = IF i \in Picked(s, i) THEN Append(Found(s)[i - 1], i) ELSE Found(s)[i - 1]
<1> DEFINE N == Len(s)
           T == Seq(1 .. N)
           Next1(q, i) == IF i \in Picked(s, i) THEN Append(q, i) ELSE q
           Step == [p \in T \X (1 .. N) |-> Next1(p[1], p[2])]
           Body(g, i) == IF i = 0 THEN <<>> ELSE IF ~InString(s)[i] /\ StartsWord(s, i) THEN Append(g[i - 1], Column(s, i)) ELSE g[i - 1]
           Fits(g) == g = [i \in 0 .. N |-> Body(g, i)]
<1>1. N \in Nat
  OBVIOUS
<1>2. ASSUME NEW q \in T, NEW i \in 1 .. N
      PROVE  Next1(q, i) \in T
  <2>1. Append(q, i) \in T
    OBVIOUS
  <2> QED BY <2>1
<1>3. <<>> \in T
  OBVIOUS
<1>a. \A i \in 1 .. N : i \in Picked(s, i) <=> ~InString(s)[i] /\ StartsWord(s, i)
  BY DEF Picked
<1> HIDE DEF Next1, T, N
<1>4. Step \in Steps(N, T)
  BY <1>2 DEF Steps
<1> HIDE DEF Step
<1>5. PICK g \in [0 .. N -> T] : g[0] = <<>> /\ \A i \in 1 .. N : g[i] = Step[<<g[i - 1], i>>]
  BY <1>1, <1>3, <1>4, BuiltUp
<1>b. \A h : \A i \in 1 .. N : Body(h, i) = Next1(h[i - 1], i)
  BY <1>a, <1>1 DEF Next1, Column
<1>6. ASSUME NEW i \in 0 .. N
      PROVE  g[i] = Body(g, i)
  <2>1. CASE i = 0
    BY <1>5, <2>1
  <2>2. CASE i # 0
    <3>1. i \in 1 .. N /\ i - 1 \in 0 .. N
      BY <1>1, <2>2
    <3>2. <<g[i - 1], i>> \in T \X (1 .. N)
      BY <1>5, <3>1
    <3>3. g[i] = Next1(g[i - 1], i)
      BY <1>5, <3>1, <3>2 DEF Step
    <3> QED BY <1>b, <3>1, <3>3
  <2> QED BY <2>1, <2>2
<1>7. Fits(g)
  BY <1>5, <1>6
<1>8. Found(s) = CHOOSE h : Fits(h)
  BY DEF Found, N
<1> HIDE DEF Fits
<1>9. Fits(Found(s))
  BY <1>7, <1>8
<1> DEFINE f == Found(s)
<1> HIDE DEF f
<1>10. f = [i \in 0 .. N |-> Body(f, i)]
  BY <1>9 DEF Fits, f
<1>11. f[0] = <<>> /\ \A i \in 1 .. N : f[i] = Next1(f[i - 1], i)
  <2>1. f[0] = <<>>
    BY <1>1, <1>10
  <2>2. ASSUME NEW i \in 1 .. N
        PROVE  f[i] = Next1(f[i - 1], i)
    <3> HIDE DEF Body
    <3>1. f[i] = Body(f, i)
      BY <1>1, <1>10
    <3> QED BY <1>b, <3>1
  <2> QED BY <2>1, <2>2
<1>12. f \in [0 .. N -> T]
  <2> DEFINE S == {i \in 0 .. N : f[i] \in T}
  <2>1. 0 \in S
    BY <1>1, <1>3, <1>11
  <2>2. ASSUME NEW i \in 1 .. N, i - 1 \in S
        PROVE  i \in S
    <3>1. f[i] \in T
      BY <1>2, <1>11, <2>2
    <3> QED BY <1>1, <3>1
  <2>3. 0 .. N \subseteq S
    <3> HIDE DEF S
    <3> QED BY <1>1, <2>1, <2>2, UpTo
  <2>4. DOMAIN f = 0 .. N /\ f = [i \in 0 .. N |-> f[i]]
    BY <1>10
  <2> QED BY <2>3, <2>4
<1> QED BY <1>11, <1>12 DEF f, N, T, Next1

\* Everything in a sequence of numbers comes before what is after it.
Ascends(q) == \A m, n \in DOMAIN q : m < n => q[m] < q[n]

\* The scan finds what it picks, in order.
LEMMA FoundIsPicked ==
  ASSUME NEW s \in Seq(Characters), NEW i \in 0 .. Len(s)
  PROVE  /\ Found(s)[i] \in Seq(1 .. Len(s)) /\ ToSet(Found(s)[i]) = Picked(s, i)
         /\ Ascends(Found(s)[i])
<1> DEFINE F == Found(s)
           N == Len(s)
           S == {j \in 0 .. N : ToSet(F[j]) = Picked(s, j) /\ Ascends(F[j])}
<1>1. /\ N \in Nat /\ F \in [0 .. N -> Seq(1 .. N)] /\ F[0] = <<>>
      /\ \A j \in 1 .. N : F[j] = IF j \in Picked(s, j) THEN Append(F[j - 1], j) ELSE F[j - 1]
  BY FoundSteps
<1> HIDE DEF F, N
<1>2. 0 \in S
  BY <1>1 DEF ToSet, Picked, Ascends
<1>3. ASSUME NEW j \in 1 .. N, j - 1 \in S
      PROVE  j \in S
  <2>0. j - 1 \in 0 .. N /\ j \in 0 .. N /\ F[j - 1] \in Seq(1 .. N)
    BY <1>1
  <2> DEFINE q == F[j - 1]
  <2>1. q \in Seq(1 .. N) /\ ToSet(q) = Picked(s, j - 1) /\ Ascends(q)
    BY <1>3, <2>0
  <2> HIDE DEF q
  <2>2. \A m \in DOMAIN q : q[m] \in 1 .. j - 1
    BY <2>1 DEF ToSet, Picked
  <2>3. CASE j \in Picked(s, j)
    <3>1. F[j] = Append(q, j) /\ Picked(s, j) = Picked(s, j - 1) \cup {j}
      <4>1. F[j] = Append(q, j)
        BY <1>1, <2>3 DEF q
      <4>2. 1 .. j = (1 .. j - 1) \cup {j}
        BY <1>1
      <4>3. ~InString(s)[j] /\ StartsWord(s, j)
        BY <2>3 DEF Picked
      <4>4. Picked(s, j) = Picked(s, j - 1) \cup {j}
        BY ONLY <4>2, <4>3, Zenon DEF Picked
      <4> QED BY <4>1, <4>4
    <3>2. /\ DOMAIN Append(q, j) = DOMAIN q \cup {Len(q) + 1} /\ DOMAIN q = 1 .. Len(q) /\ Len(q) \in Nat
          /\ Append(q, j)[Len(q) + 1] = j /\ \A m \in DOMAIN q : Append(q, j)[m] = q[m]
      BY <2>1
    <3>3. ToSet(F[j]) = Picked(s, j)
      BY <2>1, <3>1, <3>2 DEF ToSet
    <3>4. Ascends(F[j])
      <4>1. ASSUME NEW m \in DOMAIN F[j], NEW n \in DOMAIN F[j], m < n
            PROVE  F[j][m] < F[j][n]
        <5>1. m \in DOMAIN q /\ (n \in DOMAIN q \/ n = Len(q) + 1)
          BY <3>1, <3>2, <4>1
        <5>2. CASE n \in DOMAIN q
          BY <2>1, <3>1, <3>2, <4>1, <5>1, <5>2 DEF Ascends
        <5>3. CASE n = Len(q) + 1
          BY <2>2, <3>1, <3>2, <5>1, <5>3
        <5> QED BY <5>1, <5>2, <5>3
      <4> QED BY <4>1 DEF Ascends
    <3> QED BY <2>0, <3>3, <3>4
  <2>4. CASE j \notin Picked(s, j)
    <3>1. F[j] = q
      BY <1>1, <2>4 DEF q
    <3>2. Picked(s, j) = Picked(s, j - 1)
      <4>1. 1 .. j = (1 .. j - 1) \cup {j}
        BY <1>1
      <4>2. ~ (~InString(s)[j] /\ StartsWord(s, j))
        BY <1>1, <2>4 DEF Picked
      <4> QED BY ONLY <4>1, <4>2, Zenon DEF Picked
    <3> QED BY <2>0, <2>1, <3>1, <3>2
  <2> QED BY <2>3, <2>4
<1>4. 0 .. N \subseteq S
  <2> HIDE DEF S
  <2> QED BY <1>1, <1>2, <1>3, UpTo
<1>5. i \in S
  BY <1>4 DEF N
<1> QED BY <1>1, <1>5 DEF F, N

\* The words of a line are found once each, in order; of a comment, none.
LEMMA PositionsArePicked ==
  ASSUME NEW s \in Seq(Characters)
  PROVE  /\ IdentifierPositions(s) \in Seq(1 .. Len(s)) /\ Ascends(IdentifierPositions(s))
         /\ IF LooksLikeComment(s) THEN IdentifierPositions(s) = <<>>
            ELSE ToSet(IdentifierPositions(s)) = Picked(s, Len(s))
<1>1. Len(s) \in 0 .. Len(s)
  OBVIOUS
<1>2. CASE LooksLikeComment(s)
  BY <1>2 DEF IdentifierPositions, Ascends
<1>3. CASE ~LooksLikeComment(s)
  <2>1. IdentifierPositions(s) = Found(s)[Len(s)]
    BY <1>3 DEF IdentifierPositions
  <2> QED BY <1>1, <1>3, <2>1, FoundIsPicked
<1> QED BY <1>2, <1>3

\* A compiler reads a line character by character.
LEMMA LexedSteps ==
  ASSUME NEW s \in Seq(Characters)
  PROVE  /\ Lexed(s) \in [0 .. Len(s) -> {"code", "string", "escape"}] /\ Lexed(s)[0] = "code"
         /\ \A i \in 1 .. Len(s) : Lexed(s)[i] = Reads(Lexed(s)[i - 1], s[i])
<1> DEFINE N == Len(s)
           T == {"code", "string", "escape"}
           Step == [p \in T \X (1 .. N) |-> Reads(p[1], s[p[2]])]
           Body(g, i) == IF i = 0 THEN "code" ELSE Reads(g[i - 1], s[i])
           Fits(g) == g = [i \in 0 .. N |-> Body(g, i)]
<1>1. N \in Nat /\ "code" \in T
  OBVIOUS
<1>2. \A state \in T : \A c : Reads(state, c) \in T
  BY DEF Reads
<1>3. \A g : \A i \in 1 .. N : Body(g, i) = Reads(g[i - 1], s[i])
  OBVIOUS
<1>4. \A g : Body(g, 0) = "code"
  OBVIOUS
<1> HIDE DEF T, N, Body
<1>5. Step \in Steps(N, T)
  BY <1>2 DEF Steps
<1> HIDE DEF Step
<1>6. PICK g \in [0 .. N -> T] : g[0] = "code" /\ \A i \in 1 .. N : g[i] = Step[<<g[i - 1], i>>]
  BY <1>1, <1>5, BuiltUp
<1>7. ASSUME NEW i \in 0 .. N
      PROVE  g[i] = Body(g, i)
  <2>1. CASE i = 0
    BY <1>4, <1>6, <2>1
  <2>2. CASE i # 0
    <3>1. i \in 1 .. N /\ i - 1 \in 0 .. N
      BY <1>1, <2>2
    <3>2. <<g[i - 1], i>> \in T \X (1 .. N)
      BY <1>6, <3>1
    <3> QED BY <1>3, <1>6, <3>1, <3>2 DEF Step
  <2> QED BY <2>1, <2>2
<1>8. Fits(g)
  BY <1>6, <1>7
<1>9. Lexed(s) = CHOOSE h : Fits(h)
  BY DEF Lexed, N, Body
<1> HIDE DEF Fits
<1> DEFINE f == Lexed(s)
<1>10. Fits(f)
  BY <1>8, <1>9
<1> HIDE DEF f
<1>11. f = [i \in 0 .. N |-> Body(f, i)]
  BY <1>10 DEF Fits
<1>12. f[0] = "code" /\ \A i \in 1 .. N : f[i] = Reads(f[i - 1], s[i])
  BY <1>1, <1>3, <1>4, <1>11
<1>13. f \in [0 .. N -> T]
  <2> DEFINE S == {i \in 0 .. N : f[i] \in T}
  <2>1. 0 \in S
    BY <1>1, <1>12
  <2>2. ASSUME NEW i \in 1 .. N, i - 1 \in S
        PROVE  i \in S
    <3>1. f[i] \in T
      BY <1>2, <1>12, <2>2
    <3> QED BY <1>1, <3>1
  <2>3. 0 .. N \subseteq S
    <3> HIDE DEF S
    <3> QED BY <1>1, <2>1, <2>2, UpTo
  <2>4. DOMAIN f = 0 .. N /\ f = [i \in 0 .. N |-> f[i]]
    BY <1>11
  <2> QED BY <2>3, <2>4
<1> QED BY <1>12, <1>13 DEF f, N, T

\* Where every backslash escapes something in a string, the scan, which looks at
\* one character before a quote, is in a string where the compiler is.
LEMMA ScanAgrees ==
  ASSUME NEW s \in Seq(Characters),
         \A i \in DOMAIN s : s[i] = Backslash => Lexed(s)[i] = "escape",
         NEW i \in 0 .. Len(s)
  PROVE  InString(s)[i] <=> Lexed(s)[i] # "code"
<1> DEFINE N == Len(s)
           B == InString(s)
           R == Lexed(s)
           S == {j \in 0 .. N : (B[j] <=> R[j] # "code") /\ (R[j] = "escape" => j # 0 /\ s[j] = Backslash)}
<1>1. /\ N \in Nat /\ DOMAIN s = 1 .. N /\ B \in [0 .. N -> BOOLEAN] /\ B[0] = FALSE
      /\ \A j \in 1 .. N : B[j] = IF Toggles(s, j) THEN ~B[j - 1] ELSE B[j - 1]
  <2>1. N \in Nat /\ DOMAIN s = 1 .. N
    OBVIOUS
  <2> QED BY <2>1, InStringSteps, Zenon
<1>2. /\ R \in [0 .. N -> {"code", "string", "escape"}] /\ R[0] = "code"
      /\ \A j \in 1 .. N : R[j] = Reads(R[j - 1], s[j])
  BY LexedSteps
<1>3. \A j \in 1 .. N : s[j] = Backslash => R[j] = "escape"
  BY <1>1
<1> HIDE DEF B, R, N
<1>4. 0 \in S
  BY <1>1, <1>2
<1>5. ASSUME NEW j \in 1 .. N, j - 1 \in S
      PROVE  j \in S
  <2>0. j \in 0 .. N /\ j - 1 \in 0 .. N /\ j # 0
    BY <1>1
  <2>1. /\ B[j - 1] <=> R[j - 1] # "code"
        /\ R[j - 1] = "escape" => j - 1 # 0 /\ s[j - 1] = Backslash
        /\ R[j - 1] \in {"code", "string", "escape"} /\ R[j] = Reads(R[j - 1], s[j])
        /\ j - 1 # 0 /\ s[j - 1] = Backslash => R[j - 1] = "escape"
    BY <1>1, <1>2, <1>3, <1>5, <2>0
  <2>2. Toggles(s, j) <=> s[j] = Quote /\ R[j - 1] # "escape"
    <3>1. j - 1 \in DOMAIN s <=> j - 1 # 0
      BY <1>1
    <3> QED BY <2>1, <3>1 DEF Toggles, At, Backslash
  <2>3. B[j] <=> R[j] # "code"
    <3>1. CASE s[j] = Quote /\ R[j - 1] # "escape"
      <4>1. B[j] <=> ~B[j - 1]
        BY <1>1, <2>2, <3>1
      <4>2. R[j] # "code" <=> R[j - 1] = "code"
        BY <2>1, <3>1 DEF Reads
      <4> QED BY <2>1, <4>1, <4>2
    <3>2. CASE ~(s[j] = Quote /\ R[j - 1] # "escape")
      <4>1. B[j] <=> B[j - 1]
        BY <1>1, <2>2, <3>2
      <4>2. R[j] # "code" <=> R[j - 1] # "code"
        BY <2>1, <3>2 DEF Reads
      <4> QED BY <2>1, <4>1, <4>2
    <3> QED BY <3>1, <3>2
  <2>4. R[j] = "escape" => s[j] = Backslash
    BY <2>1 DEF Reads
  <2> QED BY <2>0, <2>3, <2>4
<1>6. 0 .. N \subseteq S
  <2> HIDE DEF S
  <2> QED BY <1>1, <1>4, <1>5, UpTo
<1>7. i \in S
  BY <1>6 DEF N
<1> QED BY <1>7 DEF B, R

\* Of a line that is no comment the scan has found nothing yet, or the words and
\* the member at each of them.
ScanInv ==
  /\ line \in Seq(Characters)
  /\ \/ positions = <<>> /\ members = <<>>
     \/ /\ positions = IdentifierPositions(line)
        /\ members = [n \in DOMAIN positions |-> MemberAt(line, positions[n])]

\* The line stays, and what is found is found in it: Scan.
THEOREM ScanInvHolds == Spec => []ScanInv
<1>1. Init => ScanInv
  <2>1. ASSUME NEW n \in Nat
        PROVE  BoundedSeq(Characters, n) \subseteq Seq(Characters)
    BY DEF BoundedSeq, SeqOf
  <2>2. <<>> \in Seq(Characters)
    OBVIOUS
  <2> QED BY <2>1, <2>2, TextAssumption DEF Init, ScanInv
<1>2. ASSUME ScanInv, [Next]_vars
      PROVE  ScanInv'
  <2>1. CASE Scan
    BY <1>2, <2>1 DEF Scan, ScanInv
  <2>2. CASE UNCHANGED text
    BY <1>2, <2>2 DEF text, ScanInv
  <2>3. [Next]_vars => Scan \/ UNCHANGED text
    BY DEF Next, Stamp, Lookup, vars
  <2> QED BY <1>2, <2>1, <2>2, <2>3
<1> QED BY <1>1, <1>2, PTL DEF Spec

\* Where every backslash of a line escapes something, the scan finds exactly the
\* words outside strings, in order (identifier_positions_in_line).
THEOREM FindsTheWordsHolds == Spec => FindsTheWords
<1>1. ASSUME ScanInv, Scan, ~LooksLikeComment(line),
             \A i \in DOMAIN line : line[i] = Backslash => Lexed(line)[i] = "escape"
      PROVE  /\ ToSet(positions') = WordsOf(line)
             /\ \A n \in 1 .. Len(positions') - 1 : positions'[n] < positions'[n + 1]
  <2>0. line \in Seq(Characters) /\ Len(line) \in Nat /\ DOMAIN line = 1 .. Len(line)
    BY <1>1 DEF ScanInv
  <2>1. positions' = IdentifierPositions(line)
    BY <1>1 DEF Scan
  <2>2. /\ positions' \in Seq(1 .. Len(line)) /\ Ascends(positions')
        /\ ToSet(positions') = Picked(line, Len(line))
    BY <1>1, <2>0, <2>1, PositionsArePicked
  <2>3. ASSUME NEW i \in DOMAIN line
        PROVE  i \in Picked(line, Len(line)) <=> i \in WordsOf(line)
    <3>0. i \in 1 .. Len(line) /\ i \in 0 .. Len(line) /\ i - 1 \in 0 .. Len(line)
      BY <2>0
    <3>1. StartsWord(line, i) <=> IsAlphabetic(line[i]) /\ (i > 1 => ~InWord(line[i - 1]))
      <4>1. i - 1 \in DOMAIN line <=> i > 1
        BY <2>0, <3>0
      <4>2. ~InWord("end")
        BY DEF InWord, IsAlphabetic, Letter, Accented, Digit
      <4> QED BY <4>1, <4>2 DEF StartsWord, At
    <3>2. IsAlphabetic(line[i]) => (InString(line)[i] <=> InString(line)[i - 1])
      <4>1. IsAlphabetic(line[i]) => ~Toggles(line, i)
        BY DEF IsAlphabetic, Toggles, Letter, Accented, Quote
      <4>2. ~Toggles(line, i) => (InString(line)[i] <=> InString(line)[i - 1])
        BY <2>0, <3>0, InStringSteps
      <4> QED BY <4>1, <4>2
    <3>3. InString(line)[i - 1] <=> Lexed(line)[i - 1] # "code"
      BY <1>1, <2>0, <3>0, ScanAgrees
    <3>4. i \in Picked(line, Len(line)) <=> ~InString(line)[i] /\ StartsWord(line, i)
      BY <3>0 DEF Picked
    <3>5. i \in WordsOf(line) <=>
            Lexed(line)[i - 1] = "code" /\ IsAlphabetic(line[i]) /\ (i > 1 => ~InWord(line[i - 1]))
      BY DEF WordsOf
    <3> QED BY <3>1, <3>2, <3>3, <3>4, <3>5
  <2>4. Picked(line, Len(line)) \subseteq DOMAIN line /\ WordsOf(line) \subseteq DOMAIN line
    BY <2>0 DEF Picked, WordsOf
  <2>5. ToSet(positions') = WordsOf(line)
    BY <2>2, <2>3, <2>4
  <2>6. ASSUME NEW n \in 1 .. Len(positions') - 1
        PROVE  positions'[n] < positions'[n + 1]
    <3>1. n \in DOMAIN positions' /\ n + 1 \in DOMAIN positions' /\ n < n + 1
      BY <2>2
    <3> QED BY <2>2, <3>1 DEF Ascends
  <2> QED BY <2>5, <2>6
<1> DEFINE Words ==
      Scan /\ ~LooksLikeComment(line)
        /\ (\A i \in DOMAIN line : line[i] = Backslash => Lexed(line)[i] = "escape")
      => /\ ToSet(positions') = WordsOf(line)
         /\ \A n \in 1 .. Len(positions') - 1 : positions'[n] < positions'[n + 1]
<1>2. ScanInv => Words
  BY <1>1
<1> QED BY <1>2, ScanInvHolds, PTL DEF Spec, FindsTheWords

\* Before a column there are as many units as characters, and one more for each
\* that takes two.
LEMMA UnitsAtLeast ==
  ASSUME NEW s, NEW i \in Nat \ {0}
  PROVE  /\ UnitsBefore(s, i) \in Nat /\ i - 1 <= UnitsBefore(s, i)
         /\ UnitsBefore(s, i) = i - 1 <=> \A k \in 1 .. i - 1 : s[k] # Emoji
<1> DEFINE E == {k \in 1 .. i - 1 : s[k] = Emoji}
<1>1. IsFiniteSet(1 .. i - 1)
  BY FS_Interval
<1>2. IsFiniteSet(E)
  BY <1>1, FS_Subset
<1>3. Cardinality(E) \in Nat /\ (Cardinality(E) = 0 <=> E = {})
  BY <1>2, FS_CardinalityType, FS_EmptySet
<1>4. E = {} <=> \A k \in 1 .. i - 1 : s[k] # Emoji
  OBVIOUS
<1>5. UnitsBefore(s, i) = i - 1 + Cardinality(E)
  BY DEF UnitsBefore, CountBefore
<1> HIDE DEF E
<1> QED BY <1>3, <1>4, <1>5

\* For each column there is a character the server looks at.
LEMMA SomethingLookedAt ==
  ASSUME NEW s \in Seq(Characters), NEW c \in 1 .. Len(s)
  PROVE  \E i \in 1 .. Len(s) + 1 :
           UnitsBefore(s, i) < c /\ (i <= Len(s) => c <= UnitsBefore(s, i + 1))
<1> DEFINE N == Len(s)
           W == {n \in 0 .. N : UnitsBefore(s, N + 1 - n) < c}
<1>1. N \in Nat /\ c \in 1 .. N
  OBVIOUS
<1> HIDE DEF N
<1>2. UnitsBefore(s, 1) = 0
  BY UnitsAtLeast
<1>3. N \in W
  <2>1. N + 1 - N = 1
    BY <1>1
  <2> QED BY <1>1, <1>2, <2>1
<1>4. W \subseteq Nat
  BY <1>1
<1>5. PICK n \in W : \A m \in W : n <= m
  BY <1>3, <1>4, LeastExists
<1> DEFINE i == N + 1 - n
<1>6. i \in 1 .. N + 1 /\ UnitsBefore(s, i) < c
  BY <1>1, <1>5
<1>7. ASSUME i <= N
      PROVE  c <= UnitsBefore(s, i + 1)
  <2>1. n - 1 \in 0 .. N /\ N + 1 - (n - 1) = i + 1
    BY <1>1, <1>5, <1>7
  <2>2. n - 1 \notin W
    BY <1>4, <1>5, <2>1
  <2>3. ~(UnitsBefore(s, i + 1) < c)
    BY <2>1, <2>2
  <2>4. UnitsBefore(s, i + 1) \in Nat
    BY <1>6, UnitsAtLeast
  <2> QED BY <1>1, <2>3, <2>4
<1> QED BY <1>6, <1>7 DEF N

\* The server looks at the character of a column as long as none before it takes
\* two units.
LEMMA LooksAtColumn ==
  ASSUME NEW s \in Seq(Characters), NEW c \in 1 .. Len(s)
  PROVE  LooksAt(s, c) = c <=> \A k \in 1 .. c - 1 : s[k] # Emoji
<1> DEFINE Seen(i) == UnitsBefore(s, i) < c /\ (i <= Len(s) => c <= UnitsBefore(s, i + 1))
<1>0. Len(s) \in Nat /\ c \in Nat \ {0} /\ c <= Len(s)
  OBVIOUS
<1>1. PICK x \in 1 .. Len(s) + 1 : Seen(x)
  BY SomethingLookedAt
<1>2. LooksAt(s, c) \in 1 .. Len(s) + 1 /\ Seen(LooksAt(s, c))
  <2>1. LooksAt(s, c) = CHOOSE i \in 1 .. Len(s) + 1 : Seen(i)
    BY DEF LooksAt
  <2> HIDE DEF Seen
  <2> QED BY <1>1, <2>1
<1>3. ASSUME LooksAt(s, c) = c
      PROVE  \A k \in 1 .. c - 1 : s[k] # Emoji
  <2>1. UnitsBefore(s, c) < c
    BY <1>2, <1>3
  <2>2. UnitsBefore(s, c) \in Nat /\ c - 1 <= UnitsBefore(s, c)
    BY <1>0, UnitsAtLeast
  <2>3. UnitsBefore(s, c) = c - 1
    BY <1>0, <2>1, <2>2
  <2> QED BY <1>0, <2>3, UnitsAtLeast
<1>4. ASSUME \A k \in 1 .. c - 1 : s[k] # Emoji, NEW i \in 1 .. Len(s) + 1, Seen(i)
      PROVE  i = c
  <2>0. i \in Nat \ {0} /\ i + 1 \in Nat \ {0}
    BY <1>0
  <2>1. i - 1 <= UnitsBefore(s, i) /\ UnitsBefore(s, i) < c /\ UnitsBefore(s, i) \in Nat
    BY <1>4, <2>0, UnitsAtLeast
  <2>2. i <= c
    BY <1>0, <2>0, <2>1
  <2>3. ASSUME i < c
        PROVE  FALSE
    <3>1. i <= Len(s)
      BY <1>0, <2>0, <2>3
    <3>2. c <= UnitsBefore(s, i + 1)
      BY <1>4, <3>1
    <3>3. \A k \in 1 .. (i + 1) - 1 : s[k] # Emoji
      BY <1>0, <1>4, <2>0, <2>3
    <3>4. UnitsBefore(s, i + 1) = (i + 1) - 1
      BY <2>0, <3>3, UnitsAtLeast
    <3> QED BY <1>0, <2>0, <2>3, <3>2, <3>4
  <2> QED BY <1>0, <2>0, <2>2, <2>3
<1> QED BY <1>2, <1>3, <1>4

\* Every column the scan reports is the beginning of a word, and the server looks
\* there unless a character of two units comes before it.
THEOREM WordsAreLookedAtHolds == Spec => WordsAreLookedAt
<1> DEFINE Looked ==
      Scan => \A c \in ToSet(positions') :
        /\ c \in DOMAIN line /\ StartsWord(line, c)
        /\ LooksAt(line, c) = c <=> \A k \in 1 .. c - 1 : line[k] # Emoji
<1>1. ScanInv => Looked
  <2> SUFFICES ASSUME ScanInv, Scan, NEW c \in ToSet(positions')
               PROVE  /\ c \in DOMAIN line /\ StartsWord(line, c)
                      /\ LooksAt(line, c) = c <=> \A k \in 1 .. c - 1 : line[k] # Emoji
    OBVIOUS
  <2>1. line \in Seq(Characters) /\ positions' = IdentifierPositions(line)
    BY DEF ScanInv, Scan
  <2>2. c \in Picked(line, Len(line))
    <3>1. ToSet(<<>>) = {}
      BY DEF ToSet
    <3> QED BY <2>1, <3>1, PositionsArePicked
  <2>3. c \in 1 .. Len(line) /\ StartsWord(line, c) /\ DOMAIN line = 1 .. Len(line)
    BY <2>1, <2>2 DEF Picked
  <2> QED BY <2>1, <2>3, LooksAtColumn
<1> QED BY <1>1, ScanInvHolds, PTL DEF Spec, WordsAreLookedAt

\* A word ends somewhere on its line.
LEMMA WordsEnd ==
  ASSUME NEW s \in Seq(Characters), NEW i \in DOMAIN s
  PROVE  /\ EndOfWord(s, i) \in i .. Len(s) + 1 /\ ~InWord(At(s, EndOfWord(s, i)))
         /\ \A k \in i .. EndOfWord(s, i) - 1 : InWord(s[k])
<1> DEFINE W == {e \in i .. Len(s) + 1 : ~InWord(At(s, e))}
           End(e) == ~InWord(At(s, e)) /\ \A k \in i .. e - 1 : InWord(s[k])
<1>0. Len(s) \in Nat /\ i \in 1 .. Len(s) /\ DOMAIN s = 1 .. Len(s)
  OBVIOUS
<1>1. Len(s) + 1 \in W
  <2>1. Len(s) + 1 \notin DOMAIN s
    BY <1>0
  <2>2. ~InWord("end")
    BY DEF InWord, IsAlphabetic, Letter, Accented, Digit
  <2> QED BY <1>0, <2>1, <2>2 DEF At
<1>2. W \subseteq Nat
  BY <1>0
<1>3. PICK e \in W : \A k \in W : e <= k
  BY <1>1, <1>2, LeastExists
<1>4. ASSUME NEW k \in i .. e - 1
      PROVE  InWord(s[k])
  <2>1. k \in i .. Len(s) + 1 /\ k \in DOMAIN s /\ ~(e <= k)
    BY <1>0, <1>3
  <2>2. InWord(At(s, k))
    BY <1>3, <2>1
  <2> QED BY <2>1, <2>2 DEF At
<1>5. e \in i .. Len(s) + 1 /\ End(e)
  BY <1>3, <1>4
<1>6. EndOfWord(s, i) = CHOOSE x \in i .. Len(s) + 1 : End(x)
  BY DEF EndOfWord
<1>7. EndOfWord(s, i) \in i .. Len(s) + 1 /\ End(EndOfWord(s, i))
  <2> HIDE DEF End
  <2> QED BY <1>5, <1>6
<1> QED BY <1>7

\* From a word of code to the member it opens there is no quote and no other
\* word.
LEMMA MemberIsPicked ==
  ASSUME NEW s \in Seq(Characters), NEW c \in Picked(s, Len(s)), MemberAt(s, c) # NoMember
  PROVE  /\ MemberAt(s, c) \in Picked(s, Len(s)) /\ c < MemberAt(s, c)
         /\ \A k \in Picked(s, Len(s)) : c < k => MemberAt(s, c) <= k
<1> DEFINE dot == EndOfWord(s, c)
           N == Len(s)
<1>0. N \in Nat /\ DOMAIN s = 1 .. N /\ c \in 1 .. N /\ c \in DOMAIN s
  BY DEF Picked
<1>1. dot \in c .. N + 1 /\ ~InWord(At(s, dot)) /\ \A k \in c .. dot - 1 : InWord(s[k])
  BY <1>0, WordsEnd
<1>2. MemberAt(s, c) = dot + 1 /\ At(s, dot) = Dot /\ IsAlphabetic(At(s, dot + 1))
  BY DEF MemberAt
<1>3. ~IsAlphabetic("end") /\ "end" # Dot
  BY DEF IsAlphabetic, Letter, Accented, Dot
<1> HIDE DEF dot, N
<1>4. dot \in 1 .. N /\ dot + 1 \in 1 .. N /\ s[dot] = Dot /\ IsAlphabetic(s[dot + 1])
  BY <1>0, <1>1, <1>2, <1>3 DEF At
<1>5. ~InWord(s[dot])
  BY <1>0, <1>1, <1>4 DEF At
<1>6. ASSUME NEW k \in c .. dot + 1
      PROVE  ~InString(s)[k]
  <2> DEFINE S == {j \in 0 .. dot + 1 - c : ~InString(s)[c + j]}
             M == dot + 1 - c
  <2>1. M \in Nat /\ 0 \in S
    <3>1. c + 0 = c
      BY <1>0
    <3> QED BY <1>0, <1>1, <1>4, <3>1 DEF Picked
  <2>2. ASSUME NEW j \in 1 .. M, j - 1 \in S
        PROVE  j \in S
    <3>1. c + j \in 1 .. N /\ (c + j) - 1 = c + (j - 1) /\ (c + j \in c .. dot - 1 \/ c + j = dot \/ c + j = dot + 1)
      BY <1>0, <1>1, <1>4
    <3>2. s[c + j] # Quote
      BY <1>1, <1>4, <3>1 DEF InWord, IsAlphabetic, Letter, Accented, Digit, Dot, Quote
    <3>3. ~Toggles(s, c + j)
      BY <3>2 DEF Toggles
    <3>4. ~InString(s)[c + (j - 1)]
      BY <2>2
    <3>5. InString(s)[c + j] = InString(s)[(c + j) - 1]
      BY <3>1, <3>3, InStringSteps DEF N
    <3> QED BY <3>1, <3>4, <3>5
  <2>3. 0 .. M \subseteq S
    <3> HIDE DEF S, M
    <3> QED BY <2>1, <2>2, UpTo
  <2>4. k - c \in 0 .. M /\ c + (k - c) = k
    BY <1>0, <1>1, <1>4
  <2> QED BY <2>3, <2>4
<1>7. dot + 1 \in Picked(s, N)
  <2>1. (dot + 1) - 1 = dot /\ dot + 1 \in c .. dot + 1 /\ dot \in DOMAIN s
    BY <1>0, <1>1, <1>4
  <2>2. StartsWord(s, dot + 1)
    BY <1>4, <1>5, <2>1 DEF StartsWord, At
  <2> QED BY <1>4, <1>6, <2>1, <2>2 DEF Picked
<1>8. ASSUME NEW k \in Picked(s, N), c < k
      PROVE  dot + 1 <= k
  <2>0. k \in 1 .. N /\ StartsWord(s, k)
    BY DEF Picked
  <2>1. ASSUME k <= dot
        PROVE  FALSE
    <3>1. CASE k = dot
      BY <1>4, <2>0, <3>1 DEF StartsWord, IsAlphabetic, Letter, Accented, Dot
    <3>2. CASE k < dot
      <4>1. k - 1 \in c .. dot - 1 /\ k - 1 \in DOMAIN s
        BY <1>0, <1>1, <1>4, <1>8, <2>0, <3>2
      <4> QED BY <1>1, <2>0, <4>1 DEF StartsWord, At
    <3> QED BY <1>1, <1>4, <2>0, <2>1, <3>1, <3>2
  <2> QED BY <1>4, <2>0, <2>1
<1> QED BY <1>0, <1>1, <1>2, <1>7, <1>8 DEF N

\* The member an expression opens is the next word the scan reports
\* (member_expression_at).
THEOREM MemberIsNextHolds == Spec => []MemberIsNext
<1>1. ScanInv => MemberIsNext
  <2> SUFFICES ASSUME ScanInv, NEW n \in DOMAIN members, members[n] # NoMember
               PROVE  n < Len(positions) /\ positions[n + 1] = members[n]
    BY DEF MemberIsNext
  <2> DEFINE P == positions
             N == Len(line)
             c == P[n]
             m == members[n]
  <2>0. /\ line \in Seq(Characters) /\ P = IdentifierPositions(line)
        /\ DOMAIN members = DOMAIN P /\ m = MemberAt(line, c) /\ n \in DOMAIN P
    BY DEF ScanInv
  <2>1. P \in Seq(1 .. N) /\ Ascends(P) /\ DOMAIN P = 1 .. Len(P) /\ Len(P) \in Nat /\ n \in 1 .. Len(P)
    BY <2>0, PositionsArePicked
  <2>2. ToSet(P) = Picked(line, N)
    BY <2>0, <2>1, PositionsArePicked
  <2>3. c \in ToSet(P)
    BY <2>0 DEF ToSet
  <2>4. m \in Picked(line, N) /\ c < m /\ \A k \in Picked(line, N) : c < k => m <= k
    BY <2>0, <2>2, <2>3, MemberIsPicked
  <2>5. PICK j \in DOMAIN P : P[j] = m
    BY <2>2, <2>4 DEF ToSet
  <2>6. \A i \in DOMAIN P : P[i] \in Nat
    BY <2>1
  <2> HIDE DEF m, P, N
  <2>7. n < j
    <3>1. ASSUME j <= n
          PROVE  FALSE
      <4>1. j = n \/ j < n
        BY <2>1, <2>5, <3>1
      <4>2. P[j] <= P[n]
        BY <2>0, <2>1, <2>5, <2>6, <4>1 DEF Ascends
      <4> QED BY <2>0, <2>4, <2>5, <2>6, <4>2
    <3> QED BY <2>1, <2>5, <3>1
  <2>8. n < Len(P) /\ n + 1 \in DOMAIN P
    BY <2>1, <2>5, <2>7
  <2>9. P[n] < P[n + 1]
    BY <2>0, <2>1, <2>8 DEF Ascends
  <2>10. m <= P[n + 1]
    BY <2>2, <2>4, <2>8, <2>9 DEF ToSet
  <2>11. j = n + 1 \/ n + 1 < j
    BY <2>1, <2>5, <2>7
  <2>12. P[n + 1] <= m
    BY <2>1, <2>5, <2>6, <2>8, <2>11 DEF Ascends
  <2>13. P[n + 1] = m
    BY <2>5, <2>6, <2>8, <2>10, <2>12
  <2> QED BY <2>8, <2>13 DEF m, P
<1> QED BY <1>1, ScanInvHolds, PTL

-----------------------------------------------------------------------------
(* The index. *)

\* Of entities that hold a line one is before the others: the shortest, of
\* these the last to begin, of these the first listed.
LEMMA InnermostExists ==
  ASSUME NEW idx, idx.entities \in Seq(Entities), NEW l \in 0 .. LastLine,
         NEW S \in SUBSET DOMAIN idx.entities, S # {},
         \A i \in S : Holds(idx.entities[i], l)
  PROVE  \E i \in S : \A j \in S : Before(idx, i, j)
<1> DEFINE es == idx.entities
           len(i) == es[i].end - es[i].start
           ago(i) == l - es[i].start
<1>1. \A i \in S : /\ i \in Nat /\ es[i].start \in Nat /\ es[i].end \in Nat
                   /\ len(i) \in Nat /\ ago(i) \in Nat
  <2> SUFFICES ASSUME NEW i \in S
               PROVE  /\ i \in Nat /\ es[i].start \in Nat /\ es[i].end \in Nat
                      /\ len(i) \in Nat /\ ago(i) \in Nat
    OBVIOUS
  <2>1. i \in Nat /\ es[i] \in Entities
    OBVIOUS
  <2>2. es[i].start \in 0 .. LastLine /\ es[i].end \in 0 .. LastLine /\ es[i].start <= es[i].end
    BY <2>1 DEF Entities
  <2>3. es[i].start <= l
    BY DEF Holds
  <2> QED BY <2>1, <2>2, <2>3, IndexAssumption
<1>a. l \in Nat
  BY IndexAssumption
<1> HIDE DEF es
<1>2. PICK a \in S : \A j \in S : len(a) <= len(j)
  <2>1. {len(i) : i \in S} \subseteq Nat /\ {len(i) : i \in S} # {}
    BY <1>1
  <2>2. PICK x \in {len(i) : i \in S} : \A y \in {len(i) : i \in S} : x <= y
    BY <2>1, LeastExists
  <2> QED BY <2>2
<1>3. PICK b \in S : len(b) = len(a) /\ \A j \in S : len(j) = len(a) => ago(b) <= ago(j)
  <2> DEFINE T == {i \in S : len(i) = len(a)}
  <2>1. {ago(i) : i \in T} \subseteq Nat /\ {ago(i) : i \in T} # {}
    BY <1>1
  <2>2. PICK x \in {ago(i) : i \in T} : \A y \in {ago(i) : i \in T} : x <= y
    BY <2>1, LeastExists
  <2> QED BY <2>2
<1>4. PICK c \in S : /\ len(c) = len(a) /\ ago(c) = ago(b)
                     /\ \A j \in S : len(j) = len(a) /\ ago(j) = ago(b) => c <= j
  <2> DEFINE T == {i \in S : len(i) = len(a) /\ ago(i) = ago(b)}
  <2>1. T \subseteq Nat /\ T # {}
    BY <1>1, <1>3
  <2>2. PICK x \in T : \A y \in T : x <= y
    BY <2>1, LeastExists
  <2> QED BY <2>2
<1>5. ASSUME NEW j \in S
      PROVE  Before(idx, c, j)
  <2>1. len(c) <= len(j) /\ (len(j) = len(c) => ago(c) <= ago(j))
    BY <1>2, <1>3, <1>4
  <2>2. len(j) = len(c) /\ ago(j) = ago(c) => c <= j
    BY <1>4
  <2>3. len(c) \in Nat /\ len(j) \in Nat /\ ago(c) \in Nat /\ ago(j) \in Nat
    BY <1>1
  <2>4. len(j) = len(c) => es[c].start > es[j].start \/ (es[c].start = es[j].start /\ c <= j)
    <3> DEFINE p == es[c].start
               q == es[j].start
    <3>1. p \in Nat /\ q \in Nat
      BY <1>1
    <3>2. len(j) = len(c) => l - p <= l - q /\ (l - q = l - p => c <= j)
      BY <2>1, <2>2
    <3> HIDE DEF p, q
    <3>3. l - p <= l - q => p > q \/ p = q
      BY ONLY <1>a, <3>1
    <3>4. p = q => l - q = l - p
      OBVIOUS
    <3>5. len(j) = len(c) => p > q \/ (p = q /\ c <= j)
      BY ONLY <3>2, <3>3, <3>4
    <3> QED BY <3>5 DEF p, q
  <2>5. len(c) < len(j) \/ len(c) = len(j)
    BY <2>1, <2>3
  <2> QED BY <2>4, <2>5 DEF Before, es
<1> QED BY <1>5

\* What is found is the first of those whose span holds the line in the file the
\* path stands for; nothing is found if there is none.
LEMMA FindAtFinds ==
  ASSUME NEW idx, idx.entities \in Seq(Entities), NEW path, NEW l \in 0 .. LastLine,
         NEW here, here = {i \in EntitiesInFile(idx, path) : Holds(idx.entities[i], l)}
  PROVE  IF here = {} THEN FindAt(idx, path, l) = NoEntity
         ELSE FindAt(idx, path, l) \in here /\ \A j \in here : Before(idx, FindAt(idx, path, l), j)
<1>1. CASE here = {}
  BY <1>1 DEF FindAt
<1>2. CASE here # {}
  <2>1. here \in SUBSET DOMAIN idx.entities /\ \A i \in here : Holds(idx.entities[i], l)
    BY DEF EntitiesInFile
  <2>2. \E i \in here : \A j \in here : Before(idx, i, j)
    BY <1>2, <2>1, InnermostExists
  <2>3. FindAt(idx, path, l) = CHOOSE i \in here : \A j \in here : Before(idx, i, j)
    BY <1>2 DEF FindAt
  <2> QED BY <1>2, <2>2, <2>3
<1> QED BY <1>1, <1>2

\* Nothing was looked up yet, or the answer is what the index finds.
LookupInv ==
  /\ index.entities \in Seq(Entities) /\ index.order \in Enumerations(FilesOf(index.entities))
  /\ \/ asked.path = NoPath /\ answer = NoEntity
     \/ asked.line \in 0 .. LastLine /\ answer = FindAt(index, asked.path, asked.line)

\* An answer is one of this index, to the question asked last: Lookup.
THEOREM LookupInvHolds == Spec => []LookupInv
<1>1. Init => LookupInv
  <2> SUFFICES ASSUME Init
               PROVE  index.entities \in Seq(Entities) /\ index.order \in Enumerations(FilesOf(index.entities))
    BY DEF Init, LookupInv
  <2>1. <<>> \in Seq(Entities)
    OBVIOUS
  <2>2. ASSUME NEW n \in 1 .. MaxEntities, NEW es \in [1 .. n -> Entities]
        PROVE  es \in Seq(Entities)
    BY IndexAssumption
  <2>3. CASE index = [entities |-> <<>>, order |-> <<>>]
    <3>1. FilesOf(<<>>) = {} /\ Cardinality({}) = 0
      BY FS_EmptySet DEF FilesOf
    <3>2. <<>> \in [1 .. 0 -> {}] /\ ToSet(<<>>) = {}
      BY DEF ToSet
    <3> QED BY <2>1, <2>3, <3>1, <3>2 DEF Enumerations
  <2>4. CASE \E n \in 1 .. MaxEntities : \E es \in [1 .. n -> Entities] :
               \E order \in Enumerations(FilesOf(es)) : index = [entities |-> es, order |-> order]
    <3>1. PICK n \in 1 .. MaxEntities :
            \E es \in [1 .. n -> Entities] : index.entities = es /\ index.order \in Enumerations(FilesOf(es))
      BY <2>4
    <3> QED BY <2>2, <3>1
  <2> QED BY <2>3, <2>4 DEF Init
<1>2. ASSUME LookupInv, [Next]_vars
      PROVE  LookupInv'
  <2>1. ASSUME NEW path \in Paths, NEW l \in 0 .. LastLine, Lookup(path, l)
        PROVE  LookupInv'
    BY <1>2, <2>1 DEF Lookup, LookupInv
  <2>2. CASE UNCHANGED lookup
    BY <1>2, <2>2 DEF lookup, LookupInv
  <2>3. [Next]_vars => UNCHANGED lookup \/ \E path \in Paths, l \in 0 .. LastLine : Lookup(path, l)
    BY DEF Next, Scan, Stamp, vars
  <2> QED BY <1>2, <2>1, <2>2, <2>3
<1> QED BY <1>1, <1>2, PTL DEF Spec

\* An answer is an entity that holds the line, and no entity properly inside it
\* does (EntityIndex::find_at).
THEOREM InnermostWinsHolds == Spec => []InnermostWins
<1>1. LookupInv => InnermostWins
  <2> SUFFICES ASSUME LookupInv, answer # NoEntity
               PROVE  /\ Holds(Entity(answer), asked.line)
                      /\ \A i \in DOMAIN index.entities :
                           Holds(Entity(i), asked.line) => ~Inside(i, answer)
    BY DEF InnermostWins
  <2> DEFINE here == {i \in EntitiesInFile(index, asked.path) : Holds(index.entities[i], asked.line)}
  <2>1. index.entities \in Seq(Entities) /\ asked.line \in 0 .. LastLine /\ answer = FindAt(index, asked.path, asked.line)
    BY DEF LookupInv
  <2>2. answer \in here /\ \A j \in here : Before(index, answer, j)
    BY <2>1, FindAtFinds
  <2>3. answer \in DOMAIN index.entities /\ Holds(Entity(answer), asked.line)
    BY <2>2 DEF EntitiesInFile, Entity
  <2>4. ASSUME NEW i \in DOMAIN index.entities, Holds(Entity(i), asked.line), Inside(i, answer)
        PROVE  FALSE
    <3>1. Entity(i).file = Entity(answer).file
      BY <2>4 DEF Inside
    <3>2. i \in here
      BY <2>2, <2>4, <3>1 DEF EntitiesInFile, Entity
    <3>3. Before(index, answer, i)
      BY <2>2, <3>2
    <3>4. Entity(i) \in Entities /\ Entity(answer) \in Entities
      BY <2>1, <2>3 DEF Entity
    <3>5. /\ Entity(i).start \in 0 .. LastLine /\ Entity(i).end \in 0 .. LastLine
          /\ Entity(answer).start \in 0 .. LastLine /\ Entity(answer).end \in 0 .. LastLine
      BY <3>4 DEF Entities
    <3>6. Entity(answer).end - Entity(answer).start <= Entity(i).end - Entity(i).start
      BY <3>3, <3>5, IndexAssumption DEF Before, Entity
    <3>7. Entity(i).end - Entity(i).start < Entity(answer).end - Entity(answer).start
      BY <2>4 DEF Inside
    <3> QED BY <3>5, <3>6, <3>7, IndexAssumption
  <2> QED BY <2>3, <2>4
<1> QED BY <1>1, LookupInvHolds, PTL

\* A list of entities is of finitely many files.
LEMMA FilesAreFinite ==
  ASSUME NEW es, Len(es) \in Nat, DOMAIN es = 1 .. Len(es)
  PROVE  IsFiniteSet(FilesOf(es))
<1>1. IsFiniteSet(1 .. Len(es))
  BY FS_Interval
<1> DEFINE F == [i \in 1 .. Len(es) |-> es[i].file]
<1>2. F \in Surjection(1 .. Len(es), FilesOf(es))
  BY DEF FilesOf, Surjection
<1> HIDE DEF F
<1> QED BY <1>1, <1>2, FS_Surjection

\* Of some keys of a map one is the first it enumerates.
LEMMA FirstOfIsIn ==
  ASSUME NEW keys, IsFiniteSet(keys), NEW order \in Enumerations(keys), NEW S \in SUBSET keys, S # {}
  PROVE  FirstOf(order, S) \in S
<1> DEFINE D == {n \in DOMAIN order : order[n] \in S}
<1>0. Cardinality(keys) \in Nat
  BY FS_CardinalityType
<1>1. DOMAIN order = 1 .. Cardinality(keys) /\ \A k \in keys : \E n \in DOMAIN order : order[n] = k
  BY DEF Enumerations, ToSet
<1>2. D \subseteq Nat /\ D # {}
  BY <1>1
<1>3. PICK n \in D : \A m \in D : n <= m
  BY <1>2, LeastExists
<1>4. \A m \in 1 .. n - 1 : order[m] \notin S
  <2> SUFFICES ASSUME NEW m \in 1 .. n - 1, order[m] \in S PROVE FALSE
    OBVIOUS
  <2>1. m \in 1 .. Cardinality(keys) /\ m < n
    BY <1>0, <1>1, <1>2, <1>3
  <2> QED BY <1>1, <1>3, <2>1
<1>5. n \in DOMAIN order /\ order[n] \in S
  BY <1>3
<1> HIDE DEF D
<1> QED BY <1>4, <1>5 DEF FirstOf

\* The file a path stands for: the one of that name, or a look-alike, or none.
LEMMA FileForIs ==
  ASSUME NEW idx, idx.entities \in Seq(Entities), idx.order \in Enumerations(FilesOf(idx.entities)),
         NEW path
  PROVE  IF path \in FilesOf(idx.entities) THEN FileFor(idx, path) = path
         ELSE IF LookAlikes(idx, path) # {} THEN FileFor(idx, path) \in LookAlikes(idx, path)
         ELSE FileFor(idx, path) = NoPath
<1>1. LookAlikes(idx, path) \in SUBSET FilesOf(idx.entities)
  BY DEF LookAlikes
<1>2. IsFiniteSet(FilesOf(idx.entities))
  BY FilesAreFinite
<1> QED BY <1>1, <1>2, FirstOfIsIn DEF FileFor

\* A name ends in itself.
LEMMA EndsWithItself ==
  ASSUME NEW f, Len(f) \in Nat
  PROVE  EndsWith(f, f)
<1>1. Len(Reverse(f)) = Len(f)
  BY DEF Reverse
<1> QED BY <1>1 DEF EndsWith, IsSuffix, IsPrefix

\* A file of the workspace that no second indexed name looks like is found by its
\* path, in whatever order the map enumerates, and any other file only by the whole
\* of the shorter name (EntityIndex::entries_for_path).
THEOREM FilesAreToldApartHolds == Spec => []FilesAreToldApart
<1>1. LookupInv => FilesAreToldApart
  <2> SUFFICES ASSUME LookupInv
               PROVE  FilesAreToldApart
    OBVIOUS
  <2> DEFINE here == {i \in EntitiesInFile(index, asked.path) : Holds(index.entities[i], asked.line)}
  <2>0. index.entities \in Seq(Entities) /\ DOMAIN index.entities \subseteq Nat \ {0}
    BY DEF LookupInv
  <2>1. ASSUME NEW f \in FilesOf(index.entities)
        PROVE  f # NoPath /\ Root \o f # NoPath /\ EndsWith(f, f)
    <3>1. PICK i \in DOMAIN index.entities : f = index.entities[i].file
      BY DEF FilesOf
    <3>2. index.entities[i] \in Entities
      BY <2>0
    <3>3. f \in Files
      BY <3>1, <3>2 DEF Entities
    <3> QED BY <3>3, EndsWithItself, IndexAssumption
  <2>2. answer # NoEntity => answer \in here
    <3> SUFFICES ASSUME answer # NoEntity PROVE answer \in here
      OBVIOUS
    <3>1. asked.line \in 0 .. LastLine /\ answer = FindAt(index, asked.path, asked.line)
      BY DEF LookupInv
    <3> QED BY <2>0, <3>1, FindAtFinds
  <2>3. ASSUME answer # NoEntity
        PROVE  Entity(answer).file \in LookAlikes(index, asked.path)
    <3>1. /\ Entity(answer).file = FileFor(index, asked.path)
          /\ Entity(answer).file \in FilesOf(index.entities)
      BY <2>2, <2>3 DEF EntitiesInFile, Entity, FilesOf
    <3>2. CASE asked.path \in FilesOf(index.entities)
      BY <2>1, <3>1, <3>2 DEF FileFor, LookAlikes
    <3>3. CASE asked.path \notin FilesOf(index.entities)
      BY <2>1, <3>1, <3>3, FileForIs DEF LookupInv
    <3> QED BY <3>2, <3>3
  <2>4. ASSUME NEW f \in FilesOf(index.entities),
               asked.path = f \/ (asked.path = Root \o f /\ LookAlikes(index, Root \o f) = {f})
        PROVE  IF \E i \in DOMAIN index.entities : Entity(i).file = f /\ Holds(Entity(i), asked.line)
               THEN answer # NoEntity /\ Entity(answer).file = f
               ELSE answer = NoEntity
    <3>1. FileFor(index, asked.path) = f
      <4>1. CASE asked.path \in FilesOf(index.entities)
        <5>1. asked.path \in LookAlikes(index, asked.path)
          BY <2>1, <4>1 DEF LookAlikes
        <5> QED BY <2>4, <4>1, <5>1 DEF FileFor
      <4>2. CASE asked.path \notin FilesOf(index.entities)
        BY <2>4, <4>2, FileForIs DEF LookupInv
      <4> QED BY <4>1, <4>2
    <3>2. asked.path # NoPath => here = {i \in DOMAIN index.entities : Entity(i).file = f /\ Holds(Entity(i), asked.line)}
      BY <3>1 DEF EntitiesInFile, Entity
    <3>3. answer # NoEntity => here # {} /\ Entity(answer).file = f
      BY <2>2, <3>1 DEF EntitiesInFile, Entity
    <3>4. asked.path # NoPath
      BY <2>1, <2>4
    <3>5. ASSUME NEW i \in DOMAIN index.entities, Entity(i).file = f, Holds(Entity(i), asked.line)
          PROVE  answer # NoEntity
      <4>1. asked.line \in 0 .. LastLine /\ answer = FindAt(index, asked.path, asked.line)
        BY <3>4 DEF LookupInv
      <4>2. here # {}
        BY <3>2, <3>4, <3>5
      <4>3. answer \in here
        BY <2>0, <4>1, <4>2, FindAtFinds
      <4> QED BY <2>0, <4>3 DEF EntitiesInFile, NoEntity
    <3> QED BY <2>2, <3>2, <3>3, <3>4, <3>5 DEF EntitiesInFile, Entity
  <2> QED BY <2>3, <2>4 DEF FilesAreToldApart
<1> QED BY <1>1, LookupInvHolds, PTL

-----------------------------------------------------------------------------
(* Evidence. *)

\* From any place of a sequence there is a next one that holds a piece, or the
\* end, and only one.
LEMMA NextPlaceIs ==
  ASSUME NEW s \in Seq(Pieces), NEW i \in 0 .. Len(s), NEW c
  PROVE  /\ NextPlace(c, s, i) \in i + 1 .. Len(s) + 1
         /\ \A e \in i + 1 .. Len(s) + 1 :
              (e \in DOMAIN s => s[e] = c) /\ (\A k \in i + 1 .. e - 1 : s[k] # c) => NextPlace(c, s, i) = e
<1> DEFINE N == Len(s)
           Good(e) == (e \in DOMAIN s => s[e] = c) /\ (\A k \in i + 1 .. e - 1 : s[k] # c)
           W == {e \in i + 1 .. N + 1 : e \in DOMAIN s => s[e] = c}
<1>0. N \in Nat /\ DOMAIN s = 1 .. N /\ i \in 0 .. N
  OBVIOUS
<1> HIDE DEF N
<1>1. N + 1 \in W /\ W \subseteq Nat
  BY <1>0
<1>2. PICK x \in W : \A y \in W : x <= y
  BY <1>1, LeastExists
<1>3. x \in i + 1 .. N + 1 /\ Good(x)
  <2>1. ASSUME NEW k \in i + 1 .. x - 1
        PROVE  s[k] # c
    BY <1>0, <1>2
  <2> QED BY <1>2, <2>1
<1>4. NextPlace(c, s, i) = CHOOSE e \in i + 1 .. N + 1 : Good(e)
  BY DEF NextPlace, N
<1>5. NextPlace(c, s, i) \in i + 1 .. N + 1 /\ Good(NextPlace(c, s, i))
  <2> HIDE DEF Good
  <2> QED BY <1>3, <1>4
<1>6. ASSUME NEW d \in i + 1 .. N + 1, Good(d), NEW e \in i + 1 .. N + 1, Good(e)
      PROVE  ~(d < e)
  <2> SUFFICES ASSUME d < e
               PROVE  FALSE
    OBVIOUS
  <2>1. d \in DOMAIN s /\ d \in i + 1 .. e - 1
    BY <1>0
  <2>2. s[d] = c
    BY <1>6, <2>1
  <2> QED BY <1>6, <2>1, <2>2
<1>7. ASSUME NEW e \in i + 1 .. N + 1, Good(e)
      PROVE  NextPlace(c, s, i) = e
  <2> DEFINE d == NextPlace(c, s, i)
  <2>1. ~(d < e) /\ ~(e < d)
    <3> HIDE DEF Good
    <3> QED BY <1>5, <1>6, <1>7
  <2>2. d \in Int /\ e \in Int
    BY <1>0, <1>5
  <2> HIDE DEF d
  <2>3. d = e
    BY ONLY <2>1, <2>2
  <2> QED BY <2>3 DEF d
<1> QED BY <1>5, <1>7 DEF N

\* What is joined to a sequence follows it.
LEMMA Joined ==
  ASSUME NEW q \in Seq(Pieces), NEW r \in Seq(Pieces)
  PROVE  /\ q \o r \in Seq(Pieces) /\ Len(q \o r) = Len(q) + Len(r)
         /\ \A k \in 1 .. Len(q) : (q \o r)[k] = q[k]
         /\ \A k \in 1 .. Len(r) : (q \o r)[k + Len(q)] = r[k]
<1> DEFINE m == Len(q)
           n == Len(r)
<1>1. m \in Nat /\ n \in Nat
  OBVIOUS
<1>2. q \o r \in Seq(Pieces) /\ Len(q \o r) = m + n
  BY ConcatProperties
<1>3. \A k \in 1 .. m + n : (q \o r)[k] = IF k <= m THEN q[k] ELSE r[k - m]
  BY ConcatProperties
<1>4. ASSUME NEW k \in 1 .. n
      PROVE  (q \o r)[k + m] = r[k]
  <2>1. k + m \in 1 .. m + n /\ ~(k + m <= m) /\ (k + m) - m = k
    BY <1>1
  <2> QED BY <1>3, <2>1
<1>5. ASSUME NEW k \in 1 .. m
      PROVE  (q \o r)[k] = q[k]
  <2>1. k \in 1 .. m + n /\ k <= m
    BY <1>1
  <2> QED BY <1>3, <2>1
<1> QED BY <1>2, <1>4, <1>5

\* Where the pieces of a stamp's rule are.
LEMMA RuleLayout ==
  ASSUME NEW p \in Provenances, NEW n, n = Len(p.provider)
  PROVE  /\ n \in Nat /\ Rule(p) \in Seq(Pieces) /\ Len(Rule(p)) = n + 8
         /\ Rule(p)[1] = Tag /\ Rule(p)[2] = Semicolon /\ Rule(p)[3] = "provider" /\ Rule(p)[4] = Equals
         /\ \A k \in 1 .. n : Rule(p)[k + 4] = p.provider[k]
         /\ Rule(p)[n + 5] = Semicolon /\ Rule(p)[n + 6] = "capability"
         /\ Rule(p)[n + 7] = Equals /\ Rule(p)[n + 8] = p.capability
<1> DEFINE a == <<Tag, Semicolon, "provider", Equals>>
           q == p.provider
           b == <<Semicolon, "capability", Equals, p.capability>>
<1>1. p.capability \in Slugs /\ q \in Seq(Pieces) /\ n \in Nat /\ n = Len(q)
  BY DEF Provenances
<1>2. a \in Seq(Pieces) /\ Len(a) = 4 /\ a[1] = Tag /\ a[2] = Semicolon /\ a[3] = "provider" /\ a[4] = Equals
  BY DEF Pieces
<1>3. /\ b \in Seq(Pieces) /\ Len(b) = 4 /\ b[1] = Semicolon /\ b[2] = "capability" /\ b[3] = Equals
      /\ b[4] = p.capability
  BY <1>1 DEF Pieces
<1>4. Rule(p) = (a \o q) \o b
  BY DEF Rule
<1> HIDE DEF a, b, q
<1> DEFINE aq == a \o q
<1>5. /\ aq \in Seq(Pieces) /\ Len(aq) = n + 4 /\ \A k \in 1 .. 4 : aq[k] = a[k]
      /\ \A k \in 1 .. n : aq[k + 4] = q[k]
  <2>1. 4 + n = n + 4
    BY <1>1
  <2>2. /\ aq \in Seq(Pieces) /\ Len(aq) = Len(a) + Len(q) /\ \A k \in 1 .. Len(a) : aq[k] = a[k]
        /\ \A k \in 1 .. Len(q) : aq[k + Len(a)] = q[k]
    BY <1>1, <1>2, Joined
  <2> HIDE DEF aq
  <2> QED BY <1>1, <1>2, <2>1, <2>2
<1> HIDE DEF aq
<1>6. /\ aq \o b \in Seq(Pieces) /\ Len(aq \o b) = n + 8 /\ \A k \in 1 .. n + 4 : (aq \o b)[k] = aq[k]
      /\ \A k \in 1 .. 4 : (aq \o b)[k + (n + 4)] = b[k]
  <2>1. (n + 4) + 4 = n + 8
    BY <1>1
  <2>2. /\ aq \o b \in Seq(Pieces) /\ Len(aq \o b) = Len(aq) + Len(b)
        /\ \A k \in 1 .. Len(aq) : (aq \o b)[k] = aq[k]
        /\ \A k \in 1 .. Len(b) : (aq \o b)[k + Len(aq)] = b[k]
    BY <1>3, <1>5, Joined
  <2> QED BY <1>3, <1>5, <2>1, <2>2
<1>7. Rule(p) = aq \o b
  BY <1>4 DEF aq
<1> DEFINE r == Rule(p)
<1>8. r \in Seq(Pieces) /\ Len(r) = n + 8
  BY <1>6, <1>7
<1>9. \A k \in 1 .. 4 : r[k] = a[k]
  BY <1>1, <1>5, <1>6, <1>7
<1>10. \A k \in 1 .. n : r[k + 4] = q[k]
  BY <1>1, <1>5, <1>6, <1>7
<1>11. \A k \in 1 .. 4 : r[k + (n + 4)] = b[k]
  BY <1>6, <1>7
<1>12. 1 + (n + 4) = n + 5 /\ 2 + (n + 4) = n + 6 /\ 3 + (n + 4) = n + 7 /\ 4 + (n + 4) = n + 8
  BY <1>1
<1> HIDE DEF r
<1>13. r[n + 5] = b[1] /\ r[n + 6] = b[2] /\ r[n + 7] = b[3] /\ r[n + 8] = b[4]
  BY <1>11, <1>12
<1>14. r[1] = Tag /\ r[2] = Semicolon /\ r[3] = "provider" /\ r[4] = Equals
  <2>1. 1 \in 1 .. 4 /\ 2 \in 1 .. 4 /\ 3 \in 1 .. 4 /\ 4 \in 1 .. 4
    OBVIOUS
  <2> QED BY <1>2, <1>9, <2>1
<1>15. \A k \in 1 .. n : r[k + 4] = p.provider[k]
  BY <1>10 DEF q
<1>16. r[n + 5] = Semicolon /\ r[n + 6] = "capability" /\ r[n + 7] = Equals /\ r[n + 8] = p.capability
  BY <1>3, <1>13
<1>17. n \in Nat
  BY <1>1
<1> QED BY <1>8, <1>14, <1>15, <1>16, <1>17 DEF r

\* What a part of a sequence consists of.
LEMMA PartOf ==
  ASSUME NEW s \in Seq(Pieces), NEW i \in 1 .. Len(s) + 1, NEW j \in 0 .. Len(s), i <= j + 1
  PROVE  /\ SubSeq(s, i, j) \in Seq(Pieces) /\ Len(SubSeq(s, i, j)) = j - i + 1
         /\ \A k \in 1 .. j - i + 1 : SubSeq(s, i, j)[k] = s[i + k - 1]
<1>0. i \in Int /\ j \in Int /\ Len(s) \in Nat
  OBVIOUS
<1>1. \A k \in i .. j : s[k] \in Pieces
  BY <1>0
<1>2. /\ SubSeq(s, i, j) \in Seq(Pieces) /\ Len(SubSeq(s, i, j)) = IF i <= j THEN j - i + 1 ELSE 0
      /\ \A k \in 1 .. j - i + 1 : SubSeq(s, i, j)[k] = s[i + k - 1]
  BY <1>0, <1>1, SubSeqProperties
<1>3. j - i + 1 = IF i <= j THEN j - i + 1 ELSE 0
  BY <1>0
<1> QED BY <1>2, <1>3

\* A part of a key, an equals sign and a value is read as these two.
LEMMA KeyAndValueIs ==
  ASSUME NEW part \in Seq(Pieces), NEW key, key # Equals, NEW value \in Seq(Pieces),
         Len(part) = Len(value) + 2, part[1] = key, part[2] = Equals,
         \A k \in 1 .. Len(value) : part[k + 2] = value[k]
  PROVE  /\ Contains(part, Equals)
         /\ KeyAndValue(part).key = <<key>> /\ KeyAndValue(part).value = value
<1>0. Len(value) \in Nat /\ DOMAIN part = 1 .. Len(part) /\ 2 \in 1 .. Len(part)
  OBVIOUS
<1>1. NextPlace(Equals, part, 0) = 2
  <2>1. 2 \in 0 + 1 .. Len(part) + 1 /\ 0 \in 0 .. Len(part)
    BY <1>0
  <2>2. \A k \in 0 + 1 .. 2 - 1 : part[k] # Equals
    OBVIOUS
  <2> QED BY <2>1, <2>2, NextPlaceIs
<1>2. SubSeq(part, 1, 2 - 1) = <<key>>
  <2> DEFINE a == SubSeq(part, 1, 1)
  <2>1. 1 \in 1 .. Len(part) + 1 /\ 1 \in 0 .. Len(part)
    BY <1>0
  <2>2. a \in Seq(Pieces) /\ Len(a) = 1 - 1 + 1 /\ \A k \in 1 .. 1 - 1 + 1 : a[k] = part[1 + k - 1]
    BY <2>1, PartOf
  <2> HIDE DEF a
  <2>3. Len(a) = 1 /\ a[1] = key
    BY <2>2
  <2>4. a = <<key>>
    BY <2>2, <2>3
  <2> QED BY <2>4 DEF a
<1>3. SubSeq(part, 2 + 1, Len(part)) = value
  <2> DEFINE a == SubSeq(part, 3, Len(part))
             m == Len(value)
  <2>1. 3 \in 1 .. Len(part) + 1 /\ Len(part) \in 0 .. Len(part) /\ 3 <= Len(part) + 1
    BY <1>0
  <2>2. a \in Seq(Pieces) /\ Len(a) = Len(part) - 3 + 1 /\ \A k \in 1 .. Len(part) - 3 + 1 : a[k] = part[3 + k - 1]
    BY <2>1, PartOf
  <2>3. Len(part) - 3 + 1 = m
    BY <1>0
  <2> HIDE DEF a
  <2>4. \A k \in 1 .. m : a[k] = value[k]
    <3>1. \A k \in 1 .. m : 3 + k - 1 = k + 2
      BY <1>0
    <3> QED BY <2>2, <2>3, <3>1
  <2>5. a = value
    BY <2>2, <2>3, <2>4, SeqEqual
  <2> QED BY <2>5 DEF a
<1>4. KeyAndValue(part) = [key |-> <<key>>, value |-> value]
  BY <1>1, <1>2, <1>3 DEF KeyAndValue, SplitAt
<1> QED BY <1>0, <1>4 DEF Contains

\* The greatest of one number is that number.
LEMMA MaxOfOne ==
  ASSUME NEW x \in Int
  PROVE  Max({x}) = x
BY DEF Max

\* A provider whose name has no semicolon, its version and the capability come
\* back from the evidence they were written to.
LEMMA RuleReads ==
  ASSUME NEW p \in Provenances, ~Contains(p.provider, Semicolon)
  PROVE  FromEvidence(ToEvidence(p)) = p /\ IsLspEvidence(ToEvidence(p))
<1> DEFINE n == Len(p.provider)
           r == Rule(p)
<1>1. /\ n \in Nat /\ r \in Seq(Pieces) /\ Len(r) = n + 8
      /\ r[1] = Tag /\ r[2] = Semicolon /\ r[3] = "provider" /\ r[4] = Equals
      /\ \A k \in 1 .. n : r[k + 4] = p.provider[k]
      /\ r[n + 5] = Semicolon /\ r[n + 6] = "capability"
      /\ r[n + 7] = Equals /\ r[n + 8] = p.capability
  BY RuleLayout
<1>2. p.provider \in Seq(Pieces) /\ p.capability \in Slugs /\ p.capability \in Pieces
  BY DEF Provenances, Pieces
<1>3. \A k \in 1 .. n : p.provider[k] # Semicolon
  BY DEF Contains
<1> HIDE DEF n, r
<1>4. DOMAIN r = 1 .. n + 8
  BY <1>1
<1>5. ASSUME NEW k \in 1 .. n + 8
      PROVE  r[k] = Semicolon <=> k \in {2, n + 5}
  <2>1. CASE k \in 1 .. 4
    <3>1. k = 1 \/ k = 2 \/ k = 3 \/ k = 4
      BY <2>1
    <3> QED BY <1>1, <3>1 DEF Tag, Semicolon, Equals
  <2>2. CASE k \in 5 .. n + 4
    <3>1. k - 4 \in 1 .. n /\ (k - 4) + 4 = k
      BY <1>1, <2>2
    <3>2. r[k] # Semicolon
      BY <1>1, <1>3, <3>1
    <3> QED BY <1>1, <2>2, <3>2
  <2>3. CASE k \in n + 5 .. n + 8
    <3>1. k = n + 5 \/ k = n + 6 \/ k = n + 7 \/ k = n + 8
      BY <1>1, <2>3
    <3>2. p.capability # Semicolon
      BY <1>2 DEF Slugs, Semicolon
    <3> QED BY <1>1, <3>1, <3>2 DEF Semicolon, Equals
  <2> QED BY <1>1, <2>1, <2>2, <2>3
<1>6. Cuts(r) = {2, n + 5}
  BY <1>1, <1>4, <1>5 DEF Cuts
<1>7. Part(r, 0) = <<Tag>>
  <2>1. NextPlace(Semicolon, r, 0) = 2
    <3>1. 2 \in 0 + 1 .. Len(r) + 1 /\ 0 \in 0 .. Len(r)
      BY <1>1
    <3>2. \A k \in 0 + 1 .. 2 - 1 : r[k] # Semicolon
      <4>1. r[1] # Semicolon
        BY <1>1 DEF Tag, Semicolon
      <4>2. \A k \in 0 + 1 .. 2 - 1 : k = 1
        OBVIOUS
      <4> QED BY <4>1, <4>2
    <3> QED BY <1>1, <3>1, <3>2, NextPlaceIs
  <2> DEFINE a == SubSeq(r, 1, 1)
  <2>2. a \in Seq(Pieces) /\ Len(a) = 1 - 1 + 1 /\ \A k \in 1 .. 1 - 1 + 1 : a[k] = r[1 + k - 1]
    <3>1. 1 \in 1 .. Len(r) + 1 /\ 1 \in 0 .. Len(r)
      BY <1>1
    <3> QED BY <1>1, <3>1, PartOf
  <2> HIDE DEF a
  <2>3. a = <<Tag>>
    BY <1>1, <2>2
  <2> QED BY <2>1, <2>3 DEF Part, a
<1> DEFINE q == Part(r, 2)
           d == Part(r, n + 5)
<1>8. Contains(q, Equals) /\ KeyAndValue(q).key = <<"provider">> /\ KeyAndValue(q).value = p.provider
  <2>1. NextPlace(Semicolon, r, 2) = n + 5
    <3>1. n + 5 \in 2 + 1 .. Len(r) + 1 /\ 2 \in 0 .. Len(r)
      BY <1>1
    <3>2. \A k \in 2 + 1 .. (n + 5) - 1 : r[k] # Semicolon
      BY <1>1, <1>5
    <3> QED BY <1>1, <3>1, <3>2, NextPlaceIs
  <2>2. q = SubSeq(r, 3, n + 4)
    <3>1. q = SubSeq(r, 2 + 1, NextPlace(Semicolon, r, 2) - 1)
      BY DEF Part
    <3>2. 2 + 1 = 3 /\ (n + 5) - 1 = n + 4
      BY <1>1
    <3> QED BY <2>1, <3>1, <3>2
  <2>3. /\ q \in Seq(Pieces) /\ Len(q) = (n + 4) - 3 + 1
        /\ \A k \in 1 .. (n + 4) - 3 + 1 : q[k] = r[3 + k - 1]
    <3>1. 3 \in 1 .. Len(r) + 1 /\ n + 4 \in 0 .. Len(r) /\ 3 <= (n + 4) + 1
      BY <1>1
    <3> QED BY <1>1, <2>2, <3>1, PartOf
  <2> HIDE DEF q
  <2>4. Len(q) = n + 2 /\ \A k \in 1 .. n + 2 : q[k] = r[k + 2]
    <3>1. (n + 4) - 3 + 1 = n + 2 /\ \A k \in 1 .. n + 2 : 3 + k - 1 = k + 2
      BY <1>1
    <3> QED BY <2>3, <3>1
  <2>5. q[1] = "provider" /\ q[2] = Equals
    <3>1. 1 \in 1 .. n + 2 /\ 2 \in 1 .. n + 2 /\ 1 + 2 = 3 /\ 2 + 2 = 4
      BY <1>1
    <3> QED BY <1>1, <2>4, <3>1
  <2>6. \A k \in 1 .. n : q[k + 2] = p.provider[k]
    <3>1. \A k \in 1 .. n : k + 2 \in 1 .. n + 2 /\ (k + 2) + 2 = k + 4
      BY <1>1
    <3> QED BY <1>1, <2>4, <3>1
  <2> QED BY <1>2, <2>3, <2>4, <2>5, <2>6, KeyAndValueIs DEF n, Equals
<1>9. Contains(d, Equals) /\ KeyAndValue(d).key = <<"capability">> /\ KeyAndValue(d).value = <<p.capability>>
  <2>1. NextPlace(Semicolon, r, n + 5) = n + 9
    <3>1. n + 9 \in (n + 5) + 1 .. Len(r) + 1 /\ n + 5 \in 0 .. Len(r) /\ n + 9 \notin DOMAIN r
      BY <1>1, <1>4
    <3>2. \A k \in (n + 5) + 1 .. (n + 9) - 1 : r[k] # Semicolon
      BY <1>1, <1>5
    <3> QED BY <1>1, <3>1, <3>2, NextPlaceIs
  <2>2. d = SubSeq(r, n + 6, n + 8)
    <3>1. d = SubSeq(r, (n + 5) + 1, NextPlace(Semicolon, r, n + 5) - 1)
      BY DEF Part
    <3>2. (n + 5) + 1 = n + 6 /\ (n + 9) - 1 = n + 8
      BY <1>1
    <3> QED BY <2>1, <3>1, <3>2
  <2>3. /\ d \in Seq(Pieces) /\ Len(d) = (n + 8) - (n + 6) + 1
        /\ \A k \in 1 .. (n + 8) - (n + 6) + 1 : d[k] = r[(n + 6) + k - 1]
    <3>1. n + 6 \in 1 .. Len(r) + 1 /\ n + 8 \in 0 .. Len(r) /\ n + 6 <= (n + 8) + 1
      BY <1>1
    <3> QED BY <1>1, <2>2, <3>1, PartOf
  <2> HIDE DEF d
  <2>4. Len(d) = 3 /\ \A k \in 1 .. 3 : d[k] = r[k + n + 5]
    <3>1. (n + 8) - (n + 6) + 1 = 3 /\ \A k \in 1 .. 3 : (n + 6) + k - 1 = k + n + 5
      BY <1>1
    <3> QED BY <2>3, <3>1
  <2>5. d[1] = "capability" /\ d[2] = Equals /\ d[3] = p.capability
    <3>1. 1 + n + 5 = n + 6 /\ 2 + n + 5 = n + 7 /\ 3 + n + 5 = n + 8
      BY <1>1
    <3> QED BY <1>1, <2>4, <3>1
  <2> DEFINE v == <<p.capability>>
  <2>6. v \in Seq(Pieces) /\ Len(v) = 1 /\ v[1] = p.capability
    BY <1>2
  <2> HIDE DEF v
  <2>7. Len(d) = Len(v) + 2 /\ \A k \in 1 .. Len(v) : d[k + 2] = v[k]
    BY <2>4, <2>5, <2>6
  <2>8. Contains(d, Equals) /\ KeyAndValue(d).key = <<"capability">> /\ KeyAndValue(d).value = v
    BY <2>3, <2>5, <2>6, <2>7, KeyAndValueIs DEF Equals
  <2> QED BY <2>8 DEF v
<1> HIDE DEF q, d
<1>10. <<"provider">> # <<"capability">>
  OBVIOUS
<1>11. {i \in Cuts(r) : KeyAndValue(Part(r, i)).key = <<"provider">>} = {2}
  BY <1>1, <1>6, <1>8, <1>9, <1>10 DEF q, d
<1>12. {i \in Cuts(r) : KeyAndValue(Part(r, i)).key = <<"capability">>} = {n + 5}
  BY <1>1, <1>6, <1>8, <1>9, <1>10 DEF q, d
<1>13. ValueOf(r, "provider") = <<p.provider>>
  <2>1. Max({2}) = 2
    BY MaxOfOne
  <2> QED BY <1>8, <1>11, <2>1 DEF ValueOf, q
<1>14. ValueOf(r, "capability") = <<<<p.capability>>>>
  <2>1. Max({n + 5}) = n + 5
    BY <1>1, MaxOfOne
  <2> QED BY <1>9, <1>12, <2>1 DEF ValueOf, d
<1>15. \A i \in Cuts(r) : Contains(Part(r, i), Equals)
  BY <1>6, <1>8, <1>9 DEF q, d
<1>16. ToEvidence(p).rule = r /\ ToEvidence(p).token = p.version
  BY DEF ToEvidence, r
<1>17. FromEvidence(ToEvidence(p)) = [provider |-> p.provider, version |-> p.version, capability |-> p.capability]
  <2> DEFINE provider   == ValueOf(r, "provider")
             capability == ValueOf(r, "capability")
  <2>1. provider # <<>> /\ capability # <<>> /\ provider[1] = p.provider /\ capability[1] = <<p.capability>>
    BY <1>13, <1>14
  <2>2. capability[1][1] = p.capability /\ \E slug \in Slugs : capability[1] = <<slug>>
    BY <1>2, <2>1
  <2> QED BY <1>7, <1>15, <1>16, <2>1, <2>2 DEF FromEvidence
<1>18. p = [provider |-> p.provider, version |-> p.version, capability |-> p.capability]
  BY DEF Provenances
<1>19. IsLspEvidence(ToEvidence(p))
  BY <1>1, <1>16 DEF IsLspEvidence
<1> QED BY <1>17, <1>18, <1>19

\* What reads as a stamp passes the check of the beginning.
LEMMA OthersAreSilent ==
  ASSUME NEW e, e.rule \in Seq(Pieces), ~IsLspEvidence(e)
  PROVE  FromEvidence(e) = NoProvenance
<1> DEFINE r == e.rule
           x == NextPlace(Semicolon, r, 0)
           a == SubSeq(r, 1, x - 1)
<1> SUFFICES ASSUME Part(r, 0) = <<Tag>>
             PROVE  FALSE
  BY DEF FromEvidence
<1>1. r \in Seq(Pieces) /\ Len(r) \in Nat /\ 0 \in 0 .. Len(r)
  OBVIOUS
<1>2. x \in 0 + 1 .. Len(r) + 1
  BY <1>1, NextPlaceIs
<1>3. a = <<Tag>>
  BY <1>1 DEF Part
<1>4. /\ Len(a) = (x - 1) - 1 + 1 /\ \A k \in 1 .. (x - 1) - 1 + 1 : a[k] = r[1 + k - 1]
  <2>1. 1 \in 1 .. Len(r) + 1 /\ x - 1 \in 0 .. Len(r) /\ 1 <= (x - 1) + 1
    BY <1>1, <1>2
  <2> QED BY <1>1, <2>1, PartOf
<1> HIDE DEF a, x
<1>5. Len(a) = 1 /\ a[1] = Tag
  BY <1>3
<1>6. x = 2 /\ 1 <= Len(r)
  <2>1. x \in Nat /\ x <= Len(r) + 1
    BY <1>1, <1>2
  <2>2. (x - 1) - 1 + 1 = 1
    BY <1>4, <1>5
  <2>3. x = 2
    BY ONLY <2>1, <2>2
  <2> QED BY <1>1, <2>1, <2>3
<1>7. r[1] = Tag
  <2>1. 1 \in 1 .. (x - 1) - 1 + 1 /\ 1 + 1 - 1 = 1
    BY <1>6
  <2> QED BY <1>4, <1>5, <2>1
<1>8. r # <<>> /\ Head(r) = Tag
  BY <1>1, <1>6, <1>7
<1> QED BY <1>8 DEF IsLspEvidence

\* Each record of evidence is a rule that was there, or what a stamp writes.
EvidenceInv ==
  /\ stamped \in Seq(Stamps \cup {NoProvenance}) /\ evidence \in Seq([rule : Seq(Pieces), token : Versions])
  /\ Len(stamped) = Len(evidence)
  /\ \A i \in DOMAIN evidence : stamped[i] # NoProvenance => evidence[i] = ToEvidence(stamped[i])

\* Evidence is only added, by stamps: stamp_lsp_provenance.
THEOREM EvidenceInvHolds == Spec => []EvidenceInv
<1> DEFINE Records == [rule : Seq(Pieces), token : Versions]
           Marks   == Stamps \cup {NoProvenance}
<1>1. Init => EvidenceInv
  <2> SUFFICES ASSUME Init
               PROVE  EvidenceInv
    OBVIOUS
  <2>1. CASE evidence = <<>> /\ stamped = <<>>
    BY <2>1 DEF EvidenceInv
  <2>2. CASE /\ \E rule \in Rules : evidence = <<[rule |-> rule, token |-> NoVersion]>>
             /\ stamped = <<NoProvenance>>
    <3>1. PICK rule \in Rules : evidence = <<[rule |-> rule, token |-> NoVersion]>>
      BY <2>2
    <3>2. [rule |-> rule, token |-> NoVersion] \in Records
      BY EvidenceAssumption DEF Versions
    <3> HIDE DEF Records
    <3>3. evidence \in Seq(Records) /\ Len(evidence) = 1
      BY <3>1, <3>2
    <3>4. stamped \in Seq(Marks) /\ Len(stamped) = 1 /\ stamped[1] = NoProvenance
      BY <2>2
    <3>5. \A i \in DOMAIN evidence : i = 1
      BY <3>3
    <3> QED BY <3>3, <3>4, <3>5 DEF EvidenceInv, Records
  <2> QED BY <2>1, <2>2 DEF Init
<1>2. ASSUME EvidenceInv, [Next]_vars
      PROVE  EvidenceInv'
  <2>1. ASSUME NEW p \in Stamps, Stamp(p)
        PROVE  EvidenceInv'
    <3> DEFINE e == ToEvidence(p)
    <3>1. p \in Provenances /\ p \in Marks
      BY EvidenceAssumption
    <3>2. e \in Records
      <4>1. Rule(p) \in Seq(Pieces)
        BY <3>1, RuleLayout
      <4> QED BY <3>1, <4>1 DEF ToEvidence, Provenances
    <3>3. evidence' = Append(evidence, e) /\ stamped' = Append(stamped, p)
      BY <2>1 DEF Stamp
    <3>4. evidence \in Seq(Records) /\ stamped \in Seq(Marks) /\ Len(stamped) = Len(evidence)
      BY <1>2 DEF EvidenceInv
    <3>5. \A i \in DOMAIN evidence : stamped[i] # NoProvenance => evidence[i] = ToEvidence(stamped[i])
      BY <1>2 DEF EvidenceInv
    <3> HIDE DEF Records, Marks, e
    <3>6. evidence' \in Seq(Records) /\ stamped' \in Seq(Marks) /\ Len(stamped') = Len(evidence')
      BY <3>1, <3>2, <3>3, <3>4
    <3>7. ASSUME NEW i \in DOMAIN evidence', stamped'[i] # NoProvenance
          PROVE  evidence'[i] = ToEvidence(stamped'[i])
      <4>1. i \in 1 .. Len(evidence) + 1 /\ DOMAIN evidence = 1 .. Len(evidence) /\ DOMAIN stamped = 1 .. Len(evidence)
        BY <3>2, <3>3, <3>4
      <4>2. CASE i = Len(evidence) + 1
        <5>1. evidence'[i] = e /\ stamped'[i] = p
          BY <3>1, <3>2, <3>3, <3>4, <4>2
        <5> QED BY <5>1 DEF e
      <4>3. CASE i # Len(evidence) + 1
        <5>1. i \in DOMAIN evidence
          BY <3>4, <4>1, <4>3
        <5>2. evidence'[i] = evidence[i] /\ stamped'[i] = stamped[i]
          BY <3>1, <3>2, <3>3, <3>4, <4>1, <5>1
        <5> QED BY <3>5, <3>7, <5>1, <5>2
      <4> QED BY <4>2, <4>3
    <3> QED BY <3>6, <3>7 DEF EvidenceInv, Records, Marks
  <2>2. CASE UNCHANGED origin
    BY <1>2, <2>2 DEF origin, EvidenceInv
  <2>3. [Next]_vars => UNCHANGED origin \/ \E p \in Stamps : Stamp(p)
    BY DEF Next, Scan, Lookup, vars
  <2> QED BY <1>2, <2>1, <2>2, <2>3
<1> QED BY <1>1, <1>2, PTL DEF Spec

\* What a relation was stamped with comes back from its evidence, and evidence
\* that does not begin like a stamp says nothing
\* (LspProvenance::from_relation_evidence).
THEOREM StampsComeBackHolds == Spec => []StampsComeBack
<1>1. EvidenceInv => StampsComeBack
  <2> SUFFICES ASSUME EvidenceInv, NEW i \in DOMAIN evidence
               PROVE  /\ stamped[i] # NoProvenance /\ ~Contains(stamped[i].provider, Semicolon) =>
                           FromEvidence(evidence[i]) = stamped[i] /\ IsLspEvidence(evidence[i])
                      /\ ~IsLspEvidence(evidence[i]) => FromEvidence(evidence[i]) = NoProvenance
    BY DEF StampsComeBack
  <2>1. evidence[i] \in [rule : Seq(Pieces), token : Versions] /\ stamped[i] \in Stamps \cup {NoProvenance}
    <3> DEFINE Records == [rule : Seq(Pieces), token : Versions]
               Marks   == Stamps \cup {NoProvenance}
    <3>1. stamped \in Seq(Marks) /\ evidence \in Seq(Records) /\ Len(stamped) = Len(evidence)
      BY DEF EvidenceInv
    <3> HIDE DEF Records, Marks
    <3>2. i \in DOMAIN stamped
      BY <3>1
    <3>3. evidence[i] \in Records /\ stamped[i] \in Marks
      BY <3>1, <3>2
    <3> QED BY <3>3 DEF Records, Marks
  <2>2. ASSUME stamped[i] # NoProvenance, ~Contains(stamped[i].provider, Semicolon)
        PROVE  FromEvidence(evidence[i]) = stamped[i] /\ IsLspEvidence(evidence[i])
    <3>1. stamped[i] \in Provenances
      BY <2>1, <2>2, EvidenceAssumption
    <3>2. evidence[i] = ToEvidence(stamped[i])
      BY <2>2 DEF EvidenceInv
    <3> QED BY <2>2, <3>1, <3>2, RuleReads
  <2>3. evidence[i].rule \in Seq(Pieces)
    BY <2>1
  <2> QED BY <2>2, <2>3, OthersAreSilent
<1> QED BY <1>1, EvidenceInvHolds, PTL
=============================================================================
