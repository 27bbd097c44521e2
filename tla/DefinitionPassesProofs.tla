------------------------ MODULE DefinitionPassesProofs ------------------------
(***************************************************************************)
(* Theorems about the passes: for any entities and identifiers, any order of *)
(* the files, any answers of the server and any set of capabilities.         *)
(***************************************************************************)
EXTENDS DefinitionPasses, FiniteSetTheorems, SequenceTheorems, WellFoundedInduction, TLAPS

(* Arrangements. *)

\* A set of naturals that is not empty has a least element.
LEMMA LeastExists ==
  ASSUME NEW S, S \subseteq Nat, S # {}
  PROVE  \E x \in S : \A y \in S : x <= y
<1> DEFINE R == OpToRel(<, Nat)
<1>0. \A x, y \in Nat : y < x => <<y, x>> \in R
  BY DEF OpToRel
<1>1. IsWellFoundedOn(R, Nat)
  BY NatLessThanWellFounded
<1> HIDE DEF R
<1>2. PICK x \in S : \A y \in S : ~ (<<y, x>> \in R)
  BY <1>1, WFMin
<1>3. \A y \in S : ~ (y < x)
  BY <1>0, <1>2
<1> QED BY <1>3

\* Some indices of a sequence, in their order, are a sequence of indices, each
\* but once.
LEMMA ArrangedIndices ==
  ASSUME NEW N \in Nat, NEW S \in SUBSET (1 .. N), NEW s \in Ascending(S)
  PROVE  /\ s \in Seq(S) /\ DOMAIN s = 1 .. Len(s) /\ Len(s) \in Nat
         /\ \A k \in DOMAIN s : s[k] \in S
         /\ \A i, j \in DOMAIN s : s[i] = s[j] => i = j
<1>0. IsFiniteSet(1 .. N)
  BY FS_Interval
<1>1. Cardinality(S) \in Nat
  BY <1>0, FS_Subset, FS_CardinalityType
<1>2. /\ s \in [1 .. Cardinality(S) -> S]
      /\ \A j \in 1 .. Cardinality(S) : \A i \in 1 .. j - 1 : s[i] < s[j]
  BY DEF Ascending
<1>3. s \in Seq(S) /\ DOMAIN s = 1 .. Cardinality(S) /\ Len(s) = Cardinality(S)
  BY <1>1, <1>2
<1>4. ASSUME NEW i \in DOMAIN s, NEW j \in DOMAIN s, s[i] = s[j]
      PROVE  i = j
  <2>0. i \in 1 .. Cardinality(S) /\ j \in 1 .. Cardinality(S) /\ s[i] \in 1 .. N
    BY <1>2, <1>3
  <2>1. i \in Int /\ j \in Int /\ s[i] \in Int
    BY <2>0
  <2>2. i < j => s[i] < s[j]
    BY <1>2, <1>3, <2>1
  <2>3. j < i => s[j] < s[i]
    BY <1>2, <1>3, <2>1
  <2> QED BY <1>4, <2>1, <2>2, <2>3
<1> QED BY <1>1, <1>2, <1>3, <1>4

\* The sequence more is es, followed by those of found whose numbers are in S.
Extends(es, more, found, S) ==
  \E new \in Ascending(S) : more = es \o [k \in DOMAIN new |-> found[new[k]]]

\* What is added comes from S, each from another number.
Adds(es, more, found, S) ==
  /\ \A i \in DOMAIN es : i \in DOMAIN more /\ more[i] = es[i]
  /\ \A i \in DOMAIN more \ DOMAIN es : \E n \in S : more[i] = found[n]
  /\ \A i, j \in DOMAIN more \ DOMAIN es :
       i # j => \E m, n \in S : m # n /\ more[i] = found[m] /\ more[j] = found[n]

LEMMA Extended ==
  ASSUME NEW R, NEW es \in Seq(R), NEW N \in Nat, NEW S \in SUBSET (1 .. N),
         NEW found, \A n \in S : found[n] \in R,
         NEW more, Extends(es, more, found, S)
  PROVE  more \in Seq(R) /\ Adds(es, more, found, S)
<1>0. PICK new \in Ascending(S) : more = es \o [k \in DOMAIN new |-> found[new[k]]]
  BY DEF Extends
<1> DEFINE tail == [k \in DOMAIN new |-> found[new[k]]]
<1>1. /\ DOMAIN new = 1 .. Len(new) /\ Len(new) \in Nat
      /\ \A k \in DOMAIN new : new[k] \in S
      /\ \A i, j \in DOMAIN new : new[i] = new[j] => i = j
  BY ArrangedIndices
<1>2. tail \in Seq(R) /\ Len(tail) = Len(new) /\ \A k \in 1 .. Len(new) : tail[k] = found[new[k]]
  <2>1. \A k \in 1 .. Len(new) : found[new[k]] \in R
    BY <1>1
  <2>2. tail \in [1 .. Len(new) -> R]
    BY <1>1, <2>1
  <2> QED BY <1>1, <2>2
<1> HIDE DEF tail
<1>3. more = es \o tail
  BY <1>0 DEF tail
<1>4. /\ more \in Seq(R) /\ Len(more) = Len(es) + Len(tail)
      /\ \A i \in 1 .. Len(es) : more[i] = es[i]
      /\ \A i \in Len(es) + 1 .. Len(more) : more[i] = tail[i - Len(es)]
  <2>1. es \in Seq(R) /\ tail \in Seq(R)
    BY <1>2
  <2> QED BY ONLY <1>3, <2>1
<1>5. DOMAIN es = 1 .. Len(es) /\ DOMAIN more = 1 .. Len(more) /\ Len(es) \in Nat /\ Len(tail) \in Nat
  BY <1>2, <1>4
<1>6. \A i \in DOMAIN es : i \in DOMAIN more /\ more[i] = es[i]
  BY ONLY <1>4, <1>5
<1>7. ASSUME NEW i \in DOMAIN more \ DOMAIN es
      PROVE  i - Len(es) \in DOMAIN new /\ more[i] = found[new[i - Len(es)]]
  <2>1. i \in Len(es) + 1 .. Len(more) /\ i - Len(es) \in 1 .. Len(new)
    BY <1>2, <1>4, <1>5
  <2> QED BY <1>1, <1>2, <1>4, <2>1
<1>8. \A i \in DOMAIN more \ DOMAIN es : \E n \in S : more[i] = found[n]
  BY <1>1, <1>7
<1>9. ASSUME NEW i \in DOMAIN more \ DOMAIN es, NEW j \in DOMAIN more \ DOMAIN es, i # j
      PROVE  \E m, n \in S : m # n /\ more[i] = found[m] /\ more[j] = found[n]
  <2>1. i \in Int /\ j \in Int /\ Len(es) \in Int
    BY <1>5
  <2>2. i - Len(es) # j - Len(es)
    BY <1>9, <2>1
  <2>3. new[i - Len(es)] # new[j - Len(es)]
    BY <1>1, <1>7, <2>2
  <2>4. new[i - Len(es)] \in S /\ new[j - Len(es)] \in S
    BY <1>1, <1>7
  <2>5. more[i] = found[new[i - Len(es)]] /\ more[j] = found[new[j - Len(es)]]
    BY <1>7
  <2> QED BY ONLY <2>3, <2>4, <2>5
<1> QED BY <1>4, <1>6, <1>8, <1>9 DEF Adds

-----------------------------------------------------------------------------
(* The index. *)

\* Of entities that hold a line one is before the others: the shortest, of
\* these the last to begin, of these the first listed.
LEMMA InnermostExists ==
  ASSUME NEW line \in Nat, NEW S \in SUBSET Subjects, S # {},
         \A i \in S : Holds(Entities[i], line)
  PROVE  \E i \in S : \A j \in S : Before(Index, i, j)
<1> DEFINE len(i) == Entities[i].end - Entities[i].start
           ago(i) == line - Entities[i].start
<1>1. \A i \in S : /\ i \in Nat /\ Entities[i].start \in Nat /\ Entities[i].end \in Nat
                   /\ len(i) \in Nat /\ ago(i) \in Nat
  BY PassesAssumption DEF Subjects, Holds
<1>2. PICK a \in S : \A j \in S : len(a) <= len(j)
  <2>1. {len(i) : i \in S} \subseteq Nat /\ {len(i) : i \in S} # {}
    BY <1>1
  <2>2. PICK x \in {len(i) : i \in S} : \A y \in {len(i) : i \in S} : x <= y
    BY <2>1, LeastExists
  <2> QED BY <2>2
<1>3. PICK b \in S : len(b) = len(a) /\ \A j \in S : len(j) = len(a) => ago(b) <= ago(j)
  <2> DEFINE T == {i \in S : len(i) = len(a)}
  <2>1. {ago(i) : i \in T} \subseteq Nat /\ {ago(i) : i \in T} # {}
    BY <1>1
  <2>2. PICK x \in {ago(i) : i \in T} : \A y \in {ago(i) : i \in T} : x <= y
    BY <2>1, LeastExists
  <2> QED BY <2>2
<1>4. PICK c \in S : /\ len(c) = len(a) /\ ago(c) = ago(b)
                     /\ \A j \in S : len(j) = len(a) /\ ago(j) = ago(b) => c <= j
  <2> DEFINE T == {i \in S : len(i) = len(a) /\ ago(i) = ago(b)}
  <2>1. T \subseteq Nat /\ T # {}
    BY <1>1, <1>3
  <2>2. PICK x \in T : \A y \in T : x <= y
    BY <2>1, LeastExists
  <2> QED BY <2>2
<1>5. ASSUME NEW j \in S
      PROVE  Before(Index, c, j)
  <2>1. len(c) <= len(j) /\ (len(j) = len(c) => ago(c) <= ago(j))
    BY <1>2, <1>3, <1>4
  <2>2. len(j) = len(c) /\ ago(j) = ago(c) => c <= j
    BY <1>4
  <2>3. len(c) \in Nat /\ len(j) \in Nat /\ ago(c) \in Nat /\ ago(j) \in Nat
    BY <1>1
  <2>4. len(j) = len(c) => Entities[c].start > Entities[j].start \/ (Entities[c].start = Entities[j].start /\ c <= j)
    BY <1>1, <2>1, <2>2, <2>3
  <2>5. len(c) < len(j) \/ len(c) = len(j)
    BY <2>1, <2>3
  <2> QED BY <2>4, <2>5 DEF Before, Index
<1> QED BY <1>5

\* What is found at a place is an entity of the file the path stands for, whose
\* span holds the line, or no entity.
LEMMA FoundIsThere ==
  ASSUME NEW path, NEW line \in Nat, FindAt(Index, path, line) # NoEntity
  PROVE  LET found == FindAt(Index, path, line)
         IN /\ found \in Subjects
            /\ Holds(Entities[found], line)
            /\ Entities[found].file = FileFor(Index, path) /\ path # NoPath
<1> DEFINE here == {i \in EntitiesInFile(Index, path) : Holds(Index.entities[i], line)}
<1>1. FindAt(Index, path, line) =
        IF here = {} THEN NoEntity ELSE CHOOSE i \in here : \A j \in here : Before(Index, i, j)
  BY DEF FindAt
<1>2. Index.entities = Entities
  BY DEF Index
<1>3. \A i \in here : i \in Subjects /\ Holds(Entities[i], line) /\ Entities[i].file = FileFor(Index, path)
                   /\ path # NoPath
  BY <1>2 DEF EntitiesInFile, Subjects
<1>4. here # {}
  BY <1>1
<1> HIDE DEF here
<1>5. here \in SUBSET Subjects
  BY <1>3
<1>6. \E i \in here : \A j \in here : Before(Index, i, j)
  BY <1>3, <1>4, <1>5, InnermostExists
<1>7. FindAt(Index, path, line) \in here
  BY <1>1, <1>4, <1>6
<1> QED BY <1>3, <1>7
-----------------------------------------------------------------------------
(* The inductive invariant. *)

InLoop == {"receiver", "module", "member", "candidate", "plain"}

\* Where a pass may be, and whom it is about there.
PlaceInv ==
  /\ arm \in Kinds => pc \in {"begin", "prepare", "query", "done"}
  /\ arm = "types" => pc \notin {"prepare", "query", "calls"}
  /\ arm # "file" => subject \in Subjects
  /\ pc \in {"prepare", "query"} => subject \in Subjects
  /\ pc \in InLoop => at \in DOMAIN Positions /\ Source \in Subjects

\* A pass about an entity has no edges before it ends, and one that failed has
\* none after.
FailInv ==
  /\ arm \in Kinds /\ pc # "done" => edges = <<>>
  /\ failures > 0 => pc = "failed" \/ (pc = "done" /\ result = "error" /\ edges = <<>>)

\* Exports are bound while candidates are asked about, each on two answers.
BoundInv ==
  /\ pc \notin {"candidate", "failed", "done"} => bound = <<>>
  /\ \A n \in DOMAIN bound : <<at, bound[n]>> \in proven

\* The edges are of identifiers before the one the loop is at.
AtInv == \A i \in DOMAIN edges : edges[i].pos < at

\* So are the receivers known to be modules, but for the one the join is about.
ModulesInv ==
  \A x \in namesModule :
    x < at \/ (x = at /\ pc \in {"module", "member", "candidate", "failed", "done"})

\* The edges of a types pass are under the keys it has seen, and differ.
KeysInv ==
  arm = "types" =>
    /\ \A i \in DOMAIN edges :
         edges[i].dst # subject /\ <<subject, edges[i].dst, "any">> \in seen
    /\ \A i, j \in DOMAIN edges : edges[i].dst = edges[j].dst => i = j

\* The edges of a references pass come from different entities.
SourcesInv ==
  arm = "references" =>
    /\ \A i \in DOMAIN edges : edges[i].src # subject
    /\ \A i, j \in DOMAIN edges : edges[i].src = edges[j].src => i = j

PassInv ==
  /\ TypeOK /\ PlaceInv /\ FailInv /\ BoundInv /\ AtInv /\ ModulesInv /\ KeysInv /\ SourcesInv
  /\ MemberEdgesAreProven /\ ModulesAreNotUsed

\* Answers are sequences of locations, and nothing is one.
LEMMA AnswersAreSequences ==
  /\ <<>> \in Answers
  /\ \A r \in Answers : r \in Seq(Locations) /\ DOMAIN r = 1 .. Len(r) /\ Len(r) \in Nat
                        /\ \A n \in DOMAIN r : r[n] \in Locations
<1>1. MaxAnswer \in Nat
  BY PassesAssumption
<1>2. Answers = UNION {[1 .. m -> Locations] : m \in 0 .. MaxAnswer}
  BY DEF Answers, BoundedSeq, SeqOf
<1>3. <<>> \in [1 .. 0 -> Locations]
  OBVIOUS
<1>4. \A m \in 0 .. MaxAnswer : \A r \in [1 .. m -> Locations] :
        r \in Seq(Locations) /\ DOMAIN r = 1 .. Len(r) /\ Len(r) \in Nat
        /\ \A n \in DOMAIN r : r[n] \in Locations
  OBVIOUS
<1> QED BY <1>1, <1>2, <1>3, <1>4

\* Where a location is told to be, there is an entity or none.
LEMMA TargetIsSubject ==
  ASSUME NEW l \in Locations, Target(l) # NoEntity
  PROVE  Target(l) \in Subjects
BY FoundIsThere, PassesAssumption DEF Target

\* The edges that are there stay what the invariant says of them.
LEMMA EdgesStay ==
  ASSUME PassInv, UNCHANGED <<arm, edges, seen>>, arm = "file" \/ subject' = subject,
         proven \subseteq proven', namesModule' \subseteq namesModule \cup {at},
         at' \in Nat, at <= at'
  PROVE  AtInv' /\ KeysInv' /\ SourcesInv' /\ MemberEdgesAreProven' /\ ModulesAreNotUsed'
<1>1. \A i \in DOMAIN edges : edges[i].pos \in Int /\ edges[i].pos < at
  <2>1. \A i \in DOMAIN edges : edges[i] \in Relations
    BY DEF PassInv, TypeOK
  <2> QED BY <2>1, PositionsAssumption DEF PassInv, Relations, AtInv
<1>2. at \in Int
  BY DEF PassInv, TypeOK
<1>3. AtInv'
  BY <1>1, <1>2 DEF AtInv
<1>4. KeysInv' /\ SourcesInv'
  BY DEF PassInv, KeysInv, SourcesInv
<1>5. MemberEdgesAreProven'
  BY DEF PassInv, MemberEdgesAreProven
<1>6. ModulesAreNotUsed'
  <2>1. \A i \in DOMAIN edges : edges[i].pos # at
    BY <1>1, <1>2
  <2> QED BY <2>1 DEF PassInv, ModulesAreNotUsed
<1> QED BY <1>3, <1>4, <1>5, <1>6

\* An entity is the source as long as identifier and subject are the same.
LEMMA SourceStays ==
  ASSUME UNCHANGED <<arm, subject, at>>
  PROVE  Source' = Source
BY DEF Source, Here

LEMMA InitPasses == Init => PassInv
<1> SUFFICES ASSUME Init PROVE PassInv
  OBVIOUS
<1>1. TypeOK
  <2>1. /\ subject \in Subjects \cup {NoEntity} /\ arm \in Kinds \cup {"types", "file"}
        /\ provided \in Provisions \cup {{}}
    BY DEF Init
  <2> QED BY <2>1, AnswersAreSequences, PositionsAssumption DEF Init, TypeOK
<1>2. PlaceInv
  BY DEF Init, PlaceInv, InLoop, Kinds
<1>3. FailInv /\ BoundInv /\ AtInv /\ ModulesInv /\ KeysInv /\ SourcesInv
  BY DEF Init, FailInv, BoundInv, AtInv, ModulesInv, KeysInv, SourcesInv, Kinds
<1>4. MemberEdgesAreProven /\ ModulesAreNotUsed
  BY DEF Init, MemberEdgesAreProven, ModulesAreNotUsed
<1> QED BY <1>1, <1>2, <1>3, <1>4 DEF PassInv

\* The loop begins, or does not.
LEMMA BeginKeeps == PassInv /\ Begin => PassInv'
<1> SUFFICES ASSUME PassInv, Begin PROVE PassInv'
  OBVIOUS
<1>0. at' \in 1 .. Len(Positions) + 1 /\ at <= at' /\ at \in Nat
  BY PositionsAssumption DEF PassInv, TypeOK, Begin
<1>1. TypeOK'
  BY <1>0 DEF PassInv, TypeOK, Begin, given, position, history
<1>2. PlaceInv'
  BY DEF PassInv, PlaceInv, Begin, given, InLoop, Kinds
<1>3. FailInv' /\ BoundInv'
  BY DEF PassInv, FailInv, BoundInv, Begin, given, position, history, Kinds
<1>4. ModulesInv'
  BY <1>0 DEF PassInv, TypeOK, ModulesInv, Begin, history
<1>5. AtInv' /\ KeysInv' /\ SourcesInv' /\ MemberEdgesAreProven' /\ ModulesAreNotUsed'
  BY <1>0, EdgesStay DEF Begin, given, history
<1> QED BY <1>1, <1>2, <1>3, <1>4, <1>5 DEF PassInv

LEMMA SkipKeeps == PassInv /\ Skip => PassInv'
<1> SUFFICES ASSUME PassInv, Skip PROVE PassInv'
  OBVIOUS
<1>0. at' \in 1 .. Len(Positions) + 1 /\ at <= at' /\ at < at' /\ at \in Nat
  BY PositionsAssumption DEF PassInv, TypeOK, Skip
<1>1. TypeOK'
  BY <1>0 DEF PassInv, TypeOK, Skip, given, position, output, history
<1>2. PlaceInv'
  BY DEF PassInv, PlaceInv, Skip, given, InLoop, Kinds
<1>3. FailInv' /\ BoundInv'
  BY DEF PassInv, FailInv, BoundInv, Skip, given, position, output, history
<1>4. ModulesInv'
  BY <1>0 DEF PassInv, TypeOK, ModulesInv, Skip, history
<1>5. AtInv' /\ KeysInv' /\ SourcesInv' /\ MemberEdgesAreProven' /\ ModulesAreNotUsed'
  BY <1>0, EdgesStay DEF Skip, given, output, history
<1> QED BY <1>1, <1>2, <1>3, <1>4, <1>5 DEF PassInv

\* A line in scope has a source.
LEMMA IdentifierKeeps == PassInv /\ Identifier => PassInv'
<1> SUFFICES ASSUME PassInv, Identifier PROVE PassInv'
  OBVIOUS
<1>0. at' = at /\ at \in DOMAIN Positions /\ at \in Nat /\ pc = "next" /\ pc' \in {"receiver", "plain"}
  BY PositionsAssumption DEF PassInv, TypeOK, Identifier
<1>1. TypeOK'
  BY <1>0 DEF PassInv, TypeOK, Identifier, given, position, output, history
<1>2. Source \in Subjects
  <2>1. arm \in {"types", "file"}
    BY <1>0 DEF PassInv, PlaceInv, TypeOK
  <2>2. CASE arm = "types"
    BY <2>2 DEF PassInv, PlaceInv, Source
  <2>3. CASE arm = "file"
    <3>1. Source = FindAt(Index, Root \o File, Here.line) /\ Source # NoEntity
      BY <2>3 DEF Identifier, InScope, Source
    <3>2. Here.line \in Nat
      BY <1>0, PositionsAssumption DEF Here
    <3> QED BY <3>1, <3>2, FoundIsThere
  <2> QED BY <2>1, <2>2, <2>3
<1>3. PlaceInv'
  <2>1. Source' = Source
    BY SourceStays DEF Identifier, given
  <2> QED BY <1>0, <1>2, <2>1 DEF PassInv, PlaceInv, Identifier, given, InLoop, Kinds
<1>4. FailInv' /\ BoundInv' /\ ModulesInv'
  BY <1>0 DEF PassInv, FailInv, BoundInv, ModulesInv, Identifier, given, position, output, history
<1>5. AtInv' /\ KeysInv' /\ SourcesInv' /\ MemberEdgesAreProven' /\ ModulesAreNotUsed'
  BY <1>0, EdgesStay DEF Identifier, given, output, history
<1> QED BY <1>1, <1>3, <1>4, <1>5 DEF PassInv

LEMMA QueryFailsKeeps == PassInv /\ QueryFails => PassInv'
<1> SUFFICES ASSUME PassInv, QueryFails PROVE PassInv'
  OBVIOUS
<1>0. at' = at /\ at \in Nat /\ pc \in InLoop /\ arm \in {"types", "file"}
  <2>1. pc \in InLoop
    BY DEF QueryFails, Needed, InLoop, Capabilities, PassInv, TypeOK, PlaceInv, Kinds, PlainQuery
  <2> QED BY <2>1, PositionsAssumption DEF PassInv, TypeOK, QueryFails, PlaceInv, InLoop
<1>1. TypeOK'
  BY DEF PassInv, TypeOK, QueryFails, given, position, history
<1>2. PlaceInv'
  BY <1>0 DEF PassInv, PlaceInv, QueryFails, given, InLoop, Kinds
<1>3. FailInv' /\ BoundInv' /\ ModulesInv'
  BY <1>0 DEF PassInv, FailInv, BoundInv, ModulesInv, QueryFails, given, position, history, Kinds, InLoop
<1>4. AtInv' /\ KeysInv' /\ SourcesInv' /\ MemberEdgesAreProven' /\ ModulesAreNotUsed'
  BY <1>0, EdgesStay DEF QueryFails, given, history
<1> QED BY <1>1, <1>2, <1>3, <1>4 DEF PassInv

\* The receiver is a module, or it is queried like a value.
LEMMA ReceiverKeeps == PassInv /\ Receiver => PassInv'
<1> SUFFICES ASSUME PassInv, Receiver PROVE PassInv'
  OBVIOUS
<1>0. /\ at' = at /\ at \in Nat /\ at \in DOMAIN Positions /\ pc = "receiver"
      /\ \/ pc' = "module" /\ namesModule' = namesModule \cup {at}
         \/ pc' = "plain" /\ namesModule' = namesModule
  BY PositionsAssumption DEF PassInv, TypeOK, PlaceInv, InLoop, Receiver
<1>1. TypeOK'
  BY <1>0 DEF PassInv, TypeOK, Receiver, given, position, output
<1>2. PlaceInv'
  <2>1. Source' = Source
    BY SourceStays DEF Receiver, given
  <2> QED BY <1>0, <2>1 DEF PassInv, PlaceInv, Receiver, given, InLoop, Kinds
<1>3. FailInv' /\ BoundInv'
  BY <1>0 DEF PassInv, FailInv, BoundInv, Receiver, given, position, output
<1>4. ModulesInv'
  BY <1>0 DEF PassInv, ModulesInv
<1>5. AtInv' /\ KeysInv' /\ SourcesInv' /\ MemberEdgesAreProven' /\ ModulesAreNotUsed'
  BY <1>0, EdgesStay DEF Receiver, given, output
<1> QED BY <1>1, <1>2, <1>3, <1>4, <1>5 DEF PassInv

LEMMA ModuleTypeKeeps == PassInv /\ ModuleType => PassInv'
<1> SUFFICES ASSUME PassInv, ModuleType PROVE PassInv'
  OBVIOUS
<1>0. at' = at /\ at \in Nat /\ at \in DOMAIN Positions /\ pc = "module" /\ pc' = "member"
  BY PositionsAssumption DEF PassInv, TypeOK, PlaceInv, InLoop, ModuleType
<1>1. TypeOK'
  BY <1>0 DEF PassInv, TypeOK, ModuleType, given, output
<1>2. PlaceInv'
  <2>1. Source' = Source
    BY SourceStays DEF ModuleType, given
  <2> QED BY <1>0, <2>1 DEF PassInv, PlaceInv, ModuleType, given, InLoop, Kinds
<1>3. FailInv' /\ BoundInv' /\ ModulesInv'
  BY <1>0 DEF PassInv, FailInv, BoundInv, ModulesInv, ModuleType, given, output
<1>4. AtInv' /\ KeysInv' /\ SourcesInv' /\ MemberEdgesAreProven' /\ ModulesAreNotUsed'
  BY <1>0, EdgesStay DEF ModuleType, given, output
<1> QED BY <1>1, <1>2, <1>3, <1>4 DEF PassInv

\* A queue of pairs is a sequence of their entities.
LEMMA QueueIsSequence ==
  ASSUME NEW T, IsFiniteSet(T), NEW C \in SUBSET (T \X Subjects), NEW q \in Queue(C)
  PROVE  q \in Seq(Subjects)
<1>1. IsFiniteSet(Subjects)
  <2>1. Subjects = 1 .. Len(Entities) /\ Len(Entities) \in Nat
    BY PassesAssumption DEF Subjects
  <2> QED BY <2>1, FS_Interval
<1>2. IsFiniteSet(T \X Subjects)
  BY <1>1, FS_Product
<1>3. Cardinality(C) \in Nat
  BY <1>2, FS_Subset, FS_CardinalityType
<1>4. PICK s \in [1 .. Cardinality(C) -> C] : q = [k \in DOMAIN s |-> s[k][2]]
  BY DEF Queue
<1>5. \A k \in 1 .. Cardinality(C) : s[k] \in T \X Subjects
  BY <1>4
<1>6. q \in [1 .. Cardinality(C) -> Subjects]
  BY <1>4, <1>5
<1> QED BY <1>3, <1>6

LEMMA MemberDefinitionKeeps == PassInv /\ MemberDefinition => PassInv'
<1> SUFFICES ASSUME PassInv, MemberDefinition PROVE PassInv'
  OBVIOUS
<1>0. at' = at /\ at \in Nat /\ at \in DOMAIN Positions /\ pc = "member" /\ pc' = "candidate"
  BY PositionsAssumption DEF PassInv, TypeOK, PlaceInv, InLoop, MemberDefinition
<1>1. todo' \in Seq(Subjects)
  <2>1. modules \in Answers
    BY DEF PassInv, TypeOK
  <2>2. IsFiniteSet(DOMAIN modules)
    BY <2>1, AnswersAreSequences, FS_Interval
  <2>3. Candidates(modules) \in SUBSET ((DOMAIN modules) \X Subjects)
    BY DEF Candidates
  <2> QED BY <2>2, <2>3, QueueIsSequence DEF MemberDefinition
<1>2. TypeOK'
  BY <1>0, <1>1 DEF PassInv, TypeOK, MemberDefinition, given, output
<1>3. PlaceInv'
  <2>1. Source' = Source
    BY SourceStays DEF MemberDefinition, given
  <2> QED BY <1>0, <2>1 DEF PassInv, PlaceInv, MemberDefinition, given, InLoop, Kinds
<1>4. FailInv' /\ BoundInv' /\ ModulesInv'
  BY <1>0 DEF PassInv, FailInv, BoundInv, ModulesInv, MemberDefinition, given, output
<1>5. AtInv' /\ KeysInv' /\ SourcesInv' /\ MemberEdgesAreProven' /\ ModulesAreNotUsed'
  BY <1>0, EdgesStay DEF MemberDefinition, given, output
<1> QED BY <1>2, <1>3, <1>4, <1>5 DEF PassInv

LEMMA DeclineKeeps == PassInv /\ Decline => PassInv'
<1> SUFFICES ASSUME PassInv, Decline PROVE PassInv'
  OBVIOUS
<1>0. at' = at /\ at \in Nat /\ at \in DOMAIN Positions /\ pc = "candidate" /\ pc' = "candidate"
  BY PositionsAssumption DEF PassInv, TypeOK, PlaceInv, InLoop, Decline
<1>1. todo' \in Seq(Subjects)
  BY DEF PassInv, TypeOK, Decline
<1>2. TypeOK'
  BY <1>0, <1>1 DEF PassInv, TypeOK, Decline, given, position, output, history
<1>3. PlaceInv'
  <2>1. Source' = Source
    BY SourceStays DEF Decline, given
  <2> QED BY <1>0, <2>1 DEF PassInv, PlaceInv, Decline, given, InLoop, Kinds
<1>4. FailInv' /\ BoundInv' /\ ModulesInv'
  BY <1>0 DEF PassInv, FailInv, BoundInv, ModulesInv, Decline, given, position, output, history
<1>5. AtInv' /\ KeysInv' /\ SourcesInv' /\ MemberEdgesAreProven' /\ ModulesAreNotUsed'
  BY <1>0, EdgesStay DEF Decline, given, output, history
<1> QED BY <1>2, <1>3, <1>4, <1>5 DEF PassInv

\* An export that is bound is one two answers agreed on.
LEMMA AskCandidateKeeps == PassInv /\ AskCandidate => PassInv'
<1> SUFFICES ASSUME PassInv, AskCandidate PROVE PassInv'
  OBVIOUS
<1>0. at' = at /\ at \in Nat /\ at \in DOMAIN Positions /\ pc = "candidate" /\ pc' = "candidate"
  BY PositionsAssumption DEF PassInv, TypeOK, PlaceInv, InLoop, AskCandidate
<1>1. /\ todo \in Seq(Subjects) /\ todo # <<>> /\ Head(todo) \in Subjects /\ todo' \in Seq(Subjects)
      /\ bound \in Seq(Subjects)
  BY DEF PassInv, TypeOK, AskCandidate
<1>2. PICK r \in Answers :
        /\ bound' = IF Proven(r) /\ ~Contains(bound, Head(todo)) THEN Append(bound, Head(todo)) ELSE bound
        /\ proven' = IF Agree(r) THEN proven \cup {<<at, Head(todo)>>} ELSE proven
  BY DEF AskCandidate
<1>3. Proven(r) <=> Agree(r)
  BY DEF Proven, Agree
<1>4. \/ bound' = bound /\ proven \subseteq proven' /\ proven' \subseteq proven \cup {<<at, Head(todo)>>}
      \/ bound' = Append(bound, Head(todo)) /\ proven' = proven \cup {<<at, Head(todo)>>}
  BY <1>2, <1>3
<1>5. TypeOK'
  <2>0. bound' = bound \/ bound' = Append(bound, Head(todo))
    BY <1>4
  <2>1. bound' \in Seq(Subjects)
    BY ONLY <1>1, <2>0
  <2>2. proven' \subseteq (DOMAIN Positions) \X Subjects
    BY <1>0, <1>1, <1>4 DEF PassInv, TypeOK
  <2> QED BY <1>0, <1>1, <2>1, <2>2 DEF PassInv, TypeOK, AskCandidate, given, output
<1>6. PlaceInv'
  <2>1. Source' = Source
    BY SourceStays DEF AskCandidate, given
  <2> QED BY <1>0, <2>1 DEF PassInv, PlaceInv, AskCandidate, given, InLoop, Kinds
<1>7. FailInv' /\ ModulesInv'
  BY <1>0 DEF PassInv, FailInv, ModulesInv, AskCandidate, given, output
<1>8. BoundInv'
  <2>1. \A n \in DOMAIN bound' : <<at, bound'[n]>> \in proven'
    <3>1. \A n \in DOMAIN bound : <<at, bound[n]>> \in proven
      BY DEF PassInv, BoundInv
    <3>2. CASE bound' = bound
      BY <3>1, <3>2, <1>4
    <3>3. CASE bound' = Append(bound, Head(todo)) /\ proven' = proven \cup {<<at, Head(todo)>>}
      <4>1. /\ DOMAIN bound' = 1 .. Len(bound) + 1 /\ DOMAIN bound = 1 .. Len(bound) /\ Len(bound) \in Nat
            /\ \A n \in 1 .. Len(bound) : bound'[n] = bound[n]
            /\ bound'[Len(bound) + 1] = Head(todo)
        BY <1>1, <3>3
      <4> QED BY <3>1, <3>3, <4>1
    <3> QED BY <1>4, <3>2, <3>3
  <2> QED BY <1>0, <2>1 DEF BoundInv
<1>9. AtInv' /\ KeysInv' /\ SourcesInv' /\ MemberEdgesAreProven' /\ ModulesAreNotUsed'
  BY <1>0, <1>4, EdgesStay DEF AskCandidate, given, output
<1> QED BY <1>5, <1>6, <1>7, <1>8, <1>9 DEF PassInv

(* The steps that emit edges. *)

\* What the edges are that a step of the loop adds.
Emits ==
  /\ edges' \in Seq(Relations) /\ seen \subseteq seen'
  /\ \A i \in DOMAIN edges : i \in DOMAIN edges' /\ edges'[i] = edges[i]
  /\ \A i \in DOMAIN edges' \ DOMAIN edges :
       /\ edges'[i].pos = at /\ edges'[i].dst # Source
       /\ edges'[i].rule = "lsp_member_on_module" => <<at, edges'[i].dst>> \in proven
       /\ edges'[i].rule \in {"lsp_references", "lsp_definition"} => at \notin namesModule
       /\ arm = "types" => <<Source, edges'[i].dst, "any">> \in seen' \ seen
  /\ arm = "types" =>
       \A i, j \in DOMAIN edges' \ DOMAIN edges : edges'[i].dst = edges'[j].dst => i = j

LEMMA EmitsKeeps ==
  ASSUME PassInv, Emits, UNCHANGED <<arm, subject, proven, namesModule>>, at' = at + 1,
         arm \in {"types", "file"}
  PROVE  AtInv' /\ KeysInv' /\ SourcesInv' /\ MemberEdgesAreProven' /\ ModulesAreNotUsed'
<1> DEFINE old == DOMAIN edges
           added == DOMAIN edges' \ DOMAIN edges
<1>0. DOMAIN edges' = old \cup added /\ at \in Int
  <2>1. old \subseteq DOMAIN edges'
    BY DEF Emits
  <2>2. at \in Int
    BY PositionsAssumption DEF PassInv, TypeOK
  <2> QED BY <2>1, <2>2
<1>1. \A i \in old : edges'[i] = edges[i]
  BY DEF Emits
<1>2. \A i \in old : edges[i] \in Relations /\ edges[i].pos \in Int /\ edges[i].pos < at
  <2>1. \A i \in old : edges[i] \in Relations
    BY DEF PassInv, TypeOK
  <2> QED BY <2>1, PositionsAssumption DEF PassInv, Relations, AtInv
<1>3. AtInv'
  <2>1. \A i \in old : edges'[i].pos < at + 1
    BY <1>0, <1>1, <1>2
  <2>2. \A i \in added : edges'[i].pos < at + 1
    <3>1. \A i \in added : edges'[i].pos = at
      BY DEF Emits
    <3> QED BY <1>0, <3>1
  <2> QED BY <1>0, <2>1, <2>2 DEF AtInv
<1>4. KeysInv'
  <2> SUFFICES ASSUME arm = "types"
               PROVE  /\ \A i \in DOMAIN edges' :
                           edges'[i].dst # subject /\ <<subject, edges'[i].dst, "any">> \in seen'
                      /\ \A i, j \in DOMAIN edges' : edges'[i].dst = edges'[j].dst => i = j
    BY DEF KeysInv
  <2>1. Source = subject
    BY DEF Source
  <2>2. \A i \in old : /\ edges'[i].dst # subject
                       /\ <<subject, edges'[i].dst, "any">> \in seen
                       /\ <<subject, edges'[i].dst, "any">> \in seen'
    BY <1>1 DEF PassInv, KeysInv, Emits
  <2>3. \A i \in added : /\ edges'[i].dst # subject
                         /\ <<subject, edges'[i].dst, "any">> \in seen'
                         /\ <<subject, edges'[i].dst, "any">> \notin seen
    BY <2>1 DEF Emits
  <2>4. \A i, j \in old : edges'[i].dst = edges'[j].dst => i = j
    BY <1>1 DEF PassInv, KeysInv
  <2>5. \A i, j \in added : edges'[i].dst = edges'[j].dst => i = j
    BY DEF Emits
  <2> HIDE DEF old, added
  <2> QED BY <1>0, <2>2, <2>3, <2>4, <2>5
<1>5. SourcesInv'
  BY DEF SourcesInv
<1>6. MemberEdgesAreProven'
  <2>1. \A i \in old : edges'[i].rule = "lsp_member_on_module" => <<edges'[i].pos, edges'[i].dst>> \in proven
    BY <1>1 DEF PassInv, MemberEdgesAreProven
  <2>2. \A i \in added : edges'[i].rule = "lsp_member_on_module" => <<edges'[i].pos, edges'[i].dst>> \in proven
    BY DEF Emits
  <2> QED BY <1>0, <2>1, <2>2 DEF MemberEdgesAreProven
<1>7. ModulesAreNotUsed'
  <2>1. \A i \in old : edges'[i].rule \in {"lsp_references", "lsp_definition"} => edges'[i].pos \notin namesModule
    BY <1>1 DEF PassInv, ModulesAreNotUsed
  <2>2. \A i \in added : edges'[i].rule \in {"lsp_references", "lsp_definition"} => edges'[i].pos \notin namesModule
    BY DEF Emits
  <2> QED BY <1>0, <2>1, <2>2 DEF ModulesAreNotUsed
<1> QED BY <1>3, <1>4, <1>5, <1>6, <1>7

\* The exports bound become edges of the member.
LEMMA BindEmits == PassInv /\ Bind => Emits
<1> SUFFICES ASSUME PassInv, Bind PROVE Emits
  OBVIOUS
<1> DEFINE S == Fresh(MemberEdges, MemberKeys)
<1>1. /\ DOMAIN bound = 1 .. Len(bound) /\ Len(bound) \in Nat
      /\ \A n \in DOMAIN bound : bound[n] \in Subjects /\ <<at, bound[n]>> \in proven
  BY DEF PassInv, TypeOK, BoundInv
<1>2. /\ DOMAIN MemberEdges = 1 .. Len(bound) /\ DOMAIN MemberKeys = 1 .. Len(bound)
      /\ \A n \in 1 .. Len(bound) :
           /\ MemberEdges[n].dst = bound[n] /\ MemberEdges[n].pos = at
           /\ MemberEdges[n].rule = "lsp_member_on_module"
           /\ arm = "types" => MemberKeys[n] = <<Source, bound[n], "any">>
  BY <1>1 DEF MemberEdges, MemberKeys, CitedEdge
<1>3. \A n \in 1 .. Len(bound) : MemberEdges[n] \in Relations
  <2>1. at \in DOMAIN Positions /\ Source \in Subjects
    BY DEF PassInv, PlaceInv, Bind, InLoop
  <2>2. at \in 0 .. Len(Positions) /\ <<Here.line, Here.member>> \in Nat \X Nat
    BY <2>1, PositionsAssumption DEF Here
  <2> QED BY <1>1, <2>1, <2>2 DEF MemberEdges, CitedEdge, Relations
<1>4. /\ S \in SUBSET (1 .. Len(bound))
      /\ \A n \in S : /\ bound[n] # Source /\ MemberKeys[n] \notin seen
                      /\ \A m \in 1 .. n - 1 : MemberKeys[m] # MemberKeys[n]
  BY <1>2 DEF Fresh
<1>5. seen' = seen \cup {MemberKeys[n] : n \in S} /\ Extends(edges, edges', MemberEdges, S)
  BY DEF Bind, Emit, Extends
<1> HIDE DEF S
<1>6. edges \in Seq(Relations)
  BY DEF PassInv, TypeOK
<1>7. \A n \in S : MemberEdges[n] \in Relations
  BY <1>3, <1>4
<1>8. edges' \in Seq(Relations) /\ Adds(edges, edges', MemberEdges, S)
  BY ONLY <1>1, <1>4, <1>5, <1>6, <1>7, Extended
<1>9. ASSUME NEW i \in DOMAIN edges' \ DOMAIN edges
      PROVE  /\ edges'[i].pos = at /\ edges'[i].dst # Source
             /\ edges'[i].rule = "lsp_member_on_module" /\ <<at, edges'[i].dst>> \in proven
             /\ arm = "types" => <<Source, edges'[i].dst, "any">> \in seen' \ seen
  <2>1. PICK n \in S : edges'[i] = MemberEdges[n]
    BY <1>8 DEF Adds
  <2>2. n \in 1 .. Len(bound) /\ n \in DOMAIN bound
    BY <1>1, <1>4
  <2>3. MemberKeys[n] \in seen' \ seen
    BY <1>4, <1>5
  <2>4. /\ edges'[i].dst = bound[n] /\ edges'[i].pos = at /\ edges'[i].rule = "lsp_member_on_module"
        /\ arm = "types" => MemberKeys[n] = <<Source, edges'[i].dst, "any">>
    BY ONLY <1>2, <2>1, <2>2
  <2>5. bound[n] # Source /\ <<at, bound[n]>> \in proven
    BY <1>1, <1>4, <2>2
  <2> QED BY ONLY <2>3, <2>4, <2>5
<1>10. ASSUME arm = "types", NEW m \in S, NEW n \in S, m # n
       PROVE  bound[m] # bound[n]
  <2>1. m \in 1 .. Len(bound) /\ n \in 1 .. Len(bound)
    BY <1>4
  <2>2. m \in 1 .. n - 1 \/ n \in 1 .. m - 1
    BY <1>10, <2>1
  <2>3. MemberKeys[m] # MemberKeys[n]
    BY <1>4, <2>2
  <2> QED BY <1>2, <1>10, <2>1, <2>3
<1>11. ASSUME arm = "types", NEW i \in DOMAIN edges' \ DOMAIN edges, NEW j \in DOMAIN edges' \ DOMAIN edges, i # j
       PROVE  edges'[i].dst # edges'[j].dst
  <2>1. PICK m \in S, n \in S : m # n /\ edges'[i] = MemberEdges[m] /\ edges'[j] = MemberEdges[n]
    BY <1>8, <1>11 DEF Adds
  <2> QED BY <1>2, <1>4, <1>10, <1>11, <2>1
<1>12. seen \subseteq seen'
  BY <1>5
<1> QED BY <1>8, <1>9, <1>11, <1>12 DEF Emits, Adds

\* The locations answered become edges of the identifier, which is no module.
LEMMA PlainEmits == PassInv /\ Plain => Emits
<1> SUFFICES ASSUME PassInv, Plain PROVE Emits
  OBVIOUS
<1>0. PICK r \in Answers :
        Emit([n \in DOMAIN r |-> PlainEdge(r[n], Target(r[n]))],
             [n \in DOMAIN r |-> PlainKey(r[n], Target(r[n]))])
  BY DEF Plain
<1> DEFINE found == [n \in DOMAIN r |-> PlainEdge(r[n], Target(r[n]))]
           keys  == [n \in DOMAIN r |-> PlainKey(r[n], Target(r[n]))]
           S     == Fresh(found, keys)
<1>1. /\ DOMAIN r = 1 .. Len(r) /\ Len(r) \in Nat
      /\ \A n \in DOMAIN r : r[n] \in Locations
  BY AnswersAreSequences
<1>2. /\ DOMAIN found = 1 .. Len(r) /\ DOMAIN keys = 1 .. Len(r)
      /\ \A n \in 1 .. Len(r) :
           /\ found[n].dst = Target(r[n]) /\ found[n].pos = at
           /\ found[n].rule \in {"lsp_references", "lsp_definition"}
           /\ arm = "types" => keys[n] = <<Source, Target(r[n]), "any">>
  BY <1>1 DEF PlainEdge, PlainKey, CitedEdge
<1>3. \A n \in 1 .. Len(r) : Target(r[n]) # NoEntity => found[n] \in Relations
  <2>1. at \in DOMAIN Positions /\ Source \in Subjects
    BY DEF PassInv, PlaceInv, Plain, InLoop
  <2>2. at \in 0 .. Len(Positions) /\ <<Here.line, Here.col>> \in Nat \X Nat
    BY <2>1, PositionsAssumption DEF Here
  <2>3. ASSUME NEW n \in 1 .. Len(r), Target(r[n]) # NoEntity
        PROVE  found[n] \in Relations
    <3>1. r[n] \in Locations /\ Target(r[n]) \in Subjects
      BY <1>1, <2>3, TargetIsSubject
    <3>2. <<r[n].line, r[n].col>> \in Nat \X Nat
      BY <3>1, PassesAssumption
    <3>3. found[n] = PlainEdge(r[n], Target(r[n]))
      BY <1>1
    <3> HIDE DEF found
    <3> QED BY <2>1, <2>2, <3>1, <3>2, <3>3 DEF PlainEdge, CitedEdge, Relations
  <2> QED BY <2>3
<1> HIDE DEF found, keys
<1>4. /\ S \in SUBSET (1 .. Len(r))
      /\ \A n \in S : /\ found[n].dst \notin {NoEntity, Source} /\ keys[n] \notin seen
                      /\ \A m \in 1 .. n - 1 : keys[m] # keys[n]
  BY <1>2 DEF Fresh
<1>5. seen' = seen \cup {keys[n] : n \in S} /\ Extends(edges, edges', found, S)
  BY <1>0 DEF Emit, Extends, found, keys
<1> HIDE DEF S
<1>6. edges \in Seq(Relations)
  BY DEF PassInv, TypeOK
<1>7. \A n \in S : found[n] \in Relations
  <2> SUFFICES ASSUME NEW n \in S PROVE found[n] \in Relations
    OBVIOUS
  <2>1. n \in 1 .. Len(r) /\ found[n].dst # NoEntity
    BY <1>4
  <2> QED BY <1>2, <1>3, <2>1
<1>8. edges' \in Seq(Relations) /\ Adds(edges, edges', found, S)
  BY ONLY <1>1, <1>4, <1>5, <1>6, <1>7, Extended
<1>9. at \notin namesModule
  <2>1. pc = "plain" /\ at \in Int
    BY PositionsAssumption DEF PassInv, TypeOK, Plain
  <2> QED BY <2>1 DEF PassInv, ModulesInv
<1>10. ASSUME NEW i \in DOMAIN edges' \ DOMAIN edges
       PROVE  /\ edges'[i].pos = at /\ edges'[i].dst # Source
              /\ edges'[i].rule \in {"lsp_references", "lsp_definition"}
              /\ arm = "types" => <<Source, edges'[i].dst, "any">> \in seen' \ seen
  <2>1. PICK n \in S : edges'[i] = found[n]
    BY <1>8 DEF Adds
  <2>2. n \in 1 .. Len(r) /\ found[n].dst # Source
    BY <1>4
  <2>3. keys[n] \in seen' \ seen
    BY <1>4, <1>5
  <2>4. /\ edges'[i].pos = at /\ edges'[i].rule \in {"lsp_references", "lsp_definition"}
        /\ arm = "types" => keys[n] = <<Source, edges'[i].dst, "any">>
    BY ONLY <1>2, <2>1, <2>2
  <2> QED BY ONLY <2>1, <2>2, <2>3, <2>4
<1>11. ASSUME arm = "types", NEW m \in S, NEW n \in S, m # n
       PROVE  found[m].dst # found[n].dst
  <2>1. m \in 1 .. Len(r) /\ n \in 1 .. Len(r)
    BY <1>4
  <2>2. m \in 1 .. n - 1 \/ n \in 1 .. m - 1
    BY <1>11, <2>1
  <2>3. keys[m] # keys[n]
    BY <1>4, <2>2
  <2> QED BY <1>2, <1>11, <2>1, <2>3
<1>12. ASSUME arm = "types", NEW i \in DOMAIN edges' \ DOMAIN edges, NEW j \in DOMAIN edges' \ DOMAIN edges, i # j
       PROVE  edges'[i].dst # edges'[j].dst
  <2>1. PICK m \in S, n \in S : m # n /\ edges'[i] = found[m] /\ edges'[j] = found[n]
    BY <1>8, <1>12 DEF Adds
  <2> QED BY <1>11, <1>12, <2>1
<1>13. seen \subseteq seen'
  BY <1>5
<1> QED BY <1>8, <1>9, <1>10, <1>12, <1>13 DEF Emits, Adds

LEMMA BindKeeps == PassInv /\ Bind => PassInv'
<1> SUFFICES ASSUME PassInv, Bind PROVE PassInv'
  OBVIOUS
<1>0. /\ at' = at + 1 /\ at \in Nat /\ at \in DOMAIN Positions /\ at' \in 1 .. Len(Positions) + 1
      /\ pc = "candidate" /\ pc' = "next" /\ arm \in {"types", "file"}
  BY PositionsAssumption DEF PassInv, TypeOK, PlaceInv, InLoop, Bind, Kinds
<1>1. Emits
  BY BindEmits
<1>2. TypeOK'
  <2>1. edges' \in Seq(Relations)
    BY <1>1 DEF Emits
  <2> QED BY <1>0, <2>1, AnswersAreSequences DEF PassInv, TypeOK, Bind, given, history
<1>3. PlaceInv'
  BY <1>0 DEF PassInv, PlaceInv, Bind, given, InLoop, Kinds
<1>4. FailInv' /\ BoundInv' /\ ModulesInv'
  <2>1. FailInv' /\ BoundInv'
    BY <1>0 DEF PassInv, FailInv, BoundInv, Bind, given, history, Kinds
  <2>2. \A x \in namesModule : x \in Int /\ x < at + 1
    BY <1>0, PositionsAssumption DEF PassInv, TypeOK, ModulesInv
  <2>3. ModulesInv'
    BY <1>0, <2>2 DEF ModulesInv, Bind, history
  <2> QED BY <2>1, <2>3
<1>5. AtInv' /\ KeysInv' /\ SourcesInv' /\ MemberEdgesAreProven' /\ ModulesAreNotUsed'
  BY <1>0, <1>1, EmitsKeeps DEF Bind, given, history
<1> QED BY <1>2, <1>3, <1>4, <1>5 DEF PassInv

LEMMA PlainKeeps == PassInv /\ Plain => PassInv'
<1> SUFFICES ASSUME PassInv, Plain PROVE PassInv'
  OBVIOUS
<1>0. /\ at' = at + 1 /\ at \in Nat /\ at \in DOMAIN Positions /\ at' \in 1 .. Len(Positions) + 1
      /\ pc = "plain" /\ pc' = "next" /\ arm \in {"types", "file"}
  BY PositionsAssumption DEF PassInv, TypeOK, PlaceInv, InLoop, Plain, Kinds
<1>1. Emits
  BY PlainEmits
<1>2. TypeOK'
  <2>1. edges' \in Seq(Relations)
    BY <1>1 DEF Emits
  <2> QED BY <1>0, <2>1 DEF PassInv, TypeOK, Plain, given, position
<1>3. PlaceInv'
  BY <1>0 DEF PassInv, PlaceInv, Plain, given, InLoop, Kinds
<1>4. FailInv' /\ BoundInv' /\ ModulesInv'
  <2>1. FailInv' /\ BoundInv'
    BY <1>0 DEF PassInv, FailInv, BoundInv, Plain, given, position, Kinds
  <2>2. \A x \in namesModule : x \in Int /\ x < at + 1
    BY <1>0, PositionsAssumption DEF PassInv, TypeOK, ModulesInv
  <2>3. ModulesInv'
    BY <1>0, <2>2 DEF ModulesInv, Plain, history
  <2> QED BY <2>1, <2>3
<1>5. AtInv' /\ KeysInv' /\ SourcesInv' /\ MemberEdgesAreProven' /\ ModulesAreNotUsed'
  BY <1>0, <1>1, EmitsKeeps DEF Plain, given
<1> QED BY <1>2, <1>3, <1>4, <1>5 DEF PassInv

-----------------------------------------------------------------------------
(* The end of a pass. *)

LEMMA EndOfTextKeeps == PassInv /\ EndOfText => PassInv'
<1> SUFFICES ASSUME PassInv, EndOfText PROVE PassInv'
  OBVIOUS
<1>0. /\ at' = at /\ at \in Nat /\ pc = "next" /\ arm \in {"types", "file"}
      /\ (pc' = "calls" /\ arm = "file") \/ pc' = "close"
  BY PositionsAssumption DEF PassInv, TypeOK, PlaceInv, EndOfText, Kinds
<1>1. todo' \in Seq(Subjects)
  <2>1. IsFiniteSet({1})
    BY FS_Singleton
  <2>2. EntitiesInFile(Index, File) \subseteq Subjects
    BY DEF EntitiesInFile, Index, Subjects
  <2>3. {1} \X EntitiesInFile(Index, File) \in SUBSET ({1} \X Subjects)
    BY <2>2
  <2> HIDE DEF Queue
  <2>4. todo' \in Queue({1} \X EntitiesInFile(Index, File)) \/ todo' = <<>>
    BY DEF EndOfText
  <2>5. \A q \in Queue({1} \X EntitiesInFile(Index, File)) : q \in Seq(Subjects)
    BY ONLY <2>1, <2>3, QueueIsSequence
  <2>6. <<>> \in Seq(Subjects)
    OBVIOUS
  <2> QED BY ONLY <2>4, <2>5, <2>6
<1>2. TypeOK'
  BY <1>0, <1>1 DEF PassInv, TypeOK, EndOfText, given, position, output, history
<1>3. PlaceInv'
  BY <1>0 DEF PassInv, PlaceInv, EndOfText, given, InLoop, Kinds
<1>4. FailInv' /\ BoundInv' /\ ModulesInv'
  BY <1>0 DEF PassInv, FailInv, BoundInv, ModulesInv, EndOfText, given, position, output, history, Kinds
<1>5. AtInv' /\ KeysInv' /\ SourcesInv' /\ MemberEdgesAreProven' /\ ModulesAreNotUsed'
  BY <1>0, EdgesStay DEF EndOfText, given, output, history
<1> QED BY <1>2, <1>3, <1>4, <1>5 DEF PassInv

LEMMA CallsKeeps == PassInv /\ Calls => PassInv'
<1> SUFFICES ASSUME PassInv, Calls PROVE PassInv'
  OBVIOUS
<1>0. /\ at' = at /\ at \in Nat /\ pc = "calls" /\ pc' = "prepare" /\ arm = "file" /\ arm' = arm
      /\ subject' \in Subjects /\ todo' \in Seq(Subjects)
  <2>1. arm = "file"
    BY DEF PassInv, TypeOK, PlaceInv, Calls, Kinds
  <2> QED BY <2>1, PositionsAssumption DEF PassInv, TypeOK, Calls
<1>1. TypeOK'
  BY <1>0 DEF PassInv, TypeOK, Calls, position, output, history
<1>2. PlaceInv'
  BY <1>0 DEF PassInv, PlaceInv, InLoop, Kinds
<1>3. FailInv' /\ BoundInv' /\ ModulesInv'
  BY <1>0 DEF PassInv, FailInv, BoundInv, ModulesInv, Calls, position, output, history, Kinds
<1>4. AtInv' /\ KeysInv' /\ SourcesInv' /\ MemberEdgesAreProven' /\ ModulesAreNotUsed'
  BY <1>0, EdgesStay DEF Calls, output, history
<1> QED BY <1>1, <1>2, <1>3, <1>4 DEF PassInv

LEMMA CallsDoneKeeps == PassInv /\ CallsDone => PassInv'
<1> SUFFICES ASSUME PassInv, CallsDone PROVE PassInv'
  OBVIOUS
<1>0. at' = at /\ at \in Nat /\ pc = "calls" /\ pc' = "close" /\ arm = "file"
  BY PositionsAssumption DEF PassInv, TypeOK, PlaceInv, CallsDone, Kinds
<1>1. TypeOK'
  BY <1>0 DEF PassInv, TypeOK, CallsDone, given, position, output, history
<1>2. PlaceInv'
  BY <1>0 DEF PassInv, PlaceInv, CallsDone, given, InLoop, Kinds
<1>3. FailInv' /\ BoundInv' /\ ModulesInv'
  BY <1>0 DEF PassInv, FailInv, BoundInv, ModulesInv, CallsDone, given, position, output, history, Kinds
<1>4. AtInv' /\ KeysInv' /\ SourcesInv' /\ MemberEdgesAreProven' /\ ModulesAreNotUsed'
  BY <1>0, EdgesStay DEF CallsDone, given, output, history
<1> QED BY <1>1, <1>2, <1>3, <1>4 DEF PassInv

\* What no edges satisfy.
LEMMA NoEdges ==
  ASSUME edges' = <<>>
  PROVE  AtInv' /\ KeysInv' /\ SourcesInv' /\ MemberEdgesAreProven' /\ ModulesAreNotUsed'
BY DEF AtInv, KeysInv, SourcesInv, MemberEdgesAreProven, ModulesAreNotUsed

LEMMA CloseKeeps == PassInv /\ Close => PassInv'
<1> SUFFICES ASSUME PassInv, Close PROVE PassInv'
  OBVIOUS
<1>0. /\ at' = at /\ at \in Nat /\ pc \in {"close", "failed"} /\ pc' = "done" /\ arm \in {"types", "file"}
      /\ \/ pc = "close" /\ result' = "ok" /\ edges' = edges
         \/ result' = "error" /\ edges' = <<>>
  BY PositionsAssumption DEF PassInv, TypeOK, PlaceInv, Close, Kinds
<1>1. TypeOK'
  <2>1. edges' \in Seq(Relations) /\ result' \in {"none", "ok", "error"}
    <3>1. edges \in Seq(Relations) /\ <<>> \in Seq(Relations)
      BY DEF PassInv, TypeOK
    <3> QED BY ONLY <1>0, <3>1
  <2> QED BY <1>0, <2>1 DEF PassInv, TypeOK, Close, given, position, history
<1>2. PlaceInv'
  BY <1>0 DEF PassInv, PlaceInv, Close, given, InLoop, Kinds
<1>3. FailInv' /\ BoundInv' /\ ModulesInv'
  BY <1>0 DEF PassInv, FailInv, BoundInv, ModulesInv, Close, given, position, history, Kinds
<1>4. AtInv' /\ KeysInv' /\ SourcesInv' /\ MemberEdgesAreProven' /\ ModulesAreNotUsed'
  BY <1>0, EdgesStay, NoEdges DEF Close, given, history
<1> QED BY <1>1, <1>2, <1>3, <1>4 DEF PassInv

-----------------------------------------------------------------------------
(* The steps of a pass about an entity. *)

\* The edge of each location.
Found(locations) == [n \in DOMAIN locations |-> EdgeTo(Target(locations[n]))]

\* An answer adds the edges of the locations that tell something.
LEMMA AnsweredAdds ==
  ASSUME PassInv, NEW locations \in Answers, Answered(locations)
  PROVE  /\ edges' \in Seq(Relations) /\ Adds(edges, edges', Found(locations), Telling(locations))
         /\ \A n \in Telling(locations) :
              /\ n \in DOMAIN locations /\ locations[n] \in Locations
              /\ Found(locations)[n] = EdgeTo(Target(locations[n]))
              /\ Target(locations[n]) \in Subjects
<1> DEFINE S == Telling(locations)
<1>1. /\ DOMAIN locations = 1 .. Len(locations) /\ Len(locations) \in Nat
      /\ \A n \in DOMAIN locations : locations[n] \in Locations
  BY AnswersAreSequences
<1>2. S \in SUBSET (1 .. Len(locations)) /\ \A n \in S : Target(locations[n]) # NoEntity
  BY <1>1 DEF Telling
<1>3. \A n \in S : /\ n \in DOMAIN locations /\ locations[n] \in Locations
                  /\ Found(locations)[n] = EdgeTo(Target(locations[n]))
                  /\ Target(locations[n]) \in Subjects
  BY <1>1, <1>2, TargetIsSubject DEF Found
<1> HIDE DEF S
<1>4. subject \in Subjects /\ arm \in Kinds \cup {"file"}
  BY DEF PassInv, PlaceInv, TypeOK, Answered
<1>5. \A n \in S : Found(locations)[n] \in Relations
  <2> SUFFICES ASSUME NEW n \in S PROVE EdgeTo(Target(locations[n])) \in Relations
    BY <1>3
  <2>1. Target(locations[n]) \in Subjects
    BY <1>3
  <2>2. 0 \in 0 .. Len(Positions) /\ <<0, 0>> \in Nat \X Nat
    BY PositionsAssumption
  <2>3. Kind \in Kinds
    BY <1>4 DEF Kind, Kinds
  <2> QED BY <1>4, <2>1, <2>2, <2>3 DEF EdgeTo, Edge, Relations
<1>6. PICK told \in Ascending(S) :
        edges' = edges \o [k \in DOMAIN told |-> EdgeTo(Target(locations[told[k]]))]
  BY DEF Answered, Returns, S
<1>7. \A k \in DOMAIN told : told[k] \in S
  BY <1>1, <1>2, ArrangedIndices
<1>8. [k \in DOMAIN told |-> EdgeTo(Target(locations[told[k]]))]
        = [k \in DOMAIN told |-> Found(locations)[told[k]]]
  BY ONLY <1>3, <1>7
<1>9. Extends(edges, edges', Found(locations), S)
  BY ONLY <1>6, <1>8 DEF Extends
<1>10. edges \in Seq(Relations)
  BY DEF PassInv, TypeOK
<1>11. edges' \in Seq(Relations) /\ Adds(edges, edges', Found(locations), S)
  BY ONLY <1>1, <1>2, <1>5, <1>9, <1>10, Extended
<1> QED BY <1>3, <1>11 DEF S

\* What such a step leaves alone, but for the answer it gives.
LEMMA EntityStepKeeps == PassInv /\ EntityStep /\ UNCHANGED ofFile => PassInv'
<1> SUFFICES ASSUME PassInv, EntityStep, UNCHANGED ofFile PROVE PassInv'
  OBVIOUS
<1>0. at' = at /\ at \in Nat
  BY PositionsAssumption DEF PassInv, TypeOK, ofFile
<1>1. CASE Declines
  <2>1. arm \in Kinds /\ pc = "begin" /\ edges = <<>> /\ failures = 0
    BY <1>1 DEF PassInv, TypeOK, FailInv, Declines
  <2>2. edges' = <<>> /\ pc' = "done" /\ result' = "ok"
    BY <1>1, <2>1 DEF Declines, Returns, Kinds
  <2>3. TypeOK'
    BY <1>1, <2>1, <2>2 DEF PassInv, TypeOK, Declines, ofFile
  <2>4. PlaceInv'
    BY <1>1, <2>1, <2>2 DEF PassInv, PlaceInv, Declines, InLoop, Kinds
  <2>5. FailInv' /\ BoundInv' /\ ModulesInv'
    BY <1>1, <2>1, <2>2 DEF PassInv, FailInv, BoundInv, ModulesInv, Declines, ofFile
  <2>6. AtInv' /\ KeysInv' /\ SourcesInv' /\ MemberEdgesAreProven' /\ ModulesAreNotUsed'
    BY <2>2, NoEdges
  <2> QED BY <2>3, <2>4, <2>5, <2>6 DEF PassInv
<1>2. CASE Begins
  <2>1. arm \in Kinds /\ pc = "begin" /\ pc' \in {"query", "prepare"}
    BY <1>2 DEF Begins
  <2>2. TypeOK'
    BY <1>2, <2>1 DEF PassInv, TypeOK, Begins, ofFile
  <2>3. PlaceInv'
    BY <1>2, <2>1 DEF PassInv, PlaceInv, Begins, InLoop, Kinds
  <2>4. FailInv' /\ BoundInv' /\ ModulesInv'
    BY <1>2, <2>1 DEF PassInv, FailInv, BoundInv, ModulesInv, Begins, ofFile
  <2>5. AtInv' /\ KeysInv' /\ SourcesInv' /\ MemberEdgesAreProven' /\ ModulesAreNotUsed'
    BY <1>0, <1>2, EdgesStay DEF Begins, ofFile
  <2> QED BY <2>2, <2>3, <2>4, <2>5 DEF PassInv
<1>3. CASE RequestFails
  <2>1. pc \in {"prepare", "query"} /\ failures = 0 /\ arm \in Kinds \cup {"file"} /\ failures' = 1
    BY <1>3 DEF PassInv, TypeOK, PlaceInv, FailInv, RequestFails
  <2>2. \/ arm = "file" /\ pc' = "failed" /\ result' = result
        \/ arm \in Kinds /\ edges = <<>> /\ pc' = "done" /\ result' = "error"
    BY <1>3, <2>1 DEF PassInv, FailInv, RequestFails, Kinds
  <2>3. edges' = edges
    BY <1>3 DEF RequestFails
  <2>4. TypeOK'
    BY <1>3, <2>1, <2>2, <2>3 DEF PassInv, TypeOK, RequestFails, ofFile
  <2>5. PlaceInv'
    BY <1>3, <2>1, <2>2 DEF PassInv, PlaceInv, RequestFails, InLoop, Kinds
  <2>6. FailInv' /\ BoundInv' /\ ModulesInv'
    BY <1>3, <2>1, <2>2, <2>3 DEF PassInv, FailInv, BoundInv, ModulesInv, RequestFails, ofFile, Kinds
  <2>7. AtInv' /\ KeysInv' /\ SourcesInv' /\ MemberEdgesAreProven' /\ ModulesAreNotUsed'
    BY <1>0, <1>3, EdgesStay DEF RequestFails, ofFile
  <2> QED BY <2>4, <2>5, <2>6, <2>7 DEF PassInv
<1>4. CASE Prepared
  <2>1. /\ pc = "prepare" /\ failures = 0 /\ arm \in Kinds \cup {"file"}
        /\ arm \in Kinds => edges = <<>>
        /\ edges \in Seq(Relations)
    BY <1>4 DEF PassInv, TypeOK, PlaceInv, FailInv, Prepared
  <2>2. edges' = edges
    BY <1>4, <2>1 DEF Prepared, Returns
  <2>3. \/ pc' = "query" /\ result' = result
        \/ arm = "file" /\ pc' = "calls" /\ result' = result
        \/ arm \in Kinds /\ pc' = "done" /\ result' = "ok"
    BY <1>4, <2>1 DEF Prepared, Returns, Kinds
  <2>4. TypeOK'
    BY <1>4, <2>1, <2>2, <2>3 DEF PassInv, TypeOK, Prepared, ofFile
  <2>5. PlaceInv'
    BY <1>4, <2>1, <2>3 DEF PassInv, PlaceInv, Prepared, InLoop, Kinds
  <2>6. FailInv' /\ BoundInv' /\ ModulesInv'
    BY <1>4, <2>1, <2>2, <2>3 DEF PassInv, FailInv, BoundInv, ModulesInv, Prepared, ofFile, Kinds
  <2>7. AtInv' /\ KeysInv' /\ SourcesInv' /\ MemberEdgesAreProven' /\ ModulesAreNotUsed'
    BY <1>0, <1>4, <2>2, EdgesStay DEF Prepared, ofFile
  <2> QED BY <2>4, <2>5, <2>6, <2>7 DEF PassInv
<1>5. CASE \E locations \in Answers : Answered(locations)
  <2>1. PICK locations \in Answers : Answered(locations)
    BY <1>5
  <2> DEFINE S == Telling(locations)
             added == DOMAIN edges' \ DOMAIN edges
  <2>2. /\ edges' \in Seq(Relations) /\ Adds(edges, edges', Found(locations), S)
        /\ \A n \in S : Found(locations)[n] = EdgeTo(Target(locations[n]))
    BY <2>1, AnsweredAdds
  <2>3. /\ pc = "query" /\ failures = 0 /\ arm \in Kinds \cup {"file"}
        /\ arm \in Kinds => edges = <<>>
    BY <2>1 DEF PassInv, TypeOK, PlaceInv, FailInv, Answered
  <2>4. \/ arm = "file" /\ pc' = "calls" /\ result' = result
        \/ arm \in Kinds /\ pc' = "done" /\ result' = "ok"
    BY <2>1, <2>3 DEF Answered, Returns, Kinds
  <2>5. UNCHANGED <<arm, subject, supported, failures>> /\ answers' = locations
    BY <2>1 DEF Answered
  <2>6. DOMAIN edges' = DOMAIN edges \cup added /\ \A i \in DOMAIN edges : edges'[i] = edges[i]
    BY <2>2 DEF Adds
  <2>7. \A i \in added : edges'[i].rule = "none" /\ edges'[i].pos = 0
    <3>1. \A e : EdgeTo(e).rule = "none" /\ EdgeTo(e).pos = 0
      BY DEF EdgeTo, Edge
    <3>2. \A n \in S : Found(locations)[n].rule = "none" /\ Found(locations)[n].pos = 0
      BY ONLY <2>2, <3>1
    <3>3. \A i \in added : \E n \in S : edges'[i] = Found(locations)[n]
      BY <2>2 DEF Adds
    <3> QED BY ONLY <3>2, <3>3
  <2>8. TypeOK'
    BY <2>2, <2>3, <2>4, <2>5 DEF PassInv, TypeOK, ofFile
  <2>9. PlaceInv'
    BY <2>3, <2>4, <2>5 DEF PassInv, PlaceInv, InLoop, Kinds
  <2>10. FailInv' /\ BoundInv' /\ ModulesInv'
    BY <2>3, <2>4, <2>5 DEF PassInv, FailInv, BoundInv, ModulesInv, ofFile, Kinds
  <2> HIDE DEF added
  <2>11. AtInv'
    <3>1. 0 < at
      BY PositionsAssumption DEF PassInv, TypeOK
    <3> QED BY <1>0, <2>6, <2>7, <3>1 DEF PassInv, AtInv
  <2>12. KeysInv'
    BY <2>3, <2>5 DEF KeysInv, Kinds
  <2>13. SourcesInv'
    <3> SUFFICES ASSUME arm = "references"
                 PROVE  /\ \A i \in DOMAIN edges' : edges'[i].src # subject
                        /\ \A i, j \in DOMAIN edges' : edges'[i].src = edges'[j].src => i = j
      BY <2>5 DEF SourcesInv
    <3>1. DOMAIN edges' = added
      BY <2>3, <2>6 DEF Kinds
    <3>2. \A n \in S : Found(locations)[n].src = Target(locations[n])
      <4>1. \A e : EdgeTo(e).src = e
        BY DEF EdgeTo, Edge, Kind
      <4> QED BY ONLY <2>2, <4>1
    <3>3. \A n \in S : /\ n \in Int /\ Target(locations[n]) # subject
                      /\ \A m \in 1 .. n - 1 : Target(locations[m]) # Target(locations[n])
      BY AnswersAreSequences DEF Telling, Kind
    <3> HIDE DEF S
    <3>4. \A m, n \in S : m # n => Target(locations[m]) # Target(locations[n])
      <4> SUFFICES ASSUME NEW m \in S, NEW n \in S, m < n
                   PROVE  Target(locations[m]) # Target(locations[n])
        BY <3>3
      <4>1. m \in 1 .. n - 1
        BY <3>3, AnswersAreSequences DEF S, Telling
      <4> QED BY <3>3, <4>1
    <3>5. \A i \in added : \E n \in S : edges'[i] = Found(locations)[n]
      BY <2>2 DEF Adds, added
    <3>6. \A i, j \in added : i # j => \E m, n \in S :
            m # n /\ edges'[i] = Found(locations)[m] /\ edges'[j] = Found(locations)[n]
      BY <2>2 DEF Adds, added
    <3> QED BY ONLY <3>1, <3>2, <3>3, <3>4, <3>5, <3>6
  <2>14. MemberEdgesAreProven' /\ ModulesAreNotUsed'
    BY <2>6, <2>7 DEF PassInv, MemberEdgesAreProven, ModulesAreNotUsed, ofFile
  <2> QED BY <2>8, <2>9, <2>10, <2>11, <2>12, <2>13, <2>14 DEF PassInv
<1> QED BY <1>1, <1>2, <1>3, <1>4, <1>5 DEF EntityStep

\* A step that changes nothing keeps everything.
LEMMA StutterKeeps == PassInv /\ UNCHANGED vars => PassInv'
<1> SUFFICES ASSUME PassInv, UNCHANGED vars PROVE PassInv'
  OBVIOUS
<1>0. at' = at /\ at \in Nat
  BY PositionsAssumption DEF PassInv, TypeOK, vars, ofFile
<1>1. TypeOK'
  BY DEF PassInv, TypeOK, vars, ofEntity, ofFile
<1>2. PlaceInv'
  <2>1. Source' = Source
    BY SourceStays DEF vars, ofEntity, ofFile
  <2> QED BY <2>1 DEF PassInv, PlaceInv, vars, ofEntity, ofFile
<1>3. FailInv' /\ BoundInv' /\ ModulesInv'
  BY DEF PassInv, FailInv, BoundInv, ModulesInv, vars, ofEntity, ofFile
<1>4. AtInv' /\ KeysInv' /\ SourcesInv' /\ MemberEdgesAreProven' /\ ModulesAreNotUsed'
  BY <1>0, EdgesStay DEF vars, ofEntity, ofFile
<1> QED BY <1>1, <1>2, <1>3, <1>4 DEF PassInv

LEMMA NextPasses == PassInv /\ [Next]_vars => PassInv'
<1> SUFFICES ASSUME PassInv, [Next]_vars PROVE PassInv'
  OBVIOUS
<1>1. CASE Begin BY <1>1, BeginKeeps
<1>2. CASE Skip BY <1>2, SkipKeeps
<1>3. CASE Identifier BY <1>3, IdentifierKeeps
<1>4. CASE QueryFails BY <1>4, QueryFailsKeeps
<1>5. CASE Receiver BY <1>5, ReceiverKeeps
<1>6. CASE ModuleType BY <1>6, ModuleTypeKeeps
<1>7. CASE MemberDefinition BY <1>7, MemberDefinitionKeeps
<1>8. CASE Decline BY <1>8, DeclineKeeps
<1>9. CASE AskCandidate BY <1>9, AskCandidateKeeps
<1>10. CASE Bind BY <1>10, BindKeeps
<1>11. CASE Plain BY <1>11, PlainKeeps
<1>12. CASE EndOfText BY <1>12, EndOfTextKeeps
<1>13. CASE Calls BY <1>13, CallsKeeps
<1>14. CASE CallsDone BY <1>14, CallsDoneKeeps
<1>15. CASE Close BY <1>15, CloseKeeps
<1>16. CASE EntityStep /\ UNCHANGED ofFile BY <1>16, EntityStepKeeps
<1>17. CASE Done \/ UNCHANGED vars BY <1>17, StutterKeeps DEF Done
<1> QED
  BY <1>1, <1>2, <1>3, <1>4, <1>5, <1>6, <1>7, <1>8, <1>9, <1>10, <1>11, <1>12, <1>13, <1>14,
     <1>15, <1>16, <1>17 DEF Next

LEMMA PassesInvariant == Spec => []PassInv
<1> QED BY InitPasses, NextPasses, PTL DEF Spec

-----------------------------------------------------------------------------
(* The theorems. *)

\* Types of the passes' state: whatever the server answers, the edges are
\* between entities of the index.
THEOREM TypeCorrect == Spec => []TypeOK
<1>1. PassInv => TypeOK
  BY DEF PassInv
<1> QED BY <1>1, PassesInvariant, PTL

\* A pass one of whose queries failed ends in an error and gives no edges,
\* whatever it had found (README.md:95).
THEOREM FailuresAreErrorsHolds == Spec => []FailuresAreErrors
<1>1. PassInv => FailuresAreErrors
  BY DEF PassInv, FailInv, FailuresAreErrors
<1> QED BY <1>1, PassesInvariant, PTL

\* Every edge of a member of a module rests on two answers that name the same
\* place (enrichment.rs:696).
THEOREM MemberEdgesAreProvenHolds == Spec => []MemberEdgesAreProven
<1>1. PassInv => MemberEdgesAreProven
  BY DEF PassInv
<1> QED BY <1>1, PassesInvariant, PTL

\* No edge says that a module is used, or a type, where its member is
\* (enrichment.rs:900).
THEOREM ModulesAreNotUsedHolds == Spec => []ModulesAreNotUsed
<1>1. PassInv => ModulesAreNotUsed
  BY DEF PassInv
<1> QED BY <1>1, PassesInvariant, PTL

\* A types pass names each type once, a references pass each entity, and
\* neither names its own.
THEOREM NamedOnceHolds == Spec => []NamedOnce
<1>1. PassInv => NamedOnce
  BY DEF PassInv, KeysInv, SourcesInv, NamedOnce
<1> QED BY <1>1, PassesInvariant, PTL

\* A list of entities is of finitely many files.
LEMMA FilesAreFinite ==
  ASSUME NEW es, Len(es) \in Nat, DOMAIN es = 1 .. Len(es)
  PROVE  IsFiniteSet(FilesOf(es))
<1>1. IsFiniteSet(1 .. Len(es))
  BY FS_Interval
<1> DEFINE F == [i \in 1 .. Len(es) |-> es[i].file]
<1>2. F \in Surjection(1 .. Len(es), FilesOf(es))
  BY DEF FilesOf, Surjection
<1> HIDE DEF F
<1> QED BY <1>1, <1>2, FS_Surjection

\* Of some keys of a map one is the first it enumerates.
LEMMA FirstOfIsIn ==
  ASSUME NEW keys, IsFiniteSet(keys), NEW order \in Enumerations(keys), NEW S \in SUBSET keys, S # {}
  PROVE  FirstOf(order, S) \in S
<1> DEFINE D == {n \in DOMAIN order : order[n] \in S}
<1>0. Cardinality(keys) \in Nat
  BY FS_CardinalityType
<1>1. DOMAIN order = 1 .. Cardinality(keys) /\ \A k \in keys : \E n \in DOMAIN order : order[n] = k
  BY DEF Enumerations, ToSet
<1>2. D \subseteq Nat /\ D # {}
  BY <1>1
<1>3. PICK n \in D : \A m \in D : n <= m
  BY <1>2, LeastExists
<1>4. \A m \in 1 .. n - 1 : order[m] \notin S
  <2> SUFFICES ASSUME NEW m \in 1 .. n - 1, order[m] \in S PROVE FALSE
    OBVIOUS
  <2>1. m \in 1 .. Cardinality(keys) /\ m < n
    BY <1>0, <1>1, <1>2, <1>3
  <2> QED BY <1>1, <1>3, <2>1
<1>5. n \in DOMAIN order /\ order[n] \in S
  BY <1>3
<1> HIDE DEF D
<1> QED BY <1>4, <1>5 DEF FirstOf

\* The entity a location maps to is in a file that looks like the answered path,
\* in the only one if there is but one.
LEMMA TargetLooksAlike ==
  ASSUME NEW l \in Locations, Target(l) # NoEntity
  PROVE  /\ Holds(Entities[Target(l)], l.line)
         /\ Entities[Target(l)].file \in LookAlikes(Index, l.path)
<1> DEFINE t == Target(l)
<1>1. /\ t \in Subjects /\ Holds(Entities[t], l.line) /\ Entities[t].file = FileFor(Index, l.path)
  BY FoundIsThere, PassesAssumption DEF Target
<1>2. Entities[t].file \in FilesOf(Entities) /\ Len(Entities[t].file) \in Nat
  BY <1>1, PassesAssumption DEF FilesOf, Subjects
<1>3. CASE l.path \in FilesOf(Entities)
  <2>1. Entities[t].file = l.path
    BY <1>1, <1>3 DEF FileFor, Index
  <2>2. Len(Reverse(l.path)) = Len(l.path)
    BY <1>2, <2>1 DEF Reverse
  <2>3. EndsWith(l.path, l.path)
    BY <1>2, <2>1, <2>2 DEF EndsWith, IsSuffix, IsPrefix
  <2> QED BY <1>1, <1>2, <2>1, <2>3 DEF LookAlikes, Index
<1>4. CASE l.path \notin FilesOf(Entities) /\ LookAlikes(Index, l.path) # {}
  <2>1. FileFor(Index, l.path) = FirstOf(Order, LookAlikes(Index, l.path))
    BY <1>4 DEF FileFor, Index
  <2>2. LookAlikes(Index, l.path) \in SUBSET FilesOf(Entities)
    BY DEF LookAlikes, Index
  <2>3. IsFiniteSet(FilesOf(Entities)) /\ Order \in Enumerations(FilesOf(Entities))
    BY FilesAreFinite, PassesAssumption
  <2> QED BY <1>1, <1>4, <2>1, <2>2, <2>3, FirstOfIsIn
<1>5. CASE l.path \notin FilesOf(Entities) /\ LookAlikes(Index, l.path) = {}
  <2>1. Entities[t].file = NoPath
    BY <1>1, <1>5 DEF FileFor, Index
  <2>2. t \in DOMAIN Entities /\ \A i \in DOMAIN Entities : Entities[i].file # NoPath
    BY <1>1, PassesAssumption DEF Subjects
  <2> QED BY <2>1, <2>2
<1> QED BY <1>1, <1>3, <1>4, <1>5

\* Every edge of a pass about an entity leads to an entity that holds a line the
\* server named, in a file that looks like the one the server named; in that very
\* file, if it is of the workspace and nothing else there looks like it
\* (enrichment.rs:83, 264).
THEOREM EdgesAreAnswersHolds == Spec => []EdgesAreAnswers
<1>1. Init => EdgesAreAnswers
  BY DEF Init, EdgesAreAnswers
<1>2. PassInv /\ EdgesAreAnswers /\ [Next]_vars => EdgesAreAnswers'
  <2> SUFFICES ASSUME PassInv, EdgesAreAnswers, [Next]_vars, arm' \in Kinds
               PROVE  EdgesAreAnswers'
    BY DEF EdgesAreAnswers
  <2>0. UNCHANGED arm
    BY DEF Next, vars, given, Begin, Skip, Identifier, QueryFails, Receiver, ModuleType,
           MemberDefinition, Decline, AskCandidate, Bind, Plain, EndOfText, Calls, CallsDone, Close,
           Done, EntityStep, Declines, Begins, RequestFails, Prepared, Answered, ofEntity
  <2>1. arm \in Kinds /\ pc \in {"begin", "prepare", "query", "done"}
        /\ (pc # "done" => edges = <<>>)
    BY <2>0 DEF PassInv, PlaceInv, FailInv
  <2>2. CASE \E locations \in Answers : Answered(locations)
    <3>1. PICK locations \in Answers : Answered(locations)
      BY <2>2
    <3>2. /\ Adds(edges, edges', Found(locations), Telling(locations))
          /\ \A n \in Telling(locations) :
               /\ n \in DOMAIN locations /\ locations[n] \in Locations
               /\ Found(locations)[n] = EdgeTo(Target(locations[n]))
               /\ Target(locations[n]) \in Subjects
      BY <3>1, AnsweredAdds
    <3>3. answers' = locations /\ edges = <<>>
      BY <2>1, <3>1 DEF Answered
    <3>4. \A i \in DOMAIN edges' : \E n \in Telling(locations) : edges'[i] = Found(locations)[n]
      BY <3>2, <3>3 DEF Adds
    <3>5. ASSUME NEW i \in DOMAIN edges'
          PROVE  LET other == IF Kind = "references" THEN edges'[i].src ELSE edges'[i].dst
                 IN \E n \in DOMAIN locations :
                      /\ Holds(Entities[other], locations[n].line)
                      /\ Entities[other].file \in LookAlikes(Index, locations[n].path)
      <4>1. PICK n \in Telling(locations) : edges'[i] = Found(locations)[n]
        BY <3>4
      <4> DEFINE t == Target(locations[n])
      <4>2. /\ n \in DOMAIN locations /\ locations[n] \in Locations
            /\ edges'[i] = EdgeTo(t) /\ t \in Subjects
        BY <3>2, <4>1
      <4>3. (IF Kind = "references" THEN edges'[i].src ELSE edges'[i].dst) = t
        <5> HIDE DEF t
        <5> QED BY <4>2 DEF EdgeTo, Edge
      <4>4. t # NoEntity
        BY <4>2, PassesAssumption DEF Subjects, NoEntity
      <4>5. Holds(Entities[t], locations[n].line) /\ Entities[t].file \in LookAlikes(Index, locations[n].path)
        BY <4>2, <4>4, TargetLooksAlike
      <4> HIDE DEF t
      <4> QED BY <4>2, <4>3, <4>5
    <3>6. Kind' = Kind
      BY <2>0 DEF Kind
    <3>7. ASSUME NEW i \in DOMAIN edges', NEW other, other = IF Kind = "references" THEN edges'[i].src ELSE edges'[i].dst
          PROVE  \E n \in DOMAIN answers' : Names(answers'[n], other)
      BY <3>3, <3>5, <3>7 DEF Names
    <3> QED BY <3>6, <3>7 DEF EdgesAreAnswers
  <2>3. CASE ~ \E locations \in Answers : Answered(locations)
    <3>1. edges' = edges /\ (answers' = answers \/ edges' = <<>>)
      BY <2>1, <2>3 DEF Next, vars, given, Begin, Skip, Identifier, QueryFails, Receiver, ModuleType,
           MemberDefinition, Decline, AskCandidate, Bind, Plain, EndOfText, Calls, CallsDone, Close,
           Done, EntityStep, Declines, Begins, RequestFails, Prepared, ofEntity, Returns, Kinds,
           Needed, output
    <3>2. Kind' = Kind
      BY <2>0 DEF Kind
    <3>3. CASE edges' = <<>>
      BY <3>3 DEF EdgesAreAnswers
    <3>4. CASE UNCHANGED <<edges, answers>>
      <4>1. EdgesAreAnswers
        OBVIOUS
      <4> QED BY <2>1, <3>2, <3>4, <4>1 DEF EdgesAreAnswers
    <3> QED BY <3>1, <3>3, <3>4
  <2> QED BY <2>2, <2>3
<1> QED BY <1>1, <1>2, PassesInvariant, PTL DEF Spec
=============================================================================
