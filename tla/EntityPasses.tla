---------------------------- MODULE EntityPasses ----------------------------
(***************************************************************************)
(* The passes of src/enrichment.rs that ask the server about one entity:    *)
(* its outgoing calls, the methods it overrides, the references to it.      *)
(* Each asks one or two questions and turns the locations answered into     *)
(* edges between entities of the index.  DefinitionPasses extends this with    *)
(* the other two passes.                                                     *)
(*                                                                         *)
(* A request returns an error, a value that does not decode, or a list;     *)
(* null is the empty list.                                                  *)
(***************************************************************************)
EXTENDS EntityIndex

CONSTANTS
  Entities,   \* the indexed entities: [file, start, end, name, method]
  Order,      \* the order in which the map enumerates their files
  Root,       \* the workspace, as the beginning of an absolute path
  Locations,  \* what the server may answer: [path, line, col]
  MaxAnswer   \* bound: locations in one answer

ASSUME PassesAssumption ==
  /\ DOMAIN Entities = 1 .. Len(Entities) /\ Len(Entities) \in Nat
  /\ \A i \in DOMAIN Entities : Entities[i].start \in Nat /\ Entities[i].end \in Nat
  /\ \A i \in DOMAIN Entities : Entities[i].file # NoPath /\ Len(Entities[i].file) \in Nat
  /\ Order \in Enumerations(FilesOf(Entities))
  /\ \A l \in Locations : l.line \in Nat /\ l.col \in Nat
  /\ MaxAnswer \in Nat

Subjects == DOMAIN Entities

Index == [entities |-> Entities, order |-> Order]

VARIABLES
  arm,        \* which pass
  subject,    \* the entity it is about, or comes to, if any
  supported,  \* the capabilities of the server
  pc,
  edges,      \* the relations
  result,
  answers,    \* history: the locations of the last answer here
  failures    \* history: how many requests failed or did not decode

ofEntity == <<arm, subject, supported, pc, edges, result, answers, failures>>

Kinds == {"calls", "overrides", "references"}

\* The pass over a file (DefinitionPasses) asks for the calls of its entities.
Kind == IF arm = "file" THEN "calls" ELSE arm

\* The evidence of these edges is left out.
Edge(kind, src, dst) ==
  [kind |-> kind, src |-> src, dst |-> dst, rule |-> "none", site |-> <<0, 0>>, pos |-> 0]

\* The edges found are the answer, or the file's so far.
Returns(es) ==
  /\ edges' = edges \o es
  /\ IF arm = "file" THEN pc' = "calls" /\ UNCHANGED result
     ELSE pc' = "done" /\ result' = "ok"

\* Without the capability, and for overrides of what is not a method, the
\* answer is empty and nothing is asked.
Declines ==
  /\ pc = "begin" /\ arm \in Kinds
  /\ arm \notin supported \/ (arm = "overrides" /\ ~Entities[subject].method)
  /\ Returns(<<>>)
  /\ UNCHANGED <<arm, subject, supported, answers, failures>>

Begins ==
  /\ pc = "begin" /\ arm \in Kinds /\ arm \in supported
  /\ arm = "overrides" => Entities[subject].method
  /\ pc' = IF arm = "references" THEN "query" ELSE "prepare"
  /\ UNCHANGED <<arm, subject, supported, edges, result, answers, failures>>

\* Mutant: a failed prepare counts as an empty one.
FailureReturnsNothing ==
  /\ pc \in {"prepare", "query"}
  /\ failures' = failures + 1
  /\ Returns(<<>>)
  /\ UNCHANGED <<arm, subject, supported, answers>>

\* A request fails or its answer does not decode: so does the pass, and that
\* over a file goes on to close its documents.
RequestFails ==
  /\ pc \in {"prepare", "query"}
  /\ failures' = failures + 1
  /\ IF arm = "file" THEN pc' = "failed" /\ UNCHANGED <<edges, result>>
     ELSE pc' = "done" /\ result' = "error" /\ UNCHANGED edges
  /\ UNCHANGED <<arm, subject, supported, answers>>

\* prepareCallHierarchy, prepareTypeHierarchy: only the first item is used.
Prepared ==
  /\ pc = "prepare"
  /\ \/ pc' = "query" /\ UNCHANGED <<edges, result>>
     \/ Returns(<<>>)
  /\ UNCHANGED <<arm, subject, supported, answers, failures>>

\* Mutant: an entity of the same name stands in for a location that maps to
\* none.
TargetOrNamesake(l) ==
  LET found == FindAt(Index, l.path, l.line)
  IN IF found = NoEntity THEN CHOOSE i \in Subjects : Entities[i].name = "Router" ELSE found

Target(l) == FindAt(Index, l.path, l.line)

\* The locations that give an edge: those that map to an entity; of references,
\* the first from each other entity.
Telling(locations) ==
  {n \in DOMAIN locations :
     /\ Target(locations[n]) # NoEntity
     /\ Kind = "references" =>
          /\ Target(locations[n]) # subject
          /\ \A m \in 1 .. n - 1 : Target(locations[m]) # Target(locations[n])}

\* The numbers of S in their order: the one such sequence.
Ascending(S) ==
  {s \in [1 .. Cardinality(S) -> S] : \A j \in 1 .. Cardinality(S) : \A i \in 1 .. j - 1 : s[i] < s[j]}

EdgeTo(e) == IF Kind = "references" THEN Edge(Kind, e, subject) ELSE Edge(Kind, subject, e)

\* outgoingCalls, supertypes, references: the locations become edges.
Answered(locations) ==
  /\ pc = "query"
  /\ answers' = locations
  /\ \E told \in Ascending(Telling(locations)) :
       Returns([k \in DOMAIN told |-> EdgeTo(Target(locations[told[k]]))])
  /\ UNCHANGED <<arm, subject, supported, failures>>

\* Bound: answers of more locations are not considered.
Answers == BoundedSeq(Locations, MaxAnswer)

EntityStep ==
  \/ Declines \/ Begins \/ RequestFails \/ Prepared
  \/ \E locations \in Answers : Answered(locations)

-----------------------------------------------------------------------------
\* Location l is a reason to name entity e: e holds the line, in the file named.
\* The search by suffix leaves two things open: a path that two indexed names
\* look like may stand for either file, and one outside the workspace for an
\* indexed file that it looks like (enrichment.rs:83).
Names(l, e) ==
  /\ Holds(Entities[e], l.line)
  /\ Entities[e].file \in LookAlikes(Index, l.path)
  /\ \A f \in FilesOf(Entities) :
       l.path = Root \o f /\ LookAlikes(Index, Root \o f) = {f} => Entities[e].file = f

\* The other end of an edge is an entity the server named, never a namesake: "A
\* position that maps to nothing now produces no edge" (enrichment.rs:264).
EdgesAreAnswers ==
  arm \in Kinds =>
    \A i \in DOMAIN edges :
      LET other == IF Kind = "references" THEN edges[i].src ELSE edges[i].dst
      IN \E n \in DOMAIN answers : Names(answers[n], other)
=============================================================================
