--------------------------- MODULE DefinitionPasses ---------------------------
(***************************************************************************)
(* The two passes that ask the server about every identifier of a text:     *)
(* enrich_entity_uses_type (src/enrichment.rs), over the lines of one       *)
(* entity, and enrich_file_definitions (src/file_enrichment.rs), over a     *)
(* file.  Both answer a member of a module by the equivalence join: the     *)
(* export bound is one whose own definition, asked separately, is where the *)
(* member's is.                                                             *)
(*                                                                         *)
(* The identifiers that the line scanner finds are given (Positions).  A    *)
(* request returns an error, a value that does not decode, or locations.    *)
(* The documents the join opens are the subject of ScopedDocuments.         *)
(***************************************************************************)
EXTENDS EntityPasses

CONSTANTS
  File,       \* the enriched file
  Positions,  \* its identifiers: [line, col, member, name], member = 0 for none
  Provisions  \* the sets of files whose text the document provider may have

ASSUME PositionsAssumption ==
  /\ DOMAIN Positions = 1 .. Len(Positions) /\ Len(Positions) \in Nat
  /\ \A i \in DOMAIN Positions :
       Positions[i].line \in Nat /\ Positions[i].col \in Nat /\ Positions[i].member \in Nat

VARIABLES
  provided,   \* the files the document provider has the text of
  at,         \* the identifier the loop is at
  modules,    \* where the receiver's type is defined
  members,    \* where the member is defined
  todo,       \* candidates still to be asked about; then entities, for calls
  bound,      \* the exports bound so far at this identifier
  seen,       \* the keys of the edges emitted
  proven,     \* history: the bindings two answers agreed on
  namesModule \* history: the identifiers that turned out to be modules

ofFile   == <<provided, at, modules, members, todo, bound, seen, proven, namesModule>>
position == <<modules, members, bound>>
output   == <<seen, edges, result, answers, failures>>
history  == <<proven, namesModule>>
given    == <<arm, subject, supported, provided>>
vars     == <<ofEntity, ofFile>>

\* The capabilities a pass looks at.
Capabilities(a) ==
  CASE a = "types" -> {"definition", "typeDefinition"}
    [] a = "file"  -> {"definition", "typeDefinition", "calls"}
    [] OTHER       -> {a}

Relations ==
  [kind : Kinds \cup {"UsesType", "References"}, src : Subjects, dst : Subjects,
   rule : {"none", "lsp_member_on_module", "lsp_references", "lsp_definition"},
   site : Nat \X Nat, pos : 0 .. Len(Positions)]

TypeOK ==
  /\ arm \in Kinds \cup {"types", "file"} /\ subject \in Subjects \cup {NoEntity}
  /\ supported \subseteq Capabilities(arm)
  /\ provided \in Provisions \cup {{}} /\ at \in 1 .. Len(Positions) + 1
  /\ pc \in {"begin", "prepare", "query", "next", "receiver", "module", "member", "candidate",
             "plain", "calls", "close", "failed", "done"}
  /\ {modules, members, answers} \subseteq Answers
  /\ todo \in Seq(Subjects) /\ bound \in Seq(Subjects)
  /\ edges \in Seq(Relations)
  /\ result \in {"none", "ok", "error"} /\ failures \in 0 .. 1
  /\ proven \subseteq (DOMAIN Positions) \X Subjects
  /\ namesModule \subseteq DOMAIN Positions

Init ==
  /\ \/ arm \in Kinds /\ subject \in Subjects /\ provided = {}
     \/ arm = "types" /\ subject \in {i \in Subjects : Entities[i].file = File}
        /\ provided \in Provisions
     \/ arm = "file" /\ subject = NoEntity /\ provided \in Provisions
  /\ supported \in SUBSET Capabilities(arm)
  /\ at = 1 /\ pc = "begin"
  /\ modules = <<>> /\ members = <<>> /\ bound = <<>> /\ todo = <<>> /\ answers = <<>>
  /\ seen = {} /\ edges = <<>> /\ result = "none" /\ failures = 0
  /\ proven = {} /\ namesModule = {}

-----------------------------------------------------------------------------
Here == Positions[at]

\* Whose relation an identifier's answer becomes.
Source == IF arm = "types" THEN subject ELSE FindAt(Index, Root \o File, Here.line)

\* The capability the pass needs for its loop, and for a plain identifier.
PlainQuery == IF arm = "types" THEN "typeDefinition" ELSE "definition"

\* A types pass reads the lines of its entity, a file pass those of any.
InScope == IF arm = "types" THEN Holds(Entities[subject], Here.line) ELSE Source # NoEntity

Occurs(t, s) == \E i \in 0 .. Len(s) - Len(t) : SubSeq(s, i + 1, i + Len(t)) = t

\* The entries of a file: by their start, in the order given when it is the same.
Earlier(i, j) == Entities[i].start < Entities[j].start \/ (Entities[i].start = Entities[j].start /\ i < j)

\* The entities of a set of pairs, each of the place of its file and itself: file
\* by file, each file's in its order.  It is the one such sequence.
Queue(C) ==
  {[k \in DOMAIN s |-> s[k][2]] : s \in {t \in [1 .. Cardinality(C) -> C] :
     \A j \in 1 .. Cardinality(C) : \A i \in 1 .. j - 1 :
       t[i][1] < t[j][1] \/ (t[i][1] = t[j][1] /\ Earlier(t[i][2], t[j][2]))}}

CitedEdge(kind, dst, rule, line, col) ==
  [kind |-> kind, src |-> Source, dst |-> dst, rule |-> rule, site |-> <<line, col>>, pos |-> at]

\* The edges that are new: to an entity, not to the source itself, and under a key that is
\* not taken, neither by an edge emitted nor by one found before.
Fresh(found, keys) ==
  {n \in DOMAIN found :
     found[n].dst \notin {NoEntity, Source} /\ keys[n] \notin seen /\ \A m \in 1 .. n - 1 : keys[m] # keys[n]}

Emit(found, keys) ==
  /\ seen' = seen \cup {keys[n] : n \in Fresh(found, keys)}
  /\ \E new \in Ascending(Fresh(found, keys)) :
       edges' = edges \o [k \in DOMAIN new |-> found[new[k]]]

\* The query of capability c at the current step gets the locations r.  Without
\* the capability it is not asked, and finds nothing.
Asks(c, r) == IF c \in supported THEN r \in Answers ELSE r = <<>>

-----------------------------------------------------------------------------
(* The loop over the identifiers. *)

\* A types pass needs its capability and its text; a file pass without its
\* capability has no loop.
Begin ==
  /\ pc = "begin" /\ arm \in {"types", "file"}
  /\ \/ PlainQuery \in supported /\ (arm = "types" => File \in provided)
        /\ pc' = "next" /\ UNCHANGED <<at, result>>
     \/ arm = "types" /\ ~(PlainQuery \in supported /\ File \in provided)
        /\ pc' = "done" /\ UNCHANGED at
        /\ result' = IF PlainQuery \in supported THEN "error" ELSE "ok"
     \/ arm = "file" /\ PlainQuery \notin supported
        /\ pc' = "next" /\ at' = Len(Positions) + 1 /\ UNCHANGED result
  /\ UNCHANGED <<given, position, todo, seen, edges, answers, failures, history>>

Skip ==
  /\ pc = "next" /\ at <= Len(Positions) /\ ~InScope
  /\ at' = at + 1
  /\ UNCHANGED <<given, pc, position, todo, output, history>>

Identifier ==
  /\ pc = "next" /\ at <= Len(Positions) /\ InScope
  /\ pc' = IF Here.member # 0 THEN "receiver" ELSE "plain"
  /\ UNCHANGED <<given, at, position, todo, output, history>>

\* The capability the step needs.
Needed ==
  CASE pc \in {"receiver", "member", "candidate"} -> "definition"
    [] pc = "module" -> "typeDefinition"
    [] pc = "plain"  -> PlainQuery
    [] OTHER -> "none"

\* Steps that go over a list ask about its head, a candidate's only when the
\* server can be given its document.
AboutToAsk ==
  /\ pc = "candidate" => todo # <<>>
  /\ pc = "candidate" => Entities[Head(todo)].file \in provided \cup {File}

\* A query fails, times out, or its answer does not decode, or a candidate's
\* document cannot be handed over: the pass gives up and goes on to close its
\* documents.
QueryFails ==
  /\ Needed \in supported
  /\ AboutToAsk
  /\ failures' = 1 /\ pc' = "failed"
  /\ UNCHANGED <<given, at, position, todo, seen, edges, result, answers, history>>

\* receiver_names_a_module: some definition is in another file.
NamesAModule(defs) ==
  \E n \in DOMAIN defs :
    LET path == defs[n].path
    IN path # NoPath /\ ~EndsWith(path, File) /\ ~EndsWith(File, path)

\* The receiver of a member expression: where is it defined?
Receiver ==
  /\ pc = "receiver"
  /\ \E r \in Answers :
       /\ Asks("definition", r)
       /\ pc' = IF NamesAModule(r) THEN "module" ELSE "plain"
       /\ namesModule' = IF NamesAModule(r) THEN namesModule \cup {at} ELSE namesModule
  /\ UNCHANGED <<given, at, position, todo, output, proven>>

-----------------------------------------------------------------------------
(* member_export_bindings. *)

ModuleType ==
  /\ pc = "module" /\ pc' = "member"
  /\ \E r \in Answers : Asks("typeDefinition", r) /\ modules' = r
  /\ UNCHANGED <<given, at, members, bound, todo, output, proven, namesModule>>

\* The candidates: the exports of the member's name in the files of the
\* locations, each with its location.
Candidates(locations) ==
  {c \in (DOMAIN locations) \X Subjects :
     c[2] \in EntitiesInFile(Index, locations[c[1]].path) /\ Entities[c[2]].name = Here.name}

MemberDefinition ==
  /\ pc = "member" /\ pc' = "candidate"
  /\ todo' \in Queue(Candidates(modules))
  /\ \E r \in Answers : Asks("definition", r) /\ members' = r
  /\ UNCHANGED <<given, at, modules, bound, output, proven, namesModule>>

\* A candidate whose text the provider does not have is declined.
Decline ==
  /\ pc = "candidate" /\ todo # <<>>
  /\ Entities[Head(todo)].file \notin provided \cup {File}
  /\ todo' = Tail(todo)
  /\ UNCHANGED <<given, at, pc, position, output, history>>

SamePlace(l, m) == l.path = m.path /\ l.line = m.line

\* History: some place is named by both answers.
Agree(r) == \E m \in DOMAIN members : \E n \in DOMAIN r : SamePlace(r[n], members[m])

\* Mutant: all of the candidate's definitions, rather than any.
AllAgree(r) == \A n \in DOMAIN r : \E m \in DOMAIN members : SamePlace(r[n], members[m])

\* candidate_is_proven
Proven(r) == \E n \in DOMAIN r : \E m \in DOMAIN members : SamePlace(r[n], members[m])

\* The candidate's own definition: bound when it is where the member's is.
AskCandidate ==
  /\ pc = "candidate" /\ todo # <<>>
  /\ Entities[Head(todo)].file \in provided \cup {File}
  /\ todo' = Tail(todo)
  /\ \E r \in Answers :
       /\ Asks("definition", r)
       /\ bound' = IF Proven(r) /\ ~Contains(bound, Head(todo)) THEN Append(bound, Head(todo)) ELSE bound
       /\ proven' = IF Agree(r) THEN proven \cup {<<at, Head(todo)>>} ELSE proven
  /\ UNCHANGED <<given, at, pc, modules, members, output, namesModule>>

\* The edges of the exports bound cite the member.
MemberEdges ==
  [n \in DOMAIN bound |-> CitedEdge(IF arm = "types" THEN "UsesType" ELSE "References", bound[n],
                                    "lsp_member_on_module", Here.line, Here.member)]

MemberKeys ==
  [n \in DOMAIN bound |-> <<Source, bound[n], IF arm = "types" THEN "any" ELSE "member_on_module">>]

\* Mutant: the exports bound are not looked up among the edges emitted.
BindUnseen ==
  /\ pc = "candidate" /\ todo = <<>>
  /\ Emit(MemberEdges, [n \in DOMAIN bound |-> <<at, n>>])
  /\ pc' = "next" /\ at' = at + 1
  /\ modules' = <<>> /\ members' = <<>> /\ bound' = <<>>
  /\ UNCHANGED <<given, todo, result, answers, failures, history>>

\* Mutant: a module none of whose exports is bound is queried like a value.
BindOrFallBack ==
  /\ pc = "candidate" /\ todo = <<>>
  /\ Emit(MemberEdges, MemberKeys)
  /\ IF bound = <<>> THEN pc' = "plain" /\ UNCHANGED at ELSE pc' = "next" /\ at' = at + 1
  /\ modules' = <<>> /\ members' = <<>> /\ bound' = <<>>
  /\ UNCHANGED <<given, todo, result, answers, failures, history>>

\* The exports bound become edges, and the receiver itself none.
Bind ==
  /\ pc = "candidate" /\ todo = <<>>
  /\ Emit(MemberEdges, MemberKeys)
  /\ pc' = "next" /\ at' = at + 1
  /\ modules' = <<>> /\ members' = <<>> /\ bound' = <<>>
  /\ UNCHANGED <<given, todo, result, answers, failures, history>>

-----------------------------------------------------------------------------
(* An identifier that is not a member of a module. *)

\* A types pass cites the range of the location it was told, a file pass the
\* identifier it asked about.
PlainEdge(l, dst) ==
  IF arm = "types" THEN CitedEdge("UsesType", dst, "lsp_references", l.line, l.col)
  ELSE CitedEdge("References", dst, "lsp_definition", Here.line, Here.col)

\* A types pass has one key per target, a file pass one per way to reach it.
PlainKey(l, dst) ==
  <<Source, dst, IF arm = "types" THEN "any"
                 ELSE IF Occurs(File, l.path) THEN "same_file" ELSE "cross_file">>

Plain ==
  /\ pc = "plain"
  /\ \E r \in Answers :
       /\ Asks(PlainQuery, r)
       /\ Emit([n \in DOMAIN r |-> PlainEdge(r[n], Target(r[n]))],
               [n \in DOMAIN r |-> PlainKey(r[n], Target(r[n]))])
  /\ pc' = "next" /\ at' = at + 1
  /\ UNCHANGED <<given, position, todo, result, answers, failures, proven, namesModule>>

-----------------------------------------------------------------------------
(* The end. *)

EndOfText ==
  /\ pc = "next" /\ at > Len(Positions)
  /\ pc' = IF arm = "file" /\ "calls" \in supported THEN "calls" ELSE "close"
  /\ todo' \in IF pc' = "calls" THEN Queue({1} \X EntitiesInFile(Index, File)) ELSE {<<>>}
  /\ UNCHANGED <<given, at, position, output, history>>

\* enrich_entity_calls for each entity of the file, as in EntityPasses.
Calls ==
  /\ pc = "calls" /\ todo # <<>> /\ pc' = "prepare"
  /\ subject' = Head(todo) /\ todo' = Tail(todo)
  /\ UNCHANGED <<arm, supported, provided, at, position, output, history>>

CallsDone ==
  /\ pc = "calls" /\ todo = <<>> /\ pc' = "close"
  /\ UNCHANGED <<given, at, position, todo, output, history>>

\* The documents are closed; the pass answers, unless a query or the closing
\* failed.
Close ==
  /\ pc \in {"close", "failed"} /\ pc' = "done"
  /\ \/ pc = "close" /\ result' = "ok" /\ UNCHANGED edges
     \/ result' = "error" /\ edges' = <<>>
  /\ UNCHANGED <<given, at, position, todo, seen, answers, failures, history>>

Done == pc = "done" /\ UNCHANGED vars

Next ==
  \/ Begin \/ Skip \/ Identifier \/ QueryFails \/ Receiver
  \/ ModuleType \/ MemberDefinition \/ Decline \/ AskCandidate \/ Bind
  \/ Plain \/ EndOfText \/ Calls \/ CallsDone \/ Close \/ Done
  \/ EntityStep /\ UNCHANGED ofFile

Spec == Init /\ [][Next]_vars

-----------------------------------------------------------------------------
\* A failed query is an error of the whole pass (README.md:95): what was found
\* before it is not returned as if it were all.
FailuresAreErrors == pc = "done" /\ failures > 0 => result = "error" /\ edges = <<>>

\* An export is bound to a member only if two answers of the server, about the
\* member and about the export, name the same place (enrichment.rs:696);
\* silence about either is no proof.
MemberEdgesAreProven ==
  \A i \in DOMAIN edges :
    edges[i].rule = "lsp_member_on_module" => <<edges[i].pos, edges[i].dst>> \in proven

\* A receiver that names a module is never recorded as the thing used, whether
\* or not its member was bound (enrichment.rs:900).
ModulesAreNotUsed ==
  \A i \in DOMAIN edges :
    edges[i].rule \in {"lsp_references", "lsp_definition"} => edges[i].pos \notin namesModule

\* A types pass names each type once, however it was found, and not itself; a
\* references pass each entity that refers to its own once, and not itself.
NamedOnce ==
  /\ arm = "types" =>
       \A i, j \in DOMAIN edges :
         edges[i].dst # subject /\ (edges[i].dst = edges[j].dst => i = j)
  /\ arm = "references" =>
       \A i, j \in DOMAIN edges :
         edges[i].src # subject /\ (edges[i].src = edges[j].src => i = j)

\* "Evidence naming the position the server was asked about. The call site, not
\* the definition" (enrichment.rs:148).
EvidenceIsCallSite ==
  \A i \in DOMAIN edges :
    edges[i].pos # 0 =>
      LET p == Positions[edges[i].pos]
      IN edges[i].site \in {<<p.line, p.col>>, <<p.line, p.member>>}
=============================================================================
