----------------------------- MODULE PureAnswers -----------------------------
(***************************************************************************)
(* The pure answers the passes and their readers build on, over all small    *)
(* inputs: where the words of a line are (LineScan), which entity of an      *)
(* index is at a place (EntityIndex), and whose work a relation's evidence   *)
(* says it is (Provenance), each against what its users take it to mean.     *)
(*                                                                         *)
(* A behaviour is about a line, an index, or the evidence of a relation, and *)
(* the rest is empty.                                                       *)
(***************************************************************************)
EXTENDS EntityIndex, LineScan, Provenance, FiniteSets

CONSTANTS
  Characters,  \* the kinds of character that occur
  MaxLength,   \* bound: characters of a line
  Files,       \* the indexed files' paths, relative to the workspace
  Root,        \* the workspace, as the beginning of an absolute path
  Outside,     \* paths of files that are not in the workspace
  LastLine,    \* bound: lines of a file are 0 .. LastLine
  MaxEntities, \* bound: entities of an index
  Rules,       \* the rules of evidence that is there before enrichment
  Stamps,      \* what enrichment stamps a relation with
  MaxEvidence  \* bound: records of evidence of a relation

ASSUME TextAssumption ==
  /\ Characters \subseteq {Letter, Digit, Quote, Backslash, Dot, Slash, Star, Space, Accented, Emoji}
  /\ MaxLength \in Nat

ASSUME EvidenceAssumption == Rules \subseteq Seq(Pieces) /\ Stamps \subseteq Provenances /\ MaxEvidence \in Nat

ASSUME IndexAssumption ==
  /\ LastLine \in Nat /\ MaxEntities \in Nat
  /\ \A f \in Files : f # NoPath /\ Root \o f # NoPath /\ Len(f) \in Nat

VARIABLES
  line,
  positions,  \* the columns of the line where an identifier begins
  members,    \* of each of them, the column of the member it opens, if any
  index,
  asked,      \* the path and line last looked up
  answer,     \* the entity found there
  evidence,   \* the records of evidence of a relation
  stamped     \* history: what each of them was stamped with, if anything

text   == <<line, positions, members>>
lookup == <<index, asked, answer>>
origin == <<evidence, stamped>>
vars   == <<text, lookup, origin>>

\* Spans are not empty.
Entities == {e \in [file : Files, start : 0 .. LastLine, end : 0 .. LastLine] : e.start <= e.end}

\* The paths asked for: the indexed files, relative or absolute, and others.
Paths == Files \cup {Root \o f : f \in Files} \cup Outside

Init ==
  /\ positions = <<>> /\ members = <<>>
  /\ asked = [path |-> NoPath, line |-> 0] /\ answer = NoEntity
  /\ \/ /\ line \in BoundedSeq(Characters, MaxLength)
        /\ index = [entities |-> <<>>, order |-> <<>>] /\ evidence = <<>> /\ stamped = <<>>
     \/ /\ line = <<>> /\ index = [entities |-> <<>>, order |-> <<>>]
        /\ \E rule \in Rules : evidence = <<[rule |-> rule, token |-> NoVersion]>>
        /\ stamped = <<NoProvenance>>
     \/ /\ line = <<>> /\ evidence = <<>> /\ stamped = <<>>
        /\ \E n \in 1 .. MaxEntities : \E es \in [1 .. n -> Entities] :
           \E order \in Enumerations(FilesOf(es)) : index = [entities |-> es, order |-> order]

Scan ==
  /\ positions' = IdentifierPositions(line)
  /\ members' = [n \in DOMAIN positions' |-> MemberAt(line, positions'[n])]
  /\ UNCHANGED <<line, lookup, origin>>

Lookup(path, l) ==
  /\ index.entities # <<>>
  /\ asked' = [path |-> path, line |-> l]
  /\ answer' = FindAt(index, path, l)
  /\ UNCHANGED <<text, index, origin>>

\* stamp_lsp_provenance
Stamp(p) ==
  /\ evidence # <<>> /\ Len(evidence) < MaxEvidence
  /\ evidence' = Append(evidence, ToEvidence(p))
  /\ stamped' = Append(stamped, p)
  /\ UNCHANGED <<text, lookup>>

Next ==
  \/ Scan
  \/ \E p \in Stamps : Stamp(p)
  \/ \E path \in Paths, l \in 0 .. LastLine : Lookup(path, l)

Spec == Init /\ [][Next]_vars

-----------------------------------------------------------------------------
\* On a line whose backslashes each escape something in a string, the scan
\* finds exactly the words outside string literals, in their order, though it
\* looks at one character before a quote and nothing else.
FindsTheWords ==
  [][ Scan /\ ~LooksLikeComment(line)
        /\ (\A i \in DOMAIN line : line[i] = Backslash => Lexed(line)[i] = "escape")
      => /\ ToSet(positions') = WordsOf(line)
         /\ \A n \in 1 .. Len(positions') - 1 : positions'[n] < positions'[n + 1] ]_vars

\* The server, which counts units of UTF-16, looks at a word where the scan saw
\* one, as long as none of the characters before it takes two; after one that
\* does, it looks elsewhere (file_enrichment.rs:66).
WordsAreLookedAt ==
  [][ Scan => \A c \in ToSet(positions') :
        /\ c \in DOMAIN line /\ StartsWord(line, c)
        /\ LooksAt(line, c) = c <=> \A k \in 1 .. c - 1 : line[k] # Emoji ]_vars

\* The member of an expression is itself an identifier the loop comes to, on its
\* very next turn: "It is queried" (file_enrichment.rs:159).
MemberIsNext ==
  \A n \in DOMAIN members :
    members[n] # NoMember => n < Len(positions) /\ positions[n + 1] = members[n]

Entity(i) == index.entities[i]

Inside(i, j) ==  \* properly
  /\ Entity(i).file = Entity(j).file
  /\ Entity(j).start <= Entity(i).start /\ Entity(i).end <= Entity(j).end
  /\ Entity(i).end - Entity(i).start < Entity(j).end - Entity(j).start

\* "Returns the INNERMOST entity whose span contains the line"
\* (enrichment.rs:90): a method rather than the class, a class rather than the
\* module, for any order in which the entities were listed.
InnermostWins ==
  answer # NoEntity =>
    /\ Holds(Entity(answer), asked.line)
    /\ \A i \in DOMAIN index.entities :
         Holds(Entity(i), asked.line) => ~Inside(i, answer)

\* The server speaks of absolute paths and the index of relative names
\* (enrichment.rs:80).  An indexed file of the workspace is found by its path, and
\* each of its entities, in whatever order the map enumerates, unless a second
\* indexed name looks like that path; and a file elsewhere is never taken for an
\* indexed one but by the whole of the shorter name.
FilesAreToldApart ==
  /\ answer # NoEntity => Entity(answer).file \in LookAlikes(index, asked.path)
  /\ \A f \in FilesOf(index.entities) :
       asked.path = f \/ (asked.path = Root \o f /\ LookAlikes(index, Root \o f) = {f}) =>
         IF \E i \in DOMAIN index.entities : Entity(i).file = f /\ Holds(Entity(i), asked.line)
         THEN answer # NoEntity /\ Entity(answer).file = f
         ELSE answer = NoEntity

\* Whose work a relation is can be told from its evidence, however much there
\* is: what was stamped comes back, provided the provider's name has no
\* semicolon, and other evidence says nothing unless it passes for a stamp
\* (registry.rs:741).
StampsComeBack ==
  \A i \in DOMAIN evidence :
    /\ stamped[i] # NoProvenance /\ ~Contains(stamped[i].provider, Semicolon) =>
         FromEvidence(evidence[i]) = stamped[i] /\ IsLspEvidence(evidence[i])
    /\ ~IsLspEvidence(evidence[i]) => FromEvidence(evidence[i]) = NoProvenance
=============================================================================
