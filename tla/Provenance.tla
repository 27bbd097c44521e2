----------------------------- MODULE Provenance -----------------------------
(***************************************************************************)
(* Whose work a relation is (LspProvenance, src/registry.rs): a provider,    *)
(* its version and the capability used, written into a record of evidence    *)
(* and read back from it.                                                   *)
(*                                                                         *)
(* A rule is the sequence of its pieces: the words that occur, and the       *)
(* separators.  "lsp/10" stands for a piece that begins with the tag.        *)
(***************************************************************************)
EXTENDS Integers, Sequences, SequencesExt

Tag       == "lsp/1"
Semicolon == ";"
Equals    == "="

Slugs == {"definition", "typeDefinition", "references", "callHierarchy", "typeHierarchy"}

Pieces == {Tag, "lsp/10", Semicolon, Equals, "provider", "capability", "clangd", "x", "hover"} \cup Slugs

NoVersion == "no version"
Versions  == {NoVersion, "1.0"}

Provenances == [provider : Seq(Pieces), version : Versions, capability : Slugs]

NoProvenance == [provider |-> <<>>, version |-> NoVersion, capability |-> "none"]

\* The text of parser_rule.
Rule(p) ==
  <<Tag, Semicolon, "provider", Equals>> \o p.provider \o <<Semicolon, "capability", Equals, p.capability>>

\* to_relation_evidence
ToEvidence(p) == [rule |-> Rule(p), token |-> p.version]

\* The first place after i that holds c, or the end.
NextPlace(c, s, i) ==
  CHOOSE e \in i + 1 .. Len(s) + 1 :
    /\ e \in DOMAIN s => s[e] = c
    /\ \A k \in i + 1 .. e - 1 : s[k] # c

\* A part begins after each semicolon of a rule, and one at its beginning.
Cuts(rule) == {i \in DOMAIN rule : rule[i] = Semicolon}

Part(rule, i) == SubSeq(rule, i + 1, NextPlace(Semicolon, rule, i) - 1)

SplitAt(part, e) == [key |-> SubSeq(part, 1, e - 1), value |-> SubSeq(part, e + 1, Len(part))]

\* Mutant: the value is what follows the last "=".
SplitAtLast(part) == SplitAt(part, SelectLastInSeq(part, LAMBDA c : c = Equals))

\* split_once: the key before the first "=", and all that follows it.
KeyAndValue(part) == SplitAt(part, NextPlace(Equals, part, 0))

\* The last value of a key, the parts after the first being key and value.
ValueOf(rule, key) ==
  LET named == {i \in Cuts(rule) : KeyAndValue(Part(rule, i)).key = <<key>>}
  IN IF named = {} THEN <<>> ELSE <<KeyAndValue(Part(rule, Max(named))).value>>

\* from_relation_evidence
FromEvidence(e) ==
  LET provider   == ValueOf(e.rule, "provider")
      capability == ValueOf(e.rule, "capability")
  IN IF /\ Part(e.rule, 0) = <<Tag>>
        /\ \A i \in Cuts(e.rule) : Contains(Part(e.rule, i), Equals)
        /\ provider # <<>> /\ capability # <<>>
        /\ \E slug \in Slugs : capability[1] = <<slug>>
     THEN [provider |-> provider[1], version |-> e.token, capability |-> capability[1][1]]
     ELSE NoProvenance

\* is_lsp_evidence: a check of the beginning alone.
IsLspEvidence(e) == e.rule # <<>> /\ Head(e.rule) \in {Tag, "lsp/10"}
=============================================================================
