----------------------------- MODULE CitableProof -----------------------------
(***************************************************************************)
(* The record that a citable run is judged by (src/proof.rs): the recorder  *)
(* that the enrichment driver feeds, in any order, and the verdict of       *)
(* verify_citable on it.                                                    *)
(*                                                                         *)
(* The driver is outside this repository.  It may make any call at any      *)
(* time; the log of its calls is what the verdict is measured against.      *)
(***************************************************************************)
EXTENDS Integers, Sequences, FiniteSets

CONSTANTS
  Languages,
  Capabilities,
  Minimum,    \* CITABLE_MINIMUM
  Servers,    \* what servers answer to initialize, for each capability
  MaxCalls    \* bound: calls of the driver

ASSUME ProofAssumption ==
  /\ Minimum \subseteq Capabilities
  /\ Servers \subseteq [Capabilities -> {"absent", "false", "true", "options"}]
  /\ MaxCalls \in Nat

\* has_definition and the like: a capability is there when it is true or has
\* options.
Supports(server, c) == server[c] \in {"true", "options"}

ProbedCapabilities(server) == {c \in Capabilities : Supports(server, c)}

Reported == {ProbedCapabilities(server) : server \in Servers}

Calls ==
  [call : {"probe"}, language : Languages, caps : Reported]
    \cup [call : {"gap", "attempted", "enriched", "failed"}, language : Languages]

VARIABLES
  required,   \* the languages the registry marks as required
  languages,  \* the entries of the record, for the languages that have one
  gaps,       \* the gaps of the record: [language, required]
  finished,   \* has finish() made the proof?
  log         \* history: the driver's calls, in order

vars == <<required, languages, gaps, finished, log>>

Entry == [provider : BOOLEAN, caps : SUBSET Capabilities,
          attempted : Nat, enriched : Nat, failed : Nat]

TypeOK ==
  /\ required \subseteq Languages
  /\ DOMAIN languages \subseteq Languages
  /\ languages \in [DOMAIN languages -> Entry]
  /\ gaps \subseteq [language : Languages, required : BOOLEAN]
  /\ finished \in BOOLEAN
  /\ log \in Seq(Calls) /\ Len(log) <= MaxCalls
  /\ \A l \in DOMAIN languages :
       languages[l].attempted + languages[l].enriched + languages[l].failed <= Len(log)

Init ==
  /\ required \in SUBSET Languages
  /\ languages = [l \in {} |-> 0] /\ gaps = {} /\ finished = FALSE /\ log = <<>>

-----------------------------------------------------------------------------
(* The recorder. *)

\* The driver makes call c.
Logged(c) == ~finished /\ Len(log) < MaxCalls /\ log' = Append(log, c)

NewEntry == [provider |-> FALSE, caps |-> {}, attempted |-> 0, enriched |-> 0, failed |-> 0]

\* entry_mut: the language's entry, made if there is none.
EntryOf(l) == IF l \in DOMAIN languages THEN languages[l] ELSE NewEntry

SetEntry(l, e) ==
  languages' = [m \in DOMAIN languages \cup {l} |-> IF m = l THEN e ELSE languages[m]]

\* Mutant: the capabilities of every server of the language are added up.
CapsOfAll(e, caps) == [e EXCEPT !.provider = TRUE, !.caps = @ \cup caps]

\* Mutant: a probe begins the entry anew.
ProbedAnew(e, caps) == [NewEntry EXCEPT !.provider = TRUE, !.caps = caps]

\* A probe replaces what an earlier one reported.
Probed(e, caps) == [e EXCEPT !.provider = TRUE, !.caps = caps]

RecordProbe(l, caps) ==
  /\ SetEntry(l, Probed(EntryOf(l), caps))
  /\ Logged([call |-> "probe", language |-> l, caps |-> caps])
  /\ UNCHANGED <<required, gaps, finished>>

RecordGap(l) ==
  /\ gaps' = gaps \cup {[language |-> l, required |-> l \in required]}
  /\ Logged([call |-> "gap", language |-> l])
  /\ UNCHANGED <<required, languages, finished>>

FileAttempted(l) ==
  /\ SetEntry(l, [EntryOf(l) EXCEPT !.attempted = @ + 1])
  /\ Logged([call |-> "attempted", language |-> l])
  /\ UNCHANGED <<required, gaps, finished>>

FileEnriched(l) ==
  /\ SetEntry(l, [EntryOf(l) EXCEPT !.enriched = @ + 1])
  /\ Logged([call |-> "enriched", language |-> l])
  /\ UNCHANGED <<required, gaps, finished>>

FileFailed(l) ==
  /\ SetEntry(l, [EntryOf(l) EXCEPT !.failed = @ + 1])
  /\ Logged([call |-> "failed", language |-> l])
  /\ UNCHANGED <<required, gaps, finished>>

\* finish(): the entries and the gaps are sorted, the required languages made
\* unique; none of it is left to a set.
Finish ==
  /\ ~finished /\ finished' = TRUE
  /\ UNCHANGED <<required, languages, gaps, log>>

\* The proof is made.
Done == finished /\ UNCHANGED vars

Next ==
  \/ \E l \in Languages :
       \/ RecordGap(l) \/ FileAttempted(l) \/ FileEnriched(l) \/ FileFailed(l)
       \/ \E caps \in Reported : RecordProbe(l, caps)
  \/ Finish \/ Done

Spec == Init /\ [][Next]_vars

-----------------------------------------------------------------------------
(* The verdict, of the finished proof or of the one that would be made now. *)

MeetsMinimum(e) == Minimum \subseteq e.caps

GapOf(l) == [language |-> l, required |-> TRUE]

\* The violations of language l, each by its name.
ViolationsOf(l) ==
  (IF GapOf(l) \in gaps THEN {"UnresolvedRequiredGap"} ELSE {})
  \cup
  (IF l \notin DOMAIN languages
   THEN IF \E g \in gaps : g.language = l THEN {} ELSE {"MissingRequiredProvider"}
   ELSE LET e == languages[l] IN
        (IF ~e.provider THEN {"MissingRequiredProvider"}
         ELSE IF ~MeetsMinimum(e) THEN {"BelowMinimumCapabilities"} ELSE {})
        \cup (IF e.failed > 0 THEN {"FileFailures"} ELSE {}))

\* verify_citable, whatever the mode of the proof.
Violations ==
  LET kinds == {"UnresolvedRequiredGap", "MissingRequiredProvider",
                "BelowMinimumCapabilities", "FileFailures"}
  IN {v \in required \X kinds : v[2] \in ViolationsOf(v[1])}

Citable == Violations = {}

-----------------------------------------------------------------------------
Called(c, l) == \E i \in DOMAIN log : log[i].call = c /\ log[i].language = l

\* The last probe of l reported caps.
LastReport(l, caps) ==
  \E i \in DOMAIN log :
    /\ log[i].call = "probe" /\ log[i].language = l /\ log[i].caps = caps
    /\ \A j \in i + 1 .. Len(log) : ~(log[j].call = "probe" /\ log[j].language = l)

\* The record holds of every language what the calls about it amount to, in
\* whatever order they came.
RecordMatchesCalls ==
  /\ \A l \in Languages :
       /\ EntryOf(l).provider <=> Called("probe", l)
       /\ EntryOf(l).provider => LastReport(l, EntryOf(l).caps)
       /\ EntryOf(l).failed > 0 <=> Called("failed", l)
       /\ (\E g \in gaps : g.language = l) <=> Called("gap", l)
  /\ \A g \in gaps : g.required <=> g.language \in required

\* "For every required language: a provider must have run, its live server must
\* meet the capability floor, it must have no per-file failures, and it must
\* have no unresolved gap" (proof.rs:184), said of the calls and not of the
\* record: however the calls were ordered and mixed between languages, the
\* verdict is clean exactly when this holds.
CitableMeansClean ==
  Citable <=>
    \A l \in required :
      /\ \E server \in Servers : /\ LastReport(l, ProbedCapabilities(server))
                               /\ \A c \in Minimum : Supports(server, c)
      /\ ~Called("failed", l) /\ ~Called("gap", l)

\* "failures fail LOUD" (proof.rs:10): no later call takes back a failure or a
\* gap of a required language.
FailuresStay ==
  [][\A l \in required :
       ViolationsOf(l) \cap {"FileFailures", "UnresolvedRequiredGap"} \subseteq ViolationsOf(l)']_vars

\* "a citable run may never silently degrade to unenriched" (proof.rs:10): every
\* file attempted in a required language was enriched, or the run is not citable.
NothingSilentlyUnenriched ==
  finished /\ Citable =>
    \A l \in required : l \in DOMAIN languages => languages[l].attempted <= languages[l].enriched
=============================================================================
