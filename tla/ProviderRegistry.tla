--------------------------- MODULE ProviderRegistry ---------------------------
(***************************************************************************)
(* Which language server serves a language (src/registry.rs): the built-in  *)
(* candidates, the repo configs layered over them one after the other, and  *)
(* the resolution against the binaries of the host, beside the discovery of *)
(* src/discovery.rs, which has a table of its own.                          *)
(*                                                                         *)
(* apply_config reads a config entry by entry: overrides, then required,    *)
(* then disabled languages; each entry is a step.  The registry is borrowed *)
(* exclusively from the first to the last, so no query falls in between.    *)
(* An override is [language, provider, binaries, args], args = NoArgs when  *)
(* it leaves them.  The queries are operators on the state.                 *)
(***************************************************************************)
EXTENDS Integers, Sequences, SequencesExt, FiniteSets

CONSTANTS
  Known,      \* the languages
  Slugs,      \* what a config may call a language
  LanguageOf, \* language_from_slug: the language of a slug, or NoLanguage
  NoLanguage,
  Providers, Binaries, Args,  \* provider ids, names of executables, arguments
  NoArgs,
  Defaults,   \* with_defaults: of some languages, the candidates [id, binaries, args]
  Discovery,  \* KNOWN_SERVERS: of some languages, the binaries to look for
  Overrides,  \* what a config may say of a provider
  MaxEntries, MaxConfigs  \* bounds: entries of a config, configs applied

Specs == [id : Providers, binaries : Seq(Binaries), args : Args]

None == [provider |-> "none", binaries |-> <<>>, args |-> NoArgs]

ASSUME RegistryAssumption ==
  /\ DOMAIN Defaults \subseteq Known /\ NoLanguage \notin Known
  /\ Defaults \in [DOMAIN Defaults -> Seq(Specs)]
  /\ LanguageOf \in [Slugs -> Known \cup {NoLanguage}]
  /\ NoArgs \notin Args
  /\ \A l \in DOMAIN Defaults : \A i, j \in DOMAIN Defaults[l] :
       Defaults[l][i].id = Defaults[l][j].id => i = j
  /\ \A o \in Overrides :
       /\ o.language \in Slugs /\ o.binaries \in Seq(Binaries)
       /\ o.args \in Args \cup {NoArgs} /\ o # None
  /\ {MaxEntries, MaxConfigs} \subseteq Nat

\* What the test at registry.rs:1087 asserts of the two tables.
ASSUME TablesAssumption ==
  \A l \in DOMAIN Discovery :
    /\ l \in DOMAIN Defaults /\ Discovery[l] \in Seq(Binaries)
    /\ \A b \in ToSet(Discovery[l]) : \E d \in ToSet(Defaults[l]) : b \in ToSet(d.binaries)

VARIABLES
  entries,   \* the candidates of the languages that have some
  required, disabled,
  stage,     \* the part of the config that is being read
  result,    \* of the last apply_config
  path,      \* the executables that are on PATH
  read, applied, \* how many entries of the config were read, how many configs applied
  chosen     \* history: of every language the last override applied, if any

policy == <<required, disabled>>
vars   == <<entries, policy, stage, result, path, read, applied, chosen>>

Candidates(l) == IF l \in DOMAIN entries THEN entries[l] ELSE <<>>

Ids(specs) == [i \in DOMAIN specs |-> specs[i].id]

Init ==
  /\ entries = Defaults /\ required = {} /\ disabled = {}
  /\ stage = "idle" /\ result = "none"
  /\ path \in SUBSET Binaries
  /\ read = 0 /\ applied = 0 /\ chosen = [l \in DOMAIN Defaults |-> None]

-----------------------------------------------------------------------------
(* apply_config. *)

Begin ==
  /\ stage = "idle" /\ applied < MaxConfigs
  /\ stage' = "providers" /\ read' = 0 /\ applied' = applied + 1
  /\ UNCHANGED <<entries, policy, result, path, chosen>>

ReadsEntry ==
  /\ read < MaxEntries /\ read' = read + 1
  /\ UNCHANGED <<path, applied>>

\* An error leaves what was done before it.
Fails(error) ==
  /\ stage' = "idle" /\ result' = error
  /\ UNCHANGED <<entries, policy, chosen>>

\* Mutant: the config's binaries replace the built-in ones.
ChangedOnly(spec, o) ==
  [spec EXCEPT !.binaries = IF o.binaries = <<>> THEN @ ELSE o.binaries,
               !.args = IF o.args = NoArgs THEN @ ELSE o.args]

\* The provider as an override leaves it: its binaries behind the config's.
Changed(spec, o) ==
  [spec EXCEPT !.binaries = o.binaries \o @, !.args = IF o.args = NoArgs THEN @ ELSE o.args]

\* Mutant: the provider is copied to the front.
CopyToFront(specs, i, o) == <<Changed(specs[i], o)>> \o specs

\* Mutant: the provider changes places with the first.
SwapWithFirst(specs, i, o) ==
  [specs EXCEPT ![1] = specs[i], ![i] = Changed(specs[1], o)]

\* The provider moves to the front of the candidates.
ToFront(specs, i, o) == <<Changed(specs[i], o)>> \o RemoveAt(specs, i)

Override(o) ==
  LET l  == LanguageOf[o.language]
      at == {i \in DOMAIN Candidates(l) : Candidates(l)[i].id = o.provider}
  IN /\ stage = "providers" /\ ReadsEntry
     /\ \/ l = NoLanguage /\ Fails("UnknownLanguage")
        \/ l # NoLanguage /\ at = {} /\ Fails("UnknownProvider")
        \/ \E i \in at :
             /\ entries' = [entries EXCEPT ![l] = ToFront(@, i, o)]
             /\ chosen' = [chosen EXCEPT ![l] = o]
             /\ UNCHANGED <<policy, stage, result>>

Require(slug) ==
  /\ stage \in {"providers", "required"} /\ ReadsEntry
  /\ \/ LanguageOf[slug] = NoLanguage /\ Fails("UnknownLanguage")
     \/ /\ LanguageOf[slug] # NoLanguage /\ stage' = "required"
        /\ required' = required \cup {LanguageOf[slug]}
        /\ UNCHANGED <<entries, disabled, result, chosen>>

Disable(slug) ==
  /\ stage # "idle" /\ ReadsEntry
  /\ \/ LanguageOf[slug] = NoLanguage /\ Fails("UnknownLanguage")
     \/ /\ LanguageOf[slug] # NoLanguage /\ stage' = "disabled"
        /\ disabled' = disabled \cup {LanguageOf[slug]}
        /\ UNCHANGED <<entries, required, result, chosen>>

\* The end of the config: a required language that is disabled, by this config
\* or an earlier one, is an error.
End ==
  /\ stage # "idle"
  /\ stage' = "idle"
  /\ result' = IF required \cap disabled # {} THEN "RequiredAndDisabled" ELSE "ok"
  /\ UNCHANGED <<entries, policy, path, read, applied, chosen>>

\* Executables come and go.
PathChanges ==
  /\ \E b \in Binaries : path' = IF b \in path THEN path \ {b} ELSE path \cup {b}
  /\ UNCHANGED <<entries, policy, stage, result, read, applied, chosen>>

Next ==
  \/ Begin \/ End \/ PathChanges
  \/ \E o \in Overrides : Override(o)
  \/ \E slug \in Slugs : Require(slug) \/ Disable(slug)

Spec == Init /\ [][Next]_vars

-----------------------------------------------------------------------------
(* The queries. *)

\* Mutant: a provider's other binaries are not looked for.
OnlyFirstBinary(spec) == IF spec.binaries # <<>> /\ spec.binaries[1] \in path THEN 1 ELSE 0

\* The first binary of a candidate that is on PATH, and the first candidate
\* that has one.
FirstBinary(spec) == SelectInSeq(spec.binaries, LAMBDA b : b \in path)

FirstCandidate(l) == SelectInSeq(Candidates(l), LAMBDA spec : FirstBinary(spec) # 0)

\* resolve_with
Resolves(l) == FirstCandidate(l) # 0

Resolution(l) ==
  LET spec == Candidates(l)[FirstCandidate(l)]
  IN [id |-> spec.id, command |-> spec.binaries[FirstBinary(spec)], args |-> spec.args]

\* known_binaries
KnownBinaries(l) == UNION {ToSet(spec.binaries) : spec \in ToSet(Candidates(l))}

\* discover_servers reports the languages one of whose binaries is on PATH.
Discovered == {l \in DOMAIN Discovery : ToSet(Discovery[l]) \cap path # {}}

-----------------------------------------------------------------------------
\* However configs reorder the candidates of a language, and whether they were
\* accepted or not, no built-in provider is lost and none is there twice.
NothingLost ==
  \A l \in DOMAIN Defaults :
    /\ Len(Candidates(l)) = Len(Defaults[l])
    /\ ToSet(Ids(Candidates(l))) = ToSet(Ids(Defaults[l]))

\* The provider last chosen for a language is the one that serves it if any of
\* its binaries is installed, started by the config's own binaries before the
\* built-in ones and with the config's arguments, whatever configs came before.
ChoiceWins ==
  \A l \in DOMAIN chosen :
    LET c == chosen[l]
        builtIn == {spec \in ToSet(Defaults[l]) : spec.id = c.provider}
        configured == ToSet(c.binaries) \cap path
    IN c # None /\ (configured # {} \/ \E spec \in builtIn : ToSet(spec.binaries) \cap path # {}) =>
         /\ Resolves(l) /\ Resolution(l).id = c.provider
         /\ c.args # NoArgs => Resolution(l).args = c.args
         /\ configured # {} => Resolution(l).command \in configured

\* No build reports a language served and then cannot start anything for it
\* (registry.rs:1085): what discovery finds resolves, after any configs, those
\* that failed half way included.
DiscoveredResolves == \A l \in Discovered : Resolves(l)

\* The binaries the registry advises to install are those it starts
\* (registry.rs:633): with any one of them on PATH the language resolves, to one
\* of them that is there.
AdviceHolds ==
  \A l \in Known :
    KnownBinaries(l) \cap path # {} =>
      Resolves(l) /\ Resolution(l).command \in KnownBinaries(l) \cap path
=============================================================================
