------------------------ MODULE ProviderRegistryProofs ------------------------
(***************************************************************************)
(* Theorems about ProviderRegistry, for any languages, any two tables that   *)
(* agree on the binaries, any number of configs of any length, any overrides *)
(* and any executables.                                                     *)
(***************************************************************************)
EXTENDS ProviderRegistry, SequenceTheorems, WellFoundedInduction, TLAPS

(* The first element of a sequence that passes a test. *)

\* A set of positive naturals that is not empty has a least element: Min.
LEMMA MinIsLeast ==
  ASSUME NEW S, S \subseteq Nat, S # {}
  PROVE  Min(S) \in S /\ \A y \in S : Min(S) <= y
<1> DEFINE R == OpToRel(<, Nat)
<1>0. \A x, y \in Nat : y < x => <<y, x>> \in R
  BY DEF OpToRel
<1>1. IsWellFoundedOn(R, Nat)
  BY NatLessThanWellFounded
<1> HIDE DEF R
<1>2. PICK x \in S : \A y \in S : ~ (<<y, x>> \in R)
  BY <1>1, WFMin
<1>3. \A y \in S : ~ (y < x)
  BY <1>0, <1>2
<1>4. \A y \in S : x <= y
  BY <1>3
<1> QED BY <1>4 DEF Min

\* The first of the binaries of a candidate that is on PATH.
LEMMA FirstBinaryIsFirst ==
  ASSUME NEW spec, spec.binaries \in Seq(Binaries)
  PROVE  /\ ToSet(spec.binaries) \cap path = {} => FirstBinary(spec) = 0
         /\ ToSet(spec.binaries) \cap path # {} =>
              /\ FirstBinary(spec) \in 1 .. Len(spec.binaries)
              /\ spec.binaries[FirstBinary(spec)] \in path
              /\ \A i \in 1 .. Len(spec.binaries) :
                   spec.binaries[i] \in path => FirstBinary(spec) <= i
<1> DEFINE I == {i \in 1 .. Len(spec.binaries) : spec.binaries[i] \in path}
<1>1. FirstBinary(spec) = IF I # {} THEN Min(I) ELSE 0
  BY DEF FirstBinary, SelectInSeq
<1>2. DOMAIN spec.binaries = 1 .. Len(spec.binaries) /\ I \subseteq Nat
  OBVIOUS
<1>3. ToSet(spec.binaries) \cap path = {} <=> I = {}
  BY <1>2 DEF ToSet
<1>4. I # {} => Min(I) \in I /\ \A y \in I : Min(I) <= y
  BY <1>2, MinIsLeast
<1> QED BY <1>1, <1>3, <1>4

\* The first candidate that has a binary on PATH.
LEMMA FirstCandidateIsFirst ==
  ASSUME NEW l, NEW S, Candidates(l) \in Seq(S)
  PROVE  LET found == {i \in 1 .. Len(Candidates(l)) : FirstBinary(Candidates(l)[i]) # 0}
         IN /\ found = {} => FirstCandidate(l) = 0
            /\ found # {} => /\ FirstCandidate(l) \in found
                             /\ \A i \in found : FirstCandidate(l) <= i
<1> DEFINE I == {i \in 1 .. Len(Candidates(l)) : FirstBinary(Candidates(l)[i]) # 0}
<1>1. FirstCandidate(l) = IF I # {} THEN Min(I) ELSE 0
  BY DEF FirstCandidate, SelectInSeq
<1>2. I \subseteq Nat
  OBVIOUS
<1>3. I # {} => Min(I) \in I /\ \A y \in I : Min(I) <= y
  BY <1>2, MinIsLeast
<1> QED BY <1>1, <1>3

-----------------------------------------------------------------------------
(* A candidate moved to the front. *)

\* An override takes the i-th candidate from its place and puts it, changed,
\* before the others, whose order stays.
LEMMA ToFrontIsReordering ==
  ASSUME NEW specs \in Seq(Specs), NEW i \in 1 .. Len(specs), NEW o \in Overrides
  PROVE  /\ ToFront(specs, i, o) \in Seq(Specs)
         /\ Len(ToFront(specs, i, o)) = Len(specs)
         /\ ToFront(specs, i, o)[1] = Changed(specs[i], o)
         /\ \A j \in 2 .. Len(specs) :
              ToFront(specs, i, o)[j] = specs[IF j <= i THEN j - 1 ELSE j]
<1> DEFINE f == <<Changed(specs[i], o)>>
           a == SubSeq(specs, 1, i - 1)
           z == SubSeq(specs, i + 1, Len(specs))
           n == Len(specs)
<1>0. n \in Nat /\ i \in 1 .. n /\ specs[i] \in Specs
  OBVIOUS
<1>1. Changed(specs[i], o) \in Specs
  <2>1. o.binaries \in Seq(Binaries) /\ o.args \in Args \cup {NoArgs}
    BY RegistryAssumption DEF RegistryAssumption
  <2>2. o.binaries \o specs[i].binaries \in Seq(Binaries)
    BY <1>0, <2>1, ConcatProperties DEF Specs
  <2> QED BY <1>0, <2>1, <2>2 DEF Changed, Specs
<1>2. f \in Seq(Specs) /\ Len(f) = 1 /\ f[1] = Changed(specs[i], o)
  BY <1>1
<1>3. a \in Seq(Specs) /\ Len(a) = i - 1 /\ \A j \in 1 .. i - 1 : a[j] = specs[j]
  <2>1. /\ a \in Seq(Specs) /\ Len(a) = IF 1 <= i - 1 THEN (i - 1) - 1 + 1 ELSE 0
        /\ \A j \in 1 .. (i - 1) - 1 + 1 : a[j] = specs[1 + j - 1]
    BY <1>0, SubSeqProperties
  <2> QED BY <1>0, <2>1
<1>4. z \in Seq(Specs) /\ Len(z) = n - i /\ \A j \in 1 .. n - i : z[j] = specs[i + j]
  <2>1. /\ z \in Seq(Specs) /\ Len(z) = IF i + 1 <= n THEN n - (i + 1) + 1 ELSE 0
        /\ \A j \in 1 .. n - (i + 1) + 1 : z[j] = specs[i + 1 + j - 1]
    BY <1>0, SubSeqProperties
  <2> QED BY <1>0, <2>1
<1> HIDE DEF f, a, z, n
<1>5. /\ a \o z \in Seq(Specs) /\ Len(a \o z) = Len(a) + Len(z)
      /\ \A j \in 1 .. Len(a) + Len(z) :
           (a \o z)[j] = IF j <= Len(a) THEN a[j] ELSE z[j - Len(a)]
  BY <1>3, <1>4, ConcatProperties
<1>6. /\ f \o (a \o z) \in Seq(Specs) /\ Len(f \o (a \o z)) = Len(f) + Len(a \o z)
      /\ \A j \in 1 .. Len(f) + Len(a \o z) :
           (f \o (a \o z))[j] = IF j <= Len(f) THEN f[j] ELSE (a \o z)[j - Len(f)]
  BY <1>2, <1>5, ConcatProperties
<1>7. ToFront(specs, i, o) = f \o (a \o z)
  BY DEF ToFront, RemoveAt, f, a, z
<1>8. Len(a) + Len(z) = n - 1 /\ Len(f) + Len(a \o z) = n
  BY <1>0, <1>2, <1>3, <1>4, <1>5
<1>9. (f \o (a \o z))[1] = Changed(specs[i], o)
  BY <1>0, <1>2, <1>6, <1>8
<1>10. ASSUME NEW j \in 2 .. n PROVE (f \o (a \o z))[j] = specs[IF j <= i THEN j - 1 ELSE j]
  <2>1. (f \o (a \o z))[j] = (a \o z)[j - 1] /\ j - 1 \in 1 .. n - 1
    BY <1>0, <1>2, <1>6, <1>8
  <2>2. CASE j <= i
    BY <1>0, <1>3, <1>5, <1>8, <2>1, <2>2
  <2>3. CASE j > i
    <3>1. (a \o z)[j - 1] = z[j - i] /\ j - i \in 1 .. n - i
      BY <1>0, <1>3, <1>5, <1>8, <2>1, <2>3
    <3>2. z[j - i] = specs[i + (j - i)] /\ i + (j - i) = j
      BY <1>0, <1>4, <3>1
    <3> QED BY <1>0, <2>1, <2>3, <3>1, <3>2
  <2>4. j <= i \/ j > i
    BY <1>0
  <2> QED BY <2>2, <2>3, <2>4
<1> QED BY <1>6, <1>7, <1>8, <1>9, <1>10 DEF n

\* An override as the config type allows it.
LEMMA OverrideType ==
  ASSUME NEW o \in Overrides
  PROVE  o.binaries \in Seq(Binaries) /\ o.args \in Args \cup {NoArgs} /\ o # None
  BY RegistryAssumption DEF RegistryAssumption

\* The changed candidate keeps its id, has the config's binaries before its own
\* and the config's arguments, if it gives any.
LEMMA ChangedSpec ==
  ASSUME NEW spec \in Specs, NEW o \in Overrides
  PROVE  LET new == Changed(spec, o)
         IN /\ new.id = spec.id
            /\ new.binaries \in Seq(Binaries)
            /\ ToSet(new.binaries) = ToSet(o.binaries) \cup ToSet(spec.binaries)
            /\ Len(o.binaries) <= Len(new.binaries)
            /\ \A i \in 1 .. Len(o.binaries) : new.binaries[i] = o.binaries[i]
            /\ o.args # NoArgs => new.args = o.args
<1> DEFINE s == o.binaries  t == spec.binaries
<1>1. s \in Seq(Binaries) /\ t \in Seq(Binaries)
  BY OverrideType DEF Specs
<1>2. Changed(spec, o).binaries = s \o t /\ Changed(spec, o).id = spec.id
  BY DEF Changed, Specs
<1>3. o.args # NoArgs => Changed(spec, o).args = o.args
  BY DEF Changed, Specs
<1> HIDE DEF s, t
<1>4. /\ s \o t \in Seq(Binaries) /\ Len(s \o t) = Len(s) + Len(t)
      /\ \A i \in 1 .. Len(s) + Len(t) : (s \o t)[i] = IF i <= Len(s) THEN s[i] ELSE t[i - Len(s)]
  BY <1>1, ConcatProperties
<1>5. Len(s) \in Nat /\ Len(t) \in Nat /\ DOMAIN s = 1 .. Len(s) /\ DOMAIN t = 1 .. Len(t)
      /\ DOMAIN (s \o t) = 1 .. Len(s) + Len(t)
  BY <1>1, <1>4
<1>6. ToSet(s \o t) = ToSet(s) \cup ToSet(t)
  <2>1. \A i \in 1 .. Len(s) + Len(t) : (s \o t)[i] \in ToSet(s) \cup ToSet(t)
    <3>1. \A i \in 1 .. Len(s) + Len(t) : i \in 1 .. Len(s) \/ (i > Len(s) /\ i - Len(s) \in 1 .. Len(t))
      BY <1>5
    <3> QED BY <1>4, <1>5, <3>1 DEF ToSet
  <2>2. \A i \in 1 .. Len(s) : s[i] \in ToSet(s \o t)
    BY <1>4, <1>5 DEF ToSet
  <2>3. ASSUME NEW i \in 1 .. Len(t) PROVE t[i] \in ToSet(s \o t)
    <3>1. i + Len(s) \in 1 .. Len(s) + Len(t) /\ ~(i + Len(s) <= Len(s)) /\ (i + Len(s)) - Len(s) = i
      BY <1>5
    <3>2. (s \o t)[i + Len(s)] = t[i]
      BY <1>4, <3>1
    <3> QED BY <1>5, <3>1, <3>2 DEF ToSet
  <2> QED BY <1>5, <2>1, <2>2, <2>3 DEF ToSet
<1>7. Len(s) <= Len(s \o t) /\ \A i \in 1 .. Len(s) : (s \o t)[i] = s[i]
  BY <1>4, <1>5
<1> QED BY <1>2, <1>3, <1>4, <1>6, <1>7 DEF s, t

\* Every candidate is still there, and none has lost a binary.
LEMMA ToFrontKeeps ==
  ASSUME NEW specs \in Seq(Specs), NEW i \in 1 .. Len(specs), NEW o \in Overrides
  PROVE  LET new == ToFront(specs, i, o)
         IN /\ \A j \in 1 .. Len(specs) : \E k \in 1 .. Len(specs) :
                 new[j].id = specs[k].id /\ ToSet(specs[k].binaries) \subseteq ToSet(new[j].binaries)
            /\ \A k \in 1 .. Len(specs) : \E j \in 1 .. Len(specs) : new[j].id = specs[k].id
<1> DEFINE new == ToFront(specs, i, o)  n == Len(specs)
<1>1. n \in Nat /\ i \in 1 .. n /\ specs[i] \in Specs
  OBVIOUS
<1>2. /\ new[1] = Changed(specs[i], o)
      /\ \A j \in 2 .. n : new[j] = specs[IF j <= i THEN j - 1 ELSE j]
  BY ToFrontIsReordering
<1>3. new[1].id = specs[i].id /\ ToSet(specs[i].binaries) \subseteq ToSet(new[1].binaries)
  <2>1. /\ Changed(specs[i], o).id = specs[i].id
        /\ ToSet(specs[i].binaries) \subseteq ToSet(Changed(specs[i], o).binaries)
    BY <1>1, ChangedSpec
  <2> HIDE DEF new, n
  <2> QED BY <1>2, <2>1
<1> HIDE DEF new, n
<1>4. ASSUME NEW j \in 1 .. n
      PROVE  \E k \in 1 .. n :
               new[j].id = specs[k].id /\ ToSet(specs[k].binaries) \subseteq ToSet(new[j].binaries)
  <2>1. CASE j = 1
    BY <1>1, <1>3, <2>1
  <2>2. CASE j # 1
    <3>1. new[j] = specs[IF j <= i THEN j - 1 ELSE j] /\ (IF j <= i THEN j - 1 ELSE j) \in 1 .. n
      BY <1>1, <1>2, <2>2
    <3> QED BY <3>1
  <2> QED BY <2>1, <2>2
<1>5. ASSUME NEW k \in 1 .. n PROVE \E j \in 1 .. n : new[j].id = specs[k].id
  <2>1. CASE k = i
    BY <1>1, <1>3, <2>1
  <2>2. CASE k < i
    <3>1. k + 1 \in 2 .. n /\ k + 1 <= i /\ (k + 1) - 1 = k
      BY <1>1, <2>2
    <3>2. new[k + 1] = specs[k]
      BY <1>2, <3>1
    <3> QED BY <1>1, <3>1, <3>2
  <2>3. CASE k > i
    <3>1. k \in 2 .. n /\ ~(k <= i)
      BY <1>1, <2>3
    <3>2. new[k] = specs[k]
      BY <1>2, <3>1
    <3> QED BY <3>2
  <2> QED BY <1>1, <2>1, <2>2, <2>3
<1> QED BY <1>4, <1>5 DEF new, n

-----------------------------------------------------------------------------
(* The registry under its configs. *)

\* A candidate has at least the binaries the built-in one of its id has.
Grown(l) ==
  \A e \in ToSet(entries[l]), d \in ToSet(Defaults[l]) :
    e.id = d.id => ToSet(d.binaries) \subseteq ToSet(e.binaries)

\* The provider chosen last stands first, as the override left it.
AtFront(l) ==
  LET c == chosen[l]  e == entries[l][1]
  IN /\ e.id = c.provider
     /\ c.args # NoArgs => e.args = c.args
     /\ ToSet(c.binaries) \subseteq ToSet(e.binaries)
     /\ Len(c.binaries) <= Len(e.binaries)
     /\ \A i \in 1 .. Len(c.binaries) : e.binaries[i] = c.binaries[i]

RegistryTypes ==
  /\ entries \in [DOMAIN Defaults -> Seq(Specs)]
  /\ chosen \in [DOMAIN Defaults -> Overrides \cup {None}]

RegistryInv ==
  /\ RegistryTypes
  /\ \A l \in DOMAIN Defaults :
       /\ Len(entries[l]) = Len(Defaults[l])
       /\ ToSet(Ids(entries[l])) = ToSet(Ids(Defaults[l]))
       /\ Grown(l)
       /\ chosen[l] # None => Len(entries[l]) > 0 /\ AtFront(l)

\* The candidates of a language by their ids.
LEMMA IdsOf ==
  ASSUME NEW specs \in Seq(Specs)
  PROVE  ToSet(Ids(specs)) = {specs[i].id : i \in 1 .. Len(specs)}
  BY DEF ToSet, Ids

LEMMA RegistryInvInit == Init => RegistryInv
<1> SUFFICES ASSUME Init PROVE RegistryInv
  OBVIOUS
<1>1. Defaults \in [DOMAIN Defaults -> Seq(Specs)]
  BY RegistryAssumption DEF RegistryAssumption
<1>2. RegistryTypes
  BY <1>1 DEF Init, RegistryTypes
<1>3. ASSUME NEW l \in DOMAIN Defaults PROVE Grown(l)
  BY <1>3, RegistryAssumption DEF Init, Grown, RegistryAssumption, ToSet
<1> QED BY <1>2, <1>3 DEF Init, RegistryInv

\* An override that finds its provider.
LEMMA OverrideKeeps ==
  ASSUME RegistryInv, NEW o \in Overrides, NEW l, NEW i \in DOMAIN Candidates(l),
         Candidates(l)[i].id = o.provider,
         entries' = [entries EXCEPT ![l] = ToFront(@, i, o)],
         chosen' = [chosen EXCEPT ![l] = o]
  PROVE  RegistryInv'
<1> DEFINE specs == entries[l]  new == ToFront(specs, i, o)
<1>1. l \in DOMAIN Defaults /\ specs \in Seq(Specs) /\ i \in 1 .. Len(specs)
      /\ specs[i].id = o.provider
  BY DEF RegistryInv, RegistryTypes, Candidates
<1>2. /\ new \in Seq(Specs) /\ Len(new) = Len(specs)
      /\ new[1] = Changed(specs[i], o)
  BY <1>1, ToFrontIsReordering
<1>3. /\ \A j \in 1 .. Len(specs) : \E k \in 1 .. Len(specs) :
           new[j].id = specs[k].id /\ ToSet(specs[k].binaries) \subseteq ToSet(new[j].binaries)
      /\ \A k \in 1 .. Len(specs) : \E j \in 1 .. Len(specs) : new[j].id = specs[k].id
  BY <1>1, ToFrontKeeps
<1>4. entries' = [entries EXCEPT ![l] = new]
  OBVIOUS
<1> HIDE DEF new
<1>5. entries'[l] = new /\ \A m \in DOMAIN Defaults \ {l} : entries'[m] = entries[m]
  BY <1>1, <1>4 DEF RegistryInv, RegistryTypes
<1>6. chosen'[l] = o /\ \A m \in DOMAIN Defaults \ {l} : chosen'[m] = chosen[m]
  BY <1>1 DEF RegistryInv, RegistryTypes
<1>7. RegistryTypes'
  BY <1>1, <1>2, <1>4 DEF RegistryInv, RegistryTypes
<1>8. ToSet(Ids(new)) = ToSet(Ids(specs))
  <2> HIDE DEF specs
  <2>1. ToSet(Ids(new)) = {new[j].id : j \in 1 .. Len(specs)}
    BY <1>2, IdsOf
  <2>2. ToSet(Ids(specs)) = {specs[j].id : j \in 1 .. Len(specs)}
    BY <1>1, IdsOf
  <2>3. /\ \A j \in 1 .. Len(specs) : \E k \in 1 .. Len(specs) : new[j].id = specs[k].id
        /\ \A k \in 1 .. Len(specs) : \E j \in 1 .. Len(specs) : specs[k].id = new[j].id
    BY <1>3
  <2> QED BY ONLY <2>1, <2>2, <2>3
<1>9. Grown(l)'
  <2>1. ASSUME NEW j \in 1 .. Len(specs), NEW d \in ToSet(Defaults[l]), new[j].id = d.id
        PROVE  ToSet(d.binaries) \subseteq ToSet(new[j].binaries)
    <3>1. PICK k \in 1 .. Len(specs) :
            new[j].id = specs[k].id /\ ToSet(specs[k].binaries) \subseteq ToSet(new[j].binaries)
      BY <1>3
    <3>2. specs[k] \in ToSet(entries[l])
      BY <1>1 DEF ToSet
    <3> QED BY <1>1, <2>1, <3>1, <3>2 DEF RegistryInv, Grown
  <2>2. ToSet(new) = {new[j] : j \in 1 .. Len(specs)}
    BY <1>1, <1>2 DEF ToSet
  <2>3. ASSUME NEW e \in ToSet(new), NEW d \in ToSet(Defaults[l]), e.id = d.id
        PROVE  ToSet(d.binaries) \subseteq ToSet(e.binaries)
    BY <2>1, <2>2, <2>3
  <2> QED BY <1>5, <2>3 DEF Grown
<1>10. AtFront(l)'
  <2>1. /\ new[1].id = o.provider
        /\ o.args # NoArgs => new[1].args = o.args
        /\ ToSet(o.binaries) \subseteq ToSet(new[1].binaries)
        /\ Len(o.binaries) <= Len(new[1].binaries)
        /\ \A n \in 1 .. Len(o.binaries) : new[1].binaries[n] = o.binaries[n]
    <3>1. specs[i] \in Specs
      BY <1>1
    <3> HIDE DEF specs
    <3> QED BY <1>1, <1>2, <3>1, ChangedSpec
  <2> QED BY <1>5, <1>6, <2>1 DEF AtFront
<1>11. ASSUME NEW m \in DOMAIN Defaults \ {l}
       PROVE  /\ Len(entries'[m]) = Len(Defaults[m])
              /\ ToSet(Ids(entries'[m])) = ToSet(Ids(Defaults[m]))
              /\ Grown(m)'
              /\ chosen'[m] # None => Len(entries'[m]) > 0 /\ AtFront(m)'
  <2>1. entries'[m] = entries[m] /\ chosen'[m] = chosen[m]
    BY <1>5, <1>6
  <2>2. Grown(m)' <=> Grown(m)
    BY <2>1 DEF Grown
  <2>3. AtFront(m)' <=> AtFront(m)
    BY <2>1 DEF AtFront
  <2> QED BY <2>1, <2>2, <2>3 DEF RegistryInv
<1>12. Len(new) = Len(Defaults[l]) /\ Len(new) > 0 /\ ToSet(Ids(new)) = ToSet(Ids(Defaults[l]))
  BY <1>1, <1>2, <1>8 DEF RegistryInv
<1> QED BY <1>5, <1>7, <1>9, <1>10, <1>11, <1>12 DEF RegistryInv

LEMMA RegistryInvStep == RegistryInv /\ [Next]_vars => RegistryInv'
<1> SUFFICES ASSUME RegistryInv, [Next]_vars PROVE RegistryInv'
  OBVIOUS
<1>1. ASSUME UNCHANGED <<entries, chosen>> PROVE RegistryInv'
  BY <1>1 DEF RegistryInv, RegistryTypes, Grown, AtFront
<1>2. ASSUME Begin \/ End \/ PathChanges \/ UNCHANGED vars PROVE RegistryInv'
  BY <1>1, <1>2 DEF Begin, End, PathChanges, vars
<1>3. ASSUME NEW slug \in Slugs, Require(slug) \/ Disable(slug) PROVE RegistryInv'
  BY <1>1, <1>3 DEF Require, Disable, Fails
<1>4. ASSUME NEW o \in Overrides, Override(o) PROVE RegistryInv'
  <2> DEFINE l == LanguageOf[o.language]
  <2>1. CASE UNCHANGED <<entries, chosen>>
    BY <1>1, <2>1
  <2>2. CASE \E i \in {i \in DOMAIN Candidates(l) : Candidates(l)[i].id = o.provider} :
               /\ entries' = [entries EXCEPT ![l] = ToFront(@, i, o)]
               /\ chosen' = [chosen EXCEPT ![l] = o]
    BY <2>2, OverrideKeeps
  <2> QED BY <1>4, <2>1, <2>2 DEF Override, Fails
<1> QED BY <1>2, <1>3, <1>4 DEF Next

LEMMA RegistryInvHolds == Spec => []RegistryInv
  BY RegistryInvInit, RegistryInvStep, PTL DEF Spec

\* No provider is lost and none is there twice, whatever configs were applied and
\* however they ended.
THEOREM NothingLostHolds == Spec => []NothingLost
<1>1. RegistryInv => NothingLost
  BY DEF RegistryInv, RegistryTypes, NothingLost, Candidates
<1> QED BY <1>1, RegistryInvHolds, PTL

-----------------------------------------------------------------------------
(* What resolves. *)

\* The candidates of a language that has some, and of one that has none.
LEMMA CandidatesType ==
  ASSUME RegistryInv, NEW l
  PROVE  /\ Candidates(l) \in Seq(Specs)
         /\ l \in DOMAIN Defaults => Candidates(l) = entries[l]
         /\ \A i \in 1 .. Len(Candidates(l)) :
              Candidates(l)[i] \in Specs /\ Candidates(l)[i].binaries \in Seq(Binaries)
<1>1. Candidates(l) \in Seq(Specs) /\ (l \in DOMAIN Defaults => Candidates(l) = entries[l])
  BY DEF RegistryInv, RegistryTypes, Candidates
<1>2. \A i \in 1 .. Len(Candidates(l)) : Candidates(l)[i] \in Specs
  BY <1>1
<1> QED BY <1>1, <1>2 DEF Specs

\* A language resolves as soon as one of its candidates has a binary on PATH, to
\* a binary that is there, of a candidate that has it.
LEMMA ResolvesWithBinary ==
  ASSUME RegistryInv, NEW l, NEW i \in 1 .. Len(Candidates(l)),
         ToSet(Candidates(l)[i].binaries) \cap path # {}
  PROVE  /\ Resolves(l)
         /\ FirstCandidate(l) \in 1 .. i
         /\ LET spec == Candidates(l)[FirstCandidate(l)]
            IN /\ FirstBinary(spec) \in 1 .. Len(spec.binaries)
               /\ Resolution(l).command = spec.binaries[FirstBinary(spec)]
               /\ Resolution(l).command \in path
<1> DEFINE found == {j \in 1 .. Len(Candidates(l)) : FirstBinary(Candidates(l)[j]) # 0}
           f == FirstCandidate(l)
           spec == Candidates(l)[f]
<1>1. \A j \in 1 .. Len(Candidates(l)) : Candidates(l)[j].binaries \in Seq(Binaries)
  BY CandidatesType
<1>2. i \in found
  <2>1. FirstBinary(Candidates(l)[i]) \in 1 .. Len(Candidates(l)[i].binaries)
    BY <1>1, FirstBinaryIsFirst
  <2> QED BY <2>1
<1>3. f \in found /\ f <= i
  <2>1. Candidates(l) \in Seq(Specs)
    BY CandidatesType
  <2> QED BY <1>2, <2>1, FirstCandidateIsFirst
<1>4. f \in 1 .. Len(Candidates(l)) /\ FirstBinary(spec) # 0
  BY <1>3
<1>5. ToSet(spec.binaries) \cap path # {}
  BY <1>1, <1>4, FirstBinaryIsFirst
<1>6. FirstBinary(spec) \in 1 .. Len(spec.binaries) /\ spec.binaries[FirstBinary(spec)] \in path
  BY <1>1, <1>4, <1>5, FirstBinaryIsFirst
<1>7. Resolution(l).command = spec.binaries[FirstBinary(spec)]
  BY DEF Resolution
<1>8. Resolves(l) /\ f \in 1 .. i
  BY <1>3, <1>4 DEF Resolves
<1> QED BY <1>6, <1>7, <1>8

\* What discovery finds resolves, after any configs.
THEOREM DiscoveredResolvesHolds == Spec => []DiscoveredResolves
<1>1. RegistryInv => DiscoveredResolves
  <2> SUFFICES ASSUME RegistryInv, NEW l \in Discovered PROVE Resolves(l)
    BY DEF DiscoveredResolves
  <2>1. PICK b \in ToSet(Discovery[l]) : l \in DOMAIN Discovery /\ b \in path
    BY DEF Discovered
  <2>2. PICK d \in ToSet(Defaults[l]) : l \in DOMAIN Defaults /\ b \in ToSet(d.binaries)
    BY <2>1, TablesAssumption DEF TablesAssumption
  <2>3. Candidates(l) = entries[l] /\ entries[l] \in Seq(Specs) /\ Defaults[l] \in Seq(Specs)
    BY <2>2, CandidatesType, RegistryAssumption DEF RegistryAssumption
  <2>4. d.id \in ToSet(Ids(entries[l]))
    <3>1. d.id \in ToSet(Ids(Defaults[l]))
      <4>1. PICK i \in 1 .. Len(Defaults[l]) : d = Defaults[l][i]
        BY <2>3 DEF ToSet
      <4> QED BY <2>3, <4>1, IdsOf
    <3> QED BY <2>2, <3>1 DEF RegistryInv
  <2>5. PICK i \in 1 .. Len(entries[l]) : entries[l][i].id = d.id
    BY <2>3, <2>4, IdsOf
  <2>6. entries[l][i] \in ToSet(entries[l])
    BY <2>3 DEF ToSet
  <2>7. ToSet(d.binaries) \subseteq ToSet(entries[l][i].binaries)
    BY <2>2, <2>5, <2>6 DEF RegistryInv, Grown
  <2> QED BY <2>1, <2>2, <2>3, <2>7, ResolvesWithBinary
<1> QED BY <1>1, RegistryInvHolds, PTL

\* With any one of the known binaries on PATH a language resolves to one of them.
THEOREM AdviceHoldsAlways == Spec => []AdviceHolds
<1>1. RegistryInv => AdviceHolds
  <2> SUFFICES ASSUME RegistryInv, NEW l \in Known, KnownBinaries(l) \cap path # {}
               PROVE  Resolves(l) /\ Resolution(l).command \in KnownBinaries(l) \cap path
    BY DEF AdviceHolds
  <2> DEFINE cs == Candidates(l)  spec == cs[FirstCandidate(l)]
  <2>1. cs \in Seq(Specs) /\ \A i \in 1 .. Len(cs) : cs[i].binaries \in Seq(Binaries)
    BY CandidatesType
  <2>2. \A i \in 1 .. Len(cs) : ToSet(cs[i].binaries) \subseteq KnownBinaries(l)
    BY <2>1 DEF KnownBinaries, ToSet
  <2>3. PICK i \in 1 .. Len(cs) : ToSet(cs[i].binaries) \cap path # {}
    BY <2>1 DEF KnownBinaries, ToSet
  <2>4. /\ Resolves(l) /\ FirstCandidate(l) \in 1 .. i
        /\ FirstBinary(spec) \in 1 .. Len(spec.binaries)
        /\ Resolution(l).command = spec.binaries[FirstBinary(spec)]
        /\ Resolution(l).command \in path
    BY <2>3, ResolvesWithBinary
  <2>5. FirstCandidate(l) \in 1 .. Len(cs)
    BY <2>1, <2>4
  <2>6. spec.binaries[FirstBinary(spec)] \in ToSet(spec.binaries)
    BY <2>1, <2>4, <2>5 DEF ToSet
  <2> QED BY <2>2, <2>4, <2>5, <2>6
<1> QED BY <1>1, RegistryInvHolds, PTL

\* The provider chosen last serves its language, with what the config gave it.
THEOREM ChoiceWinsAlways == Spec => []ChoiceWins
<1>1. RegistryInv => ChoiceWins
  <2> SUFFICES ASSUME RegistryInv, NEW l \in DOMAIN Defaults, chosen[l] # None,
                      \/ ToSet(chosen[l].binaries) \cap path # {}
                      \/ \E d \in ToSet(Defaults[l]) :
                           d.id = chosen[l].provider /\ ToSet(d.binaries) \cap path # {}
               PROVE  /\ Resolves(l) /\ Resolution(l).id = chosen[l].provider
                      /\ chosen[l].args # NoArgs => Resolution(l).args = chosen[l].args
                      /\ ToSet(chosen[l].binaries) \cap path # {} =>
                           Resolution(l).command \in ToSet(chosen[l].binaries) \cap path
    BY DEF ChoiceWins, RegistryInv, RegistryTypes
  <2> DEFINE c == chosen[l]  e == entries[l][1]
  <2>1. /\ e.id = c.provider
        /\ c.args # NoArgs => e.args = c.args
        /\ ToSet(c.binaries) \subseteq ToSet(e.binaries)
        /\ Len(c.binaries) <= Len(e.binaries)
        /\ \A i \in 1 .. Len(c.binaries) : e.binaries[i] = c.binaries[i]
    BY DEF RegistryInv, AtFront
  <2>2. /\ Candidates(l) = entries[l] /\ 1 \in 1 .. Len(entries[l])
        /\ e.binaries \in Seq(Binaries) /\ c.binaries \in Seq(Binaries)
    <3>1. Candidates(l) = entries[l] /\ entries[l] \in Seq(Specs) /\ Len(entries[l]) > 0
      BY CandidatesType DEF RegistryInv
    <3>2. c \in Overrides
      BY DEF RegistryInv, RegistryTypes
    <3>3. 1 \in 1 .. Len(entries[l])
      BY <3>1
    <3>4. e.binaries \in Seq(Binaries)
      BY <3>1, <3>3, CandidatesType
    <3> QED BY <3>1, <3>2, <3>3, <3>4, OverrideType
  <2>3. ToSet(e.binaries) \cap path # {}
    <3>1. CASE ToSet(c.binaries) \cap path # {}
      BY <2>1, <3>1
    <3>2. ASSUME NEW d \in ToSet(Defaults[l]), d.id = c.provider, ToSet(d.binaries) \cap path # {}
          PROVE  ToSet(e.binaries) \cap path # {}
      <4>1. e \in ToSet(entries[l])
        BY <2>2 DEF ToSet, RegistryInv, RegistryTypes
      <4>2. ToSet(d.binaries) \subseteq ToSet(e.binaries)
        <5>1. Grown(l) /\ e.id = d.id
          BY <2>1, <3>2 DEF RegistryInv
        <5> QED BY <4>1, <5>1 DEF Grown
      <4> QED BY <3>2, <4>2
    <3> QED BY <3>1, <3>2
  <2>4. FirstCandidate(l) = 1 /\ Resolves(l) /\ Resolution(l).command = e.binaries[FirstBinary(e)]
    BY <2>2, <2>3, ResolvesWithBinary
  <2>5. Resolution(l).id = e.id /\ Resolution(l).args = e.args
    BY <2>2, <2>4 DEF Resolution
  <2>6. ASSUME ToSet(c.binaries) \cap path # {}
        PROVE  Resolution(l).command \in ToSet(c.binaries) \cap path
    <3>1. PICK i \in 1 .. Len(c.binaries) : c.binaries[i] \in path
      BY <2>2, <2>6 DEF ToSet
    <3>2. i \in 1 .. Len(e.binaries)
      <4>1. Len(c.binaries) <= Len(e.binaries)
        BY <2>1
      <4> QED BY <2>2, <3>1, <4>1
    <3>3. FirstBinary(e) \in 1 .. Len(e.binaries) /\ e.binaries[FirstBinary(e)] \in path
          /\ FirstBinary(e) <= i
      BY <2>1, <2>2, <2>3, <3>1, <3>2, FirstBinaryIsFirst
    <3>4. FirstBinary(e) \in 1 .. Len(c.binaries)
      BY <2>2, <3>1, <3>3
    <3>5. e.binaries[FirstBinary(e)] = c.binaries[FirstBinary(e)]
      BY <2>1, <3>4
    <3> QED BY <2>2, <2>4, <3>3, <3>4, <3>5 DEF ToSet
  <2> QED BY <2>1, <2>4, <2>5, <2>6
<1> QED BY <1>1, RegistryInvHolds, PTL
=============================================================================
