------------------------ MODULE CitableProofTheorems ------------------------
(***************************************************************************)
(* Theorems about CitableProof, for any languages, any capabilities, any    *)
(* floor, any servers and any number of calls in any order.                 *)
(***************************************************************************)
EXTENDS CitableProof, TLAPS

\* What servers report are capabilities.
LEMMA ReportsAreCapabilities == Reported \subseteq SUBSET Capabilities
BY DEF Reported, ProbedCapabilities

\* A report is at or above the floor when the server supports what is there.
LEMMA FloorReported ==
  ASSUME NEW l
  PROVE  (\E caps \in Reported : LastReport(l, caps) /\ Minimum \subseteq caps) <=>
         (\E server \in Servers : /\ LastReport(l, ProbedCapabilities(server))
                                 /\ \A c \in Minimum : Supports(server, c))
<1>1. \A server \in Servers : Minimum \subseteq ProbedCapabilities(server) <=>
                             \A c \in Minimum : Supports(server, c)
  BY ProofAssumption DEF ProbedCapabilities
<1> QED BY <1>1 DEF Reported

\* An entry is set for its language and for no other.
LEMMA EntrySet ==
  ASSUME NEW l, NEW e, SetEntry(l, e)
  PROVE  /\ DOMAIN languages' = DOMAIN languages \cup {l}
         /\ languages'[l] = e
         /\ \A m \in DOMAIN languages : m # l => languages'[m] = languages[m]
BY DEF SetEntry

\* A language's entry is typed, whether it is there or made now.
LEMMA EntryTyped ==
  ASSUME TypeOK, NEW l
  PROVE  /\ EntryOf(l) \in Entry
         /\ EntryOf(l).attempted + EntryOf(l).enriched + EntryOf(l).failed <= Len(log)
<1>1. Len(log) \in Nat BY DEF TypeOK
<1>2. CASE l \in DOMAIN languages BY <1>2 DEF TypeOK, EntryOf
<1>3. CASE l \notin DOMAIN languages
  <2>1. NewEntry \in Entry BY DEF NewEntry, Entry
  <2>2. NewEntry.attempted + NewEntry.enriched + NewEntry.failed = 0 BY DEF NewEntry
  <2> QED BY <1>1, <1>3, <2>1, <2>2 DEF EntryOf
<1> QED BY <1>2, <1>3

\* Counting one more file of any kind.
LEMMA EntryCounts ==
  ASSUME NEW e \in Entry, NEW n \in Nat, e.attempted + e.enriched + e.failed <= n
  PROVE  /\ [e EXCEPT !.attempted = @ + 1] \in Entry
         /\ [e EXCEPT !.enriched = @ + 1] \in Entry
         /\ [e EXCEPT !.failed = @ + 1] \in Entry
         /\ (e.attempted + 1) + e.enriched + e.failed <= n + 1
         /\ e.attempted + (e.enriched + 1) + e.failed <= n + 1
         /\ e.attempted + e.enriched + (e.failed + 1) <= n + 1
         /\ e.attempted + e.enriched + e.failed <= n + 1
<1>1. e.attempted \in Nat /\ e.enriched \in Nat /\ e.failed \in Nat
  BY DEF Entry
<1>2. /\ (e.attempted + 1) + e.enriched + e.failed <= n + 1
      /\ e.attempted + (e.enriched + 1) + e.failed <= n + 1
      /\ e.attempted + e.enriched + (e.failed + 1) <= n + 1
      /\ e.attempted + e.enriched + e.failed <= n + 1
  BY <1>1
<1>3. e.attempted + 1 \in Nat /\ e.enriched + 1 \in Nat /\ e.failed + 1 \in Nat
  BY <1>1
<1>4. [e EXCEPT !.attempted = @ + 1] \in Entry
  BY <1>1, <1>3 DEF Entry
<1>5. [e EXCEPT !.enriched = @ + 1] \in Entry
  BY <1>1, <1>3 DEF Entry
<1>6. [e EXCEPT !.failed = @ + 1] \in Entry
  BY <1>1, <1>3 DEF Entry
<1> QED BY <1>2, <1>4, <1>5, <1>6

\* A probed server is entered without touching the counts.
LEMMA EntryProbed ==
  ASSUME NEW e \in Entry, NEW caps \in Reported
  PROVE  /\ Probed(e, caps) \in Entry
         /\ Probed(e, caps).provider /\ Probed(e, caps).caps = caps
         /\ Probed(e, caps).attempted = e.attempted
         /\ Probed(e, caps).enriched = e.enriched
         /\ Probed(e, caps).failed = e.failed
BY ReportsAreCapabilities DEF Entry, Probed

\* The log grows by a call: what was called before stays called, and the last
\* report of a language changes with a probe of it and with nothing else.
LEMMA LogGrows ==
  ASSUME log \in Seq(Calls), NEW x \in Calls, Logged(x)
  PROVE  /\ log' \in Seq(Calls) /\ Len(log') = Len(log) + 1 /\ Len(log') <= MaxCalls
         /\ \A c, l : Called(c, l)' <=> Called(c, l) \/ (x.call = c /\ x.language = l)
         /\ \A l, caps : LastReport(l, caps)' <=>
              IF x.call = "probe" /\ x.language = l THEN x.caps = caps ELSE LastReport(l, caps)
<1> DEFINE n == Len(log)
<1>1. /\ n \in Nat /\ DOMAIN log = 1 .. n
      /\ log' \in Seq(Calls) /\ Len(log') = n + 1 /\ DOMAIN log' = 1 .. (n + 1)
  BY DEF Logged
<1>2. \A i \in 1 .. n : log'[i] = log[i]
  BY DEF Logged
<1>3. log'[n + 1] = x
  BY DEF Logged
<1>4. Len(log') <= MaxCalls
  BY <1>1, ProofAssumption DEF Logged
<1> HIDE DEF n
<1>5. ASSUME NEW c, NEW l
      PROVE  Called(c, l)' <=> Called(c, l) \/ (x.call = c /\ x.language = l)
  BY <1>1, <1>2, <1>3 DEF Called
<1>6. ASSUME NEW l, NEW caps
      PROVE  LastReport(l, caps)' <=>
               IF x.call = "probe" /\ x.language = l THEN x.caps = caps ELSE LastReport(l, caps)
  <2>1. CASE x.call = "probe" /\ x.language = l
    <3>1. ASSUME x.caps = caps PROVE LastReport(l, caps)'
      BY <1>1, <1>3, <2>1, <3>1 DEF LastReport
    <3>2. ASSUME LastReport(l, caps)' PROVE x.caps = caps
      <4>1. PICK i \in 1 .. (n + 1) :
              /\ log'[i].caps = caps
              /\ \A j \in i + 1 .. n + 1 : ~(log'[j].call = "probe" /\ log'[j].language = l)
        BY <1>1, <3>2 DEF LastReport
      <4>2. i = n + 1
        BY <1>1, <1>3, <2>1, <4>1
      <4> QED BY <1>3, <4>1, <4>2
    <3> QED BY <2>1, <3>1, <3>2
  <2>2. CASE ~(x.call = "probe" /\ x.language = l)
    <3>1. ASSUME LastReport(l, caps) PROVE LastReport(l, caps)'
      <4>1. PICK i \in 1 .. n :
              /\ log[i].call = "probe" /\ log[i].language = l /\ log[i].caps = caps
              /\ \A j \in i + 1 .. n : ~(log[j].call = "probe" /\ log[j].language = l)
        BY <1>1, <3>1 DEF LastReport, n
      <4>2. \A j \in i + 1 .. n + 1 : ~(log'[j].call = "probe" /\ log'[j].language = l)
        BY <1>1, <1>2, <1>3, <2>2, <4>1
      <4>3. i \in 1 .. (n + 1) /\ log'[i] = log[i]
        BY <1>1, <1>2
      <4> QED BY <1>1, <4>1, <4>2, <4>3 DEF LastReport
    <3>2. ASSUME LastReport(l, caps)' PROVE LastReport(l, caps)
      <4>1. PICK i \in 1 .. (n + 1) :
              /\ log'[i].call = "probe" /\ log'[i].language = l /\ log'[i].caps = caps
              /\ \A j \in i + 1 .. n + 1 : ~(log'[j].call = "probe" /\ log'[j].language = l)
        BY <1>1, <3>2 DEF LastReport
      <4>2. i \in 1 .. n
        BY <1>1, <1>3, <2>2, <4>1
      <4>3. \A j \in i + 1 .. n : ~(log[j].call = "probe" /\ log[j].language = l)
        BY <1>1, <1>2, <4>1, <4>2
      <4> QED BY <1>1, <1>2, <4>1, <4>2, <4>3 DEF LastReport, n
    <3> QED BY <2>2, <3>1, <3>2
  <2> QED BY <2>1, <2>2
<1> QED BY <1>1, <1>4, <1>5, <1>6 DEF n

-----------------------------------------------------------------------------
(* The record and the calls. *)

\* What one call does to the record of its language and to the log.
LEMMA CallStep ==
  ASSUME TypeOK, NEW l \in Languages, NEW x \in Calls, NEW e \in Entry,
         Logged(x), x.language = l, x.call # "gap", SetEntry(l, e),
         (e.attempted + e.enriched) + e.failed <= Len(log) + 1,
         UNCHANGED <<required, gaps, finished>>
  PROVE  TypeOK'
<1>1. log' \in Seq(Calls) /\ Len(log') = Len(log) + 1 /\ Len(log') <= MaxCalls
  BY LogGrows DEF TypeOK
<1>2. /\ DOMAIN languages' = DOMAIN languages \cup {l} /\ languages'[l] = e
      /\ \A m \in DOMAIN languages : m # l => languages'[m] = languages[m]
  BY EntrySet
<1>3. languages' \in [DOMAIN languages' -> Entry]
  BY <1>2 DEF TypeOK, SetEntry
<1>4. ASSUME NEW m \in DOMAIN languages'
      PROVE  languages'[m].attempted + languages'[m].enriched + languages'[m].failed <= Len(log')
  <2>1. CASE m = l BY <1>1, <1>2, <2>1
  <2>2. CASE m # l
    <3>1. m \in DOMAIN languages /\ languages'[m] = languages[m] BY <1>2, <2>2
    <3>2. languages[m] \in Entry BY <3>1 DEF TypeOK
    <3>3. languages[m].attempted + languages[m].enriched + languages[m].failed <= Len(log)
      BY <3>1 DEF TypeOK
    <3>4. Len(log) \in Nat BY DEF TypeOK
    <3> QED BY <1>1, <3>1, <3>2, <3>3, <3>4 DEF Entry
  <2> QED BY <2>1, <2>2
<1> QED BY <1>1, <1>2, <1>3, <1>4 DEF TypeOK

\* Every variable keeps its type, and a language's files are counted at most
\* once a call.
THEOREM TypeCorrect == Spec => []TypeOK
<1>1. Init => TypeOK
  <2> SUFFICES ASSUME Init PROVE TypeOK
    OBVIOUS
  <2>1. DOMAIN languages = {} /\ languages \in [DOMAIN languages -> Entry]
    BY DEF Init
  <2>2. log \in Seq(Calls) /\ Len(log) = 0
    BY DEF Init
  <2>3. Len(log) <= MaxCalls
    BY <2>2, ProofAssumption
  <2>4. required \subseteq Languages /\ gaps = {} /\ finished \in BOOLEAN
    BY DEF Init
  <2> QED BY <2>1, <2>2, <2>3, <2>4, Zenon DEF TypeOK
<1>2. TypeOK /\ [Next]_vars => TypeOK'
  <2> SUFFICES ASSUME TypeOK, [Next]_vars PROVE TypeOK'
    OBVIOUS
  <2>0. Len(log) \in Nat BY DEF TypeOK
  <2>1. ASSUME NEW l \in Languages, RecordGap(l) PROVE TypeOK'
    <3>1. [call |-> "gap", language |-> l] \in Calls BY DEF Calls
    <3>2. log' \in Seq(Calls) /\ Len(log') = Len(log) + 1 /\ Len(log') <= MaxCalls
      BY <2>1, <3>1, LogGrows DEF TypeOK, RecordGap
    <3>3. gaps' \subseteq [language : Languages, required : BOOLEAN]
      <4>1. [language |-> l, required |-> l \in required] \in [language : Languages, required : BOOLEAN]
        <5>1. (l \in required) \in BOOLEAN OBVIOUS
        <5> QED BY <5>1, Zenon
      <4> QED BY <2>1, <4>1, Zenon DEF TypeOK, RecordGap
    <3>4. \A m \in DOMAIN languages : languages[m] \in Entry
      BY DEF TypeOK
    <3>5. \A m \in DOMAIN languages :
            languages[m].attempted + languages[m].enriched + languages[m].failed <= Len(log')
      BY <2>0, <3>2, <3>4 DEF TypeOK, Entry
    <3> QED BY <2>1, <3>2, <3>3, <3>5 DEF TypeOK, RecordGap
  <2>2. ASSUME NEW l \in Languages, NEW caps \in Reported, RecordProbe(l, caps) PROVE TypeOK'
    <3>1. [call |-> "probe", language |-> l, caps |-> caps] \in Calls BY DEF Calls
    <3> DEFINE e == Probed(EntryOf(l), caps)
    <3>2. e \in Entry
      BY EntryTyped, EntryProbed
    <3>3. e.attempted + e.enriched + e.failed <= Len(log) + 1
      BY <2>0, EntryTyped, EntryProbed, EntryCounts
    <3> QED BY <2>2, <3>1, <3>2, <3>3, CallStep DEF RecordProbe
  <2>3. ASSUME NEW l \in Languages, FileAttempted(l) PROVE TypeOK'
    <3> DEFINE e == [EntryOf(l) EXCEPT !.attempted = @ + 1]
    <3>0. EntryOf(l) \in Entry BY EntryTyped
    <3>1. [call |-> "attempted", language |-> l] \in Calls BY DEF Calls
    <3>2. e \in Entry
      BY <2>0, EntryTyped, EntryCounts
    <3>3. e.attempted + e.enriched + e.failed <= Len(log) + 1
      BY <2>0, <3>0, EntryTyped, EntryCounts DEF Entry
    <3> QED BY <2>3, <3>1, <3>2, <3>3, CallStep DEF FileAttempted
  <2>4. ASSUME NEW l \in Languages, FileEnriched(l) PROVE TypeOK'
    <3> DEFINE e == [EntryOf(l) EXCEPT !.enriched = @ + 1]
    <3>0. EntryOf(l) \in Entry BY EntryTyped
    <3>1. [call |-> "enriched", language |-> l] \in Calls BY DEF Calls
    <3>2. e \in Entry
      BY <2>0, EntryTyped, EntryCounts
    <3>3. e.attempted + e.enriched + e.failed <= Len(log) + 1
      BY <2>0, <3>0, EntryTyped, EntryCounts DEF Entry
    <3> QED BY <2>4, <3>1, <3>2, <3>3, CallStep DEF FileEnriched
  <2>5. ASSUME NEW l \in Languages, FileFailed(l) PROVE TypeOK'
    <3> DEFINE e == [EntryOf(l) EXCEPT !.failed = @ + 1]
    <3>0. EntryOf(l) \in Entry BY EntryTyped
    <3>1. [call |-> "failed", language |-> l] \in Calls BY DEF Calls
    <3>2. e \in Entry
      BY <2>0, EntryTyped, EntryCounts
    <3>3. e.attempted + e.enriched + e.failed <= Len(log) + 1
      BY <2>0, <3>0, EntryTyped, EntryCounts DEF Entry
    <3> QED BY <2>5, <3>1, <3>2, <3>3, CallStep DEF FileFailed
  <2>6. CASE Finish BY <2>6 DEF Finish, TypeOK
  <2>7. CASE Done BY <2>7 DEF Done, vars, TypeOK
  <2>8. CASE UNCHANGED vars BY <2>8 DEF vars, TypeOK
  <2> QED BY <2>1, <2>2, <2>3, <2>4, <2>5, <2>6, <2>7, <2>8 DEF Next
<1> QED BY <1>1, <1>2, PTL DEF Spec

\* A call about l that is not a gap, and leaves e as its entry: the record
\* still matches the calls.
LEMMA CallMatches ==
  ASSUME TypeOK, RecordMatchesCalls, NEW l \in Languages, NEW x \in Calls, NEW e,
         Logged(x), x.language = l, x.call # "gap", SetEntry(l, e),
         UNCHANGED <<required, gaps, finished>>,
         e.provider <=> EntryOf(l).provider \/ x.call = "probe",
         x.call = "probe" => e.caps = x.caps,
         x.call # "probe" => e.caps = EntryOf(l).caps,
         e.failed > 0 <=> EntryOf(l).failed > 0 \/ x.call = "failed"
  PROVE  RecordMatchesCalls'
<1>1. /\ \A c, m : Called(c, m)' <=> Called(c, m) \/ (x.call = c /\ l = m)
      /\ \A m, caps : LastReport(m, caps)' <=>
           IF x.call = "probe" /\ l = m THEN x.caps = caps ELSE LastReport(m, caps)
  BY LogGrows DEF TypeOK
<1>2. \A m : EntryOf(m)' = IF m = l THEN e ELSE EntryOf(m)
  BY DEF SetEntry, EntryOf, NewEntry
<1>3. ASSUME NEW m \in Languages
      PROVE  /\ (EntryOf(m).provider)' <=> Called("probe", m)'
             /\ (EntryOf(m).failed > 0)' <=> Called("failed", m)'
             /\ (\E g \in gaps' : g.language = m) <=> Called("gap", m)'
  <2>1. /\ EntryOf(m).provider <=> Called("probe", m)
        /\ EntryOf(m).failed > 0 <=> Called("failed", m)
        /\ (\E g \in gaps : g.language = m) <=> Called("gap", m)
    BY DEF RecordMatchesCalls
  <2>2. Called("gap", m)' <=> Called("gap", m)
    BY <1>1
  <2>3. CASE m = l
    <3>1. EntryOf(m)' = e /\ EntryOf(m) = EntryOf(l) BY <1>2, <2>3
    <3>2. Called("probe", m)' <=> Called("probe", m) \/ x.call = "probe" BY <1>1, <2>3
    <3>3. Called("failed", m)' <=> Called("failed", m) \/ x.call = "failed" BY <1>1, <2>3
    <3> QED BY <2>1, <2>2, <3>1, <3>2, <3>3
  <2>4. CASE m # l
    <3>1. EntryOf(m)' = EntryOf(m) BY <1>2, <2>4
    <3>2. \A c : Called(c, m)' <=> Called(c, m) BY <1>1, <2>4
    <3> QED BY <2>1, <3>1, <3>2
  <2> QED BY <2>3, <2>4
<1>4. ASSUME NEW m \in Languages, (EntryOf(m).provider)'
      PROVE  LastReport(m, EntryOf(m).caps)'
  <2>1. CASE m = l /\ x.call = "probe"
    BY <1>1, <1>2, <2>1
  <2>2. CASE ~(m = l /\ x.call = "probe")
    <3>1. (EntryOf(m).caps)' = EntryOf(m).caps /\ EntryOf(m).provider
      BY <1>2, <1>4, <2>2
    <3> QED BY <1>1, <2>2, <3>1 DEF RecordMatchesCalls
  <2> QED BY <2>1, <2>2
<1>5. \A g \in gaps' : g.required <=> g.language \in required'
  BY DEF RecordMatchesCalls
<1> QED BY <1>3, <1>4, <1>5 DEF RecordMatchesCalls

\* The record matches the calls, in whatever order they come.
THEOREM RecordFaithful == Spec => []RecordMatchesCalls
<1>1. Init => RecordMatchesCalls
  <2> SUFFICES ASSUME Init PROVE RecordMatchesCalls
    OBVIOUS
  <2>1. gaps = {} /\ \A c, l : ~Called(c, l)
    BY DEF Init, Called
  <2>2. \A l : ~EntryOf(l).provider /\ EntryOf(l).failed = 0
    BY DEF Init, EntryOf, NewEntry
  <2> QED BY <2>1, <2>2 DEF RecordMatchesCalls
<1>2. TypeOK /\ RecordMatchesCalls /\ [Next]_vars => RecordMatchesCalls'
  <2> SUFFICES ASSUME TypeOK, RecordMatchesCalls, [Next]_vars PROVE RecordMatchesCalls'
    OBVIOUS
  <2>1. ASSUME NEW l \in Languages, RecordGap(l) PROVE RecordMatchesCalls'
    <3> DEFINE x == [call |-> "gap", language |-> l]
    <3>1. x \in Calls /\ x.call = "gap" /\ x.language = l BY DEF Calls
    <3>2. Logged(x) BY <2>1 DEF RecordGap
    <3> HIDE DEF x
    <3>3. /\ \A c, m : Called(c, m)' <=> Called(c, m) \/ (c = "gap" /\ l = m)
          /\ \A m, caps : LastReport(m, caps)' <=> LastReport(m, caps)
      BY <3>1, <3>2, LogGrows DEF TypeOK
    <3>4. \A m : EntryOf(m)' = EntryOf(m)
      BY <2>1 DEF RecordGap, EntryOf
    <3>5. \A g : g \in gaps' <=> g \in gaps \/ g = [language |-> l, required |-> l \in required]
      BY <2>1 DEF RecordGap
    <3>6. ASSUME NEW m \in Languages
          PROVE  (\E g \in gaps' : g.language = m) <=> Called("gap", m)'
      <4>1. (\E g \in gaps' : g.language = m) <=> (\E g \in gaps : g.language = m) \/ m = l
        <5> DEFINE n == [language |-> l, required |-> l \in required]
        <5>1. n.language = l /\ \A g : g \in gaps' <=> g \in gaps \/ g = n BY <3>5
        <5> HIDE DEF n
        <5> QED BY <5>1
      <4> QED BY <3>3, <4>1 DEF RecordMatchesCalls
    <3>7. ASSUME NEW g \in gaps' PROVE g.required <=> g.language \in required'
      <4>1. required' = required BY <2>1 DEF RecordGap
      <4>2. CASE g \in gaps BY <4>1, <4>2 DEF RecordMatchesCalls
      <4>3. CASE g = [language |-> l, required |-> l \in required] BY <4>1, <4>3
      <4> QED BY <3>5, <3>7, <4>2, <4>3
    <3> QED BY <3>3, <3>4, <3>6, <3>7 DEF RecordMatchesCalls
  <2>2. ASSUME NEW l \in Languages, NEW caps \in Reported, RecordProbe(l, caps)
        PROVE  RecordMatchesCalls'
    <3> DEFINE x == [call |-> "probe", language |-> l, caps |-> caps]
               e == Probed(EntryOf(l), caps)
    <3>1. x \in Calls /\ x.call = "probe" /\ x.language = l /\ x.caps = caps BY DEF Calls
    <3>2. Logged(x) /\ SetEntry(l, e) /\ UNCHANGED <<required, gaps, finished>>
      BY <2>2 DEF RecordProbe
    <3>3. e.provider /\ e.caps = caps /\ e.failed = EntryOf(l).failed
      BY EntryTyped, EntryProbed
    <3> HIDE DEF x, e
    <3> QED BY <3>1, <3>2, <3>3, CallMatches
  <2>3. ASSUME NEW l \in Languages, FileAttempted(l) PROVE RecordMatchesCalls'
    <3> DEFINE x == [call |-> "attempted", language |-> l]
               e == [EntryOf(l) EXCEPT !.attempted = @ + 1]
    <3>1. x \in Calls /\ x.call = "attempted" /\ x.language = l BY DEF Calls
    <3>2. Logged(x) /\ SetEntry(l, e) /\ UNCHANGED <<required, gaps, finished>>
      BY <2>3 DEF FileAttempted
    <3>3. e.provider = EntryOf(l).provider /\ e.caps = EntryOf(l).caps /\ e.failed = EntryOf(l).failed
      BY EntryTyped DEF Entry
    <3> HIDE DEF x, e
    <3> QED BY <3>1, <3>2, <3>3, CallMatches
  <2>4. ASSUME NEW l \in Languages, FileEnriched(l) PROVE RecordMatchesCalls'
    <3> DEFINE x == [call |-> "enriched", language |-> l]
               e == [EntryOf(l) EXCEPT !.enriched = @ + 1]
    <3>1. x \in Calls /\ x.call = "enriched" /\ x.language = l BY DEF Calls
    <3>2. Logged(x) /\ SetEntry(l, e) /\ UNCHANGED <<required, gaps, finished>>
      BY <2>4 DEF FileEnriched
    <3>3. e.provider = EntryOf(l).provider /\ e.caps = EntryOf(l).caps /\ e.failed = EntryOf(l).failed
      BY EntryTyped DEF Entry
    <3> HIDE DEF x, e
    <3> QED BY <3>1, <3>2, <3>3, CallMatches
  <2>5. ASSUME NEW l \in Languages, FileFailed(l) PROVE RecordMatchesCalls'
    <3> DEFINE x == [call |-> "failed", language |-> l]
               e == [EntryOf(l) EXCEPT !.failed = @ + 1]
    <3>1. x \in Calls /\ x.call = "failed" /\ x.language = l BY DEF Calls
    <3>2. Logged(x) /\ SetEntry(l, e) /\ UNCHANGED <<required, gaps, finished>>
      BY <2>5 DEF FileFailed
    <3>3. e.provider = EntryOf(l).provider /\ e.caps = EntryOf(l).caps /\ e.failed > 0
      BY EntryTyped DEF Entry
    <3> HIDE DEF x, e
    <3> QED BY <3>1, <3>2, <3>3, CallMatches
  <2>6. CASE Finish
    <3>1. UNCHANGED <<required, languages, gaps, log>> BY <2>6 DEF Finish
    <3> QED BY <3>1 DEF RecordMatchesCalls, EntryOf, Called, LastReport
  <2>7. CASE UNCHANGED vars
    BY <2>7 DEF vars, RecordMatchesCalls, EntryOf, Called, LastReport
  <2>8. CASE Done
    BY <2>7, <2>8 DEF Done
  <2> QED BY <2>1, <2>2, <2>3, <2>4, <2>5, <2>6, <2>7, <2>8 DEF Next
<1> QED BY <1>1, <1>2, TypeCorrect, PTL DEF Spec

-----------------------------------------------------------------------------
(* The verdict. *)

\* A language has one last report at most.
LEMMA OneLastReport ==
  ASSUME log \in Seq(Calls), NEW l, NEW c, NEW d, LastReport(l, c), LastReport(l, d)
  PROVE  c = d
<1>1. Len(log) \in Nat /\ DOMAIN log = 1 .. Len(log) OBVIOUS
<1>2. PICK i \in 1 .. Len(log) :
        /\ log[i].call = "probe" /\ log[i].language = l /\ log[i].caps = c
        /\ \A k \in i + 1 .. Len(log) : ~(log[k].call = "probe" /\ log[k].language = l)
  BY <1>1 DEF LastReport
<1>3. PICK j \in 1 .. Len(log) :
        /\ log[j].call = "probe" /\ log[j].language = l /\ log[j].caps = d
        /\ \A k \in j + 1 .. Len(log) : ~(log[k].call = "probe" /\ log[k].language = l)
  BY <1>1 DEF LastReport
<1>4. i = j BY <1>1, <1>2, <1>3
<1> QED BY <1>2, <1>3, <1>4

\* A report was made by a probe, of a set that servers report.
LEMMA ReportMade ==
  ASSUME log \in Seq(Calls), NEW l, NEW c, LastReport(l, c)
  PROVE  Called("probe", l) /\ c \in Reported
<1>1. PICK i \in DOMAIN log : log[i].call = "probe" /\ log[i].language = l /\ log[i].caps = c
  BY DEF LastReport
<1>2. log[i] \in Calls BY <1>1
<1>3. c \in Reported BY <1>1, <1>2 DEF Calls
<1> QED BY <1>1, <1>3 DEF Called

\* The verdict is clean exactly when the calls say so: of every required
\* language the last server probed was at the floor, no file failed, and no gap
\* was recorded (verify_citable, src/proof.rs).
THEOREM VerdictSound == Spec => []CitableMeansClean
<1>1. TypeOK /\ RecordMatchesCalls => CitableMeansClean
  <2> SUFFICES ASSUME TypeOK, RecordMatchesCalls PROVE CitableMeansClean
    OBVIOUS
  <2> DEFINE Clean(l) == /\ \E caps \in Reported : LastReport(l, caps) /\ Minimum \subseteq caps
                         /\ ~Called("failed", l) /\ ~Called("gap", l)
  <2>1. ASSUME NEW l \in required PROVE ViolationsOf(l) = {} <=> Clean(l)
    <3>1. l \in Languages BY DEF TypeOK
    <3>2. GapOf(l) \in gaps <=> Called("gap", l)
      <4>1. ASSUME Called("gap", l) PROVE GapOf(l) \in gaps
        <5>1. PICK g \in gaps : g.language = l BY <3>1, <4>1 DEF RecordMatchesCalls
        <5>2. g.required /\ g \in [language : Languages, required : BOOLEAN]
          BY <2>1, <5>1 DEF RecordMatchesCalls, TypeOK
        <5> QED BY <5>1, <5>2 DEF GapOf
      <4>2. ASSUME GapOf(l) \in gaps PROVE Called("gap", l)
        BY <3>1, <4>2 DEF RecordMatchesCalls, GapOf
      <4> QED BY <4>1, <4>2
    <3>3. /\ EntryOf(l).provider <=> Called("probe", l)
          /\ EntryOf(l).failed > 0 <=> Called("failed", l)
          /\ EntryOf(l).provider => LastReport(l, EntryOf(l).caps)
          /\ (\E g \in gaps : g.language = l) <=> Called("gap", l)
      BY <3>1 DEF RecordMatchesCalls
    <3>4. CASE l \notin DOMAIN languages
      <4>1. ~Called("probe", l) BY <3>3, <3>4 DEF EntryOf, NewEntry
      <4>2. ~Clean(l) BY <4>1, ReportMade DEF TypeOK
      <4>3. ViolationsOf(l) # {} BY <3>2, <3>3, <3>4 DEF ViolationsOf
      <4> QED BY <4>2, <4>3
    <3>5. CASE l \in DOMAIN languages
      <4>1. EntryOf(l) = languages[l] BY <3>5 DEF EntryOf
      <4>2. ViolationsOf(l) = {} <=>
              /\ GapOf(l) \notin gaps /\ EntryOf(l).provider /\ MeetsMinimum(EntryOf(l))
              /\ ~(EntryOf(l).failed > 0)
        BY <3>5, <4>1 DEF ViolationsOf
      <4>3. ASSUME ViolationsOf(l) = {} PROVE Clean(l)
        <5>1. LastReport(l, EntryOf(l).caps) /\ Minimum \subseteq EntryOf(l).caps
          BY <3>3, <4>2, <4>3 DEF MeetsMinimum
        <5>2. EntryOf(l).caps \in Reported BY <5>1, ReportMade DEF TypeOK
        <5> QED BY <3>2, <3>3, <4>2, <4>3, <5>1, <5>2
      <4>4. ASSUME Clean(l) PROVE ViolationsOf(l) = {}
        <5>1. PICK caps \in Reported : LastReport(l, caps) /\ Minimum \subseteq caps BY <4>4
        <5>2. EntryOf(l).provider BY <3>3, <5>1, ReportMade DEF TypeOK
        <5>3. EntryOf(l).caps = caps BY <3>3, <5>1, <5>2, OneLastReport DEF TypeOK
        <5> QED BY <3>2, <3>3, <4>2, <4>4, <5>1, <5>2, <5>3 DEF MeetsMinimum
      <4> QED BY <4>3, <4>4
    <3> QED BY <3>4, <3>5
  <2>2. Citable <=> \A l \in required : ViolationsOf(l) = {}
    <3> DEFINE kinds == {"UnresolvedRequiredGap", "MissingRequiredProvider",
                         "BelowMinimumCapabilities", "FileFailures"}
    <3>1. \A l : ViolationsOf(l) \subseteq kinds BY DEF ViolationsOf
    <3>2. \A l \in required, k \in kinds : <<l, k>> \in Violations <=> k \in ViolationsOf(l)
      BY DEF Violations
    <3>3. Violations \subseteq required \X kinds BY DEF Violations
    <3>4. ASSUME Citable, NEW l \in required PROVE ViolationsOf(l) = {}
      BY <3>1, <3>2, <3>4 DEF Citable
    <3>5. ASSUME \A l \in required : ViolationsOf(l) = {} PROVE Citable
      <4>1. ASSUME NEW v \in Violations PROVE FALSE
        BY <3>5, <4>1 DEF Violations
      <4> QED BY <4>1 DEF Citable
    <3> QED BY <3>4, <3>5
  <2>3. ASSUME NEW l \in required
        PROVE  ViolationsOf(l) = {} <=>
                 /\ \E server \in Servers : /\ LastReport(l, ProbedCapabilities(server))
                                          /\ \A c \in Minimum : Supports(server, c)
                 /\ ~Called("failed", l) /\ ~Called("gap", l)
    BY <2>1, FloorReported
  <2> HIDE DEF Clean
  <2> QED BY <2>2, <2>3 DEF CitableMeansClean
<1> QED BY <1>1, TypeCorrect, RecordFaithful, PTL

\* A failure and a gap, once recorded, are in every later verdict.
THEOREM FailuresKept == Spec => FailuresStay
<1> DEFINE Stay == \A l \in required :
             ViolationsOf(l) \cap {"FileFailures", "UnresolvedRequiredGap"} \subseteq ViolationsOf(l)'
<1>1. TypeOK /\ [Next]_vars => [Stay]_vars
  <2> SUFFICES ASSUME TypeOK, Next, NEW l \in required
               PROVE  ViolationsOf(l) \cap {"FileFailures", "UnresolvedRequiredGap"}
                        \subseteq ViolationsOf(l)'
    OBVIOUS
  <2>1. gaps \subseteq gaps'
    BY DEF Next, RecordGap, RecordProbe, FileAttempted, FileEnriched, FileFailed, Finish, Done, vars
  <2>2. ASSUME l \in DOMAIN languages, languages[l].failed > 0
        PROVE  l \in DOMAIN languages' /\ languages'[l].failed > 0
    <3>1. languages[l] \in Entry /\ EntryOf(l) = languages[l]
      BY <2>2 DEF TypeOK, EntryOf
    <3>2. ASSUME NEW m, NEW e, SetEntry(m, e), m = l => e.failed > 0
          PROVE  l \in DOMAIN languages' /\ languages'[l].failed > 0
      BY <2>2, <3>2 DEF SetEntry
    <3>3. ASSUME NEW m \in Languages, NEW caps \in Reported, RecordProbe(m, caps)
          PROVE  l \in DOMAIN languages' /\ languages'[l].failed > 0
      <4>1. Probed(EntryOf(m), caps).failed = EntryOf(m).failed BY EntryTyped, EntryProbed
      <4>2. SetEntry(m, Probed(EntryOf(m), caps)) BY <3>3 DEF RecordProbe
      <4>3. m = l => Probed(EntryOf(m), caps).failed > 0 BY <2>2, <3>1, <4>1
      <4> QED BY <3>2, <4>2, <4>3
    <3>4. ASSUME NEW m \in Languages, FileAttempted(m)
          PROVE  l \in DOMAIN languages' /\ languages'[l].failed > 0
      BY <2>2, <3>1, <3>4, EntryTyped DEF FileAttempted, SetEntry, Entry
    <3>5. ASSUME NEW m \in Languages, FileEnriched(m)
          PROVE  l \in DOMAIN languages' /\ languages'[l].failed > 0
      BY <2>2, <3>1, <3>5, EntryTyped DEF FileEnriched, SetEntry, Entry
    <3>6. ASSUME NEW m \in Languages, FileFailed(m)
          PROVE  l \in DOMAIN languages' /\ languages'[l].failed > 0
      BY <2>2, <3>1, <3>6, EntryTyped DEF FileFailed, SetEntry, Entry
    <3>7. CASE UNCHANGED languages BY <2>2, <3>7
    <3>8. (\E m \in Languages : RecordGap(m)) \/ Finish \/ Done => UNCHANGED languages
      BY DEF RecordGap, Finish, Done, vars
    <3> QED BY <3>3, <3>4, <3>5, <3>6, <3>7, <3>8 DEF Next
  <2>3. "UnresolvedRequiredGap" \in ViolationsOf(l) => "UnresolvedRequiredGap" \in ViolationsOf(l)'
    BY <2>1 DEF ViolationsOf, GapOf
  <2>4. "FileFailures" \in ViolationsOf(l) => l \in DOMAIN languages /\ languages[l].failed > 0
    BY DEF ViolationsOf
  <2>5. l \in DOMAIN languages' /\ languages'[l].failed > 0 => "FileFailures" \in ViolationsOf(l)'
    BY DEF ViolationsOf
  <2> QED BY <2>2, <2>3, <2>4, <2>5
<1>2. ([][Stay]_vars) <=> FailuresStay
  BY DEF FailuresStay
<1> QED BY <1>1, <1>2, TypeCorrect, PTL DEF Spec
=============================================================================
