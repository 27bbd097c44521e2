---------------------------- MODULE LspServerProofs ----------------------------
(***************************************************************************)
(* Theorems about LspServer, for any limits, any size of the tail, of its   *)
(* chunks and of the pipe, and any number of bytes on stderr.               *)
(***************************************************************************)
EXTENDS LspServer, SequenceTheorems, TLAPS

(* Runs of bytes. *)

\* A run of consecutive bytes, as a sequence.
LEMMA BytesSeq ==
  ASSUME NEW a \in Nat, NEW b \in Nat, a <= b
  PROVE  /\ Bytes(a, b) \in Seq(Nat) /\ Bytes(a, b) \in Seq(1 .. b)
         /\ Len(Bytes(a, b)) = b - a
         /\ \A i \in 1 .. (b - a) : Bytes(a, b)[i] = a + i
<1>1. b - a \in Nat
  OBVIOUS
<1>2. \A i \in 1 .. (b - a) : a + i \in 1 .. b /\ a + i \in Nat
  OBVIOUS
<1> QED BY <1>1, <1>2 DEF Bytes

\* Two runs that follow each other are one.
LEMMA BytesJoin ==
  ASSUME NEW a \in Nat, NEW b \in Nat, NEW c \in Nat, a <= b, b <= c
  PROVE  Bytes(a, b) \o Bytes(b, c) = Bytes(a, c)
<1> DEFINE s == Bytes(a, b)  t == Bytes(b, c)  u == Bytes(a, c)
<1>1. s \in Seq(Nat) /\ Len(s) = b - a /\ \A i \in 1 .. (b - a) : s[i] = a + i
  BY BytesSeq
<1>2. t \in Seq(Nat) /\ Len(t) = c - b /\ \A i \in 1 .. (c - b) : t[i] = b + i
  BY BytesSeq
<1>3. u \in Seq(Nat) /\ Len(u) = c - a /\ \A i \in 1 .. (c - a) : u[i] = a + i
  <2>1. a <= c
    OBVIOUS
  <2> QED BY <2>1, BytesSeq
<1> HIDE DEF s, t, u
<1>4. /\ s \o t \in Seq(Nat) /\ Len(s \o t) = (b - a) + (c - b)
      /\ \A i \in 1 .. (b - a) + (c - b) :
           (s \o t)[i] = IF i <= b - a THEN s[i] ELSE t[i - (b - a)]
  <2>1. /\ s \o t \in Seq(Nat) /\ Len(s \o t) = Len(s) + Len(t)
        /\ \A i \in 1 .. Len(s) + Len(t) :
             (s \o t)[i] = IF i <= Len(s) THEN s[i] ELSE t[i - Len(s)]
    BY <1>1, <1>2, ConcatProperties
  <2> QED BY <1>1, <1>2, <2>1
<1>5. ASSUME NEW i \in 1 .. (c - a) PROVE (s \o t)[i] = u[i]
  <2>1. CASE i <= b - a
    BY <1>1, <1>3, <1>4, <2>1
  <2>2. CASE i > b - a
    <3>1. i - (b - a) \in 1 .. (c - b) /\ b + (i - (b - a)) = a + i
      BY <2>2
    <3>2. (s \o t)[i] = t[i - (b - a)]
      BY <1>4, <2>2
    <3> QED BY <1>2, <1>3, <3>1, <3>2
  <2>3. i <= b - a \/ i > b - a
    OBVIOUS
  <2> QED BY <2>1, <2>2, <2>3
<1>6. s \o t = u
  <2>1. (b - a) + (c - b) = c - a
    OBVIOUS
  <2> QED BY <1>3, <1>4, <1>5, <2>1, SeqEqual
<1> QED BY <1>6 DEF s, t, u

\* The end of a run.
LEMMA BytesLast ==
  ASSUME NEW a \in Nat, NEW b \in Nat, NEW n \in Nat, a <= b, n <= b - a
  PROVE  LastOf(Bytes(a, b), n) = Bytes(b - n, b)
<1> DEFINE s == Bytes(a, b)  u == Bytes(b - n, b)
<1>0. b - n \in Nat /\ b - n <= b /\ b - (b - n) = n
  OBVIOUS
<1>1. /\ s \in Seq(1 .. b) /\ Len(s) = b - a /\ \A i \in 1 .. (b - a) : s[i] = a + i
      /\ u \in Seq(1 .. b) /\ Len(u) = n /\ \A i \in 1 .. n : u[i] = b - n + i
  BY <1>0, BytesSeq
<1> HIDE DEF s, u
<1> DEFINE m == Len(s) - n + 1
<1>2. LastOf(s, n) = SubSeq(s, m, Len(s))
  BY DEF LastOf
<1>3. m \in 1 .. Len(s) + 1
  <2>1. Len(s) = b - a
    BY <1>1
  <2> QED BY <2>1
<1>4. SubSeq(s, m, Len(s)) \in Seq(1 .. b) /\ Len(SubSeq(s, m, Len(s))) = n
  <2>1. s \in Seq(1 .. b) /\ Len(s) \in Nat /\ m \in 1 .. Len(s) + 1 /\ Len(s) - m + 1 = n
    BY <1>1, <1>3
  <2> HIDE DEF m
  <2>2. m \in 1 .. Len(s) + 1 /\ Len(s) \in m - 1 .. Len(s)
    BY <2>1
  <2>3. SubSeq(s, m, Len(s)) \in Seq(1 .. b) /\ Len(SubSeq(s, m, Len(s))) = Len(s) - m + 1
    BY <2>1, <2>2, SubSeqProperties
  <2> QED BY <2>1, <2>3
<1>5. ASSUME NEW i \in 1 .. n PROVE SubSeq(s, m, Len(s))[i] = u[i]
  <2>1. SubSeq(s, m, Len(s))[i] = s[m + i - 1] /\ m + i - 1 \in 1 .. Len(s)
    BY <1>1, <1>3
  <2> QED BY <1>1, <2>1
<1>6. SubSeq(s, m, Len(s)) = u
  BY <1>1, <1>4, <1>5
<1> QED BY <1>2, <1>6 DEF s, u

\* What the drain keeps of the tail and the bytes it just read.
LEMMA KeepTailIsLastWords ==
  ASSUME NEW d \in Nat, NEW n \in Nat
  PROVE  KeepTail(LastWords(d) \o Bytes(d, d + n)) = LastWords(d + n)
<1> USE LimitsAssumption DEF LimitsAssumption
<1> DEFINE k == SmallerOf(d, TailCap)  s == Bytes(d - k, d + n)
<1>1. k \in Nat /\ k <= d /\ k <= TailCap /\ d - k \in Nat /\ d + n \in Nat /\ (k < TailCap => k = d)
  BY DEF SmallerOf
<1>2. LastWords(d) \o Bytes(d, d + n) = s
  <2>1. d - k <= d /\ d <= d + n
    BY <1>1
  <2> HIDE DEF k
  <2>2. Bytes(d - k, d) \o Bytes(d, d + n) = s
    BY <1>1, <2>1, BytesJoin
  <2> QED BY <2>2 DEF LastWords, k
<1>3. Len(s) = n + k
  <2>1. Len(s) = (d + n) - (d - k)
    <3> HIDE DEF k
    <3>1. d - k <= d + n
      BY <1>1
    <3> QED BY <1>1, <3>1, BytesSeq
  <2> HIDE DEF k, s
  <2> QED BY <1>1, <2>1
<1> HIDE DEF k, s
<1>4. CASE n + k > TailCap
  <2>1. KeepTail(s) = LastOf(s, TailCap)
    BY <1>3, <1>4 DEF KeepTail
  <2>2. LastOf(s, TailCap) = Bytes((d + n) - TailCap, d + n)
    BY <1>1, <1>4, BytesLast DEF s
  <2>3. SmallerOf(d + n, TailCap) = TailCap
    BY <1>1, <1>4 DEF SmallerOf
  <2> QED BY <1>2, <2>1, <2>2, <2>3 DEF LastWords
<1>5. CASE n + k <= TailCap
  <2>1. KeepTail(s) = s
    BY <1>1, <1>3, <1>5 DEF KeepTail
  <2>2. n = 0 \/ k = d
    BY <1>1, <1>5
  <2>3. d - k = (d + n) - SmallerOf(d + n, TailCap)
    BY <1>1, <1>5, <2>2 DEF SmallerOf, k
  <2> QED BY <1>2, <2>1, <2>3 DEF LastWords, s
<1> QED BY <1>1, <1>4, <1>5

-----------------------------------------------------------------------------
(* Type correctness, and the tail. *)

\* The last words of n bytes fit the tail.
LEMMA LastWordsType ==
  ASSUME NEW n \in 0 .. MaxBytes
  PROVE  LastWords(n) \in Seq(1 .. MaxBytes) /\ Len(LastWords(n)) <= TailCap
<1> USE LimitsAssumption DEF LimitsAssumption
<1> DEFINE k == SmallerOf(n, TailCap)
<1>1. k \in Nat /\ k <= n /\ k <= TailCap /\ n \in Nat /\ n - k \in Nat /\ n - k <= n /\ n - (n - k) = k
  BY DEF SmallerOf
<1> HIDE DEF k
<1>2. /\ Bytes(n - k, n) \in Seq(1 .. n) /\ Len(Bytes(n - k, n)) = k
  BY <1>1, BytesSeq
<1>3. 1 .. n \subseteq 1 .. MaxBytes
  OBVIOUS
<1>4. Bytes(n - k, n) \in Seq(1 .. MaxBytes)
  BY <1>2, <1>3, SeqMonotonic
<1> QED BY <1>1, <1>2, <1>4 DEF LastWords, k

\* Every variable keeps its type, and the tail is what the drain read last.
TailInv == TypeOK /\ TailIsLastWords

\* The flags stay Boolean.
LEMMA FlagsStep == FlagTypes /\ [Next]_vars => FlagTypes'
  BY Zenon DEF FlagTypes, Next, vars, call, request, drain, Resolve, VersionEnds, Spawn,
     InitializeWritten, InitializeFails, HandshakeTimesOut, InitializeAnswered, ReportStderr,
     InitializedSent, InitializedFails, ProbeSucceeds, ProbeTimesOut, ShutdownBegins,
     ShutdownAnswered, ShutdownEnds, Emit, Answer, Exit, DrainStderr, StderrEnds, Tick, Ended,
     Settles, EndsWith

LEMMA TailInvInit == Init => TailInv
<1> SUFFICES ASSUME Init PROVE TailInv
  OBVIOUS
<1> USE LimitsAssumption DEF LimitsAssumption
<1>1. LastWords(0) = <<>>
  BY DEF LastWords, SmallerOf, Bytes
<1>2. FlagTypes
  BY DEF Init, FlagTypes
<1>3. <<>> \in Seq(1 .. MaxBytes) /\ Len(<<>>) = 0
  OBVIOUS
<1> QED BY <1>1, <1>2, <1>3 DEF Init, TailInv, TypeOK, TailIsLastWords, Unlimited

LEMMA TailInvStep == TailInv /\ [Next]_vars => TailInv'
<1> SUFFICES ASSUME TailInv, [Next]_vars PROVE TailInv'
  OBVIOUS
<1> FlagTypes'
  BY FlagsStep DEF TailInv, TypeOK
<1> USE LimitsAssumption DEF LimitsAssumption
<1> USE DEF TailInv, TypeOK, TailIsLastWords, Handshake, Unlimited, call, request, process, drain
<1>1. ASSUME Resolve \/ VersionEnds \/ Spawn PROVE TailInv'
  BY <1>1 DEF Resolve, VersionEnds, Spawn
<1>2. ASSUME InitializeWritten PROVE TailInv'
  <2>1. requestDue' \in 0 .. MaxTime + RequestLimit
    <3>1. MaxTime \in Nat /\ RequestLimit \in Nat /\ now \in 0 .. MaxTime
      OBVIOUS
    <3>2. requestDue' = now + RequestLimit
      BY <1>2 DEF InitializeWritten
    <3> QED BY ONLY <3>1, <3>2
  <2>2. {requestDue', settleDue'} \subseteq 0 .. MaxTime + RequestLimit
    BY <1>2, <2>1 DEF InitializeWritten
  <2> QED BY <1>2, <2>2 DEF InitializeWritten
<1>3. ASSUME InitializeFails \/ HandshakeTimesOut PROVE TailInv'
  <2>1. now + SettleLimit \in 0 .. MaxTime + RequestLimit
    <3>1. /\ MaxTime \in Nat /\ RequestLimit \in Nat /\ SettleLimit \in Nat
          /\ SettleLimit <= RequestLimit /\ now \in 0 .. MaxTime
      OBVIOUS
    <3> QED BY ONLY <3>1
  <2>2. {requestDue', settleDue'} \subseteq 0 .. MaxTime + RequestLimit
    BY <1>3, <2>1 DEF InitializeFails, HandshakeTimesOut, Settles
  <2> QED BY <1>3, <2>2 DEF InitializeFails, HandshakeTimesOut, Settles
<1>4. ASSUME InitializeAnswered \/ InitializedSent PROVE TailInv'
  BY <1>4 DEF InitializeAnswered, InitializedSent
<1>5. ASSUME ReportStderr PROVE TailInv'
  BY <1>5 DEF ReportStderr, DropChild
<1>6. ASSUME InitializedFails \/ ProbeSucceeds \/ ProbeTimesOut \/ ShutdownEnds PROVE TailInv'
  BY <1>6 DEF InitializedFails, ProbeSucceeds, ProbeTimesOut, ShutdownEnds, EndsWith, DropChild
<1>7. ASSUME ShutdownBegins \/ ShutdownAnswered PROVE TailInv'
  BY <1>7 DEF ShutdownBegins, ShutdownAnswered
<1>8. ASSUME Emit \/ Answer \/ Exit PROVE TailInv'
  <2>1. emitted' \in 0 .. MaxBytes /\ drained' \in 0 .. emitted'
    <3>1. MaxBytes \in Nat /\ emitted \in 0 .. MaxBytes /\ drained \in 0 .. emitted
      OBVIOUS
    <3>2. drained' = drained /\ (emitted' = emitted \/ (emitted < MaxBytes /\ emitted' = emitted + 1))
      BY <1>8 DEF Emit, Answer, Exit
    <3> QED BY ONLY <3>1, <3>2
  <2> QED BY <1>8, <2>1 DEF Emit, Answer, Exit
<1>9. ASSUME DrainStderr PROVE TailInv'
  <2>1. PICK n \in 1 .. Chunk :
          /\ drained + n <= emitted /\ drained' = drained + n
          /\ tail' = KeepTail(tail \o Bytes(drained, drained + n))
    BY <1>9 DEF DrainStderr
  <2>2. tail' = LastWords(drained')
    <3>1. drained \in Nat /\ n \in Nat
      OBVIOUS
    <3>2. KeepTail(LastWords(drained) \o Bytes(drained, drained + n)) = LastWords(drained + n)
      BY <3>1, KeepTailIsLastWords
    <3> QED BY <2>1, <3>2
  <2>3. drained' \in 0 .. emitted /\ drained' \in 0 .. MaxBytes
    <3>1. /\ MaxBytes \in Nat /\ Chunk \in Nat
          /\ emitted \in 0 .. MaxBytes /\ drained \in 0 .. emitted
      OBVIOUS
    <3>2. n \in 1 .. Chunk /\ drained + n <= emitted /\ drained' = drained + n
      BY <2>1
    <3> QED BY ONLY <3>1, <3>2
  <2>4. tail' \in Seq(1 .. MaxBytes) /\ Len(tail') <= TailCap
    BY <2>2, <2>3, LastWordsType
  <2>5. TailIsLastWords'
    BY <2>2 DEF LastWords, Bytes, SmallerOf
  <2> QED BY <1>9, <2>3, <2>4, <2>5 DEF DrainStderr
<1>10. ASSUME StderrEnds \/ Tick \/ UNCHANGED vars PROVE TailInv'
  <2>1. now' \in 0 .. MaxTime
    <3>1. MaxTime \in Nat /\ now \in 0 .. MaxTime
      OBVIOUS
    <3>2. now' = now \/ (now < MaxTime /\ now' = now + 1)
      BY <1>10 DEF StderrEnds, Tick, vars
    <3> QED BY ONLY <3>1, <3>2
  <2> QED BY <1>10, <2>1 DEF StderrEnds, Tick, vars
<1> QED
  BY <1>1, <1>2, <1>3, <1>4, <1>5, <1>6, <1>7, <1>8, <1>9, <1>10 DEF Next, Ended

\* Every variable of the server keeps its type, the tail and the report their bound.
THEOREM TypeCorrect == Spec => []TypeOK
<1>1. TailInv => TypeOK
  BY DEF TailInv
<1> QED BY <1>1, TailInvInit, TailInvStep, PTL DEF Spec

\* The tail is the end of what was read from stderr, whatever the chunks.
THEOREM TailIsLastWordsHolds == Spec => []TailIsLastWords
<1>1. TailInv => TailIsLastWords
  BY DEF TailInv
<1> QED BY <1>1, TailInvInit, TailInvStep, PTL DEF Spec

-----------------------------------------------------------------------------
(* The end of stderr, and of the process. *)

\* The drain ends when it has read everything a dead server wrote, and whoever
\* has not asked yet still finds its notification.
EndInv ==
  /\ eof => drained = emitted /\ proc \in {"exited", "killed"}
  /\ permit => eof
  /\ eof /\ phase # "ended" => permit
  /\ phase \in Unlimited => proc = "none"
  /\ phase = "settle" => outcome \in {"InitializeFailed", "Timeout"}
  /\ phase = "ended" => proc # "running"

LEMMA EndInvStep == TypeOK /\ EndInv /\ [Next]_vars => EndInv'
<1> SUFFICES ASSUME TypeOK, EndInv, [Next]_vars PROVE EndInv'
  OBVIOUS
<1>0. /\ proc \in {"none", "running", "exited", "killed"} /\ emitted \in Nat /\ drained \in Nat
      /\ FlagTypes
  BY LimitsAssumption DEF TypeOK, LimitsAssumption
<1> USE DEF EndInv, Handshake, Unlimited, call, request, process, drain
<1>1. ASSUME Resolve \/ VersionEnds \/ Spawn PROVE EndInv'
  BY <1>1 DEF Resolve, VersionEnds, Spawn
<1>2. ASSUME InitializeWritten \/ InitializeAnswered \/ InitializedSent PROVE EndInv'
  BY <1>2 DEF InitializeWritten, InitializeAnswered, InitializedSent
<1>3. ASSUME InitializeFails \/ HandshakeTimesOut PROVE EndInv'
  BY <1>3 DEF InitializeFails, HandshakeTimesOut, Settles
<1>4. ASSUME ReportStderr PROVE EndInv'
  BY <1>4 DEF ReportStderr, DropChild
<1>5. ASSUME InitializedFails \/ ProbeSucceeds \/ ProbeTimesOut \/ ShutdownEnds PROVE EndInv'
  BY <1>5 DEF InitializedFails, ProbeSucceeds, ProbeTimesOut, ShutdownEnds, EndsWith, DropChild
<1>6. ASSUME ShutdownBegins \/ ShutdownAnswered PROVE EndInv'
  BY <1>6 DEF ShutdownBegins, ShutdownAnswered
<1>7. ASSUME Emit \/ Answer \/ Exit PROVE EndInv'
  BY <1>7 DEF Emit, Answer, Exit
<1>8. ASSUME DrainStderr PROVE EndInv'
  <2>1. PICK n \in 1 .. Chunk : drained + n <= emitted /\ drained' = drained + n
    BY <1>8 DEF DrainStderr
  <2>2. ~eof
    BY <1>0, <2>1
  <2> QED BY <1>8, <2>2 DEF DrainStderr
<1>9. ASSUME StderrEnds \/ Tick \/ UNCHANGED vars PROVE EndInv'
  BY <1>9 DEF StderrEnds, Tick, vars
<1> QED BY <1>1, <1>2, <1>3, <1>4, <1>5, <1>6, <1>7, <1>8, <1>9 DEF Next, Ended

LEMMA EndInvHolds == Spec => []EndInv
<1>1. Init => EndInv
  BY DEF Init, EndInv, Unlimited
<1> QED BY <1>1, TypeCorrect, EndInvStep, PTL DEF Spec

\* A drain that finishes before the failure path asks is not a lost wakeup.
THEOREM NoLostWakeupHolds == Spec => []NoLostWakeup
<1>1. EndInv => NoLostWakeup
  BY DEF EndInv, NoLostWakeup
<1> QED BY <1>1, EndInvHolds, PTL

\* No process survives the end of the call that started it.
THEOREM NoServerLeftBehindHolds == Spec => []NoServerLeftBehind
<1>1. EndInv => NoServerLeftBehind
  BY DEF EndInv, NoServerLeftBehind
<1> QED BY <1>1, EndInvHolds, PTL

\* A failure reported before the settling time is up carries the last words of
\* the server complete.
THEOREM LastWordsAreComplete == Spec => LastWordsComplete
<1>1. TailInv /\ EndInv /\ [Next]_vars =>
        [phase = "settle" /\ outcome' = outcome /\ phase' = "ended" /\ now < settleDue
           => carried' = LastWords(emitted)]_vars
  <2> SUFFICES ASSUME TailInv, EndInv, [Next]_vars, phase = "settle", outcome' = outcome,
                      phase' = "ended", now < settleDue
               PROVE  carried' = LastWords(emitted)
    OBVIOUS
  <2>1. ReportStderr
    BY DEF EndInv, Next, vars, call, request, process, drain, Resolve, VersionEnds, Spawn,
       InitializeWritten, InitializeFails, HandshakeTimesOut, InitializeAnswered,
       InitializedSent, InitializedFails, ProbeSucceeds, ProbeTimesOut, ShutdownBegins,
       ShutdownAnswered, ShutdownEnds, Emit, Answer, Exit, DrainStderr, StderrEnds, Tick, Ended,
       Settles, EndsWith
  <2>2. permit /\ drained = emitted
    <3>1. now \in Int /\ settleDue \in Int
      BY LimitsAssumption DEF TailInv, TypeOK, LimitsAssumption
    <3> QED BY <2>1, <3>1 DEF ReportStderr, EndInv
  <2> QED BY <2>1, <2>2 DEF ReportStderr, TailInv, TailIsLastWords
<1> QED BY <1>1, TailInvInit, TailInvStep, EndInvHolds, PTL DEF Spec, LastWordsComplete
=============================================================================
