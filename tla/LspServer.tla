------------------------------ MODULE LspServer ------------------------------
(***************************************************************************)
(* One language server process from spawn to end (src/lifecycle.rs): the    *)
(* initialize handshake under its time limits, the task that drains the     *)
(* server's stderr into a bounded tail, the failure path that attaches that *)
(* tail to an error, the readiness probe around it all with the resolution  *)
(* of the binary (ProviderRegistry) before it, and shutdown.                *)
(*                                                                         *)
(* Time is a clock of ticks.  A timer that is due fires before the clock    *)
(* moves on; everything else takes as long as it likes.  Bytes of stderr    *)
(* are numbered in the order the server writes them.  The JSON-RPC client   *)
(* (JsonRpcClient) appears by what its calls return.                        *)
(***************************************************************************)
EXTENDS Integers, Sequences, SequencesExt

CONSTANTS
  TailCap,       \* STDERR_TAIL_CAP
  Chunk,         \* how much the drain reads at once
  PipeCap,       \* what the kernel buffers of the server's stderr
  MaxBytes,      \* bound: how much the server writes to stderr
  Needs,         \* stderr bytes the server writes before it answers
  SettleLimit,   \* STDERR_SETTLE, 250 ms
  RequestLimit,  \* the client's limit on a response, 10 s
  ProbeLimit,    \* READINESS_PROBE_TIMEOUT, 10 s
  StartLimit,    \* the limit of start() on the handshake, 30 s
  MaxTime        \* bound of the clock

ASSUME LimitsAssumption ==
  /\ {TailCap, Chunk, PipeCap} \subseteq Nat \ {0}
  /\ {MaxBytes, Needs, MaxTime} \subseteq Nat
  /\ {SettleLimit, RequestLimit, ProbeLimit, StartLimit} \subseteq Nat \ {0}
  /\ SettleLimit <= RequestLimit /\ RequestLimit < StartLimit /\ ProbeLimit < StartLimit

VARIABLES
  phase,      \* where the probe, start(), or later shutdown(), is suspended
  probing,    \* was start() called by probe_readiness_with?
  outcome,    \* what the caller was told, or will be after the settling
  carried,    \* the stderr attached to the error
  sent,       \* was initialize written?
  reply,      \* the server's answer to initialize
  requestDue, \* when the client gives up waiting for it
  settleDue,  \* when with_stderr gives up waiting for the end of stderr
  now,
  proc,       \* the server process
  emitted,    \* bytes the server has written to stderr
  drained,    \* bytes the drain task has read
  tail,       \* the tail buffer
  eof,        \* has the drain task seen the end of stderr?
  permit      \* the stored notification of `drained`

call    == <<phase, probing, outcome, carried>>
request == <<sent, reply, requestDue>>
process == <<proc, emitted>>
drain   == <<drained, tail, eof, permit>>
vars    == <<call, request, settleDue, now, process, drain>>

Handshake == {"initialize", "settle", "initialized"}

\* Before the spawn nothing is limited.
Unlimited == {"resolve", "version", "spawn"}

FlagTypes == probing \in BOOLEAN /\ sent \in BOOLEAN /\ eof \in BOOLEAN /\ permit \in BOOLEAN

TypeOK ==
  /\ FlagTypes
  /\ phase \in Handshake \cup Unlimited \cup {"running", "shutdown", "exit", "ended"}
  /\ outcome \in {"none", "Gap", "StartFailed", "Timeout", "InitializeFailed", "NotifyFailed",
                  "ProbeTimeout", "started", "probed", "shutdown"}
  /\ carried \in Seq(1 .. MaxBytes) /\ Len(carried) <= TailCap
  /\ reply \in {"none", "ok", "malformed", "error"}
  /\ {requestDue, settleDue} \subseteq 0 .. MaxTime + RequestLimit
  /\ now \in 0 .. MaxTime
  /\ proc \in {"none", "running", "exited", "killed"}
  /\ emitted \in 0 .. MaxBytes /\ drained \in 0 .. emitted
  /\ tail \in Seq(1 .. MaxBytes) /\ Len(tail) <= TailCap

Init ==
  /\ probing \in BOOLEAN /\ phase = (IF probing THEN "resolve" ELSE "spawn") /\ outcome = "none" /\ carried = <<>>
  /\ sent = FALSE /\ reply = "none" /\ requestDue = 0 /\ settleDue = 0
  /\ now = 0
  /\ proc = "none" /\ emitted = 0
  /\ drained = 0 /\ tail = <<>> /\ eof = FALSE /\ permit = FALSE

-----------------------------------------------------------------------------
(* Steps shared by the actions. *)

\* Mutant: the process is not killed.
LeaveChild == UNCHANGED proc

\* The Child is dropped: kill_on_drop ends the process if it still runs.
DropChild == proc' = (IF proc = "running" THEN "killed" ELSE proc)

\* The call returns r, with nothing of stderr.
EndsWith(r) ==
  /\ phase' = "ended" /\ outcome' = r
  /\ DropChild
  /\ UNCHANGED <<probing, carried, request, settleDue, now, emitted, drain>>

\* with_stderr(r) begins to wait for the end of stderr.
Settles(r) ==
  /\ phase' = "settle" /\ outcome' = r
  /\ settleDue' = now + SettleLimit
  /\ UNCHANGED <<probing, carried, request, now, process, drain>>

-----------------------------------------------------------------------------
(* probe_readiness_with(): the binary is resolved and asked for its version *)
(* before the limit of the probe begins.                                    *)

\* No provider of the language has a binary on PATH, or the first that is
\* there is asked for its version.
Resolve ==
  /\ phase = "resolve"
  /\ \/ phase' = "version" /\ UNCHANGED outcome
     \/ phase' = "ended" /\ outcome' = "Gap"
  /\ UNCHANGED <<probing, carried, request, settleDue, now, process, drain>>

\* The process of `--version` ends, or cannot be started: either way the probe
\* goes on.  It is waited for without a limit.
VersionEnds ==
  /\ phase = "version" /\ phase' = "spawn"
  /\ UNCHANGED <<probing, outcome, carried, request, settleDue, now, process, drain>>

-----------------------------------------------------------------------------
(* start(). *)

Spawn ==
  /\ phase = "spawn"
  /\ \/ phase' = "initialize" /\ proc' = "running" /\ UNCHANGED outcome
     \/ phase' = "ended" /\ outcome' = "StartFailed" /\ UNCHANGED proc
  /\ UNCHANGED <<probing, carried, request, settleDue, now, emitted, drain>>

\* The client's ten seconds start when the request is written.
InitializeWritten ==
  /\ phase = "initialize" /\ ~sent /\ proc = "running"
  /\ sent' = TRUE /\ requestDue' = now + RequestLimit
  /\ UNCHANGED <<call, reply, settleDue, now, process, drain>>

\* An error response; or stdin or stdout is closed; or the ten seconds pass.
InitializeFails ==
  /\ phase = "initialize"
  /\ \/ reply = "error"
     \/ reply = "none" /\ proc = "exited"
     \/ reply = "none" /\ sent /\ now >= requestDue
  /\ Settles("InitializeFailed")

HandshakeTimesOut ==
  /\ phase = "initialize" /\ now >= StartLimit
  /\ Settles("Timeout")

\* An answer that does not decode counts as one without capabilities.
InitializeAnswered ==
  /\ phase = "initialize" /\ reply \in {"ok", "malformed"}
  /\ phase' = "initialized"
  /\ UNCHANGED <<probing, outcome, carried, request, settleDue, now, process, drain>>

\* Mutant: the tail is read without waiting.
ReportAtOnce ==
  /\ phase = "settle"
  /\ phase' = "ended" /\ carried' = tail /\ permit' = FALSE
  /\ DropChild
  /\ UNCHANGED <<probing, outcome, request, settleDue, now, emitted, drained, tail, eof>>

\* The wait ends, with the end of stderr or without, and the error takes what
\* the tail holds.
ReportStderr ==
  /\ phase = "settle" /\ (permit \/ now >= settleDue)
  /\ phase' = "ended" /\ carried' = tail /\ permit' = FALSE
  /\ DropChild
  /\ UNCHANGED <<probing, outcome, request, settleDue, now, emitted, drained, tail, eof>>

InitializedSent ==
  /\ phase = "initialized" /\ proc = "running"
  /\ phase' = "running" /\ outcome' = "started"
  /\ UNCHANGED <<probing, carried, request, settleDue, now, process, drain>>

\* The notification's error is returned as it is.
InitializedFails ==
  /\ phase = "initialized" /\ proc = "exited"
  /\ EndsWith("NotifyFailed")

-----------------------------------------------------------------------------
(* probe_readiness_with(): start() under a limit, then the server dropped. *)

ProbeSucceeds ==
  /\ probing /\ phase = "running"
  /\ EndsWith("probed")

\* Mutant: only the handshake is under the limit.
ProbeLimitsRequest ==
  /\ probing /\ phase = "initialize" /\ now >= ProbeLimit
  /\ EndsWith("ProbeTimeout")

ProbeTimesOut ==
  /\ probing /\ phase \in Handshake /\ now >= ProbeLimit
  /\ EndsWith("ProbeTimeout")

-----------------------------------------------------------------------------
(* shutdown(): a request and a notification whose results are ignored.      *)

ShutdownBegins ==
  /\ ~probing /\ phase = "running" /\ phase' = "shutdown"
  /\ UNCHANGED <<probing, outcome, carried, request, settleDue, now, process, drain>>

\* The response, an error or the timeout; then exit is written, or not.
ShutdownAnswered ==
  /\ phase = "shutdown" /\ phase' = "exit"
  /\ UNCHANGED <<probing, outcome, carried, request, settleDue, now, process, drain>>

ShutdownEnds == phase = "exit" /\ EndsWith("shutdown")

-----------------------------------------------------------------------------
(* The server process, and the task that drains its stderr. *)

Emit ==
  /\ proc = "running" /\ emitted < MaxBytes /\ emitted - drained < PipeCap
  /\ emitted' = emitted + 1
  /\ UNCHANGED <<call, request, settleDue, now, proc, drain>>

Answer ==
  /\ proc = "running" /\ sent /\ reply = "none" /\ emitted >= Needs
  /\ reply' \in {"ok", "malformed", "error"}
  /\ UNCHANGED <<call, sent, requestDue, settleDue, now, process, drain>>

Exit ==
  /\ proc = "running" /\ proc' = "exited"
  /\ UNCHANGED <<call, request, settleDue, now, emitted, drain>>

Bytes(a, b) == [i \in 1 .. (b - a) |-> a + i]

LastOf(s, n) == SubSeq(s, Len(s) - n + 1, Len(s))

\* Mutant: the overflow is cut off the end that was just read.
KeepFirst(s) == IF Len(s) > TailCap THEN SubSeq(s, 1, TailCap) ELSE s

KeepTail(s) == IF Len(s) > TailCap THEN LastOf(s, TailCap) ELSE s

\* Mutant: the drain stops when the tail is full.
DrainUntilFull ==
  /\ ~eof /\ drained < TailCap
  /\ \E n \in 1 .. Chunk :
       /\ drained + n <= emitted
       /\ drained' = drained + n
       /\ tail' = KeepTail(tail \o Bytes(drained, drained + n))
  /\ UNCHANGED <<call, request, settleDue, now, process, eof, permit>>

DrainStderr ==
  /\ \E n \in 1 .. Chunk :
       /\ drained + n <= emitted
       /\ drained' = drained + n
       /\ tail' = KeepTail(tail \o Bytes(drained, drained + n))
  /\ UNCHANGED <<call, request, settleDue, now, process, eof, permit>>

\* Mutant: only a waiter that is there already is notified.
NotifyWaiters ==
  /\ ~eof /\ proc \in {"exited", "killed"} /\ drained = emitted
  /\ eof' = TRUE /\ permit' = (phase = "settle")
  /\ UNCHANGED <<call, request, settleDue, now, process, drained, tail>>

\* The end of stderr: `drained` keeps a permit for whoever asks later.
StderrEnds ==
  /\ ~eof /\ proc \in {"exited", "killed"} /\ drained = emitted
  /\ eof' = TRUE /\ permit' = TRUE
  /\ UNCHANGED <<call, request, settleDue, now, process, drained, tail>>

-----------------------------------------------------------------------------
(* Time. *)

Due ==
  \/ phase = "initialize" /\ (now >= StartLimit \/ (sent /\ reply = "none" /\ now >= requestDue))
  \/ phase = "settle" /\ (permit \/ now >= settleDue)
  \/ probing /\ phase \in Handshake /\ now >= ProbeLimit

Tick ==
  /\ ~Due /\ now < MaxTime /\ phase \notin Unlimited \cup {"ended"}
  /\ now' = now + 1
  /\ UNCHANGED <<call, request, settleDue, process, drain>>

\* The call has returned and the server is gone.
Ended == phase = "ended" /\ UNCHANGED vars

Next ==
  \/ Resolve \/ VersionEnds \/ Spawn \/ InitializeWritten \/ InitializeFails \/ HandshakeTimesOut
  \/ InitializeAnswered \/ ReportStderr \/ InitializedSent \/ InitializedFails
  \/ ProbeSucceeds \/ ProbeTimesOut
  \/ ShutdownBegins \/ ShutdownAnswered \/ ShutdownEnds
  \/ Emit \/ Answer \/ Exit \/ DrainStderr \/ StderrEnds
  \/ Tick \/ Ended

Spec == Init /\ [][Next]_vars

(***************************************************************************)
(* Fairness.  Time passes, timers fire, and the tasks of this program run;  *)
(* nothing is assumed of the server, not even that it reads what is written *)
(* to it.                                                                   *)
(***************************************************************************)
FairSpec ==
  /\ Spec
  /\ WF_vars(Tick)
  /\ WF_vars(Resolve \/ Spawn \/ InitializeFails \/ HandshakeTimesOut \/ InitializeAnswered
             \/ ReportStderr \/ ProbeSucceeds \/ ProbeTimesOut)
  /\ WF_vars(DrainStderr)
  /\ WF_vars(StderrEnds)

-----------------------------------------------------------------------------
(* Safety. *)

SmallerOf(a, b) == IF a < b THEN a ELSE b

\* The last words of a server that has written n bytes.
LastWords(n) == Bytes(n - SmallerOf(n, TailCap), n)

\* The tail is bounded, and it is the end of what was read, not the start:
\* the last words explain a death (lifecycle.rs:25).
TailIsLastWords == tail = LastWords(drained)

\* A drain that finishes before the failure path asks is not a lost wakeup
\* (lifecycle.rs:79).
NoLostWakeup == phase = "settle" /\ eof => permit

\* A failure reported before the settling time is up carries the server's
\* last words complete, though the write that failed and the read that
\* collects them are in different tasks (lifecycle.rs:40).
LastWordsComplete ==
  [][phase = "settle" /\ outcome' = outcome /\ phase' = "ended" /\ now < settleDue
       => carried' = LastWords(emitted)]_vars

\* Whatever the end of the call, no server process survives it.
NoServerLeftBehind == phase = "ended" => proc # "running"

-----------------------------------------------------------------------------
(* Liveness. *)

\* A probe ends, whatever the server does, if its binary ends when it is asked
\* for its version: that wait alone is outside the limit (lifecycle.rs:385).
ProbeEnds == WF_vars(VersionEnds) => (probing ~> phase = "ended")

\* A server is never blocked for ever on its stderr (lifecycle.rs:55).
StderrNeverBlocks == emitted - drained = PipeCap ~> emitted - drained < PipeCap
=============================================================================
