---------------------------- MODULE JsonRpcClient ----------------------------
(***************************************************************************)
(* The JSON-RPC client of src/client.rs: callers that share one server,     *)
(* the single writer task that owns the server's stdin, the single reader   *)
(* task that owns its stdout, and the server itself as seen through the     *)
(* two pipes.                                                               *)
(*                                                                         *)
(* A call is one use of request(), notify() or close_documents(); a         *)
(* request's JSON-RPC id is unique (next_id.fetch_add), so the call stands  *)
(* for its id.  Every await of the code is a point between two actions;     *)
(* what the code does without suspending, and without another task being    *)
(* able to tell, is one action.                                            *)
(***************************************************************************)
EXTENDS Integers, Sequences, Functions

CONSTANTS
  Requests,     \* calls of request()
  Notes,        \* calls of notify()
  Batches,      \* calls of close_documents()
  Uris,         \* Uris[b]: how many didClose frames batch b carries
  QueueCap,     \* capacity of the outgoing channel (64 in the code)
  ServerTalks,  \* does the server send requests of its own?
  StdoutEnds,   \* can the server's stdout end, or send what does not parse?
  None

Calls     == Requests \cup Notes
Outbounds == Calls \cup Batches

ASSUME ConstantsAssumption ==
  /\ Requests \cap Notes = {} /\ Calls \cap Batches = {}
  /\ None \notin Outbounds
  /\ Uris \in [Batches -> Nat]
  /\ QueueCap \in Nat \ {0}
  /\ ServerTalks \in BOOLEAN /\ StdoutEnds \in BOOLEAN

Frames == [x \in Outbounds |-> IF x \in Batches THEN Uris[x] ELSE 1]

VARIABLES
  pc,        \* where each call is suspended
  result,    \* what each finished call returned to its caller
  waiters,   \* the waiter map: requests the reader may still answer
  chan,      \* the oneshot of each request: the response, once sent
  permit,    \* who owns the one write slot: a caller, or its queued frame
  queue,     \* the outgoing channel
  ack,       \* the write acknowledgment of each outbound message
  failed,    \* the shared flag: nothing more may be written
  aborted,   \* the writer task has been told to abort
  draining,  \* fail_writer's spawned task has yet to wake the waiters
  wpc,       \* where the writer task is
  current,   \* the message the writer task holds
  werr,      \* did the write of current fail?
  reader,    \* the reader task
  written,   \* frames of each message that reached the server whole
  accepted,  \* history: the messages in the order the channel took them
  answered   \* history: the requests the server has responded to

callers  == <<pc, result>>
replies  == <<waiters, chan>>
failure  == <<failed, aborted, draining>>
writer   == <<wpc, current, werr>>
server   == <<reader, answered>>
vars     == <<callers, replies, permit, queue, ack, failure, writer, server, written, accepted>>

CallerStates == {"idle", "acquire", "check", "send", "refused", "ack", "reply",
                 "unregister", "done"}
WriterStates == {"recv", "check", "write", "poison", "drain", "ack", "drop", "dead"}
Results      == {"none", "ok", "answer", "died", "io", "timeout", "cancelled"}

FlagTypes ==
  failed \in BOOLEAN /\ aborted \in BOOLEAN /\ draining \in BOOLEAN /\ werr \in BOOLEAN

TypeOK ==
  /\ FlagTypes
  /\ pc \in [Outbounds -> CallerStates]
  /\ result \in [Outbounds -> Results]
  /\ waiters \subseteq Requests
  /\ chan \in [Requests -> {"empty", "answer", "died"}]
  /\ permit \in Calls \cup {None}
  /\ queue \in Seq(Outbounds) /\ Len(queue) <= QueueCap
  /\ ack \in [Outbounds -> {"none", "ok", "err", "dropped"}]
  /\ wpc \in WriterStates
  /\ current \in Outbounds \cup {None}
  /\ reader \in {"running", "dead"}
  /\ written \in [Outbounds -> Nat]
  /\ accepted \in Seq(Outbounds)
  /\ answered \subseteq Requests

Init ==
  /\ pc = [x \in Outbounds |-> "idle"]
  /\ result = [x \in Outbounds |-> "none"]
  /\ waiters = {}
  /\ chan = [c \in Requests |-> "empty"]
  /\ permit = None
  /\ queue = <<>>
  /\ ack = [x \in Outbounds |-> "none"]
  /\ failed = FALSE /\ aborted = FALSE /\ draining = FALSE
  /\ wpc = "recv" /\ current = None /\ werr = FALSE
  /\ reader = "running"
  /\ written = [x \in Outbounds |-> 0]
  /\ accepted = <<>>
  /\ answered = {}

-----------------------------------------------------------------------------
(* Steps shared by the actions. *)

Goes(x, from, to) ==
  /\ pc[x] = from
  /\ pc' = [pc EXCEPT ![x] = to]

\* The call ends; its caller sees r.
Returns(x, r) ==
  /\ pc' = [pc EXCEPT ![x] = "done"]
  /\ result' = [result EXCEPT ![x] = r]

\* Mutant: the waiter of a request that failed stays in the map.
FailsAtOnce(x, r) ==
  /\ pc' = [pc EXCEPT ![x] = "done"]
  /\ result' = [result EXCEPT ![x] = r]

\* The call fails: a request still has to take its waiter out of the map
\* before it returns the error.
Fails(x, r) ==
  /\ pc' = [pc EXCEPT ![x] = IF x \in Requests THEN "unregister" ELSE "done"]
  /\ result' = [result EXCEPT ![x] = r]

\* A message dropped with its permit gives the write slot back.
PermitWithout(S) == IF permit \in S THEN None ELSE permit

\* fail_waiters: every registered request is told the server died.
WakeAllWaiters ==
  /\ chan' = [c \in Requests |-> IF c \in waiters THEN "died" ELSE chan[c]]
  /\ waiters' = {}

\* Mutant: the writer is not aborted.
FailWithoutAbort == failed' = TRUE /\ draining' = (draining \/ ~failed) /\ UNCHANGED aborted

\* fail_writer: the first to set the flag aborts the writer and spawns a task
\* that will wake the waiters.
FailWriter ==
  /\ failed' = TRUE
  /\ aborted' = (aborted \/ ~failed)
  /\ draining' = (draining \/ ~failed)

\* The writer task ends: the message it holds and the queued ones are dropped,
\* their acknowledgments with them, and the channel refuses new messages.
Lost == Range(queue) \cup {current}

\* Mutant: the channel outlives the task, and the messages in it with it.
WriterDiesAlone ==
  /\ wpc' = "dead" /\ current' = None
  /\ ack' = [x \in Outbounds |-> IF x = current /\ ack[x] = "none" THEN "dropped" ELSE ack[x]]
  /\ permit' = PermitWithout({current})
  /\ UNCHANGED <<queue, werr>>

WriterDies ==
  /\ wpc' = "dead" /\ current' = None /\ queue' = <<>>
  /\ ack' = [x \in Outbounds |-> IF x \in Lost /\ ack[x] = "none" THEN "dropped" ELSE ack[x]]
  /\ permit' = PermitWithout(Lost)
  /\ UNCHANGED werr

-----------------------------------------------------------------------------
(* The callers. *)

\* Mutant: the waiter is not registered before sending.
StartUnregistered(c) ==
  /\ Goes(c, "idle", "acquire")
  /\ UNCHANGED <<result, replies, permit, queue, ack, failure, writer, server, written, accepted>>

\* request() registers its waiter before it sends anything, notify() has none.
Start(c) ==
  /\ Goes(c, "idle", "acquire")
  /\ waiters' = waiters \cup ({c} \cap Requests)
  /\ UNCHANGED <<result, chan, permit, queue, ack, failure, writer, server, written, accepted>>

\* close_documents(): no write slot, only the look at the flag.
StartClose(b) ==
  /\ pc[b] = "idle"
  /\ IF failed THEN Returns(b, "died") ELSE Goes(b, "idle", "send") /\ UNCHANGED result
  /\ UNCHANGED <<replies, permit, queue, ack, failure, writer, server, written, accepted>>

AcquireSlot(c) ==
  /\ permit = None
  /\ Goes(c, "acquire", "check")
  /\ permit' = c
  /\ UNCHANGED <<result, replies, queue, ack, failure, writer, server, written, accepted>>

CheckFailed(c) ==
  /\ pc[c] = "check"
  /\ \/ failed /\ Fails(c, "died") /\ permit' = None
     \/ ~failed /\ Goes(c, "check", "send") /\ UNCHANGED <<result, permit>>
  /\ UNCHANGED <<replies, queue, ack, failure, writer, server, written, accepted>>

ChannelTakes == wpc # "dead" /\ Len(queue) < QueueCap

\* try_send succeeds: the message, and a call's permit with it, are queued.
Enqueue(x) ==
  /\ ChannelTakes
  /\ Goes(x, "send", "ack")
  /\ queue' = Append(queue, x)
  /\ accepted' = Append(accepted, x)
  /\ UNCHANGED <<result, replies, permit, ack, failure, writer, server, written>>

\* try_send fails, on a full or a closed channel: the message it gives back is
\* dropped, with its permit.
Overflow(x) ==
  /\ ~ChannelTakes
  /\ Goes(x, "send", "refused")
  /\ permit' = PermitWithout({x})
  /\ UNCHANGED <<result, replies, queue, ack, failure, writer, server, written, accepted>>

\* Then the client is failed; another caller may have taken the slot meanwhile.
FailClient(x) ==
  /\ pc[x] = "refused"
  /\ FailWriter
  /\ Fails(x, "died")
  /\ UNCHANGED <<replies, permit, queue, ack, writer, server, written, accepted>>

\* The acknowledgment wakes the caller.
AckArrives(x) ==
  /\ pc[x] = "ack"
  /\ \/ ack[x] = "ok" /\ x \in Requests /\ Goes(x, "ack", "reply") /\ UNCHANGED result
     \/ ack[x] = "ok" /\ x \notin Requests /\ Returns(x, "ok")
     \/ ack[x] = "err" /\ Fails(x, "io")
     \/ ack[x] = "dropped" /\ Fails(x, "died")
  /\ UNCHANGED <<replies, permit, queue, ack, failure, writer, server, written, accepted>>

\* The reader's answer, or the sender of it, wakes the request.
Receive(c) ==
  /\ pc[c] = "reply" /\ chan[c] # "empty"
  /\ Returns(c, chan[c])
  /\ UNCHANGED <<replies, permit, queue, ack, failure, writer, server, written, accepted>>

\* The ten seconds, which start only after the write was acknowledged, are up.
TimeoutFires(c) ==
  /\ pc[c] = "reply" /\ chan[c] = "empty"
  /\ Fails(c, "timeout")
  /\ UNCHANGED <<replies, permit, queue, ack, failure, writer, server, written, accepted>>

\* A request that failed leaves the waiter map, then returns its error.
Unregister(c) ==
  /\ Goes(c, "unregister", "done")
  /\ waiters' = waiters \ {c}
  /\ UNCHANGED <<result, chan, permit, queue, ack, failure, writer, server, written, accepted>>

\* Mutant: the caller, not its message, owns the permit.
CancelFreesSlot(x) ==
  /\ pc[x] \in {"acquire", "ack", "reply", "unregister"}
  /\ Returns(x, "cancelled")
  /\ permit' = PermitWithout({x})
  /\ UNCHANGED <<replies, queue, ack, failure, writer, server, written, accepted>>

\* The caller's future is dropped where it is suspended.  Nothing cleans up:
\* a waiter stays in the map, a queued message stays queued with its permit.
Cancel(x) ==
  /\ pc[x] \in {"acquire", "ack", "reply", "unregister"}
  /\ Returns(x, "cancelled")
  /\ UNCHANGED <<replies, permit, queue, ack, failure, writer, server, written, accepted>>

-----------------------------------------------------------------------------
(* The writer task. *)

WriterRecv ==
  /\ wpc = "recv" /\ queue # <<>>
  /\ wpc' = "check" /\ current' = Head(queue) /\ queue' = Tail(queue)
  /\ UNCHANGED <<callers, replies, permit, ack, failure, werr, server, written, accepted>>

\* Mutant: the writer does not look at the flag.
WriterSkipsCheck ==
  /\ wpc = "check" /\ wpc' = "write"
  /\ UNCHANGED <<callers, replies, permit, queue, ack, failure, current, werr, server, written, accepted>>

WriterCheck ==
  /\ wpc = "check"
  /\ \/ failed /\ WriterDies
     \/ ~failed /\ wpc' = "write" /\ UNCHANGED <<permit, queue, ack, current, werr>>
  /\ UNCHANGED <<callers, replies, failure, server, written, accepted>>

\* write_frame succeeds: the server has taken one whole frame from the pipe.
WriteFrame ==
  /\ wpc = "write" /\ written[current] < Frames[current]
  /\ written' = [written EXCEPT ![current] = @ + 1]
  /\ UNCHANGED <<callers, replies, permit, queue, ack, failure, writer, server, accepted>>

\* Mutant: a batch counts as written as soon as the writer has turned to it.
WriteDoneEarly ==
  /\ wpc = "write" /\ wpc' = "ack" /\ werr' = FALSE
  /\ UNCHANGED <<callers, replies, permit, queue, ack, failure, current, server, written, accepted>>

WriteDone ==
  /\ wpc = "write" /\ written[current] = Frames[current]
  /\ wpc' = "ack" /\ werr' = FALSE
  /\ UNCHANGED <<callers, replies, permit, queue, ack, failure, current, server, written, accepted>>

\* write_frame fails, possibly with part of the frame in the pipe.
WriteFails ==
  /\ wpc = "write" /\ written[current] < Frames[current]
  /\ wpc' = "poison" /\ werr' = TRUE
  /\ UNCHANGED <<callers, replies, permit, queue, ack, failure, current, server, written, accepted>>

WriterPoison ==
  /\ wpc = "poison" /\ wpc' = "drain"
  /\ failed' = TRUE
  /\ UNCHANGED <<callers, replies, permit, queue, ack, aborted, draining, current, werr, server, written, accepted>>

\* Mutant: nobody is told.
WriterForgets ==
  /\ wpc = "drain" /\ wpc' = "ack"
  /\ UNCHANGED <<callers, replies, permit, queue, ack, failure, current, werr, server, written, accepted>>

WriterDrain ==
  /\ wpc = "drain" /\ wpc' = "ack"
  /\ WakeAllWaiters
  /\ UNCHANGED <<callers, permit, queue, ack, failure, current, werr, server, written, accepted>>

\* Mutant: a failed write is acknowledged like any other.
WriterAcksAnyway ==
  /\ wpc = "ack" /\ wpc' = "drop"
  /\ ack' = [ack EXCEPT ![current] = "ok"]
  /\ UNCHANGED <<callers, replies, permit, queue, failure, current, werr, server, written, accepted>>

WriterAck ==
  /\ wpc = "ack" /\ wpc' = "drop"
  /\ ack' = [ack EXCEPT ![current] = IF werr THEN "err" ELSE "ok"]
  /\ UNCHANGED <<callers, replies, permit, queue, failure, current, werr, server, written, accepted>>

\* Mutant: the permit does not leave with the message.
WriterKeepsPermit ==
  /\ wpc = "drop"
  /\ \/ werr /\ WriterDies
     \/ ~werr /\ wpc' = "recv" /\ current' = None /\ UNCHANGED <<permit, queue, ack, werr>>
  /\ UNCHANGED <<callers, replies, failure, server, written, accepted>>

\* The message goes out of scope, and its permit with it; after a failed
\* write the task ends.
WriterDrop ==
  /\ wpc = "drop"
  /\ \/ werr /\ WriterDies
     \/ ~werr /\ wpc' = "recv" /\ current' = None /\ permit' = PermitWithout({current})
              /\ UNCHANGED <<queue, ack, werr>>
  /\ UNCHANGED <<callers, replies, failure, server, written, accepted>>

\* The abort takes effect where the task is suspended.
WriterAborted ==
  /\ aborted /\ wpc \in {"recv", "write", "drain"}
  /\ WriterDies
  /\ UNCHANGED <<callers, replies, failure, server, written, accepted>>

\* The task spawned by fail_writer.
SpawnedDrain ==
  /\ draining /\ draining' = FALSE
  /\ WakeAllWaiters
  /\ UNCHANGED <<callers, permit, queue, ack, failed, aborted, writer, server, written, accepted>>

-----------------------------------------------------------------------------
(* The server and the reader task.  The reader takes any message with an    *)
(* integer id for the response to the request of that id.                   *)

\* Mutant: the response goes to some waiter, whatever its id.
DispatchToAnyone(c) ==
  /\ \E d \in waiters : waiters' = waiters \ {d} /\ chan' = [chan EXCEPT ![d] = "answer"]
  /\ UNCHANGED <<callers, permit, queue, ack, failure, writer, reader, written, accepted>>

\* The waiter is given the "result" (null if there is none) or the "error" of the
\* message, which the request returns as it is: either is the "answer" here.
Dispatch(c) ==
  /\ waiters' = waiters \ {c}
  /\ chan' = IF c \in waiters THEN [chan EXCEPT ![c] = "answer"] ELSE chan
  /\ UNCHANGED <<callers, permit, queue, ack, failure, writer, reader, written, accepted>>

\* The server responds to a request it has read.
ServerResponds(c) ==
  /\ reader = "running" /\ written[c] = 1 /\ c \notin answered
  /\ answered' = answered \cup {c}
  /\ Dispatch(c)

\* The server sends a request of its own whose id happens to be c's: it has
\* no "error" member and no "result", which reads as the result null.
ServerAsks(c) ==
  /\ ServerTalks /\ reader = "running" /\ c \in waiters
  /\ Dispatch(c)
  /\ UNCHANGED answered

\* stdout closes, or a message does not parse.
ReaderDies ==
  /\ StdoutEnds /\ reader = "running" /\ reader' = "dead"
  /\ WakeAllWaiters
  /\ UNCHANGED <<callers, permit, queue, ack, failure, writer, written, accepted, answered>>

-----------------------------------------------------------------------------
\* Every call has been made and has returned, and the client is still held.
Finished ==
  /\ \A x \in Outbounds : pc[x] = "done"
  /\ UNCHANGED vars

CallerNext ==
  \/ \E c \in Requests : Receive(c) \/ TimeoutFires(c) \/ Unregister(c)
  \/ \E b \in Batches : StartClose(b)
  \/ \E c \in Calls : Start(c) \/ AcquireSlot(c) \/ CheckFailed(c)
  \/ \E x \in Outbounds : Enqueue(x) \/ Overflow(x) \/ FailClient(x) \/ AckArrives(x) \/ Cancel(x)

WriterNext ==
  \/ WriterRecv \/ WriterCheck \/ WriteFrame \/ WriteDone \/ WriteFails
  \/ WriterPoison \/ WriterDrain \/ WriterAck \/ WriterDrop \/ WriterAborted
  \/ SpawnedDrain

ReaderNext ==
  \/ \E c \in Requests : ServerResponds(c) \/ ServerAsks(c)
  \/ ReaderDies

Next == CallerNext \/ WriterNext \/ ReaderNext \/ Finished

Spec == Init /\ [][Next]_vars

(***************************************************************************)
(* Fairness.  The runtime polls every task that can go on, and timers fire. *)
(* Nothing is assumed of the callers (they need not call, and are cancelled *)
(* at will), of the server, nor of the write in progress, which ends when   *)
(* the server reads its stdin, or closes it.  Weak fairness is enough for   *)
(* the slot, as each of the calls takes it once: nobody is overtaken for    *)
(* ever.                                                                    *)
(***************************************************************************)
Active(x) == pc[x] \notin {"idle", "done"}

\* What a call under way does when its task is polled; being dropped is not of it.
CallerRuns(x) ==
  /\ Active(x)
  /\ \/ x \in Calls /\ (AcquireSlot(x) \/ CheckFailed(x))
     \/ Enqueue(x) \/ Overflow(x) \/ FailClient(x) \/ AckArrives(x)
     \/ x \in Requests /\ (Receive(x) \/ TimeoutFires(x) \/ Unregister(x))

WriterRuns ==
  \/ WriterRecv \/ WriterCheck \/ WriteDone \/ WriterPoison
  \/ WriterDrain \/ WriterAck \/ WriterDrop \/ WriterAborted

FairSpec ==
  Spec /\ (\A x \in Outbounds : WF_vars(CallerRuns(x))) /\ WF_vars(WriterRuns) /\ WF_vars(SpawnedDrain)

\* The server goes on reading its stdin, or closes it.
ServerReads == WF_vars(WriteFrame \/ WriteFails)

-----------------------------------------------------------------------------
(* Safety. *)

\* Only one normal frame can be pending (client.rs:64): of all requests and
\* notifications, at most one is between the look at the flag and the end of
\* its write, so a caller that goes away cannot admit a second frame.
Pending(c) ==
  \/ pc[c] \in {"check", "send"}
  \/ c \in Range(queue)
  \/ c = current

OneNormalFrame == \A c, d \in Calls : Pending(c) /\ Pending(d) => c = d

\* The waiter is registered BEFORE sending (client.rs:175): at no moment of a
\* request's life, from its start to its return, can a response, or the news
\* that the server died, find nobody to wake.
InProgress == {"acquire", "check", "send", "refused", "ack", "reply"}

NoOrphanedRequest ==
  \A c \in Requests : pc[c] \in InProgress => c \in waiters \/ chan[c] # "empty"

\* The map does not fill up (client.rs:177): an entry is of a request under way
\* or of one that was dropped.  However a request ends by itself, by an answer, an
\* error, a timeout or the death of the writer or the reader, its entry goes too.
OnlyDroppedRequestsLinger ==
  \A c \in waiters : pc[c] \in InProgress \cup {"unregister"} \/ result[c] = "cancelled"

\* Once the failure of the client has been announced, no request whose frame
\* was acknowledged is left to wait out its ten seconds, whatever the order in
\* which callers register, the writer fails and the waiters are woken.
Announced == failed /\ ~draining /\ (aborted \/ wpc # "drain")

NoWaiterAfterFailure == Announced => \A c \in waiters : ack[c] # "ok"

\* The writer task, its channel, its permit and its flags keep the promises of
\* the ordered outbox (client.rs:10-12): FIFO, acknowledged, fail closed.
OutboxMode ==
  IF wpc = "dead" THEN "closed" ELSE IF failed /\ wpc # "write" THEN "failing" ELSE "open"

Outbox == INSTANCE OrderedOutbox WITH Items <- Outbounds, Size <- Frames, mode <- OutboxMode

ImplementsOutbox == Outbox!OutboxSpec

\* A caller is told its message was written only when every message the
\* channel took before it is with the server whole.
AckIsBarrier == Outbox!AckIsBarrier

\* A frame reaches the server only when every message accepted before is there
\* whole: an open, the query about the document and its close are never
\* reordered or mixed (client.rs:254).
NoOvertaking == Outbox!NoOvertaking

\* Fail closed: once the flag is set no further message is begun; at most the
\* one write in progress goes on.  A frame behind a torn one would be read as
\* its body.
NothingBegunAfterFailure ==
  [][failed /\ wpc # "write" => UNCHANGED written /\ wpc' # "write"]_vars

\* Responses are dispatched by id (client.rs:6): what a request returns as its
\* result, or as the server's error, the server said in response to it.
AnswersAreResponses ==
  \A c \in Requests : result[c] = "answer" => c \in answered

\* A call or batch that can take a step of its own: the slot is free, its
\* acknowledgment is there, or it waits for nothing but an answer or a timer.
CallerCanGoOn(x) ==
  \/ pc[x] \in {"send", "refused"}
  \/ x \in Calls /\ (pc[x] = "check" \/ (pc[x] = "acquire" /\ permit = None))
  \/ pc[x] = "ack" /\ ack[x] # "none"
  \/ x \in Requests /\ pc[x] \in {"reply", "unregister"}

\* The writer task has something to do, or has been told to stop.
WriterCanGoOn ==
  \/ wpc = "recv" /\ queue # <<>>
  \/ wpc \in {"check", "poison", "drain", "ack", "drop"}
  \/ wpc = "write" /\ (aborted \/ written[current] = Frames[current])

\* A frame of a client that has not failed waits in the pipe for the server.
ServerIsToRead == wpc = "write" /\ ~failed /\ written[current] < Frames[current]

\* However calls are cancelled and whatever fails, while a call is under way
\* some call, the writer task or the server can go on: slot, channel and
\* acknowledgments never wait for each other (client.rs:64-70, 246-292).
NobodyIsStuck ==
  (\E x \in Outbounds : Active(x)) =>
    WriterCanGoOn \/ ServerIsToRead \/ \E x \in Outbounds : CallerCanGoOn(x)

-----------------------------------------------------------------------------
(* Liveness. *)

\* With a server that reads its stdin, every call returns, none is under way for
\* ever: no deadlock between the write slot, for which several calls contend, the
\* channel, the acknowledgments and the waiter map.
EveryCallReturns == ServerReads => \A x \in Outbounds : []<>~Active(x)

\* Once the client has failed, no call is under way for ever, neither one that was
\* waiting for the slot or an acknowledgment nor a later one, even if the server
\* never reads again.
FailureReleasesEveryone == \A x \in Outbounds : []<>~(failed /\ Active(x))

\* "Send a request and wait for the response (with 10s timeout)"
\* (client.rs:171): a request returns, whatever the server does.
RequestsTimeOut == \A c \in Requests : Active(c) ~> pc[c] = "done"
=============================================================================
