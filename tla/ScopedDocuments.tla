--------------------------- MODULE ScopedDocuments ---------------------------
(***************************************************************************)
(* The documents an enrichment pass hands to the server for itself          *)
(* (ScopedDocuments in src/enrichment.rs, used by enrich_entity_uses_type   *)
(* and enrich_file_definitions): opened lazily, at most once, queried, and  *)
(* closed when the pass ends, fails or is dropped.                          *)
(*                                                                         *)
(* The passes share one server, one after the other, and write through the *)
(* client, which appears here as the outbox it is proved to implement       *)
(* (JsonRpcClientProofs).  A message is one delivery: a batch of            *)
(* closes reaches the server with no other frame in between.                *)
(***************************************************************************)
EXTENDS Integers, Sequences, FiniteSets, Functions

CONSTANTS
  NumPasses,  \* the passes 1 .. NumPasses run in this order
  Docs,       \* the documents of the workspace
  Primary,    \* the file being enriched: its caller holds it open
  Provided,   \* documents the provider has text for, in a known language
  MaxAsks,    \* bound: queries a pass sends to candidates' documents
  QueueCap    \* capacity of the client's outgoing channel

Passes == 1 .. NumPasses

ASSUME DocsAssumption ==
  /\ NumPasses \in Nat /\ MaxAsks \in Nat /\ QueueCap \in Nat \ {0}
  /\ IsFiniteSet(Docs) /\ Primary \in Docs /\ Provided \subseteq Docs

Open(p, d)     == [kind |-> "open", pass |-> p, docs |-> {d}, n |-> 0]
Ask(p, d, n)   == [kind |-> "ask", pass |-> p, docs |-> {d}, n |-> n]
CloseDocs(p, D) == [kind |-> "close", pass |-> p, docs |-> D, n |-> 0]

Messages ==
  {Open(p, d) : p \in Passes, d \in Docs}
    \cup {Ask(p, d, n) : p \in Passes, d \in Docs, n \in 1 .. MaxAsks}
    \cup {CloseDocs(p, D) : p \in Passes, D \in SUBSET Docs}

VARIABLES
  accepted, written, ack, mode,  \* the client's outbox
  failed,   \* the client's failure flag
  pc,       \* where each pass is suspended
  open,     \* ScopedDocuments.open of each pass
  doc,      \* the candidate's document the pass is at
  asks,     \* how many queries about candidates the pass has sent
  outcome,  \* what the pass returned, or is about to
  held      \* the documents the server has open

outbox == <<accepted, written, ack, mode>>
passes == <<pc, open, doc, asks, outcome>>
vars   == <<outbox, failed, passes, held>>

Outbox == INSTANCE OrderedOutbox WITH Items <- Messages, Size <- [x \in Messages |-> 1]

Awaiting == {"opening", "opened", "asking", "asked", "reply", "closing"}

TypeOK ==
  /\ Outbox!OutboxTypeOK
  /\ failed \in BOOLEAN
  /\ pc \in [Passes -> Awaiting \cup {"idle", "ready", "finish", "ended"}]
  /\ open \in [Passes -> SUBSET Provided]
  /\ doc \in [Passes -> Docs]
  /\ asks \in [Passes -> 0 .. MaxAsks]
  /\ outcome \in [Passes -> {"none", "ok", "error", "cancelled"}]
  /\ held \subseteq Docs

Init ==
  /\ Outbox!OutboxInit
  /\ failed = FALSE
  /\ pc = [p \in Passes |-> "idle"]
  /\ open = [p \in Passes |-> {}]
  /\ doc = [p \in Passes |-> Primary]
  /\ asks = [p \in Passes |-> 0]
  /\ outcome = [p \in Passes |-> "none"]
  /\ held = {Primary}

-----------------------------------------------------------------------------
(* The client, as the passes see it. *)

Pending(x) == x \in Range(accepted) /\ ack[x] = "none"

Backlog == Cardinality({x \in Range(accepted) : ack[x] = "none"})

\* The slot is held from the acceptance of an open or a query until its end.
SlotFree == \A x \in Range(accepted) : Pending(x) => x.kind = "close"

\* The writer may or may not have taken the oldest message off the channel.
Room == Backlog <= QueueCap
Full == Backlog >= QueueCap

Goes(p, from, to) == pc[p] = from /\ pc' = [pc EXCEPT ![p] = to]

Ends(p, r) ==
  /\ pc' = [pc EXCEPT ![p] = "ended"]
  /\ outcome' = [outcome EXCEPT ![p] = r]

\* The pass stops where it is and goes on to close_all.
Fails(p) ==
  /\ pc' = [pc EXCEPT ![p] = "finish"]
  /\ outcome' = [outcome EXCEPT ![p] = "error"]

\* send_message once the slot is free: x is accepted, or the pass fails.
Send(p, x, to) ==
  /\ SlotFree
  /\ \/ ~failed /\ Room /\ Outbox!Accept(x) /\ pc' = [pc EXCEPT ![p] = to]
        /\ UNCHANGED <<failed, outcome>>
     \/ ~failed /\ Full /\ failed' = TRUE /\ Fails(p) /\ UNCHANGED outbox
     \/ failed /\ Fails(p) /\ UNCHANGED <<failed, outbox>>

\* The write acknowledgment of x wakes the pass.
Acked(p, x, to) ==
  /\ \/ ack[x] = "ok" /\ pc' = [pc EXCEPT ![p] = to] /\ UNCHANGED outcome
     \/ ack[x] \in {"err", "dropped"} /\ Fails(p)
  /\ UNCHANGED <<outbox, failed, open, doc, asks, held>>

-----------------------------------------------------------------------------
(* The pass. *)

\* The next pass begins when the one before it has returned or was dropped.
StartPass(p) ==
  /\ \A q \in Passes : q < p => pc[q] = "ended"
  /\ Goes(p, "idle", "ready")
  /\ outcome' = [outcome EXCEPT ![p] = "ok"]
  /\ UNCHANGED <<outbox, failed, open, doc, asks, held>>

\* Mutant: the file being enriched is opened like any other.
VisitPrimaryToo(p, d) ==
  /\ pc[p] = "ready" /\ asks[p] < MaxAsks
  /\ doc' = [doc EXCEPT ![p] = d]
  /\ \/ d \in open[p] /\ Goes(p, "ready", "asking") /\ UNCHANGED open
     \/ d \in Provided \ open[p] /\ Goes(p, "ready", "opening")
        /\ open' = [open EXCEPT ![p] = @ \cup {d}]
  /\ UNCHANGED <<outbox, failed, asks, outcome, held>>

\* Mutant: a document is entered as open before it is known to have a text.
VisitInsertsFirst(p, d) ==
  /\ pc[p] = "ready" /\ asks[p] < MaxAsks
  /\ doc' = [doc EXCEPT ![p] = d]
  /\ \/ d \in open[p] \cup {Primary} /\ Goes(p, "ready", "asking") /\ UNCHANGED open
     \/ d \notin open[p] \cup {Primary} /\ Goes(p, "ready", IF d \in Provided THEN "opening" ELSE "ready")
        /\ open' = [open EXCEPT ![p] = @ \cup {d}]
  /\ UNCHANGED <<outbox, failed, asks, outcome, held>>

\* A candidate in document d: queried at once when the pass holds d already,
\* or d is the file being enriched; opened first when the provider has its
\* text; declined otherwise, which changes nothing.  The document is entered
\* in `open` before the first await.
Visit(p, d) ==
  /\ pc[p] = "ready" /\ asks[p] < MaxAsks
  /\ doc' = [doc EXCEPT ![p] = d]
  /\ \/ d \in open[p] \cup {Primary} /\ Goes(p, "ready", "asking") /\ UNCHANGED open
     \/ d \in Provided \ (open[p] \cup {Primary}) /\ Goes(p, "ready", "opening")
        /\ open' = [open EXCEPT ![p] = @ \cup {d}]
  /\ UNCHANGED <<outbox, failed, asks, outcome, held>>

SendOpen(p) ==
  /\ pc[p] = "opening"
  /\ Send(p, Open(p, doc[p]), "opened")
  /\ UNCHANGED <<open, doc, asks, held>>

OpenAcked(p) == pc[p] = "opened" /\ Acked(p, Open(p, doc[p]), "asking")

SendAsk(p) ==
  /\ pc[p] = "asking"
  /\ Send(p, Ask(p, doc[p], asks[p] + 1), "asked")
  /\ asks' = [asks EXCEPT ![p] = @ + 1]
  /\ UNCHANGED <<open, doc, held>>

AskAcked(p) == pc[p] = "asked" /\ Acked(p, Ask(p, doc[p], asks[p]), "reply")

\* The response, or an error response, a malformed one or the timeout.
Reply(p) ==
  /\ pc[p] = "reply"
  /\ \/ Goes(p, "reply", "ready") /\ UNCHANGED outcome
     \/ Fails(p)
  /\ UNCHANGED <<outbox, failed, open, doc, asks, held>>

NoMoreCandidates(p) ==
  /\ Goes(p, "ready", "finish")
  /\ UNCHANGED <<outbox, failed, open, doc, asks, outcome, held>>

-----------------------------------------------------------------------------
(* The end of a pass. *)

\* Mutant: nothing is queued for the server.
ForgetDocuments(p) == open' = [open EXCEPT ![p] = {}] /\ UNCHANGED <<outbox, failed>>

\* close_documents on what `open` held: one message, without the write slot.
CloseDocuments(p) ==
  /\ open' = [open EXCEPT ![p] = {}]
  /\ \/ ~failed /\ Room /\ Outbox!Accept(CloseDocs(p, open[p])) /\ UNCHANGED failed
     \/ ~failed /\ Full /\ failed' = TRUE /\ UNCHANGED outbox
     \/ failed /\ UNCHANGED <<failed, outbox>>

\* Mutant: the pass returns before its closes are written.
ReturnBeforeClosed(p) ==
  /\ pc[p] = "finish" /\ open[p] # {}
  /\ CloseDocuments(p)
  /\ Ends(p, outcome[p])
  /\ UNCHANGED <<doc, asks, held>>

\* close_all, reached with the pass's answer or its error.
CloseAll(p) ==
  /\ pc[p] = "finish" /\ open[p] # {}
  /\ CloseDocuments(p)
  /\ IF accepted' # accepted
     THEN Goes(p, "finish", "closing") /\ UNCHANGED outcome
     ELSE Ends(p, "error")
  /\ UNCHANGED <<doc, asks, held>>

NothingToClose(p) ==
  /\ pc[p] = "finish" /\ open[p] = {}
  /\ Ends(p, outcome[p])
  /\ UNCHANGED <<outbox, failed, open, doc, asks, held>>

\* The acknowledgment of the closes; an earlier error wins over theirs.
CloseAcked(p) ==
  /\ pc[p] = "closing"
  /\ \E x \in Range(accepted) :
       /\ x.pass = p /\ x.kind = "close" /\ ack[x] # "none"
       /\ Ends(p, IF ack[x] = "ok" THEN outcome[p] ELSE "error")
  /\ UNCHANGED <<outbox, failed, open, doc, asks, held>>

\* The pass's future is dropped while it waits, and ScopedDocuments with it.
Cancel(p) ==
  /\ pc[p] \in Awaiting
  /\ Ends(p, "cancelled")
  /\ IF open[p] = {} THEN UNCHANGED <<open, outbox, failed>> ELSE CloseDocuments(p)
  /\ UNCHANGED <<doc, asks, held>>

-----------------------------------------------------------------------------
(* The writer and the server. *)

\* The server takes a message from its stdin.
ServerReads(i) ==
  /\ Outbox!Deliver(i)
  /\ LET x == accepted[i] IN
       held' = CASE x.kind = "open"  -> held \cup x.docs
                 [] x.kind = "close" -> held \ x.docs
                 [] x.kind = "ask"   -> held
  /\ UNCHANGED <<failed, passes>>

WriterTells(i) ==
  /\ Outbox!Confirm(i) \/ Outbox!Refuse(i)
  /\ UNCHANGED <<failed, passes, held>>

WriteFails ==
  /\ Outbox!Fail /\ failed' = TRUE
  /\ UNCHANGED <<passes, held>>

WriterEnds ==
  /\ failed /\ Outbox!Close
  /\ UNCHANGED <<failed, passes, held>>

\* Every pass has ended and every message is settled.
Finished ==
  /\ \A p \in Passes : pc[p] = "ended"
  /\ UNCHANGED vars

PassNext ==
  \E p \in Passes :
    \/ StartPass(p) \/ SendOpen(p) \/ OpenAcked(p) \/ SendAsk(p) \/ AskAcked(p)
    \/ Reply(p) \/ NoMoreCandidates(p) \/ CloseAll(p) \/ NothingToClose(p)
    \/ CloseAcked(p) \/ Cancel(p)
    \/ \E d \in Docs : Visit(p, d)

ServerNext ==
  \/ \E i \in DOMAIN accepted : ServerReads(i) \/ WriterTells(i)
  \/ WriteFails \/ WriterEnds

Next == PassNext \/ ServerNext \/ Finished

Spec == Init /\ [][Next]_vars

(***************************************************************************)
(* Fairness.  A pass that is polled goes on: its loop is bounded, waits for *)
(* the slot and the acknowledgments end when the server reads, and every    *)
(* request times out.  The server reads its stdin, or the write fails.      *)
(***************************************************************************)
PassFairness(p) ==
  /\ WF_vars((\E d \in Docs : Visit(p, d)) \/ NoMoreCandidates(p) \/ Reply(p))
  /\ WF_vars(SendOpen(p) \/ OpenAcked(p) \/ SendAsk(p) \/ AskAcked(p))
  /\ WF_vars(CloseAll(p) \/ NothingToClose(p) \/ CloseAcked(p))

FairSpec ==
  /\ Spec
  /\ \A p \in Passes : PassFairness(p)
  /\ WF_vars(\E i \in DOMAIN accepted : ServerReads(i) \/ WriterTells(i))
  /\ WF_vars(WriterEnds)

-----------------------------------------------------------------------------
(* Safety. *)

Arrives(x) == written'[x] # written[x]

\* A query about a candidate reaches a server that has the candidate's document
\* open (enrichment.rs:547): otherwise it answers nothing and the join declines
\* what is true.
QueriesFindDocuments ==
  [][\A x \in Messages : Arrives(x) /\ x.kind = "ask" => x.docs \subseteq held]_vars

\* A live document is never opened again (enrichment.rs:594), neither the
\* enriched file, which its caller holds open, nor by the pass that follows one
\* dropped in the middle: its cleanup is queued before the next open
\* (client.rs:11).
NeverReopened ==
  [][\A x \in Messages : Arrives(x) /\ x.kind = "open" => x.docs \cap held = {}]_vars

\* A pass that asked about some candidate and returns an answer leaves the
\* server as it found it, with its own documents and those of the passes
\* dropped before it closed.
AnswerLeavesNothing ==
  [][\A p \in Passes :
       pc[p] # "ended" /\ pc'[p] = "ended" /\ outcome'[p] = "ok" /\ asks[p] > 0
         => held' = {Primary}]_vars

\* Unless the client failed, a document the server has open for a pass is one
\* that a pass still has, or its close is on the way: none is left to nobody,
\* wherever passes are dropped (enrichment.rs:664, 676).
CloseIsOwed ==
  ~failed => \A d \in held \ {Primary} :
    \/ \E p \in Passes : pc[p] # "ended" /\ d \in open[p]
    \/ \E x \in Range(accepted) : x.kind = "close" /\ d \in x.docs /\ written[x] = 0

-----------------------------------------------------------------------------
(* Liveness. *)

\* A document a pass opened is closed again, unless the client fails.
DocumentsAreClosed ==
  \A d \in Docs \ {Primary} : d \in held ~> d \notin held \/ failed
=============================================================================
