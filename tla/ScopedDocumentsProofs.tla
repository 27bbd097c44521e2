------------------------ MODULE ScopedDocumentsProofs ------------------------
(***************************************************************************)
(* What the passes promise about the documents they open, for any number of *)
(* passes, documents and queries.  The argument is about the sequence of    *)
(* accepted messages: the outbox delivers it in order (OrderedOutboxProofs), *)
(* so what the server holds open is decided by a prefix of it.              *)
(***************************************************************************)
EXTENDS ScopedDocuments, TLAPS

OP == INSTANCE OrderedOutboxProofs WITH Items <- Messages, Size <- [x \in Messages |-> 1]

\* The types of what the passes keep.
PassTypes ==
  /\ failed \in BOOLEAN
  /\ pc \in [Passes -> Awaiting \cup {"idle", "ready", "finish", "ended"}]
  /\ open \in [Passes -> SUBSET Provided]
  /\ doc \in [Passes -> Docs]
  /\ asks \in [Passes -> 0 .. MaxAsks]
  /\ outcome \in [Passes -> {"none", "ok", "error", "cancelled"}]

Opens(i, d)  == accepted[i].kind = "open" /\ d \in accepted[i].docs
Closes(i, d) == accepted[i].kind = "close" /\ d \in accepted[i].docs
Delivered(i) == written[accepted[i]] = 1

Active(p) == pc[p] \notin {"idle", "closing", "ended"}

\* What holds of the sequence of accepted messages alone.

\* The passes come one after the other, and a pass says nothing after its close.
InPassOrder ==
  \A i, j \in DOMAIN accepted :
    i < j => /\ accepted[i].pass <= accepted[j].pass
             /\ accepted[i].kind = "close" => accepted[i].pass < accepted[j].pass

\* Only queries are about the enriched file.
PrimaryIsTheCallers ==
  \A i \in DOMAIN accepted : Primary \in accepted[i].docs => accepted[i].kind = "ask"

\* What a pass opened is closed before its close ends, and before the next pass
\* says anything.
ClosedInTime ==
  \A i, j \in DOMAIN accepted : \A d \in Docs :
    /\ i < j /\ Opens(i, d)
    /\ accepted[i].pass < accepted[j].pass \/ accepted[j].kind = "close"
    => \E k \in DOMAIN accepted : i < k /\ k <= j /\ Closes(k, d)

\* Before a query about a candidate its document was opened, and not closed.
OpenedInTime ==
  \A j \in DOMAIN accepted : \A d \in accepted[j].docs :
    accepted[j].kind = "ask" /\ d # Primary =>
      \E i \in DOMAIN accepted :
        /\ i < j /\ Opens(i, d)
        /\ \A k \in DOMAIN accepted : i < k /\ k < j => ~Closes(k, d)

LogInv == InPassOrder /\ PrimaryIsTheCallers /\ ClosedInTime /\ OpenedInTime

\* What a pass knows of the messages it had accepted.
PassInv ==
  /\ \A p, q \in Passes : q < p /\ pc[p] # "idle" => pc[q] = "ended"
  /\ \A p \in Passes : pc[p] \in {"idle", "closing", "ended"} => open[p] = {}
  /\ \A p \in Passes : Primary \notin open[p]
  /\ \A i \in DOMAIN accepted : pc[accepted[i].pass] # "idle"
  /\ \A i \in DOMAIN accepted : accepted[i].kind = "close" => ~Active(accepted[i].pass)
  /\ \A i \in DOMAIN accepted :
       accepted[i].kind = "open" /\ Active(accepted[i].pass) => accepted[i].docs \subseteq open[accepted[i].pass]

\* A document opened by a pass is one it still has, or a close follows.
ClosesFollow ==
  ~failed => \A i \in DOMAIN accepted : \A d \in Docs :
    Opens(i, d) => d \in open[accepted[i].pass] \/ \E k \in DOMAIN accepted : i < k /\ Closes(k, d)

\* Where a pass stands: what it has is accepted, but for the document it opens.
Opened(p) ==
  /\ pc[p] \in {"ready", "opened", "asking", "asked", "reply"} =>
       \A d \in open[p] : Open(p, d) \in Range(accepted)
  /\ pc[p] = "opening" =>
       doc[p] \in open[p] /\ \A d \in open[p] \ {doc[p]} : Open(p, d) \in Range(accepted)
  /\ pc[p] = "opened" => doc[p] \in open[p]
  /\ pc[p] = "asking" => doc[p] \in open[p] \cup {Primary}

OpenInv == \A p \in Passes : Opened(p)

\* A pass that asked and has seen no error had a query acknowledged.
Answered(p) ==
  outcome[p] = "ok" /\ asks[p] > 0 /\ pc[p] \notin {"asked", "ended"} =>
    \E j \in DOMAIN accepted : accepted[j].pass = p /\ ack[accepted[j]] = "ok"

AskedInv == \A p \in Passes : (pc[p] = "idle" => asks[p] = 0) /\ Answered(p)

\* The server has open what a delivered message opened and no later one closed.
HeldInv ==
  held = {Primary} \cup
    {d \in Docs : \E i \in DOMAIN accepted :
       /\ Opens(i, d) /\ Delivered(i)
       /\ \A k \in DOMAIN accepted : i < k /\ Delivered(k) => ~Closes(k, d)}

\* A pass on its way to a query has one left.
AsksInv == \A p \in Passes : pc[p] \in {"opening", "opened", "asking"} => asks[p] < MaxAsks

DocsInv ==
  /\ PassTypes /\ OP!OutboxInv /\ AsksInv
  /\ LogInv /\ PassInv /\ ClosesFollow /\ OpenInv /\ AskedInv /\ HeldInv

-----------------------------------------------------------------------------
(* Messages and the outbox. *)

LEMMA MessageFields ==
  /\ \A x \in Messages : x.pass \in Passes /\ x.docs \subseteq Docs /\ x.kind \in {"open", "ask", "close"}
  /\ \A p \in Passes, d \in Docs :
       Open(p, d) \in Messages /\ Open(p, d).pass = p /\ Open(p, d).kind = "open" /\ Open(p, d).docs = {d}
  /\ \A p \in Passes, d \in Docs, n \in 1 .. MaxAsks :
       Ask(p, d, n) \in Messages /\ Ask(p, d, n).pass = p /\ Ask(p, d, n).kind = "ask" /\ Ask(p, d, n).docs = {d}
  /\ \A p \in Passes : \A D \in SUBSET Docs :
       /\ CloseDocs(p, D) \in Messages /\ CloseDocs(p, D).pass = p
       /\ CloseDocs(p, D).kind = "close" /\ CloseDocs(p, D).docs = D
<1>1. \A p \in Passes, d \in Docs :
        Open(p, d) \in Messages /\ Open(p, d).pass = p /\ Open(p, d).kind = "open" /\ Open(p, d).docs = {d}
  <2>1. \A p \in Passes, d \in Docs : Open(p, d) \in Messages
    BY DEF Messages
  <2> QED BY <2>1 DEF Open
<1>2. \A p \in Passes, d \in Docs, n \in 1 .. MaxAsks :
        Ask(p, d, n) \in Messages /\ Ask(p, d, n).pass = p /\ Ask(p, d, n).kind = "ask" /\ Ask(p, d, n).docs = {d}
  <2>1. \A p \in Passes, d \in Docs, n \in 1 .. MaxAsks : Ask(p, d, n) \in Messages
    BY DEF Messages
  <2> QED BY <2>1 DEF Ask
<1>3. \A p \in Passes : \A D \in SUBSET Docs :
        /\ CloseDocs(p, D) \in Messages /\ CloseDocs(p, D).pass = p
        /\ CloseDocs(p, D).kind = "close" /\ CloseDocs(p, D).docs = D
  BY DEF Messages, CloseDocs
<1>4. ASSUME NEW x \in Messages
      PROVE  x.pass \in Passes /\ x.docs \subseteq Docs /\ x.kind \in {"open", "ask", "close"}
  <2>1. \/ \E p \in Passes, d \in Docs : x = Open(p, d)
        \/ \E p \in Passes, d \in Docs, n \in 1 .. MaxAsks : x = Ask(p, d, n)
        \/ \E p \in Passes, D \in SUBSET Docs : x = CloseDocs(p, D)
    BY DEF Messages
  <2> QED BY <1>1, <1>2, <1>3, <2>1
<1> QED BY <1>1, <1>2, <1>3, <1>4

\* The outbox of the passes is the one the theorems are about.
LEMMA SameOutbox ==
  /\ Outbox!OutboxInit <=> OP!OutboxInit
  /\ Outbox!OutboxNext <=> OP!OutboxNext
<1>1. Outbox!OutboxInit <=> OP!OutboxInit
  BY DEF Outbox!OutboxInit, OP!OutboxInit
<1>2. Outbox!OutboxNext <=> OP!OutboxNext
  BY DEF Outbox!OutboxNext, OP!OutboxNext, Outbox!Accept, OP!Accept, Outbox!Deliver, OP!Deliver, Outbox!Turn, OP!Turn,
         Outbox!Confirm, OP!Confirm, Outbox!Refuse, OP!Refuse, Outbox!Tell, OP!Tell, Outbox!Fail, OP!Fail,
         Outbox!Close, OP!Close, Outbox!Range, OP!Range
<1> QED BY <1>1, <1>2

\* What the outbox's invariant says of the messages, each of one delivery.
LEMMA OutboxFacts ==
  ASSUME OP!OutboxInv
  PROVE  /\ accepted \in Seq(Messages) /\ Len(accepted) \in Nat /\ DOMAIN accepted = 1 .. Len(accepted)
         /\ written \in [Messages -> Nat]
         /\ \A i \in DOMAIN accepted :
              /\ accepted[i] \in Messages /\ accepted[i] \in Range(accepted)
              /\ ack[accepted[i]] = "ok" => Delivered(i)
         /\ \A x \in Messages : x \notin Range(accepted) => ack[x] = "none" /\ written[x] = 0
         /\ \A i, j \in DOMAIN accepted : accepted[i] = accepted[j] => i = j
         /\ \A i, j \in DOMAIN accepted :
              i < j /\ (Delivered(j) \/ ack[accepted[j]] = "ok") => Delivered(i) /\ ack[accepted[i]] = "ok"
<1>1. accepted \in Seq(Messages) /\ written \in [Messages -> Nat]
  BY DEF OP!OutboxInv, OP!OutboxTypeOK
<1>2. Len(accepted) \in Nat /\ DOMAIN accepted = 1 .. Len(accepted)
  BY <1>1
<1>3. \A i \in DOMAIN accepted : accepted[i] \in Messages /\ accepted[i] \in Range(accepted)
  BY <1>1 DEF Range
<1>4. \A x \in Messages : x \notin Range(accepted) => ack[x] = "none" /\ written[x] = 0
  BY DEF OP!OutboxInv, OP!Untouched, OP!Range, Range
<1>5. \A i, j \in DOMAIN accepted : accepted[i] = accepted[j] => i = j
  BY DEF OP!OutboxInv, OP!NoDuplicates
<1>6. \A i \in DOMAIN accepted : ack[accepted[i]] = "ok" => Delivered(i)
  BY <1>3 DEF OP!OutboxInv, OP!ConfirmedWhole, OP!Whole, Delivered
<1>7. \A i, j \in DOMAIN accepted :
        i < j /\ (Delivered(j) \/ ack[accepted[j]] = "ok") => Delivered(i) /\ ack[accepted[i]] = "ok"
  <2>1. \A j \in DOMAIN accepted : Delivered(j) => written[accepted[j]] > 0
    BY DEF Delivered
  <2> QED BY <1>6, <2>1 DEF OP!OutboxInv, OP!InOrder
<1> QED BY <1>1, <1>2, <1>3, <1>4, <1>5, <1>6, <1>7

\* A message was accepted behind the others.
Appends(x) ==
  /\ ~failed /\ x \in Messages /\ x \notin Range(accepted)
  /\ accepted' = Append(accepted, x)
  /\ UNCHANGED <<written, ack, mode>>

LEMMA AppendFacts ==
  ASSUME OP!OutboxInv, NEW x, Appends(x)
  PROVE  /\ DOMAIN accepted \subseteq DOMAIN accepted'
         /\ DOMAIN accepted' = DOMAIN accepted \cup {Len(accepted')}
         /\ Len(accepted') \in Nat /\ Len(accepted') \notin DOMAIN accepted /\ accepted'[Len(accepted')] = x
         /\ \A i \in DOMAIN accepted : i \in Nat /\ i < Len(accepted') /\ accepted'[i] = accepted[i]
         /\ Range(accepted') = Range(accepted) \cup {x}
<1>1. accepted \in Seq(Messages) /\ Len(accepted) \in Nat /\ DOMAIN accepted = 1 .. Len(accepted)
  BY OutboxFacts
<1>2. /\ Len(accepted') = Len(accepted) + 1 /\ DOMAIN accepted' = 1 .. Len(accepted')
      /\ accepted'[Len(accepted')] = x
      /\ \A i \in DOMAIN accepted : accepted'[i] = accepted[i]
  BY <1>1 DEF Appends
<1>3. DOMAIN accepted' = DOMAIN accepted \cup {Len(accepted')}
  BY <1>1, <1>2
<1>4. /\ Len(accepted') \in Nat /\ Len(accepted') \notin DOMAIN accepted
      /\ \A i \in DOMAIN accepted : i \in Nat /\ i < Len(accepted')
  BY <1>1, <1>2
<1>5. Range(accepted') = Range(accepted) \cup {x}
  BY <1>2, <1>3 DEF Range
<1> QED BY <1>2, <1>3, <1>4, <1>5

-----------------------------------------------------------------------------
(* Types, and the steps of the outbox. *)

\* The passes keep their types, and only one on its way to a query sends one.
LEMMA PassTypesStep ==
  ASSUME PassTypes, AsksInv, [Next]_vars
  PROVE  PassTypes' /\ AsksInv'
<1> USE DEF PassTypes, AsksInv, Awaiting, outbox, passes
<1>send. ASSUME NEW p \in Passes, NEW x, NEW to \in {"opened", "asked"}, Send(p, x, to)
         PROVE  /\ failed' \in BOOLEAN
                /\ pc' \in [Passes -> Awaiting \cup {"idle", "ready", "finish", "ended"}]
                /\ outcome' \in [Passes -> {"none", "ok", "error", "cancelled"}]
                /\ \A q \in Passes \ {p} : pc'[q] = pc[q]
                /\ pc'[p] \in {"finish", to}
  BY <1>send DEF Send, Fails
<1>acked. ASSUME NEW p \in Passes, NEW x, NEW to \in {"asking", "reply"}, Acked(p, x, to), to = "asking" => asks[p] < MaxAsks
          PROVE  PassTypes' /\ AsksInv'
  BY <1>acked DEF Acked, Fails
<1>1. ASSUME NEW p \in Passes, StartPass(p) PROVE PassTypes' /\ AsksInv'
  BY <1>1 DEF StartPass, Goes
<1>2. ASSUME NEW p \in Passes, NEW d \in Docs, Visit(p, d) PROVE PassTypes' /\ AsksInv'
  BY <1>2 DEF Visit, Goes
<1>3. ASSUME NEW p \in Passes, SendOpen(p) PROVE PassTypes' /\ AsksInv'
  BY <1>3, <1>send DEF SendOpen
<1>4. ASSUME NEW p \in Passes, OpenAcked(p) PROVE PassTypes' /\ AsksInv'
  BY <1>4, <1>acked DEF OpenAcked
<1>5. ASSUME NEW p \in Passes, SendAsk(p) PROVE PassTypes' /\ AsksInv'
  <2>1. pc[p] = "asking" /\ Send(p, Ask(p, doc[p], asks[p] + 1), "asked") /\ UNCHANGED <<open, doc>>
        /\ asks' = [asks EXCEPT ![p] = asks[p] + 1]
    BY <1>5 DEF SendAsk
  <2>2. asks[p] + 1 \in 0 .. MaxAsks
    BY <2>1, DocsAssumption DEF DocsAssumption
  <2>3. asks' \in [Passes -> 0 .. MaxAsks] /\ \A q \in Passes \ {p} : asks'[q] = asks[q]
    BY <2>1, <2>2
  <2> QED BY <2>1, <2>3, <1>send
<1>6. ASSUME NEW p \in Passes, AskAcked(p) PROVE PassTypes' /\ AsksInv'
  BY <1>6, <1>acked DEF AskAcked
<1>7. ASSUME NEW p \in Passes, Reply(p) \/ NoMoreCandidates(p) PROVE PassTypes' /\ AsksInv'
  BY <1>7 DEF Reply, NoMoreCandidates, Goes, Fails
<1>8. ASSUME NEW p \in Passes, CloseAll(p) PROVE PassTypes' /\ AsksInv'
  BY <1>8 DEF CloseAll, CloseDocuments, Goes, Ends
<1>9. ASSUME NEW p \in Passes, NothingToClose(p) \/ CloseAcked(p) PROVE PassTypes' /\ AsksInv'
  <2>1. CASE NothingToClose(p)
    BY <2>1 DEF NothingToClose, Ends
  <2>2. CASE CloseAcked(p)
    BY <2>2 DEF CloseAcked, Ends
  <2> QED BY <1>9, <2>1, <2>2
<1>10. ASSUME NEW p \in Passes, Cancel(p) PROVE PassTypes' /\ AsksInv'
  BY <1>10 DEF Cancel, CloseDocuments, Ends
<1>11. ASSUME NEW i \in DOMAIN accepted, ServerReads(i) \/ WriterTells(i) PROVE PassTypes' /\ AsksInv'
  BY <1>11 DEF ServerReads, WriterTells
<1>12. ASSUME WriteFails \/ WriterEnds \/ Finished \/ UNCHANGED vars PROVE PassTypes' /\ AsksInv'
  BY <1>12 DEF WriteFails, WriterEnds, Finished, vars
<1> QED BY ONLY [Next]_vars, <1>1, <1>2, <1>3, <1>4, <1>5, <1>6, <1>7, <1>8, <1>9, <1>10, <1>11, <1>12
        DEF Next, PassNext, ServerNext

\* Pass p had message x accepted.
Says(p, x) ==
  /\ Appends(x) /\ x.pass = p /\ Active(p) /\ UNCHANGED held
  /\ \/ x.kind = "open" /\ x.docs = {doc[p]} /\ pc[p] = "opening"
     \/ x.kind = "ask" /\ x.docs = {doc[p]} /\ pc[p] = "asking"
     \/ x.kind = "close" /\ x.docs = open[p]

\* What a step may do to the messages: add one, hand one to the server, or
\* nothing but acknowledge.
LEMMA StepForms ==
  ASSUME PassTypes, AsksInv, PassInv, [Next]_vars
  PROVE  /\ [OP!OutboxNext]_(OP!outbox)
         /\ \/ \E p \in Passes, x \in Messages : Says(p, x)
            \/ \E i \in DOMAIN accepted : ServerReads(i)
            \/ UNCHANGED <<accepted, written, held>>
<1> DEFINE Goal ==
      /\ [OP!OutboxNext]_(OP!outbox)
      /\ \/ \E p \in Passes, x \in Messages : Says(p, x)
         \/ \E i \in DOMAIN accepted : ServerReads(i)
         \/ UNCHANGED <<accepted, written, held>>
<1>q. ASSUME UNCHANGED outbox, UNCHANGED held PROVE Goal
  BY <1>q DEF outbox, OP!outbox
<1>a. ASSUME NEW p \in Passes, NEW x \in Messages, Outbox!Accept(x), ~failed, UNCHANGED held, x.pass = p, Active(p),
             \/ x.kind = "open" /\ x.docs = {doc[p]} /\ pc[p] = "opening"
             \/ x.kind = "ask" /\ x.docs = {doc[p]} /\ pc[p] = "asking"
             \/ x.kind = "close" /\ x.docs = open[p]
      PROVE  Goal
  <2>1. Appends(x)
    BY <1>a DEF Outbox!Accept, Appends, Outbox!Range, Range
  <2>2. OP!OutboxNext
    BY <1>a, SameOutbox DEF Outbox!OutboxNext
  <2>3. Says(p, x)
    BY <2>1, <1>a DEF Says
  <2> QED BY <2>2, <2>3
<1>close. ASSUME NEW p \in Passes, CloseDocuments(p), Active(p), UNCHANGED held PROVE Goal
  <2>1. open[p] \in SUBSET Docs
    BY DocsAssumption DEF DocsAssumption, PassTypes
  <2>2. CASE UNCHANGED outbox
    BY <2>2, <1>close, <1>q
  <2>3. CASE ~failed /\ Outbox!Accept(CloseDocs(p, open[p]))
    <3>1. CloseDocs(p, open[p]) \in Messages /\ CloseDocs(p, open[p]).pass = p
          /\ CloseDocs(p, open[p]).kind = "close" /\ CloseDocs(p, open[p]).docs = open[p]
      BY <2>1, MessageFields
    <3> QED BY <3>1, <2>3, <1>close, <1>a
  <2> QED BY <1>close, <2>2, <2>3 DEF CloseDocuments
<1> HIDE DEF Goal
<1>1. ASSUME NEW p \in Passes, StartPass(p) \/ NoMoreCandidates(p) \/ (\E d \in Docs : Visit(p, d)) PROVE Goal
  BY <1>1, <1>q DEF StartPass, NoMoreCandidates, Visit
<1>2. ASSUME NEW p \in Passes, OpenAcked(p) \/ AskAcked(p) \/ Reply(p) PROVE Goal
  BY <1>2, <1>q DEF OpenAcked, AskAcked, Reply, Acked
<1>3. ASSUME NEW p \in Passes, SendOpen(p) PROVE Goal
  <2>1. doc[p] \in Docs
    BY DEF PassTypes
  <2>2. Open(p, doc[p]) \in Messages /\ Open(p, doc[p]).pass = p
        /\ Open(p, doc[p]).kind = "open" /\ Open(p, doc[p]).docs = {doc[p]}
    BY <2>1, MessageFields
  <2>3. pc[p] = "opening" /\ Send(p, Open(p, doc[p]), "opened") /\ UNCHANGED held
    BY <1>3 DEF SendOpen
  <2>4. Active(p)
    BY <2>3 DEF Active
  <2>5. UNCHANGED outbox \/ (~failed /\ Outbox!Accept(Open(p, doc[p])))
    BY <2>3 DEF Send
  <2> QED BY <2>2, <2>3, <2>4, <2>5, <1>q, <1>a
<1>4. ASSUME NEW p \in Passes, SendAsk(p) PROVE Goal
  <2> DEFINE x == Ask(p, doc[p], asks[p] + 1)
  <2>1. pc[p] = "asking" /\ Send(p, x, "asked") /\ UNCHANGED held
    BY <1>4 DEF SendAsk
  <2>2. doc[p] \in Docs /\ asks[p] + 1 \in 1 .. MaxAsks
    BY <2>1, DocsAssumption DEF PassTypes, AsksInv, DocsAssumption
  <2>3. x \in Messages /\ x.pass = p /\ x.kind = "ask" /\ x.docs = {doc[p]}
    BY <2>2, MessageFields
  <2>4. Active(p)
    BY <2>1 DEF Active
  <2>5. UNCHANGED outbox \/ (~failed /\ Outbox!Accept(x))
    BY <2>1 DEF Send
  <2> QED BY <2>1, <2>3, <2>4, <2>5, <1>q, <1>a
<1>5. ASSUME NEW p \in Passes, CloseAll(p) PROVE Goal
  BY <1>5, <1>close DEF CloseAll, Active
<1>6. ASSUME NEW p \in Passes, NothingToClose(p) \/ CloseAcked(p) PROVE Goal
  BY <1>6, <1>q DEF NothingToClose, CloseAcked
<1>7. ASSUME NEW p \in Passes, Cancel(p) PROVE Goal
  <2>1. CASE open[p] = {}
    BY <2>1, <1>7, <1>q DEF Cancel, outbox
  <2>2. CASE open[p] # {}
    <3>1. Active(p)
      BY <2>2 DEF PassInv, Active
    <3> QED BY <2>2, <3>1, <1>7, <1>close DEF Cancel
  <2> QED BY <2>1, <2>2
<1>8. ASSUME NEW i \in DOMAIN accepted, ServerReads(i) PROVE Goal
  BY <1>8, SameOutbox DEF ServerReads, Outbox!OutboxNext, Goal
<1>9. ASSUME NEW i \in DOMAIN accepted, WriterTells(i) PROVE Goal
  <2>1. UNCHANGED <<accepted, written, held>>
    BY <1>9 DEF WriterTells, Outbox!Confirm, Outbox!Refuse, Outbox!Tell
  <2>2. Outbox!OutboxNext
    BY <1>9 DEF WriterTells, Outbox!OutboxNext
  <2> QED BY <2>1, <2>2, SameOutbox DEF Goal
<1>10. ASSUME WriteFails \/ WriterEnds PROVE Goal
  <2>1. UNCHANGED <<accepted, written, held>>
    BY <1>10 DEF WriteFails, WriterEnds, Outbox!Fail, Outbox!Close
  <2>2. Outbox!OutboxNext
    BY <1>10 DEF WriteFails, WriterEnds, Outbox!OutboxNext
  <2> QED BY <2>1, <2>2, SameOutbox DEF Goal
<1>11. ASSUME Finished \/ UNCHANGED vars PROVE Goal
  BY <1>11, <1>q DEF Finished, vars
<1> QED BY ONLY [Next]_vars, <1>1, <1>2, <1>3, <1>4, <1>5, <1>6, <1>7, <1>8, <1>9, <1>10, <1>11
        DEF Next, PassNext, ServerNext, Goal

-----------------------------------------------------------------------------
(* The sequence of accepted messages. *)

LEMMA LogStep ==
  ASSUME PassTypes, AsksInv, OP!OutboxInv, LogInv, PassInv, ClosesFollow, OpenInv, [Next]_vars
  PROVE  LogInv'
<1>1. CASE UNCHANGED accepted
  BY <1>1 DEF LogInv, InPassOrder, PrimaryIsTheCallers, ClosedInTime, OpenedInTime, Opens, Closes
<1>2. ASSUME NEW p \in Passes, NEW x \in Messages, Says(p, x) PROVE LogInv'
  <2>n. PICK n : n = Len(accepted')
    OBVIOUS
  <2>1. Appends(x) /\ x.pass = p /\ Active(p) /\ ~failed
    BY <1>2 DEF Says, Appends
  <2>2. /\ DOMAIN accepted' = DOMAIN accepted \cup {n} /\ n \in Nat /\ n \notin DOMAIN accepted /\ accepted'[n] = x
        /\ \A i \in DOMAIN accepted : i \in Nat /\ i < n /\ accepted'[i] = accepted[i]
    BY <2>1, <2>n, AppendFacts
  <2>3. \A i \in DOMAIN accepted : accepted[i] \in Messages /\ accepted[i].pass \in Passes
                                  /\ accepted[i].docs \subseteq Docs
    BY OutboxFacts, MessageFields
  <2>4. pc[p] \notin {"idle", "closing", "ended"}
    BY <2>1 DEF Active
  <2>pass. Passes \subseteq Int
    BY DEF Passes
  <2>5. \A i \in DOMAIN accepted : accepted[i].pass <= p /\ (accepted[i].kind = "close" => accepted[i].pass < p)
    <3> SUFFICES ASSUME NEW i \in DOMAIN accepted
                 PROVE  accepted[i].pass <= p /\ (accepted[i].kind = "close" => accepted[i].pass < p)
      OBVIOUS
    <3>1. pc[accepted[i].pass] # "idle" /\ (accepted[i].kind = "close" => ~Active(accepted[i].pass))
      BY DEF PassInv
    <3>2. ~(p < accepted[i].pass)
      BY <2>3, <2>4, <3>1 DEF PassInv
    <3>3. accepted[i].kind = "close" => accepted[i].pass # p
      BY <2>1, <3>1
    <3>4. accepted[i].pass \in Int /\ p \in Int
      BY <2>3, <2>pass
    <3> QED BY ONLY <3>2, <3>3, <3>4
  <2>6. \A i \in DOMAIN accepted, d \in Docs :
          (Opens(i, d)' <=> Opens(i, d)) /\ (Closes(i, d)' <=> Closes(i, d))
    BY <2>2 DEF Opens, Closes
  <2>7. \A d \in Docs : (Opens(n, d)' <=> x.kind = "open" /\ d \in x.docs) /\ (Closes(n, d)' <=> x.kind = "close" /\ d \in x.docs)
    BY <2>2 DEF Opens, Closes
  <2>8. InPassOrder'
    <3> SUFFICES ASSUME NEW i \in DOMAIN accepted', NEW j \in DOMAIN accepted', i < j
                 PROVE  /\ accepted'[i].pass <= accepted'[j].pass
                        /\ accepted'[i].kind = "close" => accepted'[i].pass < accepted'[j].pass
      BY DEF InPassOrder
    <3>1. i \in DOMAIN accepted
      BY <2>2
    <3>2. CASE j \in DOMAIN accepted
      BY <2>2, <3>1, <3>2 DEF LogInv, InPassOrder
    <3>3. CASE j = n
      BY <2>1, <2>2, <2>5, <3>1, <3>3
    <3> QED BY <2>2, <3>2, <3>3
  <2>9. PrimaryIsTheCallers'
    <3>1. Primary \in x.docs => x.kind = "ask"
      <4>1. Primary \notin open[p] /\ (pc[p] = "opening" => doc[p] \in open[p])
        BY DEF PassInv, OpenInv, Opened
      <4> QED BY <4>1, <1>2 DEF Says
    <3> QED BY <2>2, <3>1 DEF LogInv, PrimaryIsTheCallers
  <2>10. ClosedInTime'
    <3> SUFFICES ASSUME NEW i \in DOMAIN accepted', NEW j \in DOMAIN accepted', NEW d \in Docs, i < j, Opens(i, d)',
                        accepted'[i].pass < accepted'[j].pass \/ accepted'[j].kind = "close"
                 PROVE  \E k \in DOMAIN accepted' : i < k /\ k <= j /\ Closes(k, d)'
      BY DEF ClosedInTime
    <3>1. i \in DOMAIN accepted /\ Opens(i, d) /\ accepted'[i] = accepted[i]
      BY <2>2, <2>6
    <3>2. CASE j \in DOMAIN accepted
      <4>1. \E k \in DOMAIN accepted : i < k /\ k <= j /\ Closes(k, d)
        BY <2>2, <3>1, <3>2 DEF LogInv, ClosedInTime
      <4> QED BY <4>1, <2>2, <2>6
    <3>3. CASE j = n
      <4>1. CASE accepted[i].pass < p
        <5>1. pc[accepted[i].pass] = "ended" /\ open[accepted[i].pass] = {}
          BY <2>3, <2>4, <3>1, <4>1 DEF PassInv
        <5>2. \E k \in DOMAIN accepted : i < k /\ Closes(k, d)
          BY <2>1, <3>1, <5>1 DEF ClosesFollow
        <5> QED BY <2>2, <2>6, <3>3, <5>2
      <4>2. CASE accepted[i].pass = p /\ x.kind = "close"
        <5>1. d \in open[p]
          BY <2>1, <3>1, <4>2 DEF PassInv, Opens
        <5>2. Closes(n, d)'
          BY <1>2, <2>7, <4>2, <5>1 DEF Says
        <5>3. n \in DOMAIN accepted' /\ i < n /\ n <= j
          BY <2>2, <3>1, <3>3
        <5> QED BY <5>2, <5>3
      <4>3. accepted'[j] = x
        BY <2>2, <3>3
      <4>4. accepted[i].pass <= p /\ accepted[i].pass \in Int /\ p \in Int
        BY <2>3, <2>5, <2>pass, <3>1
      <4>5. accepted[i].pass < p \/ accepted[i].pass = p
        BY <4>4
      <4> QED BY <2>1, <3>1, <4>1, <4>2, <4>3, <4>5
    <3> QED BY <2>2, <3>2, <3>3
  <2>11. OpenedInTime'
    <3> SUFFICES ASSUME NEW j \in DOMAIN accepted', NEW d \in accepted'[j].docs, accepted'[j].kind = "ask", d # Primary
                 PROVE  \E i \in DOMAIN accepted' :
                          /\ i < j /\ Opens(i, d)'
                          /\ \A k \in DOMAIN accepted' : i < k /\ k < j => ~Closes(k, d)'
      BY DEF OpenedInTime
    <3>d. d \in Docs
      BY <2>2, <2>3, MessageFields
    <3>1. CASE j \in DOMAIN accepted
      <4>1. PICK i \in DOMAIN accepted : i < j /\ Opens(i, d) /\ \A k \in DOMAIN accepted : i < k /\ k < j => ~Closes(k, d)
        BY <2>2, <3>1 DEF LogInv, OpenedInTime
      <4>2. \A k \in DOMAIN accepted' : k < j => k \in DOMAIN accepted
        BY <2>2, <3>1
      <4> QED BY <2>2, <2>6, <3>d, <4>1, <4>2
    <3>2. CASE j = n
      <4>1. x.kind = "ask" /\ d \in x.docs
        BY <2>2, <3>2
      <4>2. pc[p] = "asking" /\ d = doc[p]
        BY <1>2, <4>1 DEF Says
      <4>3. Open(p, d) \in Range(accepted)
        BY <4>2 DEF OpenInv, Opened
      <4>4. PICK i \in DOMAIN accepted : accepted[i] = Open(p, d)
        BY <4>3 DEF Range
      <4>5. Opens(i, d) /\ accepted[i].pass = p
        BY <4>4, <3>d, MessageFields DEF Opens
      <4>6. \A k \in DOMAIN accepted : i < k => ~Closes(k, d)
        <5> SUFFICES ASSUME NEW k \in DOMAIN accepted, i < k, accepted[k].kind = "close" PROVE FALSE
          BY DEF Closes
        <5>1. p <= accepted[k].pass
          BY <4>5 DEF LogInv, InPassOrder
        <5>2. accepted[k].pass < p
          BY <2>5
        <5>3. accepted[k].pass \in Int /\ p \in Int
          BY <2>3, <2>pass
        <5> QED BY ONLY <5>1, <5>2, <5>3
      <4>7. \A k \in DOMAIN accepted' : k < n => k \in DOMAIN accepted
        BY <2>2
      <4> QED BY <2>2, <2>6, <3>2, <3>d, <4>5, <4>6, <4>7
    <3> QED BY <2>2, <3>1, <3>2
  <2> QED BY <2>8, <2>9, <2>10, <2>11 DEF LogInv
<1>3. ASSUME NEW i \in DOMAIN accepted, ServerReads(i) PROVE UNCHANGED accepted
  BY <1>3 DEF ServerReads, Outbox!Deliver
<1> QED BY <1>1, <1>2, <1>3, StepForms

\* The server holds what the delivered messages leave open.
LEMMA HeldStep ==
  ASSUME PassTypes, AsksInv, OP!OutboxInv, LogInv, PassInv, HeldInv, [Next]_vars
  PROVE  HeldInv'
<1>0. \A i \in DOMAIN accepted : accepted[i] \in Messages /\ accepted[i].docs \subseteq Docs /\ i \in Nat
                                /\ accepted[i].kind \in {"open", "ask", "close"}
  BY OutboxFacts, MessageFields
<1>1. CASE UNCHANGED <<accepted, written, held>>
  BY <1>1 DEF HeldInv, Opens, Closes, Delivered
<1>2. ASSUME NEW p \in Passes, NEW x \in Messages, Says(p, x) PROVE HeldInv'
  <2>n. PICK n : n = Len(accepted')
    OBVIOUS
  <2>1. Appends(x) /\ UNCHANGED <<written, held>>
    BY <1>2 DEF Says, Appends
  <2>2. /\ DOMAIN accepted' = DOMAIN accepted \cup {n} /\ accepted'[n] = x
        /\ \A i \in DOMAIN accepted : accepted'[i] = accepted[i]
    BY <2>1, <2>n, AppendFacts
  <2>3. written[x] = 0
    BY <2>1, OutboxFacts DEF Appends
  <2>4. ~Delivered(n)'
    BY <2>1, <2>2, <2>3 DEF Delivered
  <2>5. \A i \in DOMAIN accepted, d \in Docs :
          (Opens(i, d)' <=> Opens(i, d)) /\ (Closes(i, d)' <=> Closes(i, d)) /\ (Delivered(i)' <=> Delivered(i))
    BY <2>1, <2>2 DEF Opens, Closes, Delivered
  <2> QED BY <2>1, <2>2, <2>4, <2>5 DEF HeldInv
<1>3. ASSUME NEW i \in DOMAIN accepted, ServerReads(i) PROVE HeldInv'
  <2> DEFINE x == accepted[i]
  <2>1. /\ written' = [written EXCEPT ![x] = written[x] + 1] /\ written[x] < 1
        /\ UNCHANGED accepted
        /\ ack[x] = "none" /\ \A j \in 1 .. (i - 1) : ack[accepted[j]] = "ok"
    BY <1>0, <1>3 DEF ServerReads, Outbox!Deliver, Outbox!Turn
  <2>2. written \in [Messages -> Nat]
    BY OutboxFacts
  <2>3. written[x] = 0
    BY <1>0, <2>1, <2>2
  <2>4. ~Delivered(i) /\ Delivered(i)'
    BY <1>0, <2>1, <2>2, <2>3 DEF Delivered
  <2>5. \A j \in DOMAIN accepted : j # i => (Delivered(j)' <=> Delivered(j))
    BY <1>0, <2>1, <2>2, OutboxFacts DEF Delivered
  <2>6. \A j \in DOMAIN accepted : i < j => ~Delivered(j)
    BY <2>1, <2>4, OutboxFacts
  <2>6a. \A j \in DOMAIN accepted : Delivered(j)' => j < i \/ j = i
    BY <1>0, <2>5, <2>6
  <2>7. \A j \in DOMAIN accepted, d \in Docs : (Opens(j, d)' <=> Opens(j, d)) /\ (Closes(j, d)' <=> Closes(j, d))
    BY <2>1 DEF Opens, Closes
  <2>8. held' = CASE x.kind = "open"  -> held \cup x.docs
                  [] x.kind = "close" -> held \ x.docs
                  [] x.kind = "ask"   -> held
    BY <1>3 DEF ServerReads
  <2>9. Primary \in x.docs => x.kind = "ask"
    BY DEF LogInv, PrimaryIsTheCallers
  <2> HIDE DEF x
  <2> DEFINE Was(d) == \E j \in DOMAIN accepted :
                /\ Opens(j, d) /\ Delivered(j)
                /\ \A k \in DOMAIN accepted : j < k /\ Delivered(k) => ~Closes(k, d)
             Is(d) == \E j \in DOMAIN accepted :
                /\ Opens(j, d) /\ Delivered(j)'
                /\ \A k \in DOMAIN accepted : j < k /\ Delivered(k)' => ~Closes(k, d)
  <2>10. \A d \in Docs : Is(d) <=> (Was(d) /\ ~Closes(i, d)) \/ Opens(i, d)
    <3> SUFFICES ASSUME NEW d \in Docs PROVE Is(d) <=> (Was(d) /\ ~Closes(i, d)) \/ Opens(i, d)
      OBVIOUS
    <3>1. ASSUME Is(d), ~Opens(i, d) PROVE Was(d) /\ ~Closes(i, d)
      <4>1. PICK j \in DOMAIN accepted : /\ Opens(j, d) /\ Delivered(j)'
                                        /\ \A k \in DOMAIN accepted : j < k /\ Delivered(k)' => ~Closes(k, d)
        BY <3>1
      <4>2. j < i
        BY <2>6a, <3>1, <4>1
      <4>3. ~Closes(i, d)
        BY <2>4, <4>1, <4>2
      <4>4. j # i
        BY <1>0, <4>2
      <4>5. Delivered(j)
        BY <2>5, <4>1, <4>4
      <4>6. \A k \in DOMAIN accepted : j < k /\ Delivered(k) => ~Closes(k, d)
        BY <2>4, <2>5, <4>1
      <4> QED BY <4>1, <4>3, <4>5, <4>6
    <3>2. ASSUME Opens(i, d) PROVE Is(d)
      BY <1>0, <2>4, <2>6a, <3>2
    <3>3. ASSUME Was(d), ~Closes(i, d) PROVE Is(d)
      BY <2>4, <2>5, <3>3
    <3> QED BY <3>1, <3>2, <3>3
  <2>11. held = {Primary} \cup {d \in Docs : Was(d)}
    BY DEF HeldInv
  <2>12. HeldInv' <=> held' = {Primary} \cup {d \in Docs : Is(d)}
    BY <2>1, <2>7 DEF HeldInv
  <2> HIDE DEF Was, Is
  <2>13. \A d \in Docs : (Opens(i, d) <=> x.kind = "open" /\ d \in x.docs) /\ (Closes(i, d) <=> x.kind = "close" /\ d \in x.docs)
    BY DEF Opens, Closes, x
  <2>14. x.docs \subseteq Docs /\ x.kind \in {"open", "ask", "close"}
    BY <1>0 DEF x
  <2>15. CASE x.kind = "open"
    BY <2>8, <2>10, <2>11, <2>12, <2>13, <2>14, <2>15
  <2>16. CASE x.kind = "close"
    BY <2>8, <2>9, <2>10, <2>11, <2>12, <2>13, <2>14, <2>16
  <2>17. CASE x.kind = "ask"
    BY <2>8, <2>10, <2>11, <2>12, <2>13, <2>14, <2>17
  <2> QED BY <2>14, <2>15, <2>16, <2>17
<1> QED BY <1>1, <1>2, <1>3, StepForms

-----------------------------------------------------------------------------
(* The passes. *)

\* Pass p went on to s, with the documents O, and perhaps said something.
Shifts(p, s, O) ==
  /\ pc[p] # "ended" /\ s # "idle" /\ pc' = [pc EXCEPT ![p] = s]
  /\ open' = [open EXCEPT ![p] = O] /\ Primary \notin O
  /\ pc[p] = "idle" => \A q \in Passes : q < p => pc[q] = "ended"
  /\ failed => failed'
  /\ s \in {"closing", "ended"} => O = {}
  /\ s \notin {"closing", "ended"} => pc[p] # "closing" /\ open[p] \subseteq O
  /\ \/ accepted' = accepted /\ (failed' \/ open[p] \subseteq O)
     \/ \E x \in Messages :
          /\ Says(p, x)
          /\ x.kind = "open" => x.docs \subseteq O
          /\ x.kind = "close" => s \in {"closing", "ended"}
          /\ x.kind # "close" => open[p] \subseteq O

LEMMA ShiftKeeps ==
  ASSUME PassTypes, OP!OutboxInv, PassInv, ClosesFollow, NEW p \in Passes, NEW s, NEW O, Shifts(p, s, O)
  PROVE  PassInv' /\ ClosesFollow'
<1>1. /\ pc'[p] = s /\ open'[p] = O /\ s # "idle" /\ pc[p] # "ended" /\ Primary \notin O
      /\ \A q \in Passes : q # p => pc'[q] = pc[q] /\ open'[q] = open[q]
  BY DEF Shifts, PassTypes
<1>2. \A i \in DOMAIN accepted : accepted[i].pass \in Passes /\ i \in Nat
  BY OutboxFacts, MessageFields
<1>3. /\ s \in {"closing", "ended"} => O = {}
      /\ s \notin {"closing", "ended"} => pc[p] # "closing" /\ open[p] \subseteq O
      /\ pc[p] = "idle" => \A q \in Passes : q < p => pc[q] = "ended"
      /\ failed => failed'
  BY DEF Shifts
<1>pass. Passes \subseteq Int
  BY DEF Passes
<1>4. \A r, q \in Passes : q < r /\ pc'[r] # "idle" => pc'[q] = "ended"
  <2> SUFFICES ASSUME NEW r \in Passes, NEW q \in Passes, q < r, pc'[r] # "idle" PROVE pc'[q] = "ended"
    OBVIOUS
  <2>1. q # r
    BY <1>pass
  <2>2. CASE r = p
    BY <1>1, <1>3, <2>1, <2>2 DEF PassInv
  <2>3. CASE r # p
    BY <1>1, <2>3 DEF PassInv
  <2> QED BY <2>2, <2>3
<1>5. \A r \in Passes : (pc'[r] \in {"idle", "closing", "ended"} => open'[r] = {}) /\ Primary \notin open'[r]
  BY <1>1, <1>3 DEF PassInv
<1>6. \A i \in DOMAIN accepted :
        /\ pc'[accepted[i].pass] # "idle"
        /\ accepted[i].kind = "close" => pc'[accepted[i].pass] \in {"idle", "closing", "ended"}
        /\ accepted[i].kind = "open" /\ pc'[accepted[i].pass] \notin {"idle", "closing", "ended"}
             => accepted[i].docs \subseteq open'[accepted[i].pass]
  <2> SUFFICES ASSUME NEW i \in DOMAIN accepted
               PROVE  /\ pc'[accepted[i].pass] # "idle"
                      /\ accepted[i].kind = "close" => pc'[accepted[i].pass] \in {"idle", "closing", "ended"}
                      /\ accepted[i].kind = "open" /\ pc'[accepted[i].pass] \notin {"idle", "closing", "ended"}
                           => accepted[i].docs \subseteq open'[accepted[i].pass]
    OBVIOUS
  <2>1. /\ pc[accepted[i].pass] # "idle"
        /\ accepted[i].kind = "close" => pc[accepted[i].pass] \in {"idle", "closing", "ended"}
        /\ accepted[i].kind = "open" /\ pc[accepted[i].pass] \notin {"idle", "closing", "ended"}
             => accepted[i].docs \subseteq open[accepted[i].pass]
    BY DEF PassInv, Active
  <2>2. CASE accepted[i].pass = p
    BY <1>1, <1>3, <2>1, <2>2
  <2>3. CASE accepted[i].pass # p
    BY <1>1, <1>2, <2>1, <2>3
  <2> QED BY <2>2, <2>3
<1>7. CASE accepted' = accepted /\ (failed' \/ open[p] \subseteq O)
  <2>1. PassInv'
    BY <1>4, <1>5, <1>6, <1>7 DEF PassInv, Active
  <2>2. \A i \in DOMAIN accepted, d \in Docs : (Opens(i, d)' <=> Opens(i, d)) /\ (Closes(i, d)' <=> Closes(i, d))
    BY <1>7 DEF Opens, Closes
  <2>3. ~failed' => \A q \in Passes : open[q] \subseteq open'[q]
    BY <1>1, <1>7
  <2>4. ClosesFollow'
    BY <1>2, <1>3, <1>7, <2>2, <2>3 DEF ClosesFollow
  <2> QED BY <2>1, <2>4
<1>8. ASSUME NEW x \in Messages, Says(p, x), x.kind = "open" => x.docs \subseteq O,
             x.kind = "close" => s \in {"closing", "ended"}, x.kind # "close" => open[p] \subseteq O
      PROVE  PassInv' /\ ClosesFollow'
  <2>n. PICK n : n = Len(accepted')
    OBVIOUS
  <2>1. Appends(x) /\ x.pass = p /\ ~failed /\ (x.kind = "close" => x.docs = open[p])
    BY <1>8 DEF Says, Appends
  <2>2. /\ DOMAIN accepted' = DOMAIN accepted \cup {n} /\ accepted'[n] = x /\ n \in Nat
        /\ \A i \in DOMAIN accepted : i < n /\ accepted'[i] = accepted[i]
    BY <2>1, <2>n, AppendFacts
  <2>3. \A i \in DOMAIN accepted', d \in Docs :
          /\ i \in DOMAIN accepted => (Opens(i, d)' <=> Opens(i, d)) /\ (Closes(i, d)' <=> Closes(i, d))
          /\ i = n => (Opens(i, d)' <=> x.kind = "open" /\ d \in x.docs) /\ (Closes(i, d)' <=> x.kind = "close" /\ d \in x.docs)
    BY <2>2 DEF Opens, Closes
  <2>4. PassInv'
    <3>1. \A i \in DOMAIN accepted' :
            /\ pc'[accepted'[i].pass] # "idle"
            /\ accepted'[i].kind = "close" => pc'[accepted'[i].pass] \in {"idle", "closing", "ended"}
            /\ accepted'[i].kind = "open" /\ pc'[accepted'[i].pass] \notin {"idle", "closing", "ended"}
                 => accepted'[i].docs \subseteq open'[accepted'[i].pass]
      BY <1>1, <1>6, <1>8, <2>1, <2>2
    <3> QED BY <1>4, <1>5, <3>1 DEF PassInv, Active
  <2>5. ClosesFollow'
    <3> SUFFICES ASSUME NEW i \in DOMAIN accepted', NEW d \in Docs, Opens(i, d)'
                 PROVE  d \in open'[accepted'[i].pass] \/ \E k \in DOMAIN accepted' : i < k /\ Closes(k, d)'
      BY DEF ClosesFollow
    <3>1. CASE i \in DOMAIN accepted
      <4>1. d \in open[accepted[i].pass] \/ \E k \in DOMAIN accepted : i < k /\ Closes(k, d)
        BY <2>1, <2>3, <3>1 DEF ClosesFollow
      <4>2. ASSUME NEW k \in DOMAIN accepted, i < k, Closes(k, d)
            PROVE  \E kk \in DOMAIN accepted' : i < kk /\ Closes(kk, d)'
        BY <2>2, <2>3, <4>2
      <4>3. CASE d \in open[accepted[i].pass] /\ accepted[i].pass # p
        BY <1>1, <1>2, <2>2, <3>1, <4>3
      <4>4. CASE d \in open[accepted[i].pass] /\ accepted[i].pass = p /\ x.kind # "close"
        BY <1>1, <1>8, <2>2, <3>1, <4>4
      <4>5. CASE d \in open[accepted[i].pass] /\ accepted[i].pass = p /\ x.kind = "close"
        <5>1. n \in DOMAIN accepted' /\ i < n
          BY <2>2, <3>1
        <5>2. Closes(n, d)'
          BY <2>1, <2>3, <4>5, <5>1
        <5> QED BY <5>1, <5>2
      <4> QED BY <4>1, <4>2, <4>3, <4>4, <4>5
    <3>2. CASE i = n
      BY <1>1, <1>8, <2>1, <2>2, <2>3, <3>2
    <3> QED BY <2>2, <3>1, <3>2
  <2> QED BY <2>4, <2>5
<1> QED BY <1>7, <1>8 DEF Shifts

\* Whatever a pass does, it shifts.
LEMMA PassShifts ==
  ASSUME PassTypes, AsksInv, PassInv, OpenInv, PassNext
  PROVE  \E p \in Passes : \E s, O : Shifts(p, s, O)
<1> DEFINE Goal == \E p \in Passes : \E s, O : Shifts(p, s, O)
<1>0. \A p \in Passes : open[p] \in SUBSET Docs /\ Primary \notin open[p] /\ open = [open EXCEPT ![p] = open[p]]
  BY DocsAssumption DEF PassInv, PassTypes, DocsAssumption
<1>quiet. ASSUME NEW p \in Passes, NEW s, pc[p] \notin {"ended", "closing"}, s \notin {"idle", "closing", "ended"},
                 pc' = [pc EXCEPT ![p] = s], UNCHANGED <<accepted, open>>, failed => failed',
                 pc[p] = "idle" => \A q \in Passes : q < p => pc[q] = "ended"
          PROVE  Goal
  <2>1. Shifts(p, s, open[p])
    BY <1>0, <1>quiet DEF Shifts
  <2> QED BY <2>1
<1>end. ASSUME NEW p \in Passes, pc[p] \notin {"idle", "ended"}, pc' = [pc EXCEPT ![p] = "ended"], open[p] = {},
               UNCHANGED <<accepted, open, failed>>
        PROVE  Goal
  <2>1. Shifts(p, "ended", {})
    BY <1>0, <1>end DEF Shifts
  <2> QED BY <2>1
<1>send. ASSUME NEW p \in Passes, NEW x \in Messages, NEW to \in {"opened", "asked"}, Send(p, x, to), UNCHANGED <<open, held>>,
                x.pass = p,
                \/ x.kind = "open" /\ x.docs = {doc[p]} /\ pc[p] = "opening"
                \/ x.kind = "ask" /\ x.docs = {doc[p]} /\ pc[p] = "asking"
         PROVE  Goal
  <2>1. pc[p] \notin {"ended", "closing", "idle"}
    BY <1>send
  <2>2. CASE ~failed /\ Outbox!Accept(x) /\ pc' = [pc EXCEPT ![p] = to] /\ UNCHANGED failed
    <3>1. Appends(x)
      BY <2>2 DEF Outbox!Accept, Appends, Outbox!Range, Range
    <3>2. Says(p, x)
      BY <1>send, <2>1, <3>1 DEF Says, Active
    <3>3. x.kind = "open" => x.docs \subseteq open[p]
      BY <1>send DEF OpenInv, Opened
    <3>4. Shifts(p, to, open[p])
      BY <1>0, <1>send, <2>1, <2>2, <3>2, <3>3 DEF Shifts
    <3> QED BY <3>4
  <2>3. CASE failed' /\ pc' = [pc EXCEPT ![p] = "finish"] /\ UNCHANGED outbox
    BY <1>quiet, <1>send, <2>1, <2>3 DEF outbox
  <2> QED BY <1>send, <2>2, <2>3 DEF Send, Fails
<1>close. ASSUME NEW p \in Passes, NEW s \in {"closing", "ended"}, pc' = [pc EXCEPT ![p] = s],
                 CloseDocuments(p), Active(p), UNCHANGED held
          PROVE  Goal
  <2>1. open' = [open EXCEPT ![p] = {}] /\ pc[p] \notin {"ended", "closing", "idle"}
    BY <1>close DEF CloseDocuments, Active
  <2>2. CASE ~failed /\ Outbox!Accept(CloseDocs(p, open[p])) /\ UNCHANGED failed
    <3> DEFINE x == CloseDocs(p, open[p])
    <3>1. Appends(x) /\ x \in Messages /\ x.pass = p /\ x.kind = "close" /\ x.docs = open[p]
      BY <1>0, <2>2, MessageFields DEF Outbox!Accept, Appends, Outbox!Range, Range
    <3> HIDE DEF x
    <3>2. Says(p, x)
      BY <1>close, <3>1 DEF Says
    <3>3. Shifts(p, s, {})
      BY <1>close, <2>1, <2>2, <3>1, <3>2 DEF Shifts
    <3> QED BY <3>3
  <2>3. CASE failed' /\ UNCHANGED outbox
    <3>1. Shifts(p, s, {})
      BY <1>close, <2>1, <2>3 DEF Shifts, outbox
    <3> QED BY <3>1
  <2> QED BY <1>close, <2>2, <2>3 DEF CloseDocuments
<1> HIDE DEF Goal
<1>1. ASSUME NEW p \in Passes, StartPass(p) PROVE Goal
  BY <1>1, <1>quiet DEF StartPass, Goes, outbox
<1>2. ASSUME NEW p \in Passes, NEW d \in Docs, Visit(p, d) PROVE Goal
  <2>1. CASE UNCHANGED open
    BY <1>2, <1>quiet, <2>1 DEF Visit, Goes, outbox
  <2>2. CASE d # Primary /\ Goes(p, "ready", "opening") /\ open' = [open EXCEPT ![p] = open[p] \cup {d}]
    <3>1. Shifts(p, "opening", open[p] \cup {d})
      BY <1>0, <1>2, <2>2 DEF Visit, Goes, Shifts, outbox
    <3> QED BY <3>1 DEF Goal
  <2> QED BY <1>2, <2>1, <2>2 DEF Visit
<1>3. ASSUME NEW p \in Passes, SendOpen(p) PROVE Goal
  <2>1. doc[p] \in Docs
    BY DEF PassTypes
  <2>2. Open(p, doc[p]) \in Messages /\ Open(p, doc[p]).pass = p
        /\ Open(p, doc[p]).kind = "open" /\ Open(p, doc[p]).docs = {doc[p]}
    BY <2>1, MessageFields
  <2> QED BY <1>3, <1>send, <2>2 DEF SendOpen
<1>4. ASSUME NEW p \in Passes, SendAsk(p) PROVE Goal
  <2>1. pc[p] = "asking" /\ Send(p, Ask(p, doc[p], asks[p] + 1), "asked") /\ UNCHANGED <<open, held>>
    BY <1>4 DEF SendAsk
  <2>2. doc[p] \in Docs /\ asks[p] + 1 \in 1 .. MaxAsks
    BY <2>1, DocsAssumption DEF PassTypes, AsksInv, DocsAssumption
  <2>3. /\ Ask(p, doc[p], asks[p] + 1) \in Messages /\ Ask(p, doc[p], asks[p] + 1).pass = p
        /\ Ask(p, doc[p], asks[p] + 1).kind = "ask" /\ Ask(p, doc[p], asks[p] + 1).docs = {doc[p]}
    BY <2>2, MessageFields
  <2> QED BY <1>send, <2>1, <2>3
<1>5. ASSUME NEW p \in Passes, OpenAcked(p) \/ AskAcked(p) PROVE Goal
  BY <1>5, <1>quiet DEF OpenAcked, AskAcked, Acked, Fails, outbox
<1>6. ASSUME NEW p \in Passes, Reply(p) \/ NoMoreCandidates(p) PROVE Goal
  BY <1>6, <1>quiet DEF Reply, NoMoreCandidates, Goes, Fails, outbox
<1>7. ASSUME NEW p \in Passes, CloseAll(p) PROVE Goal
  BY <1>7, <1>close DEF CloseAll, Goes, Ends, Active
<1>8. ASSUME NEW p \in Passes, NothingToClose(p) PROVE Goal
  BY <1>8, <1>end DEF NothingToClose, Ends, outbox
<1>9. ASSUME NEW p \in Passes, CloseAcked(p) PROVE Goal
  BY <1>9, <1>end DEF CloseAcked, Ends, outbox, PassInv
<1>10. ASSUME NEW p \in Passes, Cancel(p) PROVE Goal
  <2>1. pc[p] \notin {"idle", "ended"} /\ pc' = [pc EXCEPT ![p] = "ended"] /\ UNCHANGED held
    BY <1>10 DEF Cancel, Ends, Awaiting
  <2>2. CASE open[p] = {}
    BY <1>10, <1>end, <2>1, <2>2 DEF Cancel, outbox
  <2>3. CASE open[p] # {}
    <3>1. Active(p)
      BY <2>3 DEF PassInv, Active
    <3> QED BY <1>10, <1>close, <2>1, <2>3, <3>1 DEF Cancel
  <2> QED BY <2>2, <2>3
<1> QED BY ONLY PassNext, <1>1, <1>2, <1>3, <1>4, <1>5, <1>6, <1>7, <1>8, <1>9, <1>10 DEF PassNext, Goal

\* A step of the server leaves the passes and the messages as they are.
LEMMA ServerKeeps ==
  ASSUME ServerNext \/ Finished \/ UNCHANGED vars
  PROVE  UNCHANGED <<accepted, passes>> /\ (failed => failed')
<1>1. ASSUME NEW i \in DOMAIN accepted, ServerReads(i) \/ WriterTells(i) PROVE UNCHANGED <<accepted, failed, passes>>
  BY <1>1 DEF ServerReads, WriterTells, Outbox!Deliver, Outbox!Confirm, Outbox!Refuse, Outbox!Tell
<1>2. ASSUME WriteFails \/ WriterEnds PROVE UNCHANGED <<accepted, passes>> /\ (failed => failed')
  BY <1>2 DEF WriteFails, WriterEnds, Outbox!Fail, Outbox!Close
<1> QED BY <1>1, <1>2 DEF ServerNext, Finished, vars, outbox

LEMMA PassInvStep ==
  ASSUME PassTypes, AsksInv, OP!OutboxInv, PassInv, ClosesFollow, OpenInv, [Next]_vars
  PROVE  PassInv' /\ ClosesFollow'
<1>1. CASE PassNext
  BY <1>1, PassShifts, ShiftKeeps
<1>2. CASE ServerNext \/ Finished \/ UNCHANGED vars
  BY <1>2, ServerKeeps DEF passes, PassInv, Active, ClosesFollow, Opens, Closes
<1> QED BY <1>1, <1>2 DEF Next

\* Messages stay accepted, and those acknowledged stay so.
LEMMA LogKeeps ==
  ASSUME OP!OutboxInv, [OP!OutboxNext]_(OP!outbox)
  PROVE  /\ \A i \in DOMAIN accepted :
              /\ i \in DOMAIN accepted' /\ accepted'[i] = accepted[i]
              /\ ack[accepted[i]] = "ok" => ack'[accepted[i]] = "ok"
         /\ Range(accepted) \subseteq Range(accepted')
<1>1. accepted \in Seq(Messages) /\ ack \in [Messages -> {"none", "ok", "err", "dropped"}]
      /\ \A i \in DOMAIN accepted : accepted[i] \in Messages
  BY OutboxFacts DEF OP!OutboxInv, OP!OutboxTypeOK
<1> DEFINE Kept == \A i \in DOMAIN accepted :
                     /\ i \in DOMAIN accepted' /\ accepted'[i] = accepted[i]
                     /\ ack[accepted[i]] = "ok" => ack'[accepted[i]] = "ok"
<1>2. ASSUME NEW x \in Messages, OP!Accept(x) PROVE Kept
  <2>1. accepted' = Append(accepted, x) /\ UNCHANGED ack
    BY <1>2 DEF OP!Accept
  <2>2. \A i \in DOMAIN accepted : i \in DOMAIN accepted' /\ accepted'[i] = accepted[i]
    BY <1>1, <2>1
  <2> QED BY <2>1, <2>2
<1>3. ASSUME NEW i \in DOMAIN accepted, OP!Deliver(i) PROVE Kept
  BY <1>3 DEF OP!Deliver
<1>4. ASSUME NEW i \in DOMAIN accepted, OP!Confirm(i) \/ OP!Refuse(i) PROVE Kept
  <2>1. ack[accepted[i]] = "none" /\ UNCHANGED accepted
        /\ \E a \in {"ok", "err"} : ack' = [ack EXCEPT ![accepted[i]] = a]
    BY <1>4 DEF OP!Confirm, OP!Refuse, OP!Tell, OP!Turn
  <2> QED BY <1>1, <2>1
<1>5. ASSUME OP!Close PROVE Kept
  <2>1. UNCHANGED accepted /\ \A x \in Messages : ack[x] = "ok" => ack'[x] = "ok"
    BY <1>5 DEF OP!Close
  <2> QED BY <1>1, <2>1
<1>6. ASSUME OP!Fail \/ UNCHANGED OP!outbox PROVE Kept
  BY <1>6 DEF OP!Fail, OP!outbox
<1>7. Kept
  BY <1>2, <1>3, <1>4, <1>5, <1>6 DEF OP!OutboxNext
<1> QED BY <1>7 DEF Range

\* Where the passes stand, after a step.
LEMMA OpenInvStep ==
  ASSUME PassTypes, AsksInv, OP!OutboxInv, PassInv, OpenInv, AskedInv, [Next]_vars
  PROVE  OpenInv' /\ AskedInv'
<1>0. /\ \A i \in DOMAIN accepted :
           /\ i \in DOMAIN accepted' /\ accepted'[i] = accepted[i]
           /\ ack[accepted[i]] = "ok" => ack'[accepted[i]] = "ok"
      /\ Range(accepted) \subseteq Range(accepted')
  BY StepForms, LogKeeps
<1>still. ASSUME NEW q \in Passes, pc'[q] = pc[q], open'[q] = open[q], doc'[q] = doc[q], asks'[q] = asks[q], outcome'[q] = outcome[q]
          PROVE  Opened(q)' /\ (pc'[q] = "idle" => asks'[q] = 0) /\ Answered(q)'
  <2>1. Opened(q)'
    <3>1. Opened(q)
      BY DEF OpenInv
    <3> QED BY <1>0, <1>still, <3>1 DEF Opened
  <2>2. Answered(q)'
    <3>1. Answered(q)
      BY DEF AskedInv
    <3>2. pc'[q] = pc[q] /\ asks'[q] = asks[q] /\ outcome'[q] = outcome[q]
      BY <1>still
    <3> QED BY ONLY <1>0, <3>1, <3>2 DEF Answered
  <2> QED BY <1>still, <2>1, <2>2 DEF AskedInv
<1> DEFINE Keeps(p) == Opened(p)' /\ (pc'[p] = "idle" => asks'[p] = 0) /\ Answered(p)'
<1>over. ASSUME NEW p \in Passes, pc'[p] \in {"finish", "closing", "ended"},
                outcome'[p] = "ok" => outcome[p] = "ok" \/ pc'[p] = "ended",
                outcome'[p] = "ok" /\ pc'[p] # "ended" => pc[p] # "asked" /\ pc[p] # "ended", UNCHANGED asks
         PROVE  Keeps(p)
  <2>1. Opened(p)'
    BY <1>over DEF Opened
  <2>2. Answered(p)'
    <3>1. Answered(p)
      BY DEF AskedInv
    <3> QED BY ONLY <1>0, <1>over, <3>1 DEF Answered
  <2> QED BY <1>over, <2>1, <2>2
<1> DEFINE Others(p) == \A q \in Passes \ {p} : pc'[q] = pc[q] /\ open'[q] = open[q] /\ doc'[q] = doc[q]
                                            /\ asks'[q] = asks[q] /\ outcome'[q] = outcome[q]
<1>pass. ASSUME NEW p \in Passes, Others(p), Keeps(p) PROVE OpenInv' /\ AskedInv'
  BY <1>pass, <1>still DEF OpenInv, AskedInv
<1> HIDE DEF Keeps, Others
<1>t. /\ pc \in [Passes -> Awaiting \cup {"idle", "ready", "finish", "ended"}] /\ open \in [Passes -> SUBSET Provided]
      /\ doc \in [Passes -> Docs] /\ asks \in [Passes -> 0 .. MaxAsks]
      /\ outcome \in [Passes -> {"none", "ok", "error", "cancelled"}]
  BY DEF PassTypes
<1>1. ASSUME NEW p \in Passes, StartPass(p) PROVE OpenInv' /\ AskedInv'
  <2>1. pc[p] = "idle" /\ pc' = [pc EXCEPT ![p] = "ready"] /\ outcome' = [outcome EXCEPT ![p] = "ok"]
        /\ UNCHANGED <<open, doc, asks>>
    BY <1>1 DEF StartPass, Goes
  <2>2. open[p] = {} /\ asks[p] = 0
    BY <2>1 DEF PassInv, AskedInv
  <2>3. Others(p)
    BY <1>t, <2>1 DEF Others
  <2>4. Opened(p)'
    BY <1>t, <2>1, <2>2 DEF Opened
  <2>5. Answered(p)'
    BY <2>1, <2>2 DEF Answered
  <2> QED BY <1>pass, <2>1, <2>2, <2>3, <2>4, <2>5 DEF Keeps
<1>2. ASSUME NEW p \in Passes, NEW d \in Docs, Visit(p, d) PROVE OpenInv' /\ AskedInv'
  <2>1. /\ pc[p] = "ready" /\ doc' = [doc EXCEPT ![p] = d] /\ UNCHANGED <<accepted, ack, asks, outcome>>
        /\ \/ d \in open[p] \cup {Primary} /\ pc' = [pc EXCEPT ![p] = "asking"] /\ UNCHANGED open
           \/ pc' = [pc EXCEPT ![p] = "opening"] /\ open' = [open EXCEPT ![p] = open[p] \cup {d}]
    BY <1>2 DEF Visit, Goes, outbox
  <2>2. Others(p)
    BY <1>t, <2>1 DEF Others
  <2>3. \A e \in open[p] : Open(p, e) \in Range(accepted)
    BY <2>1 DEF OpenInv, Opened
  <2>4. Opened(p)'
    BY <1>t, <2>1, <2>3 DEF Opened
  <2>5. Answered(p)
    BY DEF AskedInv
  <2>6. pc'[p] # "idle" /\ Answered(p)'
    BY <1>t, <2>1, <2>5 DEF Answered
  <2> QED BY <1>pass, <2>2, <2>4, <2>6 DEF Keeps
<1>send. ASSUME NEW p \in Passes, NEW x, NEW to, Send(p, x, to)
         PROVE  \/ /\ x \in Range(accepted') /\ pc' = [pc EXCEPT ![p] = to] /\ UNCHANGED <<ack, outcome>>
                \/ pc' = [pc EXCEPT ![p] = "finish"] /\ outcome' = [outcome EXCEPT ![p] = "error"]
  <2>1. CASE Outbox!Accept(x) /\ pc' = [pc EXCEPT ![p] = to] /\ UNCHANGED outcome
    <3>1. accepted \in Seq(Messages) /\ accepted' = Append(accepted, x) /\ UNCHANGED ack
      BY <2>1, OutboxFacts DEF Outbox!Accept
    <3>2. Len(accepted) + 1 \in DOMAIN accepted' /\ accepted'[Len(accepted) + 1] = x
      BY <3>1
    <3> QED BY <2>1, <3>1, <3>2 DEF Range
  <2>2. CASE Fails(p)
    BY <2>2 DEF Fails
  <2> QED BY <1>send, <2>1, <2>2 DEF Send
<1>3. ASSUME NEW p \in Passes, SendOpen(p) PROVE OpenInv' /\ AskedInv'
  <2>1. pc[p] = "opening" /\ UNCHANGED <<open, doc, asks>>
    BY <1>3 DEF SendOpen
  <2>2. \/ /\ Open(p, doc[p]) \in Range(accepted') /\ pc' = [pc EXCEPT ![p] = "opened"] /\ UNCHANGED <<ack, outcome>>
        \/ pc' = [pc EXCEPT ![p] = "finish"] /\ outcome' = [outcome EXCEPT ![p] = "error"]
    BY <1>3, <1>send DEF SendOpen
  <2>3. Others(p) /\ pc'[p] # "idle"
    BY <1>t, <2>1, <2>2 DEF Others
  <2>4. Opened(p) /\ Answered(p)
    BY DEF OpenInv, AskedInv
  <2>5. Opened(p)'
    BY <1>0, <1>t, <2>1, <2>2, <2>4 DEF Opened
  <2>6. Answered(p)'
    BY <1>0, <1>t, <2>1, <2>2, <2>4 DEF Answered
  <2> QED BY <1>pass, <2>3, <2>5, <2>6 DEF Keeps
<1>4. ASSUME NEW p \in Passes, SendAsk(p) PROVE OpenInv' /\ AskedInv'
  <2>1. pc[p] = "asking" /\ UNCHANGED <<open, doc>> /\ asks' = [asks EXCEPT ![p] = asks[p] + 1]
    BY <1>4 DEF SendAsk
  <2>2. \/ pc' = [pc EXCEPT ![p] = "asked"] /\ UNCHANGED outcome
        \/ pc' = [pc EXCEPT ![p] = "finish"] /\ outcome' = [outcome EXCEPT ![p] = "error"]
    BY <1>4, <1>send DEF SendAsk
  <2>3. Others(p) /\ pc'[p] # "idle"
    BY <1>t, <2>1, <2>2 DEF Others
  <2>4. Opened(p)
    BY DEF OpenInv
  <2>5. Opened(p)'
    BY <1>0, <1>t, <2>1, <2>2, <2>4 DEF Opened
  <2>6. Answered(p)'
    BY <1>t, <2>2 DEF Answered
  <2> QED BY <1>pass, <2>3, <2>5, <2>6 DEF Keeps
<1>5. ASSUME NEW p \in Passes, OpenAcked(p) PROVE OpenInv' /\ AskedInv'
  <2>1. pc[p] = "opened" /\ UNCHANGED <<accepted, ack, open, doc, asks>>
        /\ \/ pc' = [pc EXCEPT ![p] = "asking"] /\ UNCHANGED outcome
           \/ pc' = [pc EXCEPT ![p] = "finish"] /\ outcome' = [outcome EXCEPT ![p] = "error"]
    BY <1>5 DEF OpenAcked, Acked, Fails, outbox
  <2>2. Others(p) /\ pc'[p] # "idle"
    BY <1>t, <2>1 DEF Others
  <2>3. Opened(p) /\ Answered(p)
    BY DEF OpenInv, AskedInv
  <2>4. Opened(p)'
    BY <1>t, <2>1, <2>3 DEF Opened
  <2>5. Answered(p)'
    BY <1>t, <2>1, <2>3 DEF Answered
  <2> QED BY <1>pass, <2>2, <2>4, <2>5 DEF Keeps
<1>6. ASSUME NEW p \in Passes, AskAcked(p) PROVE OpenInv' /\ AskedInv'
  <2> DEFINE x == Ask(p, doc[p], asks[p])
  <2>1. pc[p] = "asked" /\ UNCHANGED <<accepted, ack, open, doc, asks>>
        /\ \/ ack[x] = "ok" /\ pc' = [pc EXCEPT ![p] = "reply"] /\ UNCHANGED outcome
           \/ pc' = [pc EXCEPT ![p] = "finish"] /\ outcome' = [outcome EXCEPT ![p] = "error"]
    BY <1>6 DEF AskAcked, Acked, Fails, outbox
  <2>2. Others(p) /\ pc'[p] # "idle"
    BY <1>t, <2>1 DEF Others
  <2>3. Opened(p)
    BY DEF OpenInv
  <2>4. Opened(p)'
    BY <1>t, <2>1, <2>3 DEF Opened
  <2>5. ASSUME outcome'[p] = "ok", asks[p] > 0
        PROVE  \E j \in DOMAIN accepted : accepted[j].pass = p /\ ack[accepted[j]] = "ok"
    <3>1. ack[x] = "ok"
      BY <1>t, <2>1, <2>5
    <3>2. doc[p] \in Docs /\ asks[p] \in 1 .. MaxAsks
      BY <1>t, <2>5
    <3>3. x \in Messages /\ x.pass = p
      BY <3>2, MessageFields
    <3>4. x \in Range(accepted)
      BY <3>1, <3>3, OutboxFacts
    <3> QED BY <3>1, <3>3, <3>4 DEF Range
  <2>6. Answered(p)'
    BY <2>1, <2>5 DEF Answered
  <2> QED BY <1>pass, <2>2, <2>4, <2>6 DEF Keeps
<1>7. ASSUME NEW p \in Passes, Reply(p) PROVE OpenInv' /\ AskedInv'
  <2>1. pc[p] = "reply" /\ UNCHANGED <<accepted, ack, open, doc, asks>>
        /\ \/ pc' = [pc EXCEPT ![p] = "ready"] /\ UNCHANGED outcome
           \/ pc' = [pc EXCEPT ![p] = "finish"] /\ outcome' = [outcome EXCEPT ![p] = "error"]
    BY <1>7 DEF Reply, Goes, Fails, outbox
  <2>2. Others(p) /\ pc'[p] # "idle"
    BY <1>t, <2>1 DEF Others
  <2>3. Opened(p) /\ Answered(p)
    BY DEF OpenInv, AskedInv
  <2>4. Opened(p)'
    BY <1>t, <2>1, <2>3 DEF Opened
  <2>5. Answered(p)'
    BY <1>t, <2>1, <2>3 DEF Answered
  <2> QED BY <1>pass, <2>2, <2>4, <2>5 DEF Keeps
<1>8. ASSUME NEW p \in Passes,
             NoMoreCandidates(p) \/ CloseAll(p) \/ NothingToClose(p) \/ CloseAcked(p) \/ Cancel(p)
      PROVE  OpenInv' /\ AskedInv'
  <2>1. /\ pc[p] \notin {"idle", "ended"} /\ UNCHANGED <<doc, asks>>
        /\ \/ \E s \in {"finish", "closing"} : pc' = [pc EXCEPT ![p] = s] /\ UNCHANGED outcome /\ pc[p] # "asked"
           \/ \E r \in {"ok", "error", "none", "cancelled"} :
                pc' = [pc EXCEPT ![p] = "ended"] /\ outcome' = [outcome EXCEPT ![p] = r]
    BY <1>8, <1>t DEF NoMoreCandidates, CloseAll, NothingToClose, CloseAcked, Cancel, Goes, Ends, Awaiting
  <2>2. UNCHANGED open \/ open' = [open EXCEPT ![p] = {}]
    BY <1>8 DEF NoMoreCandidates, CloseAll, NothingToClose, CloseAcked, Cancel, CloseDocuments
  <2>3. Others(p)
    BY <1>t, <2>1, <2>2 DEF Others
  <2>4. /\ pc'[p] \in {"finish", "closing", "ended"}
        /\ outcome'[p] = "ok" => outcome[p] = "ok" \/ pc'[p] = "ended"
        /\ outcome'[p] = "ok" /\ pc'[p] # "ended" => pc[p] # "asked" /\ pc[p] # "ended"
    BY <1>t, <2>1
  <2>5. Keeps(p)
    BY <1>over, <2>1, <2>4
  <2> QED BY <1>pass, <2>3, <2>5
<1>9. CASE ServerNext \/ Finished \/ UNCHANGED vars
  BY <1>9, <1>still, ServerKeeps DEF passes, OpenInv, AskedInv
<1> QED BY ONLY [Next]_vars, <1>1, <1>2, <1>3, <1>4, <1>5, <1>6, <1>7, <1>8, <1>9 DEF Next, PassNext

-----------------------------------------------------------------------------
(* The invariant, and what follows from it. *)

LEMMA OneDelivery == OP!Sizes
  BY DEF OP!Sizes

LEMMA DocsInvInit == Init => DocsInv
<1> SUFFICES ASSUME Init PROVE DocsInv
  OBVIOUS
<1>1. OP!OutboxInv
  BY SameOutbox, OP!OutboxInvInit DEF Init
<1>2. accepted = <<>> /\ DOMAIN accepted = {}
  BY DEF Init, Outbox!OutboxInit
<1>3. PassTypes /\ AsksInv
  <2>1. 0 \in 0 .. MaxAsks /\ Primary \in Docs
    BY DocsAssumption DEF DocsAssumption
  <2>2. pc \in [Passes -> {"idle"}] /\ open \in [Passes -> SUBSET Provided] /\ doc \in [Passes -> Docs]
        /\ asks \in [Passes -> 0 .. MaxAsks] /\ outcome \in [Passes -> {"none"}]
    BY <2>1 DEF Init
  <2> QED BY <2>2 DEF Init, PassTypes, AsksInv
<1>4. LogInv
  BY <1>2 DEF LogInv, InPassOrder, PrimaryIsTheCallers, ClosedInTime, OpenedInTime
<1>5. PassInv
  BY <1>2 DEF Init, PassInv
<1>6. ClosesFollow /\ OpenInv /\ AskedInv
  BY <1>2 DEF Init, ClosesFollow, OpenInv, Opened, AskedInv, Answered
<1>7. HeldInv
  BY <1>2 DEF Init, HeldInv
<1> QED BY <1>1, <1>3, <1>4, <1>5, <1>6, <1>7 DEF DocsInv

LEMMA DocsInvStep == DocsInv /\ [Next]_vars => DocsInv'
<1> SUFFICES ASSUME DocsInv, [Next]_vars PROVE DocsInv'
  OBVIOUS
<1> USE DEF DocsInv
<1>1. OP!OutboxInv'
  BY StepForms, OneDelivery, OP!OutboxInvStep
<1>2. PassTypes' /\ AsksInv'
  BY PassTypesStep
<1>3. LogInv'
  BY LogStep
<1>4. PassInv' /\ ClosesFollow'
  BY PassInvStep
<1>5. OpenInv' /\ AskedInv'
  BY OpenInvStep
<1>6. HeldInv'
  BY HeldStep
<1> QED BY <1>1, <1>2, <1>3, <1>4, <1>5, <1>6

LEMMA DocsInvHolds == Spec => []DocsInv
  BY DocsInvInit, DocsInvStep, PTL DEF Spec

\* The passes, the outbox and the server's documents have their types.
THEOREM TypeCorrect == Spec => []TypeOK
<1>1. DocsInv => TypeOK
  <2> SUFFICES ASSUME DocsInv PROVE TypeOK
    OBVIOUS
  <2>1. Outbox!OutboxTypeOK
    BY DEF DocsInv, OP!OutboxInv, OP!OutboxTypeOK, Outbox!OutboxTypeOK
  <2>2. held \subseteq Docs
    BY DocsAssumption DEF DocsAssumption, DocsInv, HeldInv
  <2> QED BY <2>1, <2>2 DEF DocsInv, PassTypes, TypeOK
<1> QED BY <1>1, DocsInvHolds, PTL

\* When the passes are over and everything queued was written, nothing they
\* opened is left open, whoever was dropped where.
NothingLeaks ==
  (\A p \in Passes : pc[p] \in {"idle", "ended"}) /\ (\A x \in Range(accepted) : ack[x] = "ok")
    /\ ~failed => held = {Primary}

\* What every pass opened is closed after it in the order of messages, so it is
\* closed at the end (close_all and Drop, enrichment.rs:664, 676).
THEOREM NothingLeaksHolds == Spec => []NothingLeaks
<1>1. DocsInv => NothingLeaks
  <2> SUFFICES ASSUME DocsInv, \A p \in Passes : pc[p] \in {"idle", "ended"}, ~failed,
                      \A x \in Range(accepted) : ack[x] = "ok"
               PROVE  held = {Primary}
    BY DEF NothingLeaks
  <2>1. \A i \in DOMAIN accepted : accepted[i].pass \in Passes /\ Delivered(i)
    BY OutboxFacts, MessageFields DEF DocsInv
  <2>2. \A i \in DOMAIN accepted : open[accepted[i].pass] = {}
    BY <2>1 DEF DocsInv, PassInv
  <2> QED BY <2>1, <2>2 DEF DocsInv, ClosesFollow, HeldInv
<1> QED BY <1>1, DocsInvHolds, PTL

\* What it takes for a message to arrive.
LEMMA Arrival ==
  ASSUME DocsInv, [Next]_vars, NEW x \in Messages, Arrives(x)
  PROVE  \E i \in DOMAIN accepted :
           /\ accepted[i] = x /\ ~Delivered(i)
           /\ \A j \in DOMAIN accepted : Delivered(j) <=> j < i
<1>1. PICK i \in DOMAIN accepted : ServerReads(i)
  BY StepForms DEF DocsInv, Arrives, Says, Appends
<1>2. /\ accepted[i] \in Messages /\ written \in [Messages -> Nat] /\ i \in Nat /\ DOMAIN accepted \subseteq Nat
      /\ DOMAIN accepted = 1 .. Len(accepted) /\ Len(accepted) \in Nat
  BY OutboxFacts DEF DocsInv
<1>3. /\ written' = [written EXCEPT ![accepted[i]] = written[accepted[i]] + 1] /\ written[accepted[i]] < 1
      /\ ack[accepted[i]] = "none" /\ \A j \in 1 .. (i - 1) : ack[accepted[j]] = "ok"
  BY <1>1, <1>2 DEF ServerReads, Outbox!Deliver, Outbox!Turn
<1>4. accepted[i] = x
  BY <1>2, <1>3 DEF Arrives
<1>5. ~Delivered(i)
  BY <1>2, <1>3 DEF Delivered
<1>6. \A j \in DOMAIN accepted : j < i => Delivered(j)
  <2>1. \A j \in DOMAIN accepted : j < i => j \in 1 .. (i - 1)
    BY <1>2
  <2> QED BY <1>3, <2>1, OutboxFacts DEF DocsInv
<1>7. \A j \in DOMAIN accepted : i < j => ~Delivered(j)
  BY <1>3, OutboxFacts DEF DocsInv
<1>8. \A j \in DOMAIN accepted : j < i \/ j = i \/ i < j
  BY <1>2
<1>9. \A j \in DOMAIN accepted : Delivered(j) <=> j < i
  <2> SUFFICES ASSUME NEW j \in DOMAIN accepted PROVE Delivered(j) <=> j < i
    OBVIOUS
  <2>1. j \in Nat /\ i \in Nat
    BY <1>2
  <2>2. CASE i < j
    BY <1>7, <2>1, <2>2
  <2>3. CASE j = i
    BY <1>5, <2>1, <2>3
  <2> QED BY <1>6, <1>8, <2>2, <2>3
<1> QED BY <1>4, <1>5, <1>9

\* A query about a candidate finds its document open (QueriesFindDocuments).
THEOREM QueriesFindDocumentsHolds == Spec => QueriesFindDocuments
<1>1. DocsInv /\ [Next]_vars =>
        [\A x \in Messages : Arrives(x) /\ x.kind = "ask" => x.docs \subseteq held]_vars
  <2> SUFFICES ASSUME DocsInv, [Next]_vars, NEW x \in Messages, Arrives(x), x.kind = "ask", NEW d \in x.docs
               PROVE  d \in held
    OBVIOUS
  <2>1. PICK j \in DOMAIN accepted : accepted[j] = x /\ \A k \in DOMAIN accepted : Delivered(k) <=> k < j
    BY Arrival
  <2>2. d \in Docs
    BY MessageFields
  <2>3. CASE d = Primary
    BY <2>3 DEF DocsInv, HeldInv
  <2>4. CASE d # Primary
    <3>1. PICK i \in DOMAIN accepted : i < j /\ Opens(i, d) /\ \A k \in DOMAIN accepted : i < k /\ k < j => ~Closes(k, d)
      BY <2>1, <2>4 DEF DocsInv, LogInv, OpenedInTime
    <3> QED BY <2>1, <2>2, <3>1 DEF DocsInv, HeldInv
  <2> QED BY <2>3, <2>4
<1> QED BY <1>1, DocsInvHolds, PTL DEF Spec, QueriesFindDocuments

\* A document that is open is never opened again (NeverReopened).
THEOREM NeverReopenedHolds == Spec => NeverReopened
<1>1. DocsInv /\ [Next]_vars =>
        [\A x \in Messages : Arrives(x) /\ x.kind = "open" => x.docs \cap held = {}]_vars
  <2> SUFFICES ASSUME DocsInv, [Next]_vars, NEW x \in Messages, Arrives(x), x.kind = "open", NEW d \in x.docs, d \in held
               PROVE  FALSE
    OBVIOUS
  <2>1. PICK j \in DOMAIN accepted : accepted[j] = x /\ \A k \in DOMAIN accepted : Delivered(k) <=> k < j
    BY Arrival
  <2>2. d \in Docs /\ d # Primary
    BY <2>1, MessageFields DEF DocsInv, LogInv, PrimaryIsTheCallers
  <2>3. PICK i \in DOMAIN accepted : /\ Opens(i, d) /\ Delivered(i)
                                    /\ \A k \in DOMAIN accepted : i < k /\ Delivered(k) => ~Closes(k, d)
    BY <2>2 DEF DocsInv, HeldInv
  <2>4. i < j /\ i \in Nat /\ j \in Nat /\ accepted[i] # accepted[j]
    <3>1. i < j
      BY <2>1, <2>3
    <3>2. i \in Nat /\ j \in Nat
      BY OutboxFacts DEF DocsInv
    <3> QED BY <3>1, <3>2, OutboxFacts DEF DocsInv
  <2>5. accepted[i].pass < accepted[j].pass
    <3>1. accepted[i].pass <= accepted[j].pass /\ accepted[i].pass \in Int /\ accepted[j].pass \in Int
      <4>1. accepted[i].pass \in Passes /\ accepted[j].pass \in Passes
        BY OutboxFacts, MessageFields DEF DocsInv
      <4> QED BY <2>4, <4>1 DEF DocsInv, LogInv, InPassOrder, Passes
    <3>2. accepted[i].pass # accepted[j].pass
      <4>1. accepted[i] \in Messages /\ accepted[i].kind = "open" /\ d \in accepted[i].docs
        BY <2>3, OutboxFacts DEF DocsInv, Opens
      <4>2. \A m \in Messages : m.kind = "open" /\ d \in m.docs => m = Open(m.pass, d)
        <5> SUFFICES ASSUME NEW m \in Messages, m.kind = "open", d \in m.docs PROVE m = Open(m.pass, d)
          OBVIOUS
        <5>1. PICK p \in Passes, e \in Docs : m = Open(p, e)
          BY DEF Messages, Ask, CloseDocs
        <5> QED BY <5>1, MessageFields
      <4> QED BY <2>1, <2>4, <4>1, <4>2
    <3> QED BY ONLY <3>1, <3>2
  <2>6. PICK k \in DOMAIN accepted : i < k /\ k <= j /\ Closes(k, d)
    BY <2>2, <2>3, <2>4, <2>5 DEF DocsInv, LogInv, ClosedInTime
  <2>7. k # j
    BY <2>1, <2>6 DEF Closes
  <2>8. k < j
    <3>1. k \in Nat
      BY OutboxFacts DEF DocsInv
    <3> QED BY <2>4, <2>6, <2>7, <3>1
  <2> QED BY <2>1, <2>3, <2>6, <2>8
<1> QED BY <1>1, DocsInvHolds, PTL DEF Spec, NeverReopened

\* A pass that asked and returns an answer leaves only the enriched file open
\* (AnswerLeavesNothing): it waited for its own closes, or for a query that
\* came after those of the passes before it.
THEOREM AnswerLeavesNothingHolds == Spec => AnswerLeavesNothing
<1>1. ASSUME DocsInv, NEW p \in Passes, pc[p] \notin {"idle", "ended"}, NEW j \in DOMAIN accepted,
             accepted[j].pass = p, ack[accepted[j]] = "ok", accepted[j].kind = "close" \/ (Active(p) /\ open[p] = {})
      PROVE  held = {Primary}
  <2>1. \A i \in DOMAIN accepted : accepted[i].pass \in Passes /\ i \in Nat
    BY <1>1, OutboxFacts, MessageFields DEF DocsInv
  <2>2. ASSUME NEW d \in Docs, NEW i \in DOMAIN accepted, Opens(i, d)
        PROVE  \E k \in DOMAIN accepted : i < k /\ k <= j /\ Closes(k, d)
    <3>1. accepted[i].pass \in Int /\ p \in Int /\ i \in Nat /\ j \in Nat
      BY <2>1 DEF Passes
    <3>2. ~(p < accepted[i].pass)
      BY <1>1, <2>1 DEF DocsInv, PassInv
    <3>3. accepted[i].pass = p => accepted[j].kind = "close"
      BY <1>1, <2>2 DEF DocsInv, PassInv, Opens
    <3>4. accepted[i].pass < p \/ (accepted[i].pass = p /\ accepted[j].kind = "close")
      BY <3>1, <3>2, <3>3
    <3>5. i # j
      BY <1>1, <2>2, <3>1, <3>4 DEF Opens
    <3>6. ~(j < i)
      <4>1. j < i => accepted[j].pass <= accepted[i].pass /\ (accepted[j].kind = "close" => accepted[j].pass < accepted[i].pass)
        BY <1>1 DEF DocsInv, LogInv, InPassOrder
      <4> QED BY <1>1, <3>1, <3>4, <4>1
    <3>7. i < j
      BY <3>1, <3>5, <3>6
    <3> QED BY <1>1, <2>2, <3>4, <3>7 DEF DocsInv, LogInv, ClosedInTime
  <2>3. \A k \in DOMAIN accepted : k <= j => Delivered(k)
    <3> SUFFICES ASSUME NEW k \in DOMAIN accepted, k <= j PROVE Delivered(k)
      OBVIOUS
    <3>1. k < j \/ k = j
      BY <2>1
    <3> QED BY <1>1, <3>1, OutboxFacts DEF DocsInv
  <2> QED BY <1>1, <2>2, <2>3 DEF DocsInv, HeldInv
<1>2. DocsInv /\ [Next]_vars =>
        [\A p \in Passes :
           pc[p] # "ended" /\ pc'[p] = "ended" /\ outcome'[p] = "ok" /\ asks[p] > 0 => held' = {Primary}]_vars
  <2> SUFFICES ASSUME DocsInv, [Next]_vars, NEW p \in Passes, pc[p] # "ended", pc'[p] = "ended", outcome'[p] = "ok", asks[p] > 0
               PROVE  held' = {Primary}
    OBVIOUS
  <2>t. /\ pc \in [Passes -> Awaiting \cup {"idle", "ready", "finish", "ended"}]
        /\ outcome \in [Passes -> {"none", "ok", "error", "cancelled"}]
    BY DEF DocsInv, PassTypes
  <2>0. ~(\E q \in Passes : \/ StartPass(q) \/ SendOpen(q) \/ OpenAcked(q) \/ SendAsk(q) \/ AskAcked(q) \/ Reply(q)
                            \/ NoMoreCandidates(q) \/ CloseAll(q) \/ Cancel(q) \/ \E d \in Docs : Visit(q, d))
    <3>1. ASSUME NEW q \in Passes, NEW s, s # "ended", pc' = [pc EXCEPT ![q] = s] PROVE FALSE
      BY <2>t, <3>1
    <3>2. ASSUME NEW q \in Passes, NEW r, r # "ok", Ends(q, r) PROVE FALSE
      BY <2>t, <3>2 DEF Ends
    <3>3. ASSUME NEW q \in Passes, NEW x, NEW to \in {"opened", "asked"}, Send(q, x, to) PROVE FALSE
      BY <3>1, <3>3 DEF Send, Fails
    <3>4. ASSUME NEW q \in Passes, NEW x, NEW to \in {"asking", "reply"}, Acked(q, x, to) PROVE FALSE
      BY <3>1, <3>4 DEF Acked, Fails
    <3>5. \A q \in Passes : ~SendOpen(q) /\ ~SendAsk(q)
      BY <3>3 DEF SendOpen, SendAsk
    <3>6. \A q \in Passes : ~OpenAcked(q) /\ ~AskAcked(q)
      BY <3>4 DEF OpenAcked, AskAcked
    <3>7. \A q \in Passes : ~StartPass(q) /\ ~Reply(q) /\ ~NoMoreCandidates(q) /\ \A d \in Docs : ~Visit(q, d)
      BY <3>1 DEF StartPass, Reply, NoMoreCandidates, Visit, Goes, Fails
    <3>8. \A q \in Passes : ~CloseAll(q) /\ ~Cancel(q)
      BY <3>1, <3>2 DEF CloseAll, Cancel, Goes
    <3> QED BY <3>5, <3>6, <3>7, <3>8
  <2>1. ~(ServerNext \/ Finished \/ UNCHANGED vars)
    BY ServerKeeps DEF passes
  <2>2. PICK q \in Passes : NothingToClose(q) \/ CloseAcked(q)
    BY <2>0, <2>1 DEF Next, PassNext
  <2>3. q = p /\ UNCHANGED held
    BY <2>2, <2>t DEF NothingToClose, CloseAcked, Ends
  <2>4. CASE NothingToClose(p)
    <3>1. pc[p] = "finish" /\ open[p] = {} /\ outcome[p] = "ok"
      BY <2>4, <2>t DEF NothingToClose, Ends
    <3>2. \E j \in DOMAIN accepted : accepted[j].pass = p /\ ack[accepted[j]] = "ok"
      BY <3>1 DEF DocsInv, AskedInv, Answered
    <3> QED BY <1>1, <2>3, <3>1, <3>2 DEF Active
  <2>5. CASE CloseAcked(p)
    <3>1. pc[p] = "closing"
      BY <2>5 DEF CloseAcked
    <3>2. PICK x \in Range(accepted) :
            x.pass = p /\ x.kind = "close" /\ Ends(p, IF ack[x] = "ok" THEN outcome[p] ELSE "error")
      BY <2>5 DEF CloseAcked
    <3>3. ack[x] = "ok"
      BY <3>2, <2>t DEF Ends
    <3>4. \E j \in DOMAIN accepted : accepted[j] = x
      BY DEF Range
    <3> QED BY <1>1, <2>3, <3>1, <3>2, <3>3, <3>4
  <2> QED BY <2>2, <2>3, <2>4, <2>5
<1> QED BY <1>2, DocsInvHolds, PTL DEF Spec, AnswerLeavesNothing

-----------------------------------------------------------------------------
(* The outbox the passes share. *)

\* The outbox the passes share keeps the promises of the abstract one.
THEOREM PassesShareAnOutbox == Spec => Outbox!OutboxSpec
<1>1. Init => Outbox!OutboxInit
  BY DEF Init
<1>2. DocsInv /\ [Next]_vars => [Outbox!OutboxNext]_(Outbox!outbox)
  <2>1. OP!outbox = Outbox!outbox
    BY DEF OP!outbox, Outbox!outbox
  <2> QED BY <2>1, StepForms, SameOutbox DEF DocsInv, OP!outbox, Outbox!outbox
<1> QED BY <1>1, <1>2, DocsInvHolds, PTL DEF Spec, Outbox!OutboxSpec

\* What the theorems about the outbox say of it.
LEMMA SharedOutbox == Spec => []OP!ToldInv /\ []OP!NobodyIsForgotten
<1>1. OP!OutboxSpec => []OP!ToldInv
  BY OneDelivery, OP!ToldInvHolds
<1>2. OP!OutboxSpec => []OP!NobodyIsForgotten
  BY OneDelivery, OP!NobodyIsForgottenHolds
<1>3. Outbox!OutboxInit /\ [][Outbox!OutboxNext]_(Outbox!outbox) => OP!OutboxSpec
  <2>1. [Outbox!OutboxNext]_(Outbox!outbox) => [OP!OutboxNext]_(OP!outbox)
    BY SameOutbox DEF OP!outbox, Outbox!outbox
  <2> QED BY <2>1, SameOutbox, PTL DEF OP!OutboxSpec
<1> QED BY <1>1, <1>2, <1>3, PassesShareAnOutbox, PTL DEF Outbox!OutboxSpec

-----------------------------------------------------------------------------
(* What is owed: the safety half of DocumentsAreClosed.                      *)

\* Whatever a pass opened is accounted for, wherever passes are dropped: a pass
\* still has it, or its close was accepted and not delivered yet.
THEOREM CloseIsOwedHolds == Spec => []CloseIsOwed
<1>1. DocsInv /\ OP!ToldInv => CloseIsOwed
  <2> SUFFICES ASSUME DocsInv, OP!ToldInv, ~failed, NEW d \in held \ {Primary}
               PROVE  \/ \E p \in Passes : pc[p] # "ended" /\ d \in open[p]
                      \/ \E x \in Range(accepted) : x.kind = "close" /\ d \in x.docs /\ written[x] = 0
    BY DEF CloseIsOwed
  <2>1. d \in Docs
    BY DEF DocsInv, HeldInv
  <2>2. PICK i \in DOMAIN accepted : /\ Opens(i, d)
                                    /\ \A k \in DOMAIN accepted : i < k /\ Delivered(k) => ~Closes(k, d)
    BY DEF DocsInv, HeldInv
  <2>3. accepted[i].pass \in Passes
    BY OutboxFacts, MessageFields DEF DocsInv
  <2>4. CASE d \in open[accepted[i].pass]
    <3>1. Active(accepted[i].pass)
      BY <2>3, <2>4 DEF DocsInv, PassInv, Active
    <3> QED BY <2>3, <2>4, <3>1 DEF Active
  <2>5. CASE \E k \in DOMAIN accepted : i < k /\ Closes(k, d)
    <3>1. PICK k \in DOMAIN accepted : i < k /\ Closes(k, d)
      BY <2>5
    <3>2. ~Delivered(k)
      BY <2>2, <3>1
    <3>3. written[accepted[k]] = 0 /\ accepted[k] \in Range(accepted)
      <4>1. accepted[k] \in Messages /\ accepted[k] \in Range(accepted) /\ written[accepted[k]] \in Nat
        BY <3>1, OutboxFacts DEF DocsInv
      <4>2. written[accepted[k]] <= 1
        BY <4>1 DEF OP!ToldInv
      <4> QED BY <3>2, <4>1, <4>2 DEF Delivered
    <3> QED BY <3>1, <3>3 DEF Closes
  <2> QED BY <2>1, <2>2, <2>4, <2>5 DEF DocsInv, ClosesFollow
<1> QED BY <1>1, DocsInvHolds, SharedOutbox, PTL

-----------------------------------------------------------------------------
(* No pass waits for nothing. *)

\* What pass p waits for has happened, or it waits for nothing.
PassCanGoOn(p) ==
  \/ pc[p] \in {"ready", "reply", "finish"}
  \/ pc[p] \in {"opening", "asking"} /\ SlotFree
  \/ pc[p] = "opened" /\ ack[Open(p, doc[p])] # "none"
  \/ pc[p] = "asked" /\ ack[Ask(p, doc[p], asks[p])] # "none"
  \/ pc[p] = "closing" /\ \E x \in Range(accepted) : x.pass = p /\ x.kind = "close" /\ ack[x] # "none"

\* The writer task is to end, or it is the turn of a message, which the server
\* is to read or the writer task to acknowledge.
OutboxCanGoOn ==
  \/ failed /\ mode # "closed"
  \/ mode = "open" /\ \E i \in DOMAIN accepted : Outbox!Turn(i) /\ written[accepted[i]] <= 1

\* A pass that waits for its turn to send, or for the acknowledgment of what it
\* sent, waits for an outbox that can go on: never for a message that was not
\* accepted, was given up, or belongs to a pass that is gone.
PassesGoOn == \A p \in Passes : pc[p] \notin {"idle", "ended"} => PassCanGoOn(p) \/ OutboxCanGoOn

\* Who waits for an acknowledgment has a message that was accepted.
WaitsForItsOwn(p) ==
  /\ pc[p] = "asked" => Ask(p, doc[p], asks[p]) \in Range(accepted)
  /\ pc[p] = "closing" => \E x \in Range(accepted) : x.pass = p /\ x.kind = "close"

WaitInv ==
  /\ mode # "open" => failed
  /\ \A p \in Passes : WaitsForItsOwn(p)

LEMMA WaitInvStep == DocsInv /\ WaitInv /\ [Next]_vars => WaitInv'
<1> SUFFICES ASSUME DocsInv, WaitInv, [Next]_vars PROVE WaitInv'
  OBVIOUS
<1>0. /\ pc \in [Passes -> Awaiting \cup {"idle", "ready", "finish", "ended"}]
      /\ asks \in [Passes -> 0 .. MaxAsks] /\ doc \in [Passes -> Docs] /\ open \in [Passes -> SUBSET Provided]
      /\ accepted \in Seq(Messages)
  BY OutboxFacts DEF DocsInv, PassTypes
<1>a. Range(accepted) \subseteq Range(accepted')
  BY StepForms, LogKeeps DEF DocsInv
<1>m. ASSUME UNCHANGED mode, failed => failed' PROVE mode' # "open" => failed'
  BY <1>m DEF WaitInv
<1>still. ASSUME NEW q \in Passes, pc'[q] = pc[q], doc'[q] = doc[q], asks'[q] = asks[q] PROVE WaitsForItsOwn(q)'
  BY <1>a, <1>still DEF WaitInv, WaitsForItsOwn
<1>quiet. ASSUME NEW q \in Passes, pc'[q] \notin {"asked", "closing"} PROVE WaitsForItsOwn(q)'
  BY <1>quiet DEF WaitsForItsOwn
<1>in. ASSUME NEW x, Outbox!Accept(x) PROVE x \in Range(accepted') /\ UNCHANGED mode
  <2>1. accepted' = Append(accepted, x) /\ UNCHANGED mode
    BY <1>in DEF Outbox!Accept
  <2>2. Len(accepted) + 1 \in DOMAIN accepted' /\ accepted'[Len(accepted) + 1] = x
    BY <1>0, <2>1
  <2> QED BY <2>1, <2>2 DEF Range
<1>send. ASSUME NEW p \in Passes, NEW x, NEW to, Send(p, x, to)
         PROVE  /\ UNCHANGED mode /\ (failed => failed')
                /\ \/ x \in Range(accepted') /\ pc' = [pc EXCEPT ![p] = to]
                   \/ pc' = [pc EXCEPT ![p] = "finish"]
  BY <1>send, <1>in DEF Send, Fails, outbox
<1>close. ASSUME NEW p \in Passes, CloseDocuments(p)
          PROVE  /\ UNCHANGED mode /\ (failed => failed')
                 /\ accepted' # accepted => CloseDocs(p, open[p]) \in Range(accepted')
  BY <1>close, <1>in DEF CloseDocuments, outbox
<1>1. ASSUME NEW p \in Passes, StartPass(p) \/ OpenAcked(p) \/ AskAcked(p) \/ Reply(p) \/ NoMoreCandidates(p)
                               \/ NothingToClose(p) \/ CloseAcked(p) \/ \E d \in Docs : Visit(p, d)
      PROVE  WaitInv'
  <2>1. /\ UNCHANGED <<outbox, failed, asks>> /\ \A q \in Passes \ {p} : pc'[q] = pc[q] /\ doc'[q] = doc[q]
        /\ pc'[p] \notin {"asked", "closing"}
    BY <1>0, <1>1 DEF StartPass, OpenAcked, AskAcked, Reply, NoMoreCandidates, NothingToClose, CloseAcked, Visit,
                      Goes, Fails, Ends, Acked
  <2> QED BY <2>1, <1>m, <1>still, <1>quiet DEF WaitInv, outbox
<1>2. ASSUME NEW p \in Passes, SendOpen(p) PROVE WaitInv'
  BY <1>0, <1>2, <1>send, <1>m, <1>still, <1>quiet DEF SendOpen, WaitInv
<1>3. ASSUME NEW p \in Passes, SendAsk(p) PROVE WaitInv'
  <2>1. Send(p, Ask(p, doc[p], asks[p] + 1), "asked") /\ asks' = [asks EXCEPT ![p] = asks[p] + 1] /\ UNCHANGED doc
    BY <1>3 DEF SendAsk
  <2>2. WaitsForItsOwn(p)'
    BY <1>0, <2>1, <1>send DEF WaitsForItsOwn
  <2>3. \A q \in Passes \ {p} : pc'[q] = pc[q] /\ asks'[q] = asks[q] /\ doc'[q] = doc[q]
    BY <1>0, <2>1, <1>send
  <2> QED BY <2>1, <2>2, <2>3, <1>send, <1>m, <1>still DEF WaitInv
<1>4. ASSUME NEW p \in Passes, CloseAll(p) PROVE WaitInv'
  <2>1. /\ CloseDocuments(p) /\ UNCHANGED <<doc, asks>>
        /\ \/ accepted' # accepted /\ pc' = [pc EXCEPT ![p] = "closing"]
           \/ pc' = [pc EXCEPT ![p] = "ended"]
    BY <1>4 DEF CloseAll, Goes, Ends
  <2>2. CloseDocs(p, open[p]).pass = p /\ CloseDocs(p, open[p]).kind = "close"
    BY DEF CloseDocs
  <2>3. WaitsForItsOwn(p)'
    BY <1>0, <2>1, <2>2, <1>close DEF WaitsForItsOwn
  <2>4. \A q \in Passes \ {p} : pc'[q] = pc[q] /\ asks'[q] = asks[q] /\ doc'[q] = doc[q]
    BY <1>0, <2>1
  <2> QED BY <2>1, <2>3, <2>4, <1>close, <1>m, <1>still DEF WaitInv
<1>5. ASSUME NEW p \in Passes, Cancel(p) PROVE WaitInv'
  <2>1. /\ pc' = [pc EXCEPT ![p] = "ended"] /\ UNCHANGED <<doc, asks>>
        /\ UNCHANGED mode /\ (failed => failed')
    BY <1>5, <1>close DEF Cancel, Ends, outbox
  <2> QED BY <1>0, <2>1, <1>m, <1>still, <1>quiet DEF WaitInv
<1>6. ASSUME NEW i \in DOMAIN accepted, ServerReads(i) \/ WriterTells(i) PROVE WaitInv'
  <2>1. UNCHANGED <<mode, failed, pc, doc, asks>>
    BY <1>6 DEF ServerReads, WriterTells, passes, Outbox!Deliver, Outbox!Confirm, Outbox!Refuse, Outbox!Tell
  <2> QED BY <2>1, <1>m, <1>still DEF WaitInv
<1>7. ASSUME WriteFails \/ WriterEnds \/ Finished \/ UNCHANGED vars PROVE WaitInv'
  <2>1. UNCHANGED <<pc, doc, asks>> /\ (mode' # "open" => failed')
    BY <1>7 DEF WriteFails, WriterEnds, Finished, vars, outbox, passes, WaitInv
  <2> QED BY <2>1, <1>still DEF WaitInv
<1> QED BY ONLY [Next]_vars, <1>1, <1>2, <1>3, <1>4, <1>5, <1>6, <1>7 DEF Next, PassNext, ServerNext

\* However passes are dropped and whatever fails, a pass that waits for its turn
\* or an acknowledgment waits for an outbox that can go on.
THEOREM PassesGoOnHolds == Spec => []PassesGoOn
<1>1. Init => WaitInv
  BY DEF Init, Outbox!OutboxInit, WaitInv, WaitsForItsOwn
<1>2. DocsInv /\ WaitInv /\ OP!NobodyIsForgotten => PassesGoOn
  <2> SUFFICES ASSUME DocsInv, WaitInv, OP!NobodyIsForgotten, NEW p \in Passes, pc[p] \notin {"idle", "ended"}
               PROVE  PassCanGoOn(p) \/ OutboxCanGoOn
    BY DEF PassesGoOn
  <2>1. ASSUME NEW x \in Range(accepted), ack[x] = "none" PROVE OutboxCanGoOn
    <3>1. x \in OP!Range(accepted)
      BY DEF Range, OP!Range
    <3>2. CASE mode = "failing"
      BY <3>2 DEF WaitInv, OutboxCanGoOn
    <3>3. CASE mode = "open" /\ \E i \in DOMAIN accepted : OP!Turn(i) /\ written[accepted[i]] <= [m \in Messages |-> 1][accepted[i]]
      <4>1. PICK i \in DOMAIN accepted : OP!Turn(i) /\ written[accepted[i]] <= [m \in Messages |-> 1][accepted[i]]
        BY <3>3
      <4>2. accepted[i] \in Messages
        BY OutboxFacts DEF DocsInv
      <4>3. Outbox!Turn(i) /\ written[accepted[i]] <= 1
        BY <4>1, <4>2 DEF OP!Turn, Outbox!Turn
      <4> QED BY <3>3, <4>3 DEF OutboxCanGoOn
    <3> QED BY <2>1, <3>1, <3>2, <3>3 DEF OP!NobodyIsForgotten
  <2>2. pc[p] \in Awaiting \cup {"idle", "ready", "finish", "ended"} /\ WaitsForItsOwn(p) /\ Opened(p)
    BY DEF DocsInv, PassTypes, WaitInv, OpenInv
  <2>3. CASE pc[p] \in {"opening", "asking"}
    BY <2>1, <2>3 DEF PassCanGoOn, SlotFree, Pending
  <2>4. CASE pc[p] = "opened"
    <3>1. Open(p, doc[p]) \in Range(accepted)
      BY <2>2, <2>4 DEF Opened
    <3> QED BY <2>1, <2>4, <3>1 DEF PassCanGoOn
  <2>5. CASE pc[p] \in {"asked", "closing"}
    BY <2>1, <2>2, <2>5 DEF PassCanGoOn, WaitsForItsOwn
  <2> QED BY <2>2, <2>3, <2>4, <2>5 DEF PassCanGoOn, Awaiting
<1> QED BY <1>1, <1>2, WaitInvStep, DocsInvHolds, SharedOutbox, PTL DEF Spec
=============================================================================
