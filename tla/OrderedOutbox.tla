---------------------------- MODULE OrderedOutbox ----------------------------
(***************************************************************************)
(* What the write side of src/client.rs promises, without its tasks, its    *)
(* channel, its permit or its flags: an outbox that delivers the frames of  *)
(* the items it accepted one item after the other, tells each item's owner  *)
(* what became of it, and after a failure begins nothing more.              *)
(***************************************************************************)
EXTENDS Integers, Sequences, Functions

CONSTANTS Items, Size

\* What the theorems about the outbox ask of its constants.
Sizes == Size \in [Items -> Nat]

VARIABLES
  accepted,  \* the items in the order they were accepted
  written,   \* how many frames of each item the server has
  ack,       \* what the owner of each item was told
  mode       \* open: delivering; failing: no more; closed: nothing at all

outbox == <<accepted, written, ack, mode>>

OutboxTypeOK ==
  /\ accepted \in Seq(Items)
  /\ written \in [Items -> Nat]
  /\ ack \in [Items -> {"none", "ok", "err", "dropped"}]
  /\ mode \in {"open", "failing", "closed"}

OutboxInit ==
  /\ accepted = <<>>
  /\ written = [x \in Items |-> 0]
  /\ ack = [x \in Items |-> "none"]
  /\ mode = "open"

\* It is the turn of item i: everything before it was acknowledged as written.
Turn(i) ==
  /\ i \in DOMAIN accepted /\ ack[accepted[i]] = "none"
  /\ \A j \in 1 .. (i - 1) : ack[accepted[j]] = "ok"

Accept(x) ==
  /\ mode # "closed" /\ x \notin Range(accepted)
  /\ accepted' = Append(accepted, x)
  /\ UNCHANGED <<written, ack, mode>>

Deliver(i) ==
  /\ mode = "open" /\ Turn(i)
  /\ written[accepted[i]] < Size[accepted[i]]
  /\ written' = [written EXCEPT ![accepted[i]] = @ + 1]
  /\ UNCHANGED <<accepted, ack, mode>>

Tell(i, a) == ack' = [ack EXCEPT ![accepted[i]] = a] /\ UNCHANGED <<accepted, written, mode>>

Confirm(i) ==
  /\ mode # "closed" /\ Turn(i)
  /\ written[accepted[i]] = Size[accepted[i]]
  /\ Tell(i, "ok")

Refuse(i) ==
  /\ mode = "failing" /\ Turn(i)
  /\ written[accepted[i]] < Size[accepted[i]]
  /\ Tell(i, "err")

Fail ==
  /\ mode = "open" /\ mode' = "failing"
  /\ UNCHANGED <<accepted, written, ack>>

\* Everything accepted and not told anything yet is given up.
Close ==
  /\ mode # "closed" /\ mode' = "closed"
  /\ ack' = [x \in Items |-> IF x \in Range(accepted) /\ ack[x] = "none" THEN "dropped" ELSE ack[x]]
  /\ UNCHANGED <<accepted, written>>

OutboxNext ==
  \/ \E x \in Items : Accept(x)
  \/ \E i \in DOMAIN accepted : Deliver(i) \/ Confirm(i) \/ Refuse(i)
  \/ Fail \/ Close

OutboxSpec == OutboxInit /\ [][OutboxNext]_outbox

Whole(x) == written[x] = Size[x]

\* Being told that an item was written means that it, and every item accepted
\* before it, is with the server whole: a didOpen precedes the query about the
\* document, and that query the didClose (client.rs:10-12, FIFO writer).
AckIsBarrier ==
  \A i, j \in DOMAIN accepted : i <= j /\ ack[accepted[j]] = "ok" => Whole(accepted[i])

\* No frame of an item reaches the server before its predecessors are whole:
\* the server never reads one message's frame inside another's (client.rs:254).
NoOvertaking ==
  \A i, j \in DOMAIN accepted : i < j /\ written[accepted[j]] > 0 => Whole(accepted[i])
=============================================================================
