------------------------- MODULE OrderedOutboxProofs -------------------------
(***************************************************************************)
(* The order promised by OrderedOutbox, for any items of any size.          *)
(***************************************************************************)
EXTENDS OrderedOutbox, WellFoundedInduction, TLAPS

\* No item is accepted twice.
NoDuplicates == \A i, j \in DOMAIN accepted : accepted[i] = accepted[j] => i = j

\* Nothing has happened to an item that was not accepted.
Untouched == \A x \in Items : x \notin Range(accepted) => ack[x] = "none" /\ written[x] = 0

\* Confirmed items are whole.
ConfirmedWhole == \A x \in Items : ack[x] = "ok" => Whole(x)

\* An item gets a frame, or its confirmation, after all before it are confirmed.
InOrder ==
  \A i, j \in DOMAIN accepted :
    i < j /\ (written[accepted[j]] > 0 \/ ack[accepted[j]] = "ok") => ack[accepted[i]] = "ok"

OutboxInv == OutboxTypeOK /\ NoDuplicates /\ Untouched /\ ConfirmedWhole /\ InOrder

LEMMA OutboxInvInit == OutboxInit => OutboxInv
<1> SUFFICES ASSUME OutboxInit PROVE OutboxInv
  OBVIOUS
<1>1. DOMAIN accepted = {} /\ accepted \in Seq(Items)
  BY DEF OutboxInit
<1> QED BY <1>1 DEF OutboxInit, OutboxInv, OutboxTypeOK, NoDuplicates, Untouched, ConfirmedWhole, InOrder

LEMMA OutboxInvStep == ASSUME Sizes PROVE OutboxInv /\ [OutboxNext]_outbox => OutboxInv'
<1> SUFFICES ASSUME OutboxInv, [OutboxNext]_outbox PROVE OutboxInv'
  OBVIOUS
<1>0. /\ DOMAIN accepted = 1 .. Len(accepted) /\ Len(accepted) \in Nat
      /\ \A i \in DOMAIN accepted : accepted[i] \in Items /\ accepted[i] \in Range(accepted)
  <2>1. accepted \in Seq(Items)
    BY DEF OutboxInv, OutboxTypeOK
  <2> QED BY <2>1 DEF Range
<1> USE DEF Sizes, OutboxInv, OutboxTypeOK, NoDuplicates, Untouched, ConfirmedWhole, InOrder, Whole
<1>1. ASSUME NEW x \in Items, Accept(x) PROVE OutboxInv'
  <2>1. /\ accepted' \in Seq(Items) /\ Len(accepted') = Len(accepted) + 1 /\ Len(accepted) \in Nat
        /\ DOMAIN accepted' = 1 .. (Len(accepted) + 1) /\ DOMAIN accepted = 1 .. Len(accepted)
        /\ accepted'[Len(accepted) + 1] = x
        /\ \A i \in DOMAIN accepted : accepted'[i] = accepted[i]
    BY <1>1 DEF Accept
  <2>2. \A i \in DOMAIN accepted : accepted[i] # x /\ accepted[i] \in Items
    BY <1>1 DEF Accept, Range
  <2>3. x \notin Range(accepted) /\ ack[x] = "none" /\ written[x] = 0 /\ UNCHANGED <<written, ack, mode>>
    BY <1>1 DEF Accept
  <2>4. Untouched'
    BY <2>1, <2>3 DEF Range
  <2>i. \A i \in DOMAIN accepted' : i \in DOMAIN accepted \/ (i = Len(accepted) + 1 /\ accepted'[i] = x)
    BY <2>1
  <2>5. NoDuplicates'
    <3>1. ASSUME NEW i \in DOMAIN accepted', NEW j \in DOMAIN accepted', accepted'[i] = accepted'[j]
          PROVE  i = j
      <4>1. CASE i \in DOMAIN accepted /\ j \in DOMAIN accepted
        BY <2>1, <3>1, <4>1
      <4>2. CASE ~(i \in DOMAIN accepted /\ j \in DOMAIN accepted)
        BY <2>1, <2>2, <2>i, <3>1, <4>2
      <4> QED BY <4>1, <4>2
    <3> QED BY <3>1
  <2>6. ASSUME NEW i \in DOMAIN accepted', NEW j \in DOMAIN accepted', i < j,
               written[accepted'[j]] > 0 \/ ack[accepted'[j]] = "ok"
        PROVE  ack[accepted'[i]] = "ok"
    <3>1. j # Len(accepted) + 1
      BY <2>1, <2>3, <2>6
    <3>2. i # Len(accepted) + 1
      BY <2>1, <2>6
    <3>3. i \in DOMAIN accepted /\ j \in DOMAIN accepted
      BY <2>i, <3>1, <3>2
    <3> QED BY <2>1, <2>6, <3>3
  <2> QED BY <2>1, <2>3, <2>4, <2>5, <2>6
<1>2. ASSUME NEW i \in DOMAIN accepted, Deliver(i) PROVE OutboxInv'
  <2>1. accepted[i] \in Items /\ accepted[i] \in Range(accepted)
    BY <1>0
  <2>2. \A j \in DOMAIN accepted : j < i => ack[accepted[j]] = "ok"
    <3>1. \A j \in DOMAIN accepted : j < i => j \in 1 .. (i - 1)
      BY <1>0
    <3> QED BY <3>1, <1>2 DEF Deliver, Turn
  <2>3. /\ written' = [written EXCEPT ![accepted[i]] = written[accepted[i]] + 1]
        /\ written[accepted[i]] < Size[accepted[i]] /\ ack[accepted[i]] = "none"
        /\ UNCHANGED <<accepted, ack, mode>>
    BY <1>2 DEF Deliver, Turn
  <2>4. written' \in [Items -> Nat] /\ \A x \in Items \ {accepted[i]} : written'[x] = written[x]
    BY <2>1, <2>3
  <2>5. Untouched' /\ ConfirmedWhole'
    BY <2>1, <2>3, <2>4
  <2>6. InOrder'
    BY <1>0, <2>1, <2>2, <2>3, <2>4
  <2> QED BY <2>3, <2>4, <2>5, <2>6
<1>3. ASSUME NEW i \in DOMAIN accepted, NEW a \in {"ok", "err"}, Turn(i), Tell(i, a),
             a = "ok" => written[accepted[i]] = Size[accepted[i]]
      PROVE  OutboxInv'
  <2>1. accepted[i] \in Items /\ accepted[i] \in Range(accepted)
    BY <1>0
  <2>2. \A j \in DOMAIN accepted : j < i => ack[accepted[j]] = "ok"
    <3>1. \A j \in DOMAIN accepted : j < i => j \in 1 .. (i - 1)
      BY <1>0
    <3> QED BY <3>1, <1>3 DEF Turn
  <2>3. /\ ack' = [ack EXCEPT ![accepted[i]] = a] /\ ack[accepted[i]] = "none"
        /\ UNCHANGED <<accepted, written, mode>>
    BY <1>3 DEF Tell, Turn
  <2>4. /\ ack' \in [Items -> {"none", "ok", "err", "dropped"}] /\ ack'[accepted[i]] = a
        /\ \A x \in Items \ {accepted[i]} : ack'[x] = ack[x]
    BY <2>1, <2>3
  <2>5. Untouched' /\ ConfirmedWhole'
    BY <1>3, <2>1, <2>3, <2>4
  <2>6. InOrder'
    BY <1>0, <1>3, <2>1, <2>2, <2>3, <2>4
  <2> QED BY <2>3, <2>4, <2>5, <2>6
<1>4. ASSUME NEW i \in DOMAIN accepted, Confirm(i) \/ Refuse(i) PROVE OutboxInv'
  BY <1>4, <1>3 DEF Confirm, Refuse
<1>5. ASSUME Fail PROVE OutboxInv'
  BY <1>5 DEF Fail
<1>6. ASSUME Close PROVE OutboxInv'
  <2>1. /\ UNCHANGED <<accepted, written>> /\ mode' = "closed"
        /\ ack' \in [Items -> {"none", "ok", "err", "dropped"}]
        /\ \A x \in Items : (ack'[x] = "ok" <=> ack[x] = "ok") /\ (x \notin Range(accepted) => ack'[x] = ack[x])
    BY <1>6 DEF Close
  <2>2. \A i \in DOMAIN accepted : accepted[i] \in Items
    BY <1>0
  <2> QED BY <2>1, <2>2
<1>7. ASSUME UNCHANGED outbox PROVE OutboxInv'
  BY <1>7 DEF outbox
<1> QED BY <1>1, <1>2, <1>4, <1>5, <1>6, <1>7 DEF OutboxNext

LEMMA OutboxInvHolds == ASSUME Sizes PROVE OutboxSpec => []OutboxInv
  BY OutboxInvInit, OutboxInvStep, PTL DEF OutboxSpec

\* An acknowledgment is a barrier: all that was accepted before is whole.
THEOREM AckIsBarrierHolds == ASSUME Sizes PROVE OutboxSpec => []AckIsBarrier
<1>1. OutboxInv => AckIsBarrier
  BY DEF OutboxInv, OutboxTypeOK, ConfirmedWhole, InOrder, AckIsBarrier
<1> QED BY <1>1, OutboxInvHolds, PTL

\* No frame of an item precedes the last frame of an earlier one.
THEOREM NoOvertakingHolds == ASSUME Sizes PROVE OutboxSpec => []NoOvertaking
<1>1. OutboxInv => NoOvertaking
  BY DEF OutboxInv, OutboxTypeOK, ConfirmedWhole, InOrder, NoOvertaking
<1> QED BY <1>1, OutboxInvHolds, PTL

-----------------------------------------------------------------------------
(* The outbox does not wedge. *)

\* While items are delivered nothing but confirmations has been told, when the
\* outbox is closed everything was told, and no frame too many is delivered.
ToldInv ==
  /\ \A x \in Items : written[x] <= Size[x]
  /\ mode = "open" => \A x \in Items : ack[x] \in {"none", "ok"}
  /\ mode = "closed" => \A x \in Range(accepted) : ack[x] # "none"

\* Whoever still has to be told about an item need not wait for nothing: the
\* outbox is failing, and free to close, or it is the turn of some item, which has
\* a frame to be delivered or a confirmation to be told.
NobodyIsForgotten ==
  (\E x \in Range(accepted) : ack[x] = "none") =>
    \/ mode = "failing"
    \/ mode = "open" /\ \E i \in DOMAIN accepted : Turn(i) /\ written[accepted[i]] <= Size[accepted[i]]

\* A set of naturals that is not empty has a least element.
LEMMA FirstOf ==
  ASSUME NEW S, S \subseteq Nat, S # {}
  PROVE  \E x \in S : \A y \in S : x <= y
<1> DEFINE R == OpToRel(<, Nat)
<1>0. \A x, y \in Nat : y < x => <<y, x>> \in R
  BY DEF OpToRel
<1>1. IsWellFoundedOn(R, Nat)
  BY NatLessThanWellFounded
<1> HIDE DEF R
<1>2. PICK x \in S : \A y \in S : ~ (<<y, x>> \in R)
  BY <1>1, WFMin
<1>3. \A y \in S : ~ (y < x)
  BY <1>0, <1>2
<1> QED BY <1>3

LEMMA ToldInvStep == ASSUME Sizes PROVE OutboxTypeOK /\ ToldInv /\ [OutboxNext]_outbox => ToldInv'
<1> SUFFICES ASSUME OutboxTypeOK, ToldInv, [OutboxNext]_outbox PROVE ToldInv'
  OBVIOUS
<1>0. \A i \in DOMAIN accepted : accepted[i] \in Items
  BY DEF OutboxTypeOK
<1> USE DEF Sizes, OutboxTypeOK, ToldInv
<1>1. ASSUME NEW x \in Items, Accept(x) PROVE ToldInv'
  BY <1>1 DEF Accept
<1>2. ASSUME NEW i \in DOMAIN accepted, Deliver(i) PROVE ToldInv'
  <2>1. \A x \in Items : written'[x] <= Size[x]
    BY <1>0, <1>2 DEF Deliver
  <2> QED BY <1>2, <2>1 DEF Deliver
<1>3. ASSUME NEW i \in DOMAIN accepted, Confirm(i) \/ Refuse(i) PROVE ToldInv'
  BY <1>0, <1>3 DEF Confirm, Refuse, Tell
<1>4. ASSUME Fail \/ UNCHANGED outbox PROVE ToldInv'
  BY <1>4 DEF Fail, outbox
<1>5. ASSUME Close PROVE ToldInv'
  <2>1. \A x \in Range(accepted) : x \in Items
    BY <1>0 DEF Range
  <2> QED BY <1>5, <2>1 DEF Close
<1> QED BY <1>1, <1>2, <1>3, <1>4, <1>5 DEF OutboxNext

LEMMA ToldInvHolds == ASSUME Sizes PROVE OutboxSpec => []ToldInv
<1>1. OutboxInit => ToldInv
  BY DEF Sizes, OutboxInit, ToldInv
<1>2. OutboxInv => OutboxTypeOK
  BY DEF OutboxInv
<1> QED BY <1>1, <1>2, ToldInvStep, OutboxInvHolds, PTL DEF OutboxSpec

\* While somebody has to be told something, the outbox can go on.
THEOREM NobodyIsForgottenHolds == ASSUME Sizes PROVE OutboxSpec => []NobodyIsForgotten
<1>1. OutboxInv /\ ToldInv => NobodyIsForgotten
  <2> SUFFICES ASSUME OutboxInv, ToldInv, NEW x \in Range(accepted), ack[x] = "none", mode # "failing"
               PROVE  mode = "open" /\ \E i \in DOMAIN accepted : Turn(i) /\ written[accepted[i]] <= Size[accepted[i]]
    BY DEF NobodyIsForgotten
  <2>0. /\ DOMAIN accepted \subseteq Nat /\ \A i \in DOMAIN accepted : accepted[i] \in Items
        /\ \A i \in DOMAIN accepted : \A j \in 1 .. (i - 1) : j \in DOMAIN accepted /\ j < i /\ j \in Nat
    <3>1. Len(accepted) \in Nat /\ DOMAIN accepted = 1 .. Len(accepted)
      BY DEF OutboxInv, OutboxTypeOK
    <3> QED BY <3>1 DEF OutboxInv, OutboxTypeOK
  <2>1. mode = "open"
    BY DEF OutboxInv, OutboxTypeOK, ToldInv
  <2> DEFINE W == {i \in DOMAIN accepted : ack[accepted[i]] = "none"}
  <2>2. W \subseteq Nat /\ W # {}
    BY <2>0 DEF Range
  <2>3. PICK i \in W : \A j \in W : i <= j
    BY <2>2, FirstOf
  <2>4. ASSUME NEW j \in 1 .. (i - 1) PROVE ack[accepted[j]] = "ok"
    <3>1. j \in DOMAIN accepted /\ j < i /\ j \in Nat /\ i \in Nat
      BY <2>0, <2>3
    <3>2. j \notin W
      BY <2>3, <3>1
    <3> QED BY <2>0, <2>1, <3>1, <3>2 DEF ToldInv
  <2> QED BY <2>0, <2>1, <2>3, <2>4 DEF Turn, ToldInv
<1> QED BY <1>1, ToldInvHolds, OutboxInvHolds, PTL
=============================================================================
