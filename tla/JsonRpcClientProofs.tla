------------------------- MODULE JsonRpcClientProofs -------------------------
(***************************************************************************)
(* Theorems about JsonRpcClient, for any number of requests, notifications  *)
(* and close batches, any batch size and any channel capacity: its          *)
(* invariants, and that it implements OrderedOutbox.                        *)
(***************************************************************************)
EXTENDS JsonRpcClient, TLAPS

(* Sequences as queues. *)

\* Appending adds the new element to the range, and keeps a sequence without
\* repetitions free of them if the element is new.
LEMMA AppendRange ==
  ASSUME NEW S, NEW q \in Seq(S), NEW x \in S
  PROVE  /\ Append(q, x) \in Seq(S)
         /\ Len(Append(q, x)) = Len(q) + 1
         /\ Range(Append(q, x)) = Range(q) \cup {x}
         /\ IsInjective(q) /\ x \notin Range(q) => IsInjective(Append(q, x))
<1> DEFINE a == Append(q, x)
<1>1. a \in Seq(S) /\ Len(a) = Len(q) + 1 /\ DOMAIN a = 1 .. (Len(q) + 1) /\ DOMAIN q = 1 .. Len(q)
  OBVIOUS
<1>2. \A i \in 1 .. Len(q) : a[i] = q[i]
  OBVIOUS
<1>3. a[Len(q) + 1] = x
  OBVIOUS
<1>4. Len(q) \in Nat
  OBVIOUS
<1> HIDE DEF a
<1>5. Range(a) = Range(q) \cup {x}
  BY <1>1, <1>2, <1>3, <1>4 DEF Range
<1>6. IsInjective(q) /\ x \notin Range(q) => IsInjective(a)
  BY <1>1, <1>2, <1>3, <1>4 DEF Range, IsInjective
<1> QED BY <1>1, <1>5, <1>6 DEF a

\* Taking the head off a queue: what is left was in it, and without
\* repetitions the head is gone.
LEMMA HeadTailRange ==
  ASSUME NEW S, NEW q \in Seq(S), q # <<>>
  PROVE  /\ Tail(q) \in Seq(S) /\ Len(Tail(q)) = Len(q) - 1
         /\ Head(q) \in S
         /\ Range(q) = Range(Tail(q)) \cup {Head(q)}
         /\ IsInjective(q) => IsInjective(Tail(q)) /\ Head(q) \notin Range(Tail(q))
<1> DEFINE t == Tail(q)
<1>1. /\ t \in Seq(S) /\ Len(t) = Len(q) - 1 /\ DOMAIN t = 1 .. (Len(q) - 1)
      /\ DOMAIN q = 1 .. Len(q) /\ Len(q) \in Nat \ {0}
  OBVIOUS
<1>2. \A i \in 1 .. (Len(q) - 1) : t[i] = q[i + 1]
  OBVIOUS
<1>3. Head(q) = q[1] /\ q[1] \in S
  OBVIOUS
<1> HIDE DEF t
<1>4. Range(q) = Range(t) \cup {q[1]}
  <2>1. ASSUME NEW i \in DOMAIN q PROVE q[i] \in Range(t) \cup {q[1]}
    <3>1. CASE i = 1 BY <3>1
    <3>2. CASE i # 1
      <4>1. i - 1 \in DOMAIN t /\ t[i - 1] = q[i] BY <1>1, <1>2, <3>2
      <4> QED BY <4>1 DEF Range
    <3> QED BY <3>1, <3>2
  <2>2. ASSUME NEW i \in DOMAIN t PROVE t[i] \in Range(q)
    BY <1>1, <1>2 DEF Range
  <2> QED BY <1>1, <2>1, <2>2 DEF Range
<1>5. ASSUME IsInjective(q) PROVE IsInjective(t) /\ q[1] \notin Range(t)
  <2>1. \A i, j \in 1 .. Len(q) : q[i] = q[j] => i = j
    BY <1>1, <1>5 DEF IsInjective
  <2>2. \A i \in 1 .. (Len(q) - 1) : i + 1 \in 1 .. Len(q) /\ 1 \in 1 .. Len(q)
    BY <1>1
  <2>3. \A i, j \in 1 .. (Len(q) - 1) : t[i] = t[j] => i = j
    BY <1>1, <1>2, <2>1, <2>2
  <2>4. \A i \in 1 .. (Len(q) - 1) : t[i] # q[1]
    BY <1>1, <1>2, <2>1, <2>2
  <2> QED BY <1>1, <2>3, <2>4 DEF Range, IsInjective
<1> QED BY <1>1, <1>3, <1>4, <1>5 DEF t

-----------------------------------------------------------------------------
(* Type correctness. *)

\* The flags stay Boolean.
LEMMA FlagsStep == FlagTypes /\ [Next]_vars => FlagTypes'
<1> USE DEF FlagTypes, failure, writer
<1>1. FlagTypes /\ CallerNext => FlagTypes'
  BY DEF CallerNext, Start, StartClose, AcquireSlot, CheckFailed, Enqueue, Overflow, FailClient,
         AckArrives, Receive, TimeoutFires, Unregister, Cancel, FailWriter
<1>2. FlagTypes /\ WriterNext => FlagTypes'
  BY Zenon DEF WriterNext, WriterRecv, WriterCheck, WriteFrame, WriteDone, WriteFails, WriterPoison,
         WriterDrain, WriterAck, WriterDrop, WriterAborted, SpawnedDrain, WriterDies
<1>3. FlagTypes /\ ReaderNext => FlagTypes'
  BY DEF ReaderNext, ServerResponds, ServerAsks, ReaderDies, Dispatch
<1>4. FlagTypes /\ UNCHANGED vars => FlagTypes'
  BY DEF vars
<1> QED BY <1>1, <1>2, <1>3, <1>4 DEF Next, Finished

\* What the end of the writer task leaves behind is well typed.
LEMMA WriterDiesTypes ==
  ASSUME TypeOK, WriterDies
  PROVE  /\ wpc' \in WriterStates /\ current' \in Outbounds \cup {None}
         /\ queue' \in Seq(Outbounds) /\ Len(queue') <= QueueCap
         /\ ack' \in [Outbounds -> {"none", "ok", "err", "dropped"}]
         /\ permit' \in Calls \cup {None}
  BY ConstantsAssumption DEF ConstantsAssumption, TypeOK, WriterDies, WriterStates, PermitWithout

\* Every variable of the client keeps its type, the channel its bound.
THEOREM TypeCorrect == Spec => []TypeOK
<1> USE ConstantsAssumption DEF ConstantsAssumption
<1>1. Init => TypeOK
  <2>1. Init => FlagTypes
    BY DEF Init, FlagTypes
  <2> QED BY <2>1 DEF Init, TypeOK, CallerStates, Results, WriterStates, Outbounds
<1>2. TypeOK /\ [Next]_vars => TypeOK'
  <2> SUFFICES ASSUME TypeOK, [Next]_vars PROVE TypeOK'
    OBVIOUS
  <2> FlagTypes'
    BY FlagsStep DEF TypeOK
  <2> USE DEF TypeOK, Calls, Outbounds, CallerStates, WriterStates, Results,
              Goes, Returns, Fails, PermitWithout, callers, replies, failure, writer, server
  <2>1. ASSUME NEW c \in Calls, Start(c) PROVE TypeOK'
    BY <2>1 DEF Start
  <2>2. ASSUME NEW b \in Batches, StartClose(b) PROVE TypeOK'
    BY <2>2 DEF StartClose
  <2>3. ASSUME NEW c \in Calls, AcquireSlot(c) PROVE TypeOK'
    BY <2>3 DEF AcquireSlot
  <2>4. ASSUME NEW c \in Calls, CheckFailed(c) PROVE TypeOK'
    BY <2>4 DEF CheckFailed
  <2>5. ASSUME NEW x \in Outbounds, Enqueue(x) PROVE TypeOK'
    BY <2>5 DEF Enqueue, ChannelTakes
  <2>6. ASSUME NEW x \in Outbounds, Overflow(x) \/ FailClient(x) PROVE TypeOK'
    <3>1. CASE Overflow(x) BY <3>1 DEF Overflow
    <3>2. CASE FailClient(x) BY <3>2 DEF FailClient
    <3> QED BY <2>6, <3>1, <3>2
  <2>7. ASSUME NEW x \in Outbounds, AckArrives(x) PROVE TypeOK'
    <3>1. pc' \in [Outbounds -> CallerStates] /\ result' \in [Outbounds -> Results]
      BY <2>7 DEF AckArrives
    <3> QED BY <2>7, <3>1 DEF AckArrives
  <2>8. ASSUME NEW c \in Requests, Receive(c) PROVE TypeOK'
    BY <2>8 DEF Receive
  <2>9. ASSUME NEW c \in Requests, TimeoutFires(c) PROVE TypeOK'
    BY <2>9 DEF TimeoutFires
  <2>10. ASSUME NEW c \in Requests, Unregister(c) PROVE TypeOK'
    BY <2>10 DEF Unregister
  <2>11. ASSUME NEW x \in Outbounds, Cancel(x) PROVE TypeOK'
    BY <2>11 DEF Cancel
  <2>12. ASSUME WriterRecv PROVE TypeOK'
    BY <2>12 DEF WriterRecv
  <2>13. ASSUME WriterCheck PROVE TypeOK'
    <3>1. CASE failed BY <2>13, <3>1, WriterDiesTypes DEF WriterCheck
    <3>2. CASE ~failed BY <2>13, <3>2 DEF WriterCheck
    <3> QED BY <3>1, <3>2
  <2>14. ASSUME WriteFrame PROVE TypeOK'
    <3> DEFINE n == written[current] + 1
    <3>1. written' = [written EXCEPT ![current] = n] /\ written \in [Outbounds -> Nat]
      BY <2>14 DEF WriteFrame
    <3>2. current \in Outbounds => n \in Nat
      OBVIOUS
    <3> HIDE DEF n
    <3>3. written' \in [Outbounds -> Nat]
      BY <3>1, <3>2
    <3> QED BY <2>14, <3>3 DEF WriteFrame
  <2>15. ASSUME WriteDone PROVE TypeOK'
    BY <2>15 DEF WriteDone
  <2>16. ASSUME WriteFails PROVE TypeOK'
    BY <2>16 DEF WriteFails
  <2>17. ASSUME WriterPoison PROVE TypeOK'
    BY <2>17 DEF WriterPoison
  <2>18. ASSUME WriterDrain PROVE TypeOK'
    BY <2>18 DEF WriterDrain, WakeAllWaiters
  <2>19. ASSUME WriterAck PROVE TypeOK'
    BY <2>19 DEF WriterAck
  <2>20. ASSUME WriterDrop PROVE TypeOK'
    <3>1. CASE werr BY <2>20, <3>1, WriterDiesTypes DEF WriterDrop
    <3>2. CASE ~werr BY <2>20, <3>2 DEF WriterDrop
    <3> QED BY <3>1, <3>2
  <2>21. ASSUME WriterAborted PROVE TypeOK'
    BY <2>21, WriterDiesTypes DEF WriterAborted
  <2>22. ASSUME SpawnedDrain PROVE TypeOK'
    BY <2>22 DEF SpawnedDrain, WakeAllWaiters
  <2>23. ASSUME NEW c \in Requests, ServerResponds(c) PROVE TypeOK'
    BY <2>23 DEF ServerResponds, Dispatch
  <2>24. ASSUME NEW c \in Requests, ServerAsks(c) PROVE TypeOK'
    BY <2>24 DEF ServerAsks, Dispatch
  <2>25. ASSUME ReaderDies PROVE TypeOK'
    BY <2>25 DEF ReaderDies, WakeAllWaiters
  <2>26. ASSUME UNCHANGED vars PROVE TypeOK'
    BY <2>26 DEF vars
  <2> QED
    BY <2>1, <2>2, <2>3, <2>4, <2>5, <2>6, <2>7, <2>8, <2>9, <2>10, <2>11, <2>12, <2>13, <2>14, <2>15, <2>16, <2>17, <2>18, <2>19, <2>20, <2>21, <2>22, <2>23, <2>24, <2>25, <2>26 DEF Next, CallerNext, WriterNext, ReaderNext, Finished
<1> QED BY <1>1, <1>2, PTL DEF Spec

-----------------------------------------------------------------------------
(* One normal frame. *)

\* A message not sent yet is neither in the channel nor with the writer, and
\* nobody has acknowledged it.
Fresh ==
  \A x \in Outbounds :
    pc[x] \in {"idle", "acquire", "check", "send"} =>
      x \notin Range(queue) /\ x # current /\ ack[x] = "none"

\* A message is in the outbound path at most once.
Once == IsInjective(queue) /\ current \notin Range(queue)

\* The frame of a call is pending only while that call owns the write slot.
Held == \A c \in Calls : Pending(c) => permit = c

\* The slot is never lost: whoever holds it has a frame pending, and gives it
\* back when the frame is written, fails or is dropped, though the caller may be
\* gone by then (client.rs:35).
SlotComesBack == permit # None => Pending(permit)

\* Between two messages the writer holds none.
EmptyHand == wpc = "recv" => current = None

SlotInv == Fresh /\ Once /\ EmptyHand /\ Held /\ SlotComesBack

LEMMA SlotInvInit == Init => SlotInv
<1> SUFFICES ASSUME Init PROVE SlotInv
  OBVIOUS
<1>1. Range(queue) = {} /\ IsInjective(queue)
  BY DEF Init, Range, IsInjective
<1>2. Calls \subseteq Outbounds /\ None \notin Outbounds
  BY ConstantsAssumption DEF ConstantsAssumption, Outbounds
<1> QED BY <1>1, <1>2 DEF Init, SlotInv, Fresh, Once, EmptyHand, Held, SlotComesBack, Pending

LEMMA SlotInvStep == TypeOK /\ SlotInv /\ [Next]_vars => SlotInv'
<1> SUFFICES ASSUME TypeOK, SlotInv, [Next]_vars PROVE SlotInv'
  OBVIOUS
<1>0. /\ Calls \subseteq Outbounds /\ Requests \subseteq Calls /\ Batches \subseteq Outbounds
      /\ Calls \cap Batches = {} /\ None \notin Outbounds
      /\ pc \in [Outbounds -> CallerStates]
      /\ ack \in [Outbounds -> {"none", "ok", "err", "dropped"}]
      /\ queue \in Seq(Outbounds) /\ current \in Outbounds \cup {None}
  BY ConstantsAssumption DEF ConstantsAssumption, Calls, Outbounds, TypeOK
<1>a. Range(queue) \subseteq Outbounds
  BY <1>0 DEF Range
<1> USE DEF SlotInv, Fresh, Once, EmptyHand, Held, SlotComesBack, Pending, callers, writer
<1>same. ASSUME UNCHANGED <<pc, permit, queue, current, ack>>, wpc' = "recv" => wpc = "recv" PROVE SlotInv'
  BY <1>same
<1>leave. ASSUME NEW x \in Outbounds, pc[x] \notin {"check", "send"},
                 NEW s \in CallerStates \ {"check", "send"},
                 s = "acquire" => pc[x] = "idle",
                 s \in {"idle", "acquire"} => pc[x] = "idle",
                 pc' = [pc EXCEPT ![x] = s],
                 UNCHANGED <<permit, queue, current, ack, wpc>>
          PROVE  SlotInv'
  BY <1>leave, <1>0
<1>dies. ASSUME WriterDies, UNCHANGED pc PROVE SlotInv'
  <2>1. Range(queue') = {} /\ IsInjective(queue') /\ current' = None
    BY <1>dies DEF WriterDies, Range, IsInjective
  <2>2. Fresh'
    BY <2>1, <1>dies, <1>0, <1>a DEF WriterDies, Lost
  <2>3. Held'
    BY <2>1, <1>dies, <1>0, <1>a DEF WriterDies, Lost, PermitWithout
  <2>4. SlotComesBack'
    <3>1. permit' # None => permit' = permit /\ permit \notin Range(queue) \cup {current}
      BY <1>dies DEF WriterDies, Lost, PermitWithout
    <3> QED BY <3>1, <1>dies
  <2> QED BY <2>1, <2>2, <2>3, <2>4
<1>1. ASSUME NEW c \in Calls, Start(c) PROVE SlotInv'
  BY <1>1, <1>0, <1>leave DEF Start, Goes, CallerStates
<1>2. ASSUME NEW b \in Batches, StartClose(b) PROVE SlotInv'
  <2>1. b \notin Calls /\ UNCHANGED <<permit, queue, current, ack, wpc>>
    BY <1>2, <1>0 DEF StartClose
  <2>2. \E s \in {"send", "done"} : pc' = [pc EXCEPT ![b] = s] /\ pc[b] = "idle"
    BY <1>2 DEF StartClose, Goes, Returns
  <2>3. permit \in Calls \cup {None}
    BY DEF TypeOK
  <2> QED BY <2>1, <2>2, <2>3, <1>0
<1>3. ASSUME NEW c \in Calls, AcquireSlot(c) PROVE SlotInv'
  <2>1. \A d \in Calls : ~Pending(d)
    BY <1>3, <1>0 DEF AcquireSlot, Calls, Outbounds
  <2> QED BY <1>3, <1>0, <2>1 DEF AcquireSlot, Goes
<1>4. ASSUME NEW c \in Calls, CheckFailed(c) PROVE SlotInv'
  BY <1>4, <1>0 DEF CheckFailed, Goes, Fails
<1>5. ASSUME NEW x \in Outbounds, Enqueue(x) PROVE SlotInv'
  <2>1. Range(queue') = Range(queue) \cup {x} /\ (x \notin Range(queue) => IsInjective(queue'))
    BY <1>5, <1>0, AppendRange DEF Enqueue
  <2>2. pc[x] = "send" /\ x \notin Range(queue) /\ x # current
    BY <1>5 DEF Enqueue, Goes
  <2> QED BY <1>5, <1>0, <2>1, <2>2 DEF Enqueue, Goes
<1>6. ASSUME NEW x \in Outbounds, Overflow(x) PROVE SlotInv'
  BY <1>6, <1>0 DEF Overflow, Goes, PermitWithout
<1>7. ASSUME NEW x \in Outbounds, FailClient(x) \/ AckArrives(x) PROVE SlotInv'
  BY <1>7, <1>0, <1>leave DEF FailClient, AckArrives, Goes, Returns, Fails, CallerStates
<1>8. ASSUME NEW c \in Requests, Receive(c) \/ TimeoutFires(c) \/ Unregister(c) PROVE SlotInv'
  BY <1>8, <1>0, <1>leave DEF Receive, TimeoutFires, Unregister, Goes, Returns, Fails, CallerStates
<1>9. ASSUME NEW x \in Outbounds, Cancel(x) PROVE SlotInv'
  BY <1>9, <1>0, <1>leave DEF Cancel, Returns, CallerStates
<1>10. ASSUME WriterRecv PROVE SlotInv'
  <2>1. /\ Range(queue) = Range(queue') \cup {current'} /\ IsInjective(queue')
        /\ current' \notin Range(queue')
    BY <1>10, <1>0, HeadTailRange DEF WriterRecv
  <2>2. wpc = "recv" /\ current' = Head(queue) /\ wpc' = "check" /\ UNCHANGED <<pc, permit, ack>>
    BY <1>10 DEF WriterRecv, callers
  <2>3. Fresh' /\ Once' /\ Held'
    BY <1>10, <1>0, <2>1 DEF WriterRecv, callers
  <2> QED BY <1>10, <1>0, <2>1, <2>2, <2>3
<1>11. ASSUME WriterCheck \/ WriterDrop \/ WriterAborted PROVE SlotInv'
  <2>1. CASE WriterDies
    BY <1>11, <2>1, <1>dies DEF WriterCheck, WriterDrop, WriterAborted, callers
  <2>2. CASE WriterCheck /\ ~WriterDies
    BY <2>2, <1>same DEF WriterCheck, callers
  <2>3. CASE WriterDrop /\ ~WriterDies
    <3>1. current' = None /\ permit' = PermitWithout({current}) /\ UNCHANGED <<pc, queue, ack>>
      BY <2>3 DEF WriterDrop, callers
    <3> QED BY <3>1, <1>0, <1>a DEF PermitWithout
  <2> QED BY <1>11, <2>1, <2>2, <2>3 DEF WriterAborted
<1>12. ASSUME WriterAck PROVE SlotInv'
  BY <1>12, <1>0 DEF WriterAck, callers
<1>13. ASSUME \/ WriteFrame \/ WriteDone \/ WriteFails \/ WriterPoison \/ WriterDrain
              \/ SpawnedDrain \/ ReaderDies \/ UNCHANGED vars
       PROVE  SlotInv'
  BY <1>13, <1>same DEF WriteFrame, WriteDone, WriteFails, WriterPoison, WriterDrain,
                        SpawnedDrain, ReaderDies, vars, callers, writer
<1>14. ASSUME NEW c \in Requests, ServerResponds(c) \/ ServerAsks(c) PROVE SlotInv'
  BY <1>14, <1>same DEF ServerResponds, ServerAsks, Dispatch, callers, writer
<1> QED
  BY <1>1, <1>2, <1>3, <1>4, <1>5, <1>6, <1>7, <1>8, <1>9, <1>10, <1>11, <1>12, <1>13, <1>14
     DEF Next, CallerNext, WriterNext, ReaderNext, Finished

\* Of all requests and notifications, at most one is between the look at the
\* failure flag and the end of its write, whoever is cancelled in between.
THEOREM OneNormalFrameHolds == Spec => []OneNormalFrame
<1>1. SlotInv => OneNormalFrame
  BY DEF SlotInv, Held, OneNormalFrame
<1> QED BY <1>1, TypeCorrect, SlotInvInit, SlotInvStep, PTL DEF Spec

\* The write slot is never lost, whoever held it and is gone.
THEOREM SlotComesBackHolds == Spec => []SlotComesBack
<1>1. SlotInv => SlotComesBack
  BY DEF SlotInv
<1> QED BY <1>1, TypeCorrect, SlotInvInit, SlotInvStep, PTL DEF Spec

-----------------------------------------------------------------------------
(* No request is forgotten. *)

LEMMA NoOrphanStep == TypeOK /\ NoOrphanedRequest /\ [Next]_vars => NoOrphanedRequest'
<1> SUFFICES ASSUME TypeOK, NoOrphanedRequest, [Next]_vars,
                    NEW r \in Requests, pc'[r] \in InProgress
             PROVE  r \in waiters' \/ chan'[r] # "empty"
  BY DEF NoOrphanedRequest
<1>0. /\ Requests \subseteq Calls /\ Calls \subseteq Outbounds /\ Batches \subseteq Outbounds
      /\ Calls \cap Batches = {}
      /\ pc \in [Outbounds -> CallerStates] /\ chan \in [Requests -> {"empty", "answer", "died"}]
  BY ConstantsAssumption DEF ConstantsAssumption, Calls, Outbounds, TypeOK
<1> USE DEF NoOrphanedRequest, InProgress, callers, replies
<1>1. ASSUME UNCHANGED replies, pc'[r] = pc[r] \/ pc[r] \in InProgress
      PROVE  r \in waiters' \/ chan'[r] # "empty"
  BY <1>1
<1>2. ASSUME WakeAllWaiters, UNCHANGED pc PROVE r \in waiters' \/ chan'[r] # "empty"
  BY <1>2 DEF WakeAllWaiters
<1>3. ASSUME NEW c \in Calls, Start(c) PROVE r \in waiters' \/ chan'[r] # "empty"
  BY <1>3, <1>0 DEF Start, Goes
<1>4. ASSUME NEW c \in Requests, Unregister(c) PROVE r \in waiters' \/ chan'[r] # "empty"
  BY <1>4, <1>0 DEF Unregister, Goes
<1>5. ASSUME NEW c \in Requests, ServerResponds(c) \/ ServerAsks(c)
      PROVE  r \in waiters' \/ chan'[r] # "empty"
  BY <1>5, <1>0 DEF ServerResponds, ServerAsks, Dispatch
<1>6. ASSUME NEW b \in Batches, StartClose(b) PROVE r \in waiters' \/ chan'[r] # "empty"
  BY <1>6, <1>1, <1>0 DEF StartClose, Goes, Returns
<1>7. ASSUME NEW c \in Calls, AcquireSlot(c) \/ CheckFailed(c)
      PROVE  r \in waiters' \/ chan'[r] # "empty"
  BY <1>7, <1>1, <1>0 DEF AcquireSlot, CheckFailed, Goes, Fails
<1>8. ASSUME NEW x \in Outbounds,
             Enqueue(x) \/ Overflow(x) \/ FailClient(x) \/ AckArrives(x) \/ Cancel(x)
      PROVE  r \in waiters' \/ chan'[r] # "empty"
  BY <1>8, <1>1, <1>0 DEF Enqueue, Overflow, FailClient, AckArrives, Cancel, Goes, Fails, Returns
<1>9. ASSUME NEW c \in Requests, Receive(c) \/ TimeoutFires(c)
      PROVE  r \in waiters' \/ chan'[r] # "empty"
  BY <1>9, <1>1, <1>0 DEF Receive, TimeoutFires, Fails, Returns
<1>10. ASSUME WriterDrain \/ SpawnedDrain \/ ReaderDies PROVE r \in waiters' \/ chan'[r] # "empty"
  BY <1>10, <1>2 DEF WriterDrain, SpawnedDrain, ReaderDies
<1>11. ASSUME \/ WriterRecv \/ WriterCheck \/ WriteFrame \/ WriteDone \/ WriteFails \/ WriterPoison
              \/ WriterAck \/ WriterDrop \/ WriterAborted \/ UNCHANGED vars
       PROVE  r \in waiters' \/ chan'[r] # "empty"
  BY <1>11, <1>1 DEF WriterRecv, WriterCheck, WriteFrame, WriteDone, WriteFails, WriterPoison,
                     WriterAck, WriterDrop, WriterAborted, vars
<1> QED
  BY <1>3, <1>4, <1>5, <1>6, <1>7, <1>8, <1>9, <1>10, <1>11
     DEF Next, CallerNext, WriterNext, ReaderNext, Finished

\* From its start to its return, a request is registered or has its answer.
THEOREM NoOrphanedRequestHolds == Spec => []NoOrphanedRequest
<1>1. Init => NoOrphanedRequest
  BY DEF Init, NoOrphanedRequest, InProgress, Calls, Outbounds
<1> QED BY <1>1, TypeCorrect, NoOrphanStep, PTL DEF Spec

-----------------------------------------------------------------------------
(* The waiter map, and the answers that come through it. *)

\* A registered request has started and has no answer yet; when it is over, its
\* caller dropped it.  Before it starts nobody answers it.
Lingers(c) == pc[c] = "done" /\ result[c] = "cancelled"

WaiterInv ==
  /\ \A c \in waiters :
       chan[c] = "empty" /\ (pc[c] \in InProgress \cup {"unregister"} \/ Lingers(c))
  /\ \A c \in Requests : pc[c] = "idle" => chan[c] = "empty"

LEMMA WaiterInvStep == TypeOK /\ WaiterInv /\ [Next]_vars => WaiterInv'
<1> SUFFICES ASSUME TypeOK, WaiterInv, [Next]_vars PROVE WaiterInv'
  OBVIOUS
<1>0. /\ Requests \subseteq Calls /\ Calls \subseteq Outbounds /\ Batches \subseteq Outbounds
      /\ Calls \cap Batches = {} /\ waiters \subseteq Requests
      /\ pc \in [Outbounds -> CallerStates] /\ result \in [Outbounds -> Results]
      /\ chan \in [Requests -> {"empty", "answer", "died"}]
  BY ConstantsAssumption DEF ConstantsAssumption, Calls, Outbounds, TypeOK
<1> USE DEF WaiterInv, Lingers, InProgress, callers, replies
<1>1. ASSUME UNCHANGED callers, waiters' \subseteq waiters,
             \A c \in Requests : c \in waiters' \/ c \notin waiters => chan'[c] = chan[c]
      PROVE  WaiterInv'
  BY <1>1, <1>0
<1>2. ASSUME WakeAllWaiters, UNCHANGED pc PROVE WaiterInv'
  BY <1>2, <1>0 DEF WakeAllWaiters
<1>3. ASSUME NEW c \in Calls, Start(c) PROVE WaiterInv'
  BY <1>3, <1>0 DEF Start, Goes
<1>4. ASSUME NEW b \in Batches, StartClose(b) PROVE WaiterInv'
  BY <1>4, <1>0 DEF StartClose, Goes, Returns
<1>5. ASSUME NEW c \in Calls, AcquireSlot(c) \/ CheckFailed(c) PROVE WaiterInv'
  BY <1>5, <1>0 DEF AcquireSlot, CheckFailed, Goes, Fails
<1>6. ASSUME NEW x \in Outbounds,
             Enqueue(x) \/ Overflow(x) \/ FailClient(x) \/ AckArrives(x) \/ Cancel(x)
      PROVE  WaiterInv'
  BY <1>6, <1>0 DEF Enqueue, Overflow, FailClient, AckArrives, Cancel, Goes, Fails, Returns
<1>7. ASSUME NEW c \in Requests, Receive(c) \/ TimeoutFires(c) \/ Unregister(c)
      PROVE  WaiterInv'
  BY <1>7, <1>0 DEF Receive, TimeoutFires, Unregister, Goes, Fails, Returns
<1>8. ASSUME NEW c \in Requests, ServerResponds(c) \/ ServerAsks(c) PROVE WaiterInv'
  BY <1>8, <1>0, <1>1 DEF ServerResponds, ServerAsks, Dispatch
<1>9. ASSUME WriterDrain \/ SpawnedDrain \/ ReaderDies PROVE WaiterInv'
  BY <1>9, <1>2 DEF WriterDrain, SpawnedDrain, ReaderDies
<1>10. ASSUME \/ WriterRecv \/ WriterCheck \/ WriteFrame \/ WriteDone \/ WriteFails
              \/ WriterPoison \/ WriterAck \/ WriterDrop \/ WriterAborted \/ UNCHANGED vars
       PROVE  WaiterInv'
  BY <1>10, <1>1 DEF WriterRecv, WriterCheck, WriteFrame, WriteDone, WriteFails, WriterPoison,
                     WriterAck, WriterDrop, WriterAborted, vars
<1> QED
  BY <1>3, <1>4, <1>5, <1>6, <1>7, <1>8, <1>9, <1>10
     DEF Next, CallerNext, WriterNext, ReaderNext, Finished

\* The waiter map holds requests under way, and requests that were dropped.
THEOREM OnlyDroppedRequestsLingerHolds == Spec => []OnlyDroppedRequestsLinger
<1>1. Init => WaiterInv
  BY DEF Init, WaiterInv, Calls, Outbounds
<1>2. WaiterInv => OnlyDroppedRequestsLinger
  BY DEF WaiterInv, Lingers, OnlyDroppedRequestsLinger
<1> QED BY <1>1, <1>2, TypeCorrect, WaiterInvStep, PTL DEF Spec

\* What came through a request's oneshot was sent by the server in response to it.
AnswerInv ==
  \A c \in Requests :
    chan[c] = "answer" \/ result[c] = "answer" => c \in answered

LEMMA AnswerInvStep == ~ServerTalks /\ TypeOK /\ AnswerInv /\ [Next]_vars => AnswerInv'
<1> SUFFICES ASSUME ~ServerTalks, TypeOK, AnswerInv, [Next]_vars,
                    NEW r \in Requests
             PROVE  chan'[r] = "answer" \/ result'[r] = "answer" => r \in answered'
  BY DEF AnswerInv
<1>0. /\ Requests \subseteq Calls /\ Calls \subseteq Outbounds /\ Batches \subseteq Outbounds
      /\ Calls \cap Batches = {}
      /\ result \in [Outbounds -> Results]
      /\ chan \in [Requests -> {"empty", "answer", "died"}]
  BY ConstantsAssumption DEF ConstantsAssumption, Calls, Outbounds, TypeOK
<1> DEFINE Goal == chan'[r] = "answer" \/ result'[r] = "answer" => r \in answered'
<1> USE DEF AnswerInv, callers, replies, server
<1>1. ASSUME UNCHANGED <<result, chan, answered>> PROVE Goal
  BY <1>1
<1>2. ASSUME WakeAllWaiters, UNCHANGED <<result, answered>> PROVE Goal
  BY <1>2 DEF WakeAllWaiters
<1>3. ASSUME NEW x \in Outbounds, NEW v \in Results, v = "answer" => x \notin Requests \/ chan[x] = "answer",
             result' = [result EXCEPT ![x] = v], UNCHANGED <<chan, answered>>
      PROVE  Goal
  BY <1>3, <1>0
<1>4. ASSUME NEW c \in Calls, Start(c) \/ AcquireSlot(c) PROVE Goal
  BY <1>4, <1>1 DEF Start, AcquireSlot
<1>5. ASSUME NEW b \in Batches, StartClose(b) PROVE Goal
  BY <1>5, <1>0, <1>1, <1>3 DEF StartClose, Returns, Results
<1>6. ASSUME NEW c \in Calls, CheckFailed(c) PROVE Goal
  BY <1>6, <1>0, <1>1, <1>3 DEF CheckFailed, Fails, Results
<1>7. ASSUME NEW x \in Outbounds, Enqueue(x) \/ Overflow(x) PROVE Goal
  BY <1>7, <1>1 DEF Enqueue, Overflow
<1>8. ASSUME NEW x \in Outbounds, FailClient(x) \/ Cancel(x) PROVE Goal
  BY <1>8, <1>3 DEF FailClient, Cancel, Fails, Returns, Results
<1>9. ASSUME NEW x \in Outbounds, AckArrives(x) PROVE Goal
  BY <1>9, <1>0, <1>1, <1>3 DEF AckArrives, Fails, Returns, Results
<1>10. ASSUME NEW c \in Requests, Receive(c) PROVE Goal
  <2>1. chan[c] \in Results /\ c \in Outbounds
    BY <1>10, <1>0 DEF Results, Receive
  <2> QED BY <1>10, <2>1, <1>3 DEF Receive, Returns
<1>11. ASSUME NEW c \in Requests, TimeoutFires(c) PROVE Goal
  BY <1>11, <1>0, <1>3 DEF TimeoutFires, Fails, Results
<1>12. ASSUME NEW c \in Requests, Unregister(c) PROVE Goal
  BY <1>12, <1>1 DEF Unregister
<1>13. ASSUME NEW c \in Requests, ServerResponds(c) PROVE Goal
  BY <1>13, <1>0 DEF ServerResponds, Dispatch
<1>14. ASSUME NEW c \in Requests, ServerAsks(c) PROVE Goal
  BY <1>14 DEF ServerAsks
<1>15. ASSUME WriterDrain \/ SpawnedDrain \/ ReaderDies PROVE Goal
  BY <1>15, <1>2 DEF WriterDrain, SpawnedDrain, ReaderDies
<1>16. ASSUME \/ WriterRecv \/ WriterCheck \/ WriteFrame \/ WriteDone \/ WriteFails
              \/ WriterPoison \/ WriterAck \/ WriterDrop \/ WriterAborted \/ UNCHANGED vars
       PROVE  Goal
  BY <1>16, <1>1 DEF WriterRecv, WriterCheck, WriteFrame, WriteDone, WriteFails, WriterPoison,
                     WriterAck, WriterDrop, WriterAborted, vars
<1> QED
  BY <1>4, <1>5, <1>6, <1>7, <1>8, <1>9, <1>10, <1>11, <1>12, <1>13, <1>14, <1>15, <1>16
     DEF Next, CallerNext, WriterNext, ReaderNext, Finished

\* Of a server that sends no requests of its own, a request returns as its result
\* only what the server said in response to it.
THEOREM AnswersAreResponsesHold == ~ServerTalks => (Spec => []AnswersAreResponses)
<1>1. Init => AnswerInv
  BY DEF Init, AnswerInv, Calls, Outbounds
<1>2. AnswerInv => AnswersAreResponses
  BY DEF AnswerInv, AnswersAreResponses
<1> SUFFICES ASSUME ~ServerTalks PROVE Spec => []AnswersAreResponses
  OBVIOUS
<1>3. TypeOK /\ AnswerInv /\ [Next]_vars => AnswerInv'
  BY AnswerInvStep
<1> QED BY <1>1, <1>2, <1>3, TypeCorrect, PTL DEF Spec

-----------------------------------------------------------------------------
(* Nobody waits out the timeout of a client known to have failed. *)

\* The frame of r is, or is about to be acknowledged as, written.
Going(r) == r = current /\ (wpc = "write" \/ (wpc = "ack" /\ ~werr))

\* A registered request can still be acknowledged only before the announcement:
\* what is written after it was begun before it, and its waiter is gone.
AnnouncedInv == Announced => \A r \in waiters : ack[r] # "ok" /\ ~Going(r)

FailureInv == (aborted => failed) /\ AnnouncedInv

LEMMA FailureInvStep == TypeOK /\ SlotInv /\ FailureInv /\ [Next]_vars => FailureInv'
<1> SUFFICES ASSUME TypeOK, Fresh, FailureInv, [Next]_vars PROVE FailureInv'
  BY DEF SlotInv
<1>0. /\ Requests \subseteq Outbounds /\ Calls \subseteq Outbounds /\ waiters \subseteq Requests
      /\ None \notin Outbounds /\ ack \in [Outbounds -> {"none", "ok", "err", "dropped"}]
      /\ current \in Outbounds \cup {None}
  BY ConstantsAssumption DEF ConstantsAssumption, Calls, Outbounds, TypeOK
<1> USE DEF FailureInv, AnnouncedInv, Announced, Going, failure, writer, replies
<1>1. ASSUME UNCHANGED <<failure, writer, ack>>, waiters' \subseteq waiters PROVE FailureInv'
  BY <1>1
<1>2. ASSUME NEW c \in Calls, Start(c) PROVE FailureInv'
  BY <1>2, <1>0 DEF Start, Goes, Fresh
<1>3. ASSUME WakeAllWaiters, failed' = failed, aborted' = aborted PROVE FailureInv'
  BY <1>3 DEF WakeAllWaiters
<1>4. ASSUME NEW x \in Outbounds, FailClient(x) PROVE FailureInv'
  BY <1>4 DEF FailClient, FailWriter
<1>5. ASSUME WriterDies, UNCHANGED <<failure, waiters>>, aborted \/ wpc # "drain" PROVE FailureInv'
  BY <1>5, <1>0 DEF WriterDies
<1>6. ASSUME WriterRecv \/ WriteFrame \/ WriteDone \/ WriteFails \/ WriterPoison PROVE FailureInv'
  BY <1>6 DEF WriterRecv, WriteFrame, WriteDone, WriteFails, WriterPoison
<1>7. ASSUME WriterAck PROVE FailureInv'
  BY <1>7, <1>0 DEF WriterAck
<1>8. ASSUME WriterCheck \/ WriterDrop \/ WriterAborted PROVE FailureInv'
  <2>1. CASE WriterDies
    BY <1>8, <2>1, <1>5 DEF WriterCheck, WriterDrop, WriterAborted
  <2>2. CASE WriterCheck /\ ~failed
    BY <2>2 DEF WriterCheck
  <2>3. CASE WriterDrop /\ ~WriterDies
    BY <2>3, <1>0 DEF WriterDrop
  <2> QED BY <1>8, <2>1, <2>2, <2>3 DEF WriterCheck, WriterAborted
<1>9. ASSUME WriterDrain \/ SpawnedDrain \/ ReaderDies PROVE FailureInv'
  BY <1>9, <1>3 DEF WriterDrain, SpawnedDrain, ReaderDies
<1>10. ASSUME NEW c \in Requests, Unregister(c) \/ Receive(c) \/ TimeoutFires(c) PROVE FailureInv'
  BY <1>10, <1>1 DEF Unregister, Receive, TimeoutFires
<1>11. ASSUME NEW c \in Requests, ServerResponds(c) \/ ServerAsks(c) PROVE FailureInv'
  BY <1>11, <1>1 DEF ServerResponds, ServerAsks, Dispatch
<1>12. ASSUME NEW b \in Batches, StartClose(b) PROVE FailureInv'
  BY <1>12, <1>1 DEF StartClose
<1>13. ASSUME NEW c \in Calls, AcquireSlot(c) \/ CheckFailed(c) PROVE FailureInv'
  BY <1>13, <1>1 DEF AcquireSlot, CheckFailed
<1>14. ASSUME NEW x \in Outbounds, Enqueue(x) \/ Overflow(x) \/ AckArrives(x) \/ Cancel(x) PROVE FailureInv'
  BY <1>14, <1>1 DEF Enqueue, Overflow, AckArrives, Cancel
<1>15. ASSUME UNCHANGED vars PROVE FailureInv'
  BY <1>15, <1>1 DEF vars
<1> QED
  BY <1>2, <1>4, <1>6, <1>7, <1>8, <1>9, <1>10, <1>11, <1>12, <1>13, <1>14, <1>15
     DEF Next, CallerNext, WriterNext, ReaderNext, Finished

\* Once the failure has been announced, no registered request has had its
\* frame acknowledged: none is left to wait out its ten seconds.
THEOREM NoWaiterAfterFailureHolds == Spec => []NoWaiterAfterFailure
<1>1. Init => FailureInv
  BY DEF Init, FailureInv, AnnouncedInv, Announced
<1>2. FailureInv => NoWaiterAfterFailure
  BY DEF FailureInv, AnnouncedInv, NoWaiterAfterFailure
<1> QED BY <1>1, <1>2, TypeCorrect, SlotInvInit, SlotInvStep, FailureInvStep, PTL DEF Spec

\* Once the flag is set, only the frames of the message being written go on:
\* no further message is begun.
THEOREM FailClosed == Spec => NothingBegunAfterFailure
<1>1. [Next]_vars => [failed /\ wpc # "write" => UNCHANGED written /\ wpc' # "write"]_vars
  BY DEF Next, CallerNext, WriterNext, ReaderNext, Finished, vars, writer, failure,
         Start, StartClose, AcquireSlot, CheckFailed, Enqueue, Overflow, FailClient, AckArrives, Receive,
         TimeoutFires, Unregister, Cancel, WriterRecv, WriterCheck, WriteFrame, WriteDone,
         WriteFails, WriterPoison, WriterDrain, WriterAck, WriterDrop, WriterAborted,
         SpawnedDrain, ServerResponds, ServerAsks, ReaderDies, Dispatch, WriterDies
<1> QED BY <1>1, PTL DEF Spec, NothingBegunAfterFailure

-----------------------------------------------------------------------------
(* Nobody waits for nothing: the safety half of EveryCallReturns.            *)

\* Only requests wait for an answer, and batches take no slot.
CallsOfTheirKind ==
  /\ \A x \in Outbounds \ Requests : pc[x] \notin {"reply", "unregister"}
  /\ \A x \in Outbounds \ Calls : pc[x] \notin {"acquire", "check"}

\* Whoever waits for an acknowledgment has it, or its message is in the channel
\* or in the hands of a writer that has not told it yet.
AckIsOwed ==
  \A x \in Outbounds : pc[x] = "ack" =>
    ack[x] # "none" \/ x \in Range(queue) \/ (x = current /\ wpc # "drop")

\* A client that failed without an abort failed in the writer task, which ends.
AbortIsOwed ==
  /\ failed /\ ~aborted => wpc = "dead" \/ (wpc \in {"drain", "ack", "drop"} /\ werr)
  /\ wpc = "poison" => werr

\* A writer task that ended left nothing behind, and one at work holds a message.
NothingLeft ==
  /\ wpc = "dead" => queue = <<>> /\ current = None
  /\ wpc \notin {"recv", "dead"} => current # None

WaitInv ==
  /\ CallsOfTheirKind /\ AckIsOwed /\ AbortIsOwed /\ NothingLeft
  /\ \A x \in Outbounds : written[x] <= Frames[x]

LEMMA WaitInvStep == TypeOK /\ SlotInv /\ WaitInv /\ [Next]_vars => WaitInv'
<1> SUFFICES ASSUME TypeOK, SlotInv, WaitInv, [Next]_vars PROVE WaitInv'
  OBVIOUS
<1>0. /\ Calls \subseteq Outbounds /\ Requests \subseteq Calls /\ Batches \subseteq Outbounds
      /\ Calls \cap Batches = {} /\ None \notin Outbounds
      /\ pc \in [Outbounds -> CallerStates]
      /\ ack \in [Outbounds -> {"none", "ok", "err", "dropped"}]
      /\ queue \in Seq(Outbounds) /\ current \in Outbounds \cup {None}
      /\ written \in [Outbounds -> Nat] /\ Frames \in [Outbounds -> Nat]
  BY ConstantsAssumption DEF ConstantsAssumption, Calls, Outbounds, TypeOK, Frames
<1> USE DEF WaitInv, CallsOfTheirKind, AckIsOwed, AbortIsOwed, NothingLeft, callers, writer, failure, server
<1>move. ASSUME NEW x \in Outbounds, NEW s \in CallerStates \ {"ack"}, pc' = [pc EXCEPT ![x] = s],
                s \in {"reply", "unregister"} => x \in Requests,
                s \in {"acquire", "check"} => x \in Calls,
                UNCHANGED <<queue, ack, writer, written>>,
                UNCHANGED <<failed, aborted>> \/ (failed' /\ aborted' = (aborted \/ ~failed))
         PROVE  WaitInv'
  <2>1. CallsOfTheirKind' /\ AckIsOwed'
    BY <1>move, <1>0
  <2>2. AbortIsOwed'
    <3>1. UNCHANGED <<wpc, werr>>
      BY <1>move
    <3>2. failed' /\ ~aborted' => failed /\ ~aborted
      BY <1>move, Zenon
    <3> QED BY <3>1, <3>2
  <2> QED BY <1>move, <2>1, <2>2
<1>dies. ASSUME WriterDies, UNCHANGED <<pc, failed, aborted, written>> PROVE WaitInv'
  <2>1. AckIsOwed'
    BY <1>dies, <1>0 DEF WriterDies, Lost
  <2> QED BY <1>dies, <2>1 DEF WriterDies
<1>1. ASSUME NEW c \in Calls, Start(c) \/ AcquireSlot(c) PROVE WaitInv'
  BY <1>1, <1>0, <1>move DEF Start, AcquireSlot, Goes, CallerStates
<1>2. ASSUME NEW b \in Batches, StartClose(b) PROVE WaitInv'
  BY <1>2, <1>0, <1>move DEF StartClose, Goes, Returns, CallerStates
<1>3. ASSUME NEW c \in Calls, CheckFailed(c) PROVE WaitInv'
  BY <1>3, <1>0, <1>move DEF CheckFailed, Goes, Fails, CallerStates
<1>4. ASSUME NEW x \in Outbounds, Enqueue(x) PROVE WaitInv'
  <2>1. Range(queue') = Range(queue) \cup {x}
    BY <1>4, <1>0, AppendRange DEF Enqueue
  <2> QED BY <1>4, <1>0, <2>1 DEF Enqueue, Goes, ChannelTakes
<1>5. ASSUME NEW x \in Outbounds, Overflow(x) \/ FailClient(x) PROVE WaitInv'
  BY <1>5, <1>0, <1>move DEF Overflow, FailClient, FailWriter, Goes, Fails, CallerStates
<1>6. ASSUME NEW x \in Outbounds, AckArrives(x) \/ Cancel(x) PROVE WaitInv'
  BY <1>6, <1>0, <1>move DEF AckArrives, Cancel, Goes, Returns, Fails, CallerStates
<1>7. ASSUME NEW c \in Requests, Receive(c) \/ TimeoutFires(c) \/ Unregister(c) PROVE WaitInv'
  BY <1>7, <1>0, <1>move DEF Receive, TimeoutFires, Unregister, Goes, Returns, Fails, CallerStates
<1>8. ASSUME WriterRecv PROVE WaitInv'
  <2>1. Range(queue) = Range(queue') \cup {current'}
    BY <1>8, <1>0, HeadTailRange DEF WriterRecv
  <2>2. current' \in Outbounds
    BY <1>8, <1>0 DEF WriterRecv
  <2> QED BY <1>8, <1>0, <2>1, <2>2 DEF WriterRecv, SlotInv, EmptyHand
<1>9. ASSUME WriterCheck \/ WriterDrop \/ WriterAborted PROVE WaitInv'
  <2>1. CASE WriterDies
    BY <1>9, <2>1, <1>dies DEF WriterCheck, WriterDrop, WriterAborted
  <2>2. CASE WriterCheck /\ ~failed
    BY <2>2 DEF WriterCheck
  <2>3. CASE WriterDrop /\ ~werr
    BY <2>3, <1>0 DEF WriterDrop
  <2> QED BY <1>9, <2>1, <2>2, <2>3 DEF WriterCheck, WriterDrop, WriterAborted
<1>10. ASSUME WriteFrame PROVE WaitInv'
  <2>1. current \in Outbounds => written'[current] <= Frames[current]
    BY <1>10, <1>0 DEF WriteFrame
  <2>2. \A x \in Outbounds : written'[x] <= Frames[x]
    BY <1>10, <1>0, <2>1 DEF WriteFrame
  <2> QED BY <1>10, <2>2 DEF WriteFrame
<1>11. ASSUME WriteDone \/ WriteFails \/ WriterPoison \/ WriterDrain PROVE WaitInv'
  BY <1>11 DEF WriteDone, WriteFails, WriterPoison, WriterDrain
<1>12. ASSUME WriterAck PROVE WaitInv'
  BY <1>12, <1>0 DEF WriterAck
<1>13. ASSUME SpawnedDrain \/ ReaderDies \/ UNCHANGED vars PROVE WaitInv'
  BY <1>13 DEF SpawnedDrain, ReaderDies, vars
<1>14. ASSUME NEW c \in Requests, ServerResponds(c) \/ ServerAsks(c) PROVE WaitInv'
  BY <1>14 DEF ServerResponds, ServerAsks, Dispatch
<1> QED
  BY <1>1, <1>2, <1>3, <1>4, <1>5, <1>6, <1>7, <1>8, <1>9, <1>10, <1>11, <1>12, <1>13, <1>14
     DEF Next, CallerNext, WriterNext, ReaderNext, Finished

\* While a call is under way somebody can go on: whoever waits for the slot waits
\* for a message that is on its way, and whoever waits for an acknowledgment for
\* a writer task that owes it.
THEOREM NobodyIsStuckHolds == Spec => []NobodyIsStuck
<1>1. Init => WaitInv
  <2>1. \A x \in Outbounds : 0 <= Frames[x]
    BY ConstantsAssumption DEF ConstantsAssumption, Outbounds, Frames
  <2> QED BY <2>1 DEF Init, WaitInv, CallsOfTheirKind, AckIsOwed, AbortIsOwed, NothingLeft
<1>2. TypeOK /\ SlotInv /\ WaitInv => NobodyIsStuck
  <2> SUFFICES ASSUME TypeOK, SlotInv, WaitInv, NEW x \in Outbounds, Active(x)
               PROVE  WriterCanGoOn \/ ServerIsToRead \/ \E y \in Outbounds : CallerCanGoOn(y)
    BY DEF NobodyIsStuck
  <2>0. /\ Calls \subseteq Outbounds /\ Requests \subseteq Calls /\ permit \in Calls \cup {None}
        /\ pc[x] \in CallerStates /\ wpc \in WriterStates /\ current \in Outbounds \cup {None}
        /\ queue = <<>> => Range(queue) = {}
        /\ None \notin Outbounds /\ written \in [Outbounds -> Nat] /\ Frames \in [Outbounds -> Nat]
    BY ConstantsAssumption DEF ConstantsAssumption, TypeOK, Calls, Outbounds, Frames, Range
  \* A message in the channel or in the writer's hands moves on.
  <2>1. ASSUME queue # <<>> \/ (current # None) PROVE WriterCanGoOn \/ ServerIsToRead
    <3>1. wpc \notin {"dead"} /\ (wpc = "recv" => queue # <<>>)
      BY <2>1 DEF WaitInv, NothingLeft, SlotInv, EmptyHand
    <3>2. CASE wpc = "write"
      <4>1. failed => aborted
        BY <3>2 DEF WaitInv, AbortIsOwed
      <4>2. written[current] < Frames[current] \/ written[current] = Frames[current]
        <5>1. current \in Outbounds
          BY <2>0, <3>2 DEF WaitInv, NothingLeft
        <5>2. written[current] \in Nat /\ Frames[current] \in Nat /\ written[current] <= Frames[current]
          BY <2>0, <5>1 DEF WaitInv
        <5> QED BY ONLY <5>2
      <4> QED BY <3>2, <4>1, <4>2 DEF WriterCanGoOn, ServerIsToRead
    <3> QED BY <2>0, <3>1, <3>2 DEF WriterCanGoOn, WriterStates
  <2>2. CASE pc[x] = "ack"
    BY <2>0, <2>1, <2>2 DEF WaitInv, AckIsOwed, CallerCanGoOn
  <2>3. CASE pc[x] = "acquire"
    <3>1. CASE permit = None
      BY <2>3, <3>1 DEF WaitInv, CallsOfTheirKind, CallerCanGoOn
    <3>2. CASE permit # None
      BY <2>0, <2>1, <3>2 DEF SlotInv, SlotComesBack, Pending, CallerCanGoOn
    <3> QED BY <3>1, <3>2
  <2> QED BY <2>0, <2>2, <2>3 DEF Active, CallerStates, WaitInv, CallsOfTheirKind, CallerCanGoOn
<1> QED BY <1>1, <1>2, TypeCorrect, SlotInvInit, SlotInvStep, WaitInvStep, PTL DEF Spec

-----------------------------------------------------------------------------
(* The client implements OrderedOutbox. *)

\* How many of the accepted messages the writer task has taken.
Taken == Len(accepted) - Len(queue)

\* The channel holds exactly the accepted messages not taken yet, in order,
\* and nobody has been told anything about them.
ChannelInv ==
  /\ Len(queue) <= Len(accepted)
  /\ \A i \in 1 .. Len(queue) : queue[i] = accepted[Taken + i] /\ ack[queue[i]] = "none"

\* The message the writer task holds is the last one it took, and every one
\* before it was acknowledged as written.
HandInv ==
  /\ wpc = "recv" => current = None
  /\ wpc # "recv" => current # None /\ Taken >= 1 /\ accepted[Taken] = current
  /\ \A j \in 1 .. Taken : ack[accepted[j]] = "ok" \/ (j = Taken /\ wpc # "recv")
  /\ wpc \in {"check", "write", "poison", "drain", "ack"} => ack[current] = "none"
  /\ wpc = "drop" => ack[current] = IF werr THEN "err" ELSE "ok"

\* What the writer task knows of the write of the message it holds.
WriteInv ==
  /\ wpc \in {"poison", "drain"} \/ (wpc = "ack" /\ werr) => written[current] < Frames[current]
  /\ wpc = "ack" /\ ~werr => written[current] = Frames[current]
  /\ wpc \in {"poison", "drain"} => werr
  /\ wpc \in {"drain", "ack", "drop"} /\ werr => failed

\* Nothing is accepted twice.
AcceptedInv ==
  /\ IsInjective(accepted)
  /\ \A x \in Outbounds : pc[x] \in {"idle", "acquire", "check", "send"} => x \notin Range(accepted)

PathInv == AcceptedInv /\ (wpc # "dead" => ChannelInv /\ HandInv /\ WriteInv)

LEMMA PathInvInit == Init => PathInv
<1> SUFFICES ASSUME Init PROVE PathInv
  OBVIOUS
<1>1. accepted = <<>> /\ Range(accepted) = {} /\ IsInjective(accepted) /\ queue = <<>>
  BY DEF Init, Range, IsInjective
<1>2. Len(accepted) = 0 /\ Len(queue) = 0
  BY <1>1
<1>3. AcceptedInv
  BY <1>1 DEF AcceptedInv
<1>4. ChannelInv /\ HandInv /\ WriteInv
  BY <1>2 DEF Init, ChannelInv, HandInv, WriteInv, Taken
<1> QED BY <1>3, <1>4 DEF PathInv

LEMMA PathInvStep == TypeOK /\ SlotInv /\ PathInv /\ [Next]_vars => PathInv'
<1> SUFFICES ASSUME TypeOK, SlotInv, PathInv, [Next]_vars PROVE PathInv'
  OBVIOUS
<1>0. /\ Calls \subseteq Outbounds /\ Requests \subseteq Outbounds /\ Batches \subseteq Outbounds
      /\ None \notin Outbounds
      /\ pc \in [Outbounds -> CallerStates]
      /\ ack \in [Outbounds -> {"none", "ok", "err", "dropped"}]
      /\ queue \in Seq(Outbounds) /\ accepted \in Seq(Outbounds)
      /\ current \in Outbounds \cup {None}
      /\ written \in [Outbounds -> Nat]
      /\ Frames \in [Outbounds -> Nat]
      /\ wpc \in WriterStates
  BY ConstantsAssumption DEF ConstantsAssumption, Calls, Outbounds, TypeOK, Frames
<1>l. Len(queue) \in Nat /\ Len(accepted) \in Nat /\ Taken \in Int
  BY <1>0 DEF Taken
<1>same. ASSUME UNCHANGED <<accepted, queue, ack, written, writer>>, failed => failed',
                \A x \in Outbounds : pc'[x] \in {"idle", "acquire", "check", "send"}
                                     => pc[x] \in {"idle", "acquire", "check", "send"}
         PROVE  PathInv'
  BY <1>same DEF PathInv, AcceptedInv, ChannelInv, HandInv, WriteInv, Taken, writer
<1>writer. ASSUME UNCHANGED <<accepted, pc>>, wpc' # "dead" => (ChannelInv /\ HandInv /\ WriteInv)'
           PROVE  PathInv'
  BY <1>writer DEF PathInv, AcceptedInv
<1>dies. ASSUME WriterDies, UNCHANGED <<accepted, pc>> PROVE PathInv'
  BY <1>dies, <1>writer DEF WriterDies
<1>1. ASSUME NEW c \in Calls, Start(c) \/ AcquireSlot(c) \/ CheckFailed(c) PROVE PathInv'
  <2>1. UNCHANGED <<accepted, queue, ack, written, writer, failed>>
    BY <1>1 DEF Start, AcquireSlot, CheckFailed, failure
  <2>2. /\ pc[c] \in {"idle", "acquire", "check"}
        /\ \A x \in Outbounds \ {c} : pc'[x] = pc[x]
    BY <1>1, <1>0 DEF Start, AcquireSlot, CheckFailed, Goes, Fails
  <2> QED BY <2>1, <2>2, <1>same
<1>2. ASSUME NEW x \in Outbounds, Overflow(x) \/ FailClient(x) \/ AckArrives(x) \/ Cancel(x)
      PROVE  PathInv'
  <2>1. UNCHANGED <<accepted, queue, ack, written, writer>> /\ (failed => failed')
    BY <1>2 DEF Overflow, FailClient, AckArrives, Cancel, FailWriter, failure
  <2>2. /\ pc[x] = "send" \/ pc'[x] \notin {"idle", "acquire", "check", "send"}
        /\ \A y \in Outbounds \ {x} : pc'[y] = pc[y]
    BY <1>2, <1>0 DEF Overflow, FailClient, AckArrives, Cancel, Goes, Fails, Returns
  <2> QED BY <2>1, <2>2, <1>same
<1>3. ASSUME NEW c \in Requests, Receive(c) \/ TimeoutFires(c) \/ Unregister(c) PROVE PathInv'
  <2>1. UNCHANGED <<accepted, queue, ack, written, writer, failed>>
    BY <1>3 DEF Receive, TimeoutFires, Unregister, failure
  <2>2. \A y \in Outbounds : pc'[y] = pc[y] \/ pc'[y] \notin {"idle", "acquire", "check", "send"}
    BY <1>3, <1>0 DEF Receive, TimeoutFires, Unregister, Goes, Fails, Returns
  <2> QED BY <2>1, <2>2, <1>same
<1>4. ASSUME NEW b \in Batches, StartClose(b) PROVE PathInv'
  <2>1. UNCHANGED <<accepted, queue, ack, written, writer, failed>>
    BY <1>4 DEF StartClose, failure
  <2>2. pc[b] = "idle" /\ \A y \in Outbounds \ {b} : pc'[y] = pc[y]
    BY <1>4, <1>0 DEF StartClose, Goes, Returns
  <2> QED BY <2>1, <2>2, <1>same
<1>5. ASSUME NEW x \in Outbounds, Enqueue(x) PROVE PathInv'
  <2>1. /\ pc[x] = "send" /\ pc' = [pc EXCEPT ![x] = "ack"] /\ wpc # "dead"
        /\ queue' = Append(queue, x) /\ accepted' = Append(accepted, x)
        /\ UNCHANGED <<ack, written, wpc, current, werr, failed>>
    BY <1>5 DEF Enqueue, Goes, ChannelTakes, writer, failure
  <2>2. x \notin Range(accepted)
    BY <2>1 DEF PathInv, AcceptedInv
  <2>3. AcceptedInv'
    <3>1. Range(accepted') = Range(accepted) \cup {x} /\ IsInjective(accepted')
      BY <2>1, <2>2, <1>0, AppendRange DEF PathInv, AcceptedInv
    <3> QED BY <3>1, <2>1, <1>0 DEF PathInv, AcceptedInv
  <2>4. /\ Len(queue') = Len(queue) + 1 /\ Len(accepted') = Len(accepted) + 1 /\ Taken' = Taken
        /\ \A i \in 1 .. Len(queue) : queue'[i] = queue[i]
        /\ \A i \in 1 .. Len(accepted) : accepted'[i] = accepted[i]
        /\ queue'[Len(queue) + 1] = x /\ accepted'[Len(accepted) + 1] = x
    BY <2>1, <1>0 DEF Taken
  <2>5. ack[x] = "none"
    BY <2>1 DEF SlotInv, Fresh
  <2>6. ChannelInv'
    <3>1. ChannelInv
      BY <2>1 DEF PathInv
    <3>2. Len(queue') <= Len(accepted')
      BY <3>1, <2>4, <1>l DEF ChannelInv
    <3>3. ASSUME NEW i \in 1 .. Len(queue')
          PROVE  queue'[i] = accepted'[Taken' + i] /\ ack'[queue'[i]] = "none"
      <4>1. CASE i \in 1 .. Len(queue)
        <5>1. Taken + i \in 1 .. Len(accepted)
          BY <4>1, <3>1, <1>l DEF ChannelInv, Taken
        <5> QED BY <4>1, <5>1, <3>1, <2>1, <2>4 DEF ChannelInv
      <4>2. CASE i = Len(queue) + 1
        <5>1. Taken + i = Len(accepted) + 1
          BY <4>2, <1>l DEF Taken
        <5> QED BY <4>2, <5>1, <2>1, <2>4, <2>5
      <4> QED BY <4>1, <4>2, <2>4, <1>l
    <3> QED BY <3>2, <3>3 DEF ChannelInv
  <2>7. HandInv' /\ WriteInv'
    <3>1. ChannelInv /\ HandInv /\ WriteInv
      BY <2>1 DEF PathInv
    <3>2. \A j \in 1 .. Taken : accepted'[j] = accepted[j]
      BY <3>1, <2>4, <1>l DEF ChannelInv, Taken
    <3>3. Taken >= 1 => Taken \in 1 .. Taken
      BY <1>l
    <3> QED BY <3>1, <3>2, <3>3, <2>1, <2>4 DEF HandInv, WriteInv
  <2> QED BY <2>3, <2>6, <2>7 DEF PathInv
<1>6. ASSUME WriterRecv PROVE PathInv'
  <2>1. /\ wpc = "recv" /\ wpc' = "check" /\ queue # <<>> /\ current' = Head(queue) /\ queue' = Tail(queue)
        /\ UNCHANGED <<accepted, pc, ack, written, werr, failed>>
    BY <1>6 DEF WriterRecv, callers, failure
  <2>2. ChannelInv /\ HandInv /\ WriteInv
    BY <2>1 DEF PathInv
  <2>3. /\ Len(queue) >= 1 /\ Len(queue') = Len(queue) - 1 /\ Taken' = Taken + 1
        /\ current' = queue[1] /\ queue[1] \in Outbounds
        /\ \A i \in 1 .. Len(queue') : queue'[i] = queue[i + 1]
    BY <2>1, <1>0, <1>l DEF Taken
  <2>4. ChannelInv'
    BY <2>1, <2>2, <2>3, <1>l DEF ChannelInv, Taken
  <2>5. current' = accepted[Taken + 1] /\ ack[current'] = "none" /\ current' # None
    <3>1. 1 \in 1 .. Len(queue)
      BY <2>3, <1>l
    <3> QED BY <2>2, <2>3, <3>1, <1>0 DEF ChannelInv
  <2>6. HandInv'
    <3>1. ASSUME NEW j \in 1 .. Taken' PROVE ack[accepted[j]] = "ok" \/ j = Taken'
      BY <2>1, <2>2, <2>3, <1>l DEF HandInv
    <3> QED BY <3>1, <2>1, <2>2, <2>3, <2>5, <1>l DEF HandInv, ChannelInv, Taken
  <2>7. WriteInv'
    BY <2>1 DEF WriteInv
  <2> QED BY <2>1, <2>4, <2>6, <2>7, <1>writer
<1>7. ASSUME WriterCheck \/ WriterDrop \/ WriterAborted PROVE PathInv'
  <2>0. UNCHANGED <<accepted, pc, written, failed>>
    BY <1>7 DEF WriterCheck, WriterDrop, WriterAborted, callers, failure
  <2>1. CASE WriterDies
    BY <2>0, <2>1, <1>dies
  <2>2. CASE WriterCheck /\ ~WriterDies
    <3>1. wpc = "check" /\ wpc' = "write" /\ UNCHANGED <<queue, ack, current, werr>>
      BY <2>2 DEF WriterCheck
    <3> QED BY <3>1, <2>0, <1>writer DEF PathInv, ChannelInv, HandInv, WriteInv, Taken
  <2>3. CASE WriterDrop /\ ~WriterDies
    <3>1. wpc = "drop" /\ ~werr /\ wpc' = "recv" /\ current' = None /\ UNCHANGED <<queue, ack, werr>>
      BY <2>3 DEF WriterDrop
    <3>2. ChannelInv /\ HandInv
      BY <3>1 DEF PathInv
    <3>3. \A j \in 1 .. Taken : ack[accepted[j]] = "ok"
      BY <3>1, <3>2 DEF HandInv
    <3>4. Taken' = Taken
      BY <3>1, <2>0 DEF Taken
    <3>5. (ChannelInv /\ HandInv /\ WriteInv)'
      BY <3>1, <3>2, <3>3, <3>4, <2>0 DEF ChannelInv, HandInv, WriteInv
    <3> QED BY <3>5, <2>0, <1>writer
  <2> QED BY <1>7, <2>1, <2>2, <2>3 DEF WriterAborted
<1>8. ASSUME WriteFrame PROVE PathInv'
  <2>1. wpc = "write" /\ UNCHANGED <<accepted, pc, queue, ack, failed, wpc, current, werr>>
    BY <1>8 DEF WriteFrame, callers, failure, writer
  <2> QED BY <2>1, <1>writer DEF PathInv, ChannelInv, HandInv, WriteInv, Taken
<1>9. ASSUME WriteDone \/ WriteFails \/ WriterPoison \/ WriterDrain PROVE PathInv'
  <2>1. UNCHANGED <<accepted, pc, queue, ack, written, current>> /\ wpc # "dead" /\ wpc # "recv"
    BY <1>9 DEF WriteDone, WriteFails, WriterPoison, WriterDrain, callers
  <2>2. /\ wpc \in {"write", "poison", "drain"} /\ wpc' \in {"poison", "drain", "ack"}
        /\ (ChannelInv /\ HandInv)'
    BY <1>9, <2>1 DEF WriteDone, WriteFails, WriterPoison, WriterDrain, PathInv, ChannelInv, HandInv, Taken
  <2>3. WriteInv'
    BY <1>9, <2>1 DEF WriteDone, WriteFails, WriterPoison, WriterDrain, PathInv, WriteInv, failure
  <2> QED BY <2>1, <2>2, <2>3, <1>writer
<1>10. ASSUME WriterAck PROVE PathInv'
  <2>1. /\ wpc = "ack" /\ wpc' = "drop" /\ UNCHANGED <<accepted, pc, queue, written, current, werr, failed>>
        /\ ack' = [ack EXCEPT ![current] = IF werr THEN "err" ELSE "ok"]
    BY <1>10 DEF WriterAck, callers, failure
  <2>2. ChannelInv /\ HandInv /\ WriteInv /\ current \in Outbounds /\ current \notin Range(queue)
    BY <2>1, <1>0 DEF PathInv, HandInv, SlotInv, Once
  <2>3. ChannelInv'
    <3>1. \A i \in 1 .. Len(queue) : queue[i] # current
      BY <2>2, <1>0 DEF Range
    <3>2. \A i \in 1 .. Len(queue) : ack'[queue[i]] = ack[queue[i]]
      BY <2>1, <3>1, <1>0
    <3> QED BY <2>1, <2>2, <3>2 DEF ChannelInv, Taken
  <2>4. HandInv'
    <3>1. Taken' = Taken /\ UNCHANGED accepted
      BY <2>1 DEF Taken
    <3>2. ASSUME NEW j \in 1 .. Taken, j # Taken PROVE ack'[accepted[j]] = "ok"
      <4>1. ack[accepted[j]] = "ok" /\ ack[current] = "none"
        BY <3>2, <2>1, <2>2 DEF HandInv
      <4>2. accepted[j] # current
        BY <4>1
      <4> QED BY <2>1, <4>1, <4>2, <1>0, <1>l
    <3>3. ack'[current] = IF werr THEN "err" ELSE "ok"
      BY <2>1, <2>2, <1>0
    <3>4. current # None /\ Taken >= 1 /\ accepted[Taken] = current
      BY <2>1, <2>2 DEF HandInv
    <3> QED BY <2>1, <3>1, <3>2, <3>3, <3>4 DEF HandInv
  <2>5. WriteInv'
    BY <2>1, <2>2 DEF WriteInv
  <2> QED BY <2>1, <2>3, <2>4, <2>5, <1>writer
<1>11. ASSUME SpawnedDrain \/ ReaderDies \/ UNCHANGED vars PROVE PathInv'
  <2>1. UNCHANGED <<accepted, queue, ack, written, writer, failed, pc>>
    BY <1>11 DEF SpawnedDrain, ReaderDies, vars, callers, failure
  <2> QED BY <2>1, <1>same
<1>12. ASSUME NEW c \in Requests, ServerResponds(c) \/ ServerAsks(c) PROVE PathInv'
  <2>1. UNCHANGED <<accepted, queue, ack, written, writer, failed, pc>>
    BY <1>12 DEF ServerResponds, ServerAsks, Dispatch, callers, failure
  <2> QED BY <2>1, <1>same
<1> QED
  BY <1>1, <1>2, <1>3, <1>4, <1>5, <1>6, <1>7, <1>8, <1>9, <1>10, <1>11, <1>12
     DEF Next, CallerNext, WriterNext, ReaderNext, Finished

-----------------------------------------------------------------------------
(* Every step of the client is a step of the outbox, or none. *)

OutboxStep == [Outbox!OutboxNext]_(Outbox!outbox)

LEMMA RefinementStep == TypeOK /\ SlotInv /\ FailureInv /\ PathInv /\ [Next]_vars => OutboxStep
<1> SUFFICES ASSUME TypeOK, SlotInv, FailureInv, PathInv, [Next]_vars PROVE OutboxStep
  OBVIOUS
<1>0. /\ Calls \subseteq Outbounds /\ Requests \subseteq Outbounds /\ None \notin Outbounds
      /\ ack \in [Outbounds -> {"none", "ok", "err", "dropped"}]
      /\ queue \in Seq(Outbounds) /\ accepted \in Seq(Outbounds)
      /\ current \in Outbounds \cup {None}
      /\ wpc \in WriterStates
  BY ConstantsAssumption DEF ConstantsAssumption, Calls, Outbounds, TypeOK
<1>l. Len(queue) \in Nat /\ Len(accepted) \in Nat /\ Taken \in Int /\ DOMAIN accepted = 1 .. Len(accepted)
  BY <1>0 DEF Taken
<1>in. Taken >= 1 => Taken \in DOMAIN accepted
  BY <1>l DEF Taken
<1> USE DEF OutboxStep, Outbox!outbox
<1>stutter. ASSUME UNCHANGED <<accepted, written, ack>>, OutboxMode' = OutboxMode PROVE OutboxStep
  BY <1>stutter
<1>fail. ASSUME UNCHANGED <<accepted, written, ack>>, OutboxMode = "open", OutboxMode' = "failing"
         PROVE  OutboxStep
  BY <1>fail DEF Outbox!OutboxNext, Outbox!Fail
<1>turn. ASSUME wpc \in {"write", "ack"}
         PROVE  /\ Taken \in DOMAIN accepted /\ accepted[Taken] = current /\ Outbox!Turn(Taken)
  <2>1. ChannelInv /\ HandInv
    BY <1>turn DEF PathInv
  <2>2. Taken \in DOMAIN accepted /\ accepted[Taken] = current /\ ack[current] = "none"
    BY <1>turn, <2>1, <1>in DEF HandInv
  <2>3. ASSUME NEW j \in 1 .. (Taken - 1) PROVE ack[accepted[j]] = "ok"
    <3>1. j \in 1 .. Taken /\ j # Taken
      BY <1>l
    <3> QED BY <2>1, <3>1 DEF HandInv
  <2> QED BY <2>2, <2>3, <1>l DEF Outbox!Turn
<1>dies. ASSUME WriterDies, wpc # "dead", UNCHANGED <<accepted, written>> PROVE OutboxStep
  <2>1. ChannelInv /\ HandInv
    BY <1>dies DEF PathInv
  <2>2. ASSUME NEW x \in Outbounds, ack[x] = "none" PROVE x \in Lost <=> x \in Range(accepted)
    <3>1. ASSUME NEW i \in DOMAIN accepted, accepted[i] = x PROVE x \in Lost
      <4>1. CASE i \in 1 .. Taken
        <5>1. i = Taken /\ wpc # "recv"
          BY <2>1, <2>2, <3>1, <4>1 DEF HandInv
        <5> QED BY <2>1, <3>1, <5>1 DEF HandInv, Lost
      <4>2. CASE i > Taken
        <5>1. i - Taken \in 1 .. Len(queue) /\ queue[i - Taken] = accepted[Taken + (i - Taken)]
          BY <2>1, <4>2, <1>l DEF ChannelInv, Taken
        <5>2. Taken + (i - Taken) = i
          BY <1>l
        <5> QED BY <3>1, <5>1, <5>2, <1>0 DEF Lost, Range
      <4> QED BY <4>1, <4>2, <1>l
    <3>2. ASSUME x = current PROVE x \in Range(accepted)
      <4>1. Taken \in DOMAIN accepted /\ accepted[Taken] = x
        <5>1. wpc # "recv"
          BY <3>2, <2>1, <1>0 DEF HandInv
        <5> QED BY <3>2, <5>1, <2>1, <1>in DEF HandInv
      <4> QED BY <4>1 DEF Range
    <3>3. ASSUME NEW i \in DOMAIN queue, queue[i] = x PROVE x \in Range(accepted)
      <4>1. i \in 1 .. Len(queue) /\ Taken + i \in DOMAIN accepted /\ accepted[Taken + i] = x
        BY <3>3, <2>1, <1>0, <1>l DEF ChannelInv, Taken
      <4> QED BY <4>1 DEF Range
    <3> QED BY <3>1, <3>2, <3>3 DEF Lost, Range
  <2>3. OutboxMode # "closed" /\ OutboxMode' = "closed"
    BY <1>dies DEF WriterDies, OutboxMode
  <2>4. ack' = [x \in Outbounds |-> IF x \in Range(accepted) /\ ack[x] = "none" THEN "dropped" ELSE ack[x]]
    BY <1>dies, <2>2 DEF WriterDies
  <2> QED BY <2>3, <2>4, <1>dies DEF Outbox!OutboxNext, Outbox!Close, Outbox!Range, Range
<1>1. ASSUME NEW x \in Outbounds, Enqueue(x) PROVE OutboxStep
  <2>1. /\ wpc # "dead" /\ pc[x] = "send" /\ accepted' = Append(accepted, x)
        /\ UNCHANGED <<written, ack, wpc, failed>>
    BY <1>1 DEF Enqueue, ChannelTakes, Goes, writer, failure
  <2>2. x \notin Range(accepted) /\ OutboxMode # "closed" /\ OutboxMode' = OutboxMode
    BY <2>1 DEF PathInv, AcceptedInv, OutboxMode
  <2> QED BY <2>1, <2>2 DEF Outbox!OutboxNext, Outbox!Accept, Outbox!Range, Range
<1>2. ASSUME NEW x \in Outbounds, FailClient(x) PROVE OutboxStep
  <2>1. UNCHANGED <<accepted, written, ack, wpc>> /\ failed'
    BY <1>2 DEF FailClient, FailWriter, writer
  <2> QED BY <2>1, <1>stutter, <1>fail DEF OutboxMode
<1>3. ASSUME WriteFrame PROVE OutboxStep
  <2>1. /\ wpc = "write" /\ written[current] < Frames[current]
        /\ written' = [written EXCEPT ![current] = @ + 1]
        /\ UNCHANGED <<accepted, ack, wpc, failed>>
    BY <1>3 DEF WriteFrame, writer, failure
  <2>2. OutboxMode = "open" /\ OutboxMode' = OutboxMode
    BY <2>1 DEF OutboxMode
  <2> QED BY <2>1, <2>2, <1>turn DEF Outbox!OutboxNext, Outbox!Deliver
<1>4. ASSUME WriterAck PROVE OutboxStep
  <2>1. /\ wpc = "ack" /\ wpc' = "drop" /\ UNCHANGED <<accepted, written, failed>>
        /\ ack' = [ack EXCEPT ![current] = IF werr THEN "err" ELSE "ok"]
    BY <1>4 DEF WriterAck, failure
  <2>2. OutboxMode' = OutboxMode /\ OutboxMode # "closed" /\ WriteInv
    BY <2>1 DEF OutboxMode, PathInv
  <2>3. CASE werr
    <3>1. OutboxMode = "failing" /\ written[current] < Frames[current]
      BY <2>1, <2>2, <2>3 DEF OutboxMode, WriteInv
    <3> QED BY <2>1, <2>2, <2>3, <3>1, <1>turn DEF Outbox!OutboxNext, Outbox!Refuse, Outbox!Tell
  <2>4. CASE ~werr
    <3>1. written[current] = Frames[current]
      BY <2>1, <2>2, <2>4 DEF WriteInv
    <3> QED BY <2>1, <2>2, <2>4, <3>1, <1>turn DEF Outbox!OutboxNext, Outbox!Confirm, Outbox!Tell
  <2> QED BY <2>3, <2>4
<1>5. ASSUME WriterRecv \/ WriteDone \/ WriteFails \/ WriterPoison \/ WriterDrain PROVE OutboxStep
  BY <1>5, <1>stutter, <1>fail
     DEF WriterRecv, WriteDone, WriteFails, WriterPoison, WriterDrain, OutboxMode, failure
<1>6. ASSUME WriterCheck \/ WriterDrop \/ WriterAborted PROVE OutboxStep
  <2>1. CASE WriterDies
    BY <1>6, <2>1, <1>dies DEF WriterCheck, WriterDrop, WriterAborted
  <2>2. CASE ~WriterDies
    <3>1. /\ wpc \in {"check", "drop"} /\ wpc' \in {"write", "recv"} /\ (wpc' = "write" => ~failed)
          /\ UNCHANGED <<accepted, written, ack, failed>>
      BY <1>6, <2>2 DEF WriterCheck, WriterDrop, WriterAborted, failure
    <3> QED BY <3>1, <1>stutter DEF OutboxMode
  <2> QED BY <2>1, <2>2
<1>7. ASSUME NEW c \in Calls, Start(c) \/ AcquireSlot(c) \/ CheckFailed(c) PROVE OutboxStep
  BY <1>7, <1>stutter DEF Start, AcquireSlot, CheckFailed, OutboxMode, failure, writer
<1>8. ASSUME NEW c \in Requests, Receive(c) \/ TimeoutFires(c) \/ Unregister(c) PROVE OutboxStep
  BY <1>8, <1>stutter DEF Receive, TimeoutFires, Unregister, OutboxMode, failure, writer
<1>9. ASSUME NEW x \in Outbounds, Overflow(x) \/ AckArrives(x) \/ Cancel(x) PROVE OutboxStep
  BY <1>9, <1>stutter DEF Overflow, AckArrives, Cancel, OutboxMode, failure, writer
<1>10. ASSUME NEW b \in Batches, StartClose(b) PROVE OutboxStep
  BY <1>10, <1>stutter DEF StartClose, OutboxMode, failure, writer
<1>11. ASSUME NEW c \in Requests, ServerResponds(c) \/ ServerAsks(c) PROVE OutboxStep
  BY <1>11, <1>stutter DEF ServerResponds, ServerAsks, Dispatch, OutboxMode, failure, writer
<1>12. ASSUME SpawnedDrain \/ ReaderDies \/ UNCHANGED vars PROVE OutboxStep
  BY <1>12, <1>stutter DEF SpawnedDrain, ReaderDies, vars, OutboxMode, failure, writer
<1> QED
  BY <1>1, <1>2, <1>3, <1>4, <1>5, <1>6, <1>7, <1>8, <1>9, <1>10, <1>11, <1>12
     DEF Next, CallerNext, WriterNext, ReaderNext, Finished

\* The writer task, its channel, its permit and its flags implement the outbox.
THEOREM ClientImplementsOutbox == Spec => ImplementsOutbox
<1>1. Init => Outbox!OutboxInit
  BY DEF Init, Outbox!OutboxInit, OutboxMode
<1>2. Init => FailureInv
  BY DEF Init, FailureInv, AnnouncedInv, Announced
<1> QED
  BY <1>1, <1>2, TypeCorrect, SlotInvInit, SlotInvStep, FailureInvStep, PathInvInit, PathInvStep,
     RefinementStep, PTL DEF Spec, ImplementsOutbox, Outbox!OutboxSpec, OutboxStep

-----------------------------------------------------------------------------
(* What is proved of the outbox holds of the client. *)

OutboxTheorems == INSTANCE OrderedOutboxProofs WITH Items <- Outbounds, Size <- Frames, mode <- OutboxMode

LEMMA SameOutbox ==
  /\ Outbox!OutboxInit <=> OutboxTheorems!OutboxInit
  /\ [Outbox!OutboxNext]_(Outbox!outbox) <=> [OutboxTheorems!OutboxNext]_(OutboxTheorems!outbox)
  /\ Outbox!AckIsBarrier <=> OutboxTheorems!AckIsBarrier
  /\ Outbox!NoOvertaking <=> OutboxTheorems!NoOvertaking
<1>1. Outbox!OutboxInit <=> OutboxTheorems!OutboxInit
  BY DEF Outbox!OutboxInit, OutboxTheorems!OutboxInit
<1>2. [Outbox!OutboxNext]_(Outbox!outbox) <=> [OutboxTheorems!OutboxNext]_(OutboxTheorems!outbox)
  BY DEF Outbox!OutboxNext, OutboxTheorems!OutboxNext, Outbox!outbox, OutboxTheorems!outbox, Outbox!Accept, OutboxTheorems!Accept, Outbox!Deliver, OutboxTheorems!Deliver, Outbox!Turn, OutboxTheorems!Turn,
         Outbox!Confirm, OutboxTheorems!Confirm, Outbox!Refuse, OutboxTheorems!Refuse, Outbox!Tell, OutboxTheorems!Tell, Outbox!Fail, OutboxTheorems!Fail,
         Outbox!Close, OutboxTheorems!Close, Outbox!Range, OutboxTheorems!Range
<1>3. Outbox!AckIsBarrier <=> OutboxTheorems!AckIsBarrier
  BY DEF Outbox!AckIsBarrier, OutboxTheorems!AckIsBarrier, Outbox!Whole, OutboxTheorems!Whole
<1>4. Outbox!NoOvertaking <=> OutboxTheorems!NoOvertaking
  BY DEF Outbox!NoOvertaking, OutboxTheorems!NoOvertaking, Outbox!Whole, OutboxTheorems!Whole
<1> QED BY <1>1, <1>2, <1>3, <1>4

LEMMA FramesAreSizes == OutboxTheorems!Sizes
  BY ConstantsAssumption DEF ConstantsAssumption, Frames, Outbounds, OutboxTheorems!Sizes

\* A caller of the client is told its message was written only when every
\* message the channel took before it is with the server whole.
THEOREM ClientAckIsBarrier == Spec => []AckIsBarrier
<1>1. OutboxTheorems!OutboxSpec => []OutboxTheorems!AckIsBarrier
  BY FramesAreSizes, OutboxTheorems!AckIsBarrierHolds
<1> QED
  BY <1>1, ClientImplementsOutbox, SameOutbox, PTL
     DEF ImplementsOutbox, AckIsBarrier, Outbox!OutboxSpec, OutboxTheorems!OutboxSpec

\* The server never has a frame of one message before all messages accepted
\* before it are there whole.
THEOREM ClientNoOvertaking == Spec => []NoOvertaking
<1>1. OutboxTheorems!OutboxSpec => []OutboxTheorems!NoOvertaking
  BY FramesAreSizes, OutboxTheorems!NoOvertakingHolds
<1> QED
  BY <1>1, ClientImplementsOutbox, SameOutbox, PTL
     DEF ImplementsOutbox, NoOvertaking, Outbox!OutboxSpec, OutboxTheorems!OutboxSpec
=============================================================================
