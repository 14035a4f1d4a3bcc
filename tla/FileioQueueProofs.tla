-------------------------- MODULE FileioQueueProofs --------------------------
(***************************************************************************)
(* Proofs about the write queue of sbp_fileio_daemon, for every size of    *)
(* the ring, of the pipe and of the send buffer, and for any number of     *)
(* contexts and requests: type correctness, the integrity of queued        *)
(* requests, and their execution in order.                                 *)
(***************************************************************************)
EXTENDS FileioQueue, TLAPS

-----------------------------------------------------------------------------
(* The inductive invariant.                                                *)

\* The write thread has a request in hand that it has not finished.
InHand == wpc \in {"lock", "exec"}

\* writes_pending counts a request from wq_increment_pending_writes on; this
\* is the part of it that already has a slot.
Claimed == writes_pending - (IF mpc = "slot" THEN 1 ELSE 0)

\* Requests with a smaller id than this are already in the pipe, or past it.
Pushed == write_req_index - (IF mpc = "push" THEN 1 ELSE 0)

\* A pointer still to be followed: its slot is the one its id was given, the
\* slot still holds the request, and no more than Claimed requests were
\* handed out since, so that the ring has not come round to the slot.
Live(e) ==
  /\ e.slot = e.req.id % WQ_MAX_PENDING
  /\ e.req.id < Pushed
  /\ write_req_index - e.req.id <= Claimed
  /\ write_requests[e.slot] = e.req

\* Everything in the pipe is live, and in the order of the requests.
PipeLive ==
  \A i \in DOMAIN request_pipe :
    request_pipe[i].slot # NULL => Live(request_pipe[i])

PipeOrdered ==
  \A i, j \in DOMAIN request_pipe :
    i < j /\ request_pipe[i].slot # NULL /\ request_pipe[j].slot # NULL =>
      request_pipe[i].req.id < request_pipe[j].req.id

\* So is the request in hand, which precedes those in the pipe.
HandLive ==
  /\ wpc \in {"lock", "exec", "stage"} => wreq.slot # NULL
  /\ InHand =>
    /\ Live(wreq)
    /\ \A i \in DOMAIN request_pipe :
         request_pipe[i].slot # NULL => wreq.req.id < request_pipe[i].req.id

\* The counter never exceeds the ring, and covers the main thread's request.
CounterBounded ==
  /\ writes_pending <= WQ_MAX_PENDING
  /\ mpc = "slot" => writes_pending >= 1
  /\ mpc = "push" =>
       /\ write_req_index >= 1
       /\ writes_pending >= 1
       /\ write_requests[(write_req_index - 1) % WQ_MAX_PENDING].id = write_req_index - 1

\* With threading disabled nothing is ever queued.
NoThread ==
  disable_threading =>
    /\ wpc = "off"
    /\ mpc \notin {"start", "incr", "slot", "push"}
    /\ \A i \in DOMAIN request_pipe : request_pipe[i].slot = NULL

\* Requests carried out precede all that are live, and the one in hand.
ExecutedBefore ==
  ~disable_threading =>
    \A x \in executed :
      /\ x < Pushed
      /\ \A i \in DOMAIN request_pipe :
           request_pipe[i].slot # NULL => x < request_pipe[i].req.id
      /\ wpc = "lock" => x < wreq.req.id
      /\ wpc = "exec" => x <= wreq.req.id

QueueInv ==
  /\ TypeOK /\ PipeLive /\ PipeOrdered /\ HandLive /\ CounterBounded
  /\ NoThread /\ ExecutedBefore

-----------------------------------------------------------------------------
(* Arithmetic of the ring.                                                 *)

\* Two ids less than a ring apart are given different slots.
LEMMA SlotsDiffer ==
  ASSUME NEW W \in Nat \ {0}, NEW a \in Nat, NEW b \in Nat, a < b, b - a < W
  PROVE  a % W # b % W
<1> SUFFICES ASSUME a % W = b % W PROVE FALSE
  OBVIOUS
<1> DEFINE p == a \div W
           q == b \div W
<1>1. p \in Nat /\ a % W \in 0 .. (W - 1) /\ a = W * p + (a % W)
  BY SMT
<1>2. q \in Nat /\ b % W \in 0 .. (W - 1) /\ b = W * q + (b % W)
  BY SMT
<1>3. q - p \in Int
  BY <1>1, <1>2
<1>4. b - a = W * (q - p)
  BY <1>1, <1>2
<1>5. W * (q - p) > 0 /\ W * (q - p) < W
  BY <1>4
<1> QED
  BY <1>3, <1>5

\* The remainder of an id is a slot.
LEMMA SlotOfId == \A n \in Nat : n % WQ_MAX_PENDING \in Slot
  BY QueueAssumption, SMT DEF Slot

\* Nothing is queued before the first request.
LEMMA InitInv == Init => QueueInv
  BY QueueAssumption DEF Init, QueueInv, TypeOK, PipeLive, PipeOrdered, HandLive,
     InHand, CounterBounded, NoThread, ExecutedBefore, Ctx, Slot, SIZET_MAX,
     NULL, Request, NoRequest, Entry, NullEntry, MainStates, WriterStates, Pushed, Claimed



-----------------------------------------------------------------------------
(* Every step keeps the types.                                             *)

\* The cleared slot is an entry.
LEMMA NullEntryType == NullEntry \in Entry
  BY QueueAssumption DEF NullEntry, Entry, NoRequest, Request, Ctx, NULL

\* What flush_output_sbp sends are replies of its context.
LEMMA FlushedType ==
  ASSUME TypeOK, NEW c \in Ctx PROVE Flushed(c) \subseteq Nat \X Ctx
<1>1. sent \subseteq Nat \X Ctx /\ send_buffer[c] \in Seq(Nat)
  BY DEF TypeOK
<1>2. \A i \in DOMAIN send_buffer[c] : <<send_buffer[c][i], c>> \in Nat \X Ctx
  BY <1>1
<1> QED
  BY <1>1, <1>2 DEF Flushed

\* The pointer in hand leads to a slot that holds a request.
LEMMA HandType ==
  ASSUME QueueInv, wpc \in {"lock", "exec", "stage"}
  PROVE  /\ wreq.slot \in Slot
         /\ wreq.req \in Request
         /\ write_requests[wreq.slot] \in Request
  BY DEF QueueInv, TypeOK, HandLive, Entry

\* While a request is in hand it is counted.
LEMMA HandCounted ==
  ASSUME QueueInv, InHand
  PROVE  /\ writes_pending >= 1
         /\ mpc = "slot" => writes_pending >= 2
         /\ mpc = "push" => writes_pending >= 2
<1>1. wreq.req.id \in Nat /\ write_req_index \in Nat /\ writes_pending \in Nat
  BY HandType DEF QueueInv, TypeOK, InHand, Request
<1>2. Live(wreq)
  BY DEF QueueInv, HandLive
<1> QED
  BY <1>1, <1>2 DEF Live, Pushed, Claimed

\* A step of the write thread that changes replies only.
LEMMA ReplyType ==
  ASSUME TypeOK, wpc' \in {"read", "load"}, sent' \subseteq Nat \X Ctx,
         send_buffer' \in [Ctx -> Seq(Nat)], crashed' \in {"no", "assert", "ub"},
         UNCHANGED <<mainVars, wreq, wexp, wok, lock, queueVars, flush_pending,
                     disable_threading, executed, succeeded, writes, ops, buffers>>
  PROVE  TypeOK'
<1>1. /\ disable_threading' \in BOOLEAN
      /\ mpc' \in MainStates /\ mctx' \in Ctx /\ mexp' \in Ctx \cup {SIZET_MAX}
      /\ wpc' \in WriterStates /\ wreq' \in Entry
      /\ wexp' \in Ctx \cup {SIZET_MAX} /\ wok' \in BOOLEAN
      /\ lock' \in {"none", "main", "writer"}
  BY DEF TypeOK, WriterStates, mainVars
<1>2. /\ write_req_index' \in Nat /\ writes_pending' \in Nat
      /\ write_requests' \in [Slot -> Request] /\ request_pipe' \in Seq(Entry)
      /\ flush_pending' \in Ctx \cup {SIZET_MAX}
  BY DEF TypeOK, queueVars
<1>3. /\ executed' \subseteq Nat /\ succeeded' \subseteq Nat
      /\ writes' \in Nat /\ ops' \in Nat /\ buffers' \in Nat
  BY DEF TypeOK
<1> QED
  BY <1>1, <1>2, <1>3, Zenon DEF TypeOK

\* Every step of the two threads keeps the types.
LEMMA TypeStep == QueueInv /\ [Next]_vars => TypeOK'
<1> SUFFICES ASSUME QueueInv, [Next]_vars PROVE TypeOK'
  OBVIOUS
<1> USE DEF TypeOK, MainStates, WriterStates, mainVars, wtVars, queueVars,
        replyVars, histVars
<1>0. TypeOK
  BY DEF QueueInv
<1>1. CASE SetupCreateThread
  <2>1. /\ mpc' \in {"loop", "start"} /\ (wpc' = wpc \/ wpc' = "init")
        /\ UNCHANGED <<mctx, mexp, wreq, wexp, wok, lock, queueVars, replyVars, histVars>>
    BY <1>1 DEF SetupCreateThread
  <2> QED
    BY <1>0, <2>1
<1>2. CASE WaitStartup
  BY <1>0, <1>2 DEF WaitStartup
<1>3. CASE StartupDone
  BY <1>0, <1>3 DEF StartupDone
<1>4. CASE IncrementPendingWrites
  BY <1>0, <1>4 DEF IncrementPendingWrites
<1>5. CASE AcquireAndFillSlot
  <2>1. write_req_index % WQ_MAX_PENDING \in Slot
    BY SlotOfId, <1>0
  <2>2. [id |-> write_req_index, pubsub_idx |-> mctx] \in Request
    BY <1>0 DEF Request
  <2>3. write_requests' \in [Slot -> Request]
    BY <1>0, <1>5, <2>1, <2>2 DEF AcquireAndFillSlot
  <2>4. write_req_index' \in Nat /\ mpc' \in MainStates
    BY <1>0, <1>5 DEF AcquireAndFillSlot
  <2>5. UNCHANGED <<mctx, mexp, wtVars, lock, writes_pending, request_pipe,
                    replyVars, histVars>>
    BY <1>5 DEF AcquireAndFillSlot
  <2> QED
    BY <1>0, <2>3, <2>4, <2>5
<1>6. CASE PushRequest
  <2> DEFINE s == (write_req_index - 1) % WQ_MAX_PENDING
             e == [slot |-> s, req |-> write_requests[s]]
  <2>1. write_req_index - 1 \in Nat
    BY <1>0, <1>6 DEF PushRequest, QueueInv, CounterBounded
  <2>2. s \in Slot
    BY <2>1, SlotOfId
  <2>3. e \in Entry
    BY <1>0, <2>2 DEF Entry
  <2>4. request_pipe' \in Seq(Entry)
    BY <1>0, <1>6, <2>3 DEF PushRequest, WritePipe
  <2> QED
    BY <1>0, <1>6, <2>4 DEF PushRequest
<1>7. CASE LockAndWaitEmpty
  BY <1>0, <1>7 DEF LockAndWaitEmpty
<1>8. CASE WakeFromWaitEmpty
  BY <1>0, <1>8 DEF WakeFromWaitEmpty
<1>9. CASE RunOperation
  BY <1>0, <1>9 DEF RunOperation
<1>10. CASE PostReceiveBuffer
  BY <1>0, <1>10 DEF PostReceiveBuffer
<1>11. CASE RequestFlushCompareExchange
  BY <1>0, <1>11 DEF RequestFlushCompareExchange
<1>12. CASE RequestFlushWrite
  BY NullEntryType, <1>0, <1>12 DEF RequestFlushWrite, WritePipe
<1>13. CASE DestroyValidator
  BY <1>0, <1>13 DEF DestroyValidator
<1>14. CASE TeardownClosePipe
  BY <1>0, <1>14 DEF TeardownClosePipe
<1>15. CASE TeardownJoin
  BY <1>0, <1>15 DEF TeardownJoin
<1>16. CASE SignalStartup
  <2>1. mpc' \in MainStates /\ wpc' \in WriterStates
    BY <1>0, <1>16 DEF SignalStartup
  <2>2. UNCHANGED <<mctx, mexp, wreq, wexp, wok, lock, queueVars, replyVars, histVars>>
    BY <1>16 DEF SignalStartup
  <2> QED
    BY <1>0, <2>1, <2>2
<1>17. CASE ReadPipe
  BY <1>0, <1>17 DEF ReadPipe
<1>18. CASE WriterStops
  BY <1>0, <1>18 DEF WriterStops
<1>19. CASE ExecuteWrite
  <2>1. write_requests[wreq.slot].id \in Nat
    BY <1>19, HandType DEF ExecuteWrite, Request
  <2>2. executed' \subseteq Nat /\ succeeded' \subseteq Nat
    BY <1>0, <1>19, <2>1, Zenon DEF ExecuteWrite
  <2>3. wok' \in BOOLEAN /\ crashed' \in {"no", "assert", "ub"}
    BY <1>19 DEF ExecuteWrite
  <2> QED
    BY <1>0, <1>19, <2>2, <2>3 DEF ExecuteWrite
<1>20. CASE DecrementAndSignal
  <2>1. writes_pending' \in Nat
    BY <1>0, <1>20, HandCounted DEF DecrementAndSignal, InHand
  <2>2. mpc' \in MainStates
    BY <1>0, <1>20 DEF DecrementAndSignal, Signalled
  <2> QED
    BY <1>0, <1>20, <2>1, <2>2 DEF DecrementAndSignal
<1>21. CASE StageReply
  <2> DEFINE c == write_requests[wreq.slot].pubsub_idx
  <2>1. c \in Ctx /\ wreq.req.id \in Nat
    BY <1>21, HandType DEF StageReply, Request
  <2>2. sent' \subseteq Nat \X Ctx
    BY <1>0, <1>21, <2>1, FlushedType DEF StageReply
  <2>3. <<wreq.req.id>> \in Seq(Nat) /\ Append(send_buffer[c], wreq.req.id) \in Seq(Nat)
    BY <1>0, <2>1
  <2>4. send_buffer' \in [Ctx -> Seq(Nat)]
    BY <1>0, <1>21, <2>1, <2>3 DEF StageReply
  <2>5. crashed' \in {"no", "assert", "ub"}
    BY <1>21 DEF StageReply
  <2>6. /\ UNCHANGED <<mainVars, wreq, wexp, wok, lock, queueVars, flush_pending,
                        disable_threading, executed, succeeded, writes, ops, buffers>>
        /\ wpc' = "read"
    BY <1>21 DEF StageReply
  <2> QED
    BY <1>0, <2>2, <2>4, <2>5, <2>6, ReplyType, Zenon
<1>22. CASE FlushOutput
  <2>1. crashed' \in {"no", "assert", "ub"}
    BY <1>22 DEF FlushOutput
  <2>2. CASE flush_pending = SIZET_MAX
    BY <1>0, <1>22, <2>1, <2>2 DEF FlushOutput
  <2>3. CASE flush_pending # SIZET_MAX
    <3>1. flush_pending \in Ctx
      BY <1>0, <2>3
    <3>2. sent' \subseteq Nat \X Ctx
      BY <1>0, <1>22, <2>3, <3>1, FlushedType DEF FlushOutput
    <3>3. send_buffer' \in [Ctx -> Seq(Nat)]
      <4>1. send_buffer' = [send_buffer EXCEPT ![flush_pending] = <<>>]
        BY <1>22, <2>3 DEF FlushOutput
      <4> QED
        BY <1>0, <3>1, <4>1
    <3>4. UNCHANGED <<mainVars, wreq, wexp, wok, lock, queueVars, flush_pending,
                      disable_threading, executed, succeeded, writes, ops, buffers>>
          /\ wpc' = "load"
      BY <1>22 DEF FlushOutput
    <3> QED
      BY <1>0, <2>1, <3>2, <3>3, <3>4, ReplyType, Zenon
  <2> QED
    BY <2>2, <2>3
<1>23. CASE FlushLoadExpected
  BY <1>0, <1>23 DEF FlushLoadExpected
<1>24. CASE FlushClear
  BY <1>0, <1>24 DEF FlushClear
<1>25. CASE WriteCb
  BY <1>0, <1>25 DEF WriteCb
<1>26. CASE WriteInline
  <2>1. sent' \subseteq Nat \X Ctx
    BY <1>0, <1>26, FlushedType DEF WriteInline
  <2>2. executed' \subseteq Nat /\ succeeded' \subseteq Nat
    BY <1>0, <1>26, Zenon DEF WriteInline
  <2>3. send_buffer' \in [Ctx -> Seq(Nat)]
    BY <1>0, <1>26 DEF WriteInline
  <2> QED
    BY <1>0, <1>26, <2>1, <2>2, <2>3 DEF WriteInline
<1>27. CASE RunWhenEmpty
  BY <1>0, <1>27 DEF RunWhenEmpty
<1>28. CASE Terminate
  BY <1>0, <1>28 DEF Terminate
<1>29. CASE SpuriousWakeup
  <2>1. mpc' \in MainStates
    BY <1>29 DEF SpuriousWakeup
  <2>2. UNCHANGED <<mctx, mexp, wtVars, lock, queueVars, replyVars, histVars>>
    BY <1>29 DEF SpuriousWakeup
  <2> QED
    BY <1>0, <2>1, <2>2
<1>30. CASE \E c \in Ctx : ReceiveBuffer(c)
  <2>1. mpc' = "parse" /\ mctx' \in Ctx /\ buffers' \in Nat
    BY <1>0, <1>30 DEF ReceiveBuffer
  <2>2. UNCHANGED <<mexp, wtVars, lock, queueVars, replyVars, disable_threading,
                    executed, succeeded, crashed, writes, ops>>
    BY <1>30 DEF ReceiveBuffer
  <2> QED
    BY <1>0, <2>1, <2>2
<1>31. CASE UNCHANGED vars
  BY <1>0, <1>31 DEF vars
<1> QED
  BY <1>1, <1>2, <1>3, <1>4, <1>5, <1>6, <1>7, <1>8, <1>9, <1>10, <1>11,
     <1>12, <1>13, <1>14, <1>15, <1>16, <1>17, <1>18, <1>19, <1>20, <1>21,
     <1>22, <1>23, <1>24, <1>25, <1>26, <1>27, <1>28, <1>29, <1>30, <1>31,
     Zenon
     DEF Next, MainStep, WriterStep, Environment

-----------------------------------------------------------------------------
(* Every step keeps the queue invariant.                                   *)

\* Steps that touch neither the queue nor the request in hand.
LEMMA FrameStep ==
  ASSUME QueueInv, TypeOK',
         UNCHANGED <<write_req_index, writes_pending, write_requests,
                     request_pipe, wreq, executed, disable_threading>>,
         (mpc' = "slot") <=> (mpc = "slot"),
         (mpc' = "push") <=> (mpc = "push"),
         wpc' \in {"lock", "exec", "stage"} => wpc' = wpc,
         disable_threading => /\ wpc' = "off"
                             /\ mpc' \notin {"start", "incr", "slot", "push"}
  PROVE  QueueInv'
<1>1. Pushed' = Pushed /\ Claimed' = Claimed
  BY DEF Pushed, Claimed
<1>2. PipeLive' /\ PipeOrdered'
  BY <1>1 DEF QueueInv, PipeLive, PipeOrdered, Live
<1>3. HandLive'
  BY <1>1 DEF QueueInv, HandLive, InHand, Live
<1>4. CounterBounded' /\ NoThread'
  BY DEF QueueInv, CounterBounded, NoThread
<1>5. ExecutedBefore'
  BY <1>1 DEF QueueInv, ExecutedBefore
<1> QED
  BY <1>2, <1>3, <1>4, <1>5 DEF QueueInv

\* The invariant of the queue is inductive.
LEMMA QueueStep == QueueInv /\ [Next]_vars => QueueInv'
<1> SUFFICES ASSUME QueueInv, [Next]_vars PROVE QueueInv'
  OBVIOUS
<1> USE DEF mainVars, wtVars, queueVars, replyVars, histVars
<1>0. TypeOK /\ TypeOK' /\ NoThread
  BY TypeStep DEF QueueInv
<1>1. CASE SetupCreateThread
  BY <1>0, <1>1, FrameStep DEF SetupCreateThread, NoThread
<1>2. CASE WaitStartup
  BY <1>0, <1>2, FrameStep DEF WaitStartup, NoThread
<1>3. CASE StartupDone
  BY <1>0, <1>3, FrameStep DEF StartupDone, NoThread
<1>4. CASE LockAndWaitEmpty
  BY <1>0, <1>4, FrameStep DEF LockAndWaitEmpty, NoThread
<1>5. CASE WakeFromWaitEmpty
  BY <1>0, <1>5, FrameStep DEF WakeFromWaitEmpty, NoThread
<1>6. CASE RunOperation
  BY <1>0, <1>6, FrameStep DEF RunOperation, NoThread
<1>7. CASE PostReceiveBuffer
  BY <1>0, <1>7, FrameStep DEF PostReceiveBuffer, NoThread
<1>8. CASE RequestFlushCompareExchange
  BY <1>0, <1>8, FrameStep DEF RequestFlushCompareExchange, NoThread
<1>9. CASE DestroyValidator
  BY <1>0, <1>9, FrameStep DEF DestroyValidator, NoThread
<1>10. CASE TeardownJoin
  BY <1>0, <1>10, FrameStep DEF TeardownJoin, NoThread
<1>11. CASE SignalStartup
  BY <1>0, <1>11, FrameStep DEF SignalStartup, NoThread, Signalled
<1>12. CASE WriterStops
  BY <1>0, <1>12, FrameStep DEF WriterStops, NoThread
<1>13. CASE StageReply
  BY <1>0, <1>13, FrameStep DEF StageReply, NoThread
<1>14. CASE FlushOutput
  BY <1>0, <1>14, FrameStep DEF FlushOutput, NoThread
<1>15. CASE FlushLoadExpected
  BY <1>0, <1>15, FrameStep DEF FlushLoadExpected, NoThread
<1>16. CASE FlushClear
  BY <1>0, <1>16, FrameStep DEF FlushClear, NoThread
<1>17. CASE WriteCb
  BY <1>0, <1>17, FrameStep DEF WriteCb, NoThread
<1>18. CASE RunWhenEmpty
  BY <1>0, <1>18, FrameStep DEF RunWhenEmpty, NoThread
<1>19. CASE Terminate
  BY <1>0, <1>19, FrameStep DEF Terminate, NoThread
<1>20. CASE SpuriousWakeup
  BY <1>0, <1>20, FrameStep DEF SpuriousWakeup, NoThread
<1>21. CASE \E c \in Ctx : ReceiveBuffer(c)
  BY <1>0, <1>21, FrameStep DEF ReceiveBuffer, NoThread
<1>22. CASE UNCHANGED vars
  BY <1>0, <1>22, FrameStep DEF vars, NoThread
<1>23. CASE IncrementPendingWrites
  <2>1. Pushed' = Pushed /\ Claimed' = Claimed
    BY <1>0, <1>23 DEF IncrementPendingWrites, Pushed, Claimed, TypeOK
  <2>2. PipeLive' /\ PipeOrdered' /\ HandLive' /\ ExecutedBefore'
    BY <1>23, <2>1, Zenon DEF IncrementPendingWrites, QueueInv, PipeLive, PipeOrdered, HandLive,
       InHand, Live, ExecutedBefore
  <2>3. CounterBounded' /\ NoThread'
    BY <1>0, <1>23, QueueAssumption DEF IncrementPendingWrites, QueueInv, CounterBounded,
       NoThread, TypeOK
  <2> QED
    BY <1>0, <2>2, <2>3 DEF QueueInv
<1>24. CASE AcquireAndFillSlot
  <2> DEFINE s == write_req_index % WQ_MAX_PENDING
  <2>1. Pushed' = Pushed /\ Claimed' = Claimed + 1
    BY <1>0, <1>24 DEF AcquireAndFillSlot, Pushed, Claimed, TypeOK
  <2>2. Claimed < WQ_MAX_PENDING /\ Claimed \in Nat
    <3>1. mpc = "slot" /\ writes_pending \in Nat
      BY <1>0, <1>24 DEF AcquireAndFillSlot, TypeOK
    <3>2. writes_pending <= WQ_MAX_PENDING /\ (mpc = "slot" => writes_pending >= 1)
      BY <1>0, <3>1 DEF QueueInv, CounterBounded
    <3> QED
      BY <3>1, <3>2, QueueAssumption DEF Claimed
  <2>3. ASSUME NEW e \in Entry, e.slot # NULL, Live(e)
        PROVE  Live(e)'
    <3>1. e.slot \in Slot /\ e.req.id \in Nat
      BY <2>3 DEF Entry, Request
    <3>2. e.req.id < write_req_index /\ write_req_index - e.req.id < WQ_MAX_PENDING
      <4>1. Pushed = write_req_index /\ write_req_index \in Nat
        BY <1>0, <1>24 DEF AcquireAndFillSlot, Pushed, TypeOK
      <4>2. e.req.id < Pushed /\ write_req_index - e.req.id <= Claimed
        BY <2>3 DEF Live
      <4> QED
        BY <2>2, <3>1, <4>1, <4>2, QueueAssumption
    <3>3. e.slot # s
      BY <1>0, <2>3, <3>1, <3>2, SlotsDiffer, QueueAssumption, Zenon DEF Live, TypeOK
    <3>4. write_requests'[e.slot] = write_requests[e.slot]
      BY <1>0, <1>24, <3>1, <3>3 DEF AcquireAndFillSlot, TypeOK
    <3>5. write_req_index' - e.req.id <= Claimed'
      <4>1. write_req_index \in Nat /\ write_req_index' = write_req_index + 1
        BY <1>0, <1>24 DEF AcquireAndFillSlot, TypeOK
      <4>2. write_req_index - e.req.id <= Claimed
        BY <2>3 DEF Live
      <4> QED
        BY <2>1, <2>2, <3>1, <4>1, <4>2
    <3> QED
      BY <2>1, <2>3, <3>4, <3>5 DEF Live
  <2>4. PipeLive' /\ PipeOrdered'
    <3>1. request_pipe' = request_pipe
      BY <1>24 DEF AcquireAndFillSlot
    <3>2. \A i \in DOMAIN request_pipe : request_pipe[i] \in Entry
      BY <1>0 DEF TypeOK
    <3> QED
      BY <2>3, <3>1, <3>2 DEF QueueInv, PipeLive, PipeOrdered
  <2>5. HandLive'
    BY <1>0, <1>24, <2>3, Zenon DEF AcquireAndFillSlot, QueueInv, HandLive, InHand, TypeOK
  <2>6. CounterBounded'
    <3>1. s \in Slot
      BY <1>0, SlotOfId DEF TypeOK
    <3>2. write_requests'[s].id = write_req_index
      BY <1>0, <1>24, <3>1 DEF AcquireAndFillSlot, TypeOK
    <3>3. write_req_index' - 1 = write_req_index
      BY <1>0, <1>24 DEF AcquireAndFillSlot, TypeOK
    <3>4. mpc = "slot" /\ mpc' = "push" /\ writes_pending' = writes_pending
      BY <1>24 DEF AcquireAndFillSlot
    <3>5. /\ CounterBounded /\ write_req_index \in Nat
          /\ write_req_index' >= 1
      BY <1>0, <1>24 DEF AcquireAndFillSlot, QueueInv, TypeOK
    <3> QED
      BY <3>2, <3>3, <3>4, <3>5 DEF CounterBounded
  <2>7. NoThread' /\ ExecutedBefore'
    BY <1>24, <2>1, Zenon DEF AcquireAndFillSlot, QueueInv, NoThread, ExecutedBefore
  <2> QED
    BY <1>0, <2>4, <2>5, <2>6, <2>7 DEF QueueInv
<1>25. CASE PushRequest
  <2> DEFINE s == (write_req_index - 1) % WQ_MAX_PENDING
  <2>1. /\ write_req_index - 1 \in Nat /\ write_req_index \in Nat
        /\ writes_pending >= 1 /\ writes_pending \in Nat
        /\ write_requests[s].id = write_req_index - 1
    <3>1. mpc = "push" /\ CounterBounded
      BY <1>25 DEF PushRequest, QueueInv
    <3>2. write_req_index \in Nat /\ writes_pending \in Nat
      BY <1>0 DEF TypeOK
    <3> QED
      BY <3>1, <3>2 DEF CounterBounded
  <2>2. s \in Slot /\ s # NULL
    BY <2>1, SlotOfId, QueueAssumption DEF Slot, NULL
  <2>11. PICK e \in Entry : e = [slot |-> s, req |-> write_requests[s]]
    <3>1. write_requests[s] \in Request
      BY <1>0, <2>2 DEF TypeOK
    <3> QED
      BY <2>2, <3>1, Zenon DEF Entry
  <2> HIDE DEF s
  <2>12. e.slot = s /\ e.slot # NULL /\ e.req = write_requests[s] /\ e.req.id = write_req_index - 1
    BY <2>11, <2>1, <2>2
  <2>3. Pushed = write_req_index - 1 /\ Pushed' = write_req_index
    <3>1. mpc = "push" /\ mpc' = "parse" /\ write_req_index' = write_req_index
      BY <1>25 DEF PushRequest
    <3> QED
      BY <2>1, <3>1 DEF Pushed
  <2>4. Claimed' = Claimed /\ Claimed = writes_pending
    BY <1>0, <1>25 DEF PushRequest, Claimed, TypeOK
  <2>5. Live(e)'
    <3>1. e.slot = e.req.id % WQ_MAX_PENDING
      BY <2>12 DEF s
    <3>2. e.req.id < Pushed' /\ write_req_index' - e.req.id <= Claimed'
      <4>1. write_req_index' = write_req_index
        BY <1>25 DEF PushRequest
      <4> QED
        BY <2>1, <2>12, <2>3, <2>4, <4>1
    <3>3. write_requests'[e.slot] = e.req
      BY <1>25, <2>12 DEF PushRequest
    <3> QED
      BY <3>1, <3>2, <3>3 DEF Live
  <2>6. ASSUME NEW f \in Entry, f.slot # NULL, Live(f)
        PROVE  Live(f)' /\ f.req.id < e.req.id
    <3>1. f.req.id \in Nat
      BY <2>6 DEF Entry, Request
    <3>2. write_req_index' = write_req_index /\ write_requests' = write_requests
      BY <1>25 DEF PushRequest
    <3>3. f.req.id < write_req_index - 1
      BY <2>3, <2>6 DEF Live
    <3>4. f.req.id < Pushed' /\ f.req.id < e.req.id
      BY <2>1, <2>12, <2>3, <3>1, <3>3
    <3> QED
      BY <2>4, <2>6, <3>2, <3>4 DEF Live
  <2>7. CASE Len(request_pipe) < PipeCapacity
    <3>1. request_pipe' = Append(request_pipe, e)
      BY <1>25, <2>7, <2>11 DEF PushRequest, WritePipe, s
    <3>2. /\ Len(request_pipe) \in Nat
          /\ DOMAIN request_pipe = 1 .. Len(request_pipe)
          /\ DOMAIN request_pipe' = 1 .. (Len(request_pipe) + 1)
          /\ request_pipe'[Len(request_pipe) + 1] = e
          /\ \A i \in DOMAIN request_pipe :
               request_pipe'[i] = request_pipe[i] /\ request_pipe[i] \in Entry
      <4>1. request_pipe \in Seq(Entry)
        BY <1>0 DEF TypeOK
      <4> QED
        BY <3>1, <4>1
    <3>3. PipeLive'
      BY <2>5, <2>6, <3>2 DEF QueueInv, PipeLive
    <3>4. PipeOrdered'
      BY <2>6, <3>2 DEF QueueInv, PipeLive, PipeOrdered
    <3>5. HandLive'
      <4>1. UNCHANGED <<wpc, wreq>> /\ wreq \in Entry
        BY <1>0, <1>25, Zenon DEF PushRequest, TypeOK
      <4>2. InHand => Live(wreq)' /\ wreq.req.id < e.req.id
        BY <2>6, <4>1 DEF QueueInv, HandLive, InHand
      <4>3. \A i \in DOMAIN request_pipe' :
              \/ i \in DOMAIN request_pipe /\ request_pipe'[i] = request_pipe[i]
              \/ request_pipe'[i] = e
        BY <3>2
      <4> QED
        BY <4>1, <4>2, <4>3 DEF QueueInv, HandLive, InHand
    <3>6. ExecutedBefore'
      <4>1. UNCHANGED <<wpc, wreq, executed, disable_threading>>
        BY <1>25 DEF PushRequest
      <4>2. \A i \in DOMAIN request_pipe' :
              \/ i \in DOMAIN request_pipe /\ request_pipe'[i] = request_pipe[i]
              \/ request_pipe'[i] = e
        BY <3>2
      <4>3. executed \subseteq Nat
        BY <1>0 DEF TypeOK
      <4>4. ASSUME ~disable_threading
            PROVE  \A y \in executed :
                     /\ y < Pushed
                     /\ \A i \in DOMAIN request_pipe :
                          request_pipe[i].slot # NULL => y < request_pipe[i].req.id
                     /\ wpc = "lock" => y < wreq.req.id
                     /\ wpc = "exec" => y <= wreq.req.id
        BY <4>4, Zenon DEF QueueInv, ExecutedBefore
      <4>5. ASSUME ~disable_threading
            PROVE  \A y \in executed :
                     /\ y < Pushed'
                     /\ \A i \in DOMAIN request_pipe' :
                          request_pipe'[i].slot # NULL => y < request_pipe'[i].req.id
                     /\ wpc = "lock" => y < wreq.req.id
                     /\ wpc = "exec" => y <= wreq.req.id
        BY <2>1, <2>12, <2>3, <4>2, <4>3, <4>4, <4>5
      <4> QED
        BY <4>1, <4>5 DEF ExecutedBefore
    <3>7. CounterBounded' /\ NoThread'
      BY <1>0, <1>25, Zenon DEF PushRequest, QueueInv, CounterBounded, NoThread
    <3> QED
      BY <1>0, <3>3, <3>4, <3>5, <3>6, <3>7 DEF QueueInv
  <2>8. CASE ~(Len(request_pipe) < PipeCapacity)
    <3>1. request_pipe' = request_pipe
      BY <1>25, <2>8 DEF PushRequest, WritePipe
    <3>2. \A i \in DOMAIN request_pipe : request_pipe[i] \in Entry
      BY <1>0 DEF TypeOK
    <3>3. PipeLive' /\ PipeOrdered'
      BY <2>6, <3>1, <3>2, Zenon DEF QueueInv, PipeLive, PipeOrdered
    <3>4. HandLive'
      BY <1>0, <1>25, <2>6, <3>1, Zenon DEF PushRequest, QueueInv, HandLive, InHand, TypeOK
    <3>5. ExecutedBefore'
      <4>1. UNCHANGED <<executed, wpc, wreq, disable_threading>>
        BY <1>25 DEF PushRequest, wtVars, histVars
      <4>2. ExecutedBefore
        BY DEF QueueInv
      <4>3. executed \subseteq Nat
        BY <1>0 DEF TypeOK
      <4>4. \A x \in executed : x < Pushed => x < Pushed'
        BY <2>1, <2>3, <4>3
      <4> QED
        BY <3>1, <4>1, <4>2, <4>4 DEF ExecutedBefore
    <3>6. CounterBounded' /\ NoThread'
      BY <1>0, <1>25 DEF PushRequest, QueueInv, CounterBounded, NoThread
    <3> QED
      BY <1>0, <3>3, <3>4, <3>5, <3>6 DEF QueueInv
  <2> QED
    BY <2>7, <2>8
<1>26. CASE RequestFlushWrite
  <2>1. Pushed' = Pushed /\ Claimed' = Claimed
    BY <1>26 DEF RequestFlushWrite, Pushed, Claimed
  <2>2. /\ \A i \in DOMAIN request_pipe : i \in DOMAIN request_pipe' /\ request_pipe'[i] = request_pipe[i]
        /\ \A i \in DOMAIN request_pipe' :
             i \in DOMAIN request_pipe \/ request_pipe'[i].slot = NULL
    BY <1>0, <1>26, NullEntryType DEF RequestFlushWrite, WritePipe, TypeOK, NullEntry
  <2>3. PipeLive' /\ PipeOrdered'
    BY <1>26, <2>1, <2>2, Zenon DEF RequestFlushWrite, QueueInv, PipeLive, PipeOrdered, Live
  <2>4. HandLive'
    BY <1>26, <2>1, <2>2, Zenon DEF RequestFlushWrite, QueueInv, HandLive, InHand, Live
  <2>5. CounterBounded'
    BY <1>26, Zenon DEF RequestFlushWrite, QueueInv, CounterBounded
  <2>6. NoThread' /\ ExecutedBefore'
    BY <1>26, <2>1, <2>2, Zenon DEF RequestFlushWrite, QueueInv, NoThread, ExecutedBefore
  <2> QED
    BY <1>0, <2>3, <2>4, <2>5, <2>6 DEF QueueInv
<1>27. CASE TeardownClosePipe
  <2>1. Pushed' = Pushed /\ Claimed' = Claimed
    BY <1>27 DEF TeardownClosePipe, Pushed, Claimed
  <2>2. DOMAIN request_pipe' = {}
    BY <1>27 DEF TeardownClosePipe
  <2>3. PipeLive' /\ PipeOrdered' /\ NoThread'
    BY <1>27, <2>2, Zenon DEF TeardownClosePipe, QueueInv, PipeLive, PipeOrdered, NoThread
  <2>4. HandLive'
    BY <1>27, <2>1, <2>2 DEF TeardownClosePipe, QueueInv, HandLive, InHand, Live
  <2>5. CounterBounded'
    BY <1>27 DEF TeardownClosePipe, QueueInv, CounterBounded
  <2>6. ExecutedBefore'
    BY <1>27, <2>1, <2>2 DEF TeardownClosePipe, QueueInv, ExecutedBefore
  <2> QED
    BY <1>0, <2>3, <2>4, <2>5, <2>6 DEF QueueInv
<1>28. CASE ReadPipe
  <2>1. Pushed' = Pushed /\ Claimed' = Claimed
    BY <1>28 DEF ReadPipe, Pushed, Claimed
  <2>2. /\ Len(request_pipe) \in Nat /\ Len(request_pipe) > 0
        /\ DOMAIN request_pipe = 1 .. Len(request_pipe)
        /\ request_pipe[1] = Head(request_pipe)
        /\ DOMAIN request_pipe' = 1 .. (Len(request_pipe) - 1)
        /\ \A i \in DOMAIN request_pipe' : request_pipe'[i] = request_pipe[i + 1]
        /\ wreq' = request_pipe[1]
    BY <1>0, <1>28 DEF ReadPipe, TypeOK
  <2>3. \A i \in DOMAIN request_pipe' : i + 1 \in DOMAIN request_pipe
    BY <2>2
  <2>4. \A e \in Entry : Live(e) => Live(e)'
    BY <1>28, <2>1, Zenon DEF ReadPipe, Live
  <2>5. \A i \in DOMAIN request_pipe : request_pipe[i] \in Entry
    BY <1>0 DEF TypeOK
  <2>6. PipeLive'
    BY <2>2, <2>3, <2>4, <2>5, Zenon DEF QueueInv, PipeLive
  <2>7. PipeOrdered'
    BY <2>2, <2>3 DEF QueueInv, PipeOrdered
  <2>8. HandLive'
    <3>1. wpc' \in {"lock", "exec", "stage"} => wreq'.slot # NULL
      BY <1>28, <2>2 DEF ReadPipe
    <3>2. ASSUME InHand' PROVE Live(wreq)'
      <4>1. wreq'.slot # NULL /\ wreq' = request_pipe[1] /\ 1 \in DOMAIN request_pipe
        BY <3>1, <3>2, <2>2 DEF InHand
      <4>2. Live(request_pipe[1])
        BY <4>1 DEF QueueInv, PipeLive
      <4> QED
        BY <1>28, <2>1, <4>1, <4>2 DEF ReadPipe, Live
    <3>3. ASSUME InHand', NEW i \in DOMAIN request_pipe', request_pipe'[i].slot # NULL
          PROVE  wreq'.req.id < request_pipe'[i].req.id
      <4>1. /\ 1 \in DOMAIN request_pipe /\ i + 1 \in DOMAIN request_pipe /\ 1 < i + 1
            /\ request_pipe[1].slot # NULL /\ request_pipe[i + 1].slot # NULL
        BY <2>2, <2>3, <3>1, <3>3 DEF InHand
      <4> QED
        BY <2>2, <4>1 DEF QueueInv, PipeOrdered
    <3> QED
      BY <3>1, <3>2, <3>3 DEF HandLive
  <2>9. CounterBounded'
    BY <1>28 DEF ReadPipe, QueueInv, CounterBounded
  <2>10. NoThread'
    BY <1>0, <1>28 DEF ReadPipe, NoThread
  <2>11. ExecutedBefore'
    <3>1. wpc' # "exec" /\ (wpc' = "lock" => request_pipe[1].slot # NULL)
      BY <1>28, <2>2 DEF ReadPipe
    <3>2. ExecutedBefore
      BY DEF QueueInv
    <3>3. UNCHANGED <<executed, disable_threading>>
      BY <1>28 DEF ReadPipe, histVars
    <3> QED
      BY <2>1, <2>2, <2>3, <3>1, <3>2, <3>3 DEF ExecutedBefore
  <2> QED
    BY <1>0, <2>6, <2>7, <2>8, <2>9, <2>10, <2>11 DEF QueueInv
<1>29. CASE ExecuteWrite
  <2>1. Pushed' = Pushed /\ Claimed' = Claimed
    BY <1>29 DEF ExecuteWrite, Pushed, Claimed
  <2>2. InHand /\ Live(wreq) /\ wreq.req.id \in Nat
    BY <1>29, HandType, Zenon DEF ExecuteWrite, InHand, QueueInv, HandLive, Request
  <2>3. executed' = executed \cup {wreq.req.id}
    BY <1>29, <2>2, Zenon DEF ExecuteWrite, Live
  <2>4. PipeLive' /\ PipeOrdered'
    BY <1>29, <2>1, Zenon DEF ExecuteWrite, QueueInv, PipeLive, PipeOrdered, Live
  <2>5. HandLive'
    BY <1>29, <2>1, <2>2, Zenon DEF ExecuteWrite, QueueInv, HandLive, InHand, Live
  <2>6. CounterBounded' /\ NoThread'
    BY <1>0, <1>29, Zenon DEF ExecuteWrite, QueueInv, CounterBounded, NoThread
  <2>7. ExecutedBefore'
    <3> SUFFICES ASSUME ~disable_threading, NEW x \in executed'
                 PROVE  /\ x < Pushed'
                        /\ \A i \in DOMAIN request_pipe' :
                             request_pipe'[i].slot # NULL => x < request_pipe'[i].req.id
                        /\ wpc' = "lock" => x < wreq'.req.id
                        /\ wpc' = "exec" => x <= wreq'.req.id
      BY <1>29, Zenon DEF ExecuteWrite, ExecutedBefore
    <3>0. \A y \in executed :
            /\ y < Pushed
            /\ \A i \in DOMAIN request_pipe :
                 request_pipe[i].slot # NULL => y < request_pipe[i].req.id
            /\ wpc = "lock" => y < wreq.req.id
      BY Zenon DEF QueueInv, ExecutedBefore
    <3>a. wpc = "lock" /\ wpc' = "exec" /\ wreq' = wreq /\ request_pipe' = request_pipe
      BY <1>29, Zenon DEF ExecuteWrite, queueVars
    <3>1. CASE x \in executed
      <4>1. x \in Nat
        BY <1>0, <3>1 DEF TypeOK
      <4>2. x < wreq.req.id /\ x < Pushed
        BY <3>a, <3>0, <3>1
      <4>3. \A i \in DOMAIN request_pipe :
              request_pipe[i].slot # NULL => x < request_pipe[i].req.id
        BY <3>0, <3>1
      <4>4. x <= wreq.req.id
        BY <2>2, <4>1, <4>2
      <4> QED
        BY <2>1, <3>a, <4>2, <4>3, <4>4
    <3>2. CASE x = wreq.req.id
      <4>1. x < Pushed
        BY <2>2, <3>2, Zenon DEF Live
      <4>2. \A i \in DOMAIN request_pipe :
              request_pipe[i].slot # NULL => x < request_pipe[i].req.id
        BY <2>2, <3>2 DEF QueueInv, HandLive
      <4>3. x <= wreq.req.id /\ wpc' # "lock"
        BY <2>2, <3>2, <3>a
      <4> QED
        BY <2>1, <3>a, <4>1, <4>2, <4>3, Zenon
    <3> QED
      BY <2>3, <3>1, <3>2, Zenon
  <2> QED
    BY <1>0, <2>4, <2>5, <2>6, <2>7 DEF QueueInv
<1>30. CASE DecrementAndSignal
  <2>1. /\ (mpc' = "slot") <=> (mpc = "slot")
        /\ (mpc' = "push") <=> (mpc = "push")
        /\ ~disable_threading
    <3>1. NoThread /\ wpc = "exec"
      BY <1>30 DEF DecrementAndSignal, QueueInv
    <3>2. ~disable_threading
      BY <3>1, Zenon DEF NoThread
    <3>3. (mpc' = "slot" <=> mpc = "slot") /\ (mpc' = "push" <=> mpc = "push")
      BY <1>30 DEF DecrementAndSignal, Signalled
    <3> QED
      BY <3>2, <3>3
  <2>2. Pushed' = Pushed /\ Claimed' = Claimed - 1
    <3>1. /\ write_req_index' = write_req_index
          /\ writes_pending' = writes_pending - 1 /\ writes_pending \in Nat
      BY <1>0, <1>30 DEF DecrementAndSignal, TypeOK
    <3> QED
      BY <2>1, <3>1 DEF Pushed, Claimed
  <2>3. InHand /\ Live(wreq) /\ wreq.req.id \in Nat
    BY <1>30, HandType, Zenon DEF DecrementAndSignal, InHand, QueueInv, HandLive, Request
  <2>4. ASSUME NEW e \in Entry, Live(e), wreq.req.id < e.req.id
        PROVE  Live(e)'
    <3>0. write_req_index \in Nat /\ writes_pending \in Nat
      BY <1>0 DEF TypeOK
    <3>1. e.req.id \in Nat /\ write_req_index \in Nat /\ Claimed \in Int
      BY <3>0 DEF Entry, Request, Claimed
    <3>2. write_req_index - e.req.id <= Claimed - 1
      BY <2>3, <2>4, <3>1 DEF Live
    <3> QED
      BY <1>30, <2>2, <2>4, <3>2, Zenon DEF DecrementAndSignal, Live
  <2>5. PipeLive' /\ PipeOrdered'
    <3>1. \A i \in DOMAIN request_pipe : request_pipe[i] \in Entry
      BY <1>0 DEF TypeOK
    <3> QED
      BY <1>30, <2>3, <2>4, <3>1, Zenon DEF DecrementAndSignal, QueueInv, PipeLive, PipeOrdered, HandLive
  <2>6. HandLive'
    BY <1>30 DEF DecrementAndSignal, QueueInv, HandLive, InHand
  <2>7. CounterBounded'
    <3>1. /\ writes_pending' = writes_pending - 1
          /\ UNCHANGED <<write_req_index, write_requests>>
      BY <1>30 DEF DecrementAndSignal
    <3>2. /\ writes_pending >= 1
          /\ mpc = "slot" => writes_pending >= 2
          /\ mpc = "push" => writes_pending >= 2
      BY <2>3, HandCounted
    <3>3. CounterBounded /\ writes_pending \in Nat /\ WQ_MAX_PENDING \in Nat
      BY <1>0, QueueAssumption DEF QueueInv, TypeOK
    <3>4. writes_pending' <= WQ_MAX_PENDING /\ (mpc' = "slot" => writes_pending' >= 1)
      BY <2>1, <3>1, <3>2, <3>3 DEF CounterBounded
    <3>5. ASSUME mpc' = "push"
          PROVE  /\ write_req_index >= 1
                 /\ writes_pending' >= 1
                 /\ write_requests[(write_req_index - 1) % WQ_MAX_PENDING].id
                      = write_req_index - 1
      BY <2>1, <3>1, <3>2, <3>3, <3>5 DEF CounterBounded
    <3> QED
      BY <3>1, <3>4, <3>5 DEF CounterBounded
  <2>8. disable_threading' = disable_threading /\ wpc = "exec" /\ wpc' \in {"stage", "read"}
        /\ UNCHANGED <<executed, request_pipe>>
    BY <1>30 DEF DecrementAndSignal
  <2>9. NoThread'
    BY <2>1, <2>8 DEF NoThread
  <2>10. ExecutedBefore'
    BY <2>1, <2>2, <2>8 DEF QueueInv, ExecutedBefore
  <2> QED
    BY <1>0, <2>5, <2>6, <2>7, <2>9, <2>10 DEF QueueInv
<1>31. CASE WriteInline
  <2>1. disable_threading /\ UNCHANGED <<mainVars, wtVars, queueVars, disable_threading>>
    BY <1>31 DEF WriteInline
  <2>2. Pushed' = Pushed /\ Claimed' = Claimed
    BY <2>1, Zenon DEF Pushed, Claimed
  <2>3. PipeLive' /\ PipeOrdered' /\ HandLive'
    BY <2>1, <2>2, Zenon DEF QueueInv, PipeLive, PipeOrdered, HandLive, InHand, Live
  <2>4. CounterBounded' /\ NoThread' /\ ExecutedBefore'
    BY <2>1, Zenon DEF QueueInv, CounterBounded, NoThread, ExecutedBefore
  <2> QED
    BY <1>0, <2>3, <2>4 DEF QueueInv
<1> QED
  BY <1>1, <1>2, <1>3, <1>4, <1>5, <1>6, <1>7, <1>8, <1>9, <1>10, <1>11,
     <1>12, <1>13, <1>14, <1>15, <1>16, <1>17, <1>18, <1>19, <1>20, <1>21,
     <1>22, <1>23, <1>24, <1>25, <1>26, <1>27, <1>28, <1>29, <1>30, <1>31
     DEF Next, MainStep, WriterStep, Environment

-----------------------------------------------------------------------------
(* The theorems.                                                           *)

\* The queue invariant holds in every reachable state.
THEOREM QueueInvariant == Spec => []QueueInv
  BY InitInv, QueueStep, PTL DEF Spec

\* Type correctness of write_thread_ctx and of both threads' locals.
THEOREM TypeCorrect == Spec => []TypeOK
<1>1. QueueInv => TypeOK
  BY DEF QueueInv
<1> QED
  BY <1>1, QueueInvariant, PTL

\* No queued request is overwritten before sbp_fileio_write is done with it,
\* whatever the sizes of the ring and of the pipe, even when the pipe is full
\* and pointers are lost.
THEOREM RequestsStayIntact == Spec => []RequestsIntact
<1>1. QueueInv => RequestsIntact
  BY Zenon DEF QueueInv, RequestsIntact, PipeLive, HandLive, InHand, Live
<1> QED
  BY <1>1, QueueInvariant, PTL

\* The write thread carries requests out in the order they were received, and
\* none twice.
THEOREM WritesStayInOrder == Spec => WritesInOrder
<1>1. ASSUME QueueInv, [Next]_vars, wpc = "lock", wpc' = "exec"
      PROVE  \E new \in executed' : \A old \in executed : old < new
  <2>1. executed' = executed \cup {write_requests[wreq.slot].id}
    BY <1>1, Zenon DEF Next, MainStep, WriterStep, Environment, SetupCreateThread,
       WaitStartup, StartupDone, IncrementPendingWrites, AcquireAndFillSlot,
       PushRequest, LockAndWaitEmpty, WakeFromWaitEmpty, RunOperation,
       PostReceiveBuffer, RequestFlushCompareExchange, RequestFlushWrite,
       DestroyValidator, TeardownClosePipe, TeardownJoin, SignalStartup,
       ReadPipe, WriterStops, ExecuteWrite, DecrementAndSignal, StageReply,
       FlushOutput, FlushLoadExpected, FlushClear, ReceiveBuffer, WriteCb,
       WriteInline, RunWhenEmpty, Terminate, SpuriousWakeup, vars, wtVars
  <2>2. ~disable_threading /\ write_requests[wreq.slot].id = wreq.req.id
    BY <1>1 DEF QueueInv, NoThread, HandLive, InHand, Live
  <2> QED
    BY <1>1, <2>1, <2>2, Zenon DEF QueueInv, ExecutedBefore
<1>2. QueueInv /\ [Next]_vars =>
        [wpc = "lock" /\ wpc' = "exec" =>
           \E new \in executed' : \A old \in executed : old < new]_vars
  BY <1>1
<1> QED
  BY <1>2, QueueInvariant, PTL DEF Spec, WritesInOrder

-----------------------------------------------------------------------------
(* Mutual exclusion and the condition variable.                            *)

\* Who holds the mutex, and what a wake-up of wq_wait_empty by
\* wq_decrement_and_signal means.
WakeInv ==
  /\ lock = "main" <=> mpc \in {"oprun", "oprun_early"}
  /\ lock = "writer" <=> wpc = "exec"
  /\ mpc = "create" => wpc = "off"
  /\ mpc \in {"opwoken", "oprun"} => writes_pending = 0

\* The condition variable's protocol is inductive, given the queue's.
LEMMA WakeStep ==
  QueueInv /\ WakeInv /\ [Next]_vars => WakeInv'
<1> SUFFICES ASSUME QueueInv, WakeInv, [Next]_vars PROVE WakeInv'
  OBVIOUS
<1> USE DEF WakeInv, mainVars, wtVars, queueVars, replyVars, histVars
<1>0. writes_pending \in Nat /\ (wpc = "exec" => writes_pending >= 1)
  BY HandCounted DEF QueueInv, TypeOK, InHand
<1>1. CASE SetupCreateThread
  <2>1. CASE disable_threading
    BY <1>1, <2>1 DEF SetupCreateThread
  <2>2. CASE ~disable_threading
    BY <1>1, <2>2 DEF SetupCreateThread
  <2> QED
    BY <2>1, <2>2
<1>2. CASE WaitStartup
  BY <1>0, <1>2 DEF WaitStartup
<1>3. CASE StartupDone
  BY <1>0, <1>3 DEF StartupDone
<1>4. CASE IncrementPendingWrites
  BY <1>0, <1>4 DEF IncrementPendingWrites
<1>5. CASE AcquireAndFillSlot
  BY <1>0, <1>5 DEF AcquireAndFillSlot
<1>6. CASE PushRequest
  BY <1>0, <1>6 DEF PushRequest
<1>7. CASE LockAndWaitEmpty
  BY <1>0, <1>7 DEF LockAndWaitEmpty
<1>8. CASE WakeFromWaitEmpty
  BY <1>0, <1>8 DEF WakeFromWaitEmpty
<1>9. CASE RunOperation
  BY <1>0, <1>9 DEF RunOperation
<1>10. CASE PostReceiveBuffer
  BY <1>0, <1>10 DEF PostReceiveBuffer
<1>11. CASE RequestFlushCompareExchange
  BY <1>0, <1>11 DEF RequestFlushCompareExchange
<1>12. CASE RequestFlushWrite
  BY <1>0, <1>12 DEF RequestFlushWrite
<1>13. CASE DestroyValidator
  BY <1>0, <1>13 DEF DestroyValidator
<1>14. CASE TeardownClosePipe
  BY <1>0, <1>14 DEF TeardownClosePipe
<1>15. CASE TeardownJoin
  BY <1>0, <1>15 DEF TeardownJoin
<1>16. CASE SignalStartup
  BY <1>0, <1>16 DEF SignalStartup
<1>17. CASE ReadPipe
  BY <1>0, <1>17 DEF ReadPipe
<1>18. CASE WriterStops
  BY <1>0, <1>18 DEF WriterStops
<1>19. CASE ExecuteWrite
  BY <1>0, <1>19 DEF ExecuteWrite
<1>20. CASE DecrementAndSignal
  BY <1>0, <1>20 DEF DecrementAndSignal, Signalled
<1>21. CASE StageReply
  BY <1>0, <1>21, Zenon DEF StageReply
<1>22. CASE FlushOutput
  BY <1>0, <1>22 DEF FlushOutput
<1>23. CASE FlushLoadExpected
  BY <1>0, <1>23 DEF FlushLoadExpected
<1>24. CASE FlushClear
  BY <1>0, <1>24 DEF FlushClear
<1>25. CASE WriteCb
  BY <1>0, <1>25 DEF WriteCb
<1>26. CASE WriteInline
  BY <1>0, <1>26 DEF WriteInline
<1>27. CASE RunWhenEmpty
  BY <1>0, <1>27 DEF RunWhenEmpty
<1>28. CASE Terminate
  BY <1>0, <1>28 DEF Terminate
<1>29. CASE SpuriousWakeup
  BY <1>0, <1>29 DEF SpuriousWakeup
<1>30. CASE \E c \in Ctx : ReceiveBuffer(c)
  BY <1>30 DEF ReceiveBuffer
<1>31. CASE UNCHANGED vars
  BY <1>31 DEF vars
<1> QED
  BY <1>1, <1>2, <1>3, <1>4, <1>5, <1>6, <1>7, <1>8, <1>9, <1>10, <1>11,
     <1>12, <1>13, <1>14, <1>15, <1>16, <1>17, <1>18, <1>19, <1>20, <1>21,
     <1>22, <1>23, <1>24, <1>25, <1>26, <1>27, <1>28, <1>29, <1>30, <1>31, Zenon
     DEF Next, MainStep, WriterStep, Environment

\* A read or remove runs with the mutex held, outside sbp_fileio_write, and
\* with no write pending: the single test of wq_wait_empty is enough unless
\* pthread_cond_wait returns without the signal of wq_decrement_and_signal.
THEOREM OperationsRunAlone == Spec => []OperationRunsAlone
<1>1. Init => WakeInv
  BY DEF Init, WakeInv
<1>2. QueueInv /\ WakeInv /\ [Next]_vars => WakeInv'
  BY WakeStep
<1>3. WakeInv => OperationRunsAlone
  BY DEF WakeInv, OperationRunsAlone
<1> QED
  BY <1>1, <1>2, <1>3, QueueInvariant, PTL DEF Spec

=============================================================================
