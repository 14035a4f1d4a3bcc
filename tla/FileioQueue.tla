----------------------------- MODULE FileioQueue -----------------------------
(***************************************************************************)
(* The write queue of sbp_fileio_daemon (sbp_fileio.c).  Two threads run:  *)
(* the main thread, which drives the event loop and handles SBP requests,  *)
(* and the write thread, which performs the file writes and stages their   *)
(* replies.  They share a ring of write requests, a pipe that carries      *)
(* pointers into the ring, two atomic counters, the `flush_pending' cell   *)
(* and one mutex with its condition variable.                              *)
(*                                                                         *)
(* The file system is abstracted to the outcome of a write; the cache of   *)
(* open files is the subject of module FileioCache.                        *)
(***************************************************************************)
EXTENDS Integers, Sequences, FiniteSets

CONSTANTS
  PubsubCount,       \* pubsub_count: one context per --pub/--sub pair
  WQ_MAX_PENDING,    \* slots of the ring of write requests
  PipeCapacity,      \* pointers that fit in request_pipe
  SendBufferReplies, \* replies that fit in send_buffer
  MaxWrites,         \* bound: write requests received
  MaxOps,            \* bound: read and remove requests received
  MaxBuffers,        \* bound: receive buffers processed
  ThreadingOptions   \* values of disable_threading to consider (--no-threading)

ASSUME QueueAssumption ==
  /\ PubsubCount \in Nat \ {0}
  /\ WQ_MAX_PENDING \in Nat \ {0}
  /\ PipeCapacity \in Nat
  /\ SendBufferReplies \in Nat \ {0}
  /\ MaxWrites \in Nat
  /\ MaxOps \in Nat
  /\ MaxBuffers \in Nat
  /\ ThreadingOptions \in SUBSET BOOLEAN

Ctx == 0 .. (PubsubCount - 1)
Slot == 0 .. (WQ_MAX_PENDING - 1)

\* Outside Ctx and Slot: the value of flush_pending when nothing is to be
\* flushed, and a null pointer in the pipe, which asks for a flush.
SIZET_MAX == -1
NULL == -1

\* What write_cb copies into a slot.  The id stands for the message.
Request == [id : Nat, pubsub_idx : Ctx]
NoRequest == [id |-> 0, pubsub_idx |-> 0]

\* A pointer in the pipe.  `req' is history: what the slot held when the
\* pointer was written.
Entry == [slot : Slot \cup {NULL}, req : Request]
NullEntry == [slot |-> NULL, req |-> NoRequest]

VARIABLES
  disable_threading,
  mpc,             \* control state of the main thread
  mctx,            \* main: context whose receive buffer is processed
  mexp,            \* main: `expected' in request_flush_output_sbp
  wpc,             \* control state of the write thread
  wreq,            \* write thread: the pipe entry being processed
  wexp,            \* write thread: `expected' before its compare-exchange
  wok,             \* write thread: write_success
  lock,            \* holder of the mutex
  write_req_index,
  writes_pending,
  write_requests,  \* the ring
  request_pipe,
  flush_pending,
  send_buffer,     \* per context, the ids of the staged replies
  executed,        \* history: ids whose write was carried out
  succeeded,       \* history: ids whose write succeeded
  sent,            \* history: <<id, context>> handed to pk_endpoint_send
  crashed,         \* "no", "assert" or "ub"
  writes,          \* write requests so far (bounded)
  ops,             \* read and remove requests so far (bounded)
  buffers          \* receive buffers so far (bounded)

mainVars == <<mpc, mctx, mexp>>
wtVars == <<wpc, wreq, wexp, wok>>
queueVars == <<write_req_index, writes_pending, write_requests, request_pipe>>
replyVars == <<flush_pending, send_buffer, sent>>
histVars == <<disable_threading, executed, succeeded, crashed, writes, ops, buffers>>
vars == <<mainVars, wtVars, lock, queueVars, replyVars, histVars>>

MainStates ==
  {"create", "start", "startwait", "startwoken", "loop", "parse", "incr",
   "slot", "push", "oplock", "opwait", "opwoken", "oprun", "opearly",
   "oprun_early", "cas", "null", "td_validator", "td_close", "join",
   "exited"}
WriterStates ==
  {"off", "init", "read", "lock", "exec", "stage", "flush", "load", "cas",
   "done"}

Alive == crashed = "no"

\* Teardown: sbp_pubsub_destroy, path_validator_destroy and the close of the
\* pipe happen in this order, while the write thread may still be running.
PubsubDestroyed == mpc \in {"td_validator", "td_close", "join"}
ValidatorDestroyed == mpc \in {"td_close", "join"}
PipeClosed == mpc \in {"join", "exited"}

-----------------------------------------------------------------------------
\* flush_pending starts at `false', that is 0, not at SIZET_MAX.
Init ==
  /\ disable_threading \in ThreadingOptions
  /\ mpc = "create" /\ mctx = 0 /\ mexp = SIZET_MAX
  /\ wpc = "off" /\ wreq = NullEntry /\ wexp = SIZET_MAX /\ wok = FALSE
  /\ lock = "none"
  /\ write_req_index = 0 /\ writes_pending = 0
  /\ write_requests = [s \in Slot |-> NoRequest]
  /\ request_pipe = <<>>
  /\ flush_pending = 0
  /\ send_buffer = [c \in Ctx |-> <<>>]
  /\ executed = {} /\ succeeded = {} /\ sent = {} /\ crashed = "no"
  /\ writes = 0 /\ ops = 0 /\ buffers = 0

\* write() to the pipe is non-blocking: when the pipe is full the failure is
\* logged and the pointer is lost.
WritePipe(e) ==
  request_pipe' = IF Len(request_pipe) < PipeCapacity
                  THEN Append(request_pipe, e)
                  ELSE request_pipe

\* flush_output_sbp(c) for a valid context: all staged replies go out in one
\* packet and the buffer is reset.
Flushed(c) == sent \cup {<<send_buffer[c][i], c>> : i \in DOMAIN send_buffer[c]}

-----------------------------------------------------------------------------
(* The main thread: startup.                                               *)

\* sbp_fileio_setup: pthread_create, unless threading is disabled.
SetupCreateThread ==
  /\ Alive /\ mpc = "create"
  /\ IF disable_threading
     THEN mpc' = "loop" /\ UNCHANGED wpc
     ELSE mpc' = "start" /\ wpc' = "init"
  /\ UNCHANGED <<mctx, mexp, wreq, wexp, wok, lock, queueVars, replyVars, histVars>>

\* wq_with_lock(wq_wait_startup): pthread_cond_wait releases the mutex it
\* has just acquired.
WaitStartup ==
  /\ Alive /\ mpc = "start" /\ lock = "none"
  /\ mpc' = "startwait"
  /\ UNCHANGED <<mctx, mexp, wtVars, lock, queueVars, replyVars, histVars>>

\* pthread_cond_wait returns holding the mutex, which is then released.
StartupDone ==
  /\ Alive /\ mpc = "startwoken" /\ lock = "none"
  /\ mpc' = "loop"
  /\ UNCHANGED <<mctx, mexp, wtVars, lock, queueVars, replyVars, histVars>>

-----------------------------------------------------------------------------
(* The main thread: requests.                                              *)

\* receive_process starts on a buffer received for context c.
ReceiveBuffer(c) ==
  /\ Alive /\ mpc = "loop" /\ buffers < MaxBuffers
  /\ mpc' = "parse" /\ mctx' = c /\ buffers' = buffers + 1
  /\ UNCHANGED <<mexp, wtVars, lock, queueVars, replyVars,
                 disable_threading, executed, succeeded, crashed, writes, ops>>

\* write_cb takes the next message and calls queue_file_write.
WriteCb ==
  /\ Alive /\ mpc = "parse" /\ ~disable_threading /\ writes < MaxWrites
  /\ mpc' = "incr" /\ writes' = writes + 1
  /\ UNCHANGED <<mctx, mexp, wtVars, lock, queueVars, replyVars, executed,
                 disable_threading, succeeded, crashed, ops, buffers>>

\* Mutant: the limit of the spin is off by one.
IncrementPendingWritesOffByOne ==
  /\ Alive /\ mpc = "incr"
  /\ writes_pending # WQ_MAX_PENDING + 1
  /\ writes_pending' = writes_pending + 1
  /\ mpc' = "slot"
  /\ UNCHANGED <<mctx, mexp, wtVars, lock, write_req_index, write_requests,
                 request_pipe, replyVars, histVars>>

\* wq_increment_pending_writes spins while the ring is full, without holding
\* the mutex.
IncrementPendingWrites ==
  /\ Alive /\ mpc = "incr"
  /\ writes_pending # WQ_MAX_PENDING
  /\ writes_pending' = writes_pending + 1
  /\ mpc' = "slot"
  /\ UNCHANGED <<mctx, mexp, wtVars, lock, write_req_index, write_requests,
                 request_pipe, replyVars, histVars>>

\* wq_acquire_index and the copy of the message into the slot.
AcquireAndFillSlot ==
  /\ Alive /\ mpc = "slot"
  /\ write_requests' = [write_requests EXCEPT ![write_req_index % WQ_MAX_PENDING] =
                          [id |-> write_req_index, pubsub_idx |-> mctx]]
  /\ write_req_index' = write_req_index + 1
  /\ mpc' = "push"
  /\ UNCHANGED <<mctx, mexp, wtVars, lock, writes_pending, request_pipe,
                 replyVars, histVars>>

\* Mutant: the pointer is taken from the index after the increment.
PushRequestNextSlot ==
  /\ Alive /\ mpc = "push"
  /\ LET s == write_req_index % WQ_MAX_PENDING
     IN WritePipe([slot |-> s, req |-> write_requests[s]])
  /\ mpc' = "parse"
  /\ UNCHANGED <<mctx, mexp, wtVars, lock, write_req_index, writes_pending,
                 write_requests, replyVars, histVars>>

\* The pointer to the slot goes into the pipe.
PushRequest ==
  /\ Alive /\ mpc = "push"
  /\ LET s == (write_req_index - 1) % WQ_MAX_PENDING
     IN WritePipe([slot |-> s, req |-> write_requests[s]])
  /\ mpc' = "parse"
  /\ UNCHANGED <<mctx, mexp, wtVars, lock, write_req_index, writes_pending,
                 write_requests, replyVars, histVars>>

\* write_cb with threading disabled: write, stage the reply and flush.
WriteInline ==
  /\ Alive /\ mpc = "parse" /\ disable_threading
  /\ writes < MaxWrites /\ writes' = writes + 1
  /\ executed' = executed \cup {writes}
  /\ \/ /\ succeeded' = succeeded \cup {writes}
        /\ sent' = Flushed(mctx) \cup {<<writes, mctx>>}
     \/ /\ UNCHANGED succeeded
        /\ sent' = Flushed(mctx)
  /\ send_buffer' = [send_buffer EXCEPT ![mctx] = <<>>]
  /\ UNCHANGED <<mainVars, wtVars, lock, queueVars, flush_pending, crashed,
                 disable_threading, ops, buffers>>

\* read_cb and remove_cb reach wq_run_when_empty.
RunWhenEmpty ==
  /\ Alive /\ mpc = "parse" /\ ops < MaxOps
  /\ ops' = ops + 1
  /\ mpc' = IF disable_threading THEN "parse" ELSE "oplock"
  /\ UNCHANGED <<mctx, mexp, wtVars, lock, queueVars, replyVars, executed,
                 disable_threading, succeeded, crashed, writes, buffers>>

\* pthread_mutex_lock, then wq_wait_empty: one test, and one wait if it fails.
LockAndWaitEmpty ==
  /\ Alive /\ mpc = "oplock" /\ lock = "none"
  /\ IF writes_pending = 0
     THEN lock' = "main" /\ mpc' = "oprun"
     ELSE UNCHANGED lock /\ mpc' = "opwait"
  /\ UNCHANGED <<mctx, mexp, wtVars, queueVars, replyVars, histVars>>

\* pthread_cond_wait returns with the mutex; writes_pending is not tested
\* again, so a wait that ended without its signal runs the operation early.
WakeFromWaitEmpty ==
  /\ Alive /\ lock = "none" /\ lock' = "main"
  /\ \/ mpc = "opwoken" /\ mpc' = "oprun"
     \/ mpc = "opearly" /\ mpc' = "oprun_early"
  /\ UNCHANGED <<mctx, mexp, wtVars, queueVars, replyVars, histVars>>

\* when_empty_fn runs and the mutex is released.
RunOperation ==
  /\ Alive /\ mpc \in {"oprun", "oprun_early"}
  /\ lock' = "none" /\ mpc' = "parse"
  /\ UNCHANGED <<mctx, mexp, wtVars, queueVars, replyVars, histVars>>

\* pthread_cond_wait may return for no reason.
SpuriousWakeup ==
  /\ Alive
  /\ \/ mpc = "startwait" /\ mpc' = "startwoken"
     \/ mpc = "opwait" /\ mpc' = "opearly"
  /\ UNCHANGED <<mctx, mexp, wtVars, lock, queueVars, replyVars, histVars>>

\* The buffer is exhausted: post_receive_buffer asks for a flush of mctx.
\* `expected' is set once, before the loop.
PostReceiveBuffer ==
  /\ Alive /\ mpc = "parse"
  /\ mpc' = "cas" /\ mexp' = SIZET_MAX
  /\ UNCHANGED <<mctx, wtVars, lock, queueVars, replyVars, histVars>>

\* One turn of the loop in request_flush_output_sbp.  A failed
\* compare-exchange stores the value it found in `expected'.
RequestFlushCompareExchange ==
  /\ Alive /\ mpc = "cas"
  /\ IF flush_pending = mexp
     THEN flush_pending' = mctx /\ mpc' = "null" /\ UNCHANGED mexp
     ELSE mexp' = flush_pending /\ UNCHANGED <<flush_pending, mpc>>
  /\ UNCHANGED <<mctx, wtVars, lock, queueVars, send_buffer, sent, histVars>>

\* A null pointer in the pipe wakes the write thread.
RequestFlushWrite ==
  /\ Alive /\ mpc = "null"
  /\ WritePipe(NullEntry)
  /\ mpc' = "loop"
  /\ UNCHANGED <<mctx, mexp, wtVars, lock, write_req_index, writes_pending,
                 write_requests, replyVars, histVars>>

-----------------------------------------------------------------------------
(* The main thread: termination.                                           *)

\* A terminate signal stops the loop; main destroys the pubsub contexts.
Terminate ==
  /\ Alive /\ mpc = "loop"
  /\ mpc' = "td_validator"
  /\ UNCHANGED <<mctx, mexp, wtVars, lock, queueVars, replyVars, histVars>>

DestroyValidator ==
  /\ Alive /\ mpc = "td_validator"
  /\ mpc' = "td_close"
  /\ UNCHANGED <<mctx, mexp, wtVars, lock, queueVars, replyVars, histVars>>

\* sbp_fileio_teardown closes the pipe: what it still holds is lost.
TeardownClosePipe ==
  /\ Alive /\ mpc = "td_close"
  /\ mpc' = "join" /\ request_pipe' = <<>>
  /\ UNCHANGED <<mctx, mexp, wtVars, lock, write_req_index, writes_pending,
                 write_requests, replyVars, histVars>>

\* pthread_join, then the contexts are freed and main exits.
TeardownJoin ==
  /\ Alive /\ mpc = "join" /\ (disable_threading \/ wpc = "done")
  /\ mpc' = "exited"
  /\ UNCHANGED <<mctx, mexp, wtVars, lock, queueVars, replyVars, histVars>>

-----------------------------------------------------------------------------
(* The write thread.                                                       *)

\* pthread_cond_signal of wq_decrement_and_signal wakes the main thread if it
\* is waiting; otherwise the signal is lost.
Signalled == CASE mpc = "startwait" -> "startwoken"
               [] mpc = "opwait" -> "opwoken"
               [] OTHER -> mpc

\* write_thread_handler: wq_with_lock(wq_signal_startup).  The condition
\* variable is the same for both waits: after a spurious wake-up at startup
\* this signal may meet a main thread that waits for the queue to drain.
SignalStartup ==
  /\ Alive /\ wpc = "init" /\ lock = "none"
  /\ mpc' = CASE mpc = "startwait" -> "startwoken"
              [] mpc = "opwait" -> "opearly"
              [] OTHER -> mpc
  /\ wpc' = "read"
  /\ UNCHANGED <<mctx, mexp, wreq, wexp, wok, lock, queueVars, replyVars, histVars>>

\* select and read: a null pointer asks for a flush, any other is a request.
\* The wait times out every WQ_SELECT_SLEEP_MS and starts again.
ReadPipe ==
  /\ Alive /\ wpc = "read" /\ request_pipe # <<>>
  /\ wreq' = Head(request_pipe)
  /\ request_pipe' = Tail(request_pipe)
  /\ wpc' = IF Head(request_pipe).slot = NULL THEN "flush" ELSE "lock"
  /\ UNCHANGED <<mainVars, wexp, wok, lock, write_req_index, writes_pending,
                 write_requests, replyVars, histVars>>

\* select fails with EBADF once the pipe is closed.
WriterStops ==
  /\ Alive /\ wpc = "read" /\ PipeClosed
  /\ wpc' = "done"
  /\ UNCHANGED <<mainVars, wreq, wexp, wok, lock, queueVars, replyVars, histVars>>

\* Under the mutex, sbp_fileio_write carries the request out.  It uses the
\* path validator: if main has destroyed it the behaviour is undefined.
ExecuteWrite ==
  /\ Alive /\ wpc = "lock" /\ lock = "none"
  /\ lock' = "writer" /\ wpc' = "exec"
  /\ LET id == write_requests[wreq.slot].id
     IN /\ executed' = executed \cup {id}
        /\ wok' \in BOOLEAN
        /\ succeeded' = IF wok' THEN succeeded \cup {id} ELSE succeeded
  /\ crashed' \in IF ValidatorDestroyed THEN {"no", "ub"} ELSE {"no"}
  /\ UNCHANGED <<mainVars, wreq, wexp, queueVars, replyVars, disable_threading, writes,
                 ops, buffers>>

\* Mutants: a failed write is not uncounted; every write signals; none does.
DecrementOnSuccess ==
  /\ Alive /\ wpc = "exec"
  /\ writes_pending' = IF wok THEN writes_pending - 1 ELSE writes_pending
  /\ mpc' = IF writes_pending = 1 THEN Signalled ELSE mpc
  /\ lock' = "none"
  /\ wpc' = IF wok THEN "stage" ELSE "read"
  /\ UNCHANGED <<mctx, mexp, wreq, wexp, wok, write_req_index, write_requests,
                 request_pipe, replyVars, histVars>>

DecrementSignalsAlways ==
  /\ Alive /\ wpc = "exec"
  /\ writes_pending' = writes_pending - 1
  /\ mpc' = Signalled
  /\ lock' = "none"
  /\ wpc' = IF wok THEN "stage" ELSE "read"
  /\ UNCHANGED <<mctx, mexp, wreq, wexp, wok, write_req_index, write_requests,
                 request_pipe, replyVars, histVars>>

DecrementNoSignal ==
  /\ Alive /\ wpc = "exec"
  /\ writes_pending' = writes_pending - 1
  /\ lock' = "none"
  /\ wpc' = IF wok THEN "stage" ELSE "read"
  /\ UNCHANGED <<mainVars, wreq, wexp, wok, write_req_index, write_requests,
                 request_pipe, replyVars, histVars>>

\* wq_decrement_and_signal, then the mutex is released.
DecrementAndSignal ==
  /\ Alive /\ wpc = "exec"
  /\ writes_pending' = writes_pending - 1
  /\ mpc' = IF writes_pending = 1 THEN Signalled ELSE mpc
  /\ lock' = "none"
  /\ wpc' = IF wok THEN "stage" ELSE "read"
  /\ UNCHANGED <<mctx, mexp, wreq, wexp, wok, write_req_index, write_requests,
                 request_pipe, replyVars, histVars>>

\* stage_output_sbp: the reply carries the request's sequence number, copied
\* before the write; the context is read from the slot only now.
StageReply ==
  /\ Alive /\ wpc = "stage"
  /\ LET c == write_requests[wreq.slot].pubsub_idx
         full == Len(send_buffer[c]) = SendBufferReplies
     IN /\ send_buffer' = [send_buffer EXCEPT ![c] =
                             IF full THEN <<wreq.req.id>> ELSE Append(@, wreq.req.id)]
        /\ sent' = IF full THEN Flushed(c) ELSE sent
        /\ crashed' \in IF full /\ PubsubDestroyed THEN {"no", "ub"} ELSE {"no"}
  /\ wpc' = "read"
  /\ UNCHANGED <<mainVars, wreq, wexp, wok, lock, queueVars, flush_pending,
                 disable_threading, executed, succeeded, writes, ops, buffers>>

\* flush_output_sbp(flush_pending).  With SIZET_MAX it reads outside
\* pubsub_contexts, and after sbp_pubsub_destroy it uses a freed endpoint:
\* both are undefined.
FlushOutput ==
  /\ Alive /\ wpc = "flush"
  /\ wpc' = "load"
  /\ IF flush_pending = SIZET_MAX
     THEN crashed' \in {"no", "ub"} /\ UNCHANGED <<send_buffer, sent>>
     ELSE /\ sent' = Flushed(flush_pending)
          /\ send_buffer' = [send_buffer EXCEPT ![flush_pending] = <<>>]
          /\ crashed' \in IF PubsubDestroyed /\ send_buffer[flush_pending] # <<>>
                          THEN {"no", "ub"} ELSE {"no"}
  /\ UNCHANGED <<mainVars, wreq, wexp, wok, lock, queueVars, flush_pending,
                 disable_threading, executed, succeeded, writes, ops, buffers>>

\* expected = flush_pending
FlushLoadExpected ==
  /\ Alive /\ wpc = "load"
  /\ wexp' = flush_pending /\ wpc' = "cas"
  /\ UNCHANGED <<mainVars, wreq, wok, lock, queueVars, replyVars, histVars>>

\* The compare-exchange that clears flush_pending, and assert(cmp).
FlushClear ==
  /\ Alive /\ wpc = "cas"
  /\ IF flush_pending = wexp
     THEN flush_pending' = SIZET_MAX /\ wpc' = "read" /\ UNCHANGED crashed
     ELSE crashed' = "assert" /\ UNCHANGED <<flush_pending, wpc>>
  /\ UNCHANGED <<mainVars, wreq, wexp, wok, lock, queueVars, send_buffer, sent,
                 disable_threading, executed, succeeded, writes, ops, buffers>>

-----------------------------------------------------------------------------
\* Steps a thread takes on its own.
MainStep ==
  \/ SetupCreateThread \/ WaitStartup \/ StartupDone
  \/ IncrementPendingWrites \/ AcquireAndFillSlot \/ PushRequest
  \/ LockAndWaitEmpty \/ WakeFromWaitEmpty \/ RunOperation
  \/ PostReceiveBuffer \/ RequestFlushCompareExchange \/ RequestFlushWrite
  \/ DestroyValidator \/ TeardownClosePipe \/ TeardownJoin

WriterStep ==
  \/ SignalStartup \/ ReadPipe \/ WriterStops \/ ExecuteWrite
  \/ DecrementAndSignal \/ StageReply
  \/ FlushOutput \/ FlushLoadExpected \/ FlushClear

\* What clients, the operator and the scheduler may cause.
Environment ==
  \/ \E c \in Ctx : ReceiveBuffer(c)
  \/ WriteCb \/ WriteInline \/ RunWhenEmpty
  \/ Terminate \/ SpuriousWakeup

Next == MainStep \/ WriterStep \/ Environment

Spec == Init /\ [][Next]_vars

\* Both threads are scheduled; requests and signals need not come.
FairSpec == Spec /\ WF_vars(MainStep) /\ WF_vars(WriterStep)

-----------------------------------------------------------------------------
(* Properties.                                                             *)

\* Type invariant: every variable of sbp_fileio.c's write_thread_ctx, and both
\* threads' locals, stay in their sets.
TypeOK ==
  /\ disable_threading \in BOOLEAN
  /\ mpc \in MainStates /\ mctx \in Ctx /\ mexp \in Ctx \cup {SIZET_MAX}
  /\ wpc \in WriterStates /\ wreq \in Entry
  /\ wexp \in Ctx \cup {SIZET_MAX} /\ wok \in BOOLEAN
  /\ lock \in {"none", "main", "writer"}
  /\ write_req_index \in Nat /\ writes_pending \in Nat
  /\ write_requests \in [Slot -> Request]
  /\ request_pipe \in Seq(Entry)
  /\ flush_pending \in Ctx \cup {SIZET_MAX}
  /\ send_buffer \in [Ctx -> Seq(Nat)]
  /\ executed \subseteq Nat /\ succeeded \subseteq Nat
  /\ sent \subseteq Nat \X Ctx
  /\ crashed \in {"no", "assert", "ub"}
  /\ writes \in Nat /\ ops \in Nat /\ buffers \in Nat

\* A request is not overwritten before it is carried out: the main thread
\* never reuses a slot of the ring whose pointer is still in the pipe, or
\* that sbp_fileio_write is about to use or is using.
RequestsIntact ==
  /\ \A i \in DOMAIN request_pipe :
       request_pipe[i].slot # NULL =>
         write_requests[request_pipe[i].slot] = request_pipe[i].req
  /\ wpc \in {"lock", "exec"} => write_requests[wreq.slot] = wreq.req

\* The write thread carries requests out in the order write_cb received them
\* and carries none out twice, however the ring wraps.
WritesInOrder ==
  [][wpc = "lock" /\ wpc' = "exec" =>
       \E new \in executed' : \A old \in executed : old < new]_vars

\* The number of requests the write thread has still to finish, or the main
\* thread has still to hand over.
Outstanding ==
  Cardinality({i \in DOMAIN request_pipe : request_pipe[i].slot # NULL})
    + (IF wpc \in {"lock", "exec"} THEN 1 ELSE 0)
    + (IF mpc \in {"slot", "push"} THEN 1 ELSE 0)

\* writes_pending is exactly the number of requests on their way: nothing is
\* counted twice or forgotten, so wq_wait_empty waits for the right event.
PendingIsQueued == ~PipeClosed => writes_pending = Outstanding

\* A read or remove that wq_wait_empty let through runs while the write thread
\* is outside sbp_fileio_write and, unless pthread_cond_wait returned without
\* the signal of wq_decrement_and_signal, while no write is pending: the
\* single test of writes_pending and the signal under the mutex are enough.
OperationRunsAlone ==
  /\ mpc = "oprun" => writes_pending = 0
  /\ mpc \in {"oprun", "oprun_early"} => lock = "main" /\ wpc # "exec"

\* A read or remove that waits for the queue to drain is woken and completes:
\* the signal of wq_decrement_and_signal cannot be lost.
OperationCompletes == mpc = "oplock" ~> (mpc = "parse" \/ ~Alive)

\* A message handed to write_cb is carried out by the write thread, unless
\* the daemon is told to terminate: the spin on a full ring always ends.
WriteCarriedOut ==
  \A id \in 0 .. (MaxWrites - 1) :
    (writes > id) ~> (id \in executed \/ ~Alive \/ PubsubDestroyed \/ PipeClosed)

\* request_flush_output_sbp returns to the event loop, with and without a
\* write thread to clear flush_pending.
BufferCompletes == mpc = "cas" ~> (mpc = "loop" \/ ~Alive)

\* After a terminate signal main joins the write thread and exits.
TerminateExits == mpc = "td_validator" ~> (mpc = "exited" \/ ~Alive)

\* Whatever either thread of the daemon waits for comes: the read that waits
\* for the queue, the write in it, the request to flush and the exit.
WorkCompletes == OperationCompletes /\ WriteCarriedOut /\ BufferCompletes /\ TerminateExits

-----------------------------------------------------------------------------
(* Statements of the source that the code does not meet.                   *)

\* "Responds to a SBP_MSG_FILEIO_WRITE_REQ message" (sbp_fileio.c:1281): the
\* reply to a write that succeeded is eventually sent.
WriteAnswered ==
  \A id \in 0 .. (MaxWrites - 1) :
    (id \in succeeded) ~> ((\E c \in Ctx : <<id, c>> \in sent)
                           \/ ~Alive \/ PubsubDestroyed \/ PipeClosed)
=============================================================================
