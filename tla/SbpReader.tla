------------------------------ MODULE SbpReader ------------------------------
(***************************************************************************)
(* The event loop every daemon runs and the SBP connections attached to    *)
(* it: libpiksi's loop.c, sbp_rx.c, sbp_tx.c, sbp_pubsub.c and the part of *)
(* settings_client.c that waits for an answer on that loop.                *)
(*                                                                         *)
(* A process holds one SUB and one PUB socket to a router for each of its  *)
(* contexts.  The loop polls the SUB sockets; a router that goes away      *)
(* disconnects the reader, whose callback replaces the socket from inside  *)
(* the dispatch of the very event that reported it.  libuv frees a closed  *)
(* handle only at the end of an iteration, and the kernel hands out the    *)
(* lowest free descriptor number: both are modelled, with the routers, as  *)
(* external.  Messages are "plain", "answer" (to the settings client's     *)
(* request) or "file" (its handler opens a file and keeps it, as the       *)
(* fileio daemon's do).                                                    *)
(***************************************************************************)
EXTENDS Integers, Sequences, FiniteSets, FiniteSetsExt, Functions

CONSTANTS
  RxContexts,    \* the pubsub contexts on the loop
  SettingsRx,    \* the one that belongs to the settings client
  FdLimit,       \* a bound on descriptor numbers, above what is ever open
  SrLoads        \* what the routers and the process do in a run

ASSUME SbpReaderAssumption == SettingsRx \in RxContexts /\ Cardinality(RxContexts) \in Nat /\ FdLimit \in Nat

VARIABLES
  fds,       \* the open descriptors: number and what it is open on
  handles,   \* the uv handles ever made: kind of life and descriptor
  rx,        \* context -> sbp_rx_ctx_t
  tx,        \* context -> is its PUB socket still connected
  router,    \* context -> is its router up, the state of the SUB connection
  uv,        \* the loop: phase of uv_run, stop flag, batch, timeout timer
  misuse,    \* ways a handle was used that libuv forbids
  sr_left    \* what the load still allows

sr_vars == <<fds, handles, rx, tx, router, uv, misuse, sr_left>>

NoFd == -1
SrFds == 0..FdLimit
LowestFree(f) == Min(SrFds \ {p[1] : p \in f})
OpenOn(f, what) == f \cup {<<LowestFree(f), what>>}
Close(f, n) == {p \in f : p[1] # n}

(* pk_endpoint_create of a client: a socket and, with an identity, the      *)
(* files of its metrics, here one.  A connection that is refused is not     *)
(* retried (retry_connect is false): the socket is closed again.            *)
pk_endpoint_create(f, up) ==
  IF up
  THEN LET g == OpenOn(f, "socket")
       IN [fds |-> OpenOn(g, "metrics"), sock |-> LowestFree(f), metrics |-> LowestFree(g)]
  ELSE [fds |-> f, sock |-> NoFd, metrics |-> NoFd]

(* The socket is closed before the metrics; a client endpoint has no handle *)
(* of its own on the loop.                                                  *)
pk_endpoint_destroy(f, c) == Close(Close(f, c.sock), c.metrics)

(* pk_loop_poll_add starts a handle and gives it its callback context;      *)
(* pk_endpoint_loop_add adds none for a client.  A handle is                *)
(* active, then closing from uv_close to the end of the iteration, then     *)
(* freed with its callback context by handle_destroy_callback.              *)
pk_loop_endpoint_reader_add(hs, c, fd) == Append(hs, [life |-> "active", ctx |-> c, fd |-> fd])

(* uv_close (external): a second close of a handle aborts the process.      *)
uv_close(h) == [h EXCEPT !.life = "closing"]
UvForbids(h) == CASE h.life = "active" -> {} [] h.life = "closing" -> {"closed twice"} [] OTHER -> {"used after free"}

(* Mutant: the test for a handle that is already closing is dropped. *)
Closes_unchecked(h) == TRUE

(* pk_loop_destroy_uv_handle asks the handle before it closes it.           *)
Closes(h) == h.life # "closing"

pk_loop_remove_handle(hs, n) == IF n # 0 /\ Closes(hs[n]) THEN [hs EXCEPT ![n] = uv_close(@)] ELSE hs
Misused(hs, n) == IF n # 0 /\ Closes(hs[n]) THEN UvForbids(hs[n]) ELSE {}

(* Events of one descriptor that epoll already returned are forgotten when  *)
(* its handle is stopped or closed (external: uv__platform_invalidate_fd).  *)
Invalidated(batch, fd) == SelectSeq(batch, LAMBDA e : e.fd # fd)

Active(hs) == {n \in DOMAIN hs : hs[n].life = "active"}
Watcher(hs, fd) == {n \in Active(hs) : hs[n].fd = fd}
Events(c) == (IF router[c].queue # <<>> THEN {"read"} ELSE {}) \cup ({router[c].conn} \ {"ok"})
Ready == {[fd |-> handles[n].fd, events |-> Events(handles[n].ctx)] :
            n \in {k \in Active(handles) : Events(handles[k].ctx) # {}}}

-----------------------------------------------------------------------------
(* sbp_pubsub_create_ex and sbp_pubsub_attach of a context: the PUB         *)
(* endpoint first, then the SUB endpoint and its reader.                    *)
sbp_pubsub_create(s, c) ==
  LET t == pk_endpoint_create(s.fds, TRUE)
      r == pk_endpoint_create(t.fds, TRUE)
  IN [fds |-> r.fds,
      hs  |-> pk_loop_endpoint_reader_add(s.hs, c, r.sock),
      rx  |-> [s.rx EXCEPT ![c] = [sock |-> r.sock, metrics |-> r.metrics, conns |-> 1,
                                   reader |-> Len(s.hs) + 1, interrupt |-> FALSE]]]

no_contexts ==
  [fds |-> {}, hs |-> <<>>,
   rx  |-> [c \in RxContexts |-> [sock |-> NoFd, metrics |-> NoFd, conns |-> 0,
                                  reader |-> 0, interrupt |-> FALSE]]]

(* The contexts are created one after the other, in some order.             *)
SrOrders(S) == {s \in [1..Cardinality(S) -> S] : IsInjective(s)}
Created(order) ==
  LET after[i \in 0..Len(order)] ==
        IF i = 0 THEN no_contexts ELSE sbp_pubsub_create(after[i - 1], order[i])
  IN after[Len(order)]

SrInit ==
  \E order \in SrOrders(RxContexts) :
     /\ fds = Created(order).fds
     /\ handles = Created(order).hs
     /\ rx = Created(order).rx
     /\ tx = [c \in RxContexts |-> TRUE]
     /\ router = [c \in RxContexts |-> [up |-> TRUE, conn |-> "ok", queue |-> <<>>]]
     /\ uv = [phase |-> "idle", call |-> "none", stop |-> FALSE, batch |-> <<>>, timer |-> "off"]
     /\ misuse = {}
     /\ sr_left \in SrLoads

-----------------------------------------------------------------------------
(* send_wrap and wait_wrap: the settings client sends a request, which      *)
(* reaches a router the PUB socket is still connected to (sbp_tx_send; it   *)
(* is never connected again), and waits for the answer.                     *)
pk_loop_run_simple_with_timeout(timer) ==
  /\ uv.phase = "idle"
  /\ sr_left.waits > 0
  /\ uv' = [uv EXCEPT !.phase = "poll", !.call = "wait", !.timer = timer]
  /\ sr_left' = [sr_left EXCEPT !.waits = @ - 1,
                                !.asked = IF tx[SettingsRx] THEN 1 ELSE @]
  /\ UNCHANGED <<fds, handles, rx, tx, router, misuse>>

(* Mutant: the timeout timer is not started. *)
wait_wrap_untimed == pk_loop_run_simple_with_timeout("off")

wait_wrap == pk_loop_run_simple_with_timeout("armed")

pk_loop_run_simple ==
  /\ uv.phase = "idle"
  /\ sr_left.runs > 0
  /\ uv' = [uv EXCEPT !.phase = "poll", !.call = "run"]
  /\ sr_left' = [sr_left EXCEPT !.runs = @ - 1]
  /\ UNCHANGED <<fds, handles, rx, tx, router, misuse>>

(* The timer's callback stops the loop; the iteration goes on with a poll   *)
(* that does not block.                                                     *)
pk_loop_timeout_callback ==
  /\ uv.phase = "poll"
  /\ uv.timer = "armed"
  /\ uv' = [uv EXCEPT !.timer = "off", !.stop = TRUE]
  /\ UNCHANGED <<fds, handles, rx, tx, router, misuse, sr_left>>

(* uv_run (external): a poll, the callbacks of what it returned, then the   *)
(* closing handles are freed.                                               *)
uv_poll ==
  /\ uv.phase = "poll"
  /\ Ready # {} \/ uv.stop
  /\ \E b \in SrOrders(Ready) : uv' = [uv EXCEPT !.phase = "dispatch", !.batch = b]
  /\ UNCHANGED <<fds, handles, rx, tx, router, misuse, sr_left>>

Freed(hs) == [n \in DOMAIN hs |-> IF hs[n].life = "closing" THEN [hs[n] EXCEPT !.life = "freed"] ELSE hs[n]]

(* handle_destroy_callback for each closing handle; uv_run returns when it  *)
(* was stopped or when nothing is left that could wake it, and              *)
(* pk_loop_run_simple_with_timeout then stops the timer.                    *)
uv_closing ==
  /\ uv.phase = "dispatch"
  /\ uv.batch = <<>>
  /\ handles' = Freed(handles)
  /\ uv' = IF uv.stop \/ (Active(handles) = {} /\ uv.timer = "off")
           THEN [uv EXCEPT !.phase = "idle", !.call = "none", !.stop = FALSE, !.timer = "off"]
           ELSE [uv EXCEPT !.phase = "poll"]
  /\ UNCHANGED <<fds, rx, tx, router, misuse, sr_left>>

-----------------------------------------------------------------------------
(* receive_process runs the handlers of every message that has arrived: an  *)
(* answer makes libsettings call signal_wrap, a "file" opens a descriptor.  *)
sbp_rx_read(f, queue) ==
  LET after[i \in 0..Len(queue)] ==
        IF i = 0 THEN f
        ELSE IF queue[i] = "file" THEN OpenOn(after[i - 1], "file") ELSE after[i - 1]
  IN [fds |-> after[Len(queue)], interrupt |-> \E i \in DOMAIN queue : queue[i] = "answer"]

(* The disconnected branch of rx_ctx_reader_loop_callback: detach, the      *)
(* placeholder descriptor, the old endpoint closed, a new one connected     *)
(* and attached, the placeholder closed.                                    *)
Reconnected(c, hs) ==
  LET r     == rx[c]
      force == LowestFree(fds)
      shut  == pk_endpoint_destroy(OpenOn(fds, "null"), r)
      ept   == pk_endpoint_create(shut, router[c].up)
      ok    == ept.sock # NoFd
  IN [fds |-> Close(ept.fds, force), force |-> force, ok |-> ok,
      hs  |-> LET gone == pk_loop_remove_handle(hs, r.reader)
              IN IF ok THEN pk_loop_endpoint_reader_add(gone, c, ept.sock) ELSE gone,
      rx  |-> [r EXCEPT !.sock = ept.sock, !.metrics = ept.metrics,
                        !.conns = IF ok THEN @ + 1 ELSE @,
                        !.reader = IF ok THEN Len(hs) + 1 ELSE 0]]

Unbroken(c, hs) == [fds |-> fds, force |-> NoFd, ok |-> TRUE, hs |-> hs, rx |-> rx[c]]

(* What the callback reads: nothing after a failed reconnection or on a     *)
(* connection in error; on a new connection what its router has sent by     *)
(* then.  The messages left in the old socket are gone.                     *)
Arrived(c, events) ==
  IF "hup" \in events THEN IF router[c].up /\ c # SettingsRx /\ sr_left.publish > 0 THEN {<<>>, <<"file">>} ELSE {<<>>}
  ELSE IF "err" \in events THEN {<<>>}
  ELSE {router[c].queue}

(* reader_interrupt is cleared before the read; a handler may set it.       *)
AfterRead(r, read) == [r EXCEPT !.interrupt = read.interrupt]

(* The socket's queue is read, or gone with the old connection.             *)
Drained(r, reconnected) ==
  [r EXCEPT !.queue = <<>>, !.conn = IF reconnected THEN "ok" ELSE @]

(* What the callback for handle n leaves: the handles hs after the removal  *)
(* of n, new what a reconnection made, read what the handlers did.          *)
rx_ctx_reader_loop_callback(n, events, hs, new, queue, read) ==
  LET c      == handles[n].ctx
      hup    == "hup" \in events
      remove == hup \/ "err" \in events
  IN /\ fds' = IF hup /\ new.ok THEN Close(read.fds, new.force) ELSE read.fds
     /\ handles' = new.hs
     /\ rx' = [rx EXCEPT ![c] = IF new.ok THEN AfterRead(new.rx, read) ELSE new.rx]
     /\ router' = [router EXCEPT ![c] = Drained(@, hup /\ new.ok)]
     /\ uv' = [uv EXCEPT !.batch = IF remove THEN Invalidated(@, handles[n].fd) ELSE Tail(@),
                         !.stop = @ \/ read.interrupt]
     /\ misuse' = misuse \cup (IF remove THEN Misused(handles, n) ELSE {})
                         \cup (IF hup THEN Misused(hs, rx[c].reader) ELSE {})
     /\ sr_left' = IF hup THEN [sr_left EXCEPT !.publish = @ - Len(queue)] ELSE sr_left
     /\ UNCHANGED tx

(* uv_loop_poll_handler and its callback, for the first event of the batch. *)
(* libuv reports an error alone (status < 0, no events): the handle is      *)
(* removed and the callback only tries to read.                             *)
uv_loop_poll_handler ==
  /\ uv.phase = "dispatch"
  /\ uv.batch # <<>>
  /\ LET events == Head(uv.batch).events IN
     \E n \in Watcher(handles, Head(uv.batch).fd) :
     \E hs \in {IF {"hup", "err"} \cap events # {} THEN pk_loop_remove_handle(handles, n) ELSE handles} :
     \E new \in {IF "hup" \in events THEN Reconnected(handles[n].ctx, hs) ELSE Unbroken(handles[n].ctx, hs)} :
     \E queue \in Arrived(handles[n].ctx, events) :
     \E read \in {sbp_rx_read(new.fds, queue)} :
       rx_ctx_reader_loop_callback(n, events, hs, new, queue, read)

-----------------------------------------------------------------------------
(* A router publishes to a context, answers a request, goes away (its       *)
(* sockets close: both connections of the context end), is started again,   *)
(* or resets the SUB connection.                                            *)
publish(c, m) ==
  /\ router[c].up /\ router[c].conn = "ok" /\ rx[c].sock # NoFd
  /\ sr_left.publish > 0
  /\ m = "answer" => c = SettingsRx /\ sr_left.asked > 0
  /\ m = "file" => c # SettingsRx
  /\ router' = [router EXCEPT ![c].queue = Append(@, m)]
  /\ sr_left' = [sr_left EXCEPT !.publish = @ - 1, !.asked = IF m = "answer" THEN 0 ELSE @]
  /\ UNCHANGED <<fds, handles, rx, tx, uv, misuse>>

router_stops(c, how) ==
  /\ router[c].up /\ router[c].conn = "ok"
  /\ sr_left.stops > 0
  /\ router' = [router EXCEPT ![c].up = FALSE, ![c].conn = how]
  /\ tx' = [tx EXCEPT ![c] = FALSE]
  /\ sr_left' = [sr_left EXCEPT !.stops = @ - 1, !.asked = IF c = SettingsRx THEN 0 ELSE @]
  /\ UNCHANGED <<fds, handles, rx, uv, misuse>>

router_starts(c) ==
  /\ ~router[c].up
  /\ router' = [router EXCEPT ![c].up = TRUE]
  /\ UNCHANGED <<fds, handles, rx, tx, uv, misuse, sr_left>>

-----------------------------------------------------------------------------
(* The end of a daemon: pk_loop_destroy closes every handle uv_walk finds   *)
(* and runs the loop until they are freed; the contexts are destroyed       *)
(* after it (health_daemon.c) or before it (sbp_settings_daemon).           *)
pk_loop_destroy ==
  /\ uv.phase = "idle"
  /\ sr_left.runs = 0 /\ sr_left.waits = 0
  /\ handles' = Freed([n \in DOMAIN handles |-> IF n \in Active(handles) THEN uv_close(handles[n]) ELSE handles[n]])
  /\ uv' = [uv EXCEPT !.phase = "destroyed"]
  /\ UNCHANGED <<fds, rx, tx, router, misuse, sr_left>>

sbp_pubsub_destroy(c) ==
  /\ uv.phase \in {"idle", "destroyed"}
  /\ sr_left.runs = 0 /\ sr_left.waits = 0
  /\ rx[c].sock # NoFd
  /\ fds' = pk_endpoint_destroy(fds, rx[c])
  /\ rx' = [rx EXCEPT ![c].sock = NoFd, ![c].metrics = NoFd]
  /\ UNCHANGED <<handles, tx, router, uv, misuse, sr_left>>

SrLoop == \/ pk_loop_timeout_callback \/ uv_poll \/ uv_closing \/ uv_loop_poll_handler

SrNext ==
  \/ SrLoop
  \/ wait_wrap \/ pk_loop_run_simple \/ pk_loop_destroy
  \/ \E c \in RxContexts :
       \/ sbp_pubsub_destroy(c) \/ router_starts(c)
       \/ \E m \in {"plain", "answer", "file"} : publish(c, m)
       \/ \E how \in {"hup", "err"} : router_stops(c, how)

SrSpec == SrInit /\ [][SrNext]_sr_vars

-----------------------------------------------------------------------------
(* No handle is closed twice or touched after libuv freed it, although a    *)
(* disconnected reader is removed by uv_loop_poll_handler and again by the  *)
(* detach of its callback, in the same dispatch, and the loop of a daemon   *)
(* may be destroyed before or after the contexts that hold its handles.     *)
HandlesAreLive == misuse = {}

(* A wait for an answer returns, also when the router that should answer    *)
(* went away while the request was under way.                               *)
WaitReturns == uv.call = "wait" ~> uv.call = "none"
=============================================================================
