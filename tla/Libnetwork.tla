------------------------------ MODULE Libnetwork ------------------------------
(***************************************************************************)
(* A libnetwork session (package/libnetwork/src/libnetwork.c): the request *)
(* loop of network_request around curl_easy_perform, the callbacks cURL    *)
(* makes inside it (progress, download write, GGA upload), the control     *)
(* FIFOs that a `skylark_daemon --get-health' talks to, and the two        *)
(* signals that set flags of the context.  One thread runs all of it; the  *)
(* requesters, the reader of the output FIFO, the network and the signals  *)
(* interleave with it.                                                     *)
(*                                                                         *)
(* A byte of a body is its position in the body, 0 a byte read from behind *)
(* the buffer that cURL handed over.                                       *)
(***************************************************************************)
EXTENDS Integers, Sequences, FiniteSets

CONSTANTS MAX_STALL_TIME_S,  \* seconds without a byte before a connection is cut
          gga_xfer_secs,     \* seconds between two GGA uploads
          max_bytes,         \* byte limit of an OTA request
          BODY,              \* bound: bytes a server sends on one connection
          CHUNK,             \* bound: bytes of one write callback
          PIPE_SIZE,         \* capacity of the output FIFO
          Requesters,        \* processes that ask for the health
          MaxSignals         \* bound on signals

ASSUME NetAssumption == MAX_STALL_TIME_S \in Nat /\ max_bytes \in Nat /\ MaxSignals \in Nat

VARIABLES kind,       \* network_type_t of the session
          net,        \* where the session's thread is
          ctx,        \* network_context_t: flags and counters
          conn,       \* the connection inside curl_easy_perform
          buf,        \* the locals of network_download_write
          out,        \* [sent: this connection's bytes written, room in the FIFO, reader]
          gga,        \* GGA upload: time since the last, paused, cached, the file
          fifo,       \* the control FIFOs
          requester,  \* libnetwork_request_health in each requester
          signals     \* signals still to come

net_vars == <<kind, net, ctx, conn, buf, out, gga, fifo, requester, signals>>

Kinds == {"ntrip", "skylark_download", "skylark_upload", "ota"}

continuous == kind # "ota"

NoBuf == [from |-> 0, size |-> 0, offset |-> 0, remaining |-> 0, part |-> 0]
NewConn == [now |-> 0, result |-> "none", idle |-> 0]

NetInit ==
  /\ kind \in Kinds
  /\ net = "created"
  /\ ctx = [shutdown |-> FALSE, cycle |-> FALSE, moved |-> 0, stall |-> 0, cur |-> 0]
  /\ conn = NewConn
  /\ buf = NoBuf
  /\ out = [sent |-> <<>>, held |-> 0, reader |-> TRUE, cut |-> FALSE]
  /\ gga = [since |-> 0, paused |-> FALSE, cached |-> FALSE, file |-> FALSE]
  /\ fifo = [reading |-> FALSE, commands |-> 0, writing |-> FALSE, replies |-> 0]
  /\ requester = [r \in Requesters |-> "idle"]
  /\ signals = MaxSignals

-----------------------------------------------------------------------------
(* The request loop.                                                       *)

\* Mutant: the stall time of the connection before is kept.
network_reset_counters_stall(c) == [c EXCEPT !.cur = 0, !.moved = 0]

network_reset_counters(c) == [c EXCEPT !.cur = 0, !.moved = 0, !.stall = 0]

\* curl_easy_perform begins: a new connection.
Perform ==
  /\ net' = "perform"
  /\ conn' = NewConn
  /\ buf' = NoBuf
  /\ out' = [out EXCEPT !.sent = <<>>, !.cut = FALSE]
  /\ gga' = [gga EXCEPT !.since = 0, !.paused = FALSE]

\* network_setup, the headers and options of the session, and the first request
network_setup ==
  /\ net = "created"
  /\ ctx' = network_reset_counters([ctx EXCEPT !.shutdown = FALSE])
  /\ Perform
  /\ UNCHANGED <<kind, fifo, requester, signals>>

\* libnetwork_destroy closes the control FIFOs.
Finish ==
  /\ net' = "done"
  /\ fifo' = [fifo EXCEPT !.reading = FALSE, !.writing = FALSE]

network_request_shutdown ==
  /\ net = "returned" /\ ctx.shutdown
  /\ Finish
  /\ UNCHANGED <<kind, ctx, conn, buf, out, gga, requester, signals>>

network_request_retry ==
  /\ net = "returned" /\ ~ctx.shutdown /\ conn.result = "aborted"
  /\ ctx' = network_reset_counters(ctx)
  /\ Perform
  /\ UNCHANGED <<kind, fifo, requester, signals>>

network_request_result ==
  /\ net = "returned" /\ ~ctx.shutdown /\ conn.result # "aborted"
  /\ IF continuous
     THEN net' = "sleep" /\ UNCHANGED fifo
     ELSE Finish
  /\ UNCHANGED <<kind, ctx, conn, buf, out, gga, requester, signals>>

network_request_again ==
  /\ net = "sleep"
  /\ ctx' = network_reset_counters(ctx)
  /\ Perform
  /\ UNCHANGED <<kind, fifo, requester, signals>>

-----------------------------------------------------------------------------
(* The progress callback: control FIFO, flags, stall, GGA.                 *)

GgaDue == gga.since >= gga_xfer_secs

CurlReturns(r) == net' = "returned" /\ conn' = [conn EXCEPT !.result = r]

\* Mutant: there is no stall check.
network_progress_check_patient(c) ==
  LET aborts == c.shutdown \/ c.cycle
  IN  /\ ctx' = IF ~c.shutdown /\ c.cycle THEN [c EXCEPT !.cycle = FALSE]
                ELSE [c EXCEPT !.moved = conn.now, !.stall = 0]
      /\ IF aborts THEN CurlReturns("aborted") ELSE net' = "perform" /\ UNCHANGED conn
      /\ gga' = [gga EXCEPT !.paused = @ /\ (aborts \/ ~GgaDue)]

\* The rest of network_progress_check once the control FIFO is served, in context c.
network_progress_check(c) ==
  LET aborts == c.shutdown \/ c.cycle \/ (c.moved = conn.now /\ c.stall >= MAX_STALL_TIME_S)
  IN  /\ ctx' = CASE c.shutdown -> c
                  [] ~c.shutdown /\ c.cycle -> [c EXCEPT !.cycle = FALSE]
                  [] OTHER -> IF c.moved = conn.now THEN c
                              ELSE [c EXCEPT !.moved = conn.now, !.stall = 0]
      /\ IF aborts THEN CurlReturns("aborted") ELSE net' = "perform" /\ UNCHANGED conn
      /\ gga' = [gga EXCEPT !.paused = @ /\ (aborts \/ ~GgaDue)]

Readers == {r \in Requesters : requester[r] = "reading"}

\* A reply (the response code, whichever it is) written while nobody has the
\* response FIFO open is lost (EPIPE).
Replied(f) == IF Readers = {} THEN f.replies ELSE f.replies + 1

progress ==
  /\ net = "perform"
  /\ LET opened == [fifo EXCEPT !.reading = TRUE]
     IN  IF kind # "skylark_download" THEN network_progress_check(ctx) /\ UNCHANGED fifo
         ELSE IF fifo.commands = 0 THEN network_progress_check(ctx) /\ fifo' = opened
         ELSE IF fifo.writing
         THEN /\ network_progress_check(ctx)
              /\ fifo' = [opened EXCEPT !.commands = @ - 1, !.replies = Replied(fifo)]
         ELSE /\ net' = "open_rep"
              /\ fifo' = [opened EXCEPT !.commands = @ - 1]
              /\ UNCHANGED <<ctx, conn, gga>>
  /\ UNCHANGED <<kind, buf, out, requester, signals>>

\* The blocking open of the response FIFO: it returns with a requester's open.
service_control_fifo_opened ==
  /\ net = "open_rep"
  /\ \E r \in Requesters :
       /\ requester[r] = "open_rep"
       /\ requester' = [requester EXCEPT ![r] = "reading"]
  /\ fifo' = [fifo EXCEPT !.writing = TRUE, !.replies = @ + 1]
  /\ network_progress_check(ctx)
  /\ UNCHANGED <<kind, buf, out, signals>>

-----------------------------------------------------------------------------
(* Data: the download callback, the GGA upload callback, the upload.       *)

\* Mutant: the bytes to be written are not counted.
network_byte_limit_late(incoming) == kind = "ota" /\ ctx.cur > max_bytes

network_byte_limit(incoming) == kind = "ota" /\ ctx.cur + incoming > max_bytes

\* cURL hands over n bytes of the body.
receive(n) ==
  /\ net = "perform" /\ kind # "skylark_upload" /\ conn.now + n <= BODY
  /\ IF network_byte_limit(n)
     THEN /\ net' = "returned"
          /\ conn' = [conn EXCEPT !.now = @ + n, !.result = "error"]
          /\ UNCHANGED buf
     ELSE /\ net' = "write"
          /\ conn' = [conn EXCEPT !.now = @ + n, !.idle = 0]
          /\ buf' = [from |-> conn.now, size |-> n, offset |-> 0, remaining |-> n, part |-> 0]
  /\ UNCHANGED <<kind, ctx, out, gga, fifo, requester, signals>>

\* write() returned w > 0: the loop's book-keeping, as the code has it.
WriteReturns(c, w) ==
  LET left == buf.remaining - w
  IN  /\ ctx' = [c EXCEPT !.cur = @ + w]
      /\ buf' = [buf EXCEPT !.remaining = left, !.offset = @ + left, !.part = 0]
      /\ CASE left > 0 -> net' = "write" /\ UNCHANGED conn
           [] left = 0 /\ w = buf.size -> net' = "perform" /\ UNCHANGED conn
           [] OTHER -> CurlReturns("error")

\* The kernel moves one more byte of the write into the FIFO or the file.
write_byte ==
  /\ net = "write" /\ out.reader /\ (kind = "ota" \/ out.held < PIPE_SIZE)
  /\ LET i == buf.offset + buf.part + 1
         byte == IF i <= buf.size THEN buf.from + i ELSE 0
     IN  out' = [out EXCEPT !.sent = Append(@, byte), !.held = IF kind = "ota" THEN 0 ELSE @ + 1]
  /\ IF buf.part + 1 = buf.remaining
     THEN WriteReturns(ctx, buf.remaining)
     ELSE buf' = [buf EXCEPT !.part = @ + 1] /\ UNCHANGED <<net, ctx, conn>>
  /\ UNCHANGED <<kind, gga, fifo, requester, signals>>

\* An error other than EINTR: write_ret = -1 makes `remaining' grow, so the
\* loop of network_download_write never ends.
write_fails ==
  /\ net = "write" /\ ~out.reader
  /\ net' = "spin"
  /\ UNCHANGED <<kind, ctx, conn, buf, out, gga, fifo, requester, signals>>

\* network_upload_write: cURL asks for upload data of an NTRIP session.
network_upload_write ==
  /\ net = "perform" /\ kind = "ntrip" /\ ~gga.paused
  /\ LET cached == gga.cached \/ gga.file
     IN  gga' = IF ~GgaDue THEN [gga EXCEPT !.paused = TRUE]
                ELSE IF cached THEN [gga EXCEPT !.since = 0, !.cached = TRUE]
                ELSE [gga EXCEPT !.paused = TRUE]
  /\ UNCHANGED <<kind, net, ctx, conn, buf, out, fifo, requester, signals>>

\* network_upload_read: bytes of the upload FIFO go out.
network_upload_read ==
  /\ net = "perform" /\ kind = "skylark_upload" /\ out.reader /\ conn.now < BODY
  /\ conn' = [conn EXCEPT !.now = @ + 1, !.idle = 0]
  /\ ctx' = [ctx EXCEPT !.cur = @ + 1]
  /\ UNCHANGED <<kind, net, buf, out, gga, fifo, requester, signals>>

-----------------------------------------------------------------------------
(* Signals.  They interrupt a blocked open, and a write that has moved     *)
(* some bytes returns that count.                                          *)

Interrupts(c) ==
  IF net = "open_rep" THEN network_progress_check(c) /\ UNCHANGED <<buf, out>>
  ELSE IF net = "write" /\ buf.part > 0
  THEN WriteReturns(c, buf.part) /\ out' = [out EXCEPT !.cut = TRUE] /\ UNCHANGED gga
  ELSE ctx' = c /\ UNCHANGED <<net, conn, buf, out, gga>>

libnetwork_shutdown ==
  /\ signals > 0 /\ signals' = signals - 1 /\ net \notin {"done", "spin"}
  /\ Interrupts([ctx EXCEPT !.shutdown = TRUE])
  /\ UNCHANGED <<kind, fifo, requester>>

libnetwork_cycle_connection ==
  /\ kind \in {"ntrip", "skylark_download"}
  /\ signals > 0 /\ signals' = signals - 1 /\ net \notin {"done", "spin"}
  /\ Interrupts([ctx EXCEPT !.cycle = TRUE])
  /\ UNCHANGED <<kind, fifo, requester>>

-----------------------------------------------------------------------------
(* libnetwork_request_health in another process.                           *)

request_health_send(r) ==
  /\ kind = "skylark_download" /\ requester[r] \in {"idle", "answered"} /\ fifo.reading
  /\ requester' = [requester EXCEPT ![r] = "wrote"]
  /\ fifo' = [fifo EXCEPT !.commands = @ + 1]
  /\ UNCHANGED <<kind, net, ctx, conn, buf, out, gga, signals>>

request_health_open(r) ==
  /\ requester[r] = "wrote"
  /\ requester' = [requester EXCEPT ![r] = IF fifo.writing THEN "reading" ELSE "open_rep"]
  /\ UNCHANGED <<kind, net, ctx, conn, buf, out, gga, fifo, signals>>

request_health_read(r) ==
  /\ requester[r] = "reading"
  /\ \/ /\ fifo.replies > 0
        /\ requester' = [requester EXCEPT ![r] = "answered"]
        /\ fifo' = [fifo EXCEPT !.replies = @ - 1]
     \/ /\ fifo.replies = 0 /\ ~fifo.writing
        /\ requester' = [requester EXCEPT ![r] = "failed"]
        /\ UNCHANGED fifo
  /\ UNCHANGED <<kind, net, ctx, conn, buf, out, gga, signals>>

requester_killed(r) ==
  /\ requester[r] \in {"wrote", "open_rep"}
  /\ requester' = [requester EXCEPT ![r] = "failed"]
  /\ UNCHANGED <<kind, net, ctx, conn, buf, out, gga, fifo, signals>>

-----------------------------------------------------------------------------
(* The environment: time, the server, the reader of the output, the GGA    *)
(* file.                                                                   *)

second ==
  /\ net \in {"perform", "write", "open_rep"}
  /\ LET Up(n, max) == IF n < max THEN n + 1 ELSE n
     IN  /\ ctx' = [ctx EXCEPT !.stall = Up(@, MAX_STALL_TIME_S)]
         /\ conn' = [conn EXCEPT !.idle = Up(@, MAX_STALL_TIME_S)]
         /\ gga' = IF kind = "ntrip" THEN [gga EXCEPT !.since = Up(@, gga_xfer_secs)] ELSE gga
  /\ UNCHANGED <<kind, net, buf, out, fifo, requester, signals>>

\* The response ends, whatever its status, or the connection fails.
connection_ends ==
  /\ net = "perform"
  /\ \E r \in {"ok", "error"} : CurlReturns(r)
  /\ UNCHANGED <<kind, ctx, buf, out, gga, fifo, requester, signals>>

drain ==
  /\ out.reader /\ out.held > 0
  /\ out' = [out EXCEPT !.held = @ - 1]
  /\ UNCHANGED <<kind, net, ctx, conn, buf, gga, fifo, requester, signals>>

\* The endpoint_adapter at the other end is gone; for OTA, the disk is full.
reader_gone ==
  /\ out.reader
  /\ out' = [out EXCEPT !.reader = FALSE]
  /\ UNCHANGED <<kind, net, ctx, conn, buf, gga, fifo, requester, signals>>

gga_written ==
  /\ kind = "ntrip" /\ ~gga.file
  /\ gga' = [gga EXCEPT !.file = TRUE]
  /\ UNCHANGED <<kind, net, ctx, conn, buf, out, fifo, requester, signals>>

NetThread ==
  \/ network_setup \/ network_request_shutdown \/ network_request_retry
  \/ network_request_result \/ network_request_again
  \/ service_control_fifo_opened \/ write_byte \/ write_fails

NetNext ==
  \/ NetThread \/ progress \/ second \/ drain
  \/ \E n \in 1 .. CHUNK : receive(n)
  \/ network_upload_write \/ network_upload_read
  \/ libnetwork_shutdown \/ libnetwork_cycle_connection
  \/ connection_ends \/ reader_gone \/ gga_written
  \/ \E r \in Requesters :
       \/ request_health_send(r) \/ request_health_open(r)
       \/ request_health_read(r) \/ requester_killed(r)

NetSpec == NetInit /\ [][NetNext]_net_vars

-----------------------------------------------------------------------------
(* Properties.                                                             *)

\* network_progress_check cuts a connection as unresponsive only when the
\* connection itself has been idle for MAX_STALL_TIME_S: the time is that of
\* this connection and not of one before it, whose counters
\* network_reset_counters must have cleared.
AbortsOnlyIdle ==
  [][conn.result = "none" /\ conn'.result = "aborted" /\ ~ctx.shutdown /\ ~ctx.cycle
       /\ ~ctx'.shutdown /\ signals' = signals
     => conn.idle >= MAX_STALL_TIME_S]_net_vars

\* The bytes of a connection reach the output in the order of the body and
\* without a gap, until a signal cuts a write of network_download_write short;
\* and an OTA request writes no more than max_bytes, whatever the sizes of
\* cURL's chunks (network_byte_limit).
BytesInOrder ==
  /\ out.cut \/ \A i \in 1 .. Len(out.sent) : out.sent[i] = i
  /\ kind = "ota" => Len(out.sent) <= max_bytes

\* A requester blocks the thread in the open of the response FIFO.
Stranded == net = "open_rep" /\ \A r \in Requesters : requester[r] \notin {"wrote", "open_rep"}

\* Once the session runs, a shutdown ends it: in every state of the loop the
\* flag is found, unless the output has failed (the write loop spins) or a
\* requester was killed between its command and its open.
ShutdownStops ==
  (net # "created" /\ ctx.shutdown) ~> (net \in {"done", "spin"} \/ Stranded)

\* curl_easy_perform is never left alone with a silent server: the stall check
\* of network_progress_check returns from it.  A paused GGA upload goes on when
\* its interval is over, unless the connection ends.
SilentConnectionEnds ==
  /\ net = "perform" ~> net # "perform"
  /\ net = "perform" /\ gga.paused /\ GgaDue ~> ~gga.paused \/ net # "perform"

\* A session ends when it is told to, and a connection when it is dead.
SessionsEnd == ShutdownStops /\ SilentConnectionEnds
=============================================================================
