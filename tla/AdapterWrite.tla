---------------------------- MODULE AdapterWrite ----------------------------
(***************************************************************************)
(* endpoint_adapter, from the inside out: the frames of the sub endpoint   *)
(* that pass the filter are written to the port's descriptor, in pieces if *)
(* the kernel takes only a part.  On a tty with a limit (--outq) a piece   *)
(* that does not fit makes the adapter flush the tty's output queue.       *)
(***************************************************************************)
EXTENDS Integers, Sequences

CONSTANTS
  FRAME_BYTES,   \* length of a frame
  MaxOut,        \* bound on the frames
  outq,          \* --outq
  QUEUE_BYTES    \* what the kernel's output queue holds

ASSUME OutAssumption == FRAME_BYTES \in Nat \ {0} /\ QUEUE_BYTES \in Nat

VARIABLES
  tty,           \* needs_outq_check: isatty(fd) and --outq was given
  accepted,      \* frames taken from the sub endpoint
  written,       \* bytes of the last of them that are done with (buffer_index)
  kqueue,        \* the kernel's output queue: bytes <<frame, index>>
  port_out,      \* bytes that have left the port
  flushes,       \* times ensure_outq_space flushed
  out_running    \* the I/O loop runs

out_vars == <<tty, accepted, written, kqueue, port_out, flushes, out_running>>

OutInit ==
  /\ tty \in BOOLEAN /\ accepted = 0 /\ written = FRAME_BYTES
  /\ kqueue = <<>> /\ port_out = <<>> /\ flushes = 0 /\ out_running = TRUE

Written == written = FRAME_BYTES
Rest == FRAME_BYTES - written
Bytes(from, n) == [i \in 1 .. n |-> <<accepted, from + i>>]

\* sub_reader_cb, up to the first write: a frame that passed the filter.
sub_ept_read ==
  /\ out_running /\ Written /\ accepted < MaxOut
  /\ accepted' = accepted + 1 /\ written' = 0
  /\ UNCHANGED <<tty, kqueue, port_out, flushes, out_running>>

\* The piece does not fit: flush the queue (USB gadgets keep theirs), and
\* report the piece as written.
ensure_outq_space ==
  /\ out_running /\ ~Written /\ tty /\ Len(kqueue) + Rest > outq
  /\ kqueue' \in {<<>>, kqueue} /\ flushes' = flushes + 1
  /\ written' = FRAME_BYTES
  /\ UNCHANGED <<tty, accepted, port_out, out_running>>

\* Mutant: after a partial write the frame is sent from its start.
fd_write_resends(n) ==
  /\ out_running /\ ~Written /\ ~(tty /\ Len(kqueue) + Rest > outq)
  /\ n \in 1 .. Rest /\ n <= QUEUE_BYTES - Len(kqueue)
  /\ kqueue' = kqueue \o Bytes(written, n)
  /\ written' = IF n = Rest THEN FRAME_BYTES ELSE 0
  /\ UNCHANGED <<tty, accepted, port_out, flushes, out_running>>

\* write() takes some of it.  While the queue is full it returns EAGAIN and
\* the loop of fd_write_with_timeout tries again, for ever.
fd_write(n) ==
  /\ out_running /\ ~Written /\ ~(tty /\ Len(kqueue) + Rest > outq)
  /\ n \in 1 .. Rest /\ n <= QUEUE_BYTES - Len(kqueue)
  /\ kqueue' = kqueue \o Bytes(written, n)
  /\ written' = written + n
  /\ UNCHANGED <<tty, accepted, port_out, flushes, out_running>>

\* write() fails: the loop is stopped.
fd_write_fails ==
  /\ out_running /\ ~Written
  /\ out_running' = FALSE
  /\ UNCHANGED <<tty, accepted, written, kqueue, port_out, flushes>>

\* The port sends a byte.
Transmit ==
  /\ kqueue # <<>>
  /\ port_out' = Append(port_out, Head(kqueue)) /\ kqueue' = Tail(kqueue)
  /\ UNCHANGED <<tty, accepted, written, flushes, out_running>>

OutWrite == ensure_outq_space \/ \E n \in 1 .. FRAME_BYTES : fd_write(n)
OutNext == sub_ept_read \/ OutWrite \/ fd_write_fails \/ Transmit
OutSpec == OutInit /\ [][OutNext]_out_vars

\* Without a flush, and so always on a port that is not a tty, the bytes that
\* went to the port are those of the accepted frames, in order and complete up
\* to the piece being written, however the kernel cut the writes.  A flush
\* loses bytes but makes none go out twice or out of order.
StreamIsIntact ==
  LET sent == port_out \o kqueue
  IN /\ flushes = 0 /\ out_running =>
          sent = [i \in 1 .. accepted * FRAME_BYTES - Rest |->
                    <<1 + ((i - 1) \div FRAME_BYTES), 1 + ((i - 1) % FRAME_BYTES)>>]
     /\ \A i \in 1 .. Len(sent) - 1 :
          \/ sent[i][1] < sent[i + 1][1]
          \/ sent[i][1] = sent[i + 1][1] /\ sent[i][2] < sent[i + 1][2]
=============================================================================
