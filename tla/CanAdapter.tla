----------------------------- MODULE CanAdapter -----------------------------
(***************************************************************************)
(* endpoint_adapter --can (endpoint_adapter_can.c): a thread copies CAN    *)
(* frames into a pipe the I/O loop reads, another writes what the I/O loop *)
(* put into a second pipe to the bus, frame by frame.  When the I/O loop   *)
(* ends, the main thread closes every descriptor, waits for both threads   *)
(* and starts over.                                                        *)
(*                                                                         *)
(* A chunk is what one write() puts into an O_DIRECT pipe, and is as many  *)
(* CAN frames long as its value.  Closing a descriptor does not wake a     *)
(* thread inside a system call on it; the call after that fails.           *)
(***************************************************************************)
EXTENDS Integers, Sequences

CONSTANTS
  ChunkFrames,  \* lengths of the chunks the I/O loop writes
  MaxChunks,    \* bound on the chunks written in one round
  MaxFrames,    \* bound on the frames that arrive in one round
  PIPE_PACKETS  \* packets a pipe holds

ASSUME CanAssumption == ChunkFrames \subseteq Nat

VARIABLES
  main,       \* the main thread
  open,       \* descriptors open: "can", "from_r", "from_w", "to_r", "to_w"
  from_can,   \* packets in the pipe from the bus: frame numbers
  to_can,     \* packets in the pipe to the bus: [id, frames]
  reader,     \* can_read_thread_handler
  writer,     \* can_write_thread_handler
  in_hand,    \* the writer's buffer: [id, frames], what is left of it
  arrived,    \* frames the bus delivered in this round
  relayed,    \* frames the I/O loop read, in order
  chunks,     \* chunks the I/O loop wrote in this round
  can_bus     \* frames written to the bus: <<chunk, frame>>

can_vars == <<main, open, from_can, to_can, reader, writer, in_hand, arrived, relayed, chunks, can_bus>>

Descriptors == {"can", "from_r", "from_w", "to_r", "to_w"}

\* What io_loop_run's handles close at its end, and then can_loop, in order.
ClosingOrder == <<"from_r", "to_w", "can", "from_w", "to_r">>

NoChunk == [id |-> 0, frames |-> 0]

CanInit ==
  /\ main = "start" /\ open = {} /\ from_can = <<>> /\ to_can = <<>>
  /\ reader = "none" /\ writer = "none" /\ in_hand = NoChunk
  /\ arrived = 0 /\ relayed = <<>> /\ chunks = <<>> /\ can_bus = <<>>

-----------------------------------------------------------------------------
\* can_loop up to io_loop_run: any of its calls may fail, which ends it.
can_loop_start ==
  /\ main = "start"
  /\ \/ /\ main' = "loop" /\ open' = Descriptors
        /\ reader' = "select" /\ writer' = "call"
     \/ main' = "returned" /\ UNCHANGED <<open, reader, writer>>
  /\ from_can' = <<>> /\ to_can' = <<>> /\ in_hand' = NoChunk
  /\ arrived' = 0 /\ relayed' = <<>> /\ chunks' = <<>> /\ can_bus' = <<>>

\* The I/O loop reads a packet from the bus ...
io_loop_reads ==
  /\ main = "loop" /\ from_can # <<>>
  /\ relayed' = Append(relayed, Head(from_can)) /\ from_can' = Tail(from_can)
  /\ UNCHANGED <<main, open, to_can, reader, writer, in_hand, arrived, chunks, can_bus>>

\* ... writes one to it ...
io_loop_writes ==
  /\ main = "loop" /\ Len(chunks) < MaxChunks /\ Len(to_can) < PIPE_PACKETS
  /\ \E n \in ChunkFrames :
       /\ chunks' = Append(chunks, n)
       /\ to_can' = Append(to_can, [id |-> Len(chunks) + 1, frames |-> n])
  /\ UNCHANGED <<main, open, from_can, reader, writer, in_hand, arrived, relayed, can_bus>>

\* ... or ends: an endpoint is gone.
io_loop_ends ==
  /\ main = "loop" /\ main' = "close"
  /\ UNCHANGED <<open, from_can, to_can, reader, writer, in_hand, arrived, relayed, chunks, can_bus>>

\* Mutant: the descriptor that the reader waits on stays open.
can_loop_close_forgets ==
  /\ main = "close"
  /\ IF open \subseteq {"from_r"} THEN main' = "join_read" /\ UNCHANGED open
     ELSE /\ open' = open \ {SelectSeq(Tail(ClosingOrder), LAMBDA d : d \in open)[1]}
          /\ UNCHANGED main
  /\ UNCHANGED <<from_can, to_can, reader, writer, in_hand, arrived, relayed, chunks, can_bus>>

can_loop_close ==
  /\ main = "close"
  /\ IF open = {} THEN main' = "join_read" /\ UNCHANGED open
     ELSE /\ open' = open \ {SelectSeq(ClosingOrder, LAMBDA d : d \in open)[1]}
          /\ UNCHANGED main
  /\ UNCHANGED <<from_can, to_can, reader, writer, in_hand, arrived, relayed, chunks, can_bus>>

can_loop_join ==
  /\ \/ main = "join_read" /\ reader = "done" /\ main' = "join_write" /\ UNCHANGED <<reader, writer>>
     \/ /\ main = "join_write" /\ writer = "done"
        /\ main' = "start" /\ reader' = "none" /\ writer' = "none"
  /\ UNCHANGED <<open, from_can, to_can, in_hand, arrived, relayed, chunks, can_bus>>

-----------------------------------------------------------------------------
(***************************************************************************)
(* can_read_thread_handler.  select() with no time-out: a closed socket is *)
(* an error, and no frame a sleep and another turn.                        *)
(***************************************************************************)
reader_select ==
  /\ reader = "select"
  /\ \/ "can" \notin open /\ reader' = "done" /\ UNCHANGED arrived
     \/ /\ "can" \in open /\ arrived < MaxFrames
        /\ reader' = "read" /\ UNCHANGED arrived
  /\ UNCHANGED <<main, open, from_can, to_can, writer, in_hand, relayed, chunks, can_bus>>

\* A read that fails leaves can_dlc zero, as does a frame without data.
reader_read ==
  /\ reader = "read"
  /\ \/ "can" \in open /\ reader' = "write" /\ arrived' = arrived + 1
     \/ reader' = "select" /\ UNCHANGED arrived
  /\ UNCHANGED <<main, open, from_can, to_can, writer, in_hand, relayed, chunks, can_bus>>

reader_write ==
  /\ reader \in {"write", "in_write"}
  /\ \/ /\ reader = "write" /\ "from_w" \notin open
        /\ reader' = "done" /\ UNCHANGED from_can
     \/ /\ "from_r" \notin open /\ (reader = "in_write" \/ "from_w" \in open)
        /\ reader' = "done" /\ UNCHANGED from_can
     \/ /\ "from_r" \in open /\ Len(from_can) < PIPE_PACKETS
        /\ (reader = "in_write" \/ "from_w" \in open)
        /\ from_can' = Append(from_can, arrived) /\ reader' = "select"
     \/ /\ reader = "write" /\ {"from_r", "from_w"} \subseteq open
        /\ Len(from_can) = PIPE_PACKETS
        /\ reader' = "in_write" /\ UNCHANGED from_can
  /\ UNCHANGED <<main, open, to_can, writer, in_hand, arrived, relayed, chunks, can_bus>>

-----------------------------------------------------------------------------
(***************************************************************************)
(* can_write_thread_handler.  A read that fails returns -1, which is not   *)
(* less than -1: it is taken for data, and written (can_write_all is given *)
(* its value as a size).                                                   *)
(***************************************************************************)
writer_read ==
  /\ writer \in {"call", "in_read"}
  /\ \/ /\ to_can # <<>> /\ (writer = "in_read" \/ "to_r" \in open)
        /\ in_hand' = Head(to_can) /\ to_can' = Tail(to_can) /\ writer' = "write"
     \/ /\ to_can = <<>> /\ "to_w" \notin open /\ (writer = "in_read" \/ "to_r" \in open)
        /\ writer' = "done" /\ UNCHANGED <<in_hand, to_can>>
     \/ /\ writer = "call" /\ "to_r" \notin open
        /\ writer' = "write" /\ in_hand' = NoChunk /\ UNCHANGED to_can
     \/ /\ writer = "call" /\ "to_r" \in open /\ to_can = <<>> /\ "to_w" \in open
        /\ writer' = "in_read" /\ UNCHANGED <<in_hand, to_can>>
  /\ UNCHANGED <<main, open, from_can, reader, arrived, relayed, chunks, can_bus>>

\* Mutant: a frame that was written may be written again.
can_write_keeps ==
  /\ writer = "write"
  /\ \/ /\ "can" \in open /\ in_hand.frames > 0
        /\ can_bus' = Append(can_bus, <<in_hand.id, in_hand.frames>>)
        /\ in_hand' = [in_hand EXCEPT !.frames = @ - 1]
        /\ writer' = IF in_hand.frames = 1 THEN "call" ELSE "write"
     \/ /\ "can" \in open /\ in_hand.frames > 0
        /\ can_bus' = Append(can_bus, <<in_hand.id, in_hand.frames>>)
        /\ UNCHANGED <<writer, in_hand>>
        /\ Len(can_bus) < MaxChunks
     \/ writer' = "call" /\ in_hand' = NoChunk /\ UNCHANGED can_bus
  /\ UNCHANGED <<main, open, from_can, to_can, reader, arrived, relayed, chunks>>

\* One frame to the bus; EAGAIN and any other error give up the rest.
can_write ==
  /\ writer = "write"
  /\ \/ /\ "can" \in open /\ in_hand.frames > 0
        /\ can_bus' = Append(can_bus, <<in_hand.id, in_hand.frames>>)
        /\ in_hand' = [in_hand EXCEPT !.frames = @ - 1]
        /\ writer' = IF in_hand.frames = 1 THEN "call" ELSE "write"
     \/ writer' = "call" /\ in_hand' = NoChunk /\ UNCHANGED can_bus
  /\ UNCHANGED <<main, open, from_can, to_can, reader, arrived, relayed, chunks>>

-----------------------------------------------------------------------------
CanMain == can_loop_start \/ can_loop_close \/ can_loop_join
CanReader == reader_select \/ reader_read \/ reader_write
CanWriter == writer_read \/ can_write
CanNext == CanMain \/ io_loop_reads \/ io_loop_writes \/ io_loop_ends \/ CanReader \/ CanWriter
CanSpec == CanInit /\ [][CanNext]_can_vars

\* Frames of the bus arrive at the I/O loop in order, none twice, none lost on
\* the way: what it read and what is in the pipe are the frames the reader
\* took, but for the one it is about to write.  In the other direction the
\* frames a chunk is cut into reach the bus in order, none twice.
CanKeepsOrder ==
  /\ main = "loop" =>
       LET through == relayed \o from_can
       IN /\ \A i \in 1 .. Len(through) : through[i] = i
          /\ Len(through) = arrived - IF reader \in {"write", "in_write"} THEN 1 ELSE 0
  /\ \A i \in 1 .. Len(can_bus) - 1 :
       \/ can_bus[i][1] < can_bus[i + 1][1]
       \/ can_bus[i][1] = can_bus[i + 1][1] /\ can_bus[i][2] > can_bus[i + 1][2]

\* The main thread never waits for the read thread in vain: whatever call it is
\* in when its descriptors are closed, it ends.  And a write thread that waits
\* for data when the I/O loop ends sees the end of the pipe, so that the adapter
\* starts over.
CanThreadsAreJoined ==
  /\ main = "join_read" ~> main = "join_write"
  /\ main = "close" /\ writer = "in_read" /\ to_can = <<>> ~> main = "start"
=============================================================================
