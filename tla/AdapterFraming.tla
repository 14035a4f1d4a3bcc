--------------------------- MODULE AdapterFraming ---------------------------
(***************************************************************************)
(* endpoint_adapter, from the outside in: what is read from the port's     *)
(* descriptor goes through the input framer of the pub handle (here the    *)
(* RTCM3 framer, framer_rtcm3_in.c), frame by frame through its filter     *)
(* ("none") and to the pub endpoint.  read() returns as much as is there,  *)
(* so frames are cut anywhere.                                             *)
(*                                                                         *)
(* A byte is a number.  The ten bits of the length field are the third     *)
(* byte modulo LENGTH_MODULUS; the CRC (24 bits, three bytes) is a sum     *)
(* modulo CRC_MODULUS in the last byte of the footer.                      *)
(***************************************************************************)
EXTENDS Integers, Sequences, SequencesExt, FiniteSetsExt

CONSTANTS
  RTCM3_PREAMBLE,
  RTCM3_HEADER_LENGTH, RTCM3_FOOTER_LENGTH, RTCM3_FRAME_SIZE_MAX,
  LENGTH_MODULUS,  \* values of the length field
  CRC_MODULUS,     \* values of the CRC
  Pieces,          \* what the port's input is made of: sequences of bytes
  MaxPieces,       \* bound on the input
  READ_BUFFER_SIZE \* bytes one read() may return

VARIABLES
  port_in,      \* the input of the port, all of it
  consumed,     \* bytes of it read so far
  framer,       \* framer_rtcm3_state_t of the pub handle
  published,    \* frames sent to the pub endpoint
  io_running    \* the I/O loop runs

framing_vars == <<port_in, consumed, framer, published, io_running>>

framer_create == [buffer |-> <<>>, refill_count |-> 0, remove_count |-> 0]

FramingInit ==
  /\ \E n \in 1 .. MaxPieces : \E pieces \in [1 .. n -> Pieces] : port_in = FlattenSeq(pieces)
  /\ consumed = 0 /\ framer = framer_create /\ published = <<>> /\ io_running = TRUE

-----------------------------------------------------------------------------
(***************************************************************************)
(* The framer.                                                             *)
(***************************************************************************)
crc24q(buf) == FoldLeft(LAMBDA crc, b : (2 * crc + b) % CRC_MODULUS, 0, buf)

TotalLength(buf) ==
  RTCM3_HEADER_LENGTH + (buf[3] % LENGTH_MODULUS) + RTCM3_FOOTER_LENGTH

ValidCrc(frame) ==
  crc24q(SubSeq(frame, 1, Len(frame) - RTCM3_FOOTER_LENGTH)) = frame[Len(frame)]

\* Remove from the front of the buffer, up to the first preamble after the
\* removed bytes.
Removed(s) ==
  LET starts == {i \in s.remove_count + 1 .. Len(s.buffer) : s.buffer[i] = RTCM3_PREAMBLE}
  IN IF s.remove_count = 0 THEN s
     ELSE [s EXCEPT !.remove_count = 0,
                    !.buffer = IF starts = {} THEN <<>>
                               ELSE SubSeq(@, Min(starts), Len(@))]

Refilled(s, data) ==
  LET count == Min({s.refill_count, Len(data)})
  IN [s EXCEPT !.buffer = @ \o SubSeq(data, 1, count), !.refill_count = @ - count]

\* Mutant: a damaged frame is removed whole, with what it may hide.
Examined_forgets(s) ==
  LET length == Len(s.buffer)
  IN CASE length < RTCM3_HEADER_LENGTH ->
            [s EXCEPT !.refill_count = RTCM3_HEADER_LENGTH - length]
       [] s.buffer[1] # RTCM3_PREAMBLE -> [s EXCEPT !.remove_count = 1]
       [] length < TotalLength(s.buffer) ->
            [s EXCEPT !.refill_count = TotalLength(s.buffer) - length]
       [] ~ValidCrc(SubSeq(s.buffer, 1, TotalLength(s.buffer))) ->
            [s EXCEPT !.remove_count = TotalLength(s.buffer)]
       [] OTHER -> [s EXCEPT !.remove_count = TotalLength(s.buffer)]

\* One turn of the loop of framer_process: the state it asks for next, or a
\* frame (remove_count is then its length).
Examined(s) ==
  LET length == Len(s.buffer)
  IN CASE length < RTCM3_HEADER_LENGTH ->
            [s EXCEPT !.refill_count = RTCM3_HEADER_LENGTH - length]
       [] s.buffer[1] # RTCM3_PREAMBLE -> [s EXCEPT !.remove_count = 1]
       [] length < TotalLength(s.buffer) ->
            [s EXCEPT !.refill_count = TotalLength(s.buffer) - length]
       [] ~ValidCrc(SubSeq(s.buffer, 1, TotalLength(s.buffer))) -> [s EXCEPT !.remove_count = 1]
       [] OTHER -> [s EXCEPT !.remove_count = TotalLength(s.buffer)]

Decoded(s) ==
  s.remove_count >= RTCM3_HEADER_LENGTH + RTCM3_FOOTER_LENGTH

RECURSIVE framer_process(_, _)
framer_process(s, data) ==
  LET filled == Refilled(Removed(s), data)
      rest == SubSeq(data, 1 + Len(filled.buffer) - Len(Removed(s).buffer), Len(data))
      next == Examined(filled)
  IN IF filled.refill_count # 0 THEN [state |-> filled, rest |-> rest, frame |-> <<>>]
     ELSE IF Decoded(next)
     THEN [state |-> next, rest |-> rest, frame |-> SubSeq(next.buffer, 1, next.remove_count)]
     ELSE framer_process(next, rest)

\* The frames that one buffer read from the port completes.  It stops when
\* the data is used up, also if the framer holds another whole frame.
RECURSIVE handle_write_all_via_framer(_, _, _)
handle_write_all_via_framer(s, data, frames) ==
  LET r == framer_process(s, data)
      written == IF r.frame = <<>> THEN frames ELSE Append(frames, r.frame)
  IN IF r.rest = <<>> THEN [state |-> r.state, frames |-> written]
     ELSE handle_write_all_via_framer(r.state, r.rest, written)

-----------------------------------------------------------------------------
\* read_fd_cb: read, process_read_buffer, send each frame.  If the endpoint
\* refuses a frame the rest of the buffer is lost and the loop stops.
io_loop_pubsub ==
  /\ io_running /\ consumed < Len(port_in)
  /\ \E n \in 1 .. Min({READ_BUFFER_SIZE, Len(port_in) - consumed}) :
       LET w == handle_write_all_via_framer(
                  framer, SubSeq(port_in, consumed + 1, consumed + n), <<>>)
       IN /\ consumed' = consumed + n
          /\ \/ /\ framer' = w.state /\ published' = published \o w.frames
                /\ UNCHANGED io_running
             \/ \E sent \in 0 .. Len(w.frames) - 1 :
                  /\ published' = published \o SubSeq(w.frames, 1, sent)
                  /\ framer' = framer_create /\ io_running' = FALSE
  /\ UNCHANGED port_in

FramingNext == io_loop_pubsub

-----------------------------------------------------------------------------
(***************************************************************************)
(* The reference: the frames of a stream, found in one piece.              *)
(***************************************************************************)
RECURSIVE FramesOf(_)
FramesOf(s) ==
  LET starts == {i \in 1 .. Len(s) : s[i] = RTCM3_PREAMBLE}
      from == SubSeq(s, Min(starts), Len(s))
      total == TotalLength(from)
  IN IF starts = {} THEN <<>>
     ELSE IF Len(from) < RTCM3_HEADER_LENGTH \/ Len(from) < total THEN <<>>
     ELSE IF ValidCrc(SubSeq(from, 1, total))
     THEN <<SubSeq(from, 1, total)>> \o FramesOf(SubSeq(from, total + 1, Len(from)))
     ELSE FramesOf(SubSeq(from, 2, Len(from)))

\* Wherever the reads cut the stream, and whatever garbage or damaged frames
\* it holds, the frames published (io_loop_pubsub, framer_process) followed by
\* those still whole in the framer's buffer are exactly the frames of what was
\* read, in order: none is lost, invented or sent twice.
FramesOfTheStream ==
  io_running =>
    FramesOf(SubSeq(port_in, 1, consumed)) = published \o FramesOf(Removed(framer).buffer)

\* framer_process copies refill_count bytes to the end of its buffer without
\* looking at the buffer's size, and removes remove_count bytes without looking
\* at its length ("remove count should never be greater than the buffer
\* length"): both always fit, in whatever state a read left the framer.
BufferFits ==
  /\ Len(framer.buffer) + framer.refill_count <= RTCM3_FRAME_SIZE_MAX
  /\ framer.remove_count <= Len(framer.buffer)

\* The RTCM3 framer of the adapter loses no frame and overruns no buffer.
FramerIsRight == FramesOfTheStream /\ BufferFits
=============================================================================
