---------------------------- MODULE StreamProofs ----------------------------
(***************************************************************************)
(* Proofs about the parts that pass data on: a libnetwork session, the CAN *)
(* threads of endpoint_adapter and its output path.                        *)
(***************************************************************************)
EXTENDS Libnetwork, CanAdapter, AdapterWrite, TLAPS

-----------------------------------------------------------------------------
(***************************************************************************)
(* A libnetwork session, for every stall time, byte limit and capacity,    *)
(* any sizes of bodies and chunks and any number of requesters and         *)
(* signals: what reaches the output, and when a connection is cut.         *)
(***************************************************************************)

-----------------------------------------------------------------------------
(* The inductive invariant.                                                *)

Contexts == [shutdown : BOOLEAN, cycle : BOOLEAN, moved : Nat, stall : Nat, cur : Nat]
Results == {"none", "ok", "error", "aborted"}
Connections == [now : Nat, result : Results, idle : Nat]
Buffers == [from : Nat, size : Nat, offset : Nat, remaining : Nat, part : Nat]
Outputs == [sent : Seq(Nat), held : Nat, reader : BOOLEAN, cut : BOOLEAN]

NetTypeOK ==
  /\ kind \in Kinds
  /\ ctx \in Contexts /\ conn \in Connections /\ buf \in Buffers /\ out \in Outputs

\* network_download_write has bytes of its buffer left.
InWrite == net \in {"write", "spin"}

\* The stall time of the context is never more than the connection's own,
\* unless bytes have moved since network_progress_check last looked.
StallIsOwn ==
  /\ ctx.moved <= conn.now
  /\ ctx.moved = conn.now => ctx.stall <= conn.idle

\* The buffer is the last piece of the body that was received, and as long as
\* no write was cut short it is written from its start and after all the bytes
\* before it.
WriteIsNext ==
  InWrite =>
    /\ kind # "skylark_upload"
    /\ buf.from + buf.size = conn.now
    /\ buf.part < buf.remaining
    /\ ~out.cut => /\ buf.offset = 0 /\ buf.remaining = buf.size
                   /\ Len(out.sent) = buf.from + buf.part

\* Between two writes everything that was received is written.
ReceivedIsWritten ==
  ~out.cut =>
    /\ \A i \in 1 .. Len(out.sent) : out.sent[i] = i
    /\ net \in {"perform", "open_rep"} /\ kind # "skylark_upload" => Len(out.sent) = conn.now

\* ctx.cur counts what was written, and the limit holds for the rest of the
\* buffer too: network_byte_limit looked at all of it.
LimitCoversBuffer ==
  kind = "ota" =>
    /\ Len(out.sent) = ctx.cur + (IF InWrite THEN buf.part ELSE 0)
    /\ ctx.cur + (IF InWrite THEN buf.remaining ELSE 0) <= max_bytes

OutputInv == WriteIsNext /\ ReceivedIsWritten /\ LimitCoversBuffer
NetInv == NetTypeOK /\ StallIsOwn /\ OutputInv

-----------------------------------------------------------------------------
(* Lemmas.                                                                 *)

\* One more byte at the end of a sequence.
LEMMA OneMoreByte ==
  ASSUME NEW s \in Seq(Nat), NEW b \in Nat
  PROVE  /\ Append(s, b) \in Seq(Nat) /\ Len(Append(s, b)) = Len(s) + 1
         /\ (\A i \in 1 .. Len(s) : s[i] = i) /\ b = Len(s) + 1
              => \A i \in 1 .. Len(Append(s, b)) : Append(s, b)[i] = i
OBVIOUS

\* What network_progress_check leaves of the context c it runs in: the counts,
\* and a stall time that is the connection's own.
LEMMA ProgressCheckEffect ==
  ASSUME NetTypeOK, StallIsOwn, NEW c \in Contexts,
         c.moved = ctx.moved, c.stall = ctx.stall, network_progress_check(c)
  PROVE  /\ ctx' \in Contexts /\ ctx'.cur = c.cur
         /\ conn' \in Connections /\ conn'.now = conn.now /\ conn'.idle = conn.idle
         /\ net' \in {"perform", "returned"}
         /\ StallIsOwn'
<1>1. /\ conn' \in Connections /\ conn'.now = conn.now /\ conn'.idle = conn.idle
      /\ net' \in {"perform", "returned"}
  <2>1. \/ net' = "returned" /\ conn' = [conn EXCEPT !.result = "aborted"]
        \/ net' = "perform" /\ conn' = conn
    BY DEF network_progress_check, CurlReturns
  <2> QED
    BY <2>1 DEF NetTypeOK, Connections, Results
<1>2. CASE c.shutdown
  <2>1. ctx' = c
    BY <1>2 DEF network_progress_check
  <2> QED
    BY <2>1, <1>1 DEF StallIsOwn
<1>3. CASE ~c.shutdown /\ c.cycle
  <2>1. ctx' = [c EXCEPT !.cycle = FALSE]
    BY <1>3 DEF network_progress_check
  <2> QED
    BY <2>1, <1>1, Zenon DEF StallIsOwn, Contexts
<1>4. CASE ~c.shutdown /\ ~c.cycle
  <2>1. ctx' = IF c.moved = conn.now THEN c ELSE [c EXCEPT !.moved = conn.now, !.stall = 0]
    BY <1>4 DEF network_progress_check
  <2>2. LET d == [c EXCEPT !.moved = conn.now, !.stall = 0]
        IN d \in Contexts /\ d.moved = conn.now /\ d.stall = 0 /\ d.cur = c.cur
    BY Zenon DEF Contexts, NetTypeOK, Connections
  <2>3. conn.now \in Nat /\ conn.idle \in Nat
    BY DEF NetTypeOK, Connections
  <2>4. CASE c.moved = conn.now
    BY <2>1, <2>4, <1>1 DEF StallIsOwn
  <2>5. CASE c.moved # conn.now
    BY <2>1, <2>2, <2>3, <2>5, <1>1 DEF StallIsOwn, Contexts
  <2> QED
    BY <2>4, <2>5
<1> QED
  BY <1>2, <1>3, <1>4, <1>1

\* What a write() that moved w bytes leaves.
LEMMA WriteReturnsEffect ==
  ASSUME NetTypeOK, NEW c \in Contexts, NEW w \in Nat, w <= buf.remaining,
         net = "write", WriteReturns(c, w)
  PROVE  /\ ctx' \in Contexts /\ ctx'.cur = c.cur + w
         /\ ctx'.moved = c.moved /\ ctx'.stall = c.stall
         /\ conn' \in Connections /\ conn'.now = conn.now /\ conn'.idle = conn.idle
         /\ buf' \in Buffers /\ buf'.from = buf.from /\ buf'.size = buf.size /\ buf'.part = 0
         /\ buf'.remaining = buf.remaining - w
         /\ IF w < buf.remaining THEN net' = "write" ELSE net' \in {"perform", "returned"}
<1> DEFINE left == buf.remaining - w
<1>1. /\ ctx' = [c EXCEPT !.cur = @ + w]
      /\ buf' = [buf EXCEPT !.remaining = left, !.offset = @ + left, !.part = 0]
  BY DEF WriteReturns
<1>2. buf' = [from |-> buf.from, size |-> buf.size, offset |-> buf.offset + left,
              remaining |-> left, part |-> 0]
  BY <1>1, Zenon DEF NetTypeOK, Buffers
<1>3. left \in Nat /\ buf.offset \in Nat /\ buf.remaining \in Nat
  BY DEF NetTypeOK, Buffers
<1>4. /\ buf' \in Buffers /\ buf'.from = buf.from /\ buf'.size = buf.size /\ buf'.part = 0
      /\ buf'.remaining = buf.remaining - w
  BY <1>2, <1>3 DEF NetTypeOK, Buffers
<1>5. ctx' \in Contexts /\ ctx'.cur = c.cur + w /\ ctx'.moved = c.moved /\ ctx'.stall = c.stall
  BY <1>1 DEF Contexts
<1>6. CASE left > 0
  <2>1. net' = "write" /\ conn' = conn
    BY <1>6, <1>3 DEF WriteReturns
  <2> QED
    BY <2>1, <1>6, <1>3, <1>4, <1>5 DEF NetTypeOK
<1>7. CASE left = 0
  <2>1. \/ net' = "returned" /\ conn' = [conn EXCEPT !.result = "error"]
        \/ net' = "perform" /\ conn' = conn
    BY <1>7, <1>3 DEF WriteReturns, CurlReturns
  <2> QED
    BY <2>1, <1>7, <1>3, <1>4, <1>5 DEF NetTypeOK, Connections, Results
<1> QED
  BY <1>3, <1>6, <1>7
\* A new connection starts with nothing received, written or counted.
LEMMA PerformEffect ==
  ASSUME NetTypeOK, NEW c \in Contexts, ctx' = network_reset_counters(c), Perform, kind' = kind
  PROVE  NetInv'
<1>1. ctx' \in Contexts /\ ctx'.moved = 0 /\ ctx'.stall = 0 /\ ctx'.cur = 0
  BY Zenon DEF network_reset_counters, Contexts
<1>2. conn' \in Connections /\ conn'.now = 0 /\ conn'.idle = 0
  BY DEF Perform, NewConn, Connections, Results
<1>3. buf' \in Buffers
  BY DEF Perform, NoBuf, Buffers
<1>4. out' \in Outputs /\ out'.sent = <<>> /\ out'.cut = FALSE
  <2>1. out' = [out EXCEPT !.sent = <<>>, !.cut = FALSE]
    BY DEF Perform
  <2>2. <<>> \in Seq(Nat)
    OBVIOUS
  <2> QED
    BY <2>1, <2>2, Zenon DEF NetTypeOK, Outputs
<1>5. net' = "perform" /\ Len(out'.sent) = 0
  BY <1>4 DEF Perform
<1>6. NetTypeOK' /\ StallIsOwn'
  BY <1>1, <1>2, <1>3, <1>4 DEF NetTypeOK, StallIsOwn
<1>7. OutputInv'
  BY <1>1, <1>2, <1>4, <1>5, NetAssumption
     DEF OutputInv, WriteIsNext, ReceivedIsWritten, LimitCoversBuffer, InWrite
<1> QED
  BY <1>6, <1>7 DEF NetInv

\* A step that ends in another state of the loop outside the write loop, and
\* leaves the counts and the output alone.
LEMMA QuietStep ==
  ASSUME NetInv, kind' = kind, buf' \in Buffers, out' = out, ~InWrite, ~InWrite',
         ctx' \in Contexts, ctx'.cur = ctx.cur,
         conn' \in Connections, conn'.now = conn.now,
         net' \in {"perform", "open_rep"} => net \in {"perform", "open_rep"}, StallIsOwn'
  PROVE  NetInv'
<1>1. NetTypeOK'
  BY DEF NetInv, NetTypeOK
<1>2. OutputInv'
  BY DEF NetInv, OutputInv, WriteIsNext, ReceivedIsWritten, LimitCoversBuffer, InWrite
<1> QED
  BY <1>1, <1>2 DEF NetInv

\* network_progress_check at the end of a handler that was in no write.
LEMMA ProgressStep ==
  ASSUME NetInv, NEW c \in Contexts, c.moved = ctx.moved, c.stall = ctx.stall, c.cur = ctx.cur,
         net \in {"perform", "open_rep"}, network_progress_check(c),
         UNCHANGED <<kind, buf, out>>
  PROVE  NetInv'
<1>1. NetTypeOK /\ StallIsOwn
  BY DEF NetInv
<1>2. /\ ctx' \in Contexts /\ ctx'.cur = c.cur
      /\ conn' \in Connections /\ conn'.now = conn.now
      /\ net' \in {"perform", "returned"}
      /\ StallIsOwn'
  BY <1>1, ProgressCheckEffect
<1>3. ~InWrite /\ ~InWrite'
  BY <1>2 DEF InWrite
<1>4. buf' \in Buffers
  BY <1>1 DEF NetTypeOK
<1> QED
  BY <1>2, <1>3, <1>4, QuietStep

\* A step that touches neither the session's state nor the output's bytes.
LEMMA OutsideStep ==
  ASSUME NetInv, UNCHANGED <<kind, net, ctx, conn, buf>>,
         out' \in Outputs, out'.sent = out.sent, out'.cut = out.cut
  PROVE  NetInv'
<1>1. NetTypeOK' /\ StallIsOwn'
  BY DEF NetInv, NetTypeOK, StallIsOwn
<1>2. OutputInv'
  BY DEF NetInv, OutputInv, WriteIsNext, ReceivedIsWritten, LimitCoversBuffer, InWrite
<1> QED
  BY <1>1, <1>2 DEF NetInv

\* A signal that cuts a write: the bytes that moved are counted.
LEMMA CutStep ==
  ASSUME NetInv, NEW c \in Contexts, c.moved = ctx.moved, c.stall = ctx.stall, c.cur = ctx.cur,
         net = "write", buf.part > 0, WriteReturns(c, buf.part), kind' = kind,
         out' = [out EXCEPT !.cut = TRUE]
  PROVE  NetInv'
<1>1. NetTypeOK /\ StallIsOwn /\ OutputInv
  BY DEF NetInv
<1>2. buf.part \in Nat /\ buf.remaining \in Nat /\ buf.part < buf.remaining
  BY <1>1 DEF NetTypeOK, Buffers, OutputInv, WriteIsNext, InWrite
<1>3. /\ ctx' \in Contexts /\ ctx'.cur = ctx.cur + buf.part
      /\ ctx'.moved = ctx.moved /\ ctx'.stall = ctx.stall
      /\ conn' \in Connections /\ conn'.now = conn.now /\ conn'.idle = conn.idle
      /\ buf' \in Buffers /\ buf'.from = buf.from /\ buf'.size = buf.size /\ buf'.part = 0
      /\ buf'.remaining = buf.remaining - buf.part
      /\ net' = "write"
  BY <1>1, <1>2, WriteReturnsEffect
<1>4. out' \in Outputs /\ out'.sent = out.sent /\ out'.cut = TRUE
  BY <1>1, Zenon DEF NetTypeOK, Outputs
<1>5. NetTypeOK' /\ StallIsOwn'
  BY <1>1, <1>3, <1>4 DEF NetTypeOK, StallIsOwn
<1>6. WriteIsNext' /\ ReceivedIsWritten'
  BY <1>1, <1>2, <1>3, <1>4 DEF OutputInv, WriteIsNext, ReceivedIsWritten, InWrite
<1>7. LimitCoversBuffer'
  <2>1. ctx.cur \in Nat /\ ctx'.cur \in Nat
    BY <1>1, <1>3 DEF NetTypeOK, Contexts
  <2> QED
    BY <2>1, <1>1, <1>2, <1>3, <1>4 DEF OutputInv, LimitCoversBuffer, InWrite
<1> QED
  BY <1>5, <1>6, <1>7 DEF NetInv, OutputInv

\* A signal handler: the flag, and what the signal interrupts.
LEMMA SignalStep ==
  ASSUME NetInv, NEW c \in Contexts, c.moved = ctx.moved, c.stall = ctx.stall, c.cur = ctx.cur,
         Interrupts(c), kind' = kind
  PROVE  NetInv'
<1>1. CASE net = "open_rep"
  BY <1>1, ProgressStep DEF Interrupts
<1>2. CASE net = "write" /\ buf.part > 0
  BY <1>2, CutStep DEF Interrupts
<1>3. CASE ~(net = "open_rep") /\ ~(net = "write" /\ buf.part > 0)
  <2>1. ctx' = c /\ UNCHANGED <<net, conn, buf, out>>
    BY <1>3 DEF Interrupts
  <2>2. NetTypeOK' /\ StallIsOwn'
    BY <2>1 DEF NetInv, NetTypeOK, StallIsOwn
  <2>3. OutputInv'
    BY <2>1 DEF NetInv, OutputInv, WriteIsNext, ReceivedIsWritten, LimitCoversBuffer, InWrite
  <2> QED
    BY <2>2, <2>3 DEF NetInv
<1> QED
  BY <1>1, <1>2, <1>3
\* cURL hands over a piece: it follows what was written.
LEMMA ReceiveStep ==
  ASSUME NetInv, NEW n \in 1 .. CHUNK, receive(n)
  PROVE  NetInv'
<1>1. NetTypeOK /\ StallIsOwn /\ OutputInv
  BY DEF NetInv
<1>2. /\ kind' = kind /\ ctx' = ctx /\ out' = out
      /\ net = "perform" /\ kind # "skylark_upload" /\ n \in Nat /\ n > 0
      /\ conn.now \in Nat /\ conn.idle \in Nat /\ ctx.cur \in Nat /\ ctx.moved \in Nat
  BY <1>1 DEF receive, NetTypeOK, Connections, Contexts
<1>3. CASE network_byte_limit(n)
  <2>1. net' = "returned" /\ buf' = buf /\ conn' = [conn EXCEPT !.now = @ + n, !.result = "error"]
    BY <1>3 DEF receive
  <2>2. conn' \in Connections /\ conn'.now = conn.now + n
    <3>1. conn.now + n \in Nat
      BY <1>2
    <3> QED
      BY <2>1, <3>1, <1>1, Zenon DEF NetTypeOK, Connections, Results
  <2>3. NetTypeOK' /\ StallIsOwn'
    BY <1>1, <1>2, <2>1, <2>2 DEF NetTypeOK, StallIsOwn
  <2>4. OutputInv'
    <3>1. ~InWrite /\ ~InWrite'
      BY <1>2, <2>1 DEF InWrite
    <3>2. WriteIsNext'
      BY <3>1 DEF WriteIsNext
    <3>3. ReceivedIsWritten'
      BY <1>1, <1>2, <2>1 DEF OutputInv, ReceivedIsWritten
    <3>4. LimitCoversBuffer'
      BY <1>1, <1>2, <3>1 DEF OutputInv, LimitCoversBuffer
    <3> QED
      BY <3>2, <3>3, <3>4 DEF OutputInv
  <2> QED
    BY <2>3, <2>4 DEF NetInv
<1>4. CASE ~network_byte_limit(n)
  <2>1. /\ net' = "write" /\ conn' = [conn EXCEPT !.now = @ + n, !.idle = 0]
        /\ buf' = [from |-> conn.now, size |-> n, offset |-> 0, remaining |-> n, part |-> 0]
    BY <1>4 DEF receive
  <2>2. conn' \in Connections /\ conn'.now = conn.now + n
    <3>1. conn.now + n \in Nat
      BY <1>2
    <3> QED
      BY <2>1, <3>1, <1>1, Zenon DEF NetTypeOK, Connections, Results
  <2>3. buf' \in Buffers
    BY <2>1, <1>2 DEF Buffers
  <2>4. NetTypeOK' /\ StallIsOwn'
    BY <1>1, <1>2, <2>2, <2>3 DEF NetTypeOK, StallIsOwn
  <2>5. WriteIsNext' /\ ReceivedIsWritten'
    BY <1>1, <1>2, <2>1, <2>2 DEF OutputInv, WriteIsNext, ReceivedIsWritten, InWrite
  <2>6. LimitCoversBuffer'
    BY <1>1, <1>2, <1>4, <2>1, NetAssumption
       DEF OutputInv, LimitCoversBuffer, InWrite, network_byte_limit
  <2> QED
    BY <2>4, <2>5, <2>6 DEF NetInv, OutputInv
<1> QED
  BY <1>3, <1>4

\* One byte of the buffer: the next of the body, unless a write was cut.
LEMMA WriteByteStep ==
  ASSUME NetInv, write_byte
  PROVE  NetInv'
<1> DEFINE i == buf.offset + buf.part + 1
           byte == IF i <= buf.size THEN buf.from + i ELSE 0
<1>1. NetTypeOK /\ StallIsOwn /\ OutputInv
  BY DEF NetInv
<1>2. /\ net = "write" /\ kind' = kind
      /\ out' = [out EXCEPT !.sent = Append(@, byte), !.held = IF kind = "ota" THEN 0 ELSE @ + 1]
  BY DEF write_byte
<1>3. /\ buf.from \in Nat /\ buf.size \in Nat /\ buf.offset \in Nat /\ buf.remaining \in Nat
      /\ buf.part \in Nat /\ conn.now \in Nat /\ ctx.cur \in Nat
  BY <1>1 DEF NetTypeOK, Buffers, Connections, Contexts
<1> DEFINE len == Len(out.sent)
<1>len. len \in Nat
  BY <1>1 DEF NetTypeOK, Outputs
<1> HIDE DEF len
<1>4. out.sent \in Seq(Nat) /\ out.held \in Nat /\ byte \in Nat
  BY <1>1, <1>3 DEF NetTypeOK, Outputs
<1>5. /\ kind # "skylark_upload"
      /\ buf.from + buf.size = conn.now
      /\ buf.part < buf.remaining
      /\ ~out.cut => /\ buf.offset = 0 /\ buf.remaining = buf.size
                     /\ len = buf.from + buf.part
  BY <1>1, <1>2 DEF OutputInv, WriteIsNext, InWrite, len
<1>6. ~out.cut => byte = len + 1
  <2>1. SUFFICES ASSUME ~out.cut PROVE byte = len + 1
    OBVIOUS
  <2>2. i = buf.part + 1 /\ i <= buf.size
    BY <1>len, <1>3, <1>5, <2>1
  <2>3. byte = buf.from + (buf.part + 1)
    BY <2>2
  <2>4. len + 1 = buf.from + (buf.part + 1)
    BY <1>len, <1>3, <1>5, <2>1
  <2> QED
    BY <2>3, <2>4
<1> HIDE DEF byte
<1>7. /\ out'.sent = Append(out.sent, byte) /\ out'.cut = out.cut /\ out' \in Outputs
  <2>1. Append(out.sent, byte) \in Seq(Nat) /\ (IF kind = "ota" THEN 0 ELSE out.held + 1) \in Nat
    BY <1>4
  <2> QED
    BY <1>1, <1>2, <2>1, Zenon DEF NetTypeOK, Outputs
<1>8. Len(out'.sent) = len + 1
  BY <1>4, <1>7, OneMoreByte DEF len
<1>9. ~out.cut => \A k \in 1 .. Len(out'.sent) : out'.sent[k] = k
  BY <1>1, <1>4, <1>6, <1>7, OneMoreByte, Zenon DEF OutputInv, ReceivedIsWritten, len
<1>10. kind = "ota" => /\ len = ctx.cur + buf.part
                       /\ ctx.cur + buf.remaining <= max_bytes
  BY <1>1, <1>2 DEF OutputInv, LimitCoversBuffer, InWrite, len
<1>11. CASE buf.part + 1 = buf.remaining
  <2>1. WriteReturns(ctx, buf.remaining)
    BY <1>11 DEF write_byte
  <2>2. /\ ctx' \in Contexts /\ ctx'.cur = ctx.cur + buf.remaining
        /\ ctx'.moved = ctx.moved /\ ctx'.stall = ctx.stall
        /\ conn' \in Connections /\ conn'.now = conn.now /\ conn'.idle = conn.idle
        /\ buf' \in Buffers /\ net' \in {"perform", "returned"}
    <3>1. ctx \in Contexts /\ buf.remaining <= buf.remaining /\ ~(buf.remaining < buf.remaining)
      BY <1>1, <1>3 DEF NetTypeOK
    <3> QED
      BY <2>1, <3>1, <1>1, <1>2, <1>3, WriteReturnsEffect
  <2>3. NetTypeOK' /\ StallIsOwn'
    BY <1>1, <1>2, <1>7, <2>2 DEF NetTypeOK, StallIsOwn
  <2>4. WriteIsNext'
    BY <2>2 DEF WriteIsNext, InWrite
  <2>5. ReceivedIsWritten'
    <3>1. ~out.cut => Len(out'.sent) = conn'.now
      BY <1>len, <1>3, <1>5, <1>8, <1>11, <2>2
    <3> QED
      BY <1>7, <1>9, <3>1 DEF ReceivedIsWritten
  <2>6. LimitCoversBuffer'
    <3>1. ~InWrite'
      BY <2>2 DEF InWrite
    <3>2. kind = "ota" => /\ Len(out'.sent) = ctx'.cur + 0 /\ ctx'.cur + 0 <= max_bytes
      BY <1>len, <1>3, <1>8, <1>10, <1>11, <2>2, NetAssumption
    <3> QED
      BY <1>2, <3>1, <3>2 DEF LimitCoversBuffer
  <2> QED
    BY <2>3, <2>4, <2>5, <2>6 DEF NetInv, OutputInv
<1>12. CASE buf.part + 1 # buf.remaining
  <2>1. buf' = [buf EXCEPT !.part = @ + 1] /\ UNCHANGED <<net, ctx, conn>>
    BY <1>12 DEF write_byte
  <2>2. /\ buf' \in Buffers /\ buf'.from = buf.from /\ buf'.size = buf.size
        /\ buf'.offset = buf.offset /\ buf'.remaining = buf.remaining /\ buf'.part = buf.part + 1
    BY <1>1, <1>3, <2>1 DEF NetTypeOK, Buffers
  <2>3. NetTypeOK' /\ StallIsOwn'
    BY <1>1, <1>2, <1>7, <2>1, <2>2 DEF NetTypeOK, StallIsOwn
  <2>4. WriteIsNext'
    <3>1. ~out.cut => Len(out'.sent) = buf'.from + buf'.part
      BY <1>len, <1>3, <1>5, <1>8, <2>2
    <3>2. buf'.part < buf'.remaining
      BY <1>3, <1>5, <1>12, <2>2
    <3> QED
      BY <1>2, <1>5, <1>7, <2>1, <2>2, <3>1, <3>2 DEF WriteIsNext
  <2>5. ReceivedIsWritten'
    BY <1>2, <1>7, <1>9, <2>1 DEF ReceivedIsWritten
  <2>6. LimitCoversBuffer'
    <3>1. InWrite'
      BY <1>2, <2>1 DEF InWrite
    <3>2. kind = "ota" => /\ Len(out'.sent) = ctx'.cur + buf'.part
                          /\ ctx'.cur + buf'.remaining <= max_bytes
      <4>1. ctx'.cur = ctx.cur /\ buf'.part = buf.part + 1 /\ buf'.remaining = buf.remaining
        BY <2>1, <2>2
      <4> QED
        BY <1>len, <1>3, <1>8, <1>10, <4>1
    <3> QED
      BY <1>2, <3>1, <3>2 DEF LimitCoversBuffer
  <2> QED
    BY <2>3, <2>4, <2>5, <2>6 DEF NetInv, OutputInv
<1> QED
  BY <1>11, <1>12

\* A second passes for the context and for the connection alike.
LEMMA SecondStep ==
  ASSUME NetInv, second
  PROVE  NetInv'
<1> DEFINE Up(n) == IF n < MAX_STALL_TIME_S THEN n + 1 ELSE n
<1>1. NetTypeOK /\ StallIsOwn /\ OutputInv
  BY DEF NetInv
<1>2. /\ ctx' = [ctx EXCEPT !.stall = Up(@)] /\ conn' = [conn EXCEPT !.idle = Up(@)]
      /\ UNCHANGED <<kind, net, buf, out>>
  BY DEF second
<1>3. \A n \in Nat : Up(n) \in Nat
  BY NetAssumption
<1>4. \A m, n \in Nat : m <= n => Up(m) <= Up(n)
  BY NetAssumption
<1>5. ctx.stall \in Nat /\ conn.idle \in Nat
  BY <1>1 DEF NetTypeOK, Contexts, Connections
<1> HIDE DEF Up
<1>6. ctx' \in Contexts /\ ctx'.stall = Up(ctx.stall) /\ ctx'.moved = ctx.moved /\ ctx'.cur = ctx.cur
  BY <1>1, <1>2, <1>3, <1>5 DEF NetTypeOK, Contexts
<1>7. conn' \in Connections /\ conn'.idle = Up(conn.idle) /\ conn'.now = conn.now
  BY <1>1, <1>2, <1>3, <1>5 DEF NetTypeOK, Connections
<1>8. NetTypeOK' /\ StallIsOwn'
  BY <1>1, <1>2, <1>4, <1>5, <1>6, <1>7 DEF NetTypeOK, StallIsOwn
<1>9. OutputInv'
  BY <1>1, <1>2, <1>6, <1>7
     DEF OutputInv, WriteIsNext, ReceivedIsWritten, LimitCoversBuffer, InWrite
<1> QED
  BY <1>8, <1>9 DEF NetInv
-----------------------------------------------------------------------------
(* The theorems.                                                           *)

\* The invariant holds when the session is created.
LEMMA NetInitInv == NetInit => NetInv
<1> SUFFICES ASSUME NetInit PROVE NetInv
  OBVIOUS
<1>1. /\ ctx \in Contexts /\ conn \in Connections /\ buf \in Buffers
      /\ conn.now = 0 /\ conn.idle = 0 /\ ctx.moved = 0 /\ ctx.stall = 0 /\ ctx.cur = 0
  BY DEF NetInit, NewConn, NoBuf, Contexts, Connections, Results, Buffers
<1>2. out \in Outputs /\ out.sent = <<>> /\ Len(out.sent) = 0 /\ net = "created" /\ kind \in Kinds
  BY DEF NetInit, Outputs
<1>3. NetTypeOK /\ StallIsOwn
  BY <1>1, <1>2 DEF NetTypeOK, StallIsOwn
<1>4. OutputInv
  BY <1>1, <1>2, NetAssumption
     DEF OutputInv, WriteIsNext, ReceivedIsWritten, LimitCoversBuffer, InWrite
<1> QED
  BY <1>3, <1>4 DEF NetInv

\* Every step of the session's thread and of what interleaves with it keeps the
\* invariant.
LEMMA NetStepInv == NetInv /\ [NetNext]_net_vars => NetInv'
<1> SUFFICES ASSUME NetInv, [NetNext]_net_vars PROVE NetInv'
  OBVIOUS
<1>1. /\ NetTypeOK /\ StallIsOwn /\ ctx \in Contexts /\ conn \in Connections
      /\ buf \in Buffers /\ out \in Outputs
  BY DEF NetInv, NetTypeOK
<1>2. CASE network_setup
  <2>1. [ctx EXCEPT !.shutdown = FALSE] \in Contexts
    BY <1>1, Zenon DEF Contexts
  <2> QED
    BY <1>1, <1>2, <2>1, PerformEffect, Zenon DEF network_setup
<1>3. CASE network_request_retry \/ network_request_again
  BY <1>1, <1>3, PerformEffect DEF network_request_retry, network_request_again
<1>4. CASE network_request_shutdown \/ network_request_result
  <2>1. /\ UNCHANGED <<kind, ctx, conn, buf, out>> /\ net = "returned"
        /\ net' \in {"done", "sleep"}
    BY <1>4 DEF network_request_shutdown, network_request_result, Finish
  <2>2. StallIsOwn' /\ ~InWrite /\ ~InWrite'
    BY <1>1, <2>1 DEF StallIsOwn, InWrite
  <2> QED
    BY <1>1, <2>1, <2>2, QuietStep
<1>5. CASE progress
  <2>1. CASE network_progress_check(ctx)
    BY <1>1, <1>5, <2>1, ProgressStep DEF progress
  <2>2. CASE net' = "open_rep" /\ UNCHANGED <<ctx, conn, gga>>
    <3>1. StallIsOwn' /\ ~InWrite /\ ~InWrite' /\ net = "perform" /\ UNCHANGED <<kind, buf, out>>
      BY <1>1, <1>5, <2>2 DEF StallIsOwn, InWrite, progress
    <3> QED
      BY <1>1, <2>2, <3>1, QuietStep
  <2> QED
    BY <1>5, <2>1, <2>2 DEF progress
<1>6. CASE service_control_fifo_opened
  BY <1>1, <1>6, ProgressStep DEF service_control_fifo_opened
<1>7. CASE \E n \in 1 .. CHUNK : receive(n)
  BY <1>7, ReceiveStep
<1>8. CASE write_byte
  BY <1>8, WriteByteStep
<1>9. CASE write_fails
  <2>1. UNCHANGED <<kind, ctx, conn, buf, out>> /\ net = "write" /\ net' = "spin"
    BY <1>9 DEF write_fails
  <2>2. NetTypeOK' /\ StallIsOwn'
    BY <1>1, <2>1 DEF NetTypeOK, StallIsOwn
  <2>3. OutputInv'
    BY <2>1 DEF NetInv, OutputInv, WriteIsNext, ReceivedIsWritten, LimitCoversBuffer, InWrite
  <2> QED
    BY <2>2, <2>3 DEF NetInv
<1>10. CASE network_upload_read
  <2>1. /\ net = "perform" /\ kind = "skylark_upload" /\ UNCHANGED <<kind, net, buf, out>>
        /\ conn' = [conn EXCEPT !.now = @ + 1, !.idle = 0] /\ ctx' = [ctx EXCEPT !.cur = @ + 1]
    BY <1>10 DEF network_upload_read
  <2>2. ctx' \in Contexts /\ ctx'.moved = ctx.moved /\ ctx.moved \in Nat
    BY <1>1, <2>1 DEF Contexts
  <2>3. conn' \in Connections /\ conn'.now = conn.now + 1 /\ conn.now \in Nat
    <3>1. conn.now \in Nat /\ conn.now + 1 \in Nat
      BY <1>1 DEF Connections
    <3> QED
      BY <1>1, <2>1, <3>1, Zenon DEF Connections
  <2>4. NetTypeOK' /\ StallIsOwn'
    BY <1>1, <2>1, <2>2, <2>3 DEF NetTypeOK, StallIsOwn
  <2>5. OutputInv'
    BY <2>1 DEF NetInv, OutputInv, WriteIsNext, ReceivedIsWritten, LimitCoversBuffer, InWrite
  <2> QED
    BY <2>4, <2>5 DEF NetInv
<1>11. CASE libnetwork_shutdown
  <2>1. LET c == [ctx EXCEPT !.shutdown = TRUE]
        IN  c \in Contexts /\ c.moved = ctx.moved /\ c.stall = ctx.stall /\ c.cur = ctx.cur
    BY <1>1, Zenon DEF Contexts
  <2> QED
    BY <1>11, <2>1, SignalStep, Zenon DEF libnetwork_shutdown
<1>12. CASE libnetwork_cycle_connection
  <2>1. LET c == [ctx EXCEPT !.cycle = TRUE]
        IN  c \in Contexts /\ c.moved = ctx.moved /\ c.stall = ctx.stall /\ c.cur = ctx.cur
    BY <1>1, Zenon DEF Contexts
  <2> QED
    BY <1>12, <2>1, SignalStep, Zenon DEF libnetwork_cycle_connection
<1>13. CASE second
  BY <1>13, SecondStep
<1>14. CASE connection_ends
  <2>1. /\ UNCHANGED <<kind, ctx, buf, out>> /\ net = "perform" /\ net' = "returned"
        /\ conn' \in Connections /\ conn'.now = conn.now /\ conn'.idle = conn.idle
    BY <1>1, <1>14 DEF connection_ends, CurlReturns, Connections, Results
  <2>2. StallIsOwn' /\ ~InWrite /\ ~InWrite'
    BY <1>1, <2>1 DEF StallIsOwn, InWrite
  <2> QED
    BY <1>1, <2>1, <2>2, QuietStep
<1>15. CASE drain \/ reader_gone
  <2>1. /\ UNCHANGED <<kind, net, ctx, conn, buf>>
        /\ out' \in Outputs /\ out'.sent = out.sent /\ out'.cut = out.cut
    <3>1. CASE drain
      <4>1. out.held \in Nat /\ out.held > 0 /\ out' = [out EXCEPT !.held = @ - 1]
        BY <1>1, <3>1 DEF drain, Outputs
      <4>2. out.held - 1 \in Nat
        BY <4>1
      <4> QED
        BY <1>1, <3>1, <4>1, <4>2, Zenon DEF drain, Outputs
    <3>2. CASE reader_gone
      BY <1>1, <3>2, Zenon DEF reader_gone, Outputs
    <3> QED
      BY <1>15, <3>1, <3>2
  <2> QED
    BY <2>1, OutsideStep
<1>16. CASE network_upload_write \/ gga_written \/ UNCHANGED net_vars
            \/ \E r \in Requesters : \/ request_health_send(r) \/ request_health_open(r)
                                     \/ request_health_read(r) \/ requester_killed(r)
  <2>1. UNCHANGED <<kind, net, ctx, conn, buf, out>>
    BY <1>16 DEF network_upload_write, gga_written, net_vars, request_health_send,
                 request_health_open, request_health_read, requester_killed
  <2> QED
    BY <1>1, <2>1, OutsideStep
<1> QED
  BY <1>2, <1>3, <1>4, <1>5, <1>6, <1>7, <1>8, <1>9, <1>10, <1>11, <1>12, <1>13, <1>14, <1>15,
     <1>16 DEF NetNext, NetThread

\* The invariant of a session.
THEOREM NetInvariant == NetSpec => []NetInv
<1>1. NetInit => NetInv
  BY NetInitInv
<1>2. NetInv /\ [NetNext]_net_vars => NetInv'
  BY NetStepInv
<1> QED
  BY <1>1, <1>2, PTL DEF NetSpec

\* The bytes of a connection reach the output in order and without a gap until
\* a signal cuts a write of network_download_write short, and an OTA request
\* writes no more than max_bytes: for every limit, body and chunk.
THEOREM BytesArriveInOrder == NetSpec => []BytesInOrder
<1>1. NetInv => BytesInOrder
  <2> SUFFICES ASSUME NetInv PROVE BytesInOrder
    OBVIOUS
  <2>1. ~out.cut => \A i \in 1 .. Len(out.sent) : out.sent[i] = i
    BY DEF NetInv, OutputInv, ReceivedIsWritten
  <2>2. /\ buf.part \in Nat /\ buf.remaining \in Nat /\ ctx.cur \in Nat
        /\ InWrite => buf.part < buf.remaining
    BY DEF NetInv, NetTypeOK, Buffers, Contexts, OutputInv, WriteIsNext
  <2>3. kind = "ota" => Len(out.sent) <= max_bytes
    BY <2>2, NetAssumption DEF NetInv, OutputInv, LimitCoversBuffer
  <2> QED
    BY <2>1, <2>3 DEF BytesInOrder
<1> QED
  BY <1>1, NetInvariant, PTL

\* A signal is counted down by the handler that takes it, and by nothing else.
LEMMA SignalsAreLeft == NetSpec => [](signals \in Nat)
<1>1. NetInit => signals \in Nat
  BY NetAssumption DEF NetInit
<1>2. signals \in Nat /\ [NetNext]_net_vars => (signals \in Nat)'
  <2> SUFFICES ASSUME signals \in Nat, [NetNext]_net_vars PROVE signals' \in Nat
    OBVIOUS
  <2>1. CASE libnetwork_shutdown \/ libnetwork_cycle_connection
    <3>1. signals > 0 /\ signals' = signals - 1
      BY <2>1 DEF libnetwork_shutdown, libnetwork_cycle_connection
    <3> QED
      BY <3>1
  <2>2. NetThread => signals' = signals
    BY DEF NetThread, network_setup, network_request_shutdown, network_request_retry,
           network_request_result, network_request_again, service_control_fifo_opened,
           write_byte, write_fails
  <2>3. \/ progress \/ second \/ drain \/ (\E n \in 1 .. CHUNK : receive(n))
        \/ network_upload_write \/ network_upload_read \/ connection_ends \/ reader_gone
        \/ gga_written
        => signals' = signals
    BY Zenon DEF progress, second, drain, receive, network_upload_write, network_upload_read,
           connection_ends, reader_gone, gga_written
  <2>4. UNCHANGED net_vars
          \/ (\E r \in Requesters : \/ request_health_send(r) \/ request_health_open(r)
                                    \/ request_health_read(r) \/ requester_killed(r))
        => signals' = signals
    BY DEF net_vars, request_health_send, request_health_open, request_health_read,
           requester_killed
  <2> QED
    BY <2>1, <2>2, <2>3, <2>4 DEF NetNext
<1> QED
  BY <1>1, <1>2, PTL DEF NetSpec

\* network_progress_check cuts a connection only for its own idleness: no stall
\* time of an earlier connection, and none from before the last byte, counts.
THEOREM OnlyIdleIsCut == NetSpec => AbortsOnlyIdle
<1> DEFINE Cut == conn.result = "none" /\ conn'.result = "aborted" /\ ~ctx.shutdown /\ ~ctx.cycle
                    /\ ~ctx'.shutdown /\ signals' = signals
                  => conn.idle >= MAX_STALL_TIME_S
<1>1. NetInv /\ signals \in Nat /\ [NetNext]_net_vars => [Cut]_net_vars
  <2> SUFFICES ASSUME NetInv, signals \in Nat, NetNext, conn.result = "none", conn'.result = "aborted",
                      ~ctx.shutdown, ~ctx.cycle, signals' = signals
               PROVE  conn.idle >= MAX_STALL_TIME_S
    OBVIOUS
  <2>1. /\ conn \in Connections /\ ctx \in Contexts /\ StallIsOwn
    BY DEF NetInv, NetTypeOK
  <2>2. CASE network_progress_check(ctx)
    <3>1. ctx.moved = conn.now /\ ctx.stall >= MAX_STALL_TIME_S
      <4>1. CASE ~(ctx.moved = conn.now /\ ctx.stall >= MAX_STALL_TIME_S)
        <5>1. conn' = conn
          BY <2>2, <4>1 DEF network_progress_check
        <5> QED
          BY <5>1
      <4> QED
        BY <4>1
    <3>2. ctx.stall \in Nat /\ conn.idle \in Nat
      BY <2>1 DEF Contexts, Connections
    <3> QED
      BY <2>1, <3>1, <3>2, NetAssumption DEF StallIsOwn
  <2>3. CASE conn' = conn
    BY <2>3
  <2>4. CASE conn' = NewConn
    BY <2>4 DEF NewConn
  <2>5. CASE \E r \in {"ok", "error"} : conn'.result = r
    BY <2>5
  <2>6. CASE conn'.result = conn.result
    BY <2>6
  <2> DEFINE Other == \/ conn' = conn \/ conn' = NewConn \/ conn'.result = conn.result
                      \/ \E r \in {"ok", "error"} : conn'.result = r
  <2>7. NetThread => network_progress_check(ctx) \/ Other
    <3>1. write_byte => Other
      <4>1. ASSUME WriteReturns(ctx, buf.remaining) PROVE Other
        <5>1. conn' = conn \/ conn' = [conn EXCEPT !.result = "error"]
          BY <4>1 DEF WriteReturns, CurlReturns
        <5> QED
          BY <5>1, <2>1 DEF Connections
      <4> QED
        BY <4>1 DEF write_byte
    <3> QED
      BY <3>1 DEF NetThread, network_setup, network_request_shutdown, network_request_retry,
         network_request_result, network_request_again, service_control_fifo_opened, write_fails,
         Perform
  <2>8. progress => network_progress_check(ctx) \/ Other
    BY DEF progress
  <2>9. ASSUME NEW n \in 1 .. CHUNK, receive(n) PROVE Other
    <3>1. \/ conn' = [conn EXCEPT !.now = @ + n, !.result = "error"]
          \/ conn' = [conn EXCEPT !.now = @ + n, !.idle = 0]
      BY <2>9 DEF receive
    <3> QED
      BY <3>1, <2>1, Zenon DEF Connections
  <2>10. second \/ network_upload_read => Other
    BY <2>1, Zenon DEF second, network_upload_read, Connections
  <2>11. connection_ends => Other
    BY <2>1 DEF connection_ends, CurlReturns, Connections
  <2>12. ASSUME libnetwork_shutdown \/ libnetwork_cycle_connection PROVE FALSE
    BY <2>12 DEF libnetwork_shutdown, libnetwork_cycle_connection
  <2>13. drain \/ network_upload_write \/ reader_gone \/ gga_written
          \/ (\E r \in Requesters : \/ request_health_send(r) \/ request_health_open(r)
                                    \/ request_health_read(r) \/ requester_killed(r)) => Other
    BY DEF drain, network_upload_write, reader_gone, gga_written, request_health_send,
           request_health_open, request_health_read, requester_killed
  <2> QED
    BY <2>2, <2>3, <2>4, <2>5, <2>6, <2>7, <2>8, <2>9, <2>10, <2>11, <2>12, <2>13 DEF NetNext
<1> QED
  BY <1>1, NetInvariant, SignalsAreLeft, PTL DEF NetSpec, AbortsOnlyIdle

-----------------------------------------------------------------------------
(***************************************************************************)
(* endpoint_adapter: the frames of the CAN threads, for any number of      *)
(* frames and chunks and pipes of any size, and the bytes of the output    *)
(* path, for frames and queues of any size.                                *)
(***************************************************************************)

-----------------------------------------------------------------------------
(* Lemmas about sequences.                                                 *)

\* What leaves one sequence at its head for the end of the one before it does
\* not change the two together.
LEMMA MoveOver ==
  ASSUME NEW S, NEW r \in Seq(S), NEW q \in Seq(S), q # <<>>
  PROVE  /\ Append(r, Head(q)) \in Seq(S) /\ Tail(q) \in Seq(S)
         /\ Append(r, Head(q)) \o Tail(q) = r \o q
<1>1. /\ Head(q) \in S /\ Head(q) = q[1] /\ Tail(q) \in Seq(S) /\ Len(Tail(q)) = Len(q) - 1
      /\ \A i \in 1 .. Len(q) - 1 : Tail(q)[i] = q[i + 1]
      /\ Len(q) \in Nat /\ Len(q) >= 1 /\ Len(r) \in Nat
  OBVIOUS
<1>2. /\ Append(r, Head(q)) \in Seq(S) /\ Len(Append(r, Head(q))) = Len(r) + 1
      /\ \A i \in 1 .. Len(r) : Append(r, Head(q))[i] = r[i]
      /\ Append(r, Head(q))[Len(r) + 1] = Head(q)
  BY <1>1
<1> DEFINE a == Append(r, Head(q)) \o Tail(q)
           b == r \o q
<1>3. a \in Seq(S) /\ b \in Seq(S) /\ Len(a) = Len(r) + Len(q) /\ Len(b) = Len(r) + Len(q)
  BY <1>1, <1>2
<1>4. ASSUME NEW i \in 1 .. Len(r) + Len(q) PROVE a[i] = b[i]
  <2>1. CASE i <= Len(r)
    BY <1>1, <1>2, <2>1
  <2>2. CASE i = Len(r) + 1
    BY <1>1, <1>2, <2>2
  <2>3. CASE i > Len(r) + 1
    <3>1. i - (Len(r) + 1) \in 1 .. Len(q) - 1 /\ i - Len(r) = (i - (Len(r) + 1)) + 1
      BY <1>1, <2>3
    <3>2. a[i] = Tail(q)[i - (Len(r) + 1)]
      BY <1>1, <1>2, <2>3
    <3>3. b[i] = q[i - Len(r)]
      BY <1>1, <2>3
    <3> QED
      BY <1>1, <3>1, <3>2, <3>3
  <2> QED
    BY <1>1, <2>1, <2>2, <2>3
<1> HIDE DEF a, b
<1>5. a = b
  BY <1>3, <1>4
<1> QED
  BY <1>1, <1>2, <1>5 DEF a, b

\* The elements of two sequences together.
LEMMA Together ==
  ASSUME NEW S, NEW r \in Seq(S), NEW q \in Seq(S)
  PROVE  /\ r \o q \in Seq(S) /\ Len(r \o q) = Len(r) + Len(q)
         /\ \A i \in 1 .. Len(r) : (r \o q)[i] = r[i]
         /\ \A i \in 1 .. Len(q) : (r \o q)[Len(r) + i] = q[i]
OBVIOUS

\* A sequence at whose end something is added.
LEMMA AddAtEnd ==
  ASSUME NEW S, NEW r \in Seq(S), NEW q \in Seq(S), NEW x \in S
  PROVE  /\ Append(q, x) \in Seq(S) /\ Len(Append(q, x)) = Len(q) + 1
         /\ \A i \in 1 .. Len(q) : Append(q, x)[i] = q[i]
         /\ Append(q, x)[Len(q) + 1] = x
         /\ r \o Append(q, x) = Append(r \o q, x)
<1>1. /\ Append(q, x) \in Seq(S) /\ Len(Append(q, x)) = Len(q) + 1
      /\ \A i \in 1 .. Len(q) : Append(q, x)[i] = q[i]
      /\ Append(q, x)[Len(q) + 1] = x
  OBVIOUS
<1> DEFINE a == r \o Append(q, x)
           b == Append(r \o q, x)
<1>2. a \in Seq(S) /\ b \in Seq(S) /\ Len(a) = Len(r) + Len(q) + 1 /\ Len(b) = Len(r) + Len(q) + 1
  OBVIOUS
<1>3. ASSUME NEW i \in 1 .. Len(r) + Len(q) + 1 PROVE a[i] = b[i]
  OBVIOUS
<1> HIDE DEF a, b
<1>4. a = b
  BY <1>2, <1>3
<1> QED
  BY <1>1, <1>4 DEF a, b

-----------------------------------------------------------------------------
(***************************************************************************)
(* CAN.  What the property says of the frames that came from the bus is    *)
(* inductive once it is known that no descriptor is closed while the I/O   *)
(* loop runs (so that the reader gives up no frame it took).  In the other *)
(* direction the chunks in the pipe are the last ones written, so that     *)
(* their numbers are above those of the chunk in hand and of every frame   *)
(* on the bus; and what is left in hand comes after the last frame.        *)
(***************************************************************************)
Chunk == [id : Nat, frames : Nat]

CanTypeOK ==
  /\ from_can \in Seq(Nat) /\ relayed \in Seq(Nat) /\ arrived \in Nat
  /\ to_can \in Seq(Chunk) /\ in_hand \in Chunk
  /\ chunks \in Seq(Nat) /\ can_bus \in Seq(Nat \X Nat)

FromBus ==
  main = "loop" =>
    /\ open = Descriptors
    /\ \A i \in 1 .. Len(relayed \o from_can) : (relayed \o from_can)[i] = i
    /\ Len(relayed \o from_can) = arrived - IF reader \in {"write", "in_write"} THEN 1 ELSE 0

\* Chunks that have left the pipe.
Taken == Len(chunks) - Len(to_can)

\* p was written to the bus before q.
FrameBefore(p, q) == p[1] < q[1] \/ (p[1] = q[1] /\ p[2] > q[2])

ToBus ==
  /\ Taken \in Nat /\ in_hand.id <= Taken
  /\ \A i \in 1 .. Len(to_can) : to_can[i].id = Taken + i
  /\ can_bus # <<>> => can_bus[Len(can_bus)][1] <= Taken
  /\ can_bus # <<>> /\ in_hand.frames > 0 =>
       FrameBefore(can_bus[Len(can_bus)], <<in_hand.id, in_hand.frames>>)
  /\ \A i \in 1 .. Len(can_bus) - 1 : FrameBefore(can_bus[i], can_bus[i + 1])

CanInv == CanTypeOK /\ FromBus /\ ToBus

\* The frame numbers 1, 2, ... with one more.
LEMMA NextFrame ==
  ASSUME NEW r \in Seq(Nat), NEW q \in Seq(Nat), NEW n \in Nat,
         \A i \in 1 .. Len(r \o q) : (r \o q)[i] = i, Len(r \o q) = n - 1
  PROVE  LET a == r \o Append(q, n)
         IN Append(q, n) \in Seq(Nat) /\ Len(a) = n /\ \A i \in 1 .. Len(a) : a[i] = i
<1> DEFINE t == r \o q
           a == Append(t, n)
<1>0. Append(q, n) \in Seq(Nat)
  OBVIOUS
<1>1. r \o Append(q, n) = a
  BY AddAtEnd, SMTT(40)
<1>2. t \in Seq(Nat) /\ Len(t) = n - 1 /\ \A i \in 1 .. n - 1 : t[i] = i
  BY Together
<1> HIDE DEF t
<1>3. Len(a) = n /\ a[n] = n /\ \A i \in 1 .. n - 1 : a[i] = t[i]
  BY <1>2
<1> HIDE DEF a
<1>4. ASSUME NEW i \in 1 .. n PROVE a[i] = i
  <2>1. i = n \/ i \in 1 .. n - 1
    OBVIOUS
  <2> QED
    BY <1>2, <1>3, <2>1, Zenon
<1> QED
  BY <1>0, <1>1, <1>3, <1>4

\* A step that leaves the direction to the bus alone keeps ToBus.
LEMMA ToBusRests ==
  ASSUME ToBus, UNCHANGED <<to_can, in_hand, chunks, can_bus>>
  PROVE  ToBus'
BY DEF ToBus, Taken, FrameBefore

\* The write thread has nothing in hand any more.
LEMMA ToBusEmpty ==
  ASSUME ToBus, in_hand' = NoChunk, UNCHANGED <<to_can, chunks, can_bus>>
  PROVE  ToBus'
<1>1. in_hand'.id = 0 /\ in_hand'.frames = 0
  BY DEF NoChunk
<1>2. Taken' = Taken
  BY DEF Taken
<1> QED
  BY <1>1, <1>2 DEF ToBus, FrameBefore

\* A step that leaves the other direction alone keeps FromBus.
LEMMA FromBusRests ==
  ASSUME FromBus, UNCHANGED <<main, open, from_can, relayed, arrived, reader>>
  PROVE  FromBus'
BY DEF FromBus

\* The steps of the main thread, the I/O loop's end included: outside the loop
\* nothing is claimed of the frames from the bus, and a new round starts with
\* nothing on its way.
LEMMA CanMainStep ==
  ASSUME CanInv, CanMain \/ io_loop_ends
  PROVE  CanInv'
<1>1. CASE can_loop_start
  <2>1. /\ from_can' = <<>> /\ to_can' = <<>> /\ in_hand' = NoChunk /\ arrived' = 0
        /\ relayed' = <<>> /\ chunks' = <<>> /\ can_bus' = <<>>
    BY <1>1 DEF can_loop_start
  <2>2. main' = "loop" => open' = Descriptors /\ reader' = "select"
    BY <1>1 DEF can_loop_start
  <2>3. CanTypeOK'
    BY <2>1 DEF CanTypeOK, NoChunk, Chunk
  <2>4. FromBus'
    <3>1. Len(relayed' \o from_can') = 0
      BY <2>1
    <3>2. ASSUME main' = "loop"
          PROVE  0 = arrived' - IF reader' \in {"write", "in_write"} THEN 1 ELSE 0
      <4>1. reader' = "select" /\ arrived' = 0
        BY <2>1, <2>2, <3>2
      <4>2. reader' \notin {"write", "in_write"} /\ 0 - 0 = 0
        BY <4>1
      <4> QED
        BY <4>1, <4>2, Zenon
    <3>3. \A i \in 1 .. Len(relayed' \o from_can') : (relayed' \o from_can')[i] = i
      BY <3>1
    <3>4. main' = "loop" => Len(relayed' \o from_can')
                             = arrived' - IF reader' \in {"write", "in_write"} THEN 1 ELSE 0
      BY <3>1, <3>2
    <3> QED
      BY <2>2, <3>3, <3>4, Zenon DEF FromBus
  <2>5. ToBus'
    BY <2>1 DEF ToBus, Taken, NoChunk
  <2> QED
    BY <2>3, <2>4, <2>5 DEF CanInv
<1>2. CASE can_loop_close \/ can_loop_join \/ io_loop_ends
  <2>1. UNCHANGED <<from_can, to_can, in_hand, arrived, relayed, chunks, can_bus>>
    BY <1>2, Zenon DEF can_loop_close, can_loop_join, io_loop_ends
  <2>2. main' # "loop"
    BY <1>2, Zenon DEF can_loop_close, can_loop_join, io_loop_ends
  <2>3. CanTypeOK' /\ FromBus'
    BY <2>1, <2>2 DEF CanInv, CanTypeOK, FromBus
  <2> QED
    BY <2>1, <2>3, ToBusRests DEF CanInv
<1> QED
  BY <1>1, <1>2 DEF CanMain

\* The I/O loop reads a frame.
LEMMA LoopReadsStep ==
  ASSUME CanInv, io_loop_reads
  PROVE  CanInv'
<1>1. /\ relayed' = Append(relayed, Head(from_can)) /\ from_can' = Tail(from_can)
      /\ from_can # <<>>
      /\ UNCHANGED <<main, open, reader, to_can, in_hand, arrived, chunks, can_bus>>
  BY DEF io_loop_reads
<1>2. /\ relayed' \in Seq(Nat) /\ from_can' \in Seq(Nat)
      /\ relayed' \o from_can' = relayed \o from_can
  <2>1. relayed \in Seq(Nat) /\ from_can \in Seq(Nat)
    BY DEF CanInv, CanTypeOK
  <2>2. /\ Append(relayed, Head(from_can)) \in Seq(Nat) /\ Tail(from_can) \in Seq(Nat)
        /\ Append(relayed, Head(from_can)) \o Tail(from_can) = relayed \o from_can
    BY <1>1, <2>1, MoveOver, ZenonT(40)
  <2> QED
    BY <1>1, <2>2, Zenon
<1>3. CanTypeOK' /\ FromBus'
  BY <1>1, <1>2, Zenon DEF CanInv, CanTypeOK, FromBus
<1> QED
  BY <1>1, <1>3, ToBusRests DEF CanInv

\* The read thread: while the loop runs every descriptor is open, and the frame
\* it took goes to the pipe.
LEMMA ReaderStep ==
  ASSUME CanInv, CanReader
  PROVE  CanInv'
<1>1. UNCHANGED <<main, open, to_can, in_hand, relayed, chunks, can_bus>>
  BY DEF CanReader, reader_select, reader_read, reader_write
<1>2. ToBus'
  BY <1>1, ToBusRests DEF CanInv
<1>3. CASE reader_select
  BY <1>1, <1>2, <1>3 DEF CanInv, CanTypeOK, FromBus, reader_select, Descriptors
<1>4. CASE reader_read
  <2>1. /\ reader = "read" /\ from_can' = from_can
        /\ \/ reader' = "write" /\ arrived' = arrived + 1
           \/ reader' = "select" /\ arrived' = arrived
    BY <1>4 DEF reader_read
  <2>2. CanTypeOK'
    BY <1>1, <2>1 DEF CanInv, CanTypeOK
  <2>3. arrived - 0 = arrived' - IF reader' \in {"write", "in_write"} THEN 1 ELSE 0
    BY <2>1 DEF CanInv, CanTypeOK
  <2>4. FromBus'
    BY <1>1, <2>1, <2>3 DEF CanInv, FromBus
  <2> QED
    BY <1>2, <2>2, <2>4 DEF CanInv
<1>5. CASE reader_write
  <2>1. /\ reader \in {"write", "in_write"} /\ arrived' = arrived
        /\ \/ reader' = "done" /\ from_can' = from_can /\ open # Descriptors
           \/ from_can' = Append(from_can, arrived) /\ reader' = "select"
           \/ reader' = "in_write" /\ from_can' = from_can
    BY <1>5 DEF reader_write, Descriptors
  <2>2. CASE reader' = "done" /\ from_can' = from_can /\ open # Descriptors
    BY <1>1, <1>2, <2>1, <2>2 DEF CanInv, CanTypeOK, FromBus
  <2>3. CASE from_can' = Append(from_can, arrived) /\ reader' = "select"
    <3>1. CanTypeOK'
      BY <1>1, <2>1, <2>3 DEF CanInv, CanTypeOK
    <3>2. ASSUME main = "loop" PROVE FromBus'
      <4>1. /\ \A i \in 1 .. Len(relayed \o from_can) : (relayed \o from_can)[i] = i
            /\ Len(relayed \o from_can) = arrived - 1 /\ open = Descriptors
        BY <2>1, <3>2 DEF CanInv, FromBus
      <4>2. LET a == relayed \o Append(from_can, arrived)
            IN Len(a) = arrived /\ \A i \in 1 .. Len(a) : a[i] = i
        BY <4>1, NextFrame DEF CanInv, CanTypeOK
      <4>3. relayed' \o from_can' = relayed \o Append(from_can, arrived)
        BY <1>1, <2>3
      <4>4. arrived - 0 = arrived
        BY DEF CanInv, CanTypeOK
      <4> QED
        BY <1>1, <2>1, <2>3, <4>1, <4>2, <4>3, <4>4 DEF FromBus
    <3>3. main # "loop" => FromBus'
      BY <1>1 DEF FromBus
    <3> QED
      BY <1>2, <3>1, <3>2, <3>3 DEF CanInv
  <2>4. CASE reader' = "in_write" /\ from_can' = from_can
    BY <1>1, <1>2, <2>1, <2>4 DEF CanInv, CanTypeOK, FromBus
  <2> QED
    BY <2>1, <2>2, <2>3, <2>4
<1> QED
  BY <1>3, <1>4, <1>5 DEF CanReader

\* The I/O loop writes a chunk, with the number after the last.
LEMMA LoopWritesStep ==
  ASSUME CanInv, io_loop_writes
  PROVE  CanInv'
<1>1. UNCHANGED <<main, open, from_can, reader, in_hand, arrived, relayed, can_bus>>
  BY DEF io_loop_writes
<1>2. PICK n \in ChunkFrames : /\ chunks' = Append(chunks, n)
                               /\ to_can' = Append(to_can, [id |-> Len(chunks) + 1, frames |-> n])
  BY DEF io_loop_writes
<1> DEFINE c == [id |-> Len(chunks) + 1, frames |-> n]
<1>3. n \in Nat /\ Len(chunks) \in Nat /\ Len(to_can) \in Nat
  BY CanAssumption DEF CanInv, CanTypeOK
<1>4. c \in Chunk /\ c.id = Len(chunks) + 1
  BY <1>3 DEF Chunk
<1> HIDE DEF c
<1>5. /\ chunks' \in Seq(Nat) /\ Len(chunks') = Len(chunks) + 1
      /\ to_can' \in Seq(Chunk) /\ Len(to_can') = Len(to_can) + 1
      /\ \A i \in 1 .. Len(to_can) : to_can'[i] = to_can[i]
      /\ to_can'[Len(to_can) + 1] = c
  <2>1. to_can' = Append(to_can, c)
    BY <1>2 DEF c
  <2> QED
    BY <1>2, <1>3, <1>4, <2>1 DEF CanInv, CanTypeOK
<1>6. Taken' = Taken
  BY <1>3, <1>5 DEF Taken
<1>7. \A i \in 1 .. Len(to_can') : to_can'[i].id = Taken' + i
  <2> SUFFICES ASSUME NEW i \in 1 .. Len(to_can') PROVE to_can'[i].id = Taken' + i
    OBVIOUS
  <2>1. CASE i = Len(to_can) + 1
    <3>1. Taken' + i = Len(chunks) + 1
      BY <1>3, <1>6, <2>1 DEF Taken
    <3> QED
      BY <1>4, <1>5, <2>1, <3>1
  <2>2. CASE i # Len(to_can) + 1
    <3>1. i \in 1 .. Len(to_can)
      BY <1>3, <1>5, <2>2
    <3> QED
      BY <1>5, <1>6, <3>1, Zenon DEF CanInv, ToBus
  <2> QED
    BY <2>1, <2>2
<1>8. ToBus'
  BY <1>1, <1>6, <1>7, Zenon DEF CanInv, ToBus, FrameBefore
<1>9. CanTypeOK'
  BY <1>1, <1>5 DEF CanInv, CanTypeOK
<1> QED
  BY <1>1, <1>8, <1>9, FromBusRests DEF CanInv

\* The write thread takes a chunk: its number is above all that is on the bus.
LEMMA WriterReadStep ==
  ASSUME CanInv, writer_read
  PROVE  CanInv'
<1>1. UNCHANGED <<main, open, from_can, reader, arrived, relayed, chunks, can_bus>>
  BY DEF writer_read
<1>2. FromBus'
  BY <1>1, FromBusRests DEF CanInv
<1>3. \/ to_can # <<>> /\ in_hand' = Head(to_can) /\ to_can' = Tail(to_can)
      \/ in_hand' = in_hand /\ to_can' = to_can
      \/ in_hand' = NoChunk /\ to_can' = to_can
  BY DEF writer_read
<1>4. CASE to_can # <<>> /\ in_hand' = Head(to_can) /\ to_can' = Tail(to_can)
  <2>1. /\ in_hand' \in Chunk /\ in_hand' = to_can[1]
        /\ to_can' \in Seq(Chunk) /\ Len(to_can') = Len(to_can) - 1
        /\ \A i \in 1 .. Len(to_can) - 1 : to_can'[i] = to_can[i + 1]
        /\ Len(to_can) \in Nat /\ Len(to_can) >= 1 /\ Len(chunks) \in Nat
    BY <1>4 DEF CanInv, CanTypeOK
  <2>2. Taken \in Nat /\ Taken' = Taken + 1
    BY <1>1, <2>1 DEF Taken, CanInv, ToBus
  <2>3. in_hand'.id = Taken + 1
    BY <2>1 DEF CanInv, ToBus
  <2>4. ASSUME NEW i \in 1 .. Len(to_can') PROVE to_can'[i].id = Taken' + i
    <3>1. i \in 1 .. Len(to_can) - 1 /\ i + 1 \in 1 .. Len(to_can)
      BY <2>1
    <3>2. to_can'[i].id = Taken + (i + 1)
      BY <2>1, <3>1, Zenon DEF CanInv, ToBus
    <3> QED
      BY <2>2, <3>1, <3>2
  <2>5. ASSUME can_bus = <<>> PROVE ToBus'
    BY <1>1, <2>2, <2>3, <2>4, <2>5 DEF ToBus
  <2>6. ASSUME can_bus # <<>> PROVE ToBus'
    <3> DEFINE l == can_bus[Len(can_bus)]
    <3>1. l \in Nat \X Nat
      BY <2>6 DEF CanInv, CanTypeOK
    <3>2. l[1] <= Taken /\ l[1] \in Nat
      BY <2>6, <3>1 DEF CanInv, ToBus
    <3>3. l[1] <= Taken' /\ FrameBefore(l, <<in_hand'.id, in_hand'.frames>>)
      BY <2>2, <2>3, <3>2 DEF FrameBefore
    <3>4. \A i \in 1 .. Len(can_bus) - 1 : FrameBefore(can_bus[i], can_bus[i + 1])
      BY DEF CanInv, ToBus
    <3>5. in_hand'.id <= Taken' /\ Taken' \in Nat
      BY <2>2, <2>3
    <3> HIDE DEF l
    <3>7. /\ can_bus'[Len(can_bus')][1] <= Taken'
          /\ FrameBefore(can_bus'[Len(can_bus')], <<in_hand'.id, in_hand'.frames>>)
      BY <1>1, <3>3 DEF l
    <3>8. \A i \in 1 .. Len(can_bus') - 1 : FrameBefore(can_bus'[i], can_bus'[i + 1])
      BY <1>1, <3>4
    <3> QED
      BY <2>4, <3>5, <3>7, <3>8 DEF ToBus, FrameBefore
  <2>7. CanTypeOK'
    BY <1>1, <2>1 DEF CanInv, CanTypeOK
  <2> QED
    BY <1>2, <2>5, <2>6, <2>7 DEF CanInv
<1>5. CASE in_hand' = in_hand /\ to_can' = to_can
  <2>1. ToBus'
    BY <1>1, <1>5, ToBusRests DEF CanInv
  <2> QED
    BY <1>1, <1>2, <1>5, <2>1 DEF CanInv, CanTypeOK
<1>6. CASE in_hand' = NoChunk /\ to_can' = to_can
  <2>1. ToBus'
    BY <1>1, <1>6, ToBusEmpty DEF CanInv
  <2>2. CanTypeOK'
    BY <1>1, <1>6 DEF CanInv, CanTypeOK, NoChunk, Chunk
  <2> QED
    BY <1>2, <2>1, <2>2 DEF CanInv
<1> QED
  BY <1>3, <1>4, <1>5, <1>6

\* One frame goes to the bus, after all that are there and before what is left.
LEMMA CanWriteStep ==
  ASSUME CanInv, can_write
  PROVE  CanInv'
<1>1. UNCHANGED <<main, open, from_can, to_can, reader, arrived, relayed, chunks>>
  BY DEF can_write
<1>2. FromBus'
  BY <1>1, FromBusRests DEF CanInv
<1>3. \/ /\ in_hand.frames > 0 /\ can_bus' = Append(can_bus, <<in_hand.id, in_hand.frames>>)
         /\ in_hand' = [in_hand EXCEPT !.frames = @ - 1]
      \/ in_hand' = NoChunk /\ can_bus' = can_bus
  BY DEF can_write
<1>4. CASE /\ in_hand.frames > 0 /\ can_bus' = Append(can_bus, <<in_hand.id, in_hand.frames>>)
           /\ in_hand' = [in_hand EXCEPT !.frames = @ - 1]
  <2> DEFINE f == <<in_hand.id, in_hand.frames>>
  <2>1. in_hand.id \in Nat /\ in_hand.frames \in Nat /\ in_hand.frames - 1 \in Nat
    BY <1>4 DEF CanInv, CanTypeOK, Chunk
  <2>2. in_hand' \in Chunk /\ in_hand'.id = in_hand.id /\ in_hand'.frames = in_hand.frames - 1
    BY <1>4, <2>1, Zenon DEF CanInv, CanTypeOK, Chunk
  <2>3. f \in Nat \X Nat /\ f[1] = in_hand.id /\ f[2] = in_hand.frames
    BY <2>1
  <2>4. Taken' = Taken /\ in_hand.id <= Taken /\ Taken \in Nat
    BY <1>1 DEF Taken, CanInv, ToBus
  <2>5. can_bus # <<>> => FrameBefore(can_bus[Len(can_bus)], f)
    BY <1>4 DEF CanInv, ToBus
  <2>6. FrameBefore(f, <<in_hand'.id, in_hand'.frames>>)
    BY <2>1, <2>2, <2>3 DEF FrameBefore
  <2> HIDE DEF f
  <2>7. /\ can_bus' \in Seq(Nat \X Nat) /\ Len(can_bus') = Len(can_bus) + 1
        /\ \A i \in 1 .. Len(can_bus) : can_bus'[i] = can_bus[i]
        /\ can_bus'[Len(can_bus) + 1] = f
        /\ Len(can_bus) \in Nat
    <3>1. can_bus' = Append(can_bus, f)
      BY <1>4 DEF f
    <3> QED
      BY <2>3, <3>1 DEF CanInv, CanTypeOK
  <2>8. ASSUME NEW i \in 1 .. Len(can_bus') - 1
        PROVE  FrameBefore(can_bus'[i], can_bus'[i + 1])
    <3>1. i \in 1 .. Len(can_bus)
      BY <2>7
    <3>2. CASE i = Len(can_bus)
      <4>1. can_bus # <<>>
        BY <3>1
      <4> QED
        BY <2>5, <2>7, <3>1, <3>2, <4>1
    <3>3. CASE i # Len(can_bus)
      <4>1. i \in 1 .. Len(can_bus) - 1 /\ i + 1 \in 1 .. Len(can_bus)
        BY <2>7, <3>1, <3>3
      <4>2. can_bus'[i] = can_bus[i] /\ can_bus'[i + 1] = can_bus[i + 1]
        BY <2>7, <4>1
      <4>3. FrameBefore(can_bus[i], can_bus[i + 1])
        BY <4>1 DEF CanInv, ToBus
      <4> QED
        BY <4>2, <4>3
    <3> QED
      BY <3>2, <3>3
  <2>9. can_bus'[Len(can_bus')] = f
    BY <2>7
  <2>10. \A i \in 1 .. Len(to_can') : to_can'[i].id = Taken' + i
    BY <1>1, <2>4 DEF CanInv, ToBus
  <2>11. /\ can_bus'[Len(can_bus')][1] <= Taken' /\ in_hand'.id <= Taken' /\ Taken' \in Nat
         /\ FrameBefore(can_bus'[Len(can_bus')], <<in_hand'.id, in_hand'.frames>>)
    BY <2>2, <2>3, <2>4, <2>6, <2>9
  <2>12. ToBus'
    BY <2>8, <2>10, <2>11 DEF ToBus, FrameBefore
  <2>13. CanTypeOK'
    BY <1>1, <2>2, <2>7 DEF CanInv, CanTypeOK
  <2> QED
    BY <1>2, <2>12, <2>13 DEF CanInv
<1>5. CASE in_hand' = NoChunk /\ can_bus' = can_bus
  <2>1. ToBus'
    BY <1>1, <1>5, ToBusEmpty DEF CanInv
  <2>2. CanTypeOK'
    BY <1>1, <1>5 DEF CanInv, CanTypeOK, NoChunk, Chunk
  <2> QED
    BY <1>2, <2>1, <2>2 DEF CanInv
<1> QED
  BY <1>3, <1>4, <1>5

\* The inductive invariant of the CAN threads (endpoint_adapter_can.c).
THEOREM CanInvariant == CanSpec => []CanInv
<1>1. CanInit => CanInv
  <2> SUFFICES ASSUME CanInit PROVE CanInv
    OBVIOUS
  <2>1. CanTypeOK
    BY DEF CanInit, CanTypeOK, NoChunk, Chunk
  <2>2. FromBus /\ ToBus
    BY DEF CanInit, FromBus, ToBus, Taken, NoChunk
  <2> QED
    BY <2>1, <2>2 DEF CanInv
<1>2. CanInv /\ [CanNext]_can_vars => CanInv'
  <2> SUFFICES ASSUME CanInv, [CanNext]_can_vars PROVE CanInv'
    OBVIOUS
  <2>1. CASE UNCHANGED can_vars
    <3>1. FromBus' /\ ToBus'
      BY <2>1, FromBusRests, ToBusRests DEF can_vars, CanInv
    <3> QED
      BY <2>1, <3>1 DEF can_vars, CanInv, CanTypeOK
  <2> QED
    BY <2>1, CanMainStep, LoopReadsStep, LoopWritesStep, ReaderStep, WriterReadStep, CanWriteStep
    DEF CanNext, CanWriter
<1> QED
  BY <1>1, <1>2, PTL DEF CanSpec

\* The frames of the bus reach the I/O loop in order, none twice and none lost
\* on the way, and the frames chunks are cut into reach the bus in order, none
\* twice, for any number of frames, chunks and rounds and pipes of any size.
THEOREM FramesKeepTheirOrder == CanSpec => []CanKeepsOrder
<1>1. CanInv => CanKeepsOrder
  BY DEF CanInv, FromBus, ToBus, FrameBefore, CanKeepsOrder
<1> QED
  BY <1>1, CanInvariant, PTL

-----------------------------------------------------------------------------
(***************************************************************************)
(* The output path.  Without a flush the bytes sent are those at the       *)
(* places ByteAt gives, as many as are done with.  With one, what is       *)
(* needed is that every byte sent comes before the next to be written: a   *)
(* flush takes bytes off the end, so the order of neighbours alone would   *)
(* not say that of the last that is left.                                  *)
(***************************************************************************)
Sent == port_out \o kqueue
ByteAt(i) == <<1 + ((i - 1) \div FRAME_BYTES), 1 + ((i - 1) % FRAME_BYTES)>>
Done == accepted * FRAME_BYTES - Rest

ByteSeq == Seq(Nat \X Nat)

\* Every byte of s is the one that belongs there.
InPlace(s) == \A i \in 1 .. Len(s) : s[i] = ByteAt(i)

\* p is n bytes of frame a, after its byte w.
IsPiece(p, a, w, n) == Len(p) = n /\ \A i \in 1 .. n : p[i] = <<a, w + i>>

OutTypeOK ==
  /\ accepted \in Nat /\ written \in 0 .. FRAME_BYTES /\ flushes \in Nat
  /\ kqueue \in Seq(Nat \X Nat) /\ port_out \in Seq(Nat \X Nat)
  /\ accepted = 0 => Written

Whole ==
  flushes = 0 /\ out_running =>
    Len(Sent) = Done /\ InPlace(Sent)

ByteBefore(p, q) == p[1] < q[1] \/ (p[1] = q[1] /\ p[2] < q[2])

InOrder(s) == \A i \in 1 .. Len(s) - 1 : ByteBefore(s[i], s[i + 1])

\* No byte of s is beyond byte w of frame a.
UpTo(s, a, w) == \A i \in 1 .. Len(s) : s[i][1] < a \/ (s[i][1] = a /\ s[i][2] <= w)

OutInv == OutTypeOK /\ Whole /\ InOrder(Sent) /\ UpTo(Sent, accepted, written)

\* Quotient and remainder of a number given as q frames and r bytes.
LEMMA DivMod ==
  ASSUME NEW f \in Nat \ {0}, NEW q \in Nat, NEW r \in 0 .. f - 1
  PROVE  (q * f + r) \div f = q /\ (q * f + r) % f = r
OBVIOUS

\* What is added to the end of the second of two sequences is added to both.
LEMMA AddToBoth ==
  ASSUME NEW r \in ByteSeq, NEW q \in ByteSeq, NEW p \in ByteSeq
  PROVE  r \o (q \o p) = (r \o q) \o p
<1> USE DEF ByteSeq
<1> DEFINE a == r \o (q \o p)
           b == (r \o q) \o p
<1>1. a \in Seq(Nat \X Nat) /\ b \in Seq(Nat \X Nat) /\ Len(a) = Len(r) + Len(q) + Len(p) /\ Len(b) = Len(a)
  OBVIOUS
<1>2. ASSUME NEW i \in 1 .. Len(r) + Len(q) + Len(p) PROVE a[i] = b[i]
  BY SMTT(40)
<1> HIDE DEF a, b
<1>3. a = b
  BY <1>1, <1>2
<1> QED
  BY <1>3 DEF a, b

\* Where a place and the next lie when n more places follow l.
LEMMA NextPlace ==
  ASSUME NEW l \in Nat, NEW n \in Nat, NEW i \in 1 .. l + n - 1
  PROVE  /\ i < l => i \in 1 .. l - 1 /\ i \in 1 .. l /\ i + 1 \in 1 .. l
         /\ i = l => i \in 1 .. l /\ i + 1 \in l + 1 .. l + n /\ (i + 1) - l = 1
         /\ i > l => i \in l + 1 .. l + n /\ i + 1 \in l + 1 .. l + n
OBVIOUS

\* The same of the bytes of this path.
LEMMA BytesTogether ==
  ASSUME NEW s \in Seq(Nat \X Nat), NEW p \in Seq(Nat \X Nat)
  PROVE  /\ s \o p \in Seq(Nat \X Nat) /\ Len(s) \in Nat /\ Len(s \o p) = Len(s) + Len(p)
         /\ \A i \in 1 .. Len(s) : /\ (s \o p)[i] = s[i]
                                  /\ s[i][1] \in Nat /\ s[i][2] \in Nat
         /\ \A i \in 1 .. Len(p) : (s \o p)[Len(s) + i] = p[i]
<1>1. \A i \in 1 .. Len(s) : s[i] \in Nat \X Nat
  OBVIOUS
<1>2. \A i \in 1 .. Len(s) : s[i][1] \in Nat /\ s[i][2] \in Nat
  BY <1>1
<1> QED
  BY <1>2, Together

\* A piece of frame a, from after byte w, added to bytes that go up to there.
LEMMA AddPiece ==
  ASSUME NEW s \in Seq(Nat \X Nat), NEW p \in Seq(Nat \X Nat),
         NEW a \in Nat, NEW w \in Nat, NEW n \in Nat \ {0},
         Len(p) = n, \A i \in 1 .. n : p[i] = <<a, w + i>>,
         InOrder(s), UpTo(s, a, w)
  PROVE  InOrder(s \o p) /\ UpTo(s \o p, a, w + n)
<1> DEFINE t == s \o p
           l == Len(s)
<1>1. t \in Seq(Nat \X Nat) /\ l \in Nat /\ Len(t) = l + n
  BY BytesTogether, Zenon
<1>2. \A i \in 1 .. l : t[i] = s[i] /\ s[i][1] \in Nat /\ s[i][2] \in Nat
  BY BytesTogether, Zenon
<1>3. ASSUME NEW i \in l + 1 .. l + n
      PROVE  t[i][1] = a /\ t[i][2] = w + (i - l)
  <2>1. i - l \in 1 .. n /\ i = Len(s) + (i - l)
    BY <1>1
  <2>2. t[i] = p[i - l]
    <3>1. t[Len(s) + (i - l)] = p[i - l]
      <4>1. \A j \in 1 .. n : t[Len(s) + j] = p[j]
        BY BytesTogether, Zenon
      <4> QED
        BY <2>1, <4>1, Zenon
    <3> QED
      BY <2>1, <3>1, Zenon
  <2>3. t[i] = <<a, w + (i - l)>>
    BY <2>1, <2>2
  <2> QED
    BY <2>3
<1>4. /\ \A i \in 1 .. l - 1 : ByteBefore(s[i], s[i + 1])
      /\ \A i \in 1 .. l : s[i][1] < a \/ (s[i][1] = a /\ s[i][2] <= w)
  BY DEF InOrder, UpTo
<1> HIDE DEF t, l
<1>0. l \in Nat /\ n \in Nat
  BY <1>1
<1>5. ASSUME NEW i \in 1 .. Len(t) - 1 PROVE ByteBefore(t[i], t[i + 1])
  <2>1. i \in 1 .. l + n - 1
    BY <1>1
  <2>2. CASE i < l
    <3>1. i \in 1 .. l - 1 /\ i \in 1 .. l /\ i + 1 \in 1 .. l
      BY <1>0, <2>1, <2>2, NextPlace, Zenon
    <3> QED
      BY <1>2, <1>4, <3>1, Zenon
  <2>3. CASE i = l
    <3>1. i \in 1 .. l /\ i + 1 \in l + 1 .. l + n /\ (i + 1) - l = 1
      BY <1>0, <2>1, <2>3, NextPlace
    <3>2. t[i + 1][1] = a /\ t[i + 1][2] = w + 1
      BY <1>3, <3>1
    <3>3. t[i][1] < a \/ (t[i][1] = a /\ t[i][2] <= w)
      BY <1>2, <1>4, <3>1, Zenon
    <3>4. t[i][2] \in Nat
      BY <1>2, <3>1, Zenon
    <3> QED
      BY <3>2, <3>3, <3>4 DEF ByteBefore
  <2>4. CASE i > l
    <3>1. i \in l + 1 .. l + n /\ i + 1 \in l + 1 .. l + n
      BY <1>0, <2>1, <2>4, NextPlace
    <3>2. t[i][1] = t[i + 1][1] /\ t[i][2] = w + (i - l) /\ t[i + 1][2] = w + ((i + 1) - l)
      BY <1>3, <3>1
    <3>3. w + (i - l) < w + ((i + 1) - l)
      BY <1>1, <2>1
    <3> QED
      BY <3>2, <3>3, Zenon DEF ByteBefore
  <2> QED
    BY <1>1, <2>1, <2>2, <2>3, <2>4
<1>6. ASSUME NEW i \in 1 .. Len(t)
      PROVE  t[i][1] < a \/ (t[i][1] = a /\ t[i][2] <= w + n)
  <2>1. CASE i <= l
    <3>1. i \in 1 .. l
      BY <1>1, <2>1
    <3>2. t[i][1] < a \/ (t[i][1] = a /\ t[i][2] <= w)
      BY <1>2, <1>4, <3>1, Zenon
    <3>3. t[i][2] \in Nat
      BY <1>2, <3>1, Zenon
    <3> QED
      BY <3>2, <3>3
  <2>2. CASE i > l
    <3>1. i \in l + 1 .. l + n
      BY <1>1, <2>2
    <3>2. t[i][1] = a /\ t[i][2] = w + (i - l)
      BY <1>3, <3>1
    <3>3. w + (i - l) <= w + n
      BY <1>1, <3>1
    <3> QED
      BY <3>2, <3>3
  <2>3. i \in Int /\ l \in Int
    BY <1>1
  <2>4. i <= l \/ i > l
    BY <2>3
  <2> QED
    BY <2>1, <2>2, <2>4
<1>7. InOrder(t) /\ UpTo(t, a, w + n)
  BY <1>5, <1>6 DEF InOrder, UpTo
<1> QED
  BY <1>7 DEF t

\* The same piece follows the bytes that are in their places, and is in its own.
LEMMA PieceInPlace ==
  ASSUME NEW s \in ByteSeq, NEW p \in ByteSeq,
         NEW a \in Nat \ {0}, NEW w \in 0 .. FRAME_BYTES, NEW n \in 1 .. FRAME_BYTES - w,
         IsPiece(p, a, w, n), InPlace(s),
         Len(s) = a * FRAME_BYTES - (FRAME_BYTES - w)
  PROVE  /\ Len(s \o p) = a * FRAME_BYTES - (FRAME_BYTES - (w + n))
         /\ InPlace(s \o p)
<1> USE DEF ByteSeq
<1> DEFINE t == s \o p
           l == Len(s)
           b == (a - 1) * FRAME_BYTES
<1>1. t \in Seq(Nat \X Nat) /\ l \in Nat /\ Len(t) = l + n
  BY BytesTogether, Zenon DEF IsPiece
<1>2. \A i \in 1 .. l : t[i] = s[i]
  BY BytesTogether
<1>3. b \in Nat /\ l = b + w /\ a - 1 \in Nat /\ a * FRAME_BYTES = b + FRAME_BYTES
  BY OutAssumption
<1>4. ASSUME NEW i \in l + 1 .. l + n PROVE t[i] = ByteAt(i)
  <2>1. i - l \in 1 .. n /\ i = Len(s) + (i - l)
    BY <1>1, SMTT(40)
  <2>2. t[i] = p[i - l]
    <3>1. t[Len(s) + (i - l)] = p[i - l]
      <4>1. i - l \in 1 .. Len(p)
        BY <2>1 DEF IsPiece
      <4> QED
        BY <4>1, BytesTogether, Zenon
    <3> QED
      BY <2>1, <3>1, Zenon
  <2>3. t[i] = <<a, w + (i - l)>>
    BY <2>1, <2>2, Zenon DEF IsPiece
  <2> DEFINE r == w + (i - l) - 1
  <2>4. r \in 0 .. FRAME_BYTES - 1 /\ i - 1 = b + r
    BY <1>1, <1>3, <2>1, OutAssumption
  <2> HIDE DEF r
  <2>5. (b + r) \div FRAME_BYTES = a - 1 /\ (b + r) % FRAME_BYTES = r
    BY <1>3, <2>4, DivMod, OutAssumption, Zenon
  <2>6. ByteAt(i) = <<1 + (a - 1), 1 + r>>
    BY <2>4, <2>5 DEF ByteAt
  <2>7. 1 + (a - 1) = a /\ 1 + r = w + (i - l)
    <3>1. w \in Int /\ i - l \in Int
      BY <2>1, OutAssumption
    <3> HIDE DEF l
    <3>2. 1 + (w + (i - l) - 1) = w + (i - l)
      BY <3>1
    <3> QED
      BY <3>2 DEF r
  <2> QED
    BY <2>3, <2>6, <2>7
<1>5. Len(t) = a * FRAME_BYTES - (FRAME_BYTES - (w + n))
  BY <1>1, <1>3, OutAssumption
<1> HIDE DEF t, l
<1>6. ASSUME NEW i \in 1 .. Len(t) PROVE t[i] = ByteAt(i)
  <2>1. i \in 1 .. l \/ i \in l + 1 .. l + n
    BY <1>1
  <2>2. CASE i \in 1 .. l
    BY <1>2, <2>2 DEF l, InPlace
  <2>3. CASE i \in l + 1 .. l + n
    BY <1>4, <2>3
  <2> QED
    BY <2>1, <2>2, <2>3
<1> QED
  BY <1>5, <1>6 DEF t, InPlace

\* What leaves Sent alone and writes no byte keeps the invariant, when the place
\* of the next byte to be written does not go back.
LEMMA SameBytes ==
  ASSUME OutInv, OutTypeOK', Whole', Sent' = Sent,
         \/ accepted' = accepted /\ written <= written'
         \/ accepted' = accepted + 1
  PROVE  OutInv'
<1>1. Sent \in Seq(Nat \X Nat) /\ accepted \in Nat /\ written \in Int /\ written' \in Int
  <2>1. accepted \in Nat /\ written \in Int /\ written' \in Int
    BY OutAssumption DEF OutInv, OutTypeOK
  <2>2. port_out \in Seq(Nat \X Nat) /\ kqueue \in Seq(Nat \X Nat)
    BY DEF OutInv, OutTypeOK
  <2> QED
    BY <2>1, <2>2, BytesTogether DEF Sent
<1>2. \A i \in 1 .. Len(Sent) : Sent[i][1] \in Nat /\ Sent[i][2] \in Nat
  BY <1>1, BytesTogether
<1>3. UpTo(Sent, accepted', written')
  <2> SUFFICES ASSUME NEW i \in 1 .. Len(Sent)
               PROVE  Sent[i][1] < accepted' \/ (Sent[i][1] = accepted' /\ Sent[i][2] <= written')
    BY DEF UpTo
  <2>1. Sent[i][1] < accepted \/ (Sent[i][1] = accepted /\ Sent[i][2] <= written)
    BY DEF OutInv, UpTo
  <2>2. Sent[i][1] \in Nat /\ Sent[i][2] \in Nat
    BY <1>2
  <2> QED
    BY <1>1, <2>1, <2>2
<1>4. InOrder(Sent') /\ UpTo(Sent', accepted', written')
  BY <1>3 DEF OutInv
<1> QED
  BY <1>4, Zenon DEF OutInv, InOrder, UpTo, ByteBefore

\* A frame is taken when the last one is done with.
LEMMA FrameStep ==
  ASSUME OutInv, sub_ept_read
  PROVE  OutInv'
<1>1. /\ accepted' = accepted + 1 /\ written' = 0 /\ written = FRAME_BYTES
      /\ UNCHANGED <<kqueue, port_out, flushes, out_running>>
  BY DEF sub_ept_read, Written
<1>2. Sent' = Sent
  BY <1>1 DEF Sent
<1>3. OutTypeOK'
  BY <1>1, OutAssumption DEF OutInv, OutTypeOK, Written
<1>4. Done' = Done
  BY <1>1, OutAssumption DEF Done, Rest, OutInv, OutTypeOK
<1>5. Whole'
  BY <1>1, <1>2, <1>4 DEF OutInv, Whole, InPlace, ByteAt
<1> QED
  BY <1>1, <1>2, <1>3, <1>5, SameBytes

\* A piece is reported as written after a flush, which USB gadgets ignore.
LEMMA FlushStep ==
  ASSUME OutInv, ensure_outq_space
  PROVE  OutInv'
<1>1. /\ accepted' = accepted /\ written' = FRAME_BYTES /\ flushes' = flushes + 1
      /\ kqueue' \in {<<>>, kqueue} /\ port_out' = port_out
  BY DEF ensure_outq_space
<1>2. OutTypeOK'
  <2>1. kqueue' \in Seq(Nat \X Nat)
    <3>1. <<>> \in Seq(Nat \X Nat) /\ kqueue \in Seq(Nat \X Nat)
      BY DEF OutInv, OutTypeOK
    <3> QED
      BY <1>1, <3>1, Zenon
  <2>2. FRAME_BYTES \in 0 .. FRAME_BYTES /\ flushes + 1 \in Nat
    BY OutAssumption DEF OutInv, OutTypeOK
  <2> QED
    BY <1>1, <2>1, <2>2 DEF OutInv, OutTypeOK, Written
<1>3. flushes' # 0
  BY <1>1 DEF OutInv, OutTypeOK
<1>4. Whole'
  BY <1>3 DEF Whole
<1>5. written <= FRAME_BYTES /\ written \in Int /\ FRAME_BYTES \in Int
  BY OutAssumption DEF OutInv, OutTypeOK
<1>6. CASE kqueue' = kqueue
  BY <1>1, <1>2, <1>4, <1>5, <1>6, SameBytes DEF Sent
<1>7. CASE kqueue' = <<>>
  <2>1. Sent' = port_out
    BY <1>1, <1>7 DEF Sent, OutInv, OutTypeOK
  <2>2. /\ Len(port_out) \in Nat /\ Len(kqueue) \in Nat /\ Len(Sent) = Len(port_out) + Len(kqueue)
        /\ \A i \in 1 .. Len(port_out) : /\ Sent[i] = port_out[i]
                                         /\ port_out[i][1] \in Nat /\ port_out[i][2] \in Nat
    BY BytesTogether DEF Sent, OutInv, OutTypeOK
  <2>3. InOrder(port_out)
    <3> SUFFICES ASSUME NEW i \in 1 .. Len(port_out) - 1
                 PROVE  ByteBefore(port_out[i], port_out[i + 1])
      BY DEF InOrder
    <3>1. i \in 1 .. Len(port_out) /\ i + 1 \in 1 .. Len(port_out) /\ i \in 1 .. Len(Sent) - 1
      BY <2>2
    <3>2. ByteBefore(Sent[i], Sent[i + 1])
      BY <3>1 DEF OutInv, InOrder
    <3> QED
      BY <2>2, <3>1, <3>2
  <2>4. UpTo(port_out, accepted, FRAME_BYTES)
    <3> SUFFICES ASSUME NEW i \in 1 .. Len(port_out)
                 PROVE  \/ port_out[i][1] < accepted
                        \/ port_out[i][1] = accepted /\ port_out[i][2] <= FRAME_BYTES
      BY DEF UpTo
    <3>1. i \in 1 .. Len(Sent)
      BY <2>2
    <3>2. Sent[i][1] < accepted \/ (Sent[i][1] = accepted /\ Sent[i][2] <= written)
      BY <3>1 DEF OutInv, UpTo
    <3>3. Sent[i] = port_out[i] /\ port_out[i][2] \in Nat
      BY <2>2
    <3> QED
      BY <1>5, <3>2, <3>3
  <2>5. InOrder(Sent') /\ UpTo(Sent', accepted', written')
    BY <1>1, <2>1, <2>3, <2>4
  <2> QED
    BY <1>2, <1>4, <2>5, Zenon DEF OutInv, InOrder, UpTo, ByteBefore
<1> QED
  BY <1>1, <1>6, <1>7

\* The kernel takes a piece of the frame.
LEMMA WriteStep ==
  ASSUME OutInv, NEW n \in 1 .. FRAME_BYTES, fd_write(n)
  PROVE  OutInv'
<1>1. /\ n <= Rest /\ written # FRAME_BYTES
      /\ kqueue' = kqueue \o Bytes(written, n) /\ written' = written + n
      /\ UNCHANGED <<accepted, port_out, flushes, out_running>>
  BY DEF fd_write, Written
<1>2. /\ FRAME_BYTES \in Nat \ {0} /\ written \in Nat /\ written \in 0 .. FRAME_BYTES
      /\ accepted \in Nat \ {0} /\ n \in Nat \ {0}
  BY <1>1, OutAssumption DEF OutInv, OutTypeOK, Written
<1>3. n <= FRAME_BYTES - written
  BY <1>1, <1>2 DEF Rest
<1>4. PICK p \in ByteSeq :
        kqueue' = kqueue \o p /\ IsPiece(p, accepted, written, n)
  <2>1. Bytes(written, n) \in ByteSeq /\ IsPiece(Bytes(written, n), accepted, written, n)
    BY <1>2 DEF Bytes, ByteSeq, IsPiece
  <2> QED
    BY <1>1, <2>1, Zenon
<1>5. port_out \in ByteSeq /\ kqueue \in ByteSeq /\ Sent \in ByteSeq
  BY BytesTogether DEF Sent, OutInv, OutTypeOK, ByteSeq
<1>6. Sent' = Sent \o p /\ kqueue' \in Seq(Nat \X Nat)
  <2>1. port_out \o (kqueue \o p) = (port_out \o kqueue) \o p
    BY <1>5, AddToBoth, ZenonT(40)
  <2> QED
    BY <1>1, <1>4, <1>5, <2>1, BytesTogether, Zenon DEF Sent, ByteSeq
<1>7. OutTypeOK'
  BY <1>1, <1>2, <1>3, <1>5, <1>6 DEF OutTypeOK, OutInv, Written
<1>8. InOrder(Sent \o p) /\ UpTo(Sent \o p, accepted, written + n)
  BY <1>2, <1>4, <1>5, AddPiece, Zenon DEF OutInv, ByteSeq, IsPiece
<1>9. ASSUME flushes = 0 /\ out_running
      PROVE  Len(Sent') = Done' /\ InPlace(Sent')
  <2>1. Len(Sent) = accepted * FRAME_BYTES - (FRAME_BYTES - written) /\ InPlace(Sent)
    BY <1>9 DEF OutInv, Whole, Done, Rest
  <2>2. n \in 1 .. FRAME_BYTES - written
    BY <1>2, <1>3
  <2>3. /\ Len(Sent \o p) = accepted * FRAME_BYTES - (FRAME_BYTES - (written + n))
        /\ InPlace(Sent \o p)
    BY <1>2, <1>4, <1>5, <2>1, <2>2, PieceInPlace, Zenon
  <2>4. Done' = accepted * FRAME_BYTES - (FRAME_BYTES - (written + n))
    BY <1>1 DEF Done, Rest
  <2> QED
    BY <1>6, <2>3, <2>4
<1>10. Whole'
  BY <1>1, <1>9 DEF Whole, InPlace, ByteAt
<1>11. InOrder(Sent') /\ UpTo(Sent', accepted', written')
  BY <1>1, <1>6, <1>8
<1> QED
  BY <1>7, <1>10, <1>11, Zenon DEF OutInv, InOrder, UpTo, ByteBefore

\* A byte leaves the port, or the I/O loop is stopped.
LEMMA PortStep ==
  ASSUME OutInv, fd_write_fails \/ Transmit
  PROVE  OutInv'
<1>1. CASE fd_write_fails
  <2>1. out_running' = FALSE /\ UNCHANGED <<accepted, written, kqueue, port_out, flushes>>
    BY <1>1 DEF fd_write_fails
  <2>2. OutTypeOK' /\ Whole'
    BY <2>1 DEF OutInv, OutTypeOK, Whole, Written
  <2>3. written <= written'
    BY <2>1, OutAssumption DEF OutInv, OutTypeOK
  <2> QED
    BY <2>1, <2>2, <2>3, SameBytes DEF Sent
<1>2. CASE Transmit
  <2>1. /\ kqueue # <<>> /\ port_out' = Append(port_out, Head(kqueue)) /\ kqueue' = Tail(kqueue)
        /\ UNCHANGED <<accepted, written, flushes, out_running>>
    BY <1>2 DEF Transmit
  <2>2. port_out \in Seq(Nat \X Nat) /\ kqueue \in Seq(Nat \X Nat)
    BY DEF OutInv, OutTypeOK
  <2>3. /\ Append(port_out, Head(kqueue)) \in Seq(Nat \X Nat) /\ Tail(kqueue) \in Seq(Nat \X Nat)
        /\ Append(port_out, Head(kqueue)) \o Tail(kqueue) = port_out \o kqueue
    BY <2>1, <2>2, MoveOver, ZenonT(40)
  <2>4. Sent' = Sent
    BY <2>1, <2>3, Zenon DEF Sent
  <2>5. OutTypeOK'
    BY <2>1, <2>3 DEF OutInv, OutTypeOK, Written
  <2>6. Whole'
    BY <2>1, <2>4 DEF OutInv, Whole, Done, Rest, InPlace, ByteAt
  <2>7. written <= written'
    BY <2>1, OutAssumption DEF OutInv, OutTypeOK
  <2> QED
    BY <2>1, <2>4, <2>5, <2>6, <2>7, SameBytes
<1> QED
  BY <1>1, <1>2

\* The inductive invariant of the output path (sub_reader_cb, fd_write_all_via_framer
\* and ensure_outq_space of endpoint_adapter.c).
THEOREM OutInvariant == OutSpec => []OutInv
<1>1. OutInit => OutInv
  <2> SUFFICES ASSUME OutInit PROVE OutInv
    OBVIOUS
  <2>1. OutTypeOK /\ flushes = 0 /\ Rest = 0 /\ accepted = 0
    BY OutAssumption DEF OutInit, OutTypeOK, Written, Rest
  <2>2. Len(Sent) = 0
    BY DEF OutInit, Sent
  <2>3. Done = 0
    BY <2>1, OutAssumption DEF Done
  <2> QED
    BY <2>1, <2>2, <2>3 DEF OutInv, Whole, InPlace, InOrder, UpTo
<1>2. OutInv /\ [OutNext]_out_vars => OutInv'
  <2> SUFFICES ASSUME OutInv, [OutNext]_out_vars PROVE OutInv'
    OBVIOUS
  <2>1. CASE UNCHANGED out_vars
    BY <2>1, Zenon DEF out_vars, OutInv, OutTypeOK, Written, Whole, Done, Rest, Sent, InPlace, ByteAt,
                InOrder, UpTo, ByteBefore
  <2> QED
    BY <2>1, FrameStep, FlushStep, WriteStep, PortStep DEF OutNext, OutWrite
<1> QED
  BY <1>1, <1>2, PTL DEF OutSpec

\* Without a flush the port is sent the bytes of the accepted frames, in order
\* and complete up to the piece being written; with flushes none goes out twice
\* or out of order: for frames, limits and kernel queues of any size, and however
\* the kernel cuts the writes.
THEOREM BytesAreIntact == OutSpec => []StreamIsIntact
<1>1. OutInv => StreamIsIntact
  <2> SUFFICES ASSUME OutInv PROVE StreamIsIntact
    OBVIOUS
  <2>1. ASSUME flushes = 0 /\ out_running
        PROVE  Sent = [i \in 1 .. accepted * FRAME_BYTES - Rest |-> ByteAt(i)]
    <3>1. Len(Sent) = Done /\ \A i \in 1 .. Len(Sent) : Sent[i] = ByteAt(i)
      BY <2>1 DEF OutInv, Whole, InPlace
    <3>2. Sent \in Seq(Nat \X Nat)
      BY BytesTogether DEF Sent, OutInv, OutTypeOK
    <3>3. Sent = [i \in 1 .. Len(Sent) |-> Sent[i]]
      BY <3>2
    <3> QED
      BY <3>1, <3>3 DEF Done
  <2>2. \A i \in 1 .. Len(Sent) - 1 :
          \/ Sent[i][1] < Sent[i + 1][1]
          \/ Sent[i][1] = Sent[i + 1][1] /\ Sent[i][2] < Sent[i + 1][2]
    BY Zenon DEF OutInv, InOrder, ByteBefore
  <2> QED
    BY <2>1, <2>2, Zenon DEF StreamIsIntact, Sent, ByteAt
<1> QED
  BY <1>1, OutInvariant, PTL

==============================================================================
