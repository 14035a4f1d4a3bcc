----------------------------- MODULE RpmsgDriver -----------------------------
(***************************************************************************)
(* rpmsg_piksi, the kernel driver between the device's two processors      *)
(* (package/rpmsg_piksi): a character device for every rpmsg endpoint.     *)
(* User threads read and write the devices while the rpmsg bus, from its   *)
(* own thread, probes and removes the channel and delivers messages.       *)
(*                                                                         *)
(* A write holds tx_rpmsg_lock over all of its messages, which the bus     *)
(* waits for when it sets up or removes the endpoint.  ept_rpmsg_cb takes  *)
(* no lock: it is the only writer of the record FIFO.  A reader's look at  *)
(* the FIFO and its copy are one step (rx_fifo_lock); between finding it   *)
(* empty and going to sleep it is on the wait queue, where it can be       *)
(* woken.                                                                  *)
(***************************************************************************)
EXTENDS Integers, Sequences, FiniteSets

CONSTANTS NUM_ENDPOINTS, TX_BUFF_SIZE, MAX_BUF_SUBMIT, RX_FIFO_SIZE,
          RpReaders, RpWriters,      \* user threads
          RpDevice,                  \* the endpoint whose device a thread opens
          RpLengths,                 \* lengths of a user's write
          RpRecords,                 \* lengths of a message of the remote side
          MaxRpWrites,               \* writes of a behaviour, at most
          RpLoads                    \* who takes part, and how many writes, messages, channels, faults

ASSUME RpAssumption ==
  /\ NUM_ENDPOINTS \in Nat \ {0} /\ TX_BUFF_SIZE \in Nat /\ MAX_BUF_SUBMIT \in Nat
  /\ RpLengths \subseteq Nat /\ MaxRpWrites \in Nat /\ "nobody" \notin RpWriters
  /\ \A t \in RpReaders \cup RpWriters : RpDevice[t] \in 1..NUM_ENDPOINTS
  /\ \A l \in RpLoads : /\ DOMAIN l = {"threads", "writes", "records", "channels", "faults"}
                         /\ l.writes \in 0..MaxRpWrites

VARIABLES
  resources, opened,     \* what init has acquired; the threads with a device open
  probed, channel, bus,  \* the channel the remote side announced, and what the bus is doing
  rpmsg_ept, rpmsg_ready, tx_rpmsg_lock,  \* per endpoint
  rx_fifo, reads,        \* records; what the readers do
  writes, wire, wrote,   \* what the writers do; what the remote side was sent; what write() returned
  rp_left                \* what is left of the behaviour's load
rp_vars == <<resources, opened, probed, channel, bus, rpmsg_ept, rpmsg_ready, tx_rpmsg_lock, rx_fifo,
             reads, writes, wire, wrote, rp_left>>

Epts == 1..NUM_ENDPOINTS
Nobody == "nobody"
Pending == -2
BusIdle == [pc |-> "idle", i |-> 0]
NotWriting == [id |-> 0, len |-> 0, offset |-> 0]
\* What init acquires, in order: the device params, the class, the device
\* region, a character device for every endpoint, the driver's registration.
InitSteps == 1..NUM_ENDPOINTS + 4
Loaded == resources = InitSteps

RpInit ==
  /\ resources = {} /\ opened = {} /\ probed = FALSE
  /\ channel = "none" /\ bus = BusIdle
  /\ rpmsg_ept = [e \in Epts |-> FALSE] /\ rpmsg_ready = [e \in Epts |-> FALSE]
  /\ tx_rpmsg_lock = [e \in Epts |-> Nobody]
  /\ rx_fifo = [e \in Epts |-> <<>>] /\ reads = [r \in RpReaders |-> "idle"]
  /\ writes = [w \in RpWriters |-> NotWriting]
  /\ wire = [e \in Epts |-> <<>>] /\ wrote = [id \in 1..MaxRpWrites |-> Pending]
  /\ rp_left \in RpLoads

BusUnchanged == UNCHANGED <<resources, probed, channel, bus, rpmsg_ept, rpmsg_ready>>
ReadUnchanged == UNCHANGED <<opened, rx_fifo, reads>>
WriteUnchanged == UNCHANGED <<opened, tx_rpmsg_lock, writes, wire, wrote>>

\* A step that may fail: an allocation, a copy, no message buffer in time, a
\* signal that interrupts the wait for a lock.
Fault == /\ rp_left.faults > 0
         /\ rp_left' = [rp_left EXCEPT !.faults = @ - 1]

-----------------------------------------------------------------------------
(* The module and its devices.                                             *)

\* The labels error4 to error0 release what was acquired, in reverse order.
Unwound(failed) == {s \in InitSteps : s < failed}

init ==
  /\ resources = {}
  /\ \/ resources' = InitSteps /\ UNCHANGED rp_left
     \/ \E failed \in InitSteps : Fault /\ resources' = (1..failed - 1) \ Unwound(failed)
  /\ rx_fifo' = [e \in Epts |-> <<>>]
  /\ UNCHANGED <<opened, probed, channel, bus, rpmsg_ept, rpmsg_ready, tx_rpmsg_lock, reads,
                 writes, wire, wrote>>

\* rmmod waits for the open files to be released (.owner = THIS_MODULE) and
\* takes a bound channel from the driver (drv_remove) before the devices go.
fini ==
  /\ Loaded /\ opened = {} /\ bus = BusIdle
  /\ IF channel = "bound"
     THEN bus' = [pc |-> "unload", i |-> 1] /\ UNCHANGED <<resources, channel, probed>>
     ELSE /\ resources' = {} /\ bus' = bus
          /\ probed' = FALSE     \* static data goes with the module
          /\ channel' = IF channel = "none" THEN channel ELSE "new"
  /\ WriteUnchanged /\ UNCHANGED <<rx_fifo, reads, rpmsg_ept, rpmsg_ready, rp_left>>

ept_cdev_open(t) ==
  /\ Loaded /\ bus.pc # "unload" /\ t \in rp_left.threads \ opened /\ opened' = opened \cup {t}
  /\ BusUnchanged
  /\ UNCHANGED <<rx_fifo, reads, tx_rpmsg_lock, writes, wire, wrote, rp_left>>

ept_cdev_release(t) ==
  /\ t \in opened /\ (t \in RpReaders => reads[t] = "idle") /\ (t \in RpWriters => writes[t] = NotWriting)
  /\ opened' = opened \ {t}
  /\ BusUnchanged
  /\ UNCHANGED <<rx_fifo, reads, tx_rpmsg_lock, writes, wire, wrote, rp_left>>

-----------------------------------------------------------------------------
(* ept_cdev_write, one rpmsg message at a time.                            *)

Writing(w) == writes[w] # NotWriting

WriteReturns(w, n) ==
  /\ wrote' = [wrote EXCEPT ![writes[w].id] = n]
  /\ writes' = [writes EXCEPT ![w] = NotWriting]
  /\ tx_rpmsg_lock' = [tx_rpmsg_lock EXCEPT ![RpDevice[w]] = Nobody]

\* Data is dropped, and reported written, when rpmsg is not attached.  A write
\* that a signal interrupts before it has the lock changes nothing.
ept_cdev_write(w, len) ==
  /\ w \in opened /\ ~Writing(w) /\ tx_rpmsg_lock[RpDevice[w]] = Nobody
  /\ rp_left.writes > 0
  /\ rp_left' = [rp_left EXCEPT !.writes = @ - 1]
  /\ LET id == rp_left.writes IN
     IF rpmsg_ready[RpDevice[w]]
        THEN /\ writes' = [writes EXCEPT ![w] = [id |-> id, len |-> len, offset |-> 0]]
             /\ tx_rpmsg_lock' = [tx_rpmsg_lock EXCEPT ![RpDevice[w]] = w]
             /\ UNCHANGED wrote
        ELSE /\ wrote' = [wrote EXCEPT ![id] = len]
             /\ UNCHANGED <<writes, tx_rpmsg_lock>>
  /\ BusUnchanged /\ ReadUnchanged /\ UNCHANGED wire

ChunkSize(w) == IF writes[w].len <= TX_BUFF_SIZE THEN writes[w].len ELSE TX_BUFF_SIZE
MoreToSend(w) == writes[w].len > 0 /\ writes[w].offset + ChunkSize(w) <= MAX_BUF_SUBMIT

write_chunk(w) ==
  /\ Writing(w) /\ MoreToSend(w)
  /\ \/ /\ wire' = [wire EXCEPT ![RpDevice[w]] = Append(@,
                      [id |-> writes[w].id, off |-> writes[w].offset, size |-> ChunkSize(w),
                       attached |-> rpmsg_ept[RpDevice[w]]])]
        /\ writes' = [writes EXCEPT ![w] = [id |-> @.id, len |-> @.len - ChunkSize(w),
                                                 offset |-> @.offset + ChunkSize(w)]]
        /\ UNCHANGED <<wrote, tx_rpmsg_lock, rp_left>>
     \/ Fault /\ WriteReturns(w, -1) /\ UNCHANGED wire
  /\ BusUnchanged /\ ReadUnchanged

write_done(w) ==
  /\ Writing(w) /\ ~MoreToSend(w)
  /\ WriteReturns(w, writes[w].offset)
  /\ BusUnchanged /\ ReadUnchanged /\ UNCHANGED <<wire, rp_left>>

-----------------------------------------------------------------------------
(* ept_cdev_read.  ept_cdev_poll and ept_cdev_ioctl only look at the FIFO. *)

ReaderAt(r, pc) == reads' = [reads EXCEPT ![r] = pc]

\* The record at the head is copied, cut to the user's buffer, and removed.
\* A non-blocking read of an empty FIFO returns at once (EAGAIN).
ept_cdev_read(r) ==
  /\ r \in opened /\ reads[r] \in {"idle", "again"}
  /\ IF rx_fifo[RpDevice[r]] = <<>>
     THEN ReaderAt(r, "queued") /\ UNCHANGED rx_fifo
     ELSE ReaderAt(r, "idle") /\ rx_fifo' = [rx_fifo EXCEPT ![RpDevice[r]] = Tail(@)]
  /\ BusUnchanged /\ WriteUnchanged /\ UNCHANGED rp_left

\* wait_event_interruptible: on the wait queue, look once more, then sleep.
wait_event(r) ==
  /\ reads[r] = "queued"
  /\ ReaderAt(r, IF rx_fifo[RpDevice[r]] = <<>> THEN "asleep" ELSE "again")
  /\ BusUnchanged /\ WriteUnchanged /\ UNCHANGED <<rx_fifo, rp_left>>

\* A signal ends the read (ERESTARTSYS); so does EAGAIN.
read_interrupted(r) ==
  /\ reads[r] \in {"queued", "asleep", "again"} /\ ReaderAt(r, "idle")
  /\ BusUnchanged /\ WriteUnchanged /\ UNCHANGED <<rx_fifo, rp_left>>

\* A record takes its length and two bytes more of the FIFO.
FifoUsed(fifo) ==
  LET used[i \in 0 .. Len(fifo)] == IF i = 0 THEN 0 ELSE used[i - 1] + 2 + fifo[i]
  IN  used[Len(fifo)]

\* Mutant: a record is stored and nobody is woken.
ept_rpmsg_cb_quiet(e, len) ==
  /\ rpmsg_ept[e] /\ rp_left.records > 0
  /\ rp_left' = [rp_left EXCEPT !.records = @ - 1]
  /\ IF len = 0 \/ FifoUsed(rx_fifo[e]) + len + 2 > RX_FIFO_SIZE
     THEN UNCHANGED <<rx_fifo, reads>>
     ELSE rx_fifo' = [rx_fifo EXCEPT ![e] = Append(@, len)] /\ UNCHANGED reads
  /\ BusUnchanged /\ WriteUnchanged

\* The remote side's message: an empty one is dropped, so is one that does not
\* fit; every reader on the wait queue is woken by one that was stored.
ept_rpmsg_cb(e, len) ==
  /\ rpmsg_ept[e] /\ rp_left.records > 0
  /\ rp_left' = [rp_left EXCEPT !.records = @ - 1]
  /\ IF len = 0 \/ FifoUsed(rx_fifo[e]) + len + 2 > RX_FIFO_SIZE
     THEN UNCHANGED <<rx_fifo, reads>>
     ELSE /\ rx_fifo' = [rx_fifo EXCEPT ![e] = Append(@, len)]
          /\ reads' = [r \in RpReaders |->
                         IF RpDevice[r] = e /\ reads[r] \in {"queued", "asleep"} THEN "again" ELSE reads[r]]
  /\ BusUnchanged /\ WriteUnchanged

-----------------------------------------------------------------------------
(* The rpmsg bus: the remote side announces its channel, the driver core   *)
(* probes the driver with it, and takes it away when it has gone.          *)

announce ==
  /\ channel = "none" /\ rp_left.channels > 0
  /\ channel' = "new" /\ rp_left' = [rp_left EXCEPT !.channels = @ - 1]
  /\ WriteUnchanged
  /\ UNCHANGED <<resources, probed, bus, rpmsg_ept, rpmsg_ready, rx_fifo, reads>>

drv_probe ==
  /\ Loaded /\ channel = "new" /\ bus = BusIdle
  /\ IF probed
     THEN channel' = "refused" /\ UNCHANGED <<probed, bus>>
     ELSE probed' = TRUE /\ bus' = [pc |-> "setup", i |-> 1] /\ UNCHANGED channel
  /\ WriteUnchanged /\ UNCHANGED <<resources, rpmsg_ept, rpmsg_ready, rx_fifo, reads, rp_left>>

\* The endpoint is created and made ready under tx_rpmsg_lock; when that fails
\* the endpoints before it are removed.  After the last one the driver sends
\* its startup message and the channel is bound.
ept_rpmsg_setup(e) ==
  /\ bus = [pc |-> "setup", i |-> e]
  /\ \/ /\ tx_rpmsg_lock[e] = Nobody
        /\ rpmsg_ept' = [rpmsg_ept EXCEPT ![e] = TRUE]
        /\ rpmsg_ready' = [rpmsg_ready EXCEPT ![e] = TRUE]
        /\ bus' = IF e < NUM_ENDPOINTS THEN [bus EXCEPT !.i = e + 1] ELSE BusIdle
        /\ channel' = IF e < NUM_ENDPOINTS THEN channel ELSE "bound"
        /\ UNCHANGED rp_left
     \/ /\ Fault
        /\ bus' = IF e = 1 THEN BusIdle ELSE [pc |-> "undo", i |-> e - 1]
        /\ channel' = IF e = 1 THEN "failed" ELSE channel
        /\ UNCHANGED <<rpmsg_ept, rpmsg_ready>>
  /\ WriteUnchanged /\ UNCHANGED <<resources, probed, rx_fifo, reads>>

\* Mutant: the endpoint is destroyed without waiting for a write to finish.
ept_rpmsg_remove_unlocked(e) ==
  /\ rpmsg_ready' = [rpmsg_ready EXCEPT ![e] = FALSE]
  /\ rpmsg_ept' = [rpmsg_ept EXCEPT ![e] = FALSE]

\* The lock is waited for whatever signals come.
ept_rpmsg_remove(e) ==
  /\ tx_rpmsg_lock[e] = Nobody
  /\ rpmsg_ready' = [rpmsg_ready EXCEPT ![e] = FALSE]
  /\ rpmsg_ept' = [rpmsg_ept EXCEPT ![e] = FALSE]

probe_undo(e) ==
  /\ bus = [pc |-> "undo", i |-> e]
  /\ ept_rpmsg_remove(e)
  /\ bus' = IF e = 1 THEN BusIdle ELSE [bus EXCEPT !.i = e - 1]
  /\ channel' = IF e = 1 THEN "failed" ELSE channel
  /\ WriteUnchanged /\ UNCHANGED <<resources, probed, rx_fifo, reads, rp_left>>

\* The remote side restarts: its channel goes, bound to the driver or not.
channel_gone ==
  /\ channel # "none" /\ bus = BusIdle
  /\ IF channel = "bound"
     THEN bus' = [pc |-> "remove", i |-> 1] /\ UNCHANGED channel
     ELSE channel' = "none" /\ UNCHANGED bus
  /\ WriteUnchanged /\ UNCHANGED <<resources, probed, rpmsg_ept, rpmsg_ready, rx_fifo, reads, rp_left>>

drv_remove(e) ==
  /\ bus.pc \in {"remove", "unload"} /\ bus.i = e
  /\ ept_rpmsg_remove(e)
  /\ IF e < NUM_ENDPOINTS
     THEN bus' = [bus EXCEPT !.i = e + 1] /\ UNCHANGED <<resources, probed, channel>>
     ELSE /\ bus' = BusIdle /\ probed' = FALSE
          /\ channel' = IF bus.pc = "unload" THEN "new" ELSE "none"
          /\ resources' = IF bus.pc = "unload" THEN {} ELSE resources
  /\ WriteUnchanged /\ UNCHANGED <<rx_fifo, reads, rp_left>>

ept_cdev_write_steps(w) == write_chunk(w) \/ write_done(w)
ept_cdev_read_steps(r) == (reads[r] = "again" /\ ept_cdev_read(r)) \/ wait_event(r)

RpNext ==
  \/ init \/ fini \/ announce \/ drv_probe \/ channel_gone
  \/ \E t \in RpReaders \cup RpWriters : ept_cdev_open(t) \/ ept_cdev_release(t)
  \/ \E w \in RpWriters : ept_cdev_write_steps(w) \/ \E len \in RpLengths : ept_cdev_write(w, len)
  \/ \E r \in RpReaders : ept_cdev_read(r) \/ wait_event(r) \/ read_interrupted(r)
  \/ \E e \in Epts : \/ ept_rpmsg_setup(e) \/ probe_undo(e) \/ drv_remove(e)
                     \/ \E len \in RpRecords : ept_rpmsg_cb(e, len)

RpSpec == RpInit /\ [][RpNext]_rp_vars

-----------------------------------------------------------------------------
(* Properties                                                              *)

\* What ept_cdev_write puts on the wire: the messages of one write follow each
\* other without those of another, from its first byte on without a gap, each
\* of them to an endpoint that still exists, though the bus may be removing
\* the endpoints meanwhile; and write() returns the number of bytes that were
\* sent, unless it failed or, with nothing attached, dropped all of them.
WritesAreWhole ==
  \A e \in Epts : \A i \in 1..Len(wire[e]) :
    LET c == wire[e][i] IN
    /\ c.attached
    /\ \/ c.off = 0 /\ \A j \in 1..i - 1 : wire[e][j].id # c.id
       \/ i > 1 /\ wire[e][i - 1].id = c.id /\ c.off = wire[e][i - 1].off + wire[e][i - 1].size
    /\ wrote[c.id] >= 0 /\ (\A j \in i + 1..Len(wire[e]) : wire[e][j].id # c.id)
         => wrote[c.id] = c.off + c.size

\* A reader that sleeps in ept_cdev_read is not left there while a record is
\* in its FIFO: the callback's wake-up, or the reader's own second look, gets
\* it out of wait_event_interruptible, whatever other readers take meanwhile.
BlockedReaderIsServed ==
  \A r \in RpReaders : (reads[r] = "asleep" /\ rx_fifo[RpDevice[r]] # <<>>)
                         ~> (reads[r] = "idle" \/ rx_fifo[RpDevice[r]] = <<>>)
=============================================================================
