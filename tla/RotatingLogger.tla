--------------------------- MODULE RotatingLogger ---------------------------
(***************************************************************************)
(* standalone_file_logger: the event loop of the daemon, which receives    *)
(* frames and setting changes (standalone_file_logger.cc), and the thread  *)
(* of RotatingLogger, which writes the frames to files named by session    *)
(* and minute (rotating_logger.cc).                                        *)
(*                                                                         *)
(* A frame is a number and a size.  A clock tick is a minute.  A file is   *)
(* in a volume that is mounted at a directory and that may be pulled out   *)
(* or replaced.  What is written reaches the volume when the file is       *)
(* closed, if its descriptor still works.                                  *)
(***************************************************************************)
EXTENDS Integers, Sequences, FiniteSets, FiniteSetsExt

CONSTANTS
  Dirs, Volumes,
  InitialMounts,   \* the volumes in the directories at start: a set of functions
  InitialNames,    \* the names on each volume at start: a set of functions
  Sizes,           \* frame sizes
  Slices,          \* values of the setting file_duration
  POLL_PERIOD, MAX_QUEUE_SIZE, NEW_FILE_PAD_SIZE,
  MAX_SESSION,     \* 9999
  MAX_MINUTE,      \* 99999
  MaxFrames, MaxTime,  \* bounds: frames received, clock
  MaxEvents        \* bound: changes of settings and of volumes, disconnects

ASSUME LoggerAssumption ==
  /\ Sizes \subseteq Nat \ {0} /\ Slices \subseteq Nat \ {0}
  /\ POLL_PERIOD \in Nat /\ MAX_QUEUE_SIZE \in Nat /\ NEW_FILE_PAD_SIZE \in Nat
  /\ MAX_SESSION \in Nat /\ MAX_MINUTE \in Nat
  /\ (\E m \in Sizes : \A z \in Sizes : z <= m) /\ "none" \notin Volumes
  /\ InitialMounts \subseteq [Dirs -> Volumes \cup {"none"}]
  /\ InitialNames \subseteq [Volumes -> SUBSET (Nat \X Nat)]

VARIABLES
  \* The event loop.
  mpc,            \* "idle", "push", "assign", "join" or "exited"
  mframe,         \* the frame in hand
  new_dir,        \* the directory being assigned
  logger,         \* logger # nullptr
  connected,      \* the endpoint is open and in the loop
  reclose,        \* force_new_fd was closed and is to be closed again
  terminating,
  fs_type_prev,   \* logging_fs_type_prev, "none" when not set
  warned,         \* the last logging_filesystem_notify issued the warning
  \* Shared by the two threads.
  queue, queue_bytes, out_dir, slice_duration,
  \* The logger thread.
  lpc, lframe, ret, periods, dest_available, session_count, minute_count,
  session_start_time, cur_file, bytes_written,
  \* The clock and the volumes.
  now, mounted, names,
  \* History: bounds, and what the properties speak about.
  received, events,
  last_written,   \* the last frame for which fwrite succeeded
  scanned,        \* the volume session_count was taken from
  failed_at,      \* when a write failed, until a new session is tried
  torn            \* slice_duration changed between two reads of the logger

mainVars == <<mpc, mframe, new_dir, logger, connected, reclose, terminating>>
fsVars == <<fs_type_prev, warned>>
sharedVars == <<queue, queue_bytes, out_dir, slice_duration>>
sessionVars == <<dest_available, session_count, minute_count, session_start_time>>
fileVars == <<cur_file, bytes_written>>
worldVars == <<now, mounted, names>>
boundVars == <<received, events>>
histVars == <<last_written, scanned, failed_at>>
rollVars == <<periods, torn>>
threadVars == <<lpc, lframe, ret, rollVars, sessionVars, fileVars, histVars>>
vars == <<mainVars, fsVars, sharedVars, threadVars, worldVars, boundVars>>

None == "none"
Epoch == -1                      \* session_start_time before the first session
NullFrame == [id |-> 0, size |-> 0]
NoFile == [vol |-> None, name |-> <<0, 0>>, data |-> 0, works |-> FALSE, fd |-> None]

Init ==
  /\ mpc = "idle" /\ mframe = NullFrame /\ new_dir = None /\ logger = FALSE /\ connected = TRUE
  /\ reclose = FALSE /\ terminating = FALSE
  /\ fs_type_prev = None /\ warned = FALSE
  /\ queue = <<>> /\ queue_bytes = 0
  /\ out_dir = None /\ slice_duration = 0
  /\ lpc = "off" /\ lframe = NullFrame /\ ret = "slice" /\ periods = 0
  /\ dest_available = FALSE /\ session_count = 0 /\ minute_count = 0
  /\ session_start_time = Epoch /\ cur_file = NoFile /\ bytes_written = 0
  /\ now = 0
  /\ mounted \in InitialMounts
  /\ names \in InitialNames
  /\ received = 0 /\ events = 0
  /\ last_written = 0 /\ scanned = None
  /\ failed_at = Epoch /\ torn = FALSE

-----------------------------------------------------------------------------
(***************************************************************************)
(* RotatingLogger, in its own thread.                                      *)
(***************************************************************************)

\* frame_ptr is freed when the loop goes round.
FreeFrame == lframe' = IF lpc' = "wait" THEN NullFrame ELSE lframe

\* get_time_passed
TimePassed == now - session_start_time

\* _out_dir is read without a lock: in the middle of an assignment the reader
\* may see the old string, the new one or a path that does not exist.
DirRead == IF mpc = "assign" THEN {out_dir, new_dir, None} ELSE {out_dir}

VolumeAt(d) == IF d \in Dirs THEN mounted[d] ELSE None

\* close_current_file: the file is cut to bytes_written, or keeps its padding,
\* before the data still in the buffer is flushed; without a file nothing is
\* reset.  Then the caller adds to bytes_written.
ClosedLength ==
  Max({IF bytes_written < NEW_FILE_PAD_SIZE THEN bytes_written ELSE NEW_FILE_PAD_SIZE,
       cur_file.data})

\* Mutant: bytes_written goes on counting in the next file.
close_keeps_count(increment) ==
  /\ cur_file' = NoFile
  /\ bytes_written' = increment + bytes_written

close_current_file(increment) ==
  /\ cur_file' = NoFile
  /\ bytes_written' = increment + IF cur_file = NoFile THEN bytes_written ELSE 0

\* get_frame, under the mutex; a null frame ends process_frame.
get_frame ==
  /\ lpc = "wait" /\ queue # <<>>
  /\ lframe' = Head(queue) /\ queue' = Tail(queue)
  /\ queue_bytes' = queue_bytes - Head(queue).size
  /\ lpc' = IF Head(queue) = NullFrame THEN "done" ELSE "valid"
  /\ UNCHANGED <<rollVars, mainVars, fsVars, out_dir, slice_duration, ret, sessionVars,
                 fileVars, histVars, worldVars, boundVars>>

\* ensure_session_valid: without a destination the frame is dropped, but for
\* one attempt per poll period.
ensure_session_valid ==
  /\ lpc = "valid"
  /\ \/ dest_available /\ lpc' = "slice" /\ UNCHANGED session_start_time
     \/ /\ ~dest_available /\ session_start_time # Epoch /\ TimePassed < POLL_PERIOD
        /\ lpc' = "wait" /\ UNCHANGED session_start_time
     \/ /\ ~dest_available
        /\ session_start_time = Epoch \/ TimePassed >= POLL_PERIOD
        /\ lpc' = "session" /\ session_start_time' = now
  /\ FreeFrame
  /\ UNCHANGED <<rollVars, mainVars, fsVars, sharedVars, ret, dest_available,
                 session_count, minute_count, fileVars, histVars, worldVars, boundVars>>

\* The sessions of the files in a volume, as far as they are counted.
Sessions(v) == {n[1] : n \in names[v]} \cap (0 .. (MAX_SESSION - 1))

\* start_new_session: the session after the last one found in the directory.
start_new_session ==
  /\ lpc = "session"
  /\ \E d \in DirRead :
       IF VolumeAt(d) = None
       THEN /\ lpc' = "wait"
            /\ UNCHANGED <<ret, session_count, minute_count, session_start_time,
                           scanned>>
       ELSE /\ session_count' = Max(Sessions(VolumeAt(d)) \cup {0}) + 1
            /\ minute_count' = 0 /\ session_start_time' = now
            /\ scanned' = VolumeAt(d)
            /\ lpc' = "open" /\ ret' = "slice"
  /\ FreeFrame /\ failed_at' = Epoch
  /\ UNCHANGED <<rollVars, mainVars, fsVars, sharedVars, dest_available, fileVars,
                 last_written, worldVars, boundVars>>

\* open_new_file up to the name: the current file is closed, and nothing is
\* opened on a full disk.  The new minute may be beyond the format.
open_new_file ==
  /\ lpc = "open"
  /\ IF session_count >= MAX_SESSION
     THEN lpc' = "wait" /\ UNCHANGED <<fileVars, session_count, minute_count>>
     ELSE /\ close_current_file(0)
          /\ \/ /\ lpc' = "wait"
                /\ UNCHANGED <<session_count, minute_count>>
             \/ /\ lpc' = "create"
                /\ minute_count' = IF minute_count > MAX_MINUTE THEN 0 ELSE minute_count
                /\ session_count' = IF minute_count > MAX_MINUTE
                                    THEN session_count + 1 ELSE session_count
  /\ FreeFrame /\ ret' = IF lpc' = "wait" THEN "slice" ELSE ret
  /\ UNCHANGED <<rollVars, mainVars, fsVars, sharedVars, dest_available,
                 session_start_time, last_written, scanned, failed_at, worldVars, boundVars>>

\* open_new_file: open with O_CREAT, and pad_new_file.  The new descriptor may
\* be the one the event loop has closed once and will close again.
create_file ==
  /\ lpc = "create"
  /\ \/ /\ \E d \in DirRead \cap Dirs, again \in {FALSE, reclose} :
             /\ mounted[d] # None
             /\ cur_file' = [vol |-> mounted[d], name |-> <<session_count, minute_count>>,
                             data |-> 0, works |-> TRUE,
                             fd |-> IF again THEN "force_new_fd" ELSE "own"]
             /\ names' = [names EXCEPT ![mounted[d]] =
                            @ \cup {<<session_count, minute_count>>}]
        /\ dest_available' = TRUE /\ lpc' = ret
     \/ /\ dest_available' = FALSE /\ lpc' = "wait" /\ UNCHANGED <<cur_file, names>>
  /\ FreeFrame /\ ret' = "slice"
  /\ UNCHANGED <<rollVars, mainVars, fsVars, sharedVars, session_count, minute_count,
                 session_start_time, bytes_written, histVars, now, mounted,
                 boundVars>>

\* check_slice_time reads slice_duration to count the periods that passed ...
\* A negative number of minutes becomes 0 as a size_t on this processor.
check_slice_time ==
  /\ lpc = "slice"
  /\ periods' = Max({0, (TimePassed - minute_count) \div slice_duration})
  /\ lpc' = IF periods' = 0 THEN "write" ELSE "roll"
  /\ UNCHANGED <<mainVars, fsVars, sharedVars, lframe, ret, sessionVars, fileVars,
                 torn, histVars, worldVars, boundVars>>

\* ... and reads it again to move on by that many; slices without data are
\* left out.
roll_over ==
  /\ lpc = "roll"
  /\ minute_count' = minute_count + slice_duration * periods
  /\ periods' = 0 /\ lpc' = "open" /\ ret' = "write"
  /\ UNCHANGED <<mainVars, fsVars, sharedVars, lframe, dest_available, session_count,
                 session_start_time, fileVars, torn, histVars, worldVars, boundVars>>

\* Mutant: the poll period does not start again when a write fails.
process_frame_no_pause ==
  /\ lpc = "write"
  /\ \/ /\ cur_file # NoFile
        /\ cur_file' = [cur_file EXCEPT !.data = @ + lframe.size]
        /\ bytes_written' = bytes_written + lframe.size
        /\ last_written' = lframe.id
        /\ UNCHANGED <<dest_available, session_start_time, failed_at>>
     \/ /\ close_current_file(lframe.size)
        /\ dest_available' = FALSE
        /\ failed_at' = now
        /\ UNCHANGED <<last_written, session_start_time>>
  /\ lpc' = "wait"
  /\ FreeFrame
  /\ UNCHANGED <<rollVars, mainVars, fsVars, sharedVars, ret, session_count, minute_count,
                 scanned, worldVars, boundVars>>

\* The rest of process_frame.  fwrite fails without a file and may fail with
\* one; a frame that failed is counted after the close.
process_frame ==
  /\ lpc = "write"
  /\ \/ /\ cur_file # NoFile
        /\ cur_file' = [cur_file EXCEPT !.data = @ + lframe.size]
        /\ bytes_written' = bytes_written + lframe.size
        /\ last_written' = lframe.id
        /\ UNCHANGED <<dest_available, session_start_time, failed_at>>
     \/ /\ close_current_file(lframe.size)
        /\ dest_available' = FALSE
        /\ session_start_time' = now
        /\ failed_at' = now
        /\ UNCHANGED last_written
  /\ lpc' = "wait"
  /\ FreeFrame
  /\ UNCHANGED <<rollVars, mainVars, fsVars, sharedVars, ret, session_count, minute_count,
                 scanned, worldVars, boundVars>>

LoggerThread ==
  \/ get_frame \/ ensure_session_valid \/ start_new_session \/ open_new_file
  \/ create_file \/ check_slice_time \/ roll_over \/ process_frame

-----------------------------------------------------------------------------
(***************************************************************************)
(* The event loop.                                                         *)
(***************************************************************************)

\* log_frame_callback and the test of frame_handler, outside the mutex.
frame_handler ==
  /\ mpc = "idle" /\ connected /\ received < MaxFrames
  /\ received' = received + 1
  /\ \E size \in Sizes :
       IF logger /\ queue_bytes + size <= MAX_QUEUE_SIZE
       THEN mpc' = "push" /\ mframe' = [id |-> received + 1, size |-> size]
       ELSE UNCHANGED <<mpc, mframe>>
  /\ UNCHANGED <<new_dir, logger, connected, reclose, terminating, fsVars, sharedVars,
                 threadVars, worldVars, events>>

\* The rest of frame_handler, under the mutex.
push_frame ==
  /\ mpc = "push"
  /\ queue' = Append(queue, mframe) /\ queue_bytes' = queue_bytes + mframe.size
  /\ mpc' = "idle" /\ mframe' = NullFrame
  /\ UNCHANGED <<new_dir, logger, connected, reclose, terminating, fsVars, out_dir,
                 slice_duration, threadVars, worldVars, boundVars>>

\* setting_usb_logging_notify with logging enabled and no logger.
create_logger ==
  /\ mpc = "idle" /\ ~reclose /\ ~logger /\ events < MaxEvents
  /\ logger' = TRUE /\ events' = events + 1
  /\ \E d \in Dirs, s \in Slices : out_dir' = d /\ slice_duration' = s
  /\ queue' = <<>> /\ queue_bytes' = 0
  /\ lpc' = "wait" /\ dest_available' = FALSE /\ session_count' = 0
  /\ minute_count' = 0 /\ session_start_time' = Epoch
  /\ cur_file' = NoFile /\ bytes_written' = 0 /\ failed_at' = Epoch
  /\ UNCHANGED <<rollVars, mpc, mframe, new_dir, connected, reclose, terminating, fsVars, lframe, ret,
                 last_written, scanned, worldVars, received>>

\* setting_usb_logging_notify with a logger: update_dir begins to assign the
\* string, which the thread may be reading.
update_dir ==
  /\ mpc = "idle" /\ ~reclose /\ logger /\ events < MaxEvents
  /\ events' = events + 1
  /\ mpc' = "assign" /\ new_dir' \in Dirs
  /\ UNCHANGED <<mframe, logger, connected, reclose, terminating, fsVars, sharedVars,
                 threadVars, worldVars, received>>

\* update_dir ends, then update_fill_threshold and update_slice_duration.
update_slice_duration ==
  /\ mpc = "assign"
  /\ out_dir' = new_dir /\ slice_duration' \in Slices
  /\ torn' = (torn \/ (lpc = "roll" /\ slice_duration' # slice_duration))
  /\ mpc' = "idle" /\ new_dir' = None
  /\ UNCHANGED <<mframe, logger, connected, reclose, terminating, fsVars, queue,
                 queue_bytes, lpc, lframe, ret, periods, sessionVars, fileVars, 
                 histVars, worldVars, boundVars>>

\* Mutant: the null frame is only queued behind other frames.
stop_thread_silent ==
  /\ mpc = "idle" /\ ~reclose
  /\ \/ logger /\ terminating' \in BOOLEAN
     \/ ~logger /\ terminating' = TRUE
  /\ IF logger
     THEN mpc' = "join" /\ queue' = IF queue = <<>> THEN queue ELSE Append(queue, NullFrame)
     ELSE mpc' = "exited" /\ UNCHANGED queue
  /\ UNCHANGED <<mframe, new_dir, logger, connected, reclose, fsVars, queue_bytes, out_dir,
                 slice_duration, threadVars, worldVars, boundVars>>

\* stop_logging, for the setting or for a signal: stop_thread queues a null
\* frame and joins.
stop_thread ==
  /\ mpc = "idle" /\ ~reclose
  /\ \/ logger /\ terminating' \in BOOLEAN
     \/ ~logger /\ terminating' = TRUE
  /\ IF logger
     THEN mpc' = "join" /\ queue' = Append(queue, NullFrame)
     ELSE mpc' = "exited" /\ UNCHANGED queue
  /\ UNCHANGED <<mframe, new_dir, logger, connected, reclose, fsVars, queue_bytes, out_dir,
                 slice_duration, threadVars, worldVars, boundVars>>

\* The join returns and the destructor closes the file.
delete_logger ==
  /\ mpc = "join" /\ lpc = "done"
  /\ lpc' = "off" /\ logger' = FALSE
  /\ close_current_file(0)
  /\ mpc' = IF terminating THEN "exited" ELSE "idle"
  /\ UNCHANGED <<rollVars, mframe, new_dir, connected, reclose, terminating, fsVars, sharedVars, lframe,
                 ret, sessionVars, histVars, worldVars, boundVars>>

\* reconnect_loop_callback.  Either step of getting a new endpoint may fail,
\* and the loop is then without one.  Otherwise force_new_fd is closed once
\* here and, after the frames that wait, once more.
reconnect_loop_callback ==
  /\ mpc = "idle" /\ ~reclose /\ connected /\ events < MaxEvents
  /\ events' = events + 1
  /\ connected' \in BOOLEAN /\ reclose' = connected'
  /\ UNCHANGED <<mpc, mframe, new_dir, logger, terminating, fsVars, sharedVars, threadVars,
                 worldVars, received>>

close_again ==
  /\ mpc = "idle" /\ reclose
  /\ reclose' = FALSE
  /\ cur_file' = [cur_file EXCEPT !.works = @ /\ cur_file.fd # "force_new_fd"]
  /\ UNCHANGED <<rollVars, mpc, mframe, new_dir, logger, connected, terminating, fsVars, sharedVars, lpc,
                 lframe, ret, sessionVars, bytes_written, histVars, worldVars,
                 boundVars>>

FileSystems == {"FAT", "F2FS", "NTFS"}

\* The cases of the switch in logging_filesystem_notify that warn.
Migrations ==
  {<<None, "F2FS">>, <<None, "NTFS">>, <<"FAT", "NTFS">>, <<"FAT", "F2FS">>,
   <<"F2FS", "NTFS">>, <<"NTFS", "F2FS">>}

FSTT_NO_DIFFERENCE == <<"same", "same">>
FSTT_UNKNOWN == <<"unknown", "unknown">>

\* classify_fs_transition: a transition is the pair it is named after.  The
\* test for none to FAT compares with NTFS, and that transition is unknown.
classify_fs_transition(prev, type) ==
  IF prev = type THEN FSTT_NO_DIFFERENCE
  ELSE IF <<prev, type>> \in {<<None, "F2FS">>, <<None, "NTFS">>,
                              <<"FAT", "F2FS">>, <<"FAT", "NTFS">>, <<"F2FS", "NTFS">>,
                              <<"NTFS", "F2FS">>, <<"NTFS", "FAT">>, <<"F2FS", "FAT">>}
       THEN <<prev, type>> ELSE FSTT_UNKNOWN

logging_filesystem_notify ==
  /\ mpc = "idle" /\ ~reclose /\ events < MaxEvents
  /\ events' = events + 1
  /\ \E type \in FileSystems :
       /\ warned' = (classify_fs_transition(fs_type_prev, type) \in Migrations)
       /\ fs_type_prev' = type
  /\ UNCHANGED <<mainVars, sharedVars, threadVars, worldVars, received>>

-----------------------------------------------------------------------------
(* The world.                                                              *)

Tick ==
  /\ now < MaxTime /\ mpc # "exited"
  /\ now' = now + 1
  /\ UNCHANGED <<mainVars, fsVars, sharedVars, threadVars, mounted, names, boundVars>>

\* A volume is pulled out, put in or replaced.
Swap ==
  /\ events < MaxEvents /\ mpc # "exited"
  /\ events' = events + 1
  /\ \E d \in Dirs, v \in Volumes \cup {None} :
       /\ v # mounted[d]
       /\ v # None => \A e \in Dirs : mounted[e] # v
       /\ mounted' = [mounted EXCEPT ![d] = v]
       /\ cur_file' = [cur_file EXCEPT !.works = @ /\ cur_file.vol # mounted[d]]
  /\ UNCHANGED <<rollVars, mainVars, fsVars, sharedVars, lpc, lframe, ret, sessionVars,
                 bytes_written, histVars, now, names, received>>

Next ==
  \/ get_frame \/ ensure_session_valid \/ start_new_session \/ open_new_file
  \/ create_file \/ check_slice_time \/ roll_over \/ process_frame
  \/ frame_handler \/ push_frame \/ create_logger \/ update_dir
  \/ update_slice_duration \/ stop_thread \/ delete_logger
  \/ reconnect_loop_callback \/ close_again \/ logging_filesystem_notify
  \/ Tick \/ Swap

Spec == Init /\ [][Next]_vars

\* The steps with which the event loop goes on in a handler it has begun.
LoopThread == push_frame \/ update_slice_duration \/ delete_logger

\* The kernel schedules both threads.
FairSpec == Spec /\ WF_vars(LoggerThread) /\ WF_vars(LoopThread)

-----------------------------------------------------------------------------
(***************************************************************************)
(* Properties.                                                             *)
(***************************************************************************)

\* The bytes of the frames in a queue.
BytesOf(q) ==
  LET upto[i \in 0 .. Len(q)] == IF i = 0 THEN 0 ELSE upto[i - 1] + q[i].size
  IN  upto[Len(q)]

\* The bytes that frame_handler compares with MAX_QUEUE_SIZE are the bytes in
\* the queue, and the queue keeps to its limit although the comparison is
\* made before the mutex is taken.
QueueIsCounted ==
  /\ queue_bytes = BytesOf(queue)
  /\ queue_bytes <= MAX_QUEUE_SIZE

\* Frames are written in the order they came, and none twice.
FramesInOrder == [][cur_file'.data > cur_file.data => last_written' > last_written]_vars

\* When the destructor's join returns, the thread has taken every frame that
\* was accepted before.
StopDrains == lpc = "done" => queue = <<>>

\* check_slice_time converts the minutes since the file began to size_t; they
\* are not negative unless file_duration was changed between its two reads.
MinutesNotNegative == (lpc = "slice" /\ ~torn) => TimePassed >= minute_count

Earlier(a, b) == a[1] < b[1] \/ (a[1] = b[1] /\ a[2] < b[2])

\* A new log comes after all logs of the volume its session number was taken
\* from, so that none is overwritten and their names sort by age.
NewLogIsLast ==
  [][(cur_file = NoFile /\ cur_file' # NoFile /\ cur_file'.vol = scanned) =>
       \A n \in names[scanned] :
         n[1] >= MAX_SESSION \/ Earlier(n, cur_file'.name)]_vars

\* The truncation of close_current_file leaves at most the length of one frame
\* after the data: that of the frame whose write failed before.
PaddingIsRemoved ==
  [][(cur_file # NoFile /\ cur_file' = NoFile) =>
       ClosedLength - cur_file.data <= Max(Sizes)]_vars

\* After a failed write a drive is left alone for the poll period, "to avoid
\* locking mount".
DriveIsLeftAlone ==
  [][(lpc = "session" /\ lpc' # "session" /\ failed_at # Epoch) =>
       now - failed_at >= POLL_PERIOD]_vars

\* The warning that the medium will be erased is given exactly when the file
\* system becomes F2FS or NTFS and was not that before.
MigrationIsWarned ==
  [][fs_type_prev' # fs_type_prev => (warned' <=> fs_type_prev' # "FAT")]_vars

\* Stopping the logger, which blocks the event loop, comes to an end.
StopReturns == mpc = "join" ~> mpc \in {"idle", "exited"}

\* What was accepted is written: the queue is bounded, in order and drained at
\* the end, and a closed log holds its frames and next to nothing else.
FramesAreKept ==
  []QueueIsCounted /\ []StopDrains /\ FramesInOrder /\ PaddingIsRemoved

\* The logger does not harm the drive: no log is written over, a failing drive
\* is left alone, a change of file system is announced, and the minutes that
\* name a log do not run ahead of the clock.
DriveIsRespected ==
  NewLogIsLast /\ DriveIsLeftAlone /\ MigrationIsWarned /\ []MinutesNotNegative

=============================================================================
