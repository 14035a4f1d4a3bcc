----------------------------- MODULE FileioCache -----------------------------
(***************************************************************************)
(* The cache of open files of sbp_fileio_daemon (sbp_fileio.c).  Reads and *)
(* writes go through FILE streams that stay open between requests; a       *)
(* stream buffers, the cache remembers its position to avoid a seek, and   *)
(* entries are closed by age, by a flush request, by a removal, and by an  *)
(* access in the other mode.                                               *)
(*                                                                         *)
(* With threading, writes are queued to the write thread (module           *)
(* FileioQueue has its protocol); here a queued write is one step.  A file *)
(* is a few blocks, and a write stores its own number in one block.        *)
(***************************************************************************)
EXTENDS Integers, Sequences, FiniteSets, FiniteSetsExt

CONSTANTS
  Paths,
  Blocks,          \* blocks per file
  FD_CACHE_COUNT,
  Streams,         \* FILE objects that can exist at a time
  MaxStores,       \* bound: write requests
  CacheOptions,    \* values of no_cache to consider (--no-cache)
  Threaded         \* FALSE: the --no-threading option

ASSUME CacheAssumption ==
  /\ Blocks \in Nat \ {0} /\ FD_CACHE_COUNT \in Nat /\ Streams \in Nat
  /\ MaxStores \in Nat /\ CacheOptions \in SUBSET BOOLEAN /\ Threaded \in BOOLEAN

CacheSlot == 1 .. FD_CACHE_COUNT
Block == 0 .. (Blocks - 1)
NIL == 0
NoPath == "none"
None == [b \in Block |-> 0]

\* A cache entry, and an open_file_t: its slot is NIL when not cached.
EmptyEntry == [fp |-> NIL, path |-> NoPath, mode |-> "", offset |-> 0]
NoFile == [fp |-> NIL, slot |-> NIL]

\* A FILE.  `buf' is output not written yet; `snap' is what the stream has
\* read ahead, or <<>>.
NoStream == [state |-> "free", path |-> NoPath, pos |-> 0, buf |-> None,
             snap |-> <<>>]

VARIABLES
  io,      \* [no_cache, fd_cache, stream, disk, exists, bad]
  main,    \* the read that has opened its file: [path, block, value, file]
  wt,      \* the write that has opened its file
  queue,   \* write requests not carried out yet
  stores,  \* bound: write requests so far
  latest,  \* per path and block, the values a read may return
  answer,  \* the last read: [value, allowed]
  flushed  \* sbp_fileio_flush has run, and no write since

cacheVars == <<io, main, wt, queue, stores, latest, answer, flushed>>

Idle == [path |-> NoPath, block |-> 0, value |-> 0, file |-> NoFile]
NoAnswer == [value |-> 0, allowed |-> {0}]

CacheInit ==
  /\ \E no_cache \in CacheOptions :
     io = [no_cache |-> no_cache,
           fd_cache |-> [s \in CacheSlot |-> EmptyEntry],
           stream |-> [f \in 1 .. Streams |-> NoStream],
           disk |-> [p \in Paths |-> None],
           exists |-> {},
           bad |-> FALSE]
  /\ main = Idle /\ wt = Idle /\ queue = <<>> /\ stores = 0
  /\ latest = [p \in Paths |-> [b \in Block |-> {0}]]
  /\ answer = NoAnswer /\ flushed = FALSE

-----------------------------------------------------------------------------
(***************************************************************************)
(* stdio (external): the output buffer reaches the file at the latest when *)
(* the stream is closed or moved; using a closed stream is undefined.      *)
(***************************************************************************)
Merge(old, new) == [b \in Block |-> IF new[b] # 0 THEN new[b] ELSE old[b]]

Commit(s, f) ==
  IF s.stream[f].buf = None THEN s
  ELSE [s EXCEPT !.disk[s.stream[f].path] = Merge(@, s.stream[f].buf),
                 !.stream[f].buf = None]

fclose(s, f) ==
  IF s.stream[f].state # "open" THEN [s EXCEPT !.bad = TRUE]
  ELSE [Commit(s, f) EXCEPT !.stream[f].state = "closed"]

\* A stream that seeks may keep or drop what it has read ahead.
fseek(s, f, b, keep) ==
  IF s.stream[f].state # "open" THEN [s EXCEPT !.bad = TRUE]
  ELSE [Commit(s, f) EXCEPT !.stream[f].pos = b,
                            !.stream[f].snap = IF keep THEN @ ELSE <<>>]

fwrite(s, f, v) ==
  LET at == s.stream[f].pos
  IN IF s.stream[f].state # "open" THEN [s EXCEPT !.bad = TRUE]
     ELSE [s EXCEPT !.stream[f].buf = [b \in Block |-> IF b = at THEN v ELSE @[b]],
                    !.stream[f].pos = at + 1]

\* The value at the position of the stream, 0 at the end of the file.
fread(s, f) ==
  LET st == s.stream[f]
      data == IF st.snap = <<>> THEN s.disk[st.path] ELSE st.snap[1]
      value == IF st.pos \in Block THEN data[st.pos] ELSE 0
      read == IF value = 0 THEN 0 ELSE 1
  IN IF st.state # "open" THEN [s |-> [s EXCEPT !.bad = TRUE], value |-> 0, read |-> 0]
     ELSE [s |-> [s EXCEPT !.stream[f].snap = <<data>>, !.stream[f].pos = st.pos + read],
           value |-> value, read |-> read]

\* Streams nobody refers to can be opened again.
FreeStreams(s) ==
  {f \in 1 .. Streams : s.stream[f].state # "open" /\ f \notin {main.file.fp, wt.file.fp}}

-----------------------------------------------------------------------------
(***************************************************************************)
(* The cache.                                                              *)
(***************************************************************************)
CloseEntry(i, s) ==
  [fclose(s, s.fd_cache[i].fp) EXCEPT !.fd_cache[i] = EmptyEntry]

CloseEntries(s, slots) == FoldSet(CloseEntry, s, slots)

Occupied(s) == {i \in CacheSlot : s.fd_cache[i].fp # NIL}

Cached(s, p, m) ==
  {i \in CacheSlot : s.fd_cache[i].path = p /\ s.fd_cache[i].mode = m}

\* Mutant: the stream of the other mode is left open.
flush_nothing(s, p, m) == s

flush_cached_fd(s, p, m) == CloseEntries(s, Cached(s, p, m))

\* open_file: a cached stream, or a new one that takes a free slot if there is
\* one.  A missing file cannot be opened for reading, and nothing can when the
\* process is out of streams.
open_file(s, p, m) ==
  LET hit == Cached(s, p, m)
      free == {i \in CacheSlot : s.fd_cache[i].fp = NIL}
      f == Min(FreeStreams(s))
      s1 == [s EXCEPT !.stream[f] = [NoStream EXCEPT !.state = "open", !.path = p],
                      !.exists = @ \cup {p}]
  IN IF ~s.no_cache /\ hit # {}
     THEN [s |-> s, file |-> [fp |-> s.fd_cache[Min(hit)].fp, slot |-> Min(hit)]]
     ELSE IF (m = "r" /\ p \notin s.exists) \/ FreeStreams(s) = {} THEN [s |-> s, file |-> NoFile]
     ELSE IF s.no_cache \/ free = {}
     THEN [s |-> s1, file |-> [fp |-> f, slot |-> NIL]]
     ELSE [s |-> [s1 EXCEPT !.fd_cache[Min(free)].fp = f,
                            !.fd_cache[Min(free)].path = p,
                            !.fd_cache[Min(free)].mode = m],
           file |-> [fp |-> f, slot |-> Min(free)]]

\* read_offset: an uncached file is always moved.
read_offset(s, file) ==
  IF file.slot = NIL THEN -1 ELSE s.fd_cache[file.slot].offset

update_offset(s, file, op, n) ==
  IF file.slot = NIL THEN s
  ELSE [s EXCEPT !.fd_cache[file.slot].offset = IF op = "assign" THEN n ELSE @ + n]

finalize_non_cached(s, file) ==
  IF file.slot = NIL /\ file.fp # NIL THEN fclose(s, file.fp) ELSE s

\* The seek of read_cb and of sbp_fileio_write.
SeekTo(s, file, b, keep) ==
  IF read_offset(s, file) = b THEN s
  ELSE update_offset(fseek(s, file.fp, b, keep), file, "assign", b)

-----------------------------------------------------------------------------
(***************************************************************************)
(* Requests.                                                               *)
(***************************************************************************)
\* The main thread is in no handler.
MainIdle == main = Idle /\ (Threaded \/ queue = <<>>)

Reply(v, allowed) == [value |-> v, allowed |-> allowed]

\* read_cb up to wq_run_when_empty: the file is opened and moved at once, with
\* writes possibly still in the queue.  It answers at once, with no data, when
\* the open or the seek fails.
ReadOpen(p, b) ==
  /\ MainIdle
  /\ LET o == open_file(flush_cached_fd(io, p, "w"), p, "r")
     IN \/ /\ o.file = NoFile
           /\ io' = flush_cached_fd(o.s, p, "r")
           /\ answer' = Reply(0, IF p \in io.exists THEN {0} ELSE latest[p][b])
           /\ UNCHANGED main
        \/ /\ o.file # NoFile
           /\ \E keep \in BOOLEAN : io' = SeekTo(o.s, o.file, b, keep)
           /\ main' = [path |-> p, block |-> b, value |-> 0, file |-> o.file]
           /\ UNCHANGED answer
        \/ /\ o.file # NoFile /\ read_offset(o.s, o.file) # b
           /\ io' = flush_cached_fd(o.s, p, "r")
           /\ answer' = Reply(0, {0})
           /\ UNCHANGED main
  /\ UNCHANGED <<wt, queue, stores, latest, flushed>>

\* What read_cb runs once the queue is empty, and its reply.
ReadRun ==
  /\ main # Idle /\ queue = <<>>
  /\ LET r == fread(io, main.file.fp)
     IN /\ io' = update_offset(finalize_non_cached(r.s, main.file), main.file,
                               "increment", r.read)
        /\ answer' = Reply(r.value, latest[main.path][main.block])
  /\ main' = Idle
  /\ UNCHANGED <<wt, queue, stores, latest, flushed>>

\* write_cb queues the request; without threading it carries it out itself.
write_cb(p, b) ==
  /\ MainIdle /\ stores < MaxStores
  /\ stores' = stores + 1
  /\ queue' = Append(queue, [path |-> p, block |-> b, value |-> stores + 1])
  /\ UNCHANGED <<io, main, wt, latest, answer, flushed>>

\* sbp_fileio_write up to the fwrite.  The seek or the open may fail.
WriteOpen ==
  /\ queue # <<>> /\ wt = Idle
  /\ LET w == Head(queue)
         o == open_file(flush_cached_fd(io, w.path, "r"), w.path, "w")
     IN \/ /\ o.file = NoFile
           /\ io' = o.s
           /\ queue' = Tail(queue)
           /\ UNCHANGED wt
        \/ /\ o.file # NoFile
           /\ io' = SeekTo(o.s, o.file, w.block, FALSE)
           /\ wt' = [path |-> w.path, block |-> w.block, value |-> w.value, file |-> o.file]
           /\ UNCHANGED queue
        \/ /\ o.file # NoFile /\ read_offset(o.s, o.file) # w.block
           /\ io' = finalize_non_cached(flush_cached_fd(o.s, w.path, "w"), o.file)
           /\ queue' = Tail(queue)
           /\ UNCHANGED wt
  /\ UNCHANGED <<main, stores, latest, answer, flushed>>

\* The rest of sbp_fileio_write.  A short fwrite may or may not have stored the
\* block.
WriteRun ==
  /\ wt # Idle
  /\ LET stored == fwrite(io, wt.file.fp, wt.value)
     IN \/ /\ io' = finalize_non_cached(update_offset(stored, wt.file, "increment", 1),
                                        wt.file)
           /\ latest' = [latest EXCEPT ![wt.path][wt.block] = {wt.value}]
        \/ /\ \E s \in {io, stored} :
                io' = finalize_non_cached(flush_cached_fd(s, wt.path, "w"), wt.file)
           /\ latest' = [latest EXCEPT ![wt.path][wt.block] = @ \cup {wt.value}]
  /\ wt' = Idle /\ queue' = Tail(queue)
  /\ flushed' = FALSE
  /\ UNCHANGED <<main, stores, answer>>

\* remove_cb; it waits for the queue first.
remove_cb(p) ==
  /\ MainIdle /\ queue = <<>>
  /\ io' = [flush_cached_fd(flush_cached_fd(io, p, "r"), p, "w")
              EXCEPT !.disk[p] = None, !.exists = @ \ {p}]
  /\ latest' = [latest EXCEPT ![p] = [b \in Block |-> {0}]]
  /\ UNCHANGED <<main, wt, queue, stores, answer, flushed>>

\* timer_handler: any entry may have reached CACHE_CLOSE_AGE.
timer_handler ==
  /\ MainIdle
  /\ \E old \in SUBSET Occupied(io) \ {{}} : io' = CloseEntries(io, old)
  /\ UNCHANGED <<main, wt, queue, stores, latest, answer, flushed>>

\* SIGUSR1: flush_fd_cache.
sbp_fileio_flush ==
  /\ MainIdle
  /\ io' = CloseEntries(io, Occupied(io))
  /\ flushed' = TRUE
  /\ UNCHANGED <<main, wt, queue, stores, latest, answer>>

\* stdio writes out a full buffer.
BufferFull ==
  /\ \E f \in 1 .. Streams :
       /\ io.stream[f].state = "open" /\ io.stream[f].buf # None
       /\ io' = Commit(io, f)
  /\ UNCHANGED <<main, wt, queue, stores, latest, answer, flushed>>

CacheNext ==
  \/ \E p \in Paths, b \in Block : ReadOpen(p, b) \/ write_cb(p, b)
  \/ ReadRun
  \/ WriteOpen
  \/ WriteRun
  \/ \E p \in Paths : remove_cb(p)
  \/ timer_handler
  \/ sbp_fileio_flush
  \/ BufferFull

CacheSpec == CacheInit /\ [][CacheNext]_cacheVars

-----------------------------------------------------------------------------
(***************************************************************************)
(* Properties.                                                             *)
(***************************************************************************)

\* A read returns what the last write to that block stored, whatever the
\* cache, the stream buffers, the skipped seeks and the evictions did.
ReadsReturnLatest == answer.value \in answer.allowed

\* After sbp_fileio_flush, and until the next write, everything written is in
\* the file: what sbp_fileio_request_flush waits for.
FlushIsDurable ==
  flushed => \A p \in Paths, b \in Block : io.disk[p][b] \in latest[p][b]

\* No closed stream is used or closed again.
NoUseAfterClose == ~io.bad

\* The offset a cache entry records is the position of its stream, so that
\* a seek is only left out when it would not move the stream.
OffsetIsPosition ==
  \A i \in Occupied(io) :
    /\ io.stream[io.fd_cache[i].fp].state = "open"
    /\ io.fd_cache[i].offset = io.stream[io.fd_cache[i].fp].pos

\* With the requests carried out one at a time the cache cannot be told from
\* files that are opened for each request: reads see the last write, a flush
\* leaves nothing behind, positions are known and no stream is used closed.
CacheIsCoherent ==
  ReadsReturnLatest /\ FlushIsDurable /\ OffsetIsPosition /\ NoUseAfterClose

=============================================================================
