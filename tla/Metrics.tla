------------------------------- MODULE Metrics -------------------------------
(***************************************************************************)
(* Metrics (libpiksi metrics.c): a process keeps counters in memory and    *)
(* once a second writes each into a file of its own under                  *)
(* /var/log/metrics; metrics_daemon walks that directory, reads the files  *)
(* into a JSON tree and appends the tree to its log.  The process is       *)
(* endpoint_adapter, whose timer computes the averages, flushes, and       *)
(* starts a new interval.                                                  *)
(*                                                                         *)
(* Writer and reader meet in the files only.  Both take flock, but the     *)
(* length the daemon reads is the one ftw's stat saw before it took the    *)
(* lock, and a restarted process truncates its files without it.           *)
(*                                                                         *)
(* A file holds a number in decimal, or nothing.                           *)
(***************************************************************************)
EXTENDS Integers, Sequences, FiniteSets, SequencesExt

CONSTANTS
  MetricsTable,      \* metrics_table: a sequence of [path, type, updater, num, dom, reset]
  ValueLimit,        \* values are modulo this: 2^32 for M_U32
  MAX_METRICS,
  BUF,               \* sizeof(buf) in handle_walk_path
  MetricValues,      \* values an update carries
  MeLoads            \* updates, flushes, restarts and walks of a behaviour

ASSUME MetricsAssumption == ValueLimit \in Nat \ {0} /\ MAX_METRICS \in Nat

VARIABLES
  descriptors,  \* the process's pk_metrics_t, a sequence of values
  files,        \* path -> content
  me_lock,      \* path -> who holds its flock
  step,         \* what the process is in the middle of
  walk,         \* what the daemon is in the middle of
  tree,         \* the daemon's JSON tree: path -> value
  settings,     \* the daemon's enable_log_to_file
  logged,       \* the last tree appended to the log, and what the files held
  me_left
me_vars == <<descriptors, files, me_lock, step, walk, tree, settings, logged, me_left>>

Empty == -1
Null == -2
Entry(i) == MetricsTable[i]
MePaths == {MetricsTable[i].path : i \in DOMAIN MetricsTable}

\* Number of digits, and the number the first n of them make.
RECURSIVE DigitsOf(_)
DigitsOf(v) == IF v < 10 THEN 1 ELSE 1 + DigitsOf(v \div 10)
RECURSIVE Cut(_, _)
Cut(v, n) == IF DigitsOf(v) <= n THEN v ELSE Cut(v \div 10, n)

-----------------------------------------------------------------------------
(* The updaters.  A value of another type than the metric's makes the       *)
(* result 0; sums wrap.                                                     *)
Typed(e, type, v) == IF type = e.type THEN v ELSE 0
pk_metrics_updater_sum(e, cur, type, v) == Typed(e, type, (cur + v) % ValueLimit)
pk_metrics_updater_delta(e, cur, type, v) == Typed(e, type, (v + ValueLimit - cur) % ValueLimit)
pk_metrics_updater_max(e, cur, type, v) == Typed(e, type, IF v > cur THEN v ELSE cur)
pk_metrics_updater_assign(e, cur, type, v) == Typed(e, type, v)
pk_metrics_updater_count(e, cur) == IF e.type = "time" THEN 0 ELSE (cur + 1) % ValueLimit
pk_metrics_updater_average(e, d) ==
  IF \/ e.num \notin DOMAIN d \/ e.dom \notin DOMAIN d
     \/ Entry(e.num).type # e.type \/ d[e.dom] = 0
  THEN 0 ELSE d[e.num] \div d[e.dom]

Updated(d, i, type, v) ==
  LET e == Entry(i)
  IN CASE e.updater = "sum"     -> pk_metrics_updater_sum(e, d[i], type, v)
       [] e.updater = "delta"   -> pk_metrics_updater_delta(e, d[i], type, v)
       [] e.updater = "max"     -> pk_metrics_updater_max(e, d[i], type, v)
       [] e.updater = "assign"  -> pk_metrics_updater_assign(e, d[i], type, v)
       [] e.updater = "count"   -> pk_metrics_updater_count(e, d[i])
       [] e.updater = "average" -> pk_metrics_updater_average(e, d)

Idle == [at |-> "idle", i |-> 0]
DaemonUnchanged == UNCHANGED <<walk, tree, settings, logged>>

\* The daemon's walk remembers, for the property, every value the file it
\* has looked at has stood for since.
Noted(path, v) == walk' = IF walk.at = "stat" /\ walk.path = path THEN [walk EXCEPT !.seen = @ \cup {v}] ELSE walk

MeInit ==
  /\ descriptors = <<>>
  /\ files = [p \in MePaths |-> Null]
  /\ me_lock = [p \in MePaths |-> "nobody"]
  /\ step = [at |-> "setup", i |-> 1]
  /\ walk = [at |-> "idle", path |-> <<>>, size |-> 0, seen |-> {}, todo |-> {}]
  /\ tree = << >>
  /\ settings = FALSE
  /\ logged = {}
  /\ me_left \in MeLoads

-----------------------------------------------------------------------------
(* The process.  pk_metrics_setup adds the metrics one by one: mkpath, an   *)
(* open that creates or truncates the file, the initial value into the      *)
(* stream's buffer.  A metric that cannot be added destroys them all and    *)
(* ends the process (die_error).                                            *)
pk_metrics_add ==
  /\ step.at = "setup"
  /\ LET i == step.i
         p == Entry(i).path
     IN \/ /\ Len(descriptors) < MAX_METRICS
           /\ descriptors' = Append(descriptors, 0)
           /\ files' = [files EXCEPT ![p] = Empty]
           /\ Noted(p, 0)
           /\ step' = IF i = Len(MetricsTable) THEN Idle ELSE [step EXCEPT !.i = @ + 1]
           /\ UNCHANGED me_left
        \/ /\ Len(descriptors) >= MAX_METRICS \/ me_left.faults > 0
           /\ descriptors' = <<>>
           /\ files' = [q \in MePaths |-> IF \E k \in DOMAIN descriptors : Entry(k).path = q
                                          THEN 0 ELSE files[q]]
           /\ step' = [at |-> "exited", i |-> 0]
           /\ me_left' = [me_left EXCEPT !.faults = IF @ > 0 THEN @ - 1 ELSE 0]
           /\ UNCHANGED walk
  /\ UNCHANGED <<me_lock, tree, settings, logged>>

(* _pk_metrics_update; an average is only updated by the timer.             *)
pk_metrics_update(i, type, v) ==
  /\ step = Idle
  /\ me_left.updates > 0
  /\ Entry(i).updater # "average"
  /\ descriptors' = [descriptors EXCEPT ![i] = Updated(descriptors, i, type, v)]
  /\ me_left' = [me_left EXCEPT !.updates = @ - 1]
  /\ UNCHANGED <<files, me_lock, step>>
  /\ DaemonUnchanged

(* timer_handler: the averages, then pk_metrics_flush.                      *)
timer_handler ==
  /\ step = Idle
  /\ me_left.flushes > 0
  /\ descriptors' = [i \in DOMAIN descriptors |->
       IF Entry(i).updater = "average" THEN Updated(descriptors, i, "none", 0) ELSE descriptors[i]]
  /\ step' = [at |-> "lock", i |-> 1]
  /\ me_left' = [me_left EXCEPT !.flushes = @ - 1]
  /\ UNCHANGED <<files, me_lock>>
  /\ DaemonUnchanged

\* Mutant: the flush does not take the lock.
flush_lock_not == /\ step.at = "lock"
                  /\ me_lock' = me_lock
                  /\ step' = [step EXCEPT !.at = "truncate"]
                  /\ UNCHANGED <<descriptors, files, walk, tree, settings, logged, me_left>>

(* pk_metrics_flush, for each metric: flock ...                             *)
flush_lock ==
  /\ step.at = "lock"
  /\ me_lock[Entry(step.i).path] = "nobody"
  /\ me_lock' = [me_lock EXCEPT ![Entry(step.i).path] = "process"]
  /\ step' = [step EXCEPT !.at = "truncate"]
  /\ UNCHANGED <<descriptors, files, walk, tree, settings, logged, me_left>>

(* ... write_metric's fseek and ftruncate ...                               *)
write_metric_truncate ==
  /\ step.at = "truncate"
  /\ files' = [files EXCEPT ![Entry(step.i).path] = Empty]
  /\ step' = [step EXCEPT !.at = "write"]
  /\ UNCHANGED <<descriptors, me_lock, walk, tree, settings, logged, me_left>>

(* ... its fprintf, which fflush brings to the file, and the unlock.  The   *)
(* last metric done, pk_metrics_reset starts the new interval, except for   *)
(* the totals the timer does not name.                                      *)
write_metric ==
  /\ step.at = "write"
  /\ LET i == step.i
         p == Entry(i).path
     IN /\ files' = [files EXCEPT ![p] = descriptors[i]]
        /\ me_lock' = [me_lock EXCEPT ![p] = "nobody"]
        /\ Noted(p, descriptors[i])
        /\ IF i < Len(descriptors)
           THEN step' = [at |-> "lock", i |-> i + 1] /\ UNCHANGED descriptors
           ELSE step' = Idle /\ descriptors' = [k \in DOMAIN descriptors |-> IF Entry(k).reset THEN 0 ELSE descriptors[k]]
  /\ UNCHANGED <<tree, settings, logged, me_left>>

(* The process is killed, between any two steps, and started again by runit; *)
(* the kernel drops its locks.                                              *)
restart ==
  /\ step.at \in {"idle", "lock", "truncate", "write"}
  /\ me_left.restarts > 0
  /\ descriptors' = <<>>
  /\ step' = [at |-> "setup", i |-> 1]
  /\ me_lock' = [p \in MePaths |-> IF me_lock[p] = "process" THEN "nobody" ELSE me_lock[p]]
  /\ me_left' = [me_left EXCEPT !.restarts = @ - 1]
  /\ IF step.at = "write" THEN Noted(Entry(step.i).path, 0) ELSE UNCHANGED walk
  /\ UNCHANGED <<files, tree, settings, logged>>

-----------------------------------------------------------------------------
(* metrics_daemon.  Its two settings restart its timer; a walk only happens *)
(* when logging is enabled.                                                 *)
notify_log_settings_changed ==
  /\ walk.at = "idle"
  /\ settings' = ~settings
  /\ UNCHANGED <<descriptors, files, me_lock, step, walk, tree, logged, me_left>>

Exists(p) == files[p] # Null
SizeOf(p) == IF files[p] = Empty THEN 0 ELSE DigitsOf(files[p]) + 1

\* The files ftw will visit: those of the directories it reads.
write_metrics_to_file ==
  /\ walk.at = "idle"
  /\ settings
  /\ me_left.walks > 0
  /\ walk' = [walk EXCEPT !.at = "next", !.todo = {p \in MePaths : Exists(p)}]
  /\ me_left' = [me_left EXCEPT !.walks = @ - 1]
  /\ UNCHANGED <<descriptors, files, me_lock, step, tree, settings, logged>>

(* The nodes on the way to a file: ftw visits a directory before what is in *)
(* it, and loop_through_folder_name finds the deepest node of the tree that *)
(* lies on the path, under which handle_walk_path adds the name.            *)
Ancestors(p) == {SubSeq(p, 1, n) : n \in 1..Len(p) - 1}
loop_through_folder_name(t, p) ==
  LET known == {q \in Ancestors(p) : q \in DOMAIN t} IN IF known = {} THEN <<>> ELSE CHOOSE q \in known : \A r \in known : Len(r) <= Len(q)
Added(t, p, v) == LET q == loop_through_folder_name(t, p) \o <<p[Len(p)]>>
                  IN [r \in DOMAIN t \cup {q} |-> IF r = q THEN v ELSE t[r]]
Folders(t, p) == FoldLeft(LAMBDA u, n : IF SubSeq(p, 1, n) \in DOMAIN u THEN u ELSE Added(u, SubSeq(p, 1, n), Null),
                          t, [n \in 1..Len(p) - 1 |-> n])

(* ftw's stat of the next file.                                             *)
walk_stat ==
  /\ walk.at = "next"
  /\ \E p \in walk.todo :
       /\ walk' = [walk EXCEPT !.at = "stat", !.path = p, !.size = SizeOf(p),
                               !.seen = {files[p]} \cap Nat, !.todo = @ \ {p}]
       /\ tree' = Folders(tree, p)
  /\ UNCHANGED <<descriptors, files, me_lock, step, settings, logged, me_left>>

(* The rest of handle_walk_path: a file of no length, or too long for the   *)
(* buffer, is null; otherwise as many bytes as stat saw, less the newline,  *)
(* are read under the lock, and atof makes 0 of nothing.                    *)
Readable == walk.size - 1 > 0 /\ walk.size - 1 < BUF
ReadNumber == IF files[walk.path] = Empty THEN 0 ELSE Cut(files[walk.path], walk.size - 1)
handle_walk_path ==
  /\ walk.at = "stat"
  /\ Readable => me_lock[walk.path] = "nobody"
  /\ LET v == IF Readable THEN ReadNumber ELSE Null
     IN /\ tree' = Added(tree, walk.path, v)
        /\ logged' = logged \cup {[path |-> walk.path, value |-> v, seen |-> walk.seen, digits |-> walk.size - 1]}
  /\ walk' = [walk EXCEPT !.at = "next", !.size = 0, !.seen = {}]
  /\ UNCHANGED <<descriptors, files, me_lock, step, settings, me_left>>

(* write_json_to_file appends the tree; the property looked at this walk.   *)
write_json_to_file ==
  /\ walk.at = "next"
  /\ walk.todo = {}
  /\ walk' = [walk EXCEPT !.at = "idle", !.path = <<>>]
  /\ logged' = {}
  /\ UNCHANGED <<descriptors, files, me_lock, step, tree, settings, me_left>>

MeNext ==
  \/ pk_metrics_add \/ timer_handler \/ flush_lock \/ write_metric_truncate \/ write_metric \/ restart
  \/ \E i \in DOMAIN descriptors, type \in {"u32", "s32"}, v \in MetricValues : pk_metrics_update(i, type, v)
  \/ notify_log_settings_changed \/ write_metrics_to_file \/ walk_stat \/ handle_walk_path \/ write_json_to_file

-----------------------------------------------------------------------------
(* What a walk reports of a metric is a value it had between the look at    *)
(* its file and the end of the read, whole or, when it grew by a digit in   *)
(* between, cut to the digits of the older value; each is filed under its   *)
(* own path, with the folders above it, although the process rewrites or    *)
(* recreates the files at the same time.  A process killed in the middle of *)
(* a flush leaves an empty file, which counts as the 0 it restarts with.    *)
ReportsWereFlushed ==
  /\ \A r \in logged : /\ r.value # Null => \E v \in r.seen : r.value = Cut(v, r.digits)
                       /\ r.path \in DOMAIN tree /\ tree[r.path] = r.value
  /\ \A p \in DOMAIN tree : Ancestors(p) \subseteq DOMAIN tree /\ (p \in MePaths \/ tree[p] = Null)

=============================================================================
