--------------------------- MODULE ResourceMonitor ---------------------------
(***************************************************************************)
(* resource_monitor (package/resource_monitor): at the interval the        *)
(* setting gives it runs a list of query modules, each of which runs a     *)
(* command, reads its output and sends SBP messages about it.  The daemon  *)
(* has one thread; while a query reads, the command writes, so that how    *)
(* much one read returns is not the reader's choice.                       *)
(*                                                                         *)
(* A command's output is a sequence of lines; its text has one cell for    *)
(* every character, <<line, position>>, and a newline after each line.  Of *)
(* a line the model keeps its length, how many of its fields can be read   *)
(* one after another, and the fields the queries look at.                  *)
(***************************************************************************)
EXTENDS Integers, Sequences, SequencesExt, FiniteSets

CONSTANTS ITEM_COUNT, MAX_PROCESS_COUNT, MAX_FILE_COUNT,
          READ_SIZE,            \* what one read of a query asks for, at most
          PS_BUF,               \* the buffer that takes all the output of ps
          FILE_STR, SUMMARY_MAX,  \* file_str's size; the bytes of a summary's most_opened
          FileLen,              \* the length of every file name lsof can print
          RealFiles, Paths,     \* names that are not a pipe or a socket; names that begin with /
          interface_list,       \* the query modules, as the constructors registered them
          RmIntervals,          \* values of the setting
          RmLoads               \* the outputs a behaviour's commands have, and how many runs and settings

VARIABLES
  previous_interval, uv_timer,  \* the interval in force; is there a timer
  node,                         \* per query: init_success and its context
  items,                        \* the static query_context of cpu and of mem
  extrace,                      \* is the extrace service up
  at, run, sent,                \* where the thread is; the query it runs; the messages of this query
  rm_left                       \* what is left of the behaviour's load
rm_vars == <<previous_interval, uv_timer, node, items, extrace, at, run, sent, rm_left>>

Queries == {"sys_state", "cpu", "mem", "sockets", "fd"}
Priority1 == {"sys_state", "cpu", "mem"}
U16 == 65536
NL == <<0, 0>>
NULL == [live |-> FALSE]
Fragment == [kind |-> "ext", fields |-> 0, pid |-> "", what |-> "", len |-> 0]
NotRunning == [i |-> 0, output |-> [lines |-> <<>>, ok |-> FALSE], rest |-> <<>>, leftover |-> <<>>]
LeastOf(a, b) == IF a < b THEN a ELSE b

(***************************************************************************)
(* The text of an output, and foreach_line over it.                        *)
(***************************************************************************)
Chars(lines, k) == [i \in 1..lines[k].len |-> <<k, i>>]
TextOf(lines) == FlattenSeq([k \in DOMAIN lines |-> Append(Chars(lines, k), NL)])

\* strtok_r: the runs of characters between newlines.
strtok_r(text) ==
  LET first == {i \in DOMAIN text : text[i] # NL /\ (i = 1 \/ text[i - 1] = NL)}
      upto(i) == CHOOSE j \in i..Len(text) :
                   (\A m \in i..j : text[m] # NL) /\ (j = Len(text) \/ text[j + 1] = NL)
  IN [t \in 1..Cardinality(first) |->
        LET i == SetToSortSeq(first, <)[t] IN SubSeq(text, i, upto(i))]

\* Mutant: the unfinished line is taken as it is.
Unfinished_never(text) == <<>>

\* What foreach_line keeps for the next buffer: a last token that the text
\* ends with.  consumed counts one newline a token, so that the token is
\* found to be the last one only when no line was empty.
Unfinished(text) ==
  LET tokens == strtok_r(text)
      consumed == FoldLeft(LAMBDA n, t : n + Len(t), Len(tokens) - 1, tokens)
  IN IF tokens # <<>> /\ Last(text) # NL /\ consumed = Len(text) THEN Last(tokens) ELSE <<>>

Finished(text) == IF Unfinished(text) = <<>> THEN strtok_r(text) ELSE Front(strtok_r(text))

\* A token as the parsers see it.
LineOf(lines, token) ==
  IF \E k \in DOMAIN lines : token = Chars(lines, k)
  THEN lines[CHOOSE k \in DOMAIN lines : token = Chars(lines, k)] ELSE Fragment

parse_tab_line(line, fields) == line.fields = fields

\* count_sz_lines: an unfinished last line counts.
count_sz_lines(text) ==
  IF text = <<>> THEN 0
  ELSE Cardinality({i \in DOMAIN text : text[i] = NL}) + (IF Last(text) = NL THEN 0 ELSE 1)

\* run_with_stdin_file without a buffer function: what fits in the buffer.
WholeOutput(output) ==
  LET text == TextOf(output.lines)
  IN IF Len(text) >= PS_BUF THEN SubSeq(text, 1, PS_BUF - 1) ELSE text

(***************************************************************************)
(* The tables of the two queries that count, and the most frequent keys.   *)
(***************************************************************************)
table_put(table, max, entry) ==
  IF Len(table) >= max THEN [ok |-> FALSE, table |-> table] ELSE [ok |-> TRUE, table |-> Append(table, entry)]

\* An entry that is counted up, or put in the table.
Counted(table, max, key, what) ==
  IF \E i \in DOMAIN table : table[i].key = key
  THEN [ok |-> TRUE,
        table |-> [i \in DOMAIN table |->
                     IF table[i].key # key THEN table[i]
                     ELSE [table[i] EXCEPT !.n = (@ + 1) % U16, !.seen = @ \cup what]]]
  ELSE table_put(table, max, [key |-> key, n |-> 1, seen |-> what])

table_get(table, key) == table[CHOOSE i \in DOMAIN table : table[i].key = key]

\* kmin_put and kmin_compact keep the wanted entries; kmin_find's sort is
\* stable, and descending for kmin_invert.
kmin_compact(table, wanted) == SelectSeq(table, LAMBDA e : e.key \in wanted)
kmin_find(kept, k) ==
  LET rank(i) == Cardinality({j \in DOMAIN kept : \/ kept[j].n > kept[i].n
                                                  \/ kept[j].n = kept[i].n /\ j <= i})
  IN kept[CHOOSE i \in DOMAIN kept : rank(i) = k]

populate_maximums(table, wanted) ==
  LET kept == kmin_compact(table, wanted)
  IN [k \in 1..ITEM_COUNT |-> IF k > Len(kept) THEN "" ELSE kmin_find(kept, k).key]

\* qsort by compare_counts leaves equal counts in any order.
SortedKeys(table) ==
  {[k \in DOMAIN p |-> table[p[k]].key] :
     p \in {q \in [DOMAIN table -> DOMAIN table] :
              /\ \A i, j \in DOMAIN q : i # j => q[i] # q[j]
              /\ \A i, j \in DOMAIN q : i < j => table[q[i]].n >= table[q[j]].n}}

(***************************************************************************)
(* The list of queries: their initialisation, in the order of priority,    *)
(* and their teardown, which leaves init_success as it is.                 *)
(***************************************************************************)
SysContext(n) == [live |-> TRUE, pid_count |-> n, sent_sbp |-> 0]
ItemContext == [live |-> TRUE, current_index |-> 0]
NoKeys == [k \in 1..ITEM_COUNT |-> ""]
SocketsContext == [live |-> TRUE, send_state |-> 0, pid_table |-> <<>>, top10_counts |-> NoKeys, fresh |-> 0]
FdContext == [live |-> TRUE, send_state |-> 0, error_code |-> 0, total_fd_count |-> 0, pid_table |-> <<>>,
              file_table |-> <<>>, top10_pid_counts |-> NoKeys, top10_file_counts |-> NoKeys]

InitOrder ==
  SelectSeq(interface_list, LAMBDA q : q \in Priority1) \o SelectSeq(interface_list, LAMBDA q : q \notin Priority1)

\* The init() of each query.  sys_state's pid count is the number of lines
\* of every buffer of ps, added up; sockets and fd read it.
sys_state_init(ps) ==
  IF ps.ok THEN SysContext(FoldLeft(LAMBDA n, text : n + count_sz_lines(text), 0, ps.chunks) % U16) ELSE NULL
cpu_init == ItemContext
mem_init(mem_total) == IF mem_total # 0 THEN ItemContext ELSE NULL

\* resq_read_property of sys_state finds it by its init_success.
FewProcesses(sys) == sys.init_success /\ sys.context.live /\ sys.context.pid_count <= MAX_PROCESS_COUNT
sockets_init(sys) == IF FewProcesses(sys) THEN SocketsContext ELSE NULL
fd_init(sys) == IF FewProcesses(sys) THEN FdContext ELSE NULL

resq_initialize_all(nodes, ps, mem_total) ==
  LET step(acc, q) ==
        LET sys == acc.node["sys_state"]
            context == CASE q = "sys_state" -> sys_state_init(ps) [] q = "cpu" -> cpu_init
                         [] q = "mem" -> mem_init(mem_total)
                         [] q = "sockets" -> sockets_init(sys) [] q = "fd" -> fd_init(sys)
        IN [node |-> [acc.node EXCEPT ![q] = [init_success |-> context.live, context |-> context]],
            null_read |-> \/ acc.null_read
                          \/ q \in {"sockets", "fd"} /\ sys.init_success /\ ~sys.context.live]
  IN FoldLeft(step, [node |-> nodes, null_read |-> FALSE], InitOrder)

resq_teardown_all(nodes) ==
  [q \in Queries |-> IF nodes[q].init_success THEN [nodes[q] EXCEPT !.context = NULL] ELSE nodes[q]]

\* sys_state's teardown stops extrace.
ExtraceAfterTeardown == extrace /\ ~(node["sys_state"].init_success /\ node["sys_state"].context.live)

RmInit ==
  /\ previous_interval = -1 /\ uv_timer = FALSE
  /\ node = [q \in Queries |-> [init_success |-> FALSE, context |-> NULL]]
  /\ items = [q \in {"cpu", "mem"} |-> NoKeys]
  /\ extrace = FALSE /\ at = "loop" /\ run = NotRunning /\ sent = <<>>
  /\ rm_left \in RmLoads

sbp_update_timer_interval(v) == uv_timer' = (v # 0)

notify_interval_changed(v) ==
  /\ at = "loop" /\ rm_left.sets > 0
  /\ rm_left' = [rm_left EXCEPT !.sets = @ - 1]
  /\ previous_interval' = v
  /\ sbp_update_timer_interval(v)
  /\ \/ v = previous_interval /\ UNCHANGED <<node, extrace, at>>
     \/ /\ v # previous_interval /\ v = 0
        /\ node' = resq_teardown_all(node) /\ extrace' = ExtraceAfterTeardown /\ UNCHANGED at
     \/ /\ v # previous_interval /\ v # 0
        /\ \E ps \in rm_left.ps, mem_total \in rm_left.mem_total :
             LET all == resq_initialize_all(resq_teardown_all(node), ps, mem_total)
             IN /\ node' = all.node /\ extrace' = (ExtraceAfterTeardown \/ ps.ok)
                /\ at' = IF all.null_read THEN "null_context" ELSE at
  /\ UNCHANGED <<items, run, sent>>

cleanup ==
  /\ at = "loop" /\ at' = "exited" /\ uv_timer' = FALSE
  /\ node' = resq_teardown_all(node) /\ extrace' = ExtraceAfterTeardown
  /\ UNCHANGED <<previous_interval, items, run, sent, rm_left>>

(***************************************************************************)
(* resq_run_all: one query after the other.                                *)
(***************************************************************************)
Query == interface_list[run.i]
Context == node[Query].context
WithContext(c) == [node EXCEPT ![Query].context = c]

NextQuery ==
  /\ sent' = <<>>
  /\ IF run.i = Len(interface_list) THEN at' = "loop" /\ run' = NotRunning
     ELSE at' = "run" /\ run' = [NotRunning EXCEPT !.i = run.i + 1]

update_metrics ==
  /\ at = "loop" /\ uv_timer /\ rm_left.runs > 0
  /\ rm_left' = [rm_left EXCEPT !.runs = @ - 1]
  /\ at' = "run" /\ run' = [NotRunning EXCEPT !.i = 1]
  /\ UNCHANGED <<previous_interval, uv_timer, node, items, extrace, sent>>

\* A query that was not initialised is passed over; one without a context
\* cannot be run.
skip_query ==
  /\ at = "run"
  /\ ~(node[Query].init_success /\ Context.live)
  /\ IF node[Query].init_success THEN at' = "null_context" /\ UNCHANGED <<run, sent>> ELSE NextQuery
  /\ UNCHANGED <<previous_interval, uv_timer, node, items, extrace, rm_left>>

Runs(q, output) ==
  /\ at = "run" /\ Query = q /\ node[q].init_success /\ Context.live
  /\ output \in rm_left.outputs[q]
  /\ UNCHANGED <<previous_interval, uv_timer, sent, rm_left>>

parse_ps_cpu_mem_line(line) == parse_tab_line(line, 2)
parse_ps_cpu_line(line) == parse_tab_line(line, 4)
parse_ps_mem_line(line) == parse_tab_line(line, 4)

\* The lines a line function takes, of which it can parse some: up to the first
\* one it rejects.
Accepted(tokens, parsed) == {i \in DOMAIN tokens : 1..i - 1 \subseteq parsed}

\* extrace is stopped, and started again unless ps failed or was cut short.
sys_state_run(output) ==
  /\ Runs("sys_state", output)
  /\ LET text == WholeOutput(output)
         tokens == Finished(text)
         parsed == {i \in DOMAIN tokens : parse_ps_cpu_mem_line(LineOf(output.lines, tokens[i]))}
         taken == Accepted(tokens, parsed)
         cut == Unfinished(text) # <<>> /\ taken \subseteq parsed
     IN /\ node' = WithContext(SysContext(IF output.ok THEN Cardinality(taken) % U16 ELSE 0))
        /\ extrace' = (output.ok /\ ~cut)
  /\ at' = "send" /\ UNCHANGED <<items, run>>

\* The first items; the others stay empty.
ParsedItems(lines, tokens, parsed) ==
  [i \in 1..ITEM_COUNT |->
     IF i \in Accepted(tokens, parsed) /\ LineOf(lines, tokens[i]).fields >= 1
     THEN LineOf(lines, tokens[i]).pid ELSE ""]

\* cpu parses whatever it was given; mem keeps the items it has when ps fails.
cpu_run(output) ==
  /\ Runs("cpu", output)
  /\ LET tokens == strtok_r(WholeOutput(output))
         parsed == {i \in DOMAIN tokens : parse_ps_cpu_line(LineOf(output.lines, tokens[i]))}
     IN items' = [items EXCEPT !["cpu"] = ParsedItems(output.lines, tokens, parsed)]
  /\ node' = WithContext(ItemContext) /\ at' = "send" /\ UNCHANGED <<extrace, run>>

mem_run(output) ==
  /\ Runs("mem", output)
  /\ LET tokens == Finished(WholeOutput(output))
         parsed == {i \in DOMAIN tokens : parse_ps_mem_line(LineOf(output.lines, tokens[i]))}
     IN items' = IF ~output.ok THEN items
                 ELSE [items EXCEPT !["mem"] = ParsedItems(output.lines, tokens, parsed)]
  /\ node' = WithContext(ItemContext) /\ at' = "send" /\ UNCHANGED <<extrace, run>>

(***************************************************************************)
(* The two queries that read their command's output buffer by buffer.      *)
(***************************************************************************)
\* lsof: a line that cannot be counted ends the buffer it stands in.
process_fd_entry(c, line) ==
  LET total == [c EXCEPT !.total_fd_count = @ + 1]
      pids == Counted(c.pid_table, MAX_PROCESS_COUNT, line.pid, {})
      files == Counted(c.file_table, MAX_FILE_COUNT, line.what, {})
  IN IF ~pids.ok THEN [go |-> FALSE, context |-> total]
     ELSE IF line.what \notin RealFiles
     THEN [go |-> TRUE, context |-> [total EXCEPT !.pid_table = pids.table]]
     ELSE IF FileLen[line.what] >= FILE_STR \/ ~files.ok
     THEN [go |-> FALSE, context |-> [total EXCEPT !.pid_table = pids.table]]
     ELSE [go |-> TRUE, context |-> [total EXCEPT !.pid_table = pids.table, !.file_table = files.table]]

parse_fd_line(c, line) ==
  IF parse_tab_line(line, 3) THEN process_fd_entry(c, line) ELSE [go |-> FALSE, context |-> c]

\* ss: the header, netlink and TIME-WAIT lines are passed over, and so is a
\* line without the fields of its kind or without a pid.
parse_uds_socket_line(line) == line.kind = "uds" /\ parse_tab_line(line, 9)
parse_ext_socket_line(line) == line.kind = "ext" /\ parse_tab_line(line, 7)
parse_socket_common(line) == line.pid # ""
OwnedSocket(line) == (parse_uds_socket_line(line) \/ parse_ext_socket_line(line)) /\ parse_socket_common(line)

process_ss_entry(c, line) ==
  [c EXCEPT !.pid_table = Counted(@, MAX_PROCESS_COUNT, line.pid, {line.what}).table]

ss_line(c, line) == [go |-> TRUE, context |-> IF OwnedSocket(line) THEN process_ss_entry(c, line) ELSE c]

LineFn(c, line) == IF Query = "fd" THEN parse_fd_line(c, line) ELSE ss_line(c, line)

Reads(output) == run' = [run EXCEPT !.output = output, !.rest = TextOf(output.lines), !.leftover = <<>>]

\* The tables are made anew; the sockets query keeps its top10_counts, which
\* point into the table that is gone.
fd_run(output) ==
  /\ Runs("fd", output)
  /\ node' = WithContext([FdContext EXCEPT !.top10_pid_counts = Context.top10_pid_counts,
                                           !.top10_file_counts = Context.top10_file_counts])
  /\ Reads(output) /\ at' = "read" /\ UNCHANGED <<items, extrace>>

sockets_run(output) ==
  /\ Runs("sockets", output)
  /\ node' = WithContext([SocketsContext EXCEPT !.top10_counts = Context.top10_counts])
  /\ Reads(output) /\ at' = "read" /\ UNCHANGED <<items, extrace>>

\* foreach_line puts what was left over before the buffer.
Joined(leftover, buffer) == leftover \o buffer

\* One read and the buffer function.  no_line_count is 0 again after every
\* buffer, so that it never stops the reading.
read_output(n) ==
  /\ at = "read" /\ n \in 1..LeastOf(READ_SIZE, Len(run.rest))
  /\ LET text == Joined(run.leftover, SubSeq(run.rest, 1, n))
         step(acc, token) == IF acc.go THEN LineFn(acc.context, LineOf(run.output.lines, token)) ELSE acc
         done == FoldLeft(step, [go |-> TRUE, context |-> Context], Finished(text))
     IN /\ node' = WithContext(done.context)
        /\ run' = [run EXCEPT !.rest = SubSeq(@, n + 1, Len(@)),
                              !.leftover = IF done.go THEN Unfinished(text) ELSE <<>>]
  /\ UNCHANGED <<previous_interval, uv_timer, items, extrace, at, sent, rm_left>>

\* SEND_ERROR, SEND_FD_SUMMARY, SEND_DONE of the two queries.
FD_SUMMARY == ITEM_COUNT
FD_DONE == ITEM_COUNT + 1
FD_ERROR == ITEM_COUNT + 2
SOCKETS_DONE == ITEM_COUNT

fd_read ==
  /\ at = "read" /\ Query = "fd" /\ run.rest = <<>>
  /\ node' = WithContext(
       IF ~run.output.ok THEN [Context EXCEPT !.error_code = 3, !.send_state = FD_ERROR]
       ELSE [Context EXCEPT
               !.top10_pid_counts = populate_maximums(Context.pid_table, {e.key : e \in ToSet(Context.pid_table)}),
               !.top10_file_counts = populate_maximums(Context.file_table, Paths)])
  /\ at' = "send" /\ UNCHANGED <<previous_interval, uv_timer, items, extrace, run, sent, rm_left>>

sockets_read ==
  /\ at = "read" /\ Query = "sockets" /\ run.rest = <<>>
  /\ \/ ~run.output.ok /\ UNCHANGED node
     \/ /\ run.output.ok
        /\ \E keys \in SortedKeys(Context.pid_table) :
             LET fresh == LeastOf(ITEM_COUNT, Len(keys))
             IN node' = WithContext([Context EXCEPT
                   !.top10_counts = [k \in 1..ITEM_COUNT |-> IF k <= fresh THEN keys[k] ELSE @[k]],
                   !.fresh = fresh])
  /\ at' = "send" /\ UNCHANGED <<previous_interval, uv_timer, items, extrace, run, sent, rm_left>>

(***************************************************************************)
(* prepare_sbp, called until it returns false; what it prepared is sent.   *)
(***************************************************************************)
Message(key, n, seen) == [key |-> key, n |-> n, seen |-> seen]
Send(c, message) == node' = WithContext(c) /\ sent' = Append(sent, message) /\ UNCHANGED <<at, run>>
Stop(c) == node' = WithContext(c) /\ NextQuery

Prepares(q) == at = "send" /\ Query = q /\ UNCHANGED <<previous_interval, uv_timer, items, extrace, rm_left>>

sys_state_prepare ==
  /\ Prepares("sys_state")
  /\ LET c == [Context EXCEPT !.sent_sbp = @ + 1]
     IN IF Context.sent_sbp = 0 THEN Send(c, Message("sys_state", Context.pid_count, {})) ELSE Stop(c)

\* cpu and mem send all of their items, the empty ones too.
item_prepare(q) ==
  /\ Prepares(q)
  /\ IF Context.current_index >= ITEM_COUNT THEN Stop(Context)
     ELSE Send([Context EXCEPT !.current_index = @ + 1],
               Message(items[q][Context.current_index + 1], Context.current_index, {}))

cpu_prepare == item_prepare("cpu")
mem_prepare == item_prepare("mem")

\* The summary: "count NUL name NUL" of every file that fits, whole.  One
\* that does not is cut, and the two bytes that end it may cut the last too.
Digits(n) == IF n < 10 THEN 1 ELSE IF n < 100 THEN 2 ELSE IF n < 1000 THEN 3 ELSE IF n < 10000 THEN 4 ELSE 5

Summary(c) ==
  LET step(acc, file) ==
        LET n == table_get(c.file_table, file).n
            consumed == acc.consumed + Digits(n) + 1 + FileLen[file] + 1
        IN IF acc.cut \/ file = "" THEN acc
           ELSE IF consumed <= SUMMARY_MAX
           THEN [acc EXCEPT !.consumed = consumed, !.whole = Append(@, <<file, n>>)]
           ELSE [consumed |-> SUMMARY_MAX, cut |-> TRUE,
                 whole |-> IF acc.consumed = SUMMARY_MAX THEN Front(acc.whole) ELSE acc.whole]
      all == FoldLeft(step, [consumed |-> 0, cut |-> FALSE, whole |-> <<>>], c.top10_file_counts)
  IN [whole |-> ToSet(all.whole), len |-> LeastOf(all.consumed + 1, SUMMARY_MAX)]

query_fd_prepare ==
  /\ Prepares("fd")
  /\ LET few == Len(Context.pid_table) < ITEM_COUNT \/ Len(Context.file_table) < ITEM_COUNT
         c == IF few /\ Context.send_state # FD_DONE
              THEN [Context EXCEPT !.error_code = 4, !.send_state = FD_ERROR] ELSE Context
         next == [c EXCEPT !.send_state = @ + 1]
     IN \/ c.send_state \in {FD_DONE, FD_ERROR} /\ Stop(c)
        \/ /\ c.send_state < ITEM_COUNT
           /\ LET pid == c.top10_pid_counts[c.send_state + 1]
              IN IF pid = "" THEN Stop(c)
                 ELSE Send(next, Message(pid, table_get(c.pid_table, pid).n, {}))
        \/ c.send_state = FD_SUMMARY /\ Send(next, Message("summary", c.total_fd_count, Summary(c).whole))

\* Always ITEM_COUNT messages.  A top10_counts entry of an earlier run points
\* to memory that was freed, and one that was never set is NULL: the entry
\* found for it may be NULL, which is used all the same.
query_sockets_prepare ==
  /\ Prepares("sockets")
  /\ LET k == Context.send_state + 1
         pid == Context.top10_counts[k]
         found == \E i \in DOMAIN Context.pid_table : Context.pid_table[i].key = pid
         entry == table_get(Context.pid_table, pid)
     IN \/ Context.send_state = SOCKETS_DONE /\ Stop(Context)
        \/ /\ Context.send_state < SOCKETS_DONE /\ found
           /\ Send([Context EXCEPT !.send_state = @ + 1], Message(pid, entry.n, entry.seen))
        \/ /\ Context.send_state < SOCKETS_DONE /\ k > Context.fresh
           /\ at' = "null_entry" /\ UNCHANGED <<node, run, sent>>

RmNext ==
  \/ \E v \in RmIntervals : notify_interval_changed(v)
  \/ update_metrics \/ skip_query \/ cleanup
  \/ \E o \in rm_left.outputs["sys_state"] : sys_state_run(o)
  \/ \E o \in rm_left.outputs["cpu"] : cpu_run(o)
  \/ \E o \in rm_left.outputs["mem"] : mem_run(o)
  \/ \E o \in rm_left.outputs["fd"] : fd_run(o)
  \/ \E o \in rm_left.outputs["sockets"] : sockets_run(o)
  \/ \E n \in 1..READ_SIZE : read_output(n)
  \/ fd_read \/ sockets_read
  \/ sys_state_prepare \/ cpu_prepare \/ mem_prepare
  \/ query_fd_prepare \/ query_sockets_prepare

(***************************************************************************)
(* Properties.                                                             *)
(***************************************************************************)
\* No query runs, and no property is read, without the context that its
\* init() made: teardown leaves init_success set (resource_query.c:137-146),
\* so that it takes the timer's removal and the order of the priorities to
\* keep a torn-down query from being used.
ContextsAreLive == at # "null_context"

TrueCount(kept, pid) == Cardinality({k \in DOMAIN kept : kept[k].pid = pid})

\* Wherever the reads cut the output of lsof or ss, what is sent about it is
\* what the output says: the processes with the most open files or sockets,
\* each with its number of lines, none twice and none with more left out;
\* the summary has the number of lines, and its files theirs.  (Of an lsof
\* whose lines can all be counted, and an ss that names ITEM_COUNT
\* processes: see the hazards.)
ReportsAreTrue ==
  at = "send" /\ Query \in {"fd", "sockets"} /\ run.output.ok =>
    LET lines == run.output.lines
        kept == IF Query = "fd" THEN lines ELSE SelectSeq(lines, OwnedSocket)
        pids == {kept[k].pid : k \in DOMAIN kept}
        files == {kept[k].what : k \in DOMAIN kept} \cap RealFiles
        counts == SelectSeq(sent, LAMBDA m : m.key # "summary")
        named == {counts[i].key : i \in DOMAIN counts}
    IN /\ Cardinality(pids) \in ITEM_COUNT..MAX_PROCESS_COUNT
       /\ Query = "fd" => /\ \A k \in DOMAIN kept : parse_tab_line(kept[k], 3)
                          /\ Cardinality(files) <= MAX_FILE_COUNT
                          /\ \A f \in files : FileLen[f] < FILE_STR
       => /\ Cardinality(named) = Len(counts)
          /\ \A i \in DOMAIN counts : counts[i].n = TrueCount(kept, counts[i].key)
          /\ \A i \in DOMAIN counts, p \in pids :
               TrueCount(kept, p) > counts[i].n => p \in {counts[j].key : j \in 1..i - 1}
          /\ \A m \in ToSet(sent) : m.key = "summary" =>
               /\ m.n = Len(kept)
               /\ \A e \in m.seen : e[2] = Cardinality({k \in DOMAIN kept : kept[k].what = e[1]})

\* The monitor reports from live queries, and what it reports is so.
MonitorIsRight == ContextsAreLive /\ ReportsAreTrue
====
