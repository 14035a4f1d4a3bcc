------------------------------ MODULE MCPlatform ------------------------------
(***************************************************************************)
(* endpoint_adapter, part by part, and what lies under it and the daemons: *)
(* the event loop with the SBP connections on it, the kernel driver to the *)
(* other processor, the resource monitor and the metrics.  `part' says     *)
(* which one a behaviour is about; the variables of the others keep one    *)
(* value.                                                                  *)
(***************************************************************************)
EXTENDS AdapterFraming, PortFilter, AdapterWrite, AdapterProcess, CanAdapter,
        SbpReader, RpmsgDriver, ResourceMonitor, Metrics

VARIABLE part

adapter_vars == <<framing_vars, filter_vars, out_vars, proc_vars, can_vars>>
base_vars == <<sr_vars, rp_vars, rm_vars, me_vars>>
mc_vars == <<part, adapter_vars, base_vars>>

Parts == {"framing", "filter", "write", "process", "can", "sbp", "rpmsg", "resources", "metrics"}

\* The one state of a part that a behaviour is not about.
NoFraming == port_in = <<>> /\ consumed = 0 /\ framer = framer_create /\ published = <<>>
             /\ io_running = FALSE
NoFilter == wl = <<>> /\ config = NoFile /\ writing = NoFile /\ changes = 0
            /\ filter_pc = "none" /\ rules = <<>> /\ watched = FALSE /\ inotify = FALSE
            /\ missed = FALSE /\ seen = Zero /\ passed = Zero
NoWrite == tty = FALSE /\ accepted = 0 /\ written = FRAME_BYTES /\ kqueue = <<>>
           /\ port_out = <<>> /\ flushes = 0 /\ out_running = FALSE
NoProcess == io_mode = "none" /\ pub = FALSE /\ sub = FALSE /\ alt = FALSE
             /\ proc = [p \in Procs |-> NewProc("none")]
NoSbp ==
  /\ fds = {} /\ handles = <<>> /\ rx = << >> /\ tx = << >> /\ router = << >> /\ misuse = {}
  /\ uv = [phase |-> "idle", call |-> "none", stop |-> FALSE, batch |-> <<>>, timer |-> "off"]
  /\ sr_left = {}
NoRpmsg ==
  /\ resources = {} /\ opened = {} /\ probed = FALSE /\ channel = "none" /\ bus = BusIdle
  /\ rpmsg_ept = << >> /\ rpmsg_ready = << >> /\ tx_rpmsg_lock = << >>
  /\ rx_fifo = [e \in Epts |-> <<>>] /\ reads = [r \in RpReaders |-> "idle"]
  /\ writes = [w \in RpWriters |-> NotWriting] /\ wire = [e \in Epts |-> <<>>]
  /\ wrote = [id \in 1..MaxRpWrites |-> Pending] /\ rp_left = {}
NoResources ==
  /\ previous_interval = -1 /\ uv_timer = FALSE
  /\ node = [q \in Queries |-> [init_success |-> FALSE, context |-> NULL]]
  /\ items = [q \in {"cpu", "mem"} |-> NoKeys]
  /\ extrace = FALSE /\ at = "loop" /\ run = NotRunning /\ sent = <<>> /\ rm_left = {}
NoMetrics ==
  /\ descriptors = <<>> /\ files = << >> /\ me_lock = << >> /\ step = Idle
  /\ walk = {} /\ tree = << >> /\ settings = FALSE /\ logged = {} /\ me_left = {}

MCInit ==
  /\ part \in Parts
  /\ IF part = "framing" THEN FramingInit ELSE NoFraming
  /\ IF part = "filter" THEN FilterInit ELSE NoFilter
  /\ IF part = "write" THEN OutInit ELSE NoWrite
  /\ IF part = "process" THEN ProcInit ELSE NoProcess
  /\ CanInit
  /\ IF part = "sbp" THEN SrInit ELSE NoSbp
  /\ IF part = "rpmsg" THEN RpInit ELSE NoRpmsg
  /\ IF part = "resources" THEN RmInit ELSE NoResources
  /\ IF part = "metrics" THEN MeInit ELSE NoMetrics

MCNext ==
  \/ part = "framing" /\ FramingNext /\ UNCHANGED <<part, base_vars, filter_vars, out_vars, proc_vars, can_vars>>
  \/ part = "filter" /\ FilterNext /\ UNCHANGED <<part, base_vars, framing_vars, out_vars, proc_vars, can_vars>>
  \/ part = "write" /\ OutNext /\ UNCHANGED <<part, base_vars, framing_vars, filter_vars, proc_vars, can_vars>>
  \/ part = "process" /\ ProcNext /\ UNCHANGED <<part, base_vars, framing_vars, filter_vars, out_vars, can_vars>>
  \/ part = "can" /\ CanNext /\ UNCHANGED <<part, base_vars, framing_vars, filter_vars, out_vars, proc_vars>>
  \/ part = "sbp" /\ SrNext /\ UNCHANGED <<part, adapter_vars, rp_vars, rm_vars, me_vars>>
  \/ part = "rpmsg" /\ RpNext /\ UNCHANGED <<part, adapter_vars, sr_vars, rm_vars, me_vars>>
  \/ part = "resources" /\ RmNext /\ UNCHANGED <<part, adapter_vars, sr_vars, rp_vars, me_vars>>
  \/ part = "metrics" /\ MeNext /\ UNCHANGED <<part, adapter_vars, sr_vars, rp_vars, rm_vars>>

\* Every thread of the CAN adapter keeps running; uv_run goes on with an
\* iteration it has begun and its timer expires; the scheduler runs a reader
\* that the driver has woken.
MCSpec ==
  /\ MCInit /\ [][MCNext]_mc_vars
  /\ WF_can_vars(part = "can" /\ CanMain)
  /\ WF_can_vars(part = "can" /\ CanReader)
  /\ WF_can_vars(part = "can" /\ CanWriter)
  /\ WF_sr_vars(part = "sbp" /\ SrLoop)
  /\ WF_rp_vars(part = "rpmsg" /\ \E r \in RpReaders : ept_cdev_read_steps(r))

-----------------------------------------------------------------------------
WithCrc(bytes) == Append(bytes, crc24q(bytes))

MCPieces ==
  {WithCrc(<<7, 0, 1, 7>>), WithCrc(<<7, 0, 2, 7, 1>>), <<7, 0, 1, 3, 5>>, <<7>>, <<0>>,
   WithCrc(<<7, 0, 0>>)}

MCSettings ==
  {s \in UNION {[1 .. n -> Tokens] : n \in 0 .. 2} :
     \A i \in 1 .. Len(s) - 1 : ~(s[i] \in Numbers /\ s[i + 1] \in Numbers)}
  \cup {<<1, SEPARATOR, 2, DIVIDER, 2>>, <<1, DIVIDER, 3, SEPARATOR, 1>>, <<2, BLANK, 1>>,
        <<1, DIVIDER, 2, DIVIDER, 3>>, <<1, BLANK, DIVIDER, 4>>}

SrLoad(w, r, p, s) == [waits |-> w, runs |-> r, publish |-> p, stops |-> s, asked |-> 0]
MCSrLoads == {SrLoad(2, 0, 1, 1), SrLoad(0, 1, 1, 2)}

MCRpDevice == [t \in RpReaders \cup RpWriters |-> 1]
RpLoad(t, w, r, c, f) == [threads |-> t, writes |-> w, records |-> r, channels |-> c, faults |-> f]
MCRpLoads == {RpLoad(RpWriters, 2, 0, 1, 1), RpLoad({"w1"}, 1, 0, 2, 2), RpLoad(RpReaders, 0, 2, 2, 0)}

Line(kind, fields, pid, what, len) == [kind |-> kind, fields |-> fields, pid |-> pid, what |-> what, len |-> len]
Lsof(pid, file, len) == Line("ext", 3, pid, file, len)
Ss(kind, pid, what, len) == Line(kind, IF kind = "uds" THEN 9 ELSE 7, pid, what, len)
Ps(fields, pid, len) == Line("ext", fields, pid, "", len)
Out(lines, ok) == [lines |-> lines, ok |-> ok]
MCOrder == <<"fd", "sockets", "mem", "cpu", "sys_state">>
MCFileLen == [f \in {"/a", "/b", "/c", "anon", "pipe"} |-> IF f = "/c" THEN 4 ELSE 2]
MCFds == {Out(<<Lsof("1", "/a", 2), Lsof("1", "/b", 1), Lsof("2", "/a", 3), Lsof("2", "pipe", 2), Lsof("2", "anon", 2),
                Lsof("3", "/a", 1)>>, TRUE),
          Out(<<Lsof("1", "/a", 2), Lsof("2", "/b", 3), Line("ext", 2, "2", "/a", 2), Lsof("2", "/a", 2)>>, TRUE),
          Out(<<Lsof("1", "/a", 2), Lsof("2", "/c", 3), Lsof("3", "/b", 2), Lsof("3", "/a", 2)>>, TRUE),
          Out(<<Lsof("1", "/a", 2), Lsof("2", "/b", 3)>>, FALSE)}
MCSockets == {Out(<<Line("skip", 5, "", <<"", "">>, 3), Ss("uds", "1", <<"u_str", "ESTAB">>, 2), Ss("ext", "2", <<"tcp", "LISTEN">>, 3),
                    Ss("ext", "2", <<"tcp", "ESTAB">>, 1)>>, TRUE),
              Out(<<Ss("uds", "3", <<"u_str", "ESTAB">>, 2), Line("ext", 6, "3", <<"tcp", "ESTAB">>, 3), Ss("ext", "4", <<"udp", "UNCONN">>, 2)>>, TRUE),
              Out(<<Ss("uds", "2", <<"u_str", "ESTAB">>, 2)>>, TRUE),
              Out(<<Ss("uds", "2", <<"u_str", "ESTAB">>, 2)>>, FALSE)}
MCPs2 == {Out(<<Ps(2, "1", 2), Ps(2, "2", 2)>>, TRUE), Out(<<Ps(2, "1", 2), Ps(2, "2", 2), Ps(2, "3", 3)>>, TRUE), Out(<<>>, FALSE)}
MCPs4 == {Out(<<Ps(4, "1", 2), Ps(4, "2", 2), Ps(4, "3", 3)>>, TRUE), Out(<<Ps(4, "1", 2), Ps(3, "2", 2)>>, TRUE), Out(<<>>, FALSE)}
One(S) == {CHOOSE o \in S : o.ok}
Cell == <<1, 1>>
MCPsInit == {[chunks |-> <<<<Cell, NL, Cell, NL>>, <<Cell, NL>>>>, ok |-> TRUE], [chunks |-> <<<<Cell, NL, Cell>>, <<Cell, NL>>, <<Cell, NL>>>>, ok |-> TRUE],
             [chunks |-> <<>>, ok |-> FALSE]}
RmLoad(some, ps, mem, runs, sets) ==
  [outputs |-> [q \in Queries |-> LET all == CASE q = "fd" -> MCFds [] q = "sockets" -> MCSockets [] q = "sys_state" -> MCPs2 [] OTHER -> MCPs4
                                  IN IF q \in some THEN all ELSE One(all)],
   ps |-> ps, mem_total |-> mem, runs |-> runs, sets |-> sets]
MCRmLoads == {RmLoad({"fd"}, One(MCPsInit), {1}, 2, 1), RmLoad({"sockets"}, One(MCPsInit), {1}, 2, 1),
              RmLoad({"sys_state", "mem", "cpu"}, One(MCPsInit), {1}, 2, 1), RmLoad({}, MCPsInit, {0, 1}, 1, 3)}

Metric(path, updater, num, dom) == [path |-> path, type |-> "u32", updater |-> updater, num |-> num, dom |-> dom,
                                    reset |-> path[1] # "error"]
\* A total that is kept, a sum of each interval, and their quotient.
MCTable == <<Metric(<<"error", "total">>, "count", 0, 0), Metric(<<"rx", "size", "total">>, "sum", 0, 0),
             Metric(<<"rx", "size", "average">>, "average", 2, 1)>>
MeLoad(u, f, r, w, x) == [updates |-> u, flushes |-> f, restarts |-> r, walks |-> w, faults |-> x]
MCMeLoads == {MeLoad(1, 2, 0, 1, 0), MeLoad(1, 1, 1, 1, 0), MeLoad(0, 0, 0, 1, 1)}
=============================================================================
