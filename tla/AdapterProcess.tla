--------------------------- MODULE AdapterProcess ---------------------------
(***************************************************************************)
(* The life of an endpoint_adapter: each mode opens its port, runs the I/O *)
(* loop on it (io_loop_run: the event loop, the endpoints, four handles)   *)
(* and closes what it opened; a TCP or UDP client starts over, a TCP       *)
(* server forks a child for every client.                                  *)
(*                                                                         *)
(* Descriptors are numbers, the lowest free one is given to what is opened *)
(* next, and a process that closes a number closes whatever is there.      *)
(* loop_ctx is static: a handle that was never initialised names           *)
(* descriptor 0 twice.                                                     *)
(***************************************************************************)
EXTENDS Integers, Sequences, SequencesExt, FiniteSetsExt

CONSTANTS
  Children,     \* processes a TCP server may fork
  MaxFd,        \* descriptors of a process: 0 .. MaxFd
  MaxRounds     \* bound on the rounds of a client mode

VARIABLES
  io_mode, pub, sub, alt,  \* the options
  proc                     \* what every process is, see ProcInit

proc_vars == <<io_mode, pub, sub, alt, proc>>

Parent == 0
Procs == {Parent} \union Children
Fds == 0 .. MaxFd
Free == "free"

-----------------------------------------------------------------------------
(***************************************************************************)
(* Descriptors and handles.                                                *)
(***************************************************************************)
Lowest(t) == Min({f \in Fds : t[f] = Free} \union {MaxFd + 1})
Full(t) == Lowest(t) > MaxFd
Closed(t, f) == IF f \in Fds THEN [t EXCEPT ![f] = Free] ELSE t

\* Open the objects of a sequence, one after the other.
Opened(t, objs) ==
  FoldLeft(LAMBDA u, o : IF Full(u) THEN u ELSE [u EXCEPT ![Lowest(u)] = o], t, objs)
Where(t, o) == CHOOSE f \in Fds : t[f] = o

\* A handle of loop_ctx before its first handle_init.
Zeroed == [ept |-> -1, read_fd |-> 0, write_fd |-> 0]

\* handle_deinit closes the endpoint and the descriptors and forgets them.
handle_deinit(p, h) ==
  LET t == Closed(p.fds, p.handles[h].ept)
      u == Closed(t, p.handles[h].read_fd)
  IN [p EXCEPT !.fds = Closed(u, p.handles[h].write_fd),
               !.handles[h] = [ept |-> -1, read_fd |-> -1, write_fd |-> -1]]

\* What io_loop_run opens, in its order: the event loop, the endpoints.
Endpoints(read_fd, write_fd) ==
  <<"loop">>
    \o (IF pub /\ read_fd # -1 THEN <<"pub">> ELSE <<>>)
    \o (IF alt THEN <<"alt_pub">> ELSE <<>>)
    \o (IF sub /\ write_fd # -1 THEN <<"sub">> ELSE <<>>)
    \o (IF alt THEN <<"alt_sub">> ELSE <<>>)

\* An endpoint of this round: the alternate ones of earlier rounds are left.
Aged(t) == [f \in Fds |-> IF t[f] \in {"alt_pub", "alt_sub"} THEN "old" ELSE t[f]]

handles_init(p, t, read_fd, write_fd) ==
  LET fd(o) == IF \E f \in Fds : t[f] = o THEN Where(t, o) ELSE -1
      h0 == p.handles
      h1 == IF ~(pub /\ read_fd # -1) THEN h0
            ELSE [h0 EXCEPT !["pub"] = [ept |-> fd("pub"), read_fd |-> -1, write_fd |-> -1],
                            !["read"] = [ept |-> -1, read_fd |-> read_fd, write_fd |-> -1]]
  IN IF ~(sub /\ write_fd # -1) THEN h1
     ELSE [h1 EXCEPT !["sub"] = [ept |-> fd("sub"), read_fd |-> -1, write_fd |-> -1],
                     !["write"] = [ept |-> -1, read_fd |-> -1, write_fd |-> write_fd]]

-----------------------------------------------------------------------------
(***************************************************************************)
(* A process: pc, its descriptors, the handles of loop_ctx, the numbers    *)
(* its mode holds (port, port_w, server).                                  *)
(***************************************************************************)
Std(f) == CASE f = 0 -> "stdin" [] f = 1 -> "stdout" [] f = 2 -> "stderr" [] OTHER -> Free

NewProc(pc) ==
  [pc |-> pc, fds |-> [f \in Fds |-> Std(f)],
   handles |-> [h \in {"pub", "sub", "read", "write"} |-> Zeroed],
   port |-> -1, port_w |-> -1, server |-> -1, rounds |-> 0, accepted |-> Free]

ProcInit ==
  /\ io_mode \in {"stdio", "file", "tcp_listen", "tcp_connect", "udp_listen", "udp_connect"}
  /\ pub \in BOOLEAN /\ sub \in BOOLEAN /\ (pub \/ sub)
  /\ alt \in (IF io_mode \in {"tcp_listen", "tcp_connect"} THEN BOOLEAN ELSE {FALSE})
  /\ proc = [p \in Procs |-> IF p = Parent THEN NewProc("open") ELSE NewProc("none")]

Become(p, new) == proc' = [proc EXCEPT ![p] = new] /\ UNCHANGED <<io_mode, pub, sub, alt>>

\* A mode that cannot open its port returns and main() ends the process (a
\* client tries again after a while, which is no step here); a signal ends it
\* anywhere.
Exits(p) ==
  /\ proc[p].pc \in {"open", "accept", "run"}
  /\ Become(p, [proc[p] EXCEPT !.pc = "exited", !.fds = [f \in Fds |-> Free]])

tcp_listen_loop ==
  /\ proc[Parent].pc = "open" /\ io_mode = "tcp_listen"
  /\ LET t == Opened(proc[Parent].fds, <<"server">>)
     IN Become(Parent, [proc[Parent] EXCEPT !.fds = t, !.pc = "accept", !.server = Where(t, "server")])

\* The other modes open their port and run the I/O loop.  Starts: with the
\* descriptors t, reading from read_fd and writing to write_fd (-1 is none).
Starts(p, t, read_fd, write_fd) ==
  /\ proc[p].pc = "open" /\ proc[p].rounds < MaxRounds
  /\ Become(p, [proc[p] EXCEPT !.pc = "start", !.fds = t, !.port = read_fd, !.port_w = write_fd])

OnePort(p) == Opened(proc[p].fds, <<"port">>)
TwoPorts(p) == Opened(proc[p].fds, <<"port", "port_w">>)

\* The socket, and a dup() of it to write to.
tcp_connect_loop(p) ==
  LET t == TwoPorts(p)
  IN /\ io_mode = "tcp_connect" /\ \E f \in Fds : t[f] = "port_w"
     /\ Starts(p, t, Where(t, "port"), Where(t, "port_w"))

\* The file is opened once for each direction that is needed.
file_loop(p) ==
  LET one == OnePort(p)
      two == TwoPorts(p)
  IN /\ io_mode = "file"
     /\ \/ /\ pub /\ sub /\ \E f \in Fds : two[f] = "port_w"
           /\ Starts(p, two, Where(two, "port"), Where(two, "port_w"))
        \/ pub /\ ~sub /\ Starts(p, one, Where(one, "port"), -1)
        \/ ~pub /\ sub /\ Starts(p, one, -1, Where(one, "port"))

udp_listen_loop(p) ==
  LET t == OnePort(p) IN io_mode = "udp_listen" /\ Starts(p, t, Where(t, "port"), -1)

udp_connect_loop(p) ==
  LET t == OnePort(p) IN io_mode = "udp_connect" /\ Starts(p, t, -1, Where(t, "port"))

stdio_loop(p) == io_mode = "stdio" /\ Starts(p, proc[p].fds, 0, 1)

OpenPort(p) ==
  tcp_connect_loop(p) \/ file_loop(p) \/ udp_listen_loop(p) \/ udp_connect_loop(p) \/ stdio_loop(p)

\* server_loop: accept, fork; the child gives up the server socket and runs
\* the I/O loop on the client's.  The parent closes its copy.
server_loop(c) ==
  LET q == proc[Parent]
      t == Opened(Closed(Opened(q.fds, <<"port">>), q.server), <<"port_w">>)
  IN /\ q.pc = "accept" /\ q.fds[q.server] = "server" /\ proc[c].pc = "none"
     /\ Become(c, [q EXCEPT !.pc = "start", !.fds = t, !.accepted = Free,
                            !.port = Where(t, "port"), !.port_w = Where(t, "port_w")])

\* In a child, or if its socket is gone, accept fails and the process ends.
server_accept(p) ==
  /\ io_mode = "tcp_listen" /\ proc[p].pc = "accept" /\ p # Parent
  /\ Become(p, [proc[p] EXCEPT !.pc = "exited",
                  !.accepted = proc[p].fds[proc[p].server],
                  !.fds = [f \in Fds |-> Free]])

\* io_loop_run up to the event loop.  Every call can fail, and so it does when
\* no descriptor is free: die_error ends the process.
io_loop_run(p) ==
  LET q == proc[p]
      objs == Endpoints(q.port, q.port_w)
      t == Opened(Aged(q.fds), objs)
  IN /\ q.pc = "start"
     /\ IF \A o \in Range(objs) : \E f \in Fds : t[f] = o
        THEN Become(p, [q EXCEPT !.pc = "run", !.fds = t,
                                 !.handles = handles_init(q, t, q.port, q.port_w)])
        ELSE Become(p, [q EXCEPT !.pc = "exited", !.fds = [f \in Fds |-> Free]])

\* Mutant: only one of the two descriptors of the port is closed.
io_loop_end_once(p) ==
  LET q == FoldLeft(handle_deinit, proc[p], <<"pub", "sub", "read", "write">>)
      t == [f \in Fds |-> IF q.fds[f] = "loop" THEN Free ELSE q.fds[f]]
      u == IF io_mode = "stdio" THEN t ELSE Closed(t, q.port)
  IN /\ proc[p].pc = "run"
     /\ Become(p, [q EXCEPT !.fds = u, !.rounds = @ + 1,
                     !.pc = IF io_mode \in {"tcp_connect", "udp_connect"} THEN "open"
                            ELSE IF io_mode = "tcp_listen" THEN "accept" ELSE "exited"])

\* ... and after it: the handles, the event loop, and what the mode closes.
io_loop_end(p) ==
  LET q == FoldLeft(handle_deinit, proc[p], <<"pub", "sub", "read", "write">>)
      t == [f \in Fds |-> IF q.fds[f] = "loop" THEN Free ELSE q.fds[f]]
      u == IF io_mode = "stdio" THEN t ELSE Closed(Closed(t, q.port_w), q.port)
  IN /\ proc[p].pc = "run"
     /\ Become(p, [q EXCEPT !.fds = u, !.rounds = @ + 1,
                     !.pc = IF io_mode \in {"tcp_connect", "udp_connect"} THEN "open"
                            ELSE IF io_mode = "tcp_listen" THEN "accept" ELSE "exited"])

ProcNext ==
  \/ \E p \in Procs : Exits(p) \/ OpenPort(p) \/ io_loop_run(p) \/ io_loop_end(p) \/ server_accept(p)
  \/ tcp_listen_loop \/ \E c \in Children : server_loop(c)

-----------------------------------------------------------------------------
\* Every round gives back what it took: when a client mode is about to open
\* its port again nothing of the last round is open, but for the alternate
\* endpoints, which io_loop_run never destroys.  And a child of a TCP server
\* serves one client: its next accept() finds the server's number closed,
\* although dup() was given the same number.
RoundsLeaveNothing ==
  /\ \A p \in Procs : proc[p].pc = "open" =>
       \A f \in Fds :
         proc[p].fds[f] \in {Free, "stdin", "stdout", "stderr", "old", "alt_pub", "alt_sub"}
  /\ \A c \in Children : proc[c].accepted = Free
=============================================================================
