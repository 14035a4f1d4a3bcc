---------------------------- MODULE ChildSupervisor ----------------------------
(***************************************************************************)
(* The settings mode of ntrip_daemon and of skylark_daemon: a process that *)
(* owns the settings and starts, stops and signals its children, a network *)
(* client and the endpoint_adapter at the other end of its FIFO            *)
(* (ntrip_settings.c, skylark_settings.c, pk_settings_loop and its signal  *)
(* handlers in settings_client.c, reap_children in util.c).                *)
(*                                                                         *)
(* The SIGCHLD handler interleaves with every step of the main thread.     *)
(* The sleep(0.5) and sleep(0.1) of the stop functions are sleep(0): they  *)
(* wait for nothing.  A client goes through "exec" (no handler installed:  *)
(* SIGTERM and SIGUSR1 end it), "handlers" (installed, but network_setup   *)
(* still clears the shutdown flag) and "running".                          *)
(***************************************************************************)
EXTENDS Integers, Sequences, FiniteSets

CONSTANTS Daemons,     \* which of "ntrip" and "skylark"
          Pids,        \* process numbers, used again once a child is reaped
          Urls,        \* values of the url setting
          MaxSupWrites,  \* bound on writes of settings
          MaxCommands, \* bound on reconnect commands
          MaxDeaths    \* bound on children that end by themselves

VARIABLES daemon,    \* "ntrip" or "skylark"
          enabled,   \* the enable setting
          url,       \* the url setting
          pids,      \* ntrip_processes, skylark_processes: the pid of each entry, 0 none
          child,     \* the children the kernel knows
          main,      \* the main thread: [step, i, pid]
          todo       \* [changes, commands, deaths] still to come

sup_vars == <<daemon, enabled, url, pids, child, main, todo>>

NoPid == 0
ASSUME PidsAssumption == Pids \subseteq Nat \ {NoPid}

Processes == IF daemon = "ntrip" THEN <<"adapter", "client">>
             ELSE <<"client", "adapter", "adapter", "client">>
Count == Len(Processes)

Absent == [state |-> "absent", entry |-> 0, url |-> 0]
Idle == [step |-> "idle", i |-> 0, pid |-> NoPid]

SupInit ==
  /\ daemon \in Daemons
  /\ enabled = FALSE
  /\ url \in Urls
  /\ pids = [i \in 1 .. Count |-> NoPid]
  /\ child = [p \in Pids |-> Absent]
  /\ main = Idle
  /\ todo = [changes |-> MaxSupWrites, commands |-> MaxCommands, deaths |-> MaxDeaths]

Alive(p) == child[p].state \notin {"absent", "zombie"}
Client(p) == Processes[child[p].entry] = "client"

-----------------------------------------------------------------------------
(* Signals the main thread sends.                                          *)

\* SIGTERM: what it does depends on how far the child has come.
Terminated(p) ==
  LET s == child[p].state
  IN  [child EXCEPT ![p].state =
         CASE s = "exec" -> "zombie"
           [] s = "running" -> "ending"
           [] OTHER -> s]

Killed(p) == [child EXCEPT ![p].state = IF Alive(p) THEN "zombie" ELSE @]

-----------------------------------------------------------------------------
(* Starting and stopping: one entry after the other, as the loops do.      *)

At(step) == main.step = step

\* ntrip_notify_enable, skylark_notify
notify_enable(v) ==
  /\ At("idle") /\ todo.changes > 0
  /\ enabled' = v
  /\ main' = [step |-> "stop", i |-> 1, pid |-> NoPid]
  /\ todo' = [todo EXCEPT !.changes = @ - 1]
  /\ UNCHANGED <<daemon, url, pids, child>>

\* The url: refused while NTRIP is enabled, and a restart of skylark.
ntrip_notify_generic(v) ==
  /\ At("idle") /\ todo.changes > 0
  /\ todo' = [todo EXCEPT !.changes = @ - 1]
  /\ url' = IF daemon = "ntrip" /\ enabled THEN url ELSE v
  /\ main' = IF daemon = "ntrip" THEN main ELSE [step |-> "stop", i |-> 1, pid |-> NoPid]
  /\ UNCHANGED <<daemon, enabled, pids, child>>

stop_process_term ==
  /\ At("stop")
  /\ IF pids[main.i] = NoPid
     THEN main' = [main EXCEPT !.step = "start"] /\ UNCHANGED child
     ELSE /\ child' = Terminated(pids[main.i])
          /\ main' = [main EXCEPT !.step = "kill"]
  /\ UNCHANGED <<daemon, enabled, url, pids, todo>>

\* Mutant: a child that ignores SIGTERM is forgotten.
stop_process_nokill ==
  /\ At("kill")
  /\ pids' = [pids EXCEPT ![main.i] = NoPid]
  /\ main' = [main EXCEPT !.step = "start"]
  /\ UNCHANGED <<daemon, enabled, url, child, todo>>

\* ntrip_stop_process kills what is still recorded; skylark_stop_process forgets it.
stop_process_kill ==
  /\ At("kill")
  /\ child' = IF daemon = "ntrip" /\ pids[main.i] # NoPid THEN Killed(pids[main.i]) ELSE child
  /\ pids' = [pids EXCEPT ![main.i] = NoPid]
  /\ main' = [main EXCEPT !.step = "start"]
  /\ UNCHANGED <<daemon, enabled, url, todo>>

NextEntry == IF main.i < Count THEN [step |-> "stop", i |-> main.i + 1, pid |-> NoPid] ELSE Idle

start_process_skip ==
  /\ At("start") /\ ~enabled
  /\ main' = NextEntry
  /\ UNCHANGED <<daemon, enabled, url, pids, child, todo>>

start_process_fork ==
  /\ At("start") /\ enabled
  /\ \E p \in Pids :
       /\ child[p] = Absent
       /\ child' = [child EXCEPT ![p] = [state |-> "exec", entry |-> main.i, url |-> url]]
       /\ main' = [main EXCEPT !.step = "store", !.pid = p]
  /\ UNCHANGED <<daemon, enabled, url, pids, todo>>

start_process_store ==
  /\ At("store")
  /\ pids' = [pids EXCEPT ![main.i] = main.pid]
  /\ main' = NextEntry
  /\ UNCHANGED <<daemon, enabled, url, child, todo>>

-----------------------------------------------------------------------------
(* The signal handlers and the control command.                            *)

\* Mutant: every entry is cleared, not that of the child.
record_exit_all(p) == [i \in 1 .. Count |-> NoPid]

\* ntrip_record_exit, skylark_record_exit
record_exit(p) == [i \in 1 .. Count |-> IF pids[i] = p THEN NoPid ELSE pids[i]]

\* SIGCHLD: reap_children with the record of the exit.
reap_children ==
  \E p \in Pids :
    /\ child[p].state = "zombie"
    /\ child' = [child EXCEPT ![p] = Absent]
    /\ pids' = record_exit(p)
    /\ UNCHANGED <<daemon, enabled, url, main, todo>>

\* control_handler with ntrip_reconnect or skylark_reconnect_dl: SIGUSR1 to the client.
reconnect ==
  /\ At("idle") /\ todo.commands > 0
  /\ todo' = [todo EXCEPT !.commands = @ - 1]
  /\ LET p == pids[Count]
         ends == p # NoPid /\ child[p].state = "exec"
     IN child' = IF ends THEN Killed(p) ELSE child
  /\ UNCHANGED <<daemon, enabled, url, pids, main>>

-----------------------------------------------------------------------------
(* The children.                                                           *)

\* ntrip_client_loop, skylark_download_mode, skylark_upload_mode: the signal
\* handlers are installed after the FIFO is open, network_setup comes after that.
child_proceeds(p) ==
  /\ child[p].state \in {"exec", "handlers", "ending"}
  /\ child' = [child EXCEPT ![p].state =
       CASE @ = "exec" /\ Client(p) -> "handlers"
         [] @ = "exec" /\ ~Client(p) -> "running"
         [] @ = "handlers" -> "running"
         [] @ = "ending" -> "zombie"]
  /\ UNCHANGED <<daemon, enabled, url, pids, main, todo>>

child_ends(p) ==
  /\ Alive(p) /\ todo.deaths > 0
  /\ child' = [child EXCEPT ![p].state = "zombie"]
  /\ todo' = [todo EXCEPT !.deaths = @ - 1]
  /\ UNCHANGED <<daemon, enabled, url, pids, main>>

SupMain ==
  \/ stop_process_term \/ stop_process_kill
  \/ start_process_skip \/ start_process_fork \/ start_process_store

SupNext ==
  \/ SupMain \/ reap_children \/ reconnect
  \/ \E v \in BOOLEAN : notify_enable(v)
  \/ \E v \in Urls : ntrip_notify_generic(v)
  \/ \E p \in Pids : child_proceeds(p) \/ child_ends(p)

SupSpec == SupInit /\ [][SupNext]_sup_vars

-----------------------------------------------------------------------------
(* Properties.                                                             *)

\* ntrip_start_processes never has two live children for one entry, whatever the
\* order of exits, SIGCHLD and restarts (two clients would both write into the
\* one FIFO), and a live child of an idle settings mode is in the table, so that
\* it can be stopped and signalled.
ChildrenAreKnown ==
  daemon = "ntrip" =>
    /\ \A p, q \in Pids : Alive(p) /\ Alive(q) /\ child[p].entry = child[q].entry => p = q
    /\ At("idle") => \A p \in Pids : Alive(p) => \E i \in 1 .. Count : pids[i] = p

\* A client of the NTRIP settings mode runs with the settings as they are:
\* ntrip_notify_generic refuses a change that the running client would not see.
ClientHasSettings ==
  daemon = "ntrip" /\ At("idle") => \A p \in Pids : Alive(p) => child[p].url = url

\* The settings mode knows its children and they know its settings.
ChildrenAreInHand == ChildrenAreKnown /\ ClientHasSettings

\* Disabled, the NTRIP settings mode ends up without children.
DisabledStops ==
  (daemon = "ntrip" /\ ~enabled) ~> (enabled \/ \A p \in Pids : ~Alive(p))
=============================================================================
