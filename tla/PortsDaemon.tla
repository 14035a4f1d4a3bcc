---------------------------- MODULE PortsDaemon -----------------------------
(***************************************************************************)
(* ports_daemon: a change of a port's settings stops the port's runit      *)
(* service and starts it with a new command line (ports.c, runit.c).  The  *)
(* service's supervisor, runsv, is a process of its own that reads one     *)
(* command after the other from a pipe, and the adapter another, that      *)
(* takes its time to end after SIGTERM.                                    *)
(*                                                                         *)
(* runsv is external: its commands are "d" (want down, TERM), "u" (want    *)
(* up, start if nothing runs) and "o" (want down, start if nothing runs).  *)
(***************************************************************************)
EXTENDS Integers, Sequences, FiniteSets

CONSTANTS
  Ports,          \* names of the ports
  Scenarios,      \* ports whose settings are written together, and how often: [ports, changes]
  RestartPorts,   \* those with restart = RESTART (uart, usb)
  CanPorts,       \* those of type CAN
  Modes,          \* protocols a port may speak, MODE_SBP among them
  MODE_SBP,
  MODE_DISABLED,
  Opts,           \* values of a port's other setting (address, port, CAN id)
  MaxExits        \* bound on the adapters that end by themselves

ASSUME PortsAssumption ==
  /\ "none" \notin Ports /\ RestartPorts \subseteq Ports /\ CanPorts \subseteq Ports
  /\ \A s \in Scenarios : s.ports \subseteq Ports
  /\ MODE_SBP # MODE_DISABLED

VARIABLES
  active,       \* the ports whose settings are written
  mode, opts, first_start,  \* port_config_t
  fileio_opts,  \* the static buffer of get_fileio_opts: a port, or None
  step,         \* where port_configure is: [port, at]
  todo,         \* changes of settings left
  run_script,   \* the command in <service>/run, or None
  control,      \* commands in supervise/control
  want,         \* runsv: "up" or "down"
  term,         \* runsv sent TERM to the process that runs
  adapter,      \* the command the running adapter was started with, or None
  raced,        \* stop_runit_service found the service between two states
  exits

ports_vars == <<active, mode, opts, first_start, fileio_opts, step, todo, run_script, control, want,
                term, adapter, raced, exits>>
runsv_vars == <<control, want, term, adapter, exits>>

None == [mode |-> MODE_DISABLED, opts |-> 0, fileio |-> "none"]
Idle_ == [port |-> "none", at |-> "idle"]

PortsInit ==
  /\ \E s \in Scenarios : active = s.ports /\ todo = s.changes
  /\ mode = [p \in Ports |-> MODE_SBP] /\ opts \in [Ports -> {0}]
  /\ first_start = [p \in Ports |-> TRUE] /\ fileio_opts = "none"
  /\ step = Idle_
  /\ run_script = [p \in Ports |-> None] /\ control = [p \in Ports |-> <<>>]
  /\ want = [p \in Ports |-> "down"] /\ term = [p \in Ports |-> FALSE]
  /\ adapter = [p \in Ports |-> None] /\ raced = [p \in Ports |-> FALSE] /\ exits = 0

-----------------------------------------------------------------------------
(***************************************************************************)
(* runit.c.                                                                *)
(***************************************************************************)
\* supervise/stat, as stat_runit_service understands it: "run" and "run, want
\* down" are running, anything with "got TERM" is not known.
stat_runit_service(p) ==
  CASE adapter[p] = None -> "down"
    [] adapter[p] # None /\ ~term[p] -> "running"
    [] OTHER -> "unknown"

Between(p) == stat_runit_service(p) = "unknown"
              \/ (stat_runit_service(p) = "down" /\ want[p] = "up") \/ control[p] # <<>>

\* stop_runit_service: "d" to a service that is running, nothing to another.
stop_runit_service(p) ==
  /\ control' = IF stat_runit_service(p) = "running" THEN [control EXCEPT ![p] = Append(@, "d")]
                ELSE control
  /\ raced' = [raced EXCEPT ![p] = Between(p)]

-----------------------------------------------------------------------------
(***************************************************************************)
(* ports.c.                                                                *)
(***************************************************************************)
\* Mutant: the buffer is only written the first time.
get_fileio_opts_stale(p) == IF mode[p] = MODE_SBP /\ fileio_opts = "none" THEN p ELSE fileio_opts

\* get_fileio_opts: written for a port in SBP mode, and returned as it is.
get_fileio_opts(p) == IF mode[p] = MODE_SBP THEN p ELSE fileio_opts

Command(p) ==
  [mode |-> mode[p], opts |-> opts[p],
   fileio |-> IF p \in CanPorts THEN "none" ELSE get_fileio_opts(p)]

\* A setting of the port is written, and port_configure is called.  A setting
\* other than the mode has no effect before the first mode.
setting_mode_notify(p, m) ==
  /\ step = Idle_ /\ (m = mode[p] => first_start[p]) /\ (todo > 0 \/ first_start[p])
  /\ mode' = [mode EXCEPT ![p] = m]
  /\ todo' = IF first_start[p] THEN todo ELSE todo - 1
  /\ IF first_start[p]
     THEN /\ first_start' = [first_start EXCEPT ![p] = FALSE]
          /\ UNCHANGED <<control, raced>>
     ELSE stop_runit_service(p) /\ UNCHANGED first_start
  /\ step' = IF m = MODE_DISABLED THEN Idle_ ELSE [port |-> p, at |-> "script"]
  /\ UNCHANGED <<opts, fileio_opts, run_script, want, term, adapter, exits>>

setting_opts_notify(p, o) ==
  /\ step = Idle_ /\ todo > 0 /\ o # opts[p] /\ p \notin CanPorts
  /\ opts' = [opts EXCEPT ![p] = o] /\ todo' = todo - 1
  /\ IF first_start[p] THEN UNCHANGED <<control, raced, step>>
     ELSE /\ stop_runit_service(p)
          /\ step' = IF mode[p] = MODE_DISABLED THEN Idle_ ELSE [port |-> p, at |-> "script"]
  /\ UNCHANGED <<mode, first_start, fileio_opts, run_script, want, term, adapter, exits>>

\* port_is_enabled compares the first three letters of the names: every CAN
\* port answers for all of them.
port_is_enabled(p) == \E q \in CanPorts : mode[q] # MODE_DISABLED

\* can_notify: the id of a CAN port changes only while no CAN port is enabled.
can_notify(p, o) ==
  /\ step = Idle_ /\ todo > 0 /\ o # opts[p] /\ p \in CanPorts
  /\ ~port_is_enabled(p)
  /\ opts' = [opts EXCEPT ![p] = o] /\ todo' = todo - 1
  /\ UNCHANGED <<mode, first_start, fileio_opts, step, run_script, want, term, adapter, raced,
                 control, exits>>

\* start_runit_service writes the run script, and then, twice, the command:
\* once by sv and once by itself.
start_runit_service_script ==
  /\ step.at = "script"
  /\ LET p == step.port
     IN /\ run_script' = [run_script EXCEPT ![p] = Command(p)]
        /\ fileio_opts' = IF p \in CanPorts THEN fileio_opts ELSE get_fileio_opts(p)
  /\ step' = [step EXCEPT !.at = "sv"]
  /\ UNCHANGED <<mode, opts, first_start, todo, raced, runsv_vars>>

\* Mutant: a service that is to be restarted is started once.
start_runit_service_control_down ==
  /\ step.at \in {"sv", "control"}
  /\ control' = [control EXCEPT ![step.port] = Append(@, "o")]
  /\ step' = IF step.at = "sv" THEN [step EXCEPT !.at = "control"] ELSE Idle_
  /\ UNCHANGED <<mode, opts, first_start, fileio_opts, todo, run_script, want, term, adapter,
                 raced, exits>>

start_runit_service_control ==
  /\ step.at \in {"sv", "control"}
  /\ control' = [control EXCEPT ![step.port] =
                   Append(@, IF step.port \in RestartPorts THEN "u" ELSE "o")]
  /\ step' = IF step.at = "sv" THEN [step EXCEPT !.at = "control"] ELSE Idle_
  /\ UNCHANGED <<mode, opts, first_start, fileio_opts, todo, run_script, want, term, adapter,
                 raced, exits>>

-----------------------------------------------------------------------------
(***************************************************************************)
(* External: runsv and the adapter.                                        *)
(***************************************************************************)
runsv_control(p) ==
  /\ control[p] # <<>> /\ control' = [control EXCEPT ![p] = Tail(@)]
  /\ LET c == Head(control[p])
     IN /\ want' = [want EXCEPT ![p] = IF c = "u" THEN "up" ELSE "down"]
        /\ term' = [term EXCEPT ![p] = @ \/ (c = "d" /\ adapter[p] # None)]
        /\ adapter' = IF c \in {"u", "o"} /\ adapter[p] = None
                      THEN [adapter EXCEPT ![p] = run_script[p]] ELSE adapter
  /\ UNCHANGED <<mode, opts, first_start, fileio_opts, step, todo, run_script, raced, exits>>

\* The adapter ends, of TERM or by itself.
adapter_ends(p) ==
  /\ adapter[p] # None
  /\ \/ term[p] /\ UNCHANGED exits
     \/ ~term[p] /\ exits < MaxExits /\ exits' = exits + 1
  /\ adapter' = [adapter EXCEPT ![p] = None] /\ term' = [term EXCEPT ![p] = FALSE]
  /\ UNCHANGED <<mode, opts, first_start, fileio_opts, step, todo, run_script, control, want, raced>>

runsv_restarts(p) ==
  /\ adapter[p] = None /\ want[p] = "up" /\ control[p] = <<>>
  /\ adapter' = [adapter EXCEPT ![p] = run_script[p]]
  /\ UNCHANGED <<mode, opts, first_start, fileio_opts, step, todo, run_script, control, want,
                 term, raced, exits>>

-----------------------------------------------------------------------------
PortsStep == start_runit_service_script \/ start_runit_service_control
PortsSupervisor(p) == runsv_control(p) \/ runsv_restarts(p) \/ (term[p] /\ adapter_ends(p))

PortsNext ==
  /\ \/ \E p \in active :
          \/ \E m \in Modes \union {MODE_DISABLED} : setting_mode_notify(p, m)
          \/ \E o \in Opts : setting_opts_notify(p, o) \/ can_notify(p, o)
          \/ runsv_control(p) \/ adapter_ends(p) \/ runsv_restarts(p)
     \/ PortsStep
  /\ UNCHANGED active

PortsSpec == PortsInit /\ [][PortsNext]_ports_vars

Settled(p) == step.port # p /\ control[p] = <<>> /\ ~term[p]

\* What runs is what the settings say.  Once the commands of a port are done,
\* its adapter runs with the port's settings, and that of a disabled port does
\* not run, unless port_configure met its service between two states, where
\* stop_runit_service does nothing.  For a CAN port this rests on can_notify,
\* which changes the id without a restart and so refuses while a CAN port is
\* enabled.  A port in SBP mode has its own file I/O endpoints, whatever port
\* was configured before it (get_fileio_opts keeps its buffer between calls).
AdapterHasSettings ==
  /\ \A p \in Ports : Settled(p) /\ ~first_start[p] /\ ~raced[p] =>
       /\ mode[p] = MODE_DISABLED => adapter[p] = None /\ want[p] = "down"
       /\ adapter[p] # None => adapter[p].mode = mode[p] /\ adapter[p].opts = opts[p]
  /\ \A p \in Ports \ CanPorts :
       adapter[p] # None /\ adapter[p].mode = MODE_SBP => adapter[p].fileio = p

\* An enabled port that runit restarts eventually has an adapter again.
EnabledPortComesUp ==
  \A p \in RestartPorts :
    (mode[p] # MODE_DISABLED /\ ~first_start[p])
      ~> (adapter[p] # None \/ mode[p] = MODE_DISABLED)
=============================================================================
