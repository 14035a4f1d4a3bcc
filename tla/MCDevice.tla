------------------------------- MODULE MCDevice -------------------------------
(***************************************************************************)
(* The daemons that run the device itself, each on its own: `part' says    *)
(* which one a behaviour is about.                                         *)
(***************************************************************************)
EXTENDS PortsDaemon, HealthDaemon, Leds, SystemDaemon

VARIABLE part

mc_vars == <<part, ports_vars, health_vars, led_vars, sys_vars>>

Parts == {"ports", "health", "leds", "system"}

Load(kinds, messages, failures, polls) ==
  [kinds |-> kinds, messages |-> messages, failures |-> failures, polls |-> polls]

\* The one state of a part that a behaviour is not about.
NoPorts ==
  /\ active = {} /\ mode = [p \in Ports |-> MODE_DISABLED] /\ opts = [p \in Ports |-> 0]
  /\ first_start = [p \in Ports |-> TRUE] /\ fileio_opts = "none" /\ step = Idle_ /\ todo = 0
  /\ run_script = [p \in Ports |-> None] /\ control = [p \in Ports |-> <<>>]
  /\ want = [p \in Ports |-> "down"] /\ term = [p \in Ports |-> FALSE]
  /\ adapter = [p \in Ports |-> None] /\ raced = [p \in Ports |-> FALSE] /\ exits = 0
NoHealth == /\ due = [m \in {"ntrip"} |-> 1] /\ health = health_monitor_init
            /\ since = [base |-> 0, heard |-> 0, glo |-> 0, bias |-> 0] /\ warning = "none"
NoLeds ==
  /\ soln = no_copy /\ writing = "nothing" /\ recent = {} /\ network = "1" /\ led_pc = "exited"
  /\ seen = no_copy /\ blink = no_blink /\ chip = no_chip /\ unrepaired = {}
  /\ load = Load({}, 0, 0, 0)
NoSystem ==
  /\ sys = Defaults /\ saved = Defaults /\ booting = 1 /\ eth_settings_initialized = FALSE
  /\ eth0 = NoFile /\ ntpd = "GPS+NTP" /\ polling = [period |-> NoFile, addresses |-> NoFile]
  /\ unwritten = {} /\ upgrade = [state |-> "down", finish |-> 0]
  /\ answers = {} /\ requests = {} /\ sys_load = {}

MCInit ==
  /\ part \in Parts
  /\ IF part = "ports" THEN PortsInit ELSE NoPorts
  /\ IF part = "health" THEN HealthInit ELSE NoHealth
  /\ IF part = "leds" THEN LedsInit ELSE NoLeds
  /\ IF part = "system" THEN SysInit ELSE NoSystem

MCNext ==
  \/ part = "ports" /\ PortsNext /\ UNCHANGED <<part, health_vars, led_vars, sys_vars>>
  \/ part = "health" /\ HealthNext /\ UNCHANGED <<part, ports_vars, led_vars, sys_vars>>
  \/ part = "leds" /\ LedsNext /\ UNCHANGED <<part, ports_vars, health_vars, sys_vars>>
  \/ part = "system" /\ SysNext /\ UNCHANGED <<part, ports_vars, health_vars, led_vars>>

\* ports_daemon goes on with a setting it has begun, runsv reads its commands
\* and restarts services, and an adapter that was sent TERM ends.
MCSpec ==
  /\ MCInit /\ [][MCNext]_mc_vars
  /\ WF_ports_vars(part = "ports" /\ PortsStep /\ UNCHANGED active)
  /\ \A p \in RestartPorts : WF_ports_vars(part = "ports" /\ PortsSupervisor(p) /\ UNCHANGED active)

-----------------------------------------------------------------------------
MCScenarios == {[ports |-> {"uart0"}, changes |-> 3], [ports |-> {"uart0", "tcp0"}, changes |-> 1],
                [ports |-> {"can0", "can1"}, changes |-> 3]}

MCLoads == {Load({"baseline"}, 3, 0, 0), Load({"pos", "tracking"}, 3, 0, 0), Load({"obs"}, 3, 0, 2),
            Load({"baseline"}, 2, 2, 0)}
=============================================================================
