---------------------------- MODULE SystemDaemon ----------------------------
(***************************************************************************)
(* piksi_system_daemon: settings that are carried out by scripts (the      *)
(* Ethernet interface, ntpd, the connectivity check), commands and resets  *)
(* received as SBP messages.  The address, netmask and gateway settings    *)
(* are one here.                                                           *)
(*                                                                         *)
(* External: the settings client stores a new value, calls the setting's   *)
(* notify function, and puts the old value back when that refuses it; a    *)
(* setting that was saved is read, and notified, when it is registered.    *)
(***************************************************************************)
EXTENDS Naturals, FiniteSets

CONSTANTS Addresses, ValidAddresses,   \* inet_addr accepts the valid ones
          DefaultAddress,
          Frequencies, SCALE,          \* frequencies, and the period of frequency 1
          MAX_PERIOD,                  \* the longest period that fits its buffer
          DefaultFrequency,
          CommandIds,                   \* sequence numbers of commands
          SysLoads                     \* sets of inputs a behaviour has
ASSUME AddressAssumption ==
  ValidAddresses \subseteq Addresses /\ DefaultAddress \in ValidAddresses

VARIABLES sys,         \* the settings in the daemon's memory
          saved,       \* what the settings file holds of them
          booting,     \* settings not registered yet, in order; 0 when main runs its loop
          eth_settings_initialized,
          eth0,        \* what the last update_eth0_config set, or "failed"
          ntpd,        \* the source whose ntp.conf is installed
          polling,     \* the files of the connectivity check: [period, addresses]
          unwritten,   \* those of them the last notify could not write
          upgrade,     \* the upgrade_tool service: [state, finish sequence]
          answers,     \* sequences answered, with the status
          requests,    \* sequences of the commands received
          sys_load     \* the inputs of the behaviour

sys_vars == <<sys, saved, booting, eth_settings_initialized, eth0, ntpd, polling, unwritten, upgrade,
              answers, requests, sys_load>>
scripts == <<eth0, ntpd, polling, unwritten>>
commands == <<upgrade, answers, requests>>

Sources == {"GPS+NTP", "GPS", "NTP"}
Names == {"interface_mode", "ip", "system_time", "frequency"}
Order == <<"interface_mode", "ip", "system_time", "frequency">>
Values(name) == CASE name = "interface_mode" -> {"Active", "Config"}
                  [] name = "ip" -> {"dhcp"} \union Addresses
                  [] name = "system_time" -> Sources
                  [] name = "frequency" -> Frequencies

Defaults == [interface_mode |-> "Active", ip |-> DefaultAddress, system_time |-> "GPS+NTP",
             frequency |-> DefaultFrequency]
NoFile == "none"

SysInit == /\ sys_load \in SysLoads
           /\ sys = Defaults /\ saved = Defaults
           /\ booting = 1 /\ eth_settings_initialized = FALSE
           /\ eth0 = NoFile /\ ntpd = "GPS+NTP"
           /\ polling = [period |-> NoFile, addresses |-> NoFile] /\ unwritten = {}
           /\ upgrade = [state |-> "down", finish |-> 0]
           /\ answers = {} /\ requests = {}

(***************************************************************************)
(* The scripts and files.  A script may fail, and a file may not open.     *)
(***************************************************************************)
eth_update_config(s) == eth0' \in {s.ip, "failed"}

\* "%.02f" of 1 / frequency; an empty string stops the check.
Formatted(f) == IF f = 0 THEN "empty" ELSE SCALE \div f
Fits(f) == IF f = 0 THEN TRUE ELSE SCALE \div f <= MAX_PERIOD

ASSUME FrequencyAssumption == DefaultFrequency \in Frequencies /\ Fits(DefaultFrequency)

network_polling_files(s, failed) ==
  /\ unwritten' = failed
  /\ polling' = [period |-> IF "period" \in failed THEN polling.period ELSE Formatted(s.frequency),
                 addresses |-> IF "addresses" \in failed THEN polling.addresses ELSE "8.8.8.8"]

(***************************************************************************)
(* The notify functions: s is the memory with the new value stored.        *)
(***************************************************************************)
\* Mutant: the interface mode is not asked.
eth_attempt_write_open(s) == TRUE

eth_attempt_write(s) == ~(eth_settings_initialized /\ s.interface_mode = "Active")

eth_ip_config_notify(s) == /\ s.ip \in ValidAddresses \union {"dhcp"}
                           /\ eth_attempt_write(s)

interface_mode_notify(s) ==
  /\ IF eth_settings_initialized /\ s.interface_mode = "Active" THEN eth_update_config(s)
                                                                ELSE UNCHANGED eth0
  /\ UNCHANGED <<ntpd, polling, unwritten>>

\* oldsrc is never assigned: it stays GPS+NTP.
oldsrc == "GPS+NTP"
system_time_src_notify(s, ok) ==
  /\ IF s.system_time = oldsrc
       THEN ok /\ UNCHANGED ntpd
       ELSE ntpd' = IF ok THEN s.system_time ELSE ntpd
  /\ UNCHANGED <<eth0, polling, unwritten>>

network_polling_notify(s, failed) ==
  /\ Fits(s.frequency)
  /\ network_polling_files(s, failed)
  /\ UNCHANGED <<eth0, ntpd>>

\* A value is stored and notified: it stays if it is accepted.
Store(name, value) ==
  LET s == [sys EXCEPT ![name] = value] IN
  \/ /\ name = "interface_mode" /\ interface_mode_notify(s) /\ sys' = s
  \/ /\ name = "ip" /\ eth_ip_config_notify(s) /\ sys' = s /\ UNCHANGED scripts
  \/ /\ name = "system_time" /\ \E ok \in BOOLEAN : /\ system_time_src_notify(s, ok)
                                                    /\ sys' = IF ok THEN s ELSE sys
  \/ /\ name = "frequency" /\ \E f \in SUBSET {"period", "addresses"} : network_polling_notify(s, f)
     /\ sys' = s
  \/ /\ \/ name = "ip" /\ ~eth_ip_config_notify(s)
        \/ name = "frequency" /\ ~Fits(value)
     /\ UNCHANGED <<sys, scripts>>

(***************************************************************************)
(* main.                                                                   *)
(***************************************************************************)
\* pk_settings_register: the saved value is read and notified.  After the
\* Ethernet settings the interface mode is put back to Active and the
\* interface configured.
main_registers ==
  /\ booting > 0
  /\ booting' = IF booting = 4 THEN 0 ELSE booting + 1
  /\ LET name == Order[booting] IN
     IF name = "ip"
       THEN /\ eth_settings_initialized' = TRUE
            /\ sys' = [sys EXCEPT !.interface_mode = "Active",
                                  !.ip = IF saved.ip \in ValidAddresses \union {"dhcp"}
                                           THEN saved.ip ELSE @]
            /\ eth_update_config(sys')
            /\ UNCHANGED <<ntpd, polling, unwritten>>
       ELSE Store(name, saved[name]) /\ UNCHANGED eth_settings_initialized
  /\ UNCHANGED <<saved, commands, sys_load>>

\* A setting is written, or all are saved, while main runs its loop.
setting_written(name, value) ==
  /\ booting = 0 /\ name \in sys_load
  /\ Store(name, value)
  /\ UNCHANGED <<saved, booting, eth_settings_initialized, commands, sys_load>>

settings_saved == /\ booting = 0 /\ saved' = sys
                  /\ UNCHANGED <<sys, booting, eth_settings_initialized, scripts, commands, sys_load>>

\* reset_callback: do_sbp_msg_reset restarts the device, after it has removed
\* the settings file if the flag asks for that.  Each boot configures ntpd for
\* GPS+NTP and starts with empty run files.
reset_callback(clear) ==
  /\ booting = 0
  /\ saved' = IF clear THEN Defaults ELSE saved
  /\ sys' = Defaults /\ booting' = 1 /\ eth_settings_initialized' = FALSE
  /\ eth0' = NoFile /\ ntpd' = "GPS+NTP"
  /\ polling' = [period |-> NoFile, addresses |-> NoFile] /\ unwritten' = {}
  /\ upgrade' = [state |-> "down", finish |-> 0]
  /\ answers' = {} /\ requests' = {}
  /\ UNCHANGED sys_load

(***************************************************************************)
(* sbp_command.  spawn_nc, stream_logs and dump_syslog run to their end    *)
(* before the loop goes on; upgrade_tool is a runit service started once,  *)
(* whose finish script sends the answer.                                   *)
(***************************************************************************)
Received(seq) == /\ booting = 0 /\ "command" \in sys_load
                 /\ seq \notin requests /\ requests' = requests \union {seq}
                 /\ UNCHANGED <<sys, saved, booting, eth_settings_initialized, scripts, sys_load>>

sbp_command(command, seq) ==
  /\ Received(seq)
  /\ CASE command = "ntrip_daemon --reconnect" -> UNCHANGED <<upgrade, answers>>
       [] command = "upgrade_tool" ->
            \* the scripts are rewritten; "o" starts the tool unless it runs or finishes
            /\ upgrade' = [state |-> IF upgrade.state = "down" THEN "running" ELSE upgrade.state,
                           finish |-> IF upgrade.state = "finishing" THEN upgrade.finish ELSE seq]
            /\ UNCHANGED answers
       [] OTHER -> /\ answers' = answers \union {seq}
                   /\ UNCHANGED upgrade

\* External: the tool ends and runsv runs the finish script, which answers
\* twice, a second apart.
upgrade_ends == /\ upgrade.state = "running"
                /\ upgrade' = [upgrade EXCEPT !.state = "finishing"]
                /\ answers' = answers \union {upgrade.finish}
                /\ UNCHANGED <<sys, saved, booting, eth_settings_initialized, scripts, requests, sys_load>>
finish_ends == /\ upgrade.state = "finishing"
               /\ upgrade' = [upgrade EXCEPT !.state = "down"]
               /\ UNCHANGED <<sys, saved, booting, eth_settings_initialized, scripts, answers, requests,
                              sys_load>>

Commands == {"ntrip_daemon --reconnect", "upgrade_tool", "dump_syslog", "unknown"}

SysNext ==
  \/ main_registers
  \/ \E name \in Names : \E value \in Values(name) : setting_written(name, value)
  \/ settings_saved
  \/ \E clear \in BOOLEAN : reset_callback(clear)
  \/ \E command \in Commands, seq \in CommandIds : sbp_command(command, seq)
  \/ upgrade_ends \/ finish_ends

SysSpec == SysInit /\ [][SysNext]_sys_vars

(***************************************************************************)
(* Properties                                                              *)
(***************************************************************************)
\* Once main has registered the settings, whatever was saved, written and
\* reset before: while the interface mode is Active the Ethernet interface has
\* the address the settings show, unless its script failed, and the files of
\* the connectivity check hold the settings, unless they could not be written.
\* eth_attempt_write refuses changes in the Active mode, and main puts a mode
\* saved as Config back.
DeviceFollowsSettings ==
  booting = 0 =>
    /\ sys.interface_mode = "Active" => eth0 \in {sys.ip, "failed"}
    /\ "period" \notin unwritten => polling.period = Formatted(sys.frequency)

\* system_time_src_notify means to "Avoid restarting ntpd if config hasn't
\* changed": it leaves ntpd alone only then, so ntpd has the configuration of
\* the source the settings show.
NtpFollowsSetting == booting = 0 => ntpd = sys.system_time
=============================================================================
