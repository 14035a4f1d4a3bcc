----------------------------- MODULE DeviceProofs -----------------------------
(***************************************************************************)
(* Proofs about the daemons that keep the device in line with its settings *)
(* and messages: piksi_system_daemon, ports_daemon and piksi_leds.         *)
(***************************************************************************)
EXTENDS PortsDaemon, Leds, SystemDaemon, TLAPS

-----------------------------------------------------------------------------
(***************************************************************************)
(* piksi_system_daemon: the inductive invariant.                           *)
(***************************************************************************)

Settings == [interface_mode : {"Active", "Config"}, ip : {"dhcp"} \union Addresses,
             system_time : Sources, frequency : Frequencies]

\* The Ethernet settings are initialized with the second registration.
SysTypeOK ==
  /\ sys \in Settings /\ saved \in Settings
  /\ booting \in 0 .. 4
  /\ (eth_settings_initialized <=> booting \notin {1, 2})

\* In the Active mode the interface has the address, from the moment that
\* eth_attempt_write refuses changes.
EthFollows ==
  eth_settings_initialized /\ sys.interface_mode = "Active" => eth0 \in {sys.ip, "failed"}

\* Only frequencies whose period fits its buffer are in memory, so only such
\* are saved, and the registration that reads them back accepts them.
FrequenciesFit == Fits(sys.frequency) /\ Fits(saved.frequency)

PeriodFollows ==
  booting = 0 /\ "period" \notin unwritten => polling.period = Formatted(sys.frequency)

SysInv == SysTypeOK /\ EthFollows /\ FrequenciesFit /\ PeriodFollows

-----------------------------------------------------------------------------
(* Storing a value.                                                        *)

\* What pk_settings_register and a write of a setting have in common: a value
\* that is stored and notified keeps the types, the Ethernet settings and the
\* bound on the frequency.
LEMMA StoreIsSafe ==
  ASSUME SysInv, NEW name \in Names, NEW value \in Values(name), Store(name, value)
  PROVE  /\ sys' \in Settings
         /\ eth_settings_initialized /\ sys'.interface_mode = "Active" => eth0' \in {sys'.ip, "failed"}
         /\ Fits(sys'.frequency)
<1> DEFINE s == [sys EXCEPT ![name] = value]
<1>t. sys \in Settings /\ EthFollows /\ Fits(sys.frequency)
  BY DEF SysInv, SysTypeOK, FrequenciesFit
<1>1. CASE name = "interface_mode" /\ interface_mode_notify(s) /\ sys' = s
  <2>1. value \in {"Active", "Config"}
    BY <1>1 DEF Values
  <2>2. /\ s \in Settings /\ s.interface_mode = value /\ s.ip = sys.ip /\ s.frequency = sys.frequency
    BY <1>1, <1>t, <2>1 DEF Settings
  <2> QED
    BY <1>1, <1>t, <2>2 DEF interface_mode_notify, eth_update_config
<1>2. CASE name = "ip" /\ eth_ip_config_notify(s) /\ sys' = s /\ UNCHANGED scripts
  <2>1. value \in {"dhcp"} \union Addresses
    BY <1>2 DEF Values
  <2>2. s \in Settings /\ s.interface_mode = sys.interface_mode /\ s.frequency = sys.frequency
    BY <1>2, <1>t, <2>1 DEF Settings
  <2> QED
    BY <1>2, <1>t, <2>2 DEF eth_ip_config_notify, eth_attempt_write
<1>3. CASE /\ name = "system_time"
           /\ \E ok \in BOOLEAN : system_time_src_notify(s, ok) /\ sys' = IF ok THEN s ELSE sys
  <2>1. value \in Sources
    BY <1>3 DEF Values
  <2>2. /\ s \in Settings /\ s.interface_mode = sys.interface_mode /\ s.ip = sys.ip
        /\ s.frequency = sys.frequency
    BY <1>3, <1>t, <2>1 DEF Settings
  <2>3. eth0' = eth0 /\ sys' \in {s, sys}
    BY <1>3 DEF system_time_src_notify
  <2> QED
    BY <1>t, <2>2, <2>3, Zenon DEF EthFollows
<1>4. CASE /\ name = "frequency"
           /\ \E f \in SUBSET {"period", "addresses"} : network_polling_notify(s, f)
           /\ sys' = s
  <2>1. value \in Frequencies
    BY <1>4 DEF Values
  <2>2. s \in Settings /\ s.interface_mode = sys.interface_mode /\ s.ip = sys.ip
    BY <1>4, <1>t, <2>1 DEF Settings
  <2>3. eth0' = eth0 /\ Fits(s.frequency)
    BY <1>4 DEF network_polling_notify
  <2> QED
    BY <1>4, <1>t, <2>2, <2>3 DEF EthFollows
<1>5. CASE UNCHANGED <<sys, scripts>>
  BY <1>5, <1>t DEF EthFollows, scripts
<1> QED
  BY <1>1, <1>2, <1>3, <1>4, <1>5, Zenon DEF Store

\* The files of the connectivity check follow the frequency that is stored,
\* and other values leave both alone.
LEMMA StoreKeepsPeriod ==
  ASSUME SysInv, NEW name \in Names, NEW value \in Values(name), Store(name, value),
         \/ "period" \notin unwritten => polling.period = Formatted(sys.frequency)
         \/ name = "frequency" /\ Fits(value)
  PROVE  "period" \notin unwritten' => polling'.period = Formatted(sys'.frequency)
<1> DEFINE s == [sys EXCEPT ![name] = value]
<1>t. sys \in Settings
  BY DEF SysInv, SysTypeOK
<1>1. CASE name # "frequency"
  <2>1. s.frequency = sys.frequency
    BY <1>1, <1>t DEF Settings, Names
  <2>2. UNCHANGED <<polling, unwritten>> /\ sys' \in {s, sys}
    BY <1>1 DEF Store, scripts, interface_mode_notify, system_time_src_notify
  <2> QED
    BY <1>1, <2>1, <2>2, Zenon
<1>2. CASE name = "frequency"
  <2>1. CASE Fits(value)
    <3>1. PICK f \in SUBSET {"period", "addresses"} : network_polling_notify(s, f) /\ sys' = s
      BY <1>2, <2>1, Zenon DEF Store
    <3> QED
      BY <3>1 DEF network_polling_notify, network_polling_files
  <2>2. CASE ~Fits(value)
    <3>1. s.frequency = value
      BY <1>2, <1>t DEF Settings
    <3>2. UNCHANGED <<sys, scripts>>
      BY <1>2, <2>2, <3>1 DEF Store, network_polling_notify
    <3> QED
      BY <2>2, <3>2 DEF scripts
  <2> QED
    BY <2>1, <2>2
<1> QED
  BY <1>1, <1>2
-----------------------------------------------------------------------------
(* The invariant holds initially and every step preserves it.              *)

\* The defaults are proper settings.
LEMMA DefaultsFit == Defaults \in Settings /\ Fits(Defaults.frequency)
<1>1. Defaults.frequency = DefaultFrequency
  BY DEF Defaults
<1>2. Defaults \in Settings
  BY AddressAssumption, FrequencyAssumption DEF Defaults, Settings, Sources
<1> QED
  BY <1>1, <1>2, FrequencyAssumption

\* At a boot nothing is registered.
LEMMA SysInitInv == SysInit => SysInv
BY DefaultsFit DEF SysInit, SysInv, SysTypeOK, EthFollows, FrequenciesFit, PeriodFollows

\* Registrations, writes, saves, commands and resets keep the invariant.
LEMMA SysStepInv == SysInv /\ [SysNext]_sys_vars => SysInv'
<1> SUFFICES ASSUME SysInv, [SysNext]_sys_vars PROVE SysInv'
  OBVIOUS
<1>t. /\ sys \in Settings /\ saved \in Settings /\ booting \in 0 .. 4
      /\ (eth_settings_initialized <=> booting \notin {1, 2})
      /\ Fits(sys.frequency) /\ Fits(saved.frequency)
  BY DEF SysInv, SysTypeOK, FrequenciesFit
<1>1. CASE main_registers
  <2>0. /\ booting > 0 /\ booting' = IF booting = 4 THEN 0 ELSE booting + 1
        /\ saved' = saved
    BY <1>1 DEF main_registers
  <2>1. CASE booting = 2
    <3>1. Order[booting] = "ip"
      BY <2>1 DEF Order
    <3>2. /\ eth_settings_initialized' = TRUE
          /\ sys' = [sys EXCEPT !.interface_mode = "Active",
                                !.ip = IF saved.ip \in ValidAddresses \union {"dhcp"}
                                         THEN saved.ip ELSE @]
          /\ eth0' \in {sys'.ip, "failed"}
      BY <1>1, <3>1 DEF main_registers, eth_update_config
    <3>3. sys' \in Settings /\ sys'.frequency = sys.frequency
      BY <3>2, <1>t, Zenon DEF Settings
    <3>4. SysTypeOK'
      BY <2>0, <2>1, <3>2, <3>3, <1>t DEF SysTypeOK
    <3>5. FrequenciesFit'
      BY <2>0, <3>3, <1>t DEF FrequenciesFit
    <3>6. EthFollows'
      BY <3>2 DEF EthFollows
    <3>7. PeriodFollows'
      BY <2>0, <2>1 DEF PeriodFollows
    <3> QED
      BY <3>4, <3>5, <3>6, <3>7 DEF SysInv
  <2>2. CASE booting # 2
    <3> DEFINE name == Order[booting]
    <3>1. name \in Names /\ name # "ip" /\ (booting = 4 => name = "frequency")
      BY <2>0, <2>2, <1>t DEF Order, Names
    <3>2. saved[name] \in Values(name)
      BY <3>1, <1>t DEF Settings, Values, Names
    <3>3. Store(name, saved[name]) /\ UNCHANGED eth_settings_initialized
      BY <1>1, <3>1 DEF main_registers
    <3> HIDE DEF name
    <3>4. /\ sys' \in Settings
          /\ eth_settings_initialized /\ sys'.interface_mode = "Active" => eth0' \in {sys'.ip, "failed"}
          /\ Fits(sys'.frequency)
      BY <3>1, <3>2, <3>3, StoreIsSafe
    <3>5. SysTypeOK'
      BY <2>0, <2>2, <3>3, <3>4, <1>t DEF SysTypeOK
    <3>6. EthFollows' /\ FrequenciesFit'
      BY <2>0, <3>3, <3>4, <1>t DEF EthFollows, FrequenciesFit
    <3>7. PeriodFollows'
      <4>1. CASE booting = 4
        <5>1. name = "frequency" /\ Fits(saved[name])
          BY <4>1, <3>1, <1>t
        <5> QED
          BY <5>1, <3>1, <3>2, <3>3, StoreKeepsPeriod DEF PeriodFollows
      <4>2. CASE booting # 4
        BY <4>2, <2>0, <1>t DEF PeriodFollows
      <4> QED
        BY <4>1, <4>2
    <3> QED
      BY <3>5, <3>6, <3>7 DEF SysInv
  <2> QED
    BY <2>1, <2>2
<1>2. ASSUME NEW name \in Names, NEW value \in Values(name), setting_written(name, value)
      PROVE  SysInv'
  <2>1. booting = 0 /\ Store(name, value) /\ UNCHANGED <<saved, booting, eth_settings_initialized>>
    BY <1>2 DEF setting_written
  <2>2. /\ sys' \in Settings
        /\ eth_settings_initialized /\ sys'.interface_mode = "Active" => eth0' \in {sys'.ip, "failed"}
        /\ Fits(sys'.frequency)
    BY <2>1, StoreIsSafe
  <2>3. "period" \notin unwritten => polling.period = Formatted(sys.frequency)
    BY <2>1 DEF SysInv, PeriodFollows
  <2>4. PeriodFollows'
    BY <2>1, <2>3, StoreKeepsPeriod DEF PeriodFollows
  <2>5. SysTypeOK' /\ EthFollows' /\ FrequenciesFit'
    BY <2>1, <2>2, <1>t DEF SysTypeOK, EthFollows, FrequenciesFit
  <2> QED
    BY <2>4, <2>5 DEF SysInv
<1>3. CASE settings_saved
  BY <1>3 DEF settings_saved, scripts, SysInv, SysTypeOK, EthFollows, FrequenciesFit, PeriodFollows
<1>4. ASSUME NEW clear \in BOOLEAN, reset_callback(clear) PROVE SysInv'
  <2>1. /\ saved' \in {Defaults, saved} /\ sys' = Defaults
        /\ booting' = 1 /\ eth_settings_initialized' = FALSE
    BY <1>4 DEF reset_callback
  <2> QED
    BY <2>1, <1>t, DefaultsFit DEF SysInv, SysTypeOK, EthFollows, FrequenciesFit, PeriodFollows
<1>5. CASE UNCHANGED <<sys, saved, booting, eth_settings_initialized, scripts>>
  BY <1>5 DEF scripts, SysInv, SysTypeOK, EthFollows, FrequenciesFit, PeriodFollows
<1>6. ASSUME NEW command \in Commands, NEW seq \in CommandIds, sbp_command(command, seq)
      PROVE  SysInv'
  BY <1>5, <1>6, Zenon DEF sbp_command, Received
<1>7. CASE upgrade_ends \/ finish_ends
  BY <1>5, <1>7 DEF upgrade_ends, finish_ends
<1>8. CASE UNCHANGED sys_vars
  BY <1>5, <1>8 DEF sys_vars, scripts
<1> QED
  BY <1>1, <1>2, <1>3, <1>4, <1>6, <1>7, <1>8 DEF SysNext

-----------------------------------------------------------------------------
(* The theorems.                                                           *)

\* The Ethernet interface and the files of the connectivity check show the
\* settings in memory as the invariant says, through registrations, writes,
\* saves, refusals, failures and resets.
THEOREM SystemInvariant == SysSpec => []SysInv
BY SysInitInv, SysStepInv, PTL DEF SysSpec

\* Once main runs its loop, the interface in the Active mode has the address
\* of the settings and the period file the frequency, unless the script or
\* the write failed.
THEOREM DeviceAlwaysFollows == SysSpec => []DeviceFollowsSettings
<1>1. SysInv => DeviceFollowsSettings
  BY DEF SysInv, SysTypeOK, EthFollows, PeriodFollows, DeviceFollowsSettings
<1> QED
  BY <1>1, SystemInvariant, PTL

-----------------------------------------------------------------------------
(***************************************************************************)
(* ports_daemon: the inductive invariant.                                  *)
(***************************************************************************)
AllModes == Modes \union {MODE_SBP, MODE_DISABLED}
AllOpts == Opts \union {0}
AllCommands == [mode : AllModes, opts : AllOpts, fileio : Ports \union {"none"}]
Starts == {"u", "o"}

PortsTypeOK ==
  /\ active \subseteq Ports
  /\ mode \in [Ports -> AllModes] /\ opts \in [Ports -> AllOpts]
  /\ first_start \in [Ports -> BOOLEAN] /\ fileio_opts \in Ports \union {"none"}
  /\ run_script \in [Ports -> AllCommands] /\ adapter \in [Ports -> AllCommands]
  /\ control \in [Ports -> Seq(Starts \union {"d"})]
  /\ want \in [Ports -> {"up", "down"}] /\ term \in [Ports -> BOOLEAN]
  /\ raced \in [Ports -> BOOLEAN]

\* port_configure goes on for an enabled port that has been configured.
StepOK ==
  step = Idle_ \/ /\ step \in [port : Ports, at : {"script", "sv", "control"}]
                  /\ mode[step.port] # MODE_DISABLED /\ ~first_start[step.port]

\* Before its first mode a port has no service.
NotBegun(p) ==
  control[p] = <<>> /\ want[p] = "down" /\ adapter[p] = None /\ ~term[p]

Shows(c, p) == c.mode = mode[p] /\ c.opts = opts[p]
Ending(p) == term[p] \/ (control[p] # <<>> /\ Head(control[p]) = "d")

\* Nothing has been started since the last change of the port's settings.
Unstarted(p) == mode[p] = MODE_DISABLED \/ step = [port |-> p, at |-> "script"]
Stopped(p) ==
  \/ control[p] = <<"d">>
  \/ control[p] = <<>> /\ want[p] = "down" /\ (adapter[p] # None => term[p])

\* A port whose service was not met between two states: the one "d" comes
\* before what starts the service, the script is written before that too, and
\* an adapter with other settings is on its way out.
InHand(p) ==
  /\ \A i \in 1 .. Len(control[p]) : i # 1 => control[p][i] \in Starts
  /\ adapter[p] # None => Ending(p) \/ Shows(adapter[p], p)
  /\ IF Unstarted(p) THEN Stopped(p) ELSE Shows(run_script[p], p)

OwnEndpoints(c, p) == p \notin CanPorts /\ c.mode = MODE_SBP => c.fileio = p

PortInv(p) ==
  /\ term[p] => adapter[p] # None
  /\ first_start[p] => NotBegun(p)
  /\ ~first_start[p] /\ ~raced[p] => InHand(p)
  /\ OwnEndpoints(run_script[p], p) /\ OwnEndpoints(adapter[p], p)

PortsInv == PortsTypeOK /\ StepOK /\ \A p \in Ports : PortInv(p)

-----------------------------------------------------------------------------
(* One port.                                                               *)

ControlSeq == Seq(Starts \union {"d"})

\* No command is not the command to stop.
LEMMA NothingIsNotDown == <<>> # <<"d">>
OBVIOUS

\* Where port_configure is.
LEMMA StepFields ==
  ASSUME NEW p \in Ports, NEW x \in {"script", "sv", "control"}
  PROVE  /\ [port |-> p, at |-> x] \in [port : Ports, at : {"script", "sv", "control"}]
         /\ [port |-> p, at |-> x].port = p
OBVIOUS

\* Another command in the pipe.
LEMMA CommandAdded ==
  ASSUME NEW c \in ControlSeq, NEW x \in Starts \union {"d"}
  PROVE  /\ Append(c, x) \in ControlSeq /\ Append(c, x) # <<>>
         /\ Len(Append(c, x)) = Len(c) + 1 /\ Append(c, x)[Len(c) + 1] = x
         /\ \A i \in 1 .. Len(c) : Append(c, x)[i] = c[i]
         /\ c # <<>> => Head(Append(c, x)) = Head(c)
         /\ c = <<>> => Append(c, x) = <<x>>
<1>1. /\ Append(c, x) \in ControlSeq
      /\ Len(Append(c, x)) = Len(c) + 1 /\ Append(c, x)[Len(c) + 1] = x
      /\ \A i \in 1 .. Len(c) : Append(c, x)[i] = c[i]
  BY DEF ControlSeq
<1>2. Append(c, x) # <<>>
  BY <1>1 DEF ControlSeq
<1>3. c # <<>> => Head(Append(c, x)) = Head(c)
  BY <1>1 DEF ControlSeq
<1>4. c = <<>> => Append(c, x) = <<x>>
  BY DEF ControlSeq
<1> QED
  BY <1>1, <1>2, <1>3, <1>4

\* A command taken out of it.
LEMMA CommandTaken ==
  ASSUME NEW c \in ControlSeq, c # <<>>
  PROVE  /\ Head(c) \in Starts \union {"d"} /\ Head(c) = c[1] /\ Len(c) >= 1
         /\ Tail(c) \in ControlSeq /\ Len(Tail(c)) = Len(c) - 1
         /\ \A i \in 1 .. Len(Tail(c)) : i + 1 \in 1 .. Len(c) /\ Tail(c)[i] = c[i + 1]
BY DEF ControlSeq

\* A step that changes nothing about a port keeps what is said of it.
LEMMA PortRests ==
  ASSUME NEW p \in Ports, PortInv(p),
         mode'[p] = mode[p], opts'[p] = opts[p], first_start'[p] <=> first_start[p],
         run_script'[p] = run_script[p], control'[p] = control[p], want'[p] = want[p],
         term'[p] <=> term[p], adapter'[p] = adapter[p], raced'[p] <=> raced[p],
         step' = [port |-> p, at |-> "script"] <=> step = [port |-> p, at |-> "script"]
  PROVE  PortInv(p)'
<1>1. Unstarted(p)' <=> Unstarted(p)
  BY Zenon DEF Unstarted
<1>2. Ending(p)' <=> Ending(p)
  BY DEF Ending
<1>3. Stopped(p)' <=> Stopped(p)
  BY DEF Stopped
<1>4. InHand(p) => InHand(p)'
  BY <1>1, <1>2, <1>3 DEF InHand, Shows
<1> QED
  BY <1>4 DEF PortInv, NotBegun, OwnEndpoints

\* stop_runit_service, where it finds the service in one of its two states:
\* the port is stopped, whatever was the case before.
LEMMA StopWorks ==
  ASSUME PortsTypeOK, NEW p \in Ports, stop_runit_service(p), PortInv(p),
         UNCHANGED <<want, term, adapter>>
  PROVE  /\ control' \in [Ports -> ControlSeq] /\ raced' \in [Ports -> BOOLEAN]
         /\ \A q \in Ports : q # p => control'[q] = control[q] /\ (raced'[q] <=> raced[q])
         /\ ~raced'[p] => Stopped(p)'
<1>1. control[p] \in ControlSeq /\ control \in [Ports -> ControlSeq]
  BY DEF PortsTypeOK, ControlSeq
<1>2. Append(control[p], "d") \in ControlSeq /\ (control[p] = <<>> => Append(control[p], "d") = <<"d">>)
  BY <1>1, CommandAdded
<1>3. /\ control' \in [Ports -> ControlSeq]
      /\ \A q \in Ports : q # p => control'[q] = control[q]
      /\ control'[p] = IF stat_runit_service(p) = "running" THEN Append(control[p], "d") ELSE control[p]
  BY <1>1, <1>2 DEF stop_runit_service
<1>4. /\ raced' \in [Ports -> BOOLEAN] /\ (raced'[p] <=> Between(p))
      /\ \A q \in Ports : q # p => (raced'[q] <=> raced[q])
  <2>1. Between(p) \in BOOLEAN
    BY DEF Between
  <2> QED
    BY <2>1 DEF stop_runit_service, PortsTypeOK
<1>5. ASSUME ~Between(p) PROVE Stopped(p)'
  <2>1. control[p] = <<>> /\ stat_runit_service(p) # "unknown"
    BY <1>5 DEF Between
  <2>2. CASE adapter[p] = None
    <3>1. stat_runit_service(p) = "down"
      BY <2>2 DEF stat_runit_service
    <3>2. want[p] = "down"
      BY <1>5, <3>1 DEF Between, PortsTypeOK
    <3> QED
      BY <1>3, <2>1, <2>2, <3>1, <3>2 DEF Stopped
  <2>3. CASE adapter[p] # None
    <3>1. stat_runit_service(p) = "running"
      BY <2>1, <2>3 DEF stat_runit_service
    <3> QED
      BY <1>2, <1>3, <2>1, <3>1 DEF Stopped
  <2> QED
    BY <2>2, <2>3
<1> QED
  BY <1>3, <1>4, <1>5

\* A port that has just been stopped and is not yet started is in hand.
LEMMA StoppedIsInHand ==
  ASSUME NEW p \in Ports, Stopped(p)', Unstarted(p)'
  PROVE  InHand(p)'
<1>1. CASE control'[p] = <<"d">>
  <2>1. Len(control'[p]) = 1 /\ control'[p] # <<>> /\ Head(control'[p]) = "d"
    BY <1>1
  <2> QED
    BY <2>1 DEF InHand, Ending
<1>2. CASE control'[p] = <<>> /\ (adapter'[p] # None => term'[p])
  <2>1. Len(control'[p]) = 0
    BY <1>2
  <2> QED
    BY <1>2, <2>1 DEF InHand, Ending
<1> QED
  BY <1>1, <1>2 DEF Stopped, None

\* port_configure, called for a change of the mode or of another setting.
LEMMA NotifyStep ==
  ASSUME PortsInv, NEW p \in Ports, NEW m \in AllModes, NEW o \in AllOpts,
         setting_mode_notify(p, m) \/ setting_opts_notify(p, o) \/ can_notify(p, o),
         UNCHANGED active
  PROVE  PortsInv'
<1>t. PortsTypeOK /\ step = Idle_ /\ \A q \in Ports : PortInv(q)
  BY DEF PortsInv, setting_mode_notify, setting_opts_notify, can_notify
<1>i. \A q \in Ports : Idle_ # [port |-> q, at |-> "script"]
  BY PortsAssumption, Zenon DEF Idle_
<1>u. UNCHANGED <<fileio_opts, run_script, want, term, adapter>>
  BY DEF setting_mode_notify, setting_opts_notify, can_notify
<1>s. \A q \in Ports : q # p => step' = [port |-> q, at |-> "script"] <=> step = [port |-> q, at |-> "script"]
  <2>1. step' \in {Idle_, [port |-> p, at |-> "script"]}
    BY <1>t DEF setting_mode_notify, setting_opts_notify, can_notify
  <2> QED
    BY <1>t, <1>i, <2>1
<1>m. /\ mode' \in [Ports -> AllModes] /\ \A q \in Ports : q # p => mode'[q] = mode[q]
      /\ opts' \in [Ports -> AllOpts] /\ \A q \in Ports : q # p => opts'[q] = opts[q]
  <2>1. mode \in [Ports -> AllModes] /\ opts \in [Ports -> AllOpts]
    BY <1>t, Zenon DEF PortsTypeOK
  <2>2. \/ mode' = [mode EXCEPT ![p] = m] /\ opts' = opts
        \/ opts' = [opts EXCEPT ![p] = o] /\ mode' = mode
    BY Zenon DEF setting_mode_notify, setting_opts_notify, can_notify
  <2> QED
    BY <2>1, <2>2
<1>f. /\ first_start' \in [Ports -> BOOLEAN]
      /\ \A q \in Ports : q # p => (first_start'[q] <=> first_start[q])
  BY <1>t, Zenon DEF PortsTypeOK, setting_mode_notify, setting_opts_notify, can_notify
<1>1. CASE /\ stop_runit_service(p) /\ ~first_start[p] /\ first_start' = first_start
           /\ \/ mode'[p] = MODE_DISABLED /\ step' = Idle_
              \/ mode'[p] # MODE_DISABLED /\ step' = [port |-> p, at |-> "script"]
  <2>1. /\ control' \in [Ports -> ControlSeq] /\ raced' \in [Ports -> BOOLEAN]
        /\ \A q \in Ports : q # p => control'[q] = control[q] /\ (raced'[q] <=> raced[q])
        /\ ~raced'[p] => Stopped(p)'
    BY <1>1, <1>t, <1>u, StopWorks, Zenon
  <2>2. PortsTypeOK'
    BY <1>t, <1>u, <1>m, <1>f, <2>1 DEF PortsTypeOK, ControlSeq
  <2>3. StepOK'
    <3>1. CASE step' = Idle_
      BY <3>1, Zenon DEF StepOK
    <3>2. CASE mode'[p] # MODE_DISABLED /\ step' = [port |-> p, at |-> "script"]
      <4>1. /\ step' \in [port : Ports, at : {"script", "sv", "control"}]
            /\ step'.port = p
        BY <3>2, StepFields, Zenon
      <4>2. ~first_start'[p]
        BY <1>1, Zenon
      <4> QED
        BY <3>2, <4>1, <4>2, Zenon DEF StepOK
    <3> QED
      BY <1>1, <3>1, <3>2, Zenon
  <2>4. PortInv(p)'
    <3>1. Unstarted(p)'
      BY <1>1, Zenon DEF Unstarted
    <3>2. ~raced'[p] => InHand(p)'
      BY <2>1, <3>1, StoppedIsInHand
    <3> QED
      BY <1>1, <1>t, <1>u, <3>2, Zenon DEF PortInv, OwnEndpoints
  <2>5. ASSUME NEW q \in Ports, q # p PROVE PortInv(q)'
    BY <1>t, <1>u, <1>s, <1>m, <1>f, <2>1, <2>5, PortRests, Zenon
  <2> QED
    BY <2>2, <2>3, <2>4, <2>5 DEF PortsInv
<1>2. CASE /\ first_start[p] /\ UNCHANGED <<control, raced>>
           /\ \/ ~first_start'[p] /\ mode'[p] = MODE_DISABLED /\ step' = Idle_
              \/ ~first_start'[p] /\ mode'[p] # MODE_DISABLED /\ step' = [port |-> p, at |-> "script"]
              \/ first_start' = first_start /\ step' = Idle_
  <2>1. PortsTypeOK'
    BY <1>2, <1>t, <1>u, <1>m, <1>f DEF PortsTypeOK
  <2>2. StepOK'
    <3>1. CASE step' = Idle_
      BY <3>1, Zenon DEF StepOK
    <3>2. CASE ~first_start'[p] /\ mode'[p] # MODE_DISABLED /\ step' = [port |-> p, at |-> "script"]
      <4>1. /\ step' \in [port : Ports, at : {"script", "sv", "control"}]
            /\ step'.port = p
        BY <3>2, StepFields, Zenon
      <4> QED
        BY <3>2, <4>1, Zenon DEF StepOK
    <3> QED
      BY <1>2, <3>1, <3>2, Zenon
  <2>3. PortInv(p)'
    <3>1. NotBegun(p)'
      BY <1>2, <1>t, <1>u, Zenon DEF PortInv, NotBegun
    <3>2. ~first_start'[p] => Unstarted(p)'
      BY <1>2, Zenon DEF Unstarted
    <3>3. Stopped(p)'
      BY <3>1, Zenon DEF NotBegun, Stopped
    <3>4. ~first_start'[p] => InHand(p)'
      BY <3>2, <3>3, StoppedIsInHand
    <3> QED
      BY <1>t, <1>u, <3>1, <3>4, Zenon DEF PortInv, OwnEndpoints
  <2>4. ASSUME NEW q \in Ports, q # p PROVE PortInv(q)'
    BY <1>2, <1>t, <1>u, <1>s, <1>m, <1>f, <2>4, PortRests, Zenon
  <2> QED
    BY <2>1, <2>2, <2>3, <2>4 DEF PortsInv
<1>3. CASE /\ ~first_start[p] /\ mode[p] = MODE_DISABLED
           /\ UNCHANGED <<mode, first_start, step, control, raced>>
  <2>1. PortsTypeOK'
    BY <1>3, <1>t, <1>u, <1>m DEF PortsTypeOK
  <2>2. StepOK'
    BY <1>3, <1>t, Zenon DEF StepOK
  <2>3. PortInv(p)'
    <3>1. Unstarted(p) /\ Unstarted(p)'
      BY <1>3, Zenon DEF Unstarted
    <3>2. Stopped(p) => Stopped(p)'
      BY <1>3, <1>u, Zenon DEF Stopped
    <3>3. ~raced[p] => InHand(p)'
      BY <1>3, <1>t, <3>1, <3>2, StoppedIsInHand, Zenon DEF PortInv, InHand
    <3> QED
      BY <1>3, <1>t, <1>u, <3>3, Zenon DEF PortInv, OwnEndpoints
  <2>4. ASSUME NEW q \in Ports, q # p PROVE PortInv(q)'
    BY <1>3, <1>t, <1>u, <1>s, <1>m, <2>4, PortRests, Zenon
  <2> QED
    BY <2>1, <2>2, <2>3, <2>4 DEF PortsInv
<1>4. CASE setting_mode_notify(p, m)
  <2>1. mode'[p] = m
    BY <1>4, <1>t DEF setting_mode_notify, PortsTypeOK
  <2>2. CASE first_start[p]
    <3>1. ~first_start'[p]
      BY <1>4, <1>t, <2>2, Zenon DEF setting_mode_notify, PortsTypeOK
    <3> QED
      BY <1>2, <1>4, <2>1, <2>2, <3>1 DEF setting_mode_notify
  <2>3. CASE ~first_start[p]
    BY <1>1, <1>4, <2>1, <2>3 DEF setting_mode_notify
  <2> QED
    BY <2>2, <2>3
<1>5. CASE setting_opts_notify(p, o)
  BY <1>1, <1>2, <1>5, <1>t, Zenon DEF setting_opts_notify
<1>6. CASE can_notify(p, o)
  <2>1. mode[p] = MODE_DISABLED
    BY <1>6 DEF can_notify, port_is_enabled
  <2> QED
    BY <1>2, <1>3, <1>6, <1>t, <2>1, Zenon DEF can_notify
<1> QED
  BY <1>4, <1>5, <1>6

\* start_runit_service writes the script.
LEMMA ScriptStep ==
  ASSUME PortsInv, start_runit_service_script, UNCHANGED active
  PROVE  PortsInv'
<1>t. PortsTypeOK /\ StepOK /\ \A q \in Ports : PortInv(q)
  BY DEF PortsInv
<1>1. PICK p \in Ports :
        /\ p = step.port /\ mode[p] # MODE_DISABLED /\ ~first_start[p]
        /\ step \in [port : Ports, at : {"script", "sv", "control"}] /\ step.at = "script"
  BY <1>t DEF StepOK, start_runit_service_script, Idle_
<1>2. /\ run_script' = [run_script EXCEPT ![p] = Command(p)]
      /\ fileio_opts' = IF p \in CanPorts THEN fileio_opts ELSE get_fileio_opts(p)
      /\ step' = [step EXCEPT !.at = "sv"]
      /\ UNCHANGED <<mode, opts, first_start, raced, control, want, term, adapter>>
  BY <1>1 DEF start_runit_service_script, runsv_vars
<1>3. step = [port |-> p, at |-> "script"] /\ step' = [port |-> p, at |-> "sv"]
  BY <1>1, <1>2
<1>4. get_fileio_opts(p) \in Ports \union {"none"} /\ (mode[p] = MODE_SBP => get_fileio_opts(p) = p)
  BY <1>1, <1>t DEF get_fileio_opts, PortsTypeOK
<1>5. Command(p) \in AllCommands /\ Shows(Command(p), p) /\ OwnEndpoints(Command(p), p)
  BY <1>1, <1>4, <1>t DEF Command, AllCommands, Shows, OwnEndpoints, PortsTypeOK
<1>6. /\ run_script' \in [Ports -> AllCommands] /\ run_script'[p] = Command(p)
      /\ \A q \in Ports : q # p => run_script'[q] = run_script[q]
  BY <1>1, <1>2, <1>5, <1>t DEF PortsTypeOK
<1>7. PortsTypeOK'
  BY <1>2, <1>4, <1>6, <1>t DEF PortsTypeOK
<1>8. StepOK'
  BY <1>1, <1>2, <1>3 DEF StepOK
<1>9. PortInv(p)'
  <2>1. ~Unstarted(p)' /\ Unstarted(p)
    BY <1>1, <1>2, <1>3 DEF Unstarted
  <2>2. Shows(run_script[p], p)'
    BY <1>2, <1>5, <1>6 DEF Shows
  <2>3. InHand(p) => InHand(p)'
    BY <1>2, <2>1, <2>2 DEF InHand, Ending, Shows
  <2> QED
    BY <1>1, <1>2, <1>5, <1>6, <1>t, <2>3 DEF PortInv, OwnEndpoints
<1>10. ASSUME NEW q \in Ports, q # p PROVE PortInv(q)'
  <2>1. step' # [port |-> q, at |-> "script"] /\ step # [port |-> q, at |-> "script"]
    BY <1>3, <1>10
  <2> QED
    BY <1>2, <1>6, <1>10, <1>t, <2>1, PortRests
<1> QED
  BY <1>7, <1>8, <1>9, <1>10 DEF PortsInv

\* start_runit_service sends the command.
LEMMA StartStep ==
  ASSUME PortsInv, start_runit_service_control, UNCHANGED active
  PROVE  PortsInv'
<1>t. PortsTypeOK /\ StepOK /\ \A q \in Ports : PortInv(q)
  BY DEF PortsInv
<1>1. PICK p \in Ports :
        /\ p = step.port /\ mode[p] # MODE_DISABLED /\ ~first_start[p]
        /\ step \in [port : Ports, at : {"script", "sv", "control"}] /\ step.at \in {"sv", "control"}
  BY <1>t DEF StepOK, start_runit_service_control, Idle_
<1>2. PICK x \in Starts :
        /\ control' = [control EXCEPT ![p] = Append(control[p], x)]
        /\ UNCHANGED <<mode, opts, first_start, fileio_opts, raced, run_script, want, term, adapter>>
  BY <1>1, Zenon DEF start_runit_service_control, Starts
<1>3. step' \in {Idle_, [port |-> p, at |-> "control"]} /\ \A q \in Ports : step # [port |-> q, at |-> "script"]
  BY <1>1 DEF start_runit_service_control
<1>4. control[p] \in ControlSeq /\ control \in [Ports -> ControlSeq] /\ x \in Starts \union {"d"}
  BY <1>1, <1>2, <1>t DEF PortsTypeOK, ControlSeq
<1>5. /\ Append(control[p], x) \in ControlSeq /\ Append(control[p], x) # <<>>
      /\ Len(Append(control[p], x)) = Len(control[p]) + 1
      /\ Append(control[p], x)[Len(control[p]) + 1] = x
      /\ \A i \in 1 .. Len(control[p]) : Append(control[p], x)[i] = control[p][i]
      /\ control[p] # <<>> => Head(Append(control[p], x)) = Head(control[p])
  BY <1>4, CommandAdded
<1>6. /\ control' \in [Ports -> ControlSeq] /\ control'[p] = Append(control[p], x)
      /\ \A q \in Ports : q # p => control'[q] = control[q]
  BY <1>1, <1>2, <1>4, <1>5
<1>7. PortsTypeOK'
  BY <1>2, <1>6, <1>t DEF PortsTypeOK, ControlSeq
<1>8. StepOK'
  BY <1>1, <1>2, <1>3 DEF StepOK
<1>9. \A q \in Ports : step' # [port |-> q, at |-> "script"]
  BY <1>3, PortsAssumption DEF Idle_
<1>10. PortInv(p)'
  <2>1. ~Unstarted(p)' /\ ~Unstarted(p)
    BY <1>1, <1>2, <1>3, <1>9 DEF Unstarted
  <2>2. ASSUME InHand(p) PROVE InHand(p)'
    <3>1. ASSUME NEW i \in 1 .. Len(control'[p]), i # 1 PROVE control'[p][i] \in Starts
      <4>0. Len(control[p]) \in Nat
        BY <1>4 DEF ControlSeq
      <4>1. CASE i = Len(control[p]) + 1
        BY <1>2, <1>5, <1>6, <4>1
      <4>2. CASE i # Len(control[p]) + 1
        <5>1. i \in 1 .. Len(control[p])
          BY <1>5, <1>6, <3>1, <4>0, <4>2
        <5> QED
          BY <1>5, <1>6, <2>2, <3>1, <5>1, Zenon DEF InHand
      <4> QED
        BY <4>1, <4>2
    <3>2. Ending(p) => Ending(p)'
      BY <1>2, <1>5, <1>6 DEF Ending
    <3> QED
      BY <1>2, <2>1, <2>2, <3>1, <3>2, Zenon DEF InHand, Shows
  <2> QED
    BY <1>1, <1>2, <1>t, <2>2 DEF PortInv, OwnEndpoints
<1>11. ASSUME NEW q \in Ports, q # p PROVE PortInv(q)'
  BY <1>2, <1>3, <1>6, <1>9, <1>11, <1>t, PortRests, Zenon
<1> QED
  BY <1>7, <1>8, <1>10, <1>11 DEF PortsInv

\* The supervisor and the adapter of a port.
LEMMA SupervisorPortStep ==
  ASSUME PortsInv, NEW p \in Ports, runsv_control(p) \/ adapter_ends(p) \/ runsv_restarts(p),
         UNCHANGED active
  PROVE  PortsInv'
<1>t. PortsTypeOK /\ StepOK /\ \A q \in Ports : PortInv(q)
  BY DEF PortsInv
<1>u. UNCHANGED <<mode, opts, first_start, fileio_opts, step, run_script, raced>>
  BY Zenon DEF runsv_control, adapter_ends, runsv_restarts
<1>s. StepOK'
  BY <1>t, <1>u, Zenon DEF StepOK
<1>c. control[p] \in ControlSeq /\ control \in [Ports -> ControlSeq] /\ run_script[p] \in AllCommands
  BY <1>t DEF PortsTypeOK, ControlSeq
<1>n. None \in AllCommands
  BY DEF None, AllModes, AllOpts, AllCommands
<1>1. /\ control' \in [Ports -> ControlSeq] /\ want' \in [Ports -> {"up", "down"}]
      /\ term' \in [Ports -> BOOLEAN] /\ adapter' \in [Ports -> AllCommands]
      /\ \A q \in Ports : q # p => /\ control'[q] = control[q] /\ want'[q] = want[q]
                                   /\ (term'[q] <=> term[q]) /\ adapter'[q] = adapter[q]
  <2>1. CASE runsv_control(p)
    <3>1. Tail(control[p]) \in ControlSeq
      BY <1>c, <2>1, CommandTaken, Zenon DEF runsv_control
    <3>2. /\ control' = [control EXCEPT ![p] = Tail(control[p])]
          /\ \E w \in {"up", "down"} : want' = [want EXCEPT ![p] = w]
          /\ \E b \in BOOLEAN : term' = [term EXCEPT ![p] = b]
          /\ adapter' = adapter \/ adapter' = [adapter EXCEPT ![p] = run_script[p]]
      BY <2>1, <1>t, Zenon DEF runsv_control, PortsTypeOK
    <3> QED
      BY <1>c, <1>t, <3>1, <3>2 DEF PortsTypeOK
  <2>2. CASE adapter_ends(p)
    <3>1. /\ adapter' = [adapter EXCEPT ![p] = None] /\ term' = [term EXCEPT ![p] = FALSE]
          /\ UNCHANGED <<control, want>>
      BY <2>2 DEF adapter_ends
    <3> QED
      BY <1>c, <1>n, <1>t, <3>1 DEF PortsTypeOK
  <2>3. CASE runsv_restarts(p)
    <3>1. adapter' = [adapter EXCEPT ![p] = run_script[p]] /\ UNCHANGED <<control, want, term>>
      BY <2>3 DEF runsv_restarts
    <3> QED
      BY <1>c, <1>t, <3>1 DEF PortsTypeOK
  <2> QED
    BY <2>1, <2>2, <2>3, Zenon
<1>2. PortsTypeOK'
  BY <1>t, <1>u, <1>1 DEF PortsTypeOK, ControlSeq
<1>3. ASSUME NEW q \in Ports, q # p PROVE PortInv(q)'
  BY <1>t, <1>u, <1>1, <1>3, PortRests, Zenon
<1>4. Unstarted(p)' <=> Unstarted(p)
  BY <1>u DEF Unstarted
<1>5. CASE adapter_ends(p)
  <2>1. adapter'[p] = None /\ ~term'[p] /\ UNCHANGED <<control, want>> /\ adapter[p] # None
    BY <1>5, <1>t DEF adapter_ends, PortsTypeOK
  <2>2. ~first_start[p]
    BY <1>t, <2>1, Zenon DEF PortInv, NotBegun
  <2>3. InHand(p) => InHand(p)'
    BY <1>u, <1>4, <2>1, Zenon DEF InHand, Stopped, Shows
  <2>4. OwnEndpoints(None, p)
    BY PortsAssumption, Zenon DEF OwnEndpoints, None
  <2>5. PortInv(p)'
    BY <1>t, <1>u, <2>1, <2>2, <2>3, <2>4, Zenon DEF PortInv, OwnEndpoints
  <2> QED
    BY <1>s, <1>2, <1>3, <2>5 DEF PortsInv
<1>6. CASE runsv_restarts(p)
  <2>1. /\ adapter[p] = None /\ want[p] = "up" /\ control[p] = <<>> /\ adapter'[p] = run_script[p]
        /\ UNCHANGED <<control, want, term>>
    BY <1>6, <1>t DEF runsv_restarts, PortsTypeOK
  <2>2. ~first_start[p] /\ ~term[p]
    BY <1>t, <2>1, Zenon DEF PortInv, NotBegun
  <2>3. ASSUME InHand(p) PROVE InHand(p)'
    <3>1. ~Unstarted(p)
      <4>1. control[p] # <<"d">>
        BY <2>1, NothingIsNotDown, Zenon
      <4> QED
        BY <2>1, <2>3, <4>1, Zenon DEF InHand, Stopped
    <3> QED
      BY <1>u, <1>4, <2>1, <2>3, <3>1, Zenon DEF InHand, Shows
  <2>4. PortInv(p)'
    BY <1>t, <1>u, <2>1, <2>2, <2>3, Zenon DEF PortInv, OwnEndpoints
  <2> QED
    BY <1>s, <1>2, <1>3, <2>4 DEF PortsInv
<1>7. CASE runsv_control(p)
  <2>1. /\ control[p] # <<>> /\ control'[p] = Tail(control[p])
        /\ want'[p] = IF Head(control[p]) = "u" THEN "up" ELSE "down"
        /\ adapter'[p] = IF Head(control[p]) \in Starts /\ adapter[p] = None THEN run_script[p]
                         ELSE adapter[p]
    BY <1>7, <1>t, Zenon DEF runsv_control, PortsTypeOK, Starts
  <2>2. term'[p] <=> term[p] \/ (Head(control[p]) = "d" /\ adapter[p] # None)
    BY <1>7, <1>t, Zenon DEF runsv_control, PortsTypeOK
  <2>3. /\ Head(control[p]) \in Starts \union {"d"} /\ Head(control[p]) = control[p][1]
        /\ Len(control[p]) >= 1 /\ Len(Tail(control[p])) = Len(control[p]) - 1
        /\ \A i \in 1 .. Len(Tail(control[p])) :
             i + 1 \in 1 .. Len(control[p]) /\ Tail(control[p])[i] = control[p][i + 1]
    BY <1>c, <2>1, CommandTaken
  <2>4. ~first_start[p] /\ "d" \notin Starts
    BY <1>t, <2>1 DEF PortInv, NotBegun, Starts
  <2>5. ASSUME InHand(p) PROVE InHand(p)'
    <3>0. \A i \in 1 .. Len(control[p]) : i # 1 => control[p][i] \in Starts
      BY <2>5, Zenon DEF InHand
    <3>1. \A i \in 1 .. Len(control'[p]) : control'[p][i] \in Starts
      <4>1. ASSUME NEW i \in 1 .. Len(Tail(control[p])) PROVE Tail(control[p])[i] \in Starts
        <5>1. i + 1 \in 1 .. Len(control[p]) /\ Tail(control[p])[i] = control[p][i + 1]
          BY <2>3, Zenon
        <5>2. i + 1 # 1
          OBVIOUS
        <5> QED
          BY <3>0, <5>1, <5>2, Zenon
      <4> QED
        BY <2>1, <4>1, Zenon
    <3>2. CASE Head(control[p]) = "d"
      <4>1. adapter'[p] = adapter[p] /\ want'[p] = "down" /\ (adapter[p] # None => term'[p])
        BY <2>1, <2>2, <2>4, <3>2, Zenon
      <4>2. Stopped(p) => Stopped(p)'
        <5>1. control[p] = <<"d">> => Tail(control[p]) = <<>>
          OBVIOUS
        <5> QED
          BY <2>1, <4>1, <5>1, Zenon DEF Stopped
      <4>3. adapter'[p] # None => Ending(p)'
        BY <4>1 DEF Ending
      <4> QED
        BY <1>u, <1>4, <2>5, <3>1, <4>1, <4>2, <4>3, Zenon DEF InHand, Shows
    <3>3. CASE Head(control[p]) \in Starts
      <4>1. ~Unstarted(p)
        <5>1. control[p] # <<"d">>
          BY <2>4, <3>3
        <5> QED
          BY <2>1, <2>5, <5>1, Zenon DEF InHand, Stopped
      <4>2. Shows(run_script[p], p)
        BY <2>5, <4>1, Zenon DEF InHand
      <4>3. adapter'[p] # None => term'[p] \/ Shows(adapter'[p], p)
        BY <2>1, <2>2, <2>4, <2>5, <3>3, <4>2, Zenon DEF InHand, Ending
      <4> QED
        BY <1>u, <1>4, <3>1, <4>1, <4>2, <4>3, Zenon DEF InHand, Ending, Shows
    <3> QED
      BY <2>3, <3>2, <3>3, Zenon
  <2>6. term'[p] => adapter'[p] # None
    BY <1>t, <2>1, <2>2, <2>4, Zenon DEF PortInv
  <2>7. PortInv(p)'
    BY <1>t, <1>u, <2>1, <2>4, <2>5, <2>6, Zenon DEF PortInv, OwnEndpoints
  <2> QED
    BY <1>s, <1>2, <1>3, <2>7 DEF PortsInv
<1> QED
  BY <1>5, <1>6, <1>7

\* No port has been configured.
LEMMA PortsInitInv == PortsInit => PortsInv
<1> SUFFICES ASSUME PortsInit PROVE PortsInv
  OBVIOUS
<1>1. None \in AllCommands
  BY DEF None, AllModes, AllOpts, AllCommands
<1>2. PortsTypeOK
  <2>1. active \subseteq Ports
    BY PortsAssumption DEF PortsInit
  <2>2. mode \in [Ports -> AllModes] /\ opts \in [Ports -> AllOpts]
    BY DEF PortsInit, AllModes, AllOpts
  <2>3. run_script \in [Ports -> AllCommands] /\ adapter \in [Ports -> AllCommands]
    BY <1>1 DEF PortsInit
  <2>4. /\ first_start \in [Ports -> BOOLEAN] /\ fileio_opts \in Ports \union {"none"}
        /\ control \in [Ports -> Seq(Starts \union {"d"})]
        /\ want \in [Ports -> {"up", "down"}] /\ term \in [Ports -> BOOLEAN]
        /\ raced \in [Ports -> BOOLEAN]
    BY DEF PortsInit
  <2> QED
    BY <2>1, <2>2, <2>3, <2>4, Zenon DEF PortsTypeOK
<1>3. StepOK
  BY DEF PortsInit, StepOK
<1>4. ASSUME NEW p \in Ports PROVE PortInv(p)
  <2>1. /\ control[p] = <<>> /\ want[p] = "down" /\ adapter[p] = None /\ run_script[p] = None
        /\ ~term[p] /\ first_start[p]
    BY DEF PortsInit
  <2>2. OwnEndpoints(None, p)
    BY PortsAssumption DEF OwnEndpoints, None
  <2> QED
    BY <2>1, <2>2 DEF PortInv, NotBegun
<1> QED
  BY <1>2, <1>3, <1>4 DEF PortsInv

\* Every step of ports_daemon, runsv and the adapters keeps the invariant.
LEMMA PortsStepInv == PortsInv /\ [PortsNext]_ports_vars => PortsInv'
<1> SUFFICES ASSUME PortsInv, [PortsNext]_ports_vars PROVE PortsInv'
  OBVIOUS
<1>1. active \subseteq Ports
  BY DEF PortsInv, PortsTypeOK
<1>2. ASSUME NEW p \in active, NEW m \in Modes \union {MODE_DISABLED}, setting_mode_notify(p, m),
             UNCHANGED active
      PROVE  PortsInv'
  <2>1. m \in AllModes /\ p \in Ports /\ 0 \in AllOpts
    BY <1>1 DEF AllModes, AllOpts
  <2> QED
    BY <1>2, <2>1, NotifyStep
<1>3. ASSUME NEW p \in active, NEW o \in Opts, setting_opts_notify(p, o) \/ can_notify(p, o),
             UNCHANGED active
      PROVE  PortsInv'
  <2>1. MODE_SBP \in AllModes /\ p \in Ports /\ o \in AllOpts
    BY <1>1 DEF AllModes, AllOpts
  <2> QED
    BY <1>3, <2>1, NotifyStep
<1>4. ASSUME NEW p \in active, runsv_control(p) \/ adapter_ends(p) \/ runsv_restarts(p),
             UNCHANGED active
      PROVE  PortsInv'
  BY <1>1, <1>4, SupervisorPortStep
<1>5. CASE PortsStep /\ UNCHANGED active
  BY <1>5, ScriptStep, StartStep DEF PortsStep
<1>6. CASE UNCHANGED ports_vars
  <2>1. /\ UNCHANGED <<active, mode, opts, first_start, fileio_opts, step, run_script, control>>
        /\ UNCHANGED <<want, term, adapter, raced>>
    BY <1>6 DEF ports_vars
  <2>2. PortsTypeOK' /\ StepOK'
    BY <2>1 DEF PortsInv, PortsTypeOK, StepOK
  <2>3. \A p \in Ports : PortInv(p)'
    BY <2>1, PortRests, Zenon DEF PortsInv
  <2> QED
    BY <2>2, <2>3 DEF PortsInv
<1> QED
  BY <1>2, <1>3, <1>4, <1>5, <1>6 DEF PortsNext

\* The commands to runit and what runs keep to the order that
\* stop_runit_service and start_runit_service give them.
THEOREM PortsInvariant == PortsSpec => []PortsInv
BY PortsInitInv, PortsStepInv, PTL DEF PortsSpec

\* However the commands, the ends of the adapters and the changes of settings
\* of any number of ports interleave, an adapter whose port is settled runs
\* with the port's settings, unless port_configure met its service between
\* two states.
THEOREM AdaptersHaveSettings == PortsSpec => []AdapterHasSettings
<1>1. PortsInv => AdapterHasSettings
  <2> SUFFICES ASSUME PortsInv PROVE AdapterHasSettings
    OBVIOUS
  <2>1. ASSUME NEW p \in Ports, Settled(p), ~first_start[p], ~raced[p]
        PROVE  /\ mode[p] = MODE_DISABLED => adapter[p] = None /\ want[p] = "down"
               /\ adapter[p] # None => adapter[p].mode = mode[p] /\ adapter[p].opts = opts[p]
    <3>1. InHand(p)
      BY <2>1, Zenon DEF PortsInv, PortInv
    <3>2. control[p] = <<>> /\ ~term[p] /\ ~Ending(p)
      BY <2>1, Zenon DEF Settled, Ending
    <3>3. control[p] # <<"d">>
      BY <3>2, NothingIsNotDown, Zenon
    <3>4. mode[p] = MODE_DISABLED => adapter[p] = None /\ want[p] = "down"
      BY <3>1, <3>2, <3>3, Zenon DEF InHand, Unstarted, Stopped
    <3> QED
      BY <3>1, <3>2, <3>4, Zenon DEF InHand, Shows
  <2>2. \A p \in Ports \ CanPorts :
          adapter[p] # None /\ adapter[p].mode = MODE_SBP => adapter[p].fileio = p
    BY Zenon DEF PortsInv, PortInv, OwnEndpoints
  <2> QED
    BY <2>1, <2>2, Zenon DEF AdapterHasSettings
<1> QED
  BY <1>1, PortsInvariant, PTL

-----------------------------------------------------------------------------
(***************************************************************************)
(* piksi_leds: the inductive invariant.                                    *)
(***************************************************************************)
Solutions ==
  [spp : {"invalid", "gnss", "ins_gnss", "dead_reck"}, spp_age : Nat,
   dgnss : {"invalid", "float", "fixed"}, dgnss_age : Nat,
   antenna : BOOLEAN, four : BOOLEAN, obs : {0, 1}, heartbeat : BOOLEAN]
Colours == {"unset", "off", "white", "orange", "purple", "red", "blue"}
Chips == [reg : [LEDs -> Colours], cache : [LEDs -> Colours], flush : BOOLEAN]

LedsTypeOK ==
  /\ soln \in Solutions /\ seen \in Solutions
  /\ writing \in {"nothing", "spp_age", "dgnss_age"}
  /\ chip \in Chips

\* The registers follow the cache, which the driver's start finds dark.
ChipFollows ==
  /\ led_pc = "heartbeat" => \A l \in LEDs : chip.cache[l] = Off
  /\ led_pc \notin {"heartbeat", "exited"} =>
       \A l \in LEDs : chip.reg[l] # chip.cache[l] => chip.flush \/ l \in unrepaired

\* What the thread has copied: a mode the state held meanwhile, and a time
\* stamp that is no later than the state's.
CopyIsRecent ==
  /\ led_pc \in {"modes", "stamps", "copied"} => soln.dgnss \in recent
  /\ led_pc \in {"modes", "copied"} => seen.dgnss \in recent
  /\ led_pc \in {"stamps", "copied"} => soln.dgnss_age <= seen.dgnss_age

LedsInv == LedsTypeOK /\ ChipFollows /\ CopyIsRecent

-----------------------------------------------------------------------------
(* The driver.                                                             *)

\* What leds_set leaves: the cache has the states that were set, a register
\* has them too unless its write failed, and then the flag is set.
IsSet(r, c, D, st, failed) ==
  /\ r \in Chips
  /\ \A l \in D : r.cache[l] = st[l] /\ (l \notin failed => r.reg[l] = st[l])
  /\ \A l \in LEDs \ D : r.cache[l] = c.cache[l] /\ r.reg[l] = c.reg[l]
  /\ r.flush <=> c.flush \/ failed \cap D # {}

\* leds_set does.
LEMMA SetEffect ==
  ASSUME NEW c \in Chips, NEW D \in SUBSET LEDs, NEW st \in [D -> Colours], NEW failed \in SUBSET LEDs
  PROVE  IsSet(leds_set(c, st, failed), c, D, st, failed)
<1> DEFINE r == leds_set(c, st, failed)
<1>1. DOMAIN st = D /\ c.reg \in [LEDs -> Colours] /\ c.cache \in [LEDs -> Colours] /\ c.flush \in BOOLEAN
  BY DEF Chips
<1>2. PICK reg \in [LEDs -> Colours] :
        reg = [l \in LEDs |-> IF l \in D \ failed THEN st[l] ELSE c.reg[l]]
  <2>1. \A l \in LEDs : (IF l \in D \ failed THEN st[l] ELSE c.reg[l]) \in Colours
    BY <1>1
  <2> QED
    BY <2>1, Zenon
<1>3. PICK cache \in [LEDs -> Colours] :
        cache = [l \in LEDs |-> IF l \in D THEN st[l] ELSE c.cache[l]]
  <2>1. \A l \in LEDs : (IF l \in D THEN st[l] ELSE c.cache[l]) \in Colours
    BY <1>1
  <2> QED
    BY <2>1, Zenon
<1>4. PICK flush \in BOOLEAN : flush = (c.flush \/ failed \cap D # {})
  BY <1>1, Zenon
<1>5. r = [reg |-> reg, cache |-> cache, flush |-> flush]
  BY <1>1, <1>2, <1>3, <1>4, Zenon DEF leds_set
<1> HIDE DEF r
<1>6. r \in Chips /\ r.reg = reg /\ r.cache = cache /\ (r.flush <=> flush)
  BY <1>5 DEF Chips
<1>7. /\ \A l \in D : cache[l] = st[l] /\ (l \notin failed => reg[l] = st[l])
      /\ \A l \in LEDs \ D : cache[l] = c.cache[l] /\ reg[l] = c.reg[l]
  BY <1>2, <1>3
<1>8. IsSet(r, c, D, st, failed)
  BY <1>4, <1>6, <1>7, Zenon DEF IsSet
<1> QED
  BY <1>8 DEF r

\* led_adp8866_leds_set: the cache has the new states, and a register that
\* does not is marked by the flag or left unrepaired.
LEMMA DriverEffect ==
  ASSUME chip \in Chips, NEW st \in [LEDs -> Colours], NEW failed1 \in SUBSET LEDs,
         NEW failed2 \in SUBSET LEDs, Writes(st, failed1, failed2),
         \A l \in LEDs : chip.reg[l] # chip.cache[l] => chip.flush \/ l \in unrepaired
  PROVE  /\ chip' \in Chips /\ \A l \in LEDs : chip'.cache[l] = st[l]
         /\ \A l \in LEDs : chip'.reg[l] # chip'.cache[l] => chip'.flush \/ l \in unrepaired'
<1>1. PICK D \in SUBSET LEDs : D = {l \in LEDs : st[l] # chip.cache[l]}
  BY Zenon
<1>2. PICK changed \in [D -> Colours] : changed = [l \in D |-> st[l]]
  BY Zenon
<1>3. modified_states_get(st) = changed /\ DOMAIN changed = D
  BY <1>1, <1>2 DEF modified_states_get
<1>4. chip.cache \in [LEDs -> Colours]
  BY DEF Chips
<1>5. PICK flushed \in Chips :
        /\ chip' = leds_set(flushed, changed, failed2)
        /\ \A l \in LEDs : flushed.cache[l] = chip.cache[l]
        /\ chip.flush => \A l \in LEDs \ failed1 : flushed.reg[l] = chip.cache[l]
        /\ ~chip.flush => flushed = chip
  <2>1. CASE chip.flush
    <3>1. PICK c : c = led_cache_flush(chip, failed1)
      OBVIOUS
    <3>2. /\ c \in Chips
          /\ \A l \in LEDs : c.cache[l] = chip.cache[l] /\ (l \notin failed1 => c.reg[l] = chip.cache[l])
      <4>1. c = leds_set(chip, chip.cache, failed1) /\ LEDs \in SUBSET LEDs
        BY <3>1, Zenon DEF led_cache_flush
      <4>2. IsSet(c, chip, LEDs, chip.cache, failed1)
        BY <1>4, <4>1, SetEffect, Zenon
      <4> QED
        BY <4>2, Zenon DEF IsSet
    <3>3. chip' = leds_set([c EXCEPT !.flush = FALSE], changed, failed2)
      BY <1>3, <2>1, <3>1 DEF Writes, led_adp8866_leds_set
    <3>4. /\ [c EXCEPT !.flush = FALSE] \in Chips /\ [c EXCEPT !.flush = FALSE].cache = c.cache
          /\ [c EXCEPT !.flush = FALSE].reg = c.reg
      BY <3>2, Zenon DEF Chips
    <3> QED
      BY <2>1, <3>2, <3>3, <3>4, Zenon
  <2>2. CASE ~chip.flush
    <3>1. chip' = leds_set(chip, changed, failed2)
      BY <1>3, <2>2 DEF Writes, led_adp8866_leds_set
    <3> QED
      BY <2>2, <3>1, Zenon
  <2> QED
    BY <2>1, <2>2, Zenon
<1>6. /\ chip' \in Chips
      /\ \A l \in D : chip'.cache[l] = changed[l] /\ (l \notin failed2 => chip'.reg[l] = changed[l])
      /\ \A l \in LEDs \ D : chip'.cache[l] = flushed.cache[l] /\ chip'.reg[l] = flushed.reg[l]
      /\ chip'.flush <=> flushed.flush \/ failed2 \cap D # {}
  <2>1. flushed \in Chips /\ chip' = leds_set(flushed, changed, failed2)
    BY <1>5, Zenon
  <2>2. IsSet(chip', flushed, D, changed, failed2)
    BY <2>1, SetEffect, Zenon
  <2> QED
    BY <2>2, Zenon DEF IsSet
<1>7. unrepaired' = (IF chip.flush THEN failed1 ELSE unrepaired) \ D
  BY <1>3, Zenon DEF Writes
<1>8. ASSUME NEW l \in LEDs PROVE chip'.cache[l] = st[l]
  <2>1. CASE l \in D
    BY <1>2, <1>6, <2>1
  <2>2. CASE l \notin D
    <3>1. st[l] = chip.cache[l]
      BY <1>1, <2>2, Zenon
    <3>2. chip'.cache[l] = flushed.cache[l] /\ flushed.cache[l] = chip.cache[l]
      BY <1>5, <1>6, <2>2, Zenon
    <3> QED
      BY <3>1, <3>2, Zenon
  <2> QED
    BY <2>1, <2>2, Zenon
<1>9. ASSUME NEW l \in LEDs, chip'.reg[l] # chip'.cache[l] PROVE chip'.flush \/ l \in unrepaired'
  <2>1. CASE l \in D
    BY <1>6, <1>9, <2>1, Zenon
  <2>2. CASE l \notin D /\ chip.flush
    <3>1. chip'.reg[l] = flushed.reg[l] /\ chip'.cache[l] = chip.cache[l]
      BY <1>5, <1>6, <2>2, Zenon
    <3>2. l \in failed1
      BY <1>5, <1>9, <2>2, <3>1, Zenon
    <3>3. unrepaired' = failed1 \ D
      BY <1>7, <2>2, Zenon
    <3> QED
      BY <2>2, <3>2, <3>3, Zenon
  <2>3. CASE l \notin D /\ ~chip.flush
    BY <1>5, <1>6, <1>7, <1>9, <2>3, Zenon
  <2> QED
    BY <2>1, <2>2, <2>3, Zenon
<1> QED
  BY <1>6, <1>8, <1>9, Zenon

-----------------------------------------------------------------------------
(* The thread and the callbacks.                                           *)

\* A step of the callbacks, which leave the thread alone: the time stamp of
\* the baseline only becomes younger, and its mode is noted.
LEMMA CallbackKeeps ==
  ASSUME LedsInv, thread_keeps, soln' \in Solutions,
         writing' \in {"nothing", "spp_age", "dgnss_age"},
         soln'.dgnss_age <= soln.dgnss_age, recent \subseteq recent',
         soln'.dgnss = soln.dgnss \/ soln'.dgnss \in recent'
  PROVE  LedsInv'
<1>1. UNCHANGED <<led_pc, seen, chip, unrepaired>>
  BY Zenon DEF thread_keeps
<1>2. LedsTypeOK' /\ ChipFollows'
  BY <1>1, Zenon DEF LedsInv, LedsTypeOK, ChipFollows
<1>3. soln.dgnss_age \in Nat /\ soln'.dgnss_age \in Nat /\ seen.dgnss_age \in Nat
  BY DEF LedsInv, LedsTypeOK, Solutions
<1>4. soln.dgnss_age <= seen.dgnss_age => soln'.dgnss_age <= seen.dgnss_age
  BY <1>3
<1>5. CopyIsRecent'
  BY <1>1, <1>4 DEF LedsInv, CopyIsRecent
<1> QED
  BY <1>2, <1>5, Zenon DEF LedsInv

\* The callbacks.
LEMMA CallbackStep ==
  ASSUME LedsInv,
         \/ \E m \in {"invalid", "gnss", "ins_gnss", "dead_reck"} : sbp_msg_pos_ecef_callback(m)
         \/ \E m \in {"invalid", "float", "fixed"} : sbp_msg_baseline_ecef_callback(m)
         \/ clock_gettime_systime
         \/ sbp_msg_obs_counted
         \/ \E b \in BOOLEAN : sbp_msg_heartbeat_callback(b) \/ sbp_msg_tracking_state_callback(b)
  PROVE  LedsInv'
<1>t. soln \in Solutions /\ soln.dgnss_age \in Nat /\ soln.dgnss_age <= soln.dgnss_age
  BY DEF LedsInv, LedsTypeOK, Solutions
<1>1. ASSUME NEW m \in {"invalid", "gnss", "ins_gnss", "dead_reck"}, sbp_msg_pos_ecef_callback(m)
      PROVE  LedsInv'
  <2>1. thread_keeps /\ soln' = [soln EXCEPT !.spp = m] /\ writing' = "spp_age" /\ recent' = recent
    BY <1>1 DEF sbp_msg_pos_ecef_callback, Receives
  <2>2. soln' \in Solutions /\ soln'.dgnss = soln.dgnss /\ soln'.dgnss_age = soln.dgnss_age
    BY <1>t, <2>1 DEF Solutions
  <2> QED
    BY <1>t, <2>1, <2>2, CallbackKeeps
<1>2. ASSUME NEW m \in {"invalid", "float", "fixed"}, sbp_msg_baseline_ecef_callback(m)
      PROVE  LedsInv'
  <2>1. /\ thread_keeps /\ soln' = [soln EXCEPT !.dgnss = m] /\ writing' = "dgnss_age"
        /\ recent' = recent \union {m}
    BY <1>2 DEF sbp_msg_baseline_ecef_callback, Receives
  <2>2. soln' \in Solutions /\ soln'.dgnss = m /\ soln'.dgnss_age = soln.dgnss_age
    BY <1>t, <2>1 DEF Solutions
  <2> QED
    BY <1>t, <2>1, <2>2, CallbackKeeps
<1>3. CASE clock_gettime_systime
  <2>1. /\ thread_keeps /\ soln' = [soln EXCEPT ![writing] = 0] /\ writing' = "nothing"
        /\ recent' = recent /\ writing \in {"spp_age", "dgnss_age"}
    BY <1>3 DEF clock_gettime_systime, LedsInv, LedsTypeOK
  <2>2. soln' \in Solutions /\ soln'.dgnss = soln.dgnss /\ soln'.dgnss_age \in {0, soln.dgnss_age}
    BY <1>t, <2>1 DEF Solutions
  <2>3. soln'.dgnss_age <= soln.dgnss_age
    BY <1>t, <2>2
  <2> QED
    BY <2>1, <2>2, <2>3, CallbackKeeps
<1>4. CASE sbp_msg_obs_counted
  <2>1. thread_keeps /\ soln' = [soln EXCEPT !.obs = 1 - @] /\ UNCHANGED <<writing, recent>>
    BY <1>4 DEF sbp_msg_obs_counted, Receives
  <2>2. soln' \in Solutions /\ soln'.dgnss = soln.dgnss /\ soln'.dgnss_age = soln.dgnss_age
    <3>1. 1 - soln.obs \in {0, 1}
      BY <1>t DEF Solutions
    <3> QED
      BY <1>t, <2>1, <3>1 DEF Solutions
  <2> QED
    BY <1>t, <2>1, <2>2, CallbackKeeps DEF LedsInv, LedsTypeOK
<1>5. ASSUME NEW b \in BOOLEAN, sbp_msg_heartbeat_callback(b) \/ sbp_msg_tracking_state_callback(b)
      PROVE  LedsInv'
  <2>1. /\ thread_keeps /\ UNCHANGED <<writing, recent>>
        /\ \/ soln' = [soln EXCEPT !.antenna = b, !.heartbeat = TRUE]
           \/ soln' = [soln EXCEPT !.four = b]
    BY <1>5, Zenon DEF sbp_msg_heartbeat_callback, sbp_msg_tracking_state_callback, Receives
  <2>2. soln' \in Solutions /\ soln'.dgnss = soln.dgnss /\ soln'.dgnss_age = soln.dgnss_age
    BY <1>t, <2>1, Zenon DEF Solutions
  <2> QED
    BY <1>t, <2>1, <2>2, CallbackKeeps DEF LedsInv, LedsTypeOK
<1> QED
  BY <1>1, <1>2, <1>3, <1>4, <1>5

\* The colours of the three LEDs are a function.
LEMMA ThreeLeds ==
  ASSUME NEW a \in Colours, NEW b \in Colours, NEW c \in Colours
  PROVE  [pos |-> a, link |-> b, mode |-> c] \in [LEDs -> Colours]
<1>1. [pos |-> a, link |-> b, mode |-> c]
        = [l \in LEDs |-> IF l = "pos" THEN a ELSE IF l = "link" THEN b ELSE c]
  BY DEF LEDs
<1> QED
  BY <1>1, Zenon

\* What a round of the thread writes: the MODE LED is lit only for a FLOAT or
\* FIXED solution that is not too old in the copy.
LEMMA RoundEffect ==
  ASSUME LedsInv, NEW failed1 \in SUBSET LEDs, NEW failed2 \in SUBSET LEDs,
         manage_led_thread(failed1, failed2)
  PROVE  /\ led_pc = "copied" /\ led_pc' = "asleep" /\ UNCHANGED <<soln, writing>> /\ seen' = no_copy
         /\ \E st \in [LEDs -> Colours] :
              /\ Writes(st, failed1, failed2)
              /\ st["mode"] = "blue" => /\ seen.dgnss \in {"float", "fixed"}
                                        /\ seen.dgnss_age < LED_MODE_TIMEOUT
<1>1. PICK c1 \in Colours, c2 \in Colours, c3 \in Colours :
        /\ c3 = "blue" => blinker_update(mode_blink[update_mode_state(seen)], blink.mode, blink.mode_age)
        /\ Writes([pos |-> c1, link |-> c2, mode |-> c3], failed1, failed2)
  BY Zenon DEF manage_led_thread, Colours, Off
<1>2. c3 = "blue" => seen.dgnss \in {"float", "fixed"} /\ seen.dgnss_age < LED_MODE_TIMEOUT
  <2>1. seen.dgnss_age \in Nat /\ LED_MODE_TIMEOUT \in Nat
    BY LedAssumption DEF LedsInv, LedsTypeOK, Solutions
  <2>2. ~blinker_update(mode_blink["no_rtk"], blink.mode, blink.mode_age)
    BY Zenon DEF mode_blink, blinker_update
  <2>3. c3 = "blue" => update_mode_state(seen) # "no_rtk"
    BY <1>1, <2>2
  <2> QED
    BY <2>1, <2>3 DEF update_mode_state
<1>3. [pos |-> c1, link |-> c2, mode |-> c3] \in [LEDs -> Colours]
  BY ThreeLeds, Zenon
<1>4. led_pc = "copied" /\ led_pc' = "asleep" /\ UNCHANGED <<soln, writing>> /\ seen' = no_copy
  BY Zenon DEF manage_led_thread
<1>5. [pos |-> c1, link |-> c2, mode |-> c3]["mode"] = c3
  OBVIOUS
<1> QED
  BY <1>1, <1>2, <1>3, <1>4, <1>5, Zenon

\* Steps of the thread.
LEMMA ThreadStep ==
  ASSUME LedsInv, NEW failed1 \in SUBSET LEDs, NEW failed2 \in SUBSET LEDs,
         \/ led_adp8866_init(failed1)
         \/ manage_led_thread_start(failed1, failed2)
         \/ manage_led_thread(failed1, failed2)
  PROVE  LedsInv'
<1>t. soln \in Solutions /\ seen \in Solutions /\ chip \in Chips
  BY DEF LedsInv, LedsTypeOK
<1>1. CASE led_adp8866_init(failed1)
  <2>1. /\ led_pc = "heartbeat" /\ led_pc' \in {"found", "exited"} /\ UNCHANGED <<soln, writing, seen>>
        /\ \/ led_pc' = "exited" /\ chip' = chip
           \/ chip' = led_cache_flush([chip EXCEPT !.reg = [l \in LEDs |-> Off]], failed1)
    BY <1>1 DEF led_adp8866_init
  <2>2. CASE led_pc' = "exited" /\ chip' = chip
    BY <2>1, <2>2 DEF LedsInv, LedsTypeOK, ChipFollows, CopyIsRecent
  <2>3. CASE chip' = led_cache_flush([chip EXCEPT !.reg = [l \in LEDs |-> Off]], failed1)
    <3>1. PICK c : c = [chip EXCEPT !.reg = [l \in LEDs |-> Off]]
      BY Zenon
    <3>2. /\ c \in Chips /\ c.cache = chip.cache /\ c.cache \in [LEDs -> Colours]
          /\ \A l \in LEDs : c.reg[l] = Off
      BY <1>t, <3>1 DEF Chips, Colours, Off
    <3>3. chip' = leds_set(c, c.cache, failed1) /\ LEDs \in SUBSET LEDs
      BY <2>3, <3>1 DEF led_cache_flush
    <3>4. IsSet(chip', c, LEDs, c.cache, failed1)
      BY <3>2, <3>3, SetEffect, Zenon
    <3>5. \A l \in LEDs : c.cache[l] = Off
      BY <2>1, <3>2 DEF LedsInv, ChipFollows
    <3>6. \A l \in LEDs : chip'.reg[l] = chip'.cache[l]
      <4>1. DOMAIN c.cache = LEDs
        BY <3>2, Zenon
      <4>2. \A l \in LEDs : chip'.reg[l] = IF l \in LEDs \ failed1 THEN c.cache[l] ELSE c.reg[l]
        BY <3>3, <4>1, Zenon DEF leds_set
      <4> QED
        BY <3>2, <3>4, <3>5, <4>2, Zenon DEF IsSet
    <3>7. LedsTypeOK'
      BY <2>1, <3>4 DEF LedsInv, LedsTypeOK, IsSet
    <3> QED
      BY <2>1, <3>6, <3>7 DEF LedsInv, ChipFollows, CopyIsRecent
  <2> QED
    BY <2>1, <2>2, <2>3
<1>2. CASE manage_led_thread_start(failed1, failed2)
  <2>1. PICK st \in [LEDs -> Colours] : st = [l \in LEDs |-> "white"]
    BY Zenon DEF Colours
  <2>2. /\ led_pc = "found" /\ led_pc' = "asleep" /\ UNCHANGED <<soln, writing, seen>>
        /\ Writes(st, failed1, failed2)
    BY <1>2, <2>1 DEF manage_led_thread_start
  <2>3. \A l \in LEDs : chip.reg[l] # chip.cache[l] => chip.flush \/ l \in unrepaired
    BY <2>2, Zenon DEF LedsInv, ChipFollows
  <2>4. /\ chip' \in Chips
        /\ \A l \in LEDs : chip'.reg[l] # chip'.cache[l] => chip'.flush \/ l \in unrepaired'
    BY <1>t, <2>2, <2>3, DriverEffect, Zenon
  <2> QED
    BY <2>2, <2>4, Zenon DEF LedsInv, LedsTypeOK, ChipFollows, CopyIsRecent
<1>3. CASE manage_led_thread(failed1, failed2)
  <2>1. PICK st \in [LEDs -> Colours] : Writes(st, failed1, failed2)
    BY <1>3, RoundEffect
  <2>2. led_pc = "copied" /\ led_pc' = "asleep" /\ UNCHANGED <<soln, writing>> /\ seen' = no_copy
    BY <1>3, RoundEffect
  <2>3. \A l \in LEDs : chip.reg[l] # chip.cache[l] => chip.flush \/ l \in unrepaired
    BY <2>2, Zenon DEF LedsInv, ChipFollows
  <2>4. /\ chip' \in Chips
        /\ \A l \in LEDs : chip'.reg[l] # chip'.cache[l] => chip'.flush \/ l \in unrepaired'
    BY <1>t, <2>1, <2>3, DriverEffect, Zenon
  <2>5. no_copy \in Solutions
    BY LedAssumption DEF no_copy, Solutions
  <2> QED
    BY <2>2, <2>4, <2>5, Zenon DEF LedsInv, LedsTypeOK, ChipFollows, CopyIsRecent
<1> QED
  BY <1>1, <1>2, <1>3

\* The copy, which memcpy makes in two parts.
LEMMA CopyStep ==
  ASSUME LedsInv, NEW part \in {"modes", "stamps"}, firmware_state_get(part)
  PROVE  LedsInv'
<1>t. soln \in Solutions /\ seen \in Solutions
  BY DEF LedsInv, LedsTypeOK
<1>1. /\ \/ led_pc = "awake" /\ led_pc' = part /\ recent' = {soln.dgnss}
         \/ led_pc \in {"modes", "stamps"} \ {part} /\ led_pc' = "copied" /\ recent' = recent
      /\ UNCHANGED <<soln, writing, chip, unrepaired>>
  BY Zenon DEF firmware_state_get
<1>2. DOMAIN soln = {"spp", "spp_age", "dgnss", "dgnss_age", "antenna", "four", "obs", "heartbeat"}
  BY <1>t DEF Solutions
<1>3. CASE part = "stamps"
  <2>1. /\ seen' = [f \in DOMAIN soln |-> IF f \in Stamps THEN soln[f] ELSE seen[f]]
    BY <1>3, Zenon DEF firmware_state_get
  <2>2. seen' = [seen EXCEPT !.spp_age = soln.spp_age, !.dgnss_age = soln.dgnss_age]
    BY <1>t, <1>2, <2>1, Zenon DEF Stamps, Solutions
  <2>3. seen' \in Solutions /\ seen'.dgnss = seen.dgnss /\ seen'.dgnss_age = soln.dgnss_age
    BY <1>t, <2>2, Zenon DEF Solutions
  <2>4. soln.dgnss_age \in Nat
    BY <1>t DEF Solutions
  <2>5. CopyIsRecent'
    <3>1. soln' = soln /\ soln'.dgnss_age <= seen'.dgnss_age
      BY <1>1, <2>3, <2>4
    <3>2. \/ led_pc' = "stamps" /\ recent' = {soln.dgnss}
          \/ led_pc = "modes" /\ led_pc' = "copied" /\ recent' = recent
      BY <1>1, <1>3
    <3>3. soln.dgnss \in recent' /\ (led_pc' = "copied" => seen'.dgnss \in recent')
      BY <2>3, <3>2 DEF LedsInv, CopyIsRecent
    <3> QED
      BY <3>1, <3>2, <3>3 DEF CopyIsRecent
  <2> QED
    BY <1>1, <1>3, <2>3, <2>5, Zenon DEF LedsInv, LedsTypeOK, ChipFollows
<1>4. CASE part = "modes"
  <2>1. seen' = [f \in DOMAIN soln |-> IF f \notin Stamps THEN soln[f] ELSE seen[f]]
    BY <1>4, Zenon DEF firmware_state_get
  <2>2. seen' = [soln EXCEPT !.spp_age = seen.spp_age, !.dgnss_age = seen.dgnss_age]
    BY <1>t, <1>2, <2>1, Zenon DEF Stamps, Solutions
  <2>3. seen' \in Solutions /\ seen'.dgnss = soln.dgnss /\ seen'.dgnss_age = seen.dgnss_age
    BY <1>t, <2>2, Zenon DEF Solutions
  <2>4. CopyIsRecent'
    BY <1>1, <1>4, <2>3, Zenon DEF LedsInv, CopyIsRecent
  <2> QED
    BY <1>1, <1>4, <2>3, <2>4, Zenon DEF LedsInv, LedsTypeOK, ChipFollows
<1> QED
  BY <1>3, <1>4

\* The thread sleeps, and wakes later or not.
LEMMA SleepStep ==
  ASSUME LedsInv, thread_wakes \/ LedTimePasses
  PROVE  LedsInv'
<1>t. soln \in Solutions
  BY DEF LedsInv, LedsTypeOK
<1>1. /\ led_pc \in {"heartbeat", "asleep"} /\ led_pc' \in {"awake", led_pc}
      /\ UNCHANGED <<writing, seen, chip, unrepaired>>
      /\ led_pc = "heartbeat" => led_pc' = "heartbeat"
  BY DEF thread_wakes, LedTimePasses
<1>2. soln' \in Solutions
  <2>1. CASE thread_wakes
    BY <1>t, <2>1 DEF thread_wakes
  <2>2. CASE LedTimePasses
    <3>1. soln.spp_age \in Nat /\ soln.dgnss_age \in Nat
      BY <1>t DEF Solutions
    <3>2. PICK a \in Nat, b \in Nat : soln' = [soln EXCEPT !.spp_age = a, !.dgnss_age = b]
      <4>1. Older(soln.spp_age, LED_MODE_TIMEOUT) \in Nat /\ Older(soln.dgnss_age, LED_MODE_TIMEOUT) \in Nat
        BY <3>1 DEF Older
      <4> QED
        BY <2>2, <4>1, Zenon DEF LedTimePasses
    <3> QED
      BY <1>t, <3>2, Zenon DEF Solutions
  <2> QED
    BY <2>1, <2>2
<1> QED
  BY <1>1, <1>2, Zenon DEF LedsInv, LedsTypeOK, ChipFollows, CopyIsRecent

-----------------------------------------------------------------------------
(* The theorems about piksi_leds.                                          *)

\* The thread waits for the firmware.
LEMMA LedsInitInv == LedsInit => LedsInv
<1> SUFFICES ASSUME LedsInit PROVE LedsInv
  OBVIOUS
<1>1. no_copy \in Solutions
  BY LedAssumption DEF no_copy, Solutions
<1>2. no_chip \in Chips /\ \A l \in LEDs : no_chip.cache[l] = Off
  BY DEF no_chip, Chips, Colours, Off
<1> QED
  BY <1>1, <1>2, Zenon DEF LedsInit, LedsInv, LedsTypeOK, ChipFollows, CopyIsRecent

\* Every step of the callbacks, the thread and the connectivity check keeps
\* the invariant.
LEMMA LedsStepInv == LedsInv /\ [LedsNext]_led_vars => LedsInv'
<1> SUFFICES ASSUME LedsInv, [LedsNext]_led_vars PROVE LedsInv'
  OBVIOUS
<1>1. CASE \/ \E m \in {"invalid", "gnss", "ins_gnss", "dead_reck"} : sbp_msg_pos_ecef_callback(m)
           \/ \E m \in {"invalid", "float", "fixed"} : sbp_msg_baseline_ecef_callback(m)
           \/ clock_gettime_systime
           \/ sbp_msg_obs_counted
           \/ \E b \in BOOLEAN : sbp_msg_heartbeat_callback(b) \/ sbp_msg_tracking_state_callback(b)
  BY <1>1, CallbackStep
<1>2. ASSUME NEW f1 \in SUBSET LEDs,
             \/ led_adp8866_init(f1)
             \/ \E f2 \in SUBSET LEDs : manage_led_thread_start(f1, f2) \/ manage_led_thread(f1, f2)
      PROVE  LedsInv'
  <2>1. {} \in SUBSET LEDs
    OBVIOUS
  <2> QED
    BY <1>2, <2>1, ThreadStep
<1>3. ASSUME NEW part \in {"modes", "stamps"}, firmware_state_get(part) PROVE LedsInv'
  BY <1>3, CopyStep
<1>4. CASE thread_wakes \/ LedTimePasses
  BY <1>4, SleepStep
<1>5. CASE UNCHANGED led_vars \/ \E n \in {"0", "1"} : network_poll(n)
  <2>1. UNCHANGED <<soln, writing, recent, led_pc, seen, chip, unrepaired>>
    BY <1>5 DEF led_vars, network_poll
  <2> QED
    BY <2>1, Zenon DEF LedsInv, LedsTypeOK, ChipFollows, CopyIsRecent
<1> QED
  BY <1>1, <1>2, <1>3, <1>4, <1>5 DEF LedsNext

\* The registers follow the cache and the copy is recent, at every step.
THEOREM LedsInvariant == LedsSpec => []LedsInv
BY LedsInitInv, LedsStepInv, PTL DEF LedsSpec

\* For any timeout, any messages and any failures of the bus, the board shows
\* what the driver's cache holds wherever no rewrite is due or failed, and the
\* MODE LED is lit only for a solution that is recent, torn as the copy may be.
THEOREM LedsAlwaysShowSolution == LedsSpec => LedsShowSolution
<1> DEFINE Shown ==
      /\ led_pc' \notin {"heartbeat", "exited"}
           => \A l \in LEDs : chip'.reg[l] # chip'.cache[l] => chip'.flush \/ l \in unrepaired'
      /\ led_pc = "copied" /\ led_pc' = "asleep" /\ chip'.cache["mode"] = "blue"
           => soln.dgnss_age < LED_MODE_TIMEOUT /\ recent \cap {"float", "fixed"} # {}
<1>1. LedsInv /\ LedsInv' /\ [LedsNext]_led_vars => [Shown]_led_vars
  <2> SUFFICES ASSUME LedsInv, LedsInv', LedsNext PROVE Shown
    OBVIOUS
  <2>1. led_pc' \notin {"heartbeat", "exited"}
          => \A l \in LEDs : chip'.reg[l] # chip'.cache[l] => chip'.flush \/ l \in unrepaired'
    BY Zenon DEF LedsInv, ChipFollows
  <2>2. ASSUME led_pc = "copied", led_pc' = "asleep", chip'.cache["mode"] = "blue"
        PROVE  soln.dgnss_age < LED_MODE_TIMEOUT /\ recent \cap {"float", "fixed"} # {}
    <3>1. PICK f1 \in SUBSET LEDs, f2 \in SUBSET LEDs : manage_led_thread(f1, f2)
      BY <2>2 DEF LedsNext, sbp_msg_pos_ecef_callback, sbp_msg_baseline_ecef_callback,
                  clock_gettime_systime, sbp_msg_obs_counted, sbp_msg_heartbeat_callback,
                  sbp_msg_tracking_state_callback, Receives, thread_keeps, led_adp8866_init,
                  manage_led_thread_start, firmware_state_get, thread_wakes, LedTimePasses,
                  network_poll
    <3>2. PICK st \in [LEDs -> Colours] :
            /\ Writes(st, f1, f2)
            /\ st["mode"] = "blue" => /\ seen.dgnss \in {"float", "fixed"}
                                      /\ seen.dgnss_age < LED_MODE_TIMEOUT
      BY <3>1, RoundEffect
    <3>3. chip \in Chips /\ \A l \in LEDs : chip.reg[l] # chip.cache[l] => chip.flush \/ l \in unrepaired
      BY <2>2, Zenon DEF LedsInv, LedsTypeOK, ChipFollows
    <3>4. chip'.cache["mode"] = st["mode"]
      BY <3>2, <3>3, DriverEffect, Zenon DEF LEDs
    <3>5. seen.dgnss \in recent /\ soln.dgnss_age <= seen.dgnss_age
      BY <2>2, Zenon DEF LedsInv, CopyIsRecent
    <3>6. soln.dgnss_age \in Nat /\ seen.dgnss_age \in Nat /\ LED_MODE_TIMEOUT \in Nat
      BY LedAssumption DEF LedsInv, LedsTypeOK, Solutions
    <3> QED
      BY <2>2, <3>2, <3>4, <3>5, <3>6
  <2> QED
    BY <2>1, <2>2, Zenon
<1>2. LedsSpec => [][Shown]_led_vars
  BY <1>1, LedsInvariant, PTL DEF LedsSpec
<1> QED
  BY <1>2 DEF LedsShowSolution
=============================================================================
