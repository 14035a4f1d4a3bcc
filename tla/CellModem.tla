------------------------------- MODULE CellModem -------------------------------
(***************************************************************************)
(* cell_modem_daemon: the device it has found in /dev, by a scan or from   *)
(* an inotify event, the settings, and the pppd service that runit keeps   *)
(* running on the device (cell_modem_settings.c, cell_modem_inotify.c,     *)
(* cell_modem_probe.c).  All of it runs in one event loop; the devices     *)
(* come and go on their own.                                               *)
(*                                                                         *)
(* A probe is a record of what the modem answers: how many AT commands it  *)
(* leaves unanswered, whether it answers the four queries for its          *)
(* parameters, and the GSM query.                                          *)
(***************************************************************************)
EXTENDS Integers, Sequences, FiniteSets

CONSTANTS Ttys,         \* ttyUSB and ttyACM devices
          Answers,      \* what a modem may answer to a probe
          PROBE_RETRIES,               \* `retries' of cell_modem_probe
          CELL_MODEM_MAX_BOOT_RETRIES, \* scans by the retry timer
          MaxPlugs,     \* bound on devices appearing and vanishing
          MaxWrites     \* bound on writes of settings

VARIABLES ttys,      \* devices in /dev
          events,    \* inotify events not yet read
          enabled_,  \* cell_modem_enabled_
          override,  \* cell_modem_dev_override, "" is NULL
          modem,     \* ctx and the globals: [ctx_dev, ctx_type, dev, type, service]
          timer,     \* the override_probe_retry timer is active
          retries,   \* probe_retries
          plugs, writes

modem_vars == <<ttys, events, enabled_, override, modem, timer, retries, plugs, writes>>

NULL == ""
ASSUME ModemAssumption == NULL \notin Ttys /\ \A S \in SUBSET Ttys : Cardinality(S) \in Nat
INVALID == "MODEM_TYPE_INVALID"

-----------------------------------------------------------------------------
(* cell_modem_probe                                                        *)

cell_modem_probe(a) ==
  IF a.silent > PROBE_RETRIES + 1 \/ ~a.params THEN INVALID
  ELSE IF a.gsm THEN "MODEM_TYPE_GSM" ELSE "MODEM_TYPE_CDMA"

-----------------------------------------------------------------------------
(* cell_modem_settings.c.  `service' is the device of the pppd that runit  *)
(* keeps running, NULL when the service is stopped.                        *)

cell_modem_notify(m, on) ==
  [m EXCEPT !.service = IF ~on \/ m.dev = NULL \/ m.type = INVALID THEN NULL ELSE m.dev]

\* runit's status: pppd on a device that is gone exits over and over, so that the
\* status may be anything.
PppdRuns(m, seen) == m.service # NULL /\ (m.service \in ttys \/ seen)

cell_modem_set_dev(m, d, t, seen) ==
  LET n == [m EXCEPT !.dev = d, !.type = t]
  IN  IF enabled_ /\ d # NULL /\ t # INVALID /\ ~PppdRuns(m, seen)
      THEN cell_modem_notify(n, TRUE) ELSE n

cell_modem_set_dev_to_invalid(m, seen) ==
  cell_modem_set_dev([m EXCEPT !.ctx_type = INVALID, !.ctx_dev = NULL], NULL, INVALID, seen)

-----------------------------------------------------------------------------
(* cell_modem_inotify.c                                                    *)

\* update_dev_from_probe, with the answers a of the device
update_dev_from_probe(m, d, a, ov, seen) ==
  LET t == cell_modem_probe(a)
      n == [m EXCEPT !.ctx_type = t]
  IN  IF d \notin ttys \/ (ov # NULL /\ ov # d) THEN [m |-> m, ret |-> 1]
      ELSE IF t # INVALID
      THEN [m |-> cell_modem_set_dev([n EXCEPT !.ctx_dev = d], d, t, seen), ret |-> 0]
      ELSE [m |-> n, ret |-> IF ov = d THEN -1 ELSE 1]

\* cell_modem_scan_for_modem: the devices of /dev in some order, until one settles it.
scan_entry(r, d, a, ov, seen) == IF r.ret <= 0 THEN r ELSE update_dev_from_probe(r.m, d, a, ov, seen)

cell_modem_scan_for_modem(m, order, a, ov, seen) ==
  LET scan[i \in 0 .. Len(order)] ==
        IF i = 0 THEN [m |-> m, ret |-> 1] ELSE scan_entry(scan[i - 1], order[i], a, ov, seen)
  IN  scan[Len(order)]

Orders == {s \in [1 .. Cardinality(ttys) -> ttys] : \A i, j \in DOMAIN s : s[i] = s[j] => i = j}

\* async_wait_for_tty in cell_modem_init: the context and the first scan
ModemInit ==
  /\ ttys \in SUBSET Ttys
  /\ events = <<>>
  /\ enabled_ \in BOOLEAN
  /\ override \in Ttys \cup {NULL}
  /\ retries = 0
  /\ plugs = MaxPlugs /\ writes = MaxWrites
  /\ \E a \in Answers, order \in Orders :
       LET none == [ctx_dev |-> NULL, ctx_type |-> INVALID, dev |-> NULL,
                    type |-> INVALID, service |-> NULL]
           r == cell_modem_scan_for_modem(none, order, a, override, FALSE)
       IN  modem = r.m /\ timer = (r.ret # 0)

\* The timer of the first seconds: it scans again for the override device.
override_probe_retry ==
  /\ timer
  /\ IF override # NULL /\ modem.dev = NULL /\ retries < CELL_MODEM_MAX_BOOT_RETRIES
     THEN /\ \E a \in Answers, order \in Orders, seen \in BOOLEAN :
               modem' = cell_modem_scan_for_modem(modem, order, a, override, seen).m
          /\ retries' = retries + 1
          /\ UNCHANGED timer
     ELSE /\ timer' = FALSE
          /\ UNCHANGED <<modem, retries>>
  /\ UNCHANGED <<ttys, events, enabled_, override, plugs, writes>>

\* One event in inotify_output_cb
OnEvent(m, e, a, seen) ==
  IF e.created
  THEN IF m.ctx_type = INVALID /\ e.dev \in ttys
       THEN update_dev_from_probe(m, e.dev, a, override, seen).m ELSE m
  ELSE IF m.ctx_dev = e.dev THEN cell_modem_set_dev_to_invalid(m, seen) ELSE m

\* inotify_output_cb handles every event that is there.
EventsHandled(m, a, seen) ==
  LET after[i \in 0 .. Len(events)] == IF i = 0 THEN m ELSE OnEvent(after[i - 1], events[i], a, seen)
  IN  after[Len(events)]

inotify_output_cb ==
  /\ events # <<>>
  /\ \E a \in Answers, seen \in BOOLEAN : modem' = EventsHandled(modem, a, seen)
  /\ events' = <<>>
  /\ UNCHANGED <<ttys, enabled_, override, timer, retries, plugs, writes>>

-----------------------------------------------------------------------------
(* The settings.                                                           *)

\* cell_modem_notify for the enable setting (and, with the same value, the APN)
enable_written(v) ==
  /\ writes > 0 /\ writes' = writes - 1
  /\ enabled_' = v
  /\ modem' = cell_modem_notify(modem, v)
  /\ UNCHANGED <<ttys, events, override, timer, retries, plugs>>

\* Mutant: the override is accepted while the service runs.
cell_modem_notify_dev_override_late(v) ==
  /\ writes > 0 /\ writes' = writes - 1
  /\ override' = v
  /\ UNCHANGED <<ttys, events, enabled_, modem, timer, retries, plugs>>

cell_modem_notify_dev_override(v) ==
  /\ writes > 0 /\ writes' = writes - 1
  /\ IF enabled_
     THEN UNCHANGED <<override, modem>>
     ELSE /\ override' = v
          /\ \E a \in Answers, order \in Orders, seen \in BOOLEAN :
               LET m == cell_modem_notify(cell_modem_set_dev_to_invalid(modem, seen), FALSE)
               IN  modem' = cell_modem_scan_for_modem(m, order, a, v, seen).m
  /\ UNCHANGED <<ttys, events, enabled_, timer, retries, plugs>>

-----------------------------------------------------------------------------
(* The devices.                                                            *)

tty_appears(d) ==
  /\ plugs > 0 /\ plugs' = plugs - 1 /\ d \notin ttys
  /\ ttys' = ttys \cup {d}
  /\ events' = Append(events, [created |-> TRUE, dev |-> d])
  /\ UNCHANGED <<enabled_, override, modem, timer, retries, writes>>

tty_vanishes(d) ==
  /\ plugs > 0 /\ plugs' = plugs - 1 /\ d \in ttys
  /\ ttys' = ttys \ {d}
  /\ events' = Append(events, [created |-> FALSE, dev |-> d])
  /\ UNCHANGED <<enabled_, override, modem, timer, retries, writes>>

ModemNext ==
  \/ override_probe_retry \/ inotify_output_cb
  \/ \E v \in BOOLEAN : enable_written(v)
  \/ \E v \in Ttys \cup {NULL} : cell_modem_notify_dev_override(v)
  \/ \E d \in Ttys : tty_appears(d) \/ tty_vanishes(d)

ModemSpec == ModemInit /\ [][ModemNext]_modem_vars

-----------------------------------------------------------------------------
(* Properties.                                                             *)

\* With a device override, pppd runs on that device and no other, whatever was
\* plugged and in which order the settings were written: update_dev_from_probe
\* passes over other devices and cell_modem_notify_dev_override refuses to
\* change the override under a running service.
OverrideIsUsed == override # NULL /\ modem.service # NULL => modem.service = override

\* The service follows the setting and the device: it runs only while the modem
\* is enabled, and with the modem enabled and found it does run.
ServiceFollowsModem ==
  /\ modem.service # NULL => enabled_
  /\ enabled_ /\ modem.dev # NULL => modem.service # NULL

\* pppd runs exactly when it should, and on the device it should.
ModemFollowsSettings == ServiceFollowsModem /\ OverrideIsUsed

=============================================================================
