---------------------------- MODULE HealthDaemon ----------------------------
(***************************************************************************)
(* The health daemon: one event loop that runs a set of monitors.  Each    *)
(* monitor has a message callback, which may restart the monitor's         *)
(* repeating timer, and a timer callback, which may log a warning.  The    *)
(* GLONASS monitors and the satellite count share one context: whether     *)
(* GLONASS is enabled and whether a base station is connected.             *)
(*                                                                         *)
(* main goes on when a monitor's init fails, so the daemon runs with any   *)
(* set of monitors; MonitorSets names the sets considered.  Time is        *)
(* counted in units of the shortest period.                                *)
(***************************************************************************)
EXTENDS Naturals, FiniteSets

CONSTANTS MonitorSets,                        \* sets of monitors whose init succeeds
          Sats,                               \* satellites the base may report
          MIN_SATS_FOR_PVT,
          U8_VALUES,                          \* values of a u8 counter (256)
          BASELINE_ALERT_RATE_LIMIT,
          GLO_OBS_ALERT_RATE_LIMIT,
          GLO_OBS_RESET_BASE_CONN_RATE_LIMIT,
          GLO_BIAS_ALERT_RATE_LIMIT,
          NTRIP_OBS_ALERT_RATE_LIMIT,
          NTRIP_OBS_PERIOD_BEFORE_WARN,
          BASE_NUM_SATS_SAMPLE_RATE,
          BASE_NUM_SATS_ALERT_RATE_LIMIT

\* The limits stand to one another as in the sources: 180 and 360 seconds in
\* glo_obs_monitor.c, 10 and 20 in ntrip_obs_monitor.c.
ASSUME HealthAssumption ==
  /\ \A ms \in MonitorSets : ms \subseteq {"baseline", "glo_obs", "glo_bias", "ntrip", "sats"}
  /\ U8_VALUES \in Nat /\ U8_VALUES > 1
  /\ BASELINE_ALERT_RATE_LIMIT \in Nat \ {0} /\ GLO_BIAS_ALERT_RATE_LIMIT \in Nat \ {0}
  /\ BASE_NUM_SATS_SAMPLE_RATE \in Nat \ {0}
  /\ GLO_OBS_ALERT_RATE_LIMIT \in Nat \ {0} /\ GLO_OBS_RESET_BASE_CONN_RATE_LIMIT \in Nat
  /\ 2 * GLO_OBS_ALERT_RATE_LIMIT <= GLO_OBS_RESET_BASE_CONN_RATE_LIMIT
  /\ NTRIP_OBS_ALERT_RATE_LIMIT \in Nat \ {0} /\ NTRIP_OBS_PERIOD_BEFORE_WARN \in Nat \ {0}
  /\ NTRIP_OBS_PERIOD_BEFORE_WARN <= 2 * NTRIP_OBS_ALERT_RATE_LIMIT

VARIABLES due,      \* monitor -> time until its timer fires
          health,   \* the monitors' private data and the shared GLONASS context
          since,    \* ghost: time since the last message of a kind from a base, and
                    \* since a base was heard or GLONASS enabled (saturating)
          warning   \* the monitor whose warning the last step logged, or "none"

health_vars == <<due, health, since, warning>>

Monitors == {"baseline", "glo_obs", "glo_bias", "ntrip", "sats"}
Running == DOMAIN due

Period(m) ==
  CASE m = "baseline" -> BASELINE_ALERT_RATE_LIMIT
    [] m = "glo_obs"  -> GLO_OBS_ALERT_RATE_LIMIT
    [] m = "glo_bias" -> GLO_BIAS_ALERT_RATE_LIMIT
    [] m = "ntrip"    -> NTRIP_OBS_ALERT_RATE_LIMIT
    [] m = "sats"     -> BASE_NUM_SATS_SAMPLE_RATE

\* The longest times the properties speak of.
Horizon == [base |-> NTRIP_OBS_PERIOD_BEFORE_WARN, heard |-> GLO_OBS_RESET_BASE_CONN_RATE_LIMIT + 1,
            glo |-> GLO_OBS_ALERT_RATE_LIMIT, bias |-> GLO_BIAS_ALERT_RATE_LIMIT]

health_monitor_init == [past_threshold |-> FALSE, glonass_enabled |-> FALSE,
                        connected_to_base |-> FALSE, glo_count |-> 0,
                        ntrip_enabled |-> FALSE, ntrip_count |-> 0, has_time |-> FALSE,
                        sid_set |-> {}, sats_count |-> 0]

HealthInit == /\ \E ms \in MonitorSets : due = [m \in ms |-> Period(m)]
              /\ health = health_monitor_init
              /\ since = [base |-> 0, heard |-> 0, glo |-> 0, bias |-> 0]
              /\ warning = "none"

\* pk_loop_timer_reset: the repeating timers of ms start over.
health_monitor_reset_timer(ms) == [m \in Running |-> IF m \in ms THEN Period(m) ELSE due[m]]

(***************************************************************************)
(* Messages.  A callback that returns 0 restarts its monitor's timer.  An  *)
(* observation message reaches three monitors; the ones that are not       *)
(* forwarded from a base (sender other than 0) change nothing.             *)
(***************************************************************************)
sbp_msg_obs(has_glo, sats) ==
  /\ health' = [health EXCEPT
       !.connected_to_base = @ \/ "glo_obs" \in Running,
       !.glo_count = IF "glo_obs" \in Running THEN 0 ELSE @,
       !.ntrip_count = IF "ntrip" \in Running THEN 0 ELSE @,
       !.sid_set = IF "sats" \in Running THEN @ \union sats ELSE @]
  /\ due' = health_monitor_reset_timer({"ntrip"} \union IF has_glo THEN {"glo_obs"} ELSE {})
  /\ since' = [since EXCEPT !.base = 0, !.heard = 0, !.glo = IF has_glo THEN 0 ELSE @]
  /\ warning' = "none"

sbp_msg_glo_biases ==
  /\ "glo_bias" \in Running
  /\ due' = health_monitor_reset_timer({"glo_bias"})
  /\ since' = [since EXCEPT !.bias = 0]
  /\ warning' = "none"
  /\ UNCHANGED health

\* "far" and "near" are the DGNSS, FLOAT and FIXED solutions over and under
\* the threshold, "none" is NO_POSITION and SPP, "other" any other mode.
sbp_msg_baseline_ecef(solution) ==
  /\ "baseline" \in Running
  /\ health' = [health EXCEPT !.past_threshold = CASE solution = "far" -> TRUE
                                                   [] solution = "none" -> FALSE
                                                   [] OTHER -> @]
  /\ due' = health_monitor_reset_timer(IF solution \in {"near", "none"} THEN {"baseline"} ELSE {})
  /\ warning' = "none"
  /\ UNCHANGED since

\* set_device_has_gps_time writes a file that only the NTRIP monitor reads here.
sbp_msg_gps_time(has_time) ==
  /\ "ntrip" \in Running
  /\ health' = [health EXCEPT !.has_time = has_time]
  /\ warning' = "none"
  /\ UNCHANGED <<due, since>>

(***************************************************************************)
(* Settings.                                                               *)
(***************************************************************************)
\* Enabling restarts the observation timer, and with it the time allowed
\* for the base to be heard.
notify_glonass_enabled(enabled) ==
  LET starts == enabled /\ ~health.glonass_enabled IN
  /\ "glo_obs" \in Running
  /\ due' = health_monitor_reset_timer(IF starts THEN {"glo_obs"} ELSE {})
  /\ since' = [since EXCEPT !.heard = IF starts THEN 0 ELSE @]
  /\ health' = [health EXCEPT !.glonass_enabled = enabled]
  /\ warning' = "none"

notify_ntrip_enabled(enabled) ==
  /\ "ntrip" \in Running
  /\ health' = [health EXCEPT !.ntrip_enabled = enabled,
                              !.ntrip_count = IF enabled THEN 0 ELSE @]
  /\ warning' = "none"
  /\ UNCHANGED <<due, since>>

(***************************************************************************)
(* Timers.  A timer that is due fires before time goes on; timers due at   *)
(* the same time fire in any order, between messages or after them.        *)
(***************************************************************************)
Fires(m) == /\ m \in Running
            /\ due[m] = 0
            /\ due' = [due EXCEPT ![m] = Period(m)]
            /\ UNCHANGED since

Warn(m, condition) == warning' = IF condition THEN m ELSE "none"

baseline_threshold_rate_limiting_timer_callback ==
  /\ Fires("baseline")
  /\ Warn("baseline", health.past_threshold)
  /\ health' = [health EXCEPT !.past_threshold = FALSE]

\* Mutant: the two limits divided the other way round.
max_timeout_count_before_reset_swapped ==
  GLO_OBS_RESET_BASE_CONN_RATE_LIMIT \div GLO_OBS_ALERT_RATE_LIMIT

max_timeout_count_before_reset ==
  GLO_OBS_ALERT_RATE_LIMIT \div GLO_OBS_RESET_BASE_CONN_RATE_LIMIT

glo_obs_timer_callback ==
  /\ Fires("glo_obs")
  /\ Warn("glo_obs", health.glonass_enabled /\ health.connected_to_base)
  /\ health' = [health EXCEPT
       !.connected_to_base = @ /\ ~(health.glo_count > max_timeout_count_before_reset),
       !.glo_count = (@ + 1) % U8_VALUES]

glo_bias_timer_callback ==
  /\ Fires("glo_bias")
  /\ Warn("glo_bias", health.glonass_enabled /\ health.connected_to_base)
  /\ UNCHANGED health

ntrip_max_timeout_count_before_warn == NTRIP_OBS_ALERT_RATE_LIMIT \div NTRIP_OBS_PERIOD_BEFORE_WARN

ntrip_obs_timer_callback ==
  LET watching == health.ntrip_enabled /\ health.has_time
      late == health.ntrip_count > ntrip_max_timeout_count_before_warn IN
  /\ Fires("ntrip")
  /\ Warn("ntrip", watching /\ late)
  /\ health' = [health EXCEPT !.ntrip_count = IF watching /\ ~late THEN (@ + 1) % U8_VALUES ELSE @]

sats_max_timeout_count_before_warn == BASE_NUM_SATS_ALERT_RATE_LIMIT \div BASE_NUM_SATS_SAMPLE_RATE

base_num_sats_timer_callback ==
  LET low == health.connected_to_base /\ Cardinality(health.sid_set) < MIN_SATS_FOR_PVT
      late == health.sats_count > sats_max_timeout_count_before_warn IN
  /\ Fires("sats")
  /\ Warn("sats", low /\ late)
  /\ health' = IF low /\ ~late
                 THEN [health EXCEPT !.sats_count = (@ + 1) % U8_VALUES]
                 ELSE [health EXCEPT !.sats_count = 0, !.sid_set = {}]

\* uv_run waits for the next timer: time passes for every monitor.
TimePasses ==
  /\ \A m \in Running : due[m] > 0
  /\ due' = [m \in Running |-> due[m] - 1]
  /\ since' = [k \in DOMAIN since |-> IF since[k] = Horizon[k] THEN since[k] ELSE since[k] + 1]
  /\ warning' = "none"
  /\ UNCHANGED health

HealthNext ==
  \/ \E has_glo \in BOOLEAN, sats \in SUBSET (IF "sats" \in Running THEN Sats ELSE {}) :
       sbp_msg_obs(has_glo, sats)
  \/ sbp_msg_glo_biases
  \/ \E solution \in {"far", "near", "none", "other"} : sbp_msg_baseline_ecef(solution)
  \/ \E b \in BOOLEAN : sbp_msg_gps_time(b)
  \/ \E b \in BOOLEAN : notify_glonass_enabled(b)
  \/ \E b \in BOOLEAN : notify_ntrip_enabled(b)
  \/ baseline_threshold_rate_limiting_timer_callback
  \/ glo_obs_timer_callback
  \/ glo_bias_timer_callback
  \/ ntrip_obs_timer_callback
  \/ base_num_sats_timer_callback
  \/ TimePasses

HealthSpec == HealthInit /\ [][HealthNext]_health_vars

(***************************************************************************)
(* Properties                                                              *)
(***************************************************************************)
\* What a warning says is so when it is logged.  The GLONASS warnings: the
\* base sent none of the messages for the whole window, and a base was heard
\* (or GLONASS enabled) no longer ago than the time after which the
\* connection counts as lost ("Will not alert when not connected to a base
\* station").  The NTRIP warning: NTRIP is on, the device has a time, and no
\* base observation came for the period before a warning.  The satellite
\* warning: a base is connected.  The counters that decide this are u8, wrap,
\* and are compared with a quotient of the two limits of glo_obs_monitor.c
\* and ntrip_obs_monitor.c.
WarningsAreTrue ==
  LET heard == since.heard <= GLO_OBS_RESET_BASE_CONN_RATE_LIMIT IN
  /\ warning = "glo_obs" => /\ since.glo >= GLO_OBS_ALERT_RATE_LIMIT
                            /\ health.glonass_enabled
                            /\ heard
  /\ warning = "glo_bias" => since.bias >= GLO_BIAS_ALERT_RATE_LIMIT /\ heard
  /\ warning = "ntrip" => /\ since.base >= NTRIP_OBS_PERIOD_BEFORE_WARN
                          /\ health.ntrip_enabled /\ health.has_time
  /\ warning = "sats" => heard
=============================================================================
