--------------------------- MODULE EventLoopProofs ---------------------------
(***************************************************************************)
(* Proofs about three users of the libuv event loop: health_daemon with    *)
(* its timers, the SBP readers every daemon has, and cell_modem_daemon     *)
(* with its inotify watch.                                                 *)
(***************************************************************************)
EXTENDS SbpReader, CellModem, HealthDaemon, WellFoundedInduction, TLAPS

-----------------------------------------------------------------------------
(* Least and greatest numbers.                                             *)

Below == {p \in Nat \X Nat : p[1] < p[2]}

\* The library's well-foundedness of < on Nat, with < as a set of pairs.
LEMMA BelowWellFounded == IsWellFoundedOn(Below, Nat)
<1>1. IsWellFoundedOn(OpToRel(<, Nat), Nat)
  BY NatLessThanWellFounded, Zenon
<1>2. OpToRel(<, Nat) = Below
  BY DEF OpToRel, Below
<1> QED
  BY <1>1, <1>2, Zenon

\* A set of naturals that is not empty has a least element; this stands for
\* induction in the proofs.
LEMMA Least ==
  ASSUME NEW T \in SUBSET Nat, T # {}
  PROVE  \E x \in T : \A y \in T : x <= y
<1>1. \E x \in T : \A y \in T : ~ (<<y, x>> \in Below)
  BY BelowWellFounded, WFMin, Zenon
<1>2. PICK x \in T : \A y \in T : ~ (<<y, x>> \in Below)
  BY <1>1
<1>3. ASSUME NEW y \in T PROVE x <= y
  <2>1. x \in Nat /\ y \in Nat
    OBVIOUS
  <2>2. ~ (<<y, x>> \in Below)
    BY <1>2
  <2>3. ~ (y < x)
    BY <2>1, <2>2 DEF Below
  <2> QED
    BY <2>1, <2>3
<1> QED
  BY <1>3

-----------------------------------------------------------------------------
(***************************************************************************)
(* health_daemon: the inductive invariant.                                 *)
(***************************************************************************)
DueOK ==
  /\ Running \subseteq Monitors /\ due \in [Running -> Nat]
  /\ \A m \in Running : due[m] <= Period(m)

MonitorData ==
  [past_threshold : BOOLEAN, glonass_enabled : BOOLEAN, connected_to_base : BOOLEAN,
   glo_count : Nat, ntrip_enabled : BOOLEAN, ntrip_count : Nat, has_time : BOOLEAN,
   sid_set : SUBSET Sats, sats_count : Nat]

HealthTypeOK ==
  /\ DueOK /\ health \in MonitorData
  /\ since \in [base : Nat, heard : Nat, glo : Nat, bias : Nat]

\* A timer has run for no longer than its message has been missing.
TimersLag ==
  /\ "glo_obs" \in Running => since.glo + due["glo_obs"] >= GLO_OBS_ALERT_RATE_LIMIT
  /\ "glo_bias" \in Running => since.bias + due["glo_bias"] >= GLO_BIAS_ALERT_RATE_LIMIT

\* The connection to a base outlives the last message by two timeouts at most:
\* the counter is at one after the first of them.
ConnectionIsRecent ==
  health.connected_to_base =>
    /\ "glo_obs" \in Running /\ health.glo_count \in {0, 1}
    /\ health.glo_count = 0 => since.heard + due["glo_obs"] <= GLO_OBS_ALERT_RATE_LIMIT
    /\ health.glo_count = 1 => since.heard + due["glo_obs"] <= 2 * GLO_OBS_ALERT_RATE_LIMIT

\* A timeout that the NTRIP monitor has counted followed the last message.
NtripCounts ==
  "ntrip" \in Running /\ since.base < NTRIP_OBS_PERIOD_BEFORE_WARN =>
    /\ since.base + due["ntrip"] >= NTRIP_OBS_ALERT_RATE_LIMIT
    /\ health.ntrip_count > 0 => since.base + due["ntrip"] >= 2 * NTRIP_OBS_ALERT_RATE_LIMIT

HealthInv == HealthTypeOK /\ TimersLag /\ ConnectionIsRecent /\ NtripCounts /\ WarningsAreTrue

-----------------------------------------------------------------------------
(* The timers.                                                             *)

\* The periods of the timers.
LEMMA Periods ==
  /\ \A m \in Monitors : Period(m) \in Nat
  /\ Period("glo_obs") = GLO_OBS_ALERT_RATE_LIMIT
  /\ Period("glo_bias") = GLO_BIAS_ALERT_RATE_LIMIT
  /\ Period("ntrip") = NTRIP_OBS_ALERT_RATE_LIMIT
BY HealthAssumption DEF Period, Monitors

\* Restarting timers changes those.
LEMMA TimersRestart ==
  ASSUME DueOK, NEW ms, due' = health_monitor_reset_timer(ms)
  PROVE  /\ DueOK' /\ Running' = Running
         /\ \A m \in Running : due'[m] = IF m \in ms THEN Period(m) ELSE due[m]
<1>1. DOMAIN due' = DOMAIN due
  BY DEF health_monitor_reset_timer, Running
<1>2. \A m \in Running : due'[m] = IF m \in ms THEN Period(m) ELSE due[m]
  BY DEF health_monitor_reset_timer
<1>3. \A m \in Running : due'[m] \in Nat /\ due'[m] <= Period(m)
  BY <1>2, Periods DEF DueOK
<1>4. due' = [m \in Running |-> due'[m]]
  BY DEF health_monitor_reset_timer
<1>5. due' \in [Running -> Nat]
  BY <1>3, <1>4
<1> QED
  BY <1>1, <1>2, <1>3, <1>5 DEF DueOK, Running

\* A timer that fires starts over.
LEMMA TimerFires ==
  ASSUME DueOK, NEW m, Fires(m)
  PROVE  /\ m \in Running /\ due[m] = 0 /\ DueOK' /\ Running' = Running
         /\ due'[m] = Period(m) /\ UNCHANGED since
         /\ \A n \in Running : n # m => due'[n] = due[n]
<1>1. m \in Running /\ due[m] = 0 /\ due' = [due EXCEPT ![m] = Period(m)] /\ UNCHANGED since
  BY DEF Fires
<1>2. Period(m) \in Nat
  BY <1>1, Periods DEF DueOK
<1>3. due' \in [Running -> Nat] /\ due'[m] = Period(m) /\ \A n \in Running : n # m => due'[n] = due[n]
  BY <1>1, <1>2 DEF DueOK
<1>4. Running' = Running
  BY <1>3 DEF Running
<1>5. \A n \in Running : due'[n] <= Period(n)
  BY <1>2, <1>3 DEF DueOK
<1> QED
  BY <1>1, <1>3, <1>4, <1>5 DEF DueOK

\* The connection is given up at the second timeout, the NTRIP monitor warns
\* after a timeout that it counted.
LEMMA Quotients ==
  max_timeout_count_before_reset = 0 /\ ntrip_max_timeout_count_before_warn \in Nat
<1>1. /\ GLO_OBS_ALERT_RATE_LIMIT \in Nat /\ GLO_OBS_RESET_BASE_CONN_RATE_LIMIT \in Nat
      /\ GLO_OBS_ALERT_RATE_LIMIT < GLO_OBS_RESET_BASE_CONN_RATE_LIMIT
      /\ NTRIP_OBS_ALERT_RATE_LIMIT \in Nat /\ NTRIP_OBS_PERIOD_BEFORE_WARN \in Nat \ {0}
  BY HealthAssumption
<1>2. max_timeout_count_before_reset = 0
  BY <1>1 DEF max_timeout_count_before_reset
<1>3. ntrip_max_timeout_count_before_warn \in Nat
  BY <1>1 DEF ntrip_max_timeout_count_before_warn
<1> QED
  BY <1>2, <1>3

\* The counters are u8.
LEMMA CounterWraps ==
  ASSUME NEW c \in Nat
  PROVE  (c + 1) % U8_VALUES \in Nat /\ (c = 0 => (c + 1) % U8_VALUES = 1)
<1>1. U8_VALUES \in Nat /\ U8_VALUES > 1
  BY HealthAssumption
<1>2. (c + 1) % U8_VALUES \in Nat
  BY <1>1
<1>3. 1 % U8_VALUES = 1
  BY <1>1
<1> QED
  BY <1>2, <1>3

\* A step that leaves the timers of the GLONASS and NTRIP monitors, what they
\* remember and the time alone.
LEMMA HealthRests ==
  ASSUME HealthInv, DueOK', Running' = Running, health' \in MonitorData, UNCHANGED since,
         "glo_obs" \in Running => due'["glo_obs"] = due["glo_obs"],
         "glo_bias" \in Running => due'["glo_bias"] = due["glo_bias"],
         "ntrip" \in Running => due'["ntrip"] = due["ntrip"],
         health'.connected_to_base <=> health.connected_to_base,
         health'.glo_count = health.glo_count,
         health'.ntrip_count \in {0, health.ntrip_count},
         warning' = "none"
  PROVE  HealthInv'
<1>1. HealthTypeOK'
  BY DEF HealthInv, HealthTypeOK
<1>2. TimersLag'
  BY DEF HealthInv, TimersLag
<1>3. ConnectionIsRecent'
  BY DEF HealthInv, ConnectionIsRecent
<1>4. NtripCounts'
  BY DEF HealthInv, NtripCounts
<1>5. WarningsAreTrue'
  BY DEF WarningsAreTrue
<1> QED
  BY <1>1, <1>2, <1>3, <1>4, <1>5 DEF HealthInv

-----------------------------------------------------------------------------
(* The messages.                                                           *)

\* An observation message from a base.
LEMMA ObsStep ==
  ASSUME HealthInv, NEW has_glo \in BOOLEAN, NEW sats \in SUBSET Sats, sbp_msg_obs(has_glo, sats)
  PROVE  HealthInv'
<1>t. DueOK /\ health \in MonitorData /\ since \in [base : Nat, heard : Nat, glo : Nat, bias : Nat]
  BY DEF HealthInv, HealthTypeOK
<1>1. /\ DueOK' /\ Running' = Running
      /\ \A m \in Running : due'[m] = IF m \in {"ntrip"} \union IF has_glo THEN {"glo_obs"} ELSE {}
                                        THEN Period(m) ELSE due[m]
  BY <1>t, TimersRestart, Zenon DEF sbp_msg_obs
<1>2. /\ "ntrip" \in Running => due'["ntrip"] = NTRIP_OBS_ALERT_RATE_LIMIT
      /\ "glo_bias" \in Running => due'["glo_bias"] = due["glo_bias"]
      /\ "glo_obs" \in Running => due'["glo_obs"] = IF has_glo THEN GLO_OBS_ALERT_RATE_LIMIT
                                                      ELSE due["glo_obs"]
  BY <1>1, Periods
<1>3. health' \in MonitorData /\ (health'.connected_to_base <=> health.connected_to_base \/ "glo_obs" \in Running)
  BY <1>t, Zenon DEF sbp_msg_obs, MonitorData
<1>4. ("glo_obs" \in Running => health'.glo_count = 0) /\ ("ntrip" \in Running => health'.ntrip_count = 0)
  BY <1>t DEF sbp_msg_obs, MonitorData
<1>5. /\ since' \in [base : Nat, heard : Nat, glo : Nat, bias : Nat]
      /\ since'.base = 0 /\ since'.heard = 0 /\ since'.bias = since.bias
      /\ since'.glo = IF has_glo THEN 0 ELSE since.glo
  BY <1>t, Zenon DEF sbp_msg_obs
<1>6. HealthTypeOK'
  BY <1>1, <1>3, <1>5 DEF HealthTypeOK
<1>7. TimersLag'
  BY <1>1, <1>2, <1>5, HealthAssumption DEF HealthInv, TimersLag
<1>8. ConnectionIsRecent'
  <2>1. health'.connected_to_base => "glo_obs" \in Running
    BY <1>3 DEF HealthInv, ConnectionIsRecent
  <2>2. "glo_obs" \in Running => due["glo_obs"] \in Nat /\ due["glo_obs"] <= GLO_OBS_ALERT_RATE_LIMIT
    BY <1>t, Periods DEF DueOK
  <2> QED
    BY <1>1, <1>2, <1>4, <1>5, <2>1, <2>2, HealthAssumption DEF ConnectionIsRecent
<1>9. NtripCounts'
  BY <1>1, <1>2, <1>4, <1>5, HealthAssumption DEF NtripCounts
<1>10. WarningsAreTrue'
  BY DEF sbp_msg_obs, WarningsAreTrue
<1> QED
  BY <1>6, <1>7, <1>8, <1>9, <1>10 DEF HealthInv

\* The other messages and the settings.
LEMMA MessageStep ==
  ASSUME HealthInv,
         \/ sbp_msg_glo_biases
         \/ \E solution \in {"far", "near", "none", "other"} : sbp_msg_baseline_ecef(solution)
         \/ \E b \in BOOLEAN : sbp_msg_gps_time(b) \/ notify_ntrip_enabled(b)
  PROVE  HealthInv'
<1>t. DueOK /\ health \in MonitorData /\ since \in [base : Nat, heard : Nat, glo : Nat, bias : Nat]
  BY DEF HealthInv, HealthTypeOK
<1>1. CASE sbp_msg_glo_biases
  <2>1. /\ DueOK' /\ Running' = Running
        /\ \A m \in Running : due'[m] = IF m \in {"glo_bias"} THEN Period(m) ELSE due[m]
    BY <1>1, <1>t, TimersRestart DEF sbp_msg_glo_biases
  <2>2. /\ "ntrip" \in Running => due'["ntrip"] = due["ntrip"]
        /\ "glo_obs" \in Running => due'["glo_obs"] = due["glo_obs"]
        /\ "glo_bias" \in Running => due'["glo_bias"] = GLO_BIAS_ALERT_RATE_LIMIT
    BY <2>1, Periods
  <2>3. /\ since' \in [base : Nat, heard : Nat, glo : Nat, bias : Nat]
        /\ since'.base = since.base /\ since'.heard = since.heard /\ since'.bias = 0
        /\ since'.glo = since.glo
    BY <1>1, <1>t DEF sbp_msg_glo_biases
  <2>4. health' = health /\ warning' = "none"
    BY <1>1 DEF sbp_msg_glo_biases
  <2>5. HealthTypeOK'
    BY <1>t, <2>1, <2>3, <2>4 DEF HealthTypeOK
  <2>6. TimersLag'
    BY <2>1, <2>2, <2>3, HealthAssumption DEF HealthInv, TimersLag
  <2>7. ConnectionIsRecent' /\ NtripCounts'
    BY <2>1, <2>2, <2>3, <2>4 DEF HealthInv, ConnectionIsRecent, NtripCounts
  <2>8. WarningsAreTrue'
    BY <2>4 DEF WarningsAreTrue
  <2> QED
    BY <2>5, <2>6, <2>7, <2>8 DEF HealthInv
<1>2. ASSUME NEW solution \in {"far", "near", "none", "other"}, sbp_msg_baseline_ecef(solution)
      PROVE  HealthInv'
  <2>1. PICK ms \in SUBSET {"baseline"} : due' = health_monitor_reset_timer(ms)
    BY <1>2 DEF sbp_msg_baseline_ecef
  <2>2. /\ DueOK' /\ Running' = Running
        /\ \A m \in Running : due'[m] = IF m \in ms THEN Period(m) ELSE due[m]
    BY <1>t, <2>1, TimersRestart
  <2>3. /\ "ntrip" \in Running => due'["ntrip"] = due["ntrip"]
        /\ "glo_obs" \in Running => due'["glo_obs"] = due["glo_obs"]
        /\ "glo_bias" \in Running => due'["glo_bias"] = due["glo_bias"]
    BY <2>2
  <2>4. PICK b \in BOOLEAN : health' = [health EXCEPT !.past_threshold = b]
    BY <1>2, <1>t, Zenon DEF sbp_msg_baseline_ecef, MonitorData
  <2>5. /\ health' \in MonitorData /\ (health'.connected_to_base <=> health.connected_to_base)
        /\ health'.glo_count = health.glo_count /\ health'.ntrip_count = health.ntrip_count
    BY <1>t, <2>4 DEF MonitorData
  <2>6. warning' = "none" /\ UNCHANGED since
    BY <1>2 DEF sbp_msg_baseline_ecef
  <2> QED
    BY <2>2, <2>3, <2>5, <2>6, HealthRests
<1>3. ASSUME NEW b \in BOOLEAN, sbp_msg_gps_time(b) \/ notify_ntrip_enabled(b) PROVE HealthInv'
  <2>1. warning' = "none" /\ UNCHANGED <<due, since>>
    BY <1>3, Zenon DEF sbp_msg_gps_time, notify_ntrip_enabled
  <2>2. /\ health' \in MonitorData /\ (health'.connected_to_base <=> health.connected_to_base)
        /\ health'.glo_count = health.glo_count /\ health'.ntrip_count \in {0, health.ntrip_count}
    <3>1. CASE sbp_msg_gps_time(b)
      <4>1. health' = [health EXCEPT !.has_time = b]
        BY <3>1 DEF sbp_msg_gps_time
      <4> QED
        BY <1>t, <4>1 DEF MonitorData
    <3>2. CASE notify_ntrip_enabled(b)
      <4>1. PICK n \in {0, health.ntrip_count} :
              health' = [health EXCEPT !.ntrip_enabled = b, !.ntrip_count = n]
        BY <3>2, Zenon DEF notify_ntrip_enabled
      <4>2. n \in Nat
        BY <1>t, <4>1 DEF MonitorData
      <4> QED
        BY <1>t, <4>1, <4>2, Zenon DEF MonitorData
    <3> QED
      BY <1>3, <3>1, <3>2
  <2>3. DueOK' /\ Running' = Running
    BY <1>t, <2>1 DEF DueOK, Running
  <2> QED
    BY <2>1, <2>2, <2>3, HealthRests
<1> QED
  BY <1>1, <1>2, <1>3

\* GLONASS is enabled or disabled.
LEMMA GlonassStep ==
  ASSUME HealthInv, NEW enabled \in BOOLEAN, notify_glonass_enabled(enabled)
  PROVE  HealthInv'
<1>t. DueOK /\ health \in MonitorData /\ since \in [base : Nat, heard : Nat, glo : Nat, bias : Nat]
  BY DEF HealthInv, HealthTypeOK
<1>1. PICK starts \in BOOLEAN :
        /\ due' = health_monitor_reset_timer(IF starts THEN {"glo_obs"} ELSE {})
        /\ since' = [since EXCEPT !.heard = IF starts THEN 0 ELSE @]
  BY Zenon DEF notify_glonass_enabled
<1>2. /\ DueOK' /\ Running' = Running
      /\ \A m \in Running : due'[m] = IF m \in IF starts THEN {"glo_obs"} ELSE {} THEN Period(m) ELSE due[m]
  BY <1>t, <1>1, TimersRestart
<1>3. /\ "ntrip" \in Running => due'["ntrip"] = due["ntrip"]
      /\ "glo_bias" \in Running => due'["glo_bias"] = due["glo_bias"]
      /\ "glo_obs" \in Running => due'["glo_obs"] = IF starts THEN GLO_OBS_ALERT_RATE_LIMIT ELSE due["glo_obs"]
  BY <1>2, Periods
<1>4. /\ since' \in [base : Nat, heard : Nat, glo : Nat, bias : Nat]
      /\ since'.base = since.base /\ since'.bias = since.bias /\ since'.glo = since.glo
      /\ since'.heard = IF starts THEN 0 ELSE since.heard
  BY <1>t, <1>1
<1>5. /\ health' \in MonitorData /\ (health'.connected_to_base <=> health.connected_to_base)
      /\ health'.glo_count = health.glo_count /\ health'.ntrip_count = health.ntrip_count
  BY <1>t DEF notify_glonass_enabled, MonitorData
<1>6. HealthTypeOK'
  BY <1>2, <1>4, <1>5 DEF HealthTypeOK
<1>7. TimersLag'
  BY <1>t, <1>2, <1>3, <1>4, HealthAssumption DEF HealthInv, TimersLag
<1>8. ConnectionIsRecent'
  BY <1>2, <1>3, <1>4, <1>5, HealthAssumption DEF HealthInv, ConnectionIsRecent
<1>9. NtripCounts'
  BY <1>2, <1>3, <1>4, <1>5 DEF HealthInv, NtripCounts
<1>10. WarningsAreTrue'
  BY DEF notify_glonass_enabled, WarningsAreTrue
<1> QED
  BY <1>6, <1>7, <1>8, <1>9, <1>10 DEF HealthInv

-----------------------------------------------------------------------------
(* The timeouts.                                                           *)

\* A base that a monitor takes to be connected was heard in time.
LEMMA ConnectedIsHeard ==
  ASSUME HealthInv, health.connected_to_base
  PROVE  since.heard <= GLO_OBS_RESET_BASE_CONN_RATE_LIMIT
<1>1. /\ since.heard \in Nat /\ "glo_obs" \in Running /\ due["glo_obs"] \in Nat
      /\ health.glo_count \in {0, 1}
      /\ health.glo_count = 0 => since.heard + due["glo_obs"] <= GLO_OBS_ALERT_RATE_LIMIT
      /\ health.glo_count = 1 => since.heard + due["glo_obs"] <= 2 * GLO_OBS_ALERT_RATE_LIMIT
  BY DEF HealthInv, HealthTypeOK, DueOK, ConnectionIsRecent
<1>2. /\ GLO_OBS_ALERT_RATE_LIMIT \in Nat /\ GLO_OBS_RESET_BASE_CONN_RATE_LIMIT \in Nat
      /\ 2 * GLO_OBS_ALERT_RATE_LIMIT <= GLO_OBS_RESET_BASE_CONN_RATE_LIMIT
  BY HealthAssumption
<1> QED
  BY <1>1, <1>2

\* The timeouts of the monitors that only read the connection.
LEMMA PlainTimeoutStep ==
  ASSUME HealthInv,
         \/ baseline_threshold_rate_limiting_timer_callback
         \/ glo_bias_timer_callback
         \/ base_num_sats_timer_callback
  PROVE  HealthInv'
<1>t. DueOK /\ health \in MonitorData /\ since \in [base : Nat, heard : Nat, glo : Nat, bias : Nat]
  BY DEF HealthInv, HealthTypeOK
<1>1. PICK m \in {"baseline", "glo_bias", "sats"} : Fires(m) /\ warning' \in {m, "none"}
  BY DEF baseline_threshold_rate_limiting_timer_callback, glo_bias_timer_callback,
         base_num_sats_timer_callback, Warn
<1>2. /\ m \in Running /\ due[m] = 0 /\ DueOK' /\ Running' = Running
      /\ due'[m] = Period(m) /\ UNCHANGED since
      /\ \A n \in Running : n # m => due'[n] = due[n]
  BY <1>t, <1>1, TimerFires
<1>3. /\ health' \in MonitorData /\ (health'.connected_to_base <=> health.connected_to_base)
      /\ health'.glo_count = health.glo_count /\ health'.ntrip_count = health.ntrip_count
  <2>1. CASE baseline_threshold_rate_limiting_timer_callback
    BY <1>t, <2>1, Zenon DEF baseline_threshold_rate_limiting_timer_callback, MonitorData
  <2>2. CASE glo_bias_timer_callback
    BY <1>t, <2>2 DEF glo_bias_timer_callback
  <2>3. CASE base_num_sats_timer_callback
    <3>1. \/ health' = [health EXCEPT !.sats_count = (health.sats_count + 1) % U8_VALUES]
          \/ health' = [health EXCEPT !.sats_count = 0, !.sid_set = {}]
      BY <2>3 DEF base_num_sats_timer_callback
    <3>2. health.sats_count \in Nat
      BY <1>t DEF MonitorData
    <3>3. (health.sats_count + 1) % U8_VALUES \in Nat
      BY <3>2, CounterWraps
    <3>4. CASE health' = [health EXCEPT !.sats_count = (health.sats_count + 1) % U8_VALUES]
      <4>1. PICK n \in Nat : health' = [health EXCEPT !.sats_count = n]
        BY <3>3, <3>4
      <4> QED
        BY <1>t, <4>1 DEF MonitorData
    <3>5. CASE health' = [health EXCEPT !.sats_count = 0, !.sid_set = {}]
      BY <1>t, <3>5, Zenon DEF MonitorData
    <3> QED
      BY <3>1, <3>4, <3>5
  <2> QED
    BY <2>1, <2>2, <2>3
<1>4. HealthTypeOK'
  BY <1>t, <1>2, <1>3 DEF HealthTypeOK
<1>5. /\ "glo_obs" \in Running => due'["glo_obs"] = due["glo_obs"]
      /\ "ntrip" \in Running => due'["ntrip"] = due["ntrip"]
      /\ "glo_bias" \in Running => due'["glo_bias"] \in {due["glo_bias"], GLO_BIAS_ALERT_RATE_LIMIT}
  BY <1>2, Periods
<1>6. TimersLag'
  BY <1>t, <1>2, <1>5, HealthAssumption DEF HealthInv, TimersLag
<1>7. ConnectionIsRecent' /\ NtripCounts'
  BY <1>2, <1>3, <1>5 DEF HealthInv, ConnectionIsRecent, NtripCounts
<1>8. WarningsAreTrue'
  <2>1. ASSUME warning' = "glo_bias"
        PROVE  /\ since'.bias >= GLO_BIAS_ALERT_RATE_LIMIT
               /\ since'.heard <= GLO_OBS_RESET_BASE_CONN_RATE_LIMIT
    <3>1. m = "glo_bias" /\ health.connected_to_base
      BY <1>1, <2>1 DEF baseline_threshold_rate_limiting_timer_callback, glo_bias_timer_callback,
                        base_num_sats_timer_callback, Warn
    <3>2. since.bias >= GLO_BIAS_ALERT_RATE_LIMIT
      <4>1. since.bias + 0 >= GLO_BIAS_ALERT_RATE_LIMIT /\ since.bias \in Nat
        BY <1>t, <1>2, <3>1 DEF HealthInv, TimersLag
      <4> QED
        BY <4>1
    <3> QED
      BY <1>2, <3>1, <3>2, ConnectedIsHeard
  <2>2. ASSUME warning' = "sats" PROVE since'.heard <= GLO_OBS_RESET_BASE_CONN_RATE_LIMIT
    <3>1. health.connected_to_base
      BY <1>1, <2>2 DEF baseline_threshold_rate_limiting_timer_callback, glo_bias_timer_callback,
                        base_num_sats_timer_callback, Warn
    <3> QED
      BY <1>2, <3>1, ConnectedIsHeard
  <2>3. warning' \notin {"glo_obs", "ntrip"}
    BY <1>1
  <2> QED
    BY <2>1, <2>2, <2>3 DEF WarningsAreTrue
<1> QED
  BY <1>4, <1>6, <1>7, <1>8 DEF HealthInv

\* The timeout of the GLONASS observations.
LEMMA GloTimeoutStep ==
  ASSUME HealthInv, glo_obs_timer_callback
  PROVE  HealthInv'
<1>t. DueOK /\ health \in MonitorData /\ since \in [base : Nat, heard : Nat, glo : Nat, bias : Nat]
  BY DEF HealthInv, HealthTypeOK
<1>1. /\ "glo_obs" \in Running /\ due["glo_obs"] = 0 /\ DueOK' /\ Running' = Running
      /\ due'["glo_obs"] = GLO_OBS_ALERT_RATE_LIMIT /\ UNCHANGED since
      /\ \A n \in Running : n # "glo_obs" => due'[n] = due[n]
  BY <1>t, TimerFires, Periods DEF glo_obs_timer_callback
<1>c. health.glo_count \in Nat
  BY <1>t DEF MonitorData
<1>2. /\ (health.glo_count + 1) % U8_VALUES \in Nat
      /\ health.glo_count = 0 => (health.glo_count + 1) % U8_VALUES = 1
  BY <1>c, CounterWraps
<1>3. /\ health' \in MonitorData
      /\ health'.glo_count = (health.glo_count + 1) % U8_VALUES
      /\ health'.ntrip_count = health.ntrip_count
      /\ (health'.glonass_enabled <=> health.glonass_enabled)
  BY <1>t, <1>2, Zenon DEF glo_obs_timer_callback, MonitorData
<1>4. health'.connected_to_base => health.connected_to_base /\ health.glo_count = 0
  <2>1. health'.connected_to_base <=> health.connected_to_base /\ ~(health.glo_count > 0)
    BY <1>t, Quotients, Zenon DEF glo_obs_timer_callback, MonitorData
  <2> QED
    BY <1>c, <2>1
<1>5. HealthTypeOK'
  BY <1>t, <1>1, <1>3 DEF HealthTypeOK
<1>6. TimersLag'
  BY <1>t, <1>1, HealthAssumption DEF HealthInv, TimersLag
<1>7. ConnectionIsRecent'
  <2>1. ASSUME health'.connected_to_base
        PROVE  health'.glo_count = 1 /\ since'.heard + due'["glo_obs"] <= 2 * GLO_OBS_ALERT_RATE_LIMIT
    <3>1. since.heard + 0 <= GLO_OBS_ALERT_RATE_LIMIT /\ since.heard \in Nat
      BY <1>t, <1>1, <1>4, <2>1 DEF HealthInv, ConnectionIsRecent
    <3>2. health'.glo_count = 1
      BY <1>2, <1>3, <1>4, <2>1
    <3>3. since.heard + GLO_OBS_ALERT_RATE_LIMIT <= 2 * GLO_OBS_ALERT_RATE_LIMIT
      BY <3>1, HealthAssumption
    <3> QED
      BY <1>1, <3>2, <3>3
  <2> QED
    BY <1>1, <2>1 DEF ConnectionIsRecent
<1>8. NtripCounts'
  BY <1>1, <1>3 DEF HealthInv, NtripCounts
<1>9. WarningsAreTrue'
  <2>1. ASSUME warning' = "glo_obs"
        PROVE  /\ since'.glo >= GLO_OBS_ALERT_RATE_LIMIT /\ health'.glonass_enabled
               /\ since'.heard <= GLO_OBS_RESET_BASE_CONN_RATE_LIMIT
    <3>1. health.glonass_enabled /\ health.connected_to_base
      BY <2>1 DEF glo_obs_timer_callback, Warn
    <3>2. since.glo + 0 >= GLO_OBS_ALERT_RATE_LIMIT /\ since.glo \in Nat
      BY <1>t, <1>1 DEF HealthInv, TimersLag
    <3> QED
      BY <1>1, <1>3, <3>1, <3>2, ConnectedIsHeard
  <2>2. warning' \in {"glo_obs", "none"}
    BY DEF glo_obs_timer_callback, Warn
  <2> QED
    BY <2>1, <2>2 DEF WarningsAreTrue
<1> QED
  BY <1>5, <1>6, <1>7, <1>8, <1>9 DEF HealthInv

\* The timeout of the NTRIP monitor.
LEMMA NtripTimeoutStep ==
  ASSUME HealthInv, ntrip_obs_timer_callback
  PROVE  HealthInv'
<1>t. DueOK /\ health \in MonitorData /\ since \in [base : Nat, heard : Nat, glo : Nat, bias : Nat]
  BY DEF HealthInv, HealthTypeOK
<1>1. /\ "ntrip" \in Running /\ due["ntrip"] = 0 /\ DueOK' /\ Running' = Running
      /\ due'["ntrip"] = NTRIP_OBS_ALERT_RATE_LIMIT /\ UNCHANGED since
      /\ \A n \in Running : n # "ntrip" => due'[n] = due[n]
  BY <1>t, TimerFires, Periods DEF ntrip_obs_timer_callback
<1>c. health.ntrip_count \in Nat
  BY <1>t DEF MonitorData
<1>2. PICK c \in Nat : health' = [health EXCEPT !.ntrip_count = c]
  <2>1. (health.ntrip_count + 1) % U8_VALUES \in Nat
    BY <1>c, CounterWraps
  <2> QED
    BY <1>c, <2>1 DEF ntrip_obs_timer_callback
<1>3. /\ health' \in MonitorData /\ health'.ntrip_count = c
      /\ (health'.connected_to_base <=> health.connected_to_base)
      /\ health'.glo_count = health.glo_count
      /\ (health'.ntrip_enabled <=> health.ntrip_enabled) /\ (health'.has_time <=> health.has_time)
  BY <1>t, <1>2 DEF MonitorData
<1>4. HealthTypeOK'
  BY <1>t, <1>1, <1>3 DEF HealthTypeOK
<1>5. TimersLag' /\ ConnectionIsRecent'
  BY <1>1, <1>3 DEF HealthInv, TimersLag, ConnectionIsRecent
<1>6. /\ since.base \in Nat
      /\ since.base < NTRIP_OBS_PERIOD_BEFORE_WARN =>
           /\ since.base + 0 >= NTRIP_OBS_ALERT_RATE_LIMIT
           /\ health.ntrip_count > 0 => since.base + 0 >= 2 * NTRIP_OBS_ALERT_RATE_LIMIT
  BY <1>t, <1>1 DEF HealthInv, NtripCounts
<1>7. NtripCounts'
  <2>1. since.base < NTRIP_OBS_PERIOD_BEFORE_WARN =>
          since.base + NTRIP_OBS_ALERT_RATE_LIMIT >= 2 * NTRIP_OBS_ALERT_RATE_LIMIT
    BY <1>6, HealthAssumption
  <2>2. since.base < NTRIP_OBS_PERIOD_BEFORE_WARN =>
          since.base + NTRIP_OBS_ALERT_RATE_LIMIT >= NTRIP_OBS_ALERT_RATE_LIMIT
    BY <1>6, HealthAssumption
  <2> QED
    BY <1>1, <2>1, <2>2 DEF NtripCounts
<1>8. WarningsAreTrue'
  <2>1. ASSUME warning' = "ntrip"
        PROVE  /\ since'.base >= NTRIP_OBS_PERIOD_BEFORE_WARN
               /\ health'.ntrip_enabled /\ health'.has_time
    <3>1. /\ health.ntrip_enabled /\ health.has_time
          /\ health.ntrip_count > ntrip_max_timeout_count_before_warn
      BY <2>1 DEF ntrip_obs_timer_callback, Warn
    <3>2. health.ntrip_count > 0
      BY <1>c, <3>1, Quotients
    <3>3. since.base >= NTRIP_OBS_PERIOD_BEFORE_WARN
      BY <1>6, <3>2, HealthAssumption
    <3> QED
      BY <1>1, <1>3, <3>1, <3>3
  <2>2. warning' \in {"ntrip", "none"}
    BY DEF ntrip_obs_timer_callback, Warn
  <2> QED
    BY <2>1, <2>2 DEF WarningsAreTrue
<1> QED
  BY <1>4, <1>5, <1>7, <1>8 DEF HealthInv

\* Time passes.
LEMMA TimeStep ==
  ASSUME HealthInv, TimePasses
  PROVE  HealthInv'
<1>t. DueOK /\ health \in MonitorData /\ since \in [base : Nat, heard : Nat, glo : Nat, bias : Nat]
  BY DEF HealthInv, HealthTypeOK
<1>1. /\ \A m \in Running : due[m] > 0 /\ due[m] \in Nat /\ due[m] <= Period(m) /\ Period(m) \in Nat
      /\ due' = [m \in Running |-> due[m] - 1] /\ health' = health /\ warning' = "none"
  BY <1>t, Periods DEF TimePasses, DueOK
<1>2. \A m \in Running : due'[m] = due[m] - 1
  BY <1>1
<1>3. \A m \in Running : due[m] - 1 \in Nat /\ due[m] - 1 <= Period(m)
  BY <1>1
<1>4. due' \in [Running -> Nat] /\ Running' = Running
  BY <1>1, <1>3 DEF Running
<1>5. DueOK'
  BY <1>t, <1>2, <1>3, <1>4 DEF DueOK
<1>6. /\ since'.base = IF since.base = NTRIP_OBS_PERIOD_BEFORE_WARN THEN since.base ELSE since.base + 1
      /\ since'.heard \in {since.heard, since.heard + 1}
      /\ since'.glo = IF since.glo = GLO_OBS_ALERT_RATE_LIMIT THEN since.glo ELSE since.glo + 1
      /\ since'.bias = IF since.bias = GLO_BIAS_ALERT_RATE_LIMIT THEN since.bias ELSE since.bias + 1
      /\ since' \in [base : Nat, heard : Nat, glo : Nat, bias : Nat]
  <2>1. since.base \in Nat /\ since.heard \in Nat /\ since.glo \in Nat /\ since.bias \in Nat
    BY <1>t
  <2>2. since' = [k \in {"base", "heard", "glo", "bias"} |->
                    IF since[k] = Horizon[k] THEN since[k] ELSE since[k] + 1]
    BY <1>t DEF TimePasses
  <2>3. /\ Horizon["base"] = NTRIP_OBS_PERIOD_BEFORE_WARN /\ Horizon["glo"] = GLO_OBS_ALERT_RATE_LIMIT
        /\ Horizon["bias"] = GLO_BIAS_ALERT_RATE_LIMIT
    BY DEF Horizon
  <2> QED
    BY <2>1, <2>2, <2>3
<1>7. since.base \in Nat /\ since.heard \in Nat /\ since.glo \in Nat /\ since.bias \in Nat
  BY <1>t
<1>8. HealthTypeOK'
  BY <1>t, <1>1, <1>5, <1>6 DEF HealthTypeOK
<1>9. TimersLag'
  <2>1. ASSUME "glo_obs" \in Running PROVE since'.glo + due'["glo_obs"] >= GLO_OBS_ALERT_RATE_LIMIT
    <3>1. /\ since.glo + due["glo_obs"] >= GLO_OBS_ALERT_RATE_LIMIT /\ due["glo_obs"] \in Nat
          /\ due["glo_obs"] > 0 /\ due'["glo_obs"] = due["glo_obs"] - 1
      BY <1>1, <1>2, <2>1 DEF HealthInv, TimersLag
    <3> QED
      BY <1>6, <1>7, <3>1, HealthAssumption
  <2>2. ASSUME "glo_bias" \in Running PROVE since'.bias + due'["glo_bias"] >= GLO_BIAS_ALERT_RATE_LIMIT
    <3>1. /\ since.bias + due["glo_bias"] >= GLO_BIAS_ALERT_RATE_LIMIT /\ due["glo_bias"] \in Nat
          /\ due["glo_bias"] > 0 /\ due'["glo_bias"] = due["glo_bias"] - 1
      BY <1>1, <1>2, <2>2 DEF HealthInv, TimersLag
    <3> QED
      BY <1>6, <1>7, <3>1, HealthAssumption
  <2> QED
    BY <1>4, <2>1, <2>2 DEF TimersLag
<1>10. ConnectionIsRecent'
  <2>1. ASSUME "glo_obs" \in Running PROVE since'.heard + due'["glo_obs"] <= since.heard + due["glo_obs"]
    <3>1. due["glo_obs"] \in Nat /\ due["glo_obs"] > 0 /\ due'["glo_obs"] = due["glo_obs"] - 1
      BY <1>1, <1>2, <2>1
    <3> QED
      BY <1>6, <1>7, <3>1
  <2>2. "glo_obs" \in Running => /\ since'.heard + due'["glo_obs"] \in Int
                                 /\ since.heard + due["glo_obs"] \in Int
    BY <1>1, <1>2, <1>6, <1>7
  <2> QED
    BY <1>1, <1>4, <2>1, <2>2, HealthAssumption DEF HealthInv, ConnectionIsRecent
<1>11. NtripCounts'
  <2>1. ASSUME "ntrip" \in Running, since'.base < NTRIP_OBS_PERIOD_BEFORE_WARN
        PROVE  /\ since.base < NTRIP_OBS_PERIOD_BEFORE_WARN
               /\ since'.base + due'["ntrip"] = since.base + due["ntrip"]
    <3>1. due["ntrip"] \in Nat /\ due["ntrip"] > 0 /\ due'["ntrip"] = due["ntrip"] - 1
      BY <1>1, <1>2, <2>1
    <3> QED
      BY <1>6, <1>7, <2>1, <3>1, HealthAssumption
  <2> QED
    BY <1>1, <1>4, <2>1 DEF HealthInv, NtripCounts
<1>12. WarningsAreTrue'
  BY <1>1 DEF WarningsAreTrue
<1> QED
  BY <1>8, <1>9, <1>10, <1>11, <1>12 DEF HealthInv

-----------------------------------------------------------------------------
(* The theorems about health_daemon.                                       *)

\* The timers start when the daemon does.
LEMMA HealthInitInv == HealthInit => HealthInv
<1> SUFFICES ASSUME HealthInit PROVE HealthInv
  OBVIOUS
<1>1. PICK ms \in MonitorSets : due = [m \in ms |-> Period(m)]
  BY DEF HealthInit
<1>2. Running = ms /\ ms \subseteq Monitors
  BY <1>1, HealthAssumption DEF Running, Monitors
<1>3. \A m \in ms : due[m] = Period(m) /\ Period(m) \in Nat
  BY <1>1, <1>2, Periods
<1>4. DueOK
  BY <1>1, <1>2, <1>3 DEF DueOK
<1>5. /\ health \in MonitorData /\ ~health.connected_to_base /\ health.ntrip_count = 0
  BY DEF HealthInit, health_monitor_init, MonitorData
<1>6. /\ since \in [base : Nat, heard : Nat, glo : Nat, bias : Nat]
      /\ since.base = 0 /\ since.glo = 0 /\ since.bias = 0
  BY DEF HealthInit
<1>7. HealthTypeOK
  BY <1>4, <1>5, <1>6 DEF HealthTypeOK
<1>8. TimersLag
  BY <1>2, <1>3, <1>6, Periods, HealthAssumption DEF TimersLag
<1>9. ConnectionIsRecent
  BY <1>5 DEF ConnectionIsRecent
<1>10. NtripCounts
  BY <1>2, <1>3, <1>5, <1>6, Periods, HealthAssumption DEF NtripCounts
<1>11. WarningsAreTrue
  BY DEF HealthInit, WarningsAreTrue
<1> QED
  BY <1>7, <1>8, <1>9, <1>10, <1>11 DEF HealthInv

\* Every message, setting and timeout keeps the invariant.
LEMMA HealthStepInv == HealthInv /\ [HealthNext]_health_vars => HealthInv'
<1> SUFFICES ASSUME HealthInv, [HealthNext]_health_vars PROVE HealthInv'
  OBVIOUS
<1>1. ASSUME NEW has_glo \in BOOLEAN, NEW sats \in SUBSET (IF "sats" \in Running THEN Sats ELSE {}),
             sbp_msg_obs(has_glo, sats)
      PROVE  HealthInv'
  <2>1. sats \in SUBSET Sats
    OBVIOUS
  <2> QED
    BY <1>1, <2>1, ObsStep
<1>2. CASE \/ sbp_msg_glo_biases
           \/ \E solution \in {"far", "near", "none", "other"} : sbp_msg_baseline_ecef(solution)
           \/ \E b \in BOOLEAN : sbp_msg_gps_time(b)
           \/ \E b \in BOOLEAN : notify_ntrip_enabled(b)
  BY <1>2, MessageStep
<1>3. ASSUME NEW b \in BOOLEAN, notify_glonass_enabled(b) PROVE HealthInv'
  BY <1>3, GlonassStep
<1>4. CASE \/ baseline_threshold_rate_limiting_timer_callback
           \/ glo_bias_timer_callback
           \/ base_num_sats_timer_callback
  BY <1>4, PlainTimeoutStep
<1>5. CASE glo_obs_timer_callback \/ ntrip_obs_timer_callback \/ TimePasses
  BY <1>5, GloTimeoutStep, NtripTimeoutStep, TimeStep
<1>6. CASE UNCHANGED health_vars
  BY <1>6 DEF health_vars, HealthInv, HealthTypeOK, DueOK, Running, TimersLag, ConnectionIsRecent,
              NtripCounts, WarningsAreTrue
<1> QED
  BY <1>1, <1>2, <1>3, <1>4, <1>5, <1>6 DEF HealthNext

\* The timers and counters of the monitors measure what the warnings say.
THEOREM HealthInvariant == HealthSpec => []HealthInv
BY HealthInitInv, HealthStepInv, PTL DEF HealthSpec

\* Whatever monitors run, however the messages, settings and timeouts fall,
\* and although the counters wrap, a warning is true when it is logged, as
\* long as the limits stand to one another as they do in the sources.
THEOREM WarningsAlwaysTrue == HealthSpec => []WarningsAreTrue
<1>1. HealthInv => WarningsAreTrue
  BY DEF HealthInv
<1> QED
  BY <1>1, HealthInvariant, PTL

-----------------------------------------------------------------------------
(***************************************************************************)
(* The SBP readers on the event loop, for any number of connections.       *)
(***************************************************************************)

-----------------------------------------------------------------------------
(* The inductive invariant.                                                *)

IsSeq(s) == \E S : s \in Seq(S)
IsHandle(h) == "life" \in DOMAIN h /\ "ctx" \in DOMAIN h /\ h.ctx \in RxContexts
IsReaders(r) == DOMAIN r = RxContexts /\ \A c \in RxContexts : "reader" \in DOMAIN r[c]

\* A context holds the handle that is active for it, so there is one at most.
HolderKnows(hs, r) ==
  \A n \in 1 .. Len(hs) : IsHandle(hs[n]) /\ (hs[n].life = "active" => r[hs[n].ctx].reader = n)

SrInv == IsSeq(handles) /\ IsReaders(rx) /\ HolderKnows(handles, rx) /\ misuse = {}

-----------------------------------------------------------------------------
(* Sequences of any values.                                                *)

\* A handle is added.
LEMMA SeqAdd ==
  ASSUME NEW s, IsSeq(s), NEW x
  PROVE  /\ IsSeq(Append(s, x)) /\ Len(s) \in Nat /\ Len(Append(s, x)) = Len(s) + 1
         /\ \A i \in 1 .. Len(s) : Append(s, x)[i] = s[i]
         /\ Append(s, x)[Len(s) + 1] = x
<1>1. PICK S : s \in Seq(S)
  BY DEF IsSeq
<1>2. s \in Seq(S \cup {x})
  BY <1>1
<1>3. Append(s, x) \in Seq(S \cup {x})
  BY <1>2
<1>4. IsSeq(Append(s, x))
  BY <1>3 DEF IsSeq
<1> QED
  BY <1>2, <1>4

\* All handles are changed.
LEMMA SeqOver ==
  ASSUME NEW s, IsSeq(s), NEW t, t = [i \in DOMAIN s |-> t[i]]
  PROVE  IsSeq(t) /\ Len(t) = Len(s) /\ DOMAIN s = 1 .. Len(s)
<1>1. PICK S : s \in Seq(S)
  BY DEF IsSeq
<1>2. DOMAIN s = 1 .. Len(s) /\ Len(s) \in Nat
  BY <1>1
<1> DEFINE T == {t[i] : i \in DOMAIN s}
<1>3. t \in [1 .. Len(s) -> T]
  BY <1>2
<1>4. t \in Seq(T) /\ Len(t) = Len(s)
  BY <1>2, <1>3
<1> QED
  BY <1>2, <1>4, Zenon DEF IsSeq

-----------------------------------------------------------------------------
(* The contexts at the start.                                              *)

IsBuilt(f, order, n) ==
  f = [i \in 0 .. n |-> IF i = 0 THEN no_contexts ELSE sbp_pubsub_create(f[i - 1], order[i])]

\* Creating contexts one after the other is well defined.
LEMMA BuildExists ==
  ASSUME NEW order, NEW m \in Nat
  PROVE  \E f : IsBuilt(f, order, m)
<1> DEFINE Bad == {n \in Nat : ~ \E f : IsBuilt(f, order, n)}
<1> SUFFICES ASSUME Bad # {} PROVE FALSE
  OBVIOUS
<1>1. PICK n \in Bad : \A k \in Bad : n <= k
  BY Least, Zenon
<1>2. CASE n = 0
  <2> DEFINE g == [i \in 0 .. 0 |-> no_contexts]
  <2>1. IsBuilt(g, order, 0)
    BY DEF IsBuilt
  <2> QED
    BY <1>2, <2>1
<1>3. CASE n # 0
  <2>1. n \in Nat /\ n - 1 \in Nat /\ n - 1 \notin Bad
    BY <1>1, <1>3
  <2>2. PICK f : IsBuilt(f, order, n - 1)
    BY <2>1
  <2> DEFINE last == sbp_pubsub_create(f[n - 1], order[n])
             g == [i \in 0 .. n |-> IF i = n THEN last ELSE f[i]]
  <2>3. \A i \in 0 .. n - 1 : f[i] = IF i = 0 THEN no_contexts ELSE sbp_pubsub_create(f[i - 1], order[i])
    BY <2>1, <2>2 DEF IsBuilt
  <2>4. \A i \in 0 .. n - 1 : g[i] = f[i]
    BY <2>1
  <2>5. \A i \in 0 .. n : g[i] = IF i = 0 THEN no_contexts ELSE sbp_pubsub_create(g[i - 1], order[i])
    <3> TAKE i \in 0 .. n
    <3>1. CASE i = n
      <4>1. g[i] = last /\ g[i - 1] = f[n - 1]
        BY <1>3, <2>1, <2>4, <3>1
      <4> QED
        BY <1>3, <3>1, <4>1
    <3>2. CASE i # n /\ i # 0
      <4>1. i \in 0 .. n - 1 /\ i - 1 \in 0 .. n - 1
        BY <2>1, <3>2
      <4>2. g[i] = f[i] /\ g[i - 1] = f[i - 1]
        BY <2>4, <4>1
      <4> QED
        BY <2>3, <3>2, <4>1, <4>2
    <3>3. CASE i = 0
      <4>1. 0 \in 0 .. n - 1
        BY <2>1
      <4>2. g[0] = f[0] /\ f[0] = no_contexts
        BY <2>3, <2>4, <4>1, Zenon
      <4> QED
        BY <3>3, <4>2, Zenon
    <3> QED
      BY <3>1, <3>2, <3>3
  <2>6. IsBuilt(g, order, n)
    <3> HIDE DEF last
    <3> QED
      BY <2>5 DEF IsBuilt
  <2> QED
    BY <1>1, <2>6
<1> QED
  BY <1>2, <1>3

\* After n contexts: each holds its own handle.
Started(s, order, n) ==
  /\ IsSeq(s.hs) /\ Len(s.hs) = n /\ IsReaders(s.rx)
  /\ \A i \in 1 .. n : IsHandle(s.hs[i]) /\ s.hs[i].ctx = order[i] /\ s.rx[order[i]].reader = i

\* One more context.
LEMMA OneMoreContext ==
  ASSUME NEW order \in SrOrders(RxContexts), NEW n \in 1 .. Len(order), NEW s, Started(s, order, n - 1)
  PROVE  Started(sbp_pubsub_create(s, order[n]), order, n)
<1>1. /\ order[n] \in RxContexts
      /\ \A i \in 1 .. n - 1 : order[i] # order[n] /\ order[i] \in RxContexts
  BY SbpReaderAssumption DEF SrOrders, IsInjective
<1>2. PICK h, r : /\ sbp_pubsub_create(s, order[n]).hs = Append(s.hs, h)
                  /\ h.ctx = order[n] /\ "ctx" \in DOMAIN h /\ "life" \in DOMAIN h
                  /\ sbp_pubsub_create(s, order[n]).rx = [s.rx EXCEPT ![order[n]] = r]
                  /\ r.reader = Len(s.hs) + 1 /\ "reader" \in DOMAIN r
  <2> DEFINE f == pk_endpoint_create(pk_endpoint_create(s.fds, TRUE).fds, TRUE)
  <2>1. /\ sbp_pubsub_create(s, order[n]).hs
             = Append(s.hs, [life |-> "active", ctx |-> order[n], fd |-> f.sock])
        /\ sbp_pubsub_create(s, order[n]).rx
             = [s.rx EXCEPT ![order[n]] = [sock |-> f.sock, metrics |-> f.metrics, conns |-> 1,
                                           reader |-> Len(s.hs) + 1, interrupt |-> FALSE]]
    BY Zenon DEF sbp_pubsub_create, pk_loop_endpoint_reader_add
  <2> DEFINE h == [life |-> "active", ctx |-> order[n], fd |-> f.sock]
             r == [sock |-> f.sock, metrics |-> f.metrics, conns |-> 1,
                   reader |-> Len(s.hs) + 1, interrupt |-> FALSE]
  <2>2. /\ h.ctx = order[n] /\ "ctx" \in DOMAIN h /\ "life" \in DOMAIN h
        /\ r.reader = Len(s.hs) + 1 /\ "reader" \in DOMAIN r
    BY Zenon
  <2> HIDE DEF h, r
  <2> QED
    BY <2>1, <2>2, Zenon DEF h, r
<1>3. /\ IsSeq(Append(s.hs, h)) /\ Len(Append(s.hs, h)) = n
      /\ \A i \in 1 .. n - 1 : Append(s.hs, h)[i] = s.hs[i]
      /\ Append(s.hs, h)[n] = h /\ Len(s.hs) + 1 = n
  <2>1. IsSeq(s.hs) /\ Len(s.hs) = n - 1
    BY Zenon DEF Started
  <2>2. PICK t : t = s.hs
    OBVIOUS
  <2>3. IsSeq(t) /\ Len(t) = n - 1
    BY <2>1, <2>2, Zenon
  <2>4. /\ IsSeq(Append(t, h)) /\ Len(t) \in Nat /\ Len(Append(t, h)) = Len(t) + 1
        /\ \A i \in 1 .. Len(t) : Append(t, h)[i] = t[i]
        /\ Append(t, h)[Len(t) + 1] = h
    BY <2>3, SeqAdd, Zenon
  <2>5. Len(t) + 1 = n
    BY <2>3
  <2> QED
    BY <2>2, <2>3, <2>4, <2>5, Zenon
<1>4. /\ IsReaders([s.rx EXCEPT ![order[n]] = r])
      /\ \A c \in RxContexts : [s.rx EXCEPT ![order[n]] = r][c] = IF c = order[n] THEN r ELSE s.rx[c]
  BY <1>1, <1>2, Zenon DEF Started, IsReaders
<1>5. ASSUME NEW i \in 1 .. n
      PROVE  /\ IsHandle(Append(s.hs, h)[i]) /\ Append(s.hs, h)[i].ctx = order[i]
             /\ [s.rx EXCEPT ![order[n]] = r][order[i]].reader = i
  <2>1. CASE i = n
    BY <1>1, <1>2, <1>3, <1>4, <2>1, Zenon DEF IsHandle
  <2>2. CASE i # n
    <3>1. i \in 1 .. n - 1
      BY <2>2
    <3>2. IsHandle(s.hs[i]) /\ s.hs[i].ctx = order[i] /\ s.rx[order[i]].reader = i
      BY <3>1, Zenon DEF Started
    <3> QED
      BY <1>1, <1>3, <1>4, <3>1, <3>2, Zenon
  <2> QED
    BY <2>1, <2>2, Zenon
<1> QED
  BY <1>2, <1>3, <1>4, <1>5, Zenon DEF Started

\* The start of the process.
LEMMA SrInitInv == SrInit => SrInv
<1> SUFFICES ASSUME SrInit PROVE SrInv
  OBVIOUS
<1>1. PICK order \in SrOrders(RxContexts) : /\ handles = Created(order).hs /\ rx = Created(order).rx /\ misuse = {}
  BY DEF SrInit
<1>2. order \in Seq(RxContexts) /\ Len(order) \in Nat
  BY SbpReaderAssumption DEF SrOrders
<1> DEFINE N == Len(order)
<1>3. PICK f : IsBuilt(f, order, N) /\ Created(order) = f[N]
  <2>1. \E f : f = [i \in 0 .. Len(order) |->
                      IF i = 0 THEN no_contexts ELSE sbp_pubsub_create(f[i - 1], order[i])]
    BY <1>2, BuildExists, Zenon DEF IsBuilt
  <2> QED
    BY <2>1, Zenon DEF Created, IsBuilt
<1>4. \A i \in 0 .. N : f[i] = IF i = 0 THEN no_contexts ELSE sbp_pubsub_create(f[i - 1], order[i])
  BY <1>2, <1>3 DEF IsBuilt
<1> HIDE DEF N
<1> DEFINE Bad == {n \in 0 .. N : ~ Started(f[n], order, n)}
<1>5. Bad = {}
  <2> SUFFICES ASSUME Bad # {} PROVE FALSE
    OBVIOUS
  <2>1. Bad \in SUBSET Nat
    BY <1>2 DEF N
  <2> HIDE DEF Bad
  <2>4. PICK n \in Bad : \A k \in Bad : n <= k
    BY <2>1, Least
  <2>2. CASE n = 0
    <3>1. f[0] = no_contexts
      BY <1>2, <1>4 DEF N
    <3>2. Started(no_contexts, order, 0)
      <4>1. <<>> \in Seq({}) /\ Len(<<>>) = 0
        OBVIOUS
      <4>2. IsSeq(no_contexts.hs) /\ Len(no_contexts.hs) = 0
        BY <4>1 DEF no_contexts, IsSeq
      <4>3. IsReaders(no_contexts.rx)
        BY DEF no_contexts, IsReaders
      <4> QED
        BY <4>2, <4>3 DEF Started
    <3> QED
      BY <2>2, <2>4, <3>1, <3>2 DEF Bad
  <2>3. CASE n # 0
    <3>1. n \in 1 .. N /\ n - 1 \in 0 .. N /\ n - 1 \notin Bad
      BY <1>2, <2>3, <2>4 DEF N, Bad
    <3>2. Started(f[n - 1], order, n - 1) /\ f[n] = sbp_pubsub_create(f[n - 1], order[n])
      BY <1>4, <2>3, <3>1 DEF Bad
    <3>3. Started(f[n], order, n)
      BY <3>1, <3>2, OneMoreContext DEF N
    <3> QED
      BY <2>4, <3>3 DEF Bad
  <2> QED
    BY <2>2, <2>3
<1>6. Started(Created(order), order, N)
  <2>1. N \in 0 .. N
    BY <1>2 DEF N
  <2> QED
    BY <1>3, <1>5, <2>1
<1> QED
  BY <1>1, <1>6, Zenon DEF Started, SrInv, HolderKnows

-----------------------------------------------------------------------------
(* The steps.                                                              *)

\* The handles that libuv frees were not active.
LEMMA FreeStep ==
  ASSUME NEW hs, IsSeq(hs), NEW r, HolderKnows(hs, r)
  PROVE  IsSeq(Freed(hs)) /\ HolderKnows(Freed(hs), r)
<1> DEFINE t == Freed(hs)
<1>1. t = [n \in DOMAIN hs |-> t[n]]
  BY DEF Freed
<1>2. IsSeq(t) /\ Len(t) = Len(hs) /\ DOMAIN hs = 1 .. Len(hs)
  <2> HIDE DEF t
  <2> QED
    BY <1>1, SeqOver
<1>3. ASSUME NEW n \in 1 .. Len(hs)
      PROVE  IsHandle(t[n]) /\ (t[n].life = "active" => r[t[n].ctx].reader = n)
  <2>1. IsHandle(hs[n]) /\ (hs[n].life = "active" => r[hs[n].ctx].reader = n)
    BY DEF HolderKnows
  <2>2. t[n] = IF hs[n].life = "closing" THEN [hs[n] EXCEPT !.life = "freed"] ELSE hs[n]
    BY <1>2 DEF Freed
  <2> QED
    BY <2>1, <2>2 DEF IsHandle
<1> QED
  BY <1>2, <1>3 DEF HolderKnows

ClosedAt(hs, n) == [hs EXCEPT ![n] = uv_close(@)]

\* A handle of the loop is closed.
LEMMA CloseEffect ==
  ASSUME NEW hs, IsSeq(hs), NEW r, HolderKnows(hs, r), NEW n \in 1 .. Len(hs),
         NEW t, t = ClosedAt(hs, n)
  PROVE  IsSeq(t) /\ HolderKnows(t, r) /\ Len(t) = Len(hs) /\ t[n].life = "closing"
<1>x. PICK x : x = uv_close(hs[n])
  OBVIOUS
<1>t. t = [hs EXCEPT ![n] = x]
  BY <1>x DEF ClosedAt
<1>1. /\ IsSeq(t) /\ Len(t) = Len(hs)
      /\ \A i \in 1 .. Len(hs) : t[i] = IF i = n THEN x ELSE hs[i]
  <2>1. PICK S : hs \in Seq(S)
    BY DEF IsSeq
  <2>2. hs \in Seq(S \cup {x})
    BY <2>1
  <2>3. t \in Seq(S \cup {x}) /\ Len(t) = Len(hs)
    BY <1>t, <2>2
  <2>4. IsSeq(t)
    BY <2>3 DEF IsSeq
  <2> QED
    BY <1>t, <2>2, <2>3, <2>4
<1>2. \A i \in 1 .. Len(hs) : IsHandle(hs[i]) /\ (hs[i].life = "active" => r[hs[i].ctx].reader = i)
  BY DEF HolderKnows
<1>3. IsHandle(x) /\ x.life = "closing"
  BY <1>x, <1>2 DEF uv_close, IsHandle
<1>4. HolderKnows(t, r) /\ t[n].life = "closing"
  BY <1>1, <1>2, <1>3 DEF HolderKnows
<1> QED
  BY <1>1, <1>4

\* A reconnection replaces the handle that was closed.
LEMMA ReconnectEffect ==
  ASSUME NEW c \in RxContexts, NEW hs, IsSeq(hs), IsReaders(rx), HolderKnows(hs, rx),
         NEW n \in 1 .. Len(hs), rx[c].reader = n, hs[n].life = "closing"
  PROVE  /\ Misused(hs, rx[c].reader) = {}
         /\ LET new == Reconnected(c, hs) IN
              /\ IsSeq(new.hs) /\ "reader" \in DOMAIN new.rx
              /\ \A r : /\ DOMAIN r = RxContexts /\ \A d \in RxContexts \ {c} : r[d].reader = rx[d].reader
                        /\ r[c].reader = new.rx.reader
                        => HolderKnows(new.hs, r)
<1>1. ~Closes(hs[n]) /\ Misused(hs, rx[c].reader) = {} /\ pk_loop_remove_handle(hs, rx[c].reader) = hs
  BY Zenon DEF Misused, Closes, pk_loop_remove_handle
<1>2. Len(hs) \in Nat /\ \A i \in 1 .. Len(hs) : hs[i].life = "active" => hs[i].ctx # c
  <2>1. Len(hs) \in Nat
    BY SeqAdd
  <2>2. ASSUME NEW i \in 1 .. Len(hs), hs[i].life = "active", hs[i].ctx = c PROVE FALSE
    BY <2>2 DEF HolderKnows
  <2> QED
    BY <2>1, <2>2
<1> DEFINE new == Reconnected(c, hs)
<1>3. PICK ok, h, r0 :
        /\ ok \in BOOLEAN /\ new.hs = IF ok THEN Append(hs, h) ELSE hs
        /\ h.ctx = c /\ "ctx" \in DOMAIN h /\ "life" \in DOMAIN h
        /\ new.rx = r0 /\ DOMAIN r0 = DOMAIN rx[c]
        /\ r0.reader = IF ok THEN Len(hs) + 1 ELSE 0
  <2> DEFINE ept == pk_endpoint_create(pk_endpoint_destroy(OpenOn(fds, "null"), rx[c]), router[c].up)
             ok == ept.sock # NoFd
             h == [life |-> "active", ctx |-> c, fd |-> ept.sock]
             r0 == [rx[c] EXCEPT !.sock = ept.sock, !.metrics = ept.metrics,
                                 !.conns = IF ok THEN @ + 1 ELSE @,
                                 !.reader = IF ok THEN Len(hs) + 1 ELSE 0]
  <2>1. new.hs = (IF ok THEN Append(pk_loop_remove_handle(hs, rx[c].reader), h)
                        ELSE pk_loop_remove_handle(hs, rx[c].reader)) /\ new.rx = r0
    BY DEF Reconnected, pk_loop_endpoint_reader_add
  <2>2. h.ctx = c /\ "ctx" \in DOMAIN h /\ "life" \in DOMAIN h
    BY Zenon
  <2>3. DOMAIN r0 = DOMAIN rx[c] /\ r0.reader = IF ok THEN Len(hs) + 1 ELSE 0
    <3> HIDE DEF ept, ok
    <3> QED
      BY DEF IsReaders
  <2> HIDE DEF ok, h, r0, new
  <2>4. new.hs = IF ok THEN Append(hs, h) ELSE hs
    BY <1>1, <2>1, Zenon
  <2>5. ok \in BOOLEAN
    BY DEF ok
  <2> QED
    BY <2>1, <2>2, <2>3, <2>4, <2>5, Zenon
<1> HIDE DEF new
<1>4. /\ IsSeq(Append(hs, h)) /\ Len(Append(hs, h)) = Len(hs) + 1
      /\ \A i \in 1 .. Len(hs) : Append(hs, h)[i] = hs[i]
      /\ Append(hs, h)[Len(hs) + 1] = h
  BY SeqAdd
<1>5. IsSeq(new.hs) /\ "reader" \in DOMAIN new.rx
  BY <1>3, <1>4 DEF IsReaders
<1>6. ASSUME NEW r, DOMAIN r = RxContexts, \A d \in RxContexts \ {c} : r[d].reader = rx[d].reader,
             r[c].reader = new.rx.reader
      PROVE  HolderKnows(new.hs, r)
  <2>1. ASSUME NEW i \in 1 .. Len(hs)
        PROVE  IsHandle(hs[i]) /\ (hs[i].life = "active" => r[hs[i].ctx].reader = i)
    <3>1. IsHandle(hs[i]) /\ (hs[i].life = "active" => rx[hs[i].ctx].reader = i)
      BY DEF HolderKnows
    <3> QED
      BY <1>2, <1>6, <3>1, Zenon DEF IsHandle
  <2>2. CASE ~ok
    BY <1>3, <2>1, <2>2 DEF HolderKnows
  <2>3. CASE ok
    <3>1. new.hs = Append(hs, h) /\ r[h.ctx].reader = Len(hs) + 1 /\ IsHandle(h)
      BY <1>3, <1>6, <2>3 DEF IsHandle
    <3>2. ASSUME NEW i \in 1 .. Len(Append(hs, h))
          PROVE  /\ IsHandle(Append(hs, h)[i])
                 /\ Append(hs, h)[i].life = "active" => r[Append(hs, h)[i].ctx].reader = i
      <4>1. CASE i = Len(hs) + 1
        BY <1>4, <3>1, <4>1
      <4>2. CASE i # Len(hs) + 1
        <5>1. i \in 1 .. Len(hs)
          BY <1>2, <1>4, <4>2
        <5> QED
          BY <1>4, <2>1, <5>1
      <4> QED
        BY <4>1, <4>2
    <3> QED
      BY <3>1, <3>2, Zenon DEF HolderKnows
  <2> QED
    BY <2>2, <2>3
<1> QED
  BY <1>1, <1>5, <1>6, Zenon DEF new

\* A read leaves the reader alone.
LEMMA ReadKeeps ==
  ASSUME NEW r, NEW read, "reader" \in DOMAIN r
  PROVE  "reader" \in DOMAIN AfterRead(r, read) /\ AfterRead(r, read).reader = r.reader
BY DEF AfterRead

\* The dispatch of an event.
LEMMA DispatchStep ==
  ASSUME SrInv, uv_loop_poll_handler
  PROVE  SrInv'
<1> DEFINE evs == Head(uv.batch).events
           hup == "hup" \in evs
           remove == hup \/ "err" \in evs
<1>1. PICK n, hs, new, read :
        /\ n \in Watcher(handles, Head(uv.batch).fd)
        /\ hs = IF remove THEN pk_loop_remove_handle(handles, n) ELSE handles
        /\ new = IF hup THEN Reconnected(handles[n].ctx, hs) ELSE Unbroken(handles[n].ctx, hs)
        /\ handles' = new.hs
        /\ rx' = [rx EXCEPT ![handles[n].ctx] = IF new.ok THEN AfterRead(new.rx, read) ELSE new.rx]
        /\ misuse' = misuse \cup (IF remove THEN Misused(handles, n) ELSE {})
                            \cup (IF hup THEN Misused(hs, rx[handles[n].ctx].reader) ELSE {})
  <2>1. PICK n, hs, new, queue, read :
          /\ n \in Watcher(handles, Head(uv.batch).fd)
          /\ hs = IF {"hup", "err"} \cap evs # {} THEN pk_loop_remove_handle(handles, n) ELSE handles
          /\ new = IF hup THEN Reconnected(handles[n].ctx, hs) ELSE Unbroken(handles[n].ctx, hs)
          /\ rx_ctx_reader_loop_callback(n, evs, hs, new, queue, read)
    BY Zenon DEF uv_loop_poll_handler
  <2>2. remove <=> {"hup", "err"} \cap evs # {}
    OBVIOUS
  <2>3. /\ handles' = new.hs
        /\ rx' = [rx EXCEPT ![handles[n].ctx] = IF new.ok THEN AfterRead(new.rx, read) ELSE new.rx]
        /\ misuse' = misuse \cup (IF remove THEN Misused(handles, n) ELSE {})
                            \cup (IF hup THEN Misused(hs, rx[handles[n].ctx].reader) ELSE {})
    BY <2>1, Zenon DEF rx_ctx_reader_loop_callback
  <2> HIDE DEF evs, hup, remove
  <2>4. hs = IF remove THEN pk_loop_remove_handle(handles, n) ELSE handles
    BY <2>1, <2>2
  <2> QED
    BY <2>1, <2>3, <2>4, Zenon
<1>2. PICK c : c = handles[n].ctx
  OBVIOUS
<1>3. /\ IsSeq(handles) /\ IsReaders(rx) /\ HolderKnows(handles, rx) /\ misuse = {}
      /\ n \in 1 .. Len(handles) /\ handles[n].life = "active"
      /\ c \in RxContexts /\ rx[c].reader = n /\ Len(handles) \in Nat
  <2>1. IsSeq(handles) /\ DOMAIN handles = 1 .. Len(handles) /\ Len(handles) \in Nat
    BY DEF SrInv, IsSeq
  <2> QED
    BY <1>1, <1>2, <2>1, Zenon DEF SrInv, HolderKnows, IsHandle, Watcher, Active
<1>4. n # 0 /\ Closes(handles[n]) /\ Misused(handles, n) = {}
  BY <1>3 DEF Closes, Misused, UvForbids
<1>5. PICK t : t = ClosedAt(handles, n)
  BY Zenon
<1>6. IsSeq(t) /\ HolderKnows(t, rx) /\ Len(t) = Len(handles) /\ t[n].life = "closing"
  <2>1. IsSeq(handles) /\ HolderKnows(handles, rx) /\ n \in 1 .. Len(handles)
    BY <1>3, Zenon
  <2> QED
    BY <1>5, <2>1, CloseEffect, Zenon
<1>7. hs = IF remove THEN t ELSE handles
  BY <1>1, <1>4, <1>5, Zenon DEF pk_loop_remove_handle, ClosedAt
<1>8. CASE ~hup
  <2>1. new = Unbroken(c, hs) /\ new.hs = hs /\ new.rx = rx[c] /\ misuse' = {}
    BY <1>1, <1>2, <1>3, <1>4, <1>8, Zenon DEF Unbroken
  <2>2. PICK r : /\ rx' = [rx EXCEPT ![c] = r]
                 /\ "reader" \in DOMAIN r /\ r.reader = rx[c].reader
    BY <1>1, <1>2, <1>3, <2>1, ReadKeeps, Zenon DEF IsReaders
  <2>3. IsReaders(rx') /\ \A d \in RxContexts : rx'[d].reader = rx[d].reader
    BY <1>3, <2>2 DEF IsReaders
  <2>4. handles' = hs /\ IsSeq(hs) /\ HolderKnows(hs, rx)
    BY <1>1, <1>3, <1>6, <1>7, <2>1, Zenon
  <2>5. HolderKnows(hs, rx')
    BY <2>3, <2>4, Zenon DEF HolderKnows, IsHandle
  <2> QED
    BY <2>1, <2>3, <2>4, <2>5, Zenon DEF SrInv
<1>9. CASE hup
  <2>1. hs = t /\ new = Reconnected(c, hs) /\ handles' = new.hs
    BY <1>1, <1>2, <1>7, <1>9, Zenon
  <2>2. /\ Misused(hs, rx[c].reader) = {}
        /\ IsSeq(new.hs) /\ "reader" \in DOMAIN new.rx
        /\ \A r : /\ DOMAIN r = RxContexts /\ \A d \in RxContexts \ {c} : r[d].reader = rx[d].reader
                  /\ r[c].reader = new.rx.reader
                  => HolderKnows(new.hs, r)
    BY <1>3, <1>6, <2>1, ReconnectEffect, Zenon
  <2>3. misuse' = {}
    BY <1>1, <1>2, <1>3, <1>4, <2>2, Zenon
  <2>4. PICK r : /\ rx' = [rx EXCEPT ![c] = r]
                 /\ "reader" \in DOMAIN r /\ r.reader = new.rx.reader
    <3>1. PICK r : r = IF new.ok THEN AfterRead(new.rx, read) ELSE new.rx
      OBVIOUS
    <3>2. /\ "reader" \in DOMAIN AfterRead(new.rx, read)
          /\ AfterRead(new.rx, read).reader = new.rx.reader
      BY <2>2, ReadKeeps, Zenon
    <3>3. "reader" \in DOMAIN r /\ r.reader = new.rx.reader
      BY <2>2, <3>1, <3>2, Zenon
    <3>4. rx' = [rx EXCEPT ![c] = r]
      BY <1>1, <1>2, <3>1, Zenon
    <3> QED
      BY <3>3, <3>4, Zenon
  <2>5. /\ IsReaders(rx') /\ rx'[c].reader = new.rx.reader
        /\ \A d \in RxContexts \ {c} : rx'[d].reader = rx[d].reader
    BY <1>3, <2>2, <2>4 DEF IsReaders
  <2>6. HolderKnows(new.hs, rx')
    BY <2>2, <2>5, Zenon DEF IsReaders
  <2> QED
    BY <2>1, <2>2, <2>3, <2>5, <2>6, Zenon DEF SrInv
<1> QED
  BY <1>8, <1>9

\* Every step keeps the invariant.
LEMMA SrStepInv == SrInv /\ [SrNext]_sr_vars => SrInv'
<1> SUFFICES ASSUME SrInv, [SrNext]_sr_vars PROVE SrInv'
  OBVIOUS
<1>1. CASE uv_loop_poll_handler
  BY <1>1, DispatchStep
<1>2. CASE uv_closing
  <2>1. handles' = Freed(handles) /\ UNCHANGED <<rx, misuse>>
    BY <1>2 DEF uv_closing
  <2> QED
    BY <2>1, FreeStep DEF SrInv
<1>3. CASE pk_loop_destroy
  <2> DEFINE t == [n \in DOMAIN handles |-> IF n \in Active(handles) THEN uv_close(handles[n])
                                                                   ELSE handles[n]]
  <2>1. handles' = Freed(t) /\ UNCHANGED <<rx, misuse>>
    BY <1>3 DEF pk_loop_destroy
  <2>2. t = [n \in DOMAIN handles |-> t[n]]
    OBVIOUS
  <2>3. IsSeq(t) /\ Len(t) = Len(handles) /\ DOMAIN handles = 1 .. Len(handles)
    <3> HIDE DEF t
    <3> QED
      BY <2>2, SeqOver DEF SrInv
  <2>4. HolderKnows(t, rx)
    <3> SUFFICES ASSUME NEW n \in 1 .. Len(t) PROVE IsHandle(t[n]) /\ t[n].life # "active"
      BY Zenon DEF HolderKnows
    <3>1. IsHandle(handles[n])
      BY <2>3 DEF SrInv, HolderKnows
    <3>2. t[n] = IF handles[n].life = "active" THEN uv_close(handles[n]) ELSE handles[n]
      BY <2>3 DEF Active
    <3> HIDE DEF t
    <3> QED
      BY <3>1, <3>2 DEF uv_close, IsHandle
  <2> HIDE DEF t
  <2> QED
    BY <2>1, <2>3, <2>4, FreeStep DEF SrInv
<1>4. ASSUME NEW c \in RxContexts, sbp_pubsub_destroy(c) PROVE SrInv'
  <2>1. PICK r \in {[rx[c] EXCEPT !.sock = NoFd, !.metrics = NoFd]} : rx' = [rx EXCEPT ![c] = r]
    BY <1>4, Zenon DEF sbp_pubsub_destroy
  <2>2. IsReaders(rx)
    BY DEF SrInv
  <2>3. "reader" \in DOMAIN r /\ r.reader = rx[c].reader
    BY <2>1, <2>2, Zenon DEF IsReaders
  <2>4. IsReaders(rx') /\ \A d \in RxContexts : rx'[d].reader = rx[d].reader
    BY <2>1, <2>2, <2>3 DEF IsReaders
  <2>5. UNCHANGED <<handles, misuse>>
    BY <1>4 DEF sbp_pubsub_destroy
  <2> QED
    BY <2>4, <2>5 DEF SrInv, HolderKnows, IsHandle
<1>5. CASE UNCHANGED <<handles, rx, misuse>>
  BY <1>5 DEF SrInv
<1> QED
  BY <1>1, <1>2, <1>3, <1>4, <1>5, Zenon
  DEF SrNext, SrLoop, sr_vars, pk_loop_timeout_callback, uv_poll, wait_wrap,
      pk_loop_run_simple_with_timeout, pk_loop_run_simple, router_starts, publish, router_stops

\* A context knows the handle that is active for it, in every iteration of the
\* loop.
THEOREM ReadersInvariant == SrSpec => []SrInv
BY SrInitInv, SrStepInv, PTL DEF SrSpec

\* No handle is closed twice or touched after libuv freed it, for any number of
\* contexts, and however routers come and go.
THEOREM HandlesStayLive == SrSpec => []HandlesAreLive
<1>1. SrInv => HandlesAreLive
  BY DEF SrInv, HandlesAreLive
<1> QED
  BY <1>1, ReadersInvariant, PTL

-----------------------------------------------------------------------------
(***************************************************************************)
(* cell_modem_daemon, for any finite set of ttys and any number of plugs,  *)
(* retries and writes of settings: the device in use and the service are   *)
(* those the settings ask for.                                             *)
(***************************************************************************)

-----------------------------------------------------------------------------
(* The inductive invariant.                                                *)

Devs == Ttys \cup {NULL}
ModemTypes == {INVALID, "MODEM_TYPE_GSM", "MODEM_TYPE_CDMA"}
Modems == [ctx_dev : Devs, ctx_type : ModemTypes, dev : Devs, type : ModemTypes, service : Devs]

\* A device in use was probed with success and is the override, if there is
\* one; the service runs, with the modem enabled, on a device that was in use.
ModemFits(m, on, ov) ==
  /\ m \in Modems
  /\ m.service # NULL => on
  /\ on /\ m.dev # NULL => m.service # NULL
  /\ m.dev # NULL => m.type # INVALID
  /\ ov # NULL /\ m.dev # NULL => m.dev = ov
  /\ ov # NULL /\ m.service # NULL => m.service = ov

ModemInv ==
  /\ ttys \in SUBSET Ttys /\ events \in Seq([created : BOOLEAN, dev : Ttys])
  /\ enabled_ \in BOOLEAN /\ override \in Devs
  /\ ModemFits(modem, enabled_, override)

-----------------------------------------------------------------------------
(* What the functions of the daemon leave.                                 *)

\* cell_modem_notify starts or stops the service by the setting and the device.
LEMMA NotifyFits ==
  ASSUME NEW m \in Modems, NEW on \in BOOLEAN, NEW ov \in Devs,
         m.dev # NULL => m.type # INVALID, ov # NULL /\ m.dev # NULL => m.dev = ov
  PROVE  ModemFits(cell_modem_notify(m, on), on, ov)
<1> DEFINE n == cell_modem_notify(m, on)
<1>1. /\ n.dev = m.dev /\ n.type = m.type /\ n \in Modems
      /\ n.service = IF ~on \/ m.dev = NULL \/ m.type = INVALID THEN NULL ELSE m.dev
  BY DEF cell_modem_notify, Modems, Devs
<1> HIDE DEF n
<1>2. ModemFits(n, on, ov)
  BY <1>1 DEF ModemFits
<1> QED
  BY <1>2 DEF n

\* A device that was probed with success is put to use.
LEMMA SetDevFits ==
  ASSUME ttys \in SUBSET Ttys, enabled_ \in BOOLEAN, NEW ov \in Devs, NEW m, ModemFits(m, enabled_, ov), NEW d \in Ttys,
         NEW t \in ModemTypes, t # INVALID, ov # NULL => d = ov, NEW seen \in BOOLEAN
  PROVE  ModemFits(cell_modem_set_dev(m, d, t, seen), enabled_, ov)
<1> DEFINE n == [m EXCEPT !.dev = d, !.type = t]
<1>0. d # NULL /\ d \in Devs
  BY ModemAssumption DEF Devs
<1>1. n \in Modems /\ n.dev = d /\ n.type = t /\ n.service = m.service
  BY <1>0, Zenon DEF ModemFits, Modems
<1>2. CASE enabled_ /\ ~PppdRuns(m, seen)
  <2>1. cell_modem_set_dev(m, d, t, seen) = cell_modem_notify(n, TRUE)
    BY <1>0, <1>2 DEF cell_modem_set_dev
  <2>2. enabled_ = TRUE
    BY <1>2
  <2> HIDE DEF n
  <2>3. ModemFits(cell_modem_notify(n, TRUE), TRUE, ov)
    BY <1>1, NotifyFits, Zenon
  <2> QED
    BY <2>1, <2>2, <2>3, Zenon
<1>3. CASE ~(enabled_ /\ ~PppdRuns(m, seen))
  <2>1. cell_modem_set_dev(m, d, t, seen) = n
    BY <1>3, Zenon DEF cell_modem_set_dev
  <2>2. enabled_ => m.service # NULL
    BY <1>3 DEF PppdRuns
  <2> HIDE DEF n
  <2> QED
    BY <1>1, <2>1, <2>2, Zenon DEF ModemFits
<1> QED
  BY <1>2, <1>3

\* The device in use has gone, or the override is about to change.
LEMMA InvalidFits ==
  ASSUME NEW ov \in Devs, NEW m, ModemFits(m, enabled_, ov), NEW seen \in BOOLEAN
  PROVE  /\ ModemFits(cell_modem_set_dev_to_invalid(m, seen), enabled_, ov)
         /\ cell_modem_set_dev_to_invalid(m, seen).dev = NULL
<1> DEFINE c == [m EXCEPT !.ctx_type = INVALID, !.ctx_dev = NULL]
           n == [c EXCEPT !.dev = NULL, !.type = INVALID]
<1>1. cell_modem_set_dev_to_invalid(m, seen) = n
  BY DEF cell_modem_set_dev_to_invalid, cell_modem_set_dev
<1>2. c \in Modems /\ c.service = m.service
  BY Zenon DEF ModemFits, Modems, ModemTypes, Devs
<1> HIDE DEF c
<1>3. n \in Modems /\ n.dev = NULL /\ n.type = INVALID /\ n.service = m.service
  BY <1>2, Zenon DEF Modems, ModemTypes, Devs
<1> HIDE DEF n
<1> QED
  BY <1>1, <1>3, Zenon DEF ModemFits

\* One device is probed.
LEMMA ProbeFits ==
  ASSUME ttys \in SUBSET Ttys, enabled_ \in BOOLEAN, NEW ov \in Devs, NEW m, ModemFits(m, enabled_, ov), NEW d, NEW a, NEW seen \in BOOLEAN
  PROVE  ModemFits(update_dev_from_probe(m, d, a, ov, seen).m, enabled_, ov)
<1> DEFINE t == cell_modem_probe(a)
           n == [m EXCEPT !.ctx_type = t]
           c == [n EXCEPT !.ctx_dev = d]
<1>1. t \in ModemTypes
  BY DEF cell_modem_probe, ModemTypes
<1> HIDE DEF t
<1>2. n \in Modems /\ n.dev = m.dev /\ n.type = m.type /\ n.service = m.service
  BY <1>1 DEF ModemFits, Modems
<1> HIDE DEF n
<1>3. ModemFits(n, enabled_, ov)
  BY <1>2, Zenon DEF ModemFits
<1>4. CASE d \notin ttys \/ (ov # NULL /\ ov # d)
  BY <1>4 DEF update_dev_from_probe
<1>5. CASE ~(d \notin ttys \/ (ov # NULL /\ ov # d)) /\ t # INVALID
  <2>1. d \in Ttys /\ d \in Devs
    BY <1>5 DEF Devs
  <2>2. c \in Modems /\ c.dev = n.dev /\ c.type = n.type /\ c.service = n.service
    BY <1>2, <2>1 DEF Modems
  <2> HIDE DEF c
  <2>3. ModemFits(c, enabled_, ov)
    BY <1>3, <2>2 DEF ModemFits
  <2>4. update_dev_from_probe(m, d, a, ov, seen).m = cell_modem_set_dev(c, d, t, seen)
    BY <1>5 DEF update_dev_from_probe, c, n, t
  <2> QED
    BY <1>1, <1>5, <2>1, <2>3, <2>4, SetDevFits
<1>6. CASE ~(d \notin ttys \/ (ov # NULL /\ ov # d)) /\ t = INVALID
  <2>1. update_dev_from_probe(m, d, a, ov, seen).m = n
    BY <1>6 DEF update_dev_from_probe, n, t
  <2> QED
    BY <1>3, <2>1
<1> QED
  BY <1>4, <1>5, <1>6

\* The first state of a scan.
LEMMA ScanFields ==
  ASSUME NEW r, NEW m, r = [m |-> m, ret |-> 1]
  PROVE  r.m = m
OBVIOUS

\* One inotify event is handled.
LEMMA EventFits ==
  ASSUME ModemInv, NEW m, ModemFits(m, enabled_, override), NEW e, NEW a, NEW seen \in BOOLEAN
  PROVE  ModemFits(OnEvent(m, e, a, seen), enabled_, override)
<1>1. override \in Devs /\ ttys \in SUBSET Ttys /\ enabled_ \in BOOLEAN
  BY DEF ModemInv
<1> QED
  BY <1>1, ProbeFits, InvalidFits, Zenon DEF OnEvent

-----------------------------------------------------------------------------
(* The loops over /dev and over the events.                                *)

IsScan(f, m, order, a, ov, seen, n) ==
  f = [i \in 0 .. n |-> IF i = 0 THEN [m |-> m, ret |-> 1] ELSE scan_entry(f[i - 1], order[i], a, ov, seen)]

\* A scan of any length is well defined.
LEMMA ScanExists ==
  ASSUME NEW m, NEW order, NEW a, NEW ov, NEW seen, NEW k \in Nat
  PROVE  \E f : IsScan(f, m, order, a, ov, seen, k)
<1> DEFINE Bad == {n \in Nat : ~ \E f : IsScan(f, m, order, a, ov, seen, n)}
           first == [m |-> m, ret |-> 1]
<1> SUFFICES ASSUME Bad # {} PROVE FALSE
  OBVIOUS
<1>1. PICK n \in Bad : \A j \in Bad : n <= j
  BY Least, Zenon
<1>2. CASE n = 0
  <2> DEFINE g == [i \in 0 .. 0 |-> first]
  <2>1. IsScan(g, m, order, a, ov, seen, 0)
    BY DEF IsScan
  <2> QED
    BY <1>2, <2>1
<1>3. CASE n # 0
  <2>1. n \in Nat /\ n - 1 \in Nat /\ n - 1 \notin Bad
    BY <1>1, <1>3
  <2>2. PICK f : IsScan(f, m, order, a, ov, seen, n - 1)
    BY <2>1
  <2> DEFINE last == scan_entry(f[n - 1], order[n], a, ov, seen)
             g == [i \in 0 .. n |-> IF i = n THEN last ELSE f[i]]
  <2>3. \A i \in 0 .. n - 1 : f[i] = IF i = 0 THEN first ELSE scan_entry(f[i - 1], order[i], a, ov, seen)
    BY <2>1, <2>2 DEF IsScan
  <2> HIDE DEF first
  <2>4. \A i \in 0 .. n - 1 : g[i] = f[i]
    BY <2>1
  <2>5. \A i \in 0 .. n : g[i] = IF i = 0 THEN first ELSE scan_entry(g[i - 1], order[i], a, ov, seen)
    <3> TAKE i \in 0 .. n
    <3>1. CASE i = n
      <4>1. g[i] = last /\ g[i - 1] = f[n - 1]
        BY <1>3, <2>1, <2>4, <3>1
      <4> QED
        BY <1>3, <3>1, <4>1
    <3>2. CASE i # n /\ i # 0
      <4>1. i \in 0 .. n - 1 /\ i - 1 \in 0 .. n - 1
        BY <2>1, <3>2
      <4>2. g[i] = f[i] /\ g[i - 1] = f[i - 1]
        BY <2>4, <4>1
      <4> QED
        BY <2>3, <3>2, <4>1, <4>2
    <3>3. CASE i = 0
      <4>1. 0 \in 0 .. n - 1
        BY <2>1
      <4>2. g[0] = f[0] /\ f[0] = first
        BY <2>3, <2>4, <4>1, Zenon
      <4> QED
        BY <3>3, <4>2, Zenon
    <3> QED
      BY <3>1, <3>2, <3>3, Zenon
  <2>6. IsScan(g, m, order, a, ov, seen, n)
    <3> HIDE DEF last
    <3> QED
      BY <2>5, Zenon DEF IsScan, first
  <2> QED
    BY <1>1, <2>6
<1> QED
  BY <1>2, <1>3

\* The scan of /dev.
LEMMA ScanFits ==
  ASSUME ttys \in SUBSET Ttys, enabled_ \in BOOLEAN, NEW ov \in Devs, NEW m, ModemFits(m, enabled_, ov), NEW order, Len(order) \in Nat,
         NEW a, NEW seen \in BOOLEAN
  PROVE  ModemFits(cell_modem_scan_for_modem(m, order, a, ov, seen).m, enabled_, ov)
<1> DEFINE N == Len(order)
<1>1. PICK f : IsScan(f, m, order, a, ov, seen, N) /\ cell_modem_scan_for_modem(m, order, a, ov, seen) = f[N]
  <2>1. \E f : f = [i \in 0 .. Len(order) |->
                      IF i = 0 THEN [m |-> m, ret |-> 1] ELSE scan_entry(f[i - 1], order[i], a, ov, seen)]
    <3>1. \E f : IsScan(f, m, order, a, ov, seen, Len(order))
      BY ScanExists
    <3> QED
      BY <3>1 DEF IsScan
  <2> QED
    BY <2>1, Zenon DEF cell_modem_scan_for_modem, IsScan
<1>2. \A i \in 0 .. N : f[i] = IF i = 0 THEN [m |-> m, ret |-> 1] ELSE scan_entry(f[i - 1], order[i], a, ov, seen)
  BY <1>1, Zenon DEF IsScan
<1>3. N \in Nat
  OBVIOUS
<1> HIDE DEF N
<1> DEFINE Bad == {n \in 0 .. N : ~ ModemFits(f[n].m, enabled_, ov)}
<1>4. Bad = {}
  <2> SUFFICES ASSUME Bad # {} PROVE FALSE
    OBVIOUS
  <2>1. Bad \in SUBSET Nat
    BY <1>3
  <2> HIDE DEF Bad
  <2>2. PICK n \in Bad : \A k \in Bad : n <= k
    BY <2>1, Least
  <2>3. n \in 0 .. N /\ ~ ModemFits(f[n].m, enabled_, ov)
    BY DEF Bad
  <2>4. n # 0
    <3>1. 0 \in 0 .. N
      BY <1>3
    <3>2. f[0] = [m |-> m, ret |-> 1]
      BY <1>2, <3>1, Zenon
    <3>3. f[0].m = m
      BY <3>2, ScanFields, Zenon
    <3> QED
      BY <2>3, <3>3, Zenon
  <2>5. n - 1 \in 0 .. N /\ n - 1 \notin Bad
    BY <1>3, <2>1, <2>2, <2>3, <2>4
  <2>6. ModemFits(f[n - 1].m, enabled_, ov)
    BY <2>5 DEF Bad
  <2>7. f[n] = scan_entry(f[n - 1], order[n], a, ov, seen)
    BY <1>2, <2>3, <2>4, Zenon
  <2> QED
    BY <2>3, <2>6, <2>7, ProbeFits, Zenon DEF scan_entry
<1>5. N \in 0 .. N
  BY <1>3
<1> QED
  BY <1>1, <1>4, <1>5

AreHandled(f, m, a, seen, n) ==
  f = [i \in 0 .. n |-> IF i = 0 THEN m ELSE OnEvent(f[i - 1], events[i], a, seen)]

\* Handling any number of events is well defined.
LEMMA HandledExists ==
  ASSUME NEW m, NEW a, NEW seen, NEW k \in Nat
  PROVE  \E f : AreHandled(f, m, a, seen, k)
<1> DEFINE Bad == {n \in Nat : ~ \E f : AreHandled(f, m, a, seen, n)}
<1> SUFFICES ASSUME Bad # {} PROVE FALSE
  OBVIOUS
<1>1. PICK n \in Bad : \A j \in Bad : n <= j
  BY Least, Zenon
<1>2. CASE n = 0
  <2> DEFINE g == [i \in 0 .. 0 |-> m]
  <2>1. AreHandled(g, m, a, seen, 0)
    BY DEF AreHandled
  <2> QED
    BY <1>2, <2>1
<1>3. CASE n # 0
  <2>1. n \in Nat /\ n - 1 \in Nat /\ n - 1 \notin Bad
    BY <1>1, <1>3
  <2>2. PICK f : AreHandled(f, m, a, seen, n - 1)
    BY <2>1
  <2> DEFINE last == OnEvent(f[n - 1], events[n], a, seen)
             g == [i \in 0 .. n |-> IF i = n THEN last ELSE f[i]]
  <2>3. \A i \in 0 .. n - 1 : f[i] = IF i = 0 THEN m ELSE OnEvent(f[i - 1], events[i], a, seen)
    BY <2>1, <2>2 DEF AreHandled
  <2>4. \A i \in 0 .. n - 1 : g[i] = f[i]
    BY <2>1
  <2>5. \A i \in 0 .. n : g[i] = IF i = 0 THEN m ELSE OnEvent(g[i - 1], events[i], a, seen)
    <3> TAKE i \in 0 .. n
    <3>1. CASE i = n
      <4>1. g[i] = last /\ g[i - 1] = f[n - 1]
        BY <1>3, <2>1, <2>4, <3>1
      <4> QED
        BY <1>3, <3>1, <4>1
    <3>2. CASE i # n /\ i # 0
      <4>1. i \in 0 .. n - 1 /\ i - 1 \in 0 .. n - 1
        BY <2>1, <3>2
      <4>2. g[i] = f[i] /\ g[i - 1] = f[i - 1]
        BY <2>4, <4>1
      <4> QED
        BY <2>3, <3>2, <4>1, <4>2, Zenon
    <3>3. CASE i = 0
      <4>1. 0 \in 0 .. n - 1
        BY <2>1
      <4>2. g[0] = f[0] /\ f[0] = m
        BY <2>3, <2>4, <4>1, Zenon
      <4> QED
        BY <3>3, <4>2, Zenon
    <3> QED
      BY <3>1, <3>2, <3>3, Zenon
  <2>6. AreHandled(g, m, a, seen, n)
    <3> HIDE DEF last
    <3> QED
      BY <2>5 DEF AreHandled
  <2> QED
    BY <1>1, <2>6
<1> QED
  BY <1>2, <1>3

\* The events in a buffer.
LEMMA EventsFit ==
  ASSUME ModemInv, NEW a, NEW seen \in BOOLEAN
  PROVE  ModemFits(EventsHandled(modem, a, seen), enabled_, override)
<1> DEFINE N == Len(events)
<1>0. N \in Nat
  BY DEF ModemInv
<1>1. PICK f : AreHandled(f, modem, a, seen, N) /\ EventsHandled(modem, a, seen) = f[N]
  <2>1. \E f : f = [i \in 0 .. Len(events) |->
                      IF i = 0 THEN modem ELSE OnEvent(f[i - 1], events[i], a, seen)]
    <3>1. \E f : AreHandled(f, modem, a, seen, Len(events))
      BY <1>0, HandledExists
    <3> QED
      BY <3>1 DEF AreHandled
  <2> QED
    BY <2>1, Zenon DEF EventsHandled, AreHandled
<1>2. \A i \in 0 .. N : f[i] = IF i = 0 THEN modem ELSE OnEvent(f[i - 1], events[i], a, seen)
  BY <1>1 DEF AreHandled
<1> HIDE DEF N
<1> DEFINE Bad == {n \in 0 .. N : ~ ModemFits(f[n], enabled_, override)}
<1>4. Bad = {}
  <2> SUFFICES ASSUME Bad # {} PROVE FALSE
    OBVIOUS
  <2>1. Bad \in SUBSET Nat
    BY <1>0
  <2> HIDE DEF Bad
  <2>2. PICK n \in Bad : \A k \in Bad : n <= k
    BY <2>1, Least
  <2>3. n \in 0 .. N /\ ~ ModemFits(f[n], enabled_, override)
    BY DEF Bad
  <2>4. n # 0
    <3>1. 0 \in 0 .. N
      BY <1>0
    <3>2. f[0] = modem
      BY <1>2, <3>1
    <3> QED
      BY <2>3, <3>2 DEF ModemInv
  <2>5. n - 1 \in 0 .. N /\ n - 1 \notin Bad
    BY <1>0, <2>1, <2>2, <2>3, <2>4
  <2>6. ModemFits(f[n - 1], enabled_, override)
    BY <2>5 DEF Bad
  <2>7. f[n] = OnEvent(f[n - 1], events[n], a, seen)
    BY <1>2, <2>3, <2>4
  <2> QED
    BY <2>3, <2>6, <2>7, EventFits
<1>5. N \in 0 .. N
  BY <1>0
<1> QED
  BY <1>1, <1>4, <1>5

-----------------------------------------------------------------------------
(* The invariant holds.                                                    *)

\* A directory listing is a sequence.
LEMMA OrdersAreSequences ==
  ASSUME ttys \in SUBSET Ttys, NEW order \in Orders
  PROVE  Len(order) \in Nat
<1>1. Cardinality(ttys) \in Nat
  BY ModemAssumption
<1> QED
  BY <1>1 DEF Orders

\* The first scan.
LEMMA ModemInitInv == ModemInit => ModemInv
<1> SUFFICES ASSUME ModemInit PROVE ModemInv
  OBVIOUS
<1> DEFINE none == [ctx_dev |-> NULL, ctx_type |-> INVALID, dev |-> NULL,
                    type |-> INVALID, service |-> NULL]
<1>1. PICK a \in Answers, order \in Orders :
        modem = cell_modem_scan_for_modem(none, order, a, override, FALSE).m
  BY Zenon DEF ModemInit
<1>2. /\ ttys \in SUBSET Ttys /\ events \in Seq([created : BOOLEAN, dev : Ttys])
      /\ enabled_ \in BOOLEAN /\ override \in Devs
  BY DEF ModemInit, Devs
<1>3. ModemFits(none, enabled_, override)
  BY DEF ModemFits, Modems, Devs, ModemTypes
<1> HIDE DEF none
<1>4. Len(order) \in Nat
  BY <1>2, OrdersAreSequences
<1> QED
  BY <1>1, <1>2, <1>3, <1>4, ScanFits, Zenon DEF ModemInv

\* Every step of the daemon, its settings and the devices keeps the invariant.
LEMMA ModemStep ==
  ASSUME ModemInv, [ModemNext]_modem_vars
  PROVE  ModemInv'
<1>0. /\ ttys \in SUBSET Ttys /\ enabled_ \in BOOLEAN /\ override \in Devs
      /\ events \in Seq([created : BOOLEAN, dev : Ttys]) /\ ModemFits(modem, enabled_, override)
  BY DEF ModemInv
<1>1. CASE UNCHANGED modem_vars
  BY <1>1 DEF modem_vars, ModemInv
<1>2. CASE override_probe_retry
  <2>1. ModemFits(modem', enabled_, override)
    BY <1>0, <1>2, OrdersAreSequences, ScanFits, Zenon DEF override_probe_retry
  <2> QED
    BY <1>0, <1>2, <2>1 DEF override_probe_retry, ModemInv
<1>3. CASE inotify_output_cb
  <2>1. ModemFits(modem', enabled_, override)
    BY <1>3, EventsFit DEF inotify_output_cb
  <2> QED
    BY <1>0, <1>3, <2>1 DEF inotify_output_cb, ModemInv
<1>4. ASSUME NEW v \in BOOLEAN, enable_written(v) PROVE ModemInv'
  <2>1. modem' = cell_modem_notify(modem, v) /\ enabled_' = v
    BY <1>4 DEF enable_written
  <2>2. ModemFits(modem', v, override)
    BY <1>0, <2>1, NotifyFits, Zenon DEF ModemFits
  <2> QED
    BY <1>0, <1>4, <2>1, <2>2 DEF enable_written, ModemInv
<1>5. ASSUME NEW v \in Ttys \cup {NULL}, cell_modem_notify_dev_override(v) PROVE ModemInv'
  <2>1. UNCHANGED <<ttys, events, enabled_>>
    BY <1>5 DEF cell_modem_notify_dev_override
  <2>2. CASE enabled_
    BY <1>0, <1>5, <2>1, <2>2, Zenon DEF cell_modem_notify_dev_override, ModemInv
  <2>3. CASE ~enabled_
    <3>1. PICK a \in Answers, order \in Orders, seen \in BOOLEAN :
            modem' = cell_modem_scan_for_modem(
                       cell_modem_notify(cell_modem_set_dev_to_invalid(modem, seen), FALSE), order, a, v, seen).m
      BY <1>5, <2>3, Zenon DEF cell_modem_notify_dev_override
    <3> DEFINE n == cell_modem_set_dev_to_invalid(modem, seen)
    <3>2. n \in Modems /\ n.dev = NULL
      BY <1>0, InvalidFits, Zenon DEF ModemFits
    <3>3. v \in Devs /\ override' = v /\ enabled_ = FALSE
      BY <1>0, <1>5, <2>3 DEF cell_modem_notify_dev_override, Devs
    <3> HIDE DEF n
    <3>4. ModemFits(cell_modem_notify(n, FALSE), FALSE, v)
      BY <3>2, <3>3, NotifyFits, Zenon
    <3>5. ModemFits(cell_modem_scan_for_modem(cell_modem_notify(n, FALSE), order, a, v, seen).m, enabled_, v)
      BY <1>0, <3>3, <3>4, OrdersAreSequences, ScanFits, Zenon
    <3> QED
      BY <1>0, <2>1, <3>1, <3>3, <3>5, Zenon DEF ModemInv, n
  <2> QED
    BY <2>2, <2>3
<1>6. ASSUME NEW d \in Ttys, tty_appears(d) \/ tty_vanishes(d) PROVE ModemInv'
  <2>1. ttys' \in SUBSET Ttys /\ UNCHANGED <<enabled_, override, modem>>
    BY <1>0, <1>6 DEF tty_appears, tty_vanishes
  <2>2. PICK b \in BOOLEAN : events' = Append(events, [created |-> b, dev |-> d])
    BY <1>6, Zenon DEF tty_appears, tty_vanishes
  <2>3. events' \in Seq([created : BOOLEAN, dev : Ttys])
    <3>1. [created |-> b, dev |-> d] \in [created : BOOLEAN, dev : Ttys]
      OBVIOUS
    <3> QED
      BY <1>0, <2>2, <3>1
  <2> QED
    BY <1>0, <2>1, <2>3 DEF ModemInv
<1> QED
  BY <1>1, <1>2, <1>3, <1>4, <1>5, <1>6 DEF ModemNext

\* cell_modem_daemon keeps its invariant, whatever is plugged, written and
\* answered.
THEOREM ModemInvariant == ModemSpec => []ModemInv
BY ModemInitInv, ModemStep, PTL DEF ModemSpec

\* pppd runs exactly when the modem is enabled and found, and with a device
\* override on that device and no other.
THEOREM ModemAlwaysFollows == ModemSpec => []ModemFollowsSettings
<1>1. ModemInv => ModemFollowsSettings
  BY DEF ModemInv, ModemFits, ModemFollowsSettings, ServiceFollowsModem, OverrideIsUsed
<1> QED
  BY <1>1, ModemInvariant, PTL

==============================================================================
