-------------------------------- MODULE Leds --------------------------------
(***************************************************************************)
(* piksi_leds: the event loop's SBP callbacks write the solution state     *)
(* (firmware_state.c); a thread copies it every period without a lock,     *)
(* derives what the POS, LINK and MODE LEDs show (manage_led.c) and writes *)
(* the changed LEDs to the ADP8866 driver over I2C through a cache         *)
(* (led_adp8866.c).  One register stands for the three of an RGB LED.      *)
(* Time is counted in fast blink periods.                                  *)
(***************************************************************************)
EXTENDS Naturals, FiniteSets

CONSTANTS LED_MODE_TIMEOUT, SLOW_BLINK_PERIOD, FAST_BLINK_PERIOD,
          Loads              \* what a run meets: kinds of messages received besides the
                             \* heartbeat, and at most so many messages, failures of
                             \* I2C writes (after their retries) and connectivity checks

ASSUME LedAssumption == LED_MODE_TIMEOUT \in Nat \ {0}

VARIABLES soln,      \* soln_state, with ages in place of time stamps
          writing,   \* the half-done update of soln: the solution stamped next
          recent,    \* ghost: the baseline modes since the thread began to copy soln
          network,   \* the mapped file network_available: "empty", "0" or "1"
          led_pc,    \* where the thread is
          seen,      \* the thread's copy of soln
          blink,     \* the static blinkers of handle_pos and handle_mode, and
                     \* the statics of update_obs_state and handle_link
          chip,      \* the driver: reg(isters), cache, flush flag
          unrepaired,\* ghost: LEDs whose write failed while the cache was flushed
          load       \* what is left of the load

led_vars == <<soln, writing, recent, network, led_pc, seen, blink, chip, unrepaired, load>>

LEDs == {"pos", "link", "mode"}
Off == "off"

no_copy == [spp |-> "invalid", spp_age |-> LED_MODE_TIMEOUT, dgnss |-> "invalid",
            dgnss_age |-> LED_MODE_TIMEOUT, antenna |-> FALSE, four |-> FALSE, obs |-> 0,
            heartbeat |-> FALSE]

no_blink == [pos |-> FALSE, pos_age |-> SLOW_BLINK_PERIOD, mode |-> FALSE,
             mode_age |-> SLOW_BLINK_PERIOD, last_obs |-> 0, link |-> FALSE]
no_chip == [reg |-> [l \in LEDs |-> "unset"], cache |-> [l \in LEDs |-> Off], flush |-> FALSE]

LedsInit ==
  /\ soln = no_copy
  /\ writing = "nothing"
  /\ recent = {}
  /\ network \in {"empty", "1"}
  /\ led_pc = "heartbeat"
  /\ seen = no_copy
  /\ blink = no_blink
  /\ chip = no_chip
  /\ unrepaired = {}
  /\ load \in Loads

(***************************************************************************)
(* firmware_state.c: the callbacks.  A solution's mode is written before   *)
(* its time stamp, and the thread may copy the state in between.           *)
(***************************************************************************)
thread_keeps == UNCHANGED <<network, led_pc, seen, blink, chip, unrepaired>>

Receives(kind) ==
            /\ writing = "nothing"
            /\ kind \in load.kinds \union {"heartbeat"}
            /\ load.messages > 0
            /\ load' = [load EXCEPT !.messages = @ - 1]
            /\ thread_keeps

sbp_msg_pos_ecef_callback(mode) ==
  /\ Receives("pos")
  /\ soln' = [soln EXCEPT !.spp = mode]
  /\ writing' = "spp_age"
  /\ UNCHANGED recent

sbp_msg_baseline_ecef_callback(mode) ==
  /\ Receives("baseline")
  /\ soln' = [soln EXCEPT !.dgnss = mode]
  /\ writing' = "dgnss_age"
  /\ recent' = recent \union {mode}

clock_gettime_systime ==
  /\ writing # "nothing"
  /\ soln' = [soln EXCEPT ![writing] = 0]
  /\ writing' = "nothing"
  /\ UNCHANGED <<recent, load>>
  /\ thread_keeps

\* The u8 counter of base observations: the thread only compares it with its
\* last value, so two values stand for 256.
sbp_msg_obs_counted ==
  /\ Receives("obs")
  /\ soln' = [soln EXCEPT !.obs = 1 - @]
  /\ UNCHANGED <<writing, recent>>

sbp_msg_heartbeat_callback(antenna) ==
  /\ Receives("heartbeat")
  /\ soln' = [soln EXCEPT !.antenna = antenna, !.heartbeat = TRUE]
  /\ UNCHANGED <<writing, recent>>

sbp_msg_tracking_state_callback(four) ==
  /\ Receives("tracking")
  /\ soln' = [soln EXCEPT !.four = four]
  /\ UNCHANGED <<writing, recent>>

(***************************************************************************)
(* led_adp8866.c.  failed is the set of LEDs whose write fails after its   *)
(* retries; the cache takes the new value before the write.                *)
(***************************************************************************)
leds_set(c, states, failed) ==
  [reg |-> [l \in LEDs |-> IF l \in DOMAIN states \ failed THEN states[l] ELSE c.reg[l]],
   cache |-> [l \in LEDs |-> IF l \in DOMAIN states THEN states[l] ELSE c.cache[l]],
   flush |-> c.flush \/ failed \cap DOMAIN states # {}]

led_cache_flush(c, failed) == leds_set(c, c.cache, failed)

modified_states_get(states) ==
  LET changed == {l \in LEDs : states[l] # chip.cache[l]} IN [l \in changed |-> states[l]]

\* Mutant: the flag is cleared after the new states are written.
led_adp8866_leds_set_late(states, failed1, failed2) ==
  LET modified == modified_states_get(states)
      flushed == IF chip.flush THEN led_cache_flush(chip, failed1) ELSE chip
  IN  [leds_set(flushed, modified, failed2) EXCEPT !.flush = FALSE]

\* A failure while the cache is flushed sets the flag, which is then cleared.
led_adp8866_leds_set(states, failed1, failed2) ==
  LET modified == modified_states_get(states)
      flushed == IF chip.flush THEN [led_cache_flush(chip, failed1) EXCEPT !.flush = FALSE]
                               ELSE chip
  IN  leds_set(flushed, modified, failed2)

\* The failures one call may meet, and the LEDs it leaves wrong for good.
I2cFails(failed1, failed2) ==
  /\ failed1 # {} => chip.flush
  /\ Cardinality(failed1) + Cardinality(failed2) <= load.failures
  /\ load' = [load EXCEPT !.failures = @ - (Cardinality(failed1) + Cardinality(failed2))]

Writes(states, failed1, failed2) ==
  /\ I2cFails(failed1, failed2)
  /\ chip' = led_adp8866_leds_set(states, failed1, failed2)
  /\ unrepaired' = (IF chip.flush THEN failed1 ELSE unrepaired)
                     \ (DOMAIN modified_states_get(states))

(***************************************************************************)
(* manage_led.c: what each LED shows.                                      *)
(***************************************************************************)
update_pos_state_invalid_spp(s) ==
  IF s.four THEN "trk_at_least_four" ELSE IF s.antenna THEN "antenna" ELSE "no_signal"

update_pos_state(s) ==
  IF s.spp_age >= LED_MODE_TIMEOUT \/ s.spp = "invalid"
    THEN update_pos_state_invalid_spp(s)
    ELSE s.spp    \* "gnss", "ins_gnss" or "dead_reck"

update_mode_state(s) ==
  IF s.dgnss_age >= LED_MODE_TIMEOUT \/ s.dgnss \notin {"float", "fixed"} THEN "no_rtk" ELSE s.dgnss

\* blinker_update: the LED toggles once its period has passed.
Toggles(mode, age) == \/ mode = "slow" /\ age >= SLOW_BLINK_PERIOD
                      \/ mode = "fast" /\ age >= FAST_BLINK_PERIOD
blinker_update(mode, on, age) == IF mode \in {"off", "on"} THEN mode = "on"
                                 ELSE (on # Toggles(mode, age))

pos_blink == [no_signal |-> "off", antenna |-> "slow", trk_at_least_four |-> "fast",
              dead_reck |-> "fast", gnss |-> "on", ins_gnss |-> "on"]
mode_blink == [no_rtk |-> "off", float |-> "slow", fixed |-> "on"]

(***************************************************************************)
(* The thread.                                                             *)
(***************************************************************************)
\* led_adp8866_init: the process exits when the driver cannot be found,
\* configured or cleared; a write that only times out is left to the flag.
led_adp8866_init(failed) ==
  /\ led_pc = "heartbeat" /\ soln.heartbeat
  /\ \/ /\ I2cFails({}, failed)
        /\ chip' = led_cache_flush([chip EXCEPT !.reg = [l \in LEDs |-> Off]], failed)
        /\ led_pc' = "found"
     \/ led_pc' = "exited" /\ failed = {} /\ UNCHANGED <<chip, load>>
  /\ UNCHANGED <<soln, writing, recent, network, seen, blink, unrepaired>>

\* All LEDs are lit for two seconds.
manage_led_thread_start(failed1, failed2) ==
  /\ led_pc = "found"
  /\ Writes([l \in LEDs |-> "white"], failed1, failed2)
  /\ led_pc' = "asleep"
  /\ UNCHANGED <<soln, writing, recent, network, seen, blink>>

\* firmware_state_get: memcpy is not atomic.  It reads the modes and the time
\* stamps at two moments, in either order.
Stamps == {"spp_age", "dgnss_age"}
firmware_state_get(part) ==
  /\ \/ led_pc = "awake" /\ led_pc' = part /\ recent' = {soln.dgnss}
     \/ led_pc \in {"modes", "stamps"} \ {part} /\ led_pc' = "copied" /\ UNCHANGED recent
  /\ seen' = [f \in DOMAIN soln |-> IF f \in Stamps <=> part = "stamps" THEN soln[f] ELSE seen[f]]
  /\ UNCHANGED <<soln, writing, network, blink, chip, unrepaired, load>>

\* update_link_state reads the mapped file.  Reading it empty raises SIGBUS;
\* the handler writes "0" to a descriptor opened read-only, which fails, and
\* the read is tried again: the thread is held here until the file has a byte.
manage_led_thread(failed1, failed2) ==
  LET pos == update_pos_state(seen)
      mode == update_mode_state(seen)
      obs_event == soln.obs # blink.last_obs
      link == IF obs_event THEN ~blink.link ELSE FALSE
      pos_on == blinker_update(pos_blink[pos], blink.pos, blink.pos_age)
      mode_on == blinker_update(mode_blink[mode], blink.mode, blink.mode_age)
      pos_toggles == Toggles(pos_blink[pos], blink.pos_age)
      mode_toggles == Toggles(mode_blink[mode], blink.mode_age)
      colour == IF pos \in {"dead_reck", "ins_gnss"} THEN "purple" ELSE "orange"
      states == [pos |-> IF pos_on THEN colour ELSE Off,
                 link |-> IF link # (network = "1") THEN "red" ELSE Off,
                 mode |-> IF mode_on THEN "blue" ELSE Off] IN
  /\ led_pc = "copied"
  /\ network # "empty"
  /\ blink' = [pos |-> blink.pos # pos_toggles,
               pos_age |-> IF pos_toggles THEN 0 ELSE blink.pos_age,
               mode |-> blink.mode # mode_toggles,
               mode_age |-> IF mode_toggles THEN 0 ELSE blink.mode_age,
               last_obs |-> soln.obs, link |-> link]
  /\ Writes(states, failed1, failed2)
  /\ led_pc' = "asleep"
  /\ seen' = no_copy /\ recent' = {}
  /\ UNCHANGED <<soln, writing, network>>

\* usleep: the period is far shorter than a blink, so the thread may run
\* several times while no time is counted.
thread_wakes == /\ led_pc = "asleep"
                /\ led_pc' = "awake"
                /\ UNCHANGED <<soln, writing, recent, network, seen, blink, chip, unrepaired, load>>

Older(age, limit) == IF age = limit THEN limit ELSE age + 1
LedTimePasses ==
  /\ led_pc \in {"heartbeat", "asleep"} /\ writing = "nothing"
  /\ soln' = [soln EXCEPT !.spp_age = Older(@, LED_MODE_TIMEOUT),
                          !.dgnss_age = Older(@, LED_MODE_TIMEOUT)]
  /\ blink' = [blink EXCEPT !.pos_age = Older(@, SLOW_BLINK_PERIOD),
                            !.mode_age = Older(@, SLOW_BLINK_PERIOD)]
  /\ led_pc' = IF led_pc = "asleep" THEN "awake" ELSE led_pc
  /\ UNCHANGED <<writing, recent, network, seen, chip, unrepaired, load>>

\* The connectivity check (a script) writes the file.
network_poll(n) == /\ load.polls > 0
                   /\ network' = n
                   /\ load' = [load EXCEPT !.polls = @ - 1]
                   /\ UNCHANGED <<soln, writing, recent, led_pc, seen, blink, chip, unrepaired>>

LedsNext ==
  \/ \E m \in {"invalid", "gnss", "ins_gnss", "dead_reck"} : sbp_msg_pos_ecef_callback(m)
  \/ \E m \in {"invalid", "float", "fixed"} : sbp_msg_baseline_ecef_callback(m)
  \/ clock_gettime_systime
  \/ sbp_msg_obs_counted
  \/ \E b \in BOOLEAN : sbp_msg_heartbeat_callback(b) \/ sbp_msg_tracking_state_callback(b)
  \/ \E f1 \in SUBSET LEDs : \/ led_adp8866_init(f1)
                             \/ \E f2 \in SUBSET LEDs : manage_led_thread_start(f1, f2)
                                                       \/ manage_led_thread(f1, f2)
  \/ \E part \in {"modes", "stamps"} : firmware_state_get(part)
  \/ thread_wakes
  \/ LedTimePasses
  \/ \E n \in {"0", "1"} : network_poll(n)

LedsSpec == LedsInit /\ [][LedsNext]_led_vars

(***************************************************************************)
(* Properties                                                              *)
(***************************************************************************)
\* What the board shows.  After every step each LED holds what the cache
\* says, unless the flag asks for a rewrite or its rewrite itself failed
\* (led_adp8866_leds_set clears the flag that failure sets).  And a round
\* lights the MODE LED only when a baseline solution was stamped within the
\* timeout and one that the state held during the copy was FLOAT or FIXED,
\* although the copy may be torn between a mode and its time stamp.
LedsShowSolution ==
  [][/\ led_pc' \notin {"heartbeat", "exited"}
          => \A l \in LEDs : chip'.reg[l] # chip'.cache[l] => chip'.flush \/ l \in unrepaired'
     /\ led_pc = "copied" /\ led_pc' = "asleep" /\ chip'.cache["mode"] = "blue"
          => soln.dgnss_age < LED_MODE_TIMEOUT /\ recent \cap {"float", "fixed"} # {}]_led_vars
=============================================================================
