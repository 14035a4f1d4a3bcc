----------------------------- MODULE PortFilter -----------------------------
(***************************************************************************)
(* The setting <port>.enabled_sbp_messages, from the string to the         *)
(* messages that leave the port: ports_daemon parses it and writes         *)
(* /etc/filter_out_config/<port> (whitelists.c); the SBP filter of the     *)
(* port's endpoint_adapter (filter_sbp.c) loads that file when it starts   *)
(* and again when inotify tells it that the file was closed after writing. *)
(***************************************************************************)
EXTENDS Integers, Sequences, SequencesExt, FiniteSets

CONSTANTS
  Numbers,        \* the numbers a setting may hold
  Settings,       \* the strings it is given: sequences of tokens
  MsgTypes,       \* SBP message types
  TYPE_MODULUS,   \* values of a uint16_t
  DIVISOR_MODULUS, \* values of a uint8_t
  MaxWhitelists,     \* bound on the settings written
  MaxMessages     \* bound on the messages after each load

VARIABLES
  wl,          \* the accepted setting: a sequence of tokens
  config,      \* the lines of the config file, or NoFile
  writing,     \* the entries whitelist_notify is about to write, or NoFile
  changes,     \* settings accepted so far
  filter_pc,   \* the adapter's filter: "none", "loaded" (not watching yet), "up"
  rules,       \* its rules: [type, divisor, counter]
  watched,     \* inotify_add_watch found the file
  inotify,     \* an event waits to be read
  missed,      \* the file was closed between the load and the watch
  seen, passed \* messages since the rules were loaded, by type

filter_vars == <<wl, config, writing, changes, filter_pc, rules, watched, inotify, missed,
                 seen, passed>>

NoFile == <<[id |-> -1, div |-> -1]>>

\* The tokens of a setting; a token that is a number is not negative.
DIVIDER   == -1
SEPARATOR == -2
BLANK     == -3
OTHERCHAR == -4
Tokens == Numbers \union {DIVIDER, SEPARATOR, BLANK, OTHERCHAR}

-----------------------------------------------------------------------------
(***************************************************************************)
(* ports_daemon: whitelist_notify.                                         *)
(***************************************************************************)
\* Mutant: the divisor goes to the first entry, not to the last.
ParseToken_lastdiv(p, tok) ==
  CASE tok \in Numbers /\ p.state = "id" ->
         [p EXCEPT !.state = "after_id", !.list = Append(@, [id |-> tok, div |-> 1])]
    [] tok \in Numbers /\ p.state = "div" ->
         [p EXCEPT !.state = "after_div", !.list[1].div = tok]
    [] tok = DIVIDER /\ p.state = "after_id" -> [p EXCEPT !.state = "div"]
    [] tok = SEPARATOR /\ p.state \in {"after_id", "after_div"} -> [p EXCEPT !.state = "id"]
    [] tok = BLANK -> p
    [] OTHER -> [p EXCEPT !.state = "failed"]

ParseToken(p, tok) ==
  CASE tok \in Numbers /\ p.state = "id" ->
         [p EXCEPT !.state = "after_id", !.list = Append(@, [id |-> tok, div |-> 1])]
    [] tok \in Numbers /\ p.state = "div" ->
         [p EXCEPT !.state = "after_div", !.list[Len(p.list)].div = tok]
    [] tok = DIVIDER /\ p.state = "after_id" -> [p EXCEPT !.state = "div"]
    [] tok = SEPARATOR /\ p.state \in {"after_id", "after_div"} -> [p EXCEPT !.state = "id"]
    [] tok = BLANK -> p
    [] OTHER -> [p EXCEPT !.state = "failed"]

Parsed(s) == FoldLeft(ParseToken, [state |-> "id", list |-> <<>>], s)

\* A string that parses is accepted, and the file is opened, which empties it.
whitelist_notify(s) ==
  /\ writing = NoFile /\ changes < MaxWhitelists
  /\ Parsed(s).state # "failed"
  /\ wl' = s /\ changes' = changes + 1
  /\ config' = <<>> /\ writing' = Parsed(s).list
  /\ UNCHANGED <<filter_pc, rules, watched, inotify, missed, seen, passed>>

\* fclose: the lines reach the file, and a watcher gets its event.
whitelist_written ==
  /\ writing # NoFile
  /\ config' = writing /\ writing' = NoFile
  /\ inotify' = (inotify \/ watched)
  /\ missed' = (missed \/ filter_pc = "loaded" \/ (filter_pc = "up" /\ ~watched))
  /\ UNCHANGED <<wl, changes, filter_pc, rules, watched, seen, passed>>

-----------------------------------------------------------------------------
(***************************************************************************)
(* endpoint_adapter: the filter.                                           *)
(***************************************************************************)
Zero == [t \in MsgTypes |-> 0]

filter_sbp_load_config(file) ==
  IF file = NoFile THEN <<>>
  ELSE [i \in 1 .. Len(file) |->
          [type |-> file[i].id % TYPE_MODULUS, divisor |-> file[i].div % DIVISOR_MODULUS,
           counter |-> 0]]

filter_create_load ==
  /\ filter_pc = "none"
  /\ filter_pc' = "loaded" /\ rules' = filter_sbp_load_config(config)
  /\ missed' = FALSE /\ seen' = Zero /\ passed' = Zero
  /\ UNCHANGED <<wl, config, writing, changes, watched, inotify>>

filter_create_watch ==
  /\ filter_pc = "loaded"
  /\ filter_pc' = "up" /\ watched' = (config # NoFile)
  /\ UNCHANGED <<wl, config, writing, changes, rules, inotify, missed, seen, passed>>

filter_destroy ==
  /\ filter_pc = "up"
  /\ filter_pc' = "none" /\ rules' = <<>> /\ watched' = FALSE /\ inotify' = FALSE
  /\ missed' = FALSE /\ seen' = Zero /\ passed' = Zero
  /\ UNCHANGED <<wl, config, writing, changes>>

process_rule(r) ==
  IF r.divisor = 0 THEN [pass |-> FALSE, counter |-> r.counter]
  ELSE IF r.counter + 1 >= r.divisor THEN [pass |-> TRUE, counter |-> 0]
  ELSE [pass |-> FALSE, counter |-> r.counter + 1]

\* The rules after a message of type t, and whether it passes: with no rules
\* everything does, with no rule for t it does not.
Filtered(rs, t) ==
  LET matching == {i \in 1 .. Len(rs) : rs[i].type = t}
      i == CHOOSE j \in matching : \A k \in matching : j <= k
      r == process_rule(rs[i])
  IN CASE rs = <<>> -> [pass |-> TRUE, rules |-> rs]
       [] rs # <<>> /\ matching = {} -> [pass |-> FALSE, rules |-> rs]
       [] OTHER -> [pass |-> r.pass, rules |-> [rs EXCEPT ![i].counter = r.counter]]

filter_process(t) ==
  LET loaded == IF inotify THEN filter_sbp_load_config(config) ELSE rules
      before == IF inotify THEN Zero ELSE seen
      f == Filtered(loaded, t)
  IN /\ filter_pc = "up" /\ before[t] < MaxMessages
     /\ rules' = f.rules /\ inotify' = FALSE
     /\ seen' = [before EXCEPT ![t] = @ + 1]
     /\ passed' = [(IF inotify THEN Zero ELSE passed) EXCEPT ![t] = @ + IF f.pass THEN 1 ELSE 0]
     /\ UNCHANGED <<wl, config, writing, changes, filter_pc, watched, missed>>

-----------------------------------------------------------------------------
FilterInit ==
  /\ wl = <<>> /\ config \in {NoFile, <<>>} /\ writing = NoFile /\ changes = 0
  /\ filter_pc = "none" /\ rules = <<>> /\ watched = FALSE /\ inotify = FALSE
  /\ missed = FALSE /\ seen = Zero /\ passed = Zero

FilterNext ==
  \/ \E s \in Settings : whitelist_notify(s)
  \/ whitelist_written
  \/ filter_create_load \/ filter_create_watch \/ filter_destroy
  \/ \E t \in MsgTypes : filter_process(t)

-----------------------------------------------------------------------------
\* The file the filter loaded last is the one the setting describes.
Current == filter_pc = "up" /\ writing = NoFile /\ ~inotify /\ ~missed

\* The setting read on its own: an id is the number at the start or after a
\* separator, its divisor the number after a divider that follows it.
Unblanked(s) == SelectSeq(s, LAMBDA tok : tok # BLANK)
Ids(c, t) == {i \in 1 .. Len(c) : c[i] = t /\ (i = 1 \/ c[i - 1] = SEPARATOR)}
Listed(s, t) == Ids(Unblanked(s), t) # {}
DivisorOf(s, t) ==
  LET c == Unblanked(s)
      i == CHOOSE j \in Ids(c, t) : \A k \in Ids(c, t) : j <= k
  IN IF i + 2 <= Len(c) /\ c[i + 1] = DIVIDER THEN c[i + 2] ELSE 1

\* What whitelists.c says of the setting is what leaves the port: with an empty
\* setting every message, otherwise of a listed message one in every <divisor>
\* and of one that is not listed none, once the filter has seen the last
\* change.  For divisors that fit a uint8_t, which is what the filter keeps.
MessagesAtTheirRate ==
  Current => \A t \in MsgTypes :
    IF Unblanked(wl) = <<>> THEN passed[t] = seen[t]
    ELSE IF ~Listed(wl, t) THEN passed[t] = 0
    ELSE DivisorOf(wl, t) \in 1 .. DIVISOR_MODULUS - 1
           => passed[t] = seen[t] \div DivisorOf(wl, t)

=============================================================================
