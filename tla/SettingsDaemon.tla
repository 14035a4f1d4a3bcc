--------------------------- MODULE SettingsDaemon ---------------------------
(***************************************************************************)
(* sbp_settings_daemon: the registry of settings (setting.c), its SBP      *)
(* callbacks (settings_sbp_cb.c) and the file config.ini, written line by  *)
(* line and read back with minIni (min_ini.c).                             *)
(*                                                                         *)
(* A key is a section and a name.  minIni compares both without regard to  *)
(* case, so words of Sections and of Names differ in more than case.  The  *)
(* owners of settings and the users are the environment: their messages    *)
(* come in any order.  Power may fail at any time, also while the file is  *)
(* being written.  Requests that change nothing (a read, a write request,  *)
(* a message that does not parse, a save that cannot open the file) are    *)
(* left out.                                                               *)
(***************************************************************************)
EXTENDS Integers, Sequences, FiniteSets, FiniteSetsExt

CONSTANTS
  Sections, Names,
  Values,          \* values a setting may have
  Unclean,         \* values with comment characters, quotes or outer blanks
  Cleaned,         \* what minIni's cleanstring leaves of those
  MaxEvents,       \* bound: writes, saves, readings and power failures
  MaxRegistered    \* bound: registered settings

ASSUME SettingsAssumption ==
  /\ Unclean \subseteq Values /\ Cleaned \in Values
  /\ "none" \notin Sections /\ "missing" \notin Values
  /\ MaxEvents \in Nat /\ MaxRegistered \in Nat

VARIABLES
  settings,        \* the linked list
  file,            \* the lines of config.ini, <<>> also when it does not exist
  saving,          \* settings_save_cb is running
  index,           \* idx in settings_save_cb
  sec,             \* the section of the last header written
  synced,          \* the kernel has written the file back
  reading,         \* a user is reading by index
  next_index,      \* the index the user asks for
  events,
  present,         \* history: the keys registered when the reading began
  seen             \* history: the keys read since

saveVars == <<saving, index, sec, synced>>
readVars == <<reading, next_index, present, seen>>
vars == <<settings, file, saveVars, readVars, events>>

NoSection == "none"
Missing == "missing"
Key == Sections \X Names

Setting == [section : Sections, name : Names, value : Values, dirty : BOOLEAN]

\* A line of the file: a header, or a name with its value.
Line == [header : {TRUE}, word : Sections, value : {Missing}]
          \cup [header : {FALSE}, word : Names, value : Values]
Header(s) == [header |-> TRUE, word |-> s, value |-> Missing]
Entry(n, v) == [header |-> FALSE, word |-> n, value |-> v]

KeyOf(s) == <<s.section, s.name>>
Keys(list) == {KeyOf(list[i]) : i \in 1 .. Len(list)}

Init ==
  /\ settings = <<>> /\ file = <<>>
  /\ saving = FALSE /\ index = 1 /\ sec = NoSection /\ synced = TRUE
  /\ reading = FALSE /\ next_index = 1 /\ present = {} /\ seen = {}
  /\ events = 0

-----------------------------------------------------------------------------
(* The registry.                                                           *)

\* The headers of section s; ini_gets stops at the first.
SectionStarts(s) == {i \in 1 .. Len(file) : file[i] = Header(s)}

\* cleanstring: a value ends where a comment begins, and loses its quotes and
\* the blanks around it.
cleanstring(v) == IF v \in Unclean THEN Cleaned ELSE v

\* getkeystring: the first entry of that name in the first section of that
\* name; Missing when there is none.
ini_gets(s, n) ==
  IF SectionStarts(s) = {} THEN Missing
  ELSE LET start == Min(SectionStarts(s))
           found == {i \in start + 1 .. Len(file) :
                       /\ ~file[i].header /\ file[i].word = n
                       /\ \A j \in start + 1 .. i : ~file[j].header}
       IN IF found = {} THEN Missing ELSE cleanstring(file[Min(found)].value)

\* The place in the list where setting_register puts a setting of section s:
\* after the first member of the section that is followed by another section,
\* or at the end.
PlaceOf(s) ==
  Min({Len(settings)} \cup
      {i \in 1 .. Len(settings) - 1 :
         settings[i].section = s /\ settings[i + 1].section # s})

Insert(list, p, x) == SubSeq(list, 1, p) \o <<x>> \o SubSeq(list, p + 1, Len(list))

\* setting_register: a value in the file replaces the owner's.
setting_register(s, n, v) ==
  LET saved == ini_gets(s, n)
  IN settings' = Insert(settings, PlaceOf(s),
                   [section |-> s, name |-> n,
                    value |-> IF saved = Missing THEN v ELSE saved,
                    dirty |-> saved # Missing])

\* settings_register_cb; a setting that is known stays as it is.
settings_register_cb ==
  /\ ~saving /\ Len(settings) < MaxRegistered
  /\ \E s \in Sections, n \in Names, v \in Values :
       <<s, n>> \notin Keys(settings) /\ setting_register(s, n, v)
  /\ UNCHANGED <<file, saveVars, readVars, events>>

\* settings_write_resp_cb: an owner has accepted a new value.
settings_write_resp_cb ==
  /\ ~saving /\ events < MaxEvents
  /\ \E i \in 1 .. Len(settings), v \in Values :
       /\ settings[i].value # v
       /\ settings' = [settings EXCEPT ![i].value = v, ![i].dirty = TRUE]
  /\ events' = events + 1
  /\ UNCHANGED <<file, saveVars, readVars>>

-----------------------------------------------------------------------------
(* Saving.                                                                 *)

\* settings_save_cb opens the file, which empties it ...
save_open ==
  /\ ~saving /\ events < MaxEvents
  /\ events' = events + 1
  /\ saving' = TRUE /\ index' = 1 /\ sec' = NoSection
  /\ file' = <<>> /\ synced' = FALSE
  /\ UNCHANGED <<settings, readVars>>

\* Mutant: a header is written for the first section only.
save_setting_one_header ==
  /\ saving /\ index <= Len(settings)
  /\ LET s == settings[index]
     IN IF s.dirty
        THEN /\ file' = (IF sec = NoSection THEN Append(file, Header(s.section)) ELSE file)
                        \o <<Entry(s.name, s.value)>>
             /\ sec' = s.section
        ELSE UNCHANGED <<file, sec>>
  /\ index' = index + 1
  /\ UNCHANGED <<settings, saving, synced, readVars, events>>

\* ... writes the settings that are dirty, with a header when the section
\* changes ...
save_setting ==
  /\ saving /\ index <= Len(settings)
  /\ LET s == settings[index]
     IN IF s.dirty
        THEN /\ file' = (IF sec # s.section THEN Append(file, Header(s.section)) ELSE file)
                        \o <<Entry(s.name, s.value)>>
             /\ sec' = s.section
        ELSE UNCHANGED <<file, sec>>
  /\ index' = index + 1
  /\ UNCHANGED <<settings, saving, synced, readVars, events>>

\* ... and closes the file, without fsync.
save_close ==
  /\ saving /\ index > Len(settings)
  /\ saving' = FALSE /\ index' = 1 /\ sec' = NoSection
  /\ UNCHANGED <<settings, file, synced, readVars, events>>

-----------------------------------------------------------------------------
(* Reading by index.                                                       *)

BeginReading ==
  /\ ~saving /\ ~reading /\ events < MaxEvents
  /\ events' = events + 1
  /\ reading' = TRUE /\ next_index' = 1 /\ present' = Keys(settings) /\ seen' = {}
  /\ UNCHANGED <<settings, file, saveVars>>

\* Mutant: the last setting of the list is taken for its end.
settings_read_by_index_short ==
  /\ ~saving /\ reading
  /\ IF next_index < Len(settings)
     THEN /\ seen' = seen \cup {KeyOf(settings[next_index])}
          /\ next_index' = next_index + 1 /\ UNCHANGED <<reading, present>>
     ELSE /\ reading' = FALSE /\ next_index' = 1 /\ present' = {} /\ seen' = {}
  /\ UNCHANGED <<settings, file, saveVars, events>>

\* settings_read_by_index_cb with setting_find_by_index, for a user that asks
\* for one index after the other until it is told that there are no more.
settings_read_by_index_cb ==
  /\ ~saving /\ reading
  /\ IF next_index <= Len(settings)
     THEN /\ seen' = seen \cup {KeyOf(settings[next_index])}
          /\ next_index' = next_index + 1 /\ UNCHANGED <<reading, present>>
     ELSE /\ reading' = FALSE /\ next_index' = 1 /\ present' = {} /\ seen' = {}
  /\ UNCHANGED <<settings, file, saveVars, events>>

-----------------------------------------------------------------------------
(* The world.                                                              *)

\* The kernel writes the file back some time after it was closed.
WriteBack ==
  /\ ~saving /\ ~synced
  /\ synced' = TRUE
  /\ UNCHANGED <<settings, file, saving, index, sec, readVars, events>>

\* Power fails, and all processes start again.  Of a file that was not
\* written back any part may be there.
PowerFails ==
  /\ events < MaxEvents
  /\ events' = events + 1
  /\ settings' = <<>>
  /\ \E n \in IF synced THEN {Len(file)} ELSE 0 .. Len(file) : file' = SubSeq(file, 1, n)
  /\ saving' = FALSE /\ index' = 1 /\ sec' = NoSection /\ synced' = TRUE
  /\ reading' = FALSE /\ next_index' = 1 /\ present' = {} /\ seen' = {}

Next ==
  \/ settings_register_cb \/ settings_write_resp_cb
  \/ save_open \/ save_setting \/ save_close
  \/ BeginReading \/ settings_read_by_index_cb
  \/ WriteBack \/ PowerFails

Spec == Init /\ [][Next]_vars

-----------------------------------------------------------------------------
(* Properties.                                                             *)

\* Type invariant: the list holds settings, the file holds lines that
\* settings_save_cb can have written, and both indices stay in range.
TypeOK ==
  /\ settings \in Seq(Setting) /\ file \in Seq(Line)
  /\ saving \in BOOLEAN /\ index \in 1 .. Len(settings) + 1
  /\ sec \in Sections \cup {NoSection} /\ synced \in BOOLEAN
  /\ reading \in BOOLEAN /\ next_index \in 1 .. Len(settings) + 1
  /\ present \subseteq Key /\ seen \subseteq Key
  /\ events \in Nat

\* The settings of a section are consecutive in the list, whatever the order
\* in which their owners register them: setting_register inserts where they
\* end.  settings_save_cb relies on it, for minIni reads only the first
\* section of a name.
Grouped ==
  \A i, j, k \in 1 .. Len(settings) :
    (i < j /\ j < k /\ settings[i].section = settings[k].section)
      => settings[j].section = settings[i].section

\* After settings_save_cb, ini_gets finds the value of every dirty setting, as
\* far as cleanstring leaves it, and no value for the others, so that those
\* follow the default of their owner after a restart.
SavedIsRead ==
  [][(saving /\ ~saving' /\ settings' = settings) =>
       \A i \in 1 .. Len(settings) :
         LET s == settings[i]
         IN ini_gets(s.section, s.name)' =
              IF s.dirty THEN cleanstring(s.value) ELSE Missing]_vars

\* A user who calls settings_read_by_index_cb with one index after the other
\* until the answer is "done" gets every setting that was registered when they
\* began, although setting_register moves settings in between.
ReadingIsComplete ==
  [][(reading /\ ~reading' /\ settings' = settings) => present \subseteq seen]_vars
=============================================================================
