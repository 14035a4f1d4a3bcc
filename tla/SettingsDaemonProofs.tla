------------------------ MODULE SettingsDaemonProofs ------------------------
(***************************************************************************)
(* Proofs about SettingsDaemon, for all sections, names, values and        *)
(* bounds.                                                                 *)
(***************************************************************************)
EXTENDS SettingsDaemon, WellFoundedInduction, TLAPS

-----------------------------------------------------------------------------
(* Least and greatest numbers.                                             *)

Below == {p \in Nat \X Nat : p[1] < p[2]}

\* The library's well-foundedness of < on Nat, with < as a set of pairs.
LEMMA BelowWellFounded == IsWellFoundedOn(Below, Nat)
<1>1. IsWellFoundedOn(OpToRel(<, Nat), Nat)
  BY NatLessThanWellFounded, Zenon
<1>2. OpToRel(<, Nat) = Below
  BY DEF OpToRel, Below
<1> QED
  BY <1>1, <1>2, Zenon

\* A set of naturals that is not empty has a least element; this stands for
\* induction in the proofs.
LEMMA Least ==
  ASSUME NEW T \in SUBSET Nat, T # {}
  PROVE  \E x \in T : \A y \in T : x <= y
<1>1. \E x \in T : \A y \in T : ~ (<<y, x>> \in Below)
  BY BelowWellFounded, WFMin, Zenon
<1>2. PICK x \in T : \A y \in T : ~ (<<y, x>> \in Below)
  BY <1>1
<1>3. ASSUME NEW y \in T PROVE x <= y
  <2>1. x \in Nat /\ y \in Nat
    OBVIOUS
  <2>2. ~ (<<y, x>> \in Below)
    BY <1>2
  <2>3. ~ (y < x)
    BY <2>1, <2>2 DEF Below
  <2> QED
    BY <2>1, <2>3
<1> QED
  BY <1>3

\* What Min returns.
LEMMA MinIsLeast ==
  ASSUME NEW T \in SUBSET Nat, T # {}
  PROVE  Min(T) \in T /\ \A y \in T : Min(T) <= y
BY Least, Zenon DEF Min

-----------------------------------------------------------------------------
(* The proofs.                                                             *)

\* What Insert returns.
LEMMA InsertAt ==
  ASSUME NEW list \in Seq(Setting), NEW p \in 0 .. Len(list), NEW x \in Setting
  PROVE  /\ Insert(list, p, x) \in Seq(Setting)
         /\ Len(Insert(list, p, x)) = Len(list) + 1
         /\ \A i \in 1 .. p : Insert(list, p, x)[i] = list[i]
         /\ Insert(list, p, x)[p + 1] = x
         /\ \A i \in p + 2 .. Len(list) + 1 : Insert(list, p, x)[i] = list[i - 1]
<1> DEFINE a == SubSeq(list, 1, p)
           b == SubSeq(list, p + 1, Len(list))
<1>1. /\ a \in Seq(Setting) /\ Len(a) = p
      /\ \A i \in 1 .. p : a[i] = list[i]
  OBVIOUS
<1>2. /\ b \in Seq(Setting) /\ Len(b) = Len(list) - p
      /\ \A i \in 1 .. Len(list) - p : b[i] = list[p + i]
  OBVIOUS
<1>3. /\ a \o <<x>> \in Seq(Setting) /\ Len(a \o <<x>>) = p + 1
      /\ \A i \in 1 .. p : (a \o <<x>>)[i] = list[i]
      /\ (a \o <<x>>)[p + 1] = x
  BY <1>1
<1> DEFINE c == a \o <<x>>
<1>4. Insert(list, p, x) = c \o b
  BY DEF Insert
<1> HIDE DEF a, b, c
<1>5. c \in Seq(Setting) /\ Len(c) = p + 1
      /\ (\A i \in 1 .. p : c[i] = list[i]) /\ c[p + 1] = x
  BY <1>3 DEF c
<1>6. /\ c \o b \in Seq(Setting) /\ Len(c \o b) = Len(c) + Len(b)
      /\ \A i \in 1 .. Len(c) : (c \o b)[i] = c[i]
      /\ \A i \in Len(c) + 1 .. Len(c) + Len(b) : (c \o b)[i] = b[i - Len(c)]
  <2>1. b \in Seq(Setting)
    BY <1>2
  <2>2. c \in Seq(Setting)
    BY <1>5
  <2> QED
    BY <2>1, <2>2
<1>7. \A i \in p + 2 .. Len(list) + 1 : (c \o b)[i] = list[i - 1]
  <2> SUFFICES ASSUME NEW i \in p + 2 .. Len(list) + 1
               PROVE (c \o b)[i] = list[i - 1]
    BY Zenon
  <2>1. i - (p + 1) \in 1 .. Len(list) - p /\ i \in Len(c) + 1 .. Len(c) + Len(b)
    BY <1>2, <1>5
  <2>2. (c \o b)[i] = b[i - (p + 1)]
    BY <2>1, <1>5, <1>6
  <2>3. b[i - (p + 1)] = list[p + (i - (p + 1))]
    BY <2>1, <1>2, Zenon
  <2> QED
    BY <2>2, <2>3
<1>8. Len(c \o b) = Len(list) + 1 /\ p + 1 \in 1 .. Len(c) /\ \A i \in 1 .. p : i \in 1 .. Len(c)
  BY <1>2, <1>5, <1>6
<1>9. (c \o b)[p + 1] = x /\ \A i \in 1 .. p : (c \o b)[i] = list[i]
  BY <1>5, <1>6, <1>8, Zenon
<1> QED
  BY <1>4, <1>6, <1>7, <1>8, <1>9, Zenon

\* Where setting_register puts a setting of section s.
LEMMA PlaceFacts ==
  ASSUME settings \in Seq(Setting), NEW s
  PROVE  /\ PlaceOf(s) \in 0 .. Len(settings)
         /\ PlaceOf(s) < Len(settings) =>
              /\ PlaceOf(s) >= 1
              /\ settings[PlaceOf(s)].section = s
              /\ settings[PlaceOf(s) + 1].section # s
         /\ PlaceOf(s) = Len(settings) =>
              \A i \in 1 .. Len(settings) - 1 :
                settings[i].section = s => settings[i + 1].section = s
<1> DEFINE T == {i \in 1 .. Len(settings) - 1 :
                   settings[i].section = s /\ settings[i + 1].section # s}
<1>1. Len(settings) \in Nat
  OBVIOUS
<1>2. {Len(settings)} \cup T \in SUBSET Nat
  BY <1>1
<1>3. /\ PlaceOf(s) \in {Len(settings)} \cup T
      /\ \A y \in {Len(settings)} \cup T : PlaceOf(s) <= y
  BY <1>2, MinIsLeast, Zenon DEF PlaceOf
<1> QED
  BY <1>1, <1>3

-----------------------------------------------------------------------------
(* Types.                                                                  *)

\* ini_gets returns a value, or Missing.
LEMMA IniGetsType ==
  ASSUME file \in Seq(Line), NEW s, NEW n
  PROVE  ini_gets(s, n) \in Values \cup {Missing}
<1> DEFINE start == Min(SectionStarts(s))
           found == {i \in start + 1 .. Len(file) :
                       /\ ~file[i].header /\ file[i].word = n
                       /\ \A j \in start + 1 .. i : ~file[j].header}
<1>1. CASE SectionStarts(s) = {}
  BY <1>1 DEF ini_gets
<1>2. CASE SectionStarts(s) # {}
  <2>1. start \in 1 .. Len(file)
    <3>1. SectionStarts(s) \in SUBSET Nat
      BY DEF SectionStarts
    <3>2. start \in SectionStarts(s)
      BY <1>2, <3>1, MinIsLeast
    <3> QED
      BY <3>2 DEF SectionStarts
  <2>2. CASE found = {}
    BY <1>2, <2>2 DEF ini_gets
  <2>3. CASE found # {}
    <3> HIDE DEF start
    <3>1. found \in SUBSET Nat
      BY <2>1
    <3>2. Min(found) \in found
      BY <2>3, <3>1, MinIsLeast, Zenon
    <3>3. Min(found) \in 1 .. Len(file) /\ ~file[Min(found)].header
      BY <3>2, <2>1
    <3>4. file[Min(found)] \in Line
      BY <3>3
    <3>5. file[Min(found)].value \in Values
      BY <3>3, <3>4, Zenon DEF Line
    <3>6. cleanstring(file[Min(found)].value) \in Values
      BY <3>5, SettingsAssumption DEF cleanstring
    <3> QED
      BY <1>2, <2>3, <3>6 DEF ini_gets, start
  <2> QED
    BY <2>2, <2>3
<1> QED
  BY <1>1, <1>2

\* What settings_register_cb does to the list.
LEMMA RegisterStep ==
  ASSUME TypeOK, settings_register_cb
  PROVE  \E x \in Setting :
           /\ KeyOf(x) \notin Keys(settings)
           /\ settings' = Insert(settings, PlaceOf(x.section), x)
<1>1. PICK s \in Sections, n \in Names, v \in Values :
        <<s, n>> \notin Keys(settings) /\ setting_register(s, n, v)
  BY DEF settings_register_cb
<1> DEFINE saved == ini_gets(s, n)
           x == [section |-> s, name |-> n,
                 value |-> IF saved = Missing THEN v ELSE saved,
                 dirty |-> saved # Missing]
<1>2. saved \in Values \cup {Missing}
  BY IniGetsType DEF TypeOK
<1>3. x \in Setting
  <2> HIDE DEF saved
  <2> QED
    BY <1>2 DEF Setting
<1>4. x.section = s /\ KeyOf(x) = <<s, n>>
  BY DEF KeyOf
<1>5. settings' = Insert(settings, PlaceOf(s), x)
  BY <1>1 DEF setting_register
<1> HIDE DEF x
<1> QED
  BY <1>1, <1>3, <1>4, <1>5

\* What settings_write_resp_cb does to the list: keys stay where they are.
LEMMA WriteStep ==
  ASSUME TypeOK, settings_write_resp_cb
  PROVE  /\ settings' \in Seq(Setting) /\ Len(settings') = Len(settings)
         /\ \A i \in 1 .. Len(settings) :
              /\ settings'[i].section = settings[i].section
              /\ settings'[i].name = settings[i].name
<1>1. PICK i \in 1 .. Len(settings), v \in Values :
        settings' = [settings EXCEPT ![i].value = v, ![i].dirty = TRUE]
  BY Zenon DEF settings_write_resp_cb
<1>2. \A j \in 1 .. Len(settings) : settings[j] \in Setting
  BY DEF TypeOK
<1> DEFINE x == [[settings[i] EXCEPT !.value = v] EXCEPT !.dirty = TRUE]
<1>3. x \in Setting /\ x.section = settings[i].section /\ x.name = settings[i].name
  BY <1>2, Zenon DEF Setting
<1>4. settings' = [settings EXCEPT ![i] = x]
  BY <1>1, Zenon DEF TypeOK
<1> HIDE DEF x
<1> QED
  BY <1>2, <1>3, <1>4 DEF TypeOK

\* Every handler keeps the types.
LEMMA TypeStep == TypeOK /\ [Next]_vars => TypeOK'
<1> SUFFICES ASSUME TypeOK, [Next]_vars PROVE TypeOK'
  OBVIOUS
<1> USE DEF TypeOK, saveVars, readVars
<1>1. CASE settings_register_cb
  <2>1. PICK x \in Setting : settings' = Insert(settings, PlaceOf(x.section), x)
    BY <1>1, RegisterStep
  <2>2. settings' \in Seq(Setting) /\ Len(settings') = Len(settings) + 1
    BY <2>1, PlaceFacts, InsertAt
  <2> QED
    BY <1>1, <2>2 DEF settings_register_cb
<1>2. CASE settings_write_resp_cb
  <2>2. settings' \in Seq(Setting) /\ Len(settings') = Len(settings)
    BY <1>2, WriteStep
  <2>3. index' \in 1 .. Len(settings') + 1 /\ next_index' \in 1 .. Len(settings') + 1
    BY <1>2, <2>2 DEF settings_write_resp_cb
  <2>4. events' \in Nat
    BY <1>2 DEF settings_write_resp_cb
  <2>5. UNCHANGED <<file, saveVars, readVars>>
    BY <1>2 DEF settings_write_resp_cb
  <2>6. file' \in Seq(Line) /\ sec' \in Sections \cup {NoSection}
    BY <2>5
  <2>7. present' \subseteq Key /\ seen' \subseteq Key
    BY <2>5
  <2>8. saving' \in BOOLEAN /\ synced' \in BOOLEAN /\ reading' \in BOOLEAN
    BY <2>5
  <2> QED
    BY <2>2, <2>3, <2>4, <2>6, <2>7, <2>8
<1>3. CASE save_open
  <2>1. settings' \in Seq(Setting) /\ file' \in Seq(Line)
    BY <1>3 DEF save_open
  <2>2. index' \in 1 .. Len(settings') + 1 /\ next_index' \in 1 .. Len(settings') + 1
    BY <1>3 DEF save_open
  <2>3. events' \in Nat /\ sec' \in Sections \cup {NoSection}
    BY <1>3 DEF save_open
  <2>4. present' \subseteq Key /\ seen' \subseteq Key
    BY <1>3 DEF save_open
  <2>5. saving' \in BOOLEAN /\ synced' \in BOOLEAN /\ reading' \in BOOLEAN
    BY <1>3, Zenon DEF save_open
  <2> QED
    BY <2>1, <2>2, <2>3, <2>4, <2>5
<1>4. CASE save_setting
  <2> DEFINE s == settings[index]
  <2>1. s \in Setting /\ index \in 1 .. Len(settings)
    BY <1>4 DEF save_setting
  <2>2. Header(s.section) \in Line /\ Entry(s.name, s.value) \in Line
    BY <2>1 DEF Header, Entry, Line, Setting
  <2>3. file' \in Seq(Line) /\ sec' \in Sections \cup {NoSection}
    <3> DEFINE h == Header(s.section)
               e == Entry(s.name, s.value)
    <3>0. s.section \in Sections
      BY <2>1 DEF Setting
    <3>1. CASE s.dirty /\ sec # s.section
      <4>1. file' = Append(file, h) \o <<e>> /\ sec' = s.section
        BY <1>4, <3>1 DEF save_setting
      <4> HIDE DEF h, e
      <4>2. Append(file, h) \o <<e>> \in Seq(Line)
        BY <2>2 DEF h, e
      <4> QED
        BY <3>0, <4>1, <4>2
    <3>2. CASE s.dirty /\ sec = s.section
      <4>1. file' = file \o <<e>> /\ sec' = s.section
        BY <1>4, <3>2, Zenon DEF save_setting
      <4> HIDE DEF e
      <4>2. file \o <<e>> \in Seq(Line)
        BY <2>2 DEF e
      <4> QED
        BY <3>0, <4>1, <4>2
    <3>3. CASE ~s.dirty
      BY <1>4, <3>3 DEF save_setting
    <3> QED
      BY <3>1, <3>2, <3>3
  <2> QED
    BY <1>4, <2>1, <2>3 DEF save_setting
<1>5. CASE save_close
  <2>1. settings' \in Seq(Setting) /\ file' \in Seq(Line)
    BY <1>5 DEF save_close
  <2>2. index' \in 1 .. Len(settings') + 1 /\ next_index' \in 1 .. Len(settings') + 1
    BY <1>5 DEF save_close
  <2>3. events' \in Nat /\ sec' \in Sections \cup {NoSection}
    BY <1>5 DEF save_close
  <2>4. present' \subseteq Key /\ seen' \subseteq Key
    BY <1>5 DEF save_close
  <2>5. saving' \in BOOLEAN /\ synced' \in BOOLEAN /\ reading' \in BOOLEAN
    BY <1>5, Zenon DEF save_close
  <2> QED
    BY <2>1, <2>2, <2>3, <2>4, <2>5
<1>6. CASE BeginReading
  <2>1. Keys(settings) \subseteq Key
    <3> SUFFICES ASSUME NEW i \in 1 .. Len(settings) PROVE KeyOf(settings[i]) \in Key
      BY DEF Keys
    <3>1. settings[i] \in Setting
      OBVIOUS
    <3> QED
      BY <3>1 DEF KeyOf, Setting, Key
  <2> QED
    BY <1>6, <2>1 DEF BeginReading
<1>7. CASE settings_read_by_index_cb
  <2>1. CASE next_index <= Len(settings)
    <3>1. settings[next_index] \in Setting
      BY <2>1
    <3>2. KeyOf(settings[next_index]) \in Key
      BY <3>1 DEF KeyOf, Setting, Key
    <3>3. seen' \subseteq Key
      BY <1>7, <2>1, <3>2 DEF settings_read_by_index_cb
    <3>4. next_index' \in 1 .. Len(settings') + 1
      BY <1>7, <2>1 DEF settings_read_by_index_cb
    <3> QED
      BY <1>7, <2>1, <3>3, <3>4 DEF settings_read_by_index_cb
  <2>2. CASE ~(next_index <= Len(settings))
    <3>1. next_index' \in 1 .. Len(settings') + 1 /\ seen' \subseteq Key /\ present' \subseteq Key
      BY <1>7, <2>2 DEF settings_read_by_index_cb
    <3> QED
      BY <1>7, <2>2, <3>1, Zenon DEF settings_read_by_index_cb
  <2> QED
    BY <2>1, <2>2
<1>8. CASE WriteBack
  BY <1>8 DEF WriteBack
<1>9. CASE PowerFails
  <2>1. PICK n \in 0 .. Len(file) : file' = SubSeq(file, 1, n)
    BY <1>9 DEF PowerFails
  <2>2. file' \in Seq(Line)
    BY <2>1
  <2> QED
    <3>1. settings' \in Seq(Setting) /\ Len(settings') = 0
      BY <1>9 DEF PowerFails
    <3>2. index' \in 1 .. Len(settings') + 1 /\ next_index' \in 1 .. Len(settings') + 1
      BY <1>9, <3>1 DEF PowerFails
    <3>3. present' \subseteq Key /\ seen' \subseteq Key /\ events' \in Nat
      BY <1>9 DEF PowerFails
    <3> QED
      BY <1>9, <2>2, <3>1, <3>2, <3>3, Zenon DEF PowerFails
<1>10. CASE UNCHANGED vars
  BY <1>10 DEF vars
<1> QED
  BY <1>1, <1>2, <1>3, <1>4, <1>5, <1>6, <1>7, <1>8, <1>9, <1>10 DEF Next

\* The daemon starts with an empty list.
LEMMA InitType == Init => TypeOK
<1> SUFFICES ASSUME Init PROVE TypeOK
  OBVIOUS
<1>1. settings \in Seq(Setting) /\ Len(settings) = 0 /\ file \in Seq(Line)
  BY DEF Init
<1>2. index \in 1 .. Len(settings) + 1 /\ next_index \in 1 .. Len(settings) + 1
  BY <1>1 DEF Init
<1> QED
  BY <1>1, <1>2, Zenon DEF Init, TypeOK

\* Every variable keeps its type: in particular a value read back from the
\* file by setting_register is a value, and idx of settings_save_cb stays in
\* the list.
THEOREM TypeCorrect == Spec => []TypeOK
BY InitType, TypeStep, PTL DEF Spec

-----------------------------------------------------------------------------
(* The list.                                                               *)

\* If no member of section s is followed by another section, all settings
\* after a member of s belong to s.
LEMMA SectionRunsToEnd ==
  ASSUME settings \in Seq(Setting), NEW s,
         \A i \in 1 .. Len(settings) - 1 :
           settings[i].section = s => settings[i + 1].section = s,
         NEW i \in 1 .. Len(settings), NEW j \in i .. Len(settings),
         settings[i].section = s
  PROVE  settings[j].section = s
<1> DEFINE T == {m \in i .. Len(settings) : settings[m].section # s}
<1> SUFFICES ASSUME j \in T PROVE FALSE
  OBVIOUS
<1>1. Len(settings) \in Nat
  OBVIOUS
<1>2. T \in SUBSET Nat
  BY <1>1
<1>3. PICK m \in T : \A y \in T : m <= y
  <2> HIDE DEF T
  <2> QED
    BY <1>2, Least
<1>4. m \in i + 1 .. Len(settings) /\ settings[m].section # s
  BY <1>1, <1>3
<1>5. m - 1 \in i .. Len(settings) - 1 /\ m - 1 \notin T
  BY <1>1, <1>3, <1>4
<1>6. settings[m - 1].section = s
  BY <1>1, <1>5
<1>7. settings[(m - 1) + 1].section = s
  BY <1>1, <1>5, <1>6
<1> QED
  BY <1>1, <1>4, <1>7

\* The list after setting_register.
LEMMA InsertedAt ==
  ASSUME TypeOK, NEW x \in Setting,
         settings' = Insert(settings, PlaceOf(x.section), x)
  PROVE  LET p == PlaceOf(x.section)
         IN /\ p \in 0 .. Len(settings)
            /\ Len(settings') = Len(settings) + 1
            /\ \A i \in 1 .. p : settings'[i] = settings[i]
            /\ settings'[p + 1] = x
            /\ \A i \in p + 2 .. Len(settings) + 1 : settings'[i] = settings[i - 1]
<1> DEFINE p == PlaceOf(x.section)
<1>1. settings \in Seq(Setting)
  BY DEF TypeOK
<1>2. p \in 0 .. Len(settings)
  BY <1>1, PlaceFacts
<1> HIDE DEF p
<1>3. /\ Insert(settings, p, x) \in Seq(Setting)
      /\ Len(Insert(settings, p, x)) = Len(settings) + 1
      /\ \A i \in 1 .. p : Insert(settings, p, x)[i] = settings[i]
      /\ Insert(settings, p, x)[p + 1] = x
      /\ \A i \in p + 2 .. Len(settings) + 1 : Insert(settings, p, x)[i] = settings[i - 1]
  BY <1>1, <1>2, InsertAt, Zenon
<1>4. settings' = Insert(settings, p, x)
  BY DEF p
<1>5. /\ Len(settings') = Len(settings) + 1
      /\ \A i \in 1 .. p : settings'[i] = settings[i]
      /\ settings'[p + 1] = x
      /\ \A i \in p + 2 .. Len(settings) + 1 : settings'[i] = settings[i - 1]
  BY <1>3, <1>4
<1> QED
  BY <1>2, <1>5, Zenon DEF p

\* The keys of the list are distinct.
KeysDistinct ==
  \A i, j \in 1 .. Len(settings) :
    KeyOf(settings[i]) = KeyOf(settings[j]) => i = j

ListInv == TypeOK /\ Grouped /\ KeysDistinct

\* Inserting where PlaceOf says keeps the sections together.
LEMMA InsertGrouped ==
  ASSUME TypeOK, Grouped, NEW x \in Setting,
         settings' = Insert(settings, PlaceOf(x.section), x)
  PROVE  Grouped'
<1> DEFINE s == x.section
           p == PlaceOf(s)
           N == Len(settings)
           S(i) == settings[i].section
           T(i) == settings'[i].section
<1>1. settings \in Seq(Setting) /\ N \in Nat
  BY DEF TypeOK
<1>2. /\ p \in 0 .. N
      /\ p < N => p >= 1 /\ S(p) = s /\ S(p + 1) # s
      /\ p = N => \A i \in 1 .. N - 1 : S(i) = s => S(i + 1) = s
  BY <1>1, PlaceFacts
<1>3. /\ Len(settings') = N + 1
      /\ \A i \in 1 .. p : T(i) = S(i)
      /\ T(p + 1) = s
      /\ \A i \in p + 2 .. N + 1 : T(i) = S(i - 1)
  BY InsertedAt
<1>4. \A i, j, k \in 1 .. N : i < j /\ j < k /\ S(i) = S(k) => S(j) = S(i)
  BY DEF Grouped
<1>5. \A i, j \in 1 .. N : p = N /\ i <= j /\ S(i) = s => S(j) = s
  <2> SUFFICES ASSUME NEW i \in 1 .. N, NEW j \in 1 .. N, p = N, i <= j, S(i) = s
               PROVE  S(j) = s
    OBVIOUS
  <2>1. j \in i .. N
    BY <1>1
  <2>2. \A m \in 1 .. N - 1 : S(m) = s => S(m + 1) = s
    BY <1>2
  <2> HIDE DEF p, s
  <2> QED
    BY <1>1, <2>1, <2>2, SectionRunsToEnd, Zenon
<1> HIDE DEF p, N, s, S, T
<1>6. ASSUME NEW i \in 1 .. N + 1, NEW j \in 1 .. N + 1, NEW k \in 1 .. N + 1,
             i < j, j < k, T(i) = T(k)
      PROVE  T(j) = T(i)
  <2>1. CASE j = p + 1
    <3>1. i \in 1 .. p /\ k \in p + 2 .. N + 1 /\ p < N
      BY <1>1, <1>2, <1>6, <2>1
    <3>2. T(i) = S(i) /\ T(k) = S(k - 1) /\ T(j) = s
      BY <1>3, <2>1, <3>1
    <3>3. CASE i = p
      BY <1>2, <3>1, <3>2, <3>3
    <3>4. CASE i < p
      <4>1. p \in 1 .. N /\ k - 1 \in 1 .. N /\ p < k - 1 /\ i \in 1 .. N
        BY <1>1, <1>2, <3>1, <3>4
      <4>2. S(p) = S(i)
        BY <1>4, <1>6, <3>2, <3>4, <4>1, Zenon
      <4> QED
        BY <1>2, <3>1, <3>2, <4>2
    <3> QED
      BY <1>1, <1>2, <3>1, <3>3, <3>4
  <2>2. CASE i = p + 1
    <3>1. k \in p + 2 .. N + 1 /\ k - 1 \in p + 2 .. N /\ p < N /\ p + 1 < k - 1
      BY <1>1, <1>2, <1>6, <2>2
    <3>2. S(k - 1) = s /\ S(p) = s /\ S(p + 1) # s
      BY <1>2, <1>3, <1>6, <2>2, <3>1
    <3>3. p \in 1 .. N /\ p + 1 \in 1 .. N /\ k - 1 \in 1 .. N
      BY <1>1, <1>2, <3>1
    <3> QED
      BY <1>4, <3>1, <3>2, <3>3
  <2>3. CASE k = p + 1
    <3>1. i \in 1 .. p /\ j \in 1 .. p /\ i \in 1 .. N /\ j \in 1 .. N
      BY <1>1, <1>2, <1>6, <2>3
    <3>2. T(i) = S(i) /\ T(j) = S(j) /\ S(i) = s
      BY <1>3, <1>6, <2>3, <3>1
    <3>3. CASE p = N
      BY <1>5, <1>6, <3>1, <3>2, <3>3
    <3>4. CASE p < N /\ j < p
      <4>1. p \in 1 .. N /\ S(p) = s
        BY <1>1, <1>2, <3>4
      <4> QED
        BY <1>4, <1>6, <3>1, <3>2, <3>4, <4>1
    <3>5. CASE p < N /\ j = p
      BY <1>2, <3>2, <3>5
    <3> QED
      BY <1>1, <1>2, <3>1, <3>3, <3>4, <3>5
  <2>4. CASE i # p + 1 /\ j # p + 1 /\ k # p + 1
    <3> DEFINE f(m) == IF m <= p THEN m ELSE m - 1
    <3>1. \A m \in 1 .. N + 1 : m # p + 1 => f(m) \in 1 .. N /\ T(m) = S(f(m))
      BY <1>1, <1>2, <1>3
    <3>2. f(i) < f(j) /\ f(j) < f(k)
      BY <1>1, <1>2, <1>6, <2>4
    <3> HIDE DEF f
    <3> QED
      BY <1>4, <1>6, <2>4, <3>1, <3>2
  <2> QED
    BY <2>1, <2>2, <2>3, <2>4
<1> QED
  BY <1>3, <1>6 DEF Grouped, N, T

\* Every step but those of the two callbacks leaves the list alone, or empties
\* it.
LEMMA ListFrame ==
  ASSUME [Next]_vars
  PROVE  \/ settings_register_cb \/ settings_write_resp_cb
         \/ settings' = settings \/ settings' = <<>>
BY DEF Next, vars, saveVars, readVars, save_open, save_setting, save_close,
       BeginReading, settings_read_by_index_cb, WriteBack, PowerFails

\* settings_list stays grouped by section, without a key twice.
LEMMA ListStep == ListInv /\ [Next]_vars => ListInv'
<1> SUFFICES ASSUME TypeOK, Grouped, KeysDistinct, [Next]_vars
             PROVE  TypeOK' /\ Grouped' /\ KeysDistinct'
  BY DEF ListInv
<1>1. TypeOK'
  BY TypeStep
<1>2. CASE settings_register_cb
  <2>1. PICK x \in Setting : /\ KeyOf(x) \notin Keys(settings)
                            /\ settings' = Insert(settings, PlaceOf(x.section), x)
    BY <1>2, RegisterStep
  <2>2. Grouped'
    BY <2>1, InsertGrouped
  <2>3. KeysDistinct'
    <3> DEFINE p == PlaceOf(x.section)
               N == Len(settings)
               f(m) == IF m <= p THEN m ELSE m - 1
    <3>1. /\ N \in Nat /\ p \in 0 .. N /\ Len(settings') = N + 1
          /\ \A i \in 1 .. p : settings'[i] = settings[i]
          /\ settings'[p + 1] = x
          /\ \A i \in p + 2 .. N + 1 : settings'[i] = settings[i - 1]
      BY <2>1, InsertedAt DEF TypeOK
    <3>2. \A i \in 1 .. N : KeyOf(settings[i]) # KeyOf(x)
      BY <2>1 DEF Keys
    <3>3. \A i, j \in 1 .. N : KeyOf(settings[i]) = KeyOf(settings[j]) => i = j
      BY DEF KeysDistinct
    <3> HIDE DEF p, N
    <3>4. \A m \in 1 .. N + 1 : m # p + 1 => f(m) \in 1 .. N /\ settings'[m] = settings[f(m)]
      BY <3>1
    <3>5. \A i, j \in 1 .. N + 1 : i # p + 1 /\ j # p + 1 /\ f(i) = f(j) => i = j
      BY <3>1
    <3> HIDE DEF f
    <3>6. \A i, j \in 1 .. N + 1 : KeyOf(settings'[i]) = KeyOf(settings'[j]) => i = j
      BY <3>1, <3>2, <3>3, <3>4, <3>5
    <3> QED
      BY <3>1, <3>6 DEF KeysDistinct, KeyOf
  <2> QED
    BY <1>1, <2>2, <2>3
<1>3. CASE settings_write_resp_cb
  <2>1. /\ Len(settings') = Len(settings)
        /\ \A i \in 1 .. Len(settings) :
             /\ settings'[i].section = settings[i].section
             /\ settings'[i].name = settings[i].name
    BY <1>3, WriteStep
  <2>2. Grouped'
    BY <2>1 DEF Grouped
  <2>3. KeysDistinct'
    BY <2>1 DEF KeysDistinct, KeyOf
  <2> QED
    BY <1>1, <2>2, <2>3
<1>4. CASE settings' = settings
  BY <1>1, <1>4 DEF Grouped, KeysDistinct, KeyOf
<1>5. CASE settings' = <<>>
  BY <1>1, <1>5 DEF Grouped, KeysDistinct
<1> QED
  BY <1>2, <1>3, <1>4, <1>5, ListFrame

\* The invariant of settings_list, from its first state on.
LEMMA ListInvariant == Spec => []ListInv
<1>1. Init => ListInv
  <2> SUFFICES ASSUME Init PROVE TypeOK /\ Grouped /\ KeysDistinct
    BY DEF ListInv
  <2>1. TypeOK
    BY InitType
  <2> QED
    BY <2>1 DEF Init, Grouped, KeysDistinct
<1> QED
  BY <1>1, ListStep, PTL DEF Spec

\* In whatever order the owners register, setting_register keeps the settings
\* of a section together.
THEOREM SectionsStayTogether == Spec => []Grouped
<1>1. ListInv => Grouped
  BY DEF ListInv
<1> QED
  BY <1>1, ListInvariant, PTL

-----------------------------------------------------------------------------
(* Reading by index.                                                       *)

\* What was there when the reading began is still there, and what lies before
\* next_index has been read.
ReadInv ==
  reading =>
    /\ present \subseteq Keys(settings)
    /\ \A i \in 1 .. next_index - 1 :
         KeyOf(settings[i]) \in present => KeyOf(settings[i]) \in seen

\* A walk by index passes over no setting that was there when it began.
LEMMA ReadStep == ListInv /\ ReadInv /\ [Next]_vars => ReadInv'
<1> SUFFICES ASSUME ListInv, ReadInv, [Next]_vars, reading'
             PROVE  /\ present' \subseteq Keys(settings')
                    /\ \A i \in 1 .. next_index' - 1 :
                         KeyOf(settings'[i]) \in present' => KeyOf(settings'[i]) \in seen'
  BY Zenon DEF ReadInv, Keys, KeyOf
<1>0. TypeOK /\ Len(settings) \in Nat /\ next_index \in 1 .. Len(settings) + 1
  BY DEF ListInv, TypeOK
<1>1. CASE settings_register_cb
  <2>1. PICK x \in Setting : /\ KeyOf(x) \notin Keys(settings)
                            /\ settings' = Insert(settings, PlaceOf(x.section), x)
    BY <1>0, <1>1, RegisterStep
  <2>2. UNCHANGED <<reading, next_index, present, seen>>
    BY <1>1, Zenon DEF settings_register_cb, readVars
  <2>3. /\ present \subseteq Keys(settings)
        /\ \A i \in 1 .. next_index - 1 :
             KeyOf(settings[i]) \in present => KeyOf(settings[i]) \in seen
    BY <2>2 DEF ReadInv
  <2> DEFINE p == PlaceOf(x.section)
             N == Len(settings)
  <2>4. /\ N \in Nat /\ p \in 0 .. N /\ Len(settings') = N + 1
        /\ \A i \in 1 .. p : settings'[i] = settings[i]
        /\ settings'[p + 1] = x
        /\ \A i \in p + 2 .. N + 1 : settings'[i] = settings[i - 1]
    BY <1>0, <2>1, InsertedAt
  <2>5. next_index \in 1 .. N + 1
    BY <1>0
  <2>6. Keys(settings) \subseteq Keys(settings')
    <3> SUFFICES ASSUME NEW i \in 1 .. N
                 PROVE  \E j \in 1 .. N + 1 : KeyOf(settings[i]) = KeyOf(settings'[j])
      BY <2>4 DEF Keys
    <3> HIDE DEF p, N
    <3>1. CASE i <= p
      BY <2>4, <3>1
    <3>2. CASE i > p
      <4>1. i + 1 \in p + 2 .. N + 1 /\ (i + 1) - 1 = i
        BY <2>4, <3>2
      <4>2. settings'[i + 1] = settings[i]
        BY <2>4, <4>1
      <4> QED
        BY <2>4, <4>1, <4>2
    <3> QED
      BY <2>4, <3>1, <3>2
  <2>7. ASSUME NEW i \in 1 .. next_index - 1, KeyOf(settings'[i]) \in present
        PROVE  KeyOf(settings'[i]) \in seen
    <3> HIDE DEF p, N
    <3>1. i # p + 1
      BY <2>1, <2>3, <2>4, <2>7
    <3>2. CASE i <= p
      BY <2>3, <2>4, <2>5, <2>7, <3>2
    <3>3. CASE i > p + 1
      <4>1. i \in p + 2 .. N + 1 /\ i - 1 \in 1 .. next_index - 1
        BY <2>4, <2>5, <3>3
      <4> QED
        BY <2>3, <2>4, <2>7, <4>1
    <3> QED
      BY <2>4, <2>5, <3>1, <3>2, <3>3
  <2> QED
    BY <2>2, <2>3, <2>6, <2>7
<1>2. CASE settings_write_resp_cb
  <2>1. /\ Len(settings') = Len(settings)
        /\ \A i \in 1 .. Len(settings) : KeyOf(settings'[i]) = KeyOf(settings[i])
    BY <1>0, <1>2, WriteStep DEF KeyOf
  <2>2. UNCHANGED <<reading, next_index, present, seen>>
    BY <1>2, Zenon DEF settings_write_resp_cb, readVars
  <2>3. Keys(settings') = Keys(settings)
    BY <2>1 DEF Keys
  <2> QED
    BY <1>0, <2>1, <2>2, <2>3 DEF ReadInv
<1>3. CASE save_open \/ save_setting \/ save_close \/ WriteBack \/ UNCHANGED vars
  <2>1. UNCHANGED <<settings, reading, next_index, present, seen>>
    BY <1>3, Zenon DEF save_open, save_setting, save_close, WriteBack, vars, readVars
  <2> QED
    BY <2>1 DEF ReadInv
<1>4. CASE BeginReading
  BY <1>4 DEF BeginReading
<1>5. CASE settings_read_by_index_cb
  <2>1. /\ next_index <= Len(settings)
        /\ seen' = seen \cup {KeyOf(settings[next_index])}
        /\ next_index' = next_index + 1
        /\ UNCHANGED <<settings, reading, present>>
    BY <1>5 DEF settings_read_by_index_cb
  <2>2. ASSUME NEW i \in 1 .. next_index, KeyOf(settings[i]) \in present
        PROVE  KeyOf(settings[i]) \in seen'
    <3>1. CASE i = next_index
      BY <2>1, <3>1
    <3>2. CASE i \in 1 .. next_index - 1
      BY <2>1, <2>2, <3>2 DEF ReadInv
    <3> QED
      BY <1>0, <3>1, <3>2
  <2> QED
    BY <1>0, <2>1, <2>2 DEF ReadInv
<1>6. CASE PowerFails
  BY <1>6 DEF PowerFails
<1> QED
  BY <1>1, <1>2, <1>3, <1>4, <1>5, <1>6 DEF Next

\* A user who reads by index until settings_read_by_index_cb says "done" has
\* got every setting that was registered when they began, however many
\* settings are registered in between and wherever they are inserted.
THEOREM ReadingsAreComplete == Spec => ReadingIsComplete
<1>1. Init => ReadInv
  BY DEF Init, ReadInv
<1>2. ASSUME ListInv, ReadInv, [Next]_vars, reading, ~reading', settings' = settings
      PROVE  present \subseteq seen
  <2>1. TypeOK /\ Len(settings) \in Nat /\ next_index \in 1 .. Len(settings) + 1
    BY <1>2 DEF ListInv, TypeOK
  <2>2. CASE settings_read_by_index_cb
    <3>1. next_index = Len(settings) + 1
      <4>1. next_index <= Len(settings) => reading' = reading
        BY <2>2 DEF settings_read_by_index_cb
      <4>2. ~(next_index <= Len(settings))
        BY <1>2, <4>1, Zenon
      <4> QED
        BY <2>1, <4>2
    <3>2. ASSUME NEW k \in present PROVE k \in seen
      <4>1. PICK i \in 1 .. Len(settings) : k = KeyOf(settings[i])
        BY <1>2 DEF ReadInv, Keys
      <4> QED
        BY <1>2, <2>1, <3>1, <4>1 DEF ReadInv
    <3> QED
      BY <3>2
  <2>3. CASE PowerFails
    <3>1. Len(settings) = 0
      BY <1>2, <2>3 DEF PowerFails
    <3>2. Keys(settings) = {}
      BY <3>1 DEF Keys
    <3> QED
      BY <1>2, <3>2 DEF ReadInv
  <2>4. CASE ~settings_read_by_index_cb /\ ~PowerFails
    BY <1>2, <2>4, Zenon DEF Next, vars, saveVars, readVars, settings_register_cb,
       settings_write_resp_cb, save_open, save_setting, save_close,
       BeginReading, WriteBack
  <2> QED
    BY <2>2, <2>3, <2>4
<1>3. ListInv /\ ReadInv /\ [Next]_vars =>
        [(reading /\ ~reading' /\ settings' = settings) => present \subseteq seen]_vars
  BY <1>2
<1> QED
  BY <1>1, <1>3, ListInvariant, ReadStep, PTL DEF Spec, ReadingIsComplete

-----------------------------------------------------------------------------
(* Saving.                                                                 *)

\* Setting i has been written by the running settings_save_cb.
Saved(i) == i \in 1 .. index - 1 /\ settings[i].dirty

\* Line p belongs to the section of header h.
Under(h, p) == /\ h \in 1 .. Len(file) /\ p \in h + 1 .. Len(file)
               /\ file[h].header /\ \A j \in h + 1 .. p : ~file[j].header

HeadersDiffer ==
  \A a, b \in 1 .. Len(file) :
    file[a].header /\ file[b].header /\ file[a].word = file[b].word => a = b

HeadersAreSaved ==
  \A a \in 1 .. Len(file) :
    file[a].header => \E i \in 1 .. Len(settings) :
                        Saved(i) /\ settings[i].section = file[a].word

SavedAreWritten ==
  \A i \in 1 .. Len(settings) :
    Saved(i) => \E h, p \in 1 .. Len(file) :
                  /\ Under(h, p) /\ file[h].word = settings[i].section
                  /\ file[p].word = settings[i].name
                  /\ file[p].value = settings[i].value

WrittenAreSaved ==
  \A h, p \in 1 .. Len(file) :
    Under(h, p) => \E i \in 1 .. Len(settings) :
                     /\ Saved(i) /\ settings[i].section = file[h].word
                     /\ settings[i].name = file[p].word
                     /\ settings[i].value = file[p].value

\* sec is the section of the last header and of the last setting written.
SecIsLast ==
  \/ sec = NoSection /\ Len(file) = 0 /\ \A i \in 1 .. Len(settings) : ~Saved(i)
  \/ /\ \E h \in 1 .. Len(file) :
         /\ file[h].header /\ file[h].word = sec
         /\ \A j \in h + 1 .. Len(file) : ~file[j].header
     /\ \E i \in 1 .. Len(settings) :
         /\ Saved(i) /\ settings[i].section = sec
         /\ \A j \in 1 .. Len(settings) : Saved(j) => j <= i

\* The file is a faithful copy of the part of the list that has been written.
SaveInv ==
  saving => /\ HeadersDiffer /\ HeadersAreSaved /\ SavedAreWritten
            /\ WrittenAreSaved /\ SecIsLast

\* The lines that save_setting adds for a dirty setting: line g is the header
\* of its section, old or new, and the last line is its entry.
Extended(g) ==
  /\ Len(file') \in Nat /\ Len(file) < Len(file')
  /\ \A a \in 1 .. Len(file) : file'[a] = file[a]
  /\ ~file'[Len(file')].header
  /\ file'[Len(file')].word = settings[index].name
  /\ file'[Len(file')].value = settings[index].value
  /\ g \in 1 .. Len(file') - 1 /\ file'[g].header
  /\ file'[g].word = settings[index].section
  /\ \A a \in g + 1 .. Len(file') : ~file'[a].header
  /\ \A a \in 1 .. Len(file') - 1 : a \in 1 .. Len(file) \/ a = g
  /\ \A a \in 1 .. Len(file) :
       file[a].header /\ file[a].word = settings[index].section => a = g

\* minIni would not find a second section of the same name: a new header is
\* written only for a section that has none, because the list is grouped.
LEMMA SaveExtends ==
  ASSUME TypeOK, Grouped, SaveInv, save_setting, settings[index].dirty
  PROVE  \E g \in 1 .. Len(file') : Extended(g)
<1> DEFINE s == settings[index]
           L == Len(file)
           e == Entry(s.name, s.value)
           hd == Header(s.section)
<1>1. /\ file \in Seq(Line) /\ L \in Nat /\ saving
      /\ index \in 1 .. Len(settings) /\ Len(settings) \in Nat
  BY DEF TypeOK, save_setting
<1>2. HeadersDiffer /\ HeadersAreSaved /\ SecIsLast
  BY <1>1 DEF SaveInv
<1>3. e \in Line /\ hd \in Line /\ s.section \in Sections
  <2>1. s \in Setting
    BY <1>1 DEF TypeOK
  <2> QED
    BY <2>1 DEF Setting, Entry, Header, Line
<1>4. /\ ~e.header /\ e.word = s.name /\ e.value = s.value
      /\ hd.header /\ hd.word = s.section
  BY DEF Entry, Header
<1>5. CASE sec = s.section
  <2>1. file' = file \o <<e>>
    BY <1>5 DEF save_setting
  <2> HIDE DEF e
  <2>2. /\ Len(file') = L + 1 /\ file'[L + 1] = e
        /\ \A a \in 1 .. L : file'[a] = file[a]
    BY <1>1, <1>3, <2>1
  <2>3. sec # NoSection
    BY <1>3, <1>5, SettingsAssumption DEF NoSection
  <2>4. PICK g \in 1 .. L : /\ file[g].header /\ file[g].word = sec
                           /\ \A j \in g + 1 .. L : ~file[j].header
    BY <1>2, <2>3 DEF SecIsLast
  <2>5. ASSUME NEW a \in g + 1 .. L + 1 PROVE ~file'[a].header
    <3>1. CASE a = L + 1
      BY <1>4, <2>2, <3>1
    <3>2. CASE a \in g + 1 .. L
      BY <1>1, <2>2, <2>4, <3>2
    <3> QED
      BY <1>1, <2>4, <3>1, <3>2
  <2>6. \A a \in 1 .. L : file[a].header /\ file[a].word = s.section => a = g
    BY <1>2, <1>5, <2>4 DEF HeadersDiffer
  <2>7. /\ ~file'[L + 1].header /\ file'[L + 1].word = s.name
        /\ file'[L + 1].value = s.value
    BY <1>4, <2>2
  <2>8. g \in 1 .. L /\ file'[g].header /\ file'[g].word = s.section
    BY <1>5, <2>2, <2>4
  <2>9. Extended(g)
    BY <1>1, <2>2, <2>5, <2>6, <2>7, <2>8 DEF Extended
  <2> QED
    BY <1>1, <2>2, <2>9
<1>6. CASE sec # s.section
  <2>1. file' = Append(file, hd) \o <<e>>
    BY <1>6 DEF save_setting
  <2>2. ASSUME NEW a \in 1 .. L, file[a].header, file[a].word = s.section
        PROVE  FALSE
    <3>1. PICK i \in 1 .. Len(settings) : Saved(i) /\ settings[i].section = s.section
      BY <1>2, <2>2 DEF HeadersAreSaved
    <3>2. PICK j \in 1 .. Len(settings) :
            /\ Saved(j) /\ settings[j].section = sec
            /\ \A m \in 1 .. Len(settings) : Saved(m) => m <= j
      BY <1>2, <3>1 DEF SecIsLast
    <3>3. i <= j /\ i # j /\ j < index
      BY <1>1, <1>6, <3>1, <3>2 DEF Saved
    <3> QED
      BY <1>1, <1>6, <3>1, <3>2, <3>3 DEF Grouped
  <2> HIDE DEF e, hd
  <2>3. /\ Len(file') = L + 2 /\ file'[L + 1] = hd /\ file'[L + 2] = e
        /\ \A a \in 1 .. L : file'[a] = file[a]
    BY <1>1, <1>3, <2>1
  <2>4. \A a \in (L + 1) + 1 .. L + 2 : a = L + 2
    BY <1>1
  <2>5. Extended(L + 1)
    BY <1>1, <1>4, <2>2, <2>3, <2>4 DEF Extended
  <2> QED
    BY <1>1, <2>3, <2>5
<1> QED
  BY <1>5, <1>6

\* save_setting writes a setting that is to be saved.
LEMMA SaveDirty ==
  ASSUME TypeOK, Grouped, SaveInv, save_setting, settings[index].dirty
  PROVE  SaveInv'
<1>1. PICK g \in 1 .. Len(file') : Extended(g)
  BY SaveExtends
<1> DEFINE s == settings[index]
           L == Len(file)
           M == Len(file')
<1>2. /\ L \in Nat /\ saving /\ index \in 1 .. Len(settings) /\ Len(settings) \in Nat
      /\ index' = index + 1 /\ settings' = settings /\ sec' = s.section
  BY DEF TypeOK, save_setting
<1>3. HeadersDiffer /\ HeadersAreSaved /\ SavedAreWritten /\ WrittenAreSaved
  BY <1>2 DEF SaveInv
<1>4. \A i : Saved(i)' <=> Saved(i) \/ i = index
  BY <1>2 DEF Saved
<1>4a. /\ M \in Nat /\ L < M /\ g \in 1 .. M - 1
       /\ \A a \in 1 .. L : a \in 1 .. M /\ file'[a] = file[a]
       /\ \A a \in 1 .. M : a \in 1 .. L \/ a = g \/ a = M
  BY <1>1, <1>2 DEF Extended
<1>4b. /\ ~file'[M].header /\ file'[M].word = s.name /\ file'[M].value = s.value
       /\ file'[g].header /\ file'[g].word = s.section
       /\ \A a \in g + 1 .. M : ~file'[a].header
       /\ \A a \in 1 .. L : file[a].header /\ file[a].word = s.section => a = g
  BY <1>1 DEF Extended
<1> HIDE DEF M, L
<1>4c. \A a \in 1 .. M : file'[a].header => a \in 1 .. L \/ a = g
  <2> SUFFICES ASSUME NEW a \in 1 .. M, file'[a].header PROVE a \in 1 .. L \/ a = g
    OBVIOUS
  <2>1. ASSUME a = M PROVE FALSE
    BY <1>4b, <2>1
  <2> QED
    BY <1>4a, <2>1
<1>4d. \A a \in 1 .. M : ~file'[a].header => a \in 1 .. L \/ a = M
  <2> SUFFICES ASSUME NEW a \in 1 .. M, ~file'[a].header PROVE a \in 1 .. L \/ a = M
    OBVIOUS
  <2>1. ASSUME a = g PROVE FALSE
    BY <1>4b, <2>1
  <2> QED
    BY <1>4a, <2>1
<1>5. HeadersDiffer'
  <2> SUFFICES ASSUME NEW a \in 1 .. M, NEW b \in 1 .. M, file'[a].header,
                      file'[b].header, file'[a].word = file'[b].word
               PROVE  a = b
    BY DEF HeadersDiffer, M
  <2>1. (a \in 1 .. L \/ a = g) /\ (b \in 1 .. L \/ b = g)
    BY <1>4c
  <2>2. CASE a \in 1 .. L /\ b \in 1 .. L
    BY <1>3, <1>4a, <2>2 DEF HeadersDiffer, L
  <2>3. CASE a = g \/ b = g
    BY <1>4a, <1>4b, <2>1, <2>3
  <2> QED
    BY <2>1, <2>2, <2>3
<1>6. HeadersAreSaved'
  <2> SUFFICES ASSUME NEW a \in 1 .. M, file'[a].header
               PROVE  \E i \in 1 .. Len(settings) :
                        /\ Saved(i) \/ i = index
                        /\ settings[i].section = file'[a].word
    BY <1>2, <1>4 DEF HeadersAreSaved, M
  <2>1. CASE a = g
    BY <1>2, <1>4b, <2>1
  <2>2. CASE a \in 1 .. L
    <3>1. file[a].header /\ file'[a].word = file[a].word
      BY <1>4a, <2>2
    <3>2. PICK i \in 1 .. Len(settings) : Saved(i) /\ settings[i].section = file[a].word
      BY <1>3, <2>2, <3>1 DEF HeadersAreSaved, L
    <3> QED
      BY <3>1, <3>2
  <2> QED
    BY <1>4c, <2>1, <2>2
<1>7. \A h, p \in 1 .. L : Under(h, p)' <=> Under(h, p)
  <2> TAKE h \in 1 .. L, p \in 1 .. L
  <2>1. \A j \in h .. p : j \in 1 .. L /\ file'[j] = file[j]
    BY <1>2, <1>4a
  <2>2. h \in 1 .. M /\ (p \in h + 1 .. M <=> p \in h + 1 .. L)
    BY <1>2, <1>4a
  <2>3. file'[h] = file[h] /\ \A j \in h + 1 .. p : file'[j] = file[j]
    BY <1>2, <1>4a, <2>1
  <2> QED
    BY <2>2, <2>3 DEF Under, L, M
<1>8. \A h, p \in 1 .. M : p = M => (Under(h, p)' <=> h = g)
  <2> SUFFICES ASSUME NEW h \in 1 .. M, NEW p \in 1 .. M, p = M
               PROVE  Under(h, p)' <=> h = g
    OBVIOUS
  <2>1. Under(h, p)' <=> /\ p \in h + 1 .. M /\ file'[h].header
                         /\ \A j \in h + 1 .. p : ~file'[j].header
    BY DEF Under, M
  <2>2. ASSUME Under(h, p)' PROVE h = g
    <3>1. ~(h < g) /\ ~(g < h)
      BY <1>4a, <1>4b, <2>1, <2>2
    <3> QED
      BY <1>4a, <3>1
  <2>3. ASSUME h = g PROVE Under(h, p)'
    BY <1>4a, <1>4b, <2>1, <2>3
  <2> QED
    BY <2>2, <2>3
<1>9. \A h, p \in 1 .. M : Under(h, p)' => p = M \/ (h \in 1 .. L /\ p \in 1 .. L)
  <2> SUFFICES ASSUME NEW h \in 1 .. M, NEW p \in 1 .. M, Under(h, p)', p # M
               PROVE  h \in 1 .. L /\ p \in 1 .. L
    OBVIOUS
  <2>1. h < p /\ ~file'[p].header
    BY <1>4a DEF Under, M
  <2>2. p \in 1 .. L
    BY <1>4d, <2>1
  <2> QED
    BY <1>2, <2>1, <2>2
<1>10. SavedAreWritten'
  <2> SUFFICES ASSUME NEW i \in 1 .. Len(settings), Saved(i) \/ i = index
               PROVE  \E h, p \in 1 .. M :
                        /\ Under(h, p)' /\ file'[h].word = settings[i].section
                        /\ file'[p].word = settings[i].name
                        /\ file'[p].value = settings[i].value
    BY <1>2, <1>4 DEF SavedAreWritten, M
  <2>1. CASE Saved(i)
    <3>1. PICK h, p \in 1 .. L :
            /\ Under(h, p) /\ file[h].word = settings[i].section
            /\ file[p].word = settings[i].name
            /\ file[p].value = settings[i].value
      BY <1>3, <2>1 DEF SavedAreWritten, L
    <3>2. h \in 1 .. M /\ p \in 1 .. M /\ Under(h, p)'
      BY <1>4a, <1>7, <3>1
    <3>3. file'[h] = file[h] /\ file'[p] = file[p]
      BY <1>4a
    <3> QED
      BY <3>1, <3>2, <3>3
  <2>2. CASE i = index
    <3>1. PICK p \in 1 .. M : p = M
      BY <1>4a
    <3>2. g \in 1 .. M /\ Under(g, p)'
      BY <1>4a, <1>8, <3>1
    <3>3. file'[p].word = s.name /\ file'[p].value = s.value
      BY <1>4b, <3>1
    <3> QED
      BY <1>4b, <2>2, <3>2, <3>3
  <2> QED
    BY <2>1, <2>2
<1>11. WrittenAreSaved'
  <2> SUFFICES ASSUME NEW h \in 1 .. M, NEW p \in 1 .. M, Under(h, p)'
               PROVE  \E i \in 1 .. Len(settings) :
                        /\ Saved(i) \/ i = index
                        /\ settings[i].section = file'[h].word
                        /\ settings[i].name = file'[p].word
                        /\ settings[i].value = file'[p].value
    BY <1>2, <1>4 DEF WrittenAreSaved, M
  <2>1. CASE p = M
    <3>1. h = g
      BY <1>8, <2>1
    <3> QED
      BY <1>2, <1>4b, <2>1, <3>1, Zenon
  <2>2. CASE h \in 1 .. L /\ p \in 1 .. L
    <3>1. Under(h, p) /\ file'[h] = file[h] /\ file'[p] = file[p]
      BY <1>4a, <1>7, <2>2
    <3>2. PICK i \in 1 .. Len(settings) :
            /\ Saved(i) /\ settings[i].section = file[h].word
            /\ settings[i].name = file[p].word
            /\ settings[i].value = file[p].value
      BY <1>3, <2>2, <3>1 DEF WrittenAreSaved, L
    <3> QED
      BY <3>1, <3>2
  <2> QED
    BY <1>9, <2>1, <2>2
<1>12. SecIsLast'
  <2>1. \A j \in 1 .. Len(settings) : Saved(j)' => j <= index
    BY <1>2 DEF Saved
  <2> QED
    BY <1>2, <1>4, <1>4a, <1>4b, <2>1 DEF SecIsLast, M
<1> QED
  BY <1>5, <1>6, <1>10, <1>11, <1>12 DEF SaveInv

\* A step that writes nothing and passes no dirty setting.
LEMMA SaveFrame ==
  ASSUME SaveInv, UNCHANGED <<settings, file, sec, saving>>,
         \A i : Saved(i)' <=> Saved(i), \A h, p : Under(h, p)' <=> Under(h, p)
  PROVE  SaveInv'
<1> SUFFICES ASSUME saving
             PROVE  /\ HeadersDiffer' /\ HeadersAreSaved' /\ SavedAreWritten'
                    /\ WrittenAreSaved' /\ SecIsLast'
  BY DEF SaveInv
<1>1. HeadersDiffer'
  BY DEF SaveInv, HeadersDiffer
<1>2. HeadersAreSaved'
  BY DEF SaveInv, HeadersAreSaved
<1>3. SavedAreWritten'
  BY DEF SaveInv, SavedAreWritten
<1>4. WrittenAreSaved'
  BY DEF SaveInv, WrittenAreSaved
<1>5. SecIsLast'
  BY DEF SaveInv, SecIsLast
<1> QED
  BY <1>1, <1>2, <1>3, <1>4, <1>5

\* The file that is being written holds what the list held of what was passed.
LEMMA SaveStep == ListInv /\ SaveInv /\ [Next]_vars => SaveInv'
<1> SUFFICES ASSUME TypeOK, Grouped, SaveInv, [Next]_vars PROVE SaveInv'
  BY DEF ListInv
<1>1. CASE save_open
  <2>1. Len(file') = 0 /\ index' = 1 /\ sec' = NoSection
    BY <1>1 DEF save_open
  <2>2. \A i : ~Saved(i)'
    BY <2>1 DEF Saved
  <2>3. HeadersDiffer' /\ HeadersAreSaved' /\ WrittenAreSaved'
    BY <2>1 DEF HeadersDiffer, HeadersAreSaved, WrittenAreSaved
  <2>4. SavedAreWritten' /\ SecIsLast'
    BY <2>1, <2>2 DEF SavedAreWritten, SecIsLast
  <2> QED
    BY <2>3, <2>4 DEF SaveInv
<1>2. CASE save_setting /\ settings[index].dirty
  BY <1>2, SaveDirty
<1>3. CASE save_setting /\ ~settings[index].dirty
  <2>1. /\ UNCHANGED <<settings, file, sec, saving>> /\ index' = index + 1
        /\ index \in 1 .. Len(settings) /\ Len(settings) \in Nat
    BY <1>3 DEF save_setting, TypeOK
  <2>2. \A i : Saved(i)' <=> Saved(i)
    BY <1>3, <2>1 DEF Saved
  <2>3. \A h, p : Under(h, p)' <=> Under(h, p)
    BY <2>1 DEF Under
  <2> QED
    BY <2>1, <2>2, <2>3, SaveFrame
<1>4. CASE \/ settings_register_cb \/ settings_write_resp_cb \/ save_close
           \/ BeginReading \/ settings_read_by_index_cb \/ WriteBack \/ PowerFails
  <2>1. ~saving'
    BY <1>4 DEF settings_register_cb, settings_write_resp_cb, save_close,
       BeginReading, settings_read_by_index_cb, WriteBack, PowerFails, saveVars
  <2> QED
    BY <2>1 DEF SaveInv
<1>5. CASE UNCHANGED vars
  <2>1. UNCHANGED <<settings, file, sec, saving, index>>
    BY <1>5 DEF vars, saveVars
  <2>2. /\ \A i : Saved(i)' <=> Saved(i)
        /\ \A h, p : Under(h, p)' <=> Under(h, p)
    BY <2>1 DEF Saved, Under
  <2> QED
    BY <2>1, <2>2, SaveFrame
<1> QED
  BY <1>1, <1>2, <1>3, <1>4, <1>5 DEF Next

\* What ini_gets finds in a file that settings_save_cb has written in full.
LEMMA ReadBack ==
  ASSUME ListInv, SaveInv, saving, index = Len(settings) + 1,
         NEW i \in 1 .. Len(settings)
  PROVE  ini_gets(settings[i].section, settings[i].name) =
           IF settings[i].dirty THEN cleanstring(settings[i].value) ELSE Missing
<1> DEFINE s == settings[i].section
           n == settings[i].name
           L == Len(file)
           start == Min(SectionStarts(s))
           found == {q \in start + 1 .. L :
                       /\ ~file[q].header /\ file[q].word = n
                       /\ \A j \in start + 1 .. q : ~file[j].header}
<1>1. /\ file \in Seq(Line) /\ L \in Nat /\ Len(settings) \in Nat /\ KeysDistinct
      /\ HeadersDiffer /\ SavedAreWritten /\ WrittenAreSaved
  BY DEF ListInv, TypeOK, SaveInv
<1>2. SectionStarts(s) \in SUBSET Nat
  BY DEF SectionStarts
<1>3. SectionStarts(s) # {} =>
        start \in 1 .. L /\ file[start].header /\ file[start].word = s
  <2> SUFFICES ASSUME SectionStarts(s) # {}
               PROVE  start \in 1 .. L /\ file[start].header /\ file[start].word = s
    BY Zenon
  <2>1. start \in SectionStarts(s)
    BY <1>2, MinIsLeast
  <2>2. start \in 1 .. L /\ file[start] = Header(s)
    BY <2>1 DEF SectionStarts
  <2> QED
    BY <2>2 DEF Header
<1> HIDE DEF start
<1>4. ASSUME SectionStarts(s) # {}, NEW q \in found
      PROVE  settings[i].dirty /\ file[q].value = settings[i].value
  <2>1. start \in 1 .. L /\ q \in 1 .. L /\ Under(start, q) /\ file[q].word = n
    BY <1>1, <1>3, <1>4 DEF Under
  <2>2. PICK j \in 1 .. Len(settings) :
          /\ Saved(j) /\ settings[j].section = file[start].word
          /\ settings[j].name = file[q].word
          /\ settings[j].value = file[q].value
    BY <1>1, <2>1 DEF WrittenAreSaved
  <2>3. j = i
    <3>1. KeyOf(settings[j]) = KeyOf(settings[i])
      BY <1>3, <1>4, <2>1, <2>2 DEF KeyOf
    <3> QED
      BY <1>1, <3>1 DEF KeysDistinct
  <2> QED
    BY <2>2, <2>3 DEF Saved
<1>5. CASE settings[i].dirty
  <2>1. PICK h, p \in 1 .. L :
          /\ Under(h, p) /\ file[h].word = s /\ file[p].word = n
    BY <1>1, <1>5 DEF SavedAreWritten, Saved
  <2>2. file[h].header /\ p \in h + 1 .. L /\ \A j \in h + 1 .. p : ~file[j].header
    BY <2>1 DEF Under
  <2>3. file[h] = Header(s)
    <3>1. file[h] \in Line
      BY <1>1
    <3>2. file[h] \in [header : {TRUE}, word : Sections, value : {Missing}]
      BY <2>2, <3>1, Zenon DEF Line
    <3> QED
      BY <2>1, <3>2, Zenon DEF Header
  <2>4. SectionStarts(s) # {}
    BY <2>3 DEF SectionStarts
  <2>5. start = h
    <3>1. start \in 1 .. L /\ file[start].header /\ file[start].word = file[h].word
      BY <1>3, <2>1, <2>4
    <3> HIDE DEF s
    <3> QED
      BY <1>1, <2>2, <3>1 DEF HeadersDiffer
  <2>6. p \in found
    <3>1. ~file[p].header
      BY <1>1, <2>2
    <3> QED
      BY <2>1, <2>2, <2>5, <3>1
  <2>7. found \in SUBSET Nat
    BY <1>1, <1>3, <2>4
  <2>8. Min(found) \in found
    <3> HIDE DEF found
    <3> QED
      BY <2>6, <2>7, MinIsLeast
  <2>9. file[Min(found)].value = settings[i].value
    <3> HIDE DEF found
    <3> QED
      BY <1>4, <2>4, <2>8
  <2>10. ini_gets(s, n) = cleanstring(file[Min(found)].value)
    BY <2>4, <2>6, Zenon DEF ini_gets, start
  <2> QED
    BY <1>5, <2>9, <2>10
<1>6. CASE ~settings[i].dirty
  <2>1. CASE SectionStarts(s) = {}
    BY <1>6, <2>1 DEF ini_gets
  <2>2. CASE SectionStarts(s) # {}
    <3>1. found = {}
      BY <1>4, <1>6, <2>2
    <3> QED
      BY <1>6, <2>2, <3>1 DEF ini_gets, start
  <2> QED
    BY <2>1, <2>2
<1> QED
  BY <1>5, <1>6

\* What settings_save_cb has written setting_register will read: every dirty
\* setting with its value, up to cleanstring, and no other setting.
THEOREM SavedSettingsAreRead == Spec => SavedIsRead
<1>1. Init => SaveInv
  BY DEF Init, SaveInv
<1>2. ASSUME ListInv, SaveInv, [Next]_vars, saving, ~saving', settings' = settings,
             NEW i \in 1 .. Len(settings)
      PROVE  ini_gets(settings[i].section, settings[i].name)' =
               IF settings[i].dirty THEN cleanstring(settings[i].value) ELSE Missing
  <2>1. Len(settings) \in Nat /\ Len(settings) # 0 /\ index \in 1 .. Len(settings) + 1
    BY <1>2 DEF ListInv, TypeOK
  <2>2. save_close
    <3>1. ~PowerFails
      BY <1>2, <2>1 DEF PowerFails
    <3> QED
      BY <1>2, <3>1, Zenon DEF Next, vars, saveVars, readVars, settings_register_cb,
         settings_write_resp_cb, save_open, save_setting, BeginReading,
         settings_read_by_index_cb, WriteBack
  <2>3. index = Len(settings) + 1 /\ file' = file
    BY <2>1, <2>2 DEF save_close
  <2>4. \A s, n : ini_gets(s, n)' = ini_gets(s, n)
    <3>1. \A s : SectionStarts(s)' = SectionStarts(s)
      BY <2>3 DEF SectionStarts
    <3> QED
      BY <2>3, <3>1, Zenon DEF ini_gets
  <2>5. ini_gets(settings[i].section, settings[i].name)' =
          ini_gets(settings[i].section, settings[i].name)
    BY <1>2, <2>4
  <2> QED
    BY <1>2, <2>3, <2>5, ReadBack
<1>3. ListInv /\ SaveInv /\ [Next]_vars =>
        [(saving /\ ~saving' /\ settings' = settings) =>
           \A i \in 1 .. Len(settings) :
             LET s == settings[i]
             IN ini_gets(s.section, s.name)' =
                  IF s.dirty THEN cleanstring(s.value) ELSE Missing]_vars
  BY <1>2
<1> QED
  BY <1>1, <1>3, ListInvariant, SaveStep, PTL DEF Spec, SavedIsRead
=============================================================================
