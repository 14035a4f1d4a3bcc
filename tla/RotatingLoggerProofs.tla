------------------------- MODULE RotatingLoggerProofs -------------------------
(***************************************************************************)
(* Proofs about standalone_file_logger: FramesAreKept and DriveIsRespected *)
(* for every number of frames, sizes, volumes and clock values.            *)
(***************************************************************************)
EXTENDS RotatingLogger, WellFoundedInduction, TLAPS

-----------------------------------------------------------------------------
(* Least and greatest numbers.                                             *)

Below == {p \in Nat \X Nat : p[1] < p[2]}

\* The library's well-foundedness of < on Nat, with < as a set of pairs.
LEMMA BelowWellFounded == IsWellFoundedOn(Below, Nat)
<1>1. IsWellFoundedOn(OpToRel(<, Nat), Nat)
  BY NatLessThanWellFounded, Zenon
<1>2. OpToRel(<, Nat) = Below
  BY DEF OpToRel, Below
<1> QED
  BY <1>1, <1>2, Zenon

\* A set of naturals that is not empty has a least element; this stands for
\* induction in the proofs.
LEMMA Least ==
  ASSUME NEW T \in SUBSET Nat, T # {}
  PROVE  \E x \in T : \A y \in T : x <= y
<1>1. \E x \in T : \A y \in T : ~ (<<y, x>> \in Below)
  BY BelowWellFounded, WFMin, Zenon
<1>2. PICK x \in T : \A y \in T : ~ (<<y, x>> \in Below)
  BY <1>1
<1>3. ASSUME NEW y \in T PROVE x <= y
  <2>1. x \in Nat /\ y \in Nat
    OBVIOUS
  <2>2. ~ (<<y, x>> \in Below)
    BY <1>2
  <2>3. ~ (y < x)
    BY <2>1, <2>2 DEF Below
  <2> QED
    BY <2>1, <2>3
<1> QED
  BY <1>3

\* What Max returns, for a set that has an upper bound.
LEMMA MaxIsGreatest ==
  ASSUME NEW T \in SUBSET Nat, T # {}, NEW b \in Nat, \A y \in T : y <= b
  PROVE  Max(T) \in T /\ \A y \in T : y <= Max(T)
<1> DEFINE Bounds == {x \in Nat : \A y \in T : y <= x}
<1>1. PICK x \in Bounds : \A y \in Bounds : x <= y
  BY Least, Zenon
<1>2. x \in T
  <2> SUFFICES ASSUME x \notin T PROVE FALSE
    OBVIOUS
  <2>1. \A y \in T : y <= x - 1
    OBVIOUS
  <2>2. x - 1 \in Nat
    <3>1. PICK y \in T : TRUE
      BY Zenon
    <3>2. y \in Nat /\ x \in Nat /\ y <= x - 1
      BY <2>1
    <3> QED
      BY <3>2
  <2>3. x - 1 \in Bounds
    BY <2>1, <2>2
  <2> QED
    BY <1>1, <2>3
<1>3. \E m \in T : \A y \in T : m >= y
  BY <1>2
<1>4. Max(T) \in T /\ \A y \in T : Max(T) >= y
  BY <1>3, Zenon DEF Max
<1> QED
  BY <1>4

\* The greater of two integers, as Max returns it.
LEMMA MaxOfTwo ==
  ASSUME NEW x \in Int, NEW y \in Int
  PROVE  /\ Max({x, y}) \in {x, y} /\ Max({x, y}) >= x /\ Max({x, y}) >= y
<1>1. \E z \in {x, y} : \A w \in {x, y} : z >= w
  <2>1. CASE x >= y
    <3>1. \A w \in {x, y} : x >= w
      BY <2>1
    <3> QED
      BY <3>1
  <2>2. CASE y >= x
    <3>1. \A w \in {x, y} : y >= w
      BY <2>2
    <3> QED
      BY <3>1
  <2> QED
    BY <2>1, <2>2
<1>2. Max({x, y}) \in {x, y} /\ \A w \in {x, y} : Max({x, y}) >= w
  BY <1>1, Zenon DEF Max
<1> QED
  BY <1>2

-----------------------------------------------------------------------------
(***************************************************************************)
(* The inductive invariant, in three parts: the frames on their way, the   *)
(* session and the names of its files, and the open file.                  *)
(***************************************************************************)

Frames == [id : Nat, size : Sizes \cup {0}]

\* The thread has a frame in hand.
Busy(pc) == pc \in {"valid", "session", "open", "create", "slice", "roll", "write"}

\* The last frame that is no longer in frame_handler.
Handed == IF mpc = "push" THEN received - 1 ELSE received

FrameTypeOK ==
  /\ queue \in Seq(Frames) /\ queue_bytes \in Nat /\ mframe \in Frames /\ lframe \in Frames
  /\ received \in Nat /\ last_written \in Nat

\* Only stop_thread queues a null frame, and nothing comes after it.
NullIsLast ==
  /\ \A i \in 1 .. Len(queue) :
       queue[i].id = 0 => queue[i] = NullFrame /\ i = Len(queue) /\ mpc = "join"
  /\ lpc = "done" => queue = <<>> /\ mpc = "join"

\* Frames have the numbers in which they came: those written, the one in the
\* thread's hand, those in the queue, the one in frame_handler's hand.
NumbersGrow ==
  /\ last_written <= Handed /\ lframe.id <= Handed
  /\ \A i \in 1 .. Len(queue) :
       /\ queue[i].id <= Handed
       /\ queue[i].id # 0 => queue[i].id > lframe.id /\ queue[i].id > last_written
  /\ \A i, j \in 1 .. Len(queue) : i < j /\ queue[j].id # 0 => queue[i].id < queue[j].id
  /\ mpc = "push" => mframe.id = received /\ received > 0
  /\ Busy(lpc) => lframe.id > last_written /\ lframe.size \in Sizes

\* The room that was found before the mutex is still there.
RoomIsKept ==
  /\ queue_bytes = BytesOf(queue)
  /\ \A i \in 1 .. Len(queue) : queue[i].id # 0 => queue[i].size \in Sizes
  /\ queue_bytes <= MAX_QUEUE_SIZE
  /\ mpc = "push" => queue_bytes + mframe.size <= MAX_QUEUE_SIZE /\ mframe.size \in Sizes

FrameInv == FrameTypeOK /\ NullIsLast /\ NumbersGrow /\ RoomIsKept

\* A session is in use.
Naming(pc) == pc \in {"open", "create"}
Live == dest_available \/ Naming(lpc)

SessionTypeOK ==
  /\ session_count \in Nat /\ minute_count \in Nat /\ session_start_time \in Int /\ now \in Nat
  /\ failed_at \in Int /\ periods \in Nat /\ dest_available \in BOOLEAN
  /\ names \in [Volumes -> SUBSET (Nat \X Nat)] /\ mounted \in [Dirs -> Volumes \cup {None}]
  /\ lpc # "off" => logger /\ slice_duration \in Slices
  /\ ret \in {"slice", "write"} /\ fs_type_prev \in FileSystems \cup {None}

\* Where the thread can be, with and without a destination.
PlaceOK ==
  /\ lpc \in {"slice", "roll", "write"} => dest_available
  /\ lpc = "session" => ~dest_available
  /\ Naming(lpc) /\ ret = "write" => dest_available
  /\ lpc = "roll" => periods > 0

\* The files of the volume that was scanned come before the file to be opened.
NamesGrow ==
  Live => /\ scanned \in Volumes
          /\ \A n \in names[scanned] :
               \/ n[1] >= MAX_SESSION
               \/ Earlier(n, <<session_count, minute_count>>)
               \/ ~Naming(lpc) /\ n = <<session_count, minute_count>>

\* The minutes in a name do not run ahead of the clock.
MinutesLag ==
  ~torn => /\ Live => minute_count <= now - session_start_time
           /\ lpc = "roll" => minute_count + slice_duration * periods <= now - session_start_time

\* The poll period began with the failure.
PauseIsKept ==
  failed_at # Epoch =>
    /\ ~Live /\ failed_at \in Nat
    /\ lpc = "session" => now - failed_at >= POLL_PERIOD
    /\ lpc # "session" => session_start_time = failed_at

SessionInv == SessionTypeOK /\ PlaceOK /\ NamesGrow /\ MinutesLag /\ PauseIsKept

\* What bytes_written has too much is one frame, whose write failed.
FileInv ==
  /\ bytes_written \in Nat
  /\ DOMAIN cur_file = DOMAIN NoFile /\ cur_file.data \in Nat
  /\ cur_file = NoFile \/ cur_file.vol # None
  /\ cur_file # NoFile => bytes_written <= cur_file.data + Max(Sizes)
  /\ cur_file = NoFile => bytes_written <= Max(Sizes) /\ (dest_available => bytes_written = 0)
  /\ lpc = "create" => cur_file = NoFile

LoggerInv == FrameInv /\ SessionInv /\ FileInv

-----------------------------------------------------------------------------
(***************************************************************************)
(* The bytes in a queue.                                                   *)
(***************************************************************************)

IsCount(f, q, n) == f = [i \in 0 .. n |-> IF i = 0 THEN 0 ELSE f[i - 1] + q[i].size]

\* Counting any number of frames is well defined.
LEMMA CountExists ==
  ASSUME NEW q, NEW m \in Nat
  PROVE  \E f : IsCount(f, q, m)
<1> DEFINE Bad == {n \in Nat : ~ \E f : IsCount(f, q, n)}
<1> SUFFICES ASSUME Bad # {} PROVE FALSE
  OBVIOUS
<1>1. PICK n \in Bad : \A k \in Bad : n <= k
  BY Least, Zenon
<1>2. CASE n = 0
  <2> DEFINE g == [i \in 0 .. 0 |-> 0]
  <2>1. IsCount(g, q, 0)
    BY DEF IsCount
  <2> QED
    BY <1>2, <2>1
<1>3. CASE n # 0
  <2>1. n \in Nat /\ n - 1 \in Nat /\ n - 1 \notin Bad
    BY <1>1, <1>3
  <2>2. PICK f : IsCount(f, q, n - 1)
    BY <2>1
  <2> DEFINE last == f[n - 1] + q[n].size
             g == [i \in 0 .. n |-> IF i = n THEN last ELSE f[i]]
  <2>3. \A i \in 0 .. n - 1 : f[i] = IF i = 0 THEN 0 ELSE f[i - 1] + q[i].size
    BY <2>1, <2>2 DEF IsCount
  <2>4. \A i \in 0 .. n - 1 : g[i] = f[i]
    BY <2>1
  <2>5. \A i \in 0 .. n : g[i] = IF i = 0 THEN 0 ELSE g[i - 1] + q[i].size
    <3> TAKE i \in 0 .. n
    <3>1. CASE i = n
      <4>1. g[i] = last /\ g[i - 1] = f[n - 1]
        BY <1>3, <2>1, <2>4, <3>1
      <4> QED
        BY <1>3, <3>1, <4>1
    <3>2. CASE i # n /\ i # 0
      <4>1. i \in 0 .. n - 1 /\ i - 1 \in 0 .. n - 1
        BY <2>1, <3>2
      <4>2. g[i] = f[i] /\ g[i - 1] = f[i - 1]
        BY <2>4, <4>1
      <4> QED
        BY <2>3, <3>2, <4>1, <4>2
    <3>3. CASE i = 0
      BY <1>3, <2>1, <2>3, <2>4, <3>3
    <3> QED
      BY <3>1, <3>2, <3>3
  <2>6. IsCount(g, q, n)
    <3> HIDE DEF last
    <3> QED
      BY <2>5, Zenon DEF IsCount
  <2> QED
    BY <1>1, <2>6
<1> QED
  BY <1>2, <1>3

\* A frame's number and size are naturals.
LEMMA FrameFields ==
  ASSUME NEW x \in Frames
  PROVE  x.id \in Nat /\ x.size \in Nat
<1>1. \A z \in Sizes \cup {0} : z \in Nat
  BY LoggerAssumption
<1>2. x.id \in Nat /\ x.size \in Sizes \cup {0}
  BY DEF Frames
<1> QED
  BY <1>1, <1>2

\* What BytesOf computes, frame by frame.
LEMMA BytesUnfold ==
  ASSUME NEW q \in Seq(Frames)
  PROVE  \E f : /\ f[0] = 0 /\ f[Len(q)] = BytesOf(q)
                /\ \A i \in 0 .. Len(q) : f[i] \in Nat
                /\ \A i \in 1 .. Len(q) : f[i] = f[i - 1] + q[i].size
<1>0. Len(q) \in Nat
  OBVIOUS
<1>1. PICK f : IsCount(f, q, Len(q)) /\ BytesOf(q) = f[Len(q)]
  <2>1. \E f : IsCount(f, q, Len(q))
    BY <1>0, CountExists, Zenon
  <2>2. \E f : f = [i \in 0 .. Len(q) |-> IF i = 0 THEN 0 ELSE f[i - 1] + q[i].size]
    BY <2>1 DEF IsCount
  <2> QED
    BY <2>2, Zenon DEF BytesOf, IsCount
<1>2. \A i \in 0 .. Len(q) : f[i] = IF i = 0 THEN 0 ELSE f[i - 1] + q[i].size
  BY <1>1, Zenon DEF IsCount
<1>3. f[0] = 0 /\ \A i \in 1 .. Len(q) : f[i] = f[i - 1] + q[i].size
  BY <1>0, <1>2
<1> DEFINE Bad == {n \in 0 .. Len(q) : f[n] \notin Nat}
<1>4. Bad = {}
  <2> SUFFICES ASSUME Bad # {} PROVE FALSE
    OBVIOUS
  <2>1. Bad \in SUBSET Nat
    BY <1>0
  <2> HIDE DEF Bad
  <2>2. PICK n \in Bad : \A k \in Bad : n <= k
    BY <2>1, Least
  <2>3. n \in 1 .. Len(q) /\ f[n] \notin Nat
    BY <1>0, <1>3 DEF Bad
  <2>4. f[n - 1] \in Nat
    <3>1. n - 1 \in 0 .. Len(q) /\ n - 1 \notin Bad
      BY <1>0, <2>2, <2>3
    <3> QED
      BY <3>1 DEF Bad
  <2>5. q[n].size \in Nat
    <3>1. q[n] \in Frames
      BY <2>3
    <3> QED
      BY <3>1, FrameFields
  <2> QED
    BY <1>3, <2>3, <2>4, <2>5
<1> QED
  BY <1>1, <1>3, <1>4, Zenon

Parallel(f, g, n, k, c) ==
  /\ f[k] = g[0] + c
  /\ \A i \in 0 .. n : g[i] \in Nat /\ f[i + k] \in Nat
  /\ \A i \in 1 .. n : f[i + k] - f[i - 1 + k] = g[i] - g[i - 1]

\* Two counts that differ by c at one place differ by c from there on, while
\* the frames are the same.
LEMMA CountsAgree ==
  ASSUME NEW f, NEW g, NEW n \in Nat, NEW k \in Nat, NEW c \in Int, Parallel(f, g, n, k, c)
  PROVE  f[n + k] = g[n] + c
<1>0. /\ f[k] = g[0] + c
      /\ \A i \in 0 .. n : g[i] \in Nat /\ f[i + k] \in Nat
      /\ \A i \in 1 .. n : f[i + k] - f[i - 1 + k] = g[i] - g[i - 1]
  BY DEF Parallel
<1> DEFINE Bad == {i \in 0 .. n : f[i + k] # g[i] + c}
<1>1. Bad = {}
  <2> SUFFICES ASSUME Bad # {} PROVE FALSE
    OBVIOUS
  <2>1. Bad \in SUBSET Nat
    OBVIOUS
  <2> HIDE DEF Bad
  <2>2. PICK i \in Bad : \A j \in Bad : i <= j
    BY <2>1, Least
  <2>3. i \in 1 .. n /\ f[i + k] # g[i] + c
    BY <1>0 DEF Bad
  <2>4. f[i - 1 + k] = g[i - 1] + c
    <3>1. i - 1 \in 0 .. n /\ i - 1 \notin Bad
      BY <2>2, <2>3
    <3> QED
      BY <3>1 DEF Bad
  <2>5. /\ g[i] \in Nat /\ f[i + k] \in Nat /\ g[i - 1] \in Nat /\ f[i - 1 + k] \in Nat
        /\ f[i + k] - f[i - 1 + k] = g[i] - g[i - 1]
    <3>1. i \in 0 .. n /\ i - 1 \in 0 .. n
      BY <2>3
    <3> QED
      BY <1>0, <2>3, <3>1
  <2> QED
    BY <2>3, <2>4, <2>5
<1> QED
  BY <1>1

\* What is at most a number is at most a later one.
LEMMA AtMostLater ==
  ASSUME NEW x \in Nat, NEW h \in Nat, NEW k \in Int, x <= h, k >= h
  PROVE  x <= k
OBVIOUS

\* A frame is queued.
LEMMA BytesAppend ==
  ASSUME NEW q \in Seq(Frames), NEW x \in Frames
  PROVE  BytesOf(Append(q, x)) = BytesOf(q) + x.size /\ BytesOf(q) \in Nat
<1> DEFINE r == Append(q, x)
           n == Len(q)
<1>1. r \in Seq(Frames) /\ n \in Nat /\ Len(r) = n + 1 /\ r[n + 1] = x /\ \A i \in 1 .. n : r[i] = q[i]
  OBVIOUS
<1>2. PICK f : /\ f[0] = 0 /\ f[Len(r)] = BytesOf(r)
               /\ \A i \in 0 .. Len(r) : f[i] \in Nat
               /\ \A i \in 1 .. Len(r) : f[i] = f[i - 1] + r[i].size
  BY <1>1, BytesUnfold, Zenon
<1>3. PICK g : /\ g[0] = 0 /\ g[Len(q)] = BytesOf(q)
               /\ \A i \in 0 .. Len(q) : g[i] \in Nat
               /\ \A i \in 1 .. Len(q) : g[i] = g[i - 1] + q[i].size
  BY BytesUnfold
<1>4. \A i \in 1 .. n : q[i].size \in Nat
  <2> TAKE i \in 1 .. n
  <2>1. q[i] \in Frames
    OBVIOUS
  <2> QED
    BY <2>1, FrameFields
<1> HIDE DEF r
<1>5. \A i \in 0 .. n : g[i] \in Nat /\ f[i + 0] \in Nat
  BY <1>1, <1>2, <1>3
<1>6. \A i \in 1 .. n : f[i + 0] - f[i - 1 + 0] = g[i] - g[i - 1]
  <2> TAKE i \in 1 .. n
  <2>1. i \in 1 .. Len(r) /\ i - 1 \in 0 .. n /\ r[i].size = q[i].size
    BY <1>1
  <2>2. f[i] = f[i - 1] + q[i].size /\ g[i] = g[i - 1] + q[i].size
    BY <1>2, <1>3, <2>1
  <2>3. i + 0 = i /\ i - 1 + 0 = i - 1 /\ i - 1 \in 0 .. Len(r) /\ i \in 0 .. Len(r) /\ i \in 0 .. n
    BY <1>1
  <2>4. f[i] \in Nat /\ f[i - 1] \in Nat /\ g[i] \in Nat /\ g[i - 1] \in Nat /\ q[i].size \in Nat
    BY <1>2, <1>3, <1>4, <2>1, <2>3, Zenon
  <2>5. f[i] - f[i - 1] = g[i] - g[i - 1]
    BY <2>2, <2>4, SMTT(30)
  <2> QED
    BY <2>3, <2>5, Zenon
<1>7. f[n + 0] = g[n] + 0
  <2>1. Parallel(f, g, n, 0, 0)
    BY <1>2, <1>3, <1>5, <1>6 DEF Parallel
  <2>2. n \in Nat /\ 0 \in Nat /\ 0 \in Int
    BY <1>1
  <2> HIDE DEF n
  <2> QED
    BY <2>1, <2>2, CountsAgree
<1>8. f[n] = BytesOf(q) /\ BytesOf(q) \in Nat
  BY <1>1, <1>3, <1>5, <1>7
<1>9. f[n + 1] = f[n] + x.size
  BY <1>1, <1>2
<1> QED
  BY <1>1, <1>2, <1>8, <1>9 DEF r

\* A frame is taken.
LEMMA BytesTail ==
  ASSUME NEW q \in Seq(Frames), q # <<>>
  PROVE  /\ BytesOf(Tail(q)) = BytesOf(q) - Head(q).size /\ BytesOf(q) \in Nat
         /\ BytesOf(Tail(q)) \in Nat
<1> DEFINE r == Tail(q)
           n == Len(r)
<1>1. r \in Seq(Frames) /\ n \in Nat /\ Len(q) = n + 1 /\ Head(q) = q[1] /\ \A i \in 1 .. n : r[i] = q[i + 1]
  OBVIOUS
<1> HIDE DEF r
<1>2. PICK f : /\ f[0] = 0 /\ f[Len(q)] = BytesOf(q)
               /\ \A i \in 0 .. Len(q) : f[i] \in Nat
               /\ \A i \in 1 .. Len(q) : f[i] = f[i - 1] + q[i].size
  BY BytesUnfold
<1>3. PICK g : /\ g[0] = 0 /\ g[Len(r)] = BytesOf(r)
               /\ \A i \in 0 .. Len(r) : g[i] \in Nat
               /\ \A i \in 1 .. Len(r) : g[i] = g[i - 1] + r[i].size
  BY <1>1, BytesUnfold, Zenon
<1>4. \A i \in 1 .. n + 1 : q[i].size \in Nat
  <2> TAKE i \in 1 .. n + 1
  <2>1. q[i] \in Frames
    BY <1>1
  <2> QED
    BY <2>1, FrameFields
<1>5. \A i \in 0 .. n : g[i] \in Nat /\ f[i + 1] \in Nat
  BY <1>1, <1>2, <1>3
<1>6. \A i \in 1 .. n : f[i + 1] - f[i - 1 + 1] = g[i] - g[i - 1]
  <2> TAKE i \in 1 .. n
  <2>1. i + 1 \in 1 .. Len(q) /\ i - 1 \in 0 .. n /\ i \in 1 .. n + 1 /\ r[i].size = q[i + 1].size /\ i - 1 + 1 = i /\ i + 1 - 1 = i
    BY <1>1
  <2>2. f[i + 1] = f[i] + q[i + 1].size /\ g[i] = g[i - 1] + q[i + 1].size
    BY <1>2, <1>3, <2>1
  <2>3. f[i] \in Nat /\ g[i - 1] \in Nat /\ q[i + 1].size \in Nat
    BY <1>1, <1>2, <1>4, <1>5, <2>1
  <2> QED
    BY <2>1, <2>2, <2>3
<1>7. f[1] = g[0] + q[1].size /\ q[1].size \in Int
  <2>1. 1 \in 1 .. Len(q) /\ 1 \in 1 .. n + 1
    BY <1>1
  <2>2. f[1] = f[1 - 1] + q[1].size /\ q[1].size \in Nat
    BY <1>2, <1>4, <2>1
  <2> QED
    BY <1>2, <1>3, <2>2
<1>8. f[n + 1] = g[n] + q[1].size
  <2> DEFINE c == q[1].size
  <2>1. Parallel(f, g, n, 1, c)
    BY <1>5, <1>6, <1>7 DEF Parallel
  <2>2. n \in Nat /\ 1 \in Nat /\ c \in Int
    BY <1>1, <1>7
  <2> HIDE DEF n, c
  <2>3. f[n + 1] = g[n] + c
    BY <2>1, <2>2, CountsAgree
  <2> QED
    BY <2>3 DEF n, c
<1>9. g[n] \in Nat
  BY <1>1, <1>5
<1> QED
  BY <1>1, <1>2, <1>3, <1>7, <1>8, <1>9, <1>5 DEF r

\* An empty queue.
LEMMA BytesEmpty == BytesOf(<<>>) = 0
<1>1. <<>> \in Seq(Frames) /\ Len(<<>>) = 0
  OBVIOUS
<1>2. PICK f : f[0] = 0 /\ f[Len(<<>>)] = BytesOf(<<>>)
  BY <1>1, BytesUnfold, Zenon
<1> QED
  BY <1>1, <1>2

-----------------------------------------------------------------------------
(***************************************************************************)
(* The frames on their way.                                                *)
(***************************************************************************)

\* The two threads stay where the queue is not touched.
Apart ==
  /\ UNCHANGED <<queue, queue_bytes, received, mframe, last_written>>
  /\ (mpc' = "push" <=> mpc = "push") /\ (mpc' = "join" <=> mpc = "join")
  /\ lframe' = lframe \/ lframe' = NullFrame
  /\ Busy(lpc') => Busy(lpc) /\ lframe' = lframe
  /\ lpc' = "done" => lpc = "done"

\* The null frame is a frame.
LEMMA NullFields == NullFrame \in Frames /\ NullFrame.id = 0 /\ NullFrame.size = 0
BY DEF NullFrame, Frames

\* Steps that do not touch the queue.
LEMMA FramesApart ==
  ASSUME FrameInv, Apart
  PROVE  FrameInv'
<1>0. lframe' \in Frames /\ lframe'.id <= lframe.id /\ lframe'.id \in Nat /\ lframe.id \in Nat
  BY NullFields, FrameFields DEF Apart, FrameInv, FrameTypeOK
<1>1. FrameTypeOK'
  BY <1>0 DEF Apart, FrameInv, FrameTypeOK
<1>2. NullIsLast'
  BY DEF Apart, FrameInv, NullIsLast
<1>3. Handed' = Handed /\ Handed \in Int
  BY DEF Apart, Handed, FrameInv, FrameTypeOK
<1>4. ASSUME NEW i \in 1 .. Len(queue), queue[i].id # 0
      PROVE  queue[i].id > lframe'.id /\ queue[i].id > last_written'
  <2>1. queue[i] \in Frames
    BY DEF FrameInv, FrameTypeOK
  <2>2. queue[i].id \in Nat /\ queue[i].id > lframe.id /\ queue[i].id > last_written
    BY <1>4, <2>1, FrameFields DEF FrameInv, NumbersGrow
  <2> QED
    BY <1>0, <2>2 DEF Apart
<1>5. NumbersGrow'
  <2>1. last_written' <= Handed' /\ lframe'.id <= Handed'
    BY <1>0, <1>3 DEF Apart, FrameInv, NumbersGrow, FrameTypeOK
  <2> QED
    BY <1>3, <1>4, <2>1 DEF Apart, FrameInv, NumbersGrow
<1>6. RoomIsKept'
  BY DEF Apart, FrameInv, RoomIsKept
<1> QED
  BY <1>1, <1>2, <1>5, <1>6 DEF FrameInv

\* get_frame takes the first one.
LEMMA FramesTaken ==
  ASSUME FrameInv, get_frame
  PROVE  FrameInv'
<1> DEFINE h == Head(queue)
           t == Tail(queue)
<1>0. /\ lframe' = h /\ queue' = t /\ queue_bytes' = queue_bytes - h.size /\ queue # <<>>
      /\ lpc' = IF h = NullFrame THEN "done" ELSE "valid"
      /\ UNCHANGED <<received, mframe, mpc, last_written>>
  BY DEF get_frame, mainVars, histVars, boundVars
<1>1. /\ queue \in Seq(Frames) /\ t \in Seq(Frames) /\ Len(queue) \in Nat /\ Len(t) = Len(queue) - 1
      /\ h = queue[1] /\ \A i \in 1 .. Len(t) : t[i] = queue[i + 1]
  BY <1>0 DEF FrameInv, FrameTypeOK
<1>2. h \in Frames /\ Len(queue) >= 1
  BY <1>0, <1>1
<1>3. h.id \in Nat /\ h.size \in Nat
  BY <1>2, FrameFields
<1> HIDE DEF h, t
<1>4. BytesOf(t) = queue_bytes - h.size /\ queue_bytes' \in Nat
  BY <1>0, <1>1, BytesTail DEF FrameInv, RoomIsKept, h, t
<1>5. FrameTypeOK'
  BY <1>0, <1>1, <1>2, <1>4 DEF FrameInv, FrameTypeOK
<1>6. NullIsLast'
  <2>1. ASSUME NEW i \in 1 .. Len(t), t[i].id = 0
        PROVE  t[i] = NullFrame /\ i = Len(t) /\ mpc = "join"
    <3>1. i + 1 \in 1 .. Len(queue) /\ queue[i + 1].id = 0 /\ i \in Nat
      BY <1>1, <2>1
    <3>2. queue[i + 1] = NullFrame /\ i + 1 = Len(queue) /\ mpc = "join"
      BY <3>1 DEF FrameInv, NullIsLast
    <3> QED
      BY <1>1, <2>1, <3>1, <3>2
  <2>2. ASSUME lpc' = "done" PROVE t = <<>> /\ mpc = "join"
    <3>1. h = NullFrame
      BY <1>0, <2>2
    <3>2. 1 \in 1 .. Len(queue) /\ queue[1].id = 0
      BY <1>1, <1>2, <3>1, NullFields
    <3>3. 1 = Len(queue) /\ mpc = "join"
      BY <3>2, Zenon DEF FrameInv, NullIsLast
    <3> QED
      BY <1>1, <3>3
  <2> QED
    BY <1>0, <2>1, <2>2 DEF NullIsLast
<1>7. Handed' = Handed /\ Handed \in Int
  BY <1>0 DEF Handed, FrameInv, FrameTypeOK
<1>8. ASSUME NEW i \in 1 .. Len(t)
      PROVE  /\ i + 1 \in 1 .. Len(queue) /\ t[i] = queue[i + 1] /\ t[i].id <= Handed /\ t[i].id \in Nat
             /\ t[i].id # 0 => t[i].id > h.id /\ t[i].id > last_written
  <2>1. i + 1 \in 1 .. Len(queue) /\ 1 \in 1 .. Len(queue) /\ 1 < i + 1 /\ t[i] = queue[i + 1]
    BY <1>1, <1>2
  <2>2. t[i] \in Frames
    BY <1>1
  <2>3. t[i].id # 0 => queue[1].id < queue[i + 1].id
    BY <2>1 DEF FrameInv, NumbersGrow
  <2>4. t[i].id <= Handed /\ (t[i].id # 0 => t[i].id > last_written)
    BY <2>1 DEF FrameInv, NumbersGrow
  <2> QED
    BY <1>1, <1>3, <2>1, <2>2, <2>3, <2>4, FrameFields
<1>9. \A i, j \in 1 .. Len(t) : i < j /\ t[j].id # 0 => t[i].id < t[j].id
  <2> SUFFICES ASSUME NEW i \in 1 .. Len(t), NEW j \in 1 .. Len(t), i < j, t[j].id # 0
               PROVE  t[i].id < t[j].id
    OBVIOUS
  <2>1. i + 1 < j + 1
    OBVIOUS
  <2> QED
    BY <1>8, <2>1, Zenon DEF FrameInv, NumbersGrow
<1>10. h.id <= Handed /\ (Busy(lpc') => h.id > last_written /\ h.size \in Sizes)
  <2>1. 1 \in 1 .. Len(queue)
    BY <1>1, <1>2
  <2>2. h.id <= Handed /\ (h.id # 0 => h.id > last_written /\ h.size \in Sizes)
    BY <1>1, <2>1 DEF FrameInv, NumbersGrow, RoomIsKept
  <2>3. Busy(lpc') => h # NullFrame
    BY <1>0 DEF Busy
  <2>4. h # NullFrame => h.id # 0
    BY <1>1, <2>1 DEF FrameInv, NullIsLast
  <2> QED
    BY <2>2, <2>3, <2>4
<1>11. NumbersGrow'
  BY <1>0, <1>7, <1>8, <1>9, <1>10 DEF NumbersGrow, FrameInv
<1>12. RoomIsKept'
  <2>1. \A i \in 1 .. Len(t) : t[i].id # 0 => t[i].size \in Sizes
    BY <1>8, Zenon DEF FrameInv, RoomIsKept
  <2>2. queue_bytes' <= queue_bytes /\ queue_bytes' <= MAX_QUEUE_SIZE
    BY <1>0, <1>3, LoggerAssumption DEF FrameInv, RoomIsKept, FrameTypeOK
  <2>3. mpc = "push" => mframe.size \in Nat
    BY FrameFields DEF FrameInv, FrameTypeOK
  <2>4. mpc = "push" => queue_bytes' + mframe.size <= MAX_QUEUE_SIZE
    BY <1>0, <1>3, <2>2, <2>3, LoggerAssumption DEF FrameInv, RoomIsKept, FrameTypeOK
  <2> QED
    BY <1>0, <1>4, <2>1, <2>2, <2>4, Zenon DEF FrameInv, RoomIsKept
<1> QED
  BY <1>5, <1>6, <1>11, <1>12 DEF FrameInv

\* process_frame is done with a frame, written or not.
LEMMA FramesWritten ==
  ASSUME FrameInv, process_frame
  PROVE  FrameInv'
<1>0. /\ UNCHANGED <<queue, queue_bytes, received, mframe, mpc>> /\ lpc' = "wait" /\ lframe' = NullFrame
      /\ last_written' = last_written \/ last_written' = lframe.id
      /\ Busy(lpc) /\ ~Busy(lpc')
  BY DEF process_frame, mainVars, sharedVars, boundVars, FreeFrame, Busy
<1>1. lframe.id \in Nat /\ lframe.id > last_written /\ last_written' \in Nat
  BY <1>0, FrameFields DEF FrameInv, FrameTypeOK, NumbersGrow
<1>2. FrameTypeOK'
  BY <1>0, <1>1, NullFields DEF FrameInv, FrameTypeOK
<1>3. NullIsLast'
  BY <1>0 DEF FrameInv, NullIsLast
<1>4. Handed' = Handed /\ Handed \in Int
  BY <1>0 DEF Handed, FrameInv, FrameTypeOK
<1>5. ASSUME NEW i \in 1 .. Len(queue), queue[i].id # 0
      PROVE  queue[i].id > lframe'.id /\ queue[i].id > last_written'
  <2>1. queue[i] \in Frames
    BY DEF FrameInv, FrameTypeOK
  <2>2. queue[i].id \in Nat /\ queue[i].id > lframe.id /\ queue[i].id > last_written
    BY <1>5, <2>1, FrameFields DEF FrameInv, NumbersGrow
  <2> QED
    BY <1>0, <1>1, <2>2, NullFields
<1>6. last_written' <= Handed /\ lframe'.id <= Handed
  BY <1>0, <1>1, <1>4, NullFields DEF FrameInv, NumbersGrow
<1>7. NumbersGrow'
  BY <1>0, <1>4, <1>5, <1>6 DEF FrameInv, NumbersGrow
<1>8. RoomIsKept'
  BY <1>0 DEF FrameInv, RoomIsKept
<1> QED
  BY <1>2, <1>3, <1>7, <1>8 DEF FrameInv

\* frame_handler accepts a frame, or drops it.
LEMMA FramesAccepted ==
  ASSUME FrameInv, frame_handler
  PROVE  FrameInv'
<1>0. /\ UNCHANGED <<queue, queue_bytes, last_written, lframe, lpc>> /\ received' = received + 1
      /\ mpc = "idle" /\ received \in Nat /\ queue_bytes \in Nat
  BY DEF frame_handler, sharedVars, threadVars, histVars, FrameInv, FrameTypeOK
<1>1. PICK size \in Sizes :
        \/ /\ queue_bytes + size <= MAX_QUEUE_SIZE
           /\ mpc' = "push" /\ mframe' = [id |-> received + 1, size |-> size]
        \/ UNCHANGED <<mpc, mframe>>
  BY DEF frame_handler
<1>2. mframe' \in Frames
  BY <1>0, <1>1 DEF Frames, FrameInv, FrameTypeOK
<1>3. FrameTypeOK'
  BY <1>0, <1>2 DEF FrameInv, FrameTypeOK
<1>4. NullIsLast'
  BY <1>0, <1>1 DEF FrameInv, NullIsLast
<1>5. Handed = received /\ Handed' \in Int /\ Handed' >= Handed
  BY <1>0, <1>1 DEF Handed
<1>6. lframe.id \in Nat /\ last_written \in Nat /\ \A i \in 1 .. Len(queue) : queue[i].id \in Nat
  <2>1. \A i \in 1 .. Len(queue) : queue[i] \in Frames
    BY DEF FrameInv, FrameTypeOK
  <2> QED
    BY <2>1, FrameFields DEF FrameInv, FrameTypeOK
<1>7. NumbersGrow'
  <2>1. last_written <= Handed' /\ lframe.id <= Handed' /\ \A i \in 1 .. Len(queue) : queue[i].id <= Handed'
    <3>1. last_written <= Handed /\ lframe.id <= Handed /\ \A i \in 1 .. Len(queue) : queue[i].id <= Handed
      BY Zenon DEF FrameInv, NumbersGrow
    <3>2. Handed \in Nat
      BY <1>0, <1>5, Zenon
    <3> QED
      BY <1>5, <1>6, <3>1, <3>2, AtMostLater, Zenon
  <2>2. mpc' = "push" => mframe'.id = received' /\ received' > 0
    BY <1>0, <1>1
  <2> QED
    BY <1>0, <2>1, <2>2 DEF FrameInv, NumbersGrow
<1>8. RoomIsKept'
  BY <1>0, <1>1 DEF FrameInv, RoomIsKept
<1> QED
  BY <1>3, <1>4, <1>7, <1>8 DEF FrameInv

\* The frame is queued.
LEMMA FramesPushed ==
  ASSUME FrameInv, push_frame
  PROVE  FrameInv'
<1> DEFINE q == Append(queue, mframe)
           n == Len(queue)
<1>0. /\ queue' = q /\ queue_bytes' = queue_bytes + mframe.size /\ mpc = "push" /\ mpc' = "idle"
      /\ mframe' = NullFrame /\ UNCHANGED <<received, last_written, lframe, lpc>>
  BY DEF push_frame, threadVars, histVars, boundVars
<1>1. /\ queue \in Seq(Frames) /\ q \in Seq(Frames) /\ n \in Nat /\ Len(q) = n + 1 /\ q[n + 1] = mframe
      /\ \A i \in 1 .. n : q[i] = queue[i]
  BY DEF FrameInv, FrameTypeOK
<1>2. /\ mframe.id = received /\ received \in Nat \ {0} /\ mframe.size \in Sizes
      /\ mframe \in Frames /\ mframe.size \in Nat
  BY <1>0, FrameFields DEF FrameInv, FrameTypeOK, NumbersGrow, RoomIsKept
<1>3. BytesOf(q) = BytesOf(queue) + mframe.size
  BY <1>1, <1>2, BytesAppend
<1> HIDE DEF q
<1>4. FrameTypeOK'
  BY <1>0, <1>1, <1>2, NullFields DEF FrameInv, FrameTypeOK
<1>5. \A i \in 1 .. Len(q) : i \in 1 .. n \/ i = n + 1
  BY <1>1
<1>6. lpc # "done" /\ \A i \in 1 .. n : queue[i].id # 0
  BY <1>0 DEF FrameInv, NullIsLast
<1>7. NullIsLast'
  BY <1>0, <1>1, <1>2, <1>5, <1>6 DEF NullIsLast
<1>8. Handed = received - 1 /\ Handed' = received
  BY <1>0 DEF Handed
<1>9. lframe.id \in Nat /\ last_written \in Nat /\ \A i \in 1 .. n : queue[i].id \in Nat
  <2>1. \A i \in 1 .. n : queue[i] \in Frames
    BY DEF FrameInv, FrameTypeOK
  <2> QED
    BY <2>1, FrameFields DEF FrameInv, FrameTypeOK
<1>10. /\ last_written < received /\ lframe.id < received
       /\ \A i \in 1 .. n : queue[i].id < received
  BY <1>2, <1>8, <1>9 DEF FrameInv, NumbersGrow
<1>11. NumbersGrow'
  <2>1. \A i \in 1 .. Len(q) : /\ q[i].id <= received
                               /\ q[i].id # 0 => q[i].id > lframe.id /\ q[i].id > last_written
    <3> TAKE i \in 1 .. Len(q)
    <3>1. CASE i \in 1 .. n
      <4>1. q[i] = queue[i] /\ queue[i].id \in Nat /\ queue[i].id < received
        BY <1>1, <1>9, <1>10, <3>1, Zenon
      <4>2. queue[i].id # 0 => queue[i].id > lframe.id /\ queue[i].id > last_written
        BY <3>1, Zenon DEF FrameInv, NumbersGrow
      <4>3. queue[i].id <= received
        BY <1>2, <4>1
      <4> QED
        BY <4>1, <4>2, <4>3, Zenon
    <3>2. CASE i = n + 1
      <4>1. q[i].id = received
        BY <1>1, <1>2, <3>2, Zenon
      <4>2. lframe.id \in Nat /\ last_written \in Nat /\ lframe.id < received /\ last_written < received
        BY <1>9, <1>10, Zenon
      <4>3. received <= received /\ received > lframe.id /\ received > last_written
        BY <1>2, <4>2
      <4> QED
        BY <4>1, <4>3, Zenon
    <3> QED
      BY <1>5, <3>1, <3>2
  <2>2. \A i, j \in 1 .. Len(q) : i < j /\ q[j].id # 0 => q[i].id < q[j].id
    <3> SUFFICES ASSUME NEW i \in 1 .. Len(q), NEW j \in 1 .. Len(q), i < j, q[j].id # 0
                 PROVE  q[i].id < q[j].id
      OBVIOUS
    <3>0. i \in 1 .. n
      BY <1>1
    <3>1. CASE j \in 1 .. n
      BY <1>1, <3>0, <3>1 DEF FrameInv, NumbersGrow
    <3>2. CASE j = n + 1
      BY <1>1, <1>2, <1>10, <3>0, <3>2
    <3> QED
      BY <1>5, <3>1, <3>2
  <2>3. last_written <= received /\ lframe.id <= received
    BY <1>2, <1>9, <1>10
  <2> QED
    BY <1>0, <1>8, <2>1, <2>2, <2>3, Zenon DEF FrameInv, NumbersGrow
<1>12. RoomIsKept'
  <2>1. \A i \in 1 .. Len(q) : q[i].id # 0 => q[i].size \in Sizes
    BY <1>1, <1>2, <1>5 DEF FrameInv, RoomIsKept
  <2> QED
    BY <1>0, <1>3, <2>1 DEF FrameInv, RoomIsKept
<1> QED
  BY <1>4, <1>7, <1>11, <1>12 DEF FrameInv

\* A logger begins with an empty queue.
LEMMA FramesReset ==
  ASSUME FrameInv, create_logger
  PROVE  FrameInv'
<1>0. /\ queue' = <<>> /\ queue_bytes' = 0 /\ lpc' = "wait" /\ mpc = "idle"
      /\ UNCHANGED <<received, last_written, lframe, mframe, mpc>>
  BY DEF create_logger
<1>1. Len(<<>>) = 0 /\ <<>> \in Seq(Frames)
  OBVIOUS
<1>2. FrameTypeOK'
  BY <1>0, <1>1 DEF FrameInv, FrameTypeOK
<1>3. NullIsLast' /\ NumbersGrow'
  BY <1>0, <1>1 DEF FrameInv, NullIsLast, NumbersGrow, Busy, Handed
<1>4. RoomIsKept'
  BY <1>0, <1>1, BytesEmpty, LoggerAssumption DEF FrameInv, RoomIsKept
<1> QED
  BY <1>2, <1>3, <1>4 DEF FrameInv

\* stop_thread queues the null frame behind the others.
LEMMA FramesStopped ==
  ASSUME FrameInv, stop_thread, logger
  PROVE  FrameInv'
<1> DEFINE q == Append(queue, NullFrame)
           n == Len(queue)
<1>0. /\ queue' = q /\ mpc = "idle" /\ mpc' = "join"
      /\ UNCHANGED <<received, last_written, lframe, mframe, lpc, queue_bytes>>
  BY DEF stop_thread, threadVars, histVars, boundVars
<1>1. /\ queue \in Seq(Frames) /\ q \in Seq(Frames) /\ n \in Nat /\ Len(q) = n + 1 /\ q[n + 1] = NullFrame
      /\ \A i \in 1 .. n : q[i] = queue[i]
  BY NullFields DEF FrameInv, FrameTypeOK
<1>2. BytesOf(q) = BytesOf(queue)
  <2>1. BytesOf(q) = BytesOf(queue) + NullFrame.size /\ BytesOf(queue) \in Nat
    BY <1>1, NullFields, BytesAppend
  <2> QED
    BY <2>1, NullFields
<1> HIDE DEF q
<1>3. \A i \in 1 .. Len(q) : i \in 1 .. n \/ i = n + 1
  BY <1>1
<1>4. FrameTypeOK'
  BY <1>0, <1>1 DEF FrameInv, FrameTypeOK
<1>5. lpc # "done" /\ \A i \in 1 .. n : queue[i].id # 0
  BY <1>0 DEF FrameInv, NullIsLast
<1>6. NullIsLast'
  BY <1>0, <1>1, <1>3, <1>5 DEF NullIsLast
<1>7. Handed' = Handed /\ Handed \in Nat
  BY <1>0 DEF Handed, FrameInv, FrameTypeOK
<1>8. NumbersGrow'
  <2>1. \A i \in 1 .. Len(q) : /\ q[i].id <= Handed
                               /\ q[i].id # 0 => q[i].id > lframe.id /\ q[i].id > last_written
    <3>1. \A i \in 1 .. n : /\ queue[i].id <= Handed
                            /\ queue[i].id # 0 => queue[i].id > lframe.id /\ queue[i].id > last_written
      BY Zenon DEF FrameInv, NumbersGrow
    <3>2. q[n + 1].id <= Handed /\ q[n + 1].id = 0
      <4>1. q[n + 1].id = 0
        BY <1>1, NullFields, Zenon
      <4>2. 0 <= Handed
        BY <1>7
      <4> QED
        BY <4>1, <4>2, Zenon
    <3> QED
      BY <1>1, <1>3, <3>1, <3>2, Zenon
  <2>2. \A i, j \in 1 .. Len(q) : i < j /\ q[j].id # 0 => q[i].id < q[j].id
    <3> SUFFICES ASSUME NEW i \in 1 .. Len(q), NEW j \in 1 .. Len(q), i < j, q[j].id # 0
                 PROVE  q[i].id < q[j].id
      OBVIOUS
    <3>1. i \in 1 .. n /\ j \in 1 .. n
      BY <1>1, <1>3, NullFields
    <3> QED
      BY <1>1, <3>1 DEF FrameInv, NumbersGrow
  <2> QED
    BY <1>0, <1>7, <2>1, <2>2, Zenon DEF FrameInv, NumbersGrow
<1>9. RoomIsKept'
  <2>1. \A i \in 1 .. Len(q) : q[i].id # 0 => q[i].size \in Sizes
    BY <1>1, <1>3, NullFields DEF FrameInv, RoomIsKept
  <2> QED
    BY <1>0, <1>2, <2>1 DEF FrameInv, RoomIsKept
<1> QED
  BY <1>4, <1>6, <1>8, <1>9 DEF FrameInv

\* The join returns: the queue is empty.
LEMMA FramesJoined ==
  ASSUME FrameInv, delete_logger
  PROVE  FrameInv'
<1>0. /\ lpc = "done" /\ lpc' = "off" /\ mpc = "join" /\ mpc' \in {"idle", "exited"}
      /\ UNCHANGED <<queue, queue_bytes, received, mframe, last_written, lframe>>
  BY DEF delete_logger, sharedVars, histVars, boundVars
<1>1. queue = <<>> /\ Len(<<>>) = 0
  BY <1>0 DEF FrameInv, NullIsLast
<1>2. NullIsLast'
  BY <1>0, <1>1 DEF NullIsLast
<1>3. NumbersGrow'
  BY <1>0, <1>1 DEF FrameInv, NumbersGrow, Handed, Busy
<1>4. FrameTypeOK' /\ RoomIsKept'
  BY <1>0 DEF FrameInv, FrameTypeOK, RoomIsKept
<1> QED
  BY <1>2, <1>3, <1>4 DEF FrameInv

\* Every step keeps the part about the frames.
LEMMA FrameStep ==
  ASSUME FrameInv, SessionInv, [Next]_vars
  PROVE  FrameInv'
<1>0. ret \in {"slice", "write"}
  BY DEF SessionInv, SessionTypeOK
<1>1. CASE UNCHANGED vars
  <2>1. Apart
    BY <1>1 DEF vars, mainVars, sharedVars, threadVars, histVars, boundVars, Apart
  <2> QED
    BY <2>1, FramesApart
<1>2. CASE ensure_session_valid
  <2>1. Apart
    BY <1>2 DEF ensure_session_valid, mainVars, sharedVars, histVars, boundVars, FreeFrame, Apart, Busy
  <2> QED
    BY <2>1, FramesApart
<1>3. CASE start_new_session
  <2>1. lpc = "session" /\ lpc' \in {"wait", "open"}
    BY <1>3 DEF start_new_session
  <2>2. Apart
    BY <1>3, <2>1 DEF start_new_session, mainVars, sharedVars, boundVars, FreeFrame, Apart, Busy
  <2> QED
    BY <2>2, FramesApart
<1>4. CASE open_new_file
  <2>1. lpc = "open" /\ lpc' \in {"wait", "create"}
    BY <1>4 DEF open_new_file
  <2>2. Apart
    BY <1>4, <2>1 DEF open_new_file, mainVars, sharedVars, boundVars, FreeFrame, Apart, Busy
  <2> QED
    BY <2>2, FramesApart
<1>5. CASE create_file
  <2>1. lpc = "create" /\ lpc' \in {"wait", "slice", "write"}
    BY <1>0, <1>5 DEF create_file
  <2>2. Apart
    BY <1>5, <2>1, Zenon DEF create_file, mainVars, sharedVars, histVars, boundVars, FreeFrame, Apart, Busy
  <2> QED
    BY <2>2, FramesApart
<1>6. CASE check_slice_time
  <2>1. Apart
    BY <1>6 DEF check_slice_time, mainVars, sharedVars, histVars, boundVars, Apart, Busy
  <2> QED
    BY <2>1, FramesApart
<1>7. CASE roll_over
  <2>1. Apart
    BY <1>7 DEF roll_over, mainVars, sharedVars, histVars, boundVars, Apart, Busy
  <2> QED
    BY <2>1, FramesApart
<1>8. CASE update_dir
  <2>1. Apart
    BY <1>8 DEF update_dir, sharedVars, threadVars, histVars, Apart
  <2> QED
    BY <2>1, FramesApart
<1>9. CASE update_slice_duration
  <2>1. Apart
    BY <1>9 DEF update_slice_duration, histVars, boundVars, Apart
  <2> QED
    BY <2>1, FramesApart
<1>10. CASE stop_thread /\ ~logger
  <2>1. Apart
    BY <1>10 DEF stop_thread, threadVars, histVars, boundVars, Apart
  <2> QED
    BY <2>1, FramesApart
<1>11. CASE reconnect_loop_callback
  <2>1. Apart
    BY <1>11 DEF reconnect_loop_callback, sharedVars, threadVars, histVars, Apart
  <2> QED
    BY <2>1, FramesApart
<1>12. CASE close_again
  <2>1. Apart
    BY <1>12 DEF close_again, sharedVars, histVars, boundVars, Apart
  <2> QED
    BY <2>1, FramesApart
<1>13. CASE logging_filesystem_notify
  <2>1. Apart
    BY <1>13 DEF logging_filesystem_notify, mainVars, sharedVars, threadVars, histVars, Apart
  <2> QED
    BY <2>1, FramesApart
<1>14. CASE Tick
  <2>1. Apart
    BY <1>14 DEF Tick, mainVars, sharedVars, threadVars, histVars, boundVars, Apart
  <2> QED
    BY <2>1, FramesApart
<1>15. CASE Swap
  <2>1. Apart
    BY <1>15 DEF Swap, mainVars, sharedVars, histVars, Apart
  <2> QED
    BY <2>1, FramesApart
<1> QED
  BY <1>1, <1>2, <1>3, <1>4, <1>5, <1>6, <1>7, <1>8, <1>9, <1>10, <1>11, <1>12, <1>13, <1>14, <1>15,
     FramesTaken, FramesWritten, FramesAccepted, FramesPushed, FramesReset, FramesStopped, FramesJoined
  DEF Next

-----------------------------------------------------------------------------
(***************************************************************************)
(* The session and the names of its files.                                 *)
(***************************************************************************)

\* A running logger has a slice duration.
LEMMA SliceIsPositive ==
  ASSUME SessionTypeOK, lpc # "off"
  PROVE  slice_duration \in Nat \ {0}
<1>1. Slices \subseteq Nat \ {0}
  BY LoggerAssumption
<1>2. slice_duration \in Slices
  BY DEF SessionTypeOK
<1> QED
  BY <1>1, <1>2

\* Whole slices are at least as many minutes as slices.
LEMMA SlicesTake ==
  ASSUME NEW d \in Nat \ {0}, NEW k \in Nat \ {0}
  PROVE  d * k \in Nat \ {0}
OBVIOUS

\* The slices that have passed are not longer than the time that has.
LEMMA SlicesPassed ==
  ASSUME NEW x \in Int, NEW d \in Nat \ {0}
  PROVE  x \div d \in Int /\ d * (x \div d) <= x
OBVIOUS

\* The last session of a volume.
LEMMA LastSession ==
  ASSUME SessionTypeOK, NEW v \in Volumes
  PROVE  /\ Max(Sessions(v) \cup {0}) \in Nat
         /\ \A n \in names[v] : n \in Nat \X Nat /\ (n[1] >= MAX_SESSION \/ n[1] <= Max(Sessions(v) \cup {0}))
<1> DEFINE T == Sessions(v) \cup {0}
<1>1. MAX_SESSION \in Nat /\ names[v] \in SUBSET (Nat \X Nat)
  BY LoggerAssumption DEF SessionTypeOK
<1>2. T \in SUBSET Nat /\ T # {} /\ \A y \in T : y <= MAX_SESSION
  BY <1>1 DEF Sessions
<1>3. \A n \in names[v] : n \in Nat \X Nat /\ n[1] \in Nat /\ (n[1] < MAX_SESSION => n[1] \in T)
  BY <1>1 DEF Sessions
<1> HIDE DEF T
<1>4. Max(T) \in T /\ \A y \in T : y <= Max(T)
  BY <1>1, <1>2, MaxIsGreatest, Zenon
<1>5. \A n \in names[v] : n \in Nat \X Nat /\ (n[1] >= MAX_SESSION \/ n[1] <= Max(T))
  BY <1>1, <1>3, <1>4
<1> QED
  BY <1>2, <1>4, <1>5, Zenon DEF T

\* Nothing of the session changes, but for the frame the thread waits for.
Idle ==
  /\ UNCHANGED <<dest_available, session_count, minute_count, session_start_time, names, scanned, failed_at,
                 torn, periods, slice_duration, now, ret, logger>>
  /\ lpc' = lpc \/ (lpc = "wait" /\ lpc' \in {"done", "valid"})

\* Steps of the event loop, and the wait for a frame.
LEMMA SessionIdle ==
  ASSUME SessionInv, Idle, mounted' \in [Dirs -> Volumes \cup {None}],
         fs_type_prev' \in FileSystems \cup {None}
  PROVE  SessionInv'
<1>1. /\ (lpc' = "off" <=> lpc = "off") /\ (lpc' = "session" <=> lpc = "session") /\ (lpc' = "roll" <=> lpc = "roll")
      /\ (lpc' \in {"slice", "roll", "write"} <=> lpc \in {"slice", "roll", "write"})
      /\ (Naming(lpc') <=> Naming(lpc))
  BY DEF Idle, Naming
<1>2. Live' <=> Live
  BY <1>1 DEF Live, Idle
<1>3. SessionTypeOK'
  BY <1>1 DEF Idle, SessionInv, SessionTypeOK
<1>4. PlaceOK'
  BY <1>1 DEF Idle, SessionInv, PlaceOK
<1>5. NamesGrow'
  BY <1>1, <1>2, Zenon DEF Idle, SessionInv, NamesGrow
<1>6. MinutesLag' /\ PauseIsKept'
  BY <1>1, <1>2 DEF Idle, SessionInv, MinutesLag, PauseIsKept
<1> QED
  BY <1>3, <1>4, <1>5, <1>6 DEF SessionInv

\* A frame may start a session, after the poll period.
LEMMA SessionChecked ==
  ASSUME SessionInv, ensure_session_valid
  PROVE  SessionInv'
<1>0. /\ lpc = "valid" /\ lpc' \in {"slice", "wait", "session"}
      /\ UNCHANGED <<dest_available, session_count, minute_count, names, mounted, scanned, failed_at,
                     torn, periods, slice_duration, now, ret, logger, fs_type_prev>>
      /\ lpc' = "slice" => dest_available
      /\ lpc' # "session" => session_start_time' = session_start_time
      /\ lpc' = "session" => /\ ~dest_available /\ session_start_time' = now
                             /\ session_start_time = Epoch \/ now - session_start_time >= POLL_PERIOD
  BY DEF ensure_session_valid, mainVars, sharedVars, fsVars, histVars, worldVars, rollVars, TimePassed
<1>1. SessionTypeOK'
  BY <1>0 DEF SessionInv, SessionTypeOK
<1>2. PlaceOK'
  BY <1>0 DEF SessionInv, PlaceOK, Naming
<1>3. (Live' <=> Live) /\ (Live <=> dest_available) /\ ~Naming(lpc) /\ ~Naming(lpc')
  BY <1>0 DEF Live, Naming
<1>4. NamesGrow'
  BY <1>0, <1>3, Zenon DEF SessionInv, NamesGrow
<1>5. MinutesLag'
  BY <1>0, <1>3 DEF SessionInv, MinutesLag
<1>6. PauseIsKept'
  BY <1>0, <1>3 DEF SessionInv, PauseIsKept, Epoch
<1> QED
  BY <1>1, <1>2, <1>4, <1>5, <1>6 DEF SessionInv

\* A session begins after those on the volume, or the volume is not there.
LEMMA SessionStarts ==
  ASSUME SessionInv, start_new_session
  PROVE  SessionInv'
<1>0. /\ lpc = "session" /\ ~dest_available /\ failed_at' = Epoch
      /\ UNCHANGED <<dest_available, names, mounted, torn, periods, slice_duration, now, logger, fs_type_prev>>
  BY DEF start_new_session, mainVars, sharedVars, fsVars, worldVars, rollVars, SessionInv, PlaceOK
<1>1. PICK d : \/ lpc' = "wait" /\ UNCHANGED <<ret, session_count, minute_count, session_start_time, scanned>>
               \/ /\ VolumeAt(d) # None
                  /\ session_count' = Max(Sessions(VolumeAt(d)) \cup {0}) + 1
                  /\ minute_count' = 0 /\ session_start_time' = now /\ scanned' = VolumeAt(d)
                  /\ lpc' = "open" /\ ret' = "slice"
  BY DEF start_new_session
<1>2. CASE lpc' = "wait" /\ UNCHANGED <<ret, session_count, minute_count, session_start_time, scanned>>
  <2>1. ~Live' /\ ~Naming(lpc')
    BY <1>0, <1>2 DEF Live, Naming
  <2>2. SessionTypeOK'
    BY <1>0, <1>2 DEF SessionInv, SessionTypeOK, Epoch
  <2> QED
    BY <1>0, <1>2, <2>1, <2>2, Zenon DEF SessionInv, PlaceOK, NamesGrow, MinutesLag, PauseIsKept
<1>3. CASE /\ VolumeAt(d) # None
           /\ session_count' = Max(Sessions(VolumeAt(d)) \cup {0}) + 1
           /\ minute_count' = 0 /\ session_start_time' = now /\ scanned' = VolumeAt(d)
           /\ lpc' = "open" /\ ret' = "slice"
  <2>1. VolumeAt(d) \in Volumes
    BY <1>3, Zenon DEF VolumeAt, SessionInv, SessionTypeOK
  <2> DEFINE m == Max(Sessions(VolumeAt(d)) \cup {0})
             v == VolumeAt(d)
  <2>2. /\ m \in Nat
        /\ \A n \in names[v] : n \in Nat \X Nat /\ (n[1] >= MAX_SESSION \/ n[1] <= m)
    BY <2>1, LastSession, Zenon DEF SessionInv
  <2>3. session_count' = m + 1 /\ scanned' = v /\ v \in Volumes
    BY <1>3, <2>1
  <2> HIDE DEF m, v
  <2>4. SessionTypeOK'
    <3>1. SessionTypeOK
      BY DEF SessionInv
    <3>2. session_count' \in Nat /\ minute_count' \in Nat
      <4>1. m \in Nat /\ session_count' = m + 1 /\ minute_count' = 0
        BY <1>3, <2>2, <2>3, Zenon
      <4> QED
        BY <4>1
    <3>3. session_start_time' \in Int /\ now' \in Nat /\ failed_at' \in Int
      BY <1>0, <1>3, <3>1 DEF SessionTypeOK, Epoch
    <3>4. ret' \in {"slice", "write"} /\ lpc # "off"
      BY <1>0, <1>3
    <3> QED
      BY <1>0, <3>1, <3>2, <3>3, <3>4, Zenon DEF SessionTypeOK
  <2>5. PlaceOK'
    BY <1>0, <1>3 DEF SessionInv, PlaceOK
  <2>6. NamesGrow'
    <3>1. \A n \in names[v] : n[1] >= MAX_SESSION \/ Earlier(n, <<m + 1, 0>>)
      BY <2>2 DEF Earlier
    <3> QED
      BY <1>0, <1>3, <2>3, <3>1, Zenon DEF NamesGrow
  <2>7. MinutesLag'
    BY <1>0, <1>3 DEF MinutesLag, SessionInv, SessionTypeOK
  <2>8. PauseIsKept'
    BY <1>0 DEF PauseIsKept
  <2> QED
    BY <2>4, <2>5, <2>6, <2>7, <2>8 DEF SessionInv
<1> QED
  BY <1>1, <1>2, <1>3

\* The name of a file: the next session when the minutes are used up.
LEMMA SessionOpens ==
  ASSUME SessionInv, open_new_file
  PROVE  SessionInv'
<1>0. /\ lpc = "open" /\ lpc' \in {"wait", "create"}
      /\ UNCHANGED <<dest_available, session_start_time, names, mounted, scanned, failed_at,
                     torn, periods, slice_duration, now, logger, fs_type_prev>>
      /\ lpc' = "create" => ret' = ret
      /\ lpc' = "wait" => ret' = "slice"
      /\ lpc' = "wait" => UNCHANGED <<session_count, minute_count>>
      /\ lpc' = "create" =>
           /\ minute_count' = IF minute_count > MAX_MINUTE THEN 0 ELSE minute_count
           /\ session_count' = IF minute_count > MAX_MINUTE THEN session_count + 1 ELSE session_count
  BY DEF open_new_file, mainVars, sharedVars, fsVars, worldVars, rollVars
<1>1. Live /\ Naming(lpc) /\ failed_at = Epoch
  BY <1>0 DEF Live, Naming, SessionInv, PauseIsKept
<1>2. SessionTypeOK'
  <2>1. /\ SessionTypeOK /\ session_count \in Nat /\ minute_count \in Nat
        /\ ret \in {"slice", "write"}
    BY Zenon DEF SessionInv, SessionTypeOK
  <2>2. session_count' \in Nat /\ minute_count' \in Nat
    BY <1>0, <2>1
  <2>3. ret' \in {"slice", "write"} /\ lpc # "off"
    BY <1>0, <2>1
  <2> QED
    BY <1>0, <2>1, <2>2, <2>3, Zenon DEF SessionTypeOK
<1>3. PlaceOK'
  BY <1>0, Zenon DEF SessionInv, PlaceOK, Naming
<1>4. NamesGrow'
  <2> SUFFICES ASSUME NEW n \in names[scanned]
               PROVE  n[1] >= MAX_SESSION \/ Earlier(n, <<session_count', minute_count'>>)
    BY <1>0, <1>1, Zenon DEF SessionInv, NamesGrow
  <2>1. n[1] >= MAX_SESSION \/ Earlier(n, <<session_count, minute_count>>)
    BY <1>1 DEF SessionInv, NamesGrow
  <2>2. n \in Nat \X Nat /\ session_count \in Nat /\ minute_count \in Nat
    BY <1>1 DEF SessionInv, NamesGrow, SessionTypeOK
  <2>3. CASE UNCHANGED <<session_count, minute_count>>
    BY <2>1, <2>3
  <2>4. CASE session_count' = session_count + 1 /\ minute_count' = 0
    BY <2>1, <2>2, <2>4 DEF Earlier
  <2> QED
    BY <1>0, <2>3, <2>4, Zenon
<1>5. MinutesLag'
  <2>1. minute_count \in Nat /\ now \in Nat /\ session_start_time \in Int
    BY Zenon DEF SessionInv, SessionTypeOK
  <2>2. minute_count' \in Nat /\ minute_count' <= minute_count
    BY <1>0, <2>1
  <2>3. ~torn => minute_count <= now - session_start_time
    BY <1>1, Zenon DEF SessionInv, MinutesLag
  <2>4. ~torn => minute_count' <= now - session_start_time
    BY <2>1, <2>2, <2>3
  <2>5. lpc' # "roll"
    BY <1>0
  <2> QED
    BY <1>0, <2>4, <2>5, Zenon DEF MinutesLag
<1>6. PauseIsKept'
  BY <1>0, <1>1 DEF PauseIsKept
<1> QED
  BY <1>2, <1>3, <1>4, <1>5, <1>6 DEF SessionInv

\* The file is created, or the session is given up.
LEMMA SessionCreates ==
  ASSUME SessionInv, create_file
  PROVE  SessionInv'
<1>0. /\ lpc = "create" /\ ret' = "slice"
      /\ UNCHANGED <<session_count, minute_count, session_start_time, mounted, scanned, failed_at,
                     torn, periods, slice_duration, now, logger, fs_type_prev>>
  BY Zenon DEF create_file, mainVars, sharedVars, fsVars, histVars, rollVars
<1>1. Live /\ Naming(lpc) /\ failed_at = Epoch /\ ret \in {"slice", "write"}
  BY <1>0 DEF Live, Naming, SessionInv, PauseIsKept, SessionTypeOK
<1>2. PauseIsKept'
  BY <1>0, <1>1 DEF PauseIsKept
<1>3. CASE dest_available' = FALSE /\ lpc' = "wait" /\ UNCHANGED names
  <2>1. ~Live' /\ ~Naming(lpc')
    BY <1>3 DEF Live, Naming
  <2>2. SessionTypeOK'
    BY <1>0, <1>3, Zenon DEF SessionInv, SessionTypeOK
  <2> QED
    BY <1>0, <1>2, <1>3, <2>1, <2>2, Zenon DEF SessionInv, PlaceOK, NamesGrow, MinutesLag
<1>4. CASE /\ dest_available' = TRUE /\ lpc' = ret
           /\ \E d \in Dirs : /\ mounted[d] # None
                              /\ names' = [names EXCEPT ![mounted[d]] = @ \cup {<<session_count, minute_count>>}]
  <2>0. PICK v \in Volumes : names' = [names EXCEPT ![v] = @ \cup {<<session_count, minute_count>>}]
    BY <1>4, Zenon DEF SessionInv, SessionTypeOK
  <2> DEFINE new == <<session_count, minute_count>>
  <2>1. new \in Nat \X Nat /\ names \in [Volumes -> SUBSET (Nat \X Nat)] /\ scanned \in Volumes
    BY <1>1 DEF SessionInv, SessionTypeOK, NamesGrow
  <2> HIDE DEF new
  <2>2. names' \in [Volumes -> SUBSET (Nat \X Nat)] /\ names'[scanned] \subseteq names[scanned] \cup {new}
    BY <2>0, <2>1 DEF new
  <2>3. SessionTypeOK'
    BY <1>0, <1>1, <1>4, <2>2, Zenon DEF SessionInv, SessionTypeOK
  <2>4. PlaceOK'
    BY <1>0, <1>1, <1>4 DEF SessionInv, PlaceOK, Naming
  <2>5. Live' /\ ~Naming(lpc')
    BY <1>1, <1>4 DEF Live, Naming
  <2>6. NamesGrow'
    <3>1. \A n \in names[scanned] : n[1] >= MAX_SESSION \/ Earlier(n, new)
      BY <1>1, Zenon DEF SessionInv, NamesGrow, new
    <3>2. new' = new
      BY <1>0 DEF new
    <3>3. \A n \in names'[scanned] : n[1] >= MAX_SESSION \/ Earlier(n, new) \/ n = new
      BY <2>2, <3>1
    <3> QED
      BY <1>0, <2>1, <2>5, <3>2, <3>3, Zenon DEF NamesGrow, new
  <2>7. MinutesLag'
    BY <1>0, <1>1, <1>4 DEF SessionInv, MinutesLag
  <2> QED
    BY <1>2, <2>3, <2>4, <2>6, <2>7 DEF SessionInv
<1> QED
  BY <1>3, <1>4, Zenon DEF create_file

\* The slices that have passed are counted.
LEMMA SessionCounts ==
  ASSUME SessionInv, check_slice_time
  PROVE  SessionInv'
<1> DEFINE x == now - session_start_time - minute_count
           k == x \div slice_duration
<1>0. /\ lpc = "slice" /\ periods' = Max({0, k}) /\ lpc' = IF periods' = 0 THEN "write" ELSE "roll"
      /\ UNCHANGED <<dest_available, session_count, minute_count, session_start_time, names, mounted, scanned,
                     failed_at, torn, slice_duration, now, ret, logger, fs_type_prev>>
  BY DEF check_slice_time, mainVars, sharedVars, fsVars, histVars, worldVars, sessionVars, TimePassed
<1>1. slice_duration \in Nat \ {0} /\ x \in Int
  <2>1. x \in Int
    BY DEF SessionInv, SessionTypeOK
  <2> QED
    BY <1>0, <2>1, SliceIsPositive DEF SessionInv
<1>2. k \in Int /\ slice_duration * k <= x
  BY <1>1, SlicesPassed
<1> HIDE DEF x, k
<1>3. periods' \in {0, k} /\ periods' >= 0
  BY <1>0, <1>2, MaxOfTwo
<1>4. periods' \in Nat /\ (periods' # 0 => periods' = k)
  BY <1>2, <1>3
<1>5. SessionTypeOK'
  BY <1>0, <1>4 DEF SessionInv, SessionTypeOK
<1>6. dest_available /\ Live /\ Live' /\ ~Naming(lpc) /\ ~Naming(lpc')
  BY <1>0 DEF SessionInv, PlaceOK, Live, Naming
<1>7. PlaceOK'
  BY <1>0, <1>4, <1>6 DEF PlaceOK
<1>8. NamesGrow'
  BY <1>0, <1>6, Zenon DEF SessionInv, NamesGrow
<1>9. MinutesLag'
  <2>1. lpc' = "roll" => periods' = k
    BY <1>0, <1>4
  <2>2. /\ minute_count \in Nat /\ now - session_start_time \in Int /\ slice_duration * k \in Int
    BY <1>1, <1>2 DEF SessionInv, SessionTypeOK
  <2>3. minute_count + slice_duration * k <= now - session_start_time
    BY <1>1, <1>2, <2>2 DEF x, SessionInv, SessionTypeOK
  <2> QED
    BY <1>0, <1>6, <2>1, <2>3 DEF SessionInv, MinutesLag
<1>10. PauseIsKept'
  BY <1>0, <1>6 DEF SessionInv, PauseIsKept
<1> QED
  BY <1>5, <1>7, <1>8, <1>9, <1>10 DEF SessionInv

\* The minutes move on by whole slices.
LEMMA SessionRolls ==
  ASSUME SessionInv, roll_over
  PROVE  SessionInv'
<1> DEFINE k == slice_duration * periods
<1>0. /\ lpc = "roll" /\ minute_count' = minute_count + k /\ periods' = 0 /\ lpc' = "open" /\ ret' = "write"
      /\ UNCHANGED <<dest_available, session_count, session_start_time, names, mounted, scanned,
                     failed_at, torn, slice_duration, now, logger, fs_type_prev>>
  BY DEF roll_over, mainVars, sharedVars, fsVars, histVars, worldVars
<1>1. slice_duration \in Nat \ {0} /\ periods \in Nat \ {0} /\ dest_available
  <2>1. periods \in Nat \ {0} /\ dest_available
    BY <1>0 DEF SessionInv, SessionTypeOK, PlaceOK
  <2> QED
    BY <1>0, <2>1, SliceIsPositive DEF SessionInv
<1>2. k \in Nat \ {0}
  BY <1>1, SlicesTake
<1> HIDE DEF k
<1>3. SessionTypeOK'
  <2>1. SessionTypeOK /\ minute_count \in Nat
    BY Zenon DEF SessionInv, SessionTypeOK
  <2>2. minute_count' \in Nat /\ periods' \in Nat
    BY <1>0, <1>2, <2>1
  <2>3. ret' \in {"slice", "write"} /\ lpc # "off"
    BY <1>0
  <2> QED
    BY <1>0, <2>1, <2>2, <2>3, Zenon DEF SessionTypeOK
<1>4. PlaceOK'
  BY <1>0, <1>1 DEF PlaceOK, Naming
<1>5. Live /\ Live' /\ Naming(lpc')
  BY <1>0, <1>1 DEF Live, Naming
<1>6. NamesGrow'
  <2>1. scanned \in Volumes /\ names[scanned] \in SUBSET (Nat \X Nat) /\ session_count \in Nat /\ minute_count \in Nat
    BY <1>5 DEF SessionInv, NamesGrow, SessionTypeOK
  <2> SUFFICES ASSUME NEW n \in names[scanned]
               PROVE  n[1] >= MAX_SESSION \/ Earlier(n, <<session_count, minute_count + k>>)
    BY <1>0, <2>1, Zenon DEF NamesGrow
  <2>2. \/ n[1] >= MAX_SESSION \/ Earlier(n, <<session_count, minute_count>>)
        \/ n = <<session_count, minute_count>>
    BY <1>5, Zenon DEF SessionInv, NamesGrow
  <2>3. n \in Nat \X Nat
    BY <2>1
  <2> QED
    BY <1>2, <2>1, <2>2, <2>3 DEF Earlier
<1>7. MinutesLag'
  BY <1>0 DEF SessionInv, MinutesLag, k
<1>8. PauseIsKept'
  BY <1>0, <1>5 DEF SessionInv, PauseIsKept
<1> QED
  BY <1>3, <1>4, <1>6, <1>7, <1>8 DEF SessionInv

\* A failed write ends the session and begins the poll period.
LEMMA SessionWrites ==
  ASSUME SessionInv, process_frame
  PROVE  SessionInv'
<1>0. /\ lpc = "write" /\ lpc' = "wait"
      /\ UNCHANGED <<session_count, minute_count, names, mounted, scanned, periods,
                     torn, slice_duration, now, ret, logger, fs_type_prev>>
      /\ \/ UNCHANGED <<dest_available, session_start_time, failed_at>>
         \/ dest_available' = FALSE /\ session_start_time' = now /\ failed_at' = now
  BY DEF process_frame, mainVars, sharedVars, fsVars, worldVars, rollVars
<1>1. dest_available /\ Live /\ ~Naming(lpc) /\ ~Naming(lpc') /\ failed_at = Epoch
  BY <1>0 DEF SessionInv, PlaceOK, Live, Naming, PauseIsKept
<1>2. SessionTypeOK'
  <2>1. dest_available' \in BOOLEAN
    BY <1>0, Zenon DEF SessionInv, SessionTypeOK
  <2>2. session_start_time' \in Int /\ failed_at' \in Int
    BY <1>0 DEF SessionInv, SessionTypeOK
  <2> QED
    BY <1>0, <2>1, <2>2 DEF SessionInv, SessionTypeOK
<1>3. PlaceOK'
  BY <1>0, <1>1 DEF PlaceOK
<1>4. Live' => UNCHANGED <<dest_available, session_start_time, failed_at>>
  BY <1>0, <1>1, Zenon DEF Live
<1>5. NamesGrow'
  BY <1>0, <1>1, Zenon DEF SessionInv, NamesGrow
<1>6. MinutesLag'
  BY <1>0, <1>1, <1>4, Zenon DEF SessionInv, MinutesLag
<1>7. PauseIsKept'
  BY <1>0, <1>1, Zenon DEF PauseIsKept, Live, SessionInv, SessionTypeOK
<1> QED
  BY <1>2, <1>3, <1>5, <1>6, <1>7 DEF SessionInv

\* A logger is created.
LEMMA SessionReset ==
  ASSUME SessionInv, create_logger
  PROVE  SessionInv'
<1>0. /\ lpc' = "wait" /\ dest_available' = FALSE /\ session_count' = 0 /\ minute_count' = 0 /\ logger' = TRUE
      /\ session_start_time' = Epoch /\ failed_at' = Epoch /\ slice_duration' \in Slices
      /\ UNCHANGED <<names, mounted, scanned, periods, torn, now, ret, fs_type_prev>>
  BY DEF create_logger, fsVars, worldVars, rollVars
<1>1. ~Live' /\ ~Naming(lpc')
  BY <1>0 DEF Live, Naming
<1>2. SessionTypeOK'
  <2>1. dest_available' \in BOOLEAN /\ logger'
    BY <1>0, Zenon
  <2>2. session_start_time' \in Int /\ failed_at' \in Int
    BY <1>0 DEF Epoch
  <2>3. session_count' \in Nat /\ minute_count' \in Nat
    BY <1>0
  <2> QED
    BY <1>0, <2>1, <2>2, <2>3 DEF SessionInv, SessionTypeOK
<1> QED
  BY <1>0, <1>1, <1>2, Zenon DEF SessionInv, PlaceOK, NamesGrow, MinutesLag, PauseIsKept

\* file_duration changes, perhaps between check_slice_time's two reads.
LEMMA SessionResliced ==
  ASSUME SessionInv, update_slice_duration
  PROVE  SessionInv'
<1>0. /\ slice_duration' \in Slices
      /\ torn' = (torn \/ (lpc = "roll" /\ slice_duration' # slice_duration))
      /\ UNCHANGED <<dest_available, session_count, minute_count, session_start_time, names, mounted, scanned,
                     failed_at, periods, now, ret, logger, fs_type_prev, lpc>>
  BY DEF update_slice_duration, fsVars, worldVars, sessionVars, histVars
<1>1. SessionTypeOK'
  BY <1>0 DEF SessionInv, SessionTypeOK
<1>2. PlaceOK' /\ NamesGrow' /\ PauseIsKept'
  BY <1>0, Zenon DEF SessionInv, PlaceOK, NamesGrow, PauseIsKept, Live
<1>3. MinutesLag'
  <2>1. ~torn' => ~torn /\ (lpc = "roll" => slice_duration' = slice_duration)
    BY <1>0, Zenon
  <2> QED
    BY <1>0, <2>1 DEF SessionInv, MinutesLag, Live
<1> QED
  BY <1>1, <1>2, <1>3 DEF SessionInv

\* The logger is gone.
LEMMA SessionJoined ==
  ASSUME SessionInv, delete_logger
  PROVE  SessionInv'
<1>0. /\ lpc = "done" /\ lpc' = "off"
      /\ UNCHANGED <<dest_available, session_count, minute_count, session_start_time, names, mounted, scanned,
                     failed_at, torn, periods, slice_duration, now, ret, fs_type_prev>>
  BY DEF delete_logger, fsVars, sharedVars, worldVars, sessionVars, histVars, rollVars
<1>1. SessionTypeOK'
  BY <1>0 DEF SessionInv, SessionTypeOK
<1>2. (Live' <=> Live) /\ ~Naming(lpc) /\ ~Naming(lpc')
  BY <1>0 DEF Live, Naming
<1>3. PlaceOK'
  BY <1>0, <1>2 DEF SessionInv, PlaceOK
<1>4. NamesGrow'
  BY <1>0, <1>2, Zenon DEF SessionInv, NamesGrow
<1>5. MinutesLag' /\ PauseIsKept'
  BY <1>0, <1>2 DEF SessionInv, MinutesLag, PauseIsKept
<1> QED
  BY <1>1, <1>3, <1>4, <1>5 DEF SessionInv

\* A minute passes.
LEMMA SessionTicks ==
  ASSUME SessionInv, Tick
  PROVE  SessionInv'
<1>0. /\ now' = now + 1
      /\ UNCHANGED <<dest_available, session_count, minute_count, session_start_time, names, mounted, scanned,
                     failed_at, torn, periods, slice_duration, ret, logger, fs_type_prev, lpc>>
  BY DEF Tick, mainVars, fsVars, sharedVars, threadVars, sessionVars, histVars, rollVars
<1>1. SessionTypeOK'
  <2>1. SessionTypeOK /\ now \in Nat
    BY Zenon DEF SessionInv, SessionTypeOK
  <2>2. now' \in Nat
    BY <1>0, <2>1
  <2> QED
    BY <1>0, <2>1, <2>2, Zenon DEF SessionTypeOK
<1>2. (Live' <=> Live)
  BY <1>0 DEF Live
<1>3. PlaceOK' /\ NamesGrow'
  BY <1>0, <1>2, Zenon DEF SessionInv, PlaceOK, NamesGrow
<1>4. now \in Nat /\ session_start_time \in Int /\ minute_count \in Nat /\ failed_at \in Int /\ POLL_PERIOD \in Nat
  BY LoggerAssumption DEF SessionInv, SessionTypeOK
<1>5. ASSUME lpc = "roll", ~torn PROVE minute_count + slice_duration * periods <= now' - session_start_time
  <2>1. slice_duration \in Nat \ {0} /\ periods \in Nat \ {0}
    <3>1. periods \in Nat \ {0}
      BY <1>5 DEF SessionInv, SessionTypeOK, PlaceOK
    <3> QED
      BY <1>5, <3>1, SliceIsPositive DEF SessionInv
  <2> DEFINE k == slice_duration * periods
  <2>2. k \in Nat
    BY <2>1, SlicesTake
  <2>3. minute_count + k <= now - session_start_time
    BY <1>5 DEF SessionInv, MinutesLag
  <2> HIDE DEF k
  <2>4. minute_count + k <= now' - session_start_time
    BY <1>0, <1>4, <2>2, <2>3
  <2> QED
    BY <2>4 DEF k
<1>6. MinutesLag'
  <2>1. ~torn /\ Live => minute_count <= now' - session_start_time
    BY <1>0, <1>4 DEF SessionInv, MinutesLag
  <2> QED
    BY <1>0, <1>2, <1>5, <2>1 DEF MinutesLag
<1>7. PauseIsKept'
  BY <1>0, <1>2, <1>4 DEF SessionInv, PauseIsKept
<1> QED
  BY <1>1, <1>3, <1>6, <1>7 DEF SessionInv

\* Every step keeps the part about the session.
LEMMA SessionStep ==
  ASSUME SessionInv, [Next]_vars
  PROVE  SessionInv'
<1>0. mounted \in [Dirs -> Volumes \cup {None}] /\ fs_type_prev \in FileSystems \cup {None}
  BY DEF SessionInv, SessionTypeOK
<1>1. CASE UNCHANGED vars
  <2>1. Idle /\ UNCHANGED <<mounted, fs_type_prev>>
    BY <1>1, Zenon DEF vars, mainVars, fsVars, sharedVars, threadVars, rollVars, sessionVars, histVars, worldVars, Idle
  <2> QED
    BY <1>0, <2>1, SessionIdle
<1>2. CASE get_frame
  <2>1. Idle /\ UNCHANGED <<mounted, fs_type_prev>>
    BY <1>2 DEF get_frame, mainVars, fsVars, rollVars, sessionVars, histVars, worldVars, Idle
  <2> QED
    BY <1>0, <2>1, SessionIdle
<1>3. CASE frame_handler
  <2>1. Idle /\ UNCHANGED <<mounted, fs_type_prev>>
    BY <1>3, Zenon DEF frame_handler, fsVars, sharedVars, threadVars, rollVars, sessionVars, histVars, worldVars, Idle
  <2> QED
    BY <1>0, <2>1, SessionIdle
<1>4. CASE push_frame
  <2>1. Idle /\ UNCHANGED <<mounted, fs_type_prev>>
    BY <1>4 DEF push_frame, fsVars, threadVars, rollVars, sessionVars, histVars, worldVars, Idle
  <2> QED
    BY <1>0, <2>1, SessionIdle
<1>5. CASE update_dir
  <2>1. Idle /\ UNCHANGED <<mounted, fs_type_prev>>
    BY <1>5 DEF update_dir, fsVars, sharedVars, threadVars, rollVars, sessionVars, histVars, worldVars, Idle
  <2> QED
    BY <1>0, <2>1, SessionIdle
<1>6. CASE stop_thread
  <2>1. Idle /\ UNCHANGED <<mounted, fs_type_prev>>
    BY <1>6 DEF stop_thread, fsVars, threadVars, rollVars, sessionVars, histVars, worldVars, Idle
  <2> QED
    BY <1>0, <2>1, SessionIdle
<1>7. CASE reconnect_loop_callback
  <2>1. Idle /\ UNCHANGED <<mounted, fs_type_prev>>
    BY <1>7 DEF reconnect_loop_callback, fsVars, sharedVars, threadVars, rollVars, sessionVars, histVars,
                worldVars, Idle
  <2> QED
    BY <1>0, <2>1, SessionIdle
<1>8. CASE close_again
  <2>1. Idle /\ UNCHANGED <<mounted, fs_type_prev>>
    BY <1>8 DEF close_again, fsVars, sharedVars, rollVars, sessionVars, histVars, worldVars, Idle
  <2> QED
    BY <1>0, <2>1, SessionIdle
<1>9. CASE logging_filesystem_notify
  <2>1. Idle /\ UNCHANGED mounted /\ fs_type_prev' \in FileSystems
    BY <1>9 DEF logging_filesystem_notify, mainVars, sharedVars, threadVars, rollVars, sessionVars, histVars,
                worldVars, Idle
  <2> QED
    BY <1>0, <2>1, SessionIdle
<1>10. CASE Swap
  <2>1. Idle /\ UNCHANGED fs_type_prev
    BY <1>10 DEF Swap, mainVars, fsVars, sharedVars, rollVars, sessionVars, histVars, Idle
  <2>2. mounted' \in [Dirs -> Volumes \cup {None}]
    BY <1>0, <1>10 DEF Swap
  <2> QED
    BY <1>0, <2>1, <2>2, SessionIdle
<1> QED
  BY <1>1, <1>2, <1>3, <1>4, <1>5, <1>6, <1>7, <1>8, <1>9, <1>10, SessionChecked, SessionStarts, SessionOpens,
     SessionCreates, SessionCounts, SessionRolls, SessionWrites, SessionReset, SessionResliced, SessionJoined,
     SessionTicks
  DEF Next

-----------------------------------------------------------------------------
(***************************************************************************)
(* The open file.                                                          *)
(***************************************************************************)

\* The longest frame.
LEMMA LongestFrame == Max(Sizes) \in Nat /\ \A z \in Sizes : z \in Nat /\ z <= Max(Sizes)
<1>1. Sizes \in SUBSET Nat
  BY LoggerAssumption
<1>2. PICK b \in Sizes : \A y \in Sizes : y <= b
  BY LoggerAssumption
<1>3. Max(Sizes) \in Sizes /\ \A y \in Sizes : y <= Max(Sizes)
  BY <1>1, <1>2, MaxIsGreatest
<1> QED
  BY <1>1, <1>3, Zenon

\* The fields of no file.
LEMMA NoFileFields ==
  /\ DOMAIN NoFile = {"vol", "name", "data", "works", "fd"} /\ NoFile.data = 0 /\ NoFile.vol = None
  /\ ~NoFile.works /\ [NoFile EXCEPT !.works = FALSE] = NoFile
<1>1. DOMAIN NoFile = {"vol", "name", "data", "works", "fd"} /\ NoFile.data = 0 /\ NoFile.vol = None
  BY Zenon DEF NoFile
<1>2. ~NoFile.works
  BY DEF NoFile
<1>3. [NoFile EXCEPT !.works = FALSE] = NoFile
  <2>1. PICK w : w = FALSE
    BY Zenon
  <2>2. NoFile = [vol |-> None, name |-> <<0, 0>>, data |-> 0, works |-> w, fd |-> None]
    BY <2>1, Zenon DEF NoFile
  <2>3. [NoFile EXCEPT !.works = w] = NoFile
    BY <2>2
  <2> QED
    BY <2>1, <2>3, Zenon
<1> QED
  BY <1>1, <1>2, <1>3

\* A descriptor stops working: the file stays the one it is.
LEMMA FileBroken ==
  ASSUME FileInv, NEW b \in BOOLEAN, b => cur_file.works, cur_file' = [cur_file EXCEPT !.works = b],
         UNCHANGED <<bytes_written, dest_available, lpc>>
  PROVE  FileInv' /\ (cur_file' = NoFile <=> cur_file = NoFile) /\ cur_file'.data = cur_file.data
<1>1. /\ DOMAIN cur_file' = DOMAIN cur_file /\ cur_file'.data = cur_file.data /\ cur_file'.vol = cur_file.vol
  BY NoFileFields DEF FileInv
<1>2. ASSUME cur_file = NoFile PROVE cur_file' = NoFile
  <2>1. b = FALSE
    BY <1>2, NoFileFields
  <2> QED
    BY <1>2, <2>1, NoFileFields, Zenon
<1>3. cur_file # NoFile => cur_file' # NoFile
  BY <1>1, NoFileFields DEF FileInv
<1> QED
  BY <1>1, <1>2, <1>3 DEF FileInv

\* Steps that leave the file alone.
LEMMA FileKept ==
  ASSUME FileInv, UNCHANGED <<cur_file, bytes_written>>, dest_available' => dest_available,
         lpc' = "create" => lpc = "create"
  PROVE  FileInv'
BY DEF FileInv

\* close_current_file.
LEMMA FileClosed ==
  ASSUME FileInv, close_current_file(0), dest_available' = dest_available
  PROVE  FileInv'
<1>1. cur_file' = NoFile /\ bytes_written' = IF cur_file = NoFile THEN bytes_written ELSE 0
  BY DEF close_current_file, FileInv
<1> QED
  BY <1>1, NoFileFields, LongestFrame DEF FileInv

\* A frame is written, or its write fails.
LEMMA FileWritten ==
  ASSUME FileInv, FrameInv, SessionInv, process_frame
  PROVE  FileInv' /\ (cur_file'.data > cur_file.data => last_written' > last_written)
<1> DEFINE z == lframe.size
           M == Max(Sizes)
<1>0. lpc = "write" /\ lpc' = "wait" /\ dest_available /\ z \in Sizes /\ lframe.id > last_written
  BY DEF process_frame, SessionInv, PlaceOK, FrameInv, NumbersGrow, Busy
<1>1. z \in Nat /\ z <= M /\ M \in Nat
  BY <1>0, LongestFrame
<1> HIDE DEF z, M
<1>2. CASE /\ cur_file # NoFile /\ cur_file' = [cur_file EXCEPT !.data = @ + z]
           /\ bytes_written' = bytes_written + z /\ last_written' = lframe.id /\ UNCHANGED dest_available
  <2>1. DOMAIN cur_file' = DOMAIN cur_file /\ cur_file'.data = cur_file.data + z /\ cur_file'.vol = cur_file.vol
    BY <1>2, NoFileFields DEF FileInv
  <2>2. cur_file' # NoFile
    BY <1>2, <2>1, NoFileFields DEF FileInv
  <2>3. bytes_written' <= cur_file'.data + M /\ bytes_written' \in Nat /\ cur_file'.data \in Nat
    BY <1>1, <1>2, <2>1 DEF FileInv, M
  <2> QED
    BY <1>0, <1>2, <2>1, <2>2, <2>3 DEF FileInv, M
<1>3. CASE close_current_file(z) /\ dest_available' = FALSE
  <2>1. cur_file' = NoFile /\ bytes_written' = z
    BY <1>0, <1>1, <1>3 DEF close_current_file, FileInv
  <2>2. ~dest_available'
    BY <1>3
  <2> QED
    BY <1>0, <1>1, <2>1, <2>2, NoFileFields DEF FileInv, M
<1> QED
  BY <1>2, <1>3, Zenon DEF process_frame, z

\* A file is created.
LEMMA FileCreated ==
  ASSUME FileInv, SessionInv, create_file
  PROVE  FileInv' /\ ~(cur_file'.data > cur_file.data)
<1>0. lpc = "create" /\ bytes_written' = bytes_written /\ ret \in {"slice", "write"}
  BY Zenon DEF create_file, SessionInv, SessionTypeOK
<1>1. cur_file = NoFile /\ bytes_written <= Max(Sizes) /\ bytes_written \in Nat /\ cur_file.data = 0
  BY <1>0, NoFileFields DEF FileInv
<1>2. CASE dest_available' = FALSE /\ lpc' = "wait" /\ UNCHANGED cur_file
  <2>1. ~dest_available' /\ lpc' # "create"
    BY <1>2
  <2> QED
    BY <1>0, <1>1, <1>2, <2>1 DEF FileInv
<1>3. CASE lpc' = ret /\ \E d \in Dirs, again \in {FALSE, reclose} :
             /\ mounted[d] # None
             /\ cur_file' = [vol |-> mounted[d], name |-> <<session_count, minute_count>>,
                             data |-> 0, works |-> TRUE, fd |-> IF again THEN "force_new_fd" ELSE "own"]
  <2>1. DOMAIN cur_file' = DOMAIN NoFile /\ cur_file'.data = 0 /\ cur_file'.vol # None
    BY <1>3, NoFileFields
  <2>2. cur_file' # NoFile
    BY <2>1, NoFileFields
  <2>3. lpc' # "create"
    BY <1>0, <1>3
  <2>4. bytes_written <= 0 + Max(Sizes) /\ 0 \in Nat /\ ~(0 > 0)
    BY <1>1, LongestFrame
  <2> QED
    BY <1>0, <1>1, <2>1, <2>2, <2>3, <2>4, Zenon DEF FileInv
<1> QED
  BY <1>2, <1>3, Zenon DEF create_file

\* Every step keeps the part about the file, and a file grows only by a frame
\* that comes after those written.
LEMMA FileStep ==
  ASSUME FrameInv, SessionInv, FileInv, [Next]_vars
  PROVE  FileInv' /\ (cur_file'.data > cur_file.data => last_written' > last_written)
<1>0. cur_file.data \in Nat /\ 0 \in Nat
  BY DEF FileInv
<1>1. ASSUME UNCHANGED <<cur_file, bytes_written, dest_available>>, lpc' = "create" => lpc = "create"
      PROVE  FileInv' /\ (cur_file'.data > cur_file.data => last_written' > last_written)
  BY <1>0, <1>1, FileKept
<1>2. ASSUME close_current_file(0), UNCHANGED dest_available
      PROVE  FileInv' /\ (cur_file'.data > cur_file.data => last_written' > last_written)
  <2>1. cur_file'.data = 0
    BY <1>2, NoFileFields DEF close_current_file
  <2> QED
    BY <1>0, <1>2, <2>1, FileClosed
<1>3. CASE UNCHANGED vars
  BY <1>1, <1>3 DEF vars, threadVars, sessionVars, fileVars
<1>4. CASE get_frame
  <2>1. lpc' # "create"
    BY <1>4 DEF get_frame
  <2> QED
    BY <1>1, <1>4, <2>1 DEF get_frame, sessionVars, fileVars
<1>5. CASE ensure_session_valid
  <2>1. lpc' # "create"
    BY <1>5 DEF ensure_session_valid
  <2> QED
    BY <1>1, <1>5, <2>1 DEF ensure_session_valid, fileVars
<1>6. CASE start_new_session
  <2>1. lpc' # "create"
    BY <1>6 DEF start_new_session
  <2> QED
    BY <1>1, <1>6, <2>1, Zenon DEF start_new_session, fileVars
<1>7. CASE open_new_file
  <2>1. UNCHANGED dest_available /\ (close_current_file(0) \/ (UNCHANGED fileVars /\ lpc' = "wait"))
    BY <1>7 DEF open_new_file
  <2> QED
    BY <1>1, <1>2, <2>1 DEF fileVars
<1>8. CASE check_slice_time
  <2>1. lpc' # "create"
    BY <1>8 DEF check_slice_time
  <2> QED
    BY <1>1, <1>8, <2>1 DEF check_slice_time, sessionVars, fileVars
<1>9. CASE roll_over
  <2>1. lpc' # "create"
    BY <1>9 DEF roll_over
  <2> QED
    BY <1>1, <1>9, <2>1 DEF roll_over, fileVars
<1>10. CASE frame_handler \/ update_dir \/ reconnect_loop_callback
  BY <1>1, <1>10, Zenon DEF frame_handler, update_dir, reconnect_loop_callback, threadVars, sessionVars, fileVars
<1>11. CASE push_frame \/ stop_thread \/ logging_filesystem_notify \/ Tick
  BY <1>1, <1>11, Zenon DEF push_frame, stop_thread, logging_filesystem_notify, Tick, threadVars, sessionVars, fileVars
<1>12. CASE update_slice_duration
  BY <1>1, <1>12 DEF update_slice_duration, sessionVars, fileVars
<1>13. CASE create_logger
  <2>1. cur_file' = NoFile /\ bytes_written' = 0 /\ lpc' = "wait"
    BY <1>13 DEF create_logger
  <2> QED
    BY <1>0, <2>1, NoFileFields, LongestFrame DEF FileInv
<1>14. CASE delete_logger
  BY <1>2, <1>14 DEF delete_logger, sessionVars
<1>15. CASE close_again
  <2> DEFINE b == cur_file.works /\ cur_file.fd # "force_new_fd"
  <2>1. cur_file' = [cur_file EXCEPT !.works = b] /\ UNCHANGED <<bytes_written, dest_available, lpc>>
    BY <1>15 DEF close_again, sessionVars
  <2>2. b \in BOOLEAN /\ (b => cur_file.works)
    OBVIOUS
  <2> HIDE DEF b
  <2>3. FileInv' /\ cur_file'.data = cur_file.data
    BY <2>1, <2>2, FileBroken
  <2> QED
    BY <1>0, <2>3
<1>16. CASE Swap
  <2>0. PICK d \in Dirs : cur_file' = [cur_file EXCEPT !.works = @ /\ cur_file.vol # mounted[d]]
    BY <1>16 DEF Swap
  <2> DEFINE b == cur_file.works /\ cur_file.vol # mounted[d]
  <2>1. cur_file' = [cur_file EXCEPT !.works = b] /\ UNCHANGED <<bytes_written, dest_available, lpc>>
    BY <1>16, <2>0 DEF Swap, sessionVars
  <2>2. b \in BOOLEAN /\ (b => cur_file.works)
    OBVIOUS
  <2> HIDE DEF b
  <2>3. FileInv' /\ cur_file'.data = cur_file.data
    BY <2>1, <2>2, FileBroken
  <2> QED
    BY <1>0, <2>3
<1> QED
  BY Zenon, <1>3, <1>4, <1>5, <1>6, <1>7, <1>8, <1>9, <1>10, <1>11, <1>12, <1>13, <1>14, <1>15, <1>16,
     FileWritten, FileCreated DEF Next

-----------------------------------------------------------------------------
(***************************************************************************)
(* The invariant and the properties.                                       *)
(***************************************************************************)

\* The first state.
LEMMA LoggerFirst ==
  ASSUME Init
  PROVE  LoggerInv
<1>1. FrameInv
  <2>1. queue = <<>> /\ Len(queue) = 0 /\ BytesOf(queue) = 0 /\ MAX_QUEUE_SIZE \in Nat
    BY BytesEmpty, LoggerAssumption DEF Init
  <2>2. NullFrame \in Frames /\ NullFrame.id = 0 /\ queue \in Seq(Frames)
    BY <2>1 DEF NullFrame, Frames
  <2>3. FrameTypeOK
    BY <2>2 DEF Init, FrameTypeOK
  <2>4. NullIsLast
    BY <2>1 DEF Init, NullIsLast
  <2>5. NumbersGrow
    <3>1. mpc # "push" /\ ~Busy(lpc)
      BY DEF Init, Busy
    <3>2. Handed = 0 /\ last_written = 0 /\ lframe.id = 0
      BY <2>2, <3>1, Zenon DEF Init, Handed
    <3> QED
      BY <2>1, <3>1, <3>2 DEF NumbersGrow
  <2>6. RoomIsKept
    BY <2>1 DEF Init, RoomIsKept
  <2> QED
    BY <2>3, <2>4, <2>5, <2>6 DEF FrameInv
<1>2. SessionInv
  <2>1. mounted \in [Dirs -> Volumes \cup {None}] /\ names \in [Volumes -> SUBSET (Nat \X Nat)]
    BY LoggerAssumption DEF Init, None
  <2>2. ~dest_available /\ dest_available \in BOOLEAN
    BY Zenon DEF Init
  <2>3. SessionTypeOK
    BY <2>1, <2>2 DEF Init, SessionTypeOK, Epoch
  <2>4. ~Live /\ ~Naming(lpc)
    BY <2>2 DEF Init, Live, Naming
  <2>5. PlaceOK
    BY <2>4 DEF Init, PlaceOK
  <2>6. NamesGrow /\ MinutesLag /\ PauseIsKept
    BY <2>4 DEF Init, NamesGrow, MinutesLag, PauseIsKept
  <2> QED
    BY <2>3, <2>5, <2>6 DEF SessionInv
<1>3. FileInv
  BY NoFileFields, LongestFrame DEF Init, FileInv
<1> QED
  BY <1>1, <1>2, <1>3 DEF LoggerInv

\* Every step keeps the invariant.
LEMMA LoggerStep ==
  ASSUME LoggerInv, [Next]_vars
  PROVE  LoggerInv'
BY FrameStep, SessionStep, FileStep DEF LoggerInv

\* Only create_file opens a file.
LEMMA OnlyCreateOpens ==
  ASSUME FileInv, [Next]_vars, cur_file = NoFile, cur_file' # NoFile
  PROVE  create_file
<1>1. ASSUME NEW b \in BOOLEAN, b => cur_file.works, cur_file' = [cur_file EXCEPT !.works = b],
             UNCHANGED <<bytes_written, dest_available, lpc>>
      PROVE  FALSE
  BY <1>1, FileBroken
<1>2. CASE close_again
  <2> DEFINE b == cur_file.works /\ cur_file.fd # "force_new_fd"
  <2>1. cur_file' = [cur_file EXCEPT !.works = b] /\ UNCHANGED <<bytes_written, dest_available, lpc>>
    BY <1>2 DEF close_again, sessionVars
  <2>2. b \in BOOLEAN /\ (b => cur_file.works)
    OBVIOUS
  <2> HIDE DEF b
  <2> QED
    BY <1>1, <2>1, <2>2
<1>3. CASE Swap
  <2>0. PICK d \in Dirs : cur_file' = [cur_file EXCEPT !.works = @ /\ cur_file.vol # mounted[d]]
    BY <1>3 DEF Swap
  <2> DEFINE b == cur_file.works /\ cur_file.vol # mounted[d]
  <2>1. cur_file' = [cur_file EXCEPT !.works = b] /\ UNCHANGED <<bytes_written, dest_available, lpc>>
    BY <1>3, <2>0 DEF Swap, sessionVars
  <2>2. b \in BOOLEAN /\ (b => cur_file.works)
    OBVIOUS
  <2> HIDE DEF b
  <2> QED
    BY <1>1, <2>1, <2>2
<1>4. CASE \/ UNCHANGED vars \/ get_frame \/ ensure_session_valid \/ start_new_session \/ check_slice_time
           \/ roll_over \/ frame_handler \/ push_frame \/ update_dir \/ update_slice_duration \/ stop_thread
           \/ reconnect_loop_callback \/ logging_filesystem_notify \/ Tick
  <2>1. UNCHANGED cur_file
    BY <1>4, Zenon DEF vars, threadVars, fileVars, get_frame, ensure_session_valid, start_new_session,
       check_slice_time, roll_over, frame_handler, push_frame, update_dir, update_slice_duration, stop_thread,
       reconnect_loop_callback, logging_filesystem_notify, Tick
  <2> QED
    BY <2>1
<1>5. CASE open_new_file \/ create_logger \/ delete_logger
  BY <1>5, Zenon DEF open_new_file, create_logger, delete_logger, close_current_file, fileVars
<1>6. CASE process_frame
  BY <1>6 DEF process_frame, close_current_file
<1> QED
  BY <1>2, <1>3, <1>4, <1>5, <1>6 DEF Next

\* What close_current_file leaves after the data.
LEMMA PaddingIsSmall ==
  ASSUME FileInv, cur_file # NoFile
  PROVE  ClosedLength - cur_file.data <= Max(Sizes)
<1> DEFINE cut == IF bytes_written < NEW_FILE_PAD_SIZE THEN bytes_written ELSE NEW_FILE_PAD_SIZE
           d == cur_file.data
           M == Max(Sizes)
<1>1. NEW_FILE_PAD_SIZE \in Nat
  BY LoggerAssumption
<1>2. cut \in Nat /\ cut <= bytes_written /\ bytes_written \in Nat /\ d \in Nat /\ bytes_written <= d + M
  BY <1>1 DEF FileInv
<1>3. M \in Nat
  BY LongestFrame
<1>4. ClosedLength = Max({cut, d})
  BY DEF ClosedLength
<1> HIDE DEF cut, d, M
<1>5. Max({cut, d}) = IF cut >= d THEN cut ELSE d
  BY <1>2, MaxOfTwo
<1>6. ClosedLength - d <= M
  BY <1>2, <1>3, <1>4, <1>5
<1> QED
  BY <1>6 DEF d, M

\* The name of an open file.
LEMMA FileName ==
  ASSUME NEW f, NEW v, NEW n, NEW d, f = [vol |-> v, name |-> n, data |-> 0, works |-> TRUE, fd |-> d]
  PROVE  f.name = n
OBVIOUS

\* A new file's name comes after those of the volume that was scanned.
LEMMA NewNameIsLast ==
  ASSUME SessionInv, create_file, cur_file = NoFile, cur_file' # NoFile
  PROVE  scanned \in Volumes /\ \A n \in names[scanned] : n[1] >= MAX_SESSION \/ Earlier(n, cur_file'.name)
<1>1. lpc = "create" /\ cur_file'.name = <<session_count, minute_count>>
  <2>1. PICK v, fd : cur_file' = [vol |-> v, name |-> <<session_count, minute_count>>,
                                  data |-> 0, works |-> TRUE, fd |-> fd]
    BY Zenon DEF create_file
  <2>2. cur_file'.name = <<session_count, minute_count>>
    BY <2>1, FileName, Zenon
  <2> QED
    BY <2>2, Zenon DEF create_file
<1> QED
  BY <1>1, Zenon DEF SessionInv, NamesGrow, Live, Naming

\* logging_filesystem_notify warns of what will be erased.
LEMMA WarnsOfMigration ==
  ASSUME SessionInv, [Next]_vars, fs_type_prev' # fs_type_prev
  PROVE  warned' <=> fs_type_prev' # "FAT"
<1>1. logging_filesystem_notify
  BY Zenon DEF vars, threadVars, fsVars, get_frame, ensure_session_valid, start_new_session, open_new_file,
     create_file, check_slice_time, roll_over, process_frame, frame_handler, push_frame, create_logger,
     update_dir, update_slice_duration, stop_thread, delete_logger, reconnect_loop_callback, close_again,
     Tick, Swap, Next
<1>2. PICK type \in FileSystems : /\ warned' = (classify_fs_transition(fs_type_prev, type) \in Migrations)
                                  /\ fs_type_prev' = type
  BY <1>1 DEF logging_filesystem_notify
<1>3. fs_type_prev \in FileSystems \cup {None} /\ fs_type_prev # type
  BY <1>2 DEF SessionInv, SessionTypeOK
<1>4. classify_fs_transition(fs_type_prev, type) \in Migrations <=> type # "FAT"
  BY <1>3 DEF classify_fs_transition, Migrations, FileSystems, None, FSTT_UNKNOWN
<1> QED
  BY <1>2, <1>4, Zenon

\* The invariant holds for any number of frames, sizes, volumes, directories,
\* slices and limits.
THEOREM LoggerInvariant == Spec => []LoggerInv
<1>1. Init => LoggerInv
  BY LoggerFirst
<1>2. LoggerInv /\ [Next]_vars => LoggerInv'
  BY LoggerStep
<1> QED
  BY <1>1, <1>2, PTL DEF Spec

\* FramesAreKept, always: frame_handler's unlocked test of queue_bytes keeps
\* the queue to its limit, the join of stop_thread leaves no frame behind,
\* frames are written in order, and a closed file has at most one frame of
\* padding.
THEOREM FramesAreAlwaysKept == Spec => FramesAreKept
<1>1. LoggerInv => QueueIsCounted /\ StopDrains
  BY Zenon DEF LoggerInv, FrameInv, RoomIsKept, NullIsLast, QueueIsCounted, StopDrains
<1>2. LoggerInv /\ [Next]_vars => [cur_file'.data > cur_file.data => last_written' > last_written]_vars
  BY FileStep DEF LoggerInv
<1>3. LoggerInv /\ [Next]_vars =>
        [(cur_file # NoFile /\ cur_file' = NoFile) => ClosedLength - cur_file.data <= Max(Sizes)]_vars
  BY PaddingIsSmall DEF LoggerInv
<1> QED
  BY <1>1, <1>2, <1>3, LoggerInvariant, PTL DEF Spec, FramesAreKept, FramesInOrder, PaddingIsRemoved

\* DriveIsRespected, always: a new log's name is the last of the volume, a
\* drive whose write failed is left alone for POLL_PERIOD, the warning of
\* logging_filesystem_notify is right, and check_slice_time has no negative
\* minutes to convert.
THEOREM DriveIsAlwaysRespected == Spec => DriveIsRespected
<1>1. LoggerInv /\ [Next]_vars =>
        [(cur_file = NoFile /\ cur_file' # NoFile /\ cur_file'.vol = scanned) =>
           \A n \in names[scanned] : n[1] >= MAX_SESSION \/ Earlier(n, cur_file'.name)]_vars
  BY OnlyCreateOpens, NewNameIsLast, Zenon DEF LoggerInv
<1>2. LoggerInv /\ [Next]_vars =>
        [(lpc = "session" /\ lpc' # "session" /\ failed_at # Epoch) => now - failed_at >= POLL_PERIOD]_vars
  BY DEF LoggerInv, SessionInv, PauseIsKept
<1>3. LoggerInv /\ [Next]_vars => [fs_type_prev' # fs_type_prev => (warned' <=> fs_type_prev' # "FAT")]_vars
  BY WarnsOfMigration DEF LoggerInv
<1>4. LoggerInv => MinutesNotNegative
  <2> SUFFICES ASSUME LoggerInv, lpc = "slice", ~torn PROVE now - session_start_time >= minute_count
    BY DEF MinutesNotNegative, TimePassed
  <2>1. minute_count <= now - session_start_time
    BY DEF LoggerInv, SessionInv, PlaceOK, MinutesLag, Live
  <2> QED
    BY <2>1 DEF LoggerInv, SessionInv, SessionTypeOK
<1> QED
  BY <1>1, <1>2, <1>3, <1>4, LoggerInvariant, PTL DEF Spec, DriveIsRespected, NewLogIsLast, DriveIsLeftAlone,
     MigrationIsWarned
===============================================================================
