---------------------------- MODULE ServiceProofs ----------------------------
(***************************************************************************)
(* Proofs about what the data path stands on: the kernel driver to the     *)
(* other processor, the children of ntrip_daemon and ota_daemon.           *)
(***************************************************************************)
EXTENDS RpmsgDriver, ChildSupervisor, OtaClient, TLAPS

-----------------------------------------------------------------------------
(***************************************************************************)
(* The settings mode of ntrip_daemon, for any set of process numbers and   *)
(* URLs and any number of writes, commands and deaths: it has at most one  *)
(* live child for an entry, it can reach every one of them, and they run   *)
(* with the settings as they are.                                          *)
(***************************************************************************)

-----------------------------------------------------------------------------
(* The inductive invariant.                                                *)

States == {"absent", "zombie", "exec", "handlers", "running", "ending"}
Children == [Pids -> [state : States, entry : 0 .. 2, url : Urls \union {0}]]

SupTypeOK ==
  /\ enabled \in BOOLEAN /\ url \in Urls
  /\ pids \in [1 .. 2 -> Pids \union {NoPid}]
  /\ child \in Children
  /\ main \in [step : {"idle", "stop", "kill", "start", "store"}, i : 0 .. 2,
               pid : Pids \union {NoPid}]
  /\ ~At("idle") => main.i \in 1 .. 2
  /\ At("store") => main.pid \in Pids

\* A live child is in the table at its entry, or was just forked for it.
\* The table may also hold numbers that are stale: those of children reaped
\* between the fork and the store.
Located ==
  \A p \in Pids : Alive(p) =>
    /\ child[p].entry \in 1 .. 2
    /\ \/ pids[child[p].entry] = p
       \/ At("store") /\ main.pid = p /\ main.i = child[p].entry

\* A child is started only for an entry that was emptied.
Emptied == At("start") \/ At("store") => pids[main.i] = NoPid

\* Disabled, the entries that the loop has passed have no live child.
Stopped ==
  ~enabled =>
    /\ ~At("store")
    /\ \A p \in Pids : Alive(p) => ~At("idle") /\ child[p].entry >= main.i

\* Every live child was started with the URL of now.
UrlIsCurrent == \A p \in Pids : Alive(p) => child[p].url = url

NtripInv == SupTypeOK /\ Located /\ Emptied /\ Stopped /\ UrlIsCurrent
SupInv == daemon = "ntrip" => NtripInv

-----------------------------------------------------------------------------
(* Lemmas.                                                                 *)

\* ntrip_processes has two entries.
LEMMA TwoEntries == daemon = "ntrip" => Count = 2
BY DEF Count, Processes

\* A step that signals children, or in which they act, starts none and
\* changes neither the entry nor the settings of a live one.
Shrinks ==
  /\ child' \in Children
  /\ \A p \in Pids : Alive(p)' => /\ Alive(p)
                                  /\ child'[p].entry = child[p].entry
                                  /\ child'[p].url = child[p].url

\* SIGTERM starts no child.
LEMMA TermShrinks ==
  ASSUME NEW p \in Pids, child \in Children, child' = Terminated(p)
  PROVE  Shrinks
<1>1. \A q \in Pids : q # p => child'[q] = child[q]
  BY DEF Terminated, Children
<1>2. /\ child'[p].entry = child[p].entry /\ child'[p].url = child[p].url
      /\ child'[p].state \in {"zombie", "ending", child[p].state}
      /\ child'[p].state = "ending" => child[p].state \in {"running", "ending"}
  BY DEF Terminated, Children
<1>3. child' \in Children
  BY DEF Terminated, Children, States
<1> QED
  BY <1>1, <1>2, <1>3 DEF Shrinks, Alive

\* SIGKILL starts no child, and leaves none with the number it is sent to.
LEMMA KillShrinks ==
  ASSUME NEW p \in Pids, child \in Children, child' = Killed(p)
  PROVE  Shrinks /\ ~Alive(p)'
BY DEF Killed, Children, States, Shrinks, Alive

\* A child that proceeds, ends, or is reaped is the one it was, or is gone.
LEMMA ChildShrinks ==
  ASSUME NEW p \in Pids, child \in Children,
         child_proceeds(p) \/ child_ends(p)
  PROVE  Shrinks
<1>1. CASE child_proceeds(p)
  <2>1. PICK s \in States : child' = [child EXCEPT ![p].state = s]
    BY <1>1, Zenon DEF child_proceeds, States, Children
  <2>2. Alive(p)
    BY <1>1 DEF child_proceeds, Alive
  <2> QED
    BY <2>1, <2>2 DEF Shrinks, Alive, Children
<1>2. CASE child_ends(p)
  BY <1>2 DEF child_ends, Shrinks, Alive, Children, States
<1> QED
  BY <1>1, <1>2

\* What shrinks the children and leaves everything else alone keeps the
\* invariant.
LEMMA ShrinkingIsSafe ==
  ASSUME NtripInv, Shrinks, UNCHANGED <<enabled, url, pids, main>>
  PROVE  NtripInv'
BY DEF NtripInv, Shrinks, SupTypeOK, Located, Emptied, Stopped, UrlIsCurrent, Alive, At

-----------------------------------------------------------------------------
(* The invariant holds initially and every step preserves it.              *)

\* No child is alive when the settings mode starts.
LEMMA SupInitInv == SupInit => SupInv
<1> SUFFICES ASSUME SupInit, daemon = "ntrip" PROVE NtripInv
  BY DEF SupInv
<1>1. Count = 2
  BY TwoEntries
<1>2. \A p \in Pids : ~Alive(p)
  BY DEF SupInit, Alive, Absent
<1>3. At("idle") /\ ~At("store") /\ ~At("start")
  BY DEF SupInit, At, Idle
<1>4. child \in Children
  BY DEF SupInit, Children, States, Absent
<1>5. SupTypeOK
  <2>1. pids \in [1 .. 2 -> Pids \union {NoPid}]
    BY <1>1 DEF SupInit
  <2>2. main \in [step : {"idle", "stop", "kill", "start", "store"}, i : 0 .. 2,
                  pid : Pids \union {NoPid}]
    BY DEF SupInit, Idle
  <2>3. enabled \in BOOLEAN /\ url \in Urls
    BY Zenon DEF SupInit
  <2> QED
    BY <1>3, <1>4, <2>1, <2>2, <2>3 DEF SupTypeOK
<1> QED
  BY <1>2, <1>3, <1>5 DEF SupInit, NtripInv, Located, Emptied, Stopped, UrlIsCurrent

\* Every step of the main thread, of the handlers and of the children keeps
\* the invariant.
LEMMA SupStepInv == SupInv /\ [SupNext]_sup_vars => SupInv'
<1> SUFFICES ASSUME NtripInv, daemon = "ntrip", daemon' = "ntrip", [SupNext]_sup_vars
             PROVE  NtripInv'
  <2>1. [SupNext]_sup_vars => daemon' = daemon
    BY Zenon DEF SupNext, SupMain, sup_vars, stop_process_term, stop_process_kill, start_process_skip,
           start_process_fork, start_process_store, reap_children, reconnect, notify_enable,
           ntrip_notify_generic, child_proceeds, child_ends
  <2> QED
    BY <2>1 DEF SupInv
<1> USE PidsAssumption
<1>t. Count = 2 /\ child \in Children
  BY TwoEntries DEF NtripInv, SupTypeOK
<1>1. CASE stop_process_term
  <2>1. CASE pids[main.i] = NoPid
    BY <1>1, <2>1, <1>t DEF stop_process_term, NtripInv, SupTypeOK, Located, Emptied, Stopped,
                           UrlIsCurrent, Alive, At
  <2>2. CASE pids[main.i] # NoPid
    <3>1. pids[main.i] \in Pids /\ child' = Terminated(pids[main.i])
      BY <1>1, <2>2 DEF stop_process_term, NtripInv, SupTypeOK, At
    <3>2. Shrinks
      BY <3>1, <1>t, TermShrinks, Zenon
    <3> QED
      BY <1>1, <2>2, <3>2 DEF stop_process_term, Shrinks, NtripInv, SupTypeOK, Located, Emptied,
                             Stopped, UrlIsCurrent, Alive, At
  <2> QED
    BY <2>1, <2>2
<1>2. CASE stop_process_kill
  <2>1. Shrinks /\ \A p \in Pids : Alive(p)' => p # pids[main.i]
    <3>1. CASE pids[main.i] # NoPid
      <4>1. pids[main.i] \in Pids /\ child' = Killed(pids[main.i])
        BY <1>2, <3>1 DEF stop_process_kill, NtripInv, SupTypeOK, At
      <4> QED
        BY <4>1, <1>t, KillShrinks, Zenon
    <3>2. CASE pids[main.i] = NoPid
      BY <1>2, <3>2, <1>t DEF stop_process_kill, Shrinks, Alive
    <3> QED
      BY <3>1, <3>2
  <2>2. At("kill") /\ main' = [main EXCEPT !.step = "start"] /\ main.i \in 1 .. 2
        /\ pids' = [pids EXCEPT ![main.i] = NoPid] /\ UNCHANGED <<enabled, url>>
    BY <1>2 DEF stop_process_kill, NtripInv, SupTypeOK, At
  <2>3. SupTypeOK' /\ Emptied' /\ UrlIsCurrent' /\ Stopped'
    BY <2>1, <2>2 DEF Shrinks, NtripInv, SupTypeOK, Emptied, UrlIsCurrent, Stopped, Alive, At
  <2>4. Located'
    BY <2>1, <2>2 DEF Shrinks, NtripInv, SupTypeOK, Located, Alive, At
  <2> QED
    BY <2>3, <2>4 DEF NtripInv
<1>3. CASE start_process_skip
  <2>1. \A p \in Pids : Alive(p) => child[p].entry > main.i
    BY <1>3 DEF start_process_skip, NtripInv, SupTypeOK, Located, Emptied, Stopped, At
  <2> QED
    BY <1>3, <2>1, <1>t DEF start_process_skip, NextEntry, Idle, NtripInv, SupTypeOK, Located,
                           Emptied, Stopped, UrlIsCurrent, Alive, At
<1>4. CASE start_process_fork
  <2>1. PICK p \in Pids :
          /\ child[p] = Absent
          /\ child' = [child EXCEPT ![p] = [state |-> "exec", entry |-> main.i, url |-> url]]
          /\ main' = [main EXCEPT !.step = "store", !.pid = p]
    BY <1>4, Zenon DEF start_process_fork
  <2>2. At("start") /\ enabled /\ UNCHANGED <<enabled, url, pids>> /\ main.i \in 1 .. 2
    BY <1>4 DEF start_process_fork, NtripInv, SupTypeOK, At
  <2> QED
    BY <2>1, <2>2, Zenon DEF NtripInv, SupTypeOK, Children, States, Located, Emptied, Stopped,
                     UrlIsCurrent, Alive, At
<1>5. CASE start_process_store
  BY <1>5, <1>t DEF start_process_store, NextEntry, Idle, NtripInv, SupTypeOK, Located, Emptied,
                   Stopped, UrlIsCurrent, Alive, At
<1>6. CASE reap_children
  <2>1. PICK p \in Pids : /\ child[p].state = "zombie"
                          /\ child' = [child EXCEPT ![p] = Absent]
                          /\ pids' = record_exit(p)
    BY <1>6, Zenon DEF reap_children
  <2>2. Shrinks /\ ~Alive(p)
    BY <2>1, <1>t DEF Shrinks, Alive, Absent, Children, States
  <2>3. \A i \in 1 .. 2 : pids'[i] = IF pids[i] = p THEN NoPid ELSE pids[i]
    BY <2>1, <1>t DEF record_exit
  <2>4. pids' \in [1 .. 2 -> Pids \union {NoPid}]
    BY <2>1, <1>t DEF record_exit, NtripInv, SupTypeOK
  <2>5. UNCHANGED <<enabled, url, main>>
    BY <1>6 DEF reap_children
  <2> QED
    BY <2>2, <2>3, <2>4, <2>5 DEF Shrinks, NtripInv, SupTypeOK, Located, Emptied, Stopped,
                                 UrlIsCurrent, Alive, At
<1>7. CASE reconnect
  <2>1. Shrinks
    <3>1. CASE pids[2] # NoPid /\ child[pids[2]].state = "exec"
      <4>1. pids[2] \in Pids /\ child' = Killed(pids[2])
        BY <1>7, <3>1, <1>t DEF reconnect, NtripInv, SupTypeOK
      <4> QED
        BY <4>1, <1>t, KillShrinks, Zenon
    <3>2. CASE ~(pids[2] # NoPid /\ child[pids[2]].state = "exec")
      BY <1>7, <3>2, <1>t DEF reconnect, Shrinks, Alive
    <3> QED
      BY <3>1, <3>2
  <2> QED
    BY <1>7, <2>1, ShrinkingIsSafe DEF reconnect
<1>8. ASSUME NEW v \in BOOLEAN, notify_enable(v) PROVE NtripInv'
  BY <1>8 DEF notify_enable, NtripInv, SupTypeOK, Located, Emptied, Stopped, UrlIsCurrent, Alive, At
<1>9. ASSUME NEW v \in Urls, ntrip_notify_generic(v) PROVE NtripInv'
  BY <1>9 DEF ntrip_notify_generic, NtripInv, SupTypeOK, Located, Emptied, Stopped, UrlIsCurrent,
              Alive, At
<1>10. ASSUME NEW p \in Pids, child_proceeds(p) \/ child_ends(p) PROVE NtripInv'
  <2>1. UNCHANGED <<enabled, url, pids, main>>
    BY <1>10 DEF child_proceeds, child_ends
  <2> QED
    BY <1>10, <1>t, <2>1, ChildShrinks, ShrinkingIsSafe
<1>11. CASE UNCHANGED sup_vars
  BY <1>11 DEF sup_vars, NtripInv, SupTypeOK, Located, Emptied, Stopped, UrlIsCurrent, Alive, At
<1> QED
  BY <1>1, <1>2, <1>3, <1>4, <1>5, <1>6, <1>7, <1>8, <1>9, <1>10, <1>11 DEF SupNext, SupMain

-----------------------------------------------------------------------------
(* The theorems.                                                           *)

\* The table and the children of ntrip_daemon's settings mode agree as the
\* invariant says, in every order of exits, signals and restarts.
THEOREM SupervisorInvariant == SupSpec => []SupInv
BY SupInitInv, SupStepInv, PTL DEF SupSpec

\* ntrip_daemon never has two live children for one entry; idle, it has every
\* live child in its table, and each runs with the current URL.
THEOREM ChildrenStayInHand == SupSpec => []ChildrenAreInHand
<1>1. SupInv => ChildrenAreInHand
  <2> SUFFICES ASSUME NtripInv, daemon = "ntrip" PROVE ChildrenAreInHand
    BY DEF SupInv, ChildrenAreInHand, ChildrenAreKnown, ClientHasSettings
  <2>1. Count = 2
    BY TwoEntries
  <2>2. ChildrenAreKnown
    <3>1. ASSUME NEW p \in Pids, NEW q \in Pids, Alive(p), Alive(q),
                 child[p].entry = child[q].entry
          PROVE  p = q
      <4>1. NoPid \notin Pids
        BY PidsAssumption, Zenon
      <4> QED
        BY <3>1, <4>1 DEF NtripInv, Located, Emptied
    <3>2. ASSUME At("idle"), NEW p \in Pids, Alive(p)
          PROVE  \E i \in 1 .. Count : pids[i] = p
      BY <2>1, <3>2 DEF NtripInv, Located, At
    <3> QED
      BY <3>1, <3>2 DEF ChildrenAreKnown
  <2>3. ClientHasSettings
    BY DEF ClientHasSettings, NtripInv, UrlIsCurrent
  <2> QED
    BY <2>2, <2>3 DEF ChildrenAreInHand
<1> QED
  BY <1>1, SupervisorInvariant, PTL

-----------------------------------------------------------------------------
(***************************************************************************)
(* ota_daemon, for all versions and URLs and any number of failures,       *)
(* changed offers and writes of settings: what upgrade_tool is given.      *)
(***************************************************************************)

-----------------------------------------------------------------------------
(* The inductive invariant.                                                *)

Offers == Versions \union {BadOffer}
Steps == {"exited", "check", "wait", "enquire_setup", "enquire", "parse", "download_setup",
          "download", "verify"}

OtaStates == [pc : Steps, url : OtaUrls, shutdown : BOOLEAN, parsed : Offers, pos : 0 .. 2]
Contents == [resp : Offers, image : Seq(Versions \X {1, 2}), fd_resp : BOOLEAN, fd_img : BOOLEAN]

OtaTypeOK ==
  /\ offer \in Offers /\ current \in Versions
  /\ files \in Contents
  /\ settings \in [enabled : BOOLEAN, url : OtaUrls]
  /\ ota \in OtaStates

\* From the parsed response to the check of the image, the version the client
\* works on is one the server offered, and not the one that runs.
OfferIsOther ==
  ota.pc \in {"download_setup", "download", "verify"} =>
    ota.parsed \in Versions /\ ota.parsed # current

OtaInv == OtaTypeOK /\ OfferIsOther /\ ToolGetsWholeImages

-----------------------------------------------------------------------------
(* Lemmas.                                                                 *)

\* ota_version_check accepts versions only, and not the running one.
LEMMA AcceptedIsOther ==
  ASSUME NEW v \in Offers, current \in Versions, ota_version_check(v)
  PROVE  v \in Versions /\ v # current
<1>1. v \in Versions
  BY DEF ota_version_check, Offers
<1>2. current.patch - current.patch = 0
  BY VersionsAssumption
<1>3. version_cmp(current, current) = 0
  BY <1>2 DEF version_cmp, Sign
<1>4. ota_dev_version_check(current, current) = 0
  BY DEF ota_dev_version_check
<1> QED
  BY <1>1, <1>3, <1>4 DEF ota_version_check

\* Closing the files keeps their contents.
LEMMA ClosingKeeps ==
  ASSUME OtaTypeOK
  PROVE  /\ FilesClosed(files) \in Contents
         /\ FilesClosed(files).image = files.image
BY Zenon DEF OtaTypeOK, OtaStates, Contents, FilesClosed

\* The halves of an image are halves.
LEMMA ImageParts ==
  ASSUME NEW v \in Versions, NEW n \in 0 .. 2, n < 2
  PROVE  Image(v)[n + 1] \in Versions \X {1, 2}
<1>1. CASE n = 0
  BY <1>1 DEF Image
<1>2. CASE n = 1
  BY <1>2 DEF Image
<1> QED
  BY <1>1, <1>2

-----------------------------------------------------------------------------
(* The invariant holds initially and every step preserves it.              *)

\* The client starts with no offer and no image.
LEMMA OtaInitInv == OtaInit => OtaInv
<1> SUFFICES ASSUME OtaInit PROVE OtaInv
  OBVIOUS
<1>1. files \in Contents
  BY DEF OtaInit, Offers, Contents
<1>2. settings \in [enabled : BOOLEAN, url : OtaUrls]
  BY Zenon DEF OtaInit
<1>3. ota \in OtaStates
  BY <1>2 DEF OtaInit, Offers, Steps, OtaStates
<1> QED
  BY <1>1, <1>2, <1>3 DEF OtaInit, OtaInv, OtaTypeOK, OtaStates, Contents, OfferIsOther,
                          ToolGetsWholeImages, Offers

\* A step of the client keeps the invariant.
LEMMA ClientStepInv ==
  ASSUME OtaInv, OtaClientStep
  PROVE  OtaInv'
<1> USE DEF Goto
<1>t. OtaTypeOK /\ OfferIsOther /\ ToolGetsWholeImages
  BY DEF OtaInv
<1>1. CASE ota_check
  BY <1>1, <1>t, ClosingKeeps DEF ota_check, Exits, OtaInv, OtaTypeOK, OtaStates, Contents,
                                  OfferIsOther,
                                  ToolGetsWholeImages, Steps
<1>2. CASE ota_create_files
  <2>1. files' \in Contents
    BY <1>2 DEF ota_create_files, Offers, Contents
  <2> QED
    BY <1>2, <1>t, <2>1 DEF ota_create_files, OtaInv, OtaTypeOK, OtaStates, Contents, OfferIsOther,
                            ToolGetsWholeImages, Steps
<1>3. CASE ota_network_setup
  BY <1>3, <1>t, Zenon DEF ota_network_setup, OtaInv, OtaTypeOK, OtaStates, Contents, OfferIsOther,
                    ToolGetsWholeImages, Steps
<1>4. CASE ota_request_fails
  BY <1>4, <1>t, ClosingKeeps DEF ota_request_fails, NextRound, OtaInv, OtaTypeOK, OtaStates,
                                  Contents, OfferIsOther,
                                  ToolGetsWholeImages, Steps
<1>5. CASE ota_enquire
  <2>1. files' \in Contents
    BY <1>5, <1>t DEF ota_enquire, OtaTypeOK, OtaStates, Contents, Offers
  <2> QED
    BY <1>5, <1>t, <2>1 DEF ota_enquire, OtaInv, OtaTypeOK, OtaStates, Contents, OfferIsOther,
                            ToolGetsWholeImages, Steps
<1>6. CASE ota_parse_response
  <2>1. CASE ota_version_check(files.resp)
    <3>1. files.resp \in Versions /\ files.resp # current
      BY <2>1, <1>t, AcceptedIsOther DEF OtaTypeOK, OtaStates, Contents
    <3>2. ota' = [ota EXCEPT !.pc = "download_setup", !.parsed = files.resp, !.pos = 0]
          /\ UNCHANGED <<offer, current, files, tool, settings>>
      BY <1>6, <2>1 DEF ota_parse_response
    <3>3. ota' \in OtaStates
          /\ ota'.parsed = files.resp
      <4>1. ota \in OtaStates /\ files.resp \in Offers /\ "download_setup" \in Steps
        BY <1>t, <3>1 DEF OtaTypeOK, OtaStates, Contents, Offers, Steps
      <4>2. ota' = [pc |-> "download_setup", url |-> ota.url, shutdown |-> ota.shutdown,
                    parsed |-> files.resp, pos |-> 0]
        BY <3>2, <4>1, Zenon DEF OtaStates
      <4>3. ota.url \in OtaUrls /\ ota.shutdown \in BOOLEAN
        BY <4>1 DEF OtaStates
      <4> QED
        BY <4>1, <4>2, <4>3 DEF OtaStates
    <3> QED
      BY <1>t, <3>1, <3>2, <3>3 DEF OtaInv, OtaTypeOK, OtaStates, Contents, OfferIsOther,
                                    ToolGetsWholeImages
  <2>2. CASE ~ota_version_check(files.resp)
    BY <1>6, <2>2, <1>t, ClosingKeeps DEF ota_parse_response, NextRound, OtaInv, OtaTypeOK,
                                          OtaStates, Contents,
                                          OfferIsOther, ToolGetsWholeImages, Steps
  <2> QED
    BY <2>1, <2>2
<1>7. CASE ota_download_write
  <2>1. ota.parsed \in Versions /\ ota.pos \in 0 .. 2 /\ ota.pos < 2
    BY <1>7, <1>t DEF ota_download_write, OtaTypeOK, OtaStates, Contents, OfferIsOther
  <2>2. Image(ota.parsed)[ota.pos + 1] \in Versions \X {1, 2}
    BY <2>1, ImageParts
  <2>3. files' \in Contents
    <3>1. Append(files.image, Image(ota.parsed)[ota.pos + 1]) \in Seq(Versions \X {1, 2})
      BY <1>t, <2>2 DEF OtaTypeOK, OtaStates, Contents
    <3>2. files' = [files EXCEPT !.image = Append(files.image, Image(ota.parsed)[ota.pos + 1])]
      BY <1>7 DEF ota_download_write
    <3> QED
      BY <1>t, <3>1, <3>2, Zenon DEF OtaTypeOK, OtaStates, Contents
  <2>4. ota.pos + 1 \in 0 .. 2
    BY <2>1
  <2> QED
    BY <1>7, <1>t, <2>3, <2>4, Zenon DEF ota_download_write, OtaInv, OtaTypeOK, OtaStates, Contents,
                                  OfferIsOther,
                                  ToolGetsWholeImages
<1>8. CASE ota_download_again
  BY <1>8, <1>t DEF ota_download_again, OtaInv, OtaTypeOK, OtaStates, Contents, OfferIsOther,
                    ToolGetsWholeImages
<1>9. CASE ota_download
  BY <1>9, <1>t, ClosingKeeps DEF ota_download, OtaInv, OtaTypeOK, OtaStates, Contents,
                                  OfferIsOther,
                                  ToolGetsWholeImages, Steps
<1>10. CASE ota_upgrade
  <2>1. ota.parsed \in Versions /\ ota.parsed # current
    BY <1>10, <1>t DEF ota_upgrade, OfferIsOther
  <2>2. ToolGetsWholeImages'
    BY <1>10, <1>t, <2>1 DEF ota_upgrade, ToolGetsWholeImages
  <2> QED
    BY <1>10, <1>t, <2>2 DEF ota_upgrade, OtaInv, OtaTypeOK, OtaStates, Contents, OfferIsOther,
                             Steps
<1> QED
  BY <1>1, <1>2, <1>3, <1>4, <1>5, <1>6, <1>7, <1>8, <1>9, <1>10 DEF OtaClientStep

\* So do the settings, the server and upgrade_tool, at any moment.
LEMMA OtaStepInv == OtaInv /\ [OtaNext]_ota_vars => OtaInv'
<1> SUFFICES ASSUME OtaInv, [OtaNext]_ota_vars PROVE OtaInv'
  OBVIOUS
<1>t. OtaTypeOK /\ OfferIsOther /\ ToolGetsWholeImages
  BY DEF OtaInv
<1>1. CASE OtaClientStep
  BY <1>1, ClientStepInv
<1>2. ASSUME NEW v \in BOOLEAN, ota_notify_enable(v) PROVE OtaInv'
  <2>1. settings' \in [enabled : BOOLEAN, url : OtaUrls] /\ UNCHANGED <<offer, current, tool>>
    BY <1>2, <1>t DEF ota_notify_enable, OtaTypeOK, OtaStates, Contents
  <2>2. \/ /\ ota' = [pc |-> "check", url |-> settings.url, shutdown |-> FALSE,
                      parsed |-> BadOffer, pos |-> 0]
           /\ UNCHANGED files
        \/ UNCHANGED <<ota, files>>
        \/ ota' = [ota EXCEPT !.pc = "exited"] /\ files' = FilesClosed(files)
        \/ ota' = [ota EXCEPT !.shutdown = TRUE] /\ UNCHANGED files
    BY <1>2 DEF ota_notify_enable, OtaTerminated, Exits
  <2>3. /\ ota' \in OtaStates
        /\ ota'.pc \in {"check", "exited"} \/ (ota'.pc = ota.pc /\ ota'.parsed = ota.parsed)
    <3>1. /\ ota \in OtaStates /\ settings.url \in OtaUrls /\ BadOffer \in Offers
          /\ "check" \in Steps /\ "exited" \in Steps
      BY <1>t DEF OtaTypeOK, OtaStates, Contents, Offers, Steps
    <3>2. CASE ota' = [pc |-> "check", url |-> settings.url, shutdown |-> FALSE,
                       parsed |-> BadOffer, pos |-> 0]
      BY <3>1, <3>2 DEF OtaStates
    <3>3. CASE ota' = [ota EXCEPT !.pc = "exited"]
      BY <3>1, <3>3 DEF OtaStates
    <3>4. CASE ota' = [ota EXCEPT !.shutdown = TRUE]
      BY <3>1, <3>4, Zenon DEF OtaStates
    <3> QED
      BY <2>2, <3>1, <3>2, <3>3, <3>4
  <2>4. files' \in Contents
    BY <1>t, <2>2, ClosingKeeps DEF OtaTypeOK, OtaStates, Contents
  <2>5. OtaTypeOK'
    BY <1>t, <2>1, <2>3, <2>4 DEF OtaTypeOK, OtaStates, Contents
  <2> QED
    BY <1>t, <2>1, <2>3, <2>5 DEF OtaInv, OfferIsOther, ToolGetsWholeImages
<1>3. ASSUME NEW u \in OtaUrls, ota_notify_generic(u) PROVE OtaInv'
  BY <1>3, <1>t DEF ota_notify_generic, OtaInv, OtaTypeOK, OtaStates, Contents, OfferIsOther,
                    ToolGetsWholeImages
<1>4. ASSUME NEW v \in Versions, server_offers(v) PROVE OtaInv'
  BY <1>4, <1>t DEF server_offers, OtaInv, OtaTypeOK, OtaStates, Contents, OfferIsOther,
                    ToolGetsWholeImages, Offers
<1>5. ASSUME NEW image \in tool, upgrade_tool(image) PROVE OtaInv'
  <2>1. files' \in Contents
    BY <1>5 DEF upgrade_tool, Offers, Contents
  <2>2. current' \in Versions /\ tool' = {} /\ UNCHANGED <<offer, settings>>
    BY <1>5 DEF upgrade_tool
  <2>3. /\ ota' \in OtaStates
        /\ ota'.pc \in {"check", "exited"}
    <3> DEFINE pc == IF settings.enabled THEN "check" ELSE "exited"
    <3>0. pc \in {"check", "exited"}
      OBVIOUS
    <3>1. ota' = [ota EXCEPT !.pc = pc, !.url = settings.url, !.shutdown = FALSE,
                             !.parsed = BadOffer, !.pos = 0]
      BY <1>5 DEF upgrade_tool
    <3> HIDE DEF pc
    <3>2. settings.url \in OtaUrls /\ BadOffer \in Offers /\ ota \in OtaStates /\ pc \in Steps
      BY <1>t, <3>0 DEF OtaTypeOK, Offers, Steps
    <3>3. ota' = [pc |-> pc, url |-> settings.url, shutdown |-> FALSE, parsed |-> BadOffer,
                  pos |-> 0]
      BY <3>1, <3>2, Zenon DEF OtaStates
    <3> QED
      BY <3>0, <3>2, <3>3 DEF OtaStates
  <2> QED
    BY <1>t, <2>1, <2>2, <2>3 DEF OtaInv, OtaTypeOK, OtaStates, Contents, OfferIsOther,
                                  ToolGetsWholeImages
<1>6. CASE UNCHANGED ota_vars
  BY <1>6, <1>t DEF ota_vars, OtaInv, OtaTypeOK, OtaStates, Contents, OfferIsOther,
                    ToolGetsWholeImages
<1> QED
  BY <1>1, <1>2, <1>3, <1>4, <1>5, <1>6 DEF OtaNext

-----------------------------------------------------------------------------
(* The theorems.                                                           *)

\* The version the client works on stays an offered one that does not run,
\* whatever the network, the server and the settings do meanwhile.
THEOREM OtaInvariant == OtaSpec => []OtaInv
BY OtaInitInv, OtaStepInv, PTL DEF OtaSpec

\* upgrade_tool is only given whole images of versions other than the one
\* that runs.
THEOREM ToolAlwaysGetsWholeImages == OtaSpec => []ToolGetsWholeImages
<1>1. OtaInv => ToolGetsWholeImages
  BY DEF OtaInv
<1> QED
  BY <1>1, OtaInvariant, PTL

-----------------------------------------------------------------------------
(***************************************************************************)
(* rpmsg_piksi, for any endpoints, readers and writers and messages of any *)
(* size: what a write puts on the wire.                                    *)
(***************************************************************************)

-----------------------------------------------------------------------------
(* The inductive invariant.                                                *)

RpMessages == [id : 1..MaxRpWrites, off : Nat, size : Nat, attached : BOOLEAN]

RpTypeOK ==
  /\ rpmsg_ept \in [Epts -> BOOLEAN] /\ rpmsg_ready \in [Epts -> BOOLEAN]
  /\ tx_rpmsg_lock \in [Epts -> RpWriters \cup {Nobody}]
  /\ writes \in [RpWriters -> [id : Nat, len : Nat, offset : Nat]]
  /\ wire \in [Epts -> Seq(RpMessages)]
  /\ wrote \in [1..MaxRpWrites -> Int]
  /\ DOMAIN rp_left = {"threads", "writes", "records", "channels", "faults"}
  /\ rp_left.writes \in 0..MaxRpWrites

\* No message of the write is on the wire s.
NoneOf(s, id) == \A i \in 1..Len(s) : s[i].id # id

\* The message before the next one of the write is its last one on s, if it
\* has sent any.
UpToOffset(s, id, offset) ==
  \/ NoneOf(s, id) /\ offset = 0
  \/ Len(s) > 0 /\ s[Len(s)].id = id /\ offset = s[Len(s)].off + s[Len(s)].size

\* A write in progress holds the lock of an endpoint that exists; nothing of
\* it is on the wire of another one.
WriteHolds(w) ==
  /\ tx_rpmsg_lock[RpDevice[w]] = w /\ rpmsg_ept[RpDevice[w]]
  /\ writes[w].id \in 1..MaxRpWrites /\ writes[w].id > rp_left.writes
  /\ wrote[writes[w].id] = Pending
  /\ UpToOffset(wire[RpDevice[w]], writes[w].id, writes[w].offset)
  /\ \A e \in Epts : e # RpDevice[w] => NoneOf(wire[e], writes[w].id)

OwnIds == \A v, w \in RpWriters : v # w /\ Writing(v) /\ Writing(w) => writes[v].id # writes[w].id

\* WritesAreWhole of one message.
MessageFits(s, returned, i) ==
  /\ s[i].attached
  /\ \/ s[i].off = 0 /\ \A j \in 1..i - 1 : s[j].id # s[i].id
     \/ i > 1 /\ s[i - 1].id = s[i].id /\ s[i].off = s[i - 1].off + s[i - 1].size
  /\ returned[s[i].id] >= 0 /\ (\A j \in i + 1..Len(s) : s[j].id # s[i].id)
       => returned[s[i].id] = s[i].off + s[i].size

WireFits(s, returned) == \A i \in 1..Len(s) : MessageFits(s, returned, i)

RpInv ==
  /\ RpTypeOK
  /\ \A e \in Epts : rpmsg_ready[e] = rpmsg_ept[e]
  /\ \A w \in RpWriters : Writing(w) => WriteHolds(w)
  /\ OwnIds
  /\ \A id \in 1..rp_left.writes : wrote[id] = Pending
  /\ \A e \in Epts : \A id \in 1..rp_left.writes : NoneOf(wire[e], id)
  /\ \A e \in Epts : WireFits(wire[e], wrote)

-----------------------------------------------------------------------------
(* Lemmas on one wire.                                                     *)

\* write() returns for a write that has nothing on this wire.
LEMMA ReturnElsewhere ==
  ASSUME NEW s \in Seq(RpMessages), NEW f \in [1..MaxRpWrites -> Int],
         NEW id \in 1..MaxRpWrites, NEW n \in Int, NoneOf(s, id), WireFits(s, f)
  PROVE  WireFits(s, [f EXCEPT ![id] = n])
<1> SUFFICES ASSUME NEW i \in 1..Len(s) PROVE MessageFits(s, [f EXCEPT ![id] = n], i)
  BY Zenon DEF WireFits
<1>0. s[i] \in RpMessages
  OBVIOUS
<1>1. MessageFits(s, f, i) /\ s[i].id # id /\ s[i].id \in 1..MaxRpWrites
  BY <1>0, Zenon DEF WireFits, NoneOf, RpMessages
<1>2. [f EXCEPT ![id] = n][s[i].id] = f[s[i].id]
  BY <1>1
<1> QED
  BY <1>1, <1>2, Zenon DEF MessageFits

\* write() returns what it has sent, or a failure.
LEMMA ReturnHere ==
  ASSUME NEW s \in Seq(RpMessages), NEW f \in [1..MaxRpWrites -> Int],
         NEW id \in 1..MaxRpWrites, NEW offset \in Nat, UpToOffset(s, id, offset),
         NEW n \in {-1, offset}, WireFits(s, f)
  PROVE  WireFits(s, [f EXCEPT ![id] = n])
<1> SUFFICES ASSUME NEW i \in 1..Len(s) PROVE MessageFits(s, [f EXCEPT ![id] = n], i)
  BY Zenon DEF WireFits
<1> DEFINE g == [f EXCEPT ![id] = n]
<1>0. s[i] \in RpMessages
  OBVIOUS
<1>1. MessageFits(s, f, i) /\ s[i].id \in 1..MaxRpWrites /\ Len(s) \in Nat
  BY <1>0, SMTT(40) DEF WireFits, RpMessages
<1>2. CASE s[i].id # id
  <2>1. g[s[i].id] = f[s[i].id]
    BY <1>1, <1>2
  <2> QED
    BY <1>1, <2>1, Zenon DEF MessageFits
<1>3. CASE s[i].id = id
  <2>1. g[id] = n
    OBVIOUS
  <2>2. Len(s) > 0 /\ s[Len(s)].id = id /\ offset = s[Len(s)].off + s[Len(s)].size
    BY <1>3 DEF UpToOffset, NoneOf
  <2>3. i # Len(s) => Len(s) \in i + 1..Len(s)
    BY <1>1
  <2>4. (\A j \in i + 1..Len(s) : s[j].id # s[i].id) => i = Len(s)
    BY <1>3, <2>2, <2>3
  <2>5. g[s[i].id] >= 0 => n = offset
    BY <1>3, <2>1
  <2>6. g[s[i].id] >= 0 /\ (\A j \in i + 1..Len(s) : s[j].id # s[i].id) => g[s[i].id] = s[i].off + s[i].size
    BY <1>3, <2>1, <2>2, <2>4, <2>5
  <2> HIDE DEF g
  <2>7. MessageFits(s, g, i)
    BY <1>1, <2>6, Zenon DEF MessageFits
  <2> QED
    BY <2>7 DEF g
<1> QED
  BY <1>2, <1>3

\* The first message of a write that has not returned.
LEMMA FirstFits ==
  ASSUME NEW t, NEW f, NEW k, t[k].attached, ~(f[t[k].id] >= 0), t[k].off = 0,
         \A j \in 1..k - 1 : t[j].id # t[k].id
  PROVE  MessageFits(t, f, k)
BY Zenon DEF MessageFits

\* A message that goes on where the one before it on the wire ended.
LEMMA NextFits ==
  ASSUME NEW t, NEW f, NEW k, t[k].attached, ~(f[t[k].id] >= 0), k > 1,
         t[k - 1].id = t[k].id, t[k].off = t[k - 1].off + t[k - 1].size
  PROVE  MessageFits(t, f, k)
BY Zenon DEF MessageFits

\* The next message of a write goes out.
LEMMA NextMessage ==
  ASSUME NEW s \in Seq(RpMessages), NEW f \in [1..MaxRpWrites -> Int], NEW m \in RpMessages,
         m.attached, f[m.id] = Pending, UpToOffset(s, m.id, m.off), WireFits(s, f)
  PROVE  /\ WireFits(Append(s, m), f)
         /\ UpToOffset(Append(s, m), m.id, m.off + m.size)
         /\ \A id : NoneOf(s, id) /\ id # m.id => NoneOf(Append(s, m), id)
<1> DEFINE t == Append(s, m)
<1>1. /\ t \in Seq(RpMessages) /\ Len(s) \in Nat /\ Len(t) = Len(s) + 1 /\ t[Len(s) + 1] = m
      /\ \A i \in 1..Len(s) : t[i] = s[i]
  OBVIOUS
<1> HIDE DEF t
<1>2. UpToOffset(t, m.id, m.off + m.size)
  BY <1>1 DEF UpToOffset
<1>3. \A id : NoneOf(s, id) /\ id # m.id => NoneOf(t, id)
  BY <1>1 DEF NoneOf
<1>4. ASSUME NEW i \in 1..Len(s) PROVE MessageFits(t, f, i)
  <2>1. MessageFits(s, f, i) /\ t[i] = s[i] /\ s[i] \in RpMessages /\ i \in Nat
    BY <1>1 DEF WireFits
  <2>2. \A j \in 1..i - 1 : t[j] = s[j]
    BY <1>1
  <2>3. i > 1 => t[i - 1] = s[i - 1]
    BY <1>1, SMTT(40)
  <2>4. \A j \in i + 1..Len(s) : t[j] = s[j] /\ j \in i + 1..Len(t)
    BY <1>1
  <2>5. ASSUME f[t[i].id] >= 0, \A j \in i + 1..Len(t) : t[j].id # t[i].id
        PROVE  f[t[i].id] = t[i].off + t[i].size
    <3>1. \A j \in i + 1..Len(s) : s[j].id # s[i].id
      BY <2>1, <2>4, <2>5
    <3> QED
      BY <2>1, <2>5, <3>1 DEF MessageFits
  <2>6. \/ t[i].off = 0 /\ \A j \in 1..i - 1 : t[j].id # t[i].id
        \/ i > 1 /\ t[i - 1].id = t[i].id /\ t[i].off = t[i - 1].off + t[i - 1].size
    BY <2>1, <2>2, <2>3 DEF MessageFits
  <2> QED
    BY <2>1, <2>5, <2>6, Zenon DEF MessageFits
<1>5. MessageFits(t, f, Len(s) + 1)
  <2>0. PICK k : k = Len(s) + 1 /\ k - 1 = Len(s) /\ t[k] = m
    BY <1>1
  <2>1. ~(f[t[k].id] >= 0) /\ t[k].attached
    BY <2>0 DEF Pending
  <2>2. CASE NoneOf(s, m.id) /\ m.off = 0
    <3>1. \A j \in 1..k - 1 : t[j].id # t[k].id
      BY <1>1, <2>0, <2>2, Zenon DEF NoneOf
    <3>2. t[k].off = 0
      BY <2>0, <2>2, Zenon
    <3>3. MessageFits(t, f, k)
      BY <2>1, <3>1, <3>2, FirstFits, Zenon
    <3> QED
      BY <2>0, <3>3, Zenon
  <2>3. CASE Len(s) > 0 /\ s[Len(s)].id = m.id /\ m.off = s[Len(s)].off + s[Len(s)].size
    <3>1. Len(s) \in 1..Len(s) /\ k > 1
      BY <2>0, <2>3
    <3>2. t[k - 1] = s[Len(s)]
      BY <1>1, <2>0, <3>1, Zenon
    <3>3. t[k - 1].id = t[k].id /\ t[k].off = t[k - 1].off + t[k - 1].size
      BY <2>0, <2>3, <3>2, Zenon
    <3>4. MessageFits(t, f, k)
      BY <2>1, <3>1, <3>3, NextFits, Zenon
    <3> QED
      BY <2>0, <3>4, Zenon
  <2> QED
    BY <2>2, <2>3 DEF UpToOffset
<1>6. WireFits(t, f)
  <2> SUFFICES ASSUME NEW i \in 1..Len(t) PROVE MessageFits(t, f, i)
    BY DEF WireFits
  <2>1. i \in 1..Len(s) \/ i = Len(s) + 1
    BY <1>1
  <2> QED
    BY <1>4, <1>5, <2>1
<1> QED
  BY <1>2, <1>3, <1>6 DEF t

-----------------------------------------------------------------------------
(* The invariant is kept.                                                  *)

\* Steps that leave the writes and the endpoints alone.
LEMMA RpOther ==
  ASSUME RpInv, WriteUnchanged, UNCHANGED <<rpmsg_ept, rpmsg_ready>>,
         DOMAIN rp_left' = DOMAIN rp_left, rp_left'.writes = rp_left.writes
  PROVE  RpInv'
<1>1. RpTypeOK'
  BY DEF RpInv, RpTypeOK, WriteUnchanged, Epts
<1>2. \A w \in RpWriters : Writing(w)' => WriteHolds(w)'
  BY Zenon DEF RpInv, Writing, WriteHolds, WriteUnchanged
<1>3. OwnIds'
  BY Zenon DEF RpInv, OwnIds, Writing, WriteUnchanged
<1> QED
  BY <1>1, <1>2, <1>3 DEF RpInv, WriteUnchanged

\* The same of a step that changes who has a device open.
LEMMA RpStays ==
  ASSUME RpInv, UNCHANGED <<tx_rpmsg_lock, writes, wire, wrote, rpmsg_ept, rpmsg_ready, rp_left>>
  PROVE  RpInv'
BY DEF RpInv, RpTypeOK, Writing, WriteHolds, OwnIds

\* Steps that leave the writes alone and set up or remove an endpoint on
\* which none is in progress.
LEMMA RpEndpoint ==
  ASSUME RpInv, WriteUnchanged, UNCHANGED rp_left, NEW e \in Epts, tx_rpmsg_lock[e] = Nobody,
         NEW b \in BOOLEAN, rpmsg_ept' = [rpmsg_ept EXCEPT ![e] = b],
         rpmsg_ready' = [rpmsg_ready EXCEPT ![e] = b]
  PROVE  RpInv'
<1>1. RpTypeOK'
  BY DEF RpInv, RpTypeOK, WriteUnchanged
<1>2. \A d \in Epts : rpmsg_ready'[d] = rpmsg_ept'[d]
  BY DEF RpInv, RpTypeOK
<1>3. ASSUME NEW w \in RpWriters, Writing(w)' PROVE WriteHolds(w)'
  <2>1. Writing(w) /\ WriteHolds(w) /\ RpDevice[w] \in Epts
    BY <1>3, RpAssumption DEF RpInv, Writing, WriteUnchanged, Epts
  <2>2. RpDevice[w] # e
    BY <2>1, RpAssumption, Zenon DEF WriteHolds, Nobody
  <2>3. rpmsg_ept'[RpDevice[w]] = rpmsg_ept[RpDevice[w]]
    BY <2>1, <2>2 DEF RpInv, RpTypeOK
  <2> QED
    BY <2>1, <2>3, Zenon DEF WriteHolds, WriteUnchanged
<1>4. OwnIds'
  BY DEF RpInv, OwnIds, Writing, WriteUnchanged
<1> QED
  BY <1>1, <1>2, <1>3, <1>4 DEF RpInv, WriteUnchanged

\* The fields of a write.
LEMMA WriteFields ==
  ASSUME NEW r, NEW i, NEW l, NEW o, r = [id |-> i, len |-> l, offset |-> o]
  PROVE  r.id = i /\ r.len = l /\ r.offset = o
OBVIOUS

\* A write that begins has its type.
LEMMA WriteIsRecord ==
  ASSUME NEW i \in Nat, NEW l \in Nat
  PROVE  [id |-> i, len |-> l, offset |-> 0] \in [id : Nat, len : Nat, offset : Nat]
OBVIOUS

\* A message is added to the wire.
LEMMA WireGrows ==
  ASSUME NEW s \in Seq(RpMessages), NEW m \in RpMessages
  PROVE  Append(s, m) \in Seq(RpMessages)
OBVIOUS

\* A message is no longer than what is left to send.
LEMMA ChunkFits ==
  ASSUME NEW w, writes[w].len \in Nat
  PROVE  ChunkSize(w) \in Nat /\ writes[w].len - ChunkSize(w) \in Nat
BY RpAssumption DEF ChunkSize

\* An id that is left is one of all.
LEMMA IdInRange ==
  ASSUME NEW n \in 0..MaxRpWrites, NEW k \in 1..n
  PROVE  k \in 1..MaxRpWrites
BY RpAssumption

\* An id greater than the next one is not it, and greater than those after.
LEMMA EarlierId ==
  ASSUME NEW i \in Nat, NEW k \in Nat, i > k
  PROVE  i # k /\ i > k - 1
OBVIOUS

\* An id that is left is not one that was taken.
LEMMA LeftId ==
  ASSUME NEW n \in Nat, NEW k \in 1..n, NEW i \in Nat, i > n
  PROVE  k # i
OBVIOUS

\* What a write returns is an integer.
LEMMA ReturnedIsInt ==
  ASSUME NEW o \in Nat, NEW n \in {-1, o}
  PROVE  n \in Int
OBVIOUS

\* The offset after a message.
LEMMA SumIsNat ==
  ASSUME NEW x \in Nat, NEW y \in Nat
  PROVE  x + y \in Nat
OBVIOUS

\* A fault uses up none of the writes.
LEMMA RpFault ==
  ASSUME RpInv, Fault
  PROVE  DOMAIN rp_left' = DOMAIN rp_left /\ rp_left'.writes = rp_left.writes
BY DEF RpInv, RpTypeOK, Fault

\* write() begins, or drops what it was given.
LEMMA RpWriteBegins ==
  ASSUME RpInv, NEW w \in RpWriters, NEW len \in RpLengths, ept_cdev_write(w, len)
  PROVE  RpInv'
<1> DEFINE d == RpDevice[w]
           id == rp_left.writes
<1>0. /\ d \in Epts /\ id \in 1..MaxRpWrites /\ len \in Nat /\ ~Writing(w)
      /\ UNCHANGED <<rpmsg_ept, rpmsg_ready, wire>>
  BY RpAssumption DEF ept_cdev_write, RpInv, RpTypeOK, BusUnchanged, Epts
<1>05. id \in Nat
  BY <1>0, RpAssumption
<1>1. DOMAIN rp_left' = DOMAIN rp_left /\ rp_left'.writes = id - 1
  BY DEF ept_cdev_write, RpInv, RpTypeOK
<1>15. rp_left'.writes \in 0..MaxRpWrites /\ \A k \in 1..rp_left'.writes : k \in 1..rp_left.writes /\ k # id /\ k \in 1..MaxRpWrites
  BY <1>0, <1>1, RpAssumption
<1>2. \A e \in Epts : \A k \in 1..rp_left'.writes : NoneOf(wire'[e], k)
  <2>1. \A k \in 1..rp_left'.writes : k \in 1..rp_left.writes
    BY <1>0, <1>1
  <2> QED
    BY <1>0, <2>1, Zenon DEF RpInv
<1>3. \A e \in Epts : NoneOf(wire[e], id)
  <2>1. id \in 1..rp_left.writes
    BY <1>0
  <2> QED
    BY <2>1 DEF RpInv
<1>4. wrote[id] = Pending
  <2>1. id \in 1..rp_left.writes
    BY <1>0
  <2> QED
    BY <2>1 DEF RpInv
<1>5. ASSUME NEW v \in RpWriters, Writing(v) PROVE WriteHolds(v) /\ writes[v].id > id
  BY <1>5, Zenon DEF RpInv, WriteHolds
<1>6. CASE rpmsg_ready[d]
  <2>1. /\ writes' = [writes EXCEPT ![w] = [id |-> id, len |-> len, offset |-> 0]]
        /\ tx_rpmsg_lock' = [tx_rpmsg_lock EXCEPT ![d] = w]
        /\ wrote' = wrote /\ tx_rpmsg_lock[d] = Nobody
    BY <1>6 DEF ept_cdev_write
  <2>2. RpTypeOK'
    <3>1. [id |-> id, len |-> len, offset |-> 0] \in [id : Nat, len : Nat, offset : Nat]
      BY <1>0, <1>05, WriteIsRecord, Zenon
    <3> QED
      BY <1>0, <1>1, <1>15, <2>1, <3>1, Zenon DEF RpInv, RpTypeOK
  <2>3. /\ writes'[w] = [id |-> id, len |-> len, offset |-> 0]
        /\ \A v \in RpWriters : v # w => writes'[v] = writes[v]
        /\ tx_rpmsg_lock'[d] = w /\ \A e \in Epts : e # d => tx_rpmsg_lock'[e] = tx_rpmsg_lock[e]
    BY <1>0, <2>1, Zenon DEF RpInv, RpTypeOK
  <2>4. WriteHolds(w)'
    <3>1. UpToOffset(wire'[d], id, 0)
      BY <1>0, <1>3, Zenon DEF UpToOffset
    <3>2. rpmsg_ept'[d]
      BY <1>0, <1>6 DEF RpInv
    <3>3. \A e \in Epts : NoneOf(wire'[e], id)
      BY <1>0, <1>3
    <3>4. wrote'[id] = Pending
      BY <1>4, <2>1, Zenon
    <3>5. id > rp_left'.writes
      BY <1>05, <1>1
    <3>6. writes'[w].id = id /\ writes'[w].offset = 0
      <4>1. writes'[w] = [id |-> id, len |-> len, offset |-> 0]
        BY <2>3, Zenon
      <4> QED
        BY <4>1, WriteFields
    <3> QED
      BY <1>0, <2>3, <3>1, <3>2, <3>3, <3>4, <3>5, <3>6, Zenon DEF WriteHolds
  <2>5. ASSUME NEW v \in RpWriters, v # w, Writing(v)' PROVE Writing(v) /\ WriteHolds(v)'
    <3>1. Writing(v) /\ writes'[v] = writes[v] /\ RpDevice[v] \in Epts
      BY <2>3, <2>5, RpAssumption, Zenon DEF Writing, Epts
    <3>2. RpDevice[v] # d
      <4>1. tx_rpmsg_lock[RpDevice[v]] = v
        BY <1>5, <3>1, Zenon DEF WriteHolds
      <4>2. tx_rpmsg_lock[d] = Nobody
        BY <2>1, Zenon
      <4>3. v # Nobody
        BY RpAssumption DEF Nobody
      <4> QED
        BY <4>1, <4>2, <4>3, Zenon
    <3>3. tx_rpmsg_lock'[RpDevice[v]] = tx_rpmsg_lock[RpDevice[v]]
      BY <2>3, <3>1, <3>2, Zenon
    <3>4. writes[v].id > rp_left'.writes
      <4>1. writes[v].id \in Nat /\ writes[v].id > id
        BY <1>5, <3>1, Zenon DEF RpInv, RpTypeOK
      <4> QED
        BY <1>05, <1>1, <4>1, EarlierId, Zenon
    <3> QED
      BY <1>0, <1>5, <2>1, <3>1, <3>3, <3>4, Zenon DEF WriteHolds
  <2>6. OwnIds'
    <3> SUFFICES ASSUME NEW u \in RpWriters, NEW v \in RpWriters, u # v, Writing(u)', Writing(v)'
                 PROVE  writes'[u].id # writes'[v].id
      BY DEF OwnIds
    <3>0. writes'[w].id = id
      <4>1. writes'[w] = [id |-> id, len |-> len, offset |-> 0]
        BY <2>3, Zenon
      <4> QED
        BY <4>1, WriteFields
    <3>1. \A x \in RpWriters : x # w /\ Writing(x)' => writes'[x].id = writes[x].id /\ writes[x].id # id /\ Writing(x)
      <4> SUFFICES ASSUME NEW x \in RpWriters, x # w, Writing(x)'
                   PROVE  writes'[x].id = writes[x].id /\ writes[x].id # id /\ Writing(x)
        BY Zenon
      <4>1. Writing(x) /\ writes'[x] = writes[x]
        BY <2>3, <2>5, Zenon
      <4>2. writes[x].id > id /\ writes[x].id \in Nat
        BY <1>5, <4>1, Zenon DEF RpInv, RpTypeOK
      <4> QED
        BY <1>05, <4>1, <4>2, EarlierId, Zenon
    <3>2. OwnIds
      BY Zenon DEF RpInv
    <3> QED
      BY <3>0, <3>1, <3>2, Zenon DEF OwnIds
  <2>7. \A k \in 1..rp_left'.writes : wrote'[k] = Pending
    BY <1>15, <2>1, Zenon DEF RpInv
  <2>8. \A v \in RpWriters : Writing(v)' => WriteHolds(v)'
    BY <2>4, <2>5
  <2> QED
    BY <1>0, <1>2, <2>1, <2>2, <2>6, <2>7, <2>8, Zenon DEF RpInv
<1>7. CASE ~rpmsg_ready[d]
  <2>1. wrote' = [wrote EXCEPT ![id] = len] /\ UNCHANGED <<writes, tx_rpmsg_lock>>
    BY <1>7 DEF ept_cdev_write
  <2>2. RpTypeOK'
    BY <1>0, <1>1, <1>15, <2>1 DEF RpInv, RpTypeOK
  <2>3. \A k \in 1..MaxRpWrites : k # id => wrote'[k] = wrote[k]
    BY <2>1 DEF RpInv, RpTypeOK
  <2>4. ASSUME NEW v \in RpWriters, Writing(v)' PROVE WriteHolds(v)'
    <3>1. Writing(v)
      BY <2>1, <2>4 DEF Writing
    <3>2. WriteHolds(v) /\ writes[v].id > id /\ writes[v].id \in Nat /\ writes[v].id \in 1..MaxRpWrites
      BY <1>5, <3>1, Zenon DEF RpInv, RpTypeOK, WriteHolds
    <3>3. writes[v].id # id /\ writes[v].id > id - 1
      <4>1. writes[v].id > id /\ writes[v].id \in Nat
        BY <3>2, Zenon
      <4> QED
        BY <1>05, <4>1, EarlierId, Zenon
    <3>4. wrote'[writes[v].id] = wrote[writes[v].id]
      BY <2>3, <3>2, <3>3, Zenon
    <3> QED
      BY <1>0, <1>1, <2>1, <3>2, <3>3, <3>4, Zenon DEF WriteHolds
  <2>5. OwnIds'
    BY <2>1, Zenon DEF RpInv, OwnIds, Writing
  <2>6. \A k \in 1..rp_left'.writes : wrote'[k] = Pending
    BY <1>15, <2>3, Zenon DEF RpInv
  <2>7. ASSUME NEW e \in Epts PROVE WireFits(wire'[e], wrote')
    <3>1. wire[e] \in Seq(RpMessages) /\ wrote \in [1..MaxRpWrites -> Int] /\ WireFits(wire[e], wrote)
      BY DEF RpInv, RpTypeOK
    <3>2. len \in Int
      BY <1>0
    <3> QED
      BY <1>0, <1>3, <2>1, <3>1, <3>2, ReturnElsewhere, Zenon
  <2> QED
    BY <1>0, <1>2, <2>2, <2>4, <2>5, <2>6, <2>7, Zenon DEF RpInv
<1> QED
  BY <1>6, <1>7

\* What the invariant says of a write in progress.
LEMMA RpKnown ==
  ASSUME RpInv, NEW w \in RpWriters, Writing(w)
  PROVE  /\ RpDevice[w] \in Epts /\ WriteHolds(w)
         /\ writes[w].offset \in Nat /\ writes[w].len \in Nat
         /\ writes[w].id \in 1..MaxRpWrites /\ writes[w].id \in Nat
         /\ writes[w].id > rp_left.writes /\ rp_left.writes \in Nat
<1>1. WriteHolds(w)
  BY DEF RpInv
<1>2. RpDevice[w] \in Epts
  BY RpAssumption DEF Epts
<1>3. writes[w] \in [id : Nat, len : Nat, offset : Nat] /\ rp_left.writes \in Nat
  BY DEF RpInv, RpTypeOK
<1>4. writes[w].id \in 1..MaxRpWrites /\ writes[w].id > rp_left.writes
  BY <1>1, Zenon DEF WriteHolds
<1> QED
  BY <1>1, <1>2, <1>3, <1>4, Zenon

\* write() returns what it has sent, or a failure.
LEMMA RpWriteReturns ==
  ASSUME RpInv, NEW w \in RpWriters, Writing(w), NEW n \in {-1, writes[w].offset}, WriteReturns(w, n),
         UNCHANGED <<rpmsg_ept, rpmsg_ready, wire>>,
         DOMAIN rp_left' = DOMAIN rp_left, rp_left'.writes = rp_left.writes
  PROVE  RpInv'
<1> DEFINE d == RpDevice[w]
           id == writes[w].id
<1>0. /\ d \in Epts /\ id \in 1..MaxRpWrites /\ id \in Nat /\ id > rp_left.writes /\ rp_left.writes \in Nat
      /\ n \in Int /\ WriteHolds(w) /\ writes[w].offset \in Nat
  <2>1. writes[w].offset \in Nat
    BY RpKnown, Zenon
  <2>2. n \in Int
    BY <2>1, ReturnedIsInt, Zenon
  <2> QED
    BY <2>1, <2>2, RpKnown, Zenon
<1>1. /\ wrote' = [wrote EXCEPT ![id] = n] /\ writes' = [writes EXCEPT ![w] = NotWriting]
      /\ tx_rpmsg_lock' = [tx_rpmsg_lock EXCEPT ![d] = Nobody]
  BY Zenon DEF WriteReturns
<1>2. RpTypeOK'
  BY <1>0, <1>1, Zenon DEF RpInv, RpTypeOK, NotWriting
<1>3. /\ \A k \in 1..MaxRpWrites : k # id => wrote'[k] = wrote[k]
      /\ writes'[w] = NotWriting /\ \A v \in RpWriters : v # w => writes'[v] = writes[v]
      /\ \A e \in Epts : e # d => tx_rpmsg_lock'[e] = tx_rpmsg_lock[e]
  BY <1>1, Zenon DEF RpInv, RpTypeOK
<1>4. ASSUME NEW v \in RpWriters, Writing(v)' PROVE v # w /\ Writing(v) /\ WriteHolds(v)'
  <2>1. v # w
    BY <1>3, <1>4, Zenon DEF Writing
  <2>2. Writing(v) /\ writes'[v] = writes[v]
    BY <1>3, <1>4, <2>1 DEF Writing
  <2>3. WriteHolds(v) /\ writes[v].id \in 1..MaxRpWrites /\ writes[v].id # id /\ RpDevice[v] \in Epts
    BY <2>1, <2>2, RpAssumption, Zenon DEF RpInv, OwnIds, WriteHolds, Epts
  <2>4. RpDevice[v] # d
    BY <1>0, <2>1, <2>3, Zenon DEF WriteHolds
  <2>5. wrote'[writes[v].id] = wrote[writes[v].id] /\ tx_rpmsg_lock'[RpDevice[v]] = tx_rpmsg_lock[RpDevice[v]]
    BY <1>3, <2>3, <2>4, Zenon
  <2> QED
    BY <2>1, <2>2, <2>3, <2>5, Zenon DEF WriteHolds
<1>5. OwnIds'
  <2>1. \A v \in RpWriters : Writing(v)' => Writing(v) /\ writes'[v].id = writes[v].id
    BY <1>3, <1>4, Zenon
  <2> SUFFICES ASSUME NEW u \in RpWriters, NEW v \in RpWriters, u # v, Writing(u)', Writing(v)'
               PROVE  writes'[u].id # writes'[v].id
    BY Zenon DEF OwnIds
  <2>2. OwnIds
    BY Zenon DEF RpInv
  <2> QED
    BY <2>1, <2>2, Zenon DEF OwnIds
<1>6. \A k \in 1..rp_left'.writes : wrote'[k] = Pending
  <2> SUFFICES ASSUME NEW k \in 1..rp_left'.writes PROVE wrote'[k] = Pending
    OBVIOUS
  <2>1. rp_left.writes \in 0..MaxRpWrites
    BY DEF RpInv, RpTypeOK
  <2>2. k \in 1..rp_left.writes /\ k # id /\ k \in 1..MaxRpWrites
    <3>1. k \in 1..rp_left.writes
      BY Zenon
    <3>2. id \in Nat /\ id > rp_left.writes
      BY <1>0, Zenon
    <3>3. k # id
      BY <1>0, <3>1, LeftId
    <3> QED
      BY <2>1, <3>1, <3>3, IdInRange, Zenon
  <2> QED
    BY <1>3, <2>2 DEF RpInv
<1>7. ASSUME NEW e \in Epts PROVE WireFits(wire'[e], wrote')
  <2>1. wire[e] \in Seq(RpMessages) /\ wrote \in [1..MaxRpWrites -> Int] /\ WireFits(wire[e], wrote)
    BY DEF RpInv, RpTypeOK
  <2>2. CASE e = d
    <3>1. UpToOffset(wire[e], id, writes[w].offset)
      BY <1>0, <2>2, Zenon DEF WriteHolds
    <3> QED
      BY <1>0, <1>1, <2>1, <3>1, ReturnHere, Zenon
  <2>3. CASE e # d
    <3>1. NoneOf(wire[e], id)
      BY <1>0, <2>3, Zenon DEF WriteHolds
    <3> QED
      BY <1>0, <1>1, <2>1, <3>1, ReturnElsewhere, Zenon
  <2> QED
    BY <2>2, <2>3, Zenon
<1>8. \A v \in RpWriters : Writing(v)' => WriteHolds(v)'
  BY <1>4
<1>9. \A e \in Epts : \A k \in 1..rp_left'.writes : NoneOf(wire'[e], k)
  BY Zenon DEF RpInv
<1> QED
  BY <1>2, <1>5, <1>6, <1>7, <1>8, <1>9, Zenon DEF RpInv

\* A message of a write is sent.
MessageGoes(w) ==
  /\ wire' = [wire EXCEPT ![RpDevice[w]] = Append(@,
                 [id |-> writes[w].id, off |-> writes[w].offset, size |-> ChunkSize(w),
                  attached |-> rpmsg_ept[RpDevice[w]]])]
  /\ writes' = [writes EXCEPT ![w] = [id |-> @.id, len |-> @.len - ChunkSize(w), offset |-> @.offset + ChunkSize(w)]]
  /\ UNCHANGED <<wrote, tx_rpmsg_lock, rp_left>>

\* A message that is sent keeps the invariant.
LEMMA RpMessageGoes ==
  ASSUME RpInv, NEW w \in RpWriters, Writing(w), MessageGoes(w), UNCHANGED <<rpmsg_ept, rpmsg_ready>>
  PROVE  RpInv'
<1> DEFINE d == RpDevice[w]
           id == writes[w].id
           m == [id |-> id, off |-> writes[w].offset, size |-> ChunkSize(w), attached |-> rpmsg_ept[d]]
<1>0. /\ d \in Epts /\ WriteHolds(w) /\ writes[w].offset \in Nat /\ writes[w].len \in Nat
      /\ id \in 1..MaxRpWrites /\ id \in Nat /\ id > rp_left.writes /\ rp_left.writes \in Nat
  BY RpKnown, Zenon
<1>u. UNCHANGED <<wrote, tx_rpmsg_lock, rp_left>>
  BY DEF MessageGoes
<1>1. ChunkSize(w) \in Nat /\ writes[w].len - ChunkSize(w) \in Nat
  <2>1. writes[w].len \in Nat
    BY <1>0
  <2> QED
    BY <2>1, ChunkFits, Zenon
<1>2. m \in RpMessages /\ m.attached /\ m.id = id /\ m.off = writes[w].offset /\ m.size = ChunkSize(w)
  BY <1>0, <1>1, Zenon DEF RpMessages, RpInv, RpTypeOK, WriteHolds
<1>3. /\ wire'[d] = Append(wire[d], m) /\ \A e \in Epts : e # d => wire'[e] = wire[e]
      /\ wire[d] \in Seq(RpMessages) /\ wrote \in [1..MaxRpWrites -> Int] /\ WireFits(wire[d], wrote)
  BY <1>0, Zenon DEF MessageGoes, RpInv, RpTypeOK
<1>4. /\ writes'[w].id = id /\ writes'[w].offset = writes[w].offset + ChunkSize(w)
      /\ writes'[w].len = writes[w].len - ChunkSize(w)
      /\ \A v \in RpWriters : v # w => writes'[v] = writes[v]
  <2>1. writes \in [RpWriters -> [id : Nat, len : Nat, offset : Nat]]
    BY DEF RpInv, RpTypeOK
  <2> QED
    BY <2>1, Zenon DEF MessageGoes
<1>5. writes' \in [RpWriters -> [id : Nat, len : Nat, offset : Nat]]
  <2>1. writes' = [writes EXCEPT ![w] = [id |-> id, len |-> writes[w].len - ChunkSize(w),
                                         offset |-> writes[w].offset + ChunkSize(w)]]
    BY DEF MessageGoes
  <2>2. writes \in [RpWriters -> [id : Nat, len : Nat, offset : Nat]]
    BY DEF RpInv, RpTypeOK
  <2>3. id \in Nat /\ writes[w].offset + ChunkSize(w) \in Nat
    <3>1. id \in Nat /\ writes[w].offset \in Nat /\ ChunkSize(w) \in Nat
      BY <1>0, <1>1, Zenon
    <3> QED
      BY <3>1, SumIsNat, Zenon
  <2> QED
    BY <1>1, <2>1, <2>2, <2>3
<1>6. wire' \in [Epts -> Seq(RpMessages)]
  <2> HIDE DEF m
  <2>1. wire' = [wire EXCEPT ![d] = Append(wire[d], m)]
    BY DEF m, MessageGoes
  <2>2. Append(wire[d], m) \in Seq(RpMessages)
    BY <1>2, <1>3, WireGrows, Zenon
  <2>3. wire \in [Epts -> Seq(RpMessages)]
    BY DEF RpInv, RpTypeOK
  <2> QED
    BY <2>1, <2>2, <2>3, Zenon
<1>7. RpTypeOK'
  BY <1>5, <1>6, <1>u DEF RpInv, RpTypeOK
<1> HIDE DEF m
<1>8. /\ WireFits(wire'[d], wrote) /\ UpToOffset(wire'[d], id, writes'[w].offset)
      /\ \A k : NoneOf(wire[d], k) /\ k # id => NoneOf(wire'[d], k)
  <2>1. wrote[m.id] = Pending /\ UpToOffset(wire[d], m.id, m.off)
    BY <1>0, <1>2, Zenon DEF WriteHolds
  <2>2. /\ WireFits(Append(wire[d], m), wrote)
        /\ UpToOffset(Append(wire[d], m), m.id, m.off + m.size)
        /\ \A k : NoneOf(wire[d], k) /\ k # m.id => NoneOf(Append(wire[d], m), k)
    BY <1>2, <1>3, <2>1, NextMessage, Zenon
  <2>3. m.off + m.size = writes'[w].offset
    BY <1>2, <1>4, Zenon
  <2> QED
    BY <1>2, <1>3, <2>2, <2>3, Zenon
<1>9. WriteHolds(w)'
  BY <1>0, <1>3, <1>4, <1>8, <1>u, Zenon DEF WriteHolds
<1>10. ASSUME NEW v \in RpWriters, v # w, Writing(v)' PROVE Writing(v) /\ WriteHolds(v)'
  <2>1. Writing(v) /\ writes'[v] = writes[v]
    BY <1>4, <1>10, Zenon DEF Writing
  <2>2. WriteHolds(v) /\ writes[v].id # id /\ RpDevice[v] \in Epts
    BY <1>10, <2>1, RpAssumption, Zenon DEF RpInv, OwnIds, Epts
  <2>3. RpDevice[v] # d
    BY <1>0, <1>10, <2>2, Zenon DEF WriteHolds
  <2>4. wire'[RpDevice[v]] = wire[RpDevice[v]]
    BY <1>3, <2>2, <2>3, Zenon
  <2>5. \A e \in Epts : e # RpDevice[v] => NoneOf(wire'[e], writes[v].id)
    BY <1>3, <1>8, <2>2, Zenon DEF WriteHolds
  <2> QED
    BY <1>u, <2>1, <2>2, <2>4, <2>5, Zenon DEF WriteHolds
<1>11. OwnIds'
  <2>1. \A v \in RpWriters : Writing(v)' => Writing(v) /\ writes'[v].id = writes[v].id
    BY <1>4, <1>10, Zenon
  <2> SUFFICES ASSUME NEW u \in RpWriters, NEW v \in RpWriters, u # v, Writing(u)', Writing(v)'
               PROVE  writes'[u].id # writes'[v].id
    BY DEF OwnIds
  <2>2. OwnIds
    BY Zenon DEF RpInv
  <2> QED
    BY <2>1, <2>2, Zenon DEF OwnIds
<1>12. \A e \in Epts : WireFits(wire'[e], wrote')
  BY <1>3, <1>8, <1>u, Zenon DEF RpInv
<1>13. \A e \in Epts : \A k \in 1..rp_left'.writes : NoneOf(wire'[e], k)
  <2> SUFFICES ASSUME NEW e \in Epts, NEW k \in 1..rp_left.writes PROVE NoneOf(wire'[e], k)
    BY <1>u
  <2>1. NoneOf(wire[e], k) /\ k # id
    <3>1. NoneOf(wire[e], k)
      BY DEF RpInv
    <3>2. id \in Nat /\ id > rp_left.writes /\ rp_left.writes \in Nat
      BY <1>0, Zenon
    <3>3. k # id
      BY <3>2, LeftId
    <3> QED
      BY <3>1, <3>3, Zenon
  <2> QED
    BY <1>3, <1>8, <2>1, Zenon
<1>14. \A v \in RpWriters : Writing(v)' => WriteHolds(v)'
  BY <1>9, <1>10
<1> QED
  BY <1>7, <1>11, <1>12, <1>13, <1>14, <1>u, Zenon DEF RpInv

\* Every step of the driver, its users and its bus keeps the invariant.
LEMMA RpStep ==
  ASSUME RpInv, [RpNext]_rp_vars
  PROVE  RpInv'
<1>0. ASSUME rp_left' = rp_left PROVE DOMAIN rp_left' = DOMAIN rp_left /\ rp_left'.writes = rp_left.writes
  BY <1>0
<1>1. CASE UNCHANGED rp_vars
  BY <1>0, <1>1, RpOther DEF rp_vars, WriteUnchanged
<1>2. CASE init
  <2>1. rp_left' = rp_left \/ Fault
    BY <1>2 DEF init
  <2>2. WriteUnchanged /\ UNCHANGED <<rpmsg_ept, rpmsg_ready>>
    BY <1>2 DEF init, WriteUnchanged
  <2> QED
    BY <1>0, <2>1, <2>2, RpFault, RpOther
<1>3. CASE fini
  BY <1>0, <1>3, RpOther DEF fini
<1>4. CASE announce
  <2>1. DOMAIN rp_left' = DOMAIN rp_left /\ rp_left'.writes = rp_left.writes
    BY <1>4 DEF announce, RpInv, RpTypeOK
  <2> QED
    BY <1>4, <2>1, RpOther DEF announce
<1>5. CASE drv_probe
  BY <1>0, <1>5, RpOther DEF drv_probe
<1>6. CASE channel_gone
  BY <1>0, <1>6, RpOther DEF channel_gone
<1>7. ASSUME NEW t \in RpReaders \cup RpWriters, ept_cdev_open(t) \/ ept_cdev_release(t) PROVE RpInv'
  <2>1. UNCHANGED <<tx_rpmsg_lock, writes, wire, wrote, rpmsg_ept, rpmsg_ready, rp_left>>
    BY <1>7, Zenon DEF ept_cdev_open, ept_cdev_release, BusUnchanged
  <2> QED
    BY <2>1, RpStays
<1>8. ASSUME NEW w \in RpWriters, ept_cdev_write_steps(w) PROVE RpInv'
  <2>1. CASE write_chunk(w)
    <3>0. /\ Writing(w) /\ BusUnchanged
          /\ \/ MessageGoes(w)
             \/ Fault /\ WriteReturns(w, -1) /\ UNCHANGED wire
      BY <2>1, Zenon DEF write_chunk, MessageGoes
    <3>1. /\ Writing(w) /\ UNCHANGED <<rpmsg_ept, rpmsg_ready>>
          /\ \/ MessageGoes(w)
             \/ Fault /\ WriteReturns(w, -1) /\ UNCHANGED wire
      BY <3>0 DEF BusUnchanged
    <3>2. CASE Fault /\ WriteReturns(w, -1) /\ UNCHANGED wire
      BY <3>1, <3>2, RpFault, RpWriteReturns, Zenon
    <3> QED
      BY <3>1, <3>2, RpMessageGoes
  <2>2. CASE write_done(w)
    <3>1. /\ Writing(w) /\ WriteReturns(w, writes[w].offset) /\ rp_left' = rp_left
          /\ UNCHANGED <<rpmsg_ept, rpmsg_ready, wire>>
      BY <2>2 DEF write_done, BusUnchanged
    <3> QED
      BY <1>0, <3>1, RpWriteReturns, Zenon
  <2> QED
    BY <1>8, <2>1, <2>2 DEF ept_cdev_write_steps
<1>9. ASSUME NEW w \in RpWriters, NEW len \in RpLengths, ept_cdev_write(w, len) PROVE RpInv'
  BY <1>9, RpWriteBegins
<1>10. ASSUME NEW r \in RpReaders, ept_cdev_read(r) \/ wait_event(r) \/ read_interrupted(r) PROVE RpInv'
  <2>1. WriteUnchanged /\ UNCHANGED <<rpmsg_ept, rpmsg_ready>> /\ rp_left' = rp_left
    BY <1>10, Zenon DEF ept_cdev_read, wait_event, read_interrupted, BusUnchanged
  <2> QED
    BY <1>0, <2>1, RpOther
<1>11. ASSUME NEW e \in Epts, ept_rpmsg_setup(e) PROVE RpInv'
  <2>1. CASE Fault /\ UNCHANGED <<rpmsg_ept, rpmsg_ready>>
    BY <1>11, <2>1, RpFault, RpOther DEF ept_rpmsg_setup
  <2>2. CASE /\ tx_rpmsg_lock[e] = Nobody /\ UNCHANGED rp_left
             /\ rpmsg_ept' = [rpmsg_ept EXCEPT ![e] = TRUE]
             /\ rpmsg_ready' = [rpmsg_ready EXCEPT ![e] = TRUE]
    BY <1>11, <2>2, RpEndpoint, Zenon DEF ept_rpmsg_setup
  <2> QED
    BY <1>11, <2>1, <2>2 DEF ept_rpmsg_setup
<1>12. ASSUME NEW e \in Epts, probe_undo(e) \/ drv_remove(e) PROVE RpInv'
  <2>1. ept_rpmsg_remove(e) /\ WriteUnchanged /\ UNCHANGED rp_left
    BY <1>12 DEF probe_undo, drv_remove
  <2> QED
    BY <2>1, RpEndpoint, Zenon DEF ept_rpmsg_remove
<1>13. ASSUME NEW e \in Epts, NEW len \in RpRecords, ept_rpmsg_cb(e, len) PROVE RpInv'
  <2>1. DOMAIN rp_left' = DOMAIN rp_left /\ rp_left'.writes = rp_left.writes
    BY <1>13 DEF ept_rpmsg_cb, RpInv, RpTypeOK
  <2> QED
    BY <1>13, <2>1, RpOther DEF ept_rpmsg_cb, BusUnchanged
<1> QED
  BY <1>1, <1>2, <1>3, <1>4, <1>5, <1>6, <1>7, <1>8, <1>9, <1>10, <1>11, <1>12, <1>13 DEF RpNext

\* The invariant holds of the driver, whatever its users write and however
\* often the channel comes and goes.
THEOREM RpmsgInvariant == RpSpec => []RpInv
<1>1. RpInit => RpInv
  <2> SUFFICES ASSUME RpInit PROVE RpInv
    OBVIOUS
  <2>1. RpTypeOK
    BY RpAssumption DEF RpInit, RpTypeOK, NotWriting, Pending
  <2>2. \A w \in RpWriters : ~Writing(w)
    BY DEF RpInit, Writing
  <2>3. \A e \in Epts : wire[e] = << >> /\ Len(wire[e]) = 0
    BY DEF RpInit
  <2>4. \A id \in 1..rp_left.writes : wrote[id] = Pending
    <3>1. rp_left.writes \in 0..MaxRpWrites
      BY <2>1 DEF RpTypeOK
    <3>2. \A id \in 1..rp_left.writes : id \in 1..MaxRpWrites
      BY <3>1, RpAssumption
    <3> QED
      BY <3>2 DEF RpInit
  <2>5. \A e \in Epts : rpmsg_ready[e] = rpmsg_ept[e]
    BY DEF RpInit
  <2>6. \A e \in Epts : WireFits(wire[e], wrote) /\ \A id \in 1..rp_left.writes : NoneOf(wire[e], id)
    <3>1. \A e \in Epts : 1..Len(wire[e]) = {}
      BY <2>3
    <3> QED
      BY <3>1, Zenon DEF WireFits, NoneOf
  <2> QED
    BY <2>1, <2>2, <2>4, <2>5, <2>6, Zenon DEF RpInv, OwnIds
<1> QED
  BY <1>1, RpStep, PTL DEF RpSpec

\* ept_cdev_write's messages reach an endpoint that exists, whole and in
\* order, and write() returns how much was sent.
THEOREM WritesStayWhole == RpSpec => []WritesAreWhole
<1>1. RpInv => WritesAreWhole
  BY Zenon DEF RpInv, WireFits, MessageFits, WritesAreWhole
<1> QED
  BY <1>1, RpmsgInvariant, PTL

==============================================================================
