------------------------------- MODULE OtaClient -------------------------------
(***************************************************************************)
(* ota_daemon: the client that asks the server every hour or so for a      *)
(* firmware version, downloads the image, compares its checksum and hands  *)
(* it to upgrade_tool (ota_daemon.c, version.c, sha256.c), and the         *)
(* settings that start and stop it as a runit service (ota_settings.c).    *)
(*                                                                         *)
(* A version is a record [devstr, marketing, major, patch].  The image of  *)
(* version v is the sequence of its two halves, and the checksum of a file *)
(* is its content.  The server, the network and upgrade_tool are outside;  *)
(* failures of the network are bounded by MaxFailures.                     *)
(***************************************************************************)
EXTENDS Integers, Sequences

CONSTANTS Versions,    \* versions the server offers
          BadOffer,    \* an answer that is no offer: an error page, a version without digits
          OtaUrls,
          MaxFailures, \* bound on failures of the network
          MaxOffers,   \* bound on changes of the server's offer
          MaxOtaWrites \* bound on writes of settings and signals
ASSUME VersionsAssumption ==
  \A v \in Versions : v.marketing \in Nat /\ v.major \in Nat /\ v.patch \in Nat

VARIABLES offer,    \* what the server answers
          current,  \* the version that is running
          files,    \* [resp, image, fd_resp, fd_img]: contents, and whether the fds are open
          ota,      \* the client: [pc, url, shutdown, parsed, pos]
          tool,     \* images upgrade_tool was started with
          settings, \* [enabled, url]
          failures, offers, ota_writes

ota_vars == <<offer, current, files, ota, tool, settings, failures, offers, ota_writes>>

Image(v) == <<<<v, 1>>, <<v, 2>>>>

-----------------------------------------------------------------------------
(* Versions: -1, 0 or 1 for an older, the same and a newer version.        *)

Sign(n) == IF n < 0 THEN -1 ELSE IF n > 0 THEN 1 ELSE 0

version_cmp(a, b) ==
  IF a.marketing # b.marketing THEN Sign(a.marketing - b.marketing)
  ELSE IF a.major # b.major THEN Sign(a.major - b.major)
  ELSE Sign(a.patch - b.patch)

\* version_devstr_cmp: strcmp, of which only "equal" matters here
ota_dev_version_check(a, b) == IF a.devstr = b.devstr THEN 0 ELSE 1

\* Mutant: only a newer version is installed.
ota_version_check_newer(v) ==
  v # BadOffer /\ (ota_dev_version_check(v, current) # 0 \/ version_cmp(v, current) > 0)

\* ota_version_check(offered) # 0: any other version is installed, an older one too
ota_version_check(v) ==
  v # BadOffer /\ (ota_dev_version_check(v, current) # 0 \/ version_cmp(v, current) # 0)

-----------------------------------------------------------------------------
(* The loop of ota_client_loop.                                            *)

FilesClosed(f) == [f EXCEPT !.fd_resp = FALSE, !.fd_img = FALSE]
Goto(pc) == ota' = [ota EXCEPT !.pc = pc]

\* `continue' of the loop, with ota_close_files before it
NextRound == files' = FilesClosed(files) /\ Goto("check")

Exits == ota' = [ota EXCEPT !.pc = "exited"] /\ files' = FilesClosed(files)

OtaInit ==
  /\ offer \in Versions /\ current \in Versions
  /\ files = [resp |-> BadOffer, image |-> <<>>, fd_resp |-> FALSE, fd_img |-> FALSE]
  /\ settings \in [enabled : {FALSE}, url : OtaUrls]
  /\ ota = [pc |-> "exited", url |-> settings.url, shutdown |-> FALSE, parsed |-> BadOffer, pos |-> 0]
  /\ tool = {}
  /\ failures = MaxFailures /\ offers = MaxOffers /\ ota_writes = MaxOtaWrites

\* while (!libnetwork_shutdown_signaled(nw_ctx) ...
ota_check ==
  /\ ota.pc = "check"
  /\ IF ota.shutdown THEN Exits ELSE Goto("wait") /\ UNCHANGED files
  /\ UNCHANGED <<offer, current, tool, settings, failures, offers, ota_writes>>

\* ... && run_sigtimedwait(&params)): the timeout; then ota_create_files, configure_libnetwork
ota_create_files ==
  /\ ota.pc = "wait"
  /\ files' = [resp |-> BadOffer, image |-> <<>>, fd_resp |-> TRUE, fd_img |-> TRUE]
  /\ Goto("enquire_setup")
  /\ UNCHANGED <<offer, current, tool, settings, failures, offers, ota_writes>>

\* network_setup at the start of a request forgets a shutdown signalled before
ota_network_setup ==
  /\ ota.pc \in {"enquire_setup", "download_setup"}
  /\ ota' = [ota EXCEPT !.shutdown = FALSE,
                        !.pc = IF @ = "enquire_setup" THEN "enquire" ELSE "download"]
  /\ UNCHANGED <<offer, current, files, tool, settings, failures, offers, ota_writes>>

\* A request that fails, or that the shutdown aborts
ota_request_fails ==
  /\ ota.pc \in {"enquire", "download"}
  /\ \/ ota.shutdown /\ UNCHANGED failures
     \/ failures > 0 /\ failures' = failures - 1
  /\ NextRound
  /\ UNCHANGED <<offer, current, tool, settings, offers, ota_writes>>

\* ota_enquire: the answer is in the response file, an error page among them
ota_enquire ==
  /\ ota.pc = "enquire"
  /\ \/ files' = [files EXCEPT !.resp = offer] /\ UNCHANGED failures
     \/ failures > 0 /\ failures' = failures - 1 /\ files' = [files EXCEPT !.resp = BadOffer]
  /\ Goto("parse")
  /\ UNCHANGED <<offer, current, tool, settings, offers, ota_writes>>

\* ota_parse_response and ota_version_check
ota_parse_response ==
  /\ ota.pc = "parse"
  /\ IF ota_version_check(files.resp)
     THEN ota' = [ota EXCEPT !.pc = "download_setup", !.parsed = files.resp, !.pos = 0] /\ UNCHANGED files
     ELSE NextRound
  /\ UNCHANGED <<offer, current, tool, settings, failures, offers, ota_writes>>

\* network_download_write of the next half of the image the URL names
ota_download_write ==
  /\ ota.pc = "download" /\ ota.pos < 2
  /\ files' = [files EXCEPT !.image = Append(@, Image(ota.parsed)[ota.pos + 1])]
  /\ ota' = [ota EXCEPT !.pos = @ + 1]
  /\ UNCHANGED <<offer, current, tool, settings, failures, offers, ota_writes>>

\* The connection stalls and network_request starts it again: the file is not truncated,
\* the image follows what was written already.
ota_download_again ==
  /\ ota.pc = "download" /\ failures > 0 /\ ~ota.shutdown
  /\ failures' = failures - 1
  /\ ota' = [ota EXCEPT !.pos = 0]
  /\ UNCHANGED <<offer, current, files, tool, settings, offers, ota_writes>>

ota_download ==
  /\ ota.pc = "download" /\ ota.pos = 2
  /\ Goto("verify") /\ files' = FilesClosed(files)
  /\ UNCHANGED <<offer, current, tool, settings, failures, offers, ota_writes>>

\* Mutant: the image is installed whatever its checksum.
ota_upgrade_unverified ==
  /\ ota.pc = "verify"
  /\ tool' = tool \cup {files.image}
  /\ Goto("check")
  /\ UNCHANGED <<offer, current, files, settings, failures, offers, ota_writes>>

\* ota_sha256sum, and ota_upgrade when it matches
ota_upgrade ==
  /\ ota.pc = "verify"
  /\ tool' = IF files.image = Image(ota.parsed) THEN tool \cup {files.image} ELSE tool
  /\ Goto("check")
  /\ UNCHANGED <<offer, current, files, settings, failures, offers, ota_writes>>

OtaClientStep ==
  \/ ota_check \/ ota_create_files \/ ota_network_setup \/ ota_request_fails \/ ota_enquire
  \/ ota_parse_response \/ ota_download_write \/ ota_download_again \/ ota_download
  \/ ota_upgrade

-----------------------------------------------------------------------------
(* The settings daemon, runit, and the world.                              *)

OtaRunning == ota.pc # "exited"

\* SIGTERM: it ends the wait, and is remembered anywhere else
OtaTerminated ==
  IF ota.pc = "wait" THEN Exits
  ELSE ota' = [ota EXCEPT !.shutdown = TRUE] /\ UNCHANGED files

ota_notify_enable(v) ==
  /\ ota_writes > 0 /\ ota_writes' = ota_writes - 1
  /\ settings' = [settings EXCEPT !.enabled = v]
  /\ \/ v /\ ~OtaRunning
          /\ ota' = [pc |-> "check", url |-> settings.url, shutdown |-> FALSE, parsed |-> BadOffer, pos |-> 0]
          /\ UNCHANGED files
     \/ v /\ OtaRunning /\ UNCHANGED <<ota, files>>
     \/ ~v /\ OtaRunning /\ OtaTerminated
     \/ ~v /\ ~OtaRunning /\ UNCHANGED <<ota, files>>
  /\ UNCHANGED <<offer, current, tool, failures, offers>>

\* A new URL (or debug flag) is refused while the client runs.
ota_notify_generic(u) ==
  /\ ota_writes > 0 /\ ota_writes' = ota_writes - 1
  /\ settings' = IF OtaRunning THEN settings ELSE [settings EXCEPT !.url = u]
  /\ UNCHANGED <<offer, current, files, ota, tool, failures, offers>>

server_offers(v) ==
  /\ offers > 0 /\ offers' = offers - 1
  /\ offer' = v
  /\ UNCHANGED <<current, files, ota, tool, settings, failures, ota_writes>>

\* upgrade_tool writes the image and resets the device.
upgrade_tool(image) ==
  /\ image \in tool
  /\ \E v \in Versions : image = Image(v) /\ current' = v
  /\ tool' = {}
  /\ ota' = [ota EXCEPT !.pc = IF settings.enabled THEN "check" ELSE "exited",
                        !.url = settings.url, !.shutdown = FALSE, !.parsed = BadOffer, !.pos = 0]
  /\ files' = [resp |-> BadOffer, image |-> <<>>, fd_resp |-> FALSE, fd_img |-> FALSE]
  /\ UNCHANGED <<offer, settings, failures, offers, ota_writes>>

OtaNext ==
  \/ OtaClientStep
  \/ \E v \in BOOLEAN : ota_notify_enable(v)
  \/ \E u \in OtaUrls : ota_notify_generic(u)
  \/ \E v \in Versions : server_offers(v)
  \/ \E image \in tool : upgrade_tool(image)

OtaSpec == OtaInit /\ [][OtaNext]_ota_vars

-----------------------------------------------------------------------------
(* Properties.                                                             *)

\* upgrade_tool is only ever given a whole image of the offered version, although a
\* stalled download goes on behind what it had already written to the file.
ToolGetsWholeImages == \A image \in tool : \E v \in Versions : image = Image(v) /\ v # current

\* An offer that differs from the running version is installed in the end, be it
\* newer or older, unless the client stops or the offer changes.
OfferIsInstalled ==
  \A v \in Versions :
    (OtaRunning /\ offer = v) ~> (current = v \/ ~OtaRunning \/ offer # v)
=============================================================================
