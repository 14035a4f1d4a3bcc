----------------------------- MODULE MCConnections -----------------------------
(***************************************************************************)
(* The daemons that connect the device to a network, each on its own:      *)
(* `part' says which one a behaviour is about.                             *)
(***************************************************************************)
EXTENDS Libnetwork, ChildSupervisor, CellModem, OtaClient

VARIABLE part

mc_vars == <<part, net_vars, sup_vars, modem_vars, ota_vars>>

Parts == {"network", "supervisor", "modem", "ota"}

\* The one state of a part that a behaviour is not about.
NoNetwork ==
  /\ kind = "ota" /\ net = "done" /\ conn = NewConn /\ buf = NoBuf /\ signals = 0
  /\ ctx = [shutdown |-> FALSE, cycle |-> FALSE, moved |-> 0, stall |-> 0, cur |-> 0]
  /\ out = [sent |-> <<>>, held |-> 0, reader |-> TRUE, cut |-> FALSE]
  /\ gga = [since |-> 0, paused |-> FALSE, cached |-> FALSE, file |-> FALSE]
  /\ fifo = [reading |-> FALSE, commands |-> 0, writing |-> FALSE, replies |-> 0]
  /\ requester = [r \in Requesters |-> "idle"]
NoSupervisor ==
  /\ daemon = "ntrip" /\ enabled = FALSE /\ url = 0 /\ pids = <<>> /\ main = Idle
  /\ child = [p \in Pids |-> Absent]
  /\ todo = [changes |-> 0, commands |-> 0, deaths |-> 0]
NoModem ==
  /\ ttys = {} /\ events = <<>> /\ enabled_ = FALSE /\ override = NULL /\ timer = FALSE
  /\ retries = 0 /\ plugs = 0 /\ writes = 0
  /\ modem = [ctx_dev |-> NULL, ctx_type |-> INVALID, dev |-> NULL, type |-> INVALID,
              service |-> NULL]
NoOta ==
  /\ offer = BadOffer /\ current = BadOffer /\ tool = {}
  /\ files = [resp |-> BadOffer, image |-> <<>>, fd_resp |-> FALSE, fd_img |-> FALSE]
  /\ settings = [enabled |-> FALSE, url |-> 0]
  /\ ota = [pc |-> "exited", url |-> 0, shutdown |-> FALSE, parsed |-> BadOffer, pos |-> 0]
  /\ failures = 0 /\ offers = 0 /\ ota_writes = 0

MCInit ==
  /\ part \in Parts
  /\ IF part = "network" THEN NetInit ELSE NoNetwork
  /\ IF part = "supervisor" THEN SupInit ELSE NoSupervisor
  /\ IF part = "modem" THEN ModemInit ELSE NoModem
  /\ IF part = "ota" THEN OtaInit ELSE NoOta

MCNext ==
  \/ part = "network" /\ NetNext /\ UNCHANGED <<part, sup_vars, modem_vars, ota_vars>>
  \/ part = "supervisor" /\ SupNext /\ UNCHANGED <<part, net_vars, modem_vars, ota_vars>>
  \/ part = "modem" /\ ModemNext /\ UNCHANGED <<part, net_vars, sup_vars, ota_vars>>
  \/ part = "ota" /\ OtaNext /\ UNCHANGED <<part, net_vars, sup_vars, modem_vars>>

\* Threads keep running, cURL calls the progress function, time passes, the
\* reader of the output reads, children go on, SIGCHLD is delivered, and
\* upgrade_tool does its work.
MCSpec ==
  /\ MCInit /\ [][MCNext]_mc_vars
  /\ WF_net_vars(part = "network" /\ NetThread)
  /\ WF_net_vars(part = "network" /\ progress)
  /\ WF_net_vars(part = "network" /\ second)
  /\ WF_net_vars(part = "network" /\ drain)
  /\ WF_net_vars(part = "network" /\ \E r \in Requesters : request_health_open(r))
  /\ WF_sup_vars(part = "supervisor" /\ SupMain)
  /\ WF_sup_vars(part = "supervisor" /\ reap_children)
  /\ WF_sup_vars(part = "supervisor" /\ \E p \in Pids : child_proceeds(p))
  /\ WF_ota_vars(part = "ota" /\ OtaClientStep)
  /\ WF_ota_vars(part = "ota" /\ \E image \in tool : upgrade_tool(image))

-----------------------------------------------------------------------------
Version(d, a, b, c) == [devstr |-> d, marketing |-> a, major |-> b, patch |-> c]
MCVersions == {Version("v", 2, 1, 9), Version("v", 2, 2, 0), Version("v2-dev", 2, 2, 0)}

\* A GSM modem, a CDMA modem that answers the last AT command it is sent, and a
\* device that answers one too late.
MCAnswers ==
  {[silent |-> 0, params |-> TRUE, gsm |-> TRUE],
   [silent |-> 6, params |-> TRUE, gsm |-> FALSE],
   [silent |-> 7, params |-> TRUE, gsm |-> TRUE]}
=============================================================================
