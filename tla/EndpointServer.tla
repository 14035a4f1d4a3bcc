--------------------------- MODULE EndpointServer ---------------------------
(***************************************************************************)
(* A server endpoint of libpiksi (endpoint.c) in its event loop (loop.c).  *)
(* One process owns the listening socket and one descriptor per client;    *)
(* the clients are other processes, which connect, send, read and close at *)
(* any moment.  The interleaving is at system calls: everything a callback *)
(* does between two of them is one step.                                   *)
(*                                                                         *)
(* The loop collects the descriptors that are ready (epoll_wait), and then *)
(* runs their callbacks in an unspecified order; by the time a callback    *)
(* runs, what was seen ready may have changed.                             *)
(***************************************************************************)
EXTENDS Integers, Sequences, FiniteSets

CONSTANTS
  Clients,               \* the processes that may connect
  Types,                 \* the types of endpoint to consider
  Writers,               \* the types whose clients send to the server
  ENDPOINT_SERVICE_MAX,  \* reads of one client in one visit
  MAX_SEND_SLEEP_COUNT,  \* turns of the EAGAIN loop of send_impl
  QueueLimit,            \* messages the socket buffer of a client holds
  MaxConnects,           \* bound: connections
  MaxMsgs,               \* bound: messages sent on one connection
  MaxPubs                \* bound: messages published

ASSUME ServerAssumption ==
  /\ IsFiniteSet(Clients)
  /\ Types \in SUBSET {"SUB_SERVER", "PUB_SERVER", "REP"}
  /\ ENDPOINT_SERVICE_MAX \in Nat \ {0}
  /\ MAX_SEND_SLEEP_COUNT \in Nat \ {0}
  /\ QueueLimit \in Nat \ {0}
  /\ MaxConnects \in Nat /\ MaxMsgs \in Nat /\ MaxPubs \in Nat

VARIABLES
  \* The kernel's side of the connections.
  backlog,       \* connected, not accepted yet
  peer,          \* the client's end: "none", "open", "closed"
  reset,         \* is ECONNRESET pending on the server's end?
  inq,           \* client to server, not read yet
  outq,          \* server to client, not read yet
  \* The endpoint.
  type,
  client_nodes,  \* client_nodes_head, as a set: list order is left open
  removed_nodes, \* removed_nodes_head, as a bag: entries per node
  handle,        \* the server's descriptor of a client is open
  poll_handle,   \* the client is watched by the loop
  client_count,
  woke,
  wakefd,        \* counter of the eventfd
  \* The event loop.
  pc,            \* where the process is
  todo,          \* nodes that foreach_client has still to visit
  cur,           \* the client being read
  turn,          \* reads of this client so far, or EAGAINs of this send
  ready,         \* [listen, wake, clients, hup]: what epoll_wait returned
  \* History and bounds.
  failed,        \* "no", "assert" or "ub"
  connects, sent, delivered, pubs, joined, got

kernelVars == <<backlog, peer, reset, inq, outq>>
nodeVars == <<client_nodes, removed_nodes, handle, poll_handle, client_count>>
wakeVars == <<woke, wakefd>>
loopVars == <<pc, todo, cur, turn, ready>>
histVars == <<type, connects, sent, delivered, pubs, joined, got>>
vars == <<kernelVars, nodeVars, wakeVars, loopVars, failed, histVars>>

Reads == type \in {"SUB_SERVER", "REP"}
Sends == type \in {"PUB_SERVER", "REP"}
NoEvents == [listen |-> FALSE, wake |-> FALSE, clients |-> {}, hup |-> {}]
Running == failed = "no" /\ pc # "destroyed"

Init ==
  /\ type \in Types
  /\ backlog = {}
  /\ peer = [c \in Clients |-> "none"]
  /\ reset = [c \in Clients |-> FALSE]
  /\ inq = [c \in Clients |-> <<>>]
  /\ outq = [c \in Clients |-> <<>>]
  /\ client_nodes = {}
  /\ removed_nodes = [c \in Clients |-> 0]
  /\ handle = [c \in Clients |-> FALSE]
  /\ poll_handle = [c \in Clients |-> FALSE]
  /\ client_count = 0
  /\ woke = FALSE /\ wakefd = 0
  /\ pc = "loop" /\ todo = {} /\ cur \in Clients /\ turn = 0
  /\ ready = NoEvents
  /\ failed = "no"
  /\ connects = 0
  /\ sent = [c \in Clients |-> 0]
  /\ delivered = [c \in Clients |-> <<>>]
  /\ pubs = 0
  /\ joined = [c \in Clients |-> 0]
  /\ got = [c \in Clients |-> <<>>]

-----------------------------------------------------------------------------
(***************************************************************************)
(* The clients.                                                            *)
(***************************************************************************)

\* connect() succeeds as soon as the connection is in the backlog.
Connect(c) ==
  /\ Running
  /\ connects < MaxConnects
  /\ peer[c] # "open" /\ c \notin backlog /\ c \notin client_nodes
  /\ connects' = connects + 1
  /\ backlog' = backlog \cup {c}
  /\ peer' = [peer EXCEPT ![c] = "open"]
  /\ reset' = [reset EXCEPT ![c] = FALSE]
  /\ inq' = [inq EXCEPT ![c] = <<>>]
  /\ outq' = [outq EXCEPT ![c] = <<>>]
  /\ sent' = [sent EXCEPT ![c] = 0]
  /\ delivered' = [delivered EXCEPT ![c] = <<>>]
  /\ got' = [got EXCEPT ![c] = <<>>]
  /\ UNCHANGED <<nodeVars, wakeVars, loopVars, failed, type, pubs, joined>>

ClientSend(c) ==
  /\ type \in Writers
  /\ peer[c] = "open" /\ (c \in backlog \/ handle[c])
  /\ sent[c] < MaxMsgs
  /\ sent' = [sent EXCEPT ![c] = @ + 1]
  /\ inq' = [inq EXCEPT ![c] = Append(@, sent[c] + 1)]
  /\ UNCHANGED <<backlog, peer, reset, outq, nodeVars, wakeVars, loopVars,
                 failed, type, connects, delivered, pubs, joined, got>>

ClientRead(c) ==
  /\ peer[c] = "open" /\ outq[c] # <<>>
  /\ outq' = [outq EXCEPT ![c] = Tail(@)]
  /\ got' = [got EXCEPT ![c] = Append(@, Head(outq[c]))]
  /\ UNCHANGED <<backlog, peer, reset, inq, nodeVars, wakeVars, loopVars,
                 failed, type, connects, sent, delivered, pubs, joined>>

\* A client that closes with unread input resets the connection.
ClientClose(c) ==
  /\ peer[c] = "open"
  /\ peer' = [peer EXCEPT ![c] = "closed"]
  /\ reset' = [reset EXCEPT ![c] = outq[c] # <<>>]
  /\ UNCHANGED <<backlog, inq, outq, nodeVars, wakeVars, loopVars, failed,
                 histVars>>

-----------------------------------------------------------------------------
(***************************************************************************)
(* Connections: accepting, tearing down, and the list of removed nodes.    *)
(***************************************************************************)

\* teardown_client followed or preceded by record_disconnect.  Stopping the
\* poll handle also cancels the events already collected for it.
DropClient(c) ==
  /\ handle' = [handle EXCEPT ![c] = FALSE]
  /\ poll_handle' = [poll_handle EXCEPT ![c] = FALSE]
  /\ ready' = [ready EXCEPT !.clients = @ \ {c}]
  /\ client_count' = client_count - 1
  /\ removed_nodes' = [removed_nodes EXCEPT ![c] = @ + 1]

\* process_removed_clients on the list r: each entry unlinks and frees its
\* node, so a second entry for a node frees it twice.
PurgeNodes(r) ==
  /\ client_nodes' = {c \in client_nodes : r[c] = 0}
  /\ removed_nodes' = [c \in Clients |-> 0]
  /\ failed' = IF \E c \in Clients : r[c] > (IF c \in client_nodes THEN 1 ELSE 0)
               THEN "ub" ELSE failed

\* accept_wake_handler: one connection per event.
Accept ==
  /\ Running /\ pc = "loop" /\ ready.listen
  /\ \E c \in backlog :
       /\ backlog' = backlog \ {c}
       /\ client_nodes' = client_nodes \cup {c}
       /\ handle' = [handle EXCEPT ![c] = TRUE]
       /\ poll_handle' = [poll_handle EXCEPT ![c] = TRUE]
       /\ joined' = [joined EXCEPT ![c] = pubs]
  /\ client_count' = client_count + 1
  /\ ready' = [ready EXCEPT !.listen = FALSE]
  /\ UNCHANGED <<peer, reset, inq, outq, removed_nodes, wakeVars, pc, todo, cur,
                 turn, failed, type, connects, sent, delivered, pubs, got>>

\* handle_client_wake when the loop reports an error or a disconnect.  What
\* the client had sent and was not read yet is lost with the descriptor.
ClientDisconnected(c) ==
  /\ Running /\ pc = "loop" /\ c \in ready.clients /\ c \in ready.hup
  /\ handle' = [handle EXCEPT ![c] = FALSE]
  /\ poll_handle' = [poll_handle EXCEPT ![c] = FALSE]
  /\ ready' = [ready EXCEPT !.clients = @ \ {c}]
  /\ client_count' = client_count - 1
  /\ PurgeNodes([removed_nodes EXCEPT ![c] = @ + 1])
  /\ UNCHANGED <<kernelVars, wakeVars, pc, todo, cur, turn, histVars>>

\* handle_client_wake of a client with input: the eventfd is written unless
\* a wake-up is already pending.
ClientReadable(c) ==
  /\ Running /\ pc = "loop" /\ c \in ready.clients /\ c \notin ready.hup
  /\ type # "PUB_SERVER"
  /\ woke' = TRUE
  /\ wakefd' = IF woke THEN wakefd ELSE wakefd + 1
  /\ ready' = [ready EXCEPT !.clients = @ \ {c}]
  /\ UNCHANGED <<kernelVars, nodeVars, pc, todo, cur, turn, failed, histVars>>

\* handle_client_wake of a publisher enters discard_read_data.
DiscardBegin(c) ==
  /\ Running /\ pc = "loop" /\ c \in ready.clients /\ c \notin ready.hup
  /\ type = "PUB_SERVER"
  /\ pc' = "discard" /\ cur' = c /\ turn' = 0
  /\ ready' = [ready EXCEPT !.clients = @ \ {c}]
  /\ UNCHANGED <<kernelVars, nodeVars, wakeVars, todo, failed, histVars>>

-----------------------------------------------------------------------------
(***************************************************************************)
(* Reading.  recvmsg on a client's descriptor, as recv_impl sees it.       *)
(***************************************************************************)
Recv(c) ==
  CASE ~handle[c] -> "bad"
    [] handle[c] /\ reset[c] -> "error"
    [] handle[c] /\ ~reset[c] /\ inq[c] # <<>> -> "message"
    [] handle[c] /\ ~reset[c] /\ inq[c] = <<>> /\ peer[c] = "closed" -> "eof"
    [] OTHER -> "again"

\* Both loops stop after ENDPOINT_SERVICE_MAX reads.
MoreReads(again) == again /\ turn + 1 < ENDPOINT_SERVICE_MAX

\* One turn of discard_read_data.  At the end of the stream recv_impl drops
\* the client and returns 0, and the loop goes on with a closed descriptor;
\* nothing purges the node here.
DiscardRead ==
  /\ Running /\ pc = "discard"
  /\ LET r == Recv(cur)
         more == MoreReads(r \in {"message", "eof"})
     IN /\ inq' = IF r = "message" THEN [inq EXCEPT ![cur] = Tail(@)] ELSE inq
        /\ reset' = IF r = "error" THEN [reset EXCEPT ![cur] = FALSE] ELSE reset
        /\ IF r = "eof" THEN DropClient(cur)
           ELSE UNCHANGED <<handle, poll_handle, ready, client_count,
                            removed_nodes>>
        /\ pc' = IF more THEN "discard" ELSE "loop"
        /\ turn' = IF more THEN turn + 1 ELSE 0
  /\ UNCHANGED <<backlog, peer, outq, client_nodes, wakeVars, todo, cur, failed,
                 histVars>>

\* Mutant: `woke' is left set.
ReceiveBeginStaysWoke ==
  /\ Running /\ pc = "loop" /\ ready.wake
  /\ ready' = [ready EXCEPT !.wake = FALSE]
  /\ failed' = IF wakefd = 1 /\ woke THEN failed ELSE "assert"
  /\ wakefd' = 0 /\ UNCHANGED woke
  /\ pc' = "receive" /\ todo' = client_nodes /\ turn' = 0
  /\ UNCHANGED <<kernelVars, nodeVars, cur, histVars>>

\* read_and_receive_common: the eventfd is read, its two assertions checked,
\* and foreach_client starts.
ReceiveBegin ==
  /\ Running /\ pc = "loop" /\ ready.wake
  /\ ready' = [ready EXCEPT !.wake = FALSE]
  /\ failed' = IF wakefd = 1 /\ woke THEN failed ELSE "assert"
  /\ wakefd' = 0 /\ woke' = FALSE
  /\ pc' = "receive" /\ todo' = client_nodes /\ turn' = 0
  /\ UNCHANGED <<kernelVars, nodeVars, cur, histVars>>

\* Mutant: the message stays in the socket buffer (MSG_PEEK).
RxCallbackPeek(c) ==
  /\ delivered' = [delivered EXCEPT ![c] = Append(@, Head(inq[c]))]
  /\ UNCHANGED inq

\* recvmsg took a message, and rx_cb gets it.
RxCallback(c) ==
  /\ inq' = [inq EXCEPT ![c] = Tail(@)]
  /\ delivered' = [delivered EXCEPT ![c] = Append(@, Head(inq[c]))]

\* One turn of service_reads for a node; rx_cb may ask to stop.
ServiceRead ==
  /\ Running /\ pc = "receive"
  /\ \E c \in todo :
       /\ turn > 0 => c = cur
       /\ cur' = c
       /\ LET r == Recv(c)
          IN /\ IF r = "message" THEN RxCallback(c) ELSE UNCHANGED <<inq, delivered>>
             /\ reset' = IF r = "error" THEN [reset EXCEPT ![c] = FALSE] ELSE reset
             /\ IF r = "eof" THEN DropClient(c)
                ELSE UNCHANGED <<handle, poll_handle, ready, client_count,
                                 removed_nodes>>
             /\ \E stop \in BOOLEAN :
                  LET more == MoreReads(r = "message" /\ ~stop)
                  IN /\ turn' = IF more THEN turn + 1 ELSE 0
                     /\ todo' = IF more THEN todo ELSE todo \ {c}
  /\ UNCHANGED <<backlog, peer, outq, client_nodes, wakeVars, pc, failed,
                 type, connects, sent, pubs, joined, got>>

\* The end of foreach_client, for reads and for sends.
ForeachEnd ==
  /\ Running /\ pc \in {"receive", "send"} /\ todo = {}
  /\ PurgeNodes(removed_nodes)
  /\ pc' = "loop"
  /\ UNCHANGED <<kernelVars, handle, poll_handle, client_count, wakeVars, todo,
                 cur, turn, ready, histVars>>

-----------------------------------------------------------------------------
(***************************************************************************)
(* Sending, the loop, and the end.                                         *)
(***************************************************************************)

\* pk_endpoint_send, from any callback of the loop.
SendBegin ==
  /\ Running /\ pc = "loop" /\ Sends
  /\ pubs < MaxPubs
  /\ pubs' = pubs + 1
  /\ pc' = "send" /\ todo' = client_nodes /\ turn' = 0
  /\ UNCHANGED <<kernelVars, nodeVars, wakeVars, cur, ready, failed, type,
                 connects, sent, delivered, joined, got>>

\* Mutant: a client whose buffer is full is skipped.
SendToSkipsFull ==
  /\ Running /\ pc = "send"
  /\ \E c \in todo :
       /\ cur' = c
       /\ LET broken == ~handle[c] \/ peer[c] = "closed"
              full == ~broken /\ Len(outq[c]) >= QueueLimit
          IN /\ outq' = IF broken \/ full THEN outq
                        ELSE [outq EXCEPT ![c] = Append(@, pubs)]
             /\ IF broken THEN DropClient(c)
                ELSE UNCHANGED <<handle, poll_handle, ready, client_count,
                                 removed_nodes>>
             /\ turn' = 0
             /\ todo' = todo \ {c}
  /\ UNCHANGED <<backlog, peer, reset, inq, client_nodes, wakeVars, pc, failed,
                 histVars>>

\* One turn of send_impl for a node.  EAGAIN is slept on and retried only once
\* sleep_count has reached its maximum; below it the client is dropped.
SendTo ==
  /\ Running /\ pc = "send"
  /\ \E c \in todo :
       /\ turn > 0 => c = cur
       /\ cur' = c
       /\ LET broken == ~handle[c] \/ peer[c] = "closed"
              full == ~broken /\ Len(outq[c]) >= QueueLimit
              retry == full /\ turn + 1 >= MAX_SEND_SLEEP_COUNT
          IN /\ outq' = IF broken \/ full THEN outq
                        ELSE [outq EXCEPT ![c] = Append(@, pubs)]
             /\ IF broken \/ (full /\ ~retry) THEN DropClient(c)
                ELSE UNCHANGED <<handle, poll_handle, ready, client_count,
                                 removed_nodes>>
             /\ turn' = IF retry THEN MAX_SEND_SLEEP_COUNT ELSE 0
             /\ todo' = IF retry THEN todo ELSE todo \ {c}
  /\ UNCHANGED <<backlog, peer, reset, inq, client_nodes, wakeVars, pc, failed,
                 histVars>>

\* epoll_wait, when every callback of the last batch has run.  A closed or
\* reset connection is reported as a disconnect or an error, whatever input
\* is left on it.
Poll ==
  /\ Running /\ pc = "loop"
  /\ ~ready.listen /\ ~ready.wake /\ ready.clients = {}
  /\ LET gone == {c \in Clients : poll_handle[c] /\ (peer[c] = "closed" \/ reset[c])}
         input == {c \in Clients : poll_handle[c] /\ inq[c] # <<>>}
     IN ready' = [listen |-> backlog # {}, wake |-> Reads /\ wakefd > 0,
                  clients |-> gone \cup input, hup |-> gone]
  /\ ready' # NoEvents
  /\ UNCHANGED <<kernelVars, nodeVars, wakeVars, pc, todo, cur, turn, failed,
                 histVars>>

\* pk_endpoint_destroy.  removed_nodes_head is not looked at again.
Destroy ==
  /\ Running /\ pc = "loop"
  /\ pc' = "destroyed"
  /\ client_nodes' = {}
  /\ handle' = [c \in Clients |-> FALSE]
  /\ poll_handle' = [c \in Clients |-> FALSE]
  /\ ready' = NoEvents
  /\ UNCHANGED <<kernelVars, removed_nodes, client_count, wakeVars, todo, cur,
                 turn, failed, histVars>>

ServerStep ==
  \/ Accept
  \/ \E c \in Clients : ClientDisconnected(c) \/ ClientReadable(c) \/ DiscardBegin(c)
  \/ DiscardRead
  \/ ReceiveBegin
  \/ ServiceRead
  \/ SendTo
  \/ ForeachEnd
  \/ Poll

ClientStep ==
  \E c \in Clients : Connect(c) \/ ClientSend(c) \/ ClientRead(c) \/ ClientClose(c)

Next == ServerStep \/ ClientStep \/ SendBegin \/ Destroy

Spec == Init /\ [][Next]_vars

\* The process keeps running its loop; nothing is assumed of the clients.
FairSpec == Spec /\ WF_vars(ServerStep)

-----------------------------------------------------------------------------
(***************************************************************************)
(* Properties.                                                             *)
(***************************************************************************)

\* Every variable has its type.
TypeOK ==
  /\ type \in Types
  /\ backlog \in SUBSET Clients
  /\ peer \in [Clients -> {"none", "open", "closed"}]
  /\ reset \in [Clients -> BOOLEAN]
  /\ inq \in [Clients -> Seq(Nat)]
  /\ outq \in [Clients -> Seq(Nat)]
  /\ client_nodes \in SUBSET Clients
  /\ removed_nodes \in [Clients -> Nat]
  /\ handle \in [Clients -> BOOLEAN]
  /\ poll_handle \in [Clients -> BOOLEAN]
  /\ client_count \in Int
  /\ woke \in BOOLEAN /\ wakefd \in Nat
  /\ pc \in {"loop", "discard", "receive", "send", "destroyed"}
  /\ todo \in SUBSET Clients /\ cur \in Clients /\ turn \in Nat
  /\ pc # "send" => turn < ENDPOINT_SERVICE_MAX
  /\ ready \in [listen : BOOLEAN, wake : BOOLEAN, clients : SUBSET Clients,
                hup : SUBSET Clients]
  /\ failed \in {"no", "assert", "ub"}
  /\ connects \in Nat /\ pubs \in Nat
  /\ sent \in [Clients -> Nat]
  /\ joined \in [Clients -> Nat]
  /\ delivered \in [Clients -> Seq(Nat)]
  /\ got \in [Clients -> Seq(Nat)]

\* No node is freed twice, and the two assertions of read_and_receive_common
\* hold: whenever the eventfd is read its counter is 1 and `woke' is set.
NeverFails == failed = "no"

\* client_count is the number of clients with an open descriptor.
ClientCountIsClients ==
  pc # "destroyed" => client_count = Cardinality({c \in Clients : handle[c]})

\* A client that has not been dropped has received, or has in its socket
\* buffer, every message sent since it was accepted, in order: send_impl
\* disconnects a client rather than skip a message for it.
SubscriberMissesNothing ==
  \A c \in Clients :
    handle[c] =>
      LET pending == IF pc = "send" /\ c \in todo THEN 1 ELSE 0
      IN got[c] \o outq[c] = [i \in 1 .. (pubs - joined[c] - pending) |-> joined[c] + i]

\* The server's records of its clients are those of the sockets, however
\* accepts, reads, sends and hang-ups interleave, and a subscriber that the
\* server keeps has every message.
ServerIsSound ==
  TypeOK /\ NeverFails /\ ClientCountIsClients /\ SubscriberMissesNothing

Channel ==
  INSTANCE EndpointChannel WITH link <- peer

\* The messages of a client reach rx_cb at most once, in order and without a
\* gap: the endpoint implements the abstract channel.
ChannelSpec == Channel!Spec

\* What a client sends is eventually read, unless the client closes or the
\* endpoint is destroyed: no wake-up is lost between `woke', the eventfd and
\* the limit of reads per visit.
InputIsRead ==
  \A c \in Clients :
    (handle[c] /\ inq[c] # <<>>)
      ~> (inq[c] = <<>> \/ peer[c] = "closed" \/ ~Running)

\* The node of a client that has closed is eventually freed, at an endpoint
\* that reads (a publisher may have to wait for its next send).
ClosedClientIsFreed ==
  \A c \in Clients :
    (Reads /\ c \in client_nodes /\ peer[c] = "closed") ~> (c \notin client_nodes \/ ~Running)

\* The event loop gets round to every client, whether it has sent or left.
ClientsAreServed == InputIsRead /\ ClosedClientIsFreed

\* What endpoint.h says of a full client: it is allowed 10 ms, that is
\* MAX_SEND_SLEEP_COUNT sleeps, before it is disconnected.
FullClientIsGivenTime ==
  [][\A c \in Clients :
       (pc = "send" /\ handle[c] /\ ~handle'[c] /\ peer[c] = "open")
         => turn >= MAX_SEND_SLEEP_COUNT]_vars

=============================================================================
