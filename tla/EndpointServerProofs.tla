------------------------- MODULE EndpointServerProofs -------------------------
(***************************************************************************)
(* A server endpoint implements the abstract channel of EndpointChannel,   *)
(* and its records of its clients are those of the sockets, for any set of *)
(* clients and types, every size of the socket buffers and every limit of  *)
(* reads, sends, connections and messages.                                 *)
(***************************************************************************)
EXTENDS EndpointServer, FiniteSetTheorems, TLAPS

-----------------------------------------------------------------------------
(* The inductive invariant.                                                *)

\* The event loop: the eventfd wakes an endpoint that reads, and only a
\* publisher discards input.
ControlInv ==
  /\ type \in {"SUB_SERVER", "PUB_SERVER", "REP"}
  /\ backlog \in SUBSET Clients /\ client_nodes \in SUBSET Clients /\ todo \in SUBSET Clients
  /\ cur \in Clients
  /\ ready \in [listen : BOOLEAN, wake : BOOLEAN, clients : SUBSET Clients, hup : SUBSET Clients]
  /\ ready.wake \/ pc = "receive" => Reads
  /\ pc = "discard" => type = "PUB_SERVER"

\* At an endpoint that reads, the socket buffer of a client holds what it has
\* sent and the application has not been given, in order.
Rest(q, n, s) == Len(q) = s - n /\ \A i \in 1 .. Len(q) : q[i] = n + i
BufferHoldsRest(c) == Rest(inq[c], Len(delivered[c]), sent[c])

DataInv ==
  /\ peer \in [Clients -> {"none", "open", "closed"}]
  /\ sent \in [Clients -> Nat]
  /\ inq \in [Clients -> Seq(Nat)] /\ delivered \in [Clients -> Seq(Nat)]
  /\ Reads => \A c \in Clients : BufferHoldsRest(c)

ServerInv == ControlInv /\ DataInv

dataVars == <<type, peer, sent, inq, delivered>>

-----------------------------------------------------------------------------
(* The event loop.                                                         *)

\* Dropping a client forgets events and adds none.
LEMMA DropKeepsReady ==
  ASSUME ControlInv, NEW c \in Clients, DropClient(c)
  PROVE  /\ ready' \in [listen : BOOLEAN, wake : BOOLEAN, clients : SUBSET Clients,
                        hup : SUBSET Clients]
         /\ ready'.wake = ready.wake
BY DEF ControlInv, DropClient

\* Every step keeps the invariant of the event loop.
LEMMA ControlStep ==
  ASSUME ControlInv, [Next]_vars
  PROVE  ControlInv'
<1> USE DEF ControlInv, Reads
<1>1. CASE Accept
  BY <1>1, Zenon DEF Accept, wakeVars
<1>2. ASSUME NEW c \in Clients, ClientDisconnected(c) \/ ClientReadable(c) PROVE ControlInv'
  BY <1>2 DEF ClientDisconnected, ClientReadable, PurgeNodes, kernelVars, nodeVars, wakeVars, histVars
<1>3. ASSUME NEW c \in Clients, DiscardBegin(c) PROVE ControlInv'
  BY <1>3 DEF DiscardBegin, kernelVars, nodeVars, wakeVars, histVars
<1>4. CASE DiscardRead
  <2>1. /\ ready' \in [listen : BOOLEAN, wake : BOOLEAN, clients : SUBSET Clients,
                       hup : SUBSET Clients]
        /\ ready'.wake = ready.wake
    BY <1>4, DropKeepsReady DEF DiscardRead
  <2> QED
    BY <1>4, <2>1 DEF DiscardRead, wakeVars, histVars
<1>5. CASE ReceiveBegin
  BY <1>5, Zenon DEF ReceiveBegin, kernelVars, nodeVars, histVars
<1>6. CASE ServiceRead
  <2>1. PICK c \in todo :
          /\ cur' = c
          /\ todo' \in {todo, todo \ {c}}
          /\ DropClient(c) \/ ready' = ready
    BY <1>6 DEF ServiceRead
  <2>2. /\ ready' \in [listen : BOOLEAN, wake : BOOLEAN, clients : SUBSET Clients,
                       hup : SUBSET Clients]
        /\ ready'.wake = ready.wake
    BY <2>1, DropKeepsReady
  <2>3. UNCHANGED <<backlog, client_nodes, pc, type>>
    BY <1>6 DEF ServiceRead
  <2> QED
    BY <2>1, <2>2, <2>3
<1>7. CASE SendTo
  <2>1. PICK c \in todo :
          /\ cur' = c
          /\ todo' \in {todo, todo \ {c}}
          /\ DropClient(c) \/ ready' = ready
    BY <1>7 DEF SendTo
  <2>2. /\ ready' \in [listen : BOOLEAN, wake : BOOLEAN, clients : SUBSET Clients,
                       hup : SUBSET Clients]
        /\ ready'.wake = ready.wake
    BY <2>1, DropKeepsReady
  <2>3. UNCHANGED <<backlog, client_nodes, pc, type>>
    BY <1>7 DEF SendTo, histVars
  <2> QED
    BY <2>1, <2>2, <2>3
<1>8. CASE ForeachEnd
  BY <1>8 DEF ForeachEnd, PurgeNodes, kernelVars, wakeVars, histVars
<1>9. CASE Poll
  <2>1. PICK gone \in SUBSET Clients, input \in SUBSET Clients :
          ready' = [listen |-> backlog # {}, wake |-> Reads /\ wakefd > 0,
                    clients |-> gone \cup input, hup |-> gone]
    BY <1>9, Zenon DEF Poll
  <2>2. UNCHANGED <<type, backlog, client_nodes, todo, cur, pc>> /\ pc = "loop"
    BY <1>9 DEF Poll, kernelVars, nodeVars, histVars
  <2> QED
    BY <2>1, <2>2
<1>10. CASE ClientStep
  BY <1>10 DEF ClientStep, Connect, ClientSend, ClientRead, ClientClose, nodeVars, loopVars, histVars
<1>11. CASE SendBegin
  BY <1>11 DEF SendBegin, kernelVars, nodeVars
<1>12. CASE Destroy
  BY <1>12 DEF Destroy, NoEvents, kernelVars, histVars
<1>13. CASE UNCHANGED vars
  BY <1>13 DEF vars, kernelVars, nodeVars, loopVars, histVars
<1> QED
  BY <1>1, <1>2, <1>3, <1>4, <1>5, <1>6, <1>7, <1>8, <1>9, <1>10, <1>11, <1>12, <1>13, Zenon
     DEF Next, ServerStep

-----------------------------------------------------------------------------
(* The messages.                                                           *)

\* Another message is sent.
LEMMA RestAppend ==
  ASSUME NEW q \in Seq(Nat), NEW n \in Nat, NEW s \in Nat, Rest(q, n, s)
  PROVE  Append(q, s + 1) \in Seq(Nat) /\ Rest(Append(q, s + 1), n, s + 1)
<1> DEFINE a == Append(q, s + 1)
<1>1. a \in Seq(Nat) /\ Len(a) = Len(q) + 1 /\ a[Len(q) + 1] = s + 1
  OBVIOUS
<1>2. \A i \in 1 .. Len(q) : a[i] = q[i]
  OBVIOUS
<1>3. Len(q) \in Nat
  OBVIOUS
<1> HIDE DEF a
<1>4. ASSUME NEW i \in 1 .. Len(a) PROVE a[i] = n + i
  <2>1. CASE i = Len(q) + 1
    BY <1>1, <1>3, <2>1 DEF Rest
  <2>2. CASE i # Len(q) + 1
    <3>1. i \in 1 .. Len(q)
      BY <1>1, <1>3, <2>2
    <3> QED
      BY <3>1, <1>2 DEF Rest
  <2> QED
    BY <2>1, <2>2
<1>5. Len(a) = (s + 1) - n
  BY <1>1, <1>3 DEF Rest
<1>6. a \in Seq(Nat) /\ Rest(a, n, s + 1)
  BY <1>1, <1>4, <1>5 DEF Rest
<1> QED
  BY <1>6 DEF a

\* The first message is taken.
LEMMA RestTail ==
  ASSUME NEW q \in Seq(Nat), NEW n \in Nat, NEW s \in Nat, Rest(q, n, s), q # <<>>
  PROVE  /\ Head(q) = n + 1 /\ n < s
         /\ Tail(q) \in Seq(Nat) /\ Rest(Tail(q), n + 1, s)
<1>1. Len(q) \in Nat /\ Len(q) >= 1 /\ Head(q) = q[1]
  OBVIOUS
<1>2. Head(q) = n + 1 /\ n < s
  BY <1>1 DEF Rest
<1> DEFINE t == Tail(q)
<1>3. t \in Seq(Nat) /\ Len(t) = Len(q) - 1
  BY <1>1
<1>4. \A i \in 1 .. Len(t) : t[i] = q[i + 1]
  BY <1>1
<1> HIDE DEF t
<1>5. ASSUME NEW i \in 1 .. Len(t) PROVE t[i] = (n + 1) + i
  <2>1. i + 1 \in 1 .. Len(q)
    BY <1>1, <1>3
  <2>2. q[i + 1] = n + (i + 1)
    BY <2>1 DEF Rest
  <2> QED
    BY <1>4, <2>2
<1>6. Len(t) = s - (n + 1)
  BY <1>1, <1>3 DEF Rest
<1>7. t \in Seq(Nat) /\ Rest(t, n + 1, s)
  BY <1>3, <1>5, <1>6 DEF Rest
<1> QED
  BY <1>2, <1>7 DEF t

\* A step that touches none of the data keeps their invariant and is a
\* stutter of the channel.
LEMMA DataStutter ==
  ASSUME DataInv, UNCHANGED dataVars
  PROVE  DataInv' /\ UNCHANGED Channel!chanVars
BY DEF DataInv, dataVars, BufferHoldsRest, Reads, Channel!chanVars

\* The steps of the clients are steps of the channel.
LEMMA ClientSteps ==
  ASSUME DataInv, NEW c \in Clients,
         Connect(c) \/ ClientSend(c) \/ ClientRead(c) \/ ClientClose(c)
  PROVE  DataInv' /\ [Channel!Next]_Channel!chanVars
<1>1. CASE Connect(c)
  <2>1. Channel!Open(c)
    BY <1>1 DEF Connect, Channel!Open
  <2>2. DataInv'
    BY <1>1 DEF Connect, DataInv, BufferHoldsRest, Rest, Reads
  <2> QED
    BY <2>1, <2>2 DEF Channel!Next
<1>2. CASE ClientSend(c)
  <2>1. Channel!Send(c)
    BY <1>2 DEF ClientSend, Channel!Send
  <2>2. /\ sent' = [sent EXCEPT ![c] = @ + 1]
        /\ inq' = [inq EXCEPT ![c] = Append(inq[c], sent[c] + 1)]
        /\ UNCHANGED <<peer, delivered, type>>
    BY <1>2 DEF ClientSend
  <2>3. sent' \in [Clients -> Nat] /\ inq' \in [Clients -> Seq(Nat)]
    BY <2>2 DEF DataInv
  <2>4. ASSUME Reads PROVE BufferHoldsRest(c)'
    <3>1. BufferHoldsRest(c) /\ inq[c] \in Seq(Nat) /\ sent[c] \in Nat /\ Len(delivered[c]) \in Nat
      BY <2>4 DEF DataInv
    <3>2. inq'[c] = Append(inq[c], sent[c] + 1) /\ sent'[c] = sent[c] + 1 /\ delivered'[c] = delivered[c]
      BY <2>2 DEF DataInv
    <3> QED
      BY <3>1, <3>2, RestAppend, Zenon DEF BufferHoldsRest
  <2>5. ASSUME Reads, NEW d \in Clients, d # c PROVE BufferHoldsRest(d)'
    <3>1. inq'[d] = inq[d] /\ sent'[d] = sent[d] /\ delivered'[d] = delivered[d]
      BY <2>2, <2>5 DEF DataInv
    <3> QED
      BY <2>5, <3>1 DEF DataInv, BufferHoldsRest, Rest
  <2>6. DataInv'
    BY <2>2, <2>3, <2>4, <2>5 DEF DataInv, Reads
  <2> QED
    BY <2>1, <2>6 DEF Channel!Next
<1>3. CASE ClientRead(c)
  BY <1>3, DataStutter DEF ClientRead, dataVars
<1>4. CASE ClientClose(c)
  <2>1. Channel!Close(c)
    BY <1>4 DEF ClientClose, histVars, Channel!Close
  <2>2. DataInv'
    BY <1>4 DEF ClientClose, histVars, DataInv, BufferHoldsRest, Rest, Reads
  <2> QED
    BY <2>1, <2>2 DEF Channel!Next
<1> QED
  BY <1>1, <1>2, <1>3, <1>4

\* What rx_cb is given is the next message the channel has to deliver.
LEMMA CallbackDelivers ==
  ASSUME DataInv, Reads, NEW c \in Clients, inq[c] # <<>>, RxCallback(c),
         UNCHANGED <<type, peer, sent>>
  PROVE  DataInv' /\ Channel!Deliver(c)
<1>1. /\ inq[c] \in Seq(Nat) /\ delivered[c] \in Seq(Nat) /\ sent[c] \in Nat
      /\ BufferHoldsRest(c)
  BY DEF DataInv
<1>2. /\ Head(inq[c]) = Len(delivered[c]) + 1 /\ Len(delivered[c]) < sent[c]
      /\ Tail(inq[c]) \in Seq(Nat) /\ Rest(Tail(inq[c]), Len(delivered[c]) + 1, sent[c])
  <2>1. Len(delivered[c]) \in Nat
    BY <1>1
  <2> QED
    BY <1>1, <2>1, RestTail DEF BufferHoldsRest
<1>3. /\ inq' = [inq EXCEPT ![c] = Tail(inq[c])]
      /\ delivered' = [delivered EXCEPT ![c] = Append(delivered[c], Len(delivered[c]) + 1)]
  BY <1>2, Zenon DEF RxCallback
<1>4. inq' \in [Clients -> Seq(Nat)] /\ delivered' \in [Clients -> Seq(Nat)]
  <2>1. Append(delivered[c], Len(delivered[c]) + 1) \in Seq(Nat)
    BY <1>1
  <2> QED
    BY <1>2, <1>3, <2>1 DEF DataInv
<1>5. BufferHoldsRest(c)'
  <2>1. inq'[c] = Tail(inq[c]) /\ delivered'[c] = Append(delivered[c], Len(delivered[c]) + 1)
    BY <1>3 DEF DataInv
  <2>2. Len(delivered'[c]) = Len(delivered[c]) + 1
    BY <1>1, <2>1
  <2> QED
    BY <1>2, <2>1, <2>2 DEF BufferHoldsRest
<1>6. ASSUME NEW d \in Clients, d # c PROVE BufferHoldsRest(d)'
  <2>1. inq'[d] = inq[d] /\ delivered'[d] = delivered[d]
    BY <1>3, <1>6 DEF DataInv
  <2> QED
    BY <1>6, <2>1 DEF DataInv, BufferHoldsRest, Rest
<1>7. DataInv'
  BY <1>4, <1>5, <1>6 DEF DataInv
<1>8. Channel!Deliver(c)
  BY <1>2, <1>3 DEF Channel!Deliver
<1> QED
  BY <1>7, <1>8

\* Every step keeps the invariant of the messages, and is a step of the
\* channel or leaves it alone.
LEMMA DataStep ==
  ASSUME ControlInv, DataInv, [Next]_vars
  PROVE  DataInv' /\ [Channel!Next]_Channel!chanVars
<1>1. CASE ClientStep
  BY <1>1, ClientSteps DEF ClientStep
<1>2. CASE DiscardRead
  <2>1. /\ ~Reads /\ cur \in Clients
        /\ UNCHANGED <<type, peer, sent, delivered>>
        /\ inq' = inq \/ (inq[cur] # <<>> /\ inq' = [inq EXCEPT ![cur] = Tail(inq[cur])])
    BY <1>2 DEF DiscardRead, Recv, ControlInv, Reads, histVars
  <2>2. inq' \in [Clients -> Seq(Nat)]
    <3>1. inq[cur] # <<>> => Tail(inq[cur]) \in Seq(Nat)
      BY <2>1 DEF DataInv
    <3> QED
      BY <2>1, <3>1, Zenon DEF DataInv
  <2>3. DataInv'
    BY <2>1, <2>2 DEF DataInv, Reads
  <2> QED
    BY <2>1, <2>3 DEF Channel!chanVars
<1>3. CASE ServiceRead
  <2>1. PICK c \in todo : IF Recv(c) = "message" THEN RxCallback(c) ELSE UNCHANGED <<inq, delivered>>
    BY <1>3 DEF ServiceRead
  <2>2. Reads /\ c \in Clients /\ UNCHANGED <<type, peer, sent>>
    BY <1>3 DEF ServiceRead, ControlInv
  <2>3. CASE Recv(c) = "message"
    <3>1. inq[c] # <<>>
      BY <2>3 DEF Recv
    <3> QED
      BY <2>1, <2>2, <2>3, <3>1, CallbackDelivers DEF Channel!Next
  <2>4. CASE Recv(c) # "message"
    BY <2>1, <2>2, <2>4, DataStutter DEF dataVars
  <2> QED
    BY <2>3, <2>4
<1>4. CASE \/ Accept \/ ReceiveBegin \/ SendTo \/ ForeachEnd \/ Poll \/ SendBegin \/ Destroy
           \/ \E c \in Clients : ClientDisconnected(c) \/ ClientReadable(c) \/ DiscardBegin(c)
  <2>1. UNCHANGED dataVars
    BY <1>4, Zenon DEF Accept, ReceiveBegin, SendTo, ForeachEnd, Poll, SendBegin, Destroy,
                ClientDisconnected, ClientReadable, DiscardBegin, kernelVars, histVars, dataVars
  <2> QED
    BY <2>1, DataStutter
<1>5. CASE UNCHANGED vars
  BY <1>5, DataStutter DEF vars, kernelVars, histVars, dataVars
<1> QED
  BY <1>1, <1>2, <1>3, <1>4, <1>5 DEF Next, ServerStep

-----------------------------------------------------------------------------
(* The theorems.                                                           *)

\* An endpoint starts with no connection, and so does the channel.
LEMMA ServerInit == Init => ServerInv /\ Channel!Init
<1> SUFFICES ASSUME Init PROVE ServerInv /\ Channel!Init
  OBVIOUS
<1>1. ControlInv
  BY ServerAssumption DEF Init, ControlInv, NoEvents
<1>2. DataInv
  BY DEF Init, DataInv, BufferHoldsRest, Rest
<1>3. Channel!Init
  BY DEF Init, Channel!Init
<1> QED
  BY <1>1, <1>2, <1>3 DEF ServerInv

\* The socket buffers of an endpoint that reads hold what was sent and not
\* yet handed over, in order.
THEOREM ServerInvariant == Spec => []ServerInv
<1>1. ServerInv /\ [Next]_vars => ServerInv'
  BY ControlStep, DataStep DEF ServerInv
<1> QED
  BY <1>1, ServerInit, PTL DEF Spec

\* The endpoint implements the abstract channel: the messages of a client
\* reach rx_cb at most once, in order and without a gap.
THEOREM ServerImplementsChannel == Spec => ChannelSpec
<1>1. ServerInv /\ [Next]_vars => [Channel!Next]_Channel!chanVars
  BY DataStep DEF ServerInv
<1> QED
  BY <1>1, ServerInit, ServerInvariant, PTL DEF Spec, ChannelSpec, Channel!Spec

-----------------------------------------------------------------------------
(***************************************************************************)
(* The records of the server.  A node whose client was dropped stays in    *)
(* the list until foreach_client ends, with one entry in the list of       *)
(* removed nodes; the nodes still to be visited, and those with an event   *)
(* collected, are of clients that are held.  This rests on the publisher's *)
(* clients sending nothing: discard_read_data drops a client without       *)
(* purging its node.                                                       *)
(***************************************************************************)
Held == {c \in Clients : handle[c]}

NodeInv ==
  /\ handle \in [Clients -> BOOLEAN] /\ poll_handle \in [Clients -> BOOLEAN]
  /\ removed_nodes \in [Clients -> Nat]
  /\ \A c \in Clients : removed_nodes[c] = IF c \in client_nodes \ Held THEN 1 ELSE 0
  /\ {c \in Clients : poll_handle[c]} \subseteq Held
  /\ Held \subseteq client_nodes /\ backlog \cap client_nodes = {}
  /\ ready.clients \subseteq Held /\ todo \subseteq Held
  /\ pc \in {"loop", "receive", "send", "destroyed"}
  /\ pc \in {"loop", "destroyed"} => todo = {} /\ client_nodes = Held
  /\ failed = "no"

CountInv ==
  client_count \in Int /\ (pc # "destroyed" => client_count = Cardinality(Held))

\* Within a visit the client is one of those left; the eventfd counts the
\* wake-up that is pending; and no publisher has input.
WakeInv ==
  /\ turn \in Nat /\ (turn > 0 => cur \in todo)
  /\ pc # "send" => turn < ENDPOINT_SERVICE_MAX
  /\ woke \in BOOLEAN /\ wakefd \in Nat
  /\ IF woke THEN wakefd = 1 ELSE wakefd = 0
  /\ ready.wake => woke
  /\ type = "PUB_SERVER" => /\ \A c \in Clients : inq[c] = <<>>
                            /\ ready.clients \subseteq ready.hup

\* What a client has of the messages sent: those since it was accepted, but for
\* the one it is about to be sent.
Owed(c) == IF pc = "send" /\ c \in todo THEN pubs - 1 ELSE pubs
HasAll(c) == Rest(got[c] \o outq[c], joined[c], Owed(c))

StreamInv ==
  /\ reset \in [Clients -> BOOLEAN] /\ connects \in Nat
  /\ pubs \in Nat /\ (pc = "send" => pubs > 0)
  /\ joined \in [Clients -> Nat]
  /\ outq \in [Clients -> Seq(Nat)] /\ got \in [Clients -> Seq(Nat)]
  /\ \A c \in backlog : got[c] = <<>> /\ outq[c] = <<>>
  /\ \A c \in Held : HasAll(c)

SoundInv == ServerInv /\ type \in Types /\ NodeInv /\ CountInv /\ WakeInv /\ StreamInv

Events == [listen : BOOLEAN, wake : BOOLEAN, clients : SUBSET Clients, hup : SUBSET Clients]

\* The set of held clients, when a descriptor is closed or opened.
LEMMA HeldChanges ==
  ASSUME handle \in [Clients -> BOOLEAN], NEW c \in Clients, NEW b \in BOOLEAN,
         handle' = [handle EXCEPT ![c] = b]
  PROVE  /\ handle' \in [Clients -> BOOLEAN]
         /\ b => Held' = Held \cup {c}
         /\ ~b => Held' = Held \ {c}
<1>1. handle' \in [Clients -> BOOLEAN]
  OBVIOUS
<1>2. handle'[c] <=> b
  OBVIOUS
<1>3. \A d \in Clients : d # c => (handle'[d] <=> handle[d])
  OBVIOUS
<1>4. \A d \in Clients : d \in Held' <=> handle'[d]
  BY DEF Held
<1>5. \A d \in Clients : d \in Held <=> handle[d]
  BY DEF Held
<1>6. Held' \subseteq Clients /\ Held \subseteq Clients
  BY DEF Held
<1>7. b => Held' = Held \cup {c}
  BY <1>2, <1>3, <1>4, <1>5, <1>6
<1>8. ~b => Held' = Held \ {c}
  BY <1>2, <1>3, <1>4, <1>5, <1>6
<1> QED
  BY <1>1, <1>7, <1>8

\* So too the set of the watched clients.
LEMMA PolledChanges ==
  ASSUME poll_handle \in [Clients -> BOOLEAN], NEW c \in Clients, NEW b \in BOOLEAN,
         poll_handle' = [poll_handle EXCEPT ![c] = b]
  PROVE  /\ poll_handle' \in [Clients -> BOOLEAN]
         /\ \A d \in Clients : poll_handle'[d] => IF d = c THEN b ELSE poll_handle[d]
<1>1. poll_handle' \in [Clients -> BOOLEAN]
  OBVIOUS
<1>2. poll_handle'[c] <=> b
  OBVIOUS
<1>3. \A d \in Clients : d # c => (poll_handle'[d] <=> poll_handle[d])
  OBVIOUS
<1> QED
  BY <1>1, <1>2, <1>3

\* An event of one client is taken off those collected.
LEMMA EventTaken ==
  ASSUME ready \in Events, NEW c, ready' = [ready EXCEPT !.clients = @ \ {c}]
  PROVE  /\ ready' \in Events /\ ready'.clients = ready.clients \ {c} /\ ready'.hup = ready.hup
         /\ ready'.wake <=> ready.wake
BY DEF Events

\* How many clients are held, when one more or one less is.
LEMMA HeldCount ==
  ASSUME NEW H, H \subseteq Clients, NEW c
  PROVE  /\ Cardinality(H) \in Nat
         /\ c \in H => Cardinality(H \ {c}) = Cardinality(H) - 1
         /\ c \notin H => Cardinality(H \cup {c}) = Cardinality(H) + 1
<1>1. IsFiniteSet(H)
  BY ServerAssumption, FS_Subset
<1> QED
  BY <1>1, FS_CardinalityType, FS_AddElement, FS_RemoveElement, Zenon

\* What dropping a client that is held does to the records.
LEMMA DropEffect ==
  ASSUME ControlInv, NodeInv, NEW c \in Held, DropClient(c)
  PROVE  /\ handle' \in [Clients -> BOOLEAN] /\ Held' = Held \ {c}
         /\ poll_handle' \in [Clients -> BOOLEAN]
         /\ {d \in Clients : poll_handle'[d]} \subseteq Held'
         /\ removed_nodes' \in [Clients -> Nat]
         /\ \A d \in Clients : removed_nodes'[d] = IF d = c THEN 1 ELSE removed_nodes[d]
         /\ ready'.clients = ready.clients \ {c} /\ ready'.hup = ready.hup
         /\ ready'.wake <=> ready.wake
         /\ client_count' = client_count - 1
<1>1. c \in Clients /\ FALSE \in BOOLEAN
  BY DEF Held
<1>2. handle' \in [Clients -> BOOLEAN] /\ Held' = Held \ {c}
  BY <1>1, HeldChanges, Zenon DEF DropClient, NodeInv
<1>3. /\ poll_handle' \in [Clients -> BOOLEAN]
      /\ \A d \in Clients : poll_handle'[d] => IF d = c THEN FALSE ELSE poll_handle[d]
  BY <1>1, PolledChanges DEF DropClient, NodeInv
<1>4. {d \in Clients : poll_handle'[d]} \subseteq Held'
  BY <1>2, <1>3 DEF NodeInv
<1>5. removed_nodes[c] = 0
  BY <1>1 DEF NodeInv
<1>6. removed_nodes' = [removed_nodes EXCEPT ![c] = 1]
  BY <1>5 DEF DropClient, NodeInv
<1>7. /\ removed_nodes' \in [Clients -> Nat]
      /\ \A d \in Clients : removed_nodes'[d] = IF d = c THEN 1 ELSE removed_nodes[d]
  BY <1>1, <1>6 DEF NodeInv
<1>8. ready \in Events
  BY DEF ControlInv, Events
<1>9. /\ ready'.clients = ready.clients \ {c} /\ ready'.hup = ready.hup
      /\ ready'.wake <=> ready.wake
  BY <1>8, EventTaken DEF DropClient
<1> QED
  BY <1>2, <1>3, <1>4, <1>7, <1>9 DEF DropClient

\* A turn of foreach_client for client c: the client is kept, or dropped and
\* not visited again.
LEMMA VisitStep ==
  ASSUME ControlInv, NodeInv, CountInv, NEW c \in todo, pc \in {"receive", "send"},
         UNCHANGED <<client_nodes, backlog, pc, failed>>,
         \/ DropClient(c) /\ todo' = todo \ {c}
         \/ /\ UNCHANGED <<handle, poll_handle, ready, client_count, removed_nodes>>
            /\ todo' \in {todo, todo \ {c}}
  PROVE  /\ NodeInv' /\ CountInv' /\ Held' \subseteq Held
         /\ ready'.clients \subseteq ready.clients /\ ready'.hup = ready.hup
         /\ ready'.wake <=> ready.wake
<1>1. CASE DropClient(c) /\ todo' = todo \ {c}
  <2>1. c \in Held /\ Held \subseteq Clients
    BY DEF NodeInv, Held
  <2>2. /\ handle' \in [Clients -> BOOLEAN] /\ Held' = Held \ {c}
        /\ poll_handle' \in [Clients -> BOOLEAN]
        /\ {d \in Clients : poll_handle'[d]} \subseteq Held'
        /\ removed_nodes' \in [Clients -> Nat]
        /\ \A d \in Clients : removed_nodes'[d] = IF d = c THEN 1 ELSE removed_nodes[d]
        /\ ready'.clients = ready.clients \ {c} /\ ready'.hup = ready.hup
        /\ ready'.wake <=> ready.wake
        /\ client_count' = client_count - 1
    BY <1>1, <2>1, DropEffect
  <2>3. \A d \in Clients : removed_nodes'[d] = IF d \in client_nodes' \ Held' THEN 1 ELSE 0
    BY <2>1, <2>2 DEF NodeInv
  <2>4. NodeInv'
    BY <1>1, <2>2, <2>3 DEF NodeInv
  <2>5. CountInv'
    <3>1. Cardinality(Held) \in Nat /\ Cardinality(Held') = Cardinality(Held) - 1
      BY <2>1, <2>2, HeldCount, Zenon
    <3> QED
      BY <2>2, <3>1 DEF CountInv
  <2> QED
    BY <2>2, <2>4, <2>5
<1>2. CASE /\ UNCHANGED <<handle, poll_handle, ready, client_count, removed_nodes>>
           /\ todo' \in {todo, todo \ {c}}
  <2>1. Held' = Held
    BY <1>2 DEF Held
  <2>2. NodeInv'
    BY <1>2, <2>1 DEF NodeInv
  <2> QED
    BY <1>2, <2>1, <2>2 DEF CountInv
<1> QED
  BY <1>1, <1>2

\* A publisher's clients have no input, so that it never gets to discard any.
LEMMA NothingToDiscard ==
  ASSUME ControlInv, NodeInv, WakeInv
  PROVE  ~DiscardRead /\ ~\E c \in Clients : DiscardBegin(c)
BY DEF NodeInv, WakeInv, DiscardRead, DiscardBegin

\* What service_reads and send_impl do to the records of their client.
LEMMA VisitEffect ==
  ASSUME ServiceRead \/ SendTo
  PROVE  /\ pc \in {"receive", "send"}
         /\ \E c \in todo :
              \/ DropClient(c) /\ todo' = todo \ {c}
              \/ /\ UNCHANGED <<handle, poll_handle, ready, client_count, removed_nodes>>
                 /\ todo' \in {todo, todo \ {c}}
         /\ UNCHANGED <<client_nodes, backlog, pc, failed, wakeVars, type, pubs, joined, got>>
<1>1. CASE ServiceRead
  <2>1. PICK c \in todo :
          LET r == Recv(c)
          IN /\ IF r = "eof" THEN DropClient(c)
                ELSE UNCHANGED <<handle, poll_handle, ready, client_count, removed_nodes>>
             /\ \E stop \in BOOLEAN :
                  todo' = IF MoreReads(r = "message" /\ ~stop) THEN todo ELSE todo \ {c}
    BY <1>1 DEF ServiceRead
  <2>2. \/ DropClient(c) /\ todo' = todo \ {c}
        \/ /\ UNCHANGED <<handle, poll_handle, ready, client_count, removed_nodes>>
           /\ todo' \in {todo, todo \ {c}}
    BY <2>1 DEF MoreReads
  <2> QED
    BY <1>1, <2>2 DEF ServiceRead
<1>2. CASE SendTo
  <2>1. PICK c \in todo :
          LET broken == ~handle[c] \/ peer[c] = "closed"
              full == ~broken /\ Len(outq[c]) >= QueueLimit
              retry == full /\ turn + 1 >= MAX_SEND_SLEEP_COUNT
          IN /\ IF broken \/ (full /\ ~retry) THEN DropClient(c)
                ELSE UNCHANGED <<handle, poll_handle, ready, client_count, removed_nodes>>
             /\ todo' = IF retry THEN todo ELSE todo \ {c}
    BY <1>2, Zenon DEF SendTo
  <2>2. \/ DropClient(c) /\ todo' = todo \ {c}
        \/ /\ UNCHANGED <<handle, poll_handle, ready, client_count, removed_nodes>>
           /\ todo' \in {todo, todo \ {c}}
    BY <2>1
  <2> QED
    BY <1>2, <2>2, Zenon DEF SendTo, histVars
<1> QED
  BY <1>1, <1>2

\* The records of the server stay those of its sockets.
LEMMA NodeStep ==
  ASSUME ControlInv, ControlInv', NodeInv, CountInv, WakeInv, [Next]_vars
  PROVE  NodeInv' /\ CountInv'
<1>1. CASE Accept
  <2>1. PICK c \in backlog :
          /\ backlog' = backlog \ {c} /\ client_nodes' = client_nodes \cup {c}
          /\ handle' = [handle EXCEPT ![c] = TRUE]
          /\ poll_handle' = [poll_handle EXCEPT ![c] = TRUE]
    BY <1>1, Zenon DEF Accept
  <2>2. /\ pc = "loop" /\ client_count' = client_count + 1
        /\ ready' = [ready EXCEPT !.listen = FALSE]
        /\ UNCHANGED <<removed_nodes, pc, todo, failed>>
    BY <1>1 DEF Accept
  <2>3. c \in Clients /\ c \notin client_nodes /\ c \notin Held
    BY DEF NodeInv, ControlInv
  <2>4. handle' \in [Clients -> BOOLEAN] /\ Held' = Held \cup {c}
    BY <2>1, <2>3, HeldChanges, Zenon DEF NodeInv
  <2>5. /\ poll_handle' \in [Clients -> BOOLEAN]
        /\ \A d \in Clients : poll_handle'[d] => IF d = c THEN TRUE ELSE poll_handle[d]
    BY <2>1, <2>3, PolledChanges DEF NodeInv
  <2>6. {d \in Clients : poll_handle'[d]} \subseteq Held'
    BY <2>4, <2>5 DEF NodeInv
  <2>7. ready'.clients = ready.clients
    BY <2>2 DEF ControlInv
  <2>8. \A d \in Clients : removed_nodes'[d] = IF d \in client_nodes' \ Held' THEN 1 ELSE 0
    BY <2>1, <2>2, <2>4 DEF NodeInv
  <2>9. NodeInv'
    BY <2>1, <2>2, <2>4, <2>5, <2>6, <2>7, <2>8 DEF NodeInv
  <2>10. Held \subseteq Clients
    BY DEF Held
  <2> QED
    BY <2>2, <2>3, <2>4, <2>9, <2>10, HeldCount DEF CountInv
<1>2. ASSUME NEW c \in Clients, ClientDisconnected(c) PROVE NodeInv' /\ CountInv'
  <2>1. /\ pc = "loop" /\ c \in ready.clients /\ client_count' = client_count - 1
        /\ handle' = [handle EXCEPT ![c] = FALSE]
        /\ poll_handle' = [poll_handle EXCEPT ![c] = FALSE]
        /\ ready' = [ready EXCEPT !.clients = @ \ {c}]
        /\ PurgeNodes([removed_nodes EXCEPT ![c] = @ + 1])
        /\ UNCHANGED <<backlog, pc, todo>>
    BY <1>2 DEF ClientDisconnected, kernelVars
  <2>2. /\ c \in Held /\ client_nodes = Held /\ Held \subseteq Clients
        /\ \A d \in Clients : removed_nodes[d] = 0
    BY <2>1 DEF NodeInv, Held
  <2>3. handle' \in [Clients -> BOOLEAN] /\ Held' = Held \ {c}
    BY <2>1, HeldChanges, Zenon DEF NodeInv
  <2>4. /\ poll_handle' \in [Clients -> BOOLEAN]
        /\ \A d \in Clients : poll_handle'[d] => IF d = c THEN FALSE ELSE poll_handle[d]
    BY <2>1, PolledChanges DEF NodeInv
  <2>5. {d \in Clients : poll_handle'[d]} \subseteq Held'
    BY <2>3, <2>4 DEF NodeInv
  <2>6. ready'.clients = ready.clients \ {c}
    BY <2>1, EventTaken DEF ControlInv, Events
  <2> DEFINE r == [removed_nodes EXCEPT ![c] = @ + 1]
  <2>7. \A d \in Clients : r[d] = IF d = c THEN 1 ELSE 0
    BY <2>2 DEF NodeInv
  <2> HIDE DEF r
  <2>8. /\ client_nodes' = {d \in client_nodes : r[d] = 0}
        /\ removed_nodes' = [d \in Clients |-> 0]
        /\ failed' = IF \E d \in Clients : r[d] > (IF d \in client_nodes THEN 1 ELSE 0)
                     THEN "ub" ELSE failed
    BY <2>1 DEF PurgeNodes, r
  <2>9. client_nodes' = Held'
    BY <2>2, <2>3, <2>7, <2>8
  <2>10. failed' = failed
    BY <2>2, <2>7, <2>8
  <2>11. /\ removed_nodes' \in [Clients -> Nat]
         /\ \A d \in Clients : removed_nodes'[d] = IF d \in client_nodes' \ Held' THEN 1 ELSE 0
    BY <2>8, <2>9
  <2>12. backlog' \cap client_nodes' = {}
    BY <2>1, <2>2, <2>3, <2>9 DEF NodeInv
  <2>13. NodeInv'
    BY <2>1, <2>3, <2>4, <2>5, <2>6, <2>9, <2>10, <2>11, <2>12 DEF NodeInv
  <2> QED
    BY <2>1, <2>2, <2>3, <2>13, HeldCount DEF CountInv
<1>3. ASSUME NEW c \in Clients, ClientReadable(c) PROVE NodeInv' /\ CountInv'
  <2>1. /\ ready' = [ready EXCEPT !.clients = @ \ {c}]
        /\ UNCHANGED <<backlog, nodeVars, pc, todo, failed>>
    BY <1>3 DEF ClientReadable, kernelVars
  <2>2. ready'.clients = ready.clients \ {c}
    BY <2>1, EventTaken DEF ControlInv, Events
  <2>3. Held' = Held
    BY <2>1 DEF Held, nodeVars
  <2> QED
    BY <2>1, <2>2, <2>3 DEF NodeInv, CountInv, nodeVars
<1>4. CASE ServiceRead \/ SendTo
  BY <1>4, VisitEffect, VisitStep
<1>5. CASE ReceiveBegin
  <2>1. /\ pc = "loop" /\ ready.wake /\ ready' = [ready EXCEPT !.wake = FALSE]
        /\ failed' = IF wakefd = 1 /\ woke THEN failed ELSE "assert"
        /\ pc' = "receive" /\ todo' = client_nodes /\ UNCHANGED <<backlog, nodeVars>>
    BY <1>5 DEF ReceiveBegin, kernelVars
  <2>2. wakefd = 1 /\ woke
    BY <2>1 DEF WakeInv
  <2>3. ready'.clients = ready.clients /\ failed' = failed
    BY <2>1, <2>2 DEF ControlInv
  <2>4. Held' = Held
    BY <2>1 DEF Held, nodeVars
  <2> QED
    BY <2>1, <2>3, <2>4 DEF NodeInv, CountInv, nodeVars
<1>6. CASE ForeachEnd
  <2>1. /\ todo = {} /\ pc' = "loop" /\ PurgeNodes(removed_nodes)
        /\ UNCHANGED <<backlog, handle, poll_handle, client_count, todo, ready>>
        /\ pc # "destroyed"
    BY <1>6 DEF ForeachEnd, kernelVars, Running
  <2>2. Held' = Held /\ Held \subseteq Clients
    BY <2>1 DEF Held
  <2>3. client_nodes' = Held
    <3>1. client_nodes \subseteq Clients /\ Held \subseteq client_nodes
      BY DEF ControlInv, NodeInv
    <3>2. \A c \in client_nodes : removed_nodes[c] = 0 <=> c \in Held
      BY <3>1 DEF NodeInv
    <3>3. client_nodes' = {c \in client_nodes : removed_nodes[c] = 0}
      BY <2>1 DEF PurgeNodes
    <3> QED
      BY <3>1, <3>2, <3>3
  <2>4. failed' = failed
    BY <2>1 DEF PurgeNodes, NodeInv
  <2>5. /\ removed_nodes' \in [Clients -> Nat]
        /\ \A d \in Clients : removed_nodes'[d] = 0
    BY <2>1 DEF PurgeNodes
  <2>6. NodeInv'
    BY <2>1, <2>2, <2>3, <2>4, <2>5 DEF NodeInv
  <2> QED
    BY <2>1, <2>2, <2>6 DEF CountInv
<1>7. CASE SendBegin
  <2>1. pc = "loop" /\ pc' = "send" /\ todo' = client_nodes /\ UNCHANGED <<backlog, nodeVars, ready, failed>>
    BY <1>7 DEF SendBegin, kernelVars
  <2>2. Held' = Held
    BY <2>1 DEF Held, nodeVars
  <2> QED
    BY <2>1, <2>2 DEF NodeInv, CountInv, nodeVars
<1>8. CASE Poll
  <2>1. UNCHANGED <<backlog, nodeVars, pc, todo, failed>>
    BY <1>8 DEF Poll, kernelVars
  <2>2. ready'.clients \subseteq {c \in Clients : poll_handle[c]}
    BY <1>8 DEF Poll
  <2>3. Held' = Held
    BY <2>1 DEF Held, nodeVars
  <2> QED
    BY <2>1, <2>2, <2>3 DEF NodeInv, CountInv, nodeVars
<1>9. CASE Destroy
  <2>1. /\ pc = "loop" /\ pc' = "destroyed" /\ client_nodes' = {} /\ ready' = NoEvents
        /\ handle' = [c \in Clients |-> FALSE] /\ poll_handle' = [c \in Clients |-> FALSE]
        /\ UNCHANGED <<backlog, removed_nodes, client_count, todo, failed>>
    BY <1>9 DEF Destroy, kernelVars
  <2>2. Held' = {}
    BY <2>1 DEF Held
  <2>3. \A d \in Clients : removed_nodes[d] = 0
    BY <2>1 DEF NodeInv
  <2>4. ready'.clients = {}
    BY <2>1 DEF NoEvents
  <2>5. {c \in Clients : poll_handle'[c]} = {}
    BY <2>1
  <2>6. handle' \in [Clients -> BOOLEAN] /\ poll_handle' \in [Clients -> BOOLEAN]
    BY <2>1
  <2>7. NodeInv'
    BY <2>1, <2>2, <2>3, <2>4, <2>5, <2>6 DEF NodeInv
  <2> QED
    BY <2>1, <2>7 DEF CountInv
<1>10. CASE ClientStep
  <2>1. UNCHANGED <<nodeVars, pc, todo, ready, failed>>
    BY <1>10, Zenon DEF ClientStep, Connect, ClientSend, ClientRead, ClientClose, loopVars
  <2>2. backlog' \cap client_nodes = {}
    <3>1. backlog \cap client_nodes = {}
      BY DEF NodeInv
    <3>2. backlog' = backlog \/ \E c \in Clients : c \notin client_nodes /\ backlog' = backlog \cup {c}
      BY <1>10, Zenon DEF ClientStep, Connect, ClientSend, ClientRead, ClientClose
    <3> QED
      BY <3>1, <3>2, Zenon
  <2>3. Held' = Held
    BY <2>1 DEF Held, nodeVars
  <2> QED
    BY <2>1, <2>2, <2>3 DEF NodeInv, CountInv, nodeVars
<1>11. CASE UNCHANGED vars
  <2>1. UNCHANGED <<backlog, nodeVars, pc, todo, ready, failed>>
    BY <1>11 DEF vars, kernelVars, loopVars
  <2>2. Held' = Held
    BY <2>1 DEF Held, nodeVars
  <2> QED
    BY <2>1, <2>2 DEF NodeInv, CountInv, nodeVars
<1> QED
  BY <1>1, <1>2, <1>3, <1>4, <1>5, <1>6, <1>7, <1>8, <1>9, <1>10, <1>11, NothingToDiscard
  DEF Next, ServerStep

\* The eventfd, and the limits of a visit.
LEMMA WakeStep ==
  ASSUME "PUB_SERVER" \notin Writers,
         ControlInv, DataInv, NodeInv, CountInv, WakeInv, [Next]_vars
  PROVE  WakeInv'
<1>1. CASE ServiceRead
  <2>1. /\ pc = "receive" /\ pc' = pc /\ UNCHANGED <<woke, wakefd, type>> /\ type # "PUB_SERVER"
    BY <1>1 DEF ServiceRead, wakeVars, ControlInv, Reads
  <2>2. PICK c \in todo, r \in {"bad", "error", "message", "eof", "again"}, stop \in BOOLEAN :
          /\ cur' = c
          /\ turn' = IF MoreReads(r = "message" /\ ~stop) THEN turn + 1 ELSE 0
          /\ todo' = IF MoreReads(r = "message" /\ ~stop) THEN todo ELSE todo \ {c}
    <3>1. PICK c \in todo, stop \in BOOLEAN :
            /\ cur' = c
            /\ turn' = IF MoreReads(Recv(c) = "message" /\ ~stop) THEN turn + 1 ELSE 0
            /\ todo' = IF MoreReads(Recv(c) = "message" /\ ~stop) THEN todo ELSE todo \ {c}
      BY <1>1, Zenon DEF ServiceRead
    <3>2. Recv(c) \in {"bad", "error", "message", "eof", "again"}
      BY DEF Recv
    <3> QED
      BY <3>1, <3>2, Zenon
  <2>3. turn' \in Nat /\ (turn' > 0 => cur' \in todo') /\ turn' < ENDPOINT_SERVICE_MAX
    <3>1. turn \in Nat
      BY Zenon DEF WakeInv
    <3>2. CASE MoreReads(r = "message" /\ ~stop)
      <4>1. turn' = turn + 1 /\ todo' = todo /\ cur' \in todo /\ turn + 1 < ENDPOINT_SERVICE_MAX
        BY <2>2, <3>2, Zenon DEF MoreReads
      <4> QED
        BY <3>1, <4>1
    <3>3. CASE ~MoreReads(r = "message" /\ ~stop)
      <4>1. turn' = 0
        BY <2>2, <3>3, Zenon
      <4> QED
        BY <4>1, ServerAssumption
    <3> QED
      BY <3>2, <3>3, Zenon
  <2>4. ready'.wake <=> ready.wake
    BY <1>1, VisitEffect, VisitStep, Zenon
  <2> QED
    BY <2>1, <2>3, <2>4 DEF WakeInv
<1>2. CASE SendTo
  <2>1. /\ pc = "send" /\ pc' = pc /\ UNCHANGED <<woke, wakefd, type, inq>>
    BY <1>2, Zenon DEF SendTo, wakeVars, histVars
  <2>2. PICK c \in todo, retry \in BOOLEAN :
          /\ cur' = c /\ turn' = IF retry THEN MAX_SEND_SLEEP_COUNT ELSE 0
          /\ todo' = IF retry THEN todo ELSE todo \ {c}
    BY <1>2, Zenon DEF SendTo
  <2>3. turn' \in Nat /\ (turn' > 0 => cur' \in todo')
    BY <2>2, ServerAssumption
  <2>4. /\ ready'.wake <=> ready.wake
        /\ ready'.clients \subseteq ready.clients /\ ready'.hup = ready.hup
    BY <1>2, VisitEffect, VisitStep, Zenon
  <2> QED
    BY <2>1, <2>3, <2>4 DEF WakeInv
<1>3. CASE Accept
  <2>1. UNCHANGED <<turn, cur, todo, pc, wakeVars, type, inq>> /\ ready' = [ready EXCEPT !.listen = FALSE]
    BY <1>3 DEF Accept
  <2>2. ready'.clients = ready.clients /\ ready'.hup = ready.hup /\ (ready'.wake <=> ready.wake)
    BY <2>1 DEF ControlInv
  <2> QED
    BY <2>1, <2>2 DEF WakeInv, wakeVars
<1>4. ASSUME NEW c \in Clients, ClientDisconnected(c) PROVE WakeInv'
  <2>1. /\ UNCHANGED <<turn, cur, todo, pc, wakeVars, type, inq>>
        /\ ready' = [ready EXCEPT !.clients = @ \ {c}]
    BY <1>4 DEF ClientDisconnected, kernelVars, histVars
  <2>2. ready'.clients = ready.clients \ {c} /\ ready'.hup = ready.hup /\ (ready'.wake <=> ready.wake)
    BY <2>1, EventTaken DEF ControlInv, Events
  <2> QED
    BY <2>1, <2>2 DEF WakeInv, wakeVars
<1>5. ASSUME NEW c \in Clients, ClientReadable(c) PROVE WakeInv'
  <2>1. UNCHANGED <<turn, cur, todo, pc, type, inq>> /\ type # "PUB_SERVER"
    BY <1>5 DEF ClientReadable, kernelVars, histVars
  <2>2. woke' \in BOOLEAN /\ woke'
    BY <1>5 DEF ClientReadable
  <2>3. wakefd' = 1
    BY <1>5 DEF ClientReadable, WakeInv
  <2> QED
    BY <2>1, <2>2, <2>3 DEF WakeInv
<1>6. CASE ReceiveBegin
  <2>1. /\ turn' = 0 /\ wakefd' = 0 /\ ready' = [ready EXCEPT !.wake = FALSE]
        /\ UNCHANGED <<type, inq>>
    BY <1>6 DEF ReceiveBegin, kernelVars, histVars
  <2>2. ~ready'.wake /\ ready'.clients = ready.clients /\ ready'.hup = ready.hup
    BY <2>1 DEF ControlInv
  <2>3. woke' \in BOOLEAN /\ ~woke'
    BY <1>6, Zenon DEF ReceiveBegin
  <2>4. turn' \in Nat /\ ~(turn' > 0) /\ turn' < ENDPOINT_SERVICE_MAX
    BY <2>1, ServerAssumption
  <2>5. type' = "PUB_SERVER" => (\A c \in Clients : inq'[c] = <<>>) /\ ready'.clients \subseteq ready'.hup
    BY <2>1, <2>2 DEF WakeInv
  <2> QED
    BY <2>1, <2>2, <2>3, <2>4, <2>5 DEF WakeInv
<1>7. CASE ForeachEnd
  <2>1. /\ todo = {} /\ pc' = "loop" /\ UNCHANGED <<turn, cur, todo, wakeVars, ready, type, inq>>
    BY <1>7 DEF ForeachEnd, kernelVars, histVars
  <2>2. turn = 0
    BY <2>1 DEF WakeInv
  <2> QED
    BY <2>1, <2>2, ServerAssumption DEF WakeInv, wakeVars
<1>8. CASE SendBegin
  BY <1>8 DEF SendBegin, WakeInv, wakeVars, kernelVars
<1>9. CASE Poll
  <2>1. UNCHANGED <<turn, cur, todo, pc, wakeVars, type, inq>>
    BY <1>9 DEF Poll, kernelVars, histVars
  <2>2. ready'.wake => wakefd > 0
    BY <1>9, Zenon DEF Poll
  <2>3. type = "PUB_SERVER" => ready'.clients \subseteq ready'.hup
    BY <1>9 DEF Poll, WakeInv
  <2> QED
    BY <2>1, <2>2, <2>3 DEF WakeInv, wakeVars
<1>10. CASE Destroy
  <2>1. pc = "loop" /\ ready' = NoEvents /\ UNCHANGED <<turn, cur, todo, wakeVars, type, inq>>
    BY <1>10 DEF Destroy, kernelVars, histVars
  <2>2. ~ready'.wake /\ ready'.clients = {}
    BY <2>1 DEF NoEvents
  <2> QED
    BY <2>1, <2>2 DEF WakeInv, wakeVars
<1>11. CASE ClientStep
  <2>1. UNCHANGED <<turn, cur, todo, pc, wakeVars, ready, type>>
    BY <1>11 DEF ClientStep, Connect, ClientSend, ClientRead, ClientClose, loopVars, histVars
  <2>2. ASSUME type = "PUB_SERVER" PROVE \A c \in Clients : inq'[c] = <<>>
    <3>1. \A c \in Clients : inq[c] = <<>>
      BY <2>2 DEF WakeInv
    <3>2. inq' = inq \/ \E c \in Clients : inq' = [inq EXCEPT ![c] = <<>>]
      BY <1>11, <2>2, Zenon DEF ClientStep, Connect, ClientSend, ClientRead, ClientClose
    <3> QED
      BY <3>1, <3>2 DEF DataInv
  <2> QED
    BY <2>1, <2>2 DEF WakeInv, wakeVars
<1>12. CASE UNCHANGED vars
  BY <1>12 DEF vars, kernelVars, loopVars, wakeVars, histVars, WakeInv
<1> QED
  BY <1>1, <1>2, <1>3, <1>4, <1>5, <1>6, <1>7, <1>8, <1>9, <1>10, <1>11, <1>12, NothingToDiscard
  DEF Next, ServerStep

-----------------------------------------------------------------------------
(* What the clients of a sender have been sent.                            *)

\* What a client has read and what it has still to read.
LEMMA StillNumbers ==
  ASSUME NEW s \in Seq(Nat), NEW t \in Seq(Nat)
  PROVE  s \o t \in Seq(Nat)
OBVIOUS

\* Sequences with the same elements are the same.
LEMMA SameElements ==
  ASSUME NEW s \in Seq(Nat), NEW t \in Seq(Nat), NEW n, Len(s) = n, Len(t) = n,
         \A i \in 1 .. n : s[i] = t[i]
  PROVE  s = t
OBVIOUS

\* What a client reads it had in its socket buffer.
LEMMA ReadKeepsAll ==
  ASSUME NEW r \in Seq(Nat), NEW q \in Seq(Nat), q # <<>>
  PROVE  /\ Append(r, Head(q)) \in Seq(Nat) /\ Tail(q) \in Seq(Nat)
         /\ Append(r, Head(q)) \o Tail(q) = r \o q
<1>1. /\ Head(q) \in Nat /\ Head(q) = q[1] /\ Tail(q) \in Seq(Nat) /\ Len(Tail(q)) = Len(q) - 1
      /\ \A i \in 1 .. Len(q) - 1 : Tail(q)[i] = q[i + 1]
      /\ Len(q) \in Nat /\ Len(q) >= 1 /\ Len(r) \in Nat
  OBVIOUS
<1>2. /\ Append(r, Head(q)) \in Seq(Nat) /\ Len(Append(r, Head(q))) = Len(r) + 1
      /\ \A i \in 1 .. Len(r) : Append(r, Head(q))[i] = r[i]
      /\ Append(r, Head(q))[Len(r) + 1] = Head(q)
  BY <1>1
<1> DEFINE a == Append(r, Head(q)) \o Tail(q)
           b == r \o q
<1>3. a \in Seq(Nat) /\ b \in Seq(Nat) /\ Len(a) = Len(r) + Len(q) /\ Len(b) = Len(r) + Len(q)
  BY <1>1, <1>2
<1>4. ASSUME NEW i \in 1 .. Len(r) + Len(q) PROVE a[i] = b[i]
  <2>1. CASE i <= Len(r)
    BY <1>1, <1>2, <2>1
  <2>2. CASE i = Len(r) + 1
    BY <1>1, <1>2, <2>2
  <2>3. CASE i > Len(r) + 1
    <3>1. i - (Len(r) + 1) \in 1 .. Len(q) - 1 /\ i - Len(r) = (i - (Len(r) + 1)) + 1
      BY <1>1, <2>3
    <3>2. a[i] = Tail(q)[i - (Len(r) + 1)]
      BY <1>1, <1>2, <2>3
    <3>3. b[i] = q[i - Len(r)]
      BY <1>1, <2>3
    <3> QED
      BY <1>1, <3>1, <3>2, <3>3
  <2>4. i <= Len(r) \/ i = Len(r) + 1 \/ i > Len(r) + 1
    BY <1>1
  <2> QED
    BY <2>1, <2>2, <2>3, <2>4, Zenon
<1> HIDE DEF a, b
<1>5. a = b
  BY <1>3, <1>4, SameElements, Zenon
<1> QED
  BY <1>1, <1>2, <1>5, Zenon DEF a, b

\* A message is added to a socket buffer.
LEMMA BufferGrows ==
  ASSUME NEW q \in Seq(Nat), NEW x \in Nat
  PROVE  Append(q, x) \in Seq(Nat)
OBVIOUS

\* What a client is sent is the last it has.
LEMMA SentIsLast ==
  ASSUME NEW r \in Seq(Nat), NEW q \in Seq(Nat), NEW x \in Nat
  PROVE  r \o Append(q, x) = Append(r \o q, x)
<1> DEFINE a == r \o Append(q, x)
           b == Append(r \o q, x)
<1>1. a \in Seq(Nat) /\ b \in Seq(Nat) /\ Len(a) = Len(r) + Len(q) + 1 /\ Len(b) = Len(r) + Len(q) + 1
  OBVIOUS
<1>2. ASSUME NEW i \in 1 .. Len(r) + Len(q) + 1 PROVE a[i] = b[i]
  OBVIOUS
<1> HIDE DEF a, b
<1>3. a = b
  BY <1>1, <1>2, SameElements, Zenon
<1> QED
  BY <1>3 DEF a, b

\* A step that changes nothing about a client.
LEMMA SameStream ==
  ASSUME NEW c \in Clients, HasAll(c), got'[c] = got[c], outq'[c] = outq[c],
         joined'[c] = joined[c], Owed(c)' = Owed(c)
  PROVE  HasAll(c)'
BY DEF HasAll

\* A step that changes nothing about any, though it may drop some.
LEMMA StreamRests ==
  ASSUME StreamInv, UNCHANGED <<got, outq, joined, pubs, connects>>,
         reset' \in [Clients -> BOOLEAN], backlog' \subseteq backlog, Held' \subseteq Held,
         pc' = "send" => pc = "send",
         \A c \in Held' : pc = "send" /\ c \in todo <=> pc' = "send" /\ c \in todo'
  PROVE  StreamInv'
<1>1. ASSUME NEW c \in Held' PROVE HasAll(c)'
  <2>1. c \in Held /\ HasAll(c)
    BY DEF StreamInv
  <2>2. Owed(c)' = Owed(c)
    BY DEF Owed
  <2> QED
    BY <2>1, <2>2, SameStream, Zenon DEF Held
<1> QED
  BY <1>1 DEF StreamInv

\* One turn of send_impl.
LEMMA SendToStream ==
  ASSUME ControlInv, NodeInv, CountInv, StreamInv, SendTo
  PROVE  StreamInv'
<1>1. PICK c \in todo :
        LET broken == ~handle[c] \/ peer[c] = "closed"
            full == ~broken /\ Len(outq[c]) >= QueueLimit
            retry == full /\ turn + 1 >= MAX_SEND_SLEEP_COUNT
        IN /\ outq' = IF broken \/ full THEN outq ELSE [outq EXCEPT ![c] = Append(@, pubs)]
           /\ IF broken \/ (full /\ ~retry) THEN DropClient(c)
              ELSE UNCHANGED <<handle, poll_handle, ready, client_count, removed_nodes>>
           /\ todo' = IF retry THEN todo ELSE todo \ {c}
  BY Zenon DEF SendTo
<1>2. /\ pc = "send" /\ UNCHANGED <<pc, backlog, reset, client_nodes, failed>>
      /\ UNCHANGED <<got, joined, pubs, connects>>
  BY Zenon DEF SendTo, histVars
<1>3. c \in Clients /\ c \in Held /\ Held \subseteq Clients
  BY DEF NodeInv, Held
<1>4. \/ outq' = outq /\ DropClient(c) /\ todo' = todo \ {c}
      \/ outq' = outq /\ handle' = handle /\ todo' = todo
      \/ /\ outq' = [outq EXCEPT ![c] = Append(outq[c], pubs)] /\ handle' = handle
         /\ todo' = todo \ {c}
  BY <1>1, Zenon
<1>5. CASE outq' = outq /\ DropClient(c) /\ todo' = todo \ {c}
  <2>1. Held' = Held \ {c}
    BY <1>3, <1>5, DropEffect, Zenon
  <2> QED
    BY <1>2, <1>5, <2>1, StreamRests, Zenon DEF StreamInv
<1>6. CASE outq' = outq /\ handle' = handle /\ todo' = todo
  <2>1. Held' = Held
    BY <1>6 DEF Held
  <2> QED
    BY <1>2, <1>6, <2>1, StreamRests, Zenon DEF StreamInv
<1>7. CASE /\ outq' = [outq EXCEPT ![c] = Append(outq[c], pubs)] /\ handle' = handle
           /\ todo' = todo \ {c}
  <2>1. Held' = Held
    BY <1>7 DEF Held
  <2>2. /\ outq[c] \in Seq(Nat) /\ got[c] \in Seq(Nat) /\ joined[c] \in Nat
        /\ pubs \in Nat /\ pubs - 1 \in Nat /\ (pubs - 1) + 1 = pubs
    BY <1>2, <1>3 DEF StreamInv
  <2>3. Append(outq[c], pubs) \in Seq(Nat)
    BY <2>2, BufferGrows, Zenon
  <2>4. outq' \in [Clients -> Seq(Nat)] /\ outq'[c] = Append(outq[c], pubs)
    BY <1>3, <1>7, <2>3 DEF StreamInv
  <2>5. \A d \in Clients : d # c => outq'[d] = outq[d]
    BY <1>7 DEF StreamInv
  <2>6. HasAll(c)'
    <3>1. Rest(got[c] \o outq[c], joined[c], pubs - 1)
      BY <1>2, <1>3 DEF StreamInv, HasAll, Owed
    <3>2. got[c] \o outq[c] \in Seq(Nat)
      BY <2>2
    <3>3. Rest(Append(got[c] \o outq[c], (pubs - 1) + 1), joined[c], (pubs - 1) + 1)
      BY <2>2, <3>1, <3>2, RestAppend, Zenon
    <3>4. got[c] \o Append(outq[c], pubs) = Append(got[c] \o outq[c], pubs)
      <4>1. outq[c] \in Seq(Nat) /\ got[c] \in Seq(Nat) /\ pubs \in Nat
        BY <2>2
      <4> QED
        BY <4>1, SentIsLast, Zenon
    <3>5. Rest(got[c] \o Append(outq[c], pubs), joined[c], pubs)
      BY <2>2, <3>3, <3>4, Zenon
    <3>6. Owed(c)' = pubs /\ got'[c] = got[c] /\ joined'[c] = joined[c]
      BY <1>2, <1>7 DEF Owed
    <3> QED
      BY <2>4, <3>5, <3>6, Zenon DEF HasAll
  <2>7. ASSUME NEW d \in Held, d # c PROVE HasAll(d)'
    <3>1. HasAll(d) /\ d \in Clients
      BY <1>3 DEF StreamInv
    <3>2. Owed(d)' = Owed(d)
      BY <1>2, <1>7, <2>7 DEF Owed
    <3> QED
      BY <1>2, <2>5, <2>7, <3>1, <3>2, SameStream, Zenon
  <2>8. \A d \in backlog' : got'[d] = <<>> /\ outq'[d] = <<>>
    <3>1. c \notin backlog /\ backlog \subseteq Clients
      BY <1>3 DEF NodeInv, ControlInv
    <3> QED
      BY <1>2, <2>5, <3>1 DEF StreamInv
  <2> QED
    BY <1>2, <2>1, <2>4, <2>6, <2>7, <2>8 DEF StreamInv
<1> QED
  BY <1>4, <1>5, <1>6, <1>7

\* The steps of the clients.
LEMMA ClientStream ==
  ASSUME ControlInv, NodeInv, StreamInv, ClientStep
  PROVE  StreamInv'
<1>1. UNCHANGED <<pc, todo, pubs, joined, handle, client_nodes>>
  BY Zenon DEF ClientStep, Connect, ClientSend, ClientRead, ClientClose, loopVars, nodeVars, histVars
<1>2. Held' = Held /\ Held \subseteq Clients
  BY <1>1 DEF Held
<1>3. PICK c \in Clients : Connect(c) \/ ClientSend(c) \/ ClientRead(c) \/ ClientClose(c)
  BY DEF ClientStep
<1>4. CASE Connect(c)
  <2>1. /\ c \notin client_nodes /\ backlog' = backlog \cup {c} /\ connects' = connects + 1
        /\ outq' = [outq EXCEPT ![c] = <<>>] /\ got' = [got EXCEPT ![c] = <<>>]
    BY <1>4 DEF Connect
  <2>2. /\ outq' \in [Clients -> Seq(Nat)] /\ outq'[c] = <<>>
        /\ got' \in [Clients -> Seq(Nat)] /\ got'[c] = <<>>
    BY <2>1 DEF StreamInv
  <2>3. \A d \in Clients : d # c => outq'[d] = outq[d] /\ got'[d] = got[d]
    BY <2>1 DEF StreamInv
  <2>4. ASSUME NEW d \in Held PROVE HasAll(d)'
    <3>1. d # c /\ HasAll(d) /\ d \in Clients
      BY <1>2, <2>1, Zenon DEF StreamInv, NodeInv
    <3>2. Owed(d)' = Owed(d)
      BY <1>1 DEF Owed
    <3> QED
      BY <1>1, <2>3, <3>1, <3>2, SameStream, Zenon
  <2>5. \A d \in backlog' : got'[d] = <<>> /\ outq'[d] = <<>>
    BY <2>1, <2>2, <2>3 DEF StreamInv, ControlInv
  <2>6. reset' \in [Clients -> BOOLEAN]
    BY <1>4 DEF Connect, StreamInv
  <2>7. connects' \in Nat
    BY <2>1 DEF StreamInv
  <2> QED
    BY <1>1, <1>2, <2>2, <2>4, <2>5, <2>6, <2>7 DEF StreamInv
<1>5. CASE ClientSend(c)
  <2>1. UNCHANGED <<backlog, reset, outq, connects, got>>
    BY <1>5, Zenon DEF ClientSend
  <2> QED
    BY <1>1, <1>2, <2>1, StreamRests, Zenon DEF StreamInv
<1>6. CASE ClientRead(c)
  <2>1. /\ outq[c] # <<>> /\ UNCHANGED <<backlog, reset, connects>>
        /\ outq' = [outq EXCEPT ![c] = Tail(outq[c])]
        /\ got' = [got EXCEPT ![c] = Append(got[c], Head(outq[c]))]
    BY <1>6, Zenon DEF ClientRead
  <2>2. outq[c] \in Seq(Nat) /\ got[c] \in Seq(Nat)
    BY DEF StreamInv
  <2>3. /\ Append(got[c], Head(outq[c])) \in Seq(Nat) /\ Tail(outq[c]) \in Seq(Nat)
        /\ Append(got[c], Head(outq[c])) \o Tail(outq[c]) = got[c] \o outq[c]
    BY <2>1, <2>2, ReadKeepsAll, Zenon
  <2>4. /\ outq' \in [Clients -> Seq(Nat)] /\ outq'[c] = Tail(outq[c])
        /\ got' \in [Clients -> Seq(Nat)] /\ got'[c] = Append(got[c], Head(outq[c]))
    BY <2>1, <2>3 DEF StreamInv
  <2>5. \A d \in Clients : d # c => outq'[d] = outq[d] /\ got'[d] = got[d]
    BY <2>1 DEF StreamInv
  <2>6. ASSUME NEW d \in Held PROVE HasAll(d)'
    <3>1. HasAll(d) /\ d \in Clients
      BY <1>2 DEF StreamInv
    <3>2. Owed(d)' = Owed(d) /\ joined'[d] = joined[d]
      BY <1>1 DEF Owed
    <3>3. CASE d = c
      <4>1. got'[d] \o outq'[d] = got[d] \o outq[d]
        BY <2>3, <2>4, <3>3, Zenon
      <4> QED
        BY <3>1, <3>2, <4>1, Zenon DEF HasAll
    <3>4. CASE d # c
      BY <2>5, <3>1, <3>2, <3>4, SameStream, Zenon
    <3> QED
      BY <3>3, <3>4
  <2>7. \A d \in backlog' : got'[d] = <<>> /\ outq'[d] = <<>>
    BY <2>1, <2>5 DEF StreamInv, ControlInv
  <2> QED
    BY <1>1, <1>2, <2>1, <2>4, <2>6, <2>7, Zenon DEF StreamInv
<1>7. CASE ClientClose(c)
  <2>1. UNCHANGED <<backlog, outq, connects, got>> /\ reset' = [reset EXCEPT ![c] = outq[c] # <<>>]
    BY <1>7 DEF ClientClose, histVars
  <2>2. reset' \in [Clients -> BOOLEAN]
    BY <2>1 DEF StreamInv
  <2> QED
    BY <1>1, <1>2, <2>1, <2>2, StreamRests, Zenon
<1> QED
  BY <1>3, <1>4, <1>5, <1>6, <1>7

\* Every step keeps what the clients have complete.
LEMMA StreamStep ==
  ASSUME ControlInv, NodeInv, CountInv, WakeInv, StreamInv, NodeInv', [Next]_vars
  PROVE  StreamInv'
<1>1. CASE Accept
  <2>1. PICK c \in backlog :
          /\ backlog' = backlog \ {c} /\ handle' = [handle EXCEPT ![c] = TRUE]
          /\ joined' = [joined EXCEPT ![c] = pubs]
    BY <1>1, Zenon DEF Accept
  <2>2. pc = "loop" /\ UNCHANGED <<pc, todo, reset, outq, got, pubs, connects>>
    BY <1>1 DEF Accept
  <2>3. c \in Clients /\ TRUE \in BOOLEAN
    BY DEF ControlInv
  <2>4. Held' = Held \cup {c} /\ Held \subseteq Clients
    BY <2>1, <2>3, HeldChanges, Zenon DEF NodeInv, Held
  <2>5. joined' \in [Clients -> Nat] /\ joined'[c] = pubs
    BY <2>1, <2>3 DEF StreamInv
  <2>6. \A d \in Clients : d # c => joined'[d] = joined[d]
    BY <2>1 DEF StreamInv
  <2>7. HasAll(c)'
    <3>1. Owed(c)' = pubs /\ pubs \in Nat
      BY <2>2 DEF Owed, StreamInv
    <3>2. got'[c] = <<>> /\ outq'[c] = <<>>
      BY <2>2 DEF StreamInv
    <3>3. Len(got'[c] \o outq'[c]) = 0
      BY <3>2
    <3>4. Rest(got'[c] \o outq'[c], pubs, pubs)
      BY <3>1, <3>3 DEF Rest
    <3> QED
      BY <2>5, <3>1, <3>4, Zenon DEF HasAll
  <2>8. ASSUME NEW d \in Held, d # c PROVE HasAll(d)'
    <3>1. HasAll(d) /\ d \in Clients
      BY <2>4 DEF StreamInv
    <3>2. Owed(d)' = Owed(d)
      BY <2>2 DEF Owed
    <3> QED
      BY <2>2, <2>6, <2>8, <3>1, <3>2, SameStream, Zenon
  <2> QED
    BY <2>1, <2>2, <2>4, <2>5, <2>7, <2>8 DEF StreamInv
<1>2. CASE SendTo
  BY <1>2, SendToStream
<1>3. CASE ClientStep
  BY <1>3, ClientStream
<1>4. CASE SendBegin
  <2>1. /\ pc = "loop" /\ pc' = "send" /\ todo' = client_nodes /\ pubs' = pubs + 1
        /\ UNCHANGED <<backlog, reset, outq, handle, got, joined, connects>>
    BY <1>4 DEF SendBegin, kernelVars, nodeVars
  <2>2. Held' = Held /\ Held \subseteq Clients /\ Held \subseteq todo'
    BY <2>1, Zenon DEF Held, NodeInv
  <2>3. pubs \in Nat /\ pubs' \in Nat /\ pubs' > 0 /\ pubs' - 1 = pubs
    BY <2>1 DEF StreamInv
  <2>4. ASSUME NEW c \in Held PROVE HasAll(c)'
    <3>1. HasAll(c) /\ c \in Clients
      BY <2>2 DEF StreamInv
    <3>2. Owed(c)' = Owed(c)
      BY <2>1, <2>2, <2>3 DEF Owed
    <3> QED
      BY <2>1, <3>1, <3>2, SameStream, Zenon
  <2> QED
    BY <2>1, <2>2, <2>3, <2>4 DEF StreamInv
<1>5. CASE ServiceRead
  <2>1. /\ pc = "receive" /\ UNCHANGED <<pc, backlog, outq, got, joined, pubs, connects>>
    BY <1>5 DEF ServiceRead
  <2>2. Held' \subseteq Held
    BY <1>5, VisitEffect, VisitStep, Zenon
  <2>3. \E c \in todo : reset' = reset \/ reset' = [reset EXCEPT ![c] = FALSE]
    BY <1>5, Zenon DEF ServiceRead
  <2>4. reset' \in [Clients -> BOOLEAN]
    BY <2>3, Zenon DEF StreamInv
  <2> QED
    BY <2>1, <2>2, <2>4, StreamRests
<1>6. ASSUME NEW c \in Clients, ClientDisconnected(c) PROVE StreamInv'
  <2>1. /\ pc = "loop" /\ handle' = [handle EXCEPT ![c] = FALSE]
        /\ UNCHANGED <<pc, backlog, reset, outq, got, joined, pubs, connects>>
    BY <1>6 DEF ClientDisconnected, kernelVars, histVars
  <2>2. Held' = Held \ {c}
    BY <2>1, HeldChanges, Zenon DEF NodeInv
  <2> QED
    BY <2>1, <2>2, StreamRests, Zenon DEF StreamInv
<1>7. CASE ReceiveBegin \/ ForeachEnd \/ Poll \/ \E c \in Clients : ClientReadable(c)
  <2>1. /\ UNCHANGED <<backlog, reset, outq, got, joined, pubs, connects, handle>>
        /\ pc' = "send" => pc = "send"
        /\ pc' = "send" => todo' = todo
        /\ pc = "send" => pc' = "send" \/ todo = {}
    BY <1>7 DEF ReceiveBegin, ForeachEnd, Poll, ClientReadable, kernelVars, histVars, nodeVars
  <2>2. Held' = Held
    BY <2>1 DEF Held
  <2> QED
    BY <2>1, <2>2, StreamRests, Zenon DEF StreamInv
<1>8. CASE Destroy
  <2>1. /\ pc = "loop" /\ pc' = "destroyed" /\ client_nodes' = {}
        /\ UNCHANGED <<backlog, reset, outq, got, joined, pubs, connects>>
    BY <1>8 DEF Destroy, kernelVars, histVars
  <2>2. Held' = {}
    BY <2>1, Zenon DEF NodeInv
  <2> QED
    BY <2>1, <2>2 DEF StreamInv
<1>9. CASE UNCHANGED vars
  <2>1. UNCHANGED <<pc, todo, backlog, reset, outq, got, joined, pubs, connects, handle>>
    BY <1>9 DEF vars, kernelVars, loopVars, histVars, nodeVars
  <2>2. Held' = Held
    BY <2>1 DEF Held
  <2> QED
    BY <2>1, <2>2, StreamRests, Zenon DEF StreamInv
<1> QED
  BY <1>1, <1>2, <1>3, <1>4, <1>5, <1>6, <1>7, <1>8, <1>9, NothingToDiscard DEF Next, ServerStep

-----------------------------------------------------------------------------
(* The theorem.                                                            *)

\* The type of an endpoint is never changed.
LEMMA TypeIsFixed ==
  ASSUME [Next]_vars
  PROVE  type' = type
<1>1. CASE ClientStep
  BY <1>1, Zenon DEF ClientStep, Connect, ClientSend, ClientRead, ClientClose, histVars
<1>2. CASE ServerStep
  BY <1>2, Zenon DEF ServerStep, Accept, ClientDisconnected, ClientReadable, DiscardBegin, DiscardRead,
              ReceiveBegin, ServiceRead, SendBegin, SendTo, ForeachEnd, Poll, histVars
<1>3. CASE SendBegin \/ Destroy \/ UNCHANGED vars
  BY <1>3 DEF SendBegin, Destroy, vars, histVars
<1> QED
  BY <1>1, <1>2, <1>3 DEF Next

\* A new endpoint has no clients.
LEMMA SoundInit == Init => SoundInv
<1> SUFFICES ASSUME Init PROVE SoundInv
  OBVIOUS
<1>1. ServerInv /\ type \in Types
  BY ServerInit DEF Init
<1>2. Held = {}
  BY DEF Init, Held
<1>3. NodeInv
  BY <1>2, Zenon DEF Init, NodeInv, NoEvents
<1>4. CountInv
  <2>1. Cardinality(Held) = 0
    BY <1>2, FS_EmptySet
  <2> QED
    BY <2>1 DEF Init, CountInv
<1>5. WakeInv
  <2>1. turn = 0 /\ wakefd = 0 /\ pc = "loop" /\ woke \in BOOLEAN /\ ~woke /\ ~ready.wake
    BY Zenon DEF Init, NoEvents
  <2>2. \A c \in Clients : inq[c] = <<>>
    BY DEF Init
  <2>3. ready.clients \subseteq ready.hup
    BY DEF Init, NoEvents
  <2>4. turn \in Nat /\ ~(turn > 0) /\ turn < ENDPOINT_SERVICE_MAX /\ wakefd \in Nat
    BY <2>1, ServerAssumption
  <2> QED
    BY <2>1, <2>2, <2>3, <2>4, Zenon DEF WakeInv
<1>6. StreamInv
  BY <1>2 DEF Init, StreamInv
<1> QED
  BY <1>1, <1>3, <1>4, <1>5, <1>6 DEF SoundInv

\* A sequence of numbers that runs from one to another is what
\* SubscriberMissesNothing says a client has.
LEMMA RestIsSequence ==
  ASSUME NEW q \in Seq(Nat), NEW n \in Nat, NEW s \in Nat, Rest(q, n, s)
  PROVE  q = [i \in 1 .. (s - n) |-> n + i]
<1>1. Len(q) = s - n /\ \A i \in 1 .. Len(q) : q[i] = n + i
  BY DEF Rest
<1>2. q = [i \in 1 .. Len(q) |-> q[i]]
  OBVIOUS
<1> QED
  BY <1>1, <1>2

\* What the invariant says of the state of a server.
LEMMA SoundIsSound == SoundInv => ServerIsSound
<1> SUFFICES ASSUME SoundInv PROVE ServerIsSound
  OBVIOUS
<1>1. TypeOK
  BY Zenon DEF SoundInv, ServerInv, ControlInv, DataInv, NodeInv, CountInv, WakeInv, StreamInv, TypeOK
<1>2. NeverFails
  BY DEF SoundInv, NodeInv, NeverFails
<1>3. ClientCountIsClients
  BY DEF SoundInv, CountInv, ClientCountIsClients, Held
<1>4. ASSUME NEW c \in Clients, handle[c], NEW pending,
             pending = IF pc = "send" /\ c \in todo THEN 1 ELSE 0
      PROVE  got[c] \o outq[c] = [i \in 1 .. (pubs - joined[c] - pending) |-> joined[c] + i]
  <2>1. HasAll(c)
    BY <1>4 DEF SoundInv, StreamInv, Held
  <2>2. /\ got[c] \in Seq(Nat) /\ outq[c] \in Seq(Nat) /\ joined[c] \in Nat /\ pubs \in Nat
        /\ pc = "send" => pubs > 0
    BY DEF SoundInv, StreamInv
  <2>3. got[c] \o outq[c] \in Seq(Nat)
    BY <2>2, StillNumbers, Zenon
  <2>4. Owed(c) \in Nat
    BY <2>2 DEF Owed
  <2>5. Rest(got[c] \o outq[c], joined[c], Owed(c))
    BY <2>1 DEF HasAll
  <2>6. got[c] \o outq[c] = [i \in 1 .. (Owed(c) - joined[c]) |-> joined[c] + i]
    BY <2>2, <2>3, <2>4, <2>5, RestIsSequence, Zenon
  <2>7. Owed(c) - joined[c] = pubs - joined[c] - pending
    BY <1>4, <2>2 DEF Owed
  <2> QED
    BY <2>6, <2>7
<1>5. SubscriberMissesNothing
  BY <1>4, Zenon DEF SubscriberMissesNothing
<1> QED
  BY <1>1, <1>2, <1>3, <1>5 DEF ServerIsSound

\* However accepts, reads, sends and hang-ups interleave, client_count is the
\* number of open descriptors, no node is freed twice, the assertions on the
\* eventfd hold, and a client the server keeps has every message sent since it
\* was accepted.  The hypothesis is that nobody writes to a publisher: a
\* publisher that discards input may drop a client without purging its node.
THEOREM ServerStaysSound ==
  ASSUME "PUB_SERVER" \notin Writers
  PROVE  Spec => []ServerIsSound
<1>1. SoundInv /\ [Next]_vars => SoundInv'
  <2> SUFFICES ASSUME SoundInv, [Next]_vars PROVE SoundInv'
    OBVIOUS
  <2>1. ControlInv /\ DataInv /\ type \in Types /\ NodeInv /\ CountInv /\ WakeInv /\ StreamInv
    BY DEF SoundInv, ServerInv
  <2>2. ControlInv' /\ DataInv'
    BY <2>1, ControlStep, DataStep
  <2>3. NodeInv' /\ CountInv'
    BY <2>1, <2>2, NodeStep
  <2>4. WakeInv'
    BY <2>1, WakeStep
  <2>5. StreamInv'
    BY <2>1, <2>3, StreamStep
  <2>6. type' \in Types
    BY <2>1, TypeIsFixed
  <2> QED
    BY <2>2, <2>3, <2>4, <2>5, <2>6 DEF SoundInv, ServerInv
<1> QED
  BY <1>1, SoundInit, SoundIsSound, PTL DEF Spec
=============================================================================
