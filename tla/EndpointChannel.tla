-------------------------- MODULE EndpointChannel --------------------------
(***************************************************************************)
(* What a server endpoint of libpiksi promises about the messages its      *)
(* clients send: on each connection they are handed to the application at  *)
(* most once, in the order sent and with no gap; what has not been handed  *)
(* over may be lost, but only when the connection is closed.               *)
(***************************************************************************)
EXTENDS Naturals, Sequences

CONSTANT Clients

VARIABLES
  link,       \* "none", "open" or "closed": the client's end
  sent,       \* messages sent on the current connection
  delivered   \* the messages handed to the application, in order

chanVars == <<link, sent, delivered>>

Init ==
  /\ link = [c \in Clients |-> "none"]
  /\ sent = [c \in Clients |-> 0]
  /\ delivered = [c \in Clients |-> <<>>]

Open(c) ==
  /\ link[c] # "open"
  /\ link' = [link EXCEPT ![c] = "open"]
  /\ sent' = [sent EXCEPT ![c] = 0]
  /\ delivered' = [delivered EXCEPT ![c] = <<>>]

Send(c) ==
  /\ link[c] = "open"
  /\ sent' = [sent EXCEPT ![c] = @ + 1]
  /\ UNCHANGED <<link, delivered>>

Deliver(c) ==
  /\ Len(delivered[c]) < sent[c]
  /\ delivered' = [delivered EXCEPT ![c] = Append(@, Len(@) + 1)]
  /\ UNCHANGED <<link, sent>>

Close(c) ==
  /\ link[c] = "open"
  /\ link' = [link EXCEPT ![c] = "closed"]
  /\ UNCHANGED <<sent, delivered>>

Next == \E c \in Clients : Open(c) \/ Send(c) \/ Deliver(c) \/ Close(c)

Spec == Init /\ [][Next]_chanVars
=============================================================================
