-------------------------- MODULE MCEndpointServer --------------------------
(* EndpointServer for TLC: the clients are interchangeable.                *)
EXTENDS EndpointServer, TLC

ClientSymmetry == Permutations(Clients)
=============================================================================
