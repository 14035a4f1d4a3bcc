----------------------------- MODULE MCServices -----------------------------
(***************************************************************************)
(* The two services every other program goes through, for TLC: the router  *)
(* of messages and the settings daemon; `part' says which one a behaviour  *)
(* is about, and the variables of the other keep one value.                *)
(***************************************************************************)
EXTENDS EndpointRouter, SettingsDaemon

VARIABLE part

mc_vars == <<part, routerVars, vars>>

MCInit == part \in {"router", "settings"} /\ RouterInit /\ Init

MCNext ==
  \/ part = "router" /\ RouterNext /\ UNCHANGED <<part, vars>>
  \/ part = "settings" /\ Next /\ UNCHANGED <<part, routerVars>>

MCSpec == MCInit /\ [][MCNext]_mc_vars
=============================================================================
