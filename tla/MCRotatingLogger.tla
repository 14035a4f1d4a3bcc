-------------------------- MODULE MCRotatingLogger --------------------------
(***************************************************************************)
(* RotatingLogger for TLC.  The volume that is in at start holds a log of  *)
(* the first session and one whose session is too high to be counted; the  *)
(* other is empty.                                                         *)
(***************************************************************************)
EXTENDS RotatingLogger

MCInitialMounts == {[d \in Dirs |-> "v"]}

MCInitialNames == {[v \in Volumes |-> IF v = "v" THEN {<<1, 0>>, <<MAX_SESSION, 0>>} ELSE {}]}
=============================================================================
