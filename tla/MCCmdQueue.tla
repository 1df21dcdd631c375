---------------------------- MODULE MCCmdQueue ----------------------------
(* Instances of CmdQueue for TLC. *)
EXTENDS CmdQueue, TLC

Symmetry == Permutations(Clients) \cup Permutations(Devices)
=============================================================================
