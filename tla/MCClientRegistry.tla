-------------------------- MODULE MCClientRegistry --------------------------
(* Instances of ClientRegistry for TLC. *)
EXTENDS ClientRegistry
=============================================================================
