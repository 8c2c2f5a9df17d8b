-------------------------- MODULE MCClientRegistry --------------------------
(* Small instances of ClientRegistry for TLC: two handlers, two sessions. *)
EXTENDS ClientRegistry
=============================================================================
