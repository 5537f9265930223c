----------------------------- MODULE MCHostChannel -----------------------------
(* What the administrators of the configuration of HostChannel may ask for. *)
EXTENDS HostChannel

Anything == [a \in Admins |-> Tasks]
================================================================================
