------------------------ MODULE MCCapabilityRefresh -------------------------
(* Instances of CapabilityRefresh for TLC. *)
EXTENDS CapabilityRefresh
=============================================================================
