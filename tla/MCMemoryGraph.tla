---------------------------- MODULE MCMemoryGraph ----------------------------
(* The instance of MemoryGraph for TLC is in the configuration alone. *)
EXTENDS MemoryGraph

=============================================================================
