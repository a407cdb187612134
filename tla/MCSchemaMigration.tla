-------------------------- MODULE MCSchemaMigration ---------------------------
(***************************************************************************)
(* Instances of SchemaMigration for TLC.                                   *)
(***************************************************************************)
EXTENDS SchemaMigration

MCEdges == {<<1, 2>>}
=============================================================================
