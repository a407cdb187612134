---------------------------- MODULE MCLegacyMerge -----------------------------
(***************************************************************************)
(* Instances of LegacyMerge for TLC.                                       *)
(***************************************************************************)
EXTENDS LegacyMerge

\* A memory recorded directly, an imported one, and an edge between them.
MCIds    == {1, 2}
MCDirect == {1}
MCEdges  == {<<1, 2>>}
=============================================================================
