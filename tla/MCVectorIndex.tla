---------------------------- MODULE MCVectorIndex -----------------------------
(* The instance of VectorIndex for TLC. *)
EXTENDS VectorIndex

\* One recorded directly, and a later one that an import may rewrite.
MCIds     == {1, 2}
MCSourced == {2}
=============================================================================
