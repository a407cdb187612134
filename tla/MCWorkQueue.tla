----------------------------- MODULE MCWorkQueue -----------------------------
(* Origins of the memories in the TLC runs of WorkQueue. *)
EXTENDS WorkQueue

OneOfEach == [i \in Ids |-> IF i = 1 THEN "note" ELSE IF i = 2 THEN "imported" ELSE "direct"]

=============================================================================
