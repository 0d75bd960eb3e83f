---------------------------- MODULE MCDecomposition ----------------------------
(* Two children and a third that joins them. *)
EXTENDS Decomposition

MCChild == {"a", "b", "c"}
MCDepends == [c \in MCChild |-> IF c = "c" THEN {"a", "b"} ELSE {}]
=============================================================================
