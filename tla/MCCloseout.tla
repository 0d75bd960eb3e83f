------------------------------ MODULE MCCloseout -------------------------------
(* A parent whose second child waits for the first; QA may name any of them as the blocker *)
(* of any other.                                                                          *)
EXTENDS Closeout

MCItem == {"p", "a", "b"}
MCKids == [i \in MCItem |-> IF i = "p" THEN {"a", "b"} ELSE {}]
MCPlanned == {<<"a", "b">>}
=============================================================================
