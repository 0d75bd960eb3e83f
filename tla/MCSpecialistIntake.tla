-------------------------- MODULE MCSpecialistIntake --------------------------
(***************************************************************************)
(* Two issues and one permit.  Both compete for it; one of them may leave  *)
(* the active set and come back, so that its claim lapses and a request of *)
(* its first appearance meets the second.                                  *)
(***************************************************************************)
EXTENDS SpecialistIntake, TLC

CONSTANTS stays, returns

Visits == stays :> 1 @@ returns :> 2
=============================================================================
