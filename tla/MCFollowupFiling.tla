---------------------------- MODULE MCFollowupFiling ---------------------------
(* Two follow-ups, of either route. *)
EXTENDS FollowupFiling

MCFollowup == {1, 2}
=============================================================================
