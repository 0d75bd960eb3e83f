----------------------------- MODULE MCClaimTick -----------------------------
(***************************************************************************)
(* The recovery tick's two sources.  A lease and a workspace claim, which  *)
(* appear twice each, and one poll that fails.                             *)
(***************************************************************************)
EXTENDS ClaimTick, TLC

CONSTANTS lease, orphan

Recovery == <<"leases", "orphans">>
Where == lease :> "leases" @@ orphan :> "orphans"
=============================================================================
