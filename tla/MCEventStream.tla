----------------------------- MODULE MCEventStream ----------------------------
(***************************************************************************)
(* Two runners that share a log: both have an episode to observe, or only  *)
(* one has, whom the passes of the other, which see nothing, interrupt.  A *)
(* client that resumes, and one that, as symphony watch, does not.         *)
(***************************************************************************)
EXTENDS EventStream, TLC

CONSTANTS specialist, qa, scopes, k1, k2, tail, watch

OneKeyEach == k1 :> specialist @@ k2 :> qa
OneKey == k1 :> specialist
OneLog == specialist :> scopes @@ qa :> scopes
=============================================================================
