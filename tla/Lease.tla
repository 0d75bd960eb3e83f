--------------------------------- MODULE Lease ---------------------------------
(***************************************************************************)
(* What a run lease is for, with its clock, its heartbeats and its         *)
(* failures left out: a run is worked on by the owner of its lease only,   *)
(* and as long as it is, the lease neither passes to another owner nor     *)
(* lapses nor is cleared.  In between it may do all of these, but passes   *)
(* on only once it has lapsed or has been cleared.                         *)
(*                                                                         *)
(* owner and valid are what the row says, valid being that its deadline    *)
(* is not past; workers are the owners with a dispatch of the run in       *)
(* flight.                                                                 *)
(***************************************************************************)

CONSTANTS Owner, NoOwner, Run

VARIABLES owner, valid, workers

vars == <<owner, valid, workers>>

Init ==
    /\ owner = [r \in Run |-> NoOwner] /\ valid = [r \in Run |-> FALSE]
    /\ workers = [r \in Run |-> {}]

Free(o, r) == owner[r] = o \/ ~valid[r]

\* The row names o, for a full TTL.
Named(o, r) == owner' = [owner EXCEPT ![r] = o] /\ valid' = [valid EXCEPT ![r] = TRUE]

Cleared(r) == owner' = [owner EXCEPT ![r] = NoOwner] /\ valid' = [valid EXCEPT ![r] = FALSE]

Begin(o, r) ==
    /\ Free(o, r) /\ workers[r] = {}
    /\ Named(o, r)
    /\ workers' = [workers EXCEPT ![r] = {o}]

Renew(o, r) ==
    /\ Free(o, r) /\ workers[r] \subseteq {o}
    /\ Named(o, r)
    /\ UNCHANGED workers

\* Work ends, and its lease with it or later.
End(o, r) ==
    /\ owner[r] = o /\ workers[r] = {o}
    /\ workers' = [workers EXCEPT ![r] = {}]
    /\ Cleared(r) \/ UNCHANGED <<owner, valid>>

\* An owner clears what it no longer works on.
Clear(o, r) ==
    /\ owner[r] = o /\ workers[r] = {}
    /\ Cleared(r)
    /\ UNCHANGED workers

\* Time passes: leases lapse under which nobody works.
Lapse ==
    /\ valid' \in [Run -> BOOLEAN]
    /\ \A r \in Run : valid'[r] # valid[r] => valid[r] /\ workers[r] = {}
    /\ UNCHANGED <<owner, workers>>

\* A process dies, and its work with it; its leases lapse in time.
Die(o) ==
    /\ workers' = [r \in Run |-> workers[r] \ {o}]
    /\ UNCHANGED <<owner, valid>>

Next ==
    \/ \E o \in Owner, r \in Run : Begin(o, r) \/ Renew(o, r) \/ End(o, r) \/ Clear(o, r)
    \/ Lapse
    \/ \E o \in Owner : Die(o)

Spec == Init /\ [][Next]_vars
=============================================================================
