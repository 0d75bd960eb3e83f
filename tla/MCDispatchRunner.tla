--------------------------- MODULE MCDispatchRunner ---------------------------
(***************************************************************************)
(* Two runners of one driver, three requests, two scopes: one that the two *)
(* runners contend for and one of a single role.  Requests 1 and 3 are of  *)
(* one run, 1 and 2 of one work item.                                      *)
(***************************************************************************)
EXTENDS DispatchRunner, TLC

CONSTANTS specialist, qa, global, role, run, item

Runners == <<specialist, qa>>
Scopes == {global, role}
ActiveSetUsers == {specialist}

\* Requests 1 and 3 are specialist work, 2 is QA work of the same role as 1.
Requests3 == 1..3
RunnerOf3 == 1 :> specialist @@ 2 :> qa @@ 3 :> specialist
ScopesOf3 == 1 :> {global, role} @@ 2 :> {global, role} @@ 3 :> {global}
TightCaps == global :> 1 @@ role :> 1
Permits == specialist :> 1 @@ qa :> 1
WidePermits == specialist :> 2 @@ qa :> 1
Nobody == {}
RunKey3 == 1 :> run @@ 2 :> NoKey @@ 3 :> run
ItemKey3 == 1 :> item @@ 2 :> item @@ 3 :> NoKey

\* Work that never stops coming: a request that was dispatched and reaped is put on the
\* queue again, as if it were a younger one.
Again(q) ==
    /\ task[q] = "reaped" /\ ~stopping
    /\ task' = [task EXCEPT ![q] = "waiting"]
    /\ queue' = [queue EXCEPT ![RunnerOf[q]] = Append(@, q)]
    /\ UNCHANGED <<deferred, passVars, free, inFlight, active, cancels, driverVars, faults>>

BusySpec == Init /\ [][Next \/ \E q \in Request : Again(q)]_vars /\ Fairness /\ TrackerAnswers
=============================================================================
