----------------------------- MODULE Cancellation -----------------------------
(***************************************************************************)
(* Cooperative cancellation.  `symphony cancel` writes rows of the         *)
(* cancel_requests table, one statement at a time; a scheduler keeps the   *)
(* pending ones in its CancellationQueue; a runner looks a request up      *)
(* there before it leases, and the dispatch it spawned between two agent   *)
(* steps.  Whoever finds a cancel winds down, marks the run cancelled and  *)
(* drains the run's entry.                                                 *)
(*                                                                         *)
(* The repository has the table, the queue, the command and the observers, *)
(* and describes a composition root that joins them: it mirrors a new row  *)
(* into the queue and rebuilds the queue from the pending rows at startup. *)
(* That part, and the polling dispatcher, are taken from the description.  *)
(***************************************************************************)
EXTENDS Integers, FiniteSets

CONSTANTS
    Item,           \* work items
    NoItem,
    Child,          \* parent_child edges, as pairs
    Run,            \* rows of the runs table
    ItemOf,         \* ItemOf[r]: the work item of a run
    Dispatch,       \* dispatch requests
    RunOf,          \* RunOf[d]: the run reserved for a request
    KeyOf,          \* KeyOf[d]: parent_work_item_id of a request, or NoItem
    MaxCancels,     \* bound: `symphony cancel` invocations
    MaxBoots,       \* bound: restarts of the scheduler
    MaxFaults       \* bound: failures of the status sink and of the command

Subject == Item \cup Run

ASSUME CancellationAssumption ==
    /\ Child \subseteq Item \X Item
    /\ NoItem \notin Subject /\ Item \cap Run = {}
    /\ ItemOf \in [Run -> Item]
    /\ RunOf \in [Dispatch -> Run]
    /\ KeyOf \in [Dispatch -> Item \cup {NoItem}]
    /\ MaxCancels \in Nat /\ MaxBoots \in Nat /\ MaxFaults \in Nat

VARIABLES
    table,      \* subjects with a pending row in cancel_requests
    queue,      \* subjects in the scheduler's CancellationQueue
    news,       \* rows the composition root has yet to mirror
    row,        \* row[r]: the status of a run's row; "open" is any that is in flight
    at,         \* at[d]: where a dispatch request is
    cli,        \* the cancel command: its step, its subject, the runs left to enqueue
    bound,      \* history: requests a row pending at the last startup speaks for
    cancels, boots, faults

counters == <<cancels, boots, faults>>
vars == <<table, queue, news, row, at, cli, bound, counters>>

Terminal == {"completed", "cancelled"}
Quiet == [step |-> "idle", root |-> NoItem, left |-> {}]

TypeOK ==
    /\ table \subseteq Subject /\ queue \subseteq Subject /\ news \subseteq table
    /\ row \in [Run -> {"none", "open"} \cup Terminal]
    /\ at \in [Dispatch -> {"unborn", "waiting", "aborting", "draining", "leasing",
                            "running", "ended", "aborted"}]
    /\ cli \in [step : {"idle", "cascade", "fan"}, root : Item \cup {NoItem}, left : SUBSET Run]
    /\ (cli.step = "idle") <=> (cli = Quiet)
    /\ (cli.step = "fan") <=> (cli.left # {})
    /\ bound \subseteq Dispatch
    /\ cancels \in 0..MaxCancels /\ boots \in 0..MaxBoots /\ faults \in 0..MaxFaults

Init ==
    /\ table = {} /\ queue = {} /\ news = {}
    /\ row = [r \in Run |-> "none"]
    /\ at = [d \in Dispatch |-> "unborn"]
    /\ cli = Quiet
    /\ bound = {}
    /\ cancels = 0 /\ boots = 0 /\ faults = 0

-----------------------------------------------------------------------------
(* `symphony cancel`. *)

\* enqueue_cancel_request: a pending row of the same subject is replaced in place.
Enqueue(s) ==
    /\ table' = table \cup {s}
    /\ news' = news \cup {s}

\* --run, or the parent row of --issue.
CancelCommand(s) ==
    /\ cli = Quiet /\ cancels < MaxCancels
    /\ cancels' = cancels + 1
    /\ Enqueue(s)
    /\ cli' = IF s \in Item THEN [step |-> "cascade", root |-> s, left |-> {}] ELSE Quiet
    /\ UNCHANGED <<queue, row, at, bound, boots, faults>>

\* descendants_via_parent_child: the root and all that it reaches.
Reaches[n \in Nat] ==
    IF n = 0 THEN {<<i, i>> : i \in Item}
    ELSE {p \in Item \X Item :
             \E j \in Item : <<p[1], j>> \in Reaches[n - 1] /\ (j = p[2] \/ <<j, p[2]>> \in Child)}

Descendants(i) == {k \in Item : <<i, k>> \in Reaches[Cardinality(Item)]}

\* Mutant of InFlightRuns: only the root's runs.
RootRuns(i) == {r \in Run : ItemOf[r] = i /\ row[r] = "open"}

\* active_runs_for_work_item, over the descendants.
InFlightRuns(i) == {r \in Run : ItemOf[r] \in Descendants(i) /\ row[r] = "open"}

Cascade ==
    /\ cli.step = "cascade"
    /\ LET runs == InFlightRuns(cli.root) IN
       cli' = IF runs = {} THEN Quiet ELSE [cli EXCEPT !.step = "fan", !.left = runs]
    /\ UNCHANGED <<table, queue, news, row, at, bound, counters>>

FanOut(r) ==
    /\ cli.step = "fan" /\ r \in cli.left
    /\ Enqueue(r)
    /\ cli' = IF cli.left = {r} THEN Quiet ELSE [cli EXCEPT !.left = @ \ {r}]
    /\ UNCHANGED <<queue, row, at, bound, counters>>

\* A statement fails, or the command is killed between two of them.
CommandDies ==
    /\ cli.step # "idle" /\ faults < MaxFaults
    /\ faults' = faults + 1
    /\ cli' = Quiet
    /\ UNCHANGED <<table, queue, news, row, at, bound, cancels, boots>>

-----------------------------------------------------------------------------
(* The composition root. *)

Mirror(s) ==
    /\ s \in news
    /\ queue' = queue \cup {s}
    /\ news' = news \ {s}
    /\ UNCHANGED <<table, row, at, cli, bound, counters>>

Keys(d) == {RunOf[d], KeyOf[d]}

\* Mutant of Replayed: only the run rows come back.
ReplayedRuns == table \cap Run

\* from_pending, over list_pending_cancel_requests.
Replayed == table

\* The scheduler dies and starts again: its queue and its dispatches are gone.
Restart ==
    /\ boots < MaxBoots
    /\ boots' = boots + 1
    /\ queue' = Replayed /\ news' = {}
    /\ at' = [d \in Dispatch |-> "unborn"]
    /\ bound' = {d \in Dispatch : Keys(d) \cap table # {}}
    /\ UNCHANGED <<table, row, cli, cancels, faults>>

-----------------------------------------------------------------------------
(* A runner and its dispatches. *)

\* A tick emits the request; its run row exists and is in flight.
Emit(d) ==
    /\ at[d] = "unborn" /\ row[RunOf[d]] \in {"none", "open"}
    /\ row' = [row EXCEPT ![RunOf[d]] = "open"]
    /\ at' = [at EXCEPT ![d] = "waiting"]
    /\ UNCHANGED <<table, queue, news, cli, bound, counters>>

\* observe_for_run_or_parent.
Pending(d) == RunOf[d] \in queue \/ KeyOf[d] \in queue

\* The pass looks, under the lock of the queue, before it leases; what it found it
\* acts upon with the lock released.  One request at a time is in the pass.
Observe(d) ==
    /\ at[d] = "waiting"
    /\ \A e \in Dispatch : at[e] # "leasing"
    /\ at' = [at EXCEPT ![d] = IF Pending(d) THEN "aborting" ELSE "leasing"]
    /\ UNCHANGED <<table, queue, news, row, cli, bound, counters>>

\* The lease is acquired and the task spawned.
Start(d) ==
    /\ at[d] = "leasing"
    /\ at' = [at EXCEPT ![d] = "running"]
    /\ UNCHANGED <<table, queue, news, row, cli, bound, counters>>

\* mark_cancelled through the typed status gate; a failure is only logged.
MarkCancelled(d) ==
    /\ at[d] = "aborting"
    /\ \/ /\ row' = [row EXCEPT ![RunOf[d]] = IF @ = "open" THEN "cancelled" ELSE @]
          /\ UNCHANGED faults
       \/ /\ faults < MaxFaults /\ faults' = faults + 1
          /\ UNCHANGED row
    /\ at' = [at EXCEPT ![d] = "draining"]
    /\ UNCHANGED <<table, queue, news, cli, bound, cancels, boots>>

\* Mutant of Consumed: the parent's entry goes as well.
ConsumedBoth(d) == Keys(d)

\* drain_for_run leaves the work item's entry alone.
Consumed(d) == {RunOf[d]}

\* The in-memory entry goes, whatever the sink said; the row stays pending.
Drain(d) ==
    /\ at[d] = "draining"
    /\ queue' = queue \ Consumed(d)
    /\ bound' = {e \in bound : RunOf[e] = RunOf[d] => KeyOf[e] \in queue}
    /\ at' = [at EXCEPT ![d] = "aborted"]
    /\ UNCHANGED <<table, news, row, cli, counters>>

\* Mutant of CheckStep: a dispatch with a parent looks at the parent's entry only.
CheckStepParentOnly(d) ==
    /\ at[d] = "running"
    /\ IF KeyOf[d] = NoItem THEN RunOf[d] \in queue ELSE KeyOf[d] \in queue
    /\ at' = [at EXCEPT ![d] = "aborting"]
    /\ UNCHANGED <<table, queue, news, row, cli, bound, counters>>

\* DispatcherCancellationCheck between two agent steps: the dispatch winds down.
CheckStep(d) ==
    /\ at[d] = "running" /\ Pending(d)
    /\ at' = [at EXCEPT ![d] = "aborting"]
    /\ UNCHANGED <<table, queue, news, row, cli, bound, counters>>

\* The agent finishes first; a row already terminal rejects the transition.
Finish(d) ==
    /\ at[d] = "running"
    /\ row' = [row EXCEPT ![RunOf[d]] = IF @ = "open" THEN "completed" ELSE @]
    /\ at' = [at EXCEPT ![d] = "ended"]
    /\ UNCHANGED <<table, queue, news, cli, bound, counters>>

Next ==
    \/ \E s \in Subject : CancelCommand(s) \/ Mirror(s)
    \/ Cascade \/ CommandDies \/ Restart
    \/ \E r \in Run : FanOut(r)
    \/ \E d \in Dispatch :
          \/ Emit(d) \/ Observe(d) \/ Start(d)
          \/ MarkCancelled(d) \/ Drain(d) \/ CheckStep(d) \/ Finish(d)

Spec == Init /\ [][Next]_vars

\* The command's statements, the mirroring, the passes and the checks get done.  An
\* agent need never finish by itself.
Fairness ==
    /\ WF_vars(Cascade) /\ \A r \in Run : WF_vars(FanOut(r))
    /\ \A s \in Subject : WF_vars(Mirror(s))
    /\ \A d \in Dispatch :
          /\ WF_vars(Observe(d)) /\ WF_vars(Start(d)) /\ WF_vars(MarkCancelled(d))
          /\ WF_vars(Drain(d)) /\ WF_vars(CheckStep(d))

FairSpec == Spec /\ Fairness

-----------------------------------------------------------------------------
(* Properties. *)

\* "An operator-issued cancel survives a scheduler crash and is still observable to
\* runners after recovery": no request starts for which a row pending at startup
\* speaks, through its run or its work item, before a runner has drained that cancel.
CancelSurvives ==
    [][\A d \in Dispatch : at[d] = "leasing" /\ at'[d] = "running"
          => d \notin bound]_vars

\* `symphony cancel --issue` stops the subtree: a dispatch in flight for a descendant
\* when the cascade reads the runs ends, even if its agent never would, unless
\* something fails: above all, the command between two of its statements.
SubtreeStops ==
    \A d \in Dispatch :
        /\ cli.step = "cascade" /\ at[d] = "running" /\ row[RunOf[d]] = "open"
        /\ ItemOf[RunOf[d]] \in Descendants(cli.root)
        ~> at[d] # "running" \/ faults > 0

\* "The latency from operator hits cancel to dispatcher releases lease is bounded by
\* one model turn": a running dispatch whose run is cancelled ends by the cancel.
CancelReachesTask ==
    \A d \in Dispatch : (at[d] = "running" /\ RunOf[d] \in news) ~> at[d] # "running"
=============================================================================
