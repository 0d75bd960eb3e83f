----------------------------- MODULE Decomposition -----------------------------
(***************************************************************************)
(* The children of one decomposed parent: persisted in three transactions, *)
(* gated by the edges between them, mirrored at the tracker under one of   *)
(* three policies, dispatched, and released by the reconciliation of edges *)
(* whose blocker is done or cancelled.                                     *)
(*                                                                         *)
(* The issues of the children are at the tracker before their rows are     *)
(* written, and the specialist tick goes by the tracker's active set and   *)
(* by the open edges alone: the status of a row only matters to edges and  *)
(* queues.  An edge is the pair <<blocker, blocked>>; linked, open and     *)
(* failed are the edges with a row, with status open, and with a failed    *)
(* sync.  settled is what the tracker shows as closed, the children that   *)
(* have been done or cancelled; early and demoted are history: the agents  *)
(* at work that started before the edges had rows, and whether a terminal  *)
(* row has ever been overwritten by ready or blocked.                      *)
(***************************************************************************)
EXTENDS Integers, FiniteSets

CONSTANTS
    Child,
    Depends,        \* Depends[c]: the siblings that the proposal says c depends on
    Cancellable,    \* the children that somebody may cancel
    None,
    MaxFailures,    \* bound on the calls and statements that fail
    MaxCrashes      \* bound on crashes

ASSUME DecompositionAssumption ==
    /\ IsFiniteSet(Child) /\ None \notin Child
    /\ Depends \in [Child -> SUBSET Child]
    /\ \A S \in (SUBSET Child) \ {{}} : \E c \in S : Depends[c] \cap S = {}
    /\ Cancellable \subseteq Child
    /\ MaxFailures \in Nat /\ MaxCrashes \in Nat

VARIABLES
    status,     \* status class of each child; "absent" without a row
    linked, open, failed,
    step,       \* how far persist_applied_decomposition has come
    policy,     \* tracker_sync
    pending,    \* edges whose first sync is still to come
    mirror,     \* relations that the tracker shows as open
    sweep,      \* edges that the running reconciliation has still to visit
    joining,    \* the child of the edge it has just resolved
    working,    \* children with an agent at work
    settled, early, demoted, failures, crashes

vars == <<status, linked, open, failed, step, policy, pending, mirror, sweep, joining,
          working, settled, early, demoted, failures, crashes>>

graph == <<linked, open, failed>>
tracker == <<policy, pending, mirror>>
reconcile == <<sweep, joining>>
bounds == <<failures, crashes>>
history == <<settled, early, demoted, bounds>>

Edges == {e \in Child \X Child : e[1] \in Depends[e[2]]}
Into(c) == {e \in open : e[2] = c}
Terminal(c) == status[c] \in {"done", "cancelled"}

\* What demoted becomes when the rows of S are overwritten, whatever they hold.
Overwritten(S) == demoted \/ \E c \in S : Terminal(c)

Init ==
    /\ status = [c \in Child |-> "absent"]
    /\ linked = {} /\ open = {} /\ failed = {}
    /\ step = "idle"
    /\ policy \in {"required", "best_effort", "local_only"}
    /\ pending = {} /\ mirror = {} /\ sweep = {} /\ joining = None
    /\ working = {} /\ settled = {} /\ early = {} /\ demoted = FALSE
    /\ failures = 0 /\ crashes = 0

-----------------------------------------------------------------------------
(* persist_applied_decomposition: three transactions. *)

\* Mutant of Parked: only some of the children are there at first.
ParkedRoots == [c \in Child |-> IF Depends[c] = {} THEN "ready" ELSE "absent"]

Parked == [c \in Child |-> "blocked"]

PersistChildren ==
    /\ step = "idle"
    /\ step' = "children" /\ status' = Parked
    /\ UNCHANGED <<graph, tracker, reconcile, working, history>>

PersistEdges ==
    /\ step = "children"
    /\ step' = "edges" /\ linked' = Edges /\ open' = Edges
    /\ UNCHANGED <<status, failed, tracker, reconcile, working, history>>

ReleaseChildren ==
    /\ step = "edges"
    /\ step' = "applied"
    /\ status' = [c \in Child |-> "ready"] /\ demoted' = Overwritten(Child)
    /\ pending' = IF policy = "local_only" THEN {} ELSE Edges
    /\ UNCHANGED <<graph, policy, mirror, reconcile, working, settled, early, bounds>>

\* DependencyMaterializationFailed and ChildReleaseFailed; calling again fails on the
\* identifiers of the children.
PersistFails ==
    /\ step \in {"children", "edges"}
    /\ step' = "failed"
    /\ UNCHANGED <<status, graph, tracker, reconcile, working, history>>

-----------------------------------------------------------------------------
(* The tracker's copy of the edges. *)

SyncSucceeds(e) ==
    /\ e \in pending
    /\ pending' = pending \ {e} /\ mirror' = mirror \cup {e}
    /\ UNCHANGED <<status, graph, step, policy, reconcile, working, history>>

\* A required sync that fails ends the loop over the edges and parks the child, also when
\* its edge has been resolved meanwhile.
SyncFails(e) ==
    /\ e \in pending /\ failures < MaxFailures
    /\ failures' = failures + 1
    /\ failed' = failed \cup {e}
    /\ IF policy = "required"
       THEN /\ pending' = {}
            /\ status' = [status EXCEPT ![e[2]] = "blocked"]
            /\ demoted' = Overwritten({e[2]})
       ELSE pending' = pending \ {e} /\ UNCHANGED <<status, demoted>>
    /\ UNCHANGED <<linked, open, step, policy, mirror, reconcile, working, settled, early,
                   crashes>>

\* retry_failed_dependency_edge_syncs; a retry that fails changes nothing here.
RetrySync(e) ==
    /\ e \in failed \cap open
    /\ failed' = failed \ {e} /\ mirror' = mirror \cup {e}
    /\ UNCHANGED <<status, linked, open, step, policy, pending, reconcile, working, history>>

\* The tracker closes the relation once its blocker is closed.
TrackerCloses(e) ==
    /\ e \in mirror /\ e[1] \in settled
    /\ mirror' = mirror \ {e}
    /\ UNCHANGED <<status, graph, step, policy, pending, reconcile, working, history>>

-----------------------------------------------------------------------------
(* Reconciliation. *)

\* Mutants of Eligible: a child that is no longer worked on counts as terminal; only one
\* that is done does.
EligibleIdle == {e \in open : e[1] \notin working}
EligibleDone == {e \in open : status[e[1]] = "done"}

Eligible == {e \in open : Terminal(e[1])}

ReconcileBegins ==
    /\ sweep = {} /\ joining = None /\ Eligible # {}
    /\ sweep' = Eligible
    /\ UNCHANGED <<status, graph, step, tracker, joining, working, history>>

\* The tracker still shows the relation.
ReconcileSkips(e) ==
    /\ joining = None /\ e \in sweep \cap mirror
    /\ sweep' = sweep \ {e}
    /\ UNCHANGED <<status, graph, step, tracker, joining, working, history>>

\* Mutant of ReconcileResolves: an edge is only resolved when its sync has succeeded.
ReconcileResolvesSynced(e) ==
    /\ joining = None /\ e \in sweep \ (mirror \cup failed)
    /\ sweep' = sweep \ {e} /\ joining' = e[2]
    /\ open' = open \ {e}
    /\ UNCHANGED <<status, linked, failed, step, tracker, working, history>>

ReconcileResolves(e) ==
    /\ joining = None /\ e \in sweep \ mirror
    /\ sweep' = sweep \ {e} /\ joining' = e[2]
    /\ open' = open \ {e}
    /\ UNCHANGED <<status, linked, failed, step, tracker, working, history>>

Joined(c) == Into(c) = {}

\* A statement of its own, after the one that resolved the edge.
ReconcileReleases ==
    /\ joining # None
    /\ joining' = None
    /\ IF Joined(joining)
       THEN status' = [status EXCEPT ![joining] = "ready"] /\ demoted' = Overwritten({joining})
       ELSE UNCHANGED <<status, demoted>>
    /\ UNCHANGED <<graph, step, tracker, sweep, working, settled, early, bounds>>

\* The tracker's answer or a statement fails: the edges behind it are left for another call,
\* the release of the one just resolved is not made up for.
ReconcileFails ==
    /\ (sweep # {} \/ joining # None) /\ failures < MaxFailures
    /\ failures' = failures + 1
    /\ sweep' = {} /\ joining' = None
    /\ UNCHANGED <<status, graph, step, tracker, working, settled, early, demoted, crashes>>

-----------------------------------------------------------------------------
(* The children's own lives. *)

\* Whatever the row says, or whether there is one: the child is in the active set.
Dispatch(c) ==
    /\ c \notin settled \cup working /\ Into(c) = {}
    /\ working' = working \cup {c}
    /\ early' = IF linked = Edges THEN early ELSE early \cup {c}
    /\ UNCHANGED <<status, graph, step, tracker, reconcile, settled, demoted, bounds>>

\* A handoff that attempts done, which needs the row.
HandOff(c) ==
    /\ c \in working /\ status[c] # "absent"
    /\ working' = working \ {c} /\ early' = early \ {c}
    /\ status' = [status EXCEPT ![c] = "done"] /\ settled' = settled \cup {c}
    /\ UNCHANGED <<graph, step, tracker, reconcile, demoted, bounds>>

\* Somebody cancels the item, at the tracker and in its row.
CancelItem(c) ==
    /\ c \in Cancellable /\ status[c] # "absent" /\ ~Terminal(c)
    /\ status' = [status EXCEPT ![c] = "cancelled"] /\ settled' = settled \cup {c}
    /\ UNCHANGED <<graph, step, tracker, reconcile, working, early, demoted, bounds>>

\* Everything in memory is gone; rows stay as the last statement left them.
Crash ==
    /\ crashes < MaxCrashes
    /\ crashes' = crashes + 1
    /\ step' = IF step \in {"children", "edges"} THEN "failed" ELSE step
    /\ sweep' = {} /\ joining' = None /\ pending' = {} /\ working' = {} /\ early' = {}
    /\ UNCHANGED <<status, graph, policy, mirror, settled, demoted, failures>>

Persist == PersistChildren \/ PersistEdges \/ ReleaseChildren

Next ==
    \/ PersistChildren \/ PersistEdges \/ ReleaseChildren \/ PersistFails
    \/ \E e \in Edges :
          \/ SyncSucceeds(e) \/ SyncFails(e) \/ RetrySync(e) \/ TrackerCloses(e)
          \/ ReconcileSkips(e) \/ ReconcileResolves(e)
    \/ ReconcileBegins \/ ReconcileReleases \/ ReconcileFails
    \/ \E c \in Child : Dispatch(c) \/ HandOff(c) \/ CancelItem(c)
    \/ Crash

Spec == Init /\ [][Next]_vars

\* The call runs to its end, reconciliation is called again and again, agents are
\* dispatched and finish, and the tracker closes the relations of closed issues.
Fairness ==
    /\ WF_vars(Persist) /\ WF_vars(ReconcileBegins) /\ WF_vars(ReconcileReleases)
    /\ \A e \in Edges :
          /\ WF_vars(TrackerCloses(e))
          /\ WF_vars(ReconcileSkips(e) \/ ReconcileResolves(e))
    /\ \A c \in Child : WF_vars(Dispatch(c)) /\ WF_vars(HandOff(c))

FairSpec == Spec /\ Fairness

-----------------------------------------------------------------------------
(* Properties. *)

TypeOK ==
    /\ status \in [Child -> {"absent", "blocked", "ready", "done", "cancelled"}]
    /\ open \subseteq linked /\ linked \subseteq Edges /\ failed \subseteq linked
    /\ step \in {"idle", "children", "edges", "applied", "failed"}
    /\ policy \in {"required", "best_effort", "local_only"}
    /\ pending \subseteq linked /\ mirror \subseteq linked /\ sweep \subseteq open
    /\ joining \in Child \cup {None}
    /\ working \subseteq Child /\ settled \subseteq Child
    /\ early \subseteq working /\ demoted \in BOOLEAN
    /\ failures \in 0..MaxFailures /\ crashes \in 0..MaxCrashes

\* "This preserves the `A, B -> C` join semantics": from the moment the edges have rows, an
\* agent is started on a child only when everything the proposal says it depends on has been
\* done or cancelled, however syncing, parking, reconciling and crashes interleave.
JoinKept == \A c \in working \ early : Depends[c] \subseteq settled

\* The queue offers the parent for integration: its rows of children, all terminal, and no
\* open edge among them.
Offered ==
    /\ \E c \in Child : status[c] # "absent"
    /\ \A c \in Child : status[c] = "absent" \/ Terminal(c)
    /\ open = {}

\* The decomposed parent is offered for integration once all children of the proposal have
\* been done or cancelled, not once those that happen to be persisted are: the integration
\* queue counts only children it can see.
OfferedComplete == Offered => settled = Child

\* Once the children have rows the proposal never gets stuck, persisted whole or in part:
\* until the parent is offered a child is at work or can be dispatched, an edge waits for a
\* reconciliation, or one is under way.  No failed sync, crash or failure between the two
\* statements of a reconciliation leaves a child that nobody will take up; only a terminal
\* row that has been overwritten does, for then the edges behind it are never resolved.
NeverStuck ==
    (\E c \in Child : status[c] # "absent") /\ ~demoted =>
        \/ Offered
        \/ working # {} \/ \E c \in Child \ settled : Into(c) = {}
        \/ Eligible # {} \/ sweep # {} \/ joining # None

\* The parent of persisted children is offered in the end, unless a terminal row has been
\* overwritten: a tracker that fails or lags, a policy, a proposal persisted in part, a
\* child cancelled, a crash anywhere only delay it.
Completes == (\E c \in Child : status[c] # "absent") ~> (Offered \/ demoted)

\* "The children are intentionally left in `blocked` status so specialist dispatch cannot
\* race ahead while the dependency graph is incomplete": while children have rows and their
\* edges have none, no agent starts on one whose blockers are not done or cancelled.
NeverAhead ==
    [][\A c \in working' \ working :
          step \in {"children", "failed"} /\ linked # Edges => Depends[c] \subseteq settled]_vars
=============================================================================
