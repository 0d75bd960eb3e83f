--------------------------- MODULE SpecialistIntake ---------------------------
(***************************************************************************)
(* From the tracker to a dispatch: the intake tick publishes the active    *)
(* set, the specialist tick claims routable issues of it and enqueues      *)
(* requests, and the specialist runner looks each issue up again in its    *)
(* own snapshot before it dispatches.  The scheduler runs its two ticks in *)
(* registration order; the runner's driver is another task, so a pass may  *)
(* fall between a publication and the tick that prunes the claims.         *)
(*                                                                         *)
(* visit[i] counts the times i appeared in the published set, and a        *)
(* request carries the visit it was emitted in.  Both are history: the     *)
(* code keeps neither.                                                     *)
(***************************************************************************)
EXTENDS Integers, Sequences, FiniteSets, SequencesExt

CONSTANTS
    Issue,          \* issues of the tracker
    Routable,       \* those that route to a role that is not kernel-special
    MaxInFlight,    \* permits of the specialist runner
    MaxVisits,      \* bound: MaxVisits[i] appearances of i in the published set
    MaxFaults       \* bound: failed fetches and failed dependency look-ups

ASSUME IntakeAssumption ==
    /\ IsFiniteSet(Issue) /\ Routable \subseteq Issue
    /\ MaxInFlight \in Nat /\ MaxVisits \in [Issue -> Nat \ {0}] /\ MaxFaults \in Nat

VARIABLES
    tracker,    \* issues the tracker would report as active
    blocked,    \* issues with an open blocker in the durable graph
    store,      \* ActiveSetStore
    at,         \* where the scheduler is
    claimed,    \* SpecialistQueueTick::claimed
    emitted,    \* history: requests enqueued, in order
    queue,      \* SpecialistDispatchQueue
    deferred,   \* SpecialistRunner::deferred
    pass,       \* where the runner's pass is
    work,       \* requests it has yet to look at
    snap,       \* its snapshot of the active set
    parked,     \* its new_deferred
    tasks,      \* requests whose dispatch is in flight
    visit,      \* history: appearances of an issue in the store
    done,       \* history: requests dispatched, in order
    faults

sched == <<at, store, visit>>
claims == <<claimed, emitted>>
runner == <<pass, work, snap, parked, deferred, tasks, done>>
vars == <<tracker, blocked, sched, claims, queue, runner, faults>>

Req == UNION {[issue : {i}, visit : 1..MaxVisits[i]] : i \in Issue}

TypeOK ==
    /\ tracker \subseteq Issue /\ blocked \subseteq Issue /\ store \subseteq Issue
    /\ at \in {"asleep", "fetching", "specialist", "stopped"}
    /\ claimed \subseteq Issue
    /\ \A s \in {queue, deferred, work, parked, done, emitted} : s \in Seq(Req)
    /\ pass \in {"idle", "drained", "walking"}
    /\ snap \subseteq Issue
    /\ tasks \subseteq Req /\ Cardinality(tasks) <= MaxInFlight
    /\ visit \in [Issue -> Nat] /\ \A i \in Issue : visit[i] <= MaxVisits[i]
    /\ faults \in 0..MaxFaults

Init ==
    /\ tracker \in SUBSET Issue /\ blocked = {}
    /\ store = {} /\ at = "asleep" /\ claimed = {} /\ emitted = <<>>
    /\ queue = <<>> /\ deferred = <<>> /\ work = <<>> /\ parked = <<>> /\ done = <<>>
    /\ pass = "idle" /\ snap = {} /\ tasks = {}
    /\ visit = [i \in Issue |-> 0] /\ faults = 0

-----------------------------------------------------------------------------
(* The world. *)

\* An issue becomes active, or stops being so, at the tracker.
TrackerChanges(i) ==
    /\ at # "stopped"
    /\ visit[i] < MaxVisits[i] \/ i \in tracker
    /\ tracker' = IF i \in tracker THEN tracker \ {i} ELSE tracker \cup {i}
    /\ UNCHANGED <<blocked, sched, claims, queue, runner, faults>>

\* A blocker of an issue is opened or resolved.
BlockerChanges(i) ==
    /\ at # "stopped"
    /\ blocked' = IF i \in blocked THEN blocked \ {i} ELSE blocked \cup {i}
    /\ UNCHANGED <<tracker, sched, claims, queue, runner, faults>>

-----------------------------------------------------------------------------
(* SchedulerV2. *)

\* tick_once reaches the intake tick, which awaits the tracker.
StartPass ==
    /\ at = "asleep"
    /\ at' = "fetching"
    /\ UNCHANGED <<tracker, blocked, store, visit, claims, queue, runner, faults>>

\* ActiveSetStore::replace with what the tracker reported.
Publish ==
    /\ at = "fetching"
    /\ store' = tracker
    /\ visit' = [i \in Issue |-> IF i \in tracker \ store THEN visit[i] + 1 ELSE visit[i]]
    /\ at' = "specialist"
    /\ UNCHANGED <<tracker, blocked, claims, queue, runner, faults>>

\* A tracker error leaves the previous snapshot in place.
FetchFails ==
    /\ at = "fetching" /\ faults < MaxFaults
    /\ faults' = faults + 1
    /\ at' = "specialist"
    /\ UNCHANGED <<tracker, blocked, store, visit, claims, queue, runner>>

\* Mutants of Pruned: claims that never lapse, and claims that lapse with every tick.
NeverPruned == claimed
AllPruned == {}

\* Claims of issues that left the active set lapse.
Pruned == claimed \cap store

\* Mutant of Eligible: the tick goes to the tracker, past the published set.
EligibleAtTracker == ((tracker \ Pruned) \cap Routable) \ blocked

\* Issues the tick gets to enqueue: unclaimed, routed to it, no open blocker.
Eligible == ((store \ Pruned) \cap Routable) \ blocked

\* The requests of a tick: one for each issue it picks, of its present appearance.
Asked(order) == [k \in DOMAIN order |-> [issue |-> order[k], visit |-> visit[order[k]]]]

\* SpecialistQueueTick::tick.  The dependency gate may fail for some issues; the
\* order of the snapshot is the tracker's.
SpecialistTick ==
    /\ at = "specialist"
    /\ \E failed \in SUBSET Eligible :
          LET picked == Eligible \ failed IN
          /\ faults + Cardinality(failed) <= MaxFaults
          /\ faults' = faults + Cardinality(failed)
          /\ \E order \in SetToSeqs(picked) :
                queue' = queue \o Asked(order) /\ emitted' = emitted \o Asked(order)
          /\ claimed' = Pruned \cup picked
    /\ at' = "asleep"
    /\ UNCHANGED <<tracker, blocked, store, visit, runner>>

\* The token fires: select! drops the sleep, or the tick that is awaiting the tracker.
Stop ==
    /\ at \in {"asleep", "fetching"}
    /\ at' = "stopped"
    /\ UNCHANGED <<tracker, blocked, store, visit, claims, queue, runner, faults>>

-----------------------------------------------------------------------------
(* SpecialistRunner::run_pending, where the active set is concerned. *)

Drain ==
    /\ pass = "idle"
    /\ work' = deferred \o queue
    /\ deferred' = <<>> /\ queue' = <<>>
    /\ work' # <<>>
    /\ pass' = "drained"
    /\ UNCHANGED <<tracker, blocked, sched, claims, snap, parked, tasks, done, faults>>

\* The snapshot is taken after the drain.
Snapshot ==
    /\ pass = "drained"
    /\ snap' = store
    /\ pass' = "walking"
    /\ UNCHANGED <<tracker, blocked, sched, claims, queue, work, parked, deferred, tasks,
                   done, faults>>

Walk == pass = "walking" /\ work # <<>> /\ work' = Tail(work)

\* Mutant of Spawn: the permit is not asked for.
SpawnUnbounded ==
    /\ Walk
    /\ Head(work).issue \in snap
    /\ tasks' = tasks \cup {Head(work)}
    /\ done' = Append(done, Head(work))
    /\ UNCHANGED <<tracker, blocked, sched, claims, queue, pass, snap, parked, deferred,
                   faults>>

\* find_issue finds nothing: the request is dropped.
DropMissing ==
    /\ Walk
    /\ Head(work).issue \notin snap
    /\ UNCHANGED <<tracker, blocked, sched, claims, queue, pass, snap, parked, deferred,
                   tasks, done, faults>>

Park ==
    /\ Walk
    /\ Head(work).issue \in snap /\ Cardinality(tasks) = MaxInFlight
    /\ parked' = Append(parked, Head(work))
    /\ UNCHANGED <<tracker, blocked, sched, claims, queue, pass, snap, deferred, tasks,
                   done, faults>>

Spawn ==
    /\ Walk
    /\ Head(work).issue \in snap /\ Cardinality(tasks) < MaxInFlight
    /\ tasks' = tasks \cup {Head(work)}
    /\ done' = Append(done, Head(work))
    /\ UNCHANGED <<tracker, blocked, sched, claims, queue, pass, snap, parked, deferred,
                   faults>>

EndPass ==
    /\ pass = "walking" /\ work = <<>>
    /\ deferred' = parked \o deferred
    /\ parked' = <<>>
    /\ pass' = "idle"
    /\ snap' = {}
    /\ UNCHANGED <<tracker, blocked, sched, claims, queue, work, tasks, done, faults>>

\* A dispatch ends and its permit comes back.
TaskEnds(r) ==
    /\ r \in tasks
    /\ tasks' = tasks \ {r}
    /\ UNCHANGED <<tracker, blocked, sched, claims, queue, pass, work, snap, parked,
                   deferred, done, faults>>

RunnerStep == Drain \/ Snapshot \/ DropMissing \/ Park \/ Spawn \/ EndPass

Next ==
    \/ \E i \in Issue : TrackerChanges(i) \/ BlockerChanges(i)
    \/ StartPass \/ Publish \/ FetchFails \/ SpecialistTick \/ Stop
    \/ RunnerStep
    \/ \E r \in Req : TaskEnds(r)

Spec == Init /\ [][Next]_vars

\* The scheduler and the driver are scheduled, the tracker answers in the end, and
\* dispatches end.
Fairness ==
    /\ WF_vars(StartPass) /\ WF_vars(Publish) /\ WF_vars(SpecialistTick)
    /\ WF_vars(RunnerStep)
    /\ \A r \in Req : WF_vars(TaskEnds(r))

FairSpec == Spec /\ Fairness

-----------------------------------------------------------------------------
(* Properties. *)

Count(s, r) == Cardinality({k \in 1..Len(s) : s[k] = r})

\* The claims dedupe: whatever is re-ticked, parked over many passes or dropped,
\* one appearance of an issue in the active set is requested and dispatched at most once.
OncePerVisit ==
    \A r \in Req :
        Count(queue, r) + Count(deferred, r) + Count(work, r) + Count(parked, r)
            + Count(done, r) <= 1

\* The requests made so far, as Emission has them; none is forgotten.
Requested == [k \in DOMAIN emitted |-> [of |-> emitted[k].issue, visit |-> emitted[k].visit]]
AskedFor == {Requested[k] : k \in DOMAIN emitted}

\* "Issues that leave the active set drop their claim": the claims of this tick, too, keep
\* the promise of Emission.  A request is for an issue that the published set holds when
\* it is made, and an appearance has one, through failing fetches and look-ups.
Promise == INSTANCE Emission WITH
        Candidate <- Issue, present <- store, visit <- visit, log <- Requested,
        asked <- AskedFor, lenient <- FALSE

OncePerAppearance == Promise!Spec

\* "Dropped - the next intake/specialist pass will re-emit if the issue is still
\* routable": a request is never dropped, nor a claim kept, so that an issue which
\* stays active and unblocked is not dispatched for its present appearance.
Served ==
    \A i \in Routable :
        <>[](i \in store /\ i \notin blocked)
            => <>(at = "stopped" \/ Count(done, [issue |-> i, visit |-> visit[i]]) = 1)

\* "Children blocked by unresolved dependencies are not dispatched to specialists":
\* the look-up in the graph is as old as the request by the time it is dispatched.
BlockedNotDispatched ==
    [][\A r \in Req : r.issue \in blocked => Count(done', r) = Count(done, r)]_vars
=============================================================================
