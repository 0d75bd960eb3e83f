---------------------------- MODULE DispatchRunner ----------------------------
(***************************************************************************)
(* The dispatch runners of symphony-core and the driver that runs them: a  *)
(* pass takes the deferred requests and then the queued ones, asks for a   *)
(* capacity permit, the scope permits of the shared ConcurrencyGate, the   *)
(* cancellation queue and a durable lease, and spawns a task or parks the  *)
(* request.  Tasks end, panic and give their permits back at any moment.   *)
(*                                                                         *)
(* The runners share one body.  They differ in three constants: only the   *)
(* specialist runner looks a request up in the active set, a request       *)
(* without a role asks the gate for nothing, and the work item under which *)
(* a cancel reaches a request is the one its runner consults.              *)
(*                                                                         *)
(* Requests are numbered in the order in which they reach their runner.    *)
(* What a lease is worth is the subject of RunLease; here its acquisition  *)
(* is one of the outcomes of try_acquire_lease.                            *)
(***************************************************************************)
EXTENDS Integers, Sequences, FiniteSets

CONSTANTS
    Order,          \* the runners, in the order in which the driver runs them
    Request,        \* dispatch requests, by age
    NoRequest,
    RunnerOf,       \* RunnerOf[q]: the runner whose queue q is put on
    UsesActiveSet,  \* runners that drop a request whose issue left the active set
    Scope,          \* the scopes a cap is configured for
    ScopesOf,       \* ScopesOf[q]: of those, the ones in q's dispatch triple
    Cap,            \* Cap[s]: the configured cap
    MaxInFlight,    \* MaxInFlight[ru]: permits of the runner's semaphore
    RunKey, ItemKey, NoKey, \* the run and the work item of q, as keys of the CancellationQueue
    MaxFaults       \* bound: lease contentions and store errors in a behaviour

Runner == {Order[i] : i \in 1..Len(Order)}
CancelKey == ({RunKey[q] : q \in Request} \cup {ItemKey[q] : q \in Request}) \ {NoKey}

ASSUME RunnerAssumption ==
    /\ Order \in Seq(Runner) /\ Len(Order) >= 1
    /\ Request \subseteq Nat /\ IsFiniteSet(Request)
    /\ NoRequest \notin Request
    /\ RunnerOf \in [Request -> Runner]
    /\ ScopesOf \in [Request -> SUBSET Scope]
    /\ Cap \in [Scope -> Nat]
    /\ MaxInFlight \in [Runner -> Nat]
    /\ \A p, q \in Request : RunKey[p] # NoKey => RunKey[p] # ItemKey[q]
    /\ MaxFaults \in Nat

VARIABLES
    queue,      \* queue[ru]: the runner's dispatch queue
    deferred,   \* deferred[ru]: what earlier passes parked
    turn,       \* position of the driver in Order; 0: asleep, then Filing and Reaping
    pc,         \* where the pass of Order[turn] is
    work,       \* requests the pass has yet to look at
    cur,        \* the request it has taken a permit for
    parked,     \* new_deferred
    snap,       \* the active-set snapshot of the pass
    free,       \* free[ru]: available permits of the semaphore
    inFlight,   \* inFlight[s]: the gate's counters
    task,       \* task[q]: what has become of q
    active,     \* requests whose issue is in the active set
    cancels,    \* keys with an entry in the CancellationQueue
    stage,      \* of the driver: "running", "draining", "stopped"
    stopping,   \* the parent cancellation token
    faults      \* lease faults so far

passVars == <<turn, pc, work, cur, parked, snap>>
driverVars == <<stage, stopping>>
vars == <<queue, deferred, passVars, free, inFlight, task, active, cancels, driverVars, faults>>

Places == {"unborn", "waiting"}
Spawned == {"running", "returned", "unscoped", "finished"}
Gone == {"reaped", "missing", "aborted"}
Pc == {"idle", "next", "scopes", "cancel", "lease"}

\* After the last runner's pass: that of the ApprovedFollowupFiler, and the reaping.
Filing == Len(Order) + 1
Reaping == Len(Order) + 2

\* q holds a permit of its runner, and permits of its scopes.
HoldsPermit(q) ==
    \/ task[q] \in {"running", "returned", "unscoped"}
    \/ cur = q /\ pc \in {"scopes", "cancel", "lease"}

HoldsScopes(q) ==
    \/ task[q] \in {"running", "returned"}
    \/ cur = q /\ pc \in {"cancel", "lease"}

TypeOK ==
    /\ queue \in [Runner -> Seq(Request)] /\ deferred \in [Runner -> Seq(Request)]
    /\ turn \in 0..Reaping /\ pc \in Pc
    /\ (pc # "idle") => turn \in 1..Len(Order)
    /\ work \in Seq(Request) /\ parked \in Seq(Request)
    /\ cur \in Request \cup {NoRequest}
    /\ (cur = NoRequest) <=> pc \in {"idle", "next"}
    /\ snap \subseteq Request /\ active \subseteq Request /\ cancels \subseteq CancelKey
    /\ free \in [Runner -> Nat] /\ inFlight \in [Scope -> Nat]
    /\ task \in [Request -> Places \cup Spawned \cup Gone]
    /\ stage \in {"running", "draining", "stopped"} /\ stopping \in BOOLEAN
    /\ faults \in 0..MaxFaults

Init ==
    /\ queue = [ru \in Runner |-> <<>>] /\ deferred = [ru \in Runner |-> <<>>]
    /\ turn = 0 /\ pc = "idle" /\ work = <<>> /\ cur = NoRequest /\ parked = <<>>
    /\ snap = {}
    /\ free = MaxInFlight
    /\ inFlight = [s \in Scope |-> 0]
    /\ task = [q \in Request |-> "unborn"]
    /\ active = Request /\ cancels = {}
    /\ stage = "running" /\ stopping = FALSE /\ faults = 0

-----------------------------------------------------------------------------
(* What surrounds the runners. *)

\* A tick enqueues a request on its runner's queue.
Enqueue(q) ==
    /\ stage # "stopped"
    /\ task[q] = "unborn"
    /\ \A p \in Request : p < q /\ RunnerOf[p] = RunnerOf[q] => task[p] # "unborn"
    /\ queue' = [queue EXCEPT ![RunnerOf[q]] = Append(@, q)]
    /\ task' = [task EXCEPT ![q] = "waiting"]
    /\ UNCHANGED <<deferred, passVars, free, inFlight, active, cancels, driverVars, faults>>

\* The intake tick publishes an active set without q's issue.
IssueLeaves(q) ==
    /\ RunnerOf[q] \in UsesActiveSet
    /\ q \in active /\ task[q] = "waiting"
    /\ active' = active \ {q}
    /\ UNCHANGED <<queue, deferred, passVars, free, inFlight, task, cancels, driverVars, faults>>

\* An operator's cancel of a run or a work item reaches the in-memory queue.
Cancel(k) ==
    /\ stage # "stopped"
    /\ k \notin cancels
    /\ cancels' = cancels \cup {k}
    /\ UNCHANGED <<queue, deferred, passVars, free, inFlight, task, active, driverVars, faults>>

\* SIGINT cancels the parent token.
Shutdown ==
    /\ ~stopping
    /\ stopping' = TRUE
    /\ UNCHANGED <<queue, deferred, passVars, free, inFlight, task, active, cancels, stage, faults>>

-----------------------------------------------------------------------------
(* The driver. *)

\* Mutant of Wake: the timer branch first, the token never looked at.
WakeUnbiased ==
    /\ stage = "running" /\ turn = 0
    /\ turn' = 1
    /\ UNCHANGED <<queue, deferred, pc, work, cur, parked, snap, free, inFlight, task,
                   active, cancels, driverVars, faults>>

\* select!, biased: a fired token wins over the timer.
Wake ==
    /\ stage = "running" /\ turn = 0 /\ ~stopping
    /\ turn' = 1
    /\ UNCHANGED <<queue, deferred, pc, work, cur, parked, snap, free, inFlight, task,
                   active, cancels, driverVars, faults>>

BeginDrain ==
    /\ stage = "running" /\ turn = 0 /\ stopping
    /\ stage' = "draining"
    /\ UNCHANGED <<queue, deferred, passVars, free, inFlight, task, active, cancels,
                   stopping, faults>>

\* ApprovedFollowupFiler::run_once, whose calls of the tracker the driver awaits: it returns
\* when they have been answered.  What it does is the subject of FollowupFiling.
FilerReturns ==
    /\ stage = "running" /\ turn = Filing
    /\ turn' = Reaping
    /\ UNCHANGED <<queue, deferred, pc, work, cur, parked, snap, free, inFlight, task,
                   active, cancels, driverVars, faults>>

\* reap_completed: finished tasks leave the JoinSet.
Reaped == [q \in Request |-> IF task[q] = "finished" THEN "reaped" ELSE task[q]]

Reap ==
    /\ turn = Reaping \/ stage = "draining"
    /\ task' = Reaped
    /\ turn' = 0
    /\ UNCHANGED <<queue, deferred, pc, work, cur, parked, snap, free, inFlight, active,
                   cancels, driverVars, faults>>

\* The drain is over when every JoinSet is empty, or at its deadline.
Drained ==
    /\ stage = "draining"
    /\ \A q \in Request : task[q] \notin Spawned
    /\ stage' = "stopped"
    /\ UNCHANGED <<queue, deferred, passVars, free, inFlight, task, active, cancels,
                   stopping, faults>>

\* Past the deadline the tasks left are abandoned to process exit.
DrainDeadline ==
    /\ stage = "draining"
    /\ stage' = "stopped"
    /\ UNCHANGED <<queue, deferred, passVars, free, inFlight, task, active, cancels,
                   stopping, faults>>

-----------------------------------------------------------------------------
(* run_pending of the runner whose turn it is. *)

Current == Order[turn]

\* Mutant of BeginPass: fresh requests go before deferred ones.
BeginPassFreshFirst ==
    /\ stage = "running" /\ turn \in 1..Len(Order) /\ pc = "idle"
    /\ work' = queue[Current] \o deferred[Current]
    /\ deferred' = [deferred EXCEPT ![Current] = <<>>]
    /\ queue' = [queue EXCEPT ![Current] = <<>>]
    /\ snap' = active
    /\ parked' = <<>>
    /\ pc' = "next"
    /\ UNCHANGED <<turn, cur, free, inFlight, task, active, cancels, driverVars, faults>>

\* Deferred requests go before newly drained ones.
BeginPass ==
    /\ stage = "running" /\ turn \in 1..Len(Order) /\ pc = "idle"
    /\ work' = deferred[Current] \o queue[Current]
    /\ deferred' = [deferred EXCEPT ![Current] = <<>>]
    /\ queue' = [queue EXCEPT ![Current] = <<>>]
    /\ snap' = active
    /\ parked' = <<>>
    /\ pc' = "next"
    /\ UNCHANGED <<turn, cur, free, inFlight, task, active, cancels, driverVars, faults>>

Missing(q) == Current \in UsesActiveSet /\ q \notin snap

DropMissing ==
    /\ pc = "next" /\ work # <<>>
    /\ Missing(Head(work))
    /\ task' = [task EXCEPT ![Head(work)] = "missing"]
    /\ work' = Tail(work)
    /\ UNCHANGED <<queue, deferred, turn, pc, cur, parked, snap, free, inFlight, active,
                   cancels, driverVars, faults>>

ParkForCapacity ==
    /\ pc = "next" /\ work # <<>>
    /\ ~Missing(Head(work)) /\ free[Current] = 0
    /\ parked' = Append(parked, Head(work))
    /\ work' = Tail(work)
    /\ UNCHANGED <<queue, deferred, turn, pc, cur, snap, free, inFlight, task, active,
                   cancels, driverVars, faults>>

TakePermit ==
    /\ pc = "next" /\ work # <<>>
    /\ ~Missing(Head(work)) /\ free[Current] > 0
    /\ free' = [free EXCEPT ![Current] = @ - 1]
    /\ cur' = Head(work)
    /\ work' = Tail(work)
    /\ pc' = "scopes"
    /\ UNCHANGED <<queue, deferred, turn, parked, snap, inFlight, task, active, cancels,
                   driverVars, faults>>

AtCap(s) == inFlight[s] >= Cap[s]

\* ScopePermitSet: one permit more, or less, on each scope of the set.
Charged(ss) == [s \in Scope |-> IF s \in ss THEN inFlight[s] + 1 ELSE inFlight[s]]

Refunded(ss) ==
    [s \in Scope |-> IF s \in ss /\ inFlight[s] > 0 THEN inFlight[s] - 1 ELSE inFlight[s]]

\* try_acquire: all scopes or none, in one critical section of the gate.
AcquireScopes ==
    /\ pc = "scopes"
    /\ ~\E s \in ScopesOf[cur] : AtCap(s)
    /\ inFlight' = Charged(ScopesOf[cur])
    /\ pc' = "cancel"
    /\ UNCHANGED <<queue, deferred, turn, work, cur, parked, snap, free, task, active,
                   cancels, driverVars, faults>>

\* Mutant of GiveBackPermit: the pass still points at the request.
GiveBackPermitKeepsCur ==
    /\ free' = [free EXCEPT ![Current] = @ + 1]
    /\ cur' = cur
    /\ pc' = "next"

\* The request goes no further in this pass: its capacity permit is dropped.
GiveBackPermit ==
    /\ free' = [free EXCEPT ![Current] = @ + 1]
    /\ cur' = NoRequest
    /\ pc' = "next"

\* Mutant of ParkForScope: the capacity permit is not dropped before parking.
ParkForScopeWithPermit ==
    /\ pc = "scopes"
    /\ \E s \in ScopesOf[cur] : AtCap(s)
    /\ parked' = Append(parked, cur)
    /\ cur' = NoRequest /\ pc' = "next"
    /\ UNCHANGED <<queue, deferred, turn, work, snap, free, inFlight, task, active, cancels,
                   driverVars, faults>>

ParkForScope ==
    /\ pc = "scopes"
    /\ \E s \in ScopesOf[cur] : AtCap(s)
    /\ parked' = Append(parked, cur)
    /\ GiveBackPermit
    /\ UNCHANGED <<queue, deferred, turn, work, snap, inFlight, task, active, cancels,
                   driverVars, faults>>

\* observe_for_run_or_parent.
Pending(q) == RunKey[q] \in cancels \/ ItemKey[q] \in cancels

\* Mutant of AbortCancelled: the scope permits are not dropped.
AbortWithScopes ==
    /\ pc = "cancel" /\ Pending(cur)
    /\ task' = [task EXCEPT ![cur] = "aborted"]
    /\ cancels' = cancels \ {RunKey[cur]}
    /\ GiveBackPermit
    /\ UNCHANGED <<queue, deferred, turn, work, parked, snap, inFlight, active, driverVars,
                   faults>>

\* A pending cancel is looked up under the lock of the cancellation queue.  The run's
\* entry is drained, for every request of that run; the work item's stays.
AbortCancelled ==
    /\ pc = "cancel" /\ Pending(cur)
    /\ inFlight' = Refunded(ScopesOf[cur])
    /\ task' = [task EXCEPT ![cur] = "aborted"]
    /\ cancels' = cancels \ {RunKey[cur]}
    /\ GiveBackPermit
    /\ UNCHANGED <<queue, deferred, turn, work, parked, snap, active, driverVars, faults>>

\* Mutant of NotCancelled: the queue is not consulted.
CancelUnseen ==
    /\ pc = "cancel"
    /\ pc' = "lease"
    /\ UNCHANGED <<queue, deferred, turn, work, cur, parked, snap, free, inFlight, task,
                   active, cancels, driverVars, faults>>

NotCancelled ==
    /\ pc = "cancel" /\ ~Pending(cur)
    /\ pc' = "lease"
    /\ UNCHANGED <<queue, deferred, turn, work, cur, parked, snap, free, inFlight, task,
                   active, cancels, driverVars, faults>>

\* Mutant of ParkForLease: the request is dropped instead of parked.
LeaseErrorForgets ==
    /\ pc = "lease" /\ faults < MaxFaults
    /\ faults' = faults + 1
    /\ inFlight' = Refunded(ScopesOf[cur])
    /\ GiveBackPermit
    /\ UNCHANGED <<queue, deferred, turn, work, parked, snap, task, active, cancels, driverVars>>

\* Contended, or a store error: both permits are dropped and the request parked.
ParkForLease ==
    /\ pc = "lease" /\ faults < MaxFaults
    /\ faults' = faults + 1
    /\ inFlight' = Refunded(ScopesOf[cur])
    /\ parked' = Append(parked, cur)
    /\ GiveBackPermit
    /\ UNCHANGED <<queue, deferred, turn, work, snap, task, active, cancels, driverVars>>

\* NotFound: the run row is gone and the request with it.
DropMissingRun ==
    /\ pc = "lease" /\ faults < MaxFaults
    /\ faults' = faults + 1
    /\ inFlight' = Refunded(ScopesOf[cur])
    /\ task' = [task EXCEPT ![cur] = "missing"]
    /\ GiveBackPermit
    /\ UNCHANGED <<queue, deferred, turn, work, parked, snap, active, cancels, driverVars>>

\* Acquired, or nothing to lease: the permits move into the spawned task.
Spawn ==
    /\ pc = "lease"
    /\ task' = [task EXCEPT ![cur] = "running"]
    /\ cur' = NoRequest
    /\ pc' = "next"
    /\ UNCHANGED <<queue, deferred, turn, work, parked, snap, free, inFlight, active,
                   cancels, driverVars, faults>>

\* Leftovers go in front of whatever is deferred by now.
EndPass ==
    /\ pc = "next" /\ work = <<>>
    /\ deferred' = [deferred EXCEPT ![Current] = parked \o @]
    /\ parked' = <<>>
    /\ pc' = "idle"
    /\ turn' = turn + 1
    /\ UNCHANGED <<queue, work, cur, snap, free, inFlight, task, active, cancels, driverVars,
                   faults>>

PassStep ==
    \/ BeginPass \/ DropMissing \/ ParkForCapacity \/ TakePermit
    \/ AcquireScopes \/ ParkForScope \/ AbortCancelled \/ NotCancelled
    \/ ParkForLease \/ DropMissingRun \/ Spawn \/ EndPass

-----------------------------------------------------------------------------
(* The spawned task. *)

\* The dispatcher's future resolved; what follows is release and deregistration.
Return(q) ==
    /\ stage # "stopped" /\ task[q] = "running"
    /\ task' = [task EXCEPT ![q] = "returned"]
    /\ UNCHANGED <<queue, deferred, passVars, free, inFlight, active, cancels, driverVars, faults>>

DropScopes(q) ==
    /\ stage # "stopped" /\ task[q] = "returned"
    /\ inFlight' = Refunded(ScopesOf[q])
    /\ task' = [task EXCEPT ![q] = "unscoped"]
    /\ UNCHANGED <<queue, deferred, passVars, free, active, cancels, driverVars, faults>>

DropPermit(q) ==
    /\ stage # "stopped" /\ task[q] = "unscoped"
    /\ free' = [free EXCEPT ![RunnerOf[q]] = @ + 1]
    /\ task' = [task EXCEPT ![q] = "finished"]
    /\ UNCHANGED <<queue, deferred, passVars, inFlight, active, cancels, driverVars, faults>>

\* Mutant of Panic: the capacity permit is only dropped at the end of the task's body.
PanicWithPermit(q) ==
    /\ stage # "stopped" /\ task[q] = "running"
    /\ inFlight' = Refunded(ScopesOf[q])
    /\ task' = [task EXCEPT ![q] = "finished"]
    /\ UNCHANGED <<queue, deferred, passVars, free, active, cancels, driverVars, faults>>

\* A panic unwinds the future and drops what it captured.
Panic(q) ==
    /\ stage # "stopped" /\ task[q] = "running"
    /\ inFlight' = Refunded(ScopesOf[q])
    /\ free' = [free EXCEPT ![RunnerOf[q]] = @ + 1]
    /\ task' = [task EXCEPT ![q] = "finished"]
    /\ UNCHANGED <<queue, deferred, passVars, active, cancels, driverVars, faults>>

\* The process has exited.
Exited == stage = "stopped" /\ UNCHANGED vars

Next ==
    \/ Wake \/ BeginDrain \/ FilerReturns \/ Reap \/ Drained \/ DrainDeadline \/ PassStep
    \/ \E k \in CancelKey : Cancel(k)
    \/ \E q \in Request :
          \/ Enqueue(q) \/ IssueLeaves(q)
          \/ Return(q) \/ DropScopes(q) \/ DropPermit(q) \/ Panic(q)
    \/ Shutdown
    \/ Exited

Spec == Init /\ [][Next]_vars

\* The driver's task and the spawned tasks are scheduled, a dispatch ends in the
\* end, and the drain's timer fires.
Fairness ==
    /\ WF_vars(Wake) /\ WF_vars(PassStep) /\ WF_vars(Reap)
    /\ WF_vars(BeginDrain) /\ WF_vars(DrainDeadline)
    /\ \A q \in Request :
          WF_vars(Return(q)) /\ WF_vars(DropScopes(q)) /\ WF_vars(DropPermit(q))

\* The tracker answers the filer.  It need not in time: the driver awaits it without a bound.
TrackerAnswers == WF_vars(FilerReturns)

FairSpec == Spec /\ Fairness /\ TrackerAnswers

\* The same with a tracker that may leave a call unanswered.
SilentSpec == Spec /\ Fairness

-----------------------------------------------------------------------------
(* Properties. *)

\* No permit of a runner's semaphore is lost or given back twice: on every path of
\* the pass and of the task, what is not available is held, once, by a request.
PermitsBalance ==
    \A ru \in Runner :
        free[ru] + Cardinality({q \in Request : RunnerOf[q] = ru /\ HoldsPermit(q)})
            = MaxInFlight[ru]

\* The same for the gate all runners share, and no scope ever exceeds its cap.
ScopesBalance ==
    \A s \in Scope :
        /\ inFlight[s] = Cardinality({q \in Request : s \in ScopesOf[q] /\ HoldsScopes(q)})
        /\ inFlight[s] <= Cap[s]

\* Where runner ru keeps its waiting requests, in the order in which it will try them.
InPass(ru) == turn \in 1..Len(Order) /\ Current = ru
HeldBack(ru) ==
    (IF InPass(ru) THEN parked \o (IF cur = NoRequest THEN <<>> ELSE <<cur>>) \o work
                   ELSE <<>>)
        \o deferred[ru] \o queue[ru]

\* "Deferreds first so they are tried again before fresh work, preserving age-order
\* across passes": whatever was parked, why and when, older requests stay ahead.
AgeOrder ==
    \A ru \in Runner : LET s == HeldBack(ru) IN
        \A i, j \in 1..Len(s) : i < j => s[i] < s[j]

\* A request is neither lost nor doubled: it is on exactly one list while nothing
\* has been decided about it, and on none from then on.
NoneLost ==
    \A q \in Request : LET s == HeldBack(RunnerOf[q]) IN
        Cardinality({i \in 1..Len(s) : s[i] = q}) = IF task[q] = "waiting" THEN 1 ELSE 0

\* What makes the four above inductive: a runner's lists hold what waits for it, and
\* nothing else; requests are born in order; nothing is left over between two passes;
\* and the driver that drains is past its last pass.
Waiting(ru) == {q \in Request : RunnerOf[q] = ru /\ task[q] = "waiting"}

WellListed ==
    \A ru \in Runner : LET s == HeldBack(ru) IN {s[i] : i \in 1..Len(s)} = Waiting(ru)

BornInOrder ==
    \A p, q \in Request :
        p < q /\ RunnerOf[p] = RunnerOf[q] /\ task[q] # "unborn" => task[p] # "unborn"

PassShape == pc = "idle" => work = <<>> /\ parked = <<>>

DriverShape == stage # "running" => turn = 0

ListInv ==
    /\ TypeOK /\ DriverShape /\ PassShape
    /\ AgeOrder /\ WellListed /\ BornInOrder

PermitInv == ListInv /\ PermitsBalance /\ ScopesBalance

\* q is parked, queued, or in the pass and not past the observation point.
Observable(q) == task[q] = "waiting" /\ ~(cur = q /\ pc = "lease")

\* A request whose work item is cancelled before the observation point is never dispatched,
\* through any number of passes.  A cancel of its run holds it back as surely, until the
\* abort of another request of that run drains the entry that both should see.
CancelSticks ==
    /\ \A q \in Request :
          [](Observable(q) /\ ItemKey[q] \in cancels => [](task[q] # "running"))
    /\ [][\A q \in Request :
             Observable(q) /\ RunKey[q] \in cancels =>
                \/ (Observable(q) /\ RunKey[q] \in cancels)'
                \/ task'[q] \in Gone
                \/ \E p \in Request \ {q} :
                      /\ RunKey[p] = RunKey[q]
                      /\ task[p] = "waiting" /\ task'[p] = "aborted"]_vars

\* Of finitely many requests, each that waits is in the end dispatched, aborted or dropped
\* while the driver runs: no fault, panic or cancel keeps the permit that another one needs,
\* and no parked request is forgotten.  Between requests that never stop coming nothing in
\* the code is fair, and none of this holds.
WorkDrains ==
    \A q \in Request : task[q] = "waiting" ~> task[q] # "waiting" \/ stopping

\* After the token has fired the driver stops, wherever in its round it was: provided the
\* tracker answers the filer.
ShutdownEnds == stopping ~> stage = "stopped"
=============================================================================
