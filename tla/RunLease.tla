------------------------------- MODULE RunLease -------------------------------
(***************************************************************************)
(* The durable run lease: the lease columns of a `runs` row, the guard and *)
(* the heartbeat through which a runner holds it, the runner's pulse pass, *)
(* and the operator's `symphony recover --apply`.                          *)
(*                                                                         *)
(* Time is relative.  The store, the heartbeats and the renewal margin are *)
(* only ever compared through "expires_at against now", so an expiry is    *)
(* kept as the ticks that remain: 0 is the last instant at which the lease *)
(* still holds, -1 stands for every instant after it.  Reading the clock   *)
(* and the store call it feeds are one step.                               *)
(*                                                                         *)
(* A dead owner never comes back: a restarted process has a new pid and    *)
(* so, through LeaseOwner::current_process, a new owner string.            *)
(***************************************************************************)
EXTENDS Integers, FiniteSets

CONSTANTS
    Owner,          \* lease owners: one per scheduler process
    NoOwner,        \* lease_owner IS NULL
    Run,            \* rows of the runs table
    Ttl,            \* LeaseConfig::default_ttl_ms, in ticks
    Margin,         \* LeaseConfig::renewal_margin_ms, in ticks
    PulseEvery,     \* cadence at which the scheduler pulses, in ticks
    Punctual,       \* TRUE: pulses and releases happen before PulseEvery ticks pass
    PromptDrop,     \* TRUE: a spawned release runs before its owner takes the run again
    RecoverApplies  \* TRUE: an operator may run `symphony recover --apply`

ASSUME LeaseAssumption ==
    /\ Ttl \in Nat /\ Margin \in Nat /\ PulseEvery \in Nat
    /\ Margin < Ttl
    /\ PulseEvery <= Margin + 1
    /\ Punctual \in BOOLEAN /\ PromptDrop \in BOOLEAN /\ RecoverApplies \in BOOLEAN
    /\ NoOwner \notin Owner

VARIABLES
    lease,      \* lease[r]: owner and remaining ticks, as stored in the row
    task,       \* task[o][r]: o's dispatch task for run r
    reg,        \* reg[o]: runs with an entry in the runner's heartbeats map
    beat,       \* beat[o][r]: last_expires_at of the registered heartbeat
    snap,       \* snap[o]: entries the pulse pass in progress has yet to visit
    detached,   \* detached[o]: those whose heartbeat the map no longer holds
    old,        \* old[o][r]: last_expires_at of a detached heartbeat
    dropRel,    \* dropRel[o]: releases RunLeaseGuard::drop has spawned
    wait,       \* wait[o][r]: ticks since the task's lease was last tended
    alive,      \* owners whose process is up
    found       \* rows `recover` found expired and has yet to release

vars == <<lease, task, reg, beat, snap, detached, old, dropRel, wait, alive, found>>

Remaining == -1..Ttl
Phase == {"idle", "dispatching", "releasing", "released", "panicked"}
InFlight == {"dispatching", "releasing"}
Vacant == [owner |-> NoOwner, left |-> -1]

TypeOK ==
    /\ lease \in [Run -> [owner : Owner \cup {NoOwner}, left : Remaining]]
    /\ task \in [Owner -> [Run -> Phase]]
    /\ reg \in [Owner -> SUBSET Run]
    /\ beat \in [Owner -> [Run -> Remaining]]
    /\ snap \in [Owner -> SUBSET Run]
    /\ detached \in [Owner -> SUBSET Run]
    /\ old \in [Owner -> [Run -> Remaining]]
    /\ dropRel \in [Owner -> SUBSET Run]
    /\ wait \in [Owner -> [Run -> 0..PulseEvery]]
    /\ alive \in SUBSET Owner
    /\ found \in SUBSET Run

Init ==
    /\ lease = [r \in Run |-> Vacant]
    /\ task = [o \in Owner |-> [r \in Run |-> "idle"]]
    /\ reg = [o \in Owner |-> {}]
    /\ beat = [o \in Owner |-> [r \in Run |-> -1]]
    /\ snap = [o \in Owner |-> {}]
    /\ detached = [o \in Owner |-> {}]
    /\ old = [o \in Owner |-> [r \in Run |-> -1]]
    /\ dropRel = [o \in Owner |-> {}]
    /\ wait = [o \in Owner |-> [r \in Run |-> 0]]
    /\ alive = Owner
    /\ found = {}

-----------------------------------------------------------------------------
(* The store. *)

\* Mutants of Grants: the takeover at the very instant of expiry (<= for <), no takeover
\* at all, and the takeover of a lease under which no dispatch is in flight.
GrantsAtExpiry(o, r) ==
    \/ lease[r].owner = NoOwner
    \/ lease[r].owner = o
    \/ lease[r].left <= 0

GrantsNoTakeover(o, r) == lease[r].owner = NoOwner \/ lease[r].owner = o

GrantsIdle(o, r) ==
    \/ lease[r].owner = NoOwner \/ lease[r].owner = o \/ lease[r].left < 0
    \/ \A p \in Owner : task[p][r] \notin InFlight

\* acquire_lease_in's UPDATE predicate: vacant, already ours, or strictly expired.
Grants(o, r) ==
    \/ lease[r].owner = NoOwner
    \/ lease[r].owner = o
    \/ lease[r].left < 0

Held(o) == [owner |-> o, left |-> Ttl]

\* find_expired_leases_in: rows with an expiry, strictly in the past.
Expired(r) == lease[r].owner # NoOwner /\ lease[r].left < 0

-----------------------------------------------------------------------------
(* One runner's dispatch of one run. *)

\* A heartbeat that leaves the map stays with a pass that has snapshotted it.
DetachFromPass(o, r) ==
    IF r \in snap[o] \ detached[o] /\ r \in reg[o]
    THEN /\ detached' = [detached EXCEPT ![o] = @ \cup {r}]
         /\ old' = [old EXCEPT ![o][r] = beat[o][r]]
    ELSE UNCHANGED <<detached, old>>

\* try_acquire_lease, then the registration of the heartbeat (which replaces a
\* leftover entry), then the spawn: to every other process one step, as only a
\* crash could come between.  An owner is assumed to have one dispatch of a run at a
\* time: its ticks ask for a run once, and nothing in the acquisition, which grants
\* to the same owner again, checks it.
Dispatch(o, r) ==
    /\ o \in alive
    /\ task[o][r] \in {"idle", "panicked"}
    /\ PromptDrop => r \notin dropRel[o]
    /\ Grants(o, r)
    /\ lease' = [lease EXCEPT ![r] = Held(o)]
    /\ DetachFromPass(o, r)
    /\ reg' = [reg EXCEPT ![o] = @ \cup {r}]
    /\ beat' = [beat EXCEPT ![o][r] = Ttl]
    /\ task' = [task EXCEPT ![o][r] = "dispatching"]
    /\ wait' = [wait EXCEPT ![o][r] = 0]
    /\ UNCHANGED <<snap, dropRel, alive, found>>

\* The dispatcher future returned; the task goes on to release its guard.
FinishDispatch(o, r) ==
    /\ task[o][r] = "dispatching"
    /\ task' = [task EXCEPT ![o][r] = "releasing"]
    /\ UNCHANGED <<lease, reg, beat, snap, detached, old, dropRel, wait, alive, found>>

\* RunLeaseGuard::release.  release_lease_in clears the row whoever holds it; a
\* backend error is logged and the row is left to its TTL.
Release(o, r) ==
    /\ task[o][r] = "releasing"
    /\ \/ lease' = [lease EXCEPT ![r] = Vacant]
       \/ UNCHANGED lease
    /\ task' = [task EXCEPT ![o][r] = "released"]
    /\ wait' = [wait EXCEPT ![o][r] = 0]
    /\ UNCHANGED <<reg, beat, snap, detached, old, dropRel, alive, found>>

\* The task removes its heartbeat after the release and ends.
Deregister(o, r) ==
    /\ task[o][r] = "released"
    /\ DetachFromPass(o, r)
    /\ reg' = [reg EXCEPT ![o] = @ \ {r}]
    /\ beat' = [beat EXCEPT ![o][r] = -1]
    /\ task' = [task EXCEPT ![o][r] = "idle"]
    /\ UNCHANGED <<lease, snap, dropRel, wait, alive, found>>

\* The dispatcher panics: unwinding drops the guard, which spawns a release;
\* the removal of the heartbeat is never reached.
Panic(o, r) ==
    /\ task[o][r] = "dispatching"
    /\ task' = [task EXCEPT ![o][r] = "panicked"]
    /\ dropRel' = [dropRel EXCEPT ![o] = @ \cup {r}]
    /\ UNCHANGED <<lease, reg, beat, snap, detached, old, wait, alive, found>>

\* The release RunLeaseGuard::drop spawned runs; its result is ignored.
DropRelease(o, r) ==
    /\ r \in dropRel[o]
    /\ \/ lease' = [lease EXCEPT ![r] = Vacant]
       \/ UNCHANGED lease
    /\ dropRel' = [dropRel EXCEPT ![o] = @ \ {r}]
    /\ wait' = [wait EXCEPT ![o][r] = 0]
    /\ UNCHANGED <<task, reg, beat, snap, detached, old, alive, found>>

-----------------------------------------------------------------------------
(* The pulse pass. *)

\* pulse_heartbeats snapshots the map and lets go of its lock.
BeginPulse(o) ==
    /\ o \in alive
    /\ snap[o] = {} /\ reg[o] # {}
    /\ snap' = [snap EXCEPT ![o] = reg[o]]
    /\ UNCHANGED <<lease, task, reg, beat, detached, old, dropRel, wait, alive, found>>

\* last_expires_at of the heartbeat the pass holds for r.
SeenBeat(o, r) == IF r \in detached[o] THEN old[o][r] ELSE beat[o][r]

\* Mutant of Due: the strict comparison.
DueStrict(o, r) == SeenBeat(o, r) < Margin

\* LeaseHeartbeat::due: no more than the renewal margin is left.
Due(o, r) == SeenBeat(o, r) <= Margin

\* LeaseHeartbeat::pulse got Acquired: row and heartbeat move to a full TTL.
Renew(o, r) ==
    /\ Due(o, r) /\ Grants(o, r)
    /\ lease' = [lease EXCEPT ![r] = Held(o)]
    /\ IF r \in detached[o]
       THEN UNCHANGED beat
       ELSE beat' = [beat EXCEPT ![o][r] = Ttl]
    /\ wait' = [wait EXCEPT ![o][r] = 0]

\* Not due, or Contended: nothing is written.
Keep(o, r) ==
    /\ ~Due(o, r) \/ ~Grants(o, r)
    /\ UNCHANGED <<lease, beat>>
    /\ wait' = [wait EXCEPT ![o][r] = IF r \in detached[o] THEN @ ELSE 0]

\* Mutant of PulseFails: the heartbeat moves before the store has answered.
PulseFailsAhead(o, r) ==
    /\ Due(o, r)
    /\ beat' = [beat EXCEPT ![o][r] = Ttl]
    /\ UNCHANGED <<lease, wait>>

\* The store failed: BackendError is observed and nothing is written.
PulseFails(o, r) ==
    /\ Due(o, r)
    /\ UNCHANGED <<lease, beat, wait>>

\* The pass visits one entry of its snapshot.
Visit(o, r) ==
    /\ r \in snap[o]
    /\ Renew(o, r) \/ Keep(o, r) \/ PulseFails(o, r)
    /\ snap' = [snap EXCEPT ![o] = @ \ {r}]
    /\ detached' = [detached EXCEPT ![o] = @ \ {r}]
    /\ old' = [old EXCEPT ![o][r] = -1]
    /\ UNCHANGED <<task, reg, dropRel, alive, found>>

-----------------------------------------------------------------------------
(* The environment. *)

\* The process dies: its tasks, map and pass go with it, the row stays.
Crash(o) ==
    /\ o \in alive
    /\ alive' = alive \ {o}
    /\ task' = [task EXCEPT ![o] = [r \in Run |-> "idle"]]
    /\ reg' = [reg EXCEPT ![o] = {}]
    /\ snap' = [snap EXCEPT ![o] = {}]
    /\ detached' = [detached EXCEPT ![o] = {}]
    /\ dropRel' = [dropRel EXCEPT ![o] = {}]
    /\ beat' = [beat EXCEPT ![o] = [r \in Run |-> -1]]
    /\ old' = [old EXCEPT ![o] = [r \in Run |-> -1]]
    /\ wait' = [wait EXCEPT ![o] = [r \in Run |-> 0]]
    /\ UNCHANGED <<lease, found>>

\* recover: the query for expired rows ...
RecoverScan ==
    /\ RecoverApplies
    /\ found = {}
    /\ found' = {r \in Run : Expired(r)}
    /\ found' # {}
    /\ UNCHANGED <<lease, task, reg, beat, snap, detached, old, dropRel, wait, alive>>

\* ... and later, one statement per row, release_lease.
RecoverReap(r) ==
    /\ r \in found
    /\ lease' = [lease EXCEPT ![r] = Vacant]
    /\ found' = found \ {r}
    /\ UNCHANGED <<task, reg, beat, snap, detached, old, dropRel, wait, alive>>

Less(n) == IF n < 0 THEN -1 ELSE n - 1

\* A task, or a spawned release, whose lease the process still has to tend.
Tending(o, r) == task[o][r] \in InFlight \/ r \in dropRel[o]

\* Time passes.  Under Punctual, no process lets more than PulseEvery ticks go
\* by between two visits of an in-flight lease, or leaves a release pending.
Tick ==
    /\ Punctual => \A o \in Owner, r \in Run : Tending(o, r) => wait[o][r] < PulseEvery
    /\ lease' = [r \in Run |-> [lease[r] EXCEPT !.left = Less(@)]]
    /\ beat' = [o \in Owner |-> [r \in Run |-> Less(beat[o][r])]]
    /\ old' = [o \in Owner |-> [r \in Run |-> Less(old[o][r])]]
    /\ wait' = [o \in Owner |-> [r \in Run |->
                    IF Tending(o, r) /\ wait[o][r] < PulseEvery
                    THEN wait[o][r] + 1 ELSE wait[o][r]]]
    /\ UNCHANGED <<task, reg, snap, detached, dropRel, alive, found>>

Next ==
    \/ \E o \in Owner, r \in Run :
          \/ Dispatch(o, r) \/ FinishDispatch(o, r)
          \/ Release(o, r) \/ Deregister(o, r)
          \/ Panic(o, r) \/ DropRelease(o, r)
          \/ Visit(o, r)
    \/ \E o \in Owner : BeginPulse(o) \/ Crash(o)
    \/ RecoverScan
    \/ \E r \in Run : RecoverReap(r)
    \/ Tick

Spec == Init /\ [][Next]_vars

\* The runtime runs, the clock advances, an idle process has a request for every
\* run, and a pulse pass that is due happens.  Nothing makes a dispatch end, a
\* panicked one start again, a process crash, or an operator run recover.
Fairness ==
    /\ WF_vars(Tick)
    /\ \A o \in Owner : WF_vars(BeginPulse(o))
    /\ \A o \in Owner, r \in Run :
          /\ WF_vars(task[o][r] = "idle" /\ Dispatch(o, r))
          /\ WF_vars(Visit(o, r))
          /\ WF_vars(Release(o, r)) /\ WF_vars(Deregister(o, r))
          /\ WF_vars(DropRelease(o, r))

FairSpec == Spec /\ Fairness

-----------------------------------------------------------------------------
(* Properties.  The first three need Punctual, PromptDrop and no operator reaping. *)

\* Two owners never dispatch the same run at once: the lease of run_lease.rs is
\* the only thing that stands between two schedulers and one run.
OneDispatchPerRun ==
    \A r \in Run : \A p, q \in Owner :
        task[p][r] \in InFlight /\ task[q][r] \in InFlight => p = q

\* A dispatch in flight is covered by an unexpired lease of its own: renewing at
\* the margin on a cadence of at most margin + 1 ticks wins against the TTL.
LeaseOutlivesTask ==
    \A o \in Owner, r \in Run :
        task[o][r] \in InFlight => lease[r].owner = o /\ lease[r].left >= 0

\* "Atomically claim the lease": the protocol implements Lease.  What is said there of one
\* step of one owner is done here by a row, a guard, a heartbeat and a pulse pass, in
\* several; work under a lease that passes on, lapses or is cleared by another is no step
\* of it, and neither is taking over a lease that has time left.
Promise == INSTANCE Lease WITH
        Owner <- Owner, NoOwner <- NoOwner, Run <- Run,
        owner <- [r \in Run |-> lease[r].owner],
        valid <- [r \in Run |-> lease[r].owner # NoOwner /\ lease[r].left >= 0],
        workers <- [r \in Run |-> {o \in Owner : task[o][r] \in InFlight}]

Exclusive == Promise!Spec

\* A heartbeat never believes the lease it renews to last longer than the row
\* says, through failed and contended pulses, releases and re-acquisitions.
BeatNeverAhead ==
    \A o \in Owner : \A r \in reg[o] :
        lease[r].owner = o => beat[o][r] <= lease[r].left

\* What makes LeaseOutlivesTask inductive: a pass only holds registered or
\* detached heartbeats, a pending drop-release belongs to a panicked dispatch, and
\* a tended lease is its owner's and lost no more time than the margin pays for.
PassRegistered == \A o \in Owner : snap[o] \ detached[o] \subseteq reg[o]

DropsFollowPanics == \A o \in Owner : \A r \in dropRel[o] : task[o][r] = "panicked"

Covered ==
    \A o \in Owner, r \in Run :
        Tending(o, r) => /\ lease[r].owner = o
                         /\ lease[r].left + wait[o][r] >= Margin + 1

LeaseInv ==
    /\ TypeOK /\ BeatNeverAhead /\ PassRegistered
    /\ DropsFollowPanics /\ Covered /\ found = {}

\* A crash leaves no phantom work: the lease of a dead process is in the end
\* taken over or reaped, unless no process is up that is free to take the run.
DeadLeaseFrees ==
    \A o \in Owner, r \in Run :
        (o \notin alive /\ lease[r].owner = o)
            ~> \/ lease[r].owner # o
               \/ \A p \in alive : task[p][r] # "idle"

\* "Deregister after release so a concurrent pulse_heartbeats cannot re-acquire
\* a lease the terminal release just cleared": a vacant lease is never taken by
\* an owner whose task has released it and not yet ended.
ReleasedStaysReleased ==
    [][\A o \in Owner, r \in Run :
          (lease[r].owner = NoOwner /\ task[o][r] = "released") => lease'[r].owner # o]_vars

\* "a panicking or cancelled dispatch still clears the lease": if a run's
\* dispatch stays panicked, its owner in the end holds the lease no more.
PanicClearsLease ==
    \A o \in Owner, r \in Run :
        <>[](task[o][r] = "panicked") => <>[](lease[r].owner # o)

\* "no duplicate active leases": of the dispatches of one run, at most one still
\* has TTL left on its own heartbeat.
NoDuplicateActiveLease ==
    \A r \in Run : \A p, q \in Owner :
        /\ task[p][r] \in InFlight /\ beat[p][r] >= 0
        /\ task[q][r] \in InFlight /\ beat[q][r] >= 0
        => p = q

\* recover reaps "runs whose lease holder died or stalled past its lease
\* deadline": no row it clears holds a lease that has time left.
ReapsOnlyExpired ==
    [][\A r \in found \ found' : lease[r].owner # NoOwner => lease[r].left < 0]_vars
=============================================================================
