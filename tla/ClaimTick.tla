------------------------------- MODULE ClaimTick ------------------------------
(***************************************************************************)
(* The queue ticks whose source is polled: recovery, integration, QA,      *)
(* follow-up approval and budget pause, with the runner behind them.  They *)
(* share one claim protocol.  A candidate is claimed when it is asked for; *)
(* a claim lapses when a poll no longer shows the candidate.  They differ  *)
(* in what a poll that fails means: the recovery tick polls two sources    *)
(* and takes a failing one for an empty one, the others give up the tick.  *)
(*                                                                         *)
(* visit, log, asked and unseen are history: appearances at the source,    *)
(* requests emitted, those of them whose candidate no poll has missed      *)
(* since, and candidates whose last disappearance no poll has noticed.     *)
(***************************************************************************)
EXTENDS Integers, Sequences, FiniteSets, SequencesExt

CONSTANTS
    Candidate,
    Sources,        \* what the tick polls, in its order
    From,           \* From[c] \in Sources: where c shows up
    MaxVisits,      \* bound on the appearances of a candidate
    MaxFaults       \* bound on the ticks in which a source fails

Polled == ToSet(Sources)

ASSUME ClaimTickAssumption ==
    /\ Sources \in Seq(STRING)
    /\ From \in [Candidate -> {Sources[k] : k \in DOMAIN Sources}]
    /\ IsFiniteSet(Candidate)
    /\ MaxVisits \in Nat /\ MaxFaults \in Nat

VARIABLES
    present,    \* what the sources would show
    claimed,    \* the tick's claimed set
    queue,      \* its dispatch queue
    running,    \* requests whose handler runs
    lenient,    \* which tick this is: recovery goes on without a source that fails
    visit, log, asked, unseen,
    faults

vars == <<present, claimed, queue, running, lenient, visit, log, asked, unseen, faults>>

Request == [of : Candidate, visit : Nat]

TypeOK ==
    /\ present \subseteq Candidate /\ claimed \subseteq Candidate
    /\ queue \in Seq(Request) /\ log \in Seq(Request)
    /\ running \subseteq Request /\ asked \subseteq Request
    /\ unseen \subseteq Candidate /\ lenient \in BOOLEAN
    /\ visit \in [Candidate -> Nat]
    /\ faults \in 0..MaxFaults

Init ==
    /\ present = {} /\ claimed = {}
    /\ queue = <<>> /\ log = <<>> /\ running = {}
    /\ asked = {} /\ unseen = {} /\ lenient \in BOOLEAN
    /\ visit = [c \in Candidate |-> 0]
    /\ faults = 0

-----------------------------------------------------------------------------
(* The source, changed by other processes and by the handlers. *)

Appears(c) ==
    /\ c \notin present /\ visit[c] < MaxVisits
    /\ present' = present \cup {c}
    /\ visit' = [visit EXCEPT ![c] = @ + 1]
    /\ UNCHANGED <<claimed, queue, running, lenient, log, asked, unseen, faults>>

Vanishes(c) ==
    /\ c \in present
    /\ present' = present \ {c}
    /\ unseen' = unseen \cup {c}
    /\ UNCHANGED <<claimed, queue, running, lenient, visit, log, asked, faults>>

-----------------------------------------------------------------------------
(* QueueTick::tick. *)

\* What the tick sees of the sources, when those in failed do not answer.
Answer(failed) == {c \in present : From[c] \notin failed}

\* Mutants of Kept: no claim lapses, every claim lapses.
KeptAll(answer) == claimed
KeptNone(answer) == {}

\* Claims of candidates that the poll still shows.
Kept(answer) == claimed \cap answer

\* The orders in which a tick can ask for the candidates of S: source by source.
Orders(S) ==
    {order \in SetToSeqs(S) :
        \A j, k \in DOMAIN order :
            \A a, b \in DOMAIN Sources :
                From[order[j]] = Sources[a] /\ From[order[k]] = Sources[b] /\ a < b => j < k}

Asking(order) == [k \in DOMAIN order |-> [of |-> order[k], visit |-> visit[order[k]]]]

Emit(answer) ==
    \E order \in Orders(answer \ Kept(answer)) :
        /\ queue' = queue \o Asking(order)
        /\ log' = log \o Asking(order)
        /\ claimed' = Kept(answer) \cup answer
        /\ asked' = {r \in asked : r.of \notin present \ answer} \cup Range(Asking(order))
        /\ unseen' = unseen \cap answer

Tick ==
    /\ Emit(present)
    /\ UNCHANGED <<present, running, lenient, visit, faults>>

\* Some sources fail: the recovery tick counts an error for each and goes on.
TickPastError ==
    /\ lenient /\ faults < MaxFaults
    /\ \E failed \in (SUBSET Polled) \ {{}} : Emit(Answer(failed))
    /\ faults' = faults + 1
    /\ UNCHANGED <<present, running, lenient, visit>>

\* The source fails: the tick returns before it looks at its claims.
TickGivesUp ==
    /\ ~lenient /\ faults < MaxFaults
    /\ faults' = faults + 1
    /\ UNCHANGED <<present, claimed, queue, running, lenient, visit, log, asked, unseen>>

-----------------------------------------------------------------------------
(* The runner: a handler per request. *)

Dispatch ==
    /\ queue # <<>>
    /\ running' = running \cup {Head(queue)}
    /\ queue' = Tail(queue)
    /\ UNCHANGED <<present, claimed, lenient, visit, log, asked, unseen, faults>>

\* The handler does what the request asked for, and its subject leaves the source.
Handled(r) ==
    /\ r \in running
    /\ running' = running \ {r}
    /\ present' = present \ {r.of}
    /\ unseen' = unseen \cup ({r.of} \cap present)
    /\ UNCHANGED <<claimed, queue, lenient, visit, log, asked, faults>>

\* It fails: reap_completed discards the outcome.
HandlerFails(r) ==
    /\ r \in running
    /\ running' = running \ {r}
    /\ UNCHANGED <<present, claimed, queue, lenient, visit, log, asked, unseen, faults>>

Next ==
    \/ \E c \in Candidate : Appears(c) \/ Vanishes(c)
    \/ Tick \/ TickPastError \/ TickGivesUp
    \/ Dispatch
    \/ \E r \in running : Handled(r) \/ HandlerFails(r)

Spec == Init /\ [][Next]_vars

\* The scheduler ticks and the runner drains and ends its handlers.
Fairness ==
    /\ WF_vars(Tick) /\ WF_vars(Dispatch)
    /\ \A c \in Candidate : \A v \in 1..MaxVisits :
          LET r == [of |-> c, visit |-> v] IN WF_vars(Handled(r) \/ HandlerFails(r))

FairSpec == Spec /\ Fairness

-----------------------------------------------------------------------------
(* Properties. *)

\* "A candidate emitted in tick N is recorded in the internal claim set so it does not
\* re-emit on tick N+1 while the source still surfaces it": the claims implement the
\* promise of one request per appearance, through polls that fail, handlers that end or
\* fail, and candidates that leave and come back between two ticks.
Promise == INSTANCE Emission WITH
        Candidate <- Candidate, present <- present, visit <- visit, log <- log,
        asked <- asked, lenient <- lenient

OncePerAppearance == Promise!Spec

\* "A future re-appearance is eligible to dispatch again": a candidate that stays is in
\* the end asked for, for its present appearance, unless it left and came back between two
\* polls.  Polls that fail only delay it, and no claim outlives what it was made for.
Served ==
    \A c \in Candidate :
        <>[](c \in present /\ c \notin unseen)
            => []<>([of |-> c, visit |-> visit[c]] \in asked)
=============================================================================
