------------------------------- MODULE Closeout --------------------------------
(***************************************************************************)
(* From work to closure: the durable graph of work items, the integration  *)
(* and QA queues that are queries over it, and the tools by which the      *)
(* agents of the three lanes write to it: integration records, handoffs,   *)
(* and QA verdicts, which go to the tracker before they are committed.     *)
(* Three more write the status of an item with no agent at work on it: the *)
(* reconciliation of decomposition edges, the failed sync of one that the  *)
(* tracker must have, and whoever cancels an item.                         *)
(*                                                                         *)
(* Time is counted per item in succeeded integration records: a verdict    *)
(* whose run began after the n-th record of the item is stamped n.         *)
(* seen is history: the stamp that the newest verdict's agent looked at.   *)
(***************************************************************************)
EXTENDS Integers, FiniteSets

CONSTANTS
    Item,
    Kids,       \* Kids[i]: the children of i, linked by parent_child edges
    Planned,    \* the blocks edges of decompositions, which are there from the start
    None,
    MaxStarts,  \* bound on the agents started
    MaxCrashes  \* bound on crashes

Role == {"specialist", "integration", "qa"}
ReadyFor == {"integration", "qa", "human_review", "blocked", "done"}
Verdicts == {"passed", "failed_with_blockers", "failed_needs_rework", "inconclusive"}
Class == ReadyFor \cup {"ready", "rework", "cancelled"}

ASSUME CloseoutAssumption ==
    /\ IsFiniteSet(Item) /\ None \notin Item
    /\ Kids \in [Item -> SUBSET Item]
    /\ \A S \in (SUBSET Item) \ {{}} : \E i \in S : Kids[i] \cap S = {}
    /\ Planned \subseteq {e \in Item \X Item : e[1] # e[2]}
    /\ MaxStarts \in Nat /\ MaxCrashes \in Nat

VARIABLES
    status,         \* status class of each item
    linked, open,   \* blocks edges <<blocker, blocked>>: those with a row, those still open
    unsynced,       \* decomposition edges that a required sync has still to go over
    sweep, joining, \* the edges a reconciliation has still to visit, the child it has at hand
    recs,           \* succeeded integration records of each item
    judged,         \* the newest stamp of its verdicts
    mirror,         \* blockers that the tracker has been told of
    agents,         \* <<role, item>> of the agents at work
    base,           \* recs of an item when its QA agent began
    draft,          \* its record_qa_verdict call under way
    seen, starts, crashes

vars == <<status, linked, open, unsynced, sweep, joining, recs, judged, mirror, agents, base,
          draft, seen, starts, crashes>>

graph == <<linked, open>>
edgework == <<unsynced, sweep, joining>>
durable == <<status, graph, recs, judged, mirror>>
lanes == <<recs, judged, mirror, agents, base, draft, seen, starts, crashes>>
bounds == <<starts, crashes>>

\* A call: the verdict, the blockers it files, and those still to be told to the tracker.
Call == [verdict : Verdicts, blockers : SUBSET Item, left : SUBSET Item]

Init ==
    /\ status = [i \in Item |-> "ready"]
    /\ linked = Planned /\ open = Planned /\ mirror = {}
    /\ unsynced \in {{}, Planned} /\ sweep = {} /\ joining = None
    /\ recs = [i \in Item |-> 0] /\ judged = [i \in Item |-> 0]
    /\ base = [i \in Item |-> 0] /\ seen = [i \in Item |-> 0]
    /\ agents = {}
    /\ draft = [i \in Item |-> None]
    /\ starts = 0 /\ crashes = 0

-----------------------------------------------------------------------------
(* The queues. *)

\* i and all its descendants.
Subtree(i) == {j \in Item : \A S \in SUBSET Item :
                  i \in S /\ (\A k \in S : Kids[k] \subseteq S) => j \in S}

Clear(i) == \A e \in open : e[2] \notin Subtree(i)

Terminal(i) == status[i] \in {"done", "cancelled"}

IntegrationReady(i) ==
    /\ ~Terminal(i) /\ Clear(i)
    /\ \/ status[i] = "integration"
       \/ Kids[i] # {} /\ \A k \in Kids[i] : Terminal(k)

\* Mutant of QaReady: an integration that no verdict covers is enough.
QaReadyUnjudged(i) ==
    /\ Clear(i)
    /\ \/ status[i] = "qa"
       \/ recs[i] > 0 /\ judged[i] < recs[i]

QaReady(i) ==
    /\ ~Terminal(i) /\ Clear(i)
    /\ \/ status[i] = "qa"
       \/ recs[i] > 0 /\ judged[i] < recs[i]

\* What makes a lane start an agent on i.  The specialist's goes by the tracker, which may
\* show any item as active at any time, and by the blockers of i: it reads no status.
Wants(role, i) ==
    CASE role = "specialist" -> \A e \in open : e[2] # i
      [] role = "integration" -> IntegrationReady(i)
      [] role = "qa" -> QaReady(i)

Start(role, i) ==
    /\ <<role, i>> \notin agents /\ Wants(role, i)
    /\ starts < MaxStarts
    /\ agents' = agents \cup {<<role, i>>}
    /\ base' = IF role = "qa" THEN [base EXCEPT ![i] = recs[i]] ELSE base
    /\ starts' = starts + 1
    /\ UNCHANGED <<durable, edgework, draft, seen, crashes>>

-----------------------------------------------------------------------------
(* What the agents write. *)

\* The integration owner's record, status succeeded; starts only bounds their number.
RecordIntegration(i) ==
    /\ <<"integration", i>> \in agents /\ recs[i] < starts
    /\ recs' = [recs EXCEPT ![i] = @ + 1]
    /\ UNCHANGED <<status, graph, edgework, judged, mirror, agents, base, draft, seen, bounds>>

\* submit_handoff.  Another call of the same run is answered from the first one's row.
HandOff(role, i, to) ==
    /\ <<role, i>> \in agents /\ (role = "qa" => draft[i] = None)
    /\ status' = [status EXCEPT ![i] = to]
    /\ agents' = agents \ {<<role, i>>}
    /\ UNCHANGED <<graph, edgework, recs, judged, mirror, base, draft, seen, bounds>>

\* An agent that ends without either.
GivesUp(role, i) ==
    /\ <<role, i>> \in agents /\ (role = "qa" => draft[i] = None)
    /\ agents' = agents \ {<<role, i>>}
    /\ UNCHANGED <<durable, edgework, base, draft, seen, bounds>>

\* A waived verdict does what a passed one does.
StatusFor(verdict) ==
    CASE verdict = "passed" -> "done"
      [] verdict = "inconclusive" -> "qa"
      [] OTHER -> "rework"

\* validate_payload.
Valid(verdict, blockers) ==
    /\ verdict = "passed" => blockers = {}
    /\ verdict = "failed_with_blockers" => blockers # {}

\* record_qa_verdict: the tracker issue takes the verdict's state first.
BeginVerdict(i, verdict, blockers) ==
    /\ <<"qa", i>> \in agents /\ draft[i] = None
    /\ Valid(verdict, blockers)
    /\ draft' = [draft EXCEPT ![i] =
                    [verdict |-> verdict, blockers |-> blockers, left |-> blockers]]
    /\ UNCHANGED <<durable, edgework, agents, base, seen, bounds>>

\* Mutant of Unmirrored: the rows are committed before the tracker hears of them.
UnmirroredNone(call) == {}

Unmirrored(call) == call.left

MirrorBlocker(i, b) ==
    /\ draft[i] # None /\ b \in draft[i].left
    /\ draft' = [draft EXCEPT ![i].left = @ \ {b}]
    /\ mirror' = mirror \cup {<<b, i>>}
    /\ UNCHANGED <<status, graph, edgework, recs, judged, agents, base, seen, bounds>>

\* The tracker refuses; what it was told before stays.
MirrorFails(i) ==
    /\ draft[i] # None /\ draft[i].left # {}
    /\ draft' = [draft EXCEPT ![i] = None]
    /\ UNCHANGED <<durable, edgework, agents, base, seen, bounds>>

Edges(i) == draft[i].blockers \X {i}

\* Mutant of Insertable: rows are inserted or replaced.
InsertableAlways(i) == TRUE

\* The table refuses a second row for a pair, resolved or not, and an edge to itself.
Insertable(i) == Edges(i) \cap linked = {} /\ i \notin draft[i].blockers

\* Mutant of Stamp: the time of the commit, not that of the sink's construction.
StampAtCommit(i) == recs[i]

Stamp(i) == base[i]

\* One transaction: edges, verdict, run and status.  The agent goes on, and may call again.
CommitVerdict(i) ==
    /\ draft[i] # None /\ Unmirrored(draft[i]) = {}
    /\ Insertable(i)
    /\ linked' = linked \cup Edges(i) /\ open' = open \cup Edges(i)
    /\ judged' = [judged EXCEPT ![i] = IF @ < Stamp(i) THEN Stamp(i) ELSE @]
    /\ seen' = [seen EXCEPT ![i] = IF @ < base[i] THEN base[i] ELSE @]
    /\ status' = [status EXCEPT ![i] = StatusFor(draft[i].verdict)]
    /\ draft' = [draft EXCEPT ![i] = None]
    /\ UNCHANGED <<edgework, recs, mirror, agents, base, bounds>>

\* The transaction fails, for an edge that is not insertable or for another reason; the
\* tracker has its state and its blockers all the same.
CommitRefused(i) ==
    /\ draft[i] # None /\ draft[i].left = {}
    /\ draft' = [draft EXCEPT ![i] = None]
    /\ UNCHANGED <<durable, edgework, agents, base, seen, bounds>>

-----------------------------------------------------------------------------
(* Who else writes: nobody here is an agent at work on the item. *)

\* Somebody sets the status of an edge of QA's: no code of the repository does.
Resolve(e) ==
    /\ e \in open \ Planned
    /\ open' = open \ {e}
    /\ UNCHANGED <<status, linked, edgework, lanes>>

\* Somebody cancels an item.
Cancel(i) ==
    /\ ~Terminal(i)
    /\ status' = [status EXCEPT ![i] = "cancelled"]
    /\ UNCHANGED <<graph, edgework, lanes>>

SyncSucceeds(e) ==
    /\ e \in unsynced
    /\ unsynced' = unsynced \ {e}
    /\ UNCHANGED <<status, graph, sweep, joining, lanes>>

\* record_required_dependency_sync_failure, whatever the child has come to meanwhile.
SyncFails(e) ==
    /\ e \in unsynced
    /\ unsynced' = {}
    /\ status' = [status EXCEPT ![e[2]] = "blocked"]
    /\ UNCHANGED <<graph, sweep, joining, lanes>>

ReconcileBegins ==
    /\ sweep = {} /\ joining = None
    /\ sweep' = {e \in open \cap Planned : Terminal(e[1])}
    /\ UNCHANGED <<status, graph, unsynced, joining, lanes>>

ReconcileResolves(e) ==
    /\ joining = None /\ e \in sweep
    /\ sweep' = sweep \ {e} /\ joining' = e[2]
    /\ open' = open \ {e}
    /\ UNCHANGED <<status, linked, unsynced, lanes>>

ReconcileReleases ==
    /\ joining # None
    /\ joining' = None
    /\ status' = IF \A e \in open : e[2] # joining
                 THEN [status EXCEPT ![joining] = "ready"] ELSE status
    /\ UNCHANGED <<graph, unsynced, sweep, lanes>>

\* The tracker still shows the relation.
ReconcileSkips(e) ==
    /\ joining = None /\ e \in sweep
    /\ sweep' = sweep \ {e}
    /\ UNCHANGED <<status, graph, unsynced, joining, lanes>>

\* The tracker's answer or a statement fails.
ReconcileFails ==
    /\ sweep # {} \/ joining # None
    /\ sweep' = {} /\ joining' = None
    /\ UNCHANGED <<status, graph, unsynced, lanes>>

\* The process dies with its agents and their calls.
Crash ==
    /\ crashes < MaxCrashes
    /\ crashes' = crashes + 1
    /\ agents' = {}
    /\ draft' = [i \in Item |-> None]
    /\ unsynced' = {} /\ sweep' = {} /\ joining' = None
    /\ UNCHANGED <<durable, base, seen, starts>>

Next ==
    \/ \E i \in Item :
          \/ \E role \in Role : Start(role, i) \/ GivesUp(role, i)
          \/ RecordIntegration(i)
          \/ \E role \in Role, to \in ReadyFor : HandOff(role, i, to)
          \/ \E v \in Verdicts, B \in SUBSET Item : BeginVerdict(i, v, B)
          \/ \E b \in Item : MirrorBlocker(i, b)
          \/ MirrorFails(i) \/ CommitVerdict(i) \/ CommitRefused(i)
          \/ Cancel(i)
    \/ \E e \in Item \X Item :
          \/ Resolve(e) \/ SyncSucceeds(e) \/ SyncFails(e)
          \/ ReconcileResolves(e) \/ ReconcileSkips(e)
    \/ ReconcileBegins \/ ReconcileReleases \/ ReconcileFails
    \/ Crash

Spec == Init /\ [][Next]_vars

-----------------------------------------------------------------------------
(* Properties. *)

TypeOK ==
    /\ status \in [Item -> Class]
    /\ open \subseteq linked /\ linked \subseteq {e \in Item \X Item : e[1] # e[2]}
    /\ unsynced \subseteq Planned /\ sweep \subseteq open \cap Planned
    /\ joining \in Item \cup {None}
    /\ mirror \subseteq Item \X Item
    /\ recs \in [Item -> Nat] /\ judged \in [Item -> Nat]
    /\ base \in [Item -> Nat] /\ seen \in [Item -> Nat]
    /\ agents \subseteq Role \X Item
    /\ draft \in [Item -> Call \cup {None}]
    /\ starts \in 0..MaxStarts /\ crashes \in 0..MaxCrashes

\* "the new integration record is the load-bearing signal that prior verdicts no longer
\* apply": an integration that no verdict's agent has looked at keeps its item in the QA
\* queue, although a verdict that was on its way may be committed after it.
NoStaleVerdict ==
    \A i \in Item : seen[i] < recs[i] /\ ~Terminal(i) /\ Clear(i) => QaReady(i)

\* A QA blocker with a row is one that the tracker has been told of, through refusals,
\* failed calls and crashes between the tracker's calls and the commit.
MirroredFirst == linked \ Planned \subseteq mirror

\* A terminal item on which nobody is at work, no agent, no reconciliation that is about to
\* release it, and whose decomposition edges are all resolved and synced.
Final(i) ==
    /\ Terminal(i) /\ joining # i
    /\ \A a \in agents : a[2] # i
    /\ \A e \in (open \cap Planned) \cup unsynced : e[2] # i

\* Such an item is closed for good: only a tracker that shows it as active again, so that
\* the specialist lane starts an agent on it, can open it, whatever its children and
\* blockers, the verdicts on the way, integrations, reconciliations and crashes do.
ClosedIsFinal ==
    [][\A i \in Item : Final(i) => Final(i)' \/ <<"specialist", i>> \in agents']_vars

\* "Terminal classes never re-enter the work pipeline."
TerminalStays == [][\A i \in Item : Terminal(i) => Terminal(i)']_vars

\* "The kernel still gates on children, integration, blockers, and QA per workflow policy
\* and will downgrade this consequence to the next required gate when those checks fail."
DoneIsGated == [][\A i \in Item : status'[i] = "done" /\ status[i] # "done" =>
                     \A k \in Kids[i] : Terminal(k)]_vars
=============================================================================
