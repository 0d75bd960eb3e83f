----------------------------- MODULE FollowupFiling ----------------------------
(***************************************************************************)
(* Approved follow-ups become tracker issues.  Two actors file them: the   *)
(* file_followup tool, in the call that creates the row, and the driver's  *)
(* ApprovedFollowupFiler, which lists the approved rows in every pass.     *)
(* Either creates the issue at the tracker first and then records it in    *)
(* one transaction, which does not look at the row it overwrites.          *)
(*                                                                         *)
(* The tracker's issues are numbered; issues[k] is the follow-up that the  *)
(* k-th was filed for.  faults is history: how many issues of a follow-up  *)
(* its filers lost, because the call that made one reported an error, or   *)
(* because they did not come to record it.                                 *)
(***************************************************************************)
EXTENDS Integers, Sequences, FiniteSets, SequencesExt

CONSTANTS
    Followup,       \* row ids, in the order of their creation
    MaxRefusals,    \* bound on the tracker calls that fail
    MaxFaults       \* bound on crashes and on transactions that fail

ASSUME FollowupFilingAssumption ==
    /\ Followup \subseteq Nat /\ IsFiniteSet(Followup)
    /\ MaxRefusals \in Nat /\ MaxFaults \in Nat

VARIABLES
    row,        \* status of each followups row; "none" without a row
    created,    \* its created_issue_id
    direct,     \* rows that the tool files itself
    issues,     \* the tracker
    items,      \* issues with a work item and a followup_of edge
    syncs,      \* rows of pending_tracker_syncs for it
    filing,     \* rows that a call of the tool has still to file
    mine,       \* the issue that a call has to record for the row; 0 for none
    pass,       \* the rows that the filer's pass has still to visit
    held,       \* the issue that it has to record for the first of them; 0 for none
    refusals, faults, failed

vars == <<row, created, direct, issues, items, syncs, filing, mine, pass, held, refusals, faults, failed>>

tool == <<filing, mine>>

rows == <<row, created, direct, items>>
bounds == <<refusals, faults, failed>>

Init ==
    /\ row = [f \in Followup |-> "none"] /\ created = [f \in Followup |-> 0]
    /\ direct = {} /\ issues = <<>> /\ items = {}
    /\ syncs = [f \in Followup |-> 0]
    /\ filing = {} /\ mine = [f \in Followup |-> 0]
    /\ pass = <<>> /\ held = 0
    /\ refusals = 0 /\ faults = [f \in Followup |-> 0] /\ failed = 0

-----------------------------------------------------------------------------
(* Rows. *)

\* The tool's first transaction, on either route.
Propose(f) ==
    /\ row[f] = "none"
    /\ row' = [row EXCEPT ![f] = "proposed"]
    /\ UNCHANGED <<created, direct, issues, items, syncs, tool, pass, held, bounds>>

CreateDirectly(f) ==
    /\ row[f] = "none"
    /\ row' = [row EXCEPT ![f] = "approved"]
    /\ direct' = direct \cup {f}
    /\ filing' = filing \cup {f}
    /\ UNCHANGED <<created, issues, items, syncs, mine, pass, held, bounds>>

Decide(f) ==
    /\ row[f] = "proposed"
    /\ \E decision \in {"approved", "rejected"} : row' = [row EXCEPT ![f] = decision]
    /\ UNCHANGED <<created, direct, issues, items, syncs, tool, pass, held, bounds>>

\* Mutant of Recorded: the issue gets no work item of its own.
RecordedRowOnly(f, k) ==
    /\ row' = [row EXCEPT ![f] = "created"]
    /\ created' = [created EXCEPT ![f] = k]
    /\ UNCHANGED items

\* persist_applied_followup: one transaction.
Recorded(f, k) ==
    /\ items' = items \cup {k}
    /\ row' = [row EXCEPT ![f] = "created"]
    /\ created' = [created EXCEPT ![f] = k]

Lost(f) == [faults EXCEPT ![f] = @ + 1]

\* create_issue reports an error, and may have made the issue all the same: its reply is
\* lost, or the request that was to close the new issue fails.
Orphaned(f) ==
    \/ UNCHANGED <<issues, faults>>
    \/ issues' = Append(issues, f) /\ faults' = Lost(f)

\* The tracker call fails, and a row that nobody reads says so.
Refused(f) ==
    /\ refusals < MaxRefusals
    /\ refusals' = refusals + 1
    /\ syncs' = [syncs EXCEPT ![f] = @ + 1]
    /\ Orphaned(f)

-----------------------------------------------------------------------------
(* The tool's call. *)

ToolFiles(f) ==
    /\ f \in filing
    /\ issues' = Append(issues, f)
    /\ filing' = filing \ {f}
    /\ mine' = [mine EXCEPT ![f] = Len(issues')]
    /\ UNCHANGED <<rows, syncs, pass, held, bounds>>

ToolRefused(f) ==
    /\ f \in filing /\ Refused(f)
    /\ filing' = filing \ {f}
    /\ UNCHANGED <<rows, mine, pass, held, failed>>

ToolRecords(f) ==
    /\ mine[f] # 0
    /\ Recorded(f, mine[f])
    /\ mine' = [mine EXCEPT ![f] = 0]
    /\ UNCHANGED <<direct, issues, syncs, filing, pass, held, bounds>>

\* A transaction fails, the one that records the issue or the one that would have said that
\* the tracker refused: the call ends, and its row stays approved.
ToolFails(f) ==
    /\ f \in filing \/ mine[f] # 0
    /\ failed < MaxFaults
    /\ failed' = failed + 1
    /\ IF mine[f] # 0 THEN faults' = Lost(f) /\ UNCHANGED issues ELSE Orphaned(f)
    /\ filing' = filing \ {f} /\ mine' = [mine EXCEPT ![f] = 0]
    /\ UNCHANGED <<rows, syncs, pass, held, refusals>>

-----------------------------------------------------------------------------
(* ApprovedFollowupFiler::run_once. *)

\* Mutants of Approved: created rows are listed again; deferred rows are left to others.
ApprovedUndeferred == {f \in Followup : row[f] = "approved" /\ syncs[f] = 0}
ApprovedOrCreated == {f \in Followup : row[f] \in {"approved", "created"}}

Approved == {f \in Followup : row[f] = "approved"}

PassBegins ==
    /\ pass = <<>> /\ Approved # {}
    /\ \E order \in SetToSeqs(Approved) :
          /\ \A j, k \in DOMAIN order : j < k => order[j] < order[k]
          /\ pass' = order
    /\ UNCHANGED <<rows, issues, syncs, tool, held, bounds>>

PassFiles ==
    /\ pass # <<>> /\ held = 0
    /\ issues' = Append(issues, Head(pass))
    /\ held' = Len(issues')
    /\ UNCHANGED <<rows, syncs, tool, pass, bounds>>

PassRefused ==
    /\ pass # <<>> /\ held = 0 /\ Refused(Head(pass))
    /\ pass' = Tail(pass)
    /\ UNCHANGED <<rows, tool, held, failed>>

PassRecords ==
    /\ held # 0
    /\ Recorded(Head(pass), held)
    /\ pass' = Tail(pass) /\ held' = 0
    /\ UNCHANGED <<direct, issues, syncs, tool, bounds>>

\* Either of its transactions fails: the pass ends, and this row and those after it wait
\* for the next.
PassFails ==
    /\ pass # <<>> /\ failed < MaxFaults
    /\ failed' = failed + 1
    /\ IF held # 0 THEN faults' = Lost(Head(pass)) /\ UNCHANGED issues ELSE Orphaned(Head(pass))
    /\ held' = 0 /\ pass' = <<>>
    /\ UNCHANGED <<rows, syncs, tool, refusals>>

Crash ==
    /\ failed < MaxFaults
    /\ failed' = failed + 1
    /\ faults' = [f \in Followup |->
                    faults[f] + (IF mine[f] # 0 THEN 1 ELSE 0)
                              + (IF held # 0 /\ Head(pass) = f THEN 1 ELSE 0)]
    /\ filing' = {} /\ mine' = [f \in Followup |-> 0]
    /\ pass' = <<>> /\ held' = 0
    /\ UNCHANGED <<rows, issues, syncs, refusals>>

Next ==
    \/ \E f \in Followup :
          \/ Propose(f) \/ CreateDirectly(f) \/ Decide(f)
          \/ ToolFiles(f) \/ ToolRefused(f) \/ ToolRecords(f) \/ ToolFails(f)
    \/ PassBegins \/ PassFiles \/ PassRefused \/ PassRecords \/ PassFails
    \/ Crash

Spec == Init /\ [][Next]_vars

\* The driver calls run_once in every round, and calls run to their end.
Fairness ==
    /\ WF_vars(PassBegins) /\ WF_vars(PassFiles) /\ WF_vars(PassRecords)
    /\ \A f \in Followup : WF_vars(ToolFiles(f)) /\ WF_vars(ToolRecords(f))

FairSpec == Spec /\ Fairness

-----------------------------------------------------------------------------
(* Properties. *)

TypeOK ==
    /\ row \in [Followup -> {"none", "proposed", "approved", "created", "rejected"}]
    /\ created \in [Followup -> Nat]
    /\ direct \subseteq Followup
    /\ issues \in Seq(Followup) /\ items \subseteq DOMAIN issues
    /\ syncs \in [Followup -> 0..MaxRefusals]
    /\ filing \subseteq Followup /\ mine \in [Followup -> Nat]
    /\ pass \in Seq(Followup) /\ held \in Nat
    /\ refusals \in 0..MaxRefusals
    /\ faults \in [Followup -> Nat] /\ failed \in 0..MaxFaults

\* A created row names an issue that was filed for it and that has its work item and its
\* followup_of edge: whoever recorded it, and whoever else was filing the same row.
CreatedIsTracked ==
    \A f \in Followup :
        row[f] = "created" =>
            /\ created[f] \in items
            /\ issues[created[f]] = f

\* A follow-up has one issue at the tracker, one more for each that was lost, by a crash, a
\* failed transaction or a create_issue that reported an error when the tracker had made it,
\* and one more if the tool files it while the driver's pass does: refusals that made none,
\* deferred rows and later passes add none.
IssuesAccounted ==
    \A f \in Followup :
        Cardinality({k \in DOMAIN issues : issues[k] = f})
            <= 1 + faults[f] + (IF f \in direct THEN 1 ELSE 0)

\* "The integration loop moves the request from here to [`Self::Created`] once the tracker
\* write succeeds": no approved follow-up is left behind by a call that was refused, that
\* failed half way, or that died.
Filed == \A f \in Followup : row[f] = "approved" ~> row[f] = "created"

\* "True for statuses that no longer accept further transitions."
CreatedIsFinal ==
    [][\A f \in Followup : row[f] = "created" => created'[f] = created[f]]_vars
=============================================================================
