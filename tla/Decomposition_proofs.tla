-------------------------- MODULE Decomposition_proofs -------------------------
(***************************************************************************)
(* For every set of children and every acyclic proposal: the type          *)
(* invariant of Decomposition, that agents start in the order of the       *)
(* proposal once it has edges, that a parent is offered only when it is    *)
(* complete, and that a proposal never gets stuck.                         *)
(*                                                                         *)
(* The invariants are not inductive: JoinKept needs that an edge which is  *)
(* no longer open had a blocker that the tracker shows as closed           *)
(* (Resolved), which needs that a terminal row means so (Closed), and      *)
(* NeverStuck needs the converse while no row has been overwritten.        *)
(***************************************************************************)
EXTENDS Decomposition, TLAPS

\* The children get their rows at once, and the edges theirs.
Rows ==
    /\ step = "idle" => linked = {} /\ joining = None /\ \A c \in Child : status[c] = "absent"
    /\ step # "idle" => \A c \in Child : status[c] # "absent"
    /\ step \in {"edges", "applied"} => linked = Edges

\* From then on an edge is open until its blocker is closed.
Resolved == linked = Edges => \A e \in Edges : e \in open \/ e[1] \in settled

\* Rows and tracker agree on who is closed, until a terminal row is overwritten.
Closed ==
    /\ \A c \in Child : Terminal(c) => c \in settled
    /\ \A e \in sweep : e[1] \in settled
    /\ ~demoted => \A c \in settled : Terminal(c)

IInv == TypeOK /\ Rows /\ Resolved /\ Closed /\ JoinKept

LEMMA EdgesPairs == \A e \in Edges : e \in Child \X Child /\ e[1] \in Child /\ e[2] \in Child
  BY DEF Edges

LEMMA Bounds == MaxFailures \in Nat /\ MaxCrashes \in Nat
  BY DecompositionAssumption

LEMMA InitIInv == Init => IInv
<1> SUFFICES ASSUME Init PROVE IInv
  OBVIOUS
<1>1. TypeOK
  <2>1. status \in [Child -> {"absent", "blocked", "ready", "done", "cancelled"}]
    BY DEF Init
  <2>2. failures \in 0..MaxFailures /\ crashes \in 0..MaxCrashes
    BY Bounds DEF Init
  <2> QED
    BY <2>1, <2>2 DEF Init, TypeOK
<1>2. Rows
  <2> SUFFICES step = "idle" /\ linked = {} /\ joining = None /\ \A c \in Child : status[c] = "absent"
    BY DEF Rows
  <2> QED
    BY DEF Init
<1>3. Resolved /\ Closed /\ JoinKept
  BY DEF Init, Resolved, Closed, Terminal, JoinKept
<1> QED
  BY <1>1, <1>2, <1>3 DEF IInv

-----------------------------------------------------------------------------
(* Steps that leave the rows of the children and of the edges alone. *)

LEMMA TrackerSteps ==
  ASSUME IInv, NEW e \in Edges,
         SyncSucceeds(e) \/ RetrySync(e) \/ TrackerCloses(e) \/ ReconcileSkips(e)
  PROVE  IInv'
<1> USE DEF graph, tracker, reconcile, history, bounds
<1>1. /\ status' = status /\ open' = open /\ linked' = linked /\ step' = step
      /\ policy' = policy /\ joining' = joining /\ working' = working
      /\ settled' = settled /\ early' = early /\ demoted' = demoted
      /\ failures' = failures /\ crashes' = crashes /\ sweep' \subseteq sweep
  BY DEF SyncSucceeds, RetrySync, TrackerCloses, ReconcileSkips
<1>2. /\ pending' \subseteq pending /\ failed' \subseteq failed
      /\ mirror' \subseteq mirror \cup linked
  BY DEF SyncSucceeds, RetrySync, TrackerCloses, ReconcileSkips, IInv, TypeOK
<1>3. TypeOK'
  BY <1>1, <1>2 DEF IInv, TypeOK
<1> QED
  BY <1>1, <1>3 DEF IInv, Rows, Resolved, Closed, Terminal, JoinKept, Edges

LEMMA CrashStep ==
  ASSUME IInv, Crash \/ ReconcileFails
  PROVE  IInv'
<1> USE DEF graph, tracker, reconcile, history, bounds
<1>1. TypeOK'
  BY Bounds DEF IInv, TypeOK, Crash, ReconcileFails
<1>2. Rows'
  BY DEF IInv, TypeOK, Rows, Crash, ReconcileFails, Edges
<1>3. Resolved' /\ Closed' /\ JoinKept'
  BY DEF IInv, TypeOK, Resolved, Closed, Terminal, JoinKept, Crash, ReconcileFails, Edges
<1> QED
  BY <1>1, <1>2, <1>3 DEF IInv

-----------------------------------------------------------------------------
(* Steps that overwrite the row of one child, whatever it holds. *)

LEMMA OverwriteKeeps ==
  ASSUME IInv, step # "idle", NEW c \in Child, NEW s \in {"ready", "blocked"},
         status' = [status EXCEPT ![c] = s], demoted' = Overwritten({c}),
         step' = step, settled' = settled, linked' = linked, sweep' = sweep
  PROVE  Rows' /\ Closed'
<1>1. \A d \in Child : status'[d] = IF d = c THEN s ELSE status[d]
  BY DEF IInv, TypeOK
<1>2. Rows'
  BY <1>1 DEF IInv, Rows, Edges
<1>3. (\A d \in Child : Terminal(d) => d \in settled)'
  BY <1>1 DEF IInv, Closed, Terminal
<1>4. (~demoted => \A d \in settled : Terminal(d))'
  <2> SUFFICES ASSUME ~demoted', NEW d \in settled PROVE Terminal(d)'
    OBVIOUS
  <2>1. ~demoted /\ ~Terminal(c)
    BY DEF Overwritten, IInv, TypeOK
  <2>2. Terminal(d) /\ d \in Child
    BY <2>1 DEF IInv, TypeOK, Closed
  <2> QED
    BY <1>1, <2>1, <2>2 DEF Terminal
<1> QED
  BY <1>2, <1>3, <1>4 DEF IInv, Closed

LEMMA SyncFailsStep ==
  ASSUME IInv, NEW e \in Edges, SyncFails(e)
  PROVE  IInv'
<1> USE DEF graph, tracker, reconcile, history, bounds
<1>1. e[2] \in Child /\ e \in linked
  BY EdgesPairs DEF SyncFails, IInv, TypeOK
<1>2. step # "idle"
  BY <1>1 DEF IInv, Rows
<1>3. TypeOK'
  <2>1. /\ status' \in [Child -> {"absent", "blocked", "ready", "done", "cancelled"}]
        /\ demoted' \in BOOLEAN
    BY <1>1 DEF IInv, TypeOK, SyncFails, Overwritten
  <2>2. failures' \in 0..MaxFailures /\ failed' \subseteq linked /\ pending' \subseteq linked
    BY <1>1, Bounds DEF IInv, TypeOK, SyncFails
  <2> QED
    BY <2>1, <2>2 DEF IInv, TypeOK, SyncFails
<1>4. Resolved' /\ JoinKept'
  BY DEF IInv, Resolved, JoinKept, SyncFails, Edges
<1>5. Rows' /\ Closed'
  <2>1. CASE policy = "required"
    BY <1>1, <1>2, <2>1, OverwriteKeeps DEF SyncFails
  <2>2. CASE policy # "required"
    BY <2>2 DEF SyncFails, IInv, Rows, Closed, Terminal, Edges
  <2> QED
    BY <2>1, <2>2
<1> QED
  BY <1>3, <1>4, <1>5 DEF IInv
-----------------------------------------------------------------------------
(* Persisting. *)

LEMMA PersistSteps ==
  ASSUME IInv, PersistChildren \/ PersistEdges \/ ReleaseChildren \/ PersistFails
  PROVE  IInv'
<1> USE DEF graph, tracker, reconcile, history, bounds
<1>1. CASE PersistChildren
  <2>1. \A c \in Child : status[c] = "absent" /\ status'[c] = "blocked"
    BY <1>1 DEF PersistChildren, Parked, IInv, Rows
  <2>2. TypeOK'
    BY <1>1 DEF PersistChildren, Parked, IInv, TypeOK
  <2>3. Rows' /\ Closed'
    BY <1>1, <2>1 DEF PersistChildren, IInv, TypeOK, Rows, Closed, Terminal
  <2> QED
    BY <1>1, <2>2, <2>3 DEF PersistChildren, IInv, Resolved, JoinKept, Edges
<1>2. CASE PersistEdges
  <2>1. TypeOK'
    BY <1>2 DEF PersistEdges, IInv, TypeOK, Edges
  <2>2. Rows'
    BY <1>2 DEF PersistEdges, IInv, Rows, Edges
  <2>3. Resolved' /\ Closed' /\ JoinKept'
    BY <1>2 DEF PersistEdges, IInv, Resolved, Closed, Terminal, JoinKept, Edges
  <2> QED
    BY <2>1, <2>2, <2>3 DEF IInv
<1>3. CASE ReleaseChildren
  <2>1. linked = Edges
    BY <1>3 DEF ReleaseChildren, IInv, Rows
  <2>2. TypeOK'
    BY <1>3, <2>1 DEF ReleaseChildren, Overwritten, IInv, TypeOK, Edges
  <2>3. \A c \in Child : status'[c] = "ready"
    BY <1>3 DEF ReleaseChildren
  <2>4. Rows'
    BY <1>3, <2>1, <2>3 DEF ReleaseChildren, Rows, Edges
  <2>5. Closed'
    BY <1>3, <2>3 DEF ReleaseChildren, Overwritten, IInv, TypeOK, Closed, Terminal
  <2> QED
    BY <1>3, <2>2, <2>4, <2>5 DEF ReleaseChildren, IInv, Resolved, JoinKept, Edges
<1>4. CASE PersistFails
  <2>1. TypeOK' /\ Rows'
    BY <1>4 DEF PersistFails, IInv, TypeOK, Rows, Edges
  <2> QED
    BY <1>4, <2>1 DEF PersistFails, IInv, Resolved, Closed, Terminal, JoinKept, Edges
<1> QED
  BY <1>1, <1>2, <1>3, <1>4

-----------------------------------------------------------------------------
(* Reconciliation, and the lives of the children. *)

LEMMA ReconcileSteps ==
  ASSUME IInv,
         ReconcileBegins \/ ReconcileReleases \/ \E e \in Edges : ReconcileResolves(e)
  PROVE  IInv'
<1> USE DEF graph, tracker, reconcile, history, bounds
<1>1. CASE ReconcileBegins
  <2>1. \A e \in Eligible : e \in open /\ e[1] \in settled
    BY EdgesPairs DEF Eligible, IInv, TypeOK, Closed
  <2>2. TypeOK' /\ Closed'
    BY <1>1, <2>1 DEF ReconcileBegins, IInv, TypeOK, Closed, Terminal
  <2> QED
    BY <1>1, <2>2 DEF ReconcileBegins, IInv, Rows, Resolved, JoinKept, Edges
<1>2. CASE ReconcileReleases
  <2>1. joining \in Child /\ step # "idle"
    BY <1>2 DEF ReconcileReleases, IInv, TypeOK, Rows
  <2>2. TypeOK'
    BY <1>2, <2>1 DEF ReconcileReleases, Overwritten, IInv, TypeOK
  <2>3. Rows' /\ Closed'
    <3>1. CASE Joined(joining)
      BY <1>2, <2>1, <3>1, OverwriteKeeps DEF ReconcileReleases
    <3>2. CASE ~Joined(joining)
      BY <1>2, <2>1, <3>2 DEF ReconcileReleases, IInv, Rows, Closed, Terminal, Edges
    <3> QED
      BY <3>1, <3>2
  <2> QED
    BY <1>2, <2>2, <2>3 DEF ReconcileReleases, IInv, Resolved, JoinKept, Edges
<1>3. ASSUME NEW e \in Edges, ReconcileResolves(e) PROVE IInv'
  <2>1. e[1] \in settled /\ e[2] \in Child /\ step # "idle"
    BY <1>3, EdgesPairs DEF ReconcileResolves, IInv, TypeOK, Rows, Closed
  <2>2. TypeOK'
    BY <1>3, <2>1 DEF ReconcileResolves, IInv, TypeOK
  <2>3. Rows' /\ Resolved' /\ Closed' /\ JoinKept'
    BY <1>3, <2>1 DEF ReconcileResolves, IInv, Rows, Resolved, Closed, Terminal, JoinKept, Edges
  <2> QED
    BY <2>2, <2>3 DEF IInv
<1> QED
  BY <1>1, <1>2, <1>3

LEMMA ChildSteps ==
  ASSUME IInv, NEW c \in Child, Dispatch(c) \/ HandOff(c) \/ CancelItem(c)
  PROVE  IInv'
<1> USE DEF graph, tracker, reconcile, history, bounds
<1>1. CASE Dispatch(c)
  <2>1. ASSUME linked = Edges, NEW d \in Depends[c] PROVE d \in settled
    <3>1. <<d, c>> \in Edges
      BY DecompositionAssumption DEF Edges
    <3>2. <<d, c>> \notin open
      BY <1>1 DEF Dispatch, Into
    <3> QED
      BY <2>1, <3>1, <3>2 DEF IInv, Resolved
  <2>2. working' \ early' \subseteq (working \ early) \cup (IF linked = Edges THEN {c} ELSE {})
    BY <1>1 DEF Dispatch
  <2>3. JoinKept'
    BY <1>1, <2>1, <2>2 DEF Dispatch, IInv, JoinKept
  <2>4. TypeOK'
    BY <1>1 DEF Dispatch, IInv, TypeOK
  <2> QED
    BY <1>1, <2>3, <2>4 DEF Dispatch, IInv, Rows, Resolved, Closed, Terminal, Edges
<1>2. CASE HandOff(c) \/ CancelItem(c)
  <2>1. PICK s \in {"done", "cancelled"} :
           status' = [status EXCEPT ![c] = s] /\ settled' = settled \cup {c}
    BY <1>2 DEF HandOff, CancelItem
  <2>2. step' = step /\ linked' = linked /\ open' = open /\ sweep' = sweep
        /\ demoted' = demoted /\ joining' = joining /\ status[c] # "absent"
    BY <1>2 DEF HandOff, CancelItem
  <2>3. \A d \in Child : status'[d] = IF d = c THEN s ELSE status[d]
    BY <2>1 DEF IInv, TypeOK
  <2>4. TypeOK'
    BY <1>2, <2>1 DEF HandOff, CancelItem, IInv, TypeOK
  <2>5. Rows'
    BY <2>2, <2>3 DEF IInv, Rows, Edges
  <2>6. Closed'
    BY <2>1, <2>2, <2>3 DEF IInv, TypeOK, Closed, Terminal
  <2>7. working' \ early' \subseteq working \ early
    BY <1>2 DEF HandOff, CancelItem
  <2> QED
    BY <2>1, <2>2, <2>4, <2>5, <2>6, <2>7 DEF IInv, Resolved, JoinKept, Edges
<1> QED
  BY <1>1, <1>2

LEMMA StepIInv == IInv /\ [Next]_vars => IInv'
<1> SUFFICES ASSUME IInv, [Next]_vars PROVE IInv'
  OBVIOUS
<1>1. CASE PersistChildren \/ PersistEdges \/ ReleaseChildren \/ PersistFails
  BY <1>1, PersistSteps
<1>2. ASSUME NEW e \in Edges, SyncFails(e) PROVE IInv'
  BY <1>2, SyncFailsStep
<1>3. ASSUME NEW e \in Edges,
             SyncSucceeds(e) \/ RetrySync(e) \/ TrackerCloses(e) \/ ReconcileSkips(e)
      PROVE  IInv'
  BY <1>3, TrackerSteps
<1>4. CASE ReconcileBegins \/ ReconcileReleases \/ \E e \in Edges : ReconcileResolves(e)
  BY <1>4, ReconcileSteps
<1>5. ASSUME NEW c \in Child, Dispatch(c) \/ HandOff(c) \/ CancelItem(c) PROVE IInv'
  BY <1>5, ChildSteps
<1>6. CASE Crash \/ ReconcileFails
  BY <1>6, CrashStep
<1>7. CASE UNCHANGED vars
  BY <1>7 DEF vars, IInv, TypeOK, Rows, Resolved, Closed, Terminal, JoinKept, Edges
<1> QED
  BY <1>1, <1>2, <1>3, <1>4, <1>5, <1>6, <1>7 DEF Next

-----------------------------------------------------------------------------
(* Theorems. *)

LEMMA Inductive == Spec => []IInv
  BY InitIInv, StepIInv, PTL DEF Spec

\* Type correctness: in particular an edge is failed, pending or swept only if it has a row.
THEOREM TypeCorrect == Spec => []TypeOK
<1>1. IInv => TypeOK
  BY DEF IInv
<1> QED
  BY <1>1, Inductive, PTL

\* Once the edges have rows no agent starts on a child before everything that the proposal
\* says it depends on is done or cancelled, for every acyclic proposal, policy, tracker,
\* crash and order of reconciliation.
THEOREM JoinsHold == Spec => []JoinKept
<1>1. IInv => JoinKept
  BY DEF IInv
<1> QED
  BY <1>1, Inductive, PTL

\* The parent is offered for integration only when all children of the proposal are done
\* or cancelled.
THEOREM OfferedWhole == Spec => []OfferedComplete
<1>1. IInv => OfferedComplete
  <2> SUFFICES ASSUME IInv, Offered PROVE settled = Child
    BY DEF OfferedComplete
  <2>1. step # "idle"
    BY DEF IInv, Rows, Offered
  <2>2. \A c \in Child : Terminal(c)
    BY <2>1 DEF IInv, Rows, Offered
  <2> QED
    BY <2>2 DEF IInv, TypeOK, Closed
<1> QED
  BY <1>1, Inductive, PTL

\* The proposal is acyclic: of the children that are not closed one waits for none of the
\* others, and so for an edge whose blocker is terminal, or for nobody.
LEMMA SomeoneMoves ==
  ASSUME IInv
  PROVE  NeverStuck
<1> SUFFICES ASSUME NEW a \in Child, status[a] # "absent", ~demoted, ~Offered,
                    \A c \in Child \ settled : Into(c) # {}, Eligible = {}
             PROVE  FALSE
  BY DEF NeverStuck
<1>1. \A e \in open : e[1] \in Child /\ e[1] \notin settled /\ e[1] \in Depends[e[2]]
  BY DEF Eligible, IInv, TypeOK, Closed, Edges
<1>2. CASE settled = Child
  <2>1. open = {}
    BY <1>1, <1>2
  <2>2. \A c \in Child : Terminal(c)
    BY <1>2 DEF IInv, Closed
  <2> QED
    BY <2>1, <2>2 DEF Offered
<1>3. CASE settled # Child
  <2>1. Child \ settled # {} /\ Child \ settled \in SUBSET Child
    BY <1>3 DEF IInv, TypeOK
  <2>2. PICK c \in Child \ settled : Depends[c] \cap (Child \ settled) = {}
    BY <2>1, DecompositionAssumption
  <2> QED
    BY <1>1, <2>2 DEF Into
<1> QED
  BY <1>2, <1>3

\* A proposal whose children have rows never gets stuck, for any acyclic proposal, policy
\* and tracker, while no terminal row has been overwritten: the safety behind Completes.
THEOREM AlwaysMoves == Spec => []NeverStuck
  BY Inductive, SomeoneMoves, PTL
=============================================================================
