---------------------------- MODULE Closeout_proofs ----------------------------
(***************************************************************************)
(* For every forest of work items: the type invariant of Closeout, and the *)
(* three properties of its runs that hold.                                 *)
(*                                                                         *)
(* They rest on three facts of a state: the stamp of the newest verdict is *)
(* what its agent looked at (Stamped), a call under way has told the       *)
(* tracker of the blockers that are no longer left (Told), and it is made  *)
(* by a QA agent at work (Called).  ClosedForGood needs besides that the   *)
(* edges of decompositions have their rows (Rowed), for the table refuses  *)
(* a second one for a pair.                                                *)
(***************************************************************************)
EXTENDS Closeout, TLAPS

Stamped == judged = seen

Told ==
    \A i \in Item : \A b \in Item :
        draft[i] # None /\ b \in draft[i].blockers /\ b \notin draft[i].left
            => <<b, i>> \in mirror

Called == \A i \in Item : draft[i] # None => <<"qa", i>> \in agents

Rowed == Planned \subseteq linked

IInv == TypeOK /\ Stamped /\ Told /\ Called /\ MirroredFirst /\ Rowed

LEMMA DraftType ==
  ASSUME TypeOK, NEW i \in Item, draft[i] # None
  PROVE  /\ draft[i] \in Call
         /\ draft[i].blockers \subseteq Item /\ draft[i].left \subseteq Item
         /\ draft[i].verdict \in Verdicts
  BY DEF TypeOK, Call

\* None is no call: a call of its own would be a record.
LEMMA InitIInv == Init => IInv
  BY CloseoutAssumption
     DEF Init, IInv, TypeOK, Stamped, Told, Called, MirroredFirst, Rowed, Class, ReadyFor

-----------------------------------------------------------------------------
(* Agents come and go. *)

LEMMA StartStep ==
  ASSUME IInv, NEW role \in Role, NEW i \in Item, Start(role, i)
  PROVE  IInv'
<1> USE DEF durable, graph, edgework, bounds
<1>1. TypeOK'
  BY CloseoutAssumption DEF IInv, TypeOK, Start
<1> QED
  BY <1>1 DEF IInv, Stamped, Told, Called, MirroredFirst, Rowed, Start

LEMMA GivesUpStep ==
  ASSUME IInv, NEW role \in Role, NEW i \in Item, GivesUp(role, i)
  PROVE  IInv'
<1> USE DEF durable, graph, edgework, bounds
<1>1. TypeOK'
  BY DEF IInv, TypeOK, GivesUp
<1>2. Called'
  BY DEF IInv, Called, GivesUp
<1> QED
  BY <1>1, <1>2 DEF IInv, Stamped, Told, MirroredFirst, Rowed, GivesUp

LEMMA CrashStep ==
  ASSUME IInv, Crash
  PROVE  IInv'
<1> USE DEF durable, graph, edgework, bounds
<1>1. TypeOK'
  BY CloseoutAssumption DEF IInv, TypeOK, Crash
<1>2. \A i \in Item : draft'[i] = None
  BY DEF Crash
<1> QED
  BY <1>1, <1>2 DEF IInv, Stamped, Told, Called, MirroredFirst, Rowed, Crash

-----------------------------------------------------------------------------
(* What they write outside a verdict. *)

LEMMA RecordStep ==
  ASSUME IInv, NEW i \in Item, RecordIntegration(i)
  PROVE  IInv'
<1> USE DEF durable, graph, edgework, bounds
<1>1. TypeOK'
  BY DEF IInv, TypeOK, RecordIntegration
<1> QED
  BY <1>1 DEF IInv, Stamped, Told, Called, MirroredFirst, Rowed, RecordIntegration

LEMMA HandOffStep ==
  ASSUME IInv, NEW role \in Role, NEW i \in Item, NEW to \in ReadyFor, HandOff(role, i, to)
  PROVE  IInv'
<1> USE DEF durable, graph, edgework, bounds
<1>1. TypeOK'
  BY DEF IInv, TypeOK, HandOff, Class
<1>2. Called'
  BY DEF IInv, Called, HandOff
<1> QED
  BY <1>1, <1>2 DEF IInv, Stamped, Told, MirroredFirst, Rowed, HandOff

\* What is written without an agent: the status of an item, an edge that is resolved, the
\* work that is left on the edges.
LEMMA EdgeStep ==
  ASSUME IInv, NEW e \in Item \X Item,
         \/ Resolve(e) \/ SyncSucceeds(e) \/ SyncFails(e)
         \/ ReconcileResolves(e) \/ ReconcileSkips(e)
  PROVE  IInv'
<1> USE DEF graph, lanes, edgework
<1>1. e[1] \in Item /\ e[2] \in Item
  OBVIOUS
<1>2. status' \in [Item -> Class]
  BY <1>1 DEF Class, ReadyFor, IInv, TypeOK, Resolve, SyncSucceeds, SyncFails, ReconcileResolves,
              ReconcileSkips
<1>3. /\ linked' = linked /\ open' \subseteq open /\ unsynced' \subseteq unsynced
      /\ sweep' \subseteq sweep /\ sweep' \subseteq open' /\ joining' \in {joining, e[2]}
      /\ UNCHANGED lanes
  BY DEF IInv, TypeOK, Resolve, SyncSucceeds, SyncFails, ReconcileResolves, ReconcileSkips
<1>4. TypeOK'
  BY <1>1, <1>2, <1>3 DEF IInv, TypeOK
<1> QED
  BY <1>3, <1>4 DEF IInv, Stamped, Told, Called, MirroredFirst, Rowed

LEMMA OtherStep ==
  ASSUME IInv,
         \/ ReconcileBegins \/ ReconcileReleases \/ ReconcileFails
         \/ \E i \in Item : Cancel(i)
  PROVE  IInv'
<1> USE DEF graph, lanes, edgework
<1>1. status' \in [Item -> Class]
  BY DEF Class, ReadyFor, IInv, TypeOK, Cancel, ReconcileBegins, ReconcileReleases, ReconcileFails
<1>2. /\ UNCHANGED <<graph, unsynced, lanes>> /\ sweep' \subseteq open \cap Planned
      /\ joining' \in {joining, None}
  BY DEF IInv, TypeOK, Cancel, ReconcileBegins, ReconcileReleases, ReconcileFails
<1>3. TypeOK'
  BY <1>1, <1>2 DEF IInv, TypeOK
<1> QED
  BY <1>2, <1>3 DEF IInv, Stamped, Told, Called, MirroredFirst, Rowed

-----------------------------------------------------------------------------
(* A verdict. *)

LEMMA BeginStep ==
  ASSUME IInv, NEW i \in Item, NEW v \in Verdicts, NEW B \in SUBSET Item, BeginVerdict(i, v, B)
  PROVE  IInv'
<1> USE DEF durable, graph, edgework, bounds
<1> DEFINE call == [verdict |-> v, blockers |-> B, left |-> B]
<1>1. call \in Call /\ call.blockers = call.left
  BY DEF Call
<1>2. draft' = [draft EXCEPT ![i] = call] /\ <<"qa", i>> \in agents
  BY DEF BeginVerdict
<1> HIDE DEF call
<1>3. TypeOK'
  BY <1>1, <1>2 DEF IInv, TypeOK, BeginVerdict
<1>4. Told'
  BY <1>1, <1>2 DEF IInv, TypeOK, Told, BeginVerdict
<1>5. Called'
  BY <1>2 DEF IInv, TypeOK, Called, BeginVerdict
<1> QED
  BY <1>3, <1>4, <1>5 DEF IInv, Stamped, MirroredFirst, Rowed, BeginVerdict

LEMMA MirrorStep ==
  ASSUME IInv, NEW i \in Item, NEW b \in Item, MirrorBlocker(i, b)
  PROVE  IInv'
<1> USE DEF durable, graph, edgework, bounds
<1>1. draft[i] # None /\ draft[i] \in Call
  BY DraftType DEF IInv, MirrorBlocker
<1> DEFINE call == [draft[i] EXCEPT !.left = @ \ {b}]
<1>2. /\ call \in Call /\ call.blockers = draft[i].blockers /\ call.left = draft[i].left \ {b}
  BY <1>1 DEF Call
<1>3. draft' = [draft EXCEPT ![i] = call] /\ mirror' = mirror \cup {<<b, i>>}
  BY DEF MirrorBlocker, IInv, TypeOK
<1> HIDE DEF call
<1>4. TypeOK'
  <2>1. draft' \in [Item -> Call \cup {None}] /\ mirror' \subseteq Item \X Item
    BY <1>2, <1>3 DEF IInv, TypeOK
  <2> QED
    BY <2>1 DEF IInv, TypeOK, MirrorBlocker
<1>5. Told'
  BY <1>1, <1>2, <1>3 DEF IInv, TypeOK, Told
<1>6. Called'
  BY <1>1, <1>3 DEF IInv, TypeOK, Called, MirrorBlocker
<1> QED
  BY <1>3, <1>4, <1>5, <1>6 DEF IInv, Stamped, MirroredFirst, Rowed, MirrorBlocker

\* A call that fails, at the tracker or at the table.
LEMMA RefusedStep ==
  ASSUME IInv, NEW i \in Item, MirrorFails(i) \/ CommitRefused(i)
  PROVE  IInv'
<1> USE DEF durable, graph, edgework, bounds
<1>1. /\ draft' = [draft EXCEPT ![i] = None]
      /\ UNCHANGED <<durable, edgework, agents, base, seen, bounds>>
  BY DEF MirrorFails, CommitRefused
<1>2. TypeOK'
  BY <1>1 DEF IInv, TypeOK
<1>3. Told' /\ Called'
  BY <1>1 DEF IInv, TypeOK, Told, Called
<1> QED
  BY <1>1, <1>2, <1>3 DEF IInv, Stamped, MirroredFirst, Rowed

LEMMA CommitStep ==
  ASSUME IInv, NEW i \in Item, CommitVerdict(i)
  PROVE  IInv'
<1> USE DEF durable, graph, edgework, bounds
<1>1. /\ draft[i] # None /\ draft[i].blockers \subseteq Item /\ draft[i].left = {}
      /\ draft[i].verdict \in Verdicts
  BY DraftType DEF IInv, CommitVerdict, Unmirrored
<1>2. \A e \in Edges(i) : e \in Item \X Item /\ e[1] # e[2] /\ e \in mirror
  BY <1>1 DEF Edges, CommitVerdict, Insertable, IInv, Told
<1>3. StatusFor(draft[i].verdict) \in Class
  BY DEF StatusFor, Class, ReadyFor
<1>4. TypeOK'
  <2>1. /\ open' \subseteq linked' /\ linked' \subseteq {e \in Item \X Item : e[1] # e[2]}
        /\ sweep' \subseteq open' \cap Planned
    BY <1>2 DEF IInv, TypeOK, CommitVerdict
  <2>2. status' \in [Item -> Class] /\ draft' \in [Item -> Call \cup {None}]
    BY <1>3 DEF IInv, TypeOK, CommitVerdict
  <2>3. judged' \in [Item -> Nat] /\ seen' \in [Item -> Nat]
    BY DEF IInv, TypeOK, CommitVerdict, Stamp
  <2> QED
    BY <2>1, <2>2, <2>3 DEF IInv, TypeOK, CommitVerdict
<1>5. Stamped'
  BY DEF IInv, Stamped, CommitVerdict, Stamp
<1>6. draft' = [draft EXCEPT ![i] = None] /\ mirror' = mirror /\ agents' = agents
  BY DEF CommitVerdict
<1>7. Told' /\ Called'
  BY <1>6 DEF IInv, TypeOK, Told, Called
<1>8. MirroredFirst' /\ Rowed'
  BY <1>2 DEF IInv, MirroredFirst, Rowed, CommitVerdict
<1> QED
  BY <1>4, <1>5, <1>7, <1>8 DEF IInv

-----------------------------------------------------------------------------
LEMMA StepIInv == IInv /\ [Next]_vars => IInv'
<1> SUFFICES ASSUME IInv, [Next]_vars PROVE IInv'
  OBVIOUS
<1>1. ASSUME NEW i \in Item, NEW role \in Role, Start(role, i) \/ GivesUp(role, i) PROVE IInv'
  BY <1>1, StartStep, GivesUpStep
<1>2. ASSUME NEW i \in Item, NEW role \in Role, NEW to \in ReadyFor, HandOff(role, i, to)
      PROVE  IInv'
  BY <1>2, HandOffStep
<1>3. ASSUME NEW i \in Item, RecordIntegration(i) PROVE IInv'
  BY <1>3, RecordStep
<1>4. ASSUME NEW i \in Item, NEW v \in Verdicts, NEW B \in SUBSET Item, BeginVerdict(i, v, B)
      PROVE  IInv'
  BY <1>4, BeginStep
<1>5. ASSUME NEW i \in Item, NEW b \in Item, MirrorBlocker(i, b) PROVE IInv'
  BY <1>5, MirrorStep
<1>6. ASSUME NEW i \in Item, MirrorFails(i) \/ CommitRefused(i) PROVE IInv'
  BY <1>6, RefusedStep
<1>7. ASSUME NEW i \in Item, CommitVerdict(i) PROVE IInv'
  BY <1>7, CommitStep
<1>8. ASSUME NEW e \in Item \X Item,
             \/ Resolve(e) \/ SyncSucceeds(e) \/ SyncFails(e)
             \/ ReconcileResolves(e) \/ ReconcileSkips(e)
      PROVE  IInv'
  BY <1>8, EdgeStep
<1>9. CASE Crash
  BY <1>9, CrashStep
<1>11. CASE \/ ReconcileBegins \/ ReconcileReleases \/ ReconcileFails
            \/ \E i \in Item : Cancel(i)
  BY <1>11, OtherStep
<1>10. CASE UNCHANGED vars
  BY <1>10 DEF vars, durable, graph, bounds, IInv, TypeOK, Stamped, Told, Called, MirroredFirst,
              Rowed
<1> QED
  BY <1>1, <1>2, <1>3, <1>4, <1>5, <1>6, <1>7, <1>8, <1>9, <1>10, <1>11 DEF Next

LEMMA Inductive == Spec => []IInv
  BY InitIInv, StepIInv, PTL DEF Spec

-----------------------------------------------------------------------------
(* Theorems. *)

\* Type correctness: in particular the table never holds an edge from an item to itself.
THEOREM TypeCorrect == Spec => []TypeOK
<1>1. IInv => TypeOK
  BY DEF IInv
<1> QED
  BY <1>1, Inductive, PTL

\* An integration that no verdict's agent has looked at keeps its item in the QA queue.
THEOREM VerdictsAreFresh == Spec => []NoStaleVerdict
<1>1. IInv => NoStaleVerdict
  BY DEF IInv, TypeOK, Stamped, NoStaleVerdict, QaReady
<1> QED
  BY <1>1, Inductive, PTL

\* A QA blocker that has a row is known to the tracker.
THEOREM BlockersAreMirrored == Spec => []MirroredFirst
<1>1. IInv => MirroredFirst
  BY DEF IInv
<1> QED
  BY <1>1, Inductive, PTL

\* Only the specialist lane starts an agent on an item that is terminal.
LEMMA ClosedUnwanted ==
  ASSUME NEW role \in Role, NEW i \in Item, Terminal(i), Wants(role, i)
  PROVE  role = "specialist"
  BY DEF Wants, IntegrationReady, QaReady, Role

\* A closed item with nobody at work on it is closed for good, unless the specialist lane
\* takes it up again.
THEOREM ClosedForGood == Spec => ClosedIsFinal
<1>1. ASSUME IInv, [Next]_vars, NEW i \in Item, Final(i), <<"specialist", i>> \notin agents'
      PROVE  Final(i)'
  <2> USE <1>1 DEF durable, graph, edgework, lanes, bounds
  <2>1. \A role \in Role : <<role, i>> \notin agents
    BY DEF Final
  <2>2. draft[i] = None
    BY <2>1 DEF IInv, Called, Role
  <2>3. Terminal(i) /\ joining # i /\ None \notin Item
    BY CloseoutAssumption DEF Final
  <2>4. ASSUME status'[i] = status[i], \A a \in agents' : a[2] # i \/ a \in agents,
               joining' # i, open' \cap Planned \subseteq open \cap Planned, unsynced' \subseteq unsynced
        PROVE  Final(i)'
    BY <2>4 DEF Final, Terminal
  <2>5. ASSUME NEW j \in Item, NEW role \in Role, Start(role, j)
        PROVE  Final(i)'
    <3>1. j # i
      BY <2>3, <2>5, ClosedUnwanted DEF Start
    <3> QED
      BY <2>3, <2>4, <2>5, <3>1 DEF Start
  <2>6. ASSUME NEW j \in Item, NEW role \in Role, NEW to \in ReadyFor, HandOff(role, j, to)
        PROVE  Final(i)'
    BY <2>1, <2>3, <2>4, <2>6 DEF HandOff, IInv, TypeOK
  <2>7. ASSUME NEW j \in Item, CommitVerdict(j)
        PROVE  Final(i)'
    <3>1. status'[i] = status[i] /\ open' = open \cup Edges(j) /\ Edges(j) \cap linked = {}
      BY <2>2, <2>7 DEF CommitVerdict, Insertable, IInv, TypeOK
    <3>2. open' \cap Planned \subseteq open \cap Planned
      BY <3>1 DEF IInv, Rowed
    <3> QED
      BY <2>3, <2>4, <2>7, <3>1, <3>2 DEF CommitVerdict
  <2>8. ASSUME NEW j \in Item,
               \/ RecordIntegration(j) \/ MirrorFails(j) \/ CommitRefused(j)
               \/ \E v \in Verdicts, B \in SUBSET Item : BeginVerdict(j, v, B)
               \/ \E b \in Item : MirrorBlocker(j, b)
               \/ \E role \in Role : GivesUp(role, j)
        PROVE  Final(i)'
    BY <2>3, <2>4, <2>8
       DEF RecordIntegration, MirrorFails, CommitRefused, BeginVerdict, MirrorBlocker, GivesUp
  <2>9. ASSUME NEW j \in Item, Cancel(j)
        PROVE  Final(i)'
    BY <2>3, <2>4, <2>9 DEF Cancel, IInv, TypeOK
  <2>10. ASSUME NEW e \in Item \X Item, Resolve(e) \/ SyncSucceeds(e) \/ ReconcileSkips(e)
        PROVE  Final(i)'
    BY <2>3, <2>4, <2>10 DEF Resolve, SyncSucceeds, ReconcileSkips
  <2>11. ASSUME NEW e \in Item \X Item, SyncFails(e)
         PROVE  Final(i)'
    <3>1. e[2] # i
      BY <2>11 DEF SyncFails, Final
    <3> QED
      BY <2>3, <2>4, <2>11, <3>1 DEF SyncFails, IInv, TypeOK
  <2>12. ASSUME NEW e \in Item \X Item, ReconcileResolves(e)
         PROVE  Final(i)'
    <3>1. e[2] # i
      BY <2>12 DEF ReconcileResolves, Final, IInv, TypeOK
    <3> QED
      BY <2>3, <2>4, <2>12, <3>1 DEF ReconcileResolves
  <2>13. ASSUME ReconcileReleases
         PROVE  Final(i)'
    <3>1. status'[i] = status[i] /\ joining' = None
      BY <2>3, <2>13 DEF ReconcileReleases, IInv, TypeOK
    <3> QED
      BY <2>3, <2>4, <2>13, <3>1 DEF ReconcileReleases
  <2>14. ASSUME ReconcileBegins \/ ReconcileFails \/ Crash \/ UNCHANGED vars
         PROVE  Final(i)'
    BY <2>3, <2>4, <2>14 DEF ReconcileBegins, ReconcileFails, Crash, vars
  <2> QED
    BY <2>5, <2>6, <2>7, <2>8, <2>9, <2>10, <2>11, <2>12, <2>13, <2>14 DEF Next
<1>2. ASSUME IInv, [Next]_vars
      PROVE  [\A i \in Item : Final(i) => Final(i)' \/ <<"specialist", i>> \in agents']_vars
  BY <1>1, <1>2
<1> QED
  BY <1>2, Inductive, PTL DEF Spec, ClosedIsFinal
=============================================================================
