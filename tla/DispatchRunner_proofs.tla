------------------------ MODULE DispatchRunner_proofs ------------------------
(***************************************************************************)
(* Theorems about DispatchRunner for every list of runners, every finite   *)
(* set of requests, and all caps and permits that RunnerAssumption admits. *)
(***************************************************************************)
EXTENDS DispatchRunner, TLAPS, FiniteSetTheorems, SequenceTheorems

(***************************************************************************)
(* Sequences.                                                              *)
(***************************************************************************)

\* s is t with one occurrence of q more.
OneLess(s, t, q) ==
    \E u, v \in Seq(Request) : s = u \o (<<q>> \o v) /\ t = u \o v

Ascending(s) == \A i, j \in 1..Len(s) : i < j => s[i] < s[j]

Members(s) == {s[i] : i \in 1..Len(s)}

\* Taking one request out of an ascending list leaves the others, in order.
LEMMA OneLessKeeps ==
  ASSUME NEW s, NEW t, NEW q \in Request, OneLess(s, t, q), Ascending(s)
  PROVE  Ascending(t) /\ q \in Members(s) /\ Members(t) = Members(s) \ {q}
<1>1. PICK u \in Seq(Request), v \in Seq(Request) : s = u \o (<<q>> \o v) /\ t = u \o v
  BY DEF OneLess
<1>2. /\ Len(u) \in Nat /\ Len(v) \in Nat
      /\ Len(s) = Len(u) + 1 + Len(v) /\ Len(t) = Len(u) + Len(v)
  BY <1>1
<1> DEFINE at(i) == IF i <= Len(u) THEN i ELSE i + 1
<1>3. \A i \in 1..Len(t) : at(i) \in 1..Len(s) /\ at(i) # Len(u) + 1 /\ t[i] = s[at(i)]
  BY <1>1, <1>2
<1>4. s[Len(u) + 1] = q /\ Len(u) + 1 \in 1..Len(s)
  BY <1>1, <1>2
<1>5. \A k \in 1..Len(s) : k # Len(u) + 1 => \E i \in 1..Len(t) : at(i) = k
  <2> SUFFICES ASSUME NEW k \in 1..Len(s), k # Len(u) + 1
               PROVE  \E i \in 1..Len(t) : at(i) = k
    OBVIOUS
  <2>1. CASE k <= Len(u)
    BY <2>1, <1>2
  <2>2. CASE k > Len(u) + 1
    <3>1. k - 1 \in 1..Len(t) /\ at(k - 1) = k
      BY <2>2, <1>2
    <3> QED BY <3>1
  <2> QED BY <2>1, <2>2, <1>2
<1>6. Ascending(t)
  <2> SUFFICES ASSUME NEW i \in 1..Len(t), NEW j \in 1..Len(t), i < j
               PROVE  t[i] < t[j]
    BY DEF Ascending
  <2>1. at(i) < at(j)
    BY <1>2
  <2> QED BY <2>1, <1>3 DEF Ascending
<1>7. \A k \in 1..Len(s) : k # Len(u) + 1 => s[k] # q
  <2> SUFFICES ASSUME NEW k \in 1..Len(s), k # Len(u) + 1 PROVE s[k] # q
    OBVIOUS
  <2>1. s[k] < s[Len(u) + 1] \/ s[Len(u) + 1] < s[k]
    BY <1>2, <1>4 DEF Ascending
  <2>2. q \in Nat
    BY RunnerAssumption
  <2> QED BY <2>1, <2>2, <1>4
<1>8. Members(t) = Members(s) \ {q}
  <2>1. ASSUME NEW i \in 1..Len(t) PROVE t[i] \in Members(s) \ {q}
    BY <1>3, <1>7 DEF Members
  <2>2. ASSUME NEW k \in 1..Len(s), s[k] # q PROVE s[k] \in Members(t)
    <3>1. PICK i \in 1..Len(t) : at(i) = k
      BY <2>2, <1>4, <1>5
    <3> QED BY <3>1, <1>3 DEF Members
  <2> QED BY <2>1, <2>2 DEF Members
<1> HIDE DEF at
<1> QED BY <1>4, <1>6, <1>8 DEF Members

\* A younger request at the end keeps a list ascending.
LEMMA AppendKeeps ==
  ASSUME NEW s \in Seq(Request), NEW q \in Request, Ascending(s),
         \A p \in Members(s) : p < q
  PROVE  Ascending(Append(s, q)) /\ Members(Append(s, q)) = Members(s) \cup {q}
<1> DEFINE t == Append(s, q)
<1>1. /\ Len(s) \in Nat /\ Len(t) = Len(s) + 1 /\ t[Len(s) + 1] = q
      /\ \A i \in 1..Len(s) : t[i] = s[i] /\ s[i] < q
  BY DEF Members
<1> HIDE DEF t
<1>2. Ascending(t)
  BY <1>1 DEF Ascending
<1>3. Members(t) = Members(s) \cup {q}
  BY <1>1 DEF Members
<1> QED BY <1>2, <1>3 DEF t

\* What is held back: parked requests, the one held, the rest of the pass, what was
\* deferred and what is queued; read from the left, and from the right.
Line(P, C, W, D, Q) == P \o C \o W \o D \o Q
Nested(P, C, W, D, Q) == P \o (C \o (W \o D \o Q))

LEMMA Shapes ==
  ASSUME NEW P \in Seq(Request), NEW C \in Seq(Request), NEW W \in Seq(Request),
         NEW D \in Seq(Request), NEW Q \in Seq(Request)
  PROVE  Line(P, C, W, D, Q) = Nested(P, C, W, D, Q)
<1>1. P \o C \o W = P \o (C \o W)
  BY SMTT(60)
<1>2. P \o (C \o W) \o D = P \o (C \o W \o D)
  BY SMTT(60)
<1>3. C \o W \o D = C \o (W \o D)
  BY SMTT(60)
<1>4. P \o (C \o (W \o D)) \o Q = P \o (C \o (W \o D) \o Q)
  <2> DEFINE R == C \o (W \o D)
  <2>1. R \in Seq(Request)
    OBVIOUS
  <2> HIDE DEF R
  <2>2. P \o R \o Q = P \o (R \o Q)
    BY <2>1, SMTT(60)
  <2> QED BY <2>2 DEF R
<1>5. C \o (W \o D) \o Q = C \o (W \o D \o Q)
  BY SMTT(60)
<1> QED BY <1>1, <1>2, <1>3, <1>4, <1>5 DEF Line, Nested

\* Appending a request is concatenating it, and the empty list changes nothing.
LEMMA Units ==
  ASSUME NEW W \in Seq(Request), NEW x \in Request
  PROVE  /\ <<x>> \in Seq(Request) /\ <<>> \in Seq(Request)
         /\ Append(W, x) = W \o <<x>> /\ W \o <<>> = W /\ <<>> \o W = W
  OBVIOUS

\* What is held back is a list of requests, and loses one when C does.
LEMMA Removed ==
  ASSUME NEW P \in Seq(Request), NEW W \in Seq(Request), NEW D \in Seq(Request),
         NEW Q \in Seq(Request), NEW x \in Request
  PROVE  /\ P \o <<>> \o W \o D \o Q \in Seq(Request)
         /\ P \o <<x>> \o W \o D \o Q \in Seq(Request)
         /\ OneLess(P \o <<x>> \o W \o D \o Q, P \o <<>> \o W \o D \o Q, x)
<1> DEFINE C == <<x>>  E == <<>>  R == W \o D \o Q
<1>1. C \in Seq(Request) /\ E \in Seq(Request) /\ P \o E = P
  BY Units
<1>2. R \in Seq(Request)
  OBVIOUS
<1>3. E \o R = R
  <2> HIDE DEF R
  <2> QED BY <1>2
<1> HIDE DEF C, E
<1>4. P \o C \o W \o D \o Q = P \o (C \o R)
  <2>1. Line(P, C, W, D, Q) = Nested(P, C, W, D, Q)
    BY <1>1, Shapes
  <2> QED BY <2>1 DEF Line, Nested
<1>5. P \o E \o W \o D \o Q = P \o (E \o R)
  <2>1. Line(P, E, W, D, Q) = Nested(P, E, W, D, Q)
    BY <1>1, Shapes
  <2> QED BY <2>1 DEF Line, Nested
<1> HIDE DEF R
<1>6. C \o R \in Seq(Request) /\ P \o (C \o R) \in Seq(Request) /\ P \o R \in Seq(Request)
  BY <1>1, <1>2, SMTT(60)
<1>7. OneLess(P \o C \o W \o D \o Q, P \o E \o W \o D \o Q, x)
  <2>1. P \o (E \o R) = P \o R
    BY <1>3
  <2>2. OneLess(P \o (C \o R), P \o R, x)
    BY <1>2 DEF OneLess, C
  <2> QED BY <1>4, <1>5, <2>1, <2>2
<1>8. P \o E \o W \o D \o Q \in Seq(Request) /\ P \o C \o W \o D \o Q \in Seq(Request)
  BY <1>3, <1>4, <1>5, <1>6
<1> QED BY <1>7, <1>8 DEF C, E

\* A list that is not empty is its head and its tail.
LEMMA HeadTail ==
  ASSUME NEW W \in Seq(Request), W # <<>>
  PROVE  /\ Head(W) \in Request /\ Tail(W) \in Seq(Request)
         /\ W = <<Head(W)>> \o Tail(W)
<1>1. /\ Head(W) \in Request /\ Tail(W) \in Seq(Request) /\ Len(W) \in Nat \ {0}
      /\ Len(Tail(W)) = Len(W) - 1
      /\ \A i \in 1..Len(Tail(W)) : Tail(W)[i] = W[i + 1]
  BY HeadTailProperties, EmptySeq
<1>2. Head(W) = W[1]
  OBVIOUS
<1>3. <<Head(W)>> \in Seq(Request) /\ <<Head(W)>> \o Tail(W) \in Seq(Request)
  BY <1>1
<1>4. Len(<<Head(W)>> \o Tail(W)) = Len(W)
  BY <1>1, <1>3
<1>5. \A i \in 1..Len(W) : W[i] = (<<Head(W)>> \o Tail(W))[i]
  <2> SUFFICES ASSUME NEW i \in 1..Len(W) PROVE W[i] = (<<Head(W)>> \o Tail(W))[i]
    OBVIOUS
  <2>1. CASE i = 1
    BY <2>1, <1>1, <1>2, <1>3
  <2>2. CASE i > 1
    BY <2>2, <1>1, <1>3
  <2> QED BY <2>1, <2>2, <1>1
<1> QED BY <1>1, <1>3, <1>4, <1>5, SeqEqual

(***************************************************************************)
(* Types.                                                                  *)
(***************************************************************************)

\* The driver's list is a list of runners.
LEMMA Runners == Len(Order) \in Nat \ {0} /\ \A i \in 1..Len(Order) : Order[i] \in Runner
  BY RunnerAssumption DEF Runner

\* The types, and the shapes of driver and pass that they need.
TypeInv == TypeOK /\ DriverShape /\ PassShape

LEMMA InitTypes == Init => TypeInv
<1> SUFFICES ASSUME Init PROVE TypeInv
  OBVIOUS
<1>1. <<>> \in Seq(Request)
  OBVIOUS
<1>2. queue \in [Runner -> Seq(Request)] /\ deferred \in [Runner -> Seq(Request)]
  BY <1>1 DEF Init
<1>3. free \in [Runner -> Nat] /\ inFlight \in [Scope -> Nat] /\ faults \in 0..MaxFaults
  BY RunnerAssumption DEF Init
<1>4. task \in [Request -> Places \cup Spawned \cup Gone]
  BY DEF Init, Places
<1>5. turn \in 0..Reaping /\ pc \in Pc
  BY Runners DEF Init, Pc, Reaping
<1> QED
  BY <1>1, <1>2, <1>3, <1>4, <1>5 DEF Init, TypeInv, TypeOK, DriverShape, PassShape

\* A pass in progress is that of a runner.
LEMMA InPassRunner ==
  ASSUME TypeOK, pc # "idle" PROVE turn \in 1..Len(Order) /\ Current \in Runner
  BY Runners DEF TypeOK, Current, Reaping

\* Charging and refunding scopes keeps the gate's counters natural numbers.
LEMMA ChargeTypes ==
  ASSUME TypeOK, NEW ss \in SUBSET Scope
  PROVE  Charged(ss) \in [Scope -> Nat] /\ Refunded(ss) \in [Scope -> Nat]
  BY DEF TypeOK, Charged, Refunded

\* The scopes of a request are scopes.
LEMMA ScopesTypes == \A q \in Request : ScopesOf[q] \in SUBSET Scope /\ RunnerOf[q] \in Runner
  BY RunnerAssumption

\* The steps of the surroundings and of the driver.
LEMMA OuterTypes ==
  ASSUME TypeInv,
         \/ \E q \in Request : Enqueue(q) \/ IssueLeaves(q)
         \/ \E k \in CancelKey : Cancel(k)
         \/ Shutdown \/ Wake \/ BeginDrain \/ FilerReturns \/ Reap \/ Drained \/ DrainDeadline
  PROVE  TypeInv'
<1> USE DEF TypeInv, TypeOK, DriverShape, PassShape, passVars, driverVars
<1>1. ASSUME NEW q \in Request, Enqueue(q) PROVE TypeInv'
  <2>1. queue' \in [Runner -> Seq(Request)]
    BY <1>1, ScopesTypes DEF Enqueue
  <2>2. task' \in [Request -> Places \cup Spawned \cup Gone]
    BY <1>1 DEF Enqueue, Places
  <2> QED BY <1>1, <2>1, <2>2 DEF Enqueue
<1>2. ASSUME NEW q \in Request, IssueLeaves(q) PROVE TypeInv'
  BY <1>2 DEF IssueLeaves
<1>3. ASSUME NEW k \in CancelKey, Cancel(k) PROVE TypeInv'
  BY <1>3 DEF Cancel
<1>4. CASE Shutdown
  BY <1>4 DEF Shutdown
<1>5. CASE Wake \/ FilerReturns
  BY <1>5, Runners DEF Wake, FilerReturns, Filing, Reaping
<1>6. CASE BeginDrain
  BY <1>6 DEF BeginDrain
<1>7. CASE Reap
  <2>1. pc = "idle"
    BY <1>7, Runners DEF Reap, Reaping
  <2>2. task' \in [Request -> Places \cup Spawned \cup Gone]
    BY <1>7 DEF Reap, Reaped, Gone
  <2> QED BY <1>7, <2>1, <2>2, Runners DEF Reap, Reaping
<1>8. CASE Drained
  BY <1>8 DEF Drained
<1>9. CASE DrainDeadline
  BY <1>9 DEF DrainDeadline
<1> QED BY <1>1, <1>2, <1>3, <1>4, <1>5, <1>6, <1>7, <1>8, <1>9

\* The steps of a pass that give back what the request held.
LEMMA GiveBackTypes ==
  ASSUME TypeInv, pc \in {"scopes", "cancel", "lease"}, GiveBackPermit
  PROVE  /\ cur \in Request /\ turn \in 1..Len(Order) /\ Current \in Runner
         /\ free' \in [Runner -> Nat] /\ cur' = NoRequest /\ pc' = "next"
<1>1. turn \in 1..Len(Order) /\ Current \in Runner
  BY InPassRunner DEF TypeInv
<1>2. cur \in Request
  BY DEF TypeInv, TypeOK
<1>3. free[Current] + 1 \in Nat
  BY <1>1 DEF TypeInv, TypeOK
<1> QED BY <1>1, <1>2, <1>3 DEF GiveBackPermit, TypeInv, TypeOK

\* The steps of a pass.
LEMMA PassTypes == ASSUME TypeInv, PassStep PROVE TypeInv'
<1>0. NoRequest \notin Request
  BY RunnerAssumption
<1> USE <1>0 DEF TypeInv, TypeOK, DriverShape, PassShape, passVars, driverVars, Pc
<1>1. CASE BeginPass
  <2>1. Current \in Runner
    BY <1>1, Runners DEF BeginPass, Current
  <2>2. work' \in Seq(Request) /\ <<>> \in Seq(Request)
    BY <1>1, <2>1 DEF BeginPass
  <2>3. queue' \in [Runner -> Seq(Request)] /\ deferred' \in [Runner -> Seq(Request)]
    BY <1>1, <2>2 DEF BeginPass
  <2> QED BY <1>1, <2>2, <2>3 DEF BeginPass
<1>2. CASE DropMissing
  <2>1. Head(work) \in Request /\ work' \in Seq(Request)
    BY <1>2, HeadTail DEF DropMissing
  <2>2. task' \in [Request -> Places \cup Spawned \cup Gone]
    BY <1>2, <2>1 DEF DropMissing, Gone
  <2> QED BY <1>2, <2>1, <2>2 DEF DropMissing
<1>3. CASE ParkForCapacity
  <2>1. work' \in Seq(Request) /\ parked' \in Seq(Request)
    BY <1>3, HeadTail DEF ParkForCapacity
  <2> QED BY <1>3, <2>1 DEF ParkForCapacity
<1>4. CASE TakePermit
  <2>1. Head(work) \in Request /\ work' \in Seq(Request)
    BY <1>4, HeadTail DEF TakePermit
  <2>2. Current \in Runner
    BY <1>4, InPassRunner DEF TakePermit
  <2>3. free' \in [Runner -> Nat]
    BY <1>4, <2>2 DEF TakePermit
  <2> QED BY <1>4, <2>1, <2>3 DEF TakePermit
<1>5. CASE AcquireScopes
  <2>1. cur \in Request
    BY <1>5 DEF AcquireScopes
  <2>2. inFlight' \in [Scope -> Nat]
    BY <1>5, <2>1, ScopesTypes, ChargeTypes DEF AcquireScopes
  <2> QED BY <1>5, <2>1, <2>2 DEF AcquireScopes
<1>6. CASE ParkForScope
  <2>1. cur \in Request /\ free' \in [Runner -> Nat] /\ cur' = NoRequest /\ pc' = "next"
    BY <1>6, GiveBackTypes DEF ParkForScope
  <2>2. parked' \in Seq(Request)
    BY <1>6, <2>1 DEF ParkForScope
  <2> QED BY <1>6, <2>1, <2>2 DEF ParkForScope
<1>7. CASE AbortCancelled
  <2>1. cur \in Request /\ free' \in [Runner -> Nat] /\ cur' = NoRequest /\ pc' = "next"
    BY <1>7, GiveBackTypes DEF AbortCancelled
  <2>2. inFlight' \in [Scope -> Nat]
    BY <1>7, <2>1, ScopesTypes, ChargeTypes DEF AbortCancelled
  <2>3. task' \in [Request -> Places \cup Spawned \cup Gone] /\ cancels' \subseteq CancelKey
    BY <1>7 DEF AbortCancelled, Gone
  <2> QED BY <1>7, <2>1, <2>2, <2>3 DEF AbortCancelled
<1>8. CASE NotCancelled
  BY <1>8 DEF NotCancelled
<1>9. CASE ParkForLease
  <2>1. cur \in Request /\ free' \in [Runner -> Nat] /\ cur' = NoRequest /\ pc' = "next"
    BY <1>9, GiveBackTypes DEF ParkForLease
  <2>2. inFlight' \in [Scope -> Nat]
    BY <1>9, <2>1, ScopesTypes, ChargeTypes DEF ParkForLease
  <2>3. parked' \in Seq(Request) /\ faults' \in 0..MaxFaults
    BY <1>9, <2>1, RunnerAssumption DEF ParkForLease
  <2> QED BY <1>9, <2>1, <2>2, <2>3 DEF ParkForLease
<1>10. CASE DropMissingRun
  <2>1. cur \in Request /\ free' \in [Runner -> Nat] /\ cur' = NoRequest /\ pc' = "next"
    BY <1>10, GiveBackTypes DEF DropMissingRun
  <2>2. inFlight' \in [Scope -> Nat]
    BY <1>10, <2>1, ScopesTypes, ChargeTypes DEF DropMissingRun
  <2>3. task' \in [Request -> Places \cup Spawned \cup Gone]
    BY <1>10, <2>1 DEF DropMissingRun, Gone
  <2>4. faults' \in 0..MaxFaults
    BY <1>10, RunnerAssumption DEF DropMissingRun
  <2> QED BY <1>10, <2>1, <2>2, <2>3, <2>4 DEF DropMissingRun
<1>11. CASE Spawn
  <2>1. task' \in [Request -> Places \cup Spawned \cup Gone]
    BY <1>11 DEF Spawn, Spawned
  <2> QED BY <1>11, <2>1 DEF Spawn
<1>12. CASE EndPass
  <2>1. turn \in 1..Len(Order) /\ Current \in Runner
    BY <1>12, InPassRunner DEF EndPass
  <2>2. deferred' \in [Runner -> Seq(Request)] /\ parked' = <<>> /\ <<>> \in Seq(Request)
    BY <1>12, <2>1 DEF EndPass
  <2>3. turn' \in 0..Reaping
    BY <1>12, <2>1, Runners DEF EndPass, Reaping
  <2>4. stage = "running"
    BY <2>1
  <2> QED BY <1>12, <2>2, <2>3, <2>4 DEF EndPass
<1> QED BY <1>1, <1>2, <1>3, <1>4, <1>5, <1>6, <1>7, <1>8, <1>9, <1>10, <1>11, <1>12
        DEF PassStep

\* The steps of a spawned task.
LEMMA TaskTypes ==
  ASSUME TypeInv, NEW q \in Request, Return(q) \/ DropScopes(q) \/ DropPermit(q) \/ Panic(q)
  PROVE  TypeInv'
<1> USE DEF TypeInv, TypeOK, DriverShape, PassShape, passVars, driverVars
<1>1. task' \in [Request -> Places \cup Spawned \cup Gone]
  BY DEF Return, DropScopes, DropPermit, Panic, Spawned
<1>2. inFlight' \in [Scope -> Nat]
  BY ScopesTypes, ChargeTypes DEF Return, DropScopes, DropPermit, Panic
<1>3. free' \in [Runner -> Nat]
  <2>1. RunnerOf[q] \in Runner /\ free[RunnerOf[q]] + 1 \in Nat
    BY ScopesTypes
  <2>2. \/ free' = free
        \/ free' = [free EXCEPT ![RunnerOf[q]] = free[RunnerOf[q]] + 1]
    BY DEF Return, DropScopes, DropPermit, Panic
  <2> QED BY <2>1, <2>2
<1> QED BY <1>1, <1>2, <1>3 DEF Return, DropScopes, DropPermit, Panic

\* Every step keeps the variables in their types.
LEMMA StepTypes == TypeInv /\ [Next]_vars => TypeInv'
<1> SUFFICES ASSUME TypeInv, [Next]_vars PROVE TypeInv'
  OBVIOUS
<1>1. CASE UNCHANGED vars
  BY <1>1 DEF vars, passVars, driverVars, TypeInv, TypeOK, DriverShape, PassShape, Current
<1>2. CASE Exited
  BY <1>1, <1>2 DEF Exited
<1>3. CASE Next
  BY <1>2, <1>3, OuterTypes, PassTypes, TaskTypes DEF Next
<1> QED BY <1>1, <1>3

\* No variable of the runners and their driver leaves its type.
THEOREM TypeCorrect == Spec => []TypeOK
<1>1. Spec => []TypeInv
  BY InitTypes, StepTypes, PTL DEF Spec
<1>2. TypeInv => TypeOK
  BY DEF TypeInv
<1> QED BY <1>1, <1>2, PTL

(***************************************************************************)
(* The lists.                                                              *)
(***************************************************************************)

\* The properties of the lists, runner by runner.
LEMMA ListsRestated ==
  /\ AgeOrder <=> \A ru \in Runner : Ascending(HeldBack(ru))
  /\ WellListed <=> \A ru \in Runner : Members(HeldBack(ru)) = Waiting(ru)
  BY DEF AgeOrder, WellListed, Ascending, Members

\* What a step may do to the list of a runner: nothing, settle a request, or add a
\* younger one at the end.
Same(ru) == HeldBack(ru)' = HeldBack(ru) /\ Waiting(ru)' = Waiting(ru)

Settled(ru, q) ==
    OneLess(HeldBack(ru), HeldBack(ru)', q) /\ Waiting(ru)' = Waiting(ru) \ {q}

Added(ru, q) ==
    /\ HeldBack(ru)' = Append(HeldBack(ru), q) /\ Waiting(ru)' = Waiting(ru) \cup {q}
    /\ \A p \in Waiting(ru) : p < q

Kept(ru) == Same(ru) \/ \E q \in Request : Settled(ru, q) \/ Added(ru, q)

\* The lists of a runner whose turn it is, and of another.
LEMMA HeldParts ==
  ASSUME TypeOK, NEW ru \in Runner
  PROVE  /\ InPass(ru) /\ cur = NoRequest =>
                HeldBack(ru) = parked \o <<>> \o work \o deferred[ru] \o queue[ru]
         /\ InPass(ru) /\ cur # NoRequest =>
                HeldBack(ru) = parked \o <<cur>> \o work \o deferred[ru] \o queue[ru]
         /\ ~InPass(ru) => HeldBack(ru) = <<>> \o deferred[ru] \o queue[ru]
  BY DEF HeldBack

\* The lists hold requests.
LEMMA HeldTypes ==
  ASSUME TypeOK, NEW ru \in Runner
  PROVE  HeldBack(ru) \in Seq(Request)
<1> DEFINE D == deferred[ru]  Q == queue[ru]
<1>1. /\ parked \in Seq(Request) /\ work \in Seq(Request) /\ <<>> \in Seq(Request)
      /\ D \in Seq(Request) /\ Q \in Seq(Request)
  BY DEF TypeOK
<1>2. CASE InPass(ru) /\ cur = NoRequest
  <2> HIDE DEF D, Q
  <2>1. CASE Request = {}
    <3>1. parked \o <<>> \o work \o D \o Q \in Seq(Request)
      BY <1>1, <2>1, SMTT(60)
    <3> QED BY <1>2, <3>1, HeldParts DEF D, Q
  <2>2. CASE \E x : x \in Request
    <3>1. parked \o <<>> \o work \o D \o Q \in Seq(Request)
      BY <1>1, <2>2, Removed
    <3> QED BY <1>2, <3>1, HeldParts DEF D, Q
  <2> QED BY <2>1, <2>2
<1>3. CASE InPass(ru) /\ cur # NoRequest
  <2>1. cur \in Request
    BY <1>3 DEF TypeOK
  <2> HIDE DEF D, Q
  <2>2. parked \o <<cur>> \o work \o D \o Q \in Seq(Request)
    BY <1>1, <2>1, Removed
  <2> QED BY <1>3, <2>2, HeldParts DEF D, Q
<1>4. CASE ~InPass(ru)
  <2>1. <<>> \o D = D /\ D \o Q \in Seq(Request)
    <3> HIDE DEF D, Q
    <3> QED BY <1>1
  <2> QED BY <1>4, <2>1, HeldParts
<1> QED BY <1>2, <1>3, <1>4

\* All of a list but what is queued holds requests, too.
LEMMA FrontTypes ==
  ASSUME TypeOK, NEW ru \in Runner
  PROVE  (IF InPass(ru) THEN parked \o (IF cur = NoRequest THEN <<>> ELSE <<cur>>) \o work
                        ELSE <<>>) \o deferred[ru] \in Seq(Request)
<1> DEFINE C == IF cur = NoRequest THEN <<>> ELSE <<cur>>
           D == deferred[ru]
<1>1. /\ parked \in Seq(Request) /\ work \in Seq(Request) /\ <<>> \in Seq(Request)
      /\ D \in Seq(Request)
  BY DEF TypeOK
<1>2. C \in Seq(Request)
  BY DEF TypeOK
<1> HIDE DEF C, D
<1>3. parked \o C \o work \in Seq(Request)
  BY <1>1, <1>2, SMTT(60)
<1> DEFINE F == parked \o C \o work
<1> HIDE DEF F
<1>4. F \in Seq(Request)
  BY <1>3 DEF F
<1>5. F \o D \in Seq(Request) /\ <<>> \o D \in Seq(Request)
  BY <1>1, <1>4
<1> QED BY <1>5 DEF F, C, D

\* A list that is kept stays ascending and complete.
LEMMA KeptKeeps ==
  ASSUME ListInv, NEW ru \in Runner, Kept(ru)
  PROVE  Ascending(HeldBack(ru)') /\ Members(HeldBack(ru)') = Waiting(ru)'
<1>1. /\ HeldBack(ru) \in Seq(Request)
      /\ Ascending(HeldBack(ru)) /\ Members(HeldBack(ru)) = Waiting(ru)
  BY HeldTypes, ListsRestated DEF ListInv
<1>2. CASE Same(ru)
  BY <1>1, <1>2 DEF Same
<1>3. ASSUME NEW q \in Request, Settled(ru, q)
      PROVE  Ascending(HeldBack(ru)') /\ Members(HeldBack(ru)') = Waiting(ru)'
  BY <1>1, <1>3, OneLessKeeps DEF Settled
<1>4. ASSUME NEW q \in Request, Added(ru, q)
      PROVE  Ascending(HeldBack(ru)') /\ Members(HeldBack(ru)') = Waiting(ru)'
  BY <1>1, <1>4, AppendKeeps DEF Added
<1> QED BY <1>2, <1>3, <1>4 DEF Kept

\* Without the request the pass holds, or without the next one.
LEMMA TakeCur ==
  ASSUME TypeOK, cur # NoRequest
  PROVE  /\ cur \in Request /\ Current \in Runner /\ InPass(Current)
         /\ OneLess(HeldBack(Current),
                    parked \o <<>> \o work \o deferred[Current] \o queue[Current], cur)
<1> DEFINE D == deferred[Current]  Q == queue[Current]
<1>1. cur \in Request /\ pc # "idle"
  BY DEF TypeOK
<1>2. Current \in Runner /\ InPass(Current)
  BY <1>1, InPassRunner DEF InPass
<1>3. /\ parked \in Seq(Request) /\ work \in Seq(Request)
      /\ D \in Seq(Request) /\ Q \in Seq(Request)
  BY <1>2 DEF TypeOK
<1>4. HeldBack(Current) = parked \o <<cur>> \o work \o D \o Q
  BY <1>2, HeldParts
<1> HIDE DEF D, Q
<1>5. OneLess(parked \o <<cur>> \o work \o D \o Q, parked \o <<>> \o work \o D \o Q, cur)
  BY <1>1, <1>3, Removed
<1> QED BY <1>1, <1>2, <1>4, <1>5 DEF D, Q

\* Two readings of a list whose next request moves.
LEMMA Slide ==
  ASSUME NEW P \in Seq(Request), NEW W \in Seq(Request), W # <<>>
  PROVE  /\ P \o <<>> \o W = P \o <<Head(W)>> \o Tail(W)
         /\ Append(P, Head(W)) \o <<>> \o Tail(W) = P \o <<Head(W)>> \o Tail(W)
<1>1. /\ Head(W) \in Request /\ Tail(W) \in Seq(Request) /\ W = <<Head(W)>> \o Tail(W)
      /\ <<Head(W)>> \in Seq(Request)
  BY HeadTail
<1> DEFINE C == <<Head(W)>>  T == Tail(W)
<1>2. C \in Seq(Request) /\ T \in Seq(Request) /\ W = C \o T
  BY <1>1
<1>3. Append(P, Head(W)) = P \o C /\ P \o C \in Seq(Request)
  BY <1>1
<1> HIDE DEF C, T
<1>4. P \o C \o T = P \o (C \o T)
  BY <1>2, SMTT(60)
<1>5. P \o <<>> = P /\ P \o C \o <<>> = P \o C
  BY <1>2, <1>3
<1>6. P \o <<>> \o W = P \o C \o T /\ Append(P, Head(W)) \o <<>> \o T = P \o C \o T
  BY <1>2, <1>3, <1>4, <1>5
<1> QED BY <1>6 DEF C, T

LEMMA TakeHead ==
  ASSUME TypeOK, pc = "next", work # <<>>
  PROVE  /\ Head(work) \in Request /\ Current \in Runner /\ InPass(Current)
         /\ OneLess(HeldBack(Current),
                    parked \o <<>> \o Tail(work) \o deferred[Current] \o queue[Current],
                    Head(work))
         /\ HeldBack(Current)
                = parked \o <<Head(work)>> \o Tail(work) \o deferred[Current] \o queue[Current]
<1> DEFINE D == deferred[Current]  Q == queue[Current]  T == Tail(work)
<1>1. Current \in Runner /\ InPass(Current) /\ cur = NoRequest
  BY InPassRunner DEF InPass, TypeOK
<1>2. /\ parked \in Seq(Request) /\ work \in Seq(Request) /\ <<>> \in Seq(Request)
      /\ D \in Seq(Request) /\ Q \in Seq(Request)
  BY <1>1 DEF TypeOK
<1>3. Head(work) \in Request /\ T \in Seq(Request) /\ <<Head(work)>> \in Seq(Request)
  BY <1>2, HeadTail
<1>4. HeldBack(Current) = parked \o <<>> \o work \o D \o Q
  BY <1>1, HeldParts
<1>5. HeldBack(Current) = parked \o <<Head(work)>> \o T \o D \o Q
  BY <1>2, <1>4, Slide
<1> DEFINE h == Head(work)
<1> HIDE DEF D, Q, T, h
<1>6. OneLess(parked \o <<h>> \o T \o D \o Q, parked \o <<>> \o T \o D \o Q, h)
  BY <1>2, <1>3, Removed DEF h
<1> QED BY <1>1, <1>3, <1>5, <1>6 DEF D, Q, T, h

\* The request the pass holds, and the next one, are waiting for this runner.
LEMMA CurWaits ==
  ASSUME ListInv, cur # NoRequest PROVE cur \in Waiting(Current)
  BY TakeCur, OneLessKeeps, ListsRestated DEF ListInv

LEMMA HeadWaits ==
  ASSUME ListInv, pc = "next", work # <<>> PROVE Head(work) \in Waiting(Current)
  BY TakeHead, OneLessKeeps, ListsRestated DEF ListInv

\* What a step does to the waiting requests: none settled, or q settled.
LEMMA WaitingSame ==
  ASSUME \A q \in Request : task'[q] = "waiting" <=> task[q] = "waiting"
  PROVE  \A ru \in Runner : Waiting(ru)' = Waiting(ru)
  BY DEF Waiting

LEMMA WaitingLess ==
  ASSUME TypeOK, NEW q \in Request, NEW x, x # "waiting", task' = [task EXCEPT ![q] = x]
  PROVE  \A ru \in Runner : Waiting(ru)' = Waiting(ru) \ {q}
  BY DEF Waiting, TypeOK

\* Between two passes a runner's list is what it deferred and what is queued.
IdleLists ==
    TypeInv /\ pc = "idle" => \A ru \in Runner : HeldBack(ru) = deferred[ru] \o queue[ru]

LEMMA IdleListed == IdleLists
<1> SUFFICES ASSUME TypeInv, pc = "idle", NEW ru \in Runner
             PROVE  HeldBack(ru) = deferred[ru] \o queue[ru]
  BY DEF IdleLists
<1> DEFINE D == deferred[ru]  Q == queue[ru]
<1>1. parked = <<>> /\ work = <<>> /\ cur = NoRequest /\ D \in Seq(Request)
  BY DEF TypeInv, TypeOK, PassShape
<1>2. HeldBack(ru) = <<>> \o <<>> \o <<>> \o D \o Q \/ HeldBack(ru) = <<>> \o D \o Q
  BY <1>1 DEF HeldBack
<1> HIDE DEF D, Q
<1>3. <<>> \o <<>> \o <<>> \o D = D /\ <<>> \o D = D
  BY <1>1
<1> QED BY <1>2, <1>3 DEF D, Q

\* The steps that touch no list.
LEMMA FrameKept ==
  ASSUME UNCHANGED <<queue, deferred, turn, work, cur, parked>>,
         \A q \in Request : task'[q] = "waiting" <=> task[q] = "waiting",
         NEW ru \in Runner
  PROVE  Kept(ru)
<1>1. HeldBack(ru)' = HeldBack(ru)
  BY DEF HeldBack, InPass, Current
<1> QED BY <1>1, WaitingSame DEF Kept, Same

\* A pass touches no list but that of its runner.
LEMMA OthersKept ==
  ASSUME ListInv, UNCHANGED <<queue, deferred, turn>>,
         \/ task' = task
         \/ \E q \in Waiting(Current), x \in Gone \cup Spawned : task' = [task EXCEPT ![q] = x],
         NEW ru \in Runner, ru # Current
  PROVE  Kept(ru)
<1>1. HeldBack(ru)' = HeldBack(ru)
  BY DEF HeldBack, InPass, Current
<1>2. CASE task' = task
  BY <1>1, <1>2, WaitingSame DEF Kept, Same
<1>3. ASSUME NEW q \in Waiting(Current), NEW x \in Gone \cup Spawned,
             task' = [task EXCEPT ![q] = x]
      PROVE  Kept(ru)
  <2>1. q \in Request /\ q \notin Waiting(ru) /\ x # "waiting"
    BY DEF Waiting, Gone, Spawned
  <2>2. Waiting(ru)' = Waiting(ru)
    <3>1. TypeOK
      BY DEF ListInv
    <3>2. Waiting(ru)' = Waiting(ru) \ {q}
      BY <1>3, <2>1, <3>1, WaitingLess
    <3> QED BY <2>1, <3>2
  <2> QED BY <1>1, <2>2 DEF Kept, Same
<1> QED BY <1>2, <1>3

\* The list of the pass's runner after a step.
LEMMA AfterStep ==
  ASSUME TypeOK, UNCHANGED <<queue, deferred, turn>>, pc # "idle", NEW ru \in Runner, ru = Current
  PROVE  /\ cur' = NoRequest =>
                HeldBack(ru)' = parked' \o <<>> \o work' \o deferred[ru] \o queue[ru]
         /\ cur' # NoRequest =>
                HeldBack(ru)' = parked' \o <<cur'>> \o work' \o deferred[ru] \o queue[ru]
<1>1. turn \in 1..Len(Order)
  BY InPassRunner
<1>2. InPass(ru)'
  BY <1>1 DEF InPass, Current
<1> QED BY <1>2 DEF HeldBack

\* The steps of a pass that settle the next request, or the one it holds.
LEMMA SettleKept ==
  ASSUME ListInv, DropMissing \/ AbortCancelled \/ DropMissingRun \/ Spawn, NEW ru \in Runner
  PROVE  Kept(ru)
<1>1. CASE DropMissing
  <2> DEFINE h == Head(work)
  <2>1. TypeOK /\ pc = "next" /\ work # <<>> /\ cur' = NoRequest
    BY <1>1, RunnerAssumption DEF DropMissing, ListInv, TypeOK
  <2>2. h \in Waiting(Current) /\ h \in Request
    BY <2>1, HeadWaits, TakeHead
  <2>3. task' = [task EXCEPT ![h] = "missing"] /\ UNCHANGED <<queue, deferred, turn, parked>>
    BY <1>1 DEF DropMissing
  <2>4. Waiting(ru)' = Waiting(ru) \ {h}
    BY <2>1, <2>2, <2>3, WaitingLess
  <2>5. CASE ru = Current
    <3>1. HeldBack(ru)' = parked \o <<>> \o Tail(work) \o deferred[ru] \o queue[ru]
      BY <1>1, <2>1, <2>3, <2>5, AfterStep DEF DropMissing
    <3>2. OneLess(HeldBack(ru), HeldBack(ru)', h)
      BY <2>1, <2>5, <3>1, TakeHead
    <3> QED BY <2>2, <2>4, <3>2 DEF Kept, Settled
  <2>6. CASE ru # Current
    <3>1. "missing" \in Gone \cup Spawned
      BY DEF Gone
    <3> HIDE DEF h
    <3> QED BY <2>2, <2>3, <2>6, <3>1, OthersKept
  <2> QED BY <2>5, <2>6
<1>2. CASE AbortCancelled \/ DropMissingRun \/ Spawn
  <2>1. /\ TypeOK /\ pc # "idle" /\ cur # NoRequest /\ cur' = NoRequest
        /\ UNCHANGED <<queue, deferred, turn, parked, work>>
    BY <1>2 DEF AbortCancelled, DropMissingRun, Spawn, GiveBackPermit, ListInv, TypeOK
  <2>2. cur \in Waiting(Current) /\ cur \in Request
    BY <2>1, CurWaits, TakeCur
  <2>3. PICK x \in Gone \cup Spawned : x # "waiting" /\ task' = [task EXCEPT ![cur] = x]
    BY <1>2 DEF AbortCancelled, DropMissingRun, Spawn, Gone, Spawned
  <2>4. Waiting(ru)' = Waiting(ru) \ {cur}
    BY <2>1, <2>2, <2>3, WaitingLess
  <2>5. CASE ru = Current
    <3>1. HeldBack(ru)' = parked \o <<>> \o work \o deferred[ru] \o queue[ru]
      BY <2>1, <2>5, AfterStep
    <3>2. OneLess(HeldBack(ru), HeldBack(ru)', cur)
      BY <2>1, <2>5, <3>1, TakeCur
    <3> QED BY <2>2, <2>4, <3>2 DEF Kept, Settled
  <2>6. CASE ru # Current
    BY <2>1, <2>2, <2>3, <2>6, OthersKept
  <2> QED BY <2>5, <2>6
<1> QED BY <1>1, <1>2

\* The steps of a pass that move a request within the runner's list.
LEMMA MoveKept ==
  ASSUME ListInv, ParkForCapacity \/ TakePermit \/ ParkForScope \/ ParkForLease,
         NEW ru \in Runner
  PROVE  Kept(ru)
<1>0. TypeOK /\ pc # "idle" /\ UNCHANGED <<queue, deferred, turn, task>>
  BY DEF ParkForCapacity, TakePermit, ParkForScope, ParkForLease, ListInv
<1>1. CASE ru # Current
  BY <1>0, <1>1, OthersKept
<1>2. ASSUME ru = Current, ParkForCapacity \/ TakePermit PROVE Kept(ru)
  <2> DEFINE h == Head(work)
  <2>1. /\ pc = "next" /\ work # <<>> /\ work' = Tail(work) /\ NoRequest \notin Request
        /\ work \in Seq(Request) /\ parked \in Seq(Request) /\ cur = NoRequest
    BY <1>0, <1>2, RunnerAssumption DEF ParkForCapacity, TakePermit, TypeOK
  <2>2. /\ HeldBack(ru) = parked \o <<h>> \o Tail(work) \o deferred[ru] \o queue[ru]
        /\ h \in Request
    BY <1>0, <1>2, <2>1, TakeHead
  <2>3. CASE ParkForCapacity
    <3>1. parked' = Append(parked, h) /\ cur' = NoRequest
      BY <2>1, <2>3 DEF ParkForCapacity
    <3>2. HeldBack(ru)' = Append(parked, h) \o <<>> \o Tail(work) \o deferred[ru] \o queue[ru]
      BY <1>0, <1>2, <2>1, <3>1, AfterStep
    <3>3. HeldBack(ru)' = HeldBack(ru)
      BY <2>1, <2>2, <3>2, Slide
    <3> QED BY <1>0, <3>3, WaitingSame DEF Kept, Same
  <2>4. CASE TakePermit
    <3>1. parked' = parked /\ cur' = h /\ cur' # NoRequest
      BY <2>1, <2>2, <2>4 DEF TakePermit
    <3>2. HeldBack(ru)' = parked \o <<h>> \o Tail(work) \o deferred[ru] \o queue[ru]
      BY <1>0, <1>2, <2>1, <3>1, AfterStep
    <3> QED BY <1>0, <2>2, <3>2, WaitingSame DEF Kept, Same
  <2> QED BY <1>2, <2>3, <2>4
<1>3. ASSUME ru = Current, ParkForScope \/ ParkForLease PROVE Kept(ru)
  <2>1. /\ cur' = NoRequest /\ cur # NoRequest /\ cur \in Request /\ work' = work
        /\ parked' = Append(parked, cur) /\ parked \in Seq(Request)
    BY <1>0, <1>3 DEF ParkForScope, ParkForLease, GiveBackPermit, TypeOK
  <2>2. HeldBack(ru) = parked \o <<cur>> \o work \o deferred[ru] \o queue[ru]
    BY <1>0, <1>3, <2>1, HeldParts, TakeCur
  <2>3. HeldBack(ru)' = Append(parked, cur) \o <<>> \o work \o deferred[ru] \o queue[ru]
    BY <1>0, <1>3, <2>1, AfterStep
  <2>4. Append(parked, cur) \o <<>> = parked \o <<cur>>
    <3>1. Append(parked, cur) \in Seq(Request) /\ Append(parked, cur) = parked \o <<cur>>
      BY <2>1
    <3> DEFINE A == Append(parked, cur)
    <3> HIDE DEF A
    <3>2. A \in Seq(Request) => A \o <<>> = A
      OBVIOUS
    <3> QED BY <3>1, <3>2 DEF A
  <2>5. HeldBack(ru)' = HeldBack(ru)
    BY <2>2, <2>3, <2>4
  <2> QED BY <1>0, <2>5, WaitingSame DEF Kept, Same
<1> QED BY <1>1, <1>2, <1>3

\* The first and the last step of a pass, and the driver's steps between passes.
LEMMA EdgeKept ==
  ASSUME ListInv, TypeInv', BeginPass \/ EndPass \/ Wake \/ FilerReturns \/ Reap, NEW ru \in Runner
  PROVE  Kept(ru)
<1> DEFINE D == deferred[ru]  Q == queue[ru]
<1>0. TypeInv /\ TypeOK /\ PassShape /\ DriverShape /\ ru \in Runner
  BY DEF ListInv, TypeInv
<1>1. /\ parked \in Seq(Request) /\ work \in Seq(Request)
      /\ D \in Seq(Request) /\ Q \in Seq(Request)
  BY <1>0 DEF TypeOK
<1>2. pc = "idle" => HeldBack(ru) = D \o Q
  BY <1>0, IdleListed DEF IdleLists
<1>3. pc' = "idle" => HeldBack(ru)' = deferred'[ru] \o queue'[ru]
  <2>1. IdleLists'
    BY IdleListed, PTL
  <2> QED BY <2>1 DEF IdleLists
<1>4. CASE Wake \/ FilerReturns \/ Reap
  <2>1. pc = "idle" /\ pc' = "idle" /\ UNCHANGED <<queue, deferred>>
    BY <1>0, <1>4, Runners DEF Wake, FilerReturns, Filing, Reap, Reaping, TypeOK, DriverShape
  <2>2. \A q \in Request : task'[q] = "waiting" <=> task[q] = "waiting"
    BY <1>4 DEF Wake, FilerReturns, Reap, Reaped
  <2> QED BY <1>2, <1>3, <2>1, <2>2, WaitingSame DEF Kept, Same
<1>5. CASE BeginPass
  <2>1. pc = "idle" /\ UNCHANGED <<turn, task, cur>> /\ cur = NoRequest
    BY <1>0, <1>5 DEF BeginPass, TypeOK
  <2>2. CASE ru = Current
    <3>1. /\ parked' = <<>> /\ work' = D \o Q /\ deferred'[ru] = <<>> /\ queue'[ru] = <<>>
      BY <1>0, <1>5, <2>2 DEF BeginPass, TypeOK
    <3>2. InPass(ru)'
      BY <1>5, <2>1, <2>2 DEF InPass, Current, BeginPass
    <3>3. HeldBack(ru)' = <<>> \o <<>> \o (D \o Q) \o <<>> \o <<>>
      BY <2>1, <3>1, <3>2 DEF HeldBack
    <3>4. <<>> \o <<>> \o (D \o Q) \o <<>> \o <<>> = D \o Q
      <4> DEFINE L == D \o Q
      <4>1. L \in Seq(Request)
        <5> HIDE DEF D, Q
        <5> QED BY <1>1
      <4> HIDE DEF L
      <4>2. <<>> \o <<>> \o L \o <<>> \o <<>> = L
        BY <4>1
      <4> QED BY <4>2 DEF L
    <3> QED BY <1>2, <2>1, <3>3, <3>4, WaitingSame DEF Kept, Same
  <2>3. CASE ru # Current
    <3>1. ~InPass(ru) /\ ~InPass(ru)'
      BY <2>1, <2>3 DEF InPass, Current
    <3>2. deferred'[ru] = D /\ queue'[ru] = Q
      BY <1>0, <1>5, <2>3 DEF BeginPass, TypeOK
    <3>3. HeldBack(ru)' = HeldBack(ru)
      BY <3>1, <3>2 DEF HeldBack
    <3> QED BY <2>1, <3>3, WaitingSame DEF Kept, Same
  <2> QED BY <2>2, <2>3
<1>6. CASE EndPass
  <2>1. /\ pc # "idle" /\ pc' = "idle" /\ cur = NoRequest /\ work = <<>>
        /\ task' = task /\ queue' = queue /\ turn \in 1..Len(Order)
    BY <1>0, <1>6, InPassRunner DEF EndPass, TypeOK
  <2>2. CASE ru = Current
    <3>1. deferred'[ru] = parked \o D
      BY <1>0, <1>6, <2>2 DEF EndPass, TypeOK
    <3>2. HeldBack(ru) = parked \o <<>> \o <<>> \o D \o Q
      BY <2>1, <2>2 DEF HeldBack, InPass
    <3>3. parked \o <<>> \o <<>> \o D = parked \o D
      BY <1>1
    <3> QED BY <1>3, <2>1, <3>1, <3>2, <3>3, WaitingSame DEF Kept, Same
  <2>3. CASE ru # Current
    <3>1. deferred'[ru] = D
      BY <1>0, <1>6, <2>3 DEF EndPass, TypeOK
    <3>2. HeldBack(ru) = <<>> \o D \o Q
      BY <2>3 DEF HeldBack, InPass
    <3>3. <<>> \o D = D
      <4> HIDE DEF D
      <4> QED BY <1>1
    <3> QED BY <1>3, <2>1, <3>1, <3>2, <3>3, WaitingSame DEF Kept, Same
  <2> QED BY <2>2, <2>3
<1> QED BY <1>4, <1>5, <1>6

\* A request that arrives goes to the end of its runner's list, younger than all on it.
LEMMA EnqueueKept ==
  ASSUME ListInv, NEW q \in Request, Enqueue(q), NEW ru \in Runner
  PROVE  Kept(ru)
<1> DEFINE F == (IF InPass(ru)
                 THEN parked \o (IF cur = NoRequest THEN <<>> ELSE <<cur>>) \o work
                 ELSE <<>>) \o deferred[ru]
           Q == queue[ru]
<1>0. TypeOK /\ BornInOrder
  BY DEF ListInv
<1>1. HeldBack(ru) = F \o Q
  BY DEF HeldBack
<1>2. HeldBack(ru)' = F \o queue'[ru]
  BY DEF HeldBack, InPass, Current, Enqueue, passVars
<1>3. CASE RunnerOf[q] # ru
  <2>1. queue'[ru] = Q
    BY <1>0, <1>3 DEF Enqueue, TypeOK
  <2>2. Waiting(ru)' = Waiting(ru)
    BY <1>0, <1>3 DEF Enqueue, TypeOK, Waiting
  <2> QED BY <1>1, <1>2, <2>1, <2>2 DEF Kept, Same
<1>4. CASE RunnerOf[q] = ru
  <2>1. queue'[ru] = Append(Q, q)
    BY <1>0, <1>4 DEF Enqueue, TypeOK
  <2>2. F \in Seq(Request) /\ Q \in Seq(Request)
    BY <1>0, FrontTypes DEF TypeOK
  <2>3. HeldBack(ru)' = Append(HeldBack(ru), q)
    <3> HIDE DEF F, Q
    <3>1. F \o Append(Q, q) = Append(F \o Q, q)
      BY <2>2
    <3> QED BY <1>1, <1>2, <2>1, <3>1
  <2>4. Waiting(ru)' = Waiting(ru) \cup {q}
    BY <1>0, <1>4 DEF Enqueue, TypeOK, Waiting
  <2>5. ASSUME NEW p \in Waiting(ru) PROVE p < q
    <3>1. p \in Request /\ RunnerOf[p] = RunnerOf[q] /\ task[p] = "waiting"
      BY <1>4 DEF Waiting
    <3>2. task[q] = "unborn"
      BY DEF Enqueue
    <3>3. p # q /\ ~(q < p)
      BY <1>0, <3>1, <3>2 DEF BornInOrder
    <3>4. p \in Nat /\ q \in Nat
      BY <3>1, RunnerAssumption
    <3> QED BY <3>3, <3>4
  <2> QED BY <2>3, <2>4, <2>5 DEF Kept, Added
<1> QED BY <1>3, <1>4

\* Every step keeps every runner's list.
LEMMA StepKept ==
  ASSUME ListInv, TypeInv', [Next]_vars, NEW ru \in Runner
  PROVE  Kept(ru)
<1> USE DEF passVars, driverVars
<1>1. CASE UNCHANGED vars
  BY <1>1, FrameKept DEF vars
<1>2. CASE Next
  <2>1. ASSUME NEW q \in Request, Enqueue(q) PROVE Kept(ru)
    BY <2>1, EnqueueKept
  <2>2. CASE Wake \/ FilerReturns \/ Reap \/ BeginPass \/ EndPass
    BY <2>2, EdgeKept
  <2>3. CASE DropMissing \/ AbortCancelled \/ DropMissingRun \/ Spawn
    BY <2>3, SettleKept
  <2>4. CASE ParkForCapacity \/ TakePermit \/ ParkForScope \/ ParkForLease
    BY <2>4, MoveKept
  <2>5. CASE \/ BeginDrain \/ Drained \/ DrainDeadline \/ Shutdown
             \/ AcquireScopes \/ NotCancelled
             \/ \E q \in Request : IssueLeaves(q)
             \/ \E k \in CancelKey : Cancel(k)
    <3>1. UNCHANGED <<queue, deferred, turn, work, cur, parked, task>>
      BY <2>5 DEF BeginDrain, Drained, DrainDeadline, Shutdown, AcquireScopes, NotCancelled,
                  IssueLeaves, Cancel
    <3> QED BY <3>1, FrameKept
  <2>6. ASSUME NEW q \in Request, Return(q) \/ DropScopes(q) \/ DropPermit(q) \/ Panic(q)
        PROVE  Kept(ru)
    <3>1. UNCHANGED <<queue, deferred, turn, work, cur, parked>>
      BY <2>6 DEF Return, DropScopes, DropPermit, Panic
    <3>2. \A p \in Request : task'[p] = "waiting" <=> task[p] = "waiting"
      BY <2>6 DEF Return, DropScopes, DropPermit, Panic, ListInv, TypeOK
    <3> QED BY <3>1, <3>2, FrameKept
  <2>7. CASE Exited
    BY <1>1, <2>7 DEF Exited
  <2> QED BY <1>2, <2>1, <2>2, <2>3, <2>4, <2>5, <2>6, <2>7 DEF Next, PassStep
<1> QED BY <1>1, <1>2

\* Requests are born in the order of their age, and no one is unborn again.
LEMMA BirthStep == ASSUME ListInv, [Next]_vars PROVE BornInOrder'
<1>0. TypeOK /\ BornInOrder
  BY DEF ListInv
<1>1. ASSUME NEW q \in Request, Enqueue(q) PROVE BornInOrder'
  BY <1>0, <1>1 DEF Enqueue, BornInOrder, TypeOK
<1>2. CASE \A q \in Request : task'[q] = "unborn" <=> task[q] = "unborn"
  BY <1>0, <1>2 DEF BornInOrder
<1>3. CASE Reap
  BY <1>2, <1>3 DEF Reap, Reaped
<1>4. CASE DropMissing
  <2>1. Head(work) \in Waiting(Current)
    BY <1>4, HeadWaits DEF DropMissing
  <2> QED BY <1>0, <1>2, <1>4, <2>1 DEF DropMissing, Waiting, TypeOK
<1>5. CASE AbortCancelled \/ DropMissingRun \/ Spawn
  <2>1. cur \in Waiting(Current)
    BY <1>0, <1>5, CurWaits DEF AbortCancelled, DropMissingRun, Spawn, TypeOK
  <2> QED BY <1>0, <1>2, <1>5, <2>1
          DEF AbortCancelled, DropMissingRun, Spawn, Waiting, TypeOK
<1>6. ASSUME NEW q \in Request, Return(q) \/ DropScopes(q) \/ DropPermit(q) \/ Panic(q)
      PROVE  BornInOrder'
  BY <1>0, <1>2, <1>6 DEF Return, DropScopes, DropPermit, Panic, TypeOK
<1>7. CASE task' = task
  BY <1>2, <1>7
<1>8. CASE \/ BeginDrain \/ Drained \/ DrainDeadline \/ Shutdown \/ Wake \/ FilerReturns
           \/ BeginPass \/ EndPass \/ AcquireScopes \/ NotCancelled
           \/ ParkForCapacity \/ TakePermit \/ ParkForScope \/ ParkForLease
           \/ \E q \in Request : IssueLeaves(q)
           \/ \E k \in CancelKey : Cancel(k)
  BY <1>7, <1>8 DEF BeginDrain, Drained, DrainDeadline, Shutdown, Wake, FilerReturns, BeginPass, EndPass,
                    AcquireScopes, NotCancelled, ParkForCapacity, TakePermit, ParkForScope,
                    ParkForLease, IssueLeaves, Cancel
<1>9. CASE UNCHANGED vars \/ Exited
  BY <1>7, <1>9 DEF vars, Exited
<1> QED BY <1>1, <1>3, <1>4, <1>5, <1>6, <1>8, <1>9 DEF Next, PassStep

\* At the start all lists are empty and no request is born.
LEMMA InitLists == Init => ListInv
<1> SUFFICES ASSUME Init PROVE ListInv
  OBVIOUS
<1>1. TypeInv
  BY InitTypes
<1>2. ASSUME NEW ru \in Runner PROVE HeldBack(ru) = <<>> /\ Waiting(ru) = {}
  <2>1. HeldBack(ru) = <<>> \o <<>>
    BY <1>1, IdleListed DEF IdleLists, Init
  <2>2. Waiting(ru) = {}
    BY DEF Init, Waiting
  <2> QED BY <2>1, <2>2
<1>3. ASSUME NEW ru \in Runner
      PROVE  Ascending(HeldBack(ru)) /\ Members(HeldBack(ru)) = Waiting(ru)
  BY <1>2 DEF Ascending, Members
<1>4. BornInOrder
  BY DEF BornInOrder, Init
<1> QED BY <1>1, <1>3, <1>4, ListsRestated DEF ListInv, TypeInv

LEMMA StepLists == ListInv /\ [Next]_vars => ListInv'
<1> SUFFICES ASSUME ListInv, [Next]_vars PROVE ListInv'
  OBVIOUS
<1>1. TypeInv'
  BY StepTypes DEF ListInv, TypeInv
<1>2. ASSUME NEW ru \in Runner
      PROVE  Ascending(HeldBack(ru)') /\ Members(HeldBack(ru)') = Waiting(ru)'
  BY <1>1, StepKept, KeptKeeps
<1>3. AgeOrder' /\ WellListed'
  BY <1>2 DEF AgeOrder, WellListed, Ascending, Members
<1> QED BY <1>1, <1>3, BirthStep DEF ListInv, TypeInv

LEMMA ListsInvariant == Spec => []ListInv
  BY InitLists, StepLists, PTL DEF Spec

\* Whatever was parked, why and when, older requests of a runner stay ahead of
\* younger ones.
THEOREM OrderKept == Spec => []AgeOrder
<1>1. ListInv => AgeOrder
  BY DEF ListInv
<1> QED BY <1>1, ListsInvariant, PTL

\* In an ascending list a request occurs once, or not at all.
LEMMA OnceOrNever ==
  ASSUME ListInv, NEW q \in Request
  PROVE  Cardinality({i \in 1..Len(HeldBack(RunnerOf[q])) : HeldBack(RunnerOf[q])[i] = q})
            = IF task[q] = "waiting" THEN 1 ELSE 0
<1> DEFINE s == HeldBack(RunnerOf[q])
           At == {i \in 1..Len(s) : s[i] = q}
<1>1. RunnerOf[q] \in Runner /\ q \in Nat
  BY RunnerAssumption
<1>2. s \in Seq(Request) /\ Ascending(s) /\ Members(s) = Waiting(RunnerOf[q])
  BY <1>1, HeldTypes, ListsRestated DEF ListInv
<1>3. Len(s) \in Nat
  BY <1>2
<1>4. CASE task[q] = "waiting"
  <2>1. q \in Members(s)
    BY <1>2, <1>4 DEF Waiting
  <2> HIDE DEF s
  <2>2. PICK k \in 1..Len(s) : s[k] = q
    BY <2>1 DEF Members
  <2>3. ASSUME NEW i \in 1..Len(s), s[i] = q PROVE i = k
    <3>1. ~(i < k) /\ ~(k < i)
      BY <1>1, <1>2, <2>2, <2>3 DEF Ascending
    <3> QED BY <1>3, <3>1
  <2>4. At = {k}
    BY <2>2, <2>3
  <2>5. Cardinality(At) = 1
    BY <2>4, FS_Singleton
  <2> QED BY <1>4, <2>5 DEF s
<1>5. CASE task[q] # "waiting"
  <2>1. q \notin Members(s)
    BY <1>2, <1>5 DEF Waiting
  <2>2. At = {}
    BY <2>1 DEF Members
  <2>3. Cardinality(At) = 0
    BY <2>2, FS_EmptySet
  <2> QED BY <1>5, <2>3
<1> QED BY <1>4, <1>5

\* No request is lost or doubled on its way through the lists.
THEOREM NoneIsLost == Spec => []NoneLost
<1>1. ListInv => NoneLost
  BY OnceOrNever DEF NoneLost
<1> QED BY <1>1, ListsInvariant, PTL

(***************************************************************************)
(* The permits.                                                            *)
(***************************************************************************)

\* The requests that hold a permit of their runner, and of their scopes.
PermitHolders == {q \in Request : HoldsPermit(q)}
ScopeHolders == {q \in Request : HoldsScopes(q)}

PermitsOf(ru) == {q \in PermitHolders : RunnerOf[q] = ru}
HoldersOf(s) == {q \in ScopeHolders : s \in ScopesOf[q]}

LEMMA BalanceRestated ==
  /\ PermitsBalance <=>
        \A ru \in Runner : free[ru] + Cardinality(PermitsOf(ru)) = MaxInFlight[ru]
  /\ ScopesBalance <=>
        \A s \in Scope : /\ inFlight[s] = Cardinality(HoldersOf(s))
                         /\ inFlight[s] <= Cap[s]
<1>1. \A ru : {q \in Request : RunnerOf[q] = ru /\ HoldsPermit(q)} = PermitsOf(ru)
  BY DEF PermitsOf, PermitHolders
<1>2. \A s : {q \in Request : s \in ScopesOf[q] /\ HoldsScopes(q)} = HoldersOf(s)
  BY DEF HoldersOf, ScopeHolders
<1> QED BY <1>1, <1>2 DEF PermitsBalance, ScopesBalance

\* Sets of requests are finite, and one more or one less counts one.
LEMMA Counting ==
  ASSUME NEW H \in SUBSET Request
  PROVE  /\ IsFiniteSet(H) /\ Cardinality(H) \in Nat
         /\ \A x : x \notin H => Cardinality(H \cup {x}) = Cardinality(H) + 1
         /\ \A x \in H : Cardinality(H) > 0 /\ Cardinality(H \ {x}) = Cardinality(H) - 1
<1>1. IsFiniteSet(H)
  BY RunnerAssumption, FS_Subset
<1>2. Cardinality(H) \in Nat /\ (Cardinality(H) = 0 <=> H = {})
  BY <1>1, FS_CardinalityType, FS_EmptySet
<1>3. ASSUME NEW x, x \notin H PROVE Cardinality(H \cup {x}) = Cardinality(H) + 1
  BY <1>1, <1>3, FS_AddElement
<1>4. ASSUME NEW x \in H PROVE Cardinality(H \ {x}) = Cardinality(H) - 1
  BY <1>1, FS_RemoveElement
<1> QED BY <1>1, <1>2, <1>3, <1>4

\* What a step may do to the permits: nothing, give one to x, or take the one of x back.
PermitsSame == free' = free /\ PermitHolders' = PermitHolders
PermitTaken(x) ==
    /\ x \notin PermitHolders /\ PermitHolders' = PermitHolders \cup {x}
    /\ free[RunnerOf[x]] > 0
    /\ free' = [free EXCEPT ![RunnerOf[x]] = @ - 1]
PermitReturned(x) ==
    /\ x \in PermitHolders /\ PermitHolders' = PermitHolders \ {x}
    /\ free' = [free EXCEPT ![RunnerOf[x]] = @ + 1]

PermitsMoved == PermitsSame \/ \E x \in Request : PermitTaken(x) \/ PermitReturned(x)

LEMMA PermitsKeep == ASSUME TypeOK, PermitsBalance, PermitsMoved PROVE PermitsBalance'
<1> SUFFICES ASSUME NEW ru \in Runner
             PROVE  free'[ru] + Cardinality(PermitsOf(ru)') = MaxInFlight[ru]
  BY DEF PermitsBalance, PermitsOf, PermitHolders
<1> DEFINE H == PermitsOf(ru)
<1>1. free[ru] + Cardinality(H) = MaxInFlight[ru] /\ free[ru] \in Nat
  BY BalanceRestated DEF TypeOK
<1>2. H \in SUBSET Request
  BY DEF PermitsOf, PermitHolders
<1>3. CASE PermitsSame
  BY <1>1, <1>3 DEF PermitsSame, PermitsOf
<1>4. ASSUME NEW x \in Request, PermitTaken(x)
      PROVE  free'[ru] + Cardinality(PermitsOf(ru)') = MaxInFlight[ru]
  <2>1. CASE RunnerOf[x] = ru
    <3>1. x \notin H /\ PermitsOf(ru)' = H \cup {x} /\ free'[ru] = free[ru] - 1
      BY <1>4, <2>1 DEF PermitTaken, PermitsOf, TypeOK
    <3> HIDE DEF H
    <3>2. Cardinality(PermitsOf(ru)') = Cardinality(H) + 1 /\ Cardinality(H) \in Nat
      BY <1>2, <3>1, Counting
    <3> QED BY <1>1, <3>1, <3>2
  <2>2. CASE RunnerOf[x] # ru
    <3>1. PermitsOf(ru)' = H /\ free'[ru] = free[ru]
      BY <1>4, <2>2 DEF PermitTaken, PermitsOf, TypeOK
    <3> QED BY <1>1, <3>1
  <2> QED BY <2>1, <2>2
<1>5. ASSUME NEW x \in Request, PermitReturned(x)
      PROVE  free'[ru] + Cardinality(PermitsOf(ru)') = MaxInFlight[ru]
  <2>1. CASE RunnerOf[x] = ru
    <3>1. x \in H /\ PermitsOf(ru)' = H \ {x} /\ free'[ru] = free[ru] + 1
      BY <1>5, <2>1 DEF PermitReturned, PermitsOf, TypeOK
    <3> HIDE DEF H
    <3>2. Cardinality(PermitsOf(ru)') = Cardinality(H) - 1 /\ Cardinality(H) \in Nat
      BY <1>2, <3>1, Counting
    <3> QED BY <1>1, <3>1, <3>2
  <2>2. CASE RunnerOf[x] # ru
    <3>1. PermitsOf(ru)' = H /\ free'[ru] = free[ru]
      BY <1>5, <2>2 DEF PermitReturned, PermitsOf, TypeOK
    <3> QED BY <1>1, <3>1
  <2> QED BY <2>1, <2>2
<1> QED BY <1>3, <1>4, <1>5 DEF PermitsMoved

\* The same for the permits of the gate.
ScopesSame == inFlight' = inFlight /\ ScopeHolders' = ScopeHolders
ScopesTaken(x) ==
    /\ x \notin ScopeHolders /\ ScopeHolders' = ScopeHolders \cup {x}
    /\ ~\E s \in ScopesOf[x] : AtCap(s)
    /\ inFlight' = Charged(ScopesOf[x])
ScopesReturned(x) ==
    /\ x \in ScopeHolders /\ ScopeHolders' = ScopeHolders \ {x}
    /\ inFlight' = Refunded(ScopesOf[x])

ScopesMoved == ScopesSame \/ \E x \in Request : ScopesTaken(x) \/ ScopesReturned(x)

LEMMA ScopesKeep == ASSUME TypeOK, ScopesBalance, ScopesMoved PROVE ScopesBalance'
<1> SUFFICES ASSUME NEW s \in Scope
             PROVE  inFlight'[s] = Cardinality(HoldersOf(s)') /\ inFlight'[s] <= Cap[s]
  BY DEF ScopesBalance, HoldersOf, ScopeHolders
<1> DEFINE H == HoldersOf(s)
<1>1. /\ inFlight[s] = Cardinality(H) /\ inFlight[s] <= Cap[s]
      /\ inFlight[s] \in Nat /\ Cap[s] \in Nat
  BY BalanceRestated, RunnerAssumption DEF TypeOK
<1>2. H \in SUBSET Request
  BY DEF HoldersOf, ScopeHolders
<1>3. CASE ScopesSame
  BY <1>1, <1>3 DEF ScopesSame, HoldersOf
<1>4. ASSUME NEW x \in Request, ScopesTaken(x)
      PROVE  inFlight'[s] = Cardinality(HoldersOf(s)') /\ inFlight'[s] <= Cap[s]
  <2>1. CASE s \in ScopesOf[x]
    <3>1. x \notin H /\ HoldersOf(s)' = H \cup {x}
      BY <1>4, <2>1 DEF ScopesTaken, HoldersOf
    <3>2. inFlight'[s] = inFlight[s] + 1 /\ inFlight[s] < Cap[s]
      BY <1>1, <1>4, <2>1 DEF ScopesTaken, Charged, AtCap
    <3> HIDE DEF H
    <3>3. Cardinality(HoldersOf(s)') = Cardinality(H) + 1
      BY <1>2, <3>1, Counting
    <3> QED BY <1>1, <3>2, <3>3
  <2>2. CASE s \notin ScopesOf[x]
    <3>1. HoldersOf(s)' = H
      BY <1>4, <2>2 DEF ScopesTaken, HoldersOf
    <3>2. inFlight'[s] = inFlight[s]
      BY <1>4, <2>2 DEF ScopesTaken, Charged
    <3> QED BY <1>1, <3>1, <3>2
  <2> QED BY <2>1, <2>2
<1>5. ASSUME NEW x \in Request, ScopesReturned(x)
      PROVE  inFlight'[s] = Cardinality(HoldersOf(s)') /\ inFlight'[s] <= Cap[s]
  <2>1. CASE s \in ScopesOf[x]
    <3>1. x \in H /\ HoldersOf(s)' = H \ {x}
      BY <1>5, <2>1 DEF ScopesReturned, HoldersOf
    <3> HIDE DEF H
    <3>2. Cardinality(H) > 0 /\ Cardinality(HoldersOf(s)') = Cardinality(H) - 1
      BY <1>2, <3>1, Counting
    <3>3. inFlight'[s] = inFlight[s] - 1
      BY <1>1, <1>5, <2>1, <3>2 DEF ScopesReturned, Refunded
    <3> QED BY <1>1, <3>2, <3>3
  <2>2. CASE s \notin ScopesOf[x]
    <3>1. HoldersOf(s)' = H
      BY <1>5, <2>2 DEF ScopesReturned, HoldersOf
    <3>2. inFlight'[s] = inFlight[s]
      BY <1>5, <2>2 DEF ScopesReturned, Refunded
    <3> QED BY <1>1, <3>1, <3>2
  <2> QED BY <2>1, <2>2
<1> QED BY <1>3, <1>4, <1>5 DEF ScopesMoved

LEMMA OneMoves ==
  /\ (PermitsSame => PermitsMoved) /\ (ScopesSame => ScopesMoved)
  /\ \A x \in Request : /\ PermitTaken(x) \/ PermitReturned(x) => PermitsMoved
                        /\ ScopesTaken(x) \/ ScopesReturned(x) => ScopesMoved
  BY DEF PermitsMoved, ScopesMoved

\* The steps at which no request takes a permit or gives one back.
LEMMA NoPermitMoves ==
  ASSUME ListInv,
         \/ UNCHANGED vars \/ Exited \/ Wake \/ BeginDrain \/ FilerReturns \/ Reap \/ Drained \/ DrainDeadline
         \/ Shutdown \/ BeginPass \/ EndPass \/ DropMissing \/ ParkForCapacity
         \/ NotCancelled \/ Spawn
         \/ \E q \in Request : Enqueue(q) \/ IssueLeaves(q) \/ Return(q)
         \/ \E k \in CancelKey : Cancel(k)
  PROVE  PermitsSame /\ ScopesSame
<1>0. TypeOK /\ NoRequest \notin Request
  BY RunnerAssumption DEF ListInv
<1>1. free' = free /\ inFlight' = inFlight
  BY DEF vars, Exited, Wake, BeginDrain, FilerReturns, Reap, Drained, DrainDeadline, Shutdown, BeginPass,
         EndPass, DropMissing, ParkForCapacity, NotCancelled, Spawn, Enqueue, IssueLeaves,
         Cancel, Return
<1> USE DEF PermitHolders, ScopeHolders, HoldsPermit, HoldsScopes, TypeOK
<1>2. CASE UNCHANGED <<task, cur, pc>>
  BY <1>1, <1>2 DEF PermitsSame, ScopesSame
<1>3. CASE BeginPass \/ EndPass
  BY <1>0, <1>1, <1>3 DEF PermitsSame, ScopesSame, BeginPass, EndPass
<1>4. CASE NotCancelled
  BY <1>0, <1>1, <1>4 DEF PermitsSame, ScopesSame, NotCancelled
<1>5. CASE Reap
  BY <1>0, <1>1, <1>5 DEF PermitsSame, ScopesSame, Reap, Reaped
<1>6. CASE DropMissing
  <2>1. task[Head(work)] = "waiting"
    BY <1>6, HeadWaits DEF DropMissing, Waiting
  <2> QED BY <1>0, <1>1, <1>6, <2>1 DEF PermitsSame, ScopesSame, DropMissing
<1>7. CASE Spawn
  <2>1. cur \in Request /\ task[cur] = "waiting"
    BY <1>0, <1>7, CurWaits DEF Spawn, Waiting
  <2> QED BY <1>0, <1>1, <1>7, <2>1 DEF PermitsSame, ScopesSame, Spawn
<1>8. ASSUME NEW q \in Request, Enqueue(q) \/ Return(q) PROVE PermitsSame /\ ScopesSame
  BY <1>0, <1>1, <1>8 DEF PermitsSame, ScopesSame, Enqueue, Return, passVars
<1>9. CASE \/ UNCHANGED vars \/ Exited \/ Wake \/ BeginDrain \/ FilerReturns \/ Drained
           \/ DrainDeadline \/ Shutdown \/ ParkForCapacity
           \/ \E q \in Request : IssueLeaves(q)
           \/ \E k \in CancelKey : Cancel(k)
  <2>1. UNCHANGED <<task, cur, pc>>
    BY <1>9 DEF vars, passVars, Exited, Wake, BeginDrain, FilerReturns, Drained, DrainDeadline, Shutdown,
                ParkForCapacity, IssueLeaves, Cancel
  <2> QED BY <1>2, <2>1
<1> QED BY <1>3, <1>4, <1>5, <1>6, <1>7, <1>8, <1>9

\* The steps at which the pass takes a permit or gives one back.
LEMMA PassMoves ==
  ASSUME ListInv,
         \/ TakePermit \/ AcquireScopes \/ ParkForScope
         \/ AbortCancelled \/ ParkForLease \/ DropMissingRun
  PROVE  PermitsMoved /\ ScopesMoved
<1>0. TypeOK /\ NoRequest \notin Request
  BY RunnerAssumption DEF ListInv
<1> USE DEF PermitHolders, ScopeHolders, HoldsPermit, HoldsScopes, TypeOK
<1>1. CASE TakePermit
  <2>1. PICK h \in Request :
            h = Head(work) /\ task[h] = "waiting" /\ RunnerOf[h] = Current
    BY <1>0, <1>1, HeadWaits DEF TakePermit, Waiting
  <2>2. cur = NoRequest /\ cur' = h /\ pc = "next" /\ pc' = "scopes" /\ task' = task
    BY <1>0, <1>1, <2>1 DEF TakePermit
  <2>3. PermitTaken(h)
    <3>1. free[RunnerOf[h]] > 0 /\ free' = [free EXCEPT ![RunnerOf[h]] = @ - 1]
      BY <1>1, <2>1 DEF TakePermit
    <3> QED BY <1>0, <2>1, <2>2, <3>1 DEF PermitTaken
  <2>4. ScopesSame
    BY <1>0, <1>1, <2>2 DEF ScopesSame, TakePermit
  <2> QED BY <2>1, <2>3, <2>4, OneMoves
<1>2. CASE ~TakePermit
  <2>1. cur \in Request /\ pc \in {"scopes", "cancel", "lease"}
    BY <1>0, <1>2 DEF AcquireScopes, ParkForScope, AbortCancelled, ParkForLease, DropMissingRun
  <2>2. PICK c \in Request : c = cur /\ task[c] = "waiting" /\ RunnerOf[c] = Current
    BY <1>0, <2>1, CurWaits DEF Waiting
  <2>3. CASE AcquireScopes
    <3>1. PermitsSame
      BY <1>0, <2>1, <2>3 DEF PermitsSame, AcquireScopes
    <3>2. ScopesTaken(c)
      BY <1>0, <2>1, <2>2, <2>3 DEF ScopesTaken, AcquireScopes
    <3> QED BY <2>2, <3>1, <3>2, OneMoves
  <2>4. CASE ParkForScope \/ AbortCancelled \/ ParkForLease \/ DropMissingRun
    <3>1. cur' = NoRequest /\ pc' = "next" /\ free' = [free EXCEPT ![Current] = @ + 1]
      BY <2>4 DEF ParkForScope, AbortCancelled, ParkForLease, DropMissingRun, GiveBackPermit
    <3>2. \A q \in Request : q # cur => task'[q] = task[q]
      BY <1>0, <2>1, <2>4 DEF ParkForScope, AbortCancelled, ParkForLease, DropMissingRun
    <3>3. task'[cur] \in {"waiting", "aborted", "missing"}
      BY <1>0, <2>1, <2>2, <2>4 DEF ParkForScope, AbortCancelled, ParkForLease, DropMissingRun
    <3>4. PermitReturned(c)
      BY <1>0, <2>1, <2>2, <3>1, <3>2, <3>3 DEF PermitReturned
    <3>5. CASE ParkForScope
      <4>1. pc = "scopes" /\ inFlight' = inFlight
        BY <3>5 DEF ParkForScope
      <4>2. ScopesSame
        BY <1>0, <2>1, <2>2, <3>1, <3>2, <3>3, <4>1 DEF ScopesSame
      <4> QED BY <2>2, <3>4, <4>2, OneMoves
    <3>6. CASE AbortCancelled \/ ParkForLease \/ DropMissingRun
      <4>1. pc \in {"cancel", "lease"} /\ inFlight' = Refunded(ScopesOf[cur])
        BY <3>6 DEF AbortCancelled, ParkForLease, DropMissingRun
      <4>2. ScopesReturned(c)
        BY <1>0, <2>1, <2>2, <3>1, <3>2, <3>3, <4>1 DEF ScopesReturned
      <4> QED BY <2>2, <3>4, <4>2, OneMoves
    <3> QED BY <2>4, <3>5, <3>6
  <2> QED BY <1>2, <2>3, <2>4
<1> QED BY <1>1, <1>2

\* The steps at which a task gives its permits back.
LEMMA TaskMoves ==
  ASSUME ListInv, NEW q \in Request, DropScopes(q) \/ DropPermit(q) \/ Panic(q)
  PROVE  PermitsMoved /\ ScopesMoved
<1>0. TypeOK
  BY DEF ListInv
<1>1. task[q] \in {"running", "returned", "unscoped"} /\ cur # q /\ UNCHANGED <<cur, pc>>
  <2>1. task[q] \in {"running", "returned", "unscoped"} /\ UNCHANGED <<cur, pc>>
    BY DEF DropScopes, DropPermit, Panic, passVars
  <2>2. cur # q
    BY <2>1, CurWaits, RunnerAssumption DEF Waiting
  <2> QED BY <2>1, <2>2
<1> USE DEF PermitHolders, ScopeHolders, HoldsPermit, HoldsScopes, TypeOK
<1>2. CASE DropScopes(q)
  <2>1. PermitsSame
    BY <1>0, <1>1, <1>2 DEF PermitsSame, DropScopes
  <2>2. ScopesReturned(q)
    BY <1>0, <1>1, <1>2 DEF ScopesReturned, DropScopes
  <2> QED BY <2>1, <2>2, OneMoves
<1>3. CASE DropPermit(q)
  <2>1. PermitReturned(q)
    BY <1>0, <1>1, <1>3 DEF PermitReturned, DropPermit
  <2>2. ScopesSame
    BY <1>0, <1>1, <1>3 DEF ScopesSame, DropPermit
  <2> QED BY <2>1, <2>2, OneMoves
<1>4. CASE Panic(q)
  <2>1. PermitReturned(q)
    BY <1>0, <1>1, <1>4 DEF PermitReturned, Panic
  <2>2. ScopesReturned(q)
    BY <1>0, <1>1, <1>4 DEF ScopesReturned, Panic
  <2> QED BY <2>1, <2>2, OneMoves
<1> QED BY <1>2, <1>3, <1>4

LEMMA InitPermits == Init => PermitInv
<1> SUFFICES ASSUME Init PROVE PermitInv
  OBVIOUS
<1>1. PermitHolders = {} /\ ScopeHolders = {}
  BY DEF Init, PermitHolders, ScopeHolders, HoldsPermit, HoldsScopes
<1>2. ASSUME NEW ru \in Runner
      PROVE  free[ru] + Cardinality(PermitsOf(ru)) = MaxInFlight[ru]
  <2>1. PermitsOf(ru) = {} /\ free[ru] = MaxInFlight[ru] /\ MaxInFlight[ru] \in Nat
    BY <1>1, RunnerAssumption DEF PermitsOf, Init
  <2> QED BY <2>1, FS_EmptySet
<1>3. ASSUME NEW s \in Scope
      PROVE  inFlight[s] = Cardinality(HoldersOf(s)) /\ inFlight[s] <= Cap[s]
  <2>1. HoldersOf(s) = {} /\ inFlight[s] = 0 /\ Cap[s] \in Nat
    BY <1>1, RunnerAssumption DEF HoldersOf, Init
  <2> QED BY <2>1, FS_EmptySet
<1> QED BY <1>2, <1>3, InitLists, BalanceRestated DEF PermitInv

LEMMA StepPermits == PermitInv /\ [Next]_vars => PermitInv'
<1> SUFFICES ASSUME PermitInv, [Next]_vars PROVE PermitInv'
  OBVIOUS
<1>1. ListInv /\ PermitsBalance /\ ScopesBalance /\ TypeOK
  BY DEF PermitInv, ListInv
<1>2. ListInv'
  BY <1>1, StepLists
<1>3. PermitsMoved /\ ScopesMoved
  BY <1>1, NoPermitMoves, PassMoves, TaskMoves
     DEF Next, PassStep, PermitsMoved, ScopesMoved
<1> QED BY <1>1, <1>2, <1>3, PermitsKeep, ScopesKeep DEF PermitInv

LEMMA PermitsInvariant == Spec => []PermitInv
  BY InitPermits, StepPermits, PTL DEF Spec

\* On every path of a pass and of a task, what a runner's semaphore does not offer is
\* held, once, by one of its requests.
THEOREM PermitsKept == Spec => []PermitsBalance
<1>1. PermitInv => PermitsBalance
  BY DEF PermitInv
<1> QED BY <1>1, PermitsInvariant, PTL

\* The gate's counters count the requests that hold a scope, and no cap is exceeded.
THEOREM ScopesKept == Spec => []ScopesBalance
<1>1. PermitInv => ScopesBalance
  BY DEF PermitInv
<1> QED BY <1>1, PermitsInvariant, PTL

(***************************************************************************)
(* A cancelled request.                                                    *)
(***************************************************************************)

\* A step of the pass settles no request but the one that it has at hand.
LEMMA OtherKept ==
  ASSUME ListInv, NEW q \in Request, [Next]_vars
  PROVE  \/ Observable(q) => Observable(q)'
         \/ task'[q] \in Gone
         \/ cur = q /\ NotCancelled
<1>0. TypeOK
  BY DEF ListInv
<1>1. cur \in Request => task[cur] = "waiting"
  BY CurWaits, RunnerAssumption DEF Waiting
<1>2. pc = "next" /\ work # <<>> => Head(work) \in Request
  BY <1>0, HeadTail DEF TypeOK
<1> USE DEF Observable, passVars
<1>3. ASSUME NEW p \in Request,
             \/ Enqueue(p) \/ IssueLeaves(p)
             \/ Return(p) \/ DropScopes(p) \/ DropPermit(p) \/ Panic(p)
      PROVE  Observable(q) => Observable(q)'
  BY <1>0, <1>3 DEF Enqueue, IssueLeaves, Return, DropScopes, DropPermit, Panic, TypeOK
<1>4. ASSUME \/ Wake \/ BeginDrain \/ FilerReturns \/ Drained \/ DrainDeadline \/ Shutdown
             \/ UNCHANGED vars \/ \E k \in CancelKey : Cancel(k)
      PROVE  Observable(q) => Observable(q)'
  BY <1>4 DEF Wake, BeginDrain, FilerReturns, Drained, DrainDeadline, Shutdown, Cancel, vars
<1>5. CASE Reap
  BY <1>5 DEF Reap, Reaped
<1>6. CASE BeginPass \/ ParkForCapacity \/ TakePermit \/ AcquireScopes \/ EndPass
  BY <1>6 DEF BeginPass, ParkForCapacity, TakePermit, AcquireScopes, EndPass
<1>7. CASE DropMissing
  BY <1>0, <1>2, <1>7 DEF DropMissing, TypeOK, Gone
<1>8. CASE NotCancelled
  BY <1>8 DEF NotCancelled
<1>9. CASE ParkForScope \/ ParkForLease
  BY <1>9 DEF ParkForScope, ParkForLease, GiveBackPermit
<1>10. CASE AbortCancelled \/ DropMissingRun \/ Spawn
  <2>1. cur \in Request /\ task[cur] = "waiting"
    BY <1>0, <1>1, <1>10 DEF AbortCancelled, DropMissingRun, Spawn, TypeOK
  <2>2. CASE cur = q
    BY <1>0, <1>10, <2>1, <2>2 DEF AbortCancelled, DropMissingRun, Spawn, TypeOK, Gone
  <2>3. CASE cur # q
    <3>1. task'[q] = task[q] /\ pc' = "next"
      BY <1>0, <1>10, <2>1, <2>3
         DEF AbortCancelled, DropMissingRun, Spawn, GiveBackPermit, TypeOK
    <3> QED BY <3>1
  <2> QED BY <2>2, <2>3
<1> QED BY <1>3, <1>4, <1>5, <1>6, <1>7, <1>8, <1>9, <1>10 DEF Next, PassStep, Exited

\* Only the abort of a request takes an entry out of the queue: that of its run.
LEMMA EntriesKept ==
  ASSUME ListInv, [Next]_vars, NEW k \in cancels, k \notin cancels'
  PROVE  /\ AbortCancelled /\ cur \in Request /\ k = RunKey[cur]
         /\ task[cur] = "waiting" /\ task'[cur] = "aborted"
<1>0. TypeOK
  BY DEF ListInv
<1>1. AbortCancelled
  BY DEF Next, PassStep, vars, Exited, Wake, BeginDrain, FilerReturns, Reap, Drained,
         DrainDeadline, Shutdown, Enqueue, IssueLeaves, Cancel, BeginPass, DropMissing,
         ParkForCapacity, TakePermit, AcquireScopes, ParkForScope, NotCancelled, ParkForLease,
         DropMissingRun, Spawn, EndPass, Return, DropScopes, DropPermit, Panic
<1>2. cur \in Request /\ task[cur] = "waiting"
  BY <1>0, <1>1, CurWaits, RunnerAssumption DEF Waiting, AbortCancelled, TypeOK
<1> QED
  BY <1>0, <1>1, <1>2 DEF AbortCancelled, TypeOK

\* The work item's entry is there whenever the pass looks, or q is settled otherwise.
Stuck(q) ==
    \/ task[q] \in Gone
    \/ Observable(q) /\ ItemKey[q] \in cancels

LEMMA StepStuck ==
  ASSUME ListInv, NEW q \in Request, Stuck(q), [Next]_vars
  PROVE  Stuck(q)'
<1>0. TypeOK
  BY DEF ListInv
<1>1. CASE task[q] \in Gone
  <2>1. pc = "next" /\ work # <<>> => Head(work) \in Request /\ task[Head(work)] = "waiting"
    BY <1>0, HeadTail, HeadWaits DEF TypeOK, Waiting
  <2>2. cur \in Request => task[cur] = "waiting"
    BY CurWaits, RunnerAssumption DEF Waiting
  <2>3. task'[q] = task[q]
    BY <1>0, <1>1, <2>1, <2>2
       DEF Gone, Next, PassStep, vars, passVars, Exited, Wake, BeginDrain, FilerReturns, Reap,
           Reaped, Drained, DrainDeadline, Shutdown, Enqueue, IssueLeaves, Cancel, BeginPass,
           DropMissing, ParkForCapacity, TakePermit, AcquireScopes, ParkForScope, NotCancelled,
           AbortCancelled, ParkForLease, DropMissingRun, Spawn, EndPass, Return, DropScopes,
           DropPermit, Panic, TypeOK
  <2> QED
    BY <1>1, <2>3 DEF Stuck
<1>2. CASE Observable(q) /\ ItemKey[q] \in cancels
  <2>1. ItemKey[q] # NoKey
    BY <1>0, <1>2 DEF TypeOK, CancelKey
  <2>2. ItemKey[q] \in cancels'
    BY <1>2, <2>1, EntriesKept, RunnerAssumption
  <2>3. ~(cur = q /\ NotCancelled)
    BY <1>2 DEF NotCancelled, Pending
  <2> QED
    BY <1>2, <2>2, <2>3, OtherKept DEF Stuck
<1> QED BY <1>1, <1>2 DEF Stuck

\* The run's entry stays as well, but for the abort of another request of the run.
LEMMA RunStuck ==
  ASSUME ListInv, [Next]_vars, NEW q \in Request, Observable(q), RunKey[q] \in cancels
  PROVE  \/ (Observable(q) /\ RunKey[q] \in cancels)'
         \/ task'[q] \in Gone
         \/ \E p \in Request \ {q} :
               RunKey[p] = RunKey[q] /\ task[p] = "waiting" /\ task'[p] = "aborted"
<1>1. ~(cur = q /\ NotCancelled)
  BY DEF NotCancelled, Pending
<1>2. CASE RunKey[q] \in cancels'
  BY <1>1, <1>2, OtherKept
<1>3. CASE RunKey[q] \notin cancels'
  <2>1. /\ cur \in Request /\ RunKey[q] = RunKey[cur]
        /\ task[cur] = "waiting" /\ task'[cur] = "aborted"
    BY <1>3, EntriesKept
  <2> QED
    BY <2>1 DEF Gone
<1> QED BY <1>2, <1>3

\* A cancel of its work item that reaches a request before the observation point is final:
\* parked for whatever reason, through however many passes and lease faults, it is never
\* dispatched.  A cancel of its run holds until another request of that run drains it.
THEOREM CancelsStick == Spec => CancelSticks
<1> DEFINE At(q) == Observable(q) /\ ItemKey[q] \in cancels
           Never(q) == task[q] # "running"
           Held(q) == Observable(q) /\ RunKey[q] \in cancels =>
                        \/ (Observable(q) /\ RunKey[q] \in cancels)'
                        \/ task'[q] \in Gone
                        \/ \E p \in Request \ {q} :
                              /\ RunKey[p] = RunKey[q]
                              /\ task[p] = "waiting" /\ task'[p] = "aborted"
<1>1. ASSUME NEW q \in Request PROVE Spec => [](At(q) => []Never(q))
  <2>1. At(q) => Stuck(q)
    BY DEF Stuck
  <2>2. Stuck(q) => Never(q)
    BY DEF Stuck, Observable, Gone
  <2>3. ListInv /\ Stuck(q) /\ [Next]_vars => Stuck(q)'
    BY StepStuck
  <2> HIDE DEF At, Never
  <2> QED BY <2>1, <2>2, <2>3, ListsInvariant, PTL DEF Spec
<1>2. Spec => [][\A q \in Request : Held(q)]_vars
  <2>1. ListInv /\ [Next]_vars => [\A q \in Request : Held(q)]_vars
    BY RunStuck
  <2> HIDE DEF Held
  <2> QED BY <2>1, ListsInvariant, PTL DEF Spec
<1> QED BY <1>1, <1>2 DEF CancelSticks

(***************************************************************************)
(* The cancellation queue that the runners consult: theorems about         *)
(* Cancellation, for any items, runs, requests and edges.  entries is its  *)
(* queue of subjects, commands and failures are its counters.              *)
(***************************************************************************)

CONSTANTS Item, NoItem, Child, Run, ItemOf, Dispatch, RunOf, KeyOf, MaxCancels, MaxBoots

VARIABLES table, entries, news, row, at, cli, bound, commands, boots, failures

C == INSTANCE Cancellation
       WITH queue <- entries, cancels <- commands, faults <- failures

\* A request that a replayed cancel speaks for finds it whenever its pass looks.
CancelHeld == \A d \in bound : C!Pending(d) /\ at[d] # "leasing"

CancelInv == C!TypeOK /\ CancelHeld

RequestPlaces == {"unborn", "waiting", "aborting", "draining", "leasing", "running",
"ended", "aborted"}

\* An entry for a run is never one for the work item of a request, or for no item.
LEMMA KeysApart ==
  ASSUME C!CancellationAssumption, NEW d \in Dispatch, NEW e \in Dispatch
  PROVE  RunOf[e] # KeyOf[d] /\ RunOf[d] \in Run
<1>1. RunOf[e] \in Run /\ RunOf[d] \in Run /\ KeyOf[d] \in Item \cup {NoItem}
  BY DEF C!CancellationAssumption
<1>2. Item \cap Run = {} /\ NoItem \notin Run
  BY DEF C!CancellationAssumption, C!Subject
<1> QED
  BY <1>1, <1>2

LEMMA InitCancel == ASSUME C!CancellationAssumption PROVE C!Init => CancelInv
  BY DEF C!CancellationAssumption, C!Init, CancelInv, C!TypeOK, CancelHeld, C!Quiet,
         C!Terminal

-----------------------------------------------------------------------------
(* The command and the composition root. *)

LEMMA CommandSteps ==
  ASSUME C!CancellationAssumption, CancelInv,
         \/ \E s \in C!Subject : C!CancelCommand(s)
         \/ C!Cascade \/ C!CommandDies
         \/ \E r \in Run : C!FanOut(r)
  PROVE  CancelInv'
<1> USE DEF C!counters
<1>1. /\ UNCHANGED <<entries, row, at, bound, boots>>
      /\ commands' \in 0..MaxCancels /\ failures' \in 0..MaxFaults
  BY DEF C!CancellationAssumption, CancelInv, C!TypeOK, C!CancelCommand, C!Cascade,
         C!CommandDies, C!FanOut
<1>2. table' \subseteq C!Subject /\ news' \subseteq table'
  BY DEF CancelInv, C!TypeOK, C!CancelCommand, C!Cascade, C!CommandDies, C!FanOut,
         C!Enqueue, C!Subject
<1> DEFINE Commands ==
      [step : {"idle", "cascade", "fan"}, root : Item \cup {NoItem}, left : SUBSET Run]
<1>3. /\ cli' \in Commands
      /\ (cli'.step = "idle") <=> (cli' = C!Quiet)
      /\ (cli'.step = "fan") <=> (cli'.left # {})
  <2>1. C!Quiet \in Commands /\ C!Quiet.step = "idle" /\ C!Quiet.left = {}
    BY DEF C!Quiet
  <2>2. CASE \E s \in C!Subject : C!CancelCommand(s)
    <3>1. PICK s \in C!Subject : C!CancelCommand(s)
      BY <2>2
    <3>2. CASE s \in Item
      <4>1. cli' = [step |-> "cascade", root |-> s, left |-> {}]
        BY <3>1, <3>2 DEF C!CancelCommand
      <4> QED
        BY <2>1, <3>2, <4>1
    <3>3. CASE s \notin Item
      BY <2>1, <3>1, <3>3 DEF C!CancelCommand
    <3> QED
      BY <3>2, <3>3
  <2>3. CASE C!CommandDies
    BY <2>1, <2>3 DEF C!CommandDies
  <2>4. CASE C!Cascade
    <3> DEFINE runs == C!InFlightRuns(cli.root)
    <3>1. /\ cli.step = "cascade" /\ runs \subseteq Run
          /\ cli' = IF runs = {} THEN C!Quiet
                                 ELSE [cli EXCEPT !.step = "fan", !.left = runs]
      BY <2>4 DEF C!Cascade, C!InFlightRuns
    <3> HIDE DEF runs
    <3>2. CASE runs = {}
      BY <2>1, <3>1, <3>2
    <3>3. CASE runs # {}
      <4>1. cli' = [cli EXCEPT !.step = "fan", !.left = runs]
        BY <3>1, <3>3
      <4> QED
        BY <2>1, <3>1, <3>3, <4>1 DEF CancelInv, C!TypeOK
    <3> QED
      BY <3>2, <3>3
  <2>5. ASSUME NEW r \in Run, C!FanOut(r)
        PROVE  /\ cli' \in Commands
               /\ (cli'.step = "idle") <=> (cli' = C!Quiet)
               /\ (cli'.step = "fan") <=> (cli'.left # {})
    <3>1. CASE cli.left = {r}
      BY <2>1, <2>5, <3>1 DEF C!FanOut
    <3>2. CASE cli.left # {r}
      <4>1. cli' = [cli EXCEPT !.left = @ \ {r}] /\ cli.step = "fan" /\ r \in cli.left
        BY <2>5, <3>2 DEF C!FanOut
      <4> QED
        BY <2>1, <3>2, <4>1 DEF CancelInv, C!TypeOK
    <3> QED
      BY <3>1, <3>2
  <2> QED
    BY <2>2, <2>3, <2>4, <2>5
<1>4. C!TypeOK'
  BY <1>1, <1>2, <1>3 DEF CancelInv, C!TypeOK
<1> QED
  BY <1>1, <1>4 DEF CancelInv, CancelHeld, C!Pending

LEMMA RootSteps ==
  ASSUME C!CancellationAssumption, CancelInv, C!Restart \/ \E s \in C!Subject : C!Mirror(s)
  PROVE  CancelInv'
<1> USE DEF C!counters
<1>1. CASE C!Restart
  <2>1. C!TypeOK'
    BY <1>1 DEF C!CancellationAssumption, C!Restart, C!Replayed, CancelInv, C!TypeOK
  <2>2. CancelHeld'
    BY <1>1 DEF C!Restart, C!Replayed, C!Keys, CancelHeld, C!Pending
  <2> QED
    BY <2>1, <2>2 DEF CancelInv
<1>2. ASSUME NEW s \in C!Subject, C!Mirror(s) PROVE CancelInv'
  <2>1. C!TypeOK'
    BY <1>2 DEF C!Mirror, CancelInv, C!TypeOK
  <2>2. CancelHeld'
    BY <1>2 DEF C!Mirror, CancelInv, CancelHeld, C!Pending
  <2> QED
    BY <2>1, <2>2 DEF CancelInv
<1> QED
  BY <1>1, <1>2

-----------------------------------------------------------------------------
(* Requests. *)

LEMMA RequestTypes ==
  ASSUME C!CancellationAssumption, C!TypeOK, NEW d \in Dispatch,
         \/ C!Emit(d) \/ C!Observe(d) \/ C!Start(d)
         \/ C!MarkCancelled(d) \/ C!Drain(d) \/ C!CheckStep(d) \/ C!Finish(d)
  PROVE  C!TypeOK'
<1> USE DEF C!counters
<1>1. UNCHANGED <<table, news, cli, commands, boots>>
  BY DEF C!Emit, C!Observe, C!Start, C!MarkCancelled, C!Drain, C!CheckStep, C!Finish
<1>2. at' \in [Dispatch -> RequestPlaces]
  BY DEF C!TypeOK, C!Emit, C!Observe, C!Start, C!MarkCancelled, C!Drain, C!CheckStep,
         C!Finish, RequestPlaces
<1>3. row' \in [Run -> {"none", "open"} \cup C!Terminal]
  BY DEF C!CancellationAssumption, C!TypeOK, C!Emit, C!Observe, C!Start, C!MarkCancelled,
         C!Drain, C!CheckStep, C!Finish, C!Terminal
<1>4. entries' \subseteq C!Subject /\ bound' \subseteq Dispatch
  BY DEF C!TypeOK, C!Emit, C!Observe, C!Start, C!MarkCancelled, C!Drain, C!CheckStep,
         C!Finish
<1>5. failures' \in 0..MaxFaults
  BY DEF C!CancellationAssumption, C!TypeOK, C!Emit, C!Observe, C!Start, C!MarkCancelled,
         C!Drain, C!CheckStep, C!Finish
<1> QED
  BY <1>1, <1>2, <1>3, <1>4, <1>5 DEF C!TypeOK, RequestPlaces

LEMMA RequestSteps ==
  ASSUME C!CancellationAssumption, CancelInv, NEW d \in Dispatch,
         \/ C!Emit(d) \/ C!Observe(d) \/ C!Start(d)
         \/ C!MarkCancelled(d) \/ C!Drain(d) \/ C!CheckStep(d) \/ C!Finish(d)
  PROVE  CancelInv'
<1> USE DEF C!counters
<1>1. C!TypeOK'
  BY RequestTypes DEF CancelInv
<1>2. CASE C!Drain(d)
  <2>1. /\ entries' = entries \ {RunOf[d]}
        /\ bound' = {e \in bound : RunOf[e] = RunOf[d] => KeyOf[e] \in entries}
        /\ at' = [at EXCEPT ![d] = "aborted"]
    BY <1>2 DEF C!Drain, C!Consumed
  <2>2. ASSUME NEW e \in bound' PROVE C!Pending(e)' /\ at'[e] # "leasing"
    <3>1. e \in bound /\ e \in Dispatch /\ (RunOf[e] = RunOf[d] => KeyOf[e] \in entries)
      BY <2>1, <2>2 DEF CancelInv, C!TypeOK
    <3>2. RunOf[d] # KeyOf[e]
      BY <3>1, KeysApart
    <3>3. (RunOf[e] \in entries \/ KeyOf[e] \in entries) /\ at[e] # "leasing"
      BY <3>1 DEF CancelInv, CancelHeld, C!Pending
    <3> QED
      BY <2>1, <3>1, <3>2, <3>3 DEF CancelInv, C!TypeOK, C!Pending
  <2> QED
    BY <1>1, <2>2 DEF CancelInv, CancelHeld
<1>3. CASE C!Observe(d)
  <2>1. /\ UNCHANGED <<entries, bound>>
        /\ at' = [at EXCEPT ![d] = IF C!Pending(d) THEN "aborting" ELSE "leasing"]
    BY <1>3 DEF C!Observe
  <2>2. \A e \in bound : C!Pending(e)' /\ at'[e] # "leasing"
    BY <2>1 DEF CancelInv, C!TypeOK, CancelHeld, C!Pending
  <2> QED
    BY <1>1, <2>1, <2>2 DEF CancelInv, CancelHeld
<1>4. CASE C!Emit(d) \/ C!Start(d) \/ C!MarkCancelled(d) \/ C!CheckStep(d) \/ C!Finish(d)
  <2>1. /\ UNCHANGED <<entries, bound>>
        /\ \E to \in RequestPlaces \ {"leasing"} : at' = [at EXCEPT ![d] = to]
    BY <1>4 DEF C!Emit, C!Start, C!MarkCancelled, C!CheckStep, C!Finish, RequestPlaces
  <2>2. \A e \in bound : C!Pending(e)' /\ at'[e] # "leasing"
    BY <2>1 DEF CancelInv, C!TypeOK, CancelHeld, C!Pending
  <2> QED
    BY <1>1, <2>1, <2>2 DEF CancelInv, CancelHeld
<1> QED
  BY <1>2, <1>3, <1>4

-----------------------------------------------------------------------------
LEMMA StepCancel ==
  ASSUME C!CancellationAssumption
  PROVE  CancelInv /\ [C!Next]_(C!vars) => CancelInv'
<1> SUFFICES ASSUME CancelInv, [C!Next]_(C!vars) PROVE CancelInv'
  OBVIOUS
<1>1. CASE UNCHANGED C!vars
  BY <1>1 DEF C!vars, C!counters, CancelInv, C!TypeOK, CancelHeld, C!Pending
<1> QED
  BY <1>1, CommandSteps, RootSteps, RequestSteps DEF C!Next

LEMMA CancelInvariant ==
  ASSUME C!CancellationAssumption
  PROVE  C!Spec => []CancelInv
  BY InitCancel, StepCancel, PTL DEF C!Spec

\* Type correctness: in particular the command has runs left exactly while it fans out.
THEOREM CancellationTypeCorrect ==
  ASSUME C!CancellationAssumption
  PROVE  C!Spec => []C!TypeOK
<1>1. CancelInv => C!TypeOK
  BY DEF CancelInv
<1> QED
  BY <1>1, CancelInvariant, PTL

\* A request for which a row pending at startup speaks does not start before a runner has
\* drained that cancel, whatever else the command, the mirroring and the runners do.
THEOREM CancelsSurvive ==
  ASSUME C!CancellationAssumption
  PROVE  C!Spec => C!CancelSurvives
<1>1. ASSUME CancelInv, [C!Next]_(C!vars)
      PROVE  [\A d \in Dispatch : at[d] = "leasing" /\ at'[d] = "running"
                => d \notin bound]_(C!vars)
  BY <1>1 DEF CancelInv, CancelHeld
<1> QED
  BY <1>1, CancelInvariant, PTL DEF C!Spec, C!CancelSurvives
=============================================================================
