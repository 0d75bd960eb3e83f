------------------------ MODULE SpecialistIntake_proofs ------------------------
(***************************************************************************)
(* For any finite set of issues and any numbers of permits, appearances    *)
(* and faults: the type invariant of SpecialistIntake, and that no         *)
(* appearance of an issue is requested or dispatched twice.                *)
(*                                                                         *)
(* OncePerVisit is not inductive: it needs that no request is ahead of its *)
(* issue's appearances, and that a request of the present appearance is    *)
(* covered by a claim (Claimed).                                           *)
(***************************************************************************)
EXTENDS SpecialistIntake, FiniteSetTheorems, TLAPS

Lists == Seq(Req)

Total(r) ==
    Count(queue, r) + Count(deferred, r) + Count(work, r) + Count(parked, r) + Count(done, r)

\* An issue that is shown has appeared; one that is about to appear has a visit left.
Visits ==
    \A i \in Issue :
        /\ i \in store => visit[i] >= 1
        /\ i \in tracker /\ i \notin store => visit[i] < MaxVisits[i]

\* Between two passes nothing is left over.
PassShape == pass = "idle" => work = <<>> /\ parked = <<>>

TypeInv == TypeOK /\ IsFiniteSet(tasks) /\ Visits /\ PassShape

Claimed ==
    \A r \in Req : Total(r) > 0 =>
        /\ r.visit <= visit[r.issue]
        /\ r.issue \in store /\ r.visit = visit[r.issue] => r.issue \in claimed

IInv == TypeInv /\ OncePerVisit /\ Claimed

LEMMA Requests ==
  /\ \A r \in Req : r.issue \in Issue /\ r.visit \in 1..MaxVisits[r.issue]
  /\ \A i \in Issue : \A v \in 1..MaxVisits[i] : [issue |-> i, visit |-> v] \in Req
  /\ \A i \in Issue : MaxVisits[i] \in Nat \ {0}
  BY IntakeAssumption DEF Req

-----------------------------------------------------------------------------
(* Occurrences in a list. *)

LEMMA CountFinite ==
  ASSUME NEW s \in Lists, NEW r
  PROVE  IsFiniteSet({k \in 1..Len(s) : s[k] = r}) /\ Count(s, r) \in Nat
<1>1. IsFiniteSet(1..Len(s)) /\ {k \in 1..Len(s) : s[k] = r} \subseteq 1..Len(s)
  BY FS_Interval DEF Lists
<1> QED
  BY <1>1, FS_Subset, FS_CardinalityType DEF Count

LEMMA CountEmpty == \A r : Count(<<>>, r) = 0
<1> TAKE r
<1>1. {k \in 1..Len(<<>>) : <<>>[k] = r} = {}
  OBVIOUS
<1> QED
  BY <1>1, FS_EmptySet DEF Count

LEMMA CountConcat ==
  ASSUME NEW s \in Lists, NEW t \in Lists, NEW r
  PROVE  Count(s \o t, r) = Count(s, r) + Count(t, r)
<1> DEFINE A == {k \in 1..Len(s) : s[k] = r}
           B == {k \in 1..Len(t) : t[k] = r}
           C == {k \in (Len(s) + 1)..(Len(s) + Len(t)) : t[k - Len(s)] = r}
           shift == [k \in B |-> k + Len(s)]
<1>1. /\ s \o t \in Lists /\ Len(s \o t) = Len(s) + Len(t) /\ Len(s) \in Nat /\ Len(t) \in Nat
      /\ \A k \in 1..Len(s) : (s \o t)[k] = s[k]
      /\ \A k \in (Len(s) + 1)..(Len(s) + Len(t)) : (s \o t)[k] = t[k - Len(s)]
  BY DEF Lists
<1>2. {k \in 1..Len(s \o t) : (s \o t)[k] = r} = A \cup C
  BY <1>1
<1>3. A \cap C = {}
  BY <1>1
<1>4. IsFiniteSet(A) /\ IsFiniteSet(B) /\ Cardinality(A) \in Nat /\ Cardinality(B) \in Nat
  BY CountFinite DEF Count
<1>5. ExistsBijection(B, C)
  <2>1. shift \in [B -> C]
    BY <1>1
  <2>2. \A x, y \in B : shift[x] = shift[y] => x = y
    BY <1>1
  <2>3. \A c \in C : \E x \in B : shift[x] = c
    <3> TAKE c \in C
    <3>1. c - Len(s) \in B
      BY <1>1
    <3>2. shift[c - Len(s)] = c
      BY <1>1, <3>1
    <3> QED
      BY <3>1, <3>2
  <2> HIDE DEF A, B, C, shift
  <2>4. shift \in Bijection(B, C)
    BY <2>1, <2>2, <2>3 DEF Bijection, Injection, Surjection, IsInjective
  <2> QED
    BY <2>4 DEF ExistsBijection
<1>6. IsFiniteSet(C) /\ Cardinality(C) = Cardinality(B)
  BY <1>4, <1>5, FS_Bijection
<1>7. Cardinality(A \cup C) = Cardinality(A) + Cardinality(C) - Cardinality(A \cap C)
  BY <1>4, <1>6, FS_Union
<1>8. Cardinality(A \cap C) = 0
  BY <1>3, FS_EmptySet
<1>9. /\ Count(s \o t, r) = Cardinality(A \cup C)
      /\ Count(s, r) = Cardinality(A) /\ Count(t, r) = Cardinality(B)
  BY <1>2 DEF Count
<1> HIDE DEF A, B, C
<1> QED
  BY <1>4, <1>6, <1>7, <1>8, <1>9

One(x, r) == IF x = r THEN 1 ELSE 0

LEMMA CountSingle == \A x, r : Count(<<x>>, r) = One(x, r)
<1> TAKE x, r
<1>1. {k \in 1..Len(<<x>>) : <<x>>[k] = r} = IF x = r THEN {1} ELSE {}
  OBVIOUS
<1> QED
  BY <1>1, FS_EmptySet, FS_Singleton DEF Count, One

LEMMA CountAppend ==
  ASSUME NEW s \in Lists, NEW x \in Req, NEW r
  PROVE  Append(s, x) \in Lists /\ Count(Append(s, x), r) = Count(s, r) + One(x, r)
<1>1. <<x>> \in Lists /\ Append(s, x) = s \o <<x>> /\ Append(s, x) \in Lists
  BY DEF Lists
<1> QED
  BY <1>1, CountConcat, CountSingle

LEMMA CountTail ==
  ASSUME NEW s \in Lists, s # <<>>, NEW r
  PROVE  /\ Head(s) \in Req /\ Tail(s) \in Lists
         /\ Count(s, r) = Count(Tail(s), r) + One(Head(s), r)
<1>1. Head(s) \in Req /\ Tail(s) \in Lists /\ <<Head(s)>> \in Lists
  BY DEF Lists
<1>2. s = <<Head(s)>> \o Tail(s)
  BY DEF Lists
<1> DEFINE h == <<Head(s)>>
           t == Tail(s)
<1>3. Count(h \o t, r) = Count(h, r) + Count(t, r)
  BY <1>1, CountConcat
<1>4. Count(h, r) = One(Head(s), r) /\ One(Head(s), r) \in {0, 1} /\ Count(t, r) \in Nat
  BY <1>1, CountSingle, CountFinite DEF One
<1>5. Count(s, r) = Count(h \o t, r)
  BY <1>2
<1> HIDE DEF h
<1> QED
  BY <1>1, <1>3, <1>4, <1>5

-----------------------------------------------------------------------------
(* Types. *)

LEMMA Emitted ==
  ASSUME TypeInv, NEW S \in SUBSET (store \cap Routable), NEW order \in SetToSeqs(S)
  PROVE  /\ Asked(order) \in Lists
         /\ \A k \in 1..Len(Asked(order)) :
               /\ Asked(order)[k].issue \in S
               /\ Asked(order)[k].visit = visit[Asked(order)[k].issue]
         /\ \A j, k \in 1..Len(Asked(order)) : j # k => Asked(order)[j] # Asked(order)[k]
<1> DEFINE n == Cardinality(S)
           s == Asked(order)
<1>1. n \in Nat
  BY IntakeAssumption, FS_Subset, FS_CardinalityType DEF TypeInv, TypeOK
<1>2. order \in [1..n -> S] /\ \A i, j \in 1..n : i # j => order[i] # order[j]
  BY DEF SetToSeqs
<1> HIDE DEF n
<1>3. s = [k \in 1..n |-> [issue |-> order[k], visit |-> visit[order[k]]]]
  BY <1>2 DEF Asked
<1>4. \A k \in 1..n : [issue |-> order[k], visit |-> visit[order[k]]] \in Req
  <2> TAKE k \in 1..n
  <2>1. order[k] \in store /\ order[k] \in Issue
    BY <1>2 DEF TypeInv, TypeOK
  <2>2. visit[order[k]] \in 1..MaxVisits[order[k]]
    BY <2>1, Requests DEF TypeInv, TypeOK, Visits
  <2> QED
    BY <2>1, <2>2, Requests
<1>5. s \in [1..n -> Req]
  BY <1>3, <1>4
<1>6. s \in Seq(Req) /\ Len(s) = n
  BY <1>1, <1>3, <1>5
<1>7. \A k \in 1..n : s[k].issue = order[k] /\ s[k].visit = visit[order[k]]
  BY <1>3
<1>8. \A j, k \in 1..n : j # k => s[j] # s[k]
  BY <1>2, <1>7
<1> HIDE DEF s
<1>9. /\ s \in Lists
      /\ \A k \in 1..Len(s) : s[k].issue \in S /\ s[k].visit = visit[s[k].issue]
      /\ \A j, k \in 1..Len(s) : j # k => s[j] # s[k]
  BY <1>2, <1>6, <1>7, <1>8 DEF Lists
<1> QED
  BY <1>9 DEF s

LEMMA InitTypes == Init => TypeInv
<1> SUFFICES ASSUME Init PROVE TypeInv
  OBVIOUS
<1>1. IsFiniteSet(tasks) /\ Cardinality(tasks) = 0
  BY FS_EmptySet DEF Init
<1>2. \A s \in {queue, deferred, work, parked, done, emitted} : s \in Seq(Req)
  <2>1. <<>> \in Seq(Req)
    OBVIOUS
  <2>2. \A s \in {queue, deferred, work, parked, done, emitted} : s = <<>>
    BY DEF Init
  <2> QED
    BY <2>1, <2>2
<1>3. TypeOK
  BY <1>1, <1>2, IntakeAssumption DEF Init, TypeOK
<1>4. Visits /\ PassShape
  BY IntakeAssumption DEF Init, Visits, PassShape
<1> QED
  BY <1>1, <1>3, <1>4 DEF TypeInv

LEMMA ListTypes ==
  ASSUME TypeInv
  PROVE  /\ queue \in Lists /\ deferred \in Lists /\ work \in Lists
         /\ parked \in Lists /\ done \in Lists /\ emitted \in Lists
  BY DEF TypeInv, TypeOK, Lists

LEMMA WorldTypes ==
  ASSUME TypeInv,
         \/ \E i \in Issue : TrackerChanges(i) \/ BlockerChanges(i)
         \/ StartPass \/ FetchFails \/ Stop
  PROVE  TypeInv'
<1> USE DEF sched, runner, claims
<1>1. /\ UNCHANGED <<store, visit, claims, queue, runner>>
      /\ tracker' \subseteq Issue /\ blocked' \subseteq Issue
      /\ at' \in {"asleep", "fetching", "specialist", "stopped"} /\ faults' \in 0..MaxFaults
  BY IntakeAssumption
     DEF TypeInv, TypeOK, TrackerChanges, BlockerChanges, StartPass, FetchFails, Stop
<1>2. \A i \in tracker' : i \in tracker \/ visit[i] < MaxVisits[i]
  BY DEF TrackerChanges, BlockerChanges, StartPass, FetchFails, Stop
<1>3. TypeOK'
  BY <1>1 DEF TypeInv, TypeOK
<1> QED
  BY <1>1, <1>2, <1>3 DEF TypeInv, Visits, PassShape

LEMMA PublishTypes ==
  ASSUME TypeInv, Publish
  PROVE  TypeInv'
<1> USE DEF runner, claims
<1>1. /\ store' = tracker /\ at' = "specialist"
      /\ visit' = [i \in Issue |-> IF i \in tracker \ store THEN visit[i] + 1 ELSE visit[i]]
      /\ UNCHANGED <<tracker, blocked, claims, queue, runner, faults>>
  BY DEF Publish
<1>2. \A i \in Issue : visit[i] \in Nat /\ visit[i] <= MaxVisits[i]
  BY DEF TypeInv, TypeOK
<1>3. \A i \in Issue : /\ visit'[i] \in Nat /\ visit'[i] <= MaxVisits[i]
                       /\ i \in tracker => visit'[i] >= 1
  BY <1>1, <1>2, Requests DEF TypeInv, Visits
<1>4. TypeOK'
  <2>1. visit' \in [Issue -> Nat]
    BY <1>1, <1>2
  <2> QED
    BY <1>1, <1>3, <2>1 DEF TypeInv, TypeOK
<1> QED
  BY <1>1, <1>3, <1>4 DEF TypeInv, Visits, PassShape

LEMMA TickTypes ==
  ASSUME TypeInv, SpecialistTick
  PROVE  TypeInv'
<1> USE DEF runner, claims
<1>0. PICK failed \in SUBSET Eligible :
          /\ faults + Cardinality(failed) <= MaxFaults
          /\ faults' = faults + Cardinality(failed)
          /\ \E order \in SetToSeqs(Eligible \ failed) :
                queue' = queue \o Asked(order) /\ emitted' = emitted \o Asked(order)
          /\ claimed' = Pruned \cup (Eligible \ failed)
  BY DEF SpecialistTick
<1>1. PICK order \in SetToSeqs(Eligible \ failed) :
          queue' = queue \o Asked(order) /\ emitted' = emitted \o Asked(order)
  BY <1>0
<1>2. at' = "asleep" /\ UNCHANGED <<tracker, blocked, store, visit, runner>>
  BY DEF SpecialistTick
<1>3. Eligible \subseteq store \cap Routable
  BY DEF Eligible
<1>4. Cardinality(failed) \in Nat
  BY <1>3, IntakeAssumption, FS_Subset, FS_CardinalityType DEF TypeInv, TypeOK
<1>5. queue' \in Seq(Req) /\ emitted' \in Seq(Req)
  <2>1. Eligible \ failed \in SUBSET (store \cap Routable)
    BY <1>3
  <2>2. Asked(order) \in Lists
    BY <2>1, Emitted
  <2> QED
    BY <1>1, <2>2, ListTypes DEF Lists
<1>6. claimed' \subseteq Issue
  BY <1>0, <1>3 DEF TypeInv, TypeOK, Pruned
<1>7. faults' \in 0..MaxFaults
  BY <1>0, <1>4, IntakeAssumption DEF TypeInv, TypeOK
<1>8. TypeOK'
  BY <1>2, <1>5, <1>6, <1>7 DEF TypeInv, TypeOK
<1> QED
  BY <1>2, <1>8 DEF TypeInv, Visits, PassShape

LEMMA RunnerTypes ==
  ASSUME TypeInv, RunnerStep \/ \E r \in Req : TaskEnds(r)
  PROVE  TypeInv'
<1> USE DEF sched, claims
<1>1. UNCHANGED <<tracker, blocked, sched, claims, faults>>
  BY DEF RunnerStep, Drain, Snapshot, DropMissing, Park, Spawn, EndPass, TaskEnds
<1>2. CASE Drain
  <2>1. work' \in Lists /\ deferred' \in Lists /\ queue' \in Lists
    BY <1>2, ListTypes DEF Drain, Lists
  <2> QED
    BY <1>1, <1>2, <2>1 DEF Drain, TypeInv, TypeOK, Visits, PassShape, Lists
<1>3. CASE Snapshot
  BY <1>1, <1>3 DEF Snapshot, TypeInv, TypeOK, Visits, PassShape
<1>4. CASE DropMissing \/ Park \/ Spawn
  <2>1. /\ work # <<>> /\ pass = "walking" /\ work' = Tail(work)
        /\ UNCHANGED <<queue, pass, snap, deferred>>
    BY <1>4 DEF DropMissing, Park, Spawn, Walk
  <2>2. Head(work) \in Req /\ work' \in Lists
    BY <2>1, ListTypes, CountTail
  <2>3. parked' \in Lists /\ done' \in Lists
    BY <1>4, <2>2, ListTypes, CountAppend DEF DropMissing, Park, Spawn
  <2>4. tasks' \subseteq Req /\ IsFiniteSet(tasks') /\ Cardinality(tasks') <= MaxInFlight
    <3>1. /\ tasks \subseteq Req /\ IsFiniteSet(tasks) /\ Cardinality(tasks) <= MaxInFlight
          /\ Cardinality(tasks) \in Nat /\ MaxInFlight \in Nat
      BY IntakeAssumption, FS_CardinalityType DEF TypeInv, TypeOK
    <3>2. CASE DropMissing \/ Park
      BY <3>1, <3>2 DEF DropMissing, Park
    <3>3. CASE Spawn
      <4>1. tasks' = tasks \cup {Head(work)} /\ Cardinality(tasks) < MaxInFlight
        BY <3>3 DEF Spawn
      <4>2. IsFiniteSet(tasks') /\ Cardinality(tasks') \in {Cardinality(tasks), Cardinality(tasks) + 1}
        BY <3>1, <4>1, FS_AddElement
      <4> QED
        BY <2>2, <3>1, <4>1, <4>2
    <3> QED
      BY <1>4, <3>2, <3>3
  <2> QED
    BY <1>1, <2>1, <2>2, <2>3, <2>4 DEF TypeInv, TypeOK, Visits, PassShape, Lists
<1>5. CASE EndPass
  <2>1. deferred' \in Lists /\ parked' \in Lists
    BY <1>5, ListTypes DEF EndPass, Lists
  <2> QED
    BY <1>1, <1>5, <2>1 DEF EndPass, TypeInv, TypeOK, Visits, PassShape, Lists
<1>6. ASSUME NEW r \in Req, TaskEnds(r) PROVE TypeInv'
  <2>1. IsFiniteSet(tasks') /\ Cardinality(tasks') <= MaxInFlight /\ tasks' \subseteq Req
    <3>1. tasks' \in SUBSET tasks
      BY <1>6 DEF TaskEnds
    <3>2. IsFiniteSet(tasks') /\ Cardinality(tasks') <= Cardinality(tasks)
      BY <3>1, FS_Subset DEF TypeInv
    <3>3. /\ Cardinality(tasks') \in Nat /\ Cardinality(tasks) \in Nat /\ MaxInFlight \in Nat
          /\ Cardinality(tasks) <= MaxInFlight /\ tasks \subseteq Req
      BY <3>2, IntakeAssumption, FS_CardinalityType DEF TypeInv, TypeOK
    <3> QED
      BY <3>1, <3>2, <3>3
  <2> QED
    BY <1>1, <1>6, <2>1 DEF TaskEnds, TypeInv, TypeOK, Visits, PassShape
<1> QED
  BY <1>2, <1>3, <1>4, <1>5, <1>6 DEF RunnerStep

LEMMA StepTypes == TypeInv /\ [Next]_vars => TypeInv'
<1> SUFFICES ASSUME TypeInv, [Next]_vars PROVE TypeInv'
  OBVIOUS
<1>1. CASE UNCHANGED vars
  BY <1>1 DEF vars, sched, claims, runner, TypeInv, TypeOK, Visits, PassShape
<1> QED
  BY <1>1, WorldTypes, PublishTypes, TickTypes, RunnerTypes DEF Next

\* Type correctness: in particular no more dispatches than permits, and no issue with more
\* appearances than the bound allows.
THEOREM TypeCorrect == Spec => []TypeOK
<1>1. TypeInv => TypeOK
  BY DEF TypeInv
<1> QED
  BY <1>1, InitTypes, StepTypes, PTL DEF Spec

-----------------------------------------------------------------------------
(* One request and one dispatch for an appearance. *)

LEMMA Totals ==
  ASSUME TypeInv, NEW r
  PROVE  /\ Count(queue, r) \in Nat /\ Count(deferred, r) \in Nat /\ Count(work, r) \in Nat
         /\ Count(parked, r) \in Nat /\ Count(done, r) \in Nat /\ Total(r) \in Nat
<1>1. /\ Count(queue, r) \in Nat /\ Count(deferred, r) \in Nat /\ Count(work, r) \in Nat
      /\ Count(parked, r) \in Nat /\ Count(done, r) \in Nat
  BY ListTypes, CountFinite
<1> QED
  BY <1>1 DEF Total

LEMMA OnceRestated == OncePerVisit <=> \A r \in Req : Total(r) <= 1
  BY DEF OncePerVisit, Total

\* A step that adds no occurrence and leaves claims and appearances alone.
LEMMA NoneAdded ==
  ASSUME IInv, TypeInv', UNCHANGED <<visit, store, claimed>>,
         \A r \in Req : Total(r)' \in 0..Total(r)
  PROVE  OncePerVisit' /\ Claimed'
<1>1. \A r \in Req : Total(r) \in Nat /\ Total(r) <= 1
  BY Totals, OnceRestated DEF IInv
<1>2. \A r \in Req : Total(r)' <= 1 /\ (Total(r)' > 0 => Total(r) > 0)
  BY <1>1
<1>3. OncePerVisit'
  BY <1>2 DEF OncePerVisit, Total
<1>4. Claimed'
  BY <1>2 DEF IInv, Claimed
<1> QED
  BY <1>3, <1>4

LEMMA PassOnce ==
  ASSUME IInv, TypeInv', RunnerStep \/ \E r \in Req : TaskEnds(r)
  PROVE  OncePerVisit' /\ Claimed'
<1> USE DEF sched, claims
<1>1. UNCHANGED <<visit, store, claimed>>
  BY DEF RunnerStep, Drain, Snapshot, DropMissing, Park, Spawn, EndPass, TaskEnds
<1>2. /\ queue \in Lists /\ deferred \in Lists /\ work \in Lists
      /\ parked \in Lists /\ done \in Lists
  BY ListTypes DEF IInv
<1>3. ASSUME NEW r \in Req PROVE Total(r)' \in 0..Total(r)
  <2>1. /\ Count(queue, r) \in Nat /\ Count(deferred, r) \in Nat /\ Count(work, r) \in Nat
        /\ Count(parked, r) \in Nat /\ Count(done, r) \in Nat /\ Count(<<>>, r) = 0
    BY Totals, CountEmpty DEF IInv
  <2>2. CASE Drain
    <3>1. Count(deferred \o queue, r) = Count(deferred, r) + Count(queue, r)
      BY <1>2, CountConcat
    <3>2. /\ queue' = <<>> /\ deferred' = <<>> /\ work' = deferred \o queue
          /\ parked' = parked /\ done' = done
      BY <2>2 DEF Drain
    <3>3. Total(r)' = Count(<<>>, r) + Count(<<>>, r) + Count(deferred \o queue, r)
                        + Count(parked, r) + Count(done, r)
      BY <3>2 DEF Total
    <3> QED
      BY <2>1, <3>1, <3>3 DEF Total
  <2>3. CASE DropMissing \/ Park \/ Spawn
    <3>1. /\ work # <<>> /\ work' = Tail(work) /\ UNCHANGED <<queue, deferred>>
      BY <2>3 DEF DropMissing, Park, Spawn, Walk
    <3>2. /\ Head(work) \in Req /\ Tail(work) \in Lists
          /\ Count(work, r) = Count(Tail(work), r) + One(Head(work), r)
      BY <1>2, <3>1, CountTail
    <3>3. /\ Count(Append(parked, Head(work)), r) = Count(parked, r) + One(Head(work), r)
          /\ Count(Append(done, Head(work)), r) = Count(done, r) + One(Head(work), r)
      BY <1>2, <3>2, CountAppend
    <3>4. One(Head(work), r) \in {0, 1} /\ Count(Tail(work), r) \in Nat
      BY <3>2, CountFinite DEF One
    <3>5. Total(r)' = Count(queue, r) + Count(deferred, r) + Count(Tail(work), r)
                        + Count(parked', r) + Count(done', r)
      BY <3>1 DEF Total
    <3>6. CASE DropMissing
      <4>1. parked' = parked /\ done' = done
        BY <3>6 DEF DropMissing
      <4> QED
        BY <2>1, <3>2, <3>4, <3>5, <4>1 DEF Total
    <3>7. CASE Park
      <4>1. parked' = Append(parked, Head(work)) /\ done' = done
        BY <3>7 DEF Park
      <4> QED
        BY <2>1, <3>2, <3>3, <3>4, <3>5, <4>1 DEF Total
    <3>8. CASE Spawn
      <4>1. parked' = parked /\ done' = Append(done, Head(work))
        BY <3>8 DEF Spawn
      <4> QED
        BY <2>1, <3>2, <3>3, <3>4, <3>5, <4>1 DEF Total
    <3> QED
      BY <2>3, <3>6, <3>7, <3>8
  <2>4. CASE EndPass
    <3>1. Count(parked \o deferred, r) = Count(parked, r) + Count(deferred, r)
      BY <1>2, CountConcat
    <3>2. /\ deferred' = parked \o deferred /\ parked' = <<>>
          /\ queue' = queue /\ work' = work /\ done' = done
      BY <2>4 DEF EndPass
    <3>3. Total(r)' = Count(queue, r) + Count(parked \o deferred, r) + Count(work, r)
                        + Count(<<>>, r) + Count(done, r)
      BY <3>2 DEF Total
    <3> QED
      BY <2>1, <3>1, <3>3 DEF Total
  <2>5. CASE Snapshot \/ \E q \in Req : TaskEnds(q)
    <3>1. UNCHANGED <<queue, deferred, work, parked, done>>
      BY <2>5 DEF Snapshot, TaskEnds
    <3> QED
      BY <2>1, <3>1 DEF Total
  <2> QED
    BY <2>2, <2>3, <2>4, <2>5 DEF RunnerStep
<1> QED
  BY <1>1, <1>3, NoneAdded

LEMMA PublishOnce ==
  ASSUME IInv, TypeInv', Publish
  PROVE  OncePerVisit' /\ Claimed'
<1>1. /\ store' = tracker
      /\ visit' = [i \in Issue |-> IF i \in tracker \ store THEN visit[i] + 1 ELSE visit[i]]
      /\ UNCHANGED <<claimed, queue, deferred, work, parked, done>>
  BY DEF Publish, runner, claims
<1>2. \A r \in Req : Total(r)' = Total(r)
  BY <1>1 DEF Total
<1>3. OncePerVisit'
  BY <1>1 DEF OncePerVisit, IInv
<1>4. ASSUME NEW r \in Req, Total(r) > 0
      PROVE  /\ r.visit <= visit'[r.issue]
             /\ r.issue \in store' /\ r.visit = visit'[r.issue] => r.issue \in claimed
  <2>1. r.issue \in Issue /\ r.visit \in Nat /\ visit[r.issue] \in Nat
    BY Requests DEF IInv, TypeInv, TypeOK
  <2>2. /\ r.visit <= visit[r.issue]
        /\ r.issue \in store /\ r.visit = visit[r.issue] => r.issue \in claimed
    BY <1>4 DEF IInv, Claimed
  <2> QED
    BY <1>1, <2>1, <2>2
<1>5. Claimed'
  BY <1>1, <1>2, <1>4 DEF Claimed
<1> QED
  BY <1>3, <1>5

LEMMA TickOnce ==
  ASSUME IInv, TypeInv', SpecialistTick
  PROVE  OncePerVisit' /\ Claimed'
<1>1. PICK failed \in SUBSET Eligible :
          /\ \E order \in SetToSeqs(Eligible \ failed) :
                queue' = queue \o Asked(order) /\ emitted' = emitted \o Asked(order)
          /\ claimed' = Pruned \cup (Eligible \ failed)
  BY DEF SpecialistTick
<1>2. PICK order \in SetToSeqs(Eligible \ failed) :
          queue' = queue \o Asked(order) /\ emitted' = emitted \o Asked(order)
  BY <1>1
<1> DEFINE s == Asked(order)
           S == Eligible \ failed
<1>3. UNCHANGED <<store, visit, deferred, work, parked, done>>
  BY DEF SpecialistTick, runner
<1>4. S \in SUBSET (store \cap Routable) /\ S \cap Pruned = {}
  BY DEF Eligible
<1>5. /\ s \in Lists
      /\ \A k \in 1..Len(s) : s[k].issue \in S /\ s[k].visit = visit[s[k].issue]
      /\ \A j, k \in 1..Len(s) : j # k => s[j] # s[k]
  <2>1. TypeInv /\ order \in SetToSeqs(S)
    BY DEF IInv
  <2> HIDE DEF S
  <2> QED
    BY <1>4, <2>1, Emitted
<1>6. queue' = queue \o s /\ claimed' = Pruned \cup S
  BY <1>1, <1>2
<1> HIDE DEF s, S
<1>7. ASSUME NEW r \in Req
      PROVE  /\ Count(s, r) \in {0, 1}
             /\ Count(s, r) = 1 => r.issue \in S /\ r.visit = visit[r.issue]
  <2> DEFINE T == {k \in 1..Len(s) : s[k] = r}
  <2>1. Count(s, r) = Cardinality(T)
    BY DEF Count
  <2>2. CASE T = {}
    <3>1. Count(s, r) = 0
      BY <2>1, <2>2, FS_EmptySet
    <3> HIDE DEF T
    <3> QED
      BY <3>1
  <2>3. CASE T # {}
    <3>1. PICK k \in 1..Len(s) : s[k] = r
      BY <2>3
    <3>2. T = {k}
      BY <1>5, <3>1
    <3> QED
      BY <1>5, <2>1, <3>1, <3>2, FS_Singleton
  <2> QED
    BY <2>2, <2>3
<1>8. ASSUME NEW r \in Req
      PROVE  Total(r)' = Total(r) + Count(s, r)
  <2>1. Count(queue', r) = Count(queue, r) + Count(s, r)
    BY <1>5, <1>6, ListTypes, CountConcat DEF IInv
  <2>2. Count(s, r) \in Nat
    BY <1>7
  <2> QED
    BY <1>3, <2>1, <2>2, Totals DEF Total, IInv
<1>9. ASSUME NEW r \in Req, Count(s, r) = 1
      PROVE  Total(r) = 0 /\ r.issue \in claimed' /\ r.visit = visit[r.issue]
  <2>1. r.issue \in S /\ r.visit = visit[r.issue]
    BY <1>7, <1>9
  <2>2. r.issue \in store /\ r.issue \notin claimed
    BY <1>4, <2>1 DEF Pruned
  <2>3. ~(Total(r) > 0)
    BY <2>1, <2>2 DEF IInv, Claimed
  <2> QED
    BY <1>6, <2>1, <2>3, Totals DEF IInv
<1>10. \A r \in Req : Total(r) \in Nat /\ Total(r) <= 1
  BY Totals, OnceRestated DEF IInv
<1>11. \A r \in Req : Total(r)' <= 1
  BY <1>7, <1>8, <1>9, <1>10
<1>12. ASSUME NEW r \in Req, Total(r)' > 0
       PROVE  /\ r.visit <= visit'[r.issue]
              /\ r.issue \in store' /\ r.visit = visit'[r.issue] => r.issue \in claimed'
  <2>1. CASE Count(s, r) = 1
    <3>1. r.visit \in Nat
      BY Requests
    <3> QED
      BY <1>3, <1>9, <2>1, <3>1
  <2>2. CASE Count(s, r) = 0
    <3>1. Total(r) > 0
      BY <1>8, <1>10, <1>12, <2>2
    <3>2. /\ r.visit <= visit[r.issue]
          /\ r.issue \in store /\ r.visit = visit[r.issue] => r.issue \in claimed
      BY <3>1 DEF IInv, Claimed
    <3> QED
      BY <1>3, <1>6, <3>2 DEF Pruned
  <2> QED
    BY <1>7, <2>1, <2>2
<1>13. OncePerVisit'
  BY <1>11 DEF OncePerVisit, Total
<1>14. Claimed'
  BY <1>12 DEF Claimed
<1> QED
  BY <1>13, <1>14

LEMMA InitOnce == Init => OncePerVisit /\ Claimed
<1> SUFFICES ASSUME Init PROVE OncePerVisit /\ Claimed
  OBVIOUS
<1>1. \A r \in Req : Total(r) = 0
  BY CountEmpty DEF Init, Total
<1> QED
  BY <1>1, OnceRestated DEF Claimed

LEMMA StepOnce == IInv /\ [Next]_vars => IInv'
<1> SUFFICES ASSUME IInv, [Next]_vars PROVE IInv'
  OBVIOUS
<1>1. TypeInv'
  BY StepTypes DEF IInv
<1>2. CASE \/ \E i \in Issue : TrackerChanges(i) \/ BlockerChanges(i)
           \/ StartPass \/ FetchFails \/ Stop \/ UNCHANGED vars
  <2>1. UNCHANGED <<store, visit, claimed, queue, deferred, work, parked, done>>
    BY <1>2 DEF TrackerChanges, BlockerChanges, StartPass, FetchFails, Stop, vars, sched, claims, runner
  <2>2. \A r \in Req : Total(r)' = Total(r)
    BY <2>1 DEF Total
  <2>3. \A r \in Req : Total(r) \in Nat
    BY Totals DEF IInv
  <2> QED
    BY <1>1, <2>1, <2>2, <2>3, NoneAdded DEF IInv
<1> QED
  BY <1>1, <1>2, PublishOnce, TickOnce, PassOnce DEF Next, IInv

\* One appearance of an issue in the active set is requested and dispatched at most once.
THEOREM AppearanceOnce == Spec => []OncePerVisit
<1>1. Init => IInv
  BY InitTypes, InitOnce DEF IInv
<1>2. IInv => OncePerVisit
  BY DEF IInv
<1> QED
  BY <1>1, <1>2, StepOnce, PTL DEF Spec

-----------------------------------------------------------------------------
(* The refinement: the tick keeps the promise that Emission states.        *)

\* A request of the present appearance of an issue that is shown has its claim.
Covered ==
    \A k \in DOMAIN emitted :
        /\ emitted[k].visit <= visit[emitted[k].issue]
        /\ emitted[k].issue \in store /\ emitted[k].visit = visit[emitted[k].issue]
             => emitted[k].issue \in claimed

LEMMA RequestsMade ==
  ASSUME TypeInv
  PROVE  /\ emitted \in Lists /\ Len(emitted) \in Nat /\ DOMAIN emitted = 1..Len(emitted)
         /\ \A k \in DOMAIN emitted :
               /\ emitted[k] \in Req /\ emitted[k].issue \in Issue
               /\ emitted[k].visit \in Nat /\ visit[emitted[k].issue] \in Nat
<1>1. emitted \in Lists
  BY ListTypes
<1>2. Len(emitted) \in Nat /\ DOMAIN emitted = 1..Len(emitted) /\ \A k \in DOMAIN emitted : emitted[k] \in Req
  BY <1>1 DEF Lists
<1>3. \A r \in Req : r.issue \in Issue /\ r.visit \in Nat /\ visit[r.issue] \in Nat
  BY Requests DEF TypeInv, TypeOK
<1> QED
  BY <1>1, <1>2, <1>3

LEMMA InitPromised == Init => Promise!Init /\ Covered
  BY DEF Init, Promise!Init, Covered, Requested, AskedFor

\* What is published begins appearances; requests of earlier ones are over.
LEMMA PublishPromised ==
  ASSUME TypeInv, Covered, Publish
  PROVE  Promise!SourceMoves /\ Covered'
<1>1. /\ store' = tracker /\ tracker \subseteq Issue
      /\ visit' = [i \in Issue |-> IF i \in tracker \ store THEN visit[i] + 1 ELSE visit[i]]
      /\ UNCHANGED <<claimed, emitted>>
  BY DEF Publish, claims, TypeInv, TypeOK
<1>2. Promise!SourceMoves
  BY <1>1 DEF Promise!SourceMoves, Requested, AskedFor
<1>3. Covered'
  BY <1>1, RequestsMade DEF Covered
<1> QED
  BY <1>2, <1>3

LEMMA TickPromised ==
  ASSUME TypeInv, Covered, SpecialistTick
  PROVE  Promise!Ask /\ Covered'
<1>1. PICK failed \in SUBSET Eligible :
          /\ \E order \in SetToSeqs(Eligible \ failed) : emitted' = emitted \o Asked(order)
          /\ claimed' = Pruned \cup (Eligible \ failed)
  BY DEF SpecialistTick
<1>2. PICK order \in SetToSeqs(Eligible \ failed) : emitted' = emitted \o Asked(order)
  BY <1>1
<1> DEFINE s == Asked(order)
           S == Eligible \ failed
           n == Len(emitted)
<1>3. UNCHANGED <<store, visit>>
  BY DEF SpecialistTick
<1>4. S \in SUBSET (store \cap Routable) /\ S \cap Pruned = {}
  BY DEF Eligible
<1>5. /\ s \in Lists
      /\ \A k \in 1..Len(s) : s[k].issue \in S /\ s[k].visit = visit[s[k].issue]
      /\ \A j, k \in 1..Len(s) : j # k => s[j] # s[k]
  <2>1. order \in SetToSeqs(S)
    OBVIOUS
  <2> HIDE DEF S
  <2> QED
    BY <1>4, <2>1, Emitted
<1>6. \A i \in S : i \in store /\ i \notin claimed /\ i \in claimed'
  BY <1>1, <1>4 DEF Pruned
<1>7. claimed' = Pruned \cup S /\ emitted' = emitted \o s
  BY <1>1, <1>2
<1> HIDE DEF s, S
<1>8. /\ Len(s) \in Nat /\ n \in Nat /\ DOMAIN emitted = 1..n /\ DOMAIN emitted' = 1..(n + Len(s))
      /\ \A k \in 1..n : emitted'[k] = emitted[k]
      /\ \A k \in (n + 1)..(n + Len(s)) : k - n \in 1..Len(s) /\ emitted'[k] = s[k - n]
      /\ \A k \in 1..Len(s) : s[k] \in Req
  BY <1>5, <1>7, RequestsMade DEF Lists
<1> HIDE DEF n
<1>9. /\ Requested = [k \in 1..n |-> [of |-> emitted[k].issue, visit |-> emitted[k].visit]]
      /\ Requested' = [k \in 1..(n + Len(s)) |-> [of |-> emitted'[k].issue, visit |-> emitted'[k].visit]]
  BY <1>8 DEF Requested
<1>10. Len(Requested) = n /\ Len(Requested') = n + Len(s)
  BY <1>8, <1>9
<1>11. \A k \in 1..n : Requested'[k] = Requested[k]
  BY <1>8, <1>9
<1>12. \A k \in (n + 1)..(n + Len(s)) :
          Requested'[k] = [of |-> s[k - n].issue, visit |-> visit[s[k - n].issue]]
  BY <1>5, <1>8, <1>9
<1>13. ASSUME NEW j \in 1..Len(s), NEW k \in 1..Len(s), j # k PROVE s[j].issue # s[k].issue
  <2>1. \A q, r \in Req : q.issue = r.issue /\ q.visit = r.visit => q = r
    BY DEF Req
  <2> QED
    BY <1>5, <1>8, <1>13, <2>1
<1>14. ASSUME NEW k \in (n + 1)..(n + Len(s))
       PROVE  /\ Requested'[k].of \in store
              /\ Requested'[k].visit = visit[Requested'[k].of]
              /\ Requested'[k] \notin AskedFor
              /\ \A j \in (n + 1)..(n + Len(s)) : j # k => Requested'[j] # Requested'[k]
  <2>1. k - n \in 1..Len(s) /\ Requested'[k] = [of |-> s[k - n].issue, visit |-> visit[s[k - n].issue]]
    BY <1>8, <1>12
  <2>2. s[k - n].issue \in store /\ s[k - n].issue \notin claimed
    BY <1>5, <1>6, <2>1
  <2>3. ASSUME NEW j \in 1..n PROVE Requested[j] # Requested'[k]
    <3>1. Requested[j] = [of |-> emitted[j].issue, visit |-> emitted[j].visit]
      BY <1>9
    <3>2. emitted[j].issue \in store /\ emitted[j].visit = visit[emitted[j].issue]
            => emitted[j].issue \in claimed
      BY <1>8 DEF Covered
    <3> QED
      BY <2>1, <2>2, <3>1, <3>2
  <2>4. Requested'[k] \notin AskedFor
    BY <1>8, <2>3 DEF AskedFor
  <2>5. ASSUME NEW j \in (n + 1)..(n + Len(s)), j # k PROVE Requested'[j] # Requested'[k]
    <3>1. j - n \in 1..Len(s) /\ j - n # k - n
      BY <1>8, <2>5
    <3>2. s[j - n].issue # s[k - n].issue
      BY <1>13, <2>1, <3>1
    <3>3. Requested'[j] = [of |-> s[j - n].issue, visit |-> visit[s[j - n].issue]]
      BY <1>12
    <3>4. Requested'[j].of = s[j - n].issue /\ Requested'[k].of = s[k - n].issue
      BY <2>1, <3>3
    <3> QED
      BY <3>2, <3>4
  <2> QED
    BY <2>1, <2>2, <2>4, <2>5
<1>15. Promise!New = (n + 1)..(n + Len(s))
  BY <1>10 DEF Promise!New
<1>16. AskedFor' = AskedFor \cup {Requested'[k] : k \in Promise!New}
  <2>1. AskedFor' = {Requested'[k] : k \in 1..(n + Len(s))} /\ AskedFor = {Requested[k] : k \in 1..n}
    BY <1>8 DEF AskedFor
  <2>2. \A k \in 1..(n + Len(s)) : k \in 1..n \/ k \in (n + 1)..(n + Len(s))
    BY <1>8
  <2>3. \A k \in (n + 1)..(n + Len(s)) : k \in 1..(n + Len(s))
    BY <1>8
  <2>4. \A k \in 1..n : k \in 1..(n + Len(s))
    BY <1>8
  <2> QED
    BY <1>11, <1>15, <2>1, <2>2, <2>3, <2>4
<1>17. Promise!Ask
  <2>1. Len(Requested) <= Len(Requested')
    BY <1>8, <1>10
  <2>2. AskedFor \in SUBSET AskedFor /\ \A k \in Promise!New : Requested'[k] \notin AskedFor
    BY <1>14, <1>15
  <2>3. \A k \in 1..Len(Requested) : Requested'[k] = Requested[k]
    BY <1>10, <1>11
  <2> QED
    BY <1>3, <1>14, <1>15, <1>16, <2>1, <2>2, <2>3 DEF Promise!Ask
<1>18. Covered'
  <2> SUFFICES ASSUME NEW k \in 1..(n + Len(s))
               PROVE  /\ emitted'[k].visit <= visit[emitted'[k].issue]
                      /\ emitted'[k].issue \in store /\ emitted'[k].visit = visit[emitted'[k].issue]
                           => emitted'[k].issue \in claimed'
    BY <1>3, <1>8 DEF Covered
  <2>1. CASE k \in 1..n
    <3>1. /\ emitted[k].visit <= visit[emitted[k].issue]
          /\ emitted[k].issue \in store /\ emitted[k].visit = visit[emitted[k].issue]
               => emitted[k].issue \in claimed
      BY <1>8, <2>1 DEF Covered
    <3> QED
      BY <1>7, <1>8, <2>1, <3>1 DEF Pruned
  <2>2. CASE k \in (n + 1)..(n + Len(s))
    <3>1. /\ emitted'[k] = s[k - n] /\ s[k - n].issue \in S
          /\ s[k - n].visit = visit[s[k - n].issue] /\ s[k - n].visit \in Nat
      BY <1>5, <1>8, <2>2, Requests
    <3> QED
      BY <1>6, <3>1
  <2> QED
    BY <1>8, <2>1, <2>2
<1> QED
  BY <1>17, <1>18

LEMMA StepPromised ==
  ASSUME TypeInv, Covered, [Next]_vars
  PROVE  [Promise!Next]_(Promise!vars) /\ Covered'
<1>1. CASE Publish \/ SpecialistTick
  BY <1>1, PublishPromised, TickPromised DEF Promise!Next
<1>2. CASE ~(Publish \/ SpecialistTick)
  <2>1. UNCHANGED <<store, visit, claimed, emitted>>
    BY <1>2 DEF Next, TrackerChanges, BlockerChanges, StartPass, FetchFails, Stop, RunnerStep, Drain,
                Snapshot, DropMissing, Park, Spawn, EndPass, TaskEnds, vars, sched, claims
  <2>2. UNCHANGED Promise!vars
    BY <2>1 DEF Promise!vars, Requested, AskedFor
  <2> QED
    BY <2>1, <2>2 DEF Covered
<1> QED
  BY <1>1, <1>2

\* The claims of the specialist tick keep the promise of Emission: a request is made
\* while the active set holds the issue, and an appearance in it has at most one.
THEOREM PromiseKept == Spec => OncePerAppearance
<1>1. TypeInv /\ Covered /\ [Next]_vars => [Promise!Next]_(Promise!vars) /\ Covered'
  BY StepPromised
<1>2. Spec => []TypeInv
  BY InitTypes, StepTypes, PTL DEF Spec
<1> QED
  BY <1>1, <1>2, InitPromised, PTL DEF Spec, OncePerAppearance, Promise!Spec
=============================================================================
