--------------------------- MODULE RunLease_proofs ---------------------------
(***************************************************************************)
(* Theorems about RunLease for every set of owners and runs and every TTL, *)
(* margin and pulse cadence that LeaseAssumption admits.                   *)
(***************************************************************************)
EXTENDS RunLease, TLAPS

(***************************************************************************)
(* Types.                                                                  *)
(***************************************************************************)

\* The variables start in their types.
LEMMA InitTypes == Init => TypeOK
  BY LeaseAssumption DEF Init, TypeOK, Remaining, Phase, Vacant

\* Time that has passed stays in Remaining.
LEMMA LessTypes == \A n \in Remaining : Less(n) \in Remaining /\ Less(n) <= n
  BY LeaseAssumption DEF Less, Remaining

\* What a row is set to by an acquisition and by a release.
LEMMA RowTypes ==
    /\ \A o \in Owner : Held(o) \in [owner : Owner \cup {NoOwner}, left : Remaining]
    /\ Vacant \in [owner : Owner \cup {NoOwner}, left : Remaining]
  BY LeaseAssumption DEF Held, Vacant, Remaining

\* -1 and Ttl are what the code's assignments put into a Remaining; 0 into a wait.
LEMMA Bounds == -1 \in Remaining /\ Ttl \in Remaining /\ 0 \in 0..PulseEvery
  BY LeaseAssumption DEF Remaining

\* A heartbeat that leaves the map goes to the pass with its type.
LEMMA DetachTypes ==
  ASSUME TypeOK, NEW o \in Owner, NEW r \in Run, DetachFromPass(o, r)
  PROVE  /\ detached' \in [Owner -> SUBSET Run]
         /\ old' \in [Owner -> [Run -> Remaining]]
<1>1. CASE r \in snap[o] \ detached[o] /\ r \in reg[o]
  <2>a. detached \in [Owner -> SUBSET Run]
    BY DEF TypeOK
  <2>b. detached' = [detached EXCEPT ![o] = detached[o] \cup {r}]
    BY <1>1 DEF DetachFromPass
  <2>1. detached' \in [Owner -> SUBSET Run]
    BY <2>a, <2>b
  <2>2. beat[o][r] \in Remaining
    BY DEF TypeOK
  <2>3. old' = [old EXCEPT ![o][r] = beat[o][r]]
    BY <1>1 DEF DetachFromPass
  <2> QED BY <2>1, <2>2, <2>3 DEF TypeOK
<1>2. CASE ~(r \in snap[o] \ detached[o] /\ r \in reg[o])
  BY <1>2 DEF TypeOK, DetachFromPass
<1> QED BY <1>1, <1>2

\* Every step keeps the variables in their types.
LEMMA StepTypes == TypeOK /\ [Next]_vars => TypeOK'
<1> SUFFICES ASSUME TypeOK, [Next]_vars PROVE TypeOK'
  OBVIOUS
<1> USE RowTypes, Bounds DEF TypeOK
<1>1. ASSUME NEW o \in Owner, NEW r \in Run, Dispatch(o, r) PROVE TypeOK'
  <2>1. lease' \in [Run -> [owner : Owner \cup {NoOwner}, left : Remaining]]
    BY <1>1 DEF Dispatch
  <2>2. task' \in [Owner -> [Run -> Phase]] /\ reg' \in [Owner -> SUBSET Run]
    BY <1>1 DEF Dispatch, Phase
  <2>3. /\ beat' \in [Owner -> [Run -> Remaining]]
        /\ wait' \in [Owner -> [Run -> 0..PulseEvery]]
    BY <1>1 DEF Dispatch
  <2>4. detached' \in [Owner -> SUBSET Run] /\ old' \in [Owner -> [Run -> Remaining]]
    BY <1>1, DetachTypes DEF Dispatch
  <2> QED BY <1>1, <2>1, <2>2, <2>3, <2>4 DEF Dispatch
<1>2. ASSUME NEW o \in Owner, NEW r \in Run, FinishDispatch(o, r) PROVE TypeOK'
  BY <1>2 DEF FinishDispatch, Phase
<1>3. ASSUME NEW o \in Owner, NEW r \in Run, Release(o, r) PROVE TypeOK'
  <2>1. lease' \in [Run -> [owner : Owner \cup {NoOwner}, left : Remaining]]
    BY <1>3 DEF Release
  <2>2. wait' \in [Owner -> [Run -> 0..PulseEvery]]
    BY <1>3 DEF Release
  <2>3. task' \in [Owner -> [Run -> Phase]] /\ dropRel' \in [Owner -> SUBSET Run]
    BY <1>3 DEF Release, Phase
  <2> QED BY <1>3, <2>1, <2>2, <2>3 DEF Release
<1>4. ASSUME NEW o \in Owner, NEW r \in Run, Deregister(o, r) PROVE TypeOK'
  <2>1. task' \in [Owner -> [Run -> Phase]] /\ reg' \in [Owner -> SUBSET Run]
    BY <1>4 DEF Deregister, Phase
  <2>2. beat' \in [Owner -> [Run -> Remaining]]
    BY <1>4 DEF Deregister
  <2>3. detached' \in [Owner -> SUBSET Run] /\ old' \in [Owner -> [Run -> Remaining]]
    BY <1>4, DetachTypes DEF Deregister
  <2> QED BY <1>4, <2>1, <2>2, <2>3 DEF Deregister
<1>5. ASSUME NEW o \in Owner, NEW r \in Run, Panic(o, r) PROVE TypeOK'
  BY <1>5 DEF Panic, Phase
<1>6. ASSUME NEW o \in Owner, NEW r \in Run, DropRelease(o, r) PROVE TypeOK'
  <2>1. lease' \in [Run -> [owner : Owner \cup {NoOwner}, left : Remaining]]
    BY <1>6 DEF DropRelease
  <2>2. wait' \in [Owner -> [Run -> 0..PulseEvery]]
    BY <1>6 DEF DropRelease
  <2>3. task' \in [Owner -> [Run -> Phase]] /\ dropRel' \in [Owner -> SUBSET Run]
    BY <1>6 DEF DropRelease, Phase
  <2> QED BY <1>6, <2>1, <2>2, <2>3 DEF DropRelease
<1>7. ASSUME NEW o \in Owner, NEW r \in Run, Visit(o, r) PROVE TypeOK'
  <2>1. /\ snap' \in [Owner -> SUBSET Run] /\ detached' \in [Owner -> SUBSET Run]
        /\ old' \in [Owner -> [Run -> Remaining]]
    BY <1>7 DEF Visit
  <2>2. /\ lease' \in [Run -> [owner : Owner \cup {NoOwner}, left : Remaining]]
        /\ beat' \in [Owner -> [Run -> Remaining]]
        /\ wait' \in [Owner -> [Run -> 0..PulseEvery]]
    <3>1. CASE Renew(o, r)
      <4>1. lease' \in [Run -> [owner : Owner \cup {NoOwner}, left : Remaining]]
        <5>1. \A v \in [owner : Owner \cup {NoOwner}, left : Remaining] :
                [lease EXCEPT ![r] = v] \in [Run -> [owner : Owner \cup {NoOwner}, left : Remaining]]
          OBVIOUS
        <5> QED BY <3>1, <5>1 DEF Renew
      <4>2. beat' \in [Owner -> [Run -> Remaining]]
        <5>1. [beat EXCEPT ![o][r] = Ttl] \in [Owner -> [Run -> Remaining]]
          OBVIOUS
        <5> QED BY <3>1, <5>1 DEF Renew
      <4>3. wait' \in [Owner -> [Run -> 0..PulseEvery]]
        BY <3>1 DEF Renew
      <4> QED BY <4>1, <4>2, <4>3
    <3>2. CASE Keep(o, r)
      BY <3>2 DEF Keep
    <3>3. CASE PulseFails(o, r)
      BY <3>3 DEF PulseFails
    <3> QED BY <1>7, <3>1, <3>2, <3>3 DEF Visit
  <2> QED BY <1>7, <2>1, <2>2 DEF Visit
<1>8. ASSUME NEW o \in Owner, BeginPulse(o) PROVE TypeOK'
  BY <1>8 DEF BeginPulse
<1>9. ASSUME NEW o \in Owner, Crash(o) PROVE TypeOK'
  BY <1>9 DEF Crash, Phase
<1>10. CASE RecoverScan
  BY <1>10 DEF RecoverScan
<1>11. ASSUME NEW r \in Run, RecoverReap(r) PROVE TypeOK'
  BY <1>11 DEF RecoverReap
<1>12. CASE Tick
  <2>1. lease' \in [Run -> [owner : Owner \cup {NoOwner}, left : Remaining]]
    BY <1>12, LessTypes DEF Tick
  <2>2. /\ beat' \in [Owner -> [Run -> Remaining]]
        /\ old' \in [Owner -> [Run -> Remaining]]
    BY <1>12, LessTypes DEF Tick
  <2>3. wait' \in [Owner -> [Run -> 0..PulseEvery]]
    <3>1. \A o \in Owner, r \in Run : wait[o][r] < PulseEvery => wait[o][r] + 1 \in 0..PulseEvery
      BY LeaseAssumption
    <3> QED BY <1>12, <3>1 DEF Tick
  <2> QED BY <1>12, <2>1, <2>2, <2>3 DEF Tick
<1>13. CASE UNCHANGED vars
  BY <1>13 DEF vars
<1> QED
  BY <1>1, <1>2, <1>3, <1>4, <1>5, <1>6, <1>7, <1>8, <1>9, <1>10, <1>11, <1>12, <1>13
  DEF Next

\* Type correctness of the lease columns, the guards, the heartbeats and the pass.
THEOREM TypeCorrect == Spec => []TypeOK
  BY InitTypes, StepTypes, PTL DEF Spec

(***************************************************************************)
(* What a heartbeat believes, whatever the scheduling.                     *)
(***************************************************************************)

\* An acquired row has an owner's name and a full TTL; a vacant one has no owner.
LEMMA RowFields ==
    /\ \A o \in Owner : Held(o).owner = o /\ Held(o).left = Ttl
    /\ \A o \in Owner : Vacant.owner # o
  BY LeaseAssumption DEF Held, Vacant

\* The passage of time keeps the order of two remaining times.
LEMMA LessMonotone == \A m, n \in Remaining : m <= n => Less(m) <= Less(n)
  BY LeaseAssumption DEF Less, Remaining

\* No step makes a registered heartbeat outlast the row it renews.
LEMMA BeatStep == TypeOK /\ BeatNeverAhead /\ [Next]_vars => BeatNeverAhead'
<1> SUFFICES ASSUME TypeOK, BeatNeverAhead, [Next]_vars,
                    NEW p \in Owner, NEW q \in Run,
                    q \in reg'[p], lease'[q].owner = p
             PROVE  beat'[p][q] <= lease'[q].left
  BY StepTypes DEF BeatNeverAhead, TypeOK
<1>0. q \in reg[p] /\ lease[q].owner = p => beat[p][q] <= lease[q].left
  BY DEF BeatNeverAhead
<1>a. Ttl <= Ttl /\ \A n \in Remaining : n <= Ttl
  BY LeaseAssumption DEF Remaining
<1> USE RowFields DEF TypeOK
<1>1. ASSUME NEW o \in Owner, NEW r \in Run, Dispatch(o, r)
      PROVE  beat'[p][q] <= lease'[q].left
  <2>1. CASE q = r
    <3>1. lease'[q] = Held(o)
      BY <1>1, <2>1 DEF Dispatch
    <3>2. o = p
      BY <3>1
    <3>3. beat'[p][q] = Ttl
      BY <1>1, <2>1, <3>2 DEF Dispatch
    <3> QED BY <3>1, <3>2, <3>3, <1>a
  <2>2. CASE q # r
    BY <1>1, <2>2, <1>0 DEF Dispatch
  <2> QED BY <2>1, <2>2
<1>2. ASSUME NEW o \in Owner, NEW r \in Run, FinishDispatch(o, r) \/ Panic(o, r)
      PROVE  beat'[p][q] <= lease'[q].left
  BY <1>2, <1>0 DEF FinishDispatch, Panic
<1>3. ASSUME NEW o \in Owner, NEW r \in Run, Release(o, r) \/ DropRelease(o, r) \/ RecoverReap(r)
      PROVE  beat'[p][q] <= lease'[q].left
  <2>1. reg' = reg /\ beat' = beat
    BY <1>3 DEF Release, DropRelease, RecoverReap
  <2>2. lease' = lease \/ lease' = [lease EXCEPT ![r] = Vacant]
    BY <1>3 DEF Release, DropRelease, RecoverReap
  <2>3. lease'[q] = lease[q]
    BY <2>2
  <2> QED BY <2>1, <2>3, <1>0
<1>4. ASSUME NEW o \in Owner, NEW r \in Run, Deregister(o, r)
      PROVE  beat'[p][q] <= lease'[q].left
  <2>1. lease' = lease /\ q \in reg[p] /\ ~(p = o /\ q = r)
    BY <1>4 DEF Deregister
  <2>2. beat'[p][q] = beat[p][q]
    BY <1>4, <2>1 DEF Deregister
  <2> QED BY <2>1, <2>2, <1>0
<1>5. ASSUME NEW o \in Owner, NEW r \in Run, Visit(o, r)
      PROVE  beat'[p][q] <= lease'[q].left
  <2>0. reg' = reg
    BY <1>5 DEF Visit
  <2>1. CASE Renew(o, r)
    <3>1. CASE q = r
      <4>1. lease'[q] = Held(o)
        BY <2>1, <3>1 DEF Renew
      <4>2. beat'[p][q] \in Remaining
        BY StepTypes
      <4> QED BY <4>1, <4>2, <1>a
    <3>2. CASE q # r
      <4>1. lease'[q] = lease[q]
        BY <2>1, <3>2 DEF Renew
      <4>2. beat' = beat \/ beat' = [beat EXCEPT ![o][r] = Ttl]
        BY <2>1 DEF Renew
      <4>3. beat'[p][q] = beat[p][q]
        BY <3>2, <4>2
      <4> QED BY <4>1, <4>3, <2>0, <1>0
    <3> QED BY <3>1, <3>2
  <2>2. CASE Keep(o, r) \/ PulseFails(o, r)
    BY <2>2, <2>0, <1>0 DEF Keep, PulseFails
  <2> QED BY <1>5, <2>1, <2>2 DEF Visit
<1>6. ASSUME NEW o \in Owner, BeginPulse(o) PROVE beat'[p][q] <= lease'[q].left
  BY <1>6, <1>0 DEF BeginPulse
<1>7. ASSUME NEW o \in Owner, Crash(o) PROVE beat'[p][q] <= lease'[q].left
  <2>1. p # o
    BY <1>7 DEF Crash
  <2> QED BY <1>7, <2>1, <1>0 DEF Crash
<1>8. CASE RecoverScan
  BY <1>8, <1>0 DEF RecoverScan
<1>9. CASE Tick
  <2>1. reg' = reg /\ lease'[q].owner = lease[q].owner
    BY <1>9 DEF Tick
  <2>2. lease'[q].left = Less(lease[q].left) /\ beat'[p][q] = Less(beat[p][q])
    BY <1>9 DEF Tick
  <2>3. lease[q].left \in Remaining /\ beat[p][q] \in Remaining
    OBVIOUS
  <2> QED BY <2>1, <2>2, <2>3, <1>0, LessMonotone
<1>10. CASE UNCHANGED vars
  BY <1>10, <1>0 DEF vars
<1> QED
  BY <1>1, <1>2, <1>3, <1>4, <1>5, <1>6, <1>7, <1>8, <1>9, <1>10 DEF Next

\* A heartbeat never believes its lease to last longer than the row says: no
\* failed or contended pulse, release, re-acquisition or reaping gets ahead of it.
THEOREM HeartbeatNeverAhead == Spec => []BeatNeverAhead
<1>1. Init => BeatNeverAhead
  BY DEF Init, BeatNeverAhead
<1> QED BY <1>1, TypeCorrect, BeatStep, PTL DEF Spec

(***************************************************************************)
(* Mutual exclusion, when pulses are punctual, a spawned release runs      *)
(* before its owner takes the run again, and no operator reaps.            *)
(***************************************************************************)

Strict == Punctual /\ PromptDrop /\ ~RecoverApplies

\* Every entry a pass still holds is registered, or is known to be detached.
LEMMA PassStep == TypeOK /\ PassRegistered /\ [Next]_vars => PassRegistered'
<1> SUFFICES ASSUME TypeOK, PassRegistered, [Next]_vars,
                    NEW p \in Owner, NEW q \in Run,
                    q \in snap'[p], q \notin detached'[p]
             PROVE  q \in reg'[p]
  BY StepTypes DEF PassRegistered, TypeOK
<1>0. q \in snap[p] /\ q \notin detached[p] => q \in reg[p]
  BY DEF PassRegistered
<1> USE DEF TypeOK
<1>1. ASSUME NEW o \in Owner, NEW r \in Run, Dispatch(o, r) PROVE q \in reg'[p]
  BY <1>1, <1>0 DEF Dispatch, DetachFromPass
<1>2. ASSUME NEW o \in Owner, NEW r \in Run,
             \/ FinishDispatch(o, r) \/ Release(o, r) \/ Panic(o, r) \/ DropRelease(o, r)
      PROVE  q \in reg'[p]
  BY <1>2, <1>0 DEF FinishDispatch, Release, Panic, DropRelease
<1>3. ASSUME NEW o \in Owner, NEW r \in Run, Deregister(o, r) PROVE q \in reg'[p]
  <2>1. CASE p = o /\ q = r
    <3>1. q \in snap[p]
      BY <1>3 DEF Deregister
    <3> QED BY <1>3, <2>1, <3>1, <1>0 DEF Deregister, DetachFromPass
  <2>2. CASE ~(p = o /\ q = r)
    <3>1. q \in reg'[p] <=> q \in reg[p]
      BY <1>3, <2>2 DEF Deregister
    <3>2. q \in snap[p]
      BY <1>3 DEF Deregister
    <3>3. q \notin detached[p]
      <4>1. \/ detached' = detached
            \/ detached' = [detached EXCEPT ![o] = @ \cup {r}]
        BY <1>3 DEF Deregister, DetachFromPass
      <4>2. detached[p] \subseteq detached'[p]
        <5>1. CASE p = o
          BY <4>1, <5>1
        <5>2. CASE p # o
          BY <4>1, <5>2
        <5> QED BY <5>1, <5>2
      <4> QED BY <4>2
    <3> QED BY <3>1, <3>2, <3>3, <1>0
  <2> QED BY <2>1, <2>2
<1>4. ASSUME NEW o \in Owner, NEW r \in Run, Visit(o, r) PROVE q \in reg'[p]
  BY <1>4, <1>0 DEF Visit
<1>5. ASSUME NEW o \in Owner, BeginPulse(o) PROVE q \in reg'[p]
  BY <1>5, <1>0 DEF BeginPulse
<1>6. ASSUME NEW o \in Owner, Crash(o) PROVE q \in reg'[p]
  BY <1>6, <1>0 DEF Crash
<1>7. ASSUME \/ RecoverScan \/ Tick \/ UNCHANGED vars \/ \E r \in Run : RecoverReap(r)
      PROVE  q \in reg'[p]
  BY <1>7, <1>0 DEF RecoverScan, Tick, vars, RecoverReap
<1> QED BY <1>1, <1>2, <1>3, <1>4, <1>5, <1>6, <1>7 DEF Next

\* A pending drop-release keeps its run's task in the panicked state.
LEMMA DropStep ==
  ASSUME Strict, TypeOK, DropsFollowPanics, [Next]_vars
  PROVE  DropsFollowPanics'
<1> SUFFICES ASSUME NEW p \in Owner, NEW q \in Run, q \in dropRel'[p]
             PROVE  task'[p][q] = "panicked"
  BY StepTypes DEF DropsFollowPanics, TypeOK
<1>0. q \in dropRel[p] => task[p][q] = "panicked"
  BY DEF DropsFollowPanics
<1> USE DEF TypeOK
<1>1. ASSUME NEW o \in Owner, NEW r \in Run,
             \/ FinishDispatch(o, r) \/ Release(o, r) \/ Deregister(o, r) \/ Panic(o, r)
             \/ DropRelease(o, r)
      PROVE  task'[p][q] = "panicked"
  BY <1>1, <1>0 DEF FinishDispatch, Release, Deregister, Panic, DropRelease
<1>2. ASSUME NEW o \in Owner, NEW r \in Run, Dispatch(o, r) PROVE task'[p][q] = "panicked"
  BY <1>2, <1>0 DEF Dispatch, Strict
<1>3. ASSUME NEW o \in Owner, NEW r \in Run, Visit(o, r) PROVE task'[p][q] = "panicked"
  BY <1>3, <1>0 DEF Visit
<1>4. ASSUME NEW o \in Owner, Crash(o) PROVE task'[p][q] = "panicked"
  BY <1>4, <1>0 DEF Crash
<1>5. ASSUME \/ RecoverScan \/ Tick \/ UNCHANGED vars
             \/ \E r \in Run : RecoverReap(r) \/ \E o \in Owner : BeginPulse(o)
      PROVE  task'[p][q] = "panicked"
  BY <1>5, <1>0 DEF RecoverScan, Tick, vars, RecoverReap, BeginPulse
<1> QED BY <1>1, <1>2, <1>3, <1>4, <1>5 DEF Next

\* A tended lease stays its owner's, and the ticks it lost stay within the margin.
LEMMA CoveredStep ==
  ASSUME Strict, LeaseInv, [Next]_vars
  PROVE  Covered'
<1> SUFFICES ASSUME NEW p \in Owner, NEW q \in Run, Tending(p, q)'
             PROVE  /\ lease'[q].owner = p
                    /\ lease'[q].left + wait'[p][q] >= Margin + 1
  BY DEF Covered
<1> DEFINE Goal == /\ lease'[q].owner = p
                   /\ lease'[q].left + wait'[p][q] >= Margin + 1
<1>a. TypeOK /\ TypeOK' /\ Margin \in Nat /\ Ttl \in Nat /\ Margin < Ttl /\ PulseEvery \in Nat
  BY StepTypes, LeaseAssumption DEF LeaseInv
<1>b. \A o \in Owner, r \in Run : Tending(o, r) =>
        /\ lease[r].owner = o
        /\ lease[r].left + wait[o][r] >= Margin + 1
        /\ lease[r].left >= 0
  <2> SUFFICES ASSUME NEW o \in Owner, NEW r \in Run, Tending(o, r)
               PROVE  /\ lease[r].owner = o
                      /\ lease[r].left + wait[o][r] >= Margin + 1
                      /\ lease[r].left >= 0
    OBVIOUS
  <2>1. /\ lease[r].owner = o
        /\ lease[r].left + wait[o][r] >= Margin + 1
    BY DEF LeaseInv, Covered
  <2>2. wait[o][r] \in 0..PulseEvery /\ lease[r].left \in -1..Ttl
    BY <1>a DEF TypeOK, Remaining
  <2> QED BY <1>a, <2>1, <2>2, LeaseAssumption
<1>c. \A o \in Owner, r \in Run : r \in dropRel[o] => task[o][r] = "panicked"
  BY DEF LeaseInv, DropsFollowPanics
<1>d. \A o \in Owner, r \in Run : Grants(o, r) /\ Tending(p, r) => o = p
  <2>1. \A r \in Run : lease[r].left \in Int
    BY <1>a DEF TypeOK, Remaining
  <2>2. \A r \in Run : lease[r].left >= 0 => ~(lease[r].left < 0)
    BY <2>1
  <2> QED BY <2>2, <1>b, LeaseAssumption DEF Grants
<1>e. \A o \in Owner, r \in Run : Tending(o, r) /\ Tending(p, r) => o = p
  BY <1>b
<1>f. Tending(p, q) /\ lease'[q] = lease[q] /\ wait'[p][q] = wait[p][q] => Goal
  BY <1>b
<1>g. Tending(p, q)' <=> task'[p][q] \in InFlight \/ q \in dropRel'[p]
  BY DEF Tending
<1>1. ASSUME NEW o \in Owner, NEW r \in Run, Dispatch(o, r) PROVE Goal
  <2>1. CASE o = p /\ r = q
    <3>1. lease'[q] = Held(p) /\ wait'[p][q] = 0
      BY <1>1, <2>1, <1>a DEF Dispatch, TypeOK
    <3> QED BY <3>1, <1>a, RowFields
  <2>2. CASE ~(o = p /\ r = q)
    <3>1. task'[p][q] = task[p][q] /\ dropRel' = dropRel /\ wait'[p][q] = wait[p][q]
      BY <1>1, <2>2, <1>a DEF Dispatch, TypeOK
    <3>2. Tending(p, q)
      BY <3>1 DEF Tending
    <3>3. r # q
      BY <1>1, <2>2, <3>2, <1>d DEF Dispatch
    <3>4. lease'[q] = lease[q]
      BY <1>1, <3>3, <1>a DEF Dispatch, TypeOK
    <3> QED BY <3>1, <3>2, <3>4, <1>f
  <2> QED BY <2>1, <2>2
<1>2. ASSUME NEW o \in Owner, NEW r \in Run, FinishDispatch(o, r) \/ Panic(o, r) PROVE Goal
  <2>1. Tending(p, q)
    <3>1. CASE o = p /\ r = q
      BY <1>2, <3>1 DEF FinishDispatch, Panic, Tending, InFlight
    <3>2. CASE ~(o = p /\ r = q)
      <4>1. task'[p][q] = task[p][q]
        BY <1>2, <3>2, <1>a DEF FinishDispatch, Panic, TypeOK
      <4>2. q \in dropRel'[p] <=> q \in dropRel[p]
        BY <1>2, <3>2, <1>a DEF FinishDispatch, Panic, TypeOK
      <4> QED BY <4>1, <4>2 DEF Tending
    <3> QED BY <3>1, <3>2
  <2> QED BY <1>2, <2>1, <1>f DEF FinishDispatch, Panic
<1>3. ASSUME NEW o \in Owner, NEW r \in Run, Release(o, r) \/ DropRelease(o, r) PROVE Goal
  <2>1. ~(o = p /\ r = q)
    BY <1>3, <1>a, <1>c DEF Release, DropRelease, Tending, InFlight, TypeOK
  <2>2. Tending(p, q)
    BY <1>3, <2>1, <1>a DEF Release, DropRelease, Tending, TypeOK
  <2>3. Tending(o, r)
    BY <1>3 DEF Release, DropRelease, Tending, InFlight
  <2>4. r # q
    BY <2>1, <2>2, <2>3, <1>e
  <2>5. lease'[q] = lease[q]
    BY <1>3, <2>4, <1>a DEF Release, DropRelease, TypeOK
  <2>6. wait'[p][q] = wait[p][q]
    <3>1. wait' = [wait EXCEPT ![o][r] = 0]
      BY <1>3 DEF Release, DropRelease
    <3> QED BY <3>1, <2>4, <1>a DEF TypeOK
  <2> QED BY <2>2, <2>5, <2>6, <1>f
<1>4. ASSUME NEW o \in Owner, NEW r \in Run, Deregister(o, r) PROVE Goal
  <2>1. Tending(p, q)
    BY <1>4, <1>a DEF Deregister, Tending, InFlight, TypeOK
  <2> QED BY <1>4, <2>1, <1>f DEF Deregister
<1>5. ASSUME NEW o \in Owner, NEW r \in Run, Visit(o, r) PROVE Goal
  <2>1. Tending(p, q)
    BY <1>5 DEF Visit, Tending
  <2>2. CASE Renew(o, r)
    <3>1. CASE r = q
      <4>1. o = p
        BY <2>1, <2>2, <3>1, <1>d DEF Renew
      <4>2. lease'[q] = Held(p) /\ wait'[p][q] = 0
        BY <2>2, <3>1, <4>1, <1>a DEF Renew, TypeOK
      <4> QED BY <4>2, <1>a, RowFields
    <3>2. CASE r # q
      <4>1. lease'[q] = lease[q] /\ wait'[p][q] = wait[p][q]
        BY <2>2, <3>2, <1>a DEF Renew, TypeOK
      <4> QED BY <4>1, <2>1, <1>f
    <3> QED BY <3>1, <3>2
  <2>3. CASE Keep(o, r)
    <3>1. lease'[q] = lease[q]
      BY <2>3 DEF Keep
    <3>2. CASE o = p /\ r = q /\ r \notin detached[o]
      <4>1. q \in reg[p]
        BY <1>5, <3>2 DEF Visit, LeaseInv, PassRegistered
      <4>2. beat[p][q] <= lease[q].left
        BY <4>1, <2>1, <1>b DEF LeaseInv, BeatNeverAhead
      <4>3. ~Due(p, q)
        BY <2>3, <3>2, <2>1, <1>b DEF Keep, Grants
      <4>4. beat[p][q] > Margin
        <5>1. ~(beat[p][q] <= Margin)
          BY <4>3, <3>2 DEF Due, SeenBeat
        <5>2. beat[p][q] \in Int
          BY <1>a DEF TypeOK, Remaining
        <5> QED BY <5>1, <5>2, <1>a
      <4>5. wait'[p][q] = 0
        BY <2>3, <3>2, <1>a DEF Keep, TypeOK
      <4>6. beat[p][q] \in Int /\ lease[q].left \in Int
        BY <1>a DEF TypeOK, Remaining
      <4> QED BY <3>1, <4>2, <4>4, <4>5, <4>6, <2>1, <1>a, <1>b
    <3>3. CASE ~(o = p /\ r = q /\ r \notin detached[o])
      <4>1. wait'[p][q] = wait[p][q]
        BY <2>3, <3>3, <1>a DEF Keep, TypeOK
      <4> QED BY <2>1, <3>1, <4>1, <1>f
    <3> QED BY <3>2, <3>3
  <2>4. CASE PulseFails(o, r)
    BY <2>1, <2>4, <1>f DEF PulseFails
  <2> QED BY <1>5, <2>2, <2>3, <2>4 DEF Visit
<1>6. ASSUME NEW o \in Owner, BeginPulse(o) PROVE Goal
  BY <1>6, <1>f DEF BeginPulse, Tending
<1>7. ASSUME NEW o \in Owner, Crash(o) PROVE Goal
  <2>1. o # p
    BY <1>7, <1>a DEF Crash, Tending, InFlight, TypeOK
  <2>2. Tending(p, q)
    BY <1>7, <2>1, <1>a DEF Crash, Tending, TypeOK
  <2>3. lease'[q] = lease[q] /\ wait'[p][q] = wait[p][q]
    BY <1>7, <2>1, <1>a DEF Crash, TypeOK
  <2> QED BY <2>2, <2>3, <1>f
<1>8. CASE RecoverScan \/ UNCHANGED vars
  BY <1>8, <1>f DEF RecoverScan, vars, Tending
<1>9. ASSUME NEW r \in Run, RecoverReap(r) PROVE Goal
  BY <1>9 DEF RecoverReap, LeaseInv
<1>10. CASE Tick
  <2>1. Tending(p, q)
    BY <1>10 DEF Tick, Tending
  <2>2. wait[p][q] < PulseEvery
    BY <1>10, <2>1 DEF Tick, Strict
  <2>3. wait'[p][q] = wait[p][q] + 1
    BY <1>10, <2>1, <2>2 DEF Tick
  <2>4. lease'[q].owner = p /\ lease'[q].left = lease[q].left - 1
    <3>1. lease'[q] = [lease[q] EXCEPT !.left = Less(@)]
      BY <1>10 DEF Tick
    <3>2. lease[q] \in [owner : Owner \cup {NoOwner}, left : Remaining]
      BY <1>a DEF TypeOK
    <3>3. lease[q].owner = p /\ ~(lease[q].left < 0)
      BY <2>1, <1>b, <3>2 DEF Remaining
    <3> QED BY <3>1, <3>2, <3>3 DEF Less
  <2>5. lease[q].left \in Int /\ wait[p][q] \in Int
    BY <1>a DEF TypeOK, Remaining
  <2> QED BY <2>1, <2>3, <2>4, <2>5, <1>a, <1>b
<1> QED
  BY <1>1, <1>2, <1>3, <1>4, <1>5, <1>6, <1>7, <1>8, <1>9, <1>10 DEF Next

\* The strengthened invariant.
THEOREM LeaseInvariant == ASSUME Strict PROVE Spec => []LeaseInv
<1>1. Init => LeaseInv
  <2> SUFFICES ASSUME Init PROVE LeaseInv
    OBVIOUS
  <2> QED BY InitTypes DEF Init, LeaseInv, BeatNeverAhead, PassRegistered,
             DropsFollowPanics, Covered, Tending, InFlight
<1>2. LeaseInv /\ [Next]_vars => LeaseInv'
  <2> SUFFICES ASSUME LeaseInv, [Next]_vars PROVE LeaseInv'
    OBVIOUS
  <2>1. found' = {}
    BY DEF LeaseInv, Next, Dispatch, FinishDispatch, Release, Deregister, Panic,
           DropRelease, Visit, BeginPulse, Crash, RecoverScan, RecoverReap, Tick, vars, Strict
  <2> QED BY <2>1, StepTypes, BeatStep, PassStep, DropStep, CoveredStep DEF LeaseInv
<1> QED BY <1>1, <1>2, PTL DEF Spec

\* A dispatch in flight is covered by an unexpired lease of its own.
THEOREM LeaseOutlives == ASSUME Strict PROVE Spec => []LeaseOutlivesTask
<1>1. LeaseInv => LeaseOutlivesTask
  <2> SUFFICES ASSUME LeaseInv, NEW o \in Owner, NEW r \in Run, task[o][r] \in InFlight
               PROVE  lease[r].owner = o /\ lease[r].left >= 0
    BY DEF LeaseOutlivesTask
  <2>1. lease[r].owner = o /\ lease[r].left + wait[o][r] >= Margin + 1
    BY DEF LeaseInv, Covered, Tending
  <2>2. wait[o][r] \in 0..PulseEvery /\ lease[r].left \in -1..Ttl
    BY DEF LeaseInv, TypeOK, Remaining
  <2> QED BY <2>1, <2>2, LeaseAssumption
<1> QED BY <1>1, LeaseInvariant, PTL

\* Two owners never dispatch the same run at once.
THEOREM MutualExclusion == ASSUME Strict PROVE Spec => []OneDispatchPerRun
<1>1. LeaseOutlivesTask => OneDispatchPerRun
  BY DEF LeaseOutlivesTask, OneDispatchPerRun
<1> QED BY <1>1, LeaseOutlives, PTL

(***************************************************************************)
(* The refinement: under the same conditions the protocol implements Lease.*)
(***************************************************************************)

\* What Lease sees of the rows and of the tasks.
OwnerOf == [r \in Run |-> lease[r].owner]
Valid == [r \in Run |-> lease[r].owner # NoOwner /\ lease[r].left >= 0]
Workers == [r \in Run |-> {o \in Owner : task[o][r] \in InFlight}]

LEMMA RowNamed ==
  ASSUME TypeOK, NEW o \in Owner, NEW r \in Run, lease' = [lease EXCEPT ![r] = Held(o)]
  PROVE  Promise!Named(o, r)
<1>1. OwnerOf' = [OwnerOf EXCEPT ![r] = o]
  BY RowFields DEF OwnerOf, TypeOK
<1>2. Valid' = [Valid EXCEPT ![r] = TRUE]
  <2>1. Held(o).owner # NoOwner /\ Held(o).left >= 0
    BY RowFields, LeaseAssumption
  <2>2. lease'[r] = Held(o) /\ \A q \in Run : q # r => lease'[q] = lease[q]
    BY DEF TypeOK
  <2> QED
    BY <2>1, <2>2 DEF Valid
<1> QED
  BY <1>1, <1>2 DEF OwnerOf, Valid, Promise!Named

LEMMA RowCleared ==
  ASSUME TypeOK, NEW r \in Run, lease' = [lease EXCEPT ![r] = Vacant]
  PROVE  Promise!Cleared(r)
<1>1. OwnerOf' = [OwnerOf EXCEPT ![r] = NoOwner]
  BY DEF OwnerOf, TypeOK, Vacant
<1>2. Valid' = [Valid EXCEPT ![r] = FALSE]
  <2>1. lease'[r] = Vacant /\ \A q \in Run : q # r => lease'[q] = lease[q]
    BY DEF TypeOK
  <2>2. Vacant.owner = NoOwner
    BY DEF Vacant
  <2> QED
    BY <2>1, <2>2 DEF Valid
<1> QED
  BY <1>1, <1>2 DEF OwnerOf, Valid, Promise!Cleared

\* One task that changes its phase comes to or leaves the workers of its run.
LEMMA WorkersMoved ==
  ASSUME TypeOK, NEW o \in Owner, NEW r \in Run, NEW phase, task' = [task EXCEPT ![o][r] = phase]
  PROVE  /\ phase \in InFlight => Workers' = [Workers EXCEPT ![r] = @ \cup {o}]
         /\ phase \notin InFlight => Workers' = [Workers EXCEPT ![r] = @ \ {o}]
<1>1. /\ task'[o][r] = phase
      /\ \A p \in Owner, q \in Run : p # o \/ q # r => task'[p][q] = task[p][q]
  BY DEF TypeOK
<1>2. \A q \in Run : q # r => Workers'[q] = Workers[q]
  BY <1>1 DEF Workers
<1>3. /\ phase \in InFlight => Workers'[r] = Workers[r] \cup {o}
      /\ phase \notin InFlight => Workers'[r] = Workers[r] \ {o}
  BY <1>1 DEF Workers
<1>4. /\ Workers = [q \in Run |-> Workers[q]]
      /\ Workers' = [q \in Run |-> Workers'[q]]
  BY DEF Workers
<1> HIDE DEF Workers
<1> QED
  BY <1>2, <1>3, <1>4

\* Work is done by one owner, in its own time; a release that is pending follows it.
LEMMA Lone ==
  ASSUME LeaseInv, NEW o \in Owner, NEW r \in Run
  PROVE  /\ o \in Workers[r] => OwnerOf[r] = o /\ Valid[r] /\ Workers[r] = {o}
         /\ r \in dropRel[o] => OwnerOf[r] = o /\ Workers[r] = {}
         /\ Grants(o, r) => Promise!Free(o, r) /\ Workers[r] \subseteq {o}
<1>1. ASSUME NEW p \in Owner, Tending(p, r) PROVE lease[r].owner = p /\ lease[r].left >= 0
  <2>1. lease[r].owner = p /\ lease[r].left + wait[p][r] >= Margin + 1
    BY <1>1 DEF LeaseInv, Covered
  <2>2. wait[p][r] \in 0..PulseEvery /\ lease[r].left \in -1..Ttl
    BY DEF LeaseInv, TypeOK, Remaining
  <2> QED BY <2>1, <2>2, LeaseAssumption
<1>2. \A p \in Workers[r] : p \in Owner /\ Tending(p, r)
  BY DEF Workers, Tending
<1>3. o \in Workers[r] => OwnerOf[r] = o /\ Valid[r] /\ Workers[r] = {o}
  BY <1>1, <1>2, LeaseAssumption DEF OwnerOf, Valid
<1>4. r \in dropRel[o] => OwnerOf[r] = o /\ Workers[r] = {}
  <2> HAVE r \in dropRel[o]
  <2>1. Tending(o, r) /\ task[o][r] = "panicked"
    BY DEF Tending, LeaseInv, DropsFollowPanics
  <2>2. o \notin Workers[r]
    BY <2>1 DEF Workers, InFlight
  <2> QED
    BY <1>1, <1>2, <2>1, <2>2 DEF OwnerOf
<1>5. ASSUME Grants(o, r) PROVE Promise!Free(o, r) /\ Workers[r] \subseteq {o}
  <2>1. lease[r].left \in Int
    BY DEF LeaseInv, TypeOK, Remaining
  <2>2. OwnerOf[r] = o \/ ~Valid[r]
    <3>1. lease[r].owner = o \/ ~(lease[r].owner # NoOwner /\ lease[r].left >= 0)
      BY <1>5, <2>1 DEF Grants
    <3> QED
      BY <3>1 DEF OwnerOf, Valid
  <2>3. Workers[r] \subseteq {o}
    BY <1>1, <1>2, <1>5, <2>1, LeaseAssumption DEF Grants
  <2> QED
    BY <2>2, <2>3 DEF OwnerOf, Valid, Promise!Free
<1> QED
  BY <1>3, <1>4, <1>5

LEMMA StepPromised ==
  ASSUME Strict, LeaseInv, [Next]_vars
  PROVE  [Promise!Next]_(Promise!vars)
<1> SUFFICES Promise!Next \/ UNCHANGED Promise!vars
  OBVIOUS
<1>a. TypeOK
  BY DEF LeaseInv
<1>b. UNCHANGED lease => UNCHANGED <<OwnerOf, Valid>>
  BY DEF OwnerOf, Valid
<1>c. UNCHANGED task => UNCHANGED Workers
  BY DEF Workers
<1>d. UNCHANGED <<OwnerOf, Valid, Workers>> => UNCHANGED Promise!vars
  BY DEF OwnerOf, Valid, Workers, Promise!vars
<1>1. ASSUME NEW o \in Owner, NEW r \in Run, Dispatch(o, r) PROVE Promise!Begin(o, r)
  <2>1. Grants(o, r) /\ lease' = [lease EXCEPT ![r] = Held(o)] /\ task[o][r] \in {"idle", "panicked"}
    BY <1>1 DEF Dispatch
  <2>2. o \notin Workers[r]
    BY <2>1 DEF Workers, InFlight
  <2>3. Workers[r] = {}
    BY <2>1, <2>2, Lone
  <2>4. Workers' = [Workers EXCEPT ![r] = {o}]
    <3>1. Workers' = [Workers EXCEPT ![r] = @ \cup {o}]
      BY <1>1, <1>a, WorkersMoved DEF Dispatch, InFlight
    <3> QED
      BY <2>3, <3>1
  <2> QED
    BY <1>a, <2>1, <2>3, <2>4, Lone, RowNamed DEF Workers, Promise!Begin
<1>2. ASSUME NEW o \in Owner, NEW r \in Run, FinishDispatch(o, r) \/ Deregister(o, r)
      PROVE  UNCHANGED Promise!vars
  <2>1. CASE FinishDispatch(o, r)
    <3>1. Workers' = [Workers EXCEPT ![r] = @ \cup {o}]
      BY <1>a, <2>1, WorkersMoved DEF FinishDispatch, InFlight
    <3>2. o \in Workers[r]
      BY <2>1 DEF FinishDispatch, Workers, InFlight
    <3>3. UNCHANGED Workers
      BY <3>1, <3>2 DEF Workers
    <3> QED
      BY <1>b, <1>d, <2>1, <3>3 DEF FinishDispatch
  <2>2. CASE Deregister(o, r)
    <3>0. task' = [task EXCEPT ![o][r] = "idle"] /\ "idle" \notin InFlight
      BY <2>2 DEF Deregister, InFlight
    <3>1. Workers' = [Workers EXCEPT ![r] = @ \ {o}]
      BY <1>a, <3>0, WorkersMoved
    <3>2. o \notin Workers[r]
      BY <2>2 DEF Deregister, Workers, InFlight
    <3>3. UNCHANGED Workers
      BY <3>1, <3>2 DEF Workers
    <3> QED
      BY <1>b, <1>d, <2>2, <3>3 DEF Deregister
  <2> QED
    BY <1>2, <2>1, <2>2
<1>3. ASSUME NEW o \in Owner, NEW r \in Run, Release(o, r) \/ Panic(o, r) PROVE Promise!End(o, r)
  <2>1. o \in Workers[r]
    BY <1>3 DEF Release, Panic, Workers, InFlight
  <2>2. Workers' = [Workers EXCEPT ![r] = {}]
    <3>1. Workers' = [Workers EXCEPT ![r] = @ \ {o}]
      BY <1>3, <1>a, WorkersMoved DEF Release, Panic, InFlight
    <3>2. Workers[r] = {o}
      BY <2>1, Lone
    <3> QED
      BY <3>1, <3>2
  <2>3. Promise!Cleared(r) \/ UNCHANGED <<OwnerOf, Valid>>
    BY <1>3, <1>a, <1>b, RowCleared DEF Release, Panic
  <2> QED
    BY <2>1, <2>2, <2>3, Lone DEF OwnerOf, Valid, Workers, Promise!End
<1>4. ASSUME NEW o \in Owner, NEW r \in Run, DropRelease(o, r)
      PROVE  Promise!Clear(o, r) \/ UNCHANGED Promise!vars
  <2>1. r \in dropRel[o] /\ UNCHANGED task
    BY <1>4 DEF DropRelease
  <2>2. CASE UNCHANGED lease
    BY <1>b, <1>c, <1>d, <2>1, <2>2
  <2>3. CASE lease' = [lease EXCEPT ![r] = Vacant]
    BY <1>a, <1>c, <2>1, <2>3, Lone, RowCleared DEF OwnerOf, Workers, Promise!Clear
  <2> QED
    BY <1>4, <2>2, <2>3 DEF DropRelease
<1>5. ASSUME NEW o \in Owner, NEW r \in Run, Visit(o, r)
      PROVE  Promise!Renew(o, r) \/ UNCHANGED Promise!vars
  <2>1. UNCHANGED task
    BY <1>5 DEF Visit
  <2>2. CASE Renew(o, r)
    <3>1. Grants(o, r) /\ lease' = [lease EXCEPT ![r] = Held(o)]
      BY <2>2 DEF Renew
    <3> QED
      BY <1>a, <1>c, <2>1, <3>1, Lone, RowNamed DEF Workers, Promise!Renew
  <2>3. CASE Keep(o, r) \/ PulseFails(o, r)
    BY <1>b, <1>c, <1>d, <2>1, <2>3 DEF Keep, PulseFails
  <2> QED
    BY <1>5, <2>2, <2>3 DEF Visit
<1>6. ASSUME NEW o \in Owner, Crash(o) PROVE Promise!Die(o)
  <2>1. Workers' = [r \in Run |-> Workers[r] \ {o}]
    BY <1>6, <1>a DEF Crash, TypeOK, Workers, InFlight
  <2> QED
    BY <1>6, <1>b, <2>1 DEF Crash, OwnerOf, Valid, Workers, Promise!Die
<1>7. CASE Tick
  <2>1. UNCHANGED Workers
    BY <1>7, <1>c DEF Tick
  <2>2. ASSUME NEW r \in Run
        PROVE  /\ lease'[r].owner = lease[r].owner /\ lease'[r].left = Less(lease[r].left)
               /\ lease[r].left \in Remaining /\ lease'[r].left \in Remaining
    BY <1>7, <1>a, LessTypes DEF Tick, TypeOK
  <2>3. UNCHANGED OwnerOf
    BY <2>2 DEF OwnerOf
  <2>4. ASSUME NEW r \in Run, Valid'[r] # Valid[r] PROVE Valid[r] /\ Workers[r] = {}
    <3>1. lease[r].owner # NoOwner /\ lease[r].left >= 0 /\ ~(lease'[r].left >= 0)
      BY <2>2, <2>4, LeaseAssumption DEF Valid, Less, Remaining
    <3>2. Workers[r] = {}
      <4> SUFFICES ASSUME NEW o \in Owner, o \in Workers[r] PROVE FALSE
        BY DEF Workers
      <4>1. task[o][r] \in InFlight /\ task'[o][r] \in InFlight
        BY <2>1 DEF Workers
      <4>2. Covered'
        BY CoveredStep
      <4>3. lease'[r].left + wait'[o][r] >= Margin + 1
        BY <4>1, <4>2 DEF Covered, Tending
      <4>4. wait'[o][r] \in 0..PulseEvery
        BY <1>a, StepTypes DEF TypeOK
      <4> QED
        BY <2>2, <3>1, <4>3, <4>4, LeaseAssumption DEF Remaining
    <3> QED
      BY <3>1, <3>2 DEF Valid
  <2>5. Valid' \in [Run -> BOOLEAN]
    BY DEF Valid
  <2>6. Promise!Lapse
    BY <2>1, <2>3, <2>4, <2>5 DEF OwnerOf, Valid, Workers, Promise!Lapse
  <2> QED
    BY <2>6 DEF Promise!Next
<1>8. ASSUME \/ RecoverScan \/ UNCHANGED vars
             \/ \E o \in Owner : BeginPulse(o)
             \/ \E r \in Run : RecoverReap(r)
      PROVE  UNCHANGED Promise!vars
  <2>1. UNCHANGED <<lease, task>>
    BY <1>8 DEF RecoverScan, vars, BeginPulse, RecoverReap, LeaseInv
  <2> QED
    BY <1>b, <1>c, <1>d, <2>1
<1>9. ASSUME NEW o \in Owner, NEW r \in Run,
             Promise!Begin(o, r) \/ Promise!Renew(o, r) \/ Promise!End(o, r) \/ Promise!Clear(o, r)
      PROVE  Promise!Next
  BY <1>9 DEF Promise!Next
<1>10. Promise!Lapse \/ (\E o \in Owner : Promise!Die(o)) => Promise!Next
  BY DEF Promise!Next
<1> QED
  BY <1>1, <1>2, <1>3, <1>4, <1>5, <1>6, <1>7, <1>8, <1>9, <1>10 DEF Next

\* The protocol keeps what Lease promises: while a run is worked on its lease neither passes
\* to another owner nor lapses nor is cleared, and no lease that has time left is taken over.
THEOREM PromiseKept == ASSUME Strict PROVE Spec => Exclusive
<1>1. Init => Promise!Init
  <2> SUFFICES ASSUME Init PROVE Promise!Init
    OBVIOUS
  <2>1. \A r \in Run : lease[r].owner = NoOwner /\ \A o \in Owner : task[o][r] \notin InFlight
    BY DEF Init, Vacant, InFlight
  <2> QED
    BY <2>1 DEF Promise!Init
<1>2. LeaseInv /\ [Next]_vars => [Promise!Next]_(Promise!vars)
  BY StepPromised
<1> QED
  BY <1>1, <1>2, LeaseInvariant, PTL DEF Spec, Exclusive, Promise!Spec
=============================================================================
