-------------------------- MODULE ClaimTick_proofs ---------------------------
(***************************************************************************)
(* The claim protocol implements Emission, for any finite set of           *)
(* candidates, any sources and any number of appearances and of faults.    *)
(***************************************************************************)
EXTENDS ClaimTick, FiniteSetTheorems, TLAPS

-----------------------------------------------------------------------------
(* What a tick emits. *)

\* The requests of an emission: one for each candidate that the tick asks for.
LEMMA Emitted ==
  ASSUME TypeOK, NEW S \in SUBSET Candidate, NEW order \in Orders(S)
  PROVE  /\ Asking(order) \in Seq(Request)
         /\ \A k \in 1..Len(Asking(order)) :
               /\ Asking(order)[k].of \in S
               /\ Asking(order)[k].visit = visit[Asking(order)[k].of]
               /\ \A j \in 1..Len(Asking(order)) : j # k => Asking(order)[j] # Asking(order)[k]
<1> DEFINE n == Cardinality(S)
<1>1. n \in Nat
  BY ClaimTickAssumption, FS_Subset, FS_CardinalityType
<1>2. order \in [1..n -> S] /\ \A i, j \in 1..n : i # j => order[i] # order[j]
  BY DEF Orders, SetToSeqs
<1>3. Asking(order) = [k \in 1..n |-> [of |-> order[k], visit |-> visit[order[k]]]]
  BY <1>2 DEF Asking
<1> HIDE DEF n
<1>4. \A k \in 1..n : order[k] \in Candidate /\ visit[order[k]] \in Nat
  BY <1>2 DEF TypeOK
<1>5. Asking(order) \in [1..n -> Request]
  BY <1>3, <1>4 DEF Request
<1>6. Asking(order) \in Seq(Request) /\ Len(Asking(order)) = n
  BY <1>1, <1>5
<1>7. \A k \in 1..n : /\ Asking(order)[k].of = order[k]
                     /\ Asking(order)[k].visit = visit[order[k]]
  BY <1>3
<1>8. \A j, k \in 1..n : j # k => Asking(order)[j] # Asking(order)[k]
  BY <1>2, <1>7
<1> QED BY <1>2, <1>6, <1>7, <1>8

-----------------------------------------------------------------------------
(* Types. *)

LEMMA InitTypes == Init => TypeOK
  BY ClaimTickAssumption DEF Init, TypeOK

\* An emission of an answer keeps the types of what it changes.
LEMMA EmitTypes ==
  ASSUME TypeOK, NEW answer \in SUBSET present, Emit(answer)
  PROVE  /\ queue' \in Seq(Request) /\ log' \in Seq(Request)
         /\ claimed' \subseteq Candidate /\ asked' \subseteq Request
         /\ unseen' \subseteq Candidate
<1>1. PICK order \in Orders(answer \ Kept(answer)) :
          /\ queue' = queue \o Asking(order)
          /\ log' = log \o Asking(order)
          /\ claimed' = Kept(answer) \cup answer
          /\ asked' = {r \in asked : r.of \notin present \ answer} \cup Range(Asking(order))
          /\ unseen' = unseen \cap answer
  BY DEF Emit
<1>2. answer \ Kept(answer) \in SUBSET Candidate
  BY DEF TypeOK
<1>3. Asking(order) \in Seq(Request)
  BY <1>2, Emitted
<1>4. Range(Asking(order)) \subseteq Request
  BY <1>3 DEF Range
<1> QED BY <1>1, <1>3, <1>4 DEF TypeOK, Kept

\* Every step keeps the variables in their types.
LEMMA StepTypes == TypeOK /\ [Next]_vars => TypeOK'
<1> SUFFICES ASSUME TypeOK, [Next]_vars PROVE TypeOK'
  OBVIOUS
<1>1. CASE \E c \in Candidate : Appears(c) \/ Vanishes(c)
  BY <1>1 DEF TypeOK, Appears, Vanishes
<1>2. CASE Tick
  BY <1>2, EmitTypes DEF Tick, TypeOK
<1>3. CASE TickPastError
  <2>1. PICK failed \in (SUBSET Polled) \ {{}} : Emit(Answer(failed))
    BY <1>3 DEF TickPastError
  <2>2. Answer(failed) \in SUBSET present
    BY DEF Answer
  <2>3. faults' \in 0..MaxFaults
    BY <1>3, ClaimTickAssumption DEF TickPastError, TypeOK
  <2> QED BY <1>3, <2>1, <2>2, <2>3, EmitTypes DEF TickPastError, TypeOK
<1>4. CASE TickGivesUp
  <2>1. faults' \in 0..MaxFaults
    BY <1>4, ClaimTickAssumption DEF TickGivesUp, TypeOK
  <2> QED BY <1>4, <2>1 DEF TickGivesUp, TypeOK
<1>5. CASE Dispatch
  <2>1. Head(queue) \in Request /\ Tail(queue) \in Seq(Request)
    BY <1>5 DEF Dispatch, TypeOK
  <2> QED BY <1>5, <2>1 DEF Dispatch, TypeOK
<1>6. CASE \E r \in running : Handled(r) \/ HandlerFails(r)
  BY <1>6 DEF TypeOK, Handled, HandlerFails
<1>7. CASE UNCHANGED vars
  BY <1>7 DEF vars, TypeOK
<1> QED BY <1>1, <1>2, <1>3, <1>4, <1>5, <1>6, <1>7 DEF Next

\* Every variable of the claim protocol keeps its type.
THEOREM TypeCorrect == Spec => []TypeOK
  BY InitTypes, StepTypes, PTL DEF Spec

-----------------------------------------------------------------------------
(* A request that will not be made again is one whose appearance is over,  *)
(* or one whose candidate is claimed.                                      *)

AskedInv ==
    \A r \in asked :
        /\ r.visit <= visit[r.of]
        /\ r.of \in present /\ r.visit = visit[r.of] => r.of \in claimed

Inv == TypeOK /\ AskedInv

\* After an emission, what was asked for and is there is in the poll's answer.
LEMMA EmitKeeps ==
  ASSUME Inv, NEW answer \in SUBSET present, Emit(answer), UNCHANGED <<present, visit>>
  PROVE  AskedInv'
<1>1. PICK order \in Orders(answer \ Kept(answer)) :
          /\ claimed' = Kept(answer) \cup answer
          /\ asked' = {r \in asked : r.of \notin present \ answer} \cup Range(Asking(order))
  BY DEF Emit
<1>2. answer \ Kept(answer) \in SUBSET Candidate
  BY DEF Inv, TypeOK
<1>3. ASSUME NEW r \in Range(Asking(order))
      PROVE  r.of \in answer /\ r.visit = visit[r.of] /\ visit[r.of] \in Nat
  <2>1. PICK k \in 1..Len(Asking(order)) : r = Asking(order)[k]
    BY <1>2, Emitted DEF Range, Inv
  <2> QED BY <1>2, <2>1, Emitted DEF Inv, TypeOK
<1>4. ASSUME NEW r \in asked, r.of \notin present \ answer, r.of \in present
      PROVE  r.of \in claimed'
  BY <1>1, <1>4
<1> QED BY <1>1, <1>3, <1>4 DEF AskedInv, Inv

\* Every step keeps it.
LEMMA StepKeeps == Inv /\ [Next]_vars => Inv'
<1> SUFFICES ASSUME Inv, [Next]_vars PROVE AskedInv'
  BY StepTypes DEF Inv
<1>1. ASSUME NEW c \in Candidate, Appears(c) PROVE AskedInv'
  BY <1>1 DEF Inv, AskedInv, TypeOK, Appears, Request
<1>2. ASSUME NEW c \in Candidate, Vanishes(c) PROVE AskedInv'
  BY <1>2 DEF Inv, AskedInv, TypeOK, Vanishes
<1>3. CASE Tick
  BY <1>3, EmitKeeps DEF Tick
<1>4. CASE TickPastError
  BY <1>4, EmitKeeps DEF TickPastError, Answer
<1>5. CASE TickGivesUp \/ Dispatch \/ UNCHANGED vars
  BY <1>5 DEF Inv, AskedInv, TickGivesUp, Dispatch, vars
<1>6. ASSUME NEW r \in running, Handled(r) \/ HandlerFails(r) PROVE AskedInv'
  BY <1>6 DEF Inv, AskedInv, Handled, HandlerFails
<1> QED BY <1>1, <1>2, <1>3, <1>4, <1>5, <1>6 DEF Next

LEMMA InitInv == Init => Inv
  BY InitTypes DEF Init, Inv, AskedInv

THEOREM AskedClaimed == Spec => []Inv
  BY InitInv, StepKeeps, PTL DEF Spec
-----------------------------------------------------------------------------
(* The refinement. *)

\* A tick of the code is a tick of Emission.
LEMMA EmitPromised ==
  ASSUME Inv, NEW answer \in SUBSET present, Emit(answer),
         UNCHANGED <<present, visit, lenient>>, answer = present \/ lenient
  PROVE  Promise!Ask
<1>1. PICK order \in Orders(answer \ Kept(answer)) :
          /\ log' = log \o Asking(order)
          /\ asked' = {r \in asked : r.of \notin present \ answer} \cup Range(Asking(order))
  BY DEF Emit
<1> DEFINE new == Asking(order)  old == {r \in asked : r.of \notin present \ answer}
<1>2. answer \ Kept(answer) \in SUBSET Candidate /\ answer \ Kept(answer) \subseteq present \ claimed
  BY DEF Inv, TypeOK, Kept
<1>3. log \in Seq(Request) /\ new \in Seq(Request)
  BY <1>2, Emitted DEF Inv, TypeOK
<1>4. \A k \in 1..Len(new) : /\ new[k].of \in present \ claimed
                             /\ new[k].visit = visit[new[k].of]
                             /\ \A j \in 1..Len(new) : j # k => new[j] # new[k]
  BY <1>2, Emitted DEF Inv
<1>5. \A k \in 1..Len(new) : new[k] \notin asked
  BY <1>4 DEF Inv, AskedInv
<1> HIDE DEF new
<1>6. Len(log') = Len(log) + Len(new) /\ \A k \in 1..Len(log) : log'[k] = log[k]
  BY <1>1, <1>3 DEF new
<1>7. \A k \in Promise!New : k - Len(log) \in 1..Len(new) /\ log'[k] = new[k - Len(log)]
  BY <1>1, <1>3, <1>6 DEF new, Promise!New
<1>8. {log'[k] : k \in Promise!New} = Range(new)
  <2>1. \A k \in 1..Len(new) : Len(log) + k \in Promise!New /\ log'[Len(log) + k] = new[k]
    BY <1>1, <1>3, <1>6 DEF new, Promise!New
  <2>2. Range(new) = {new[k] : k \in 1..Len(new)}
    BY <1>3 DEF Range
  <2> QED BY <1>7, <2>1, <2>2
<1>9. \A k \in Promise!New :
          /\ log'[k].of \in present
          /\ log'[k].visit = visit[log'[k].of]
          /\ \A j \in Promise!New : j # k => log'[j] # log'[k]
  <2>1. \A j, k \in Promise!New : j # k => j - Len(log) # k - Len(log)
    BY <1>3 DEF Promise!New
  <2> QED BY <1>4, <1>7, <2>1
<1>10. /\ old \in SUBSET asked
       /\ old # asked => lenient
       /\ \A k \in Promise!New : log'[k] \notin old
       /\ asked' = old \cup {log'[k] : k \in Promise!New}
  BY <1>1, <1>5, <1>7, <1>8 DEF new
<1> HIDE DEF old
<1>11. Len(log) <= Len(log')
  BY <1>3, <1>6
<1> QED BY <1>6, <1>9, <1>10, <1>11 DEF Promise!Ask

\* Every step of the protocol is a step of Emission, or leaves its variables alone.
LEMMA StepPromised == Inv /\ [Next]_vars => [Promise!Next]_(Promise!vars)
<1> SUFFICES ASSUME Inv, [Next]_vars PROVE Promise!Next \/ UNCHANGED Promise!vars
  OBVIOUS
<1>1. ASSUME NEW c \in Candidate, Appears(c) PROVE Promise!SourceMoves
  BY <1>1 DEF Inv, TypeOK, Appears, Promise!SourceMoves
<1>2. ASSUME NEW c \in Candidate, Vanishes(c) PROVE Promise!SourceMoves
  BY <1>2 DEF Inv, TypeOK, Vanishes, Promise!SourceMoves
<1>3. CASE Tick
  BY <1>3, EmitPromised DEF Tick, Promise!Next
<1>4. CASE TickPastError
  <2>1. PICK failed \in (SUBSET Polled) \ {{}} : Emit(Answer(failed))
    BY <1>4 DEF TickPastError
  <2> QED BY <1>4, <2>1, EmitPromised DEF TickPastError, Answer, Promise!Next
<1>5. CASE TickGivesUp \/ Dispatch \/ UNCHANGED vars
  BY <1>5 DEF TickGivesUp, Dispatch, vars, Promise!vars
<1>6. ASSUME NEW r \in running, Handled(r) PROVE Promise!SourceMoves
  BY <1>6 DEF Inv, TypeOK, Handled, Promise!SourceMoves
<1>7. ASSUME NEW r \in running, HandlerFails(r) PROVE UNCHANGED Promise!vars
  BY <1>7 DEF HandlerFails, Promise!vars
<1> QED BY <1>1, <1>2, <1>3, <1>4, <1>5, <1>6, <1>7 DEF Next, Promise!Next

\* It starts where Emission starts.
LEMMA InitPromised == Init => Promise!Init
  BY DEF Init, Promise!Init

\* The claims keep the promise of Emission: a request per appearance of a candidate, and
\* only a tick that takes failing sources for empty ones may make it again.
THEOREM PromiseKept == Spec => OncePerAppearance
  BY AskedClaimed, StepPromised, InitPromised, PTL
     DEF Spec, OncePerAppearance, Promise!Spec

-----------------------------------------------------------------------------
(* What the promise is worth.                                              *)

\* Unless it is lenient, Emission forgets nothing that it asked for.
Once == Promise!NoneTwice /\ (~lenient => \A k \in DOMAIN log : log[k] \in asked)

LEMMA StepOnce ==
  ASSUME log \in Seq(Request), log' \in Seq(Request), Once, [Promise!Next]_(Promise!vars)
  PROVE  Once'
<1>1. CASE Promise!SourceMoves \/ UNCHANGED Promise!vars
  BY <1>1 DEF Promise!SourceMoves, Promise!vars, Once, Promise!NoneTwice
<1>2. CASE Promise!Ask
  <2> SUFFICES ASSUME ~lenient
               PROVE  /\ \A j, k \in DOMAIN log' : log'[j] = log'[k] => j = k
                      /\ \A k \in DOMAIN log' : log'[k] \in asked'
    BY <1>2 DEF Promise!Ask, Once, Promise!NoneTwice
  <2>1. DOMAIN log = 1..Len(log) /\ DOMAIN log' = 1..Len(log')
    OBVIOUS
  <2>2. \A k \in 1..Len(log') : k \in 1..Len(log) \/ k \in Promise!New
    BY DEF Promise!New
  <2>3. asked' = asked \cup {log'[k] : k \in Promise!New} /\ \A k \in Promise!New : log'[k] \notin asked
    BY <1>2 DEF Promise!Ask
  <2>4. \A k \in 1..Len(log) : log'[k] = log[k] /\ log[k] \in asked
    BY <1>2, <2>1 DEF Promise!Ask, Once
  <2>5. \A j, k \in 1..Len(log) : log[j] = log[k] => j = k
    BY <2>1 DEF Once, Promise!NoneTwice
  <2>6. \A j, k \in Promise!New : log'[j] = log'[k] => j = k
    BY <1>2 DEF Promise!Ask
  <2> QED
    BY <2>1, <2>2, <2>3, <2>4, <2>5, <2>6
<1> QED
  BY <1>1, <1>2 DEF Promise!Next

\* A tick that gives up on a failing source makes no request twice: whatever comes and goes,
\* one appearance of a candidate is asked for at most once, ever.
THEOREM AskedOnce == Spec => []Promise!NoneTwice
<1>1. Promise!Init => Once
  BY DEF Promise!Init, Once, Promise!NoneTwice
<1>2. TypeOK => log \in Seq(Request)
  BY DEF TypeOK
<1>3. Once => Promise!NoneTwice
  BY DEF Once
<1>4. (log \in Seq(Request)) /\ (log \in Seq(Request))' /\ Once /\ [Promise!Next]_(Promise!vars) => Once'
  BY StepOnce
<1> QED
  BY <1>1, <1>2, <1>3, <1>4, TypeCorrect, PromiseKept, PTL DEF OncePerAppearance, Promise!Spec
=============================================================================
