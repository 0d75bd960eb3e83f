------------------------- MODULE FollowupFiling_proofs -------------------------
(***************************************************************************)
(* For any finite set of follow-ups and any number of refusals and faults: *)
(* the type invariant of FollowupFiling, that a created row names an issue *)
(* filed for it, and how many issues a follow-up can have.                 *)
(*                                                                         *)
(* The count is not inductive.  Counted attributes every issue beyond the  *)
(* faults to one of two turns, each of which a follow-up has only once:    *)
(* that of the tool and that of the last pass that shows it.               *)
(***************************************************************************)
EXTENDS FollowupFiling, FiniteSetTheorems, TLAPS

\* The issues of a follow-up.
Of(s, f) == {k \in DOMAIN s : s[k] = f}

Filable == {"approved", "created"}

Shown == {pass[k] : k \in 1..Len(pass)}

Holds(f) == held # 0 /\ Head(pass) = f

ToolTurn(f) == IF f \in direct /\ f \notin filing THEN 1 ELSE 0

PassTurn(f) == IF ~Holds(f) /\ (row[f] = "approved" \/ f \in Shown) THEN 0 ELSE 1

Bounded == \A f \in Followup : syncs[f] <= refusals

Tooling ==
    /\ filing \subseteq direct
    /\ \A f \in direct : row[f] \in Filable
    /\ \A f \in Followup : mine[f] # 0 =>
          /\ f \in direct /\ f \notin filing
          /\ mine[f] \in 1..Len(issues) /\ issues[mine[f]] = f

Passing ==
    /\ \A j, k \in 1..Len(pass) : j < k => pass[j] < pass[k]
    /\ \A k \in 1..Len(pass) : row[pass[k]] \in Filable
    /\ held # 0 => /\ pass # <<>> /\ held \in 1..Len(issues)
                   /\ issues[held] = Head(pass)

Counted ==
    \A f \in Followup :
        /\ row[f] \notin Filable => Of(issues, f) = {}
        /\ Cardinality(Of(issues, f)) <= faults[f] + ToolTurn(f) + PassTurn(f)

IInv == TypeOK /\ Bounded /\ Tooling /\ Passing /\ CreatedIsTracked /\ Counted

-----------------------------------------------------------------------------
(* Sequences of issues. *)

LEMMA OfCount ==
  ASSUME NEW s \in Seq(Followup), NEW f \in Followup
  PROVE  IsFiniteSet(Of(s, f)) /\ Cardinality(Of(s, f)) \in Nat
<1>1. IsFiniteSet(1..Len(s)) /\ Of(s, f) \subseteq 1..Len(s)
  BY FS_Interval DEF Of
<1> QED
  BY <1>1, FS_Subset, FS_CardinalityType

LEMMA IssuesType ==
  ASSUME IInv
  PROVE  issues \in Seq(Followup) /\ items \subseteq 1..Len(issues)
<1>1. issues \in Seq(Followup) /\ items \subseteq DOMAIN issues
  BY DEF IInv, TypeOK
<1> QED
  BY <1>1

LEMMA AppendIssue ==
  ASSUME NEW s \in Seq(Followup), NEW f \in Followup
  PROVE  /\ Append(s, f) \in Seq(Followup) /\ Len(Append(s, f)) = Len(s) + 1
         /\ Len(s) \in Nat /\ Len(Append(s, f)) \in 1..Len(Append(s, f))
         /\ Append(s, f)[Len(Append(s, f))] = f
         /\ \A k \in 1..Len(s) : Append(s, f)[k] = s[k] /\ k \in 1..Len(Append(s, f))
  OBVIOUS

\* One more issue, for g.
LEMMA OfAppend ==
  ASSUME NEW s \in Seq(Followup), NEW g \in Followup, NEW f \in Followup
  PROVE  /\ f # g => Of(Append(s, g), f) = Of(s, f)
         /\ Cardinality(Of(Append(s, g), g)) = Cardinality(Of(s, g)) + 1
<1>1. /\ Append(s, g) \in Seq(Followup) /\ Len(Append(s, g)) = Len(s) + 1
      /\ \A k \in 1..Len(s) : Append(s, g)[k] = s[k]
      /\ Append(s, g)[Len(s) + 1] = g
  OBVIOUS
<1>2. f # g => Of(Append(s, g), f) = Of(s, f)
  BY <1>1 DEF Of
<1>3. Of(Append(s, g), g) = Of(s, g) \cup {Len(s) + 1}
  BY <1>1 DEF Of
<1>4. Len(s) + 1 \notin Of(s, g)
  BY DEF Of
<1>5. Cardinality(Of(s, g) \cup {Len(s) + 1}) = Cardinality(Of(s, g)) + 1
  BY <1>4, OfCount, FS_AddElement
<1> QED
  BY <1>2, <1>3, <1>5

\* What is left of a pass after its head.
LEMMA PassTail ==
  ASSUME IInv, pass # <<>>
  PROVE  /\ Head(pass) \in Followup /\ Head(pass) = pass[1] /\ Tail(pass) \in Seq(Followup)
         /\ Len(Tail(pass)) = Len(pass) - 1
         /\ \A k \in 1..Len(Tail(pass)) : Tail(pass)[k] = pass[k + 1] /\ k + 1 \in 1..Len(pass)
         /\ {Tail(pass)[k] : k \in 1..Len(Tail(pass))} = Shown \ {Head(pass)}
<1>1. /\ Head(pass) \in Followup /\ Head(pass) = pass[1] /\ Tail(pass) \in Seq(Followup)
      /\ Len(Tail(pass)) = Len(pass) - 1 /\ Len(pass) \in Nat /\ Len(pass) >= 1
      /\ \A k \in 1..Len(Tail(pass)) : Tail(pass)[k] = pass[k + 1] /\ k + 1 \in 1..Len(pass)
  BY DEF IInv, TypeOK
<1>2. \A k \in 1..Len(pass) : k # 1 => pass[k] # pass[1]
  <2> TAKE k \in 1..Len(pass)
  <2> HAVE k # 1
  <2>1. 1 \in 1..Len(pass) /\ 1 < k
    BY <1>1
  <2>2. pass[1] < pass[k]
    BY <2>1 DEF IInv, Passing
  <2>3. pass[1] \in Nat
    <3>1. pass[1] \in Followup
      BY <2>1 DEF IInv, TypeOK
    <3> QED
      BY <3>1, FollowupFilingAssumption
  <2> QED
    BY <2>2, <2>3
<1>3. \A k \in 1..Len(pass) : k # 1 => k - 1 \in 1..Len(Tail(pass)) /\ Tail(pass)[k - 1] = pass[k]
  BY <1>1
<1>4. {Tail(pass)[k] : k \in 1..Len(Tail(pass))} \subseteq Shown \ {Head(pass)}
  BY <1>1, <1>2 DEF Shown
<1>5. Shown \ {Head(pass)} \subseteq {Tail(pass)[k] : k \in 1..Len(Tail(pass))}
  BY <1>1, <1>3 DEF Shown
<1> QED
  BY <1>1, <1>4, <1>5

LEMMA InitIInv == Init => IInv
<1> SUFFICES ASSUME Init PROVE IInv
  OBVIOUS
<1>0. TypeOK
  BY FollowupFilingAssumption DEF Init, TypeOK
<1>1. Bounded /\ Tooling /\ Passing /\ CreatedIsTracked
  BY DEF Init, Bounded, Tooling, Passing, CreatedIsTracked, Filable
<1>2. \A f \in Followup : Of(issues, f) = {}
  BY DEF Init, Of
<1>3. \A f \in Followup : faults[f] = 0 /\ ToolTurn(f) \in {0, 1} /\ PassTurn(f) \in {0, 1}
  BY DEF Init, ToolTurn, PassTurn
<1>4. Counted
  BY <1>2, <1>3, FS_EmptySet DEF Counted
<1> QED
  BY <1>0, <1>1, <1>4 DEF IInv

-----------------------------------------------------------------------------
(* The count, in a step that files nothing and in one that files for g. *)

LEMMA Turns ==
  \A f \in Followup : ToolTurn(f) \in {0, 1} /\ PassTurn(f) \in {0, 1}
  BY DEF ToolTurn, PassTurn

LEMMA CountedSame ==
  ASSUME IInv, faults' \in [Followup -> Nat], issues' = issues,
         \A f \in Followup : row'[f] \notin Filable => row[f] \notin Filable,
         \A f \in Followup :
             \/ row[f] \notin Filable
             \/ faults[f] + ToolTurn(f) + PassTurn(f) <= faults'[f] + ToolTurn(f)' + PassTurn(f)'
  PROVE  Counted'
<1> SUFFICES ASSUME NEW f \in Followup
             PROVE  /\ row'[f] \notin Filable => Of(issues, f) = {}
                    /\ Cardinality(Of(issues, f)) <= faults'[f] + ToolTurn(f)' + PassTurn(f)'
  BY DEF Counted
<1>1. /\ faults[f] \in Nat /\ faults'[f] \in Nat /\ ToolTurn(f) \in {0, 1} /\ PassTurn(f) \in {0, 1}
      /\ ToolTurn(f)' \in {0, 1} /\ PassTurn(f)' \in {0, 1}
  BY DEF IInv, TypeOK, ToolTurn, PassTurn
<1>2. Cardinality(Of(issues, f)) \in Nat
  BY OfCount DEF IInv, TypeOK
<1>3. /\ row[f] \notin Filable => Of(issues, f) = {}
      /\ Cardinality(Of(issues, f)) <= faults[f] + ToolTurn(f) + PassTurn(f)
  BY DEF IInv, Counted
<1>4. CASE row[f] \notin Filable
  <2>1. Of(issues, f) = {} /\ Cardinality(Of(issues, f)) = 0
    BY <1>3, <1>4, FS_EmptySet
  <2> HIDE DEF Of
  <2> QED
    BY <1>1, <2>1
<1>5. CASE row[f] \in Filable
  BY <1>1, <1>2, <1>3, <1>5
<1> QED
  BY <1>4, <1>5

LEMMA CountedNew ==
  ASSUME IInv, NEW g \in Followup, issues' = Append(issues, g), row' = row, faults' = faults,
         row[g] \in Filable,
         \A f \in Followup \ {g} : ToolTurn(f)' = ToolTurn(f) /\ PassTurn(f)' = PassTurn(f),
         ToolTurn(g)' + PassTurn(g)' = ToolTurn(g) + PassTurn(g) + 1
  PROVE  Counted'
<1> SUFFICES ASSUME NEW f \in Followup
             PROVE  /\ row[f] \notin Filable => Of(issues', f) = {}
                    /\ Cardinality(Of(issues', f)) <= faults[f] + ToolTurn(f)' + PassTurn(f)'
  BY DEF Counted
<1>1. /\ issues \in Seq(Followup) /\ faults[f] \in Nat
      /\ ToolTurn(f) \in {0, 1} /\ PassTurn(f) \in {0, 1}
      /\ ToolTurn(f)' \in {0, 1} /\ PassTurn(f)' \in {0, 1}
  BY DEF IInv, TypeOK, ToolTurn, PassTurn
<1>2. Cardinality(Of(issues, f)) \in Nat
  BY <1>1, OfCount
<1>3. /\ row[f] \notin Filable => Of(issues, f) = {}
      /\ Cardinality(Of(issues, f)) <= faults[f] + ToolTurn(f) + PassTurn(f)
  BY DEF IInv, Counted
<1>4. CASE f # g
  <2>1. Of(issues', f) = Of(issues, f)
    BY <1>1, <1>4, OfAppend
  <2> QED
    BY <1>3, <1>4, <2>1
<1>5. CASE f = g
  <2>1. Cardinality(Of(issues', g)) = Cardinality(Of(issues, g)) + 1
    BY <1>1, OfAppend
  <2> QED
    BY <1>1, <1>2, <1>3, <1>5, <2>1
<1> QED
  BY <1>4, <1>5

\* A call that reports an error, for g: it makes no issue, or one that is counted as lost.
\* A filer that does not come to record its issue counts the one that it had made.
Forgoes(g) == Orphaned(g) \/ (UNCHANGED issues /\ faults' = Lost(g))

LEMMA ForgoesGrows ==
  ASSUME IInv, NEW g \in Followup, Forgoes(g)
  PROVE  /\ issues' \in Seq(Followup) /\ faults' \in [Followup -> Nat]
         /\ \A k \in 1..Len(issues) : k \in 1..Len(issues') /\ issues'[k] = issues[k]
         /\ items \subseteq DOMAIN issues'
         /\ \A f \in Followup :
               /\ Cardinality(Of(issues', f)) + faults[f] <= Cardinality(Of(issues, f)) + faults'[f]
               /\ f # g => Of(issues', f) = Of(issues, f)
<1>1. /\ issues \in Seq(Followup) /\ items \subseteq 1..Len(issues)
      /\ faults \in [Followup -> Nat]
  BY IssuesType DEF IInv, TypeOK
<1>2. \A f \in Followup : Cardinality(Of(issues, f)) \in Nat /\ faults[f] \in Nat
  BY <1>1, OfCount
<1>3. /\ Lost(g) \in [Followup -> Nat] /\ Lost(g)[g] = faults[g] + 1
      /\ \A f \in Followup \ {g} : Lost(g)[f] = faults[f]
  BY <1>1 DEF Lost
<1>4. CASE issues' = issues /\ faults' \in {faults, Lost(g)}
  <2>1. \A f \in Followup : faults[f] <= faults'[f] /\ faults'[f] \in Nat
    BY <1>2, <1>3, <1>4
  <2>2. \A f \in Followup :
            Cardinality(Of(issues, f)) + faults[f] <= Cardinality(Of(issues, f)) + faults'[f]
    <3> HIDE DEF Of
    <3> QED
      BY <1>2, <2>1
  <2> QED
    BY <1>1, <1>3, <1>4, <2>2
<1>5. CASE issues' = Append(issues, g) /\ faults' = Lost(g)
  <2>1. /\ Append(issues, g) \in Seq(Followup)
        /\ \A k \in 1..Len(issues) :
              Append(issues, g)[k] = issues[k] /\ k \in 1..Len(Append(issues, g))
    BY <1>1, AppendIssue
  <2>2. \A f \in Followup : f # g => Of(issues', f) = Of(issues, f)
    BY <1>1, <1>5, OfAppend
  <2>3. Cardinality(Of(issues', g)) = Cardinality(Of(issues, g)) + 1
    BY <1>1, <1>5, OfAppend
  <2>4. \A f \in Followup :
            Cardinality(Of(issues', f)) + faults[f] <= Cardinality(Of(issues, f)) + faults'[f]
    <3> TAKE f \in Followup
    <3> HIDE DEF Of
    <3>1. CASE f = g
      BY <1>2, <1>3, <1>5, <2>3, <3>1
    <3>2. CASE f # g
      BY <1>2, <1>3, <1>5, <2>2, <3>2
    <3> QED
      BY <3>1, <3>2
  <2>5. items \subseteq DOMAIN issues'
    BY <1>1, <1>5, <2>1
  <2> QED
    BY <1>3, <1>5, <2>1, <2>2, <2>4, <2>5
<1> QED
  BY <1>4, <1>5 DEF Forgoes, Orphaned

LEMMA CountedForgone ==
  ASSUME IInv, NEW g \in Followup, Forgoes(g), row[g] \in Filable, row' = row,
         \A f \in Followup : ToolTurn(f) + PassTurn(f) <= ToolTurn(f)' + PassTurn(f)'
  PROVE  Counted'
<1> SUFFICES ASSUME NEW f \in Followup
             PROVE  /\ row[f] \notin Filable => Of(issues', f) = {}
                    /\ Cardinality(Of(issues', f)) <= faults'[f] + ToolTurn(f)' + PassTurn(f)'
  BY DEF Counted
<1>1. /\ issues' \in Seq(Followup) /\ faults'[f] \in Nat
      /\ Cardinality(Of(issues', f)) + faults[f] <= Cardinality(Of(issues, f)) + faults'[f]
      /\ f # g => Of(issues', f) = Of(issues, f)
  BY ForgoesGrows
<1>2. /\ ToolTurn(f) \in {0, 1} /\ PassTurn(f) \in {0, 1}
      /\ ToolTurn(f)' \in {0, 1} /\ PassTurn(f)' \in {0, 1}
  BY DEF ToolTurn, PassTurn
<1>3. /\ Cardinality(Of(issues, f)) \in Nat /\ Cardinality(Of(issues', f)) \in Nat
      /\ faults[f] \in Nat
  BY <1>1, OfCount DEF IInv, TypeOK
<1>4. /\ row[f] \notin Filable => Of(issues, f) = {}
      /\ Cardinality(Of(issues, f)) <= faults[f] + ToolTurn(f) + PassTurn(f)
  BY DEF IInv, Counted
<1> HIDE DEF Of
<1>5. Cardinality(Of(issues', f)) <= faults'[f] + ToolTurn(f)' + PassTurn(f)'
  BY <1>1, <1>2, <1>3, <1>4
<1> QED
  BY <1>1, <1>4, <1>5

-----------------------------------------------------------------------------
(* Rows. *)

LEMMA RowSteps ==
  ASSUME IInv, NEW f \in Followup, Propose(f) \/ CreateDirectly(f) \/ Decide(f)
  PROVE  IInv'
<1> USE DEF tool, bounds
<1>1. /\ UNCHANGED <<created, issues, items, syncs, mine, pass, held, bounds>>
      /\ row[f] \notin Filable
      /\ \A g \in Followup \ {f} : row'[g] = row[g]
      /\ row' \in [Followup -> {"none", "proposed", "approved", "created", "rejected"}]
      /\ row'[f] # "created"
  BY DEF Propose, CreateDirectly, Decide, IInv, TypeOK, Filable
<1>2. /\ f \notin direct /\ f \notin filing
      /\ \/ direct' = direct /\ filing' = filing
         \/ direct' = direct \cup {f} /\ filing' = filing \cup {f} /\ row'[f] = "approved"
  BY <1>1 DEF Propose, CreateDirectly, Decide, IInv, TypeOK, Tooling
<1>3. TypeOK' /\ Bounded'
  BY <1>1, <1>2 DEF IInv, TypeOK, Bounded
<1>4. Tooling'
  BY <1>1, <1>2 DEF IInv, TypeOK, Tooling, Filable
<1>5. Passing'
  <2>1. \A k \in 1..Len(pass) : pass[k] # f
    BY <1>1 DEF IInv, Passing
  <2>2. \A k \in 1..Len(pass) : pass[k] \in Followup
    BY DEF IInv, TypeOK
  <2> QED
    BY <1>1, <2>1, <2>2 DEF IInv, Passing
<1>6. CreatedIsTracked'
  BY <1>1 DEF IInv, CreatedIsTracked
<1>7. Counted'
  <2>1. faults' = faults /\ faults' \in [Followup -> Nat] /\ issues' = issues
    BY <1>1 DEF IInv, TypeOK
  <2>2. \A g \in Followup : row'[g] \notin Filable => row[g] \notin Filable
    BY <1>1
  <2>3. \A g \in Followup \ {f} : ToolTurn(g)' = ToolTurn(g) /\ PassTurn(g)' = PassTurn(g)
    BY <1>1, <1>2 DEF ToolTurn, PassTurn, Holds, Shown
  <2>4. \A g \in Followup : 
             \/ row[g] \notin Filable
             \/ faults[g] + ToolTurn(g) + PassTurn(g) <= faults'[g] + ToolTurn(g)' + PassTurn(g)'
    <3> TAKE g \in Followup
    <3>1. faults[g] \in Nat /\ ToolTurn(g) \in {0, 1} /\ PassTurn(g) \in {0, 1}
      BY Turns DEF IInv, TypeOK
    <3> QED
      BY <1>1, <2>1, <2>3, <3>1
  <2> QED
    BY <2>1, <2>2, <2>4, CountedSame
<1> QED
  BY <1>3, <1>4, <1>5, <1>6, <1>7 DEF IInv

-----------------------------------------------------------------------------
(* The tool. *)

LEMMA ToolFilesStep ==
  ASSUME IInv, NEW f \in Followup, ToolFiles(f)
  PROVE  IInv'
<1> USE DEF rows, bounds
<1>1. /\ f \in filing /\ f \in direct /\ row[f] \in Filable
      /\ UNCHANGED <<rows, syncs, pass, held, bounds>>
      /\ issues' = Append(issues, f) /\ filing' = filing \ {f}
      /\ mine' = [mine EXCEPT ![f] = Len(issues')]
  BY DEF ToolFiles, IInv, Tooling
<1>2. /\ issues' \in Seq(Followup) /\ Len(issues') = Len(issues) + 1
      /\ \A k \in 1..Len(issues) : issues'[k] = issues[k] /\ k \in 1..Len(issues')
      /\ issues'[Len(issues')] = f /\ Len(issues') \in 1..Len(issues')
      /\ items \subseteq 1..Len(issues)
  BY <1>1, IssuesType, AppendIssue
<1>3. TypeOK' /\ Bounded'
  BY <1>1, <1>2 DEF IInv, TypeOK, Bounded
<1>4. Tooling'
  BY <1>1, <1>2 DEF IInv, TypeOK, Tooling
<1>5. Passing' /\ CreatedIsTracked'
  BY <1>1, <1>2 DEF IInv, Passing, CreatedIsTracked
<1>6. Counted'
  <2>1. \A g \in Followup \ {f} : ToolTurn(g)' = ToolTurn(g)
    BY <1>1 DEF ToolTurn
  <2>2. \A g \in Followup : PassTurn(g)' = PassTurn(g)
    BY <1>1 DEF PassTurn, Holds, Shown
  <2>3. ToolTurn(f)' = 1 /\ ToolTurn(f) = 0
    BY <1>1 DEF ToolTurn
  <2>4. ToolTurn(f)' + PassTurn(f)' = ToolTurn(f) + PassTurn(f) + 1
    BY <2>2, <2>3, Turns
  <2> QED
    BY <1>1, <2>1, <2>2, <2>4, CountedNew
<1> QED
  BY <1>3, <1>4, <1>5, <1>6 DEF IInv

\* A row of pending_tracker_syncs for f.
LEMMA RefusedSyncs ==
  ASSUME IInv, NEW f \in Followup, Refused(f)
  PROVE  /\ syncs' \in [Followup -> 0..MaxRefusals] /\ refusals' \in 0..MaxRefusals
         /\ Bounded'
<1>1. /\ refusals < MaxRefusals /\ refusals' = refusals + 1
      /\ syncs' = [syncs EXCEPT ![f] = @ + 1]
  BY DEF Refused
<1>2. \A g \in Followup : syncs[g] \in 0..MaxRefusals /\ syncs[g] <= refusals
  BY DEF IInv, TypeOK, Bounded
<1>3. refusals \in 0..MaxRefusals /\ refusals' \in 0..MaxRefusals
  BY <1>1, FollowupFilingAssumption DEF IInv, TypeOK
<1>4. \A g \in Followup : syncs'[g] \in {syncs[g]} \cup {syncs[f] + 1}
  BY <1>1 DEF IInv, TypeOK
<1>5. \A g \in Followup : syncs'[g] \in 0..MaxRefusals /\ syncs'[g] <= refusals'
  BY <1>1, <1>2, <1>3, <1>4, FollowupFilingAssumption
<1>6. syncs' \in [Followup -> 0..MaxRefusals]
  BY <1>1, <1>5 DEF IInv, TypeOK
<1> QED
  BY <1>3, <1>5, <1>6 DEF Bounded

\* A call of the tool ends without its issue recorded, because the tracker refused it, or a
\* transaction failed.
LEMMA ToolEndsStep ==
  ASSUME IInv, NEW f \in Followup, Forgoes(f), f \in filing \/ mine[f] # 0,
         filing' = filing \ {f}, mine' \in {mine, [mine EXCEPT ![f] = 0]},
         UNCHANGED <<rows, pass, held>>,
         refusals' \in 0..MaxRefusals, syncs' \in [Followup -> 0..MaxRefusals], Bounded',
         failed' \in 0..MaxFaults
  PROVE  IInv'
<1> USE DEF rows
<1>1. /\ issues' \in Seq(Followup) /\ faults' \in [Followup -> Nat]
      /\ \A k \in 1..Len(issues) : k \in 1..Len(issues') /\ issues'[k] = issues[k]
      /\ items \subseteq DOMAIN issues'
  BY ForgoesGrows
<1>2. items \subseteq 1..Len(issues)
  BY IssuesType
<1>3. TypeOK'
  <2>1. filing' \subseteq Followup /\ mine' \in [Followup -> Nat]
    BY DEF IInv, TypeOK
  <2> QED
    BY <1>1, <2>1 DEF IInv, TypeOK
<1>4. Tooling'
  <2>1. \A g \in Followup : mine'[g] # 0 => mine'[g] = mine[g]
    BY DEF IInv, TypeOK
  <2> QED
    BY <1>1, <2>1 DEF IInv, Tooling
<1>5. Passing' /\ CreatedIsTracked'
  BY <1>1, <1>2 DEF IInv, Passing, CreatedIsTracked
<1>6. Counted'
  <2>1. row[f] \in Filable /\ row' = row
    BY DEF IInv, Tooling
  <2>2. \A g \in Followup : ToolTurn(g)' \in {ToolTurn(g), 1} /\ PassTurn(g)' = PassTurn(g)
    BY DEF ToolTurn, PassTurn, Holds, Shown
  <2>3. \A g \in Followup : ToolTurn(g) + PassTurn(g) <= ToolTurn(g)' + PassTurn(g)'
    BY <2>2, Turns
  <2> QED
    BY <2>1, <2>3, CountedForgone
<1> QED
  BY <1>3, <1>4, <1>5, <1>6 DEF IInv

LEMMA ToolRefusedStep ==
  ASSUME IInv, NEW f \in Followup, ToolRefused(f)
  PROVE  IInv'
<1>1. /\ f \in filing /\ Refused(f) /\ filing' = filing \ {f}
      /\ UNCHANGED <<rows, mine, pass, held, failed>>
  BY DEF ToolRefused
<1>2. Forgoes(f)
  BY <1>1 DEF Refused, Forgoes
<1>3. failed' \in 0..MaxFaults
  BY <1>1 DEF IInv, TypeOK
<1> QED
  BY <1>1, <1>2, <1>3, RefusedSyncs, ToolEndsStep

-----------------------------------------------------------------------------

\* Recording an issue that was filed for f, in whichever turn.
LEMMA RecordedKeeps ==
  ASSUME IInv, NEW f \in Followup, row[f] \in Filable,
         NEW k \in 1..Len(issues), issues[k] = f, Recorded(f, k), issues' = issues
  PROVE  /\ row' \in [Followup -> {"none", "proposed", "approved", "created", "rejected"}]
         /\ created' \in [Followup -> Nat] /\ items' \subseteq DOMAIN issues'
         /\ \A g \in Followup : row[g] \in Filable <=> row'[g] \in Filable
         /\ \A g \in Followup \ {f} : row'[g] = row[g]
         /\ row'[f] = "created"
         /\ CreatedIsTracked'
<1>1. issues \in Seq(Followup) /\ items \subseteq 1..Len(issues)
  BY IssuesType
<1>2. /\ row \in [Followup -> {"none", "proposed", "approved", "created", "rejected"}]
      /\ created \in [Followup -> Nat]
  BY DEF IInv, TypeOK
<1>3. CreatedIsTracked
  BY DEF IInv
<1> QED
  BY <1>1, <1>2, <1>3 DEF Recorded, CreatedIsTracked, Filable

LEMMA ToolRecordsStep ==
  ASSUME IInv, NEW f \in Followup, ToolRecords(f)
  PROVE  IInv'
<1> USE DEF bounds
<1>1. /\ mine[f] # 0 /\ mine[f] \in 1..Len(issues) /\ issues[mine[f]] = f
      /\ f \in direct /\ f \notin filing /\ row[f] \in Filable
      /\ Recorded(f, mine[f]) /\ mine' = [mine EXCEPT ![f] = 0]
      /\ UNCHANGED <<direct, issues, syncs, filing, pass, held, bounds>>
  BY DEF ToolRecords, IInv, Tooling
<1>2. /\ row' \in [Followup -> {"none", "proposed", "approved", "created", "rejected"}]
      /\ created' \in [Followup -> Nat] /\ items' \subseteq DOMAIN issues'
      /\ \A g \in Followup : row[g] \in Filable <=> row'[g] \in Filable
      /\ \A g \in Followup \ {f} : row'[g] = row[g]
      /\ row'[f] = "created"
      /\ CreatedIsTracked'
  BY <1>1, RecordedKeeps
<1>3. TypeOK' /\ Bounded'
  BY <1>1, <1>2 DEF IInv, TypeOK, Bounded
<1>4. Tooling'
  BY <1>1, <1>2 DEF IInv, TypeOK, Tooling
<1>5. Passing'
  <2>1. \A k \in 1..Len(pass) : pass[k] \in Followup
    BY DEF IInv, TypeOK
  <2> QED
    BY <1>1, <1>2, <2>1 DEF IInv, Passing
<1>6. Counted'
  <2>1. \A g \in Followup :
            faults[g] + ToolTurn(g) + PassTurn(g) <= faults'[g] + ToolTurn(g)' + PassTurn(g)'
    <3> TAKE g \in Followup
    <3>1. faults[g] \in Nat /\ faults'[g] = faults[g] /\ ToolTurn(g)' = ToolTurn(g)
      BY <1>1 DEF IInv, TypeOK, ToolTurn
    <3>2. PassTurn(g)' \in {PassTurn(g), 1}
      BY <1>1, <1>2 DEF PassTurn, Holds, Shown
    <3> QED
      BY <3>1, <3>2, Turns
  <2>2. faults' \in [Followup -> Nat]
    BY <1>3 DEF TypeOK
  <2> QED
    BY <1>1, <1>2, <2>1, <2>2, CountedSame
<1> QED
  BY <1>2, <1>3, <1>4, <1>5, <1>6 DEF IInv

-----------------------------------------------------------------------------
(* The filer's pass. *)

LEMMA PassBeginsStep ==
  ASSUME IInv, PassBegins
  PROVE  IInv'
<1> USE DEF rows, tool, bounds
<1>1. PICK order \in SetToSeqs(Approved) :
          /\ pass = <<>> /\ pass' = order
          /\ \A j, k \in DOMAIN order : j < k => order[j] < order[k]
          /\ UNCHANGED <<rows, issues, syncs, tool, held, bounds>>
  BY DEF PassBegins
<1> DEFINE n == Cardinality(Approved)
<1>2. n \in Nat
  BY FollowupFilingAssumption, FS_Subset, FS_CardinalityType DEF Approved
<1>3. order \in [1..n -> Approved]
  BY DEF SetToSeqs
<1> HIDE DEF n
<1>4. pass' \in Seq(Followup) /\ Len(pass') = n
  BY <1>1, <1>2, <1>3 DEF Approved
<1>5. \A k \in 1..Len(pass') : pass'[k] \in Followup /\ row[pass'[k]] = "approved"
  BY <1>1, <1>3, <1>4 DEF Approved
<1>6. held = 0
  BY <1>1 DEF IInv, Passing
<1>7. TypeOK' /\ Bounded'
  BY <1>1, <1>4 DEF IInv, TypeOK, Bounded
<1>8. Tooling' /\ CreatedIsTracked'
  BY <1>1 DEF IInv, Tooling, CreatedIsTracked
<1>9. Passing'
  BY <1>1, <1>3, <1>4, <1>5, <1>6 DEF Passing, Filable
<1>10. Counted'
  <2>1. \A g \in Followup : ToolTurn(g)' = ToolTurn(g)
    BY <1>1 DEF ToolTurn
  <2>2. \A g \in Followup : PassTurn(g)' = PassTurn(g)
    <3> TAKE g \in Followup
    <3>1. g \notin Shown /\ (g \in Shown' => row[g] = "approved")
      BY <1>1, <1>5 DEF Shown
    <3> QED
      BY <1>1, <1>6, <3>1 DEF PassTurn, Holds
  <2>3. faults' = faults /\ faults \in [Followup -> Nat] /\ row' = row /\ issues' = issues
    BY <1>1 DEF IInv, TypeOK
  <2>4. \A g \in Followup : faults[g] + ToolTurn(g) + PassTurn(g) <= faults'[g] + ToolTurn(g)' + PassTurn(g)'
    BY <2>1, <2>2, <2>3, Turns
  <2> QED
    BY <2>3, <2>4, CountedSame
<1> QED
  BY <1>7, <1>8, <1>9, <1>10 DEF IInv

LEMMA PassFilesStep ==
  ASSUME IInv, PassFiles
  PROVE  IInv'
<1> USE DEF rows, tool, bounds
<1>0. PICK f \in Followup : f = Head(pass)
  BY PassTail DEF PassFiles
<1>1. /\ pass # <<>> /\ held = 0 /\ issues' = Append(issues, f) /\ held' = Len(issues')
      /\ UNCHANGED <<rows, syncs, tool, pass, bounds>>
  BY <1>0 DEF PassFiles
<1>2. f \in Shown /\ row[f] \in Filable
  <2>1. f = pass[1]
    BY <1>0, <1>1, PassTail
  <2>2. 1 \in 1..Len(pass)
    BY <1>1 DEF IInv, TypeOK
  <2> QED
    BY <2>1, <2>2 DEF IInv, Passing, Shown
<1>3. /\ issues' \in Seq(Followup) /\ Len(issues') = Len(issues) + 1 /\ Len(issues) \in Nat
      /\ \A k \in 1..Len(issues) : issues'[k] = issues[k] /\ k \in 1..Len(issues')
      /\ issues'[Len(issues')] = f /\ Len(issues') \in 1..Len(issues')
      /\ items \subseteq 1..Len(issues)
  BY <1>1, IssuesType, AppendIssue
<1>4. TypeOK' /\ Bounded'
  <2>1. items' \subseteq DOMAIN issues' /\ held' \in Nat
    BY <1>1, <1>3
  <2> QED
    BY <1>1, <1>3, <2>1 DEF IInv, TypeOK, Bounded
<1>5. Tooling' /\ CreatedIsTracked'
  BY <1>1, <1>3 DEF IInv, Tooling, CreatedIsTracked
<1>6. Passing'
  BY <1>0, <1>1, <1>3 DEF IInv, Passing
<1>7. Counted'
  <2>1. \A g \in Followup : ToolTurn(g)' = ToolTurn(g)
    BY <1>1 DEF ToolTurn
  <2>2. \A g \in Followup \ {f} : PassTurn(g)' = PassTurn(g)
    BY <1>0, <1>1 DEF PassTurn, Holds, Shown
  <2>3. PassTurn(f) = 0
    BY <1>1, <1>2 DEF PassTurn, Holds
  <2>4. PassTurn(f)' = 1
    <3>1. held' # 0 /\ pass' = pass
      BY <1>1, <1>3
    <3> QED
      BY <1>0, <3>1 DEF PassTurn, Holds
  <2>5. ToolTurn(f)' + PassTurn(f)' = ToolTurn(f) + PassTurn(f) + 1
    BY <2>1, <2>3, <2>4, Turns
  <2> QED
    BY <1>1, <1>2, <2>1, <2>2, <2>5, CountedNew
<1> QED
  BY <1>4, <1>5, <1>6, <1>7 DEF IInv

\* The pass goes on to its next row.
LEMMA NextRow ==
  ASSUME IInv, pass # <<>>, pass' = Tail(pass), held' = 0,
         \A g \in Followup : row[g] \in Filable => row'[g] \in Filable
  PROVE  Passing' /\ pass' \in Seq(Followup) /\ Shown' = Shown \ {Head(pass)}
<1>1. /\ Tail(pass) \in Seq(Followup)
      /\ \A k \in 1..Len(Tail(pass)) : Tail(pass)[k] = pass[k + 1] /\ k + 1 \in 1..Len(pass)
      /\ {Tail(pass)[k] : k \in 1..Len(Tail(pass))} = Shown \ {Head(pass)}
  BY PassTail
<1>2. \A k \in 1..Len(pass) : pass[k] \in Followup /\ row[pass[k]] \in Filable
  <2>1. pass \in Seq(Followup)
    BY DEF IInv, TypeOK
  <2>2. \A k \in 1..Len(pass) : pass[k] \in Followup
    BY <2>1
  <2>3. \A k \in 1..Len(pass) : row[pass[k]] \in Filable
    BY DEF IInv, Passing
  <2> QED
    BY <2>2, <2>3
<1>3. \A k \in 1..Len(pass') : row'[pass'[k]] \in Filable
  BY <1>1, <1>2
<1>4. \A j, k \in 1..Len(pass') : j < k => pass'[j] < pass'[k]
  <2> TAKE j, k \in 1..Len(pass')
  <2> HAVE j < k
  <2>1. /\ pass'[j] = pass[j + 1] /\ pass'[k] = pass[k + 1]
        /\ j + 1 \in 1..Len(pass) /\ k + 1 \in 1..Len(pass) /\ j + 1 < k + 1
    BY <1>1
  <2> QED
    BY <2>1 DEF IInv, Passing
<1> QED
  BY <1>1, <1>3, <1>4 DEF Passing, Shown

\* The row that the pass is at.
LEMMA PassHead ==
  ASSUME IInv, pass # <<>>
  PROVE  Head(pass) \in Followup /\ row[Head(pass)] \in Filable
<1>1. Head(pass) = pass[1] /\ Head(pass) \in Followup
  BY PassTail
<1>2. 1 \in 1..Len(pass)
  BY DEF IInv, TypeOK
<1> QED
  BY <1>1, <1>2 DEF IInv, Passing

LEMMA PassRefusedStep ==
  ASSUME IInv, PassRefused
  PROVE  IInv'
<1> USE DEF rows, tool
<1> DEFINE f == Head(pass)
<1>1. /\ pass # <<>> /\ held = 0 /\ held' = 0 /\ pass' = Tail(pass)
      /\ UNCHANGED <<rows, tool, held, failed>> /\ Refused(f)
  BY DEF PassRefused
<1>2. f \in Followup /\ row[f] \in Filable
  BY <1>1, PassHead
<1>3. pass' \in Seq(Followup) /\ Shown' = Shown \ {f} /\ Passing'
  BY <1>1, NextRow
<1> HIDE DEF f
<1>4. Forgoes(f)
  BY <1>1 DEF Refused, Forgoes
<1>5. /\ issues' \in Seq(Followup) /\ faults' \in [Followup -> Nat]
      /\ \A k \in 1..Len(issues) : k \in 1..Len(issues') /\ issues'[k] = issues[k]
      /\ items \subseteq DOMAIN issues' /\ items \subseteq 1..Len(issues)
  BY <1>2, <1>4, ForgoesGrows, IssuesType
<1>6. TypeOK' /\ Bounded'
  BY <1>1, <1>2, <1>3, <1>5, RefusedSyncs DEF IInv, TypeOK
<1>7. Tooling' /\ CreatedIsTracked'
  BY <1>1, <1>5 DEF IInv, Tooling, CreatedIsTracked
<1>8. Counted'
  <2>1. \A g \in Followup : ToolTurn(g)' = ToolTurn(g) /\ PassTurn(g)' \in {PassTurn(g), 1}
    BY <1>1, <1>3 DEF ToolTurn, PassTurn, Holds
  <2>2. \A g \in Followup : ToolTurn(g) + PassTurn(g) <= ToolTurn(g)' + PassTurn(g)'
    BY <2>1, Turns
  <2> QED
    BY <1>1, <1>2, <1>4, <2>2, CountedForgone
<1> QED
  BY <1>3, <1>6, <1>7, <1>8 DEF IInv

LEMMA PassRecordsStep ==
  ASSUME IInv, PassRecords
  PROVE  IInv'
<1> USE DEF bounds, tool
<1> DEFINE f == Head(pass)
<1>1. /\ held # 0 /\ pass # <<>> /\ held \in 1..Len(issues) /\ issues[held] = f
      /\ Recorded(f, held) /\ pass' = Tail(pass) /\ held' = 0
      /\ UNCHANGED <<direct, issues, syncs, tool, bounds>>
  BY DEF PassRecords, IInv, Passing
<1>2. f \in Followup /\ row[f] \in Filable
  <2>1. f \in Followup /\ f = pass[1]
    BY <1>1, PassTail
  <2>2. 1 \in 1..Len(pass)
    BY <1>1 DEF IInv, TypeOK
  <2> QED
    BY <2>1, <2>2 DEF IInv, Passing
<1> HIDE DEF f
<1>3. /\ row' \in [Followup -> {"none", "proposed", "approved", "created", "rejected"}]
      /\ created' \in [Followup -> Nat] /\ items' \subseteq DOMAIN issues'
      /\ \A g \in Followup : row[g] \in Filable <=> row'[g] \in Filable
      /\ \A g \in Followup \ {f} : row'[g] = row[g]
      /\ row'[f] = "created"
      /\ CreatedIsTracked'
  BY <1>1, <1>2, RecordedKeeps
<1>4. Passing' /\ pass' \in Seq(Followup) /\ Shown' = Shown \ {f}
  BY <1>1, <1>3, NextRow DEF f
<1>5. TypeOK' /\ Bounded'
  BY <1>1, <1>3, <1>4 DEF IInv, TypeOK, Bounded
<1>6. Tooling'
  BY <1>1, <1>3 DEF IInv, TypeOK, Tooling
<1>7. Counted'
  <2>1. \A g \in Followup :
            faults[g] + ToolTurn(g) + PassTurn(g) <= faults'[g] + ToolTurn(g)' + PassTurn(g)'
    <3> TAKE g \in Followup
    <3>1. faults[g] \in Nat /\ faults'[g] = faults[g] /\ ToolTurn(g)' = ToolTurn(g)
      BY <1>1 DEF IInv, TypeOK, ToolTurn
    <3>2. PassTurn(g)' \in {PassTurn(g), 1}
      BY <1>1, <1>3, <1>4 DEF PassTurn, Holds, f
    <3> QED
      BY <3>1, <3>2, Turns
  <2>2. faults' \in [Followup -> Nat]
    BY <1>5 DEF TypeOK
  <2> QED
    BY <1>1, <1>3, <2>1, <2>2, CountedSame
<1> QED
  BY <1>3, <1>4, <1>5, <1>6, <1>7 DEF IInv

\* The pass and perhaps the tool's calls end, and what they held is counted as lost.
LEMMA LossStep ==
  ASSUME IInv, (PassFails /\ held # 0) \/ Crash
  PROVE  IInv'
<1> USE DEF rows, tool
<1>1. /\ pass' = <<>> /\ held' = 0 /\ failed < MaxFaults /\ failed' = failed + 1
      /\ UNCHANGED <<rows, issues, syncs, refusals>>
      /\ \/ filing' = filing /\ mine' = mine
         \/ filing' = {} /\ mine' = [f \in Followup |-> 0]
  BY DEF PassFails, Crash
<1>2. /\ faults' \in [Followup -> Nat]
      /\ \A f \in Followup : faults[f] <= faults'[f] /\ (Holds(f) => faults[f] + 1 <= faults'[f])
  <2>1. faults \in [Followup -> Nat]
    BY DEF IInv, TypeOK
  <2>2. CASE PassFails /\ held # 0
    <3>1. held # 0 /\ faults' = [faults EXCEPT ![Head(pass)] = @ + 1]
      BY <2>2 DEF PassFails, Lost
    <3>2. PICK h : h = Head(pass)
      OBVIOUS
    <3>3. \A f \in Followup :
              faults'[f] = faults[f] + (IF held # 0 /\ f = h THEN 1 ELSE 0)
      BY <2>1, <3>1, <3>2
    <3>4. faults' \in [Followup -> Nat]
      <4>1. \A f \in Followup : faults'[f] \in Nat
        BY <2>1, <3>3
      <4>2. faults' = [f \in Followup |-> faults'[f]]
        BY <2>1, <3>1
      <4> QED
        BY <4>1, <4>2
    <3> QED
      BY <2>1, <3>2, <3>3, <3>4 DEF Holds
  <2>3. CASE Crash
    <3> DEFINE a(f) == IF mine[f] # 0 THEN 1 ELSE 0
               b(f) == IF held # 0 /\ Head(pass) = f THEN 1 ELSE 0
    <3>1. faults' = [f \in Followup |-> faults[f] + a(f) + b(f)]
      BY <2>3 DEF Crash
    <3>2. \A f \in Followup : a(f) \in {0, 1} /\ b(f) \in {0, 1} /\ (Holds(f) => b(f) = 1)
      BY DEF Holds
    <3> HIDE DEF a, b
    <3> QED
      BY <2>1, <3>1, <3>2
  <2> QED
    BY <2>2, <2>3
<1>3. TypeOK' /\ Bounded'
  <2>1. filing' \subseteq Followup /\ mine' \in [Followup -> Nat]
    BY <1>1 DEF IInv, TypeOK
  <2>2. pass' \in Seq(Followup) /\ held' \in Nat /\ failed' \in 0..MaxFaults
    BY <1>1, FollowupFilingAssumption DEF IInv, TypeOK
  <2> QED
    BY <1>1, <1>2, <2>1, <2>2 DEF IInv, TypeOK, Bounded
<1>4. Tooling' /\ Passing' /\ CreatedIsTracked'
  <2>1. filing' \subseteq filing /\ \A g \in Followup : mine'[g] # 0 => mine'[g] = mine[g]
    BY <1>1
  <2>2. Tooling'
    BY <1>1, <2>1 DEF IInv, Tooling
  <2>3. 1..Len(pass') = {}
    BY <1>1
  <2>4. Passing'
    BY <1>1, <2>3 DEF Passing
  <2>5. CreatedIsTracked'
    BY <1>1 DEF IInv, CreatedIsTracked
  <2> QED
    BY <2>2, <2>4, <2>5
<1>5. Counted'
  <2>1. \A g \in Followup :
            faults[g] + ToolTurn(g) + PassTurn(g) <= faults'[g] + ToolTurn(g)' + PassTurn(g)'
    <3> TAKE g \in Followup
    <3>1. faults[g] \in Nat /\ faults'[g] \in Nat
      BY <1>2 DEF IInv, TypeOK
    <3>2. ToolTurn(g)' \in {ToolTurn(g), 1}
      BY <1>1 DEF ToolTurn
    <3>3. PassTurn(g)' \in {0, 1} /\ (~Holds(g) => PassTurn(g)' \in {PassTurn(g), 1})
      BY <1>1 DEF PassTurn, Holds, Shown
    <3>4. CASE Holds(g)
      BY <1>2, <3>1, <3>2, <3>3, <3>4, Turns
    <3>5. CASE ~Holds(g)
      BY <1>2, <3>1, <3>2, <3>3, <3>5, Turns
    <3> QED
      BY <3>4, <3>5
  <2> QED
    BY <1>1, <1>2, <2>1, CountedSame
<1> QED
  BY <1>3, <1>4, <1>5 DEF IInv

\* The pass ends at a row whose issue it did not come to hold.
LEMMA PassEndsStep ==
  ASSUME IInv, PassFails, held = 0
  PROVE  IInv'
<1> USE DEF rows, tool
<1> DEFINE f == Head(pass)
<1>1. /\ pass # <<>> /\ pass' = <<>> /\ held' = 0 /\ Orphaned(f)
      /\ failed < MaxFaults /\ failed' = failed + 1
      /\ UNCHANGED <<rows, syncs, tool, refusals>>
  BY DEF PassFails
<1>2. f \in Followup /\ row[f] \in Filable /\ Forgoes(f)
  BY <1>1, PassHead DEF Forgoes
<1> HIDE DEF f
<1>3. /\ issues' \in Seq(Followup) /\ faults' \in [Followup -> Nat]
      /\ \A k \in 1..Len(issues) : k \in 1..Len(issues') /\ issues'[k] = issues[k]
      /\ items \subseteq DOMAIN issues' /\ items \subseteq 1..Len(issues)
  BY <1>2, ForgoesGrows, IssuesType
<1>4. TypeOK' /\ Bounded'
  <2>1. pass' \in Seq(Followup) /\ held' \in Nat /\ failed' \in 0..MaxFaults
    BY <1>1, FollowupFilingAssumption DEF IInv, TypeOK
  <2> QED
    BY <1>1, <1>3, <2>1 DEF IInv, TypeOK, Bounded
<1>5. Tooling' /\ Passing' /\ CreatedIsTracked'
  <2>1. 1..Len(pass') = {}
    BY <1>1
  <2> QED
    BY <1>1, <1>3, <2>1 DEF IInv, Tooling, Passing, CreatedIsTracked
<1>6. Counted'
  <2>1. \A g \in Followup : ToolTurn(g)' = ToolTurn(g) /\ PassTurn(g)' \in {PassTurn(g), 1}
    BY <1>1 DEF ToolTurn, PassTurn, Holds, Shown
  <2>2. \A g \in Followup : ToolTurn(g) + PassTurn(g) <= ToolTurn(g)' + PassTurn(g)'
    BY <2>1, Turns
  <2> QED
    BY <1>1, <1>2, <2>2, CountedForgone
<1> QED
  BY <1>4, <1>5, <1>6 DEF IInv

LEMMA ToolFailsStep ==
  ASSUME IInv, NEW f \in Followup, ToolFails(f)
  PROVE  IInv'
<1>1. /\ f \in filing \/ mine[f] # 0
      /\ failed < MaxFaults /\ failed' = failed + 1
      /\ filing' = filing \ {f} /\ mine' = [mine EXCEPT ![f] = 0]
      /\ UNCHANGED <<rows, syncs, pass, held, refusals>>
  BY DEF ToolFails
<1>2. Forgoes(f)
  BY DEF ToolFails, Forgoes
<1>3. failed' \in 0..MaxFaults
  BY <1>1, FollowupFilingAssumption DEF IInv, TypeOK
<1>4. refusals' \in 0..MaxRefusals /\ syncs' \in [Followup -> 0..MaxRefusals] /\ Bounded'
  BY <1>1 DEF IInv, TypeOK, Bounded
<1> QED
  BY <1>1, <1>2, <1>3, <1>4, ToolEndsStep

-----------------------------------------------------------------------------
LEMMA StepIInv == IInv /\ [Next]_vars => IInv'
<1> SUFFICES ASSUME IInv, [Next]_vars PROVE IInv'
  OBVIOUS
<1>1. ASSUME NEW f \in Followup, Propose(f) \/ CreateDirectly(f) \/ Decide(f) PROVE IInv'
  BY <1>1, RowSteps
<1>2. ASSUME NEW f \in Followup, ToolFiles(f) PROVE IInv'
  BY <1>2, ToolFilesStep
<1>3. ASSUME NEW f \in Followup, ToolRefused(f) PROVE IInv'
  BY <1>3, ToolRefusedStep
<1>4. ASSUME NEW f \in Followup, ToolRecords(f) PROVE IInv'
  BY <1>4, ToolRecordsStep
<1>5. CASE PassBegins
  BY <1>5, PassBeginsStep
<1>6. CASE PassFiles
  BY <1>6, PassFilesStep
<1>7. CASE PassRefused
  BY <1>7, PassRefusedStep
<1>8. CASE PassRecords
  BY <1>8, PassRecordsStep
<1>9. CASE PassFails \/ Crash
  BY <1>9, LossStep, PassEndsStep
<1>10. ASSUME NEW f \in Followup, ToolFails(f) PROVE IInv'
  BY <1>10, ToolFailsStep
<1>11. CASE UNCHANGED vars
  <2> USE DEF vars, tool, bounds
  <2>1. TypeOK' /\ Bounded'
    BY <1>11 DEF IInv, TypeOK, Bounded
  <2>2. Tooling' /\ Passing' /\ CreatedIsTracked'
    BY <1>11 DEF IInv, Tooling, Passing, CreatedIsTracked
  <2>3. Counted'
    BY <1>11 DEF IInv, Counted, ToolTurn, PassTurn, Holds, Shown
  <2> QED
    BY <2>1, <2>2, <2>3 DEF IInv
<1> QED
  BY <1>1, <1>2, <1>3, <1>4, <1>5, <1>6, <1>7, <1>8, <1>9, <1>10, <1>11 DEF Next

LEMMA Inductive == Spec => []IInv
  BY InitIInv, StepIInv, PTL DEF Spec

-----------------------------------------------------------------------------
(* Theorems. *)

\* Type correctness: in particular a work item stands for an issue that exists.
THEOREM TypeCorrect == Spec => []TypeOK
<1>1. IInv => TypeOK
  BY DEF IInv
<1> QED
  BY <1>1, Inductive, PTL

\* A created row names an issue that was filed for it and that has its work item.
THEOREM CreatedRowsTracked == Spec => []CreatedIsTracked
<1>1. IInv => CreatedIsTracked
  BY DEF IInv
<1> QED
  BY <1>1, Inductive, PTL

\* A follow-up has one issue, one more for each that was lost, by a fault or by an error that
\* create_issue reported after the tracker had made it, and one more if the tool files it too.
THEOREM IssuesBounded == Spec => []IssuesAccounted
<1>1. IInv => IssuesAccounted
  <2> SUFFICES ASSUME IInv, NEW f \in Followup
               PROVE  Cardinality(Of(issues, f)) <= 1 + faults[f] + (IF f \in direct THEN 1 ELSE 0)
    BY DEF IssuesAccounted, Of
  <2>1. /\ faults[f] \in Nat /\ PassTurn(f) \in {0, 1}
        /\ ToolTurn(f) \in 0..(IF f \in direct THEN 1 ELSE 0)
    BY Turns DEF IInv, TypeOK, ToolTurn
  <2>2. Cardinality(Of(issues, f)) <= faults[f] + ToolTurn(f) + PassTurn(f)
    BY DEF IInv, Counted
  <2>3. Cardinality(Of(issues, f)) \in Nat
    BY OfCount DEF IInv, TypeOK
  <2> HIDE DEF Of
  <2> QED
    BY <2>1, <2>2, <2>3
<1> QED
  BY <1>1, Inductive, PTL
=============================================================================
