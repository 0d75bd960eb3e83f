------------------------------- MODULE Emission -------------------------------
(***************************************************************************)
(* What every queue tick promises the runner behind it, whatever its       *)
(* source: it asks for candidates that are there, and for each of their    *)
(* appearances once.  A lenient tick takes a source that fails for one     *)
(* that is empty, and may then forget what it asked for; no other does.    *)
(*                                                                         *)
(* visit[c] counts the appearances of c at the source; log holds the       *)
(* requests made so far, each with the appearance it is for, and asked     *)
(* those of them that will not be made again.                              *)
(***************************************************************************)
EXTENDS Integers, Sequences

CONSTANT Candidate

VARIABLES present, visit, log, asked, lenient

vars == <<present, visit, log, asked, lenient>>

Init ==
    /\ present \subseteq Candidate
    /\ visit \in [Candidate -> Nat]
    /\ log = <<>> /\ asked = {}
    /\ lenient \in BOOLEAN

\* The source changes.  What was not there before begins another appearance.
SourceMoves ==
    /\ present' \subseteq Candidate
    /\ visit' = [c \in Candidate |->
                    IF c \in present' \ present THEN visit[c] + 1 ELSE visit[c]]
    /\ UNCHANGED <<log, asked, lenient>>

\* Where the requests of this step are in the log.
New == (Len(log) + 1)..Len(log')

\* One tick: requests are added for candidates that are there and that have not been
\* asked for since they came, each once.
Ask ==
    /\ Len(log) <= Len(log') /\ \A k \in 1..Len(log) : log'[k] = log[k]
    /\ \A k \in New :
          /\ log'[k].of \in present
          /\ log'[k].visit = visit[log'[k].of]
          /\ \A j \in New : j # k => log'[j] # log'[k]
    /\ \E kept \in SUBSET asked :
          /\ kept # asked => lenient
          /\ \A k \in New : log'[k] \notin kept
          /\ asked' = kept \cup {log'[k] : k \in New}
    /\ UNCHANGED <<present, visit, lenient>>

Next == SourceMoves \/ Ask

Spec == Init /\ [][Next]_vars

\* What the promise comes to for the runner: unless the tick is lenient, a candidate "does
\* not re-emit" for an appearance it has been asked for, however many ticks pass.
NoneTwice == ~lenient => \A j, k \in DOMAIN log : log[j] = log[k] => j = k
=============================================================================
