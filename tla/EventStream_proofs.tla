-------------------------- MODULE EventStream_proofs --------------------------
(***************************************************************************)
(* Theorems about EventStream for any finite sets of keys and clients, any *)
(* runners and logs, and all limits that EventStreamAssumption admits.     *)
(***************************************************************************)
EXTENDS EventStream, FiniteSetTheorems, TLAPS

-----------------------------------------------------------------------------
(* The inductive invariant. *)

\* An outbox holds what its runner saw; only what is there has been stored, in a table.
Outboxes ==
    \A r \in Runner :
        /\ \A j \in DOMAIN outbox[r] : SeenBy[outbox[r][j]] = r
        /\ stored[r] => durable /\ outbox[r] # <<>>

\* What r's passes can observe.
Observable(r) == {k \in Key : SeenBy[k] = r}

\* Of what r observes, its log takes nothing for told that r's last pass did not see.
Remembers == \A r \in Runner : active[LogOf[r]] \cap Observable(r) \subseteq last[r]

\* One, if an event of k is in the table and not yet on the bus.
Between(k) ==
    LET r == SeenBy[k]
    IN  IF stored[r] /\ Head(outbox[r]) = k THEN 1 ELSE 0

\* The table is ahead of the bus by what is between them.
Ahead == durable => \A k \in Key : Count(bus, k) + Between(k) <= Count(log, k)

\* A stream that is served has a client; frames in flight have a connection, and the one
\* that says how much was missed is the last of a stream that has ended.
Links ==
    \A c \in Client :
        /\ open[c] \/ wire[c] # <<>> => link[c] = "up"
        /\ \A j \in DOMAIN wire[c] : wire[c][j] = Lagged => j = Len(wire[c]) /\ ~open[c]

\* The cursor kept, the frames in flight, the cursor of the stream and the rows it has
\* fetched are consecutive numbers.
Consecutive(c) ==
    /\ wire[c] # <<>> => open[c]
    /\ open[c] =>
         /\ \A j \in DOMAIN wire[c] : wire[c][j] = at[c] - Len(wire[c]) + j
         /\ c \in Resuming /\ got[c] > 0 => at[c] - Len(wire[c]) = got[c]
         /\ \A j \in DOMAIN page[c] : page[c][j] = at[c] + j

InStep == durable => \A c \in Client : Consecutive(c)

\* TypeOK in three parts: a step of the runners, and one of the server, each keep one of the
\* first two.
Events ==
    /\ active \in [Log -> SUBSET Key] /\ last \in [Runner -> SUBSET Key]
    /\ outbox \in [Runner -> Seq(Key)] /\ stored \in [Runner -> BOOLEAN]
    /\ told \in [Key -> Int]
    /\ log \in Seq(Key) /\ bus \in Seq(Key) /\ durable \in BOOLEAN

Streams ==
    /\ link \in [Client -> {"down", "up", "refused"}] /\ open \in [Client -> BOOLEAN]
    /\ at \in [Client -> {0} \cup Numbers] /\ page \in [Client -> Seq(Numbers)]
    /\ wire \in [Client -> Seq({Lagged} \cup Numbers)] /\ got \in [Client -> {0} \cup Numbers]

Process ==
    /\ server \in {"listening", "draining", "stopped"}
    /\ slots \in Nat /\ orphans \in Nat /\ faults \in 0..MaxFaults

ServerInv == TypeOK /\ Links /\ SlotsAccounted

-----------------------------------------------------------------------------
(* Events of one key in a sequence. *)

Marks(s, k) == {j \in 1..Len(s) : s[j] = k}

One(x, k) == IF x = k THEN 1 ELSE 0

LEMMA CountFinite ==
  ASSUME NEW s \in Seq(Key), NEW k
  PROVE  /\ IsFiniteSet(Marks(s, k))
         /\ Count(s, k) = Cardinality(Marks(s, k)) /\ Count(s, k) \in Nat
<1>1. IsFiniteSet(1..Len(s)) /\ Marks(s, k) \subseteq 1..Len(s)
  BY FS_Interval DEF Marks
<1>2. {j \in DOMAIN s : s[j] = k} = Marks(s, k)
  BY DEF Marks
<1>3. Count(s, k) = Cardinality(Marks(s, k))
  BY <1>2 DEF Count
<1> QED
  BY <1>1, <1>3, FS_Subset, FS_CardinalityType

LEMMA CountEmpty == \A k : Count(<<>>, k) = 0
<1> TAKE k
<1>1. {j \in DOMAIN <<>> : <<>>[j] = k} = {}
  OBVIOUS
<1> QED
  BY <1>1, FS_EmptySet DEF Count

LEMMA CountAppend ==
  ASSUME NEW s \in Seq(Key), NEW x \in Key, NEW k
  PROVE  Append(s, x) \in Seq(Key) /\ Count(Append(s, x), k) = Count(s, k) + One(x, k)
<1> DEFINE t == Append(s, x)
<1>1. /\ t \in Seq(Key) /\ Len(t) = Len(s) + 1 /\ Len(s) \in Nat
      /\ t[Len(s) + 1] = x /\ \A j \in 1..Len(s) : t[j] = s[j]
  OBVIOUS
<1> HIDE DEF t
<1>2. Marks(t, k) = IF x = k THEN Marks(s, k) \cup {Len(s) + 1} ELSE Marks(s, k)
  BY <1>1 DEF Marks
<1>3. Len(s) + 1 \notin Marks(s, k)
  BY <1>1 DEF Marks
<1>4. Cardinality(Marks(s, k) \cup {Len(s) + 1}) = Cardinality(Marks(s, k)) + 1
  BY <1>3, CountFinite, FS_AddElement
<1>5. Count(t, k) = Cardinality(Marks(t, k)) /\ Count(s, k) = Cardinality(Marks(s, k))
  BY <1>1, CountFinite
<1>6. Count(t, k) = Count(s, k) + One(x, k)
  BY <1>2, <1>4, <1>5, CountFinite DEF One
<1> QED
  BY <1>1, <1>6 DEF t

LEMMA CountTail ==
  ASSUME NEW s \in Seq(Key), s # <<>>, NEW k
  PROVE  /\ Head(s) \in Key /\ Tail(s) \in Seq(Key)
         /\ Count(s, k) = Count(Tail(s), k) + One(Head(s), k)
<1> DEFINE t == Tail(s)
           later == Marks(s, k) \ {1}
           shift == [j \in Marks(t, k) |-> j + 1]
<1>1. /\ t \in Seq(Key) /\ Len(s) \in Nat \ {0} /\ Len(t) = Len(s) - 1
      /\ Head(s) = s[1] /\ s[1] \in Key /\ \A j \in 1..Len(t) : t[j] = s[j + 1]
  OBVIOUS
<1> HIDE DEF t
<1>2. ExistsBijection(Marks(t, k), later)
  <2>1. shift \in [Marks(t, k) -> later]
    BY <1>1 DEF Marks
  <2>2. \A i, j \in Marks(t, k) : shift[i] = shift[j] => i = j
    BY <1>1 DEF Marks
  <2>3. ASSUME NEW i \in later PROVE \E j \in Marks(t, k) : shift[j] = i
    <3>1. i - 1 \in Marks(t, k) /\ i \in Int
      BY <1>1, <2>3 DEF Marks
    <3>2. shift[i - 1] = i
      BY <3>1
    <3> QED
      BY <3>1, <3>2
  <2> HIDE DEF shift, later
  <2>4. shift \in Bijection(Marks(t, k), later)
    BY <2>1, <2>2, <2>3 DEF Bijection, Injection, Surjection, IsInjective
  <2> QED
    BY <2>4 DEF ExistsBijection
<1>3. IsFiniteSet(Marks(t, k)) /\ Count(t, k) = Cardinality(Marks(t, k)) /\ Count(t, k) \in Nat
  BY <1>1, CountFinite
<1>4. Cardinality(later) = Count(t, k)
  BY <1>2, <1>3, FS_Bijection
<1>5. 1 \in Marks(s, k) <=> Head(s) = k
  BY <1>1 DEF Marks
<1>6. IsFiniteSet(Marks(s, k)) /\ Count(s, k) = Cardinality(Marks(s, k)) /\ Count(s, k) \in Nat
  BY CountFinite
<1>7. Cardinality(later) = IF 1 \in Marks(s, k) THEN Count(s, k) - 1 ELSE Count(s, k)
  BY <1>6, FS_RemoveElement
<1>8. Count(s, k) = Count(t, k) + One(Head(s), k)
  BY <1>3, <1>4, <1>5, <1>6, <1>7 DEF One
<1> QED
  BY <1>1, <1>8 DEF t

\* A set in some order has each of its elements once.
LEMMA CountOrdered ==
  ASSUME NEW S \in SUBSET Key, NEW s \in SetToSeqs(S)
  PROVE  /\ s \in Seq(Key) /\ \A j \in DOMAIN s : s[j] \in S
         /\ \A k \in Key : Count(s, k) = IF k \in S THEN 1 ELSE 0
<1> DEFINE n == Cardinality(S)
<1>1. IsFiniteSet(S) /\ n \in Nat
  BY EventStreamAssumption, FS_Subset, FS_CardinalityType
<1>2. s \in [1..n -> S] /\ \A i, j \in 1..n : i # j => s[i] # s[j]
  BY DEF SetToSeqs
<1>3. IsFiniteSet(1..n) /\ Cardinality(1..n) = n
  BY <1>1, FS_Interval
<1>4. s \in Injection(1..n, S)
  BY <1>2 DEF Injection, IsInjective
<1>5. \A x \in S : \E j \in 1..n : s[j] = x
  <2>1. s \in Surjection(1..n, S)
    BY <1>1, <1>3, <1>4, FS_Injection
  <2> QED
    BY <2>1 DEF Surjection
<1> HIDE DEF n
<1>6. s \in Seq(Key) /\ Len(s) = n /\ DOMAIN s = 1..n
  BY <1>1, <1>2
<1>7. ASSUME NEW k \in Key PROVE Count(s, k) = IF k \in S THEN 1 ELSE 0
  <2>1. CASE k \in S
    <3>1. PICK j \in 1..n : s[j] = k
      BY <1>5, <2>1
    <3>2. Marks(s, k) = {j}
      BY <1>2, <1>6, <3>1 DEF Marks
    <3> QED
      BY <1>6, <2>1, <3>2, CountFinite, FS_Singleton
  <2>2. CASE k \notin S
    <3>1. Marks(s, k) = {}
      BY <1>2, <1>6, <2>2 DEF Marks
    <3> QED
      BY <1>6, <2>2, <3>1, CountFinite, FS_EmptySet
  <2> QED
    BY <2>1, <2>2
<1> QED
  BY <1>2, <1>6, <1>7

-----------------------------------------------------------------------------
(* Types, connections and slots. *)

LEMMA Split == TypeOK <=> Events /\ Streams /\ Process
  BY DEF TypeOK, Events, Streams, Process

LEMMA SplitNext == TypeOK' <=> Events' /\ Streams' /\ Process'
  BY DEF TypeOK, Events, Streams, Process

\* What the log and the broadcaster do leaves the streams what they were.
LEMMA StreamsFrame ==
  ASSUME TypeOK, UNCHANGED streamVars, UNCHANGED server,
         Len(Feed) \in Nat, Len(Feed)' \in Nat, Len(Feed) <= Len(Feed)', faults' \in 0..MaxFaults
  PROVE  Streams' /\ Process'
<1>1. Numbers \subseteq Numbers'
  BY DEF Numbers
<1>2. ASSUME NEW S, NEW T, S \subseteq T, NEW s \in Seq(S) PROVE s \in Seq(T)
  BY <1>2
<1>3. Process'
  BY DEF TypeOK, Process, streamVars
<1>4. /\ link' \in [Client -> {"down", "up", "refused"}] /\ open' \in [Client -> BOOLEAN]
      /\ at' \in [Client -> {0} \cup Numbers'] /\ got' \in [Client -> {0} \cup Numbers']
  BY <1>1 DEF TypeOK, streamVars
<1>5. page' \in [Client -> Seq(Numbers')]
  BY <1>1, <1>2 DEF TypeOK, streamVars
<1>6. wire' \in [Client -> Seq({Lagged} \cup Numbers')]
  BY <1>1, <1>2 DEF TypeOK, streamVars
<1> QED
  BY <1>3, <1>4, <1>5, <1>6 DEF Streams

LEMMA FeedType == TypeOK => Feed \in Seq(Key) /\ Len(Feed) \in Nat
  BY DEF TypeOK, Feed

LEMMA OutboxHead ==
  ASSUME TypeOK, NEW r \in Runner, outbox[r] # <<>>
  PROVE  /\ outbox[r] \in Seq(Key) /\ Head(outbox[r]) \in Key /\ Tail(outbox[r]) \in Seq(Key)
         /\ Append(log, Head(outbox[r])) \in Seq(Key) /\ Len(Append(log, Head(outbox[r]))) = Len(log) + 1
         /\ Append(bus, Head(outbox[r])) \in Seq(Key) /\ Len(Append(bus, Head(outbox[r]))) = Len(bus) + 1
         /\ Len(log) \in Nat /\ Len(bus) \in Nat
<1>1. outbox[r] \in Seq(Key) /\ log \in Seq(Key) /\ bus \in Seq(Key)
  BY DEF TypeOK
<1>2. Head(outbox[r]) \in Key /\ Tail(outbox[r]) \in Seq(Key)
  BY <1>1
<1> QED
  BY <1>1, <1>2

LEMMA EventTypes ==
  ASSUME TypeOK, NEW r \in Runner, Pass(r) \/ Persist(r) \/ PersistFails(r) \/ Emit(r)
  PROVE  TypeOK'
<1>1. LogOf[r] \in Log /\ MaxFaults \in Nat
  BY EventStreamAssumption
<1>2. Len(Feed) \in Nat
  BY FeedType
<1>3. CASE Pass(r)
  <2>1. PICK seen \in SUBSET {k \in Key : SeenBy[k] = r} :
            /\ \E events \in SetToSeqs(seen \ active[LogOf[r]]) :
                  outbox' = [outbox EXCEPT ![r] = events]
            /\ active' = [active EXCEPT ![LogOf[r]] = seen]
            /\ last' = [last EXCEPT ![r] = seen]
            /\ told' = [k \in Key |-> told[k] + IF k \in seen \ last[r] THEN 1 ELSE 0]
    BY <1>3 DEF Pass, Remembered
  <2>2. PICK events \in SetToSeqs(seen \ active[LogOf[r]]) :
            outbox' = [outbox EXCEPT ![r] = events]
    BY <2>1
  <2>3. seen \ active[LogOf[r]] \in SUBSET Key
    OBVIOUS
  <2>4. events \in Seq(Key)
    BY <2>3, CountOrdered
  <2>5. UNCHANGED <<stored, log, bus, streamVars, durable, server, faults>>
    BY <1>3 DEF Pass
  <2>6. Events'
    BY <1>1, <2>1, <2>2, <2>5, <2>4 DEF TypeOK, Events
  <2>7. Len(Feed)' = Len(Feed) /\ faults' \in 0..MaxFaults
    BY <2>5 DEF Feed, TypeOK
  <2> QED
    BY <1>2, <2>5, <2>6, <2>7, StreamsFrame, SplitNext
<1>4. CASE Persist(r)
  <2>1. Events'
    BY <1>4, OutboxHead DEF Persist, TypeOK, Events
  <2>2. Len(Feed)' = Len(Feed) + 1 /\ faults' \in 0..MaxFaults
    BY <1>4, OutboxHead DEF Persist, Feed, TypeOK
  <2> QED
    BY <1>2, <1>4, <2>1, <2>2, StreamsFrame, SplitNext DEF Persist
<1>5. CASE PersistFails(r)
  <2>1. Events'
    BY <1>5, OutboxHead DEF PersistFails, AfterFailure, TypeOK, Events
  <2>2. Len(Feed)' = Len(Feed) /\ faults' \in 0..MaxFaults
    BY <1>1, <1>5 DEF PersistFails, AfterFailure, Feed, TypeOK
  <2> QED
    BY <1>2, <1>5, <2>1, <2>2, StreamsFrame, SplitNext DEF PersistFails
<1>6. CASE Emit(r)
  <2>1. Events'
    BY <1>6, OutboxHead DEF Emit, TypeOK, Events
  <2>2. Len(Feed)' \in {Len(Feed), Len(Feed) + 1} /\ faults' \in 0..MaxFaults
    BY <1>6, OutboxHead DEF Emit, Feed, TypeOK
  <2> QED
    BY <1>2, <1>6, <2>1, <2>2, StreamsFrame, SplitNext DEF Emit
<1> QED
  BY <1>3, <1>4, <1>5, <1>6

Serving == {c \in Client : open[c]}

Refusals == {c \in Client : link[c] = "refused"}

\* Client is finite, so that both can be counted, one by one.
LEMMA Counted ==
  ASSUME NEW S \in SUBSET Client
  PROVE  /\ Cardinality(S) \in Nat
         /\ \A c \in Client : /\ c \notin S => Cardinality(S \cup {c}) = Cardinality(S) + 1
                              /\ c \in S => Cardinality(S \ {c}) = Cardinality(S) - 1
<1>1. IsFiniteSet(S)
  BY EventStreamAssumption, FS_Subset
<1> QED
  BY <1>1, FS_CardinalityType, FS_AddElement, FS_RemoveElement

LEMMA Accounts ==
  /\ SlotsAccounted <=> /\ slots = Cardinality(Serving) + orphans + Cardinality(Refusals)
                        /\ Cardinality(Serving) + orphans <= MaxSubs
  /\ Cardinality(Serving) \in Nat /\ Cardinality(Refusals) \in Nat /\ MaxSubs \in Nat
<1>1. Serving \in SUBSET Client /\ Refusals \in SUBSET Client
  BY DEF Serving, Refusals
<1> QED
  BY <1>1, Counted, EventStreamAssumption DEF SlotsAccounted, Serving, Refusals

LEMMA AccountsNext ==
  /\ SlotsAccounted' <=> /\ slots' = Cardinality(Serving') + orphans' + Cardinality(Refusals')
                         /\ Cardinality(Serving') + orphans' <= MaxSubs
  /\ Cardinality(Serving') \in Nat /\ Cardinality(Refusals') \in Nat
<1>1. Serving' \in SUBSET Client /\ Refusals' \in SUBSET Client
  BY DEF Serving, Refusals
<1> QED
  BY <1>1, Counted DEF SlotsAccounted, Serving, Refusals

\* A step of the streams adds nothing to what they forward.
LEMMA StreamTypes ==
  ASSUME TypeOK, UNCHANGED <<eventVars, durable>>, SlotsAccounted', orphans' \in Nat,
         server' \in {"listening", "draining", "stopped"}, faults' \in 0..MaxFaults,
         link' \in [Client -> {"down", "up", "refused"}], open' \in [Client -> BOOLEAN],
         at' \in [Client -> {0} \cup Numbers], page' \in [Client -> Seq(Numbers)],
         wire' \in [Client -> Seq({Lagged} \cup Numbers)], got' \in [Client -> {0} \cup Numbers]
  PROVE  TypeOK'
<1>1. slots' \in Nat
  BY AccountsNext
<1>2. Events'
  BY DEF TypeOK, Events, eventVars
<1>3. Numbers' = Numbers
  BY DEF Numbers, Feed, eventVars
<1> QED
  BY <1>1, <1>2, <1>3, SplitNext DEF Streams, Process

LEMMA AcceptStep ==
  ASSUME ServerInv, NEW c \in Client, NEW start \in {0} \cup Numbers, Accept(c, start),
         faults' \in 0..MaxFaults
  PROVE  ServerInv'
<1> USE DEF ServerInv
<1>1. ~open[c] /\ wire[c] = <<>> /\ link[c] = "down"
  BY DEF Links, Accept
<1>2. Serving' = Serving \cup {c} /\ c \notin Serving /\ Refusals' = Refusals
  BY <1>1 DEF Serving, Refusals, Accept, TypeOK
<1>3. Cardinality(Serving') = Cardinality(Serving) + 1
  BY <1>2, Counted DEF Serving
<1>4. SlotsAccounted'
  <2>1. orphans' = orphans /\ orphans \in Nat /\ slots' = slots + 1 /\ slots < MaxSubs
    BY DEF Accept, TypeOK
  <2> QED
    BY <1>2, <1>3, <2>1, Accounts, AccountsNext
<1>5. Links'
  BY <1>1 DEF Links, Accept, TypeOK
<1>6. TypeOK'
  BY <1>4, StreamTypes DEF Accept, TypeOK
<1> QED
  BY <1>4, <1>5, <1>6

LEMMA DialOverCapStep ==
  ASSUME ServerInv, NEW c \in Client, DialOverCap(c)
  PROVE  ServerInv'
<1> USE DEF ServerInv
<1>1. ~open[c] /\ wire[c] = <<>> /\ link[c] = "down"
  BY DEF Links, DialOverCap
<1>2. Refusals' = Refusals \cup {c} /\ c \notin Refusals /\ Serving' = Serving
  BY <1>1 DEF Serving, Refusals, DialOverCap, TypeOK
<1>3. Cardinality(Refusals') = Cardinality(Refusals) + 1
  BY <1>2, Counted DEF Refusals
<1>4. SlotsAccounted'
  <2>1. orphans' = orphans /\ orphans \in Nat /\ slots' = slots + 1
    BY DEF DialOverCap, TypeOK
  <2> QED
    BY <1>2, <1>3, <2>1, Accounts, AccountsNext
<1>5. Links'
  BY <1>1 DEF Links, DialOverCap, TypeOK
<1>6. TypeOK'
  BY <1>4, StreamTypes DEF DialOverCap, TypeOK
<1> QED
  BY <1>4, <1>5, <1>6

LEMMA RefuseStep ==
  ASSUME ServerInv, NEW c \in Client, Refuse(c)
  PROVE  ServerInv'
<1> USE DEF ServerInv
<1>1. ~open[c] /\ wire[c] = <<>> /\ link[c] = "refused"
  BY DEF Links, Refuse
<1>2. Refusals' = Refusals \ {c} /\ c \in Refusals /\ Serving' = Serving
  BY <1>1 DEF Serving, Refusals, Refuse, TypeOK
<1>3. Cardinality(Refusals') = Cardinality(Refusals) - 1
  BY <1>2, Counted DEF Refusals
<1>4. SlotsAccounted'
  <2>1. orphans' = orphans /\ orphans \in Nat /\ slots' = slots - 1
    BY DEF Refuse, Released, TypeOK
  <2> QED
    BY <1>2, <1>3, <2>1, Accounts, AccountsNext
<1>5. Links'
  BY <1>1 DEF Links, Refuse, TypeOK
<1>6. TypeOK'
  BY <1>4, StreamTypes DEF Refuse, TypeOK
<1> QED
  BY <1>4, <1>5, <1>6

LEMMA LesserOfTwo ==
  ASSUME NEW a \in Nat, NEW b \in Nat
  PROVE  Min({a, b}) \in {a, b} /\ Min({a, b}) <= a
<1>1. \E x \in {a, b} : \A y \in {a, b} : x <= y
  <2>1. CASE a <= b
    BY <2>1
  <2>2. CASE b <= a
    BY <2>2
  <2> QED
    BY <2>1, <2>2
<1>2. Min({a, b}) \in {a, b} /\ \A y \in {a, b} : Min({a, b}) <= y
  BY <1>1 DEF Min
<1> QED
  BY <1>2

Fetched(c) == IF page[c] = <<>> THEN Rows(c) ELSE page[c]

\* What is fetched are numbers of the table; a page that is fetched follows the cursor.
LEMMA FetchedRows ==
  ASSUME TypeOK, durable, NEW c \in Client
  PROVE  /\ Fetched(c) \in Seq(Numbers)
         /\ page[c] = <<>> => \A j \in DOMAIN Fetched(c) : Fetched(c)[j] = at[c] + j
<1> DEFINE n == Min({Len(log) - at[c], Page})
<1>1. /\ Numbers = 1..Len(log) /\ Len(log) \in Nat /\ at[c] \in Nat /\ at[c] <= Len(log)
      /\ page[c] \in Seq(Numbers)
  BY DEF TypeOK, Numbers, Feed
<1>2. Page \in Nat
  BY EventStreamAssumption
<1>3. Len(log) - at[c] \in Nat
  BY <1>1
<1>4. n \in Nat /\ n <= Len(log) - at[c]
  BY <1>2, <1>3, LesserOfTwo
<1> HIDE DEF n
<1>5. Rows(c) = [j \in 1..n |-> at[c] + j]
  BY DEF Rows, n
<1>6. Rows(c) \in Seq(Numbers) /\ \A j \in DOMAIN Rows(c) : Rows(c)[j] = at[c] + j
  <2>1. \A j \in 1..n : at[c] + j \in Numbers
    BY <1>1, <1>4
  <2> QED
    BY <1>4, <1>5, <2>1
<1> QED
  BY <1>1, <1>6 DEF Fetched

LEMMA SendRowStep ==
  ASSUME ServerInv, NEW c \in Client, SendRow(c)
  PROVE  ServerInv'
<1> USE DEF ServerInv
<1> DEFINE rows == Fetched(c)
<1>1. /\ durable /\ open[c] /\ rows # <<>>
      /\ wire' = [wire EXCEPT ![c] = Append(@, Head(rows))]
      /\ at' = [at EXCEPT ![c] = Head(rows)] /\ page' = [page EXCEPT ![c] = Tail(rows)]
      /\ UNCHANGED <<eventVars, link, open, got, orphans, slots, durable, server, faults>>
  BY DEF SendRow, Fetched
<1>2. rows \in Seq(Numbers)
  BY <1>1, FetchedRows
<1> HIDE DEF rows
<1>3. Head(rows) \in Numbers /\ Tail(rows) \in Seq(Numbers) /\ Head(rows) # Lagged
  BY <1>1, <1>2 DEF Numbers, Lagged
<1>4. wire[c] \in Seq({Lagged} \cup Numbers)
  BY DEF TypeOK
<1>5. /\ Append(wire[c], Head(rows)) \in Seq({Lagged} \cup Numbers)
      /\ \A j \in DOMAIN Append(wire[c], Head(rows)) :
            Append(wire[c], Head(rows))[j] = IF j \in DOMAIN wire[c] THEN wire[c][j] ELSE Head(rows)
  BY <1>3, <1>4
<1>6. SlotsAccounted'
  BY <1>1 DEF SlotsAccounted
<1>7. Links'
  BY <1>1, <1>3, <1>4, <1>5 DEF Links, TypeOK
<1>8. TypeOK'
  <2>1. wire' \in [Client -> Seq({Lagged} \cup Numbers)]
    BY <1>1, <1>5 DEF TypeOK
  <2>2. at' \in [Client -> {0} \cup Numbers] /\ page' \in [Client -> Seq(Numbers)]
    BY <1>1, <1>3 DEF TypeOK
  <2> QED
    BY <1>1, <1>6, <2>1, <2>2, StreamTypes DEF TypeOK
<1> QED
  BY <1>6, <1>7, <1>8

LEMMA SendLiveStep ==
  ASSUME ServerInv, NEW c \in Client, SendLive(c)
  PROVE  ServerInv'
<1> USE DEF ServerInv
<1>1. /\ open[c] /\ wire' = [wire EXCEPT ![c] = Append(@, at[c] + 1)]
      /\ at' = [at EXCEPT ![c] = at[c] + 1]
      /\ UNCHANGED <<eventVars, link, open, page, got, orphans, slots, durable, server, faults>>
  BY DEF SendLive, TypeOK
<1>2. at[c] + 1 \in Numbers /\ at[c] + 1 # Lagged
  <2>1. at[c] \in Nat /\ Len(bus) \in Nat
    BY DEF TypeOK, Numbers
  <2>2. at[c] < Len(bus) /\ Feed = bus
    BY DEF SendLive, Feed
  <2> QED
    BY <2>1, <2>2 DEF Numbers, Lagged
<1>3. wire[c] \in Seq({Lagged} \cup Numbers)
  BY DEF TypeOK
<1>4. /\ Append(wire[c], at[c] + 1) \in Seq({Lagged} \cup Numbers)
      /\ \A j \in DOMAIN Append(wire[c], at[c] + 1) :
            Append(wire[c], at[c] + 1)[j] = IF j \in DOMAIN wire[c] THEN wire[c][j] ELSE at[c] + 1
  BY <1>2, <1>3
<1>5. SlotsAccounted'
  BY <1>1 DEF SlotsAccounted
<1>6. Links'
  BY <1>1, <1>2, <1>3, <1>4 DEF Links, TypeOK
<1>7. TypeOK'
  <2>1. wire' \in [Client -> Seq({Lagged} \cup Numbers)]
    BY <1>1, <1>4 DEF TypeOK
  <2>2. at' \in [Client -> {0} \cup Numbers]
    BY <1>1, <1>2 DEF TypeOK
  <2> QED
    BY <1>1, <1>5, <2>1, <2>2, StreamTypes DEF TypeOK
<1> QED
  BY <1>5, <1>6, <1>7

LEMMA CutOffStep ==
  ASSUME ServerInv, NEW c \in Client, CutOff(c)
  PROVE  ServerInv'
<1> USE DEF ServerInv
<1>1. /\ open[c] /\ wire' = [wire EXCEPT ![c] = Append(@, Lagged)]
      /\ at' = [at EXCEPT ![c] = 0] /\ open' = [open EXCEPT ![c] = FALSE]
      /\ slots' = slots - 1
      /\ UNCHANGED <<eventVars, link, page, got, orphans, durable, server, faults>>
  BY DEF CutOff
<1>2. wire[c] \in Seq({Lagged} \cup Numbers)
  BY DEF TypeOK
<1>3. /\ Append(wire[c], Lagged) \in Seq({Lagged} \cup Numbers)
      /\ Len(Append(wire[c], Lagged)) = Len(wire[c]) + 1
      /\ \A j \in DOMAIN Append(wire[c], Lagged) :
            /\ j \in DOMAIN wire[c] \/ j = Len(wire[c]) + 1
            /\ j \in DOMAIN wire[c] => Append(wire[c], Lagged)[j] = wire[c][j]
  BY <1>2
<1>4. Serving' = Serving \ {c} /\ c \in Serving /\ Refusals' = Refusals
  BY <1>1 DEF Serving, Refusals, TypeOK
<1>5. Cardinality(Serving') = Cardinality(Serving) - 1
  BY <1>4, Counted DEF Serving
<1>6. SlotsAccounted'
  <2>1. orphans' = orphans /\ orphans \in Nat /\ slots' = slots - 1
    BY <1>1 DEF TypeOK
  <2> QED
    BY <1>4, <1>5, <2>1, Accounts, AccountsNext
<1>7. Links'
  BY <1>1, <1>3 DEF Links, TypeOK
<1>8. TypeOK'
  <2>1. wire' \in [Client -> Seq({Lagged} \cup Numbers)]
    BY <1>1, <1>3 DEF TypeOK
  <2> QED
    BY <1>1, <1>6, <2>1, StreamTypes DEF TypeOK
<1> QED
  BY <1>6, <1>7, <1>8

LEMMA ReceiveStep ==
  ASSUME ServerInv, NEW c \in Client, Receive(c)
  PROVE  ServerInv'
<1> USE DEF ServerInv
<1>1. /\ wire[c] # <<>> /\ link[c] = "up" /\ wire' = [wire EXCEPT ![c] = Tail(@)]
      /\ UNCHANGED <<eventVars, open, at, page, orphans, slots, durable, server, faults>>
  BY DEF Receive, Links
<1>2. wire[c] \in Seq({Lagged} \cup Numbers)
  BY DEF TypeOK
<1>3. /\ Tail(wire[c]) \in Seq({Lagged} \cup Numbers) /\ Head(wire[c]) \in {Lagged} \cup Numbers
      /\ Len(wire[c]) \in Nat \ {0} /\ Len(Tail(wire[c])) = Len(wire[c]) - 1
      /\ Head(wire[c]) = wire[c][1] /\ 1 \in DOMAIN wire[c]
      /\ \A j \in DOMAIN Tail(wire[c]) : j + 1 \in DOMAIN wire[c] /\ Tail(wire[c])[j] = wire[c][j + 1]
  BY <1>1, <1>2
<1>4. got' \in [Client -> {0} \cup Numbers]
  BY <1>1, <1>3 DEF Receive, Kept, TypeOK, Lagged
<1>5. CASE Head(wire[c]) = Lagged
  <2>1. link' = [link EXCEPT ![c] = "down"]
    BY <1>5 DEF Receive
  <2>2. ~open[c] /\ Tail(wire[c]) = <<>>
    <3>1. Len(wire[c]) = 1 /\ ~open[c]
      BY <1>3, <1>5 DEF Links
    <3>2. Len(Tail(wire[c])) = 0
      BY <1>3, <3>1
    <3> QED
      BY <1>3, <3>1, <3>2
  <2>3. Links'
    BY <1>1, <2>1, <2>2 DEF Links, TypeOK
  <2>4. Serving' = Serving /\ Refusals' = Refusals
    BY <1>1, <2>1 DEF Serving, Refusals, TypeOK
  <2> QED
    BY <1>1, <1>3, <1>4, <2>1, <2>3, <2>4, Accounts, AccountsNext, StreamTypes DEF TypeOK
<1>6. CASE Head(wire[c]) # Lagged
  <2>1. link' = link
    BY <1>6 DEF Receive
  <2>2. Links'
    <3>1. wire'[c] = Tail(wire[c]) /\ \A d \in Client \ {c} : wire'[d] = wire[d]
      BY <1>1 DEF TypeOK
    <3>2. \A j \in DOMAIN wire'[c] : wire'[c][j] = Lagged => j = Len(wire'[c]) /\ ~open[c]
      <4>1. TAKE j \in DOMAIN wire'[c]
      <4>2. wire'[c][j] = wire[c][j + 1] /\ j + 1 \in DOMAIN wire[c] /\ j \in Int
        BY <1>3, <3>1
      <4>3. wire[c][j + 1] = Lagged => j + 1 = Len(wire[c]) /\ ~open[c]
        BY <4>2 DEF Links
      <4> QED
        BY <1>3, <3>1, <4>2, <4>3
    <3> QED
      BY <1>1, <2>1, <3>1, <3>2 DEF Links
  <2>3. SlotsAccounted'
    BY <1>1, <2>1 DEF SlotsAccounted
  <2> QED
    BY <1>1, <1>3, <1>4, <2>1, <2>2, <2>3, StreamTypes DEF TypeOK
<1> QED
  BY <1>5, <1>6

LEMMA LoseStep ==
  ASSUME ServerInv, NEW c \in Client, Lose(c)
  PROVE  ServerInv'
<1> USE DEF ServerInv
<1>1. /\ link[c] = "up"
      /\ link' = [link EXCEPT ![c] = "down"] /\ open' = [open EXCEPT ![c] = FALSE]
      /\ at' = [at EXCEPT ![c] = 0] /\ page' = [page EXCEPT ![c] = <<>>]
      /\ wire' = [wire EXCEPT ![c] = <<>>]
      /\ UNCHANGED <<eventVars, got, slots, durable, server>>
  BY DEF Lose
<1>2. orphans' \in Nat /\ faults' \in 0..MaxFaults
  BY EventStreamAssumption DEF Lose, TypeOK
<1>3. Refusals' = Refusals
  BY <1>1 DEF Refusals, TypeOK
<1>4. SlotsAccounted'
  <2>1. CASE open[c]
    <3>1. Serving' = Serving \ {c} /\ c \in Serving
      BY <1>1, <2>1 DEF Serving, TypeOK
    <3>2. Cardinality(Serving') = Cardinality(Serving) - 1
      BY <3>1, Counted DEF Serving
    <3>3. orphans' = orphans + 1 /\ slots' = slots /\ orphans \in Nat
      BY <1>1, <2>1 DEF Lose, TypeOK
    <3> QED
      BY <1>3, <3>2, <3>3, Accounts, AccountsNext
  <2>2. CASE ~open[c]
    <3>1. Serving' = Serving
      BY <1>1, <2>2 DEF Serving, TypeOK
    <3>2. orphans' = orphans /\ slots' = slots /\ orphans \in Nat
      BY <1>1, <2>2 DEF Lose, TypeOK
    <3> QED
      BY <1>3, <3>1, <3>2, Accounts, AccountsNext
  <2> QED
    BY <2>1, <2>2
<1>5. Links'
  BY <1>1 DEF Links, TypeOK
<1>6. TypeOK'
  BY <1>1, <1>2, <1>4, StreamTypes DEF TypeOK
<1> QED
  BY <1>4, <1>5, <1>6

LEMMA ReapStep ==
  ASSUME ServerInv, Reap
  PROVE  ServerInv'
<1> USE DEF ServerInv
<1>1. /\ orphans \in Nat /\ orphans > 0 /\ orphans' = orphans - 1 /\ slots' = slots - 1
      /\ UNCHANGED <<eventVars, link, open, at, page, wire, got, durable, server, faults>>
  BY DEF Reap, TypeOK
<1>2. Serving' = Serving /\ Refusals' = Refusals
  BY <1>1 DEF Serving, Refusals
<1>3. SlotsAccounted'
  BY <1>1, <1>2, Accounts, AccountsNext
<1>4. Links'
  BY <1>1 DEF Links
<1>5. TypeOK'
  BY <1>1, <1>3, StreamTypes DEF TypeOK
<1> QED
  BY <1>3, <1>4, <1>5

LEMMA ServerStep ==
  ASSUME ServerInv, Shutdown \/ Drained
  PROVE  ServerInv'
<1> USE DEF ServerInv
<1>1. /\ UNCHANGED <<eventVars, link, open, at, page, wire, got, orphans, slots, durable, faults>>
      /\ server' \in {"listening", "draining", "stopped"}
  BY DEF Shutdown, Drained, streamVars
<1>2. SlotsAccounted' /\ Links'
  BY <1>1 DEF SlotsAccounted, Links
<1>3. TypeOK'
  BY <1>1, <1>2, StreamTypes DEF TypeOK
<1> QED
  BY <1>2, <1>3

LEMMA WaitingType ==
  ASSUME TypeOK, NEW k \in Key
  PROVE  Waiting(k) \in Int /\ Count(Feed, k) \in Nat
<1>1. SeenBy[k] \in Runner /\ outbox[SeenBy[k]] \in Seq(Key)
  BY EventStreamAssumption DEF TypeOK
<1>2. Count(outbox[SeenBy[k]], k) \in Nat
  BY <1>1, CountFinite
<1> QED
  BY <1>2, FeedType, CountFinite DEF Waiting

LEMMA RestartStep ==
  ASSUME ServerInv, Restart
  PROVE  ServerInv'
<1> USE DEF ServerInv
<1>1. Feed' = Feed /\ Numbers' = Numbers
  BY DEF Restart, Feed, Numbers
<1>2. Serving' = {} /\ Refusals' = {}
  BY DEF Serving, Refusals, Restart
<1>3. SlotsAccounted'
  <2>1. slots' = 0 /\ orphans' = 0
    BY DEF Restart
  <2> QED
    BY <1>2, <2>1, Accounts, AccountsNext, FS_EmptySet
<1>4. Links'
  BY DEF Links, Restart
<1>5. Events'
  BY WaitingType DEF Restart, TypeOK, Events
<1>6. Streams' /\ Process'
  BY <1>1, EventStreamAssumption DEF Restart, TypeOK, Streams, Process
<1> QED
  BY <1>3, <1>4, <1>5, <1>6, SplitNext

LEMMA InitServerInv == Init => ServerInv
<1> SUFFICES ASSUME Init PROVE ServerInv
  OBVIOUS
<1>1. Serving = {} /\ Refusals = {} /\ slots = 0 /\ orphans = 0
  BY DEF Init, Serving, Refusals
<1>2. SlotsAccounted
  BY <1>1, Accounts, FS_EmptySet
<1> QED
  BY <1>2, EventStreamAssumption DEF ServerInv, Init, TypeOK, Links

LEMMA StepServerInv == ServerInv /\ [Next]_vars => ServerInv'
<1> SUFFICES ASSUME ServerInv, [Next]_vars PROVE ServerInv'
  OBVIOUS
<1>1. ASSUME NEW r \in Runner, Pass(r) \/ Persist(r) \/ PersistFails(r) \/ Emit(r)
      PROVE  ServerInv'
  <2>1. UNCHANGED <<link, open, wire, orphans, slots>>
    BY <1>1 DEF Pass, Persist, PersistFails, Emit, streamVars
  <2>2. Links' /\ SlotsAccounted'
    BY <2>1 DEF ServerInv, Links, SlotsAccounted
  <2> QED
    BY <1>1, <2>2, EventTypes DEF ServerInv
<1>2. ASSUME NEW c \in Client, Dial(c) PROVE ServerInv'
  <2>1. Start(c) \in {0} \cup Numbers
    BY DEF Start, ServerInv, TypeOK, Numbers
  <2>2. faults' \in 0..MaxFaults
    BY <1>2 DEF Dial, ServerInv, TypeOK
  <2> QED
    BY <1>2, <2>1, <2>2, AcceptStep DEF Dial
<1>3. ASSUME NEW c \in Client, DialFromZero(c) PROVE ServerInv'
  <2>1. faults' \in 0..MaxFaults
    BY <1>3, EventStreamAssumption DEF DialFromZero, ServerInv, TypeOK
  <2> QED
    BY <1>3, <2>1, AcceptStep DEF DialFromZero
<1>4. CASE UNCHANGED vars
  BY <1>4 DEF vars, eventVars, streamVars, ServerInv, TypeOK, Numbers, Feed, Links, SlotsAccounted
<1> QED
  BY <1>1, <1>2, <1>3, <1>4, DialOverCapStep, RefuseStep, SendRowStep, SendLiveStep, CutOffStep,
     ReceiveStep, LoseStep, ReapStep, ServerStep, RestartStep
     DEF Next

LEMMA ServerInductive == Spec => []ServerInv
  BY InitServerInv, StepServerInv, PTL DEF Spec

\* Every variable has its type; the cursors, the rows fetched and the frames in flight are
\* numbers of events that exist.
THEOREM TypeCorrect == Spec => []TypeOK
  BY ServerInductive, PTL DEF ServerInv

\* The slot counter of the SSE server is the number of streams, of those whose client is
\* gone, and of refusals under way, and never lets in a stream too many.
THEOREM SlotsKept == Spec => []SlotsAccounted
  BY ServerInductive, PTL DEF ServerInv

-----------------------------------------------------------------------------
(* The events of a key, from the pass that observes it to the bus. *)

Outgoing(k) == Count(outbox[SeenBy[k]], k)

Accounted == Outboxes /\ Ahead

LEMMA KeyTypes ==
  ASSUME TypeOK, NEW k \in Key
  PROVE  /\ SeenBy[k] \in Runner /\ Outgoing(k) \in Nat /\ Between(k) \in {0, 1}
         /\ Count(log, k) \in Nat /\ Count(bus, k) \in Nat /\ told[k] \in Int
         /\ Waiting(k) = Outgoing(k) - Between(k)
<1>1. SeenBy[k] \in Runner
  BY EventStreamAssumption
<1>2. outbox[SeenBy[k]] \in Seq(Key) /\ log \in Seq(Key) /\ bus \in Seq(Key)
  BY <1>1 DEF TypeOK
<1>3. Outgoing(k) \in Nat /\ Count(log, k) \in Nat /\ Count(bus, k) \in Nat
  BY <1>2, CountFinite DEF Outgoing
<1> QED
  BY <1>1, <1>3 DEF Between, Waiting, Outgoing, TypeOK

\* The head of an outbox is an event of its runner's.
LEMMA HeadSeen ==
  ASSUME TypeOK, Outboxes, NEW r \in Runner, outbox[r] # <<>>
  PROVE  SeenBy[Head(outbox[r])] = r
<1>1. 1 \in DOMAIN outbox[r] /\ Head(outbox[r]) = outbox[r][1]
  BY DEF TypeOK
<1> QED
  BY <1>1 DEF Outboxes

LEMMA PassKey ==
  ASSUME TypeOK, Outboxes, NEW r \in Runner, Pass(r)
  PROVE  \E seen \in SUBSET Observable(r) :
            LET fresh == seen \ active[LogOf[r]]
            IN  /\ active' = [active EXCEPT ![LogOf[r]] = seen]
                /\ last' = [last EXCEPT ![r] = seen]
                /\ told' = [k \in Key |-> told[k] + IF k \in seen \ last[r] THEN 1 ELSE 0]
                /\ Outboxes'
                /\ \A k \in Key : /\ Between(k)' = Between(k)
                                  /\ Outgoing(k)' = Outgoing(k) + IF k \in fresh THEN 1 ELSE 0
<1>1. PICK seen \in SUBSET Observable(r) :
          /\ \E events \in SetToSeqs(seen \ active[LogOf[r]]) :
                outbox' = [outbox EXCEPT ![r] = events]
          /\ active' = [active EXCEPT ![LogOf[r]] = seen]
          /\ last' = [last EXCEPT ![r] = seen]
          /\ told' = [k \in Key |-> told[k] + IF k \in seen \ last[r] THEN 1 ELSE 0]
  BY DEF Pass, Remembered, Observable
<1> DEFINE fresh == seen \ active[LogOf[r]]
<1>2. PICK events \in SetToSeqs(fresh) : outbox' = [outbox EXCEPT ![r] = events]
  BY <1>1
<1>3. fresh \in SUBSET Key /\ \A k \in fresh : SeenBy[k] = r
  BY DEF Observable
<1> HIDE DEF fresh
<1>4. /\ events \in Seq(Key) /\ \A j \in DOMAIN events : SeenBy[events[j]] = r
      /\ \A k \in Key : Count(events, k) = IF k \in fresh THEN 1 ELSE 0
  BY <1>3, CountOrdered
<1>5. outbox[r] = <<>> /\ ~stored[r] /\ UNCHANGED <<stored, durable>>
  BY DEF Pass, Outboxes, TypeOK
<1>6. outbox'[r] = events /\ \A q \in Runner \ {r} : outbox'[q] = outbox[q]
  BY <1>2 DEF TypeOK
<1>7. Outboxes'
  BY <1>4, <1>5, <1>6 DEF Outboxes
<1>8. ASSUME NEW k \in Key
      PROVE  /\ Between(k)' = Between(k)
             /\ Outgoing(k)' = Outgoing(k) + IF k \in fresh THEN 1 ELSE 0
  <2>1. SeenBy[k] \in Runner /\ Outgoing(k) \in Nat
    BY KeyTypes
  <2>2. CASE SeenBy[k] = r
    <3>1. Outgoing(k) = 0 /\ Outgoing(k)' = IF k \in fresh THEN 1 ELSE 0
      BY <1>4, <1>5, <1>6, <2>2, CountEmpty DEF Outgoing
    <3>2. Between(k)' = 0 /\ Between(k) = 0
      BY <1>5, <2>2 DEF Between
    <3> QED
      BY <3>1, <3>2
  <2>3. CASE SeenBy[k] # r
    <3>1. Outgoing(k)' = Outgoing(k) /\ Between(k)' = Between(k)
      BY <1>5, <1>6, <2>1, <2>3 DEF Outgoing, Between
    <3> QED
      BY <1>3, <2>1, <2>3, <3>1
  <2> QED
    BY <2>2, <2>3
<1> QED
  BY <1>1, <1>7, <1>8 DEF fresh

LEMMA PersistKey ==
  ASSUME TypeOK, Outboxes, NEW r \in Runner, Persist(r)
  PROVE  /\ Outboxes'
         /\ \A k \in Key :
                LET one == One(Head(outbox[r]), k)
                IN  /\ Count(log', k) = Count(log, k) + one
                    /\ Between(k)' = Between(k) + one /\ Outgoing(k)' = Outgoing(k)
<1>1. /\ outbox[r] # <<>> /\ ~stored[r] /\ durable
      /\ log' = Append(log, Head(outbox[r])) /\ stored' = [stored EXCEPT ![r] = TRUE]
      /\ UNCHANGED <<outbox, durable>>
  BY DEF Persist
<1>2. Head(outbox[r]) \in Key /\ log \in Seq(Key) /\ SeenBy[Head(outbox[r])] = r
  BY <1>1, OutboxHead, HeadSeen DEF TypeOK
<1>3. stored'[r] /\ \A q \in Runner \ {r} : stored'[q] = stored[q]
  BY <1>1 DEF TypeOK
<1>4. Outboxes'
  BY <1>1, <1>3 DEF Outboxes
<1>5. ASSUME NEW k \in Key
      PROVE  /\ Count(log', k) = Count(log, k) + One(Head(outbox[r]), k)
             /\ Between(k)' = Between(k) + One(Head(outbox[r]), k) /\ Outgoing(k)' = Outgoing(k)
  <2>1. Count(log', k) = Count(log, k) + One(Head(outbox[r]), k)
    BY <1>1, <1>2, CountAppend
  <2>2. Outgoing(k)' = Outgoing(k)
    BY <1>1 DEF Outgoing
  <2>3. SeenBy[k] \in Runner /\ Between(k) \in {0, 1}
    BY KeyTypes
  <2>4. CASE SeenBy[k] = r
    <3>1. Between(k) = 0 /\ Between(k)' = One(Head(outbox[r]), k)
      BY <1>1, <1>3, <2>4 DEF Between, One
    <3>2. One(Head(outbox[r]), k) \in {0, 1}
      BY DEF One
    <3> QED
      BY <2>1, <2>2, <3>1, <3>2
  <2>5. CASE SeenBy[k] # r
    <3>1. Between(k)' = Between(k)
      BY <1>1, <1>3, <2>3, <2>5 DEF Between
    <3>2. One(Head(outbox[r]), k) = 0
      BY <1>2, <2>5 DEF One
    <3> QED
      BY <2>1, <2>2, <2>3, <3>1, <3>2
  <2> QED
    BY <2>4, <2>5
<1> QED
  BY <1>4, <1>5

\* The head leaves the outbox: sent, or lost.
LEMMA HeadGone ==
  ASSUME TypeOK, Outboxes, NEW r \in Runner, outbox[r] # <<>>,
         outbox' = [outbox EXCEPT ![r] = Tail(@)], stored' = [stored EXCEPT ![r] = FALSE],
         UNCHANGED durable
  PROVE  /\ Outboxes'
         /\ \A k \in Key :
                LET one == One(Head(outbox[r]), k)
                IN  /\ Outgoing(k)' = Outgoing(k) - one
                    /\ Between(k)' = Between(k) - IF stored[r] THEN one ELSE 0
<1>1. /\ outbox[r] \in Seq(Key) /\ SeenBy[Head(outbox[r])] = r
      /\ \A j \in DOMAIN Tail(outbox[r]) : j + 1 \in DOMAIN outbox[r] /\ Tail(outbox[r])[j] = outbox[r][j + 1]
  BY HeadSeen DEF TypeOK
<1>2. /\ outbox'[r] = Tail(outbox[r]) /\ ~stored'[r]
      /\ \A q \in Runner \ {r} : outbox'[q] = outbox[q] /\ stored'[q] = stored[q]
  BY DEF TypeOK
<1>3. Outboxes'
  BY <1>1, <1>2 DEF Outboxes
<1>4. ASSUME NEW k \in Key
      PROVE  /\ Outgoing(k)' = Outgoing(k) - One(Head(outbox[r]), k)
             /\ Between(k)' = Between(k) - IF stored[r] THEN One(Head(outbox[r]), k) ELSE 0
  <2>1. SeenBy[k] \in Runner /\ Between(k) \in {0, 1} /\ Outgoing(k) \in Nat
    BY KeyTypes
  <2>2. One(Head(outbox[r]), k) \in {0, 1}
    BY DEF One
  <2>3. CASE SeenBy[k] = r
    <3>1. Count(outbox[r], k) = Count(Tail(outbox[r]), k) + One(Head(outbox[r]), k)
      BY <1>1, CountTail
    <3>2. Count(Tail(outbox[r]), k) \in Nat
      BY <1>1, CountTail, CountFinite
    <3>3. Outgoing(k)' = Outgoing(k) - One(Head(outbox[r]), k)
      BY <1>2, <2>2, <2>3, <3>1, <3>2 DEF Outgoing
    <3>4. Between(k)' = 0 /\ Between(k) = IF stored[r] THEN One(Head(outbox[r]), k) ELSE 0
      BY <1>2, <2>3 DEF Between, One
    <3> QED
      BY <2>2, <3>3, <3>4
  <2>4. CASE SeenBy[k] # r
    <3>1. Outgoing(k)' = Outgoing(k) /\ Between(k)' = Between(k)
      BY <1>2, <2>1, <2>4 DEF Outgoing, Between
    <3>2. One(Head(outbox[r]), k) = 0
      BY <1>1, <2>4 DEF One
    <3> QED
      BY <2>1, <3>1, <3>2
  <2> QED
    BY <2>3, <2>4
<1> QED
  BY <1>3, <1>4

LEMMA FailsKey ==
  ASSUME TypeOK, Outboxes, NEW r \in Runner, PersistFails(r)
  PROVE  /\ Outboxes' /\ UNCHANGED <<log, bus, durable>>
         /\ \A k \in Key :
                LET one == One(Head(outbox[r]), k)
                IN  /\ Outgoing(k)' = Outgoing(k) - one /\ Between(k)' = Between(k)
                    /\ told'[k] = told[k] - one
<1>1. /\ outbox[r] # <<>> /\ ~stored[r] /\ outbox' = [outbox EXCEPT ![r] = Tail(@)]
      /\ UNCHANGED <<log, bus, stored, durable>>
      /\ told' = [told EXCEPT ![Head(outbox[r])] = @ - 1]
  BY DEF PersistFails, AfterFailure
<1>2. stored' = [stored EXCEPT ![r] = FALSE]
  BY <1>1 DEF TypeOK
<1>3. ASSUME NEW k \in Key
      PROVE  /\ Outgoing(k)' = Outgoing(k) - One(Head(outbox[r]), k) /\ Between(k)' = Between(k)
             /\ told'[k] = told[k] - One(Head(outbox[r]), k)
  <2>1. Between(k) \in {0, 1}
    BY KeyTypes
  <2>2. told'[k] = told[k] - One(Head(outbox[r]), k)
    BY <1>1 DEF TypeOK, One
  <2>3. /\ Outgoing(k)' = Outgoing(k) - One(Head(outbox[r]), k)
        /\ Between(k)' = Between(k) - IF stored[r] THEN One(Head(outbox[r]), k) ELSE 0
    BY <1>1, <1>2, HeadGone
  <2>4. Between(k)' = Between(k)
    BY <1>1, <2>1, <2>3
  <2> QED
    BY <2>2, <2>3, <2>4
<1>4. Outboxes'
  BY <1>1, <1>2, HeadGone
<1> QED
  BY <1>1, <1>3, <1>4

LEMMA EmitKey ==
  ASSUME TypeOK, Outboxes, NEW r \in Runner, Emit(r)
  PROVE  /\ Outboxes' /\ UNCHANGED <<log, durable, told, active, last>>
         /\ \A k \in Key :
                LET one == One(Head(outbox[r]), k)
                IN  /\ Count(bus', k) = Count(bus, k) + one
                    /\ Outgoing(k)' = Outgoing(k) - one
                    /\ Between(k)' = Between(k) - IF durable THEN one ELSE 0
<1>1. /\ outbox[r] # <<>> /\ bus' = Append(bus, Head(outbox[r]))
      /\ outbox' = [outbox EXCEPT ![r] = Tail(@)] /\ stored' = [stored EXCEPT ![r] = FALSE]
      /\ UNCHANGED <<log, durable, told, active, last>>
  BY DEF Emit
<1>2. stored[r] <=> durable
  BY DEF Emit, Outboxes
<1>3. Head(outbox[r]) \in Key /\ bus \in Seq(Key)
  BY <1>1, OutboxHead DEF TypeOK
<1>4. \A k \in Key : Count(bus', k) = Count(bus, k) + One(Head(outbox[r]), k)
  BY <1>1, <1>3, CountAppend
<1> QED
  BY <1>1, <1>2, <1>4, HeadGone

LEMMA InitAccounted == Init => Accounted
<1> SUFFICES ASSUME Init PROVE Accounted
  OBVIOUS
<1>1. Outboxes
  BY DEF Init, Outboxes
<1>2. ASSUME NEW k \in Key PROVE Between(k) = 0
  BY EventStreamAssumption DEF Init, Between
<1>3. Ahead
  BY <1>2, CountEmpty DEF Ahead, Init
<1> QED
  BY <1>1, <1>3 DEF Accounted

\* Without its outboxes the process has nothing between the table and the bus.
LEMMA RestartKey ==
  ASSUME TypeOK, Restart
  PROVE  /\ Outboxes' /\ UNCHANGED <<log, bus, durable>>
         /\ \A k \in Key : Between(k)' = 0 /\ Outgoing(k)' = 0
<1>1. /\ outbox' = [r \in Runner |-> <<>>] /\ stored' = [r \in Runner |-> FALSE]
      /\ UNCHANGED <<log, bus, durable>>
  BY DEF Restart
<1>2. \A k \in Key : Between(k)' = 0 /\ Outgoing(k)' = 0
  BY <1>1, EventStreamAssumption, CountEmpty DEF Between, Outgoing
<1> QED
  BY <1>1, <1>2 DEF Outboxes

\* The server and the clients touch neither the events nor where they are kept.
LEMMA StreamStep ==
  [Next]_vars =>
    \/ \E r \in Runner : Pass(r) \/ Persist(r) \/ PersistFails(r) \/ Emit(r)
    \/ Restart
    \/ UNCHANGED <<eventVars, durable>>
  BY DEF Next, vars, Dial, DialFromZero, DialOverCap, Refuse, SendRow, SendLive, CutOff, Receive,
         Lose, Reap, Shutdown, Drained, Accept

LEMMA StepAccounted == TypeOK /\ Accounted /\ [Next]_vars => Accounted'
<1> SUFFICES ASSUME TypeOK, Accounted, [Next]_vars PROVE Accounted'
  OBVIOUS
<1> USE DEF Accounted
<1> DEFINE head(r) == Head(outbox[r])
<1>1. ASSUME NEW k \in Key
      PROVE  /\ Count(log, k) \in Nat /\ Count(bus, k) \in Nat /\ Between(k) \in {0, 1}
             /\ \A r \in Runner : One(head(r), k) \in {0, 1}
             /\ durable => Count(bus, k) + Between(k) <= Count(log, k)
  BY <1>1, KeyTypes DEF Ahead, One
<1> HIDE DEF head
<1>2. ASSUME NEW r \in Runner, Pass(r) PROVE Accounted'
  <2>1. Outboxes' /\ \A k \in Key : Between(k)' = Between(k)
    BY <1>2, PassKey
  <2>2. UNCHANGED <<log, bus, durable>>
    BY <1>2 DEF Pass
  <2> QED
    BY <2>1, <2>2 DEF Ahead
<1>3. ASSUME NEW r \in Runner, Persist(r) PROVE Accounted'
  <2>1. UNCHANGED <<bus, durable>>
    BY <1>3 DEF Persist
  <2>2. /\ Outboxes'
        /\ \A k \in Key : /\ Count(log', k) = Count(log, k) + One(head(r), k)
                          /\ Between(k)' = Between(k) + One(head(r), k)
    BY <1>3, PersistKey DEF head
  <2> QED
    BY <1>1, <2>1, <2>2 DEF Ahead
<1>4. ASSUME NEW r \in Runner, PersistFails(r) PROVE Accounted'
  <2>1. Outboxes' /\ UNCHANGED <<log, bus, durable>> /\ \A k \in Key : Between(k)' = Between(k)
    BY <1>4, FailsKey
  <2> QED
    BY <2>1 DEF Ahead
<1>5. ASSUME NEW r \in Runner, Emit(r) PROVE Accounted'
  <2>1. /\ Outboxes' /\ UNCHANGED <<log, durable>>
        /\ \A k \in Key :
              /\ Count(bus', k) = Count(bus, k) + One(head(r), k)
              /\ Between(k)' = Between(k) - IF durable THEN One(head(r), k) ELSE 0
    BY <1>5, EmitKey DEF head
  <2> QED
    BY <1>1, <2>1 DEF Ahead
<1>6. CASE Restart
  <2>1. Outboxes' /\ UNCHANGED <<log, bus, durable>> /\ \A k \in Key : Between(k)' = 0
    BY <1>6, RestartKey
  <2> QED
    BY <1>1, <2>1 DEF Ahead
<1>7. CASE UNCHANGED <<eventVars, durable>>
  BY <1>7 DEF eventVars, Outboxes, Ahead, Between
<1> QED
  BY <1>2, <1>3, <1>4, <1>5, <1>6, <1>7, StreamStep

LEMMA AccountedInductive == Spec => [](TypeOK /\ Accounted)
  BY InitAccounted, StepAccounted, TypeCorrect, PTL DEF Spec

\* The table is ahead of the bus, event by event: whatever the runners emit at one time,
\* whichever appends fail and wherever the process ends.
THEOREM BusBehindTable == Spec => []LiveBehindLog
<1>1. TypeOK /\ Accounted => LiveBehindLog
  <2> SUFFICES ASSUME TypeOK, Accounted, durable, NEW k \in Key
               PROVE  Count(bus, k) <= Count(log, k)
    BY DEF LiveBehindLog
  <2>1. /\ Count(log, k) \in Nat /\ Count(bus, k) \in Nat /\ Between(k) \in {0, 1}
        /\ Count(bus, k) + Between(k) <= Count(log, k)
    BY KeyTypes DEF Accounted, Ahead
  <2> QED
    BY <2>1
<1> QED
  BY <1>1, AccountedInductive, PTL

-----------------------------------------------------------------------------
(* No episode without its event. *)

LEMMA InitEpisodes == Init => Remembers /\ EpisodesAccounted
<1> SUFFICES ASSUME Init PROVE Remembers /\ EpisodesAccounted
  OBVIOUS
<1>1. Remembers
  BY EventStreamAssumption DEF Init, Remembers
<1>2. ASSUME NEW k \in Key PROVE Count(Feed, k) = 0 /\ Waiting(k) = 0 /\ told[k] = 0
  BY CountEmpty, EventStreamAssumption DEF Init, Feed, Waiting
<1> QED
  BY <1>1, <1>2 DEF EpisodesAccounted

\* A pass tells all that the runner's last pass did not see, and what another runner's pass
\* made its log forget besides.
LEMMA StepEpisodes ==
  TypeOK /\ Outboxes /\ Remembers /\ EpisodesAccounted /\ [Next]_vars
    => Remembers' /\ EpisodesAccounted'
<1> SUFFICES ASSUME TypeOK, Outboxes, Remembers, EpisodesAccounted, [Next]_vars
             PROVE  Remembers' /\ EpisodesAccounted'
  OBVIOUS
<1> DEFINE head(r) == Head(outbox[r])
           stock(k) == IF durable THEN Count(log, k) ELSE Count(bus, k)
<1>1. ASSUME NEW k \in Key
      PROVE  /\ Count(log, k) \in Nat /\ Count(bus, k) \in Nat
             /\ Outgoing(k) \in Nat /\ Between(k) \in {0, 1} /\ told[k] \in Int
             /\ \A r \in Runner : One(head(r), k) \in {0, 1}
             /\ told[k] <= stock(k) + Outgoing(k) - Between(k)
  <2>1. stock(k) = Count(Feed, k)
    BY DEF Feed
  <2>2. /\ Count(log, k) \in Nat /\ Count(bus, k) \in Nat /\ told[k] \in Int
        /\ Outgoing(k) \in Nat /\ Between(k) \in {0, 1} /\ Waiting(k) = Outgoing(k) - Between(k)
    BY KeyTypes
  <2>3. told[k] <= Count(Feed, k) + Waiting(k)
    BY DEF EpisodesAccounted
  <2> QED
    BY <2>1, <2>2, <2>3 DEF One
<1>2. ASSUME NEW k \in Key
      PROVE  (told[k] <= Count(Feed, k) + Waiting(k))'
                <=> told'[k] <= stock(k)' + (Outgoing(k)' - Between(k)')
  BY DEF Feed, Waiting, Outgoing, Between
<1> HIDE DEF head
<1>3. ASSUME NEW r \in Runner, Pass(r) PROVE Remembers' /\ EpisodesAccounted'
  <2>1. PICK seen \in SUBSET Observable(r) :
            /\ active' = [active EXCEPT ![LogOf[r]] = seen]
            /\ last' = [last EXCEPT ![r] = seen]
            /\ told' = [k \in Key |-> told[k] + IF k \in seen \ last[r] THEN 1 ELSE 0]
            /\ \A k \in Key :
                  /\ Between(k)' = Between(k)
                  /\ Outgoing(k)' = Outgoing(k) + IF k \in seen \ active[LogOf[r]] THEN 1 ELSE 0
    BY <1>3, PassKey
  <2>2. seen \ last[r] \subseteq seen \ active[LogOf[r]]
    BY DEF Remembers
  <2>3. Remembers'
    <3> SUFFICES ASSUME NEW q \in Runner
                 PROVE  active'[LogOf[q]] \cap Observable(q) \subseteq last'[q]
      BY DEF Remembers, Observable
    <3>1. LogOf[r] \in Log /\ LogOf[q] \in Log
      BY EventStreamAssumption
    <3>2. CASE q = r
      BY <2>1, <3>1, <3>2 DEF TypeOK
    <3>3. CASE q # r /\ LogOf[q] = LogOf[r]
      BY <2>1, <3>1, <3>3 DEF TypeOK, Observable
    <3>4. CASE LogOf[q] # LogOf[r]
      <4>1. active'[LogOf[q]] = active[LogOf[q]] /\ last'[q] = last[q]
        BY <2>1, <3>1, <3>4 DEF TypeOK
      <4> QED
        BY <4>1 DEF Remembers
    <3> QED
      BY <3>2, <3>3, <3>4
  <2>4. UNCHANGED <<log, bus, durable>>
    BY <1>3 DEF Pass
  <2>5. ASSUME NEW k \in Key
        PROVE  told'[k] <= stock(k)' + (Outgoing(k)' - Between(k)')
    <3>1. stock(k)' = stock(k)
      BY <2>4
    <3>2. /\ told'[k] = told[k] + IF k \in seen \ last[r] THEN 1 ELSE 0
          /\ Between(k)' = Between(k)
          /\ Outgoing(k)' = Outgoing(k) + IF k \in seen \ active[LogOf[r]] THEN 1 ELSE 0
      BY <2>1
    <3>3. k \in seen \ last[r] => k \in seen \ active[LogOf[r]]
      BY <2>2
    <3>4. stock(k) \in Nat
      BY <1>1
    <3> HIDE DEF stock
    <3> QED
      BY <1>1, <3>1, <3>2, <3>3, <3>4
  <2> QED
    BY <1>2, <2>3, <2>5 DEF EpisodesAccounted
<1>4. ASSUME NEW r \in Runner, Persist(r) PROVE Remembers' /\ EpisodesAccounted'
  <2>1. durable /\ UNCHANGED <<active, last, told, durable>>
    BY <1>4 DEF Persist
  <2>2. \A k \in Key : /\ Count(log', k) = Count(log, k) + One(head(r), k)
                       /\ Between(k)' = Between(k) + One(head(r), k)
                       /\ Outgoing(k)' = Outgoing(k)
    BY <1>4, PersistKey DEF head
  <2>3. \A k \in Key : told'[k] <= stock(k)' + (Outgoing(k)' - Between(k)')
    BY <1>1, <2>1, <2>2
  <2> QED
    BY <1>2, <2>1, <2>3 DEF EpisodesAccounted, Remembers, Observable
<1>5. ASSUME NEW r \in Runner, PersistFails(r) PROVE Remembers' /\ EpisodesAccounted'
  <2>1. UNCHANGED <<active, last, log, bus, durable>>
    BY <1>5 DEF PersistFails, AfterFailure
  <2>2. \A k \in Key : /\ Outgoing(k)' = Outgoing(k) - One(head(r), k)
                       /\ Between(k)' = Between(k) /\ told'[k] = told[k] - One(head(r), k)
    BY <1>5, FailsKey DEF head
  <2>3. \A k \in Key : told'[k] <= stock(k)' + (Outgoing(k)' - Between(k)')
    BY <1>1, <2>1, <2>2
  <2> QED
    BY <1>2, <2>1, <2>3 DEF EpisodesAccounted, Remembers, Observable
<1>6. ASSUME NEW r \in Runner, Emit(r) PROVE Remembers' /\ EpisodesAccounted'
  <2>1. /\ UNCHANGED <<log, durable, told, active, last>>
        /\ \A k \in Key :
              /\ Count(bus', k) = Count(bus, k) + One(head(r), k)
              /\ Outgoing(k)' = Outgoing(k) - One(head(r), k)
              /\ Between(k)' = Between(k) - IF durable THEN One(head(r), k) ELSE 0
    BY <1>6, EmitKey DEF head
  <2>2. \A k \in Key : told'[k] <= stock(k)' + (Outgoing(k)' - Between(k)')
    BY <1>1, <2>1
  <2> QED
    BY <1>2, <2>1, <2>2 DEF EpisodesAccounted, Remembers, Observable
<1>7. CASE Restart
  <2>1. /\ told' = [k \in Key |-> told[k] - Waiting(k)]
        /\ active' = [l \in Log |-> {}]
    BY <1>7 DEF Restart
  <2>2. UNCHANGED <<log, bus, durable>> /\ \A k \in Key : Between(k)' = 0 /\ Outgoing(k)' = 0
    BY <1>7, RestartKey
  <2>3. \A k \in Key : told'[k] = told[k] - (Outgoing(k) - Between(k))
    BY <2>1, KeyTypes
  <2>4. \A k \in Key : told'[k] <= stock(k)' + (Outgoing(k)' - Between(k)')
    BY <1>1, <2>2, <2>3
  <2>5. Remembers'
    BY <2>1, EventStreamAssumption DEF Remembers
  <2> QED
    BY <1>2, <2>4, <2>5 DEF EpisodesAccounted
<1>8. CASE UNCHANGED <<eventVars, durable>>
  BY <1>8 DEF eventVars, Remembers, Observable, EpisodesAccounted, Feed, Waiting
<1> QED
  BY <1>3, <1>4, <1>5, <1>6, <1>7, <1>8, StreamStep

\* No episode that a runner saw begin goes untold, whichever runners feed one log, in whatever
\* turns, unless a failure of the sink or the end of the process has lost its event.
THEOREM EpisodesKept == Spec => []EpisodesAccounted
<1>1. TypeOK /\ Accounted /\ Remembers /\ EpisodesAccounted /\ [Next]_vars
        => Remembers' /\ EpisodesAccounted'
  BY StepEpisodes DEF Accounted
<1> QED
  BY <1>1, InitEpisodes, AccountedInductive, PTL DEF Spec

-----------------------------------------------------------------------------
(* What a client that resumes receives. *)

LEMMA InitInStep == Init => InStep
  BY DEF Init, InStep, Consecutive

\* Only the client's own connection moves its cursors, or the end of the process.
LEMMA Elsewhere ==
  ASSUME TypeOK, NEW c \in Client, [Next]_vars
  PROVE  \/ Dial(c) \/ DialFromZero(c) \/ SendRow(c) \/ SendLive(c) \/ CutOff(c) \/ Receive(c) \/ Lose(c)
         \/ Restart
         \/ wire'[c] = wire[c] /\ open'[c] = open[c] /\ at'[c] = at[c] /\ page'[c] = page[c]
            /\ got'[c] = got[c]
<1> DEFINE Still == wire'[c] = wire[c] /\ open'[c] = open[c] /\ at'[c] = at[c]
                    /\ page'[c] = page[c] /\ got'[c] = got[c]
<1>1. ASSUME NEW r \in Runner, Pass(r) \/ Persist(r) \/ PersistFails(r) \/ Emit(r) PROVE Still
  BY <1>1 DEF Pass, Persist, PersistFails, Emit, streamVars
<1>2. ASSUME NEW d \in Client \ {c},
             \/ Dial(d) \/ DialFromZero(d) \/ SendRow(d) \/ SendLive(d) \/ CutOff(d)
             \/ Receive(d) \/ Lose(d)
      PROVE  Still
  BY <1>2 DEF Dial, DialFromZero, Accept, SendRow, SendLive, CutOff, Receive, Lose, TypeOK
<1>3. ASSUME NEW d \in Client, DialOverCap(d) \/ Refuse(d) PROVE Still
  BY <1>3 DEF DialOverCap, Refuse
<1>4. ASSUME Reap \/ Shutdown \/ Drained \/ UNCHANGED vars PROVE Still
  BY <1>4 DEF Reap, Shutdown, Drained, vars, streamVars
<1> QED
  BY <1>1, <1>2, <1>3, <1>4 DEF Next

LEMMA DurableStays == [Next]_vars => durable' = durable
  BY DEF Next, vars, Pass, Persist, PersistFails, Emit, Dial, DialFromZero, DialOverCap, Refuse,
         SendRow, SendLive, CutOff, Receive, Lose, Reap, Shutdown, Drained, Accept, Restart

\* A stream starts after the cursor that its client has kept.
LEMMA AcceptInStep ==
  ASSUME ServerInv, NEW c \in Client, NEW start, Accept(c, start), got[c] > 0 => start = got[c],
         start \in Nat
  PROVE  Consecutive(c)'
<1>1. wire[c] = <<>>
  BY DEF ServerInv, Links, Accept
<1>2. /\ wire'[c] = <<>> /\ open'[c] /\ at'[c] = start /\ page'[c] = <<>> /\ got'[c] = got[c]
  BY <1>1 DEF ServerInv, TypeOK, Accept
<1> QED
  BY <1>2 DEF Consecutive

LEMMA SendRowInStep ==
  ASSUME ServerInv, NEW c \in Client, Consecutive(c), SendRow(c)
  PROVE  Consecutive(c)'
<1> DEFINE rows == Fetched(c)
<1>1. /\ durable /\ open[c] /\ rows # <<>> /\ TypeOK
      /\ wire' = [wire EXCEPT ![c] = Append(@, Head(rows))]
      /\ at' = [at EXCEPT ![c] = Head(rows)] /\ page' = [page EXCEPT ![c] = Tail(rows)]
      /\ UNCHANGED <<open, got>>
  BY DEF SendRow, Fetched, ServerInv
<1>2. rows \in Seq(Numbers) /\ \A j \in DOMAIN rows : rows[j] = at[c] + j
  BY <1>1, FetchedRows DEF Consecutive, Fetched
<1> HIDE DEF rows
<1>3. /\ Head(rows) = at[c] + 1
      /\ \A j \in DOMAIN Tail(rows) : Tail(rows)[j] = at[c] + 1 + j
  <2>1. Head(rows) = rows[1] /\ 1 \in DOMAIN rows
    BY <1>1, <1>2
  <2>2. \A j \in DOMAIN Tail(rows) : j \in Nat /\ j + 1 \in DOMAIN rows /\ Tail(rows)[j] = rows[j + 1]
    BY <1>1, <1>2
  <2>3. at[c] \in Nat
    BY <1>1 DEF TypeOK, Numbers
  <2>4. ASSUME NEW j \in DOMAIN Tail(rows) PROVE Tail(rows)[j] = at[c] + 1 + j
    <3>1. rows[j + 1] = at[c] + (j + 1) /\ j \in Nat
      BY <1>2, <2>2
    <3> QED
      BY <2>2, <2>3, <3>1
  <2> QED
    BY <1>2, <2>1, <2>4
<1>4. /\ wire'[c] = Append(wire[c], Head(rows)) /\ at'[c] = Head(rows) /\ page'[c] = Tail(rows)
      /\ open'[c] /\ got'[c] = got[c] /\ wire[c] \in Seq({Lagged} \cup Numbers)
      /\ at[c] \in Nat /\ got[c] \in Nat
  BY <1>1 DEF TypeOK, Numbers
<1>5. /\ Len(wire'[c]) = Len(wire[c]) + 1 /\ Len(wire[c]) \in Nat
      /\ \A j \in DOMAIN wire'[c] : j \in Nat /\ (j = Len(wire[c]) + 1 \/ j \in DOMAIN wire[c])
      /\ \A j \in DOMAIN wire'[c] :
            wire'[c][j] = IF j = Len(wire[c]) + 1 THEN at[c] + 1 ELSE wire[c][j]
  BY <1>3, <1>4
<1>6. ASSUME NEW j \in DOMAIN wire'[c] PROVE wire'[c][j] = at'[c] - Len(wire'[c]) + j
  <2>1. j \in DOMAIN wire[c] => wire[c][j] = at[c] - Len(wire[c]) + j
    BY <1>1 DEF Consecutive
  <2>2. /\ at'[c] = at[c] + 1 /\ Len(wire'[c]) = Len(wire[c]) + 1 /\ Len(wire[c]) \in Nat /\ j \in Nat
        /\ at[c] \in Nat
    BY <1>3, <1>4, <1>5
  <2>3. CASE j = Len(wire[c]) + 1
    <3>1. wire'[c][j] = at[c] + 1
      BY <1>5, <2>3
    <3> QED
      BY <2>2, <2>3, <3>1
  <2>4. CASE j # Len(wire[c]) + 1
    <3>1. wire'[c][j] = wire[c][j] /\ j \in DOMAIN wire[c]
      BY <1>5, <2>4
    <3>2. \A a, n \in Nat : (a + 1) - (n + 1) + j = a - n + j
      BY <2>2
    <3>3. at'[c] - Len(wire'[c]) + j = at[c] - Len(wire[c]) + j
      BY <2>2, <3>2
    <3> QED
      BY <2>1, <3>1, <3>3
  <2> QED
    BY <2>3, <2>4
<1>7. c \in Resuming /\ got'[c] > 0 => at'[c] - Len(wire'[c]) = got'[c]
  BY <1>1, <1>3, <1>4, <1>5 DEF Consecutive
<1>8. \A j \in DOMAIN page'[c] : page'[c][j] = at'[c] + j
  BY <1>3, <1>4
<1> QED
  BY <1>4, <1>6, <1>7, <1>8 DEF Consecutive

\* The frame that arrives is the next one.
LEMMA ReceiveInStep ==
  ASSUME ServerInv, durable, NEW c \in Client, Consecutive(c), Receive(c)
  PROVE  /\ Consecutive(c)'
         /\ c \in Resuming /\ got[c] > 0 => got'[c] = got[c] + 1
<1> DEFINE w == wire[c]
<1>1. /\ w # <<>> /\ open[c] /\ w \in Seq({Lagged} \cup Numbers) /\ at[c] \in Nat /\ got[c] \in Nat
      /\ wire'[c] = Tail(w) /\ open'[c] /\ at'[c] = at[c] /\ page'[c] = page[c]
  BY DEF Receive, Consecutive, ServerInv, TypeOK, Numbers
<1>2. /\ Head(w) = w[1] /\ Len(w) \in Nat \ {0} /\ Len(Tail(w)) = Len(w) - 1 /\ 1 \in DOMAIN w
      /\ \A j \in DOMAIN Tail(w) : j \in Nat /\ j + 1 \in DOMAIN w /\ Tail(w)[j] = w[j + 1]
  BY <1>1
<1>3. \A j \in DOMAIN w : w[j] = at[c] - Len(w) + j
  BY <1>1 DEF Consecutive
<1>4. Head(w) # Lagged
  <2>1. wire[c][1] = Lagged => ~open[c]
    BY <1>2 DEF ServerInv, Links
  <2> QED
    BY <1>1, <1>2, <2>1
<1>5. got'[c] = IF c \in Resuming THEN Head(w) ELSE got[c]
  BY <1>4 DEF Receive, Kept, ServerInv, TypeOK
<1>6. c \in Resuming /\ got[c] > 0 => at[c] - Len(w) = got[c]
  BY <1>1 DEF Consecutive
<1>7. \A j \in DOMAIN page[c] : page[c][j] = at[c] + j
  BY <1>1 DEF Consecutive
<1> HIDE DEF w
<1>8. Head(w) = at[c] - Len(w) + 1
  BY <1>1, <1>2, <1>3
<1>9. ASSUME NEW j \in DOMAIN Tail(w) PROVE Tail(w)[j] = at[c] - Len(Tail(w)) + j
  <2>1. Tail(w)[j] = w[j + 1] /\ j + 1 \in DOMAIN w /\ j \in Nat
    BY <1>2
  <2>2. w[j + 1] = at[c] - Len(w) + (j + 1)
    BY <1>3, <2>1
  <2>3. Len(Tail(w)) = Len(w) - 1 /\ Len(w) \in Nat
    BY <1>2
  <2> QED
    BY <1>1, <2>1, <2>2, <2>3
<1>10. c \in Resuming => at[c] - Len(Tail(w)) = got'[c]
  BY <1>1, <1>2, <1>5, <1>8
<1>11. c \in Resuming /\ got[c] > 0 => got'[c] = got[c] + 1
  BY <1>1, <1>2, <1>5, <1>6, <1>8
<1> QED
  BY <1>1, <1>7, <1>9, <1>10, <1>11 DEF Consecutive

LEMMA StepInStep ==
  ASSUME ServerInv, InStep, [Next]_vars
  PROVE  /\ InStep'
         /\ \A c \in Resuming : got[c] > 0 /\ got'[c] # got[c] => got'[c] = got[c] + 1
<1> DEFINE Advances(c) == c \in Resuming /\ got[c] > 0 /\ got'[c] # got[c] => got'[c] = got[c] + 1
<1>1. durable' = durable /\ TypeOK
  BY DurableStays DEF ServerInv
<1>2. ASSUME NEW c \in Client, durable PROVE Consecutive(c)' /\ Advances(c)
  <2>1. Consecutive(c)
    BY <1>2 DEF InStep
  <2>2. CASE Dial(c)
    <3>1. Start(c) \in Nat /\ (got[c] > 0 => Start(c) = got[c]) /\ got' = got
      BY <1>1, <2>2, FeedType DEF Start, TypeOK, Numbers, Dial, Accept
    <3> QED
      BY <2>2, <3>1, AcceptInStep DEF Dial
  <2>3. CASE DialFromZero(c)
    <3>1. got' = got /\ ~(got[c] > 0)
      BY <2>3 DEF DialFromZero, Accept
    <3> QED
      BY <2>3, <3>1, AcceptInStep DEF DialFromZero
  <2>4. CASE SendRow(c)
    <3>1. got' = got
      BY <2>4 DEF SendRow
    <3> QED
      BY <2>1, <2>4, <3>1, SendRowInStep
  <2>5. CASE Receive(c)
    BY <1>2, <2>1, <2>5, ReceiveInStep
  <2>6. CASE Lose(c)
    BY <1>1, <2>6 DEF Lose, TypeOK, Consecutive
  <2>7. CASE Restart
    BY <1>1, <2>7 DEF Restart, TypeOK, Consecutive
  <2>8. CASE wire'[c] = wire[c] /\ open'[c] = open[c] /\ at'[c] = at[c] /\ page'[c] = page[c]
             /\ got'[c] = got[c]
    BY <2>1, <2>8 DEF Consecutive
  <2> QED
    BY <1>1, <1>2, <2>2, <2>3, <2>4, <2>5, <2>6, <2>7, <2>8, Elsewhere DEF SendLive, CutOff
<1>3. ASSUME NEW c \in Client, ~durable PROVE got'[c] = got[c]
  <2>1. CASE Receive(c)
    BY <1>1, <1>3, <2>1 DEF Receive, Kept, TypeOK
  <2>2. CASE ~Receive(c)
    BY <1>1, <2>2, Elsewhere DEF Dial, DialFromZero, Accept, SendRow, SendLive, CutOff, Lose, Restart
  <2> QED
    BY <2>1, <2>2
<1>4. \A c \in Client : Advances(c)
  BY <1>1, <1>2, <1>3 DEF TypeOK
<1>5. InStep'
  BY <1>1, <1>2 DEF InStep
<1> QED
  BY <1>4, <1>5, EventStreamAssumption

\* Over all its connections, whatever is lost with them and however often the server is
\* started again, a client that resumes receives each row after the one whose number it kept.
THEOREM NoGaps == Spec => GapFree
<1>1. ServerInv /\ InStep /\ [Next]_vars
        => InStep' /\ [\A c \in Resuming : got[c] > 0 /\ got'[c] # got[c] => got'[c] = got[c] + 1]_vars
  BY StepInStep
<1> QED
  BY <1>1, InitInStep, ServerInductive, PTL DEF Spec, GapFree
=============================================================================
