------------------------------ MODULE EventStream -----------------------------
(***************************************************************************)
(* From an observation to an operator's screen: the log that turns what    *)
(* passes observe into one event per episode, the broadcaster that appends *)
(* an event to the events table and then puts it on the bus, and the SSE   *)
(* server with its subscribers.  With a state database the server tails    *)
(* the table and frames carry their sequence number; without one it        *)
(* forwards the bus, and a subscriber that falls behind is told and cut.   *)
(*                                                                         *)
(* last and told are history: what a runner's latest pass saw, in this     *)
(* process or an earlier one, and the episodes seen to begin, less the     *)
(* events that a failure lost.                                             *)
(***************************************************************************)
EXTENDS Integers, Sequences, FiniteSets, SequencesExt, FiniteSetsExt

CONSTANTS
    Runner, Log,
    Key,            \* (subject, scope) pairs, or (subject, budget kind)
    SeenBy,         \* SeenBy[k] \in Runner: whose passes can observe k
    LogOf,          \* LogOf[r] \in Log: the dedup log r's passes feed
    Client,
    Resuming,       \* clients that send the id of the last frame they received
    MaxSubs, Page, Buffer,
    Window,         \* frames the transport holds
    MaxEvents, MaxFaults

ASSUME EventStreamAssumption ==
    /\ SeenBy \in [Key -> Runner] /\ LogOf \in [Runner -> Log]
    /\ IsFiniteSet(Key) /\ IsFiniteSet(Client) /\ Resuming \subseteq Client
    /\ {MaxSubs, Page, Buffer, Window} \subseteq Nat \ {0}
    /\ MaxEvents \in Nat /\ MaxFaults \in Nat

VARIABLES
    active, last,   \* per log, per runner
    outbox,         \* per runner: events of its pass not yet on the bus
    stored,         \* the head of the outbox is in the table
    told,
    log, bus,       \* the events table; the events sent to live subscribers
    durable,        \* is there a state database?
    server, slots,
    link, open,     \* per client: its end, the server's end
    at, page,       \* the stream's cursor and the rows it has fetched
    wire, got,      \* frames in flight, the cursor kept
    orphans,        \* streams whose client is gone and who do not know
    faults

eventVars == <<active, last, outbox, stored, told, log, bus>>
streamVars == <<link, open, at, page, wire, got, orphans, slots>>
vars == <<eventVars, streamVars, durable, server, faults>>

\* The frame that says how much was missed; other frames are positive.
Lagged == 0

\* What the streams forward.
Feed == IF durable THEN log ELSE bus

\* The numbers of what has been stored (sent, without a table).
Numbers == 1..Len(Feed)

TypeOK ==
    /\ active \in [Log -> SUBSET Key] /\ last \in [Runner -> SUBSET Key]
    /\ outbox \in [Runner -> Seq(Key)] /\ stored \in [Runner -> BOOLEAN]
    /\ told \in [Key -> Int]
    /\ log \in Seq(Key) /\ bus \in Seq(Key) /\ durable \in BOOLEAN
    /\ server \in {"listening", "draining", "stopped"} /\ slots \in Nat
    /\ link \in [Client -> {"down", "up", "refused"}] /\ open \in [Client -> BOOLEAN]
    /\ at \in [Client -> {0} \cup Numbers] /\ page \in [Client -> Seq(Numbers)]
    /\ wire \in [Client -> Seq({Lagged} \cup Numbers)] /\ got \in [Client -> {0} \cup Numbers]
    /\ orphans \in Nat /\ faults \in 0..MaxFaults

Init ==
    /\ active = [l \in Log |-> {}] /\ last = [r \in Runner |-> {}]
    /\ outbox = [r \in Runner |-> <<>>] /\ stored = [r \in Runner |-> FALSE]
    /\ told = [k \in Key |-> 0]
    /\ log = <<>> /\ bus = <<>> /\ durable \in BOOLEAN
    /\ server = "listening" /\ slots = 0
    /\ link = [c \in Client |-> "down"] /\ open = [c \in Client |-> FALSE]
    /\ at = [c \in Client |-> 0] /\ page = [c \in Client |-> <<>>]
    /\ wire = [c \in Client |-> <<>>] /\ got = [c \in Client |-> 0]
    /\ orphans = 0 /\ faults = 0

Count(s, k) == Cardinality({j \in DOMAIN s : s[j] = k})

\* The events of k that are still to be stored (sent, without a table).
Waiting(k) ==
    LET r == SeenBy[k]
    IN  Count(outbox[r], k) - IF stored[r] /\ Head(outbox[r]) = k THEN 1 ELSE 0

-----------------------------------------------------------------------------
(* The dedup log and the broadcaster. *)

\* Mutant of Remembered: an episode that was told once is never forgotten.
RememberedAll(l, seen) == active[l] \cup seen

\* What a log takes for told after a pass: all that it saw, and nothing else.
Remembered(l, seen) == seen

\* The bound on events leaves room for n more.
Room(n) ==
    Len(Feed) + FoldSet(LAMBDA r, m : m + Len(outbox[r]), n, Runner) <= MaxEvents

\* r's pass hands all it observed to its log, which returns the events to emit: those of the
\* episodes that the last pass to feed that log, r's or another runner's, did not see.
Pass(r) ==
    /\ server # "stopped" /\ outbox[r] = <<>>
    /\ \E seen \in SUBSET {k \in Key : SeenBy[k] = r} :
        LET fresh == seen \ active[LogOf[r]]
        IN  /\ Room(Cardinality(fresh))
            /\ \E events \in SetToSeqs(fresh) : outbox' = [outbox EXCEPT ![r] = events]
            /\ active' = [active EXCEPT ![LogOf[r]] = Remembered(LogOf[r], seen)]
            /\ last' = [last EXCEPT ![r] = seen]
            /\ told' = [k \in Key |-> told[k] + IF k \in seen \ last[r] THEN 1 ELSE 0]
    /\ UNCHANGED <<stored, log, bus, streamVars, durable, server, faults>>

\* append_event: the next sequence number is one above the greatest.
Persist(r) ==
    /\ durable /\ outbox[r] # <<>> /\ ~stored[r]
    /\ log' = Append(log, Head(outbox[r]))
    /\ stored' = [stored EXCEPT ![r] = TRUE]
    /\ UNCHANGED <<active, last, outbox, told, bus, streamVars, durable, server, faults>>

\* Mutant of AfterFailure: the event goes out all the same.
AfterFailureSent(r) == Append(bus, Head(outbox[r]))

AfterFailure(r) == bus

\* The sink fails: the event is dropped, and the log takes its episode for told.
PersistFails(r) ==
    /\ durable /\ outbox[r] # <<>> /\ ~stored[r] /\ faults < MaxFaults
    /\ outbox' = [outbox EXCEPT ![r] = Tail(@)]
    /\ bus' = AfterFailure(r)
    /\ told' = [told EXCEPT ![Head(outbox[r])] = @ - 1]
    /\ faults' = faults + 1
    /\ UNCHANGED <<active, last, stored, log, streamVars, durable, server>>

Emit(r) ==
    /\ outbox[r] # <<>> /\ (durable => stored[r])
    /\ bus' = Append(bus, Head(outbox[r]))
    /\ outbox' = [outbox EXCEPT ![r] = Tail(@)]
    /\ stored' = [stored EXCEPT ![r] = FALSE]
    /\ UNCHANGED <<active, last, told, log, streamVars, durable, server, faults>>

-----------------------------------------------------------------------------
(* The server. *)

\* Mutants of Start: the next number for the last one, the end whatever the cursor.
StartPast(c) == IF got[c] > 0 THEN got[c] ELSE Len(Feed) + 1
StartAtEnd(c) == Len(Feed)

\* Where a new stream starts: at the client's cursor, else at the end.
Start(c) == IF got[c] > 0 THEN got[c] ELSE Len(Feed)

Accept(c, start) ==
    /\ server = "listening" /\ link[c] = "down" /\ slots < MaxSubs
    /\ slots' = slots + 1
    /\ link' = [link EXCEPT ![c] = "up"] /\ open' = [open EXCEPT ![c] = TRUE]
    /\ at' = [at EXCEPT ![c] = start] /\ page' = [page EXCEPT ![c] = <<>>]
    /\ UNCHANGED <<eventVars, wire, got, orphans, durable, server>>

Dial(c) == Accept(c, Start(c)) /\ UNCHANGED faults

\* The look-up of the last sequence number fails: the stream starts at the beginning.
DialFromZero(c) ==
    /\ durable /\ got[c] = 0 /\ faults < MaxFaults
    /\ Accept(c, 0)
    /\ faults' = faults + 1

\* Over the cap: the counter has been raised and is lowered in a second step.
DialOverCap(c) ==
    /\ server = "listening" /\ link[c] = "down" /\ slots >= MaxSubs
    /\ slots' = slots + 1
    /\ link' = [link EXCEPT ![c] = "refused"]
    /\ UNCHANGED <<eventVars, open, at, page, wire, got, orphans, durable, server, faults>>

\* Mutant of Released: the refusal keeps what it counted.
ReleasedNone == slots

Released == slots - 1

Refuse(c) ==
    /\ link[c] = "refused"
    /\ slots' = Released
    /\ link' = [link EXCEPT ![c] = "down"]
    /\ UNCHANGED <<eventVars, open, at, page, wire, got, orphans, durable, server, faults>>

\* Mutant of Rows: nothing short of a full page.
RowsFull(c) == IF Len(log) - at[c] < Page THEN <<>> ELSE [n \in 1..Page |-> at[c] + n]

\* The numbers of the rows after the cursor, a page of them.
Rows(c) == [n \in 1..Min({Len(log) - at[c], Page}) |-> at[c] + n]

\* One frame of the page, which is fetched when there is none.
SendRow(c) ==
    /\ durable /\ open[c] /\ Len(wire[c]) < Window
    /\ LET rows == IF page[c] = <<>> THEN Rows(c) ELSE page[c]
       IN  /\ rows # <<>>
           /\ wire' = [wire EXCEPT ![c] = Append(@, Head(rows))]
           /\ at' = [at EXCEPT ![c] = Head(rows)]
           /\ page' = [page EXCEPT ![c] = Tail(rows)]
    /\ UNCHANGED <<eventVars, link, open, got, orphans, slots, durable, server, faults>>

\* One event off the bus.
SendLive(c) ==
    /\ ~durable /\ open[c] /\ Len(wire[c]) < Window
    /\ at[c] < Len(bus) /\ Len(bus) - at[c] <= Buffer
    /\ at' = [at EXCEPT ![c] = @ + 1]
    /\ wire' = [wire EXCEPT ![c] = Append(@, at[c] + 1)]
    /\ UNCHANGED <<eventVars, link, open, page, got, orphans, slots, durable, server, faults>>

\* The bus has overwritten what c has not read: it is told, and its stream ends.
CutOff(c) ==
    /\ ~durable /\ open[c] /\ Len(wire[c]) < Window
    /\ Len(bus) - at[c] > Buffer
    /\ wire' = [wire EXCEPT ![c] = Append(@, Lagged)]
    /\ open' = [open EXCEPT ![c] = FALSE] /\ at' = [at EXCEPT ![c] = 0]
    /\ slots' = slots - 1
    /\ UNCHANGED <<eventVars, link, page, got, orphans, durable, server, faults>>

\* A write to a client that is gone fails, and the guard of its stream is dropped.
Reap ==
    /\ orphans > 0
    /\ orphans' = orphans - 1 /\ slots' = slots - 1
    /\ UNCHANGED <<eventVars, link, open, at, page, wire, got, durable, server, faults>>

\* SIGINT: no new connections; those that are open are waited for.
Shutdown ==
    /\ server = "listening"
    /\ server' = "draining"
    /\ UNCHANGED <<eventVars, streamVars, durable, faults>>

Drained ==
    /\ server = "draining" /\ slots = 0
    /\ server' = "stopped"
    /\ UNCHANGED <<eventVars, streamVars, durable, faults>>

-----------------------------------------------------------------------------
(* The client, the network and the process. *)

\* A frame of the table has an id, which symphony watch ignores.
Kept(c) == IF durable /\ c \in Resuming THEN Head(wire[c]) ELSE got[c]

\* A frame arrives: it is shown and its id kept, or it ends the connection.
Receive(c) ==
    /\ wire[c] # <<>>
    /\ wire' = [wire EXCEPT ![c] = Tail(@)]
    /\ IF Head(wire[c]) = Lagged
         THEN link' = [link EXCEPT ![c] = "down"] /\ UNCHANGED got
         ELSE got' = [got EXCEPT ![c] = Kept(c)] /\ UNCHANGED link
    /\ UNCHANGED <<eventVars, open, at, page, orphans, slots, durable, server, faults>>

\* The connection breaks with what is in flight; the server may still hold the stream.
Lose(c) ==
    /\ link[c] = "up" /\ faults < MaxFaults
    /\ link' = [link EXCEPT ![c] = "down"] /\ open' = [open EXCEPT ![c] = FALSE]
    /\ at' = [at EXCEPT ![c] = 0] /\ page' = [page EXCEPT ![c] = <<>>]
    /\ wire' = [wire EXCEPT ![c] = <<>>]
    /\ orphans' = orphans + IF open[c] THEN 1 ELSE 0
    /\ faults' = faults + 1
    /\ UNCHANGED <<eventVars, got, slots, durable, server>>

\* The daemon ends, in any state, and is started again.
Restart ==
    /\ faults < MaxFaults
    /\ active' = [l \in Log |-> {}]
    /\ told' = [k \in Key |-> told[k] - Waiting(k)]
    /\ outbox' = [r \in Runner |-> <<>>] /\ stored' = [r \in Runner |-> FALSE]
    /\ server' = "listening" /\ slots' = 0 /\ orphans' = 0
    /\ link' = [c \in Client |-> "down"] /\ open' = [c \in Client |-> FALSE]
    /\ at' = [c \in Client |-> 0] /\ page' = [c \in Client |-> <<>>]
    /\ wire' = [c \in Client |-> <<>>]
    /\ faults' = faults + 1
    /\ UNCHANGED <<last, log, bus, got, durable>>

Next ==
    \/ \E r \in Runner : Pass(r) \/ Persist(r) \/ PersistFails(r) \/ Emit(r)
    \/ \E c \in Client :
        \/ Dial(c) \/ DialFromZero(c) \/ DialOverCap(c) \/ Refuse(c)
        \/ SendRow(c) \/ SendLive(c) \/ CutOff(c)
        \/ Receive(c) \/ Lose(c)
    \/ Reap \/ Shutdown \/ Drained \/ Restart

Spec == Init /\ [][Next]_vars

\* A pass ends, clients dial until they get in, streams are polled, the transport
\* delivers or breaks, keep-alives find the streams that nobody reads.
Fairness ==
    /\ \A r \in Runner : WF_vars(Persist(r) \/ PersistFails(r)) /\ WF_vars(Emit(r))
    /\ \A c \in Client :
        /\ WF_vars(Dial(c) \/ DialOverCap(c)) /\ WF_vars(Refuse(c))
        /\ WF_vars(SendRow(c) \/ SendLive(c) \/ CutOff(c)) /\ WF_vars(Receive(c))
    /\ WF_vars(Reap) /\ WF_vars(Drained)

FairSpec == Spec /\ Fairness

-----------------------------------------------------------------------------
(* Properties. *)

\* No episode goes untold: each that a runner saw begin has an event of its own, in the table
\* (on the bus, without one) or on its way there, unless a failure of the sink or the end of
\* the process lost one; whichever runners feed a log in turn, and whatever it has forgotten.
EpisodesAccounted == \A k \in Key : told[k] <= Count(Feed, k) + Waiting(k)

\* "At most one event per contention episode": an episode that goes on is not told again,
\* neither when another runner's pass feeds the same log nor after a restart.
EpisodesToldOnce == \A k \in Key : Count(Feed, k) + Waiting(k) <= told[k]

\* "A subscriber must never observe an event that does not already exist in the log": the
\* bus is never ahead of the table, whoever else emits at that time and whatever fails.
LiveBehindLog == durable => \A k \in Key : Count(bus, k) <= Count(log, k)

\* The slot counter is the number of streams and of refusals under way, through lags, broken
\* connections and restarts, and what it overcounts for a while never lets in one too many.
SlotsAccounted ==
    LET streams == Cardinality({c \in Client : open[c]}) + orphans
    IN  /\ slots = streams + Cardinality({c \in Client : link[c] = "refused"})
        /\ streams <= MaxSubs

\* "A reconnecting consumer can resume from any sequence and trust the stream is gap-free":
\* what a client that resumes receives, over all its connections, misses no row and
\* repeats none, although frames are lost with the connection that the server has sent.
GapFree ==
    [][\A c \in Resuming :
          got[c] > 0 /\ got'[c] # got[c] => got'[c] = got[c] + 1]_vars

\* Such a client that has a cursor receives every row of the table, unless the server is told
\* to stop: the cap, lost frames and restarts only delay it.
CatchesUp ==
    \A c \in Resuming : \A n \in 1..MaxEvents :
        durable /\ got[c] > 0 /\ Len(log) >= n ~> got[c] >= n \/ server # "listening"

\* "SSE streams currently in flight unblock through their own broadcast subscription": the
\* server that is told to stop does so, also while clients stay connected.
ShutdownCompletes == server = "draining" ~> server # "draining"
=============================================================================
