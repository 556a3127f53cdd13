------------------------------ MODULE Traffic ------------------------------
(***************************************************************************)
(* Traffic reporting: the collector of src/internal/xray/stats.go, the     *)
(* online-user tracker of src/internal/app/online_users.go and reportTraffic *)
(* of app.go, which drives both.  A Counter is a subscription's uplink or  *)
(* downlink statistic in the core; the core adds to it while traffic flows *)
(* and loses it when it is restarted (it runs inside the agent, so with    *)
(* the agent too).  The agent keeps a cursor, the value last reported, in  *)
(* memory and in a file, and reports differences.  reportTraffic, status   *)
(* reports and restarts of the core share Run's goroutine: they do not     *)
(* interleave, but traffic and crashes fall between any two steps.         *)
(***************************************************************************)
EXTENDS Integers

CONSTANTS
  User,         \* subscriptions
  Counter,      \* uplink and downlink statistics
  Owner,        \* the subscription of each counter
  MaxTraffic,   \* bound on the traffic of each counter
  MaxTime,      \* bound on the clock, in traffic intervals
  Window,       \* onlineUserWindow, in traffic intervals
  Faults,       \* the kinds of failure that may happen
  MaxFaults     \* bound on their number

\* query: the statistics call fails; rpc: the report does not arrive; ack: it
\* arrives but its answer does not; save: the cursor file cannot be written.
FaultKind == {"query", "rpc", "ack", "save", "restart", "crash"}
Never == -1

ASSUME CounterAssumption == Owner \in [Counter -> User]
ASSUME BoundAssumption ==
  /\ MaxTraffic \in [Counter -> Nat] /\ MaxTime \in Nat /\ Window \in Nat \ {0}
  /\ Faults \subseteq FaultKind /\ MaxFaults \in Nat

VARIABLES
  value,        \* the core's counters, 0 when missing
  live,         \* the counters the core has
  cursor,       \* c.cursor, 0 when missing
  cursorFile,   \* its last saved copy
  pending,      \* c.pending merged over c.cursor
  deltas,       \* what Collect returned
  phase,        \* how far reportTraffic has come
  billed,       \* server: the traffic it has added up
  carried,      \* history: the traffic the core has carried
  unacked,      \* history: traffic billed by reports the agent saw fail
  lastSeen,     \* onlineUserTracker.lastSeen
  lastTraffic,  \* history: when a subscription last had traffic
  collected,    \* history: when the counters were last read
  committed,    \* history: when they were read for the last commit
  foundSince,   \* history: the commit before a subscription was last seen
  now,          \* the clock
  due,          \* an interval has begun since the last collection
  budget,       \* failures left
  met           \* history: the kinds of failure that have happened

ledger == <<cursor, cursorFile, pending, deltas, phase>>
server == <<billed, unacked>>
stats == <<value, live, carried>>
clock == <<now, due>>
dates == <<collected, committed, foundSince>>
online == <<lastSeen, lastTraffic>>
trouble == <<budget, met>>
vars == <<value, live, cursor, cursorFile, pending, deltas, phase, billed, carried,
          unacked, lastSeen, lastTraffic, collected, committed, foundSince, now, due, budget,
          met>>

Fault(kind) ==
  /\ kind \in Faults /\ budget > 0
  /\ budget' = budget - 1 /\ met' = met \cup {kind}
NoFault == UNCHANGED trouble

Zero == [c \in Counter |-> 0]

\* Mutant: neither the reset nor the sign of the difference is tested.
GrowthUntested(c, from) == value[c] - from

\* collectFromResponse: what a counter gained since a cursor; one below its
\* cursor was reset, and all of it is new.
Growth(c, from) == IF value[c] < from THEN value[c] ELSE value[c] - from

Due(c) == Growth(c, cursor[c])

\* Mutants: pruning one interval late, or one early.
PrunedLate(seen) == [u \in User |-> IF seen[u] < now - Window - 1 THEN Never ELSE seen[u]]
PrunedEarly(seen) == [u \in User |-> IF seen[u] <= now - Window THEN Never ELSE seen[u]]

\* pruneLocked.
Pruned(seen) == [u \in User |-> IF seen[u] < now - Window THEN Never ELSE seen[u]]

-----------------------------------------------------------------------------
Init ==
  /\ value = Zero /\ live = {} /\ carried = Zero
  /\ cursor = Zero /\ cursorFile = Zero /\ pending = Zero /\ deltas = Zero
  /\ phase = "idle"
  /\ billed = Zero /\ unacked = Zero
  /\ lastSeen = [u \in User |-> Never] /\ lastTraffic = [u \in User |-> Never]
  /\ collected = 0 /\ committed = 0 /\ foundSince = [u \in User |-> Never]
  /\ now = 0 /\ due = FALSE /\ budget = MaxFaults /\ met = {}

\* External: a connection of a subscription, with or without traffic yet.
Carry(c, n) ==
  /\ carried[c] + n <= MaxTraffic[c]
  /\ live' = live \cup {c}
  /\ value' = [value EXCEPT ![c] = @ + n]
  /\ carried' = [carried EXCEPT ![c] = @ + n]
  /\ lastTraffic' = IF n = 0 THEN lastTraffic ELSE [lastTraffic EXCEPT ![Owner[c]] = now]
  /\ UNCHANGED <<ledger, server, lastSeen, dates, clock, trouble>>

\* Mutant: growth of one is taken for none, before pending is recorded.
CollectSkipsOne ==
  /\ phase = "idle"
  /\ NoFault
  /\ due' = FALSE
  /\ deltas' = [c \in Counter |-> IF c \in live /\ Due(c) > 1 THEN Due(c) ELSE 0]
  /\ pending' = [c \in Counter |-> IF c \in live /\ Due(c) > 1 THEN value[c] ELSE cursor[c]]
  /\ lastSeen' = [u \in User |->
                    IF \E c \in live : Owner[c] = u /\ Due(c) > 1 THEN now
                    ELSE Pruned(lastSeen)[u]]
  /\ phase' = IF \E c \in live : Due(c) > 1 THEN "report" ELSE "commit"
  /\ UNCHANGED <<stats, cursor, cursorFile, server, lastTraffic, dates, now>>

\* Collect, and Observe of what it returns.  A counter the core does not have
\* keeps its cursor.  With nothing to report, Commit follows at once.
Collect ==
  /\ phase = "idle"
  /\ NoFault
  /\ due' = FALSE
  /\ deltas' = [c \in Counter |-> IF c \in live THEN Due(c) ELSE 0]
  /\ pending' = [c \in Counter |-> IF c \in live THEN value[c] ELSE cursor[c]]
  /\ lastSeen' = [u \in User |->
                    IF \E c \in live : Owner[c] = u /\ Due(c) > 0 THEN now
                    ELSE Pruned(lastSeen)[u]]
  /\ phase' = IF \E c \in live : Due(c) > 0 THEN "report" ELSE "commit"
  /\ collected' = now
  /\ foundSince' = [u \in User |->
                      IF \E c \in live : Owner[c] = u /\ Due(c) > 0 THEN committed
                      ELSE foundSince[u]]
  /\ UNCHANGED <<stats, cursor, cursorFile, server, lastTraffic, committed, now>>

CollectFails ==
  /\ phase = "idle"
  /\ Fault("query")
  /\ due' = FALSE
  /\ UNCHANGED <<stats, ledger, server, online, dates, now>>

\* Mutant: the cursor is committed although the report failed.
ReportCommitsAnyway ==
  /\ phase = "report"
  /\ \/ NoFault /\ billed' = [c \in Counter |-> billed[c] + deltas[c]]
     \/ Fault("rpc") /\ UNCHANGED billed
  /\ phase' = "commit"
  /\ UNCHANGED <<stats, cursor, cursorFile, pending, deltas, unacked, online, dates, clock>>

\* ReportTraffic: delivered and acknowledged, delivered only, or neither.  An
\* error leaves the cursor where it was, and the deltas for the next collection.
Report ==
  /\ phase = "report"
  /\ \/ /\ NoFault
        /\ billed' = [c \in Counter |-> billed[c] + deltas[c]]
        /\ phase' = "commit" /\ UNCHANGED unacked
     \/ /\ Fault("ack")
        /\ billed' = [c \in Counter |-> billed[c] + deltas[c]]
        /\ unacked' = [c \in Counter |-> unacked[c] + deltas[c]]
        /\ phase' = "idle"
     \/ Fault("rpc") /\ phase' = "idle" /\ UNCHANGED server
  /\ UNCHANGED <<stats, cursor, cursorFile, pending, deltas, online, dates, clock>>

\* Mutant: pending is dropped instead of merged into the cursor.
CommitKeepsCursor ==
  /\ phase = "commit"
  /\ NoFault
  /\ phase' = "idle"
  /\ UNCHANGED <<stats, cursor, cursorFile, pending, deltas, server, online, dates, clock>>

\* Mutant: the cursor is moved to what the counters are now, not when they were read.
CommitReadsAgain ==
  /\ phase = "commit"
  /\ cursor' = [c \in Counter |-> IF c \in live THEN value[c] ELSE cursor[c]]
  /\ \/ cursorFile' = cursor' /\ NoFault
     \/ Fault("save") /\ UNCHANGED cursorFile
  /\ phase' = "idle"
  /\ UNCHANGED <<stats, pending, deltas, server, online, dates, clock>>

\* Commit: the cursor moves in memory whether or not it can be saved.
Commit ==
  /\ phase = "commit"
  /\ cursor' = pending
  /\ \/ cursorFile' = pending /\ NoFault
     \/ Fault("save") /\ UNCHANGED cursorFile
  /\ phase' = "idle" /\ committed' = collected
  /\ UNCHANGED <<stats, pending, deltas, server, online, collected, foundSince, clock>>

\* reportStatus: Count prunes the tracker.
Count ==
  /\ phase = "idle"
  /\ lastSeen' = Pruned(lastSeen)
  /\ UNCHANGED <<stats, ledger, server, lastTraffic, dates, clock, trouble>>

\* Apply or Start replaces the core: its counters start again.
RestartCore ==
  /\ phase = "idle"
  /\ Fault("restart")
  /\ value' = Zero /\ live' = {}
  /\ UNCHANGED <<carried, ledger, server, online, dates, clock>>

\* The agent crashes or stops, the core with it; loadCursor reads the file.
\* There is no report on the way out.
CrashAndLoad ==
  /\ Fault("crash")
  /\ value' = Zero /\ live' = {}
  /\ cursor' = cursorFile /\ pending' = cursorFile /\ deltas' = Zero
  /\ phase' = "idle"
  /\ lastSeen' = [u \in User |-> Never] /\ foundSince' = lastSeen'
  /\ UNCHANGED <<carried, cursorFile, server, lastTraffic, collected, committed, clock>>

\* The next interval begins, whether or not the last one was collected: Run may be
\* busy with a download or a call, in reportTraffic too, and the ticker keeps one
\* tick for it and drops the others.
Tick ==
  /\ now < MaxTime
  /\ now' = now + 1 /\ due' = TRUE
  /\ UNCHANGED <<stats, ledger, server, online, dates, trouble>>

Next ==
  \/ \E c \in Counter, n \in 0 .. 1 : Carry(c, n)
  \/ Collect \/ CollectFails \/ Report \/ Commit \/ Count
  \/ RestartCore \/ CrashAndLoad \/ Tick

Spec == Init /\ [][Next]_vars

\* The traffic ticker keeps firing and reportTraffic runs to its end.
FairSpec == Spec /\ WF_vars(Collect) /\ WF_vars(Report) /\ WF_vars(Commit)

-----------------------------------------------------------------------------
(* Properties.                                                             *)

\* The type of every variable; the counters the core does not have are zero.
TypeOK ==
  /\ value \in [Counter -> Nat] /\ carried \in [Counter -> Nat]
  /\ cursor \in [Counter -> Nat] /\ cursorFile \in [Counter -> Nat]
  /\ pending \in [Counter -> Nat] /\ deltas \in [Counter -> Nat]
  /\ billed \in [Counter -> Nat] /\ unacked \in [Counter -> Nat]
  /\ live \subseteq Counter
  /\ \A c \in Counter \ live : value[c] = 0
  /\ phase \in {"idle", "report", "commit"}
  /\ lastSeen \in [User -> Nat \cup {Never}] /\ lastTraffic \in [User -> Nat \cup {Never}]
  /\ collected \in Nat /\ committed \in Nat /\ foundSince \in [User -> Nat \cup {Never}]
  /\ now \in Nat /\ due \in BOOLEAN
  /\ budget \in 0 .. MaxFaults /\ met \subseteq FaultKind

\* No subscription is billed for traffic it did not have, whatever crashes,
\* restarts of the core, failed calls and failed saves happen: the only excess
\* is what reports carried whose answer was lost, and that at most once each.
NeverOverbilled == \A c \in Counter : billed[c] <= carried[c] + unacked[c]

\* What a counter still owes the server at this moment.
Unreported(c) ==
  CASE phase = "idle" -> Due(c)
    [] phase = "report" -> deltas[c] + Growth(c, pending[c])
    [] phase = "commit" -> Growth(c, pending[c])

\* Until the core is restarted nothing is lost: all traffic has been billed
\* or will be part of a report, however many calls and saves fail.
NothingLost ==
  met \cap {"restart", "crash"} = {} =>
    \A c \in Counter : carried[c] <= billed[c] + Unreported(c)

\* The bill that the collector, its cursor and its reports keep.
Bills == INSTANCE Billing
  WITH owed <- [c \in Counter |-> Unreported(c)], cut <- met \cap {"restart", "crash"} # {}

\* Every step of stats.go and reportTraffic is a step of the bill or leaves it
\* alone: a report carries only what is owed, a failed one takes nothing off, and
\* reading counters, moving and saving the cursor change nothing, in any order with
\* traffic, failures and restarts.
RefinesBilling == Bills!Spec

\* Once traffic and failures have stopped, all that is left gets reported.
EventuallyReported == <>[](\A c \in Counter : Unreported(c) = 0)

\* Count's answer.
Online == {u \in User : Pruned(lastSeen)[u] # Never}

\* Whom Count counts had traffic no longer ago than the window and the time covered
\* by the collection that saw him, which reaches back to the last one committed: an
\* idle subscription is not seen again once its traffic was reported, and stops
\* counting a window later, whatever fails, restarts or delays the collections.  While
\* reports fail, the time covered grows, and that is all they lengthen.
OnlineMeansActive ==
  \A u \in Online :
    /\ lastTraffic[u] # Never
    /\ now - lastTraffic[u] <= Window + (lastSeen[u] - foundSince[u])

\* A subscription that had traffic inside the window, before this interval,
\* counts as online once this interval was collected, while collections succeed and
\* the core is not restarted.
ActiveMeansOnline ==
  met \cap {"query", "restart", "crash"} = {} /\ ~due =>
    \A u \in User :
      lastTraffic[u] # Never /\ lastTraffic[u] < now /\ now - lastTraffic[u] <= Window
        => u \in Online

=============================================================================
