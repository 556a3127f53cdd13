--------------------------- MODULE TrafficProofs ---------------------------
(***************************************************************************)
(* Proofs about the traffic ledger, for any number of subscriptions and    *)
(* counters, any amount of traffic and any number of failures.  Snapshot   *)
(* says what Collect left for Report and Commit; Balance is the accounting *)
(* identity both properties are halves of.                                 *)
(***************************************************************************)
EXTENDS Traffic, TLAPS

\* Between Collect and Commit: pending is what the counter was when it was
\* read, and deltas what it had gained; or the core did not have the counter.
Snapshot ==
  phase # "idle" =>
    \A c \in Counter :
      \/ /\ pending[c] <= value[c]
         /\ deltas[c] = IF pending[c] < cursor[c] THEN pending[c] ELSE pending[c] - cursor[c]
      \/ pending[c] = cursor[c] /\ deltas[c] = 0

\* What has been billed and what is still owed is covered by what was carried.
Balance == \A c \in Counter : billed[c] + Unreported(c) <= carried[c] + unacked[c]

IInv == TypeOK /\ Snapshot /\ Balance

\* While the core lives, its counters hold all the traffic, the cursor follows
\* them, and nothing falls between the cursor and the bill.
Whole ==
  met \cap {"restart", "crash"} = {} =>
    \A c \in Counter :
      /\ carried[c] = value[c] /\ cursor[c] <= value[c]
      /\ carried[c] <= billed[c] + Unreported(c)
      /\ phase # "idle" =>
           /\ cursor[c] <= pending[c] /\ pending[c] <= value[c]
           /\ deltas[c] = pending[c] - cursor[c]

-----------------------------------------------------------------------------
\* The initial state satisfies the type invariant.
LEMMA TypeInit == ASSUME Init PROVE TypeOK
<1>1. Zero \in [Counter -> Nat] /\ \A c \in Counter : Zero[c] = 0
  BY DEF Zero
<1>2. [u \in User |-> Never] \in [User -> Nat \cup {Never}]
  OBVIOUS
<1>3. budget \in 0 .. MaxFaults
  BY BoundAssumption DEF Init
<1> QED BY <1>1, <1>2, <1>3 DEF Init, TypeOK

\* collectFromResponse never computes a negative delta.
LEMMA GrowthType ==
  ASSUME TypeOK, NEW c \in Counter, NEW from \in Nat
  PROVE  Growth(c, from) \in Nat
  BY DEF TypeOK, Growth

\* A failure keeps the budget in its range and is of a known kind.
LEMMA FaultType ==
  ASSUME TypeOK, NEW kind, Fault(kind)
  PROVE  budget' \in 0 .. MaxFaults /\ met' \subseteq FaultKind
  BY BoundAssumption DEF TypeOK, Fault

\* What has happened is not forgotten.
LEMMA MetGrows ==
  ASSUME [Next]_vars
  PROVE  met \subseteq met'
  BY DEF Next, Carry, Collect, CollectFails, Report, Commit, Count, RestartCore, CrashAndLoad,
         Tick, Fault, NoFault, trouble, vars

\* pruneLocked keeps a time for every subscription.
LEMMA PrunedType ==
  ASSUME TypeOK
  PROVE  Pruned(lastSeen) \in [User -> Nat \cup {Never}]
  BY DEF TypeOK, Pruned

\* Every step keeps the type invariant.
LEMMA TypeStep == ASSUME TypeOK, [Next]_vars PROVE TypeOK'
<1> USE DEF NoFault, trouble, dates
<1>1. ASSUME NEW c \in Counter, NEW n \in 0 .. 1, Carry(c, n) PROVE TypeOK'
  <2>1. value' \in [Counter -> Nat] /\ carried' \in [Counter -> Nat] /\ live' \subseteq Counter
    BY <1>1 DEF Carry, TypeOK
  <2>2. \A d \in Counter \ live' : value'[d] = 0
    BY <1>1 DEF Carry, TypeOK
  <2>3. lastTraffic' \in [User -> Nat \cup {Never}]
    BY <1>1, CounterAssumption DEF Carry, TypeOK, clock
  <2> QED BY <1>1, <2>1, <2>2, <2>3 DEF Carry, TypeOK, ledger, server, clock
<1>2. CASE Collect
  <2>1. deltas' \in [Counter -> Nat]
    <3>1. \A c \in Counter : Due(c) \in Nat
      BY GrowthType DEF Due, TypeOK
    <3> QED BY <1>2, <3>1 DEF Collect
  <2>2. pending' \in [Counter -> Nat]
    BY <1>2 DEF Collect, TypeOK
  <2>3. lastSeen' \in [User -> Nat \cup {Never}]
    BY <1>2, PrunedType DEF Collect, TypeOK
  <2>4. foundSince' \in [User -> Nat \cup {Never}]
    BY <1>2 DEF Collect, TypeOK
  <2> QED BY <1>2, <2>1, <2>2, <2>3, <2>4 DEF Collect, TypeOK, stats, server, NoFault
<1>3. CASE CollectFails
  BY <1>3, FaultType DEF CollectFails, TypeOK, stats, ledger, server, online
<1>4. CASE Report
  <2>1. budget' \in 0 .. MaxFaults /\ met' \subseteq FaultKind
    BY <1>4, FaultType DEF Report, NoFault, TypeOK
  <2>2. billed' \in [Counter -> Nat] /\ unacked' \in [Counter -> Nat]
    BY <1>4 DEF Report, TypeOK, server
  <2> QED BY <1>4, <2>1, <2>2 DEF Report, TypeOK, stats, online, clock
<1>5. CASE Commit
  <2>1. budget' \in 0 .. MaxFaults /\ met' \subseteq FaultKind
    BY <1>5, FaultType DEF Commit, NoFault, TypeOK
  <2> QED BY <1>5, <2>1 DEF Commit, TypeOK, stats, server, online, clock
<1>6. CASE Count
  BY <1>6, PrunedType DEF Count, TypeOK, stats, ledger, server, clock
<1>7. CASE RestartCore
  BY <1>7, FaultType DEF RestartCore, TypeOK, Zero, ledger, server, online, clock
<1>8. CASE CrashAndLoad
  BY <1>8, FaultType DEF CrashAndLoad, TypeOK, Zero, Never, server, clock
<1>9. CASE Tick
  BY <1>9 DEF Tick, TypeOK, stats, ledger, server, online
<1>10. CASE UNCHANGED vars
  BY <1>10 DEF TypeOK, vars
<1> QED BY <1>1, <1>2, <1>3, <1>4, <1>5, <1>6, <1>7, <1>8, <1>9, <1>10 DEF Next

\* Every step keeps Snapshot.
LEMMA SnapshotStep == ASSUME TypeOK, Snapshot, [Next]_vars PROVE Snapshot'
<1>1. ASSUME NEW c \in Counter, NEW n \in 0 .. 1, Carry(c, n) PROVE Snapshot'
  <2>1. \A d \in Counter : value[d] <= value'[d]
    BY <1>1 DEF Carry, TypeOK
  <2> QED BY <1>1, <2>1 DEF Carry, Snapshot, TypeOK, ledger
<1>2. CASE Collect
  BY <1>2 DEF Collect, Snapshot, TypeOK, Due, Growth, stats
<1>3. CASE CollectFails \/ Count \/ Tick
  BY <1>3 DEF CollectFails, Count, Tick, Snapshot, stats, ledger
<1>4. CASE Report
  BY <1>4 DEF Report, Snapshot, stats
<1>5. CASE Commit \/ RestartCore \/ CrashAndLoad
  BY <1>5 DEF Commit, RestartCore, CrashAndLoad, Snapshot, ledger
<1>6. CASE UNCHANGED vars
  BY <1>6 DEF Snapshot, vars
<1> QED BY <1>1, <1>2, <1>3, <1>4, <1>5, <1>6 DEF Next

\* Every step keeps Balance.
LEMMA BalanceStep ==
  ASSUME TypeOK, TypeOK', Snapshot, Balance, [Next]_vars
  PROVE  Balance'
<1> SUFFICES ASSUME NEW d \in Counter
             PROVE  (billed[d] + Unreported(d) <= carried[d] + unacked[d])'
  BY DEF Balance
<1>0. billed[d] + Unreported(d) <= carried[d] + unacked[d]
  BY DEF Balance
<1>t. /\ {value[d], cursor[d], cursorFile[d], pending[d], deltas[d], billed[d],
          carried[d], unacked[d]} \subseteq Nat
      /\ phase \in {"idle", "report", "commit"}
  BY DEF TypeOK
<1>1. ASSUME NEW c \in Counter, NEW n \in 0 .. 1, Carry(c, n)
      PROVE  (billed[d] + Unreported(d) <= carried[d] + unacked[d])'
  <2>1. \/ value'[d] = value[d] /\ carried'[d] = carried[d]
        \/ value'[d] = value[d] + n /\ carried'[d] = carried[d] + n
    BY <1>1 DEF Carry, TypeOK
  <2>2. UNCHANGED <<billed, unacked, cursor, pending, deltas, phase>>
    BY <1>1 DEF Carry, ledger, server
  <2> QED BY <1>0, <1>t, <2>1, <2>2 DEF Unreported, Due, Growth
<1>2. CASE Collect
  <2>1. UNCHANGED <<billed, unacked, carried, value, cursor>> /\ phase = "idle"
    BY <1>2 DEF Collect, stats, server
  <2>2. phase' \in {"report", "commit"} /\ (phase' = "commit" /\ d \in live => Due(d) <= 0)
    <3>1. Due(d) \in Nat
      BY GrowthType, <1>t DEF Due
    <3> QED BY <1>2, <3>1 DEF Collect
  <2>3. /\ deltas'[d] = IF d \in live THEN Due(d) ELSE 0
        /\ pending'[d] = IF d \in live THEN value[d] ELSE cursor[d]
    BY <1>2 DEF Collect
  <2>4. d \notin live => value[d] = 0
    BY DEF TypeOK
  <2> QED BY <1>0, <1>t, <2>1, <2>2, <2>3, <2>4 DEF Unreported, Due, Growth
<1>3. CASE CollectFails \/ Count \/ Tick
  BY <1>0, <1>3 DEF CollectFails, Count, Tick, Unreported, Due, Growth, stats, ledger, server
<1>4. CASE Report
  <2>1. phase = "report" /\ UNCHANGED <<carried, value, cursor, pending, deltas>>
    BY <1>4 DEF Report, stats
  <2>2. \/ /\ phase' = "commit" /\ unacked'[d] = unacked[d]
           /\ billed'[d] = billed[d] + deltas[d]
        \/ /\ phase' = "idle" /\ unacked'[d] = unacked[d] + deltas[d]
           /\ billed'[d] = billed[d] + deltas[d]
        \/ phase' = "idle" /\ unacked'[d] = unacked[d] /\ billed'[d] = billed[d]
    BY <1>4 DEF Report, server
  <2>3. Growth(d, cursor[d]) <= deltas[d] + Growth(d, pending[d])
    BY <1>t, <2>1 DEF Snapshot, Growth
  <2>4. Growth(d, cursor[d]) \in Nat /\ Growth(d, pending[d]) \in Nat
    BY <1>t, GrowthType
  <2>5. Unreported(d) = deltas[d] + Growth(d, pending[d])
    BY <2>1 DEF Unreported
  <2>6. Unreported(d)' = IF phase' = "commit" THEN Growth(d, pending[d]) ELSE Growth(d, cursor[d])
    BY <2>1, <2>2 DEF Unreported, Due, Growth
  <2> QED BY <1>0, <1>t, <2>1, <2>2, <2>3, <2>4, <2>5, <2>6
<1>5. CASE Commit
  <2>1. Unreported(d)' = Unreported(d)
    BY <1>5 DEF Commit, Unreported, Due, Growth, stats
  <2> QED BY <1>0, <1>5, <2>1 DEF Commit, server, stats
<1>6. CASE RestartCore
  <2>1. phase = "idle" /\ value'[d] = 0 /\ UNCHANGED <<billed, unacked, carried, cursor, phase>>
    BY <1>6 DEF RestartCore, Zero, ledger, server
  <2>2. Unreported(d)' = 0
    BY <1>t, <2>1 DEF Unreported, Due, Growth
  <2>3. Unreported(d) \in Nat
    BY <1>t, <2>1, GrowthType DEF Unreported, Due
  <2> QED BY <1>0, <1>t, <2>1, <2>2, <2>3
<1>7. CASE CrashAndLoad
  <2>1. /\ phase' = "idle" /\ value'[d] = 0 /\ cursor'[d] = cursorFile[d]
        /\ UNCHANGED <<billed, unacked, carried>>
    BY <1>7 DEF CrashAndLoad, Zero, server
  <2>2. Unreported(d)' = 0
    BY <1>t, <2>1 DEF Unreported, Due, Growth
  <2>3. Unreported(d) \in Nat
    <3>1. Growth(d, cursor[d]) \in Nat /\ Growth(d, pending[d]) \in Nat
      BY <1>t, GrowthType
    <3> QED BY <1>t, <3>1 DEF Unreported, Due
  <2> QED BY <1>0, <1>t, <2>1, <2>2, <2>3
<1>8. CASE UNCHANGED vars
  BY <1>0, <1>8 DEF Unreported, Due, Growth, vars
<1> QED BY <1>1, <1>2, <1>3, <1>4, <1>5, <1>6, <1>7, <1>8 DEF Next

-----------------------------------------------------------------------------
\* The inductive invariant holds in every reachable state.
THEOREM Invariance == Spec => []IInv
<1>1. Init => IInv
  <2> SUFFICES ASSUME Init PROVE IInv OBVIOUS
  <2>1. TypeOK BY TypeInit
  <2>2. Snapshot BY DEF Init, Snapshot
  <2>3. Balance BY DEF Init, Balance, Unreported, Due, Growth, Zero
  <2> QED BY <2>1, <2>2, <2>3 DEF IInv
<1>2. IInv /\ [Next]_vars => IInv'
  BY TypeStep, SnapshotStep, BalanceStep DEF IInv
<1> QED BY <1>1, <1>2, PTL DEF Spec

\* TypeOK: every variable keeps its type (Growth never returns a negative delta).
THEOREM TypeCorrect == Spec => []TypeOK
<1>1. IInv => TypeOK BY DEF IInv
<1> QED BY <1>1, Invariance, PTL

\* NeverOverbilled: whatever crashes, restarts and failures reportTraffic meets,
\* only reports whose answer was lost can bill a subscription twice.
THEOREM NothingBilledTwice == Spec => []NeverOverbilled
<1>1. IInv => NeverOverbilled
  <2> SUFFICES ASSUME IInv, NEW c \in Counter
               PROVE  billed[c] <= carried[c] + unacked[c]
    BY DEF NeverOverbilled
  <2>1. /\ {cursor[c], pending[c], deltas[c], billed[c], carried[c], unacked[c]} \subseteq Nat
        /\ phase \in {"idle", "report", "commit"}
    BY DEF IInv, TypeOK
  <2>2. Growth(c, cursor[c]) \in Nat /\ Growth(c, pending[c]) \in Nat
    BY <2>1, GrowthType DEF IInv
  <2>3. Unreported(c) \in Nat
    BY <2>1, <2>2 DEF Unreported, Due
  <2>4. billed[c] + Unreported(c) <= carried[c] + unacked[c]
    BY DEF IInv, Balance
  <2> QED BY <2>1, <2>3, <2>4
<1> QED BY <1>1, Invariance, PTL

-----------------------------------------------------------------------------
\* Every step keeps Whole.
LEMMA WholeStep ==
  ASSUME TypeOK, TypeOK', Whole, [Next]_vars
  PROVE  Whole'
<1> SUFFICES ASSUME met' \cap {"restart", "crash"} = {}, NEW d \in Counter
             PROVE  (/\ carried[d] = value[d] /\ cursor[d] <= value[d]
                     /\ carried[d] <= billed[d] + Unreported(d)
                     /\ phase # "idle" =>
                          /\ cursor[d] <= pending[d] /\ pending[d] <= value[d]
                          /\ deltas[d] = pending[d] - cursor[d])'
  BY DEF Whole
<1>m. met \cap {"restart", "crash"} = {}
  BY MetGrows
<1>0. /\ carried[d] = value[d] /\ cursor[d] <= value[d]
      /\ carried[d] <= billed[d] + Unreported(d)
      /\ phase # "idle" =>
           /\ cursor[d] <= pending[d] /\ pending[d] <= value[d]
           /\ deltas[d] = pending[d] - cursor[d]
  BY <1>m DEF Whole
<1>t. /\ {value[d], cursor[d], pending[d], deltas[d], billed[d], carried[d]} \subseteq Nat
      /\ phase \in {"idle", "report", "commit"}
  BY DEF TypeOK
<1>1. ASSUME NEW c \in Counter, NEW n \in 0 .. 1, Carry(c, n)
      PROVE  (/\ carried[d] = value[d] /\ cursor[d] <= value[d]
              /\ carried[d] <= billed[d] + Unreported(d)
              /\ phase # "idle" =>
                   /\ cursor[d] <= pending[d] /\ pending[d] <= value[d]
                   /\ deltas[d] = pending[d] - cursor[d])'
  <2>1. \/ value'[d] = value[d] /\ carried'[d] = carried[d]
        \/ value'[d] = value[d] + n /\ carried'[d] = carried[d] + n
    BY <1>1 DEF Carry, TypeOK
  <2>2. UNCHANGED <<billed, cursor, pending, deltas, phase>>
    BY <1>1 DEF Carry, ledger, server
  <2> QED BY <1>0, <1>t, <2>1, <2>2 DEF Unreported, Due, Growth
<1>2. CASE Collect
  <2>1. UNCHANGED <<billed, carried, value, cursor>> /\ phase = "idle"
    BY <1>2 DEF Collect, stats, server
  <2>2. phase' \in {"report", "commit"} /\ (phase' = "commit" /\ d \in live => Due(d) <= 0)
    <3>1. Due(d) \in Nat
      BY GrowthType, <1>t DEF Due
    <3> QED BY <1>2, <3>1 DEF Collect
  <2>3. /\ deltas'[d] = IF d \in live THEN Due(d) ELSE 0
        /\ pending'[d] = IF d \in live THEN value[d] ELSE cursor[d]
    BY <1>2 DEF Collect
  <2>4. d \notin live => value[d] = 0
    BY DEF TypeOK
  <2> QED BY <1>0, <1>t, <2>1, <2>2, <2>3, <2>4 DEF Unreported, Due, Growth
<1>3. CASE CollectFails \/ Count \/ Tick
  BY <1>0, <1>3 DEF CollectFails, Count, Tick, Unreported, Due, Growth, stats, ledger, server
<1>4. CASE Report
  <2>1. phase = "report" /\ UNCHANGED <<carried, value, cursor, pending, deltas>>
    BY <1>4 DEF Report, stats
  <2>2. \/ phase' = "commit" /\ billed'[d] = billed[d] + deltas[d]
        \/ phase' = "idle" /\ billed'[d] = billed[d] + deltas[d]
        \/ phase' = "idle" /\ billed'[d] = billed[d]
    BY <1>4 DEF Report, server
  <2> QED BY <1>0, <1>t, <2>1, <2>2 DEF Unreported, Due, Growth
<1>5. CASE Commit
  BY <1>0, <1>t, <1>5 DEF Commit, Unreported, Due, Growth, stats, server
<1>6. CASE RestartCore \/ CrashAndLoad
  BY <1>6, <1>m DEF RestartCore, CrashAndLoad, Fault
<1>7. CASE UNCHANGED vars
  BY <1>0, <1>7 DEF Unreported, Due, Growth, vars
<1> QED BY <1>1, <1>2, <1>3, <1>4, <1>5, <1>6, <1>7 DEF Next

\* NothingLost: while the core runs, failed calls and failed saves lose nothing.
THEOREM TrafficSurvivesFailures == Spec => []NothingLost
<1>1. Init => Whole
  BY DEF Init, Whole, Unreported, Due, Growth, Zero
<1>2. IInv /\ IInv' /\ Whole /\ [Next]_vars => Whole'
  BY WholeStep DEF IInv
<1>3. Whole => NothingLost
  BY DEF Whole, NothingLost
<1> QED BY <1>1, <1>2, <1>3, Invariance, PTL DEF Spec

-----------------------------------------------------------------------------
(* Online users.                                                           *)

\* What a counter has gained since it was last read for a collection that stands.
Owed(c) == Growth(c, IF phase = "idle" THEN cursor[c] ELSE pending[c])

\* No time lies ahead of the clock.
Past ==
  /\ collected <= now /\ committed <= now
  /\ \A u \in User : lastSeen[u] <= now /\ lastTraffic[u] <= now

\* What a counter gained since its cursor is traffic since the collection committed
\* last; what it gained since it was read for a report, traffic since then.
Dated ==
  \A c \in Counter :
    /\ Growth(c, cursor[c]) > 0 => committed <= lastTraffic[Owner[c]]
    /\ phase # "idle" /\ Growth(c, pending[c]) > 0 => collected <= lastTraffic[Owner[c]]

\* Who was seen had traffic since the commit before.
Found ==
  \A u \in User : lastSeen[u] # Never => foundSince[u] \in Nat /\ foundSince[u] <= lastTraffic[u]

\* While collections succeed and the core lives, the last traffic of a subscription
\* was seen, is too old, or is still to be found by the next collection.
Noticed ==
  met \cap {"query", "restart", "crash"} = {} =>
    \A u \in User : lastTraffic[u] # Never =>
      \/ lastSeen[u] >= lastTraffic[u]
      \/ lastTraffic[u] < now - Window
      \/ /\ due \/ now <= lastTraffic[u]
         /\ \E c \in live : Owner[c] = u /\ Owed(c) > 0

\* Every step keeps Past.
LEMMA PastStep == ASSUME TypeOK, Past, [Next]_vars PROVE Past'
<1>c. (collected <= now /\ committed <= now)'
  BY DEF Next, Carry, Collect, CollectFails, Report, Commit, Count, RestartCore, CrashAndLoad,
         Tick, Past, TypeOK, clock, dates, vars
<1> SUFFICES ASSUME NEW u \in User PROVE (lastSeen[u] <= now /\ lastTraffic[u] <= now)'
  BY <1>c DEF Past
<1>0. lastSeen[u] <= now /\ lastTraffic[u] <= now
  BY DEF Past
<1>t. now \in Nat /\ lastSeen[u] \in Nat \cup {Never} /\ lastTraffic[u] \in Nat \cup {Never}
  BY DEF TypeOK
<1>p. Pruned(lastSeen)[u] <= now
  BY <1>0, <1>t DEF Pruned, Never
<1>1. CASE \E c \in Counter, n \in 0 .. 1 : Carry(c, n)
  BY <1>0, <1>1, <1>t DEF Carry, clock, TypeOK
<1>2. CASE Collect \/ Count
  BY <1>0, <1>2, <1>p, <1>t DEF Collect, Count, clock
<1>3. CASE CollectFails \/ Report \/ Commit \/ RestartCore \/ UNCHANGED vars
  BY <1>0, <1>3 DEF CollectFails, Report, Commit, RestartCore, online, clock, vars
<1>4. CASE CrashAndLoad
  BY <1>0, <1>4, <1>t DEF CrashAndLoad, clock, Never
<1>5. CASE Tick
  BY <1>0, <1>5, <1>t DEF Tick, online, Never
<1> QED BY <1>1, <1>2, <1>3, <1>4, <1>5 DEF Next

\* Every step keeps Dated.
LEMMA DatedStep ==
  ASSUME TypeOK, TypeOK', Past, Dated, [Next]_vars
  PROVE  Dated'
<1> SUFFICES ASSUME NEW d \in Counter
             PROVE  (/\ Growth(d, cursor[d]) > 0 => committed <= lastTraffic[Owner[d]]
                     /\ phase # "idle" /\ Growth(d, pending[d]) > 0
                          => collected <= lastTraffic[Owner[d]])'
  BY DEF Dated
<1> DEFINE u == Owner[d]
<1>0. /\ Growth(d, cursor[d]) > 0 => committed <= lastTraffic[u]
      /\ phase # "idle" /\ Growth(d, pending[d]) > 0 => collected <= lastTraffic[u]
  BY DEF Dated
<1>t. /\ u \in User /\ now \in Nat /\ lastTraffic[u] \in Nat \cup {Never}
      /\ collected \in Nat /\ committed \in Nat /\ collected <= now /\ committed <= now
      /\ {value[d], cursor[d], pending[d], cursorFile[d]} \subseteq Nat
  BY CounterAssumption DEF TypeOK, Past
<1>1. ASSUME NEW c \in Counter, NEW n \in 0 .. 1, Carry(c, n)
      PROVE  (/\ Growth(d, cursor[d]) > 0 => committed <= lastTraffic[u]
              /\ phase # "idle" /\ Growth(d, pending[d]) > 0 => collected <= lastTraffic[u])'
  <2>1. UNCHANGED <<cursor, pending, phase, collected, committed>>
    BY <1>1 DEF Carry, ledger, dates
  <2>2. CASE lastTraffic'[u] = now
    BY <1>t, <2>1, <2>2
  <2>3. CASE lastTraffic'[u] # now
    <3>1. lastTraffic'[u] = lastTraffic[u] /\ value'[d] = value[d]
      BY <1>1, <1>t, <2>3 DEF Carry, TypeOK
    <3> QED BY <1>0, <2>1, <3>1 DEF Growth
  <2> QED BY <2>2, <2>3
<1>2. CASE Collect
  <2>1. /\ value'[d] = value[d] /\ cursor' = cursor /\ committed' = committed
        /\ pending'[d] = (IF d \in live THEN value[d] ELSE cursor[d])
        /\ lastTraffic' = lastTraffic /\ (d \notin live => value[d] = 0)
    BY <1>2 DEF Collect, stats, TypeOK
  <2>2. ~(value'[d] < pending'[d] /\ value'[d] > 0) /\ ~(value'[d] > pending'[d])
    BY <1>t, <2>1
  <2>3. ~(Growth(d, pending[d])' > 0)
    BY <1>t, <2>1, <2>2 DEF Growth
  <2> QED BY <1>0, <2>1, <2>3 DEF Growth
<1>3. CASE CollectFails \/ Count \/ Tick \/ UNCHANGED vars
  BY <1>0, <1>3 DEF CollectFails, Count, Tick, Growth, stats, ledger, online, dates, vars
<1>4. CASE Report
  <2>1. /\ phase = "report"
        /\ UNCHANGED <<value, cursor, pending, lastTraffic, collected, committed>>
    BY <1>4 DEF Report, stats, online, dates
  <2> QED BY <1>0, <2>1 DEF Growth
<1>5. CASE Commit
  <2>1. /\ phase = "commit" /\ phase' = "idle" /\ cursor' = pending /\ committed' = collected
        /\ UNCHANGED <<value, lastTraffic>>
    BY <1>5 DEF Commit, stats, online
  <2> QED BY <1>0, <2>1 DEF Growth
<1>6. CASE RestartCore \/ CrashAndLoad
  <2>1. value'[d] = 0 /\ cursor'[d] \in Nat /\ pending'[d] \in Nat
    BY <1>6 DEF RestartCore, CrashAndLoad, Zero, TypeOK
  <2> QED BY <2>1 DEF Growth
<1> QED BY <1>1, <1>2, <1>3, <1>4, <1>5, <1>6 DEF Next

\* Every step keeps Found.
LEMMA FoundStep ==
  ASSUME TypeOK, TypeOK', Past, Dated, Found, [Next]_vars
  PROVE  Found'
<1> SUFFICES ASSUME NEW u \in User, lastSeen'[u] # Never
             PROVE  foundSince'[u] \in Nat /\ foundSince'[u] <= lastTraffic'[u]
  BY DEF Found
<1>0. lastSeen[u] # Never => foundSince[u] \in Nat /\ foundSince[u] <= lastTraffic[u]
  BY DEF Found
<1>t. /\ now \in Nat /\ lastTraffic[u] \in Nat \cup {Never} /\ lastTraffic[u] <= now
      /\ committed \in Nat
  BY DEF TypeOK, Past
<1>p. Pruned(lastSeen)[u] \in {lastSeen[u], Never}
  BY DEF Pruned
<1>1. CASE \E c \in Counter, n \in 0 .. 1 : Carry(c, n)
  <2>1. /\ lastSeen'[u] = lastSeen[u] /\ foundSince'[u] = foundSince[u]
        /\ lastTraffic'[u] \in {lastTraffic[u], now}
    BY <1>1 DEF Carry, TypeOK, dates
  <2> QED BY <1>0, <1>t, <2>1 DEF Never
<1>2. CASE Collect
  <2>1. CASE \E c \in live : Owner[c] = u /\ Due(c) > 0
    <3>1. PICK c \in live : Owner[c] = u /\ Due(c) > 0
      BY <2>1
    <3>2. c \in Counter
      BY <3>1 DEF TypeOK
    <3>3. committed <= lastTraffic[u]
      BY <3>1, <3>2 DEF Dated, Due
    <3>4. foundSince'[u] = committed /\ lastTraffic'[u] = lastTraffic[u]
      BY <1>2, <2>1 DEF Collect
    <3> QED BY <1>t, <3>3, <3>4
  <2>2. CASE ~\E c \in live : Owner[c] = u /\ Due(c) > 0
    BY <1>0, <1>2, <1>p, <2>2 DEF Collect
  <2> QED BY <2>1, <2>2
<1>3. CASE Count
  BY <1>0, <1>3, <1>p DEF Count, dates
<1>4. CASE CollectFails \/ Report \/ Commit \/ RestartCore \/ Tick \/ UNCHANGED vars
  BY <1>0, <1>4 DEF CollectFails, Report, Commit, RestartCore, Tick, online, dates, vars
<1>5. CASE CrashAndLoad
  BY <1>5 DEF CrashAndLoad
<1> QED BY <1>1, <1>2, <1>3, <1>4, <1>5 DEF Next

\* OnlineMeansActive: whatever fails, restarts or delays the collections, whom Count
\* counts had traffic within the window and the time covered by the collection that
\* saw him, for any window.
THEOREM OnlineWasActive == Spec => []OnlineMeansActive
<1>1. Init => Past /\ Dated /\ Found
  BY DEF Init, Past, Dated, Found, Never, Growth, Zero
<1>2. IInv /\ IInv' /\ Past /\ Dated /\ Found /\ [Next]_vars => Past' /\ Dated' /\ Found'
  BY PastStep, DatedStep, FoundStep DEF IInv
<1>3. IInv /\ Found => OnlineMeansActive
  <2> SUFFICES ASSUME TypeOK, Found, NEW u \in Online
               PROVE  /\ lastTraffic[u] # Never
                      /\ now - lastTraffic[u] <= Window + (lastSeen[u] - foundSince[u])
    BY DEF IInv, OnlineMeansActive
  <2>1. u \in User /\ lastSeen[u] # Never /\ ~(lastSeen[u] < now - Window)
    BY DEF Online, Pruned
  <2>2. foundSince[u] \in Nat /\ foundSince[u] <= lastTraffic[u]
    BY <2>1 DEF Found
  <2>3. now \in Nat /\ lastSeen[u] \in Nat /\ lastTraffic[u] \in Nat \cup {Never}
    BY <2>1 DEF TypeOK
  <2> QED BY <2>1, <2>2, <2>3, BoundAssumption DEF Never
<1> QED BY <1>1, <1>2, <1>3, Invariance, PTL DEF Spec

\* What Noticed says of one subscription.
SeenOrOwed(u) ==
  \/ lastSeen[u] >= lastTraffic[u]
  \/ lastTraffic[u] < now - Window
  \/ /\ due \/ now <= lastTraffic[u]
     /\ \E c \in live : Owner[c] = u /\ Owed(c) > 0

\* Every step keeps Noticed.
LEMMA NoticedStep ==
  ASSUME TypeOK, TypeOK', Past, Whole, Noticed, [Next]_vars
  PROVE  Noticed'
<1> SUFFICES ASSUME met' \cap {"query", "restart", "crash"} = {}, NEW u \in User,
                    lastTraffic'[u] # Never
             PROVE  SeenOrOwed(u)'
  BY DEF Noticed, SeenOrOwed
<1>m. met \cap {"query", "restart", "crash"} = {}
  BY MetGrows
<1>0. lastTraffic[u] # Never => SeenOrOwed(u)
  BY <1>m DEF Noticed, SeenOrOwed
<1>t. /\ now \in Nat /\ lastTraffic[u] \in Nat \cup {Never} /\ lastSeen[u] \in Nat \cup {Never}
      /\ lastSeen[u] <= now /\ lastTraffic[u] <= now /\ Window \in Nat \ {0}
      /\ live \subseteq Counter
  BY BoundAssumption DEF TypeOK, Past
<1>w. \A c \in Counter :
        /\ cursor[c] \in Nat /\ pending[c] \in Nat /\ value[c] \in Nat
        /\ cursor[c] <= value[c]
        /\ phase # "idle" => cursor[c] <= pending[c] /\ pending[c] <= value[c]
  BY <1>m DEF Whole, TypeOK
<1>s. ASSUME lastTraffic[u] # Never,
             lastSeen[u] >= lastTraffic[u] \/ lastTraffic[u] < now - Window
      PROVE  Pruned(lastSeen)[u] >= lastTraffic[u] \/ lastTraffic[u] < now - Window
  BY <1>s, <1>t DEF Pruned, Never
<1>1. ASSUME NEW c \in Counter, NEW n \in 0 .. 1, Carry(c, n)
      PROVE  SeenOrOwed(u)'
  <2>1. /\ UNCHANGED <<cursor, pending, phase, now, due, lastSeen>> /\ live \subseteq live'
        /\ c \in live' /\ \A e \in Counter : value'[e] >= value[e]
    BY <1>1, <1>w DEF Carry, ledger, clock
  <2>2. CASE n = 1 /\ Owner[c] = u
    <3>1. lastTraffic'[u] = now /\ value'[c] = value[c] + 1
      BY <1>1, <2>2 DEF Carry, TypeOK
    <3>2. Owed(c)' > 0
      BY <1>w, <2>1, <3>1 DEF Owed, Growth
    <3> QED BY <1>t, <2>1, <2>2, <3>1, <3>2 DEF SeenOrOwed
  <2>3. CASE ~(n = 1 /\ Owner[c] = u)
    <3>1. lastTraffic'[u] = lastTraffic[u]
      BY <1>1, <2>3 DEF Carry, TypeOK
    <3>2. \A e \in live : Owed(e) > 0 => Owed(e)' > 0
      BY <1>t, <1>w, <2>1 DEF Owed, Growth, TypeOK
    <3> QED BY <1>0, <2>1, <3>1, <3>2 DEF SeenOrOwed
  <2> QED BY <2>2, <2>3
<1>2. CASE Collect
  <2>1. phase = "idle" /\ UNCHANGED <<lastTraffic, now>>
    BY <1>2 DEF Collect
  <2>2. CASE \E c \in live : Owner[c] = u /\ Due(c) > 0
    <3>1. lastSeen'[u] = now
      BY <1>2, <2>2 DEF Collect
    <3> QED BY <1>t, <2>1, <3>1 DEF SeenOrOwed
  <2>3. CASE ~\E c \in live : Owner[c] = u /\ Due(c) > 0
    <3>1. lastSeen'[u] = Pruned(lastSeen)[u]
      BY <1>2, <2>3 DEF Collect
    <3>2. ~\E c \in live : Owner[c] = u /\ Owed(c) > 0
      BY <2>1, <2>3 DEF Owed, Due
    <3> QED BY <1>0, <1>s, <2>1, <3>1, <3>2 DEF SeenOrOwed
  <2> QED BY <2>2, <2>3
<1>3. CASE Count
  <2>1. lastSeen'[u] = Pruned(lastSeen)[u]
        /\ UNCHANGED <<value, live, cursor, pending, phase, lastTraffic, now, due>>
    BY <1>3 DEF Count, stats, ledger, clock
  <2>2. \A c \in live : Owed(c)' = Owed(c)
    BY <2>1 DEF Owed, Growth
  <2> QED BY <1>0, <1>s, <2>1, <2>2 DEF SeenOrOwed
<1>4. CASE Report \/ Commit
  <2>1. UNCHANGED <<value, live, lastSeen, lastTraffic, now, due>>
    BY <1>4 DEF Report, Commit, stats, online, clock
  <2>2. /\ UNCHANGED pending
        /\ \/ phase = "report" /\ phase' = "commit"
           \/ phase = "report" /\ phase' = "idle" /\ cursor' = cursor
           \/ phase = "commit" /\ phase' = "idle" /\ cursor' = pending
    BY <1>4 DEF Report, Commit
  <2>3. \A c \in live : Owed(c) > 0 => Owed(c)' > 0
    BY <1>t, <1>w, <2>1, <2>2 DEF Owed, Growth
  <2> QED BY <1>0, <2>1, <2>3 DEF SeenOrOwed
<1>5. CASE CollectFails \/ RestartCore \/ CrashAndLoad
  BY <1>5 DEF CollectFails, RestartCore, CrashAndLoad, Fault
<1>6. CASE Tick
  <2>1. due' = TRUE /\ now' = now + 1
        /\ UNCHANGED <<value, live, cursor, pending, phase, lastSeen, lastTraffic>>
    BY <1>6 DEF Tick, stats, ledger, online
  <2>2. \A c \in live : Owed(c)' = Owed(c)
    BY <2>1 DEF Owed, Growth
  <2> QED BY <1>0, <1>t, <2>1, <2>2 DEF SeenOrOwed, Never
<1>7. CASE UNCHANGED vars
  <2>1. \A c \in live : Owed(c)' = Owed(c)
    BY <1>7 DEF vars, Owed, Growth
  <2> QED BY <1>0, <1>7, <2>1 DEF SeenOrOwed, vars
<1> QED BY <1>1, <1>2, <1>3, <1>4, <1>5, <1>6, <1>7 DEF Next

\* ActiveMeansOnline: while collections succeed and the core lives, whoever had
\* traffic within the window, before this interval, is counted, for any window and
\* however many reports and saves fail.
THEOREM ActiveIsOnline == Spec => []ActiveMeansOnline
<1>1. Init => Past /\ Whole /\ Noticed
  BY DEF Init, Past, Whole, Noticed, Never, Unreported, Due, Growth, Zero
<1>2. IInv /\ IInv' /\ Past /\ Whole /\ Noticed /\ [Next]_vars => Past' /\ Whole' /\ Noticed'
  BY PastStep, WholeStep, NoticedStep DEF IInv
<1>3. IInv /\ Past /\ Noticed => ActiveMeansOnline
  <2> SUFFICES ASSUME TypeOK, Noticed, met \cap {"query", "restart", "crash"} = {}, ~due,
                      NEW u \in User, lastTraffic[u] # Never, lastTraffic[u] < now,
                      now - lastTraffic[u] <= Window
               PROVE  u \in Online
    BY DEF IInv, ActiveMeansOnline
  <2>1. /\ now \in Nat /\ lastTraffic[u] \in Nat /\ lastSeen[u] \in Nat \cup {Never}
        /\ Window \in Nat
    BY BoundAssumption DEF TypeOK
  <2>2. lastSeen[u] >= lastTraffic[u]
    BY <2>1 DEF Noticed
  <2> QED BY <2>1, <2>2 DEF Online, Pruned, Never
<1> QED BY <1>1, <1>2, <1>3, Invariance, PTL DEF Spec

-----------------------------------------------------------------------------
(* The bill.                                                               *)

\* What a counter owes is never negative.
LEMMA UnreportedType ==
  ASSUME TypeOK, NEW c \in Counter
  PROVE  Unreported(c) \in Nat
<1>1. /\ {cursor[c], pending[c], deltas[c]} \subseteq Nat
      /\ phase \in {"idle", "report", "commit"}
  BY DEF TypeOK
<1>2. Growth(c, cursor[c]) \in Nat /\ Growth(c, pending[c]) \in Nat
  BY <1>1, GrowthType
<1> QED
  BY <1>1, <1>2 DEF Unreported, Due

\* Once a counter was cut off it stays so; only RestartCore and CrashAndLoad do it.
CutOff == met \cap {"restart", "crash"} # {}

\* A step that changes neither the bill nor what is owed is a stuttering step of it.
LEMMA BillStutters ==
  ASSUME UNCHANGED <<carried, billed, unacked>>, CutOff' = CutOff,
         \A c \in Counter : Unreported(c)' = Unreported(c)
  PROVE  UNCHANGED Bills!account
BY DEF Bills!account, CutOff

\* Traffic adds to the debt what is carried; after a reset, a counter that passes
\* its old cursor hides what it owed.
LEMMA CarryIsUse ==
  ASSUME TypeOK, TypeOK', Whole, NEW c \in Counter, NEW n \in 0 .. 1, Carry(c, n)
  PROVE  [Bills!Next]_(Bills!account)
<1>1. /\ value' = [value EXCEPT ![c] = @ + n] /\ carried' = [carried EXCEPT ![c] = @ + n]
      /\ UNCHANGED <<cursor, pending, deltas, phase, billed, unacked, met>>
  BY DEF Carry, ledger, server, trouble
<1>2. CutOff' = CutOff
  BY <1>1 DEF CutOff
<1>3. \A d \in Counter :
        /\ {value[d], carried[d], cursor[d], pending[d], deltas[d]} \subseteq Nat
        /\ value'[d] = (IF d = c THEN value[d] + n ELSE value[d])
        /\ carried'[d] = (IF d = c THEN carried[d] + n ELSE carried[d])
  BY <1>1 DEF TypeOK
<1>4. phase \in {"idle", "report", "commit"}
  BY DEF TypeOK
<1>5. \A d \in Counter \ {c} : Unreported(d)' = Unreported(d)
  BY <1>1, <1>3, <1>4 DEF Unreported, Due, Growth
<1>6. CASE n = 0
  <2>1. Unreported(c)' = Unreported(c)
    BY <1>1, <1>3, <1>4, <1>6 DEF Unreported, Due, Growth
  <2>2. carried' = carried
    BY <1>1, <1>6 DEF TypeOK
  <2> QED
    BY <1>1, <1>2, <1>5, <2>1, <2>2, BillStutters
<1>7. CASE n = 1
  <2>1. Unreported(c)' \in 0 .. Unreported(c) + 1
    BY <1>1, <1>3, <1>4, <1>7 DEF Unreported, Due, Growth
  <2>2. CutOff \/ Unreported(c)' = Unreported(c) + 1
    <3> SUFFICES ASSUME ~CutOff PROVE Unreported(c)' = Unreported(c) + 1
      OBVIOUS
    <3>1. cursor[c] <= value[c] /\ (phase # "idle" => pending[c] <= value[c])
      BY DEF Whole, CutOff
    <3> QED
      BY <1>1, <1>3, <1>4, <1>7, <3>1 DEF Unreported, Due, Growth
  <2>3. \A d \in Counter : Unreported(d) \in Nat
    BY UnreportedType
  <2>4. Bills!Use(c)
    BY <1>1, <1>2, <1>5, <1>7, <2>1, <2>2, <2>3 DEF Bills!Use, Bills!Owes, CutOff
  <2> QED
    BY <2>4 DEF Bills!Next
<1> QED
  BY <1>6, <1>7

\* Reading the counters moves what they owe into the deltas.
LEMMA CollectKeepsBill ==
  ASSUME TypeOK, Collect
  PROVE  UNCHANGED Bills!account
<1>1. /\ phase = "idle" /\ UNCHANGED <<value, carried, cursor, billed, unacked, met>>
  BY DEF Collect, NoFault, stats, server, trouble
<1>2. ASSUME NEW d \in Counter
      PROVE  Unreported(d)' = Unreported(d)
  <2>1. {value[d], cursor[d]} \subseteq Nat /\ (d \notin live => value[d] = 0)
    BY DEF TypeOK
  <2>2. Due(d) \in Nat
    BY <2>1, GrowthType DEF Due
  <2>3. /\ deltas'[d] = IF d \in live THEN Due(d) ELSE 0
        /\ pending'[d] = IF d \in live THEN value[d] ELSE cursor[d]
        /\ phase' \in {"report", "commit"}
        /\ phase' = "commit" /\ d \in live => Due(d) <= 0
    BY <2>2 DEF Collect
  <2> QED
    BY <1>1, <2>1, <2>2, <2>3 DEF Unreported, Due, Growth
<1> QED
  BY <1>1, <1>2, BillStutters DEF CutOff

\* A report bills its deltas, which are owed; only an answer takes them off.
LEMMA ReportIsBill ==
  ASSUME TypeOK, TypeOK', Snapshot, Whole, Report
  PROVE  [Bills!Next]_(Bills!account)
<1>1. phase = "report" /\ UNCHANGED <<value, carried, cursor, pending, deltas>>
  BY DEF Report, stats
<1>2. CutOff' = CutOff
  BY DEF Report, Fault, NoFault, trouble, CutOff
<1>3. \A d \in Counter :
        /\ {value[d], cursor[d], pending[d], deltas[d], billed[d], unacked[d]} \subseteq Nat
        /\ Growth(d, pending[d]) \in Nat /\ Growth(d, cursor[d]) \in Nat
        /\ Unreported(d) = deltas[d] + Growth(d, pending[d])
  <2> TAKE d \in Counter
  <2>1. {value[d], cursor[d], pending[d], deltas[d], billed[d], unacked[d]} \subseteq Nat
    BY DEF TypeOK
  <2> QED
    BY <1>1, <2>1, GrowthType DEF Unreported
<1>4. \A d \in Counter :
        /\ Growth(d, cursor[d]) <= Unreported(d)
        /\ CutOff \/ Growth(d, cursor[d]) = Unreported(d)
  <2> TAKE d \in Counter
  <2>1. Growth(d, cursor[d]) <= deltas[d] + Growth(d, pending[d])
    BY <1>1, <1>3 DEF Snapshot, Growth
  <2>2. ~CutOff => Growth(d, cursor[d]) = deltas[d] + Growth(d, pending[d])
    BY <1>1, <1>3 DEF Whole, CutOff, Growth
  <2> QED
    BY <1>3, <2>1, <2>2
<1>5. \A d \in Counter :
        /\ phase' = "commit" => Unreported(d)' = Growth(d, pending[d])
        /\ phase' = "idle" => Unreported(d)' = Growth(d, cursor[d])
  BY <1>1 DEF Unreported, Due, Growth
<1>6. CASE phase' = "commit" /\ UNCHANGED unacked
           /\ billed' = [c \in Counter |-> billed[c] + deltas[c]]
  <2>1. \A d \in Counter :
          /\ billed'[d] - billed[d] = deltas[d] /\ deltas[d] \in 0 .. Unreported(d)
          /\ Unreported(d)' \in 0 .. Unreported(d) - deltas[d]
          /\ Unreported(d)' = Unreported(d) - deltas[d]
    BY <1>3, <1>5, <1>6
  <2>2. Bills!Bill
    BY <1>1, <1>2, <1>6, <2>1 DEF Bills!Bill, Bills!Covered, Bills!Charge, Bills!Owes, CutOff
  <2> QED
    BY <2>2 DEF Bills!Next
<1>7. \A d \in Counter :
        phase' = "idle" =>
          /\ Unreported(d)' \in 0 .. Unreported(d)
          /\ CutOff \/ Unreported(d)' = Unreported(d)
  BY <1>3, <1>4, <1>5
<1>8. CASE /\ phase' = "idle"
           /\ billed' = [c \in Counter |-> billed[c] + deltas[c]]
           /\ unacked' = [c \in Counter |-> unacked[c] + deltas[c]]
  <2>1. \A d \in Counter :
          billed'[d] - billed[d] = deltas[d] /\ deltas[d] \in 0 .. Unreported(d)
    BY <1>3, <1>8
  <2>2. Bills!BillUnanswered
    BY <1>1, <1>2, <1>7, <1>8, <2>1
    DEF Bills!BillUnanswered, Bills!Covered, Bills!Charge, Bills!Owes, CutOff
  <2> QED
    BY <2>2 DEF Bills!Next
<1>9. CASE phase' = "idle" /\ UNCHANGED <<billed, unacked>>
  <2>1. CASE CutOff
    <3>1. Bills!Forgive
      BY <1>1, <1>2, <1>7, <1>9, <2>1 DEF Bills!Forgive, Bills!Owes, CutOff
    <3> QED
      BY <3>1 DEF Bills!Next
  <2>2. CASE ~CutOff
    BY <1>1, <1>2, <1>7, <1>9, <2>2, BillStutters
  <2> QED
    BY <2>1, <2>2
<1> QED
  BY <1>6, <1>8, <1>9 DEF Report, server

\* With the core goes all that was not collected.
LEMMA CutOffIsRestart ==
  ASSUME TypeOK, TypeOK', RestartCore \/ CrashAndLoad
  PROVE  Bills!CutOff
<1>1. /\ phase' = "idle" /\ value' = Zero /\ UNCHANGED <<carried, billed, unacked>>
  BY DEF RestartCore, CrashAndLoad, ledger, server
<1>2. CutOff'
  BY DEF RestartCore, CrashAndLoad, Fault, CutOff
<1>3. \A d \in Counter : Unreported(d)' = 0
  BY <1>1 DEF Unreported, Due, Growth, Zero, TypeOK
<1> QED
  BY <1>1, <1>2, <1>3 DEF Bills!CutOff, CutOff

\* Each step of reporting is a step of the bill, or none.
LEMMA BillStep ==
  ASSUME TypeOK, TypeOK', Snapshot, Whole, [Next]_vars
  PROVE  [Bills!Next]_(Bills!account)
<1>1. CASE \E c \in Counter, n \in 0 .. 1 : Carry(c, n)
  BY <1>1, CarryIsUse
<1>2. CASE Collect
  BY <1>2, CollectKeepsBill
<1>3. CASE Report
  BY <1>3, ReportIsBill
<1>4. CASE CollectFails \/ Count \/ Tick \/ UNCHANGED vars
  <2>1. UNCHANGED <<value, carried, cursor, pending, deltas, phase, billed, unacked>>
    BY <1>4 DEF CollectFails, Count, Tick, stats, ledger, server, vars
  <2>2. CutOff' = CutOff
    BY <1>4 DEF CollectFails, Count, Tick, Fault, trouble, vars, CutOff
  <2>3. \A d \in Counter : Unreported(d)' = Unreported(d)
    BY <2>1 DEF Unreported, Due, Growth
  <2> QED
    BY <2>1, <2>2, <2>3, BillStutters
<1>5. CASE Commit
  <2>1. UNCHANGED <<carried, billed, unacked>>
    BY <1>5 DEF Commit, stats, server
  <2>2. CutOff' = CutOff
    BY <1>5 DEF Commit, Fault, NoFault, trouble, CutOff
  <2>3. \A d \in Counter : Unreported(d)' = Unreported(d)
    BY <1>5 DEF Commit, Unreported, Due, Growth, stats
  <2> QED
    BY <2>1, <2>2, <2>3, BillStutters
<1>6. CASE RestartCore \/ CrashAndLoad
  BY <1>6, CutOffIsRestart DEF Bills!Next
<1> QED
  BY <1>1, <1>2, <1>3, <1>4, <1>5, <1>6 DEF Next

\* reportTraffic, Collect and Commit keep a bill: a report charges what is owed and
\* no more, a failed one takes nothing off the debt, and only the end of the core
\* ever forgives any.
THEOREM ImplementsBilling == Spec => RefinesBilling
<1>1. Init => Bills!Init
  <2> SUFFICES ASSUME Init PROVE Bills!Init
    OBVIOUS
  <2>1. \A c \in Counter : Unreported(c) = 0
    BY DEF Init, Unreported, Due, Growth, Zero
  <2> QED
    BY <2>1 DEF Init, Zero, Bills!Init
<1>2. Init => Whole
  BY DEF Init, Whole, Unreported, Due, Growth, Zero
<1>3. IInv /\ IInv' /\ Whole /\ [Next]_vars => Whole' /\ [Bills!Next]_(Bills!account)
  BY WholeStep, BillStep DEF IInv
<1> QED
  BY <1>1, <1>2, <1>3, Invariance, PTL DEF Spec, RefinesBilling, Bills!Spec

=============================================================================
