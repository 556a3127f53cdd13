---------------------------- MODULE StatusProofs ----------------------------
(***************************************************************************)
(* The load in a report is the truth, for counters of any width, any host, *)
(* any failures and restarts; and what a pull changes is reported.         *)
(*                                                                         *)
(* The share of busy ticks is computed from differences of unsigned        *)
(* counters.  What makes it exact is CountersAgree: these differences are  *)
(* the ticks since the last sample, as long as the kernel takes none back; *)
(* and if it does, they still differ by the busy ticks, up to a Width.     *)
(***************************************************************************)
EXTENDS Status, TLAPS

DT == Minus(total, lastCPU.total)
DI == Minus(idle, lastCPU.idle)

\* The strengthening: what the counters say about the ticks since the last sample.
CountersAgree ==
  lastCPU # None =>
    /\ since.busy \in {DT - DI, DT - DI + Width}
    /\ ~since.back => DT = since.busy + since.rest /\ DI = since.rest

IInv ==
  /\ TypeOK
  /\ since.busy + since.rest < Width
  /\ CountersAgree
  /\ LoadIsTrue

-----------------------------------------------------------------------------
(* Arithmetic of the counters.                                             *)

\* A difference of counters is a counter.
LEMMA MinusType == \A a, b \in Counter : Minus(a, b) \in Counter
  BY StatusAssumption DEF Minus, Counter

\* A step up or down of a counter moves its difference to a sample by one.
LEMMA MinusUp ==
  \A a, b \in Counter :
    /\ Up(a) \in Counter /\ Down(a) \in Counter
    /\ Minus(Up(a), b) \in {Minus(a, b) + 1, Minus(a, b) + 1 - Width}
    /\ Minus(a, b) < Width - 1 => Minus(Up(a), b) = Minus(a, b) + 1
    /\ Minus(Down(a), b) \in {Minus(a, b) - 1, Minus(a, b) - 1 + Width}
  BY StatusAssumption DEF Minus, Up, Down, Counter

\* A counter does not differ from itself.
LEMMA MinusSelf == \A a \in Counter : Minus(a, a) = 0
  BY StatusAssumption DEF Minus, Counter

\* What a reading of memory or disk gives is at most 100 percent.
LEMMA PercentsRange ==
  ASSUME NEW reading, NEW p \in Percents(reading)
  PROVE  p \in Percent /\ p.part <= p.whole
  BY StatusAssumption DEF Percents, Used, Zero, Size, Percent

\* The share of the CPU is at most 100 percent, and exact for the ticks counted.
LEMMA CpuPercentTrue ==
  ASSUME TypeOK, CountersAgree, since.busy + since.rest < Width
  PROVE  /\ CpuPercent(lastCPU) \in Percent
         /\ CpuPercent(lastCPU).part <= CpuPercent(lastCPU).whole
         /\ lastCPU = None => CpuPercent(lastCPU).part = 0
         /\ lastCPU # None => CpuPercent(lastCPU).part \in {0, since.busy}
         /\ lastCPU # None /\ ~since.back /\ since.busy + since.rest > 0 =>
              CpuPercent(lastCPU) = [part |-> since.busy, whole |-> since.busy + since.rest]
<1>1. CASE lastCPU = None
  BY <1>1 DEF CpuPercent, Zero, Percent
<1>2. CASE lastCPU # None
  <2>1. DT \in Counter /\ DI \in Counter /\ since.busy \in Nat /\ since.rest \in Nat
    BY <1>2, MinusType DEF TypeOK, DT, DI, Ticked
  <2>2. /\ since.busy \in {DT - DI, DT - DI + Width}
        /\ ~since.back => DT = since.busy + since.rest /\ DI = since.rest
    BY <1>2 DEF CountersAgree
  <2>3. CpuPercent(lastCPU) = IF DT = 0 \/ DI > DT THEN Zero
                              ELSE [part |-> DT - DI, whole |-> DT]
    BY <1>2 DEF CpuPercent, DT, DI
  <2>4. CASE DT = 0 \/ DI > DT
    BY <1>2, <2>1, <2>2, <2>3, <2>4, StatusAssumption DEF Zero, Percent, Counter
  <2>5. CASE ~(DT = 0 \/ DI > DT)
    <3>1. DT \in Nat /\ DI \in Nat /\ DT > 0 /\ DI <= DT /\ since.busy < Width
      BY <2>1, <2>5, StatusAssumption DEF Counter
    <3>2. since.busy = DT - DI
      BY <2>1, <2>2, <3>1, StatusAssumption DEF Counter
    <3> QED
      BY <1>2, <2>1, <2>2, <2>3, <2>5, <3>1, <3>2 DEF Percent
  <2> QED
    BY <2>4, <2>5
<1> QED
  BY <1>1, <1>2

-----------------------------------------------------------------------------
(* Preservation, for each group of actions.                                *)

\* The initial states satisfy the invariant.
LEMMA Initially == Init => IInv
<1> SUFFICES ASSUME Init PROVE IInv
  OBVIOUS
<1>1. TypeOK
  BY StatusAssumption DEF Init, TypeOK, Pending, StatusType, Ticked
<1> QED
  BY <1>1, StatusAssumption DEF Init, IInv, CountersAgree, LoadIsTrue

\* The host's ticks disturb only the counters.
LEMMA HostKeeps ==
  ASSUME IInv, Work \/ Rest \/ TakeBack
  PROVE  IInv'
<1> USE StatusAssumption
<1>1. /\ since \in Ticked /\ total \in Counter /\ idle \in Counter
      /\ lastCPU # None => lastCPU.total \in Counter /\ lastCPU.idle \in Counter
      /\ since.busy + since.rest < Width - 1
  BY DEF IInv, TypeOK, Work, Rest, TakeBack, Ticks, Ticked
<1>2. lastCPU' = lastCPU /\ LoadIsTrue'
  BY DEF IInv, LoadIsTrue, Work, Rest, TakeBack, HostOnly, sending
<1>3. /\ total' \in Counter /\ idle' \in Counter
      /\ since' \in Ticked /\ since'.busy + since'.rest < Width
  <2>1. /\ Up(total) \in Counter /\ Up(idle) \in Counter
        /\ Down(total) \in Counter /\ Down(idle) \in Counter
    BY <1>1, MinusUp
  <2>2. CASE Work
    BY <1>1, <2>1, <2>2 DEF Work, Ticked
  <2>3. CASE Rest
    BY <1>1, <2>1, <2>3 DEF Rest, Ticked
  <2>4. CASE TakeBack
    <3>1. since' = [busy |-> since.busy, rest |-> since.rest, back |-> TRUE]
      BY <1>1, <2>4 DEF TakeBack, Ticked
    <3>2. since.busy \in Nat /\ since.rest \in Nat
      BY <1>1 DEF Ticked
    <3>3. since' \in Ticked
      BY <3>1, <3>2 DEF Ticked
    <3> QED
      BY <1>1, <2>1, <2>4, <3>1, <3>2, <3>3 DEF TakeBack
  <2> QED
    BY <2>2, <2>3, <2>4
<1>4. TypeOK'
  BY <1>3 DEF IInv, TypeOK, Work, Rest, TakeBack, HostOnly, sending
<1>5. ASSUME lastCPU # None
      PROVE  /\ since'.busy \in {DT' - DI', DT' - DI' + Width}
             /\ ~since'.back => DT' = since'.busy + since'.rest /\ DI' = since'.rest
  <2>1. /\ DT \in Counter /\ DI \in Counter /\ DT' \in Counter /\ DI' \in Counter
        /\ since.busy \in {DT - DI, DT - DI + Width}
        /\ ~since.back => DT = since.busy + since.rest /\ DI = since.rest
        /\ since.busy \in Nat /\ since.rest \in Nat
    BY <1>1, <1>2, <1>3, <1>5, MinusType DEF DT, DI, IInv, CountersAgree, Ticked
  <2>2. CASE Work
    <3>1. /\ DI' = DI
          /\ DT' \in {DT + 1, DT + 1 - Width}
          /\ DT < Width - 1 => DT' = DT + 1
      BY <1>1, <1>2, <1>5, <2>2, MinusUp DEF Work, DT, DI
    <3>2. since'.busy = since.busy + 1 /\ since'.rest = since.rest /\ since'.back = since.back
      BY <1>1, <2>2 DEF Work, Ticked
    <3> QED
      BY <1>1, <2>1, <3>1, <3>2 DEF Counter
  <2>3. CASE Rest
    <3>1. /\ DT' \in {DT + 1, DT + 1 - Width} /\ DI' \in {DI + 1, DI + 1 - Width}
          /\ DT < Width - 1 => DT' = DT + 1
          /\ DI < Width - 1 => DI' = DI + 1
      BY <1>1, <1>2, <1>5, <2>3, MinusUp DEF Rest, DT, DI
    <3>2. since'.busy = since.busy /\ since'.rest = since.rest + 1 /\ since'.back = since.back
      BY <1>1, <2>3 DEF Rest, Ticked
    <3> QED
      BY <1>1, <2>1, <3>1, <3>2 DEF Counter
  <2>4. CASE TakeBack
    <3>1. /\ DT' \in {DT - 1, DT - 1 + Width} /\ DI' \in {DI - 1, DI - 1 + Width}
      BY <1>1, <1>2, <1>5, <2>4, MinusUp DEF TakeBack, DT, DI
    <3>2. since'.busy = since.busy /\ since'.back = TRUE
      BY <1>1, <2>4 DEF TakeBack, Ticked
    <3> QED
      BY <1>1, <2>1, <3>1, <3>2 DEF Counter
  <2> QED
    BY <2>2, <2>3, <2>4
<1>6. CountersAgree'
  BY <1>2, <1>5 DEF CountersAgree
<1> QED
  BY <1>2, <1>3, <1>4, <1>6 DEF IInv

\* A report reads the counters, and its load is true.
LEMMA ReportKeeps ==
  ASSUME IInv, Report
  PROVE  IInv'
<1> USE StatusAssumption
<1>1. PICK read \in SUBSET (Reading \ Masked) :
        /\ \/ /\ CollectFails(read)
              /\ pc' = "loop" /\ unseen' = TRUE
              /\ UNCHANGED sending
           \/ /\ ~CollectFails(read)
              /\ load' \in Loads(read)
              /\ truth' = IF "cpu" \in read /\ lastCPU # None THEN since ELSE None
              /\ pc' = "sent" /\ UNCHANGED unseen
        /\ Sample(read)
        /\ IF read = Reading \ Masked THEN UNCHANGED budget ELSE Fault
  BY DEF Report
<1>2. /\ pc = "report" /\ load = None
      /\ UNCHANGED <<booting, status, view, late, marks, total, idle>>
  BY <1>1 DEF Report, Sample, IInv, TypeOK
<1>3. budget' \in Nat
  BY <1>1 DEF Fault, IInv, TypeOK
<1>4. /\ lastCPU' \in [total : Counter, idle : Counter] \cup {None}
      /\ since' \in Ticked /\ since'.busy + since'.rest < Width
  <2>1. CASE "cpu" \in read
    <3>1. [busy |-> 0, rest |-> 0, back |-> FALSE] \in Ticked
      BY DEF Ticked
    <3>2. [total |-> total, idle |-> idle] \in [total : Counter, idle : Counter]
      BY DEF IInv, TypeOK
    <3>3. /\ lastCPU' = [total |-> total, idle |-> idle]
          /\ since' = [busy |-> 0, rest |-> 0, back |-> FALSE]
      BY <1>1, <2>1 DEF Sample
    <3> QED
      BY <3>1, <3>2, <3>3
  <2>2. CASE "cpu" \notin read
    BY <1>1, <2>2 DEF Sample, IInv, TypeOK
  <2> QED
    BY <2>1, <2>2
<1>5. CountersAgree'
  <2>1. CASE "cpu" \in read
    <3>1. /\ lastCPU' = [total |-> total, idle |-> idle]
          /\ since' = [busy |-> 0, rest |-> 0, back |-> FALSE]
      BY <1>1, <2>1 DEF Sample
    <3>2. DT' = 0 /\ DI' = 0
      BY <1>2, <3>1, MinusSelf DEF DT, DI, IInv, TypeOK
    <3> QED
      BY <3>1, <3>2 DEF CountersAgree
  <2>2. CASE "cpu" \notin read
    BY <1>1, <1>2, <2>2 DEF Sample, CountersAgree, DT, DI, IInv
  <2> QED
    BY <2>1, <2>2
<1>6. CASE CollectFails(read)
  <2>1. pc' = "loop" /\ unseen' = TRUE /\ load' = None /\ truth' = truth
    BY <1>1, <1>2, <1>6 DEF sending
  <2>2. TypeOK'
    BY <1>2, <1>3, <1>4, <2>1 DEF IInv, TypeOK
  <2> QED
    BY <1>4, <1>5, <2>1, <2>2 DEF IInv, LoadIsTrue
<1>7. CASE ~CollectFails(read)
  <2>1. /\ load' \in Loads(read) /\ pc' = "sent" /\ unseen' = unseen
        /\ truth' = IF "cpu" \in read /\ lastCPU # None THEN since ELSE None
    BY <1>1, <1>7
  <2>2. /\ load'.cpu = IF "cpu" \in read THEN CpuPercent(lastCPU) ELSE Zero
        /\ load'.memory \in Percents("memory") \cup {Zero}
        /\ load'.disk \in Percents("disk") \cup {Zero}
        /\ load' = [cpu |-> load'.cpu, memory |-> load'.memory, disk |-> load'.disk]
    BY <2>1 DEF Loads
  <2>3. Zero \in Percent /\ Zero.part = 0 /\ Zero.whole = 1
    BY DEF Zero, Percent
  <2>4. /\ load'.memory \in Percent /\ load'.memory.part <= load'.memory.whole
        /\ load'.disk \in Percent /\ load'.disk.part <= load'.disk.whole
    BY <2>2, <2>3, PercentsRange
  <2>5. /\ CpuPercent(lastCPU) \in Percent
        /\ CpuPercent(lastCPU).part <= CpuPercent(lastCPU).whole
        /\ lastCPU = None => CpuPercent(lastCPU).part = 0
        /\ lastCPU # None => CpuPercent(lastCPU).part \in {0, since.busy}
        /\ lastCPU # None /\ ~since.back /\ since.busy + since.rest > 0 =>
             CpuPercent(lastCPU) = [part |-> since.busy, whole |-> since.busy + since.rest]
    BY CpuPercentTrue DEF IInv
  <2>6. load'.cpu \in Percent /\ load'.cpu.part <= load'.cpu.whole
    BY <2>2, <2>3, <2>5
  <2>7. load' \in Load /\ load' # None
    BY <2>2, <2>4, <2>6 DEF Load
  <2>8. TypeOK'
    BY <1>2, <1>3, <1>4, <2>1, <2>7 DEF IInv, TypeOK
  <2>9. since # None
    BY DEF IInv, TypeOK
  <2>10. LoadIsTrue'
    <3>1. load'.cpu.part <= load'.cpu.whole
      BY <2>6
    <3>2. \A reading \in Reading : load'[reading].part <= load'[reading].whole
      BY <2>4, <3>1 DEF Reading
    <3>3. CASE "cpu" \in read /\ lastCPU # None
      BY <2>1, <2>2, <2>5, <2>9, <3>2, <3>3 DEF LoadIsTrue
    <3>4. CASE ~("cpu" \in read /\ lastCPU # None)
      BY <2>1, <2>2, <2>3, <2>5, <3>2, <3>4 DEF LoadIsTrue
    <3> QED
      BY <3>3, <3>4
  <2> QED
    BY <1>4, <1>5, <2>8, <2>10 DEF IInv
<1> QED
  BY <1>6, <1>7

\* A marking changes the status alone.
LEMMA StatusTyped ==
  ASSUME TypeOK, NEW v \in Version \cup {0}
  PROVE  Applied(v) \in StatusType /\ Failed(v) \in StatusType
  BY StatusAssumption DEF TypeOK, Applied, Failed, StatusType, Version

\* The other steps leave the host and its sample alone, or forget the sample.
LEMMA OthersKeep ==
  ASSUME IInv,
         \/ ConfigDone \/ UsersDone \/ BootStarted \/ Unchanged
         \/ EnterLoop \/ StatusTick \/ Answered \/ Unanswered \/ ArrivesLate
  PROVE  IInv'
<1> USE StatusAssumption
<1>1. UNCHANGED host /\ (UNCHANGED sending \/ (load' = None /\ truth' = None))
  BY DEF ConfigDone, UsersDone, BootStarted, Unchanged, Marked, EnterLoop, StatusTick,
         Answered, Unanswered, ArrivesLate, Done
<1>2. since'.busy + since'.rest < Width /\ CountersAgree'
  BY <1>1 DEF IInv, host, CountersAgree, DT, DI
<1>3. LoadIsTrue'
  <2>1. CASE UNCHANGED sending
    BY <2>1 DEF IInv, sending, LoadIsTrue
  <2>2. CASE load' = None /\ truth' = None
    BY <2>2 DEF LoadIsTrue
  <2> QED
    BY <1>1, <2>1, <2>2
<1>4. TypeOK'
  <2> USE DEF IInv, TypeOK, host, sending
  <2>1. CASE ConfigDone
    BY <2>1, StatusTyped DEF ConfigDone, Marked
  <2>2. CASE UsersDone
    <3>1. status.applied \in Version \cup {0}
      BY DEF StatusType, Version
    <3> QED
      BY <2>2, <3>1, StatusTyped DEF UsersDone, Marked
  <2>3. CASE BootStarted
    <3>1. Applied(0) \in StatusType /\ Failed(0) \in StatusType
      BY StatusTyped
    <3> QED
      <4>1. status' \in StatusType /\ marks' \in Nat
        BY <2>3, <3>1 DEF BootStarted, Marked
      <4> QED
        BY <2>3, <4>1 DEF BootStarted, Marked
  <2>4. CASE Unchanged
    <3>1. [status EXCEPT !.desired = status.applied] \in StatusType
      BY DEF StatusType
    <3> QED
      BY <2>4, <3>1 DEF Unchanged, Marked
  <2>5. CASE EnterLoop \/ StatusTick
    BY <2>5 DEF EnterLoop, StatusTick
  <2>6. CASE Answered
    BY <2>6 DEF Answered, Done, Reported
  <2>7. CASE Unanswered
    BY <2>7 DEF Unanswered, Done, Fault, Reported
  <2>8. CASE ArrivesLate
    BY <2>8 DEF ArrivesLate
  <2> QED
    BY <2>1, <2>2, <2>3, <2>4, <2>5, <2>6, <2>7, <2>8
<1> QED
  BY <1>2, <1>3, <1>4 DEF IInv

\* A restart forgets the sample and the report.
LEMMA RestartKeeps ==
  ASSUME IInv, Restart
  PROVE  IInv'
<1>1. TypeOK'
  BY StatusAssumption DEF IInv, TypeOK, Restart, Fault, Reported, Pending, StatusType, Ticked
<1> QED
  BY <1>1, StatusAssumption DEF IInv, Restart, CountersAgree, LoadIsTrue

\* Every step keeps the invariant.
LEMMA Inductive == IInv /\ [Next]_vars => IInv'
<1> SUFFICES ASSUME IInv, [Next]_vars PROVE IInv'
  OBVIOUS
<1>1. CASE Next
  BY <1>1, HostKeeps, ReportKeeps, OthersKeep, RestartKeeps DEF Next, Reporting
<1>2. CASE UNCHANGED vars
  BY <1>2 DEF vars, host, sending, IInv, TypeOK, CountersAgree, DT, DI, LoadIsTrue
<1> QED
  BY <1>1, <1>2

-----------------------------------------------------------------------------
\* The types of all variables, for hosts of any kind and any faults; in particular
\* no difference of counters and no percentage is negative.
THEOREM TypeCorrect == Spec => []TypeOK
<1>1. IInv => TypeOK
  BY DEF IInv
<1> QED
  BY <1>1, Initially, Inductive, PTL DEF Spec

\* The reported load is true at any width of the counters, across wraps, readings
\* that fail and ticks that are taken back (cpuPercent).
THEOREM LoadTrue == Spec => []LoadIsTrue
<1>1. IInv => LoadIsTrue
  BY DEF IInv
<1> QED
  BY <1>1, Initially, Inductive, PTL DEF Spec

\* What a pull changes is with the server before the agent does anything else,
\* unless a report went astray (reportStatusBestEffort).
THEOREM ChangesReported == Spec => []ChangesAreReported
<1>1. Init => ChangesAreReported
  BY DEF Init, ChangesAreReported
<1>2. ChangesAreReported /\ [Next]_vars => ChangesAreReported'
  BY DEF ChangesAreReported, Next, vars, Work, Rest, TakeBack, HostOnly, Ticks, ConfigDone,
         UsersDone, BootStarted, Unchanged, Marked, Reporting, EnterLoop, StatusTick,
         Report, Answered, Unanswered, ArrivesLate, Restart, Done, Reported
<1> QED
  BY <1>1, <1>2, PTL DEF Spec

=============================================================================
