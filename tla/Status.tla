------------------------------- MODULE Status -------------------------------
(***************************************************************************)
(* What the server is told of an agent.  The collector                     *)
(* (src/internal/status/collector.go) turns the host's counters into a     *)
(* load; app.go marks what became of each pull, sends a report at once and *)
(* another on every tick of statusTicker; a report may be lost, or reach   *)
(* the server after the agent gave it up and sent newer ones.  The agent   *)
(* has its token: how it gets it is in Agent.                              *)
(*                                                                         *)
(* A percentage is kept as the fraction it is computed from, a record      *)
(* [part, whole]; 0 is [part |-> 0, whole |-> 1].  The counters of         *)
(* /proc/stat are unsigned and wrap at Width.  Run is one goroutine, so    *)
(* the agent's status does not change while a report is on its way.        *)
(***************************************************************************)
EXTENDS Integers, FiniteSets

CONSTANTS
  Width,       \* 2^64, the range of a counter
  MaxSize,     \* bound on the sizes of memory and disk
  Masked,      \* the readings this host never gives
  MaxVersion,  \* bound on the versions the server publishes
  MaxMarks,    \* bound on the changes of the agent's status
  MaxFaults,   \* bound on failed readings and calls, and on restarts
  None

Reading == {"cpu", "memory", "disk"}
Version == 1 .. MaxVersion
Counter == 0 .. Width - 1
Size == 0 .. MaxSize

Percent == [part : Nat, whole : Nat \ {0}]
Load == [cpu : Percent, memory : Percent, disk : Percent]
Ticked == [busy : Nat, rest : Nat, back : BOOLEAN]

ASSUME StatusAssumption ==
  /\ Width \in Nat /\ Width > 1 /\ MaxSize \in Nat
  /\ MaxVersion \in Nat /\ MaxMarks \in Nat /\ MaxFaults \in Nat
  /\ Masked \subseteq Reading /\ Masked # Reading
  /\ None \notin [total : Counter, idle : Counter] \cup Load \cup Ticked

VARIABLES
  total, idle,  \* the host's counters: all ticks, those in idle and iowait
  lastCPU,      \* c.lastCPU, None while not c.hasCPU
  since,        \* history: the ticks since lastCPU, [busy, rest, back]
  pc,           \* what the goroutine does
  booting,      \* Run has not reached its loop yet
  status,       \* [desired, applied, state, error]: of the application
  load,         \* the load in the report being sent, None when none is
  truth,        \* history: since, at the reading the load comes from
  view,         \* server: the status it last received
  late,         \* reports the agent gave up that may still arrive
  unseen,       \* history: something happened that the server was not told at once
  marks, budget \* changes and failures left

host == <<total, idle, lastCPU, since>>
sending == <<load, truth>>
vars == <<host, pc, booting, status, sending, view, late, unseen, marks, budget>>

Fault == budget > 0 /\ budget' = budget - 1

-----------------------------------------------------------------------------
(* The collector.                                                          *)

Zero == [part |-> 0, whole |-> 1]

\* Mutant: the difference of two counters is signed.
SignedMinus(a, b) == a - b

\* The difference of two unsigned counters.
Minus(a, b) == IF a >= b THEN a - b ELSE a - b + Width

\* cpuPercent, from the sample before.
CpuPercent(last) ==
  IF last = None THEN Zero
  ELSE LET totalDelta == Minus(total, last.total)
           idleDelta == Minus(idle, last.idle)
       IN IF totalDelta = 0 \/ idleDelta > totalDelta THEN Zero
          ELSE [part |-> totalDelta - idleDelta, whole |-> totalDelta]

\* memoryPercent and diskPercent.
Used(size, free) ==
  IF size = 0 \/ free > size THEN Zero ELSE [part |-> size - free, whole |-> size]

\* readMemInfo takes a zero for a line that is missing.
Percents(reading) ==
  {Used(size, free) : size \in IF reading = "memory" THEN Size \ {0} ELSE Size,
                      free \in IF reading = "memory" THEN Size \ {0} ELSE Size}

\* Mutant: a sample that gives no percentage is not kept.
SampleOnlyIfUsed(read) ==
  /\ \/ /\ "cpu" \in read
        /\ lastCPU' = IF lastCPU # None /\ CpuPercent(lastCPU) = Zero THEN lastCPU
                      ELSE [total |-> total, idle |-> idle]
        /\ since' = [busy |-> 0, rest |-> 0, back |-> FALSE]
     \/ "cpu" \notin read /\ UNCHANGED <<lastCPU, since>>
  /\ UNCHANGED <<total, idle>>

\* readCPUSample and c.lastCPU = current.  A reading that fails keeps the sample,
\* so that the next one covers both intervals.
Sample(read) ==
  /\ \/ /\ "cpu" \in read
        /\ lastCPU' = [total |-> total, idle |-> idle]
        /\ since' = [busy |-> 0, rest |-> 0, back |-> FALSE]
     \/ "cpu" \notin read /\ UNCHANGED <<lastCPU, since>>
  /\ UNCHANGED <<total, idle>>

\* The load that Collect returns.
Loads(read) ==
  [cpu : {IF "cpu" \in read THEN CpuPercent(lastCPU) ELSE Zero},
   memory : IF "memory" \in read THEN Percents("memory") ELSE {Zero},
   disk : IF "disk" \in read THEN Percents("disk") ELSE {Zero}]

-----------------------------------------------------------------------------
(* The host.  2^64 ticks do not pass between two samples.  Only a reading  *)
(* can tell when they happened: it is enough to let them, when one is due. *)

Up(counter) == IF counter = Width - 1 THEN 0 ELSE counter + 1
Down(counter) == IF counter = 0 THEN Width - 1 ELSE counter - 1
Ticks == since.busy + since.rest < Width - 1 /\ pc = "report"
HostOnly == UNCHANGED <<lastCPU, pc, booting, status, sending, view, late, unseen, marks, budget>>

Work ==
  /\ Ticks /\ total' = Up(total) /\ UNCHANGED idle
  /\ since' = [since EXCEPT !.busy = @ + 1]
  /\ HostOnly

Rest ==
  /\ Ticks /\ total' = Up(total) /\ idle' = Up(idle)
  /\ since' = [since EXCEPT !.rest = @ + 1]
  /\ HostOnly

\* The kernel may take back time it counted as waiting for I/O.
TakeBack ==
  /\ Ticks /\ total' = Down(total) /\ idle' = Down(idle)
  /\ since' = [since EXCEPT !.back = TRUE]
  /\ HostOnly

-----------------------------------------------------------------------------
(* The status and its reports.                                             *)

Applied(v) ==
  [desired |-> IF v = 0 THEN status.desired ELSE v,
   applied |-> IF v = 0 THEN status.applied ELSE v,
   state |-> "applied", error |-> None]

Failed(v) ==
  [desired |-> IF v = 0 THEN status.desired ELSE v,
   applied |-> status.applied, state |-> "failed", error |-> v]

Pending == [desired |-> 0, applied |-> 0, state |-> "pending", error |-> None]

Init ==
  /\ total \in Counter /\ idle \in Counter
  /\ lastCPU = None /\ since = [busy |-> 0, rest |-> 0, back |-> FALSE]
  /\ pc = "loop" /\ booting = TRUE /\ status = Pending
  /\ load = None /\ truth = None
  /\ view = None /\ late = {} /\ unseen = TRUE
  /\ marks = MaxMarks /\ budget = MaxFaults

Marked(new) ==
  /\ marks > 0 /\ marks' = marks - 1
  /\ status' = new
  /\ UNCHANGED <<host, sending, view, late, budget>>

\* Mutant: a failed configuration is left to the next tick.
ConfigReportsSuccess ==
  /\ pc = "loop"
  /\ \E v \in Version :
       \/ Marked(Applied(v)) /\ pc' = "report"
       \/ Marked(Failed(v)) /\ UNCHANGED pc
  /\ UNCHANGED <<booting, unseen>>

\* A configuration was applied or rejected, or its core started again.
ConfigDone ==
  /\ pc = "loop"
  /\ \E v \in Version : Marked(Applied(v)) \/ Marked(Failed(v))
  /\ pc' = "report"
  /\ UNCHANGED <<booting, unseen>>

\* Users were applied, which marks nothing, or could not be, which can only happen
\* beside a loaded configuration and is marked as a failure of its version.
UsersDone ==
  /\ pc = "loop"
  /\ \/ UNCHANGED <<host, status, sending, view, late, marks, budget>>
     \/ status.applied # 0 /\ Marked(Failed(status.applied))
  /\ pc' = "report"
  /\ UNCHANGED <<booting, unseen>>

\* Run starts what the files hold: the one mark that is not reported.
BootStarted ==
  /\ pc = "loop" /\ booting
  /\ Marked(Applied(0)) \/ Marked(Failed(0))
  /\ booting' = FALSE /\ unseen' = TRUE
  /\ UNCHANGED pc

\* The server went back to the version the agent has.
Unchanged ==
  /\ pc = "loop"
  /\ status.applied \notin {0, status.desired}
  /\ status' = [status EXCEPT !.desired = status.applied]
  /\ unseen' = TRUE
  /\ UNCHANGED <<host, pc, booting, sending, view, late, marks, budget>>

EnterLoop ==
  /\ pc = "loop" /\ booting /\ booting' = FALSE
  /\ UNCHANGED <<host, pc, status, sending, view, late, unseen, marks, budget>>

StatusTick ==
  /\ pc = "loop" /\ ~booting
  /\ pc' = "report"
  /\ UNCHANGED <<host, booting, status, sending, view, late, unseen, marks, budget>>

\* Mutant: one reading that fails fails the whole report.
CollectsNone(read) == read # Reading

\* Collect returns an error only when nothing could be read.
CollectFails(read) == read = {}

\* reportStatus: the load is collected, the status copied, the report sent.
Report ==
  /\ pc = "report"
  /\ \E read \in SUBSET (Reading \ Masked) :
       /\ IF read = Reading \ Masked THEN UNCHANGED budget ELSE Fault
       /\ \/ /\ CollectFails(read)
             /\ pc' = "loop" /\ unseen' = TRUE
             /\ UNCHANGED sending
          \/ /\ ~CollectFails(read)
             /\ load' \in Loads(read)
             /\ truth' = IF "cpu" \in read /\ lastCPU # None THEN since ELSE None
             /\ pc' = "sent" /\ UNCHANGED unseen
       /\ Sample(read)
  /\ UNCHANGED <<booting, status, view, late, marks>>

\* enrichStatusReport: what the report being sent tells, the status as it is.
Reported == status

Done == pc' = "loop" /\ load' = None /\ truth' = None

Answered ==
  /\ pc = "sent"
  /\ view' = Reported /\ unseen' = FALSE
  /\ Done
  /\ UNCHANGED <<host, booting, status, late, marks, budget>>

\* The call fails: the report is lost, or was received, or will be.
Unanswered ==
  /\ pc = "sent" /\ Fault
  /\ \/ UNCHANGED <<view, late>>
     \/ view' = Reported /\ UNCHANGED late
     \/ late' = late \cup {Reported} /\ UNCHANGED view
  /\ unseen' = TRUE
  /\ Done
  /\ UNCHANGED <<host, booting, status, marks>>

\* Server: nothing in a report tells when it was made.
ArrivesLate ==
  /\ \E old \in late : view' = old /\ late' = late \ {old}
  /\ unseen' = TRUE
  /\ UNCHANGED <<host, pc, booting, status, sending, marks, budget>>

\* The process ends; what it was sending may still arrive.
Restart ==
  /\ Fault
  /\ late' = IF pc = "sent" THEN late \cup {Reported} ELSE late
  /\ pc' = "loop" /\ booting' = TRUE /\ status' = Pending
  /\ load' = None /\ truth' = None
  /\ lastCPU' = None /\ since' = [busy |-> 0, rest |-> 0, back |-> FALSE]
  /\ unseen' = TRUE
  /\ UNCHANGED <<total, idle, view, marks>>

\* What the process does by itself whatever the server publishes.
Reporting == EnterLoop \/ StatusTick \/ Report \/ Answered

Next ==
  \/ Work \/ Rest \/ TakeBack
  \/ ConfigDone \/ UsersDone \/ BootStarted \/ Unchanged
  \/ Reporting \/ Unanswered \/ ArrivesLate \/ Restart

Spec == Init /\ [][Next]_vars

\* statusTicker goes on ticking, a report is sent and answered or fails, and boot
\* ends; neither the pulls nor the server have to do anything.
FairSpec == Spec /\ WF_vars(Reporting)

-----------------------------------------------------------------------------
(* Properties.                                                             *)

StatusType ==
  [desired : 0 .. MaxVersion, applied : 0 .. MaxVersion,
   state : {"pending", "applied", "failed"}, error : 0 .. MaxVersion \cup {None}]

\* The type of the variables; a load is there exactly while a report is sent.
TypeOK ==
  /\ total \in Counter /\ idle \in Counter
  /\ lastCPU \in [total : Counter, idle : Counter] \cup {None}
  /\ since \in Ticked
  /\ truth = None \/ truth \in Ticked
  /\ pc \in {"loop", "report", "sent"} /\ {booting, unseen} \subseteq BOOLEAN
  /\ status \in StatusType /\ view \in StatusType \cup {None} /\ late \subseteq StatusType
  /\ load = None \/ load \in Load
  /\ pc = "sent" <=> load # None
  /\ marks \in Nat /\ budget \in Nat

\* README.md:27, the load is reported: no percentage exceeds 100, and that of the
\* CPU is the exact share of busy ticks since the reading before, also when a
\* counter wrapped or readings in between failed.  When the kernel took ticks back
\* it is 0, or counts just the busy ones.
LoadIsTrue ==
  load # None =>
    /\ \A reading \in Reading : load[reading].part <= load[reading].whole
    /\ truth = None => load.cpu.part = 0
    /\ truth # None /\ ~truth.back /\ truth.busy + truth.rest > 0 =>
         load.cpu = [part |-> truth.busy, whole |-> truth.busy + truth.rest]
    /\ truth # None => load.cpu.part \in {0, truth.busy}

\* README.md:80, what became of an application is reported: between two reports
\* the server has the agent's status, with the error of a failure, unless the start
\* at boot or a return to the version at hand changed it, or a report went astray.
ChangesAreReported == pc = "loop" /\ ~unseen => view = status

\* However many reports were lost, overtaken or could not be made, the server ends
\* up with the status of the agent, and keeps it, once that stops changing.
EventuallySeen == <>[](view = status)

=============================================================================
