------------------------- MODULE XrayRuntimeProofs -------------------------
(***************************************************************************)
(* Proofs about XrayRuntime, for every configuration set, account table    *)
(* and number of faults.  The inductive invariant says what each step of   *)
(* a call may rely on (CallShape), where the content of the files comes    *)
(* from (Provenance) and, while nothing is torn, that instance, memory and *)
(* files move together (InStep).                                           *)
(***************************************************************************)
EXTENDS XrayRuntime, TLAPS

\* What holds of the call in progress at each of its steps.
CallShape ==
  /\ pc # "idle" => arg \in Config
  /\ pc = "validate" => op = "apply"
  /\ pc \in {"restart", "fallback", "restore"} => op \in {"apply", "start"}
  /\ pc \in {"write_current", "write_good"} => op \in {"apply", "sync"}
  /\ pc = "hot_sync" => /\ op = "sync" /\ instance # None
                        /\ users # None /\ Extract(arg) # None
  /\ pc = "restore" => /\ lastGood # None /\ instance = lastGood
                       /\ lastGood \in served \ Malformed /\ users = Extract(lastGood)
  /\ pc = "restart" => /\ op = "apply" => arg = current
                       /\ op = "start" => arg = IF current = None THEN lastGood ELSE current
  /\ pc = "write_current" => /\ op = "sync" => instance # None
                             /\ op = "apply" /\ ValidateConfig => arg \notin Malformed
  /\ pc = "write_good" => /\ arg = current
                          /\ instance # None
                          /\ op = "apply" => /\ instance = arg /\ users = Extract(arg)
                                             /\ arg \in served \ Malformed

\* Some instance has served the base of c.
BaseServed(c) == \E d \in served : d.base = c.base

\* What is in last_good, or on its way there, has a base that was served.
Provenance ==
  /\ instance \in Config => instance \in served
  /\ lastGood # None => BaseServed(lastGood)
  /\ pc \in {"hot_sync", "write_current"} /\ op = "sync" => BaseServed(arg)
  /\ pc = "write_good" => BaseServed(arg)

\* The two steps of SyncUsers after the hot change, before memory follows.
Syncing == op = "sync" /\ pc \in {"write_current", "write_good"}

\* Instance, memory and files while nothing is torn.
InStep ==
  /\ instance # None => instance \in served \ Malformed
  /\ instance # None /\ ~Syncing => users = Extract(instance)
  /\ pc = "hot_sync" => instance.base = arg.base
  /\ Syncing => instance = arg
  /\ lastGood # None => lastGood \in served \ Malformed
  /\ ValidateConfig => current \notin Malformed

\* An instance is lost only to a failed start, and changed only by what succeeds
\* or by the fallback to last_good.
Kept ==
  before # None =>
    /\ "start" \notin failed => instance # None
    /\ failed \subseteq {"build", "fallback"} =>
         /\ op = "apply" /\ pc \in {"validate", "write_current", "restart", "fallback"}
              => instance = before
         /\ op \in {"apply", "sync"} /\ pc = "idle" /\ ret = "err"
              => instance \in {before, lastGood}

IInv ==
  /\ TypeOK /\ CallShape /\ Provenance
  /\ (~Torn => InStep) /\ Kept /\ OkMeansServed

-----------------------------------------------------------------------------
(* Operators.                                                              *)

\* extractDynamicInboundUsers returns a table or nothing.
LEMMA ExtractType ==
  ASSUME NEW c \in Config
  PROVE  Extract(c) \in Table \cup {None}
BY ConfigAssumption DEF Extract, Served

\* What the core holds after a hot change, complete or not, is a table.
LEMMA PatchType ==
  ASSUME NEW t \in Table, NEW new \in Table, NEW R \in SUBSET Slot, NEW A \in SUBSET Slot
  PROVE  Patch(t, R, A, new) \in Table
BY DEF Patch, Table

\* diffDynamicInboundUsers is complete: removing and adding exactly what it
\* returns turns the old table into the new one.
LEMMA DiffComplete ==
  ASSUME NEW old \in Table, NEW new \in Table
  PROVE  Patch(old, Removals(old, new), Additions(old, new), new) = new
<1>1. ASSUME NEW s \in Slot
      PROVE  Patch(old, Removals(old, new), Additions(old, new), new)[s] = new[s]
  BY DEF Patch, Removals, Additions
<1>2. Patch(old, Removals(old, new), Additions(old, new), new) \in Table
  BY PatchType DEF Removals, Additions
<1> QED
  BY <1>1, <1>2 DEF Table

\* Constants: configurations are records of a base and a table, None is neither.
LEMMA ConfigFacts ==
  /\ Config \subseteq Served
  /\ \A c \in Served : c.base \in Base /\ c.users \in Table /\ c # None
  /\ Malformed \subseteq Config
  /\ None \notin Config /\ None \notin Table
BY ConfigAssumption, NoneAssumption DEF Served

-----------------------------------------------------------------------------
(* Type correctness.                                                       *)

\* The initial state satisfies the type invariant.
LEMMA TypeInit == Init => TypeOK
BY BoundAssumption DEF Init, TypeOK, Step, Tearing

\* A fault keeps the budget in its range.
LEMMA FaultType ==
  ASSUME TypeOK, \/ UNCHANGED budget
                 \/ \E k \in FaultKind : Fault(k)
  PROVE  budget' \in 0 .. MaxFaults
BY BoundAssumption DEF TypeOK, Fault

\* A hot change, complete or not, keeps the types.
LEMMA HotSyncType ==
  ASSUME TypeOK, CallShape, HotSync
  PROVE  TypeOK' /\ instance' # None /\ instance'.base = instance.base
<1> DEFINE rem == Removals(users, arg.users)
           add == Additions(users, arg.users)
           Reached(R, A) == [instance EXCEPT !.users = Patch(instance.users, R, A, arg.users)]
<1>1. arg \in Config /\ arg.users \in Table /\ instance \in Served /\ instance.users \in Table
  BY ConfigFacts DEF HotSync, CallShape, TypeOK
<1>2. ASSUME NEW R \in SUBSET rem, NEW A \in SUBSET add
      PROVE  Reached(R, A) \in Served
  <2>1. Patch(instance.users, R, A, arg.users) \in Table
    BY <1>1, PatchType DEF Removals, Additions
  <2> QED
    BY <1>1, <2>1 DEF Served
<1>3. PICK R \in SUBSET rem, A \in SUBSET add :
         instance' = Reached(R, A) /\ served' = served \cup ({Reached(R, A)} \cap Config)
  BY DEF HotSync
<1>4. /\ instance' \in Served /\ instance' # None /\ instance'.base = instance.base
      /\ served' \subseteq Config
  BY <1>1, <1>2, <1>3, ConfigFacts DEF TypeOK, Served
<1>5. /\ budget' \in 0 .. MaxFaults
      /\ failed' \subseteq {"build", "start"} \cup Tearing
  BY FaultType DEF TypeOK, Calm, Note, Tearing, HotSync, NoFault, FaultKind
<1>6. pc' \in Step /\ ret' \in {"none", "ok", "err"}
  BY DEF HotSync, Goto, Return, TypeOK, Step
<1> QED
  BY <1>4, <1>5, <1>6 DEF HotSync, TypeOK, files, call

\* Every step keeps the types.
LEMMA TypeStep ==
  ASSUME TypeOK, CallShape, [Next]_vars
  PROVE  TypeOK'
<1> USE DEF Calm, Note, Tearing, FallbackFailed
<1>1. CASE \E c \in Config : CallApply(c)
  BY <1>1 DEF CallApply, Enter, core, files, TypeOK, Step
<1>2. CASE \E c \in Config : CallSync(c)
  BY <1>2 DEF CallSync, SyncCall, Enter, Return, core, files, TypeOK, Step
<1>3. CASE CallStart
  BY <1>3 DEF CallStart, StartCall, Enter, Return, core, files, TypeOK, Step
<1>4. CASE Validate
  BY <1>4, FaultType DEF Validate, Builds, BuildFails, NoFault, FaultKind, Goto, Return, core, files, call, TypeOK, Step
<1>5. CASE WriteCurrent
  BY <1>5, FaultType, ConfigFacts DEF WriteCurrent, NoFault, FaultKind, Goto, Return, core, call, CallShape, TypeOK, Step
<1>6. CASE Restart
  BY <1>6, FaultType, ExtractType, ConfigFacts DEF Restart, Builds, BuildFails, Launch, LaunchFails, NoFault, FaultKind, Goto, Return, core, files, call, CallShape, TypeOK, Step
<1>7. CASE Fallback
  BY <1>7, FaultType, ExtractType, ConfigFacts DEF Fallback, Builds, BuildFails, Launch, LaunchFails, NoFault, FaultKind, Goto, Return, core, files, call, CallShape, TypeOK, Step
<1>8. CASE RestoreCurrent
  BY <1>8, FaultType DEF RestoreCurrent, NoFault, FaultKind, Goto, Return, core, call, TypeOK, Step
<1>9. CASE WriteLastGood
  BY <1>9, FaultType, ExtractType DEF WriteLastGood, NoFault, FaultKind, Goto, Return, call, CallShape, TypeOK, Step
<1>10. CASE HotSync
  BY <1>10, HotSyncType
<1>11. CASE RestoreFile
  BY <1>11 DEF RestoreFile, core, call, TypeOK
<1>12. CASE Crash
  BY <1>12, FaultType DEF Crash, FaultKind, TypeOK, Step
<1>13. CASE FaultElsewhere
  BY <1>13, FaultType DEF FaultElsewhere, FaultKind, core, files, call, TypeOK
<1>14. CASE UNCHANGED vars
  BY <1>14 DEF vars, TypeOK
<1> QED
  BY <1>1, <1>2, <1>3, <1>4, <1>5, <1>6, <1>7, <1>8, <1>9, <1>10, <1>11, <1>12, <1>13, <1>14 DEF Next

-----------------------------------------------------------------------------
(* The call in progress.                                                   *)

\* Every step leaves the call in a shape the following steps rely on.
LEMMA ShapeStep ==
  ASSUME TypeOK, CallShape, [Next]_vars
  PROVE  CallShape'
<1>1. CASE \E c \in Config : CallApply(c)
  BY <1>1 DEF CallApply, Enter, CallShape
<1>2. CASE \E c \in Config : CallSync(c)
  BY <1>2 DEF CallSync, SyncAllowed, SyncCall, Enter, Return, core, Extract, CallShape
<1>3. CASE CallStart
  BY <1>3, ConfigFacts DEF CallStart, StartCall, Enter, Return, files, CallShape, TypeOK
<1>4. CASE Validate
  BY <1>4 DEF Validate, Builds, Goto, Return, core, files, call, CallShape
<1>5. CASE WriteCurrent
  BY <1>5 DEF WriteCurrent, Goto, Return, core, call, CallShape, TypeOK
<1>6. CASE Restart
  BY <1>6, ConfigFacts DEF Restart, Builds, Launch, Goto, Return, files, call, Extract, CallShape
<1>7. CASE Fallback
  BY <1>7 DEF Fallback, Builds, Launch, Goto, Return, files, call, Extract, CallShape
<1>8. CASE RestoreCurrent
  BY <1>8 DEF RestoreCurrent, Return, CallShape
<1>9. CASE WriteLastGood
  BY <1>9 DEF WriteLastGood, Return, CallShape
<1>10. CASE HotSync
  BY <1>10, HotSyncType DEF HotSync, Goto, Return, call, CallShape
<1>11. CASE RestoreFile
  BY <1>11 DEF RestoreFile, CallShape
<1>12. CASE Crash
  BY <1>12 DEF Crash, CallShape
<1>13. CASE FaultElsewhere
  BY <1>13 DEF FaultElsewhere, CallShape
<1>14. CASE UNCHANGED vars
  BY <1>14 DEF vars, Extract, CallShape
<1> QED
  BY <1>1, <1>2, <1>3, <1>4, <1>5, <1>6, <1>7, <1>8, <1>9, <1>10, <1>11, <1>12, <1>13, <1>14 DEF Next

-----------------------------------------------------------------------------
(* Where the content of last_good comes from.                              *)

\* Served configurations are never forgotten.
LEMMA ServedGrows ==
  ASSUME [Next]_vars
  PROVE  served \subseteq served'
BY DEF Next, CallApply, CallSync, SyncCall, CallStart, StartCall, Enter, Validate, WriteCurrent,
       Restart, Fallback, RestoreCurrent, WriteLastGood, HotSync, RestoreFile, Crash,
       FaultElsewhere, Launch, LaunchFails, core, vars

\* Every step keeps the origin of last_good.
LEMMA ProvenanceStep ==
  ASSUME TypeOK, CallShape, Provenance, [Next]_vars
  PROVE  Provenance'
<1> USE ServedGrows
<1>1. CASE \E c \in Config : CallApply(c)
  BY <1>1 DEF CallApply, Enter, core, files, Provenance, BaseServed
<1>2. CASE \E c \in Config : CallSync(c)
  BY <1>2 DEF CallSync, SyncAllowed, SyncCall, Enter, Return, core, files, Provenance, BaseServed
<1>3. CASE CallStart
  BY <1>3 DEF CallStart, StartCall, Enter, Return, core, files, Provenance, BaseServed
<1>4. CASE Validate
  BY <1>4 DEF Validate, Goto, Return, core, files, call, CallShape, Provenance, BaseServed
<1>5. CASE WriteCurrent
  BY <1>5 DEF WriteCurrent, Goto, Return, core, call, CallShape, Provenance, BaseServed
<1>6. CASE Restart
  BY <1>6, ConfigFacts DEF Restart, Builds, Launch, LaunchFails, Goto, Return, core, files, call, CallShape, Provenance, BaseServed
<1>7. CASE Fallback
  BY <1>7, ConfigFacts DEF Fallback, Launch, LaunchFails, Goto, Return, core, files, call, CallShape, Provenance, BaseServed
<1>8. CASE RestoreCurrent
  BY <1>8 DEF RestoreCurrent, Return, core, call, Provenance, BaseServed
<1>9. CASE WriteLastGood
  BY <1>9 DEF WriteLastGood, Return, call, Provenance, BaseServed
<1>10. CASE HotSync
  BY <1>10 DEF HotSync, Goto, Return, files, call, Provenance, BaseServed
<1>11. CASE RestoreFile
  BY <1>11 DEF RestoreFile, core, call, Provenance, BaseServed
<1>12. CASE Crash
  BY <1>12, ConfigFacts DEF Crash, Provenance, BaseServed
<1>13. CASE FaultElsewhere
  BY <1>13 DEF FaultElsewhere, core, files, call, Provenance, BaseServed
<1>14. CASE UNCHANGED vars
  BY <1>14 DEF vars, Provenance, BaseServed
<1> QED
  BY <1>1, <1>2, <1>3, <1>4, <1>5, <1>6, <1>7, <1>8, <1>9, <1>10, <1>11, <1>12, <1>13, <1>14 DEF Next

\* An instance is lost only to a start that failed, or with the process.
LEMMA KeptStep ==
  ASSUME TypeOK, CallShape, Kept, [Next]_vars
  PROVE  Kept'
<1> USE DEF Calm, Note, Tearing, FallbackFailed, CallShape
<1>1. CASE \E c \in Config : CallApply(c)
  BY <1>1 DEF CallApply, Enter, core, files, Kept
<1>2. CASE \E c \in Config : CallSync(c)
  BY <1>2 DEF CallSync, SyncCall, Enter, Return, core, files, Kept
<1>3. CASE CallStart
  BY <1>3 DEF CallStart, StartCall, Enter, Return, core, files, Kept
<1>4. CASE Validate
  BY <1>4 DEF Validate, Builds, BuildFails, Goto, Return, core, files, call, Kept
<1>5. CASE WriteCurrent
  BY <1>5 DEF WriteCurrent, Goto, Return, core, call, Kept
<1>6. CASE Restart
  BY <1>6, ConfigFacts DEF Restart, Builds, BuildFails, Launch, LaunchFails, Goto, Return, core, files, call, Kept
<1>7. CASE Fallback
  BY <1>7, ConfigFacts DEF Fallback, Builds, BuildFails, Launch, LaunchFails, Goto, Return, core, files, call, TypeOK, Kept
<1>8. CASE RestoreCurrent
  BY <1>8 DEF RestoreCurrent, Return, core, call, Kept
<1>9. CASE WriteLastGood
  BY <1>9 DEF WriteLastGood, Return, call, Kept
<1>10. CASE HotSync
  BY <1>10, HotSyncType DEF HotSync, Goto, Return, files, call, Kept
<1>11. CASE RestoreFile
  BY <1>11 DEF RestoreFile, core, call, Kept
<1>12. CASE Crash
  BY <1>12 DEF Crash, Kept
<1>13. CASE FaultElsewhere
  BY <1>13 DEF FaultElsewhere, core, files, call, Kept
<1>14. CASE UNCHANGED vars
  BY <1>14 DEF vars, Kept
<1> QED
  BY <1>1, <1>2, <1>3, <1>4, <1>5, <1>6, <1>7, <1>8, <1>9, <1>10, <1>11, <1>12, <1>13, <1>14 DEF Next

-----------------------------------------------------------------------------
(* While nothing is torn.                                                  *)

\* A hot change that starts from a runtime in step either reaches exactly the
\* configuration asked for, and the core builds it, or tears the runtime.
LEMMA HotSyncWhole ==
  ASSUME TypeOK, CallShape, InStep, HotSync, ~Torn'
  PROVE  /\ instance' = arg /\ arg \in served' \ Malformed
         /\ pc' = "write_current"
<1> DEFINE rem == Removals(users, arg.users)
           add == Additions(users, arg.users)
<1>1. /\ arg \in Config /\ instance \in Config \ Malformed
      /\ users = instance.users /\ arg.base = instance.base
  BY DEF HotSync, CallShape, InStep, Syncing, Extract, TypeOK
<1>2. arg.users \in Table /\ instance.users \in Table
  BY <1>1, ConfigFacts
<1>3. /\ instance' = [instance EXCEPT !.users = Patch(instance.users, rem, add, arg.users)]
      /\ served' = served \cup ({instance'} \cap Config)
      /\ pc' = "write_current"
      /\ arg \in Malformed => add = {}
  BY <1>1 DEF HotSync, Goto, Note, Torn, Tearing
<1>4. Patch(instance.users, rem, add, arg.users) = arg.users
  BY <1>1, <1>2, DiffComplete
<1>5. instance' = arg
  BY <1>1, <1>3, <1>4, ConfigFacts DEF Served
<1>6. ASSUME arg \in Malformed PROVE FALSE
  <2>1. \A s \in Slot : arg.users[s] \in {None, instance.users[s]}
    BY <1>1, <1>3, <1>6 DEF Additions
  <2> QED
    BY <1>1, <1>6, <2>1, FewerAccountsAssumption
<1> QED
  BY <1>1, <1>3, <1>5, <1>6

\* Every step that leaves nothing torn leaves instance, memory and files in step.
LEMMA InStepStep ==
  ASSUME TypeOK, CallShape, Provenance, ~Torn => InStep, [Next]_vars, ~Torn'
  PROVE  InStep'
<1> USE ServedGrows DEF Torn, Tearing, Calm, Note
<1>1. CASE \E c \in Config : CallApply(c)
  BY <1>1 DEF CallApply, Enter, core, files, InStep, Syncing
<1>2. CASE \E c \in Config : CallSync(c)
  BY <1>2 DEF CallSync, SyncAllowed, SyncCall, Enter, Return, core, files, InStep, Syncing
<1>3. CASE CallStart
  BY <1>3 DEF CallStart, StartCall, Enter, Return, core, files, InStep, Syncing
<1>4. CASE Validate
  BY <1>4 DEF Validate, Builds, BuildFails, Goto, Return, core, files, call, CallShape, InStep, Syncing
<1>5. CASE WriteCurrent
  BY <1>5 DEF WriteCurrent, Goto, Return, core, call, CallShape, InStep, Syncing
<1>6. CASE Restart
  BY <1>6 DEF Restart, Builds, BuildFails, Launch, LaunchFails, Goto, Return, core, files, call, CallShape, InStep, Syncing, Extract
<1>7. CASE Fallback
  BY <1>7 DEF Fallback, Builds, BuildFails, Launch, LaunchFails, Goto, Return, core, files, call, CallShape, TypeOK, InStep, Syncing, Extract
<1>8. CASE RestoreCurrent
  BY <1>8 DEF RestoreCurrent, Return, core, call, CallShape, InStep, Syncing, Extract
<1>9. CASE WriteLastGood
  BY <1>9 DEF WriteLastGood, Return, call, CallShape, Provenance, InStep, Syncing, Extract
<1>10. CASE HotSync
  <2>1. ~Torn
    BY <1>10 DEF HotSync
  <2> QED
    BY <1>10, <2>1, HotSyncWhole DEF HotSync, files, call, CallShape, InStep, Syncing
<1>11. CASE RestoreFile
  BY <1>11 DEF RestoreFile, core, call, InStep, Syncing
<1>12. CASE Crash
  BY <1>12, ConfigFacts DEF Crash, InStep, Syncing
<1>13. CASE FaultElsewhere
  BY <1>13 DEF FaultElsewhere, core, files, call, InStep, Syncing
<1>14. CASE UNCHANGED vars
  BY <1>14 DEF vars, InStep, Syncing, Extract
<1> QED
  BY <1>1, <1>2, <1>3, <1>4, <1>5, <1>6, <1>7, <1>8, <1>9, <1>10, <1>11, <1>12, <1>13, <1>14 DEF Next

-----------------------------------------------------------------------------
(* What success means.                                                     *)

\* Every step keeps what the last successful call established.
LEMMA OkStep ==
  ASSUME TypeOK, CallShape, ~Torn => InStep, OkMeansServed, [Next]_vars
  PROVE  OkMeansServed'
<1>1. CASE \E c \in Config : CallApply(c)
  BY <1>1 DEF CallApply, Enter, OkMeansServed
<1>2. CASE \E c \in Config : CallSync(c)
  BY <1>2 DEF CallSync, SyncCall, Enter, Return, OkMeansServed
<1>3. CASE CallStart
  BY <1>3 DEF CallStart, StartCall, Enter, Return, OkMeansServed
<1>4. CASE Validate
  BY <1>4 DEF Validate, Goto, Return, OkMeansServed
<1>5. CASE WriteCurrent
  BY <1>5 DEF WriteCurrent, Goto, Return, OkMeansServed
<1>6. CASE Restart
  BY <1>6 DEF Restart, Launch, Goto, Return, files, call, CallShape, OkMeansServed
<1>7. CASE Fallback
  BY <1>7 DEF Fallback, Goto, Return, OkMeansServed
<1>8. CASE RestoreCurrent
  BY <1>8 DEF RestoreCurrent, Return, core, call, CallShape, OkMeansServed
<1>9. CASE WriteLastGood
  BY <1>9 DEF WriteLastGood, Return, call, CallShape, InStep, Syncing, OkMeansServed, Torn, Tearing, Extract
<1>10. CASE HotSync
  BY <1>10 DEF HotSync, Goto, Return, OkMeansServed
<1>11. CASE RestoreFile
  BY <1>11 DEF RestoreFile, core, call, OkMeansServed, Torn, Tearing, Extract
<1>12. CASE Crash
  BY <1>12 DEF Crash, OkMeansServed
<1>13. CASE FaultElsewhere
  BY <1>13 DEF FaultElsewhere, core, files, call, OkMeansServed, Torn, Tearing, Extract
<1>14. CASE UNCHANGED vars
  BY <1>14 DEF vars, OkMeansServed, Torn, Tearing, Extract
<1> QED
  BY <1>1, <1>2, <1>3, <1>4, <1>5, <1>6, <1>7, <1>8, <1>9, <1>10, <1>11, <1>12, <1>13, <1>14 DEF Next

-----------------------------------------------------------------------------
(* The inductive invariant.                                                *)

\* Every initial state satisfies the inductive invariant.
LEMMA IInvInit == Init => IInv
<1> SUFFICES ASSUME Init PROVE IInv
  OBVIOUS
<1>1. TypeOK
  BY TypeInit
<1>2. CallShape /\ Provenance /\ InStep /\ Kept /\ OkMeansServed
  BY ConfigFacts DEF Init, Torn, CallShape, Provenance, InStep, Syncing, Kept, OkMeansServed
<1> QED
  BY <1>1, <1>2 DEF IInv

\* Every step keeps the inductive invariant.
LEMMA IInvStep == IInv /\ [Next]_vars => IInv'
<1> SUFFICES ASSUME IInv, [Next]_vars PROVE IInv'
  OBVIOUS
<1>1. (~Torn)' => InStep'
  BY InStepStep DEF IInv
<1> QED
  BY <1>1, TypeStep, ShapeStep, ProvenanceStep, KeptStep, OkStep DEF IInv

\* The inductive invariant holds in every reachable state.
LEMMA Invariance == Spec => []IInv
BY IInvInit, IInvStep, PTL DEF Spec

\* Type correctness of runtime.go's state at every step of every call.
THEOREM TypeCorrect == Spec => []TypeOK
<1>1. IInv => TypeOK
  BY DEF IInv
<1> QED
  BY <1>1, Invariance, PTL

\* README.md:72.  For any configurations, faults and crashes, last_good holds a
\* configuration whose base was served; unless a hot change or a write was cut
\* half-way, it was served with exactly its accounts and the core builds it.
THEOREM LastGoodIsServed == Spec => []LastGoodWasServed
<1>1. IInv => LastGoodWasServed
  BY DEF IInv, Provenance, BaseServed, InStep, LastGoodWasServed
<1> QED
  BY <1>1, Invariance, PTL

\* README.md:80.  While cores start, a failed Apply or SyncUsers never leaves the
\* agent without a running core, however many builds, writes and changes fail; when
\* only builds fail, what ran before or last_good runs after.
THEOREM FailureNeverStops == Spec => []FailureKeepsService
<1>1. IInv => FailureKeepsService
  BY DEF IInv, Kept, FailureKeepsService
<1> QED
  BY <1>1, Invariance, PTL

\* r.users is the truth about the running core until something is torn, so the
\* next diff of SyncUsers starts from what is really there.
THEOREM MemoryIsTruth == Spec => []RememberedUsersMatch
<1>1. IInv => RememberedUsersMatch
  BY DEF IInv, InStep, Syncing, RememberedUsersMatch
<1> QED
  BY <1>1, Invariance, PTL

\* What Apply, Start and SyncUsers promise when they return nil: Apply's promise
\* holds after any faults, SyncUsers' only when nothing was torn before.
THEOREM SuccessIsServed == Spec => []OkMeansServed
<1>1. IInv => OkMeansServed
  BY DEF IInv
<1> QED
  BY <1>1, Invariance, PTL

-----------------------------------------------------------------------------
(* Steps.                                                                  *)

\* Only WriteLastGood changes last_good.
LEMMA OnlyOneWriter ==
  ASSUME [Next]_vars, lastGood' # lastGood
  PROVE  WriteLastGood
BY DEF Next, CallApply, CallSync, SyncCall, CallStart, StartCall, Enter, Validate, WriteCurrent,
       Restart, Fallback, RestoreCurrent, WriteLastGood, HotSync, RestoreFile, Crash,
       FaultElsewhere, files, vars

\* README.md:80.  With validation the current file, from which an agent without its
\* server starts, is never one the core refuses to build.
THEOREM CurrentBuilds == Spec => []CurrentIsBuildable
<1>1. IInv => CurrentIsBuildable
  BY DEF IInv, InStep, CurrentIsBuildable
<1> QED
  BY <1>1, Invariance, PTL

\* last_good moves only to what is being served at that moment.
THEOREM PromotionIsServed == Spec => PromoteOnlyServed
<1>1. ASSUME IInv, [Next]_vars
      PROVE  [lastGood' # lastGood => instance # None /\ (~Torn => lastGood' = instance)]_vars
  <2> SUFFICES ASSUME lastGood' # lastGood
               PROVE  instance # None /\ (~Torn => lastGood' = instance)
    OBVIOUS
  <2>1. WriteLastGood
    BY <1>1, OnlyOneWriter
  <2> QED
    BY <1>1, <2>1 DEF WriteLastGood, IInv, CallShape, InStep, Syncing
<1> QED
  BY <1>1, Invariance, PTL DEF Spec, PromoteOnlyServed

-----------------------------------------------------------------------------
(* The two-slot store.                                                     *)

\* Each step of the runtime is a step of the abstract store, or none.
LEMMA SlotStep ==
  ASSUME IInv, [Next]_vars
  PROVE  [Slots!Next]_(Slots!slots)
<1> USE DEF Slots!slots, Torn, Tearing, Calm, Note
<1>a. TypeOK /\ CallShape /\ (~Torn => InStep)
  BY DEF IInv
<1>b. ASSUME instance \in Served, instance' \in Served, instance'.base = instance.base,
             Torn', UNCHANGED files
      PROVE  Slots!Tear
  BY <1>b, ConfigFacts DEF Slots!Tear, files
<1>1. CASE \E c \in Config : CallApply(c)
  BY <1>1 DEF CallApply, Enter, core, files
<1>2. CASE \E c \in Config : CallSync(c)
  BY <1>2 DEF CallSync, SyncCall, Enter, core, files
<1>3. CASE CallStart
  BY <1>3 DEF CallStart, StartCall, Enter, core, files
<1>4. CASE Validate
  BY <1>4 DEF Validate, Builds, BuildFails, core, files
<1>5. CASE WriteCurrent
  <2>1. CASE current' = arg /\ Calm
    <3>1. arg \in Served /\ Slots!Submit(arg)
      BY <1>5, <1>a, <2>1, ConfigFacts DEF WriteCurrent, core, CallShape, Slots!Submit
    <3> QED
      BY <3>1 DEF Slots!Next
  <2>2. CASE op = "apply" /\ UNCHANGED current /\ Calm
    BY <1>5, <2>2 DEF WriteCurrent, core
  <2>3. CASE op = "sync" /\ UNCHANGED current /\ Note({"disk"})
    <3>1. Slots!Tear
      BY <1>5, <1>a, <1>b, <2>3 DEF WriteCurrent, core, files, CallShape, TypeOK
    <3> QED
      BY <3>1 DEF Slots!Next
  <2> QED
    BY <1>5, <1>a, <2>1, <2>2, <2>3 DEF WriteCurrent, CallShape
<1>6. CASE Restart
  <2>1. Torn' = Torn
    BY <1>6 DEF Restart, Builds, BuildFails, LaunchFails
  <2>2. Slots!Adopt \/ Slots!Revert \/ Slots!Halt \/ UNCHANGED Slots!slots
    BY <1>6, <1>a, <2>1, ConfigFacts
       DEF Restart, Launch, LaunchFails, core, files, CallShape, Slots!Adopt, Slots!Revert, Slots!Halt
  <2> QED
    BY <2>2 DEF Slots!Next
<1>7. CASE Fallback
  <2>1. CASE lastGood # None /\ Builds(lastGood) /\ Launch(lastGood)
    <3>1. Slots!Revert
      BY <1>7, <2>1 DEF Fallback, Builds, Launch, files, Slots!Revert
    <3> QED
      BY <3>1 DEF Slots!Next
  <2>2. CASE ~(lastGood # None /\ Builds(lastGood) /\ Launch(lastGood))
    <3>1. instance' \in {instance, None} /\ UNCHANGED files
      BY <1>7, <2>2 DEF Fallback, LaunchFails, core
    <3>2. Torn' \/ (Torn' = Torn)
      BY <1>7, <2>2 DEF Fallback, BuildFails, LaunchFails, FallbackFailed
    <3>3. CASE Torn'
      BY <3>1, <3>3 DEF files, Slots!Tear, Slots!Next
    <3>4. CASE Torn' = Torn
      BY <3>1, <3>4 DEF files, Slots!Halt, Slots!Next
    <3> QED
      BY <3>2, <3>3, <3>4
  <2> QED
    BY <2>1, <2>2
<1>8. CASE RestoreCurrent
  <2>1. CASE current' = lastGood /\ failed' = failed \ Tearing
    <3>1. Slots!Discard
      BY <1>8, <1>a, <2>1 DEF RestoreCurrent, core, CallShape, Slots!Discard, Slots!Mend
    <3> QED
      BY <3>1 DEF Slots!Next
  <2>2. CASE UNCHANGED current /\ Note({"disk"})
    <3>1. Slots!Tear
      BY <1>8, <1>a, <1>b, <2>2 DEF RestoreCurrent, core, files, CallShape, TypeOK
    <3> QED
      BY <3>1 DEF Slots!Next
  <2> QED
    BY <1>8, <2>1, <2>2 DEF RestoreCurrent
<1>9. CASE WriteLastGood
  <2>1. CASE lastGood' = arg /\ failed' = IF instance = arg /\ arg \notin Malformed THEN {} ELSE failed
    <3>1. Slots!Promote
      BY <1>9, <1>a, <2>1, ConfigFacts
         DEF WriteLastGood, CallShape, InStep, Syncing, Slots!Promote, Slots!Mend
    <3> QED
      BY <3>1 DEF Slots!Next
  <2>2. CASE UNCHANGED lastGood /\ Note({"disk"})
    <3>1. Slots!Tear
      BY <1>9, <1>a, <1>b, <2>2 DEF WriteLastGood, files, CallShape, TypeOK
    <3> QED
      BY <3>1 DEF Slots!Next
  <2> QED
    BY <1>9, <2>1, <2>2 DEF WriteLastGood
<1>10. CASE HotSync
  <2>1. /\ instance \in Served /\ instance' \in Served /\ instance' # None
        /\ instance # None /\ instance'.base = instance.base
    BY <1>10, <1>a, HotSyncType DEF CallShape, HotSync, TypeOK
  <2>2. CASE Calm
    <3>1. Slots!HotChange(instance')
      BY <1>10, <2>1, <2>2 DEF HotSync, files, Slots!HotChange
    <3> QED
      BY <2>1, <3>1 DEF Slots!Next
  <2>3. CASE Note({"sync"})
    <3>1. Slots!Tear
      BY <1>10, <1>b, <2>1, <2>3 DEF HotSync
    <3> QED
      BY <3>1 DEF Slots!Next
  <2> QED
    BY <1>10, <2>2, <2>3 DEF HotSync
<1>11. CASE RestoreFile
  <2>1. Slots!Discard
    BY <1>11 DEF RestoreFile, core, Slots!Discard, Slots!Mend
  <2> QED
    BY <2>1 DEF Slots!Next
<1>12. CASE Crash
  <2>1. Slots!Halt \/ Slots!Lose
    BY <1>12 DEF Crash, Slots!Halt, Slots!Lose
  <2> QED
    BY <2>1 DEF Slots!Next
<1>13. CASE FaultElsewhere
  BY <1>13 DEF FaultElsewhere, core, files
<1>14. CASE UNCHANGED vars
  BY <1>14 DEF vars
<1> QED
  BY <1>1, <1>2, <1>3, <1>4, <1>5, <1>6, <1>7, <1>8, <1>9, <1>10, <1>11, <1>12, <1>13, <1>14 DEF Next

\* runtime.go and user_sync.go implement the two-slot store, whatever fails:
\* last_good only ever receives the current configuration while a core runs, and
\* exactly what the core serves unless a change was cut half-way.
THEOREM ImplementsTwoSlots == Spec => RefinesTwoSlots
<1>1. Init => Slots!Init
  BY DEF Init, Torn, Tearing, Slots!Init
<1>2. IInv /\ [Next]_vars => [Slots!Next]_(Slots!slots)
  BY SlotStep
<1> QED
  BY <1>1, <1>2, Invariance, PTL DEF Spec, RefinesTwoSlots, Slots!Spec

=============================================================================
