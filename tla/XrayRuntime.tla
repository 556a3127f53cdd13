---------------------------- MODULE XrayRuntime ----------------------------
(***************************************************************************)
(* The agent's hold on the embedded Xray core: xray.Runtime and its hot    *)
(* user synchronisation (src/internal/xray/runtime.go and user_sync.go).   *)
(*                                                                         *)
(* A runtime configuration is a record [base, users]: base is everything   *)
(* the server's JSON says except the accounts, users the account table the *)
(* agent injects into it, one entry per inbound tag and e-mail (a Slot).   *)
(* The two configuration files survive a crash; the instance and the       *)
(* remembered users do not.  One goroutine calls Apply, SyncUsers and      *)
(* Start, so calls do not overlap, but each call is a sequence of steps a  *)
(* crash may cut.  Every failure of the world outside consumes one of      *)
(* MaxFaults faults; Faults says which kinds may happen at all.            *)
(***************************************************************************)
EXTENDS Naturals

CONSTANTS
  Base,             \* configurations without their accounts
  Managed,          \* bases with tagged inbounds whose users can be changed hot
  Slot,             \* inbound tag and e-mail
  SlotsOf,          \* the slots of each base's inbounds
  Account,          \* what an e-mail may be bound to (the user's fingerprint)
  Config,           \* the configurations the agent may render
  Malformed,        \* those the core refuses to build
  Undecodable,      \* the malformed ones whose users cannot even be extracted
  ValidateConfig,   \* cfg.ValidateConfig
  Faults,           \* the kinds of failure that may happen
  MaxFaults,        \* bound on the number of failures
  None

Table == [Slot -> Account \cup {None}]
Served == [base : Base, users : Table]
\* The last three are faults of the world around the runtime: the current file
\* lost while the process is down, a failed call to the server, a failed download.
FaultKind == {"build", "start", "sync", "disk", "crash", "lost", "rpc", "geodata"}

ASSUME NoneAssumption == None \notin Served /\ None \notin Table /\ None \notin Account
ASSUME BaseAssumption == Managed \subseteq Base /\ SlotsOf \in [Base -> SUBSET Slot]
ASSUME ConfigAssumption ==
  /\ Config \subseteq Served
  /\ \A c \in Config, s \in Slot : s \notin SlotsOf[c.base] => c.users[s] = None
  /\ Malformed \subseteq Config /\ Undecodable \subseteq Malformed
\* External: what the core builds, it also builds with fewer accounts.
ASSUME FewerAccountsAssumption ==
  \A c \in Config \ Malformed, d \in Config :
    d.base = c.base /\ (\A s \in Slot : d.users[s] \in {None, c.users[s]}) => d \notin Malformed
ASSUME BoundAssumption ==
  /\ ValidateConfig \in BOOLEAN
  /\ Faults \subseteq FaultKind
  /\ MaxFaults \in Nat

VARIABLES
  instance,   \* r.instance: what the running core serves, or None
  users,      \* r.users: the remembered account table, None when not supported
  current,    \* contents of cfg.ConfigPath, None when missing
  lastGood,   \* contents of cfg.LastGoodPath, None when missing
  pc,         \* the step the current call has reached
  op, arg,    \* the call: "apply", "start" or "sync", and its configuration
  before,     \* history: the instance when the call began
  ret,        \* what the last call returned
  served,     \* history: the configurations an instance has served
  failed,     \* history: what went wrong since instance and files last agreed
  budget      \* failures left

core == <<instance, users, served>>
files == <<current, lastGood>>
call == <<op, arg, before>>
vars == <<instance, users, current, lastGood, pc, op, arg, before, ret, served,
          failed, budget>>

Step == {"idle", "validate", "write_current", "restart", "fallback", "restore",
         "hot_sync", "write_good"}

-----------------------------------------------------------------------------
(* Operators over configurations.                                          *)

\* r.users after extractDynamicInboundUsers: None stands for an error or for
\* a configuration without a tagged inbound of a protocol with user management.
Extract(c) == IF c.base \in Managed /\ c \notin Undecodable THEN c.users ELSE None

\* diffDynamicInboundUsers: slots to clear and slots to bind.  A slot whose
\* account changed is in both.
Removals(old, new) == {s \in Slot : old[s] # None /\ old[s] # new[s]}
\* Mutant: an account that changed is removed but not added again.
AddOnlyAbsent(old, new) == {s \in Slot : new[s] # None /\ old[s] = None}
Additions(old, new) == {s \in Slot : new[s] # None /\ old[s] # new[s]}

\* The table of the running core after R was removed and then A added.
Patch(table, R, A, new) ==
  [s \in Slot |-> IF s \in A THEN new[s] ELSE IF s \in R THEN None ELSE table[s]]

\* The core accepts the change to a slot only if the inbound exists.
Known(S) == S \subseteq SlotsOf[instance.base]

\* The core may refuse (external) to remove what is absent or to add what is present.
Disputed(R, A) ==
  \/ \E s \in R : instance.users[s] = None
  \/ \E s \in A \ R : instance.users[s] # None

-----------------------------------------------------------------------------
(* Outcomes shared by the steps.                                           *)

Fault(kind) == kind \in Faults /\ budget > 0 /\ budget' = budget - 1
NoFault == UNCHANGED budget

\* Ghost bookkeeping of failed.  Torn: a hot change or a write was cut half-way, or an
\* Apply could not even fall back, and nothing has brought instance, memory and files
\* together since.
Calm == UNCHANGED failed
Note(kinds) == failed' = failed \cup kinds
Tearing == {"sync", "disk", "fallback"}
Torn == failed \cap Tearing # {}

\* newInstance: LoadJSONConfig and core.New.
Builds(c) == c \notin Malformed /\ NoFault /\ Calm
BuildFails(c, kinds) == \/ c \in Malformed /\ NoFault /\ Note(kinds)
                        \/ c \notin Malformed /\ Fault("build") /\ Note({"build"} \cup kinds)

Goto(step) == pc' = step /\ UNCHANGED ret
Return(result) == pc' = "idle" /\ ret' = result

\* Mutant: a restart does not refresh r.users.
LaunchForgetsUsers(c) ==
  instance' = c /\ served' = served \cup {c} /\ UNCHANGED users

\* The tail of restart: stop the old instance, start the new one and remember
\* its users.  A failed start leaves no instance, but r.users untouched.
Launch(c) ==
  /\ instance' = c
  /\ users' = Extract(c)
  /\ served' = served \cup {c}
LaunchFails(c, kinds) ==
  /\ c \notin Malformed
  /\ Fault("start") /\ Note({"start"} \cup kinds)
  /\ instance' = None
  /\ UNCHANGED <<users, served>>

-----------------------------------------------------------------------------
Init ==
  /\ instance = None /\ users = None
  /\ current = None /\ lastGood = None
  /\ pc = "idle" /\ op = "none" /\ arg = None /\ before = None /\ ret = "none"
  /\ served = {} /\ failed = {}
  /\ budget = MaxFaults

Enter(name, c) ==
  /\ pc = "idle"
  /\ op' = name /\ arg' = c /\ before' = instance
  /\ UNCHANGED <<core, files, failed, budget>>

\* Mutant: validation is skipped.
CallApplyUnvalidated(c) == Enter("apply", c) /\ pc' = "write_current" /\ ret' = "none"

CallApply(c) ==
  /\ Enter("apply", c)
  /\ pc' = IF ValidateConfig THEN "validate" ELSE "write_current"
  /\ ret' = "none"

Validate ==
  /\ pc = "validate"
  /\ \/ Builds(arg) /\ Goto("write_current")
     \/ BuildFails(arg, {}) /\ Return("err")
  /\ UNCHANGED <<core, files, call>>

\* Mutant: last_good is written along with current, before the restart.
WriteBothEarly ==
  /\ pc = "write_current"
  /\ current' = arg /\ lastGood' = arg
  /\ Goto(IF op = "apply" THEN "restart" ELSE "write_good")
  /\ UNCHANGED <<core, call, failed, budget>>

\* Apply has changed nothing yet when this write fails; SyncUsers has.
WriteCurrent ==
  /\ pc = "write_current"
  /\ \/ /\ current' = arg
        /\ Goto(IF op = "apply" THEN "restart" ELSE "write_good")
        /\ NoFault /\ Calm
     \/ /\ Fault("disk")
        /\ IF op = "apply" THEN Calm ELSE Note({"disk"})
        /\ Return("err")
        /\ UNCHANGED current
  /\ UNCHANGED <<core, lastGood, call>>

\* Mutant: the old instance is stopped before the new one is built.
RestartStopsFirst ==
  /\ pc = "restart"
  /\ \/ /\ Builds(arg) /\ Launch(arg)
        /\ IF op = "apply" THEN Goto("write_good") ELSE Return("ok")
     \/ /\ BuildFails(arg, {}) /\ Goto("fallback")
        /\ instance' = None /\ UNCHANGED <<users, served>>
  /\ UNCHANGED <<files, call>>

\* A configuration that does not build leaves the old instance running.
Restart ==
  /\ pc = "restart"
  /\ \/ /\ Builds(arg)
        /\ Launch(arg)
        /\ IF op = "apply" THEN Goto("write_good") ELSE Return("ok")
     \/ BuildFails(arg, {}) /\ Goto("fallback") /\ UNCHANGED core
     \/ LaunchFails(arg, {}) /\ Goto("fallback")
  /\ UNCHANGED <<files, call>>

\* An Apply without a fallback has left its configuration in the current file.
FallbackFailed == IF op = "apply" THEN {"fallback"} ELSE {}

\* startLastGood: the same restart, from the last_good file.
Fallback ==
  /\ pc = "fallback"
  /\ \/ lastGood = None /\ Return("err") /\ NoFault /\ Note(FallbackFailed) /\ UNCHANGED core
     \/ /\ lastGood # None
        /\ \/ Builds(lastGood) /\ Launch(lastGood) /\ Goto("restore")
           \/ BuildFails(lastGood, FallbackFailed) /\ Return("err") /\ UNCHANGED core
           \/ LaunchFails(lastGood, FallbackFailed) /\ Return("err")
  /\ UNCHANGED <<files, call>>

\* Mutant: current is restored from what ran before the call.
RestoreFromMemory ==
  /\ pc = "restore"
  /\ current' = before
  /\ Return(IF op = "start" THEN "ok" ELSE "err")
  /\ failed' = failed \ Tearing
  /\ UNCHANGED <<core, lastGood, call, budget>>

\* Mutant: Apply, like Start, returns success after the fallback.
RestoreHidesError ==
  /\ pc = "restore"
  /\ current' = lastGood
  /\ Return("ok")
  /\ failed' = failed \ Tearing
  /\ UNCHANGED <<core, lastGood, call, budget>>

\* restoreCurrentFromLastGood: Start hides the first error, Apply returns it.
\* Instance, memory and both files are last_good then.
RestoreCurrent ==
  /\ pc = "restore"
  /\ \/ /\ current' = lastGood
        /\ Return(IF op = "start" THEN "ok" ELSE "err")
        /\ NoFault /\ failed' = failed \ Tearing
     \/ Fault("disk") /\ Note({"disk"}) /\ Return("err") /\ UNCHANGED current
  /\ UNCHANGED <<core, lastGood, call>>

WriteLastGood ==
  /\ pc = "write_good"
  /\ \/ /\ lastGood' = arg
        /\ users' = Extract(arg)
        /\ Return("ok")
        /\ NoFault
        /\ failed' = IF instance = arg /\ arg \notin Malformed THEN {} ELSE failed
     \/ Fault("disk") /\ Note({"disk"}) /\ Return("err") /\ UNCHANGED <<lastGood, users>>
  /\ UNCHANGED <<instance, served, current, call>>

\* The caller starts only when nothing runs, or what runs is the current file.
StartAllowed == ~Torn => instance = None \/ instance = current

StartCall ==
  /\ \/ current # None /\ Enter("start", current) /\ pc' = "restart" /\ ret' = "none"
     \/ /\ current = None /\ lastGood # None
        /\ Enter("start", lastGood) /\ pc' = "restart" /\ ret' = "none"
     \/ current = None /\ lastGood = None /\ Enter("start", None) /\ Return("err")

CallStart == StartAllowed /\ StartCall

\* What the caller guarantees of SyncUsers: the configuration is rendered from a
\* base that has been served and, unless files and instance are torn, is served now.
SyncAllowed(c) ==
  /\ \E d \in served : d.base = c.base
  /\ ~Torn /\ instance # None => instance.base = c.base

SyncCall(c) ==
  /\ Enter("sync", c)
  /\ IF Extract(c) = None \/ instance = None \/ users = None
       THEN Return("err")
       ELSE pc' = "hot_sync" /\ ret' = "none"

CallSync(c) == SyncAllowed(c) /\ SyncCall(c)

\* applyUserChangesLocked.  A decodable user the core refuses (a key of the wrong
\* length, say) is met only here, when it is added; an inbound of another base may
\* accept it.  All removals come before the first addition, so a failed addition
\* leaves the removals done; r.users is left as it was.
HotSync ==
  LET removals == Removals(users, arg.users)
      additions == Additions(users, arg.users)
      Reach(R, A) ==
        LET next == [instance EXCEPT !.users = Patch(instance.users, R, A, arg.users)]
        IN instance' = next /\ served' = served \cup ({next} \cap Config)
  IN /\ pc = "hot_sync"
     /\ \/ /\ Known(removals \cup additions)
           /\ arg \in Malformed => additions = {} \/ instance.base # arg.base
           /\ Reach(removals, additions)
           /\ Goto("write_current")
           /\ NoFault /\ Calm
        \/ \E R \in SUBSET removals, A \in SUBSET additions :
             /\ A # {} => R = removals
             /\ <<R, A>> # <<removals, additions>>
             /\ Known(R \cup A)
             /\ Reach(R, A)
             /\ Return("err") /\ Note({"sync"})
             /\ \/ Fault("sync")
                \/ /\ \/ ~Known(removals \cup additions)
                      \/ Disputed(removals, additions)
                      \/ arg \in Malformed
                   /\ NoFault
     /\ UNCHANGED <<users, files, call>>

\* restoreLastGoodConfig of the application, before its first Start.
RestoreFile ==
  /\ pc = "idle" /\ current = None /\ lastGood # None
  /\ current' = lastGood
  /\ UNCHANGED <<core, lastGood, pc, call, ret, failed, budget>>

\* A crash, or a shutdown (Stop): the process comes back with the files only,
\* perhaps without the current file.
Crash ==
  /\ Fault("crash")
  /\ \/ UNCHANGED current
     \/ "lost" \in Faults /\ current' = None
  /\ instance' = None /\ users' = None
  /\ pc' = "idle" /\ op' = "none" /\ arg' = None /\ before' = None /\ ret' = "none"
  /\ UNCHANGED <<lastGood, served, failed>>

\* A failure of the same budget that is met by the caller, not by the runtime.
FaultElsewhere ==
  /\ pc = "idle"
  /\ Fault("rpc") \/ Fault("geodata") \/ Fault("disk")
  /\ UNCHANGED <<core, files, pc, call, ret, failed>>

Next ==
  \/ \E c \in Config : CallApply(c) \/ CallSync(c)
  \/ CallStart
  \/ Validate \/ WriteCurrent \/ Restart \/ Fallback \/ RestoreCurrent
  \/ WriteLastGood \/ HotSync
  \/ RestoreFile
  \/ Crash
  \/ FaultElsewhere

Spec == Init /\ [][Next]_vars

-----------------------------------------------------------------------------
(* Properties.                                                             *)

\* The type of every variable.
TypeOK ==
  /\ instance \in Served \cup {None}
  /\ users \in Table \cup {None}
  /\ current \in Config \cup {None} /\ lastGood \in Config \cup {None}
  /\ pc \in Step
  /\ op \in {"none", "apply", "start", "sync"}
  /\ arg \in Config \cup {None}
  /\ before \in Served \cup {None}
  /\ ret \in {"none", "ok", "err"}
  /\ served \subseteq Config
  /\ failed \subseteq {"build", "start"} \cup Tearing
  /\ budget \in 0 .. MaxFaults

\* README.md:72: last_good is a configuration that has run.  The base of the
\* last_good file has been served by some instance, through every failure and
\* crash; unless a hot change or a write is cut half-way, the very configuration,
\* accounts included, has been served and the core builds it.
LastGoodWasServed ==
  lastGood # None =>
    /\ \E c \in served : c.base = lastGood.base
    /\ ~Torn => lastGood \in served \ Malformed

\* README.md:80: a rejected configuration does not take the service down.  An
\* Apply or SyncUsers that fails leaves some instance running if one ran before
\* the call and no start failed; if nothing but builds failed, it serves what it
\* served before the call, or last_good.
FailureKeepsService ==
  pc = "idle" /\ ret = "err" /\ op \in {"apply", "sync"} /\ before # None =>
    /\ "start" \notin failed => instance # None
    /\ failed \subseteq {"build", "fallback"} => instance \in {before, lastGood}

\* What success means.  After Apply: the instance serves exactly the
\* configuration given, both files hold it and the remembered users are its
\* users, whatever failed before.  After Start: the instance serves the current
\* file, or last_good when there is no current file.  After SyncUsers: as Apply,
\* unless an earlier hot change or write was cut half-way.
OkMeansServed ==
  pc = "idle" /\ ret = "ok" =>
    /\ op = "apply" => /\ instance = arg /\ lastGood = arg /\ current = arg
                       /\ users = Extract(arg)
    /\ op = "start" => instance = IF current = None THEN lastGood ELSE current
    /\ op = "sync" => /\ lastGood = arg /\ current = arg /\ users = Extract(arg)
                      /\ ~Torn => instance = arg

\* r.users is the account table of the running core whenever its base is hot
\* managed: what the next diff starts from is the truth, until a hot change or
\* a write is cut half-way (see SyncOkIsServed).
RememberedUsersMatch ==
  /\ pc \notin {"write_current", "write_good"}
  /\ instance # None /\ ~Torn
  => users = Extract(instance)

\* With validation no configuration the core refuses reaches the current file,
\* from which an agent without its server would start.
CurrentIsBuildable == ValidateConfig /\ ~Torn => current \notin Malformed

\* last_good moves only to what is being served at that moment, accounts
\* included unless a hot change or a write was cut half-way.
PromoteOnlyServed ==
  [][lastGood' # lastGood => instance # None /\ (~Torn => lastGood' = instance)]_vars

\* runtime_test.go:216-221: after a successful SyncUsers the removed account is
\* gone from the running core and the new one is there.
SyncOkIsServed ==
  pc = "idle" /\ ret = "ok" /\ op = "sync" => instance = arg

\* The abstract two-slot store this runtime implements.
Slots == INSTANCE TwoSlots
  WITH Store <- Served, serving <- instance, candidate <- current, good <- lastGood,
       torn <- Torn

\* Every step of runtime.go and user_sync.go is a step of the two-slot store or
\* leaves it alone: last_good receives only what runs and is current.
RefinesTwoSlots == Slots!Spec

=============================================================================
