---------------------------- MODULE AgentProofs ----------------------------
(***************************************************************************)
(* Proofs about Agent, for any configurations, users, versions and number  *)
(* of failures.  The agent's steps are steps of the runtime only because   *)
(* the agent calls it as it should, and the agent can rely on a call only  *)
(* because of what the runtime promises: both are proved by one induction, *)
(* whose invariant joins IInv of XrayRuntimeProofs with what the agent     *)
(* knows at each of its steps.                                             *)
(***************************************************************************)
EXTENDS Agent, XrayRuntimeProofs

\* The agent waits for a call that is given a configuration.
Calling == apc \in {"config_applying", "users_syncing", "users_applying"}

\* That call has succeeded.
Accepted == Calling /\ pc = "idle" /\ ret = "ok"

\* What the agent had before the pull in progress.
OldBase == IF apc = "config_applying" THEN prevcfg ELSE appcfg
OldUsers == IF apc \in {"users_syncing", "users_applying"} THEN prevUsers ELSE runtimeUsers
Old == Render(OldBase, OldUsers)

\* What the server may have published and the agent may have taken over.
GoodBase == {b \in Base \ Unrenderable : b # None /\ \E v \in Version : ConfigOf[v] = b}
GoodUsers == {t \in Table : t = NoUsers \/ \E v \in Version : UsersOf[v] = t}

\* What the agent holds can be rendered, and is what it gave to its call.
Rendered ==
  /\ {appcfg, prevcfg} \subseteq GoodBase \cup {None}
  /\ {runtimeUsers, prevUsers} \subseteq GoodUsers
  /\ snapshot # None => snapshot.users \in GoodUsers
  /\ Calling => appcfg # None /\ arg = Render(appcfg, runtimeUsers)

\* Where Run is while it boots, and that nothing runs while the process is down.
BootWhere ==
  /\ booting => apc \in {"load", "users", "users_snapshot", "config", "config_applying",
                         "restore_file", "boot_starting"}
  /\ apc \in {"load", "restore_file", "boot_starting"} => booting
  /\ apc = "off" => ~booting /\ instance = None

\* Until Run reaches its loop nothing is loaded.
BootEmpty == booting \/ apc = "off" => OldBase = None /\ runtimeVersion = 0

\* A core runs before the loop at most by the fallback of the first Apply.
BootCore ==
  booting =>
    /\ apc \in {"load", "users", "users_snapshot", "config"} => instance = None
    /\ apc = "config_applying" /\ pc \in {"validate", "write_current", "restart", "fallback"}
         => instance = None
    /\ ~Torn /\ (apc = "restore_file" \/ (apc = "config_applying" /\ pc = "idle" /\ ret = "err"))
         => instance \in {None, current}

\* Until its call succeeds, last_good is what the agent had before, and while nothing
\* is torn so are the current file and the instance, but between the steps that
\* change them.
Held ==
  OldBase # None /\ ~Accepted =>
    /\ lastGood = Old
    /\ ~Torn =>
         /\ \/ current = Old
            \/ op # "start" /\ pc \in {"restart", "fallback", "restore", "write_good"}
         /\ pc = "write_good" \/ Syncing \/ instance \in {None, Old}

\* The version numbers name what is loaded.
Versions ==
  /\ applied = runtimeVersion
  /\ runtimeVersion # 0 => OldBase # None /\ OldBase = ConfigOf[runtimeVersion]
  /\ apc = "config_applying" =>
       target = published.cfg /\ published.cfg # runtimeVersion /\ appcfg = ConfigOf[target]
  /\ apc = "restarting" => target = runtimeVersion /\ target # 0 /\ published.cfg = target

\* A server that does not roll back asks for the version at hand only while no other
\* was tried: the current file is still its own, torn or not.
OnDisk ==
  ~Rollback =>
    /\ runtimeVersion <= published.cfg
    /\ runtimeVersion # 0 /\ published.cfg = runtimeVersion =>
         current # None /\ current.base = ConfigOf[runtimeVersion]

\* What is marked applied is served, but while a call decides about it.
Serving ==
  ~Rollback /\ applyState = "applied" /\ applied # 0
    /\ apc \notin {"config_applying", "restarting", "users_applying"}
  => instance # None /\ instance.base = ConfigOf[applied]

\* Without a failure a core is down only before Run has started the files, and the
\* current file is missing only until it has restored them.
Up ==
  /\ instance = None /\ failed = {} /\ lastGood # None /\ restored # "failed"
       => booting \/ apc = "off" \/ pc \in {"restart", "fallback"}
  /\ current = None /\ lastGood # None /\ restored # "failed" => booting \/ apc = "off"
  /\ apc = "boot_starting" => current # None
  /\ apc = "boot_starting" /\ pc = "idle" /\ ret = "err" /\ failed = {} => lastGood = None
  /\ booting => restored # "failed"
  /\ apc = "off" => restored = "none"

\* A restored current file is last_good, and while nothing has come from the server
\* and nothing has failed, the current file is what runs.
Offline ==
  /\ restored = "done" /\ booting =>
       apc \in {"restore_file", "boot_starting"} /\ current = lastGood /\ lastGood # None
  /\ /\ OldBase = None /\ ~booting /\ apc # "off" /\ ~Accepted
     /\ failed = {} /\ lastGood # None /\ restored # "failed"
     /\ pc \notin {"restart", "fallback", "restore", "write_good"}
     => instance = current /\ (restored = "done" => current = lastGood)

AInv ==
  /\ IInv /\ AgentTypeOK /\ Rendered /\ BootWhere /\ BootEmpty /\ BootCore
  /\ Held /\ Versions /\ OnDisk /\ Serving /\ Up /\ Offline

-----------------------------------------------------------------------------
(* Operators and calls.                                                    *)

\* What the agent renders from what the server publishes is a configuration.
LEMMA RenderType ==
  ASSUME NEW b \in GoodBase, NEW t \in GoodUsers
  PROVE  Render(b, t) \in Config /\ Render(b, t) # None /\ Render(b, t).base = b
<1>1. Render(b, t) \in Config
  <2>1. PICK v \in Version : ConfigOf[v] = b /\ b \in Base \ Unrenderable
    BY DEF GoodBase
  <2>2. CASE t = NoUsers
    BY <2>1, <2>2, RenderAssumption
  <2>3. CASE t # NoUsers
    <3>1. PICK w \in Version : UsersOf[w] = t /\ t # None
      BY <2>3, NoneAssumption DEF GoodUsers
    <3> QED
      BY <2>1, <3>1, RenderAssumption
  <2> QED
    BY <2>2, <2>3
<1> QED
  BY <1>1, ConfigFacts DEF Render

\* Only a call that waits for a configuration writes files from it.
LEMMA CallOfState ==
  ASSUME AgentTypeOK, CallShape, pc # "idle"
  PROVE  /\ apc \in {"boot_starting", "restarting", "config_applying", "users_syncing", "users_applying"}
         /\ op = "apply" <=> apc \in {"config_applying", "users_applying"}
         /\ op = "sync" <=> apc = "users_syncing"
         /\ op = "start" <=> apc \in {"boot_starting", "restarting"}
BY DEF AgentTypeOK

\* The agent's steps are steps of the runtime: it synchronises users only onto a
\* base that was served and, unless something is torn, is served now, and it starts
\* only when nothing runs or what runs is the current file.
LEMMA StepOfRuntime ==
  ASSUME AInv, [AgentNext]_agentVars
  PROVE  [Next]_vars
<1> USE DEF RuntimeIdle, NoFault, Returned, vars, FaultElsewhere
<1>1. CASE RuntimeStep
  BY <1>1 DEF RuntimeStep, Next
<1>2. CASE Boot \/ LoadUsersSnapshot \/ BootNothingToStart \/ StartCycle
  BY <1>2 DEF Boot, RegisterAgent, LoadUsersSnapshot, BootNothingToStart, StartCycle, Next, core, files, call
<1>3. CASE BootRestoreFile \/ BootStarted
  BY <1>3 DEF BootRestoreFile, BootStarted, Next
<1>4. CASE BootStart
  <2>1. StartAllowed
    BY <1>4 DEF BootStart, AInv, BootWhere, BootCore, StartAllowed
  <2> QED
    BY <1>4, <2>1 DEF BootStart, CallStart, Next
<1>5. CASE ConfigUnreachable \/ ConfigUnchanged \/ ConfigRestarted \/ ConfigRejected \/ ConfigApplied
  BY <1>5 DEF ConfigUnreachable, CallFails, ConfigUnchanged, ConfigRestarted, ConfigRejected,
              ConfigApplied, Next, core, files, call
<1>6. CASE ConfigRestart
  BY <1>6 DEF ConfigRestart, Running, StartAllowed, CallStart, Next
<1>7. CASE ConfigApply
  <2>1. ConfigOf[published.cfg] \in GoodBase /\ runtimeUsers \in GoodUsers
    BY <1>7, VersionAssumption DEF ConfigApply, AInv, AgentTypeOK, Rendered, GoodBase
  <2> QED
    BY <1>7, <2>1, RenderType DEF ConfigApply, Next
<1>8. CASE UsersUnreachable \/ UsersUnchanged \/ UsersApplied \/ UsersApplyFailed \/ WriteUsersSnapshot
  BY <1>8 DEF UsersUnreachable, CallFails, UsersUnchanged, UsersApplied, UsersApplyFailed,
              WriteUsersSnapshot, Next, core, files, call
<1>9. CASE UsersApply
  <2> DEFINE c == Render(appcfg, UsersOf[published.users])
  <2>1. CASE appcfg = None
    BY <1>9, <2>1 DEF UsersApply, core, files, call
  <2>2. CASE appcfg # None
    <3>1. appcfg \in GoodBase /\ UsersOf[published.users] \in GoodUsers
      BY <1>9, <2>2, VersionAssumption DEF UsersApply, AInv, AgentTypeOK, Rendered, GoodUsers
    <3>2. c \in Config /\ c.base = appcfg
      BY <3>1, RenderType
    <3>3. CASE CallApply(c)
      BY <3>2, <3>3 DEF Next
    <3>4. CASE SyncCall(c) /\ Running
      <4>1. apc = "users" /\ pc = "idle" /\ OldBase = appcfg /\ ~Accepted /\ Old.base = appcfg
        BY <1>9 DEF UsersApply, AInv, AgentTypeOK, OldBase, Old, Render, Accepted, Calling
      <4>2. lastGood.base = appcfg /\ lastGood # None /\ (~Torn => instance.base = appcfg)
        <5>1. lastGood = Old /\ (~Torn => instance = Old)
          BY <2>2, <3>4, <4>1 DEF AInv, Held, Syncing, Running
        <5>2. Old # None
          <6>1. OldUsers \in GoodUsers
            BY DEF AInv, Rendered, OldUsers
          <6> QED
            BY <3>1, <4>1, <6>1, RenderType DEF Old
        <5> QED
          BY <4>1, <5>1, <5>2
      <4>3. SyncAllowed(c)
        BY <3>2, <4>2 DEF AInv, IInv, Provenance, BaseServed, SyncAllowed
      <4> QED
        BY <3>2, <3>4, <4>3 DEF CallSync, Next
    <3> QED
      BY <1>9, <2>2, <3>3, <3>4 DEF UsersApply
  <2> QED
    BY <2>1, <2>2
<1>10. CASE UsersFallback
  <2>1. appcfg \in GoodBase /\ runtimeUsers \in GoodUsers
    BY <1>10 DEF UsersFallback, AInv, Rendered, Calling
  <2> QED
    BY <1>10, <2>1, RenderType DEF UsersFallback, Next
<1>11. CASE Publish \/ Approve \/ AgentCrash \/ UNCHANGED agentVars
  BY <1>11 DEF Publish, Approve, AgentCrash, agentVars, Next
<1> QED
  BY <1>1, <1>2, <1>3, <1>4, <1>5, <1>6, <1>7, <1>8, <1>9, <1>10, <1>11
     DEF AgentNext, AgentStep, BootSteps, PullConfig, PullUsers

-----------------------------------------------------------------------------
(* What the agent knows at each of its steps.                              *)

\* The three parts of AgentTypeOK beside TypeOK.
FlagsOK ==
  {booting, clean, approved, token} \subseteq BOOLEAN /\ restored \in {"none", "done", "failed"}

ValuesOK ==
  /\ appcfg \in Base \cup {None} /\ prevcfg \in Base \cup {None}
  /\ target \in 0 .. MaxVersion /\ runtimeVersion \in 0 .. MaxVersion
  /\ usersVersion \in 0 .. MaxVersion /\ desired \in 0 .. MaxVersion /\ applied \in 0 .. MaxVersion
  /\ runtimeUsers \in Table /\ prevUsers \in Table
  /\ applyState \in {"pending", "applied", "failed"}
  /\ snapshot = None \/ snapshot \in [version : Version, users : Table]
  /\ published \in [cfg : Version, users : Version]

WaitOK ==
  /\ apc \in {"off", "load", "loop", "config", "users", "users_snapshot", "restore_file",
              "boot_starting", "restarting", "config_applying", "users_syncing", "users_applying"}
  /\ apc \in {"config_applying", "users_applying"} => op = "apply"
  /\ apc = "users_syncing" => op = "sync"
  /\ apc \in {"restarting", "boot_starting"} => op = "start"
  /\ apc \in {"off", "load", "loop", "config", "users", "users_snapshot", "restore_file"}
       => pc = "idle"
  /\ apc \in {"restarting", "config_applying", "users_syncing", "users_applying", "users_snapshot"}
       => target # 0
  /\ token => approved /\ apc # "off"

\* AgentTypeOK is made of these parts.
LEMMA TypeParts == AgentTypeOK <=> TypeOK /\ FlagsOK /\ ValuesOK /\ WaitOK
BY DEF AgentTypeOK, FlagsOK, ValuesOK, WaitOK

\* The flags are Booleans.
LEMMA FlagsStep ==
  ASSUME FlagsOK, [AgentNext]_agentVars
  PROVE  FlagsOK'
<1> USE DEF FlagsOK, app, server, Await, ConfigDone, UsersDone
<1>1. CASE BootSteps
  BY <1>1 DEF BootSteps, Boot, RegisterAgent, LoadUsersSnapshot, BootRestoreFile, BootStart,
              BootNothingToStart, BootStarted
<1>2. CASE StartCycle \/ RuntimeStep \/ Publish \/ Approve \/ AgentCrash \/ UNCHANGED agentVars
  BY <1>2 DEF StartCycle, RuntimeStep, Publish, Approve, AgentCrash, agentVars
<1>3. CASE PullConfig
  BY <1>3 DEF PullConfig, ConfigUnreachable, ConfigUnchanged, ConfigRestart, ConfigRestarted,
              ConfigRejected, ConfigApply, ConfigApplied
<1>4. CASE PullUsers
  BY <1>4 DEF PullUsers, UsersUnreachable, UsersUnchanged, UsersApply, UsersFallback,
              UsersApplied, UsersApplyFailed, WriteUsersSnapshot
<1> QED
  BY <1>1, <1>2, <1>3, <1>4 DEF AgentNext, AgentStep

\* What the agent holds is of the right kind.
LEMMA ValuesStep ==
  ASSUME ValuesOK, WaitOK, [AgentNext]_agentVars
  PROVE  ValuesOK'
<1> USE VersionAssumption DEF ValuesOK, app, locals, status, known, server, MarkApplied, MarkFailed, Version
<1>1. CASE BootSteps
  BY <1>1 DEF BootSteps, Boot, LoadUsersSnapshot, BootRestoreFile, BootStart,
              BootNothingToStart, BootStarted
<1>2. CASE StartCycle \/ RuntimeStep \/ Publish \/ Approve \/ UNCHANGED agentVars
  BY <1>2 DEF StartCycle, RuntimeStep, Publish, Approve, agentVars
<1>3. CASE AgentCrash
  BY <1>3 DEF AgentCrash, NoUsers, Table
<1>4. CASE PullConfig
  BY <1>4 DEF PullConfig, ConfigUnreachable, ConfigUnchanged, ConfigRestart, ConfigRestarted,
              ConfigRejected, ConfigApply, ConfigApplied
<1>5. CASE PullUsers
  <2>1. CASE UsersApply
    BY <2>1 DEF UsersApply
  <2>2. CASE WriteUsersSnapshot
    BY <2>2 DEF WriteUsersSnapshot, WaitOK
  <2>3. CASE UsersUnreachable \/ UsersUnchanged \/ UsersFallback \/ UsersApplied \/ UsersApplyFailed
    BY <2>3 DEF UsersUnreachable, UsersUnchanged, UsersFallback, UsersApplied, UsersApplyFailed
  <2> QED
    BY <1>5, <2>1, <2>2, <2>3 DEF PullUsers
<1> QED
  BY <1>1, <1>2, <1>3, <1>4, <1>5 DEF AgentNext, AgentStep

\* The agent waits for the call it made.
LEMMA WaitStep ==
  ASSUME WaitOK, FlagsOK, ValuesOK, [AgentNext]_agentVars
  PROVE  WaitOK'
<1> USE DEF WaitOK, app, server, locals, RuntimeIdle, Await, Returned, vars, call, ConfigDone, UsersDone
<1>1. CASE RuntimeStep
  BY <1>1 DEF RuntimeStep, Validate, WriteCurrent, Restart, Fallback, RestoreCurrent, WriteLastGood, HotSync
<1>2. CASE BootSteps
  <2>1. CASE Boot
    BY <2>1 DEF Boot, RegisterAgent, FlagsOK
  <2>2. CASE LoadUsersSnapshot \/ BootRestoreFile \/ BootStart \/ BootNothingToStart \/ BootStarted
    BY <2>2 DEF LoadUsersSnapshot, BootRestoreFile, RestoreFile, BootStart, StartCall, Enter,
                BootNothingToStart, BootStarted
  <2> QED
    BY <1>2, <2>1, <2>2 DEF BootSteps
<1>3. CASE StartCycle \/ Publish \/ Approve \/ AgentCrash \/ UNCHANGED agentVars
  BY <1>3 DEF StartCycle, Publish, Approve, AgentCrash, Crash, agentVars
<1>4. CASE PullConfig
  BY <1>4 DEF ValuesOK, Version, PullConfig, ConfigUnreachable, ConfigUnchanged, ConfigRestart, StartCall, Enter,
              ConfigRestarted, ConfigRejected, ConfigApply, CallApply, ConfigApplied
<1>5. CASE PullUsers
  BY <1>5 DEF ValuesOK, Version, PullUsers, UsersUnreachable, UsersUnchanged, UsersApply, SyncCall, CallApply, Enter,
              UsersFallback, UsersApplied, UsersApplyFailed, WriteUsersSnapshot
<1> QED
  BY <1>1, <1>2, <1>3, <1>4, <1>5 DEF AgentNext, AgentStep

\* The agent's state before its first start.
LEMMA AInvInit == AgentInit => AInv
<1> SUFFICES ASSUME AgentInit PROVE AInv
  OBVIOUS
<1>1. IInv /\ TypeOK
  BY IInvInit, TypeInit DEF AgentInit
<1>2. NoUsers \in Table /\ NoUsers \in GoodUsers
  BY DEF NoUsers, Table, GoodUsers
<1>3. ValuesOK
  BY <1>2, VersionAssumption DEF AgentInit, ValuesOK, Version
<1>4. FlagsOK /\ WaitOK
  BY DEF AgentInit, Init, FlagsOK, WaitOK
<1>5. AgentTypeOK
  BY <1>1, <1>3, <1>4, TypeParts
<1>6. Rendered
  BY <1>2 DEF AgentInit, Rendered, Calling
<1>7. BootWhere /\ BootEmpty /\ BootCore
  BY DEF AgentInit, Init, BootWhere, BootEmpty, BootCore, OldBase
<1>8. Held /\ Versions
  BY DEF AgentInit, Init, OldBase, Held, Versions
<1>9. OnDisk /\ Serving /\ Up /\ Offline
  BY DEF AgentInit, Init, OnDisk, Serving, Up, Offline
<1> QED
  BY <1>1, <1>5, <1>6, <1>7, <1>8, <1>9 DEF AInv

\* What the agent holds can be rendered.
LEMMA RenderedStep ==
  ASSUME AgentTypeOK, Rendered, [AgentNext]_agentVars
  PROVE  Rendered'
<1> USE DEF Rendered, Calling, app, locals, known, server, vars, call, Await, Returned, RuntimeIdle,
            ConfigDone, UsersDone
<1>1. CASE RuntimeStep
  BY <1>1 DEF RuntimeStep, Validate, WriteCurrent, Restart, Fallback, RestoreCurrent, WriteLastGood, HotSync
<1>2. CASE BootSteps
  BY <1>2 DEF BootSteps, Boot, LoadUsersSnapshot, BootRestoreFile, RestoreFile, BootStart,
              BootNothingToStart, BootStarted
<1>3. CASE StartCycle \/ Publish \/ Approve \/ UNCHANGED agentVars
  BY <1>3 DEF StartCycle, Publish, Approve, agentVars
<1>4. CASE AgentCrash
  <2>1. NoUsers \in GoodUsers
    BY DEF NoUsers, GoodUsers, Table
  <2> QED
    BY <1>4, <2>1 DEF AgentCrash
<1>5. CASE PullConfig
  <2>1. CASE ConfigApply
    <3>1. ConfigOf[published.cfg] \in GoodBase
      BY <2>1, VersionAssumption DEF ConfigApply, AgentTypeOK, GoodBase
    <3>2. ConfigOf[published.cfg] # None
      BY <3>1 DEF GoodBase
    <3> QED
      BY <2>1, <3>1, <3>2 DEF ConfigApply, CallApply, Enter
  <2>2. CASE ConfigUnreachable \/ ConfigUnchanged \/ ConfigRestart \/ ConfigRestarted \/ ConfigRejected
    BY <2>2 DEF ConfigUnreachable, ConfigUnchanged, ConfigRestart, ConfigRestarted, ConfigRejected
  <2>3. CASE ConfigApplied
    BY <2>3 DEF ConfigApplied
  <2> QED
    BY <1>5, <2>1, <2>2, <2>3 DEF PullConfig
<1>6. CASE PullUsers
  <2>1. CASE UsersApply
    <3>1. UsersOf[published.users] \in GoodUsers
      BY <2>1, VersionAssumption DEF UsersApply, AgentTypeOK, GoodUsers
    <3> QED
      BY <2>1, <3>1 DEF UsersApply, SyncCall, CallApply, Enter
  <2>2. CASE UsersFallback
    BY <2>2 DEF UsersFallback, CallApply, Enter
  <2>3. CASE UsersUnreachable \/ UsersUnchanged \/ UsersApplied \/ UsersApplyFailed
    BY <2>3 DEF UsersUnreachable, UsersUnchanged, UsersApplied, UsersApplyFailed
  <2>4. CASE WriteUsersSnapshot
    BY <2>4 DEF WriteUsersSnapshot
  <2> QED
    BY <1>6, <2>1, <2>2, <2>3, <2>4 DEF PullUsers
<1> QED
  BY <1>1, <1>2, <1>3, <1>4, <1>5, <1>6 DEF AgentNext, AgentStep

\* Where Run is while it boots.
LEMMA BootWhereStep ==
  ASSUME AgentTypeOK, BootWhere, BootEmpty, [AgentNext]_agentVars
  PROVE  BootWhere'
<1> USE DEF BootWhere, app, vars, core, Await, Returned, RuntimeIdle, ConfigDone, UsersDone
<1>1. CASE RuntimeStep
  <2>1. pc # "idle" /\ UNCHANGED <<apc, booting>>
    BY <1>1 DEF RuntimeStep, Validate, WriteCurrent, Restart, Fallback, RestoreCurrent, WriteLastGood, HotSync
  <2>2. apc # "off"
    BY <2>1 DEF AgentTypeOK
  <2> QED
    BY <2>1, <2>2
<1>2. CASE BootSteps
  BY <1>2 DEF BootSteps, Boot, LoadUsersSnapshot, BootRestoreFile, RestoreFile, BootStart,
              BootNothingToStart, BootStarted
<1>3. CASE StartCycle \/ Publish \/ Approve \/ UNCHANGED agentVars
  BY <1>3 DEF StartCycle, Publish, Approve, agentVars
<1>4. CASE AgentCrash
  BY <1>4 DEF AgentCrash, Crash
<1>5. CASE PullConfig
  <2>1. CASE ConfigRestart
    BY <2>1 DEF ConfigRestart, AgentTypeOK, BootEmpty, Version
  <2>2. CASE ConfigUnreachable \/ ConfigUnchanged \/ ConfigRejected
    BY <2>2 DEF ConfigUnreachable, ConfigUnchanged, ConfigRejected
  <2>3. CASE ConfigApply \/ ConfigApplied
    BY <2>3 DEF ConfigApply, ConfigApplied
  <2>4. CASE ConfigRestarted
    BY <2>4 DEF ConfigRestarted
  <2> QED
    BY <1>5, <2>1, <2>2, <2>3, <2>4 DEF PullConfig
<1>6. CASE PullUsers
  <2>1. CASE UsersApply
    BY <2>1 DEF UsersApply, BootEmpty, OldBase
  <2>2. CASE UsersUnreachable \/ UsersUnchanged \/ UsersApplyFailed \/ WriteUsersSnapshot
    BY <2>2 DEF UsersUnreachable, UsersUnchanged, UsersApplyFailed, WriteUsersSnapshot
  <2>3. CASE UsersFallback
    BY <2>3 DEF UsersFallback
  <2>4. CASE UsersApplied
    BY <2>4 DEF UsersApplied
  <2> QED
    BY <1>6, <2>1, <2>2, <2>3, <2>4 DEF PullUsers
<1> QED
  BY <1>1, <1>2, <1>3, <1>4, <1>5, <1>6 DEF AgentNext, AgentStep

\* Until Run reaches its loop nothing is loaded.
LEMMA BootEmptyStep ==
  ASSUME AgentTypeOK, BootWhere, BootEmpty, [AgentNext]_agentVars
  PROVE  BootEmpty'
<1> USE DEF BootEmpty, OldBase, app, locals, known, server, Await, Returned, ConfigDone, UsersDone
<1>1. CASE RuntimeStep
  BY <1>1 DEF RuntimeStep
<1>2. CASE BootSteps
  BY <1>2 DEF BootWhere, BootSteps, Boot, LoadUsersSnapshot, BootRestoreFile, BootStart,
              BootNothingToStart, BootStarted
<1>3. CASE StartCycle
  BY <1>3 DEF StartCycle, BootWhere
<1>4. CASE Publish \/ Approve \/ UNCHANGED agentVars
  BY <1>4 DEF Publish, Approve, agentVars
<1>5. CASE AgentCrash
  BY <1>5 DEF AgentCrash
<1>6. CASE PullConfig
  <2>1. CASE ConfigApply
    BY <2>1 DEF ConfigApply
  <2>2. CASE ConfigUnreachable \/ ConfigUnchanged \/ ConfigRejected
    BY <2>2 DEF ConfigUnreachable, ConfigUnchanged, ConfigRejected
  <2>3. CASE ConfigApplied
    BY <2>3 DEF ConfigApplied, BootWhere, AgentTypeOK
  <2>4. CASE ConfigRestarted
    BY <2>4 DEF ConfigRestarted, BootWhere
  <2>5. CASE ConfigRestart
    BY <2>5 DEF ConfigRestart, AgentTypeOK, Version
  <2> QED
    BY <1>6, <2>1, <2>2, <2>3, <2>4, <2>5 DEF PullConfig
<1>7. CASE PullUsers
  <2>1. CASE UsersApply
    BY <2>1 DEF UsersApply
  <2>2. CASE UsersUnreachable \/ UsersUnchanged \/ UsersApplyFailed \/ WriteUsersSnapshot
    BY <2>2 DEF UsersUnreachable, UsersUnchanged, UsersApplyFailed, WriteUsersSnapshot
  <2>3. CASE UsersFallback
    BY <2>3 DEF UsersFallback
  <2>4. CASE UsersApplied
    BY <2>4 DEF UsersApplied
  <2> QED
    BY <1>7, <2>1, <2>2, <2>3, <2>4 DEF PullUsers
<1> QED
  BY <1>1, <1>2, <1>3, <1>4, <1>5, <1>6, <1>7 DEF AgentNext, AgentStep

\* A core that runs while Run boots is last_good, in the current file again.
LEMMA BootCoreStep ==
  ASSUME AgentTypeOK, CallShape, BootWhere, BootEmpty, BootCore, [AgentNext]_agentVars
  PROVE  BootCore'
<1> USE DEF BootCore, app, locals, known, server, vars, core, files, call, Await, Returned,
            RuntimeIdle, ConfigDone, UsersDone
<1>1. CASE RuntimeStep
  <2> SUFFICES ASSUME booting, apc = "config_applying" PROVE BootCore'
    <3>1. pc # "idle" /\ UNCHANGED app
      BY <1>1 DEF RuntimeStep, Validate, WriteCurrent, Restart, Fallback, RestoreCurrent, WriteLastGood, HotSync
    <3>2. apc \notin {"load", "users", "users_snapshot", "config", "restore_file"}
      BY <3>1 DEF AgentTypeOK
    <3> QED
      BY <3>1, <3>2
  <2>1. UNCHANGED <<apc, booting>> /\ op = "apply"
    BY <1>1 DEF RuntimeStep, AgentTypeOK
  <2> USE DEF Return, Goto, Builds, BuildFails, Launch, LaunchFails, Note, Torn, Tearing, Calm
  <2>2. CASE Validate
    BY <2>1, <2>2 DEF Validate
  <2>3. CASE WriteCurrent
    BY <2>1, <2>3 DEF WriteCurrent
  <2>4. CASE Restart
    BY <2>1, <2>4 DEF Restart
  <2>5. CASE Fallback
    BY <2>1, <2>5 DEF Fallback, FallbackFailed
  <2>6. CASE RestoreCurrent
    BY <2>1, <2>6 DEF RestoreCurrent, CallShape
  <2>7. CASE WriteLastGood
    BY <2>1, <2>7 DEF WriteLastGood
  <2>8. CASE HotSync
    BY <2>1, <2>8 DEF HotSync, CallShape
  <2> QED
    BY <1>1, <2>2, <2>3, <2>4, <2>5, <2>6, <2>7, <2>8 DEF RuntimeStep
<1>2. CASE BootSteps
  <2>1. CASE Boot
    BY <2>1 DEF Boot, BootWhere
  <2>2. CASE LoadUsersSnapshot
    BY <2>2 DEF LoadUsersSnapshot, BootWhere
  <2>3. CASE BootRestoreFile
    BY <2>3 DEF BootRestoreFile, RestoreFile, Torn
  <2>4. CASE BootStart \/ BootNothingToStart \/ BootStarted
    BY <2>4 DEF BootStart, BootNothingToStart, BootStarted
  <2> QED
    BY <1>2, <2>1, <2>2, <2>3, <2>4 DEF BootSteps
<1>3. CASE StartCycle
  BY <1>3 DEF StartCycle, BootWhere
<1>4. CASE Publish \/ Approve \/ UNCHANGED agentVars
  BY <1>4 DEF Publish, Approve, agentVars, Torn
<1>5. CASE AgentCrash
  BY <1>5 DEF AgentCrash
<1>6. CASE PullConfig
  <2>1. CASE ConfigApply
    BY <2>1 DEF ConfigApply, CallApply, Enter
  <2>2. CASE ConfigUnreachable \/ ConfigUnchanged \/ ConfigRejected
    BY <2>2 DEF ConfigUnreachable, ConfigUnchanged, ConfigRejected, Torn
  <2>3. CASE ConfigApplied
    BY <2>3 DEF ConfigApplied, Torn
  <2>4. CASE ConfigRestarted
    BY <2>4 DEF ConfigRestarted, BootWhere
  <2>5. CASE ConfigRestart
    BY <2>5 DEF ConfigRestart, BootEmpty, AgentTypeOK, Version
  <2> QED
    BY <1>6, <2>1, <2>2, <2>3, <2>4, <2>5 DEF PullConfig
<1>7. CASE PullUsers
  <2>1. CASE UsersApply
    BY <2>1 DEF UsersApply, BootEmpty, OldBase
  <2>2. CASE UsersUnreachable \/ UsersUnchanged \/ WriteUsersSnapshot
    BY <2>2 DEF UsersUnreachable, UsersUnchanged, WriteUsersSnapshot
  <2>3. CASE UsersFallback \/ UsersApplied \/ UsersApplyFailed
    BY <2>3 DEF UsersFallback, UsersApplied, UsersApplyFailed, BootWhere
  <2> QED
    BY <1>7, <2>1, <2>2, <2>3 DEF PullUsers
<1> QED
  BY <1>1, <1>2, <1>3, <1>4, <1>5, <1>6, <1>7 DEF AgentNext, AgentStep

\* Only success moves last_good, and a failed call that tears nothing puts the
\* current file and the instance back.
LEMMA HeldStep ==
  ASSUME AgentTypeOK, IInv, Rendered, BootWhere, BootEmpty, Held, [AgentNext]_agentVars, BootEmpty'
  PROVE  Held'
<1> USE DEF Old, OldBase, OldUsers, Accepted, Calling, app, locals, known, server, vars, core, files,
            call, Await, Returned, RuntimeIdle, Torn, Syncing, ConfigDone, UsersDone
<1>1. CASE RuntimeStep
  <2>1. /\ pc # "idle" /\ ~Accepted /\ UNCHANGED <<Calling, OldBase, Old>>
        /\ op \in {"apply", "sync"} <=> Calling
    BY <1>1 DEF RuntimeStep, Validate, WriteCurrent, Restart, Fallback, RestoreCurrent,
                WriteLastGood, HotSync, AgentTypeOK
  <2> SUFFICES ASSUME OldBase # None PROVE Held'
    BY <2>1 DEF Held
  <2>2. /\ lastGood = Old
        /\ ~Torn => /\ \/ current = Old
                       \/ op # "start" /\ pc \in {"restart", "fallback", "restore", "write_good"}
                    /\ pc = "write_good" \/ Syncing \/ instance \in {None, Old}
    BY <2>1 DEF Held
  <2> HIDE DEF Old, OldBase, Calling
  <2> USE DEF Held, IInv, CallShape, Return, Goto, Builds, BuildFails, Launch, LaunchFails, Note, Calm, Tearing
  <2>3. CASE Validate
    BY <2>1, <2>2, <2>3 DEF Validate
  <2>4. CASE WriteCurrent
    BY <2>1, <2>2, <2>4 DEF WriteCurrent
  <2>5. CASE Restart
    BY <2>1, <2>2, <2>5 DEF Restart
  <2>6. CASE Fallback
    BY <2>1, <2>2, <2>6 DEF Fallback, FallbackFailed
  <2>7. CASE RestoreCurrent
    BY <2>1, <2>2, <2>7 DEF RestoreCurrent
  <2>8. CASE WriteLastGood
    BY <2>1, <2>2, <2>8 DEF WriteLastGood
  <2>9. CASE HotSync
    BY <2>1, <2>2, <2>9 DEF HotSync
  <2> QED
    BY <1>1, <2>3, <2>4, <2>5, <2>6, <2>7, <2>8, <2>9 DEF RuntimeStep
<1>2. CASE BootSteps
  <2>1. OldBase' = None
    BY <1>2 DEF BootSteps, Boot, LoadUsersSnapshot, BootRestoreFile, BootStart, BootNothingToStart,
                BootStarted, BootWhere, BootEmpty
  <2> QED
    BY <2>1 DEF Held
<1>3. CASE StartCycle \/ Publish \/ Approve \/ UNCHANGED agentVars
  BY <1>3 DEF StartCycle, Publish, Approve, agentVars, Held
<1>4. CASE AgentCrash
  BY <1>4 DEF AgentCrash, Held
<1>5. CASE PullConfig
  <2>1. CASE ConfigUnreachable \/ ConfigUnchanged \/ ConfigRejected
    BY <2>1 DEF ConfigUnreachable, ConfigUnchanged, ConfigRejected, Held
  <2>2. CASE ConfigRestart
    BY <2>2 DEF ConfigRestart, StartCall, Enter, Return, Held
  <2>3. CASE ConfigRestarted
    BY <2>3 DEF ConfigRestarted, Held
  <2>4. CASE ConfigApply
    BY <2>4 DEF ConfigApply, CallApply, Enter, Held
  <2>5. CASE ConfigApplied
    BY <2>5 DEF ConfigApplied, Held, Rendered, IInv, OkMeansServed, AgentTypeOK
  <2> QED
    BY <1>5, <2>1, <2>2, <2>3, <2>4, <2>5 DEF PullConfig
<1>6. CASE PullUsers
  <2>1. CASE UsersUnreachable \/ UsersUnchanged \/ WriteUsersSnapshot
    BY <2>1 DEF UsersUnreachable, UsersUnchanged, WriteUsersSnapshot, Held
  <2>2. CASE UsersApply
    BY <2>2 DEF UsersApply, CallApply, SyncCall, Enter, Return, Held
  <2>3. CASE UsersFallback
    BY <2>3 DEF UsersFallback, CallApply, Enter, Held
  <2>4. CASE UsersApplied
    BY <2>4 DEF UsersApplied, Held, Rendered, IInv, OkMeansServed, AgentTypeOK
  <2>5. CASE UsersApplyFailed
    BY <2>5 DEF UsersApplyFailed, Held
  <2> QED
    BY <1>6, <2>1, <2>2, <2>3, <2>4, <2>5 DEF PullUsers
<1> QED
  BY <1>1, <1>2, <1>3, <1>4, <1>5, <1>6 DEF AgentNext, AgentStep

\* A version number moves only with what it names.
LEMMA VersionsStep ==
  ASSUME AgentTypeOK, Rendered, BootWhere, BootEmpty, Versions, [AgentNext]_agentVars
  PROVE  Versions'
<1> USE DEF Versions, OldBase, app, locals, known, server, status, Await, Returned, MarkApplied, MarkFailed,
            ConfigDone, UsersDone
<1>1. CASE RuntimeStep
  BY <1>1 DEF RuntimeStep
<1>2. CASE BootSteps
  BY <1>2 DEF BootSteps, Boot, LoadUsersSnapshot, BootRestoreFile, BootStart, BootNothingToStart,
              BootStarted, BootWhere, BootEmpty
<1>3. CASE StartCycle \/ Publish \/ Approve \/ AgentCrash \/ UNCHANGED agentVars
  BY <1>3 DEF StartCycle, Publish, Approve, AgentCrash, agentVars
<1>4. CASE PullConfig
  <2>1. CASE ConfigUnreachable \/ ConfigUnchanged \/ ConfigRejected
    BY <2>1 DEF ConfigUnreachable, ConfigUnchanged, ConfigRejected
  <2>2. CASE ConfigRestart
    BY <2>2 DEF ConfigRestart, AgentTypeOK, Version
  <2>3. CASE ConfigRestarted
    BY <2>3 DEF ConfigRestarted
  <2>4. CASE ConfigApply
    BY <2>4 DEF ConfigApply
  <2>5. CASE ConfigApplied
    BY <2>5 DEF ConfigApplied, Rendered, Calling, AgentTypeOK
  <2> QED
    BY <1>4, <2>1, <2>2, <2>3, <2>4, <2>5 DEF PullConfig
<1>5. CASE PullUsers
  BY <1>5 DEF PullUsers, UsersUnreachable, UsersUnchanged, UsersApply, UsersFallback, UsersApplied,
              UsersApplyFailed, WriteUsersSnapshot
<1> QED
  BY <1>1, <1>2, <1>3, <1>4, <1>5 DEF AgentNext, AgentStep

\* What the agent renders has the base it holds.
LEMMA OldBaseOf ==
  ASSUME Rendered, OldBase # None
  PROVE  Old # None /\ Old.base = OldBase
<1>1. OldBase \in GoodBase /\ OldUsers \in GoodUsers
  BY DEF Rendered, OldBase, OldUsers
<1> QED
  BY <1>1, RenderType DEF Old

\* So has the argument of its call.
LEMMA ArgBaseOf ==
  ASSUME Rendered, Calling
  PROVE  arg # None /\ arg.base = appcfg
<1>1. appcfg \in GoodBase /\ runtimeUsers \in GoodUsers
  BY DEF Rendered
<1> QED
  BY <1>1, RenderType DEF Rendered

\* The current file is of the version at hand while the server wants that one.
LEMMA OnDiskStep ==
  ASSUME AInv, [AgentNext]_agentVars
  PROVE  OnDisk'
<1> USE DEF OnDisk, AInv, app, locals, known, server, vars, core, files, call, Await, Returned,
            RuntimeIdle, ConfigDone, UsersDone
<1>1. CASE RuntimeStep
  <2> SUFFICES ASSUME ~Rollback, runtimeVersion # 0, published.cfg = runtimeVersion,
                      current' # current
               PROVE  current' # None /\ current'.base = ConfigOf[runtimeVersion]
    BY <1>1 DEF RuntimeStep
  <2>1. /\ apc \in {"restarting", "users_syncing", "users_applying"} /\ pc # "idle"
        /\ op \in {"apply", "sync"} => Calling
        /\ OldBase = appcfg /\ OldBase # None /\ OldBase = ConfigOf[runtimeVersion]
    <3>1. pc # "idle"
      BY <1>1 DEF RuntimeStep, Validate, WriteCurrent, Restart, Fallback, RestoreCurrent, WriteLastGood, HotSync
    <3>2. apc \in {"boot_starting", "restarting", "config_applying", "users_syncing", "users_applying"}
      BY <3>1 DEF AgentTypeOK
    <3>3. apc # "boot_starting" /\ apc # "config_applying"
      BY DEF BootWhere, BootEmpty, Versions
    <3> QED
      BY <3>1, <3>2, <3>3 DEF Versions, OldBase, AgentTypeOK, Calling
  <2>2. CASE WriteCurrent
    BY <2>1, <2>2, ArgBaseOf DEF WriteCurrent, IInv, CallShape
  <2>3. CASE RestoreCurrent
    BY <2>1, <2>3, OldBaseOf DEF RestoreCurrent, Held, Accepted
  <2> QED
    BY <1>1, <2>2, <2>3 DEF RuntimeStep, Validate, Restart, Fallback, WriteLastGood, HotSync
<1>2. CASE BootSteps
  <2>1. runtimeVersion' = 0 /\ UNCHANGED published
    BY <1>2 DEF BootSteps, Boot, LoadUsersSnapshot, BootRestoreFile, BootStart, BootNothingToStart,
                BootStarted, BootWhere, BootEmpty
  <2> QED
    BY <2>1 DEF AgentTypeOK, Version
<1>3. CASE StartCycle \/ Approve \/ UNCHANGED agentVars
  BY <1>3 DEF StartCycle, Approve, agentVars
<1>4. CASE Publish
  BY <1>4 DEF Publish, AgentTypeOK, Version
<1>5. CASE AgentCrash
  BY <1>5 DEF AgentCrash, AgentTypeOK, Version
<1>6. CASE PullConfig
  <2>1. CASE ConfigUnreachable \/ ConfigUnchanged \/ ConfigRejected \/ ConfigRestarted
    BY <2>1 DEF ConfigUnreachable, ConfigUnchanged, ConfigRejected, ConfigRestarted
  <2>2. CASE ConfigRestart
    BY <2>2 DEF ConfigRestart, StartCall, Enter
  <2>3. CASE ConfigApply
    BY <2>3 DEF ConfigApply, CallApply, Enter
  <2>4. CASE ConfigApplied
    BY <2>4, ArgBaseOf DEF ConfigApplied, Calling, Versions, IInv, OkMeansServed, AgentTypeOK, Version
  <2> QED
    BY <1>6, <2>1, <2>2, <2>3, <2>4 DEF PullConfig
<1>7. CASE PullUsers
  BY <1>7 DEF PullUsers, UsersUnreachable, UsersUnchanged, UsersApply, SyncCall, CallApply, Enter,
              UsersFallback, UsersApplied, UsersApplyFailed, WriteUsersSnapshot
<1> QED
  BY <1>1, <1>2, <1>3, <1>4, <1>5, <1>6, <1>7 DEF AgentNext, AgentStep

\* What is marked applied goes on being served.
LEMMA ServingStep ==
  ASSUME AInv, [AgentNext]_agentVars
  PROVE  Serving'
<1> USE DEF Serving, AInv, app, locals, known, server, status, vars, core, Await, Returned,
            RuntimeIdle, MarkApplied, MarkFailed, ConfigDone, UsersDone
<1>1. CASE RuntimeStep
  <2> SUFFICES ASSUME ~Rollback, applyState = "applied", applied # 0,
                      apc \notin {"config_applying", "restarting", "users_applying"}
               PROVE  instance' # None /\ instance'.base = ConfigOf[applied]
    BY <1>1 DEF RuntimeStep
  <2>1. pc # "idle"
    BY <1>1 DEF RuntimeStep, Validate, WriteCurrent, Restart, Fallback, RestoreCurrent, WriteLastGood, HotSync
  <2>2. apc # "boot_starting"
    BY DEF BootWhere, BootEmpty, Versions
  <2>3. apc = "users_syncing" /\ op = "sync"
    BY <2>1, <2>2 DEF AgentTypeOK
  <2>4. CASE HotSync
    BY <2>3, <2>4, HotSyncType DEF IInv
  <2>5. CASE WriteCurrent \/ WriteLastGood
    BY <2>3, <2>5 DEF WriteCurrent, WriteLastGood
  <2> QED
    BY <1>1, <2>3, <2>4, <2>5 DEF RuntimeStep, Validate, Restart, Fallback, RestoreCurrent, IInv, CallShape
<1>2. CASE BootSteps
  <2>1. applied' = 0
    BY <1>2 DEF BootSteps, Boot, LoadUsersSnapshot, BootRestoreFile, BootStart, BootNothingToStart,
                BootStarted, BootWhere, BootEmpty, Versions
  <2> QED
    BY <2>1
<1>3. CASE StartCycle \/ Publish \/ Approve \/ UNCHANGED agentVars
  BY <1>3 DEF StartCycle, Publish, Approve, agentVars
<1>4. CASE AgentCrash
  BY <1>4 DEF AgentCrash
<1>5. CASE PullConfig
  <2>1. CASE ConfigUnreachable \/ ConfigUnchanged
    BY <2>1 DEF ConfigUnreachable, ConfigUnchanged
  <2>2. CASE ConfigRejected
    BY <2>2 DEF ConfigRejected
  <2>3. CASE ConfigRestart \/ ConfigApply
    BY <2>3 DEF ConfigRestart, ConfigApply
  <2>4. CASE ConfigRestarted
    BY <2>4 DEF ConfigRestarted, Versions, OnDisk, IInv, OkMeansServed, AgentTypeOK
  <2>5. CASE ConfigApplied
    BY <2>5, ArgBaseOf DEF ConfigApplied, Calling, Versions, IInv, OkMeansServed, AgentTypeOK
  <2> QED
    BY <1>5, <2>1, <2>2, <2>3, <2>4, <2>5 DEF PullConfig
<1>6. CASE PullUsers
  <2>1. CASE UsersUnreachable \/ UsersUnchanged \/ WriteUsersSnapshot
    BY <2>1 DEF UsersUnreachable, UsersUnchanged, WriteUsersSnapshot
  <2>2. CASE UsersApply
    BY <2>2 DEF UsersApply, CallApply, SyncCall, Enter
  <2>3. CASE UsersFallback \/ UsersApplyFailed
    BY <2>3 DEF UsersFallback, UsersApplyFailed
  <2>4. CASE UsersApplied
    BY <2>4, ArgBaseOf DEF UsersApplied, Calling, Versions, OldBase, IInv, OkMeansServed, AgentTypeOK
  <2> QED
    BY <1>6, <2>1, <2>2, <2>3, <2>4 DEF PullUsers
<1> QED
  BY <1>1, <1>2, <1>3, <1>4, <1>5, <1>6 DEF AgentNext, AgentStep

\* A call leaves what the agent knows of its boot alone.
LEMMA RuntimeStepFacts ==
  ASSUME AInv, RuntimeStep
  PROVE  /\ UNCHANGED <<apc, booting, restored, appcfg, prevcfg>>
         /\ pc # "idle" /\ arg \in Config /\ arg # None
         /\ apc \in {"boot_starting", "restarting", "config_applying", "users_syncing", "users_applying"}
         /\ apc = "boot_starting" => op = "start"
<1>1. /\ UNCHANGED <<apc, booting, restored, appcfg, prevcfg>> /\ pc # "idle"
  BY DEF RuntimeStep, Validate, WriteCurrent, Restart, Fallback, RestoreCurrent, WriteLastGood,
         HotSync, app, known, locals
<1>2. arg \in Config /\ arg # None
  BY <1>1, ConfigFacts DEF AInv, IInv, CallShape
<1> QED
  BY <1>1, <1>2 DEF AInv, AgentTypeOK

\* Only a failure leaves files without a core after a call.
LEMMA UpRuntimeStep ==
  ASSUME AInv, RuntimeStep
  PROVE  Up'
<1>f. /\ UNCHANGED <<apc, booting, restored>>
      /\ pc # "idle" /\ arg # None
      /\ apc \notin {"off"} /\ (apc = "boot_starting" => op = "start")
  BY RuntimeStepFacts
<1>u. Up
  BY DEF AInv
<1>i. CallShape /\ (failed = {} => lastGood = None \/ lastGood \notin Malformed)
  BY DEF AInv, IInv, InStep, Torn
<1> USE DEF Up, Return, Goto, Builds, BuildFails, Launch, LaunchFails, Note, Calm, core, files, call
<1>1. CASE Validate
  BY <1>f, <1>u, <1>i, <1>1 DEF Validate, CallShape
<1>2. CASE WriteCurrent
  BY <1>f, <1>u, <1>i, <1>2 DEF WriteCurrent, CallShape
<1>3. CASE Restart
  BY <1>f, <1>u, <1>i, <1>3 DEF Restart, CallShape
<1>4. CASE Fallback
  <2>1. failed' = {} /\ lastGood # None => instance' = lastGood /\ pc' = "restore"
    BY <1>i, <1>4 DEF Fallback
  <2>2. UNCHANGED <<current, lastGood>>
    BY <1>4 DEF Fallback
  <2>3. pc' = "idle" \/ pc' = "restore"
    BY <1>4 DEF Fallback
  <2> HIDE DEF Return, Goto, Builds, BuildFails, Launch, LaunchFails, Note, Calm
  <2> QED
    BY <1>f, <1>u, <2>1, <2>2, <2>3
<1>5. CASE RestoreCurrent
  BY <1>f, <1>u, <1>i, <1>5 DEF RestoreCurrent, CallShape
<1>6. CASE WriteLastGood
  BY <1>f, <1>u, <1>i, <1>6 DEF WriteLastGood, CallShape
<1>7. CASE HotSync
  <2>1. instance' # None
    BY <1>7, HotSyncType DEF AInv, IInv
  <2>2. UNCHANGED <<current, lastGood>> /\ apc # "boot_starting"
    BY <1>f, <1>i, <1>7 DEF HotSync, CallShape
  <2> QED
    BY <1>f, <1>u, <2>1, <2>2
<1> QED
  BY <1>1, <1>2, <1>3, <1>4, <1>5, <1>6, <1>7 DEF RuntimeStep

\* Nor does anything else the agent does.
LEMMA UpStep ==
  ASSUME AInv, [AgentNext]_agentVars
  PROVE  Up'
<1> USE DEF Up, app, locals, vars, core, files, call, Await, Returned,
            RuntimeIdle, ConfigDone, UsersDone
<1>u. Up /\ BootWhere /\ AgentTypeOK /\ BootEmpty
  BY DEF AInv
<1>1. CASE RuntimeStep
  BY <1>1, UpRuntimeStep
<1>2. CASE BootSteps
  <2>1. CASE Boot \/ LoadUsersSnapshot \/ BootRestoreFile
    BY <1>u, <2>1 DEF Boot, LoadUsersSnapshot, BootRestoreFile, RestoreFile, BootWhere
  <2>2. CASE BootStart
    BY <1>u, <2>2 DEF BootStart, StartCall, Enter, BootWhere
  <2>3. CASE BootNothingToStart
    BY <1>u, <2>3 DEF BootNothingToStart
  <2>4. CASE BootStarted
    <3>1. ret = "ok" => instance # None
      BY <2>4, <1>u, ConfigFacts DEF BootStarted, AInv, IInv, OkMeansServed, AgentTypeOK, TypeOK
    <3> QED
      BY <1>u, <2>4, <3>1 DEF BootStarted
  <2> QED
    BY <1>2, <2>1, <2>2, <2>3, <2>4 DEF BootSteps
<1>3. CASE StartCycle \/ Publish \/ Approve \/ UNCHANGED agentVars
  BY <1>3, <1>u DEF StartCycle, Publish, Approve, agentVars
<1>4. CASE AgentCrash
  BY <1>4 DEF AgentCrash
<1>5. CASE PullConfig
  <2>1. CASE ConfigUnreachable \/ ConfigRejected
    BY <1>u, <2>1 DEF ConfigUnreachable, ConfigRejected
  <2>2. CASE ConfigUnchanged
    <3>1. ~booting
      BY <1>u, <2>2 DEF ConfigUnchanged, BootEmpty, AgentTypeOK, Version
    <3> QED
      BY <1>u, <2>2, <3>1 DEF ConfigUnchanged, Running
  <2>3. CASE ConfigRestart
    BY <1>u, <2>3 DEF ConfigRestart, StartCall, Enter
  <2>4. CASE ConfigRestarted
    BY <1>u, <2>4 DEF ConfigRestarted, BootWhere
  <2>5. CASE ConfigApply
    BY <1>u, <2>5 DEF ConfigApply, CallApply, Enter
  <2>6. CASE ConfigApplied
    <3>1. ret = "ok" => instance # None /\ current # None
      BY <2>6, <1>u, ArgBaseOf DEF ConfigApplied, AInv, Calling, IInv, OkMeansServed, AgentTypeOK
    <3>2. /\ pc = "idle" /\ UNCHANGED <<instance, current, lastGood, failed, pc, ret, restored>>
          /\ apc' \in {"users", "loop", "restore_file"}
          /\ \/ ret = "ok"
             \/ ret = "err" /\ (booting' <=> booting)
      BY <2>6 DEF ConfigApplied
    <3> QED
      BY <1>u, <2>6, <3>1, <3>2 DEF ConfigApplied
  <2> QED
    BY <1>5, <2>1, <2>2, <2>3, <2>4, <2>5, <2>6 DEF PullConfig
<1>6. CASE PullUsers
  <2>1. CASE UsersUnreachable \/ UsersUnchanged \/ WriteUsersSnapshot
    BY <1>u, <2>1 DEF UsersUnreachable, UsersUnchanged, WriteUsersSnapshot
  <2>2. CASE UsersApply
    BY <1>u, <2>2 DEF UsersApply, CallApply, SyncCall, Enter, Return
  <2>3. CASE UsersFallback
    BY <1>u, <2>3 DEF UsersFallback, CallApply, Enter
  <2>4. CASE UsersApplied \/ UsersApplyFailed
    BY <1>u, <2>4 DEF UsersApplied, UsersApplyFailed
  <2> QED
    BY <1>6, <2>1, <2>2, <2>3, <2>4 DEF PullUsers
<1> QED
  BY <1>1, <1>2, <1>3, <1>4, <1>5, <1>6 DEF AgentNext, AgentStep

\* A call that fails before anything has come from the server leaves the core with
\* the current file, and a restored file last_good.
LEMMA OfflineRuntimeStep ==
  ASSUME AInv, RuntimeStep
  PROVE  Offline'
<1>f. /\ UNCHANGED <<apc, booting, restored, appcfg, prevcfg>> /\ OldBase' = OldBase
      /\ pc # "idle"
      /\ apc \in {"boot_starting", "restarting", "config_applying", "users_syncing", "users_applying"}
      /\ apc = "boot_starting" => op = "start"
  BY RuntimeStepFacts DEF OldBase
<1>o. Offline
  BY DEF AInv
<1>i. CallShape /\ (failed = {} => lastGood = None \/ lastGood \notin Malformed)
  BY DEF AInv, IInv, InStep, Torn
<1>c. OldBase = None /\ ~booting => apc = "config_applying" /\ op = "apply"
  BY <1>f DEF AInv, OldBase, Rendered, Calling, BootWhere, Versions, AgentTypeOK
<1> USE DEF Offline, Accepted, Calling, Return, Goto, Builds, BuildFails, Launch, LaunchFails,
            Note, Calm, core, files, call
<1>1. CASE Validate
  BY <1>f, <1>o, <1>i, <1>c, <1>1 DEF Validate, CallShape
<1>2. CASE WriteCurrent
  BY <1>f, <1>o, <1>i, <1>c, <1>2 DEF WriteCurrent, CallShape
<1>3. CASE Restart
  BY <1>f, <1>o, <1>i, <1>c, <1>3 DEF Restart, CallShape
<1>4. CASE Fallback
  <2>1. failed' = {} /\ lastGood # None => pc' = "restore"
    BY <1>i, <1>4 DEF Fallback
  <2>2. UNCHANGED <<current, lastGood>>
    BY <1>4 DEF Fallback
  <2> HIDE DEF Return, Goto, Builds, BuildFails, Launch, LaunchFails, Note, Calm
  <2> QED
    BY <1>f, <1>o, <2>1, <2>2
<1>5. CASE RestoreCurrent
  BY <1>f, <1>o, <1>i, <1>5 DEF RestoreCurrent, CallShape
<1>6. CASE WriteLastGood
  BY <1>f, <1>o, <1>i, <1>c, <1>6 DEF WriteLastGood, CallShape
<1>7. CASE HotSync
  <2>1. op = "sync" /\ UNCHANGED <<current, lastGood>>
    BY <1>i, <1>7 DEF HotSync, CallShape
  <2> QED
    BY <1>f, <1>o, <1>c, <2>1
<1> QED
  BY <1>1, <1>2, <1>3, <1>4, <1>5, <1>6, <1>7 DEF RuntimeStep

\* Every step keeps Offline.
LEMMA OfflineStep ==
  ASSUME AInv, [AgentNext]_agentVars
  PROVE  Offline'
<1> USE DEF Offline, OldBase, Accepted, Calling, app, locals, known, vars, core, files, call,
            Await, Returned, RuntimeIdle, ConfigDone, UsersDone
<1>u. Offline /\ Up /\ BootWhere /\ AgentTypeOK /\ BootEmpty /\ Versions
  BY DEF AInv
<1>1. CASE RuntimeStep
  BY <1>1, OfflineRuntimeStep
<1>2. CASE BootSteps
  <2>1. CASE Boot
    BY <1>u, <2>1 DEF Boot, Up
  <2>2. CASE LoadUsersSnapshot
    BY <1>u, <2>2 DEF LoadUsersSnapshot, BootWhere
  <2>3. CASE BootRestoreFile
    BY <1>u, <2>3 DEF BootRestoreFile, RestoreFile, BootWhere
  <2>4. CASE BootStart
    BY <1>u, <2>4 DEF BootStart, StartCall, Enter, BootWhere
  <2>5. CASE BootNothingToStart
    BY <1>u, <2>5 DEF BootNothingToStart
  <2>6. CASE BootStarted
    <3>1. ret = "ok" => instance = current
      BY <2>6, <1>u DEF BootStarted, AInv, IInv, OkMeansServed, AgentTypeOK, Up
    <3>2. ret = "err" /\ failed = {} => lastGood = None
      BY <2>6, <1>u DEF BootStarted, Up
    <3> QED
      BY <1>u, <2>6, <3>1, <3>2 DEF BootStarted, BootWhere
  <2> QED
    BY <1>2, <2>1, <2>2, <2>3, <2>4, <2>5, <2>6 DEF BootSteps
<1>3. CASE StartCycle \/ Publish \/ Approve \/ UNCHANGED agentVars
  BY <1>3, <1>u DEF StartCycle, Publish, Approve, agentVars
<1>4. CASE AgentCrash
  BY <1>4 DEF AgentCrash
<1>5. CASE PullConfig
  <2>1. CASE ConfigUnreachable \/ ConfigRejected
    BY <1>u, <2>1 DEF ConfigUnreachable, ConfigRejected
  <2>2. CASE ConfigUnchanged
    <3>1. ~booting
      BY <1>u, <2>2 DEF ConfigUnchanged, BootEmpty, AgentTypeOK, Version
    <3> QED
      BY <1>u, <2>2, <3>1 DEF ConfigUnchanged
  <2>3. CASE ConfigRestart
    <3>1. appcfg' = appcfg /\ appcfg # None /\ apc' = "restarting" /\ ~booting' /\ booting' = booting
      BY <1>u, <2>3 DEF ConfigRestart, Versions, BootEmpty, AgentTypeOK, Version
    <3> QED
      BY <3>1
  <2>4. CASE ConfigRestarted
    <3>1. appcfg # None /\ ~booting
      BY <1>u, <2>4 DEF ConfigRestarted, Versions, BootWhere
    <3> QED
      BY <2>4, <3>1 DEF ConfigRestarted
  <2>5. CASE ConfigApply
    BY <1>u, <2>5 DEF ConfigApply, CallApply, Enter
  <2>6. CASE ConfigApplied
    <3>1. appcfg # None
      BY <2>6 DEF ConfigApplied, AInv, Rendered
    <3> QED
      BY <1>u, <2>6, <3>1 DEF ConfigApplied
  <2> QED
    BY <1>5, <2>1, <2>2, <2>3, <2>4, <2>5, <2>6 DEF PullConfig
<1>6. CASE PullUsers
  <2>1. CASE UsersUnreachable \/ UsersUnchanged \/ WriteUsersSnapshot
    BY <1>u, <2>1 DEF UsersUnreachable, UsersUnchanged, WriteUsersSnapshot
  <2>2. CASE UsersApply
    BY <1>u, <2>2 DEF UsersApply, CallApply, SyncCall, Enter, Return
  <2>3. CASE UsersFallback \/ UsersApplied \/ UsersApplyFailed
    <3>1. appcfg # None /\ ~(restored = "done" /\ booting)
      BY <1>u, <2>3 DEF UsersFallback, UsersApplied, UsersApplyFailed, AInv, Rendered
    <3> QED
      BY <2>3, <3>1 DEF UsersFallback, UsersApplied, UsersApplyFailed
  <2> QED
    BY <1>6, <2>1, <2>2, <2>3 DEF PullUsers
<1> QED
  BY <1>1, <1>2, <1>3, <1>4, <1>5, <1>6 DEF AgentNext, AgentStep

-----------------------------------------------------------------------------
(* The inductive invariant and what follows from it.                       *)

\* Every step keeps the inductive invariant.
LEMMA AInvStep == AInv /\ [AgentNext]_agentVars => AInv'
<1> SUFFICES ASSUME AInv, [AgentNext]_agentVars PROVE AInv'
  OBVIOUS
<1>1. [Next]_vars
  BY StepOfRuntime
<1>2. IInv'
  BY <1>1, IInvStep DEF AInv
<1>3. AgentTypeOK'
  <2>1. TypeOK'
    BY <1>2 DEF IInv
  <2>2. FlagsOK /\ ValuesOK /\ WaitOK
    BY TypeParts DEF AInv
  <2>3. FlagsOK' /\ ValuesOK' /\ WaitOK'
    BY <2>2, FlagsStep, ValuesStep, WaitStep
  <2> QED
    BY <2>1, <2>3 DEF AgentTypeOK, FlagsOK, ValuesOK, WaitOK
<1>4. Rendered' /\ BootWhere' /\ BootEmpty' /\ BootCore'
  BY RenderedStep, BootWhereStep, BootEmptyStep, BootCoreStep DEF AInv, IInv
<1>5. Held' /\ Versions'
  BY <1>4, HeldStep, VersionsStep DEF AInv
<1>6. OnDisk' /\ Serving' /\ Up' /\ Offline'
  BY OnDiskStep, ServingStep, UpStep, OfflineStep
<1> QED
  BY <1>2, <1>3, <1>4, <1>5, <1>6 DEF AInv

\* The inductive invariant holds in every reachable state.
LEMMA AgentInvariance == AgentSpec => []AInv
BY AInvInit, AInvStep, PTL DEF AgentSpec

\* The application's variables keep their types, and its goroutine waits for the
\* call it made, through every failure and crash (app.go).
THEOREM AgentTypeCorrect == AgentSpec => []AgentTypeOK
<1>1. AInv => AgentTypeOK
  BY DEF AInv
<1> QED
  BY <1>1, AgentInvariance, PTL

\* app.go calls runtime.go as runtime.go is specified for: every behaviour of the
\* agent is one of the runtime, so what is proved of the runtime holds in it.
THEOREM ContractKept == AgentSpec => RuntimeContract
<1>1. AgentInit => Init
  BY DEF AgentInit
<1>2. AInv /\ [AgentNext]_agentVars => [Next]_vars
  BY StepOfRuntime
<1> QED
  BY <1>1, <1>2, AgentInvariance, PTL DEF AgentSpec, RuntimeContract, Spec

\* So in every behaviour of the agent, with its own order of calls, its crashes and
\* its server, the runtime keeps its promises, and the two files are the two-slot
\* store: what app.go relies on when it calls Apply, Start and SyncUsers.
THEOREM RuntimePromisesKept ==
  AgentSpec =>
    /\ [](/\ LastGoodWasServed /\ CurrentIsBuildable /\ FailureKeepsService
          /\ RememberedUsersMatch /\ OkMeansServed)
    /\ PromoteOnlyServed /\ RefinesTwoSlots
<1>1. AgentSpec => Spec
  BY ContractKept DEF RuntimeContract
<1> QED
  BY <1>1, LastGoodIsServed, CurrentBuilds, FailureNeverStops, MemoryIsTruth, SuccessIsServed,
     PromotionIsServed, ImplementsTwoSlots, PTL

\* README.md:84.  In the loop, with a configuration loaded and nothing torn, a core
\* that runs has exactly the accounts in the agent's memory.
THEOREM UsersServed == AgentSpec => []UsersInMemoryAreServed
<1>1. AInv => UsersInMemoryAreServed
  BY DEF AInv, Held, Old, OldBase, OldUsers, Accepted, Calling, Syncing, AgentTypeOK, UsersInMemoryAreServed
<1> QED
  BY <1>1, AgentInvariance, PTL

\* README.md:80.  With a server that does not publish an earlier version again, the
\* configuration the agent reports as applied is the one that runs.
THEOREM AppliedIsServed == ASSUME ~Rollback PROVE AgentSpec => []AppliedVersionIsServed
<1>1. AInv => AppliedVersionIsServed
  BY DEF AInv, Serving, AppliedVersionIsServed
<1> QED
  BY <1>1, AgentInvariance, PTL

\* README.md:29.  In its loop an agent that met no failure has its core up if it has a
\* last_good, with or without its server; until something comes from the server it runs
\* the current file, and last_good when the current file was lost.
THEOREM OfflineServed == AgentSpec => []OfflineRunsLastGood
<1>1. AInv => OfflineRunsLastGood
  BY DEF AInv, Up, Offline, OldBase, Accepted, Calling, BootWhere, AgentTypeOK, OfflineRunsLastGood
<1> QED
  BY <1>1, AgentInvariance, PTL

=============================================================================
