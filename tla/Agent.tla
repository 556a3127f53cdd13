------------------------------- MODULE Agent -------------------------------
(***************************************************************************)
(* The agent process (src/internal/app/app.go): it boots from the users    *)
(* snapshot and the configuration files, pulls users and configuration     *)
(* from the control plane, drives the runtime of XrayRuntime with them and *)
(* keeps the status it reports.  Run is one goroutine: a call into the     *)
(* runtime is made from a waiting state (apc) and its result read when the *)
(* runtime is idle again.  The server publishes versions 1, 2, ...; 0 is   *)
(* the empty version.  pulledVersion is always assigned together with      *)
(* appliedVersion, and agentHealth with applyState; one variable stands    *)
(* for each pair.                                                          *)
(***************************************************************************)
EXTENDS XrayRuntime

CONSTANTS
  MaxVersion,     \* bound on the versions the server publishes
  ConfigOf,       \* the base of each configuration version, None if not JSON
  UsersOf,        \* the accounts of each users version, None if not valid
  Unrenderable,   \* bases renderEffectiveRuntimeConfig rejects
  Rollback        \* the server may publish an earlier version again

Version == 1 .. MaxVersion
NoUsers == [s \in Slot |-> None]

\* renderEffectiveRuntimeConfig: the accounts go into the inbounds the base has.
Render(base, table) ==
  [base |-> base,
   users |-> [s \in Slot |-> IF s \in SlotsOf[base] THEN table[s] ELSE None]]

ASSUME VersionAssumption ==
  /\ MaxVersion \in Nat \ {0} /\ Rollback \in BOOLEAN
  /\ ConfigOf \in [Version -> Base \cup {None}]
  /\ UsersOf \in [Version -> Table \cup {None}]
  /\ Unrenderable \subseteq Base
ASSUME RenderAssumption ==
  \A v \in Version, w \in Version :
    ConfigOf[v] \in Base \ Unrenderable =>
      /\ Render(ConfigOf[v], NoUsers) \in Config
      /\ UsersOf[w] # None => Render(ConfigOf[v], UsersOf[w]) \in Config

VARIABLES
  apc,             \* what the goroutine of Run is doing
  booting,         \* Run has not reached its loop yet
  appcfg,          \* a.runtimeConfigJSON
  prevcfg,         \* previousConfig of pullRuntimeConfig
  target,          \* the version the pull in progress received
  runtimeVersion,  \* a.runtimeVersion
  usersVersion,    \* a.usersVersion
  runtimeUsers,    \* a.runtimeUsers
  prevUsers,       \* previousUsers of pullRuntimeUsers
  desired,         \* a.desiredVersion
  applied,         \* a.appliedVersion, a.pulledVersion
  applyState,      \* a.applyState, a.agentHealth
  snapshot,        \* the users snapshot file: [version, users] or None
  published,       \* server: the current versions [cfg, users]
  approved,        \* server: an administrator has approved this process
  token,           \* the client has its process token
  restored,        \* history: what restoreLastGoodConfig did to a lost current file
  clean            \* history: no pull of this cycle returned an error

locals == <<prevcfg, target, prevUsers>>
status == <<desired, applied, applyState>>
known == <<appcfg, runtimeVersion, usersVersion, runtimeUsers>>
server == <<published, approved, token>>
app == <<apc, booting, locals, status, known, snapshot, server, restored, clean>>
agentVars == <<vars, app>>

Running == instance # None

-----------------------------------------------------------------------------
MarkApplied(v) ==
  /\ applyState' = "applied"
  /\ IF v = 0 THEN UNCHANGED <<desired, applied>> ELSE desired' = v /\ applied' = v

\* Mutant: a failure does not touch the state of an earlier success.
MarkFailedQuietly(v) ==
  desired' = (IF v = 0 THEN desired ELSE v) /\ UNCHANGED <<applied, applyState>>

MarkFailed(v) ==
  /\ applyState' = "failed"
  /\ desired' = IF v = 0 THEN desired ELSE v
  /\ UNCHANGED applied

\* Run's order: users then configuration when booting, configuration then users
\* in the loop; a failed configuration pull at boot leads to restoreLastGoodConfig.
ConfigDone(result) ==
  /\ apc' = IF ~booting THEN "users" ELSE IF result = "err" THEN "restore_file" ELSE "loop"
  /\ booting' = (booting /\ result = "err")
  /\ clean' = (clean /\ result = "ok")
  /\ UNCHANGED restored

UsersDone(result) ==
  /\ apc' = IF booting THEN "config" ELSE "loop"
  /\ clean' = (clean /\ result = "ok")
  /\ UNCHANGED <<booting, restored>>

\* The runtime is not called in this step.
RuntimeIdle == pc = "idle" /\ UNCHANGED <<core, files, pc, call, ret, failed>>

\* The runtime is called in this step, or has returned.
Await(state) == apc' = state /\ UNCHANGED <<booting, restored, clean>>
Returned(state, result) == apc = state /\ pc = "idle" /\ ret = result /\ UNCHANGED vars

-----------------------------------------------------------------------------
AgentInit ==
  /\ Init
  /\ apc = "off" /\ booting = FALSE /\ clean = FALSE /\ restored = "none"
  /\ appcfg = None /\ prevcfg = None /\ target = 0
  /\ runtimeVersion = 0 /\ usersVersion = 0
  /\ runtimeUsers = NoUsers /\ prevUsers = NoUsers
  /\ desired = 0 /\ applied = 0 /\ applyState = "pending"
  /\ snapshot = None
  /\ published = [cfg |-> 1, users |-> 1]
  /\ approved = FALSE /\ token = FALSE

\* The client's calls carry the token; without it the server refuses them.
CallFails == IF token THEN Fault("rpc") ELSE NoFault

\* RegisterAgent: the answer has a token if the process is approved by then.
RegisterAgent == NoFault /\ token' = (token \/ approved)

\* The process starts.  Registration is tried once, and Run goes on whatever
\* comes of it.
Boot ==
  /\ apc = "off"
  /\ RuntimeIdle
  /\ \/ RegisterAgent
     \/ Fault("rpc") /\ UNCHANGED token
  /\ apc' = "load" /\ booting' = TRUE
  /\ UNCHANGED <<locals, status, known, snapshot, published, approved, restored, clean>>

\* loadRuntimeUsersSnapshot.
LoadUsersSnapshot ==
  /\ apc = "load"
  /\ RuntimeIdle
  /\ \/ /\ snapshot # None /\ NoFault
        /\ usersVersion' = snapshot.version /\ runtimeUsers' = snapshot.users
     \/ /\ \/ snapshot = None /\ NoFault
           \/ snapshot # None /\ Fault("disk")
        /\ UNCHANGED <<usersVersion, runtimeUsers>>
  /\ apc' = "users"
  /\ UNCHANGED <<booting, locals, status, appcfg, runtimeVersion, snapshot, server, restored,
                 clean>>

\* A tick of pullTicker, or an event of the watch stream.
StartCycle ==
  /\ apc = "loop"
  /\ RuntimeIdle /\ NoFault
  /\ apc' = "config" /\ clean' = TRUE
  /\ UNCHANGED <<booting, locals, status, known, snapshot, server, restored>>

-----------------------------------------------------------------------------
(* pullRuntimeConfig.                                                      *)

ConfigUnreachable ==
  /\ apc = "config"
  /\ RuntimeIdle /\ CallFails
  /\ ConfigDone("err")
  /\ UNCHANGED <<locals, status, known, snapshot, server>>

ConfigUnchanged ==
  /\ apc = "config"
  /\ token /\ published.cfg = runtimeVersion /\ Running
  /\ desired' = published.cfg
  /\ RuntimeIdle /\ NoFault
  /\ ConfigDone("ok")
  /\ UNCHANGED <<locals, applied, applyState, known, snapshot, server>>

\* Unchanged, but the core is down.  The current file exists by then.
ConfigRestart ==
  /\ apc = "config"
  /\ token /\ published.cfg = runtimeVersion /\ ~Running
  /\ desired' = published.cfg /\ target' = published.cfg
  /\ StartCall
  /\ Await("restarting")
  /\ UNCHANGED <<prevcfg, prevUsers, applied, applyState, known, snapshot, server>>

ConfigRestarted ==
  /\ \/ Returned("restarting", "ok") /\ MarkApplied(target) /\ ConfigDone("ok")
     \/ Returned("restarting", "err") /\ MarkFailed(target) /\ ConfigDone("err")
  /\ UNCHANGED <<locals, known, snapshot, server>>

\* Not JSON, or an asset that cannot be downloaded, or a base that cannot be
\* rendered: rejected before the runtime hears of it.
ConfigRejected ==
  /\ apc = "config"
  /\ token /\ published.cfg # runtimeVersion
  /\ RuntimeIdle
  /\ \/ ConfigOf[published.cfg] \in Unrenderable \cup {None} /\ NoFault
     \/ ConfigOf[published.cfg] # None /\ Fault("geodata")
  /\ MarkFailed(published.cfg)
  /\ ConfigDone("err")
  /\ UNCHANGED <<locals, known, snapshot, server>>

ConfigApply ==
  /\ apc = "config"
  /\ token /\ published.cfg # runtimeVersion
  /\ ConfigOf[published.cfg] \notin Unrenderable \cup {None}
  /\ desired' = published.cfg /\ target' = published.cfg
  /\ prevcfg' = appcfg /\ appcfg' = ConfigOf[published.cfg]
  /\ CallApply(Render(ConfigOf[published.cfg], runtimeUsers))
  /\ Await("config_applying")
  /\ UNCHANGED <<prevUsers, applied, applyState, runtimeVersion, usersVersion,
                 runtimeUsers, snapshot, server>>

\* Mutant: a failed Apply keeps the new runtimeConfigJSON.
ConfigAppliedNoUndo ==
  /\ \/ /\ Returned("config_applying", "ok")
        /\ runtimeVersion' = target /\ MarkApplied(target) /\ ConfigDone("ok")
     \/ /\ Returned("config_applying", "err") /\ UNCHANGED runtimeVersion
        /\ MarkFailed(target) /\ ConfigDone("err")
  /\ UNCHANGED <<appcfg, locals, usersVersion, runtimeUsers, snapshot, server>>

\* Mutant: the version is remembered before the outcome is known.
ConfigAppliedAnyway ==
  /\ \/ Returned("config_applying", "ok") /\ UNCHANGED appcfg
        /\ MarkApplied(target) /\ ConfigDone("ok")
     \/ Returned("config_applying", "err") /\ appcfg' = prevcfg
        /\ MarkFailed(target) /\ ConfigDone("err")
  /\ runtimeVersion' = target
  /\ UNCHANGED <<locals, usersVersion, runtimeUsers, snapshot, server>>

ConfigApplied ==
  /\ \/ /\ Returned("config_applying", "ok")
        /\ runtimeVersion' = target /\ UNCHANGED appcfg
        /\ MarkApplied(target) /\ ConfigDone("ok")
     \/ /\ Returned("config_applying", "err")
        /\ appcfg' = prevcfg /\ UNCHANGED runtimeVersion
        /\ MarkFailed(target) /\ ConfigDone("err")
  /\ UNCHANGED <<locals, usersVersion, runtimeUsers, snapshot, server>>

\* Mutant: a lost current file is not restored, and Run finds nothing to start.
BootSkipsRestore ==
  /\ apc = "restore_file"
  /\ RuntimeIdle /\ NoFault
  /\ current = None /\ lastGood # None
  /\ apc' = "loop" /\ booting' = FALSE
  /\ UNCHANGED <<restored, clean, locals, status, known, snapshot, server>>

\* restoreLastGoodConfig, then startXrayFromCurrent if there is a current file.
BootRestoreFile ==
  /\ apc = "restore_file"
  /\ RestoreFile
  /\ restored' = "done"
  /\ UNCHANGED <<apc, booting, clean, locals, status, known, snapshot, server>>

BootStart ==
  /\ apc = "restore_file"
  /\ current # None
  /\ StartCall
  /\ Await("boot_starting")
  /\ UNCHANGED <<locals, status, known, snapshot, server>>

BootNothingToStart ==
  /\ apc = "restore_file"
  /\ RuntimeIdle
  /\ current = None
  /\ \/ lastGood = None /\ NoFault /\ UNCHANGED restored
     \/ lastGood # None /\ Fault("disk") /\ restored' = "failed"
  /\ apc' = "loop" /\ booting' = FALSE
  /\ UNCHANGED <<clean, locals, status, known, snapshot, server>>

BootStarted ==
  /\ \/ Returned("boot_starting", "ok") /\ MarkApplied(runtimeVersion)
     \/ Returned("boot_starting", "err") /\ MarkFailed(runtimeVersion)
  /\ apc' = "loop" /\ booting' = FALSE
  /\ UNCHANGED <<restored, clean, locals, known, snapshot, server>>

-----------------------------------------------------------------------------
(* pullRuntimeUsers, with applyRuntimeUsers and syncRuntimeUsers.          *)

\* The call fails, or the list is not valid: nothing changes, not even status.
UsersUnreachable ==
  /\ apc = "users"
  /\ RuntimeIdle
  /\ \/ CallFails
     \/ token /\ published.users # usersVersion /\ UsersOf[published.users] = None /\ NoFault
  /\ UsersDone("err")
  /\ UNCHANGED <<locals, status, known, snapshot, server>>

UsersUnchanged ==
  /\ apc = "users"
  /\ token /\ published.users = usersVersion
  /\ RuntimeIdle /\ NoFault
  /\ UsersDone("ok")
  /\ UNCHANGED <<locals, status, known, snapshot, server>>

\* Without a loaded configuration there is nothing to apply: straight to the
\* snapshot.  A core that is down gets a full Apply, a running one a hot sync.
UsersApply ==
  /\ apc = "users"
  /\ token /\ published.users # usersVersion /\ UsersOf[published.users] # None
  /\ target' = published.users
  /\ prevUsers' = runtimeUsers /\ runtimeUsers' = UsersOf[published.users]
  /\ \/ appcfg = None /\ RuntimeIdle /\ NoFault /\ Await("users_snapshot")
     \/ /\ appcfg # None /\ Running
        /\ SyncCall(Render(appcfg, UsersOf[published.users]))
        /\ Await("users_syncing")
     \/ /\ appcfg # None /\ ~Running
        /\ CallApply(Render(appcfg, UsersOf[published.users]))
        /\ Await("users_applying")
  /\ UNCHANGED <<prevcfg, status, appcfg, runtimeVersion, usersVersion, snapshot, server>>

\* Mutant: the fallback tries the hot sync once more.
FallbackSyncsAgain ==
  /\ apc = "users_syncing" /\ ret = "err"
  /\ SyncCall(Render(appcfg, runtimeUsers))
  /\ Await("users_applying")
  /\ UNCHANGED <<locals, status, known, snapshot, server>>

\* The hot sync failed: fall back to a full Apply.
UsersFallback ==
  /\ apc = "users_syncing" /\ ret = "err"
  /\ CallApply(Render(appcfg, runtimeUsers))
  /\ Await("users_applying")
  /\ UNCHANGED <<locals, status, known, snapshot, server>>

UsersApplied ==
  /\ \/ Returned("users_syncing", "ok")
     \/ Returned("users_applying", "ok")
  /\ Await("users_snapshot")
  /\ UNCHANGED <<locals, status, known, snapshot, server>>

\* Mutant: the users that failed are kept.
UsersFailedNoUndo ==
  /\ Returned("users_applying", "err")
  /\ MarkFailed(runtimeVersion)
  /\ UsersDone("err")
  /\ UNCHANGED <<locals, known, snapshot, server>>

UsersApplyFailed ==
  /\ Returned("users_applying", "err")
  /\ runtimeUsers' = prevUsers
  /\ MarkFailed(runtimeVersion)
  /\ UsersDone("err")
  /\ UNCHANGED <<locals, appcfg, runtimeVersion, usersVersion, snapshot, server>>

\* The users are in the core; a snapshot that cannot be written leaves the old
\* version number beside the new users.
WriteUsersSnapshot ==
  /\ apc = "users_snapshot"
  /\ RuntimeIdle
  /\ \/ /\ NoFault
        /\ snapshot' = [version |-> target, users |-> runtimeUsers]
        /\ usersVersion' = target
        /\ UsersDone("ok")
     \/ Fault("disk") /\ UsersDone("err") /\ UNCHANGED <<snapshot, usersVersion>>
  /\ UNCHANGED <<locals, status, appcfg, runtimeVersion, runtimeUsers, server>>

-----------------------------------------------------------------------------
\* The rest of the runtime's current call.
RuntimeStep ==
  /\ \/ Validate \/ WriteCurrent \/ Restart \/ Fallback \/ RestoreCurrent
     \/ WriteLastGood \/ HotSync
  /\ UNCHANGED app

\* Server.  The agent reads a version in one step, so publishing while the
\* runtime works would be no different from publishing just after.
Publish ==
  /\ apc \in {"off", "loop", "config", "users"}
  /\ \E v \in Version :
       \/ /\ v # published.cfg /\ v < published.cfg => Rollback
          /\ published' = [published EXCEPT !.cfg = v]
       \/ /\ v # published.users /\ v < published.users => Rollback
          /\ published' = [published EXCEPT !.users = v]
  /\ UNCHANGED <<vars, apc, booting, locals, status, known, snapshot, approved, token,
                 restored, clean>>

\* Server: an administrator approves the process.  Only Boot reads it.
Approve ==
  /\ ~approved /\ approved' = TRUE
  /\ apc \in {"off", "loop"}
  /\ UNCHANGED <<vars, apc, booting, locals, status, known, snapshot, published, token,
                 restored, clean>>

\* A crash or a shutdown; the snapshot file survives.
AgentCrash ==
  /\ Crash
  /\ apc # "off"
  /\ apc' = "off" /\ booting' = FALSE /\ clean' = FALSE /\ restored' = "none"
  /\ appcfg' = None /\ prevcfg' = None /\ target' = 0
  /\ runtimeVersion' = 0 /\ usersVersion' = 0
  /\ runtimeUsers' = NoUsers /\ prevUsers' = NoUsers
  /\ desired' = 0 /\ applied' = 0 /\ applyState' = "pending"
  /\ token' = FALSE
  /\ UNCHANGED <<snapshot, published, approved>>

PullConfig ==
  ConfigUnreachable \/ ConfigUnchanged \/ ConfigRestart \/ ConfigRestarted
    \/ ConfigRejected \/ ConfigApply \/ ConfigApplied
PullUsers ==
  UsersUnreachable \/ UsersUnchanged \/ UsersApply \/ UsersFallback
    \/ UsersApplied \/ UsersApplyFailed \/ WriteUsersSnapshot
BootSteps ==
  Boot \/ LoadUsersSnapshot \/ BootRestoreFile \/ BootStart \/ BootNothingToStart \/ BootStarted

\* What the process does by itself.
AgentStep == BootSteps \/ StartCycle \/ PullConfig \/ PullUsers \/ RuntimeStep

AgentNext == AgentStep \/ Publish \/ Approve \/ AgentCrash

AgentSpec == AgentInit /\ [][AgentNext]_agentVars

\* Run never blocks for good: every call it makes returns or times out, and the
\* pull ticker always ticks again.
FairAgentSpec == AgentSpec /\ WF_agentVars(AgentStep)

-----------------------------------------------------------------------------
(* Properties.                                                             *)

\* The type of the application's variables; when the goroutine waits for the
\* runtime, the call it waits for is the one it made.
AgentTypeOK ==
  /\ TypeOK
  /\ apc \in {"off", "load", "loop", "config", "users", "users_snapshot", "restore_file",
              "boot_starting", "restarting", "config_applying", "users_syncing", "users_applying"}
  /\ {booting, clean, approved, token} \subseteq BOOLEAN /\ restored \in {"none", "done", "failed"}
  /\ appcfg \in Base \cup {None} /\ prevcfg \in Base \cup {None}
  /\ {target, runtimeVersion, usersVersion, desired, applied} \subseteq 0 .. MaxVersion
  /\ runtimeUsers \in Table /\ prevUsers \in Table
  /\ applyState \in {"pending", "applied", "failed"}
  /\ snapshot = None \/ snapshot \in [version : Version, users : Table]
  /\ published \in [cfg : Version, users : Version]
  /\ apc \in {"config_applying", "users_applying"} => op = "apply"
  /\ apc = "users_syncing" => op = "sync"
  /\ apc \in {"restarting", "boot_starting"} => op = "start"
  /\ apc \in {"off", "load", "loop", "config", "users", "users_snapshot", "restore_file"}
       => pc = "idle"
  /\ apc \in {"restarting", "config_applying", "users_syncing", "users_applying", "users_snapshot"}
       => target # 0
  /\ token => approved /\ apc # "off"

\* The calls the application makes are the calls the runtime is specified for:
\* it syncs users only onto a base that was served (and, when the files agree
\* with the instance, that is served now), and restarts only what is down.
RuntimeContract == Spec

\* README.md:80, a successful application is reported as applied: whenever the
\* agent reports configuration version v as applied, the core is up and serves
\* the base of version v, whatever failed or crashed in between.
AppliedVersionIsServed ==
  apc = "loop" /\ applyState = "applied" /\ applied # 0
    => instance # None /\ instance.base = ConfigOf[applied]

\* README.md:84: the accounts the agent has in memory are those of the running
\* core, once a configuration is loaded and unless a hot change or a write is cut
\* half-way: users that could not be applied are taken back.
UsersInMemoryAreServed ==
  apc = "loop" /\ appcfg # None /\ instance # None /\ ~Torn
    => instance = Render(appcfg, runtimeUsers)

\* README.md:29: an agent that cannot reach its server runs last_good.  Once Run
\* reaches its loop and there is a last_good, the core is up; and while nothing has
\* come from the server, it serves the current file, which is last_good itself if
\* the current file was lost.  The exceptions: a build or a start failed, something
\* is torn, or restoreLastGoodConfig could not write the current file.
OfflineRunsLastGood ==
  apc = "loop" /\ lastGood # None /\ failed = {} /\ restored # "failed" =>
    /\ instance # None
    /\ appcfg = None => instance = IF restored = "done" THEN lastGood ELSE current

\* README.md:80: a cycle in which both pulls succeed leaves the status applied.
CleanCycleReportsApplied == apc = "loop" /\ clean => applyState = "applied"

\* README.md:80: applied means that what the server wants is applied.
AppliedIsDesired == apc = "loop" /\ applyState = "applied" => applied = desired

\* The server's current versions are loaded and served.
ServesPublished ==
  /\ runtimeVersion = published.cfg /\ usersVersion = published.users
  /\ instance = Render(ConfigOf[published.cfg], UsersOf[published.users])

\* README.md:16: once an administrator approved the process it gets its token,
\* which every later call carries.
ApprovedGetsToken == approved ~> token

\* Whatever failed, and wherever it crashed: if the last versions published are
\* good ones, the agent ends up serving them for good, without help, unless it
\* stays without a token (only a restart registers it again) or torn (nothing
\* makes it apply again what it believes is served).
Converges ==
  /\ []<>token
  /\ []<>(/\ ConfigOf[published.cfg] \in Base \ Unrenderable
          /\ UsersOf[published.users] # None
          /\ Render(ConfigOf[published.cfg], UsersOf[published.users]) \notin Malformed)
  /\ []<>~Torn
  => <>[]ServesPublished

=============================================================================
