# A verification development of the moment xray agent

The agent (`src/`, Go) embeds xray-core, pulls a runtime configuration and a
list of users from a control plane, keeps the core running with them and reports
traffic, online users and its own status. This directory holds TLA+ models of
the agent, their TLC runs and theorems proved with TLAPS. `PROJECT.json` lists
the components, the runs, the source lines each definition stands for, the
hazards and the findings.

## Inventory

| component | state | operations | what makes it correct |
| --- | --- | --- | --- |
| Xray runtime, `internal/xray/runtime.go` | the instance, the remembered users, `current.json`, `last_good.json` | `Apply`, `Start`, `Stop`, `Running` | a failed call leaves a core running; `last_good` is a configuration that ran; success means that what was asked is served |
| user hot sync, `internal/xray/user_sync.go` | `r.users` (shared with the runtime), the core's own user tables | `SyncUsers`: extract, diff, remove, add | the core ends with exactly the target accounts; the remembered table is the core's table |
| agent loop, `internal/app/app.go` | loaded configuration and users with their versions, applied and desired version, apply state, health, users snapshot file | boot, `pullRuntimeConfig`, `pullRuntimeUsers`, status reports | what is reported as applied is served; it converges to what the server wants; without the server it runs `last_good` |
| watch stream, `watchRuntimeChanges` and `serverclient` `WatchRuntime` | known version, one-place channel | open, receive, drop, reconnect | no change goes unnoticed, though notices are dropped and filtered |
| traffic collector, `internal/xray/stats.go` | cursor in memory and on disk, pending values | `Collect`, `Commit` | nothing billed twice, nothing lost |
| online users, `internal/app/online_users.go` | when each subscription was last seen | `Observe`, `Count` | exactly those active within the window are counted |
| effective configuration, `internal/app/xray_runtime.go` | none | injects users, API inbound, route, policy and log | every account goes to every inbound that has accounts; the API stays reachable |
| geodata assets, `internal/app/geodata.go` | asset files | download, verify, replace | a version runs with the files it lists; `last_good` can still be started |
| RPC client, `internal/serverclient/client.go` | process identity and token | one request per operation | a call that fails may have had its effect; late ones do not mislead the server for good |
| enrollment, `registerAgentProcess` | token, process id | once, at boot | an approved process gets its token, and every later call carries it |
| status collector, `internal/status/collector.go` | last CPU sample | `Collect` | the CPU load is the share of busy ticks, whatever the counters do; one failed reading does not lose the report |
| configuration, logging, main | none | environment, log files, wiring | - |

How they interact. `Run` is one goroutine: a `select` over the watch channel, the
pull, status and traffic tickers. Every call into the runtime, the collector and
the tracker is made from it, so those calls do not overlap. Three things run
beside it: the watcher goroutine, which shares only the channel and
`a.runtimeVersion` with it; the embedded core, which counts traffic at any moment;
and the control plane, which publishes at any moment. What is hard:

- each call is a sequence of writes, restarts and hot changes, any of which may
  fail or be the last thing the process does;
- the two configuration files, the remembered users, the core's own tables, the
  users snapshot and the reported versions are six copies of the same facts;
- reports are lost with or without their effect, or arrive after newer ones; cursors are older
  than counters;
- geodata files are replaced one by one, before it is known whether the version that wants
  them will be accepted;
- the watch channel drops, the snapshot filter hides, and the watcher reads a
  version the main loop may be assigning.

## Modules

| module | models | source |
| --- | --- | --- |
| `XrayRuntime` | runtime and hot sync, one action per step of a call | `runtime.go`, `user_sync.go` |
| `TwoSlots` | abstract: what the two files promise | - |
| `XrayRuntimeProofs` | theorems about `XrayRuntime` | - |
| `Agent` | extends `XrayRuntime` with enrollment and the agent loop | `app.go`, `client.go` |
| `AgentProofs` | theorems about `Agent`, from those about `XrayRuntime` | - |
| `Traffic` | collector, cursor file, tracker, reports | `stats.go`, `online_users.go`, `app.go` |
| `Billing` | abstract: what traffic reporting promises of the bill | - |
| `TrafficProofs` | theorems about `Traffic` | - |
| `RuntimeWatch` | watcher, channel, stream and main loop | `app.go`, `client.go` |
| `RuntimeWatchProofs` | theorems about `RuntimeWatch` | - |
| `Geodata` | the asset files and the list that is worked off | `geodata.go` |
| `EffectiveConfig` | extends `Geodata` with rendering and what it gives to the core | `xray_runtime.go`, `user_sync.go`, `app.go` |
| `EffectiveConfigProofs` | theorems about geodata in `EffectiveConfig` | - |
| `RenderingProofs` | theorems about rendering, hot changes and the API in `EffectiveConfig` | - |
| `Status` | the host's load, what is reported of the agent, and what the server makes of it | `collector.go`, `app.go`, `client.go` |
| `StatusProofs` | theorems about `Status` | - |
| `MC...` | small instances for TLC | - |

Operators named in comments as mutants are broken variants of the definition
that follows them. No specification uses them; each property has at least one
that violates it.

### XrayRuntime

A configuration is `[base, users]`: `base` is everything but the accounts,
`users` maps a slot (inbound tag and e-mail) to an account (the fingerprint) or
`None`. `instance` is what the core serves, `users` is `r.users` (`None` when
`supported` is false), `current` and `lastGood` are the two files. `pc` is the
step a call has reached:

- `Apply`: `CallApply`, `Validate`, `WriteCurrent`, `Restart`, then either
  `WriteLastGood`, or `Fallback` and `RestoreCurrent`;
- `Start`: `CallStart`, `Restart`, perhaps `Fallback` and `RestoreCurrent`;
- `SyncUsers`: `CallSync`, `HotSync`, `WriteCurrent`, `WriteLastGood`.

`Apply` and `Start` share `restart` and `startLastGood` in the code and here.
`WriteLastGood` sets `r.users` as both callers do. `HotSync` covers the empty
change set (the code's own branch for it does the same writes). The removals are
made in sorted order and then the additions; the model lets the failing one be
any, so a partial change is any subset of the removals with no addition, or all
removals with any subset of the additions: more than one sorted order would give,
never less.

Whether a configuration builds is a fact about it (`Malformed`); `Undecodable`
are those whose users cannot even be extracted. A malformed configuration may
still be decodable (a key of the wrong length is met when the account is added),
and then `SyncUsers` meets it in the middle of its additions. Everything else
that can go wrong costs one of `MaxFaults` faults of a kind in `Faults`: a build
that fails for an outside reason, a start (a port in use), a hot change, a disk
write, a crash or shutdown, a current file lost meanwhile.

`failed` is a history variable: what went wrong since instance, memory and files
last agreed. `build` and `start` are noted for what they are; `sync`, `disk` and
`fallback` say that a hot change or a write was cut half-way, or that an `Apply`
could not even fall back. While one of these three is in it the runtime is
`Torn`: memory, instance and files may disagree, and the properties say what still
holds then and what does not. A successful fallback to `last_good` takes the three
out, a successful `Apply` or `SyncUsers` whose configuration is what runs clears
all of it. No guard of an operation reads `failed`; `StartAllowed` and
`SyncAllowed` read it to say what is assumed of the caller of the runtime, and
`RuntimeContract` shows that the agent keeps to it.

### Agent

`apc` is what the goroutine of `Run` does: `off`, `load` (the users snapshot, after the
registration), `users` and `config` (about to pull), a state per runtime call it waits
for, `users_snapshot`, `restore_file`, `loop`. A call into the runtime is the conjunction of the agent's assignments
before the call and `CallApply`, `SyncCall` or `StartCall`; `RuntimeStep` runs
the call, and the agent continues when `pc` is `idle`, with the returned `ret`.
At boot the order is users, then configuration; in the loop it is the other way
round, as in the code.

Enrollment is part of it: `Boot` registers the process once and goes on whatever
comes of it; the answer carries the token if an administrator has approved the process by
then (`approved`, changed by `Approve`). `CallFails` is every call without a token, and any
call with one that meets a fault. A restart forgets the token and registers again.

Abstractions: `pulledVersion` is always assigned together with `appliedVersion`
and `agentHealth` with `applyState`, so one variable stands for each pair;
published versions are numbers with fixed contents; a server that rolls back
(`Rollback`) may publish an earlier one again; the content of a status report is here, its
delivery in `Status`; nobody disables the runtime (`a.xray == nil`) or the
client. `restored` is history: whether `restoreLastGoodConfig` replaced a lost current file in
this boot, or failed to. Whether a user is active at the time of rendering is part of `UsersOf`:
expiry by the clock between two renderings is in `EffectiveConfig`.

### Traffic

`value` is what the core counts, `cursor` and `pending` the collector's maps
(a missing entry is 0 in `cursor`, and the cursor's in `pending`, which is what
merging does), `cursorFile` the saved copy. `phase` is how far `reportTraffic`
has come; traffic and crashes fall between the phases. `ack` is a report that
reaches the server while its answer does not. A stat the core has not created
yet is absent from `live`. `Billing` is the same seen from the server: what each counter owes
(`Unreported`), what reports took off it, and whether the core was cut off. Time is counted in traffic intervals. It goes on in every
phase and whether or not the last interval was collected (`Tick`), since `Run` may be busy for
several intervals with downloads and calls; the ticker keeps one tick for it (`due`) and drops
the others. What a late collection finds is stamped with the time of that collection
(`Observe`), so the tracker's times say when traffic was seen and not when it was.
`collected`, `committed` and `foundSince` are history: when the last collection was, when the last
one that was committed was, and what the latter was when a subscription was seen.

### RuntimeWatch

The watcher and the main loop are interleaved at every read, send and
assignment. The unsynchronised read of `a.runtimeVersion` yields the old value,
the new one or `Torn`, a value nobody wrote, when it falls into the assignment.
The main loop's pulls are split at the answer from the server, the assignment of
the version and the users pull. The content of a notice is only logged, so the
channel holds a number.

### Geodata and EffectiveConfig

The functions of `xray_runtime.go` on configurations reduced to inbounds with
their accounts, routing rules, the policy levels whose users are counted and the geodata
they need (`Configuration`), one operator per function. A loop that skips elements of a list
is `Kept(list, positions)`. The server's configurations may be any (`Raw`), and its lists any of
users with a positive subscription (`UserList`): a subscription may be listed twice, an expiry
may be negative, which like 0 means none (`xray_runtime.go:248`). The state around them is what the agent holds
(`raw`, `users`), what it wrote (`effective`, both files) and what the core serves (`core`:
a set of accounts with their tags, the rest of the configuration it was started from, `Bare`,
and the geodata it was built with).
`PullUsers` reaches the core by a hot sync or by a restart; `RestartOffline` starts the
file as it was written, without rendering it again. `Agent` takes a
rendered configuration for a pair of a base and a table of accounts;
`HotLikeRestart` is what justifies that: whatever led there, the base and the table of the core
are those of the files, unless the core was started with a subscription listed twice. The port of the API is valid and
`InjectAPI` is set in the run. Log settings and the traffic statistics of inbounds and
outbounds are left out; so is a shadowsocks inbound without users, which the core
reads as one for a single unnamed user.

What the core makes of an e-mail twice in one inbound is external and depends on the protocol.
`EmailKeyed` are the protocols that refuse it at the start: any in the theorems, those with
`clients` (vless, vmess, trojan) in the run. The others start with both accounts, which the
history field `doubled` of `core` remembers. A removal names an e-mail, so in such a core a hot
change may leave some of the accounts it meant to remove (`Patched`); all others know an e-mail
once, and lose what the diff names.

A new configuration first brings its geodata (`PullConfig`, then `SyncGeodata` once per
listed asset, then `ApplyPulled`). `Geodata` holds the files (`assets`, contents are
identified with their checksums) and the rest of the list (`todo`). A URL may answer with
any content; one that does not have the listed checksum is discarded. `SyncFails`, a
refused configuration and `RestartOffline` may end the pull at any asset, and what was
replaced by then stays (`touched`). Whether the core can be built with the files on disk is
a fact about the configuration (`needs`).

### Status

`total` and `idle` are the host's counters, modulo `Width`; `since` remembers the ticks
since the collector's sample, so that the reported share can be compared with the truth.
`Work`, `Rest` and `TakeBack` (the kernel may lower iowait) move them. A percentage is
kept as the fraction it is computed from. `status` is what `app.go` marks: `ConfigDone` and
`UsersDone` are followed by a report, `BootStarted` and `Unchanged` are the two changes
that are not. `Report` is `reportStatus`: it collects (any of the readings may fail, those
in `Masked` always do), copies the status and sends; `Answered` and `Unanswered` end the
call, and what a failed call was carrying is lost, was received, or is received later
(`late`, `ArrivesLate`). `unseen` says that something happened that the server was not told at once.
`Ticks` are enabled only when a reading is due: nothing else can tell when they happened.

## Runs

All runs use two workers and end within three minutes. Deadlock is checked in all of
them.

| run | what it shows | bounds |
| --- | --- | --- |
| `Runtime` | through every failure and crash: `last_good` ran (`LastGoodWasServed`), a validated current file builds (`CurrentIsBuildable`), a failed call leaves a core running (`FailureKeepsService`), success means what was asked is served and on disk (`OkMeansServed`), memory is the core's table (`RememberedUsersMatch`), `last_good` receives only what runs (`PromoteOnlyServed`), and the runtime implements `TwoSlots` (`RefinesTwoSlots`) | 6 configurations over 3 bases (one without hot users, two malformed), 2 slots, 2 accounts, 2 failures |
| `AgentSafety` | the users in memory are those of the core (`UsersInMemoryAreServed`), `Run` enters its loop with a core if there is a `last_good`, also when the current file was lost, and what runs without a loaded configuration is the current file, or `last_good` where it had to be restored (`OfflineRunsLastGood`), the calls are those the runtime is specified for (`RuntimeContract`) | 3 versions of both kinds with rollbacks, one base that never builds, one users list that is not valid, one account the core refuses, no validation, 2 failures of any kind |
| `AgentConverges` | `AppliedVersionIsServed`, and `Converges` under fairness | 3 versions of both kinds that only grow, one configuration that is not JSON, an account one base refuses, validation, 3 failures of any kind, an approval at any time |
| `Traffic` | `NeverOverbilled`, `NothingLost`, `OnlineMeansActive`, `ActiveMeansOnline`, reporting implements `Billing` (`RefinesBilling`), and `EventuallyReported` under fairness | 1 subscription with 2 counters, 2 units of traffic up and 1 down, window 2, 4 intervals, 2 failures of any kind |
| `Rendering` | the core serves exactly the users active at the last rendering, however they got there (`CoreServesActiveUsers`), and hot changes never bring an e-mail twice into an inbound (`OneAccountPerEmail`); a core changed hot is like one restarted with the files (`HotLikeRestart`); the API is reachable whatever the server sends (`ApiReachable`); a hot change leaves nothing but accounts to change (`OnlyAccountsDiffer`); a version runs with the geodata it lists (`VersionHasItsGeodata`), no other content gets there (`OnlyListedGeodata`), and what the files hold can be started unless a rejected or interrupted pull replaced a file it needs (`OfflineCanStart`) | 5 configurations (inbounds with the tag of the API, untagged, of one tag, not renderable; of protocols that refuse an e-mail twice and of others; rules that name the API inbound alone, beside others and by naming none; lists with and without checksums, one naming a file twice, one with an invalid asset), 2 files with 3 contents, 5 user lists (a changed key, disabled, expiring, never expiring, repeated), clock to 3 |
| `Watch` | `ConfigNoticed`, `UsersNoticed`, and `EventuallySeen` under fairness | 3 versions of both kinds, 3 broken streams or failed pulls |
| `Status` | no percentage exceeds 100 and the CPU's is exact (`LoadIsTrue`), what became of an application is known to the server after its report (`ChangesAreReported`), and `EventuallySeen` under fairness | counters modulo 3 starting anywhere, memory and disk of size 0 or 1, memory never readable, 2 versions, 2 changes of status, 2 failed readings, failed calls or restarts |

Each run also checks the type invariant of its module.

A property that cannot hold through every failure names, in a history variable, the
failures after which it need not: `failed` of `XrayRuntime`, `met` of `Traffic`,
`missed` of `RuntimeWatch`. The same run therefore takes all failures and the
property is about every state in which the named ones have not happened (or have
been made good since).

Why the bounds are enough to be interesting. The hazards of the runtime need a
configuration that was served, one that follows and one to fall back to, a hot
change that binds, unbinds and rebinds a slot (two accounts, two slots), and a
failure during the recovery from a failure (two failures). Three versions let the
agent fail on one and move to the next, or go there and back; rollbacks are apart
from `AppliedVersionIsServed` because they break it (below). In `Traffic` the
subscription can be active, idle for longer than the window, and active again
within four intervals, a collection may come later than the window is long, and two reports in
a row may fail while it is idle; the counters do not influence one another but through the
phases they share. The watch needs two changes while one notice waits and one is being
read. In `Status` a counter that wraps, one that stands still and one that goes back differ
from one another already modulo 3; one report given up and one restart are enough for an old
report to overtake a new one. In `Rendering` each file has a content that is right for one
configuration and wrong for another. Bounds are the constants `MaxFaults`, `MaxVersion`,
`MaxTraffic`, `MaxTime`, `MaxMarks`, `MaxSize` and `Width` (2^64 in the code); nothing
else is bounded.

### Disagreements between the code and what is said of it

These runs end in a violation, of one property each; the quoted lines and
traces are under `findings`.

| run | property | what the trace shows |
| --- | --- | --- |
| `ApprovalUnnoticed` | `ApprovedGetsToken` | a process that is approved after it registered works without a token until it is restarted |
| `SyncBackAfterPartial` | `SyncOkIsServed` | after a failed hot sync and a refused fallback, syncing back succeeds and leaves the account out |
| `UsersFailThenSucceed` | `CleanCycleReportsApplied` | the failed state survives a later success |
| `BootAfterReject` | `AppliedIsDesired` | a rejection at boot is reported as applied |
| `RollbackAfterStartFails` | `AppliedVersionIsServed` | after a double start failure a rollback runs the rejected configuration under the old version's name |

Behaviours the properties are worded around, because the code does them:

- Two failing writes in one users change (of the hot sync, then of the fallback
  `Apply`) leave the core changed and `r.users` old. A version that goes back to the
  remembered accounts then has an empty diff and is acknowledged without being
  served, until something else restarts the core. `Converges` asks `[]<>~Torn`
  for this reason.
- `Start` runs the current file without making it `last_good` (`runtime.go:103-127`).
  After a crash between writing the current file and the restart, `last_good` is
  therefore not what ran last, although it did run.
- After a boot without the server the core runs `last_good`, but no configuration
  is loaded, and a users version is then recorded without reaching the core
  (`app.go:437-439`, `366`), until the configuration can be pulled.
  `UsersInMemoryAreServed` speaks of a loaded configuration only.
- An `Apply` or `SyncUsers` whose file write fails after the core was changed returns an
  error although the new configuration runs (`runtime.go:93`, `52`); the application then
  takes the new version back and tries it again. `FailureKeepsService` therefore speaks of
  what runs only for calls that failed by builds alone.
- A rejected or interrupted update leaves its geodata beside `last_good`, and going back
  to the version in use does not bring the old files back, since that pull ends before the
  geodata (`app.go:284`, `geodata.go:34`). `OfflineCanStart` excepts files replaced that way.
- A status report that was given up may reach the server after newer ones
  (`client.go:364`), and nothing in it tells its age; the server is wrong until the next
  tick. The start at boot and a pull that finds the desired version unchanged alter the status
  without a report of their own (`app.go:473`, `283`). `ChangesAreReported` excepts these three.
- When the kernel takes iowait back, the reported load may be 0 or be taken of too few ticks.
  `LoadIsTrue` says only of the other intervals that the share is exact. What `total` adds up is
  as in the code, where the time of guests is counted twice (in `user` and in `guest`).
- A user list may name a subscription twice (`app.go:613-626` does not look). A hot sync
  merges the two under one e-mail (`user_sync.go:81`). Where the protocol refuses an e-mail
  twice, the files then hold a configuration the core cannot be started from
  (`OfflineCanStart` excepts it). Where it does not, a restart puts both into the core, and a
  later diff, which knows one of them, removes the e-mail once; `CoreServesActiveUsers` excepts
  such lists and cores started with one, `OneAccountPerEmail` and `HotLikeRestart` say what hot
  changes make of the lists and what such a core still has.
- Collections come late when `Run` is busy, and reports that fail are made again with all that
  was carried since the last that succeeded; both are stamped with the time of the collection.
  An idle subscription may then count as online for longer than the window: `OnlineMeansActive`
  bounds this by the time the collection covered, which has no bound of its own.
- A routing rule that names the API inbound beside others is dropped for all of
  them (`xray_runtime.go:184-189`).

Four more differences between documents and code need no run. `README.md:27` says that the traffic
of users is reported, and the tests of rendering use templates of level 1 and 2
(`app_test.go:530-532`); the level of the template is copied into every account, but
`ensureRuntimePolicy` switches counting on for level 0 only (`xray_runtime.go:120-136`), so users
of another level are reported only if the server's own policy counts that level. `README.md:74`
names the cursor file `stats_cursor.json`, the default in `config.go` is
`traffic_cursor.json`; `README.md:26` speaks of a pulled and an applied version,
which the code only ever sets together (`app.go:508-511`); and a users failure
reports the version in use as the desired one (`app.go:350`).

### Fairness

- `FairAgentSpec`: weak fairness of the agent's own steps. `Run` never waits for
  good: RPC calls have a timeout of 15 seconds, the stats query one of 10, and the
  pull ticker fires for ever. Nothing is assumed of the server, and crashes and
  other faults are never fair. The antecedent of `Converges` asks that the last
  published versions be good infinitely often; versions are finite, so this means
  for ever from some time on. It also asks `[]<>token`: a process that has no token
  stays without one, which `ApprovalUnnoticed` shows.
- `FairSpec` of `Traffic`: weak fairness of collection, report and commit, for the
  same reason. Traffic, ticks and faults are not fair.
- `MainSpec` of `RuntimeWatch`: weak fairness of the main loop only, so
  `EventuallySeen` owes nothing to the stream.
- `FairSpec` of `Status`: weak fairness of the end of the boot, the status ticker, the report
  and its answer. Faults are bounded, so a call that may fail succeeds in the end. Marks, late
  arrivals and ticks of the host are not fair.

## Theorems

All are proved for every value of the constants that satisfies the named
assumptions of the modules: any set of configurations, slots, accounts and
subscriptions, any number of failures.

**XrayRuntimeProofs.** `IInv` is the conjunction of `TypeOK` and

- `CallShape`: what the current step implies about the call in progress (a
  configuration where one is needed, a non-empty `lastGood` in `restore`, ...);
- `Provenance`: what `lastGood` holds, and what is about to be promoted, has a base
  that was served; this needs the history variable `served` at steps where
  nothing is in the file yet, which is why `LastGoodWasServed` alone is not
  inductive;
- `~Torn => InStep`: instance, remembered users and files agree at each step as far
  as that step has got, and hold nothing the core refuses;
- `Kept`: an instance that ran before the call is gone only after a failed start,
  and replaced, in a call that failed by builds alone, only by `last_good`;
- `OkMeansServed`, which is about the previous call and is disturbed by a
  crash and by the start of the next one.

From it follow `TypeCorrect`, `LastGoodIsServed`, `FailureNeverStops`,
`MemoryIsTruth`, `SuccessIsServed`, `CurrentBuilds` and `PromotionIsServed`, and
`ImplementsTwoSlots`: each step of a call maps to a step of `TwoSlots` or to
none. The lemma they rest on is `DiffComplete`: removing and adding what
`diffDynamicInboundUsers` returns turns the old table into the new.

**TrafficProofs.** `Snapshot` says what `deltas` and `pending` are relative to the
cursor during a report. `Balance` is the accounting: what was billed and what is
still owed is at most what was carried plus what was billed without an answer; it has
to speak of the owed part, because a restart may only ever make that smaller.
They give `TypeCorrect` and `NothingBilledTwice`. `Whole` is the same inequality the
other way round, kept until the core is restarted, and gives
`TrafficSurvivesFailures`. For the tracker, `Dated` says
that what a counter gained since its cursor is traffic since the last committed collection (and
since it was read, during a report), and `Found` that who was seen had traffic since the commit before;
neither mentions a failure, since a failed report, a reload and a reset leave both true
(`OnlineWasActive`). `Noticed` says that the last traffic of a subscription was seen, is too old
to count, or is still owed by a counter of the core while a collection is due or the interval is
the present one (`ActiveIsOnline`); it rests on `Whole`, since a reset would hide what is owed.
`ImplementsBilling` maps each step to
one of `Billing` or to none: `Snapshot` gives that what is owed after a failed report is no more
than before, `Whole` that it is no less while the core lives.

**AgentProofs.** The agent's steps are steps of the runtime only because the agent calls it
as it should, and the agent can rely on the outcome of a call only because of what the
runtime promises. So both are one induction: `AInv` joins `IInv` of `XrayRuntimeProofs`
with what the agent knows at each of its steps, and `StepOfRuntime` turns a step of the agent
under `AInv` into a step of the runtime, to which the lemmas of `XrayRuntimeProofs` apply. Its
parts:

- `Rendered`: what the agent holds can be rendered, and is what it gave to its call;
- `BootWhere`, `BootEmpty`, `BootCore`: until the loop nothing is loaded, and a core runs at most
  by the fallback of the first `Apply`;
- `Held`: until its call succeeds, `last_good` is the rendering of what the agent had before, torn
  or not; while nothing is torn so are the current file and the instance, except between the
  steps that change them. This is what makes taking back the memory after a failure right;
- `Versions`: the version numbers name what is loaded;
- `OnDisk`: a server that does not roll back asks for the version at hand only while no other was
  tried since, so that the current file, which is then started, still has its base;
- `Serving`, `Up` and `Offline`: the properties, extended to the states in which a call is under
  way. `Offline` follows a restored current file from `restoreLastGoodConfig` through the start to the
  loop, and the core that serves the current file while nothing is loaded.

They give `AgentTypeCorrect`, `ContractKept`, `UsersServed`, `AppliedIsServed` (under the
assumption `~Rollback`, without which it is false) and `OfflineServed`. With `ContractKept` every
theorem about the runtime alone holds in the agent: `RuntimePromisesKept`.

**EffectiveConfigProofs.** `TodoIsRest` says that what is still to do is the end of the pulled
list, `DoneIsThere` that of the part that is done the last asset of each file is in its place; they
meet when nothing is left to do and give `VersionHasGeodata` (and, on the way,
`GeodataListed`).

**RenderingProofs.** About any configurations and lists, of any length. What a loop that skips
elements returns is stated for `Kept`: the rank of a position among those kept is a bijection
(`RankIsInjection`, `PlaceIsBijection`), by counting and not by induction over the list, so that
`KeptElements` says where each element goes. From it follow what `WithApiInbound` and `WithApiRule`
return, that a rendering is a configuration again (`RenderTyped`), that two of one configuration
differ in accounts only (`RenderAlike`) and that its accounts are those of the active users
(`RenderServesDue`). The inductive invariant `RenderInv` adds to the types

- `LoadedInv`: the files are the rendering of the loaded configuration with the present list at
  `renderedAt`. `CoreServesActiveUsers` compares the core with the server's configuration, and
  only through the files can a hot change, which starts from them, be compared with that;
- `FilesInv`: what the files hold has accounts of subscriptions, no tag twice, and an API of its
  own, and the core can be built from it but for the geodata a pull has touched. It must be said of
  the files without a loaded configuration too, since an offline start uses them;
- `CoreInv`: the core has the accounts that `extractDynamicInboundUsers` reads from the files,
  and the rest of them; it has no others unless it was started with an e-mail twice (`Faithful`). It
  is the extraction and not the list, because after a hot change with a subscription listed twice
  only that is true, and the next diff starts from it. `PatchedIsFaithful` is the step: since a
  table knows an e-mail once in an inbound, what a removal takes away is nothing the new table has.

They give `TypeCorrect`, `ActiveUsersServed`, `EmailsOnce`, `HotIsLikeRestart`, `ApiIsReachable`,
`OfflineStarts` and `HotChangesSuffice`.

**StatusProofs.** `CountersAgree` is what makes the unsigned differences exact: they are the ticks
since the last sample as long as none is taken back, and otherwise still differ by the busy ticks,
up to a `Width`. It gives `LoadTrue` for counters of any width; `TypeCorrect` and
`ChangesReported` go with it.

**RuntimeWatchProofs.** `Ordered` says that the versions known to the agent never
exceed the published ones; `Wired` that the last event on the wire carries the
published version; `Notices` is `ConfigNoticed` and `UsersNoticed` themselves, with
the cases of a read in progress. They give `TypeCorrect`, `NoConfigMissed` and
`NoUsersMissed`.

Assumptions used: the typing of the constants (`ConfigAssumption`,
`BoundAssumption`, ...), that `None` is none of the values it stands beside
(`NoneAssumption`), and, where a theorem speaks of what the core builds, what
`Malformed` stands for. `FewerAccountsAssumption` (a configuration the core builds,
it also builds with fewer accounts) is about xray-core, not about this code, and is
used in the step of the invariant for the hot sync.

## Only model-checked

- The liveness properties `Converges`, `EventuallyReported` and the two `EventuallySeen`:
  liveness under fairness and `ENABLED` are outside what the prover handles. Every other
  property of a passing run is a theorem.
- What the runs of `Disagreements` refute: a counterexample is all there is to show.

No module with a theorem uses `RECURSIVE` operators, which the prover does not
support, and no theorem needs induction over data.

## Not modelled

- The RPC encoding of `client.go`, the parsing of `/proc`, the environment (`config.go`), logging
  and `main`: no state of their own beyond what is listed above.
- The cached xray version of a status report (`currentXrayVersion`) and the process identifier
  file (`agentProcessUID`): written once and only shown.
- A token the server revokes: the code treats it like any failing call.
- Power loss between the rename of a file and its write-back; the model's writes
  are atomic and survive a crash of the process.
- Clocks that go back; log settings and the statistics of inbounds and outbounds in the effective
  configuration.
- `Stop` as a call of its own: it is only used when the process ends, and is
  part of `Crash`.

## Plan

Done: `XrayRuntime` with `TwoSlots` (the core everything else depends on), `Agent` with
enrollment on top of it, the concurrent parts `Traffic` and `RuntimeWatch`, `Geodata` and
`EffectiveConfig`, `Status`, each with proofs.

Next, in this order:

1. Abstract specifications of the watch (a signal that a change raises and a pull lowers) and of
   the server's view in `Status`, and the proofs that `RuntimeWatch` and `Status` implement them.
2. The lemmas behind the liveness properties that are safety, such as that `Unreported` never
   grows while there is no traffic, so that TLC is needed for the fairness argument only.
3. A write that survives the process but not a power loss (`runtime.go:302`).
