---------------------------- MODULE RuntimeWatch ----------------------------
(***************************************************************************)
(* The two goroutines of Run (src/internal/app/app.go): the watcher keeps  *)
(* a stream to the control plane open (WatchRuntime of client.go) and puts *)
(* a notice into a channel of capacity one when something changed; the     *)
(* main loop answers a notice, or its pull ticker, with a pull of the      *)
(* configuration and of the users.  The watcher reads a.runtimeVersion     *)
(* while the main loop may be assigning it, without synchronisation.  The  *)
(* content of a notice is only logged, so the channel holds a number.  The *)
(* server publishes configuration and user versions 1, 2, ...; what a pull *)
(* does with what it read is the subject of Agent.                         *)
(***************************************************************************)
EXTENDS Integers, Sequences

CONSTANTS
  MaxVersion,   \* bound on the versions of each kind
  Faults,       \* the kinds of failure that may happen
  MaxFaults     \* bound on their number

\* break: the stream cannot be opened, or ends; rpc: a pull does not get through.
FaultKind == {"break", "rpc"}
ASSUME BoundAssumption ==
  MaxVersion \in Nat \ {0} /\ Faults \subseteq FaultKind /\ MaxFaults \in Nat

Version == 0 .. MaxVersion
\* What an unsynchronised read of a string under assignment may yield.
Torn == -1

VARIABLES
  published,       \* server: the current versions [cfg, users]
  seen,            \* the versions the agent's last pulls were answered with
  runtimeVersion,  \* a.runtimeVersion
  pulled,          \* runtimeConfig.Version of pullRuntimeConfig
  main,            \* what the main loop is doing
  missed,          \* history: the kinds whose last pull did not get through
  channel,         \* len(runtimeChangeCh)
  watcher,         \* what the watcher is doing
  knownVersion,    \* its knownVersion
  wire,            \* the stream's events not yet received
  atOpen,          \* history: the users version when the stream was opened
  budget           \* failures left

agent == <<seen, runtimeVersion, pulled, main, missed>>
stream == <<watcher, knownVersion, wire, atOpen>>
vars == <<published, agent, channel, stream, budget>>

Fault(kind) == kind \in Faults /\ budget > 0 /\ budget' = budget - 1
NoFault == UNCHANGED budget

Event(snapshot, cfg) == [snapshot |-> snapshot, cfg |-> cfg]

\* Mutant: the event type is not asked for.
KnownIgnoringType(e) == e.cfg = knownVersion

\* The handler of watchRuntimeChanges drops the snapshot of a version the agent has.
AlreadyKnown(e) == e.snapshot /\ e.cfg = knownVersion

-----------------------------------------------------------------------------
\* The initial pulls may have failed; the ticker and the watcher start together.
Init ==
  /\ published = [cfg |-> 1, users |-> 1]
  /\ seen \in [cfg : {0, 1}, users : {0, 1}]
  /\ runtimeVersion \in {0, seen.cfg}
  /\ pulled = 0 /\ main = "select" /\ missed = {}
  /\ channel = 0
  /\ watcher = "connect" /\ knownVersion = 0 /\ wire = <<>> /\ atOpen = 0
  /\ budget = MaxFaults

\* Server: a new version, and an event to an open stream.
Publish ==
  /\ \/ published.cfg < MaxVersion /\ published' = [published EXCEPT !.cfg = @ + 1]
     \/ published.users < MaxVersion /\ published' = [published EXCEPT !.users = @ + 1]
  /\ wire' = IF watcher = "open" THEN Append(wire, Event(FALSE, published'.cfg)) ELSE wire
  /\ UNCHANGED <<agent, channel, watcher, knownVersion, atOpen, budget>>

-----------------------------------------------------------------------------
(* The watcher.                                                            *)

ReadKnownVersion ==
  /\ watcher = "connect"
  /\ knownVersion' \in IF main = "assign" THEN {runtimeVersion, pulled, Torn} ELSE {runtimeVersion}
  /\ watcher' = "dial"
  /\ UNCHANGED <<published, agent, channel, wire, atOpen, budget>>

\* The server begins with a snapshot of the current version.
Open ==
  /\ watcher = "dial"
  /\ watcher' = "open" /\ wire' = <<Event(TRUE, published.cfg)>> /\ atOpen' = published.users
  /\ UNCHANGED <<published, agent, channel, knownVersion, budget>>

\* Mutant: a channel without a buffer; nobody takes the notice of a busy loop.
ReceiveUnbuffered ==
  /\ watcher = "open" /\ wire # <<>>
  /\ wire' = Tail(wire)
  /\ channel' = IF AlreadyKnown(Head(wire)) \/ main # "select" THEN channel ELSE 1
  /\ UNCHANGED <<published, agent, watcher, knownVersion, atOpen, budget>>

\* Mutant: the channel's capacity does not hold.
ReceiveQueues ==
  /\ watcher = "open" /\ wire # <<>>
  /\ wire' = Tail(wire)
  /\ channel' = IF AlreadyKnown(Head(wire)) THEN channel ELSE channel + 1
  /\ UNCHANGED <<published, agent, watcher, knownVersion, atOpen, budget>>

\* A full channel drops the notice: the one it holds is still to be answered.
Receive ==
  /\ watcher = "open" /\ wire # <<>>
  /\ wire' = Tail(wire)
  /\ channel' = IF AlreadyKnown(Head(wire)) THEN channel ELSE 1
  /\ UNCHANGED <<published, agent, watcher, knownVersion, atOpen, budget>>

\* The request fails, the server ends the stream or a frame cannot be read.
Disconnect ==
  /\ watcher \in {"dial", "open"}
  /\ Fault("break")
  /\ watcher' = "delay" /\ wire' = <<>>
  /\ UNCHANGED <<published, agent, channel, knownVersion, atOpen>>

\* The reconnect timer.
Reconnect ==
  /\ watcher = "delay"
  /\ watcher' = "connect"
  /\ UNCHANGED <<published, agent, channel, knownVersion, wire, atOpen, budget>>

Watcher == ReadKnownVersion \/ Open \/ Receive \/ Disconnect \/ Reconnect

-----------------------------------------------------------------------------
(* The main loop.                                                          *)

TakeNotice ==
  /\ main = "select" /\ channel > 0
  /\ channel' = channel - 1 /\ main' = "config"
  /\ UNCHANGED <<published, seen, runtimeVersion, pulled, missed, stream, budget>>

PullTick ==
  /\ main = "select"
  /\ main' = "config"
  /\ UNCHANGED <<published, seen, runtimeVersion, pulled, missed, channel, stream, budget>>

\* GetRuntimeConfig: unchanged, or to be applied.
ReadConfig ==
  /\ main = "config"
  /\ NoFault
  /\ seen' = [seen EXCEPT !.cfg = published.cfg] /\ pulled' = published.cfg
  /\ missed' = missed \ {"cfg"}
  /\ main' = IF published.cfg = runtimeVersion THEN "users" ELSE "apply"
  /\ UNCHANGED <<published, runtimeVersion, channel, stream>>

ReadConfigFails ==
  /\ main = "config"
  /\ Fault("rpc")
  /\ main' = "users" /\ missed' = missed \cup {"cfg"}
  /\ UNCHANGED <<published, seen, runtimeVersion, pulled, channel, stream>>

\* Mutant: a rejected configuration ends the round, without a pull of the users.
ApplyEndsRound ==
  /\ main = "apply"
  /\ main' \in {"assign", "select"}
  /\ UNCHANGED <<published, seen, runtimeVersion, pulled, missed, channel, stream, budget>>

\* The configuration is applied or rejected; the round goes on either way.
Apply ==
  /\ main = "apply"
  /\ main' \in {"assign", "users"}
  /\ UNCHANGED <<published, seen, runtimeVersion, pulled, missed, channel, stream, budget>>

AssignVersion ==
  /\ main = "assign"
  /\ runtimeVersion' = pulled /\ main' = "users"
  /\ UNCHANGED <<published, seen, pulled, missed, channel, stream, budget>>

ReadUsers ==
  /\ main = "users"
  /\ \/ /\ seen' = [seen EXCEPT !.users = published.users] /\ NoFault
        /\ missed' = missed \ {"users"}
     \/ Fault("rpc") /\ missed' = missed \cup {"users"} /\ UNCHANGED seen
  /\ main' = "select"
  /\ UNCHANGED <<published, runtimeVersion, pulled, channel, stream>>

PullRound == ReadConfig \/ ReadConfigFails \/ Apply \/ AssignVersion \/ ReadUsers
Main == TakeNotice \/ PullTick \/ PullRound

Next == Publish \/ Watcher \/ Main

Spec == Init /\ [][Next]_vars

\* The pull ticker ticks again and every pull ends; nothing is asked of the watcher.
MainSpec == Spec /\ WF_vars(Main)

-----------------------------------------------------------------------------
(* Properties.                                                             *)

\* The type of every variable; the channel keeps its capacity.
TypeOK ==
  /\ published \in [cfg : Version, users : Version]
  /\ seen \in [cfg : Version, users : Version]
  /\ runtimeVersion \in Version /\ pulled \in Version
  /\ main \in {"select", "config", "apply", "assign", "users"}
  /\ missed \subseteq {"cfg", "users"}
  /\ channel \in 0 .. 1
  /\ watcher \in {"connect", "dial", "open", "delay"}
  /\ knownVersion \in Version \cup {Torn}
  /\ wire \in Seq([snapshot : BOOLEAN, cfg : Version])
  /\ atOpen \in Version
  /\ budget \in 0 .. MaxFaults

\* Unless the last pull of it failed, no configuration change goes unnoticed on an open
\* stream: if the agent has not looked at the published version, an event is on
\* its way, a notice is waiting, or the pull that will read it is about to start,
\* although events are dropped, filtered and read with a torn known version.
ConfigNoticed ==
  "cfg" \notin missed /\ watcher = "open" /\ seen.cfg # published.cfg
    => wire # <<>> \/ channel = 1 \/ main = "config"

\* The same of a change of the users that was published after the stream was
\* opened (an earlier one hides behind a snapshot of a known configuration).
UsersNoticed ==
  /\ "users" \notin missed /\ watcher = "open"
  /\ published.users # atOpen /\ seen.users # published.users
  => wire # <<>> \/ channel = 1 \/ main # "select"

\* Whatever the stream does, the ticker alone makes the agent look at the last
\* versions published, a rejected configuration notwithstanding.
EventuallySeen == <>[](seen = published)

=============================================================================
