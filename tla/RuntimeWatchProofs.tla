------------------------- MODULE RuntimeWatchProofs -------------------------
(***************************************************************************)
(* Proofs that an open stream misses no change, for any number of versions *)
(* and failures.  Ordered bounds what each part of the agent may know by   *)
(* what was published; Wired says what the stream's first event, the only  *)
(* one the watcher ever filters, stands for.                               *)
(***************************************************************************)
EXTENDS RuntimeWatch, TLAPS

\* Nothing is ahead of its source: server, pull, assignment, watcher.
Ordered ==
  /\ pulled <= seen.cfg /\ seen.cfg <= published.cfg
  /\ runtimeVersion <= seen.cfg /\ knownVersion <= seen.cfg
  /\ seen.users <= published.users
  /\ atOpen <= published.users

\* Only the first event may be a snapshot; alone, it shows the present.
Wired ==
  watcher = "open" =>
    /\ \A i \in 2 .. Len(wire) : ~wire[i].snapshot
    /\ Len(wire) = 1 /\ wire[1].snapshot =>
         wire[1].cfg = published.cfg /\ atOpen = published.users

Notices == ConfigNoticed /\ UsersNoticed

IInv == TypeOK /\ Ordered /\ Wired /\ Notices

-----------------------------------------------------------------------------
\* The initial states satisfy the type invariant.
LEMMA TypeInit == Init => TypeOK
  BY BoundAssumption DEF Init, TypeOK, Version

\* A failure keeps the budget in its range.
LEMMA FaultType ==
  ASSUME TypeOK, NEW kind, Fault(kind)
  PROVE  budget' \in 0 .. MaxFaults
  BY BoundAssumption DEF TypeOK, Fault

\* Receiving takes the first event; the others move up by one.
LEMMA TailFacts ==
  ASSUME NEW S, NEW s \in Seq(S), s # <<>>
  PROVE  /\ Head(s) = s[1] /\ s[1] \in S
         /\ Tail(s) \in Seq(S) /\ Len(Tail(s)) = Len(s) - 1
         /\ \A i \in 1 .. Len(Tail(s)) : Tail(s)[i] = s[i + 1]
  OBVIOUS

\* Sending adds one event at the end.
LEMMA AppendFacts ==
  ASSUME NEW S, NEW s \in Seq(S), NEW e \in S
  PROVE  /\ Append(s, e) \in Seq(S) /\ Len(Append(s, e)) = Len(s) + 1
         /\ Append(s, e)[Len(s) + 1] = e
         /\ \A i \in 1 .. Len(s) : Append(s, e)[i] = s[i]
  OBVIOUS

\* A closed stream carries nothing; a stream just opened carries one event.
LEMMA EmptyFacts ==
  ASSUME NEW S, NEW s \in Seq(S)
  PROVE  s = <<>> <=> Len(s) = 0
  OBVIOUS

EventSet == [snapshot : BOOLEAN, cfg : Version]

\* The events of Publish and Open, field by field.
LEMMA EventType ==
  /\ \A v \in Version : Event(FALSE, v) \in EventSet /\ Event(TRUE, v) \in EventSet
  /\ \A v : ~Event(FALSE, v).snapshot /\ Event(TRUE, v).snapshot /\ Event(TRUE, v).cfg = v
  BY DEF Event, EventSet

\* Publish raises one of the two versions.
LEMMA PublishType ==
  ASSUME TypeOK, Publish
  PROVE  /\ published' \in [cfg : Version, users : Version]
         /\ published'.cfg >= published.cfg /\ published'.users >= published.users
<1>t. published \in [cfg : Version, users : Version] /\ MaxVersion \in Nat
  BY BoundAssumption DEF TypeOK
<1>1. CASE published.cfg < MaxVersion /\ published' = [published EXCEPT !.cfg = @ + 1]
  BY <1>t, <1>1 DEF Version
<1>2. CASE published.users < MaxVersion /\ published' = [published EXCEPT !.users = @ + 1]
  BY <1>t, <1>2 DEF Version
<1> QED BY <1>1, <1>2 DEF Publish

\* The stream after Publish, when it is open.
LEMMA PublishWire ==
  ASSUME TypeOK, published'.cfg \in Version, Publish, watcher = "open"
  PROVE  /\ wire' \in Seq(EventSet) /\ Len(wire') = Len(wire) + 1 /\ wire' # <<>>
         /\ ~wire'[Len(wire) + 1].snapshot
         /\ \A i \in 1 .. Len(wire) : wire'[i] = wire[i]
<1> DEFINE e == Event(FALSE, published'.cfg)
<1>1. e \in EventSet /\ ~e.snapshot
  BY EventType
<1>2. wire \in Seq(EventSet) /\ Len(wire) \in Nat
  BY DEF TypeOK, EventSet
<1>3. wire' = Append(wire, e)
  BY DEF Publish
<1> HIDE DEF e
<1>4. /\ Append(wire, e) \in Seq(EventSet) /\ Len(Append(wire, e)) = Len(wire) + 1
      /\ Append(wire, e)[Len(wire) + 1] = e
      /\ \A i \in 1 .. Len(wire) : Append(wire, e)[i] = wire[i]
  BY <1>1, <1>2, AppendFacts
<1> QED BY <1>1, <1>2, <1>3, <1>4, EmptyFacts

\* Every step keeps the type invariant.
LEMMA TypeStep == ASSUME TypeOK, [Next]_vars PROVE TypeOK'
<1>1. CASE Publish
  <2>1. published' \in [cfg : Version, users : Version]
    BY <1>1, PublishType
  <2>2. wire' \in Seq(EventSet)
    <3>1. CASE watcher = "open"
      BY <1>1, <2>1, <3>1, PublishWire
    <3>2. CASE watcher # "open"
      BY <1>1, <3>2 DEF Publish, TypeOK, EventSet
    <3> QED BY <3>1, <3>2
  <2> QED BY <1>1, <2>1, <2>2 DEF Publish, TypeOK, agent, EventSet
<1>2. CASE ReadKnownVersion
  BY <1>2 DEF ReadKnownVersion, TypeOK, agent
<1>3. CASE Open
  <2>1. Event(TRUE, published.cfg) \in EventSet
    BY EventType DEF TypeOK
  <2>2. ASSUME NEW e \in EventSet PROVE <<e>> \in Seq(EventSet)
    OBVIOUS
  <2>3. wire' \in Seq(EventSet)
    BY <1>3, <2>1, <2>2 DEF Open
  <2> QED BY <1>3, <2>3 DEF Open, TypeOK, agent, EventSet
<1>4. CASE Receive
  BY <1>4, TailFacts DEF Receive, TypeOK, agent
<1>5. CASE Disconnect
  <2>1. wire' \in Seq(EventSet)
    BY <1>5 DEF Disconnect
  <2> QED BY <1>5, <2>1, FaultType DEF Disconnect, TypeOK, agent, EventSet
<1>6. CASE Reconnect
  BY <1>6 DEF Reconnect, TypeOK, agent
<1>7. CASE TakeNotice \/ PullTick
  <2>1. CASE TakeNotice
    <3>1. channel' \in 0 .. 1
      BY <2>1 DEF TakeNotice, TypeOK
    <3> QED BY <2>1, <3>1 DEF TakeNotice, TypeOK, stream
  <2>2. CASE PullTick
    BY <2>2 DEF PullTick, TypeOK, stream
  <2> QED BY <1>7, <2>1, <2>2
<1>8. CASE ReadConfig
  BY <1>8 DEF ReadConfig, NoFault, TypeOK, stream
<1>9. CASE ReadConfigFails
  BY <1>9, FaultType DEF ReadConfigFails, TypeOK, stream
<1>10. CASE Apply \/ AssignVersion
  BY <1>10 DEF Apply, AssignVersion, TypeOK, stream
<1>11. CASE ReadUsers
  <2>1. budget' \in 0 .. MaxFaults
    BY <1>11, FaultType DEF ReadUsers, NoFault, TypeOK
  <2> QED BY <1>11, <2>1 DEF ReadUsers, TypeOK, stream
<1>12. CASE UNCHANGED vars
  BY <1>12 DEF vars, agent, stream, TypeOK
<1> QED BY <1>1, <1>2, <1>3, <1>4, <1>5, <1>6, <1>7, <1>8, <1>9, <1>10, <1>11, <1>12
        DEF Next, Watcher, Main, PullRound

\* Every step keeps Ordered.
LEMMA OrderedStep == ASSUME TypeOK, TypeOK', Ordered, [Next]_vars PROVE Ordered'
<1>t. /\ published.cfg \in Int /\ published.users \in Int /\ seen.cfg \in Nat /\ seen.users \in Nat
      /\ runtimeVersion \in Int /\ pulled \in Int /\ knownVersion \in Int /\ atOpen \in Int
  BY DEF TypeOK, Version, Torn
<1>1. CASE Publish
  <2>1. published'.cfg >= published.cfg /\ published'.users >= published.users
    BY <1>1, PublishType
  <2>2. published'.cfg \in Int /\ published'.users \in Int
    BY DEF TypeOK, Version
  <2> QED BY <1>1, <1>t, <2>1, <2>2 DEF Publish, Ordered, agent
<1>2. CASE ReadKnownVersion
  BY <1>2, <1>t DEF ReadKnownVersion, Ordered, agent, Torn
<1>3. CASE Open
  BY <1>3, <1>t DEF Open, Ordered, agent
<1>4. CASE Receive \/ Disconnect \/ Reconnect
  BY <1>4 DEF Receive, Disconnect, Reconnect, Ordered, agent
<1>5. CASE TakeNotice \/ PullTick \/ Apply \/ ReadConfigFails
  BY <1>5 DEF TakeNotice, PullTick, Apply, ReadConfigFails, Ordered, stream
<1>6. CASE ReadConfig
  BY <1>6, <1>t DEF ReadConfig, Ordered, stream, TypeOK
<1>7. CASE AssignVersion
  BY <1>7 DEF AssignVersion, Ordered, stream
<1>8. CASE ReadUsers
  BY <1>8, <1>t DEF ReadUsers, Ordered, stream, TypeOK
<1>9. CASE UNCHANGED vars
  BY <1>9 DEF vars, agent, stream, Ordered
<1> QED BY <1>1, <1>2, <1>3, <1>4, <1>5, <1>6, <1>7, <1>8, <1>9
        DEF Next, Watcher, Main, PullRound

\* Every step keeps Wired.
LEMMA WiredStep == ASSUME TypeOK, TypeOK', Wired, [Next]_vars PROVE Wired'
<1>t. wire \in Seq(EventSet) /\ Len(wire) \in Nat
  BY DEF TypeOK, EventSet
<1>1. CASE Publish
  <2>1. CASE watcher = "open"
    <3>1. /\ Len(wire') = Len(wire) + 1
          /\ ~wire'[Len(wire) + 1].snapshot
          /\ \A i \in 1 .. Len(wire) : wire'[i] = wire[i]
      BY <1>1, <2>1, PublishWire DEF TypeOK
    <3>2. \A i \in 2 .. Len(wire') : ~wire'[i].snapshot
      <4> SUFFICES ASSUME NEW i \in 2 .. Len(wire') PROVE ~wire'[i].snapshot
        OBVIOUS
      <4>1. CASE i = Len(wire) + 1
        BY <3>1, <4>1
      <4>2. CASE i \in 2 .. Len(wire)
        BY <1>t, <2>1, <3>1, <4>2 DEF Wired
      <4> QED BY <1>t, <3>1, <4>1, <4>2
    <3> QED BY <1>t, <3>1, <3>2 DEF Wired
  <2>2. CASE watcher # "open"
    BY <1>1, <2>2 DEF Publish, Wired
  <2> QED BY <2>1, <2>2
<1>2. CASE ReadKnownVersion \/ Disconnect \/ Reconnect
  BY <1>2 DEF ReadKnownVersion, Disconnect, Reconnect, Wired
<1>3. CASE Open
  <2>1. Len(wire') = 1 /\ wire'[1].cfg = published'.cfg
    BY <1>3, EventType DEF Open
  <2>2. atOpen' = published'.users
    BY <1>3 DEF Open
  <2>3. 2 .. Len(wire') = {}
    BY <2>1
  <2> QED BY <2>1, <2>2, <2>3 DEF Wired
<1>4. CASE Receive
  <2>1. /\ watcher = "open" /\ wire # <<>> /\ wire' = Tail(wire)
        /\ UNCHANGED <<published, atOpen, watcher>>
    BY <1>4 DEF Receive
  <2>2. /\ Len(wire') = Len(wire) - 1
        /\ \A i \in 1 .. Len(wire') : wire'[i] = wire[i + 1]
    BY <1>t, <2>1, TailFacts
  <2>3. \A i \in 1 .. Len(wire') : ~wire'[i].snapshot
    BY <1>t, <2>1, <2>2 DEF Wired
  <2> QED BY <1>t, <2>2, <2>3 DEF Wired
<1>5. CASE Main
  BY <1>5 DEF Main, PullRound, TakeNotice, PullTick, ReadConfig, ReadConfigFails, Apply,
              AssignVersion, ReadUsers, stream, Wired
<1>6. CASE UNCHANGED vars
  BY <1>6 DEF vars, stream, Wired
<1> QED BY <1>1, <1>2, <1>3, <1>4, <1>5, <1>6 DEF Next, Watcher

\* Every step keeps both notices.
LEMMA NoticesStep ==
  ASSUME TypeOK, TypeOK', Ordered, Wired, Notices, [Next]_vars
  PROVE  Notices'
<1> USE DEF Notices, ConfigNoticed, UsersNoticed
<1>1. CASE Publish
  <2>1. watcher = "open" => wire' # <<>>
    BY <1>1, PublishWire DEF TypeOK
  <2> QED BY <1>1, <2>1 DEF Publish, agent
<1>2. CASE ReadKnownVersion \/ Disconnect \/ Reconnect
  BY <1>2 DEF ReadKnownVersion, Disconnect, Reconnect, agent
<1>3. CASE Open
  BY <1>3 DEF Open, agent
<1>4. CASE Receive
  <2>1. CASE ~AlreadyKnown(Head(wire))
    BY <1>4, <2>1 DEF Receive
  <2>2. CASE AlreadyKnown(Head(wire))
    <3>1. Head(wire) = wire[1] /\ wire[1].snapshot /\ wire[1].cfg = knownVersion
      BY <1>4, <2>2, TailFacts DEF Receive, TypeOK, AlreadyKnown
    <3>2. CASE Len(wire) = 1
      <4>1. published.cfg = knownVersion /\ atOpen = published.users
        BY <1>4, <3>1, <3>2 DEF Wired, Receive
      <4>2. seen.cfg = published.cfg
        BY <4>1 DEF Ordered, TypeOK, Version
      <4> QED BY <1>4, <4>1, <4>2 DEF Receive, agent
    <3>3. CASE Len(wire) # 1
      <4>1. wire' # <<>>
        <5>1. wire \in Seq(EventSet) /\ wire # <<>> /\ wire' = Tail(wire)
          BY <1>4 DEF Receive, TypeOK, EventSet
        <5>2. Tail(wire) \in Seq(EventSet) /\ Len(Tail(wire)) = Len(wire) - 1
          BY <5>1, TailFacts
        <5>3. Len(wire) \in Nat /\ Len(wire) # 0
          BY <5>1, EmptyFacts
        <5>4. Len(Tail(wire)) # 0
          BY <3>3, <5>2, <5>3
        <5>5. Tail(wire) # <<>>
          BY <5>2, <5>4, EmptyFacts
        <5> QED BY <5>1, <5>5
      <4> QED BY <4>1
    <3> QED BY <3>2, <3>3
  <2> QED BY <2>1, <2>2
<1>5. CASE TakeNotice
  BY <1>5 DEF TakeNotice
<1>6. CASE PullTick
  BY <1>6 DEF PullTick, stream
<1>7. CASE ReadConfig
  BY <1>7 DEF ReadConfig, stream, TypeOK
<1>8. CASE ReadConfigFails
  BY <1>8 DEF ReadConfigFails
<1>9. CASE Apply \/ AssignVersion
  BY <1>9 DEF Apply, AssignVersion, stream
<1>10. CASE ReadUsers
  BY <1>10 DEF ReadUsers, stream, TypeOK
<1>11. CASE UNCHANGED vars
  BY <1>11 DEF vars, agent, stream
<1> QED BY <1>1, <1>2, <1>3, <1>4, <1>5, <1>6, <1>7, <1>8, <1>9, <1>10, <1>11
        DEF Next, Watcher, Main, PullRound

-----------------------------------------------------------------------------
\* The inductive invariant holds in every reachable state.
LEMMA Invariance == Spec => []IInv
<1>1. Init => IInv
  <2> SUFFICES ASSUME Init PROVE IInv OBVIOUS
  <2>1. Ordered /\ Wired /\ Notices
    BY DEF Init, Ordered, Wired, Notices, ConfigNoticed, UsersNoticed
  <2> QED BY <2>1, TypeInit DEF IInv
<1>2. IInv /\ [Next]_vars => IInv'
  BY TypeStep, OrderedStep, WiredStep, NoticesStep DEF IInv
<1> QED BY <1>1, <1>2, PTL DEF Spec

\* TypeOK: the channel of watchRuntimeChanges never holds more than one notice.
THEOREM TypeCorrect == Spec => []TypeOK
<1>1. IInv => TypeOK BY DEF IInv
<1> QED BY <1>1, Invariance, PTL

\* ConfigNoticed: dropping, filtering and the torn read of a.runtimeVersion lose
\* no configuration change that the stream delivers.
THEOREM NoConfigMissed == Spec => []ConfigNoticed
<1>1. IInv => ConfigNoticed BY DEF IInv, Notices
<1> QED BY <1>1, Invariance, PTL

\* UsersNoticed: nor a users change published while the stream is open.
THEOREM NoUsersMissed == Spec => []UsersNoticed
<1>1. IInv => UsersNoticed BY DEF IInv, Notices
<1> QED BY <1>1, Invariance, PTL

=============================================================================
