-------------------------- MODULE EffectiveConfig --------------------------
(***************************************************************************)
(* From what the control plane sends to what the core serves.              *)
(* renderEffectiveRuntimeConfig (src/internal/app/xray_runtime.go) puts    *)
(* the active users into the inbounds of the server's configuration and    *)
(* adds the API inbound and its route; user_sync.go reads the accounts     *)
(* back to change them in the running core.  Before it is rendered a new   *)
(* configuration gets its geodata (Geodata), and the core is built with    *)
(* the files that are there at that moment.  The clock matters: a user     *)
(* expires between two renderings.  Log settings are left out, and so are  *)
(* failures of writes and starts, which are the subject of XrayRuntime: a  *)
(* call succeeds, or what it was given is refused and it changes nothing.  *)
(***************************************************************************)
EXTENDS Geodata

CONSTANTS
  Raw,         \* the configurations the server may send
  UserList,    \* the user lists it may send, valid for validateRuntimeUsers
  Tag,         \* the tags of inbounds and outbounds
  Key,         \* the credentials of users, a UUID and a password each
  Extra,       \* what else than credential and level a template may hold
  EmailKeyed,  \* the protocols that refuse to start with one e-mail twice
  InjectAPI,   \* cfg.Xray.InjectAPI
  MaxTime      \* bound on the clock

ClientProtocol == {"vless", "vmess", "trojan"}
UserProtocol == {"shadowsocks", "hysteria"}
Protocol == ClientProtocol \cup UserProtocol \cup {"dokodemo-door"}

\* An account of an inbound; an inbound's are None for settings that are no
\* object.  A rule sends what comes from inbounds of some tags to an outbound.
\* levels are the policy levels whose users are counted, needs gives for each file
\* the contents the core can be built with, assets is the list sent beside.
Account ==
  [email : Nat, secret : [kind : {"id", "password", "auth"}, key : Key],
   level : Nat, extra : Extra \cup {None}]
Inbound == [tag : Tag, protocol : Protocol, accounts : Seq(Account) \cup {None}]
Rule == [from : SUBSET Tag, to : Tag]
Configuration ==
  [inbounds : Seq(Inbound), rules : Seq(Rule), levels : SUBSET Nat,
   needs : [File -> SUBSET (Content \cup {None})], assets : Seq(Asset)]
User == [id : Nat \ {0}, key : Key, enabled : BOOLEAN, expires : Int]

ASSUME InputAssumption ==
  /\ Raw \subseteq Configuration /\ UserList \subseteq Seq(User)
  /\ EmailKeyed \subseteq Protocol /\ "api" \in Tag /\ MaxTime \in Nat /\ InjectAPI \in BOOLEAN
  /\ None \notin Configuration /\ None \notin Seq(Asset) /\ None \notin Seq(Account)

VARIABLES
  raw,         \* a.runtimeConfigJSON, None when not loaded
  users,       \* a.runtimeUsers
  effective,   \* the current and the last_good file, None when missing
  core,        \* [base, accounts, built] of the running core, None when it is down;
               \* doubled is history: it was started with an e-mail twice in an inbound
  pulled,      \* the configuration of the pull under way, None when there is none
  now,         \* the clock
  renderedAt   \* history: when effective was rendered

vars == <<geodata, raw, users, effective, core, pulled, now, renderedAt>>

Managed(inbound) == inbound.protocol \in ClientProtocol \cup UserProtocol

-----------------------------------------------------------------------------
(* renderEffectiveRuntimeConfig.                                           *)

\* activeRuntimeUsers.
Active(user, t) == user.enabled /\ ~(user.expires > 0 /\ user.expires <= t)

\* The elements of s at some of its positions, in their order: what a loop that
\* skips the others appends.
Kept(s, positions) ==
  [k \in 1 .. Cardinality(positions) |->
    s[CHOOSE i \in positions : Cardinality({j \in positions : j <= i}) = k]]

ActiveOf(list, t) == Kept(list, {i \in DOMAIN list : Active(list[i], t)})

\* The credential a protocol knows its users by.
Secret(protocol, user) ==
  [kind |-> CASE protocol \in {"vless", "vmess"} -> "id"
              [] protocol \in {"trojan", "shadowsocks"} -> "password"
              [] OTHER -> "auth",
   key |-> user.key]

\* injectClientList and injectUserList: the first listed account is the template.
Accounts(inbound, list) ==
  LET template == IF inbound.accounts = <<>> THEN [level |-> 0, extra |-> None]
                  ELSE Head(inbound.accounts)
  IN [i \in DOMAIN list |->
       [email |-> list[i].id, secret |-> Secret(inbound.protocol, list[i]),
        level |-> template.level, extra |-> template.extra]]

\* Mutant: an inbound that would be left without users is dropped.
EmptyInboundsDropped(inbounds, list) ==
  IF list = <<>> THEN SelectSeq(inbounds, LAMBDA inbound : ~Managed(inbound))
  ELSE [i \in DOMAIN inbounds |->
         IF Managed(inbounds[i])
         THEN [inbounds[i] EXCEPT !.accounts = Accounts(inbounds[i], list)]
         ELSE inbounds[i]]

\* injectRuntimeUsers.
WithUsers(inbounds, list) ==
  [i \in DOMAIN inbounds |->
    IF Managed(inbounds[i])
    THEN [inbounds[i] EXCEPT !.accounts = Accounts(inbounds[i], list)]
    ELSE inbounds[i]]

ApiInbound == [tag |-> "api", protocol |-> "dokodemo-door", accounts |-> <<>>]
ApiRule == [from |-> {"api"}, to |-> "api"]

\* Mutant: the API inbound is only added where the server has none.
OwnInboundKept(inbounds) ==
  IF \E i \in DOMAIN inbounds : inbounds[i].tag = "api" THEN inbounds
  ELSE Append(inbounds, ApiInbound)

\* ensureRuntimeAPIInbound: in the place of the first inbound of that tag, or last.
WithApiInbound(inbounds) ==
  LET own == {i \in DOMAIN inbounds : inbounds[i].tag = "api"}
      later == {i \in own : \E j \in own : j < i}
      replaced == [i \in DOMAIN inbounds |-> IF i \in own THEN ApiInbound ELSE inbounds[i]]
  IN IF own = {} THEN Append(inbounds, ApiInbound)
     ELSE Kept(replaced, DOMAIN inbounds \ later)

\* isRuntimeAPIRoute.
IsApiRoute(rule) == rule.to = "api" \/ "api" \in rule.from

\* ensureRuntimeAPIRouting.
WithApiRule(rules) ==
  <<ApiRule>> \o Kept(rules, {i \in DOMAIN rules : ~IsApiRoute(rules[i])})

\* ensureRuntimePolicy: the users of level 0 are counted, whatever else is.
WithPolicy(levels) == levels \cup {0}

\* injectRuntimeAPI.
WithAPI(c) ==
  IF InjectAPI
  THEN [c EXCEPT !.inbounds = WithApiInbound(@), !.rules = WithApiRule(@), !.levels = WithPolicy(@)]
  ELSE c

\* A managed inbound whose settings are no object cannot be rendered.
Renderable(r) == \A i \in DOMAIN r.inbounds : Managed(r.inbounds[i]) => r.inbounds[i].accounts # None

\* renderEffectiveRuntimeConfig.
Render(r, list, t) ==
  WithAPI([r EXCEPT !.inbounds = WithUsers(@, ActiveOf(list, t))])

-----------------------------------------------------------------------------
(* The core and the hot synchronisation.                                   *)

\* What a configuration is beside its accounts.
Bare(c) ==
  [c EXCEPT !.inbounds = [i \in DOMAIN c.inbounds |-> [c.inbounds[i] EXCEPT !.accounts = <<>>]]]

\* The accounts of a configuration, each with the tag of its inbound.
AccountsOf(c) ==
  UNION {{[tag |-> c.inbounds[i].tag, account |-> a] : a \in ToSet(c.inbounds[i].accounts)} :
           i \in {j \in DOMAIN c.inbounds : Managed(c.inbounds[j])}}

\* A subscription twice in one inbound of some protocols.
RepeatedIn(c, protocols) ==
  \E i \in DOMAIN c.inbounds : Managed(c.inbounds[i]) /\ c.inbounds[i].protocol \in protocols /\
    \E k, l \in DOMAIN c.inbounds[i].accounts :
      k # l /\ c.inbounds[i].accounts[k].email = c.inbounds[i].accounts[l].email

Repeated(c) == RepeatedIn(c, Protocol)

\* External: the core refuses two inbounds of one tag, rules that the geodata on
\* disk have nothing for and, in an inbound of a protocol that looks at it, two
\* accounts of one e-mail.
Refused(c) ==
  \/ \E f \in File : assets[f] \notin c.needs[f]
  \/ \E i, j \in DOMAIN c.inbounds :
       i # j /\ c.inbounds[i].tag = c.inbounds[j].tag /\ c.inbounds[i].tag # ""
  \/ RepeatedIn(c, EmailKeyed)

\* Mutant: accounts of one e-mail are not merged.
AllListed(accounts) == ToSet(accounts)

\* extractDynamicInboundUsers: one account per e-mail, the last one listed.
LastOfEmail(accounts) ==
  {accounts[k] : k \in {k \in DOMAIN accounts :
                          \A l \in DOMAIN accounts :
                            accounts[l].email = accounts[k].email => l <= k}}

Extract(c) ==
  UNION {{[tag |-> c.inbounds[i].tag, account |-> a] : a \in LastOfEmail(c.inbounds[i].accounts)} :
           i \in {j \in DOMAIN c.inbounds : Managed(c.inbounds[j])}}

\* There is an inbound with users to manage, and all of those have a tag.
HotSyncable(c) ==
  /\ \E i \in DOMAIN c.inbounds : Managed(c.inbounds[i])
  /\ \A i \in DOMAIN c.inbounds : Managed(c.inbounds[i]) => c.inbounds[i].tag # ""

\* Mutant: what a user had before a change is not removed.
OnlyAdded(old, new) == {core.accounts \cup (Extract(new) \ Extract(old))}

\* The accounts of the core with the inbound and the e-mail of some of these.
Named(listed) ==
  {a \in core.accounts : \E b \in listed : a.tag = b.tag /\ a.account.email = b.account.email}

\* The core after the removals and additions of diffDynamicInboundUsers.  A removal
\* names an e-mail; of several accounts started under it, equal ones perhaps, the
\* core may keep some.
Patched(old, new) ==
  LET removed == Named(Extract(old) \ Extract(new)) IN
  {(core.accounts \ removed) \cup kept \cup (Extract(new) \ Extract(old)) :
     kept \in SUBSET (IF core.doubled THEN removed ELSE {})}

-----------------------------------------------------------------------------
Init ==
  /\ GeodataInit
  /\ raw = None /\ users = <<>> /\ effective = None /\ core = None /\ pulled = None
  /\ now = 0 /\ renderedAt = 0

\* What newInstance makes of a configuration.
Core(c) ==
  [base |-> Bare(c), accounts |-> AccountsOf(c), built |-> assets, doubled |-> Repeated(c)]

\* Mutant: the core is started, the files are not written.
RestartedUnwritten(c) ==
  /\ ~Refused(c)
  /\ core' = Core(c)
  /\ renderedAt' = now /\ UNCHANGED effective

\* Mutant: the configuration is not built before it is written.
RestartedUnvalidated(c) ==
  /\ core' = IF Refused(c) THEN None ELSE Core(c)
  /\ effective' = c /\ renderedAt' = now

\* Apply of a rendered configuration.
Restarted(c) ==
  /\ ~Refused(c)
  /\ core' = Core(c)
  /\ effective' = c /\ renderedAt' = now

\* SyncUsers.  The rest of the new configuration only reaches the files.
HotSynced(c) ==
  /\ core # None /\ effective # None /\ HotSyncable(effective) /\ HotSyncable(c)
  /\ \E accounts \in Patched(effective, c) : core' = [core EXCEPT !.accounts = accounts]
  /\ effective' = c /\ renderedAt' = now

\* pullRuntimeConfig receives a version that is not the one it has.
PullConfig ==
  /\ pulled = None
  /\ \E r \in Raw \ {raw} : pulled' = r /\ todo' = r.assets
  /\ UNCHANGED <<assets, touched, raw, users, effective, core, now, renderedAt>>

\* syncRuntimeGeodataAssets, while the configuration waits.
SyncGeodata ==
  /\ \/ SyncAsset /\ UNCHANGED pulled
     \/ SyncFails /\ pulled' = None
  /\ UNCHANGED <<raw, users, effective, core, now, renderedAt>>

\* The geodata are there: the version is rendered and applied, or rejected.
ApplyPulled ==
  /\ todo = <<>>
  /\ \/ /\ Renderable(pulled) /\ Restarted(Render(pulled, users, now))
        /\ raw' = pulled /\ touched' = {}
     \/ /\ Renderable(pulled) => Refused(Render(pulled, users, now))
        /\ UNCHANGED <<raw, effective, core, renderedAt, touched>>
  /\ pulled' = None /\ todo' = None
  /\ UNCHANGED <<assets, users, now>>

\* Mutant: the last effective configuration is rendered, not the server's.
PullUsersOntoEffective ==
  /\ pulled = None
  /\ \E list \in UserList :
       /\ users' = list
       /\ \/ raw = None /\ UNCHANGED <<effective, core, renderedAt>>
          \/ /\ raw # None
             /\ HotSynced(Render(effective, list, now)) \/ Restarted(Render(effective, list, now))
  /\ UNCHANGED <<geodata, raw, pulled, now>>

\* pullRuntimeUsers with a new version: hot or, when that fails, by a restart.
\* Without a loaded configuration the users are only recorded.
PullUsers ==
  /\ pulled = None
  /\ \E list \in UserList :
       /\ users' = list
       /\ \/ raw = None /\ UNCHANGED <<effective, core, renderedAt>>
          \/ /\ raw # None
             /\ HotSynced(Render(raw, list, now)) \/ Restarted(Render(raw, list, now))
  /\ UNCHANGED <<geodata, raw, pulled, now>>

\* The agent restarts without its server, perhaps in the middle of a pull: the
\* core gets the file as it was rendered, the users come from their snapshot.
RestartOffline ==
  /\ raw' = None /\ pulled' = None /\ todo' = None
  /\ \/ effective = None /\ core' = None
     \/ /\ effective # None
        /\ core' = IF Refused(effective) THEN None ELSE Core(effective)
  /\ UNCHANGED <<assets, touched, users, effective, now, renderedAt>>

Tick ==
  /\ now < MaxTime /\ now' = now + 1
  /\ UNCHANGED <<geodata, raw, users, effective, core, pulled, renderedAt>>

Next == PullConfig \/ SyncGeodata \/ ApplyPulled \/ PullUsers \/ RestartOffline \/ Tick

Spec == Init /\ [][Next]_vars

-----------------------------------------------------------------------------
(* Properties.                                                             *)

\* The shape of the state; a running core has a file it was started from, and
\* a configuration waits for its geodata exactly while some are to be synchronised.
TypeOK ==
  /\ GeodataTypeOK
  /\ {raw, pulled} \subseteq Raw \cup {None} /\ (pulled = None <=> todo = None)
  /\ users \in UserList \cup {<<>>}
  /\ now \in 0 .. MaxTime /\ renderedAt \in 0 .. now
  /\ core # None =>
       /\ effective # None
       /\ core \in [base : Configuration, accounts : SUBSET [tag : Tag, account : Account],
                    built : [File -> Content \cup {None}], doubled : BOOLEAN]
  /\ effective \in Configuration \cup {None}
  /\ effective # None =>
       \A i \in DOMAIN effective.inbounds :
         Managed(effective.inbounds[i]) =>
           \A a \in ToSet(effective.inbounds[i].accounts) : a.email > 0

\* README.md:84, end to end: once a configuration is loaded, the core serves in
\* every inbound of it that has users exactly the users of the list that were
\* active at the last rendering, with the credential of the protocol and the
\* settings of the template, and no account the server listed as a template.
\* It does not matter whether they came there hot or by a restart.  A list that
\* names a subscription twice is served too, but not hot as by a restart, and a core
\* that was started with it may keep what a later list takes back.
CoreServesActiveUsers ==
  raw # None /\ ~core.doubled /\ ~Repeated(effective) =>
    core.accounts =
      UNION {{[tag |-> inbound.tag,
               account |-> LET bare == inbound.accounts = <<>> IN
                           [email |-> user.id,
                            secret |-> Secret(inbound.protocol, user),
                            level |-> IF bare THEN 0 ELSE Head(inbound.accounts).level,
                            extra |-> IF bare THEN None ELSE Head(inbound.accounts).extra]] :
                user \in {u \in ToSet(users) : u.enabled /\ u.expires \notin 1 .. renderedAt}} :
              inbound \in {b \in ToSet(raw.inbounds) :
                             Managed(b) /\ (InjectAPI => b.tag # "api")}}

\* app.go:613: two users of one subscription pass the validation, and traffic is
\* counted by e-mail.  Unless it was started with an e-mail twice, which some
\* protocols let it, no mixture of hot changes with such lists, and of writes of
\* them to the files, makes the core know an e-mail twice in an inbound (inbounds
\* without a tag are never changed hot).
OneAccountPerEmail ==
  core # None /\ ~core.doubled =>
    \A a, b \in core.accounts :
      a.tag = b.tag /\ a.tag # "" /\ a.account.email = b.account.email => a = b

\* user_sync.go:51, xray_runtime.go:20: a change made hot leaves what a restart with
\* the new files would start: their accounts, of a subscription named twice the
\* last, on the rest of their configuration.  With it a configuration is a base
\* and a table of users, as XrayRuntime has it.  A core started with an e-mail
\* twice has all that as well, but may have more.
HotLikeRestart ==
  core # None =>
    /\ core.base = Bare(effective) /\ Extract(effective) \subseteq core.accounts
    /\ ~core.doubled => core.accounts = Extract(effective)

\* A hot change writes a whole configuration to the files but moves only
\* accounts in the core: two renderings of the same configuration, at whatever
\* times and with whatever users, must differ in nothing else.
OnlyAccountsDiffer ==
  [][raw # None /\ raw' = raw => Bare(effective') = Bare(effective)]_vars

\* The agent reaches the API of its core whatever inbounds and rules the server
\* sends: there is one inbound of its tag, and it is the agent's; the first rule
\* that takes connections of that inbound, alone, with others or as any, is the
\* agent's and leads to the API, and no other rule leads there.
ApiReachable ==
  InjectAPI /\ effective # None =>
    /\ {i \in DOMAIN effective.inbounds : effective.inbounds[i].tag = "api"}
         = {i \in DOMAIN effective.inbounds : effective.inbounds[i] = ApiInbound}
    /\ \E i \in DOMAIN effective.inbounds :
         /\ effective.inbounds[i] = ApiInbound
         /\ \A j \in DOMAIN effective.inbounds : effective.inbounds[j] = ApiInbound => j = i
    /\ \E k \in DOMAIN effective.rules :
         /\ effective.rules[k] = ApiRule
         /\ \A j \in 1 .. k - 1 : effective.rules[j].from # {} /\ "api" \notin effective.rules[j].from
         /\ \A j \in DOMAIN effective.rules : effective.rules[j].to = "api" => j = k

\* A version is served only with the geodata the server listed for it: when a
\* configuration starts to be the loaded one, the new core was built with files
\* of the listed checksums (of two for one file, the last), whatever was in their
\* place before, whatever the downloads brought and whatever earlier pulls left
\* half done.
VersionHasItsGeodata ==
  [][raw' \notin {raw, None} =>
       \A i \in DOMAIN raw'.assets :
         LET asset == raw'.assets[i] IN
         /\ asset.sum # None
         /\ \A j \in DOMAIN raw'.assets : j > i => raw'.assets[j].file # asset.file
         => core'.built[asset.file] = asset.sum]_vars

\* README.md:29, "when the control plane is unreachable the agent goes on with
\* last_good": what the files hold can be started with the geodata on disk.  Only
\* a file that was replaced by a pull that was then rejected or cut off, and that
\* has nothing for the configuration's rules, can be in the way; or a list
\* with a subscription twice, which a hot change wrote there.
OfflineCanStart ==
  effective # None /\ ~RepeatedIn(effective, EmailKeyed)
    => \/ ~Refused(effective)
       \/ \E f \in touched : assets[f] \notin effective.needs[f]

\* Mid-pull and after any number of rejected pulls, a geodata file is either
\* missing or one that some version listed: never a download that failed its check.
OnlyListedGeodata ==
  \A f \in File :
    assets[f] = None \/ \E r \in Raw : \E i \in DOMAIN r.assets :
      r.assets[i].file = f /\ r.assets[i].valid /\ r.assets[i].sum \in {None, assets[f]}

=============================================================================
