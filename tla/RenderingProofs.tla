-------------------------- MODULE RenderingProofs --------------------------
(***************************************************************************)
(* From the server's configuration and users to the core, for any          *)
(* configurations and lists: what a rendering is, who is served, that the  *)
(* API is reached, and that a hot change is as good as a restart.          *)
(*                                                                         *)
(* The functions of xray_runtime.go are loops over lists.  Those that skip *)
(* elements are Kept: PlaceIsBijection, by counting and not by induction,  *)
(* says where each element goes, and what a list contains follows.  The    *)
(* invariant RenderInv then follows the rendering from the loaded          *)
(* configuration (LoadedInv) to the files (FilesInv) and to the core       *)
(* (CoreInv).                                                              *)
(***************************************************************************)
EXTENDS EffectiveConfigProofs, FiniteSetTheorems

\* How many of the positions come up to one of them, and which one is the k-th.
Rank(positions, i) == Cardinality({j \in positions : j <= i})
Place(positions) ==
  [k \in 1 .. Cardinality(positions) |-> CHOOSE i \in positions : Rank(positions, i) = k]

\* Two lists of inbounds that may differ in accounts only.
Alike(x, y) ==
  /\ DOMAIN x = DOMAIN y
  /\ \A i \in DOMAIN x : x[i].tag = y[i].tag /\ x[i].protocol = y[i].protocol

\* Every managed inbound has a list of accounts, each of some subscription.
OfSubscriptions(c) ==
  \A i \in DOMAIN c.inbounds :
    Managed(c.inbounds[i]) =>
      /\ c.inbounds[i].accounts \in Seq(Account)
      /\ \A a \in ToSet(c.inbounds[i].accounts) : a.email > 0

\* One inbound has the tag of the API, and one rule leads there, the first.
ApiOwned(c) ==
  /\ \E a \in DOMAIN c.inbounds :
       /\ c.inbounds[a] = ApiInbound
       /\ \A i \in DOMAIN c.inbounds : i # a => c.inbounds[i].tag # "api"
  /\ 1 \in DOMAIN c.rules /\ c.rules[1] = ApiRule /\ DOMAIN c.rules = 1 .. Len(c.rules)
  /\ \A j \in DOMAIN c.rules : c.rules[j].to = "api" => j = 1

\* No tag twice.
OneOfTag(c) ==
  \A i, j \in DOMAIN c.inbounds :
    i # j /\ c.inbounds[i].tag = c.inbounds[j].tag => c.inbounds[i].tag = ""

\* The accounts a user gets in an inbound, and all that should be served.
AccountOf(inbound, user) ==
  [email |-> user.id, secret |-> Secret(inbound.protocol, user),
   level |-> IF inbound.accounts = <<>> THEN 0 ELSE Head(inbound.accounts).level,
   extra |-> IF inbound.accounts = <<>> THEN None ELSE Head(inbound.accounts).extra]
Due(r, list, t) ==
  UNION {{[tag |-> inbound.tag, account |-> AccountOf(inbound, user)] :
            user \in {u \in ToSet(list) : u.enabled /\ u.expires \notin 1 .. t}} :
          inbound \in {b \in ToSet(r.inbounds) : Managed(b) /\ (InjectAPI => b.tag # "api")}}

\* What can be in the core.
CoreState ==
  [base : Configuration, accounts : SUBSET [tag : Tag, account : Account],
   built : [File -> Content \cup {None}], doubled : BOOLEAN]

\* The inputs, and when the files were written.
InputInv ==
  /\ users \in UserList \cup {<<>>}
  /\ now \in 0 .. MaxTime /\ renderedAt \in 0 .. now
  /\ touched \subseteq File

\* The files hold a configuration that was or could be started: only a geodata
\* file that a pull touched since may be in its way.
FilesInv ==
  /\ effective \in Configuration \cup {None}
  /\ effective # None =>
       /\ OfSubscriptions(effective) /\ OneOfTag(effective)
       /\ InjectAPI => ApiOwned(effective)
       /\ \A f \in File \ touched : assets[f] \in effective.needs[f]

\* While a configuration is loaded, the files are its rendering.
LoadedInv ==
  raw # None =>
    Renderable(raw) /\ effective # None /\ effective = Render(raw, users, renderedAt)

\* A core has the accounts that a hot change of the files will take it to have; only
\* one that was started with an e-mail twice may have more.
Faithful(k, c) ==
  Extract(c) \subseteq k.accounts /\ (~k.doubled => k.accounts = Extract(c))

\* However many hot changes and refused restarts there were, the next diff is right.
\* Beside its accounts the core has what the files have, which no hot change brings it.
CoreInv ==
  /\ core # None => effective # None /\ core \in CoreState
  /\ core # None \/ raw # None =>
       core.base = Bare(effective) /\ Faithful(core, effective)

RenderInv == InputInv /\ FilesInv /\ LoadedInv /\ CoreInv

-----------------------------------------------------------------------------
(* What a loop over a list that skips some elements appends.               *)

\* Positions have ranks from one on, and no two have the same.
LEMMA RankIsInjection ==
  ASSUME NEW n \in Nat, NEW P \in SUBSET (1 .. n)
  PROVE  /\ IsFiniteSet(P) /\ Cardinality(P) \in Nat
         /\ [i \in P |-> Rank(P, i)] \in Bijection(P, 1 .. Cardinality(P))
<1>1. IsFiniteSet(P) /\ Cardinality(P) \in Nat
  <2>1. IsFiniteSet(1 .. n)
    BY FS_Interval
  <2>2. IsFiniteSet(P)
    BY <2>1, FS_Subset
  <2> QED
    BY <2>2, FS_CardinalityType
<1> DEFINE UpTo(i) == {j \in P : j <= i}
           r == [i \in P |-> Rank(P, i)]
<1>2. \A i \in P : /\ IsFiniteSet(UpTo(i)) /\ Cardinality(UpTo(i)) \in Nat
                   /\ Cardinality(UpTo(i)) <= Cardinality(P)
                   /\ Cardinality(UpTo(i)) # 0
  <2> TAKE i \in P
  <2>1. UpTo(i) \in SUBSET P /\ i \in UpTo(i)
    OBVIOUS
  <2>2. IsFiniteSet(UpTo(i)) /\ Cardinality(UpTo(i)) <= Cardinality(P)
    BY <1>1, <2>1, FS_Subset
  <2>3. Cardinality(UpTo(i)) # 0
    BY <2>1, <2>2, FS_EmptySet
  <2> QED
    BY <2>2, <2>3, FS_CardinalityType
<1>3. \A i \in P : r[i] = Cardinality(UpTo(i))
  BY DEF Rank
<1>4. r \in [P -> 1 .. Cardinality(P)]
  BY <1>1, <1>2 DEF Rank
<1>5. ASSUME NEW i \in P, NEW j \in P, i < j
      PROVE  Cardinality(UpTo(i)) # Cardinality(UpTo(j))
  <2>1. i \in Int /\ j \in Int /\ \A k \in P : k \in Int
    OBVIOUS
  <2>2. UpTo(i) \in SUBSET UpTo(j) /\ j \in UpTo(j) /\ j \notin UpTo(i)
    <3>1. \A k \in P : k <= i => k <= j
      BY <1>5, <2>1
    <3>2. ~(j <= i)
      BY <1>5, <2>1
    <3>3. j <= j
      BY <2>1
    <3>4. \A k \in UpTo(i) : k \in UpTo(j)
      BY <3>1
    <3> QED
      BY <3>2, <3>3, <3>4
  <2>3. UpTo(i) # UpTo(j)
    BY <2>2
  <2> QED
    BY <1>2, <2>2, <2>3, FS_Subset
<1>6. \A i, j \in P : r[i] = r[j] => i = j
  <2> TAKE i, j \in P
  <2>1. i < j \/ j < i \/ i = j
    OBVIOUS
  <2> QED
    BY <1>3, <1>5, <2>1
<1>7. r \in Injection(P, 1 .. Cardinality(P))
  BY <1>4, <1>6 DEF Injection, IsInjective
<1>8. IsFiniteSet(1 .. Cardinality(P)) /\ Cardinality(1 .. Cardinality(P)) = Cardinality(P)
  BY <1>1, FS_Interval
<1>9. r \in Surjection(P, 1 .. Cardinality(P))
  BY <1>7, <1>8, FS_Injection
<1> QED
  BY <1>1, <1>7, <1>9 DEF Bijection

\* The k-th position, for every k, is one of the positions, and each is one.
LEMMA PlaceIsBijection ==
  ASSUME NEW n \in Nat, NEW P \in SUBSET (1 .. n)
  PROVE  /\ Cardinality(P) \in Nat
         /\ \A k \in 1 .. Cardinality(P) : Place(P)[k] \in P /\ Rank(P, Place(P)[k]) = k
         /\ \A i \in P : Rank(P, i) \in 1 .. Cardinality(P) /\ Place(P)[Rank(P, i)] = i
<1> DEFINE r == [i \in P |-> Rank(P, i)]
<1>1. Cardinality(P) \in Nat /\ r \in Bijection(P, 1 .. Cardinality(P))
  BY RankIsInjection
<1>2. /\ \A i \in P : Rank(P, i) \in 1 .. Cardinality(P)
      /\ \A i, j \in P : Rank(P, i) = Rank(P, j) => i = j
      /\ \A k \in 1 .. Cardinality(P) : \E i \in P : Rank(P, i) = k
  <2>1. /\ r \in [P -> 1 .. Cardinality(P)]
        /\ \A i, j \in P : r[i] = r[j] => i = j
        /\ \A k \in 1 .. Cardinality(P) : \E i \in P : r[i] = k
    BY <1>1 DEF Bijection, Injection, IsInjective, Surjection
  <2> QED
    BY <2>1
<1>3. \A k \in 1 .. Cardinality(P) : Place(P)[k] \in P /\ Rank(P, Place(P)[k]) = k
  BY <1>2 DEF Place
<1> QED
  BY <1>1, <1>2, <1>3

\* What is kept are the elements at the positions, and nothing else.
LEMMA KeptElements ==
  ASSUME NEW S, NEW s \in Seq(S), NEW P \in SUBSET DOMAIN s
  PROVE  /\ Kept(s, P) \in Seq(S) /\ DOMAIN Kept(s, P) = 1 .. Cardinality(P)
         /\ Cardinality(P) \in Nat
         /\ \A k \in 1 .. Cardinality(P) : Place(P)[k] \in P /\ Kept(s, P)[k] = s[Place(P)[k]]
         /\ \A i \in P : \E k \in 1 .. Cardinality(P) : Place(P)[k] = i
         /\ \A k, l \in 1 .. Cardinality(P) : Place(P)[k] = Place(P)[l] => k = l
<1>1. Len(s) \in Nat /\ DOMAIN s = 1 .. Len(s) /\ P \in SUBSET (1 .. Len(s))
  OBVIOUS
<1>2. /\ Cardinality(P) \in Nat
      /\ \A k \in 1 .. Cardinality(P) : Place(P)[k] \in P /\ Rank(P, Place(P)[k]) = k
      /\ \A i \in P : Rank(P, i) \in 1 .. Cardinality(P) /\ Place(P)[Rank(P, i)] = i
  BY <1>1, PlaceIsBijection
<1>3. Kept(s, P) = [k \in 1 .. Cardinality(P) |-> s[Place(P)[k]]]
  BY DEF Kept, Place, Rank
<1>4. \A k \in 1 .. Cardinality(P) : s[Place(P)[k]] \in S
  BY <1>1, <1>2
<1>5. Kept(s, P) \in Seq(S)
  BY <1>2, <1>3, <1>4
<1> QED
  BY <1>2, <1>3, <1>5

\* The same, when their order does not matter.
LEMMA KeptSet ==
  ASSUME NEW S, NEW s \in Seq(S), NEW P \in SUBSET DOMAIN s
  PROVE  ToSet(Kept(s, P)) = {s[i] : i \in P}
<1>1. /\ DOMAIN Kept(s, P) = 1 .. Cardinality(P)
      /\ \A k \in 1 .. Cardinality(P) : Place(P)[k] \in P /\ Kept(s, P)[k] = s[Place(P)[k]]
      /\ \A i \in P : \E k \in 1 .. Cardinality(P) : Place(P)[k] = i
  BY KeptElements
<1> QED
  BY <1>1 DEF ToSet

\* Some position is the first.
LEMMA HasFirst ==
  ASSUME NEW n \in Nat, NEW P \in SUBSET (1 .. n), P # {}
  PROVE  \E i \in P : \A j \in P : i <= j
<1>1. /\ IsFiniteSet(P) /\ Cardinality(P) \in Nat
      /\ \A k \in 1 .. Cardinality(P) : Place(P)[k] \in P /\ Rank(P, Place(P)[k]) = k
      /\ \A i \in P : Rank(P, i) \in 1 .. Cardinality(P) /\ Place(P)[Rank(P, i)] = i
  BY RankIsInjection, PlaceIsBijection
<1> DEFINE first == Place(P)[1]
<1>2. first \in P /\ Rank(P, first) = 1 /\ \A j \in P : j \in Int
  <2>1. 1 \in 1 .. Cardinality(P)
    BY <1>1, FS_EmptySet
  <2> QED
    BY <1>1, <2>1
<1> HIDE DEF first
<1>3. ASSUME NEW j \in P, j < first
      PROVE  FALSE
  <2>1. {k \in P : k <= j} \in SUBSET {k \in P : k <= first}
    <3>1. \A k \in P : k <= j => k <= first
      BY <1>2, <1>3
    <3> QED
      BY <3>1
  <2>2. IsFiniteSet({k \in P : k <= first})
    BY <1>1, FS_Subset
  <2>3. Rank(P, j) <= Rank(P, first)
    BY <2>1, <2>2, FS_Subset DEF Rank
  <2>4. Rank(P, j) = 1
    BY <1>1, <1>2, <2>3
  <2>5. j = first
    BY <1>1, <2>4 DEF first
  <2> QED
    BY <1>2, <1>3, <2>5
<1>4. \A j \in P : first <= j
  BY <1>2, <1>3
<1> QED
  BY <1>2, <1>4

-----------------------------------------------------------------------------
(* The parts of a rendered configuration.                                  *)

\* activeRuntimeUsers.
LEMMA ActiveTyped ==
  ASSUME NEW list \in Seq(User), NEW t
  PROVE  /\ ActiveOf(list, t) \in Seq(User)
         /\ ToSet(ActiveOf(list, t)) = {user \in ToSet(list) : Active(user, t)}
<1> DEFINE P == {i \in DOMAIN list : Active(list[i], t)}
<1>1. ActiveOf(list, t) = Kept(list, P)
  BY DEF ActiveOf
<1>2. P \in SUBSET DOMAIN list
  OBVIOUS
<1>3. {list[i] : i \in P} = {user \in ToSet(list) : Active(user, t)}
  BY DEF ToSet
<1> HIDE DEF P
<1> QED
  BY <1>1, <1>2, <1>3, KeptElements, KeptSet

\* injectClientList and injectUserList: one account per user, with the settings
\* of the template.
LEMMA AccountsTyped ==
  ASSUME NEW inbound \in Inbound, inbound.accounts # None, NEW list \in Seq(User)
  PROVE  /\ Accounts(inbound, list) \in Seq(Account)
         /\ DOMAIN Accounts(inbound, list) = 1 .. Len(list)
         /\ \A i \in 1 .. Len(list) : Accounts(inbound, list)[i].email = list[i].id
<1> DEFINE template == IF inbound.accounts = <<>> THEN [level |-> 0, extra |-> None]
                       ELSE Head(inbound.accounts)
           account(i) == [email |-> list[i].id, secret |-> Secret(inbound.protocol, list[i]),
                          level |-> template.level, extra |-> template.extra]
<1>1. DOMAIN list = 1 .. Len(list) /\ Len(list) \in Nat /\ \A i \in 1 .. Len(list) : list[i] \in User
  OBVIOUS
<1>2. template.level \in Nat /\ template.extra \in Extra \cup {None}
  <2>1. CASE inbound.accounts = <<>>
    BY <2>1
  <2>2. CASE inbound.accounts # <<>>
    <3>1. inbound.accounts \in Seq(Account)
      BY DEF Inbound
    <3>2. Head(inbound.accounts) \in Account
      BY <2>2, <3>1
    <3> QED
      BY <2>2, <3>2 DEF Account
  <2> QED
    BY <2>1, <2>2
<1> HIDE DEF template
<1>3. \A i \in 1 .. Len(list) : account(i) \in Account
  <2> TAKE i \in 1 .. Len(list)
  <2>1. list[i].id \in Nat /\ list[i].key \in Key
    BY <1>1 DEF User
  <2>2. Secret(inbound.protocol, list[i]) \in [kind : {"id", "password", "auth"}, key : Key]
    BY <2>1 DEF Secret
  <2> QED
    BY <1>2, <2>1, <2>2 DEF Account
<1>4. Accounts(inbound, list) = [i \in 1 .. Len(list) |-> account(i)]
  BY <1>1 DEF Accounts, template
<1>5. [i \in 1 .. Len(list) |-> account(i)] \in Seq(Account)
  BY <1>1, <1>3
<1> QED
  BY <1>4, <1>5

\* injectRuntimeUsers: only the accounts of managed inbounds change.
LEMMA WithUsersTyped ==
  ASSUME NEW inbounds \in Seq(Inbound), NEW list \in Seq(User),
         \A i \in DOMAIN inbounds : Managed(inbounds[i]) => inbounds[i].accounts # None
  PROVE  /\ WithUsers(inbounds, list) \in Seq(Inbound)
         /\ DOMAIN WithUsers(inbounds, list) = DOMAIN inbounds
         /\ \A i \in DOMAIN inbounds :
              /\ WithUsers(inbounds, list)[i].tag = inbounds[i].tag
              /\ WithUsers(inbounds, list)[i].protocol = inbounds[i].protocol
              /\ WithUsers(inbounds, list)[i].accounts =
                   IF Managed(inbounds[i]) THEN Accounts(inbounds[i], list)
                   ELSE inbounds[i].accounts
<1> DEFINE with(i) == IF Managed(inbounds[i])
                      THEN [inbounds[i] EXCEPT !.accounts = Accounts(inbounds[i], list)]
                      ELSE inbounds[i]
<1>1. /\ DOMAIN inbounds = 1 .. Len(inbounds) /\ Len(inbounds) \in Nat
      /\ \A i \in 1 .. Len(inbounds) : inbounds[i] \in Inbound
  OBVIOUS
<1>2. \A i \in 1 .. Len(inbounds) :
        /\ with(i) \in Inbound
        /\ with(i).tag = inbounds[i].tag /\ with(i).protocol = inbounds[i].protocol
        /\ with(i).accounts =
             IF Managed(inbounds[i]) THEN Accounts(inbounds[i], list) ELSE inbounds[i].accounts
  <2> TAKE i \in 1 .. Len(inbounds)
  <2>1. inbounds[i] \in Inbound
    BY <1>1
  <2>2. CASE Managed(inbounds[i])
    <3>1. Accounts(inbounds[i], list) \in Seq(Account)
      BY <1>1, <2>1, <2>2, AccountsTyped
    <3> QED
      BY <2>1, <2>2, <3>1 DEF Inbound
  <2>3. CASE ~Managed(inbounds[i])
    BY <2>1, <2>3
  <2> QED
    BY <2>2, <2>3
<1>3. WithUsers(inbounds, list) = [i \in 1 .. Len(inbounds) |-> with(i)]
  BY <1>1 DEF WithUsers
<1> HIDE DEF with
<1>4. [i \in 1 .. Len(inbounds) |-> with(i)] \in Seq(Inbound)
  BY <1>1, <1>2
<1> QED
  BY <1>1, <1>2, <1>3, <1>4

\* ensureRuntimeAPIInbound: one inbound has the tag of the API, it is the agent's,
\* and all others are still there.
LEMMA ApiInboundAdded ==
  ASSUME NEW inbounds \in Seq(Inbound)
  PROVE  LET result == WithApiInbound(inbounds) IN
         /\ result \in Seq(Inbound)
         /\ \E a \in DOMAIN result :
              /\ result[a] = ApiInbound
              /\ \A i \in DOMAIN result : i # a => result[i].tag # "api"
         /\ ToSet(result) = {b \in ToSet(inbounds) : b.tag # "api"} \cup {ApiInbound}
<1> DEFINE own == {i \in DOMAIN inbounds : inbounds[i].tag = "api"}
           later == {i \in own : \E j \in own : j < i}
           replaced == [i \in DOMAIN inbounds |-> IF i \in own THEN ApiInbound ELSE inbounds[i]]
           P == DOMAIN inbounds \ later
           result == WithApiInbound(inbounds)
<1>1. /\ DOMAIN inbounds = 1 .. Len(inbounds) /\ Len(inbounds) \in Nat
      /\ \A i \in 1 .. Len(inbounds) : inbounds[i] \in Inbound
  OBVIOUS
<1>2. ApiInbound \in Inbound /\ ApiInbound.tag = "api"
  <2>1. <<>> \in Seq(Account) /\ "dokodemo-door" \in Protocol
    BY DEF Protocol
  <2> QED
    BY <2>1, InputAssumption DEF ApiInbound, Inbound
<1>3. CASE own = {}
  <2>1. result = Append(inbounds, ApiInbound)
    BY <1>3 DEF WithApiInbound
  <2>2. /\ result \in Seq(Inbound) /\ DOMAIN result = 1 .. Len(inbounds) + 1
        /\ result[Len(inbounds) + 1] = ApiInbound
        /\ \A i \in 1 .. Len(inbounds) : result[i] = inbounds[i]
    BY <1>1, <1>2, <2>1
  <2>3. \A i \in 1 .. Len(inbounds) : inbounds[i].tag # "api"
    BY <1>1, <1>3
  <2>4. ToSet(result) = {b \in ToSet(inbounds) : b.tag # "api"} \cup {ApiInbound}
    <3>1. ToSet(inbounds) = {inbounds[i] : i \in 1 .. Len(inbounds)}
      BY <1>1 DEF ToSet
    <3>2. ToSet(result) = {result[i] : i \in 1 .. Len(inbounds) + 1}
      BY <2>2 DEF ToSet
    <3>3. 1 .. Len(inbounds) + 1 = (1 .. Len(inbounds)) \cup {Len(inbounds) + 1}
      BY <1>1
    <3> HIDE DEF result
    <3> QED
      BY <2>2, <2>3, <3>1, <3>2, <3>3
  <2> HIDE DEF result
  <2>5. \E a \in DOMAIN result :
          /\ result[a] = ApiInbound
          /\ \A i \in DOMAIN result : i # a => result[i].tag # "api"
    <3>1. Len(inbounds) + 1 \in DOMAIN result
      BY <1>1, <2>2
    <3>2. \A i \in DOMAIN result : i # Len(inbounds) + 1 => result[i].tag # "api"
      BY <1>1, <2>2, <2>3
    <3> QED
      BY <2>2, <3>1, <3>2
  <2> QED
    BY <2>2, <2>4, <2>5 DEF result
<1>4. CASE own # {}
  <2>1. result = Kept(replaced, P)
    BY <1>4 DEF WithApiInbound
  <2>2. /\ replaced \in Seq(Inbound) /\ DOMAIN replaced = 1 .. Len(inbounds)
        /\ \A i \in 1 .. Len(inbounds) :
             replaced[i] = IF i \in own THEN ApiInbound ELSE inbounds[i]
    BY <1>1, <1>2
  <2>3. P \in SUBSET DOMAIN replaced
    BY <1>1, <2>2
  <2>4. PICK first \in own : \A j \in own : first <= j
    BY <1>1, <1>4, HasFirst
  <2>5. first \in P /\ \A i \in P : i # first => i \notin own
    <3>1. \A i \in own : i \in Int
      BY <1>1
    <3>2. first \notin later
      BY <2>4, <3>1
    <3>3. \A i \in own : i # first => first < i
      BY <2>4, <3>1
    <3> QED
      BY <2>4, <3>2, <3>3
  <2>6. /\ replaced[first] = ApiInbound
        /\ \A i \in P : i # first => replaced[i] = inbounds[i] /\ inbounds[i].tag # "api"
    BY <1>1, <2>2, <2>5
  <2>7. \A i \in DOMAIN inbounds : inbounds[i].tag # "api" => i \in P /\ i # first
    OBVIOUS
  <2> HIDE DEF own, later, replaced, P
  <2>8. /\ result \in Seq(Inbound) /\ DOMAIN result = 1 .. Cardinality(P)
        /\ \A k \in 1 .. Cardinality(P) : Place(P)[k] \in P /\ result[k] = replaced[Place(P)[k]]
        /\ \A i \in P : \E k \in 1 .. Cardinality(P) : Place(P)[k] = i
        /\ \A k, l \in 1 .. Cardinality(P) : Place(P)[k] = Place(P)[l] => k = l
    BY <2>1, <2>2, <2>3, KeptElements
  <2>9. ToSet(result) = {replaced[i] : i \in P}
    BY <2>1, <2>2, <2>3, KeptSet
  <2> HIDE DEF result
  <2>10. \E a \in DOMAIN result :
           /\ result[a] = ApiInbound
           /\ \A i \in DOMAIN result : i # a => result[i].tag # "api"
    <3>1. PICK a \in 1 .. Cardinality(P) : Place(P)[a] = first
      BY <2>5, <2>8
    <3>2. \A k \in 1 .. Cardinality(P) : k # a => Place(P)[k] # first
      BY <2>8, <3>1
    <3> QED
      BY <2>6, <2>8, <3>1, <3>2
  <2>11. ToSet(result) = {b \in ToSet(inbounds) : b.tag # "api"} \cup {ApiInbound}
    <3>1. \A b \in ToSet(result) : b = ApiInbound \/ (b \in ToSet(inbounds) /\ b.tag # "api")
      BY <2>2, <2>3, <2>6, <2>9, <1>1 DEF ToSet
    <3>2. ApiInbound \in ToSet(result)
      BY <2>5, <2>6, <2>9
    <3>3. \A b \in ToSet(inbounds) : b.tag # "api" => b \in ToSet(result)
      BY <2>6, <2>7, <2>9 DEF ToSet
    <3> QED
      BY <3>1, <3>2, <3>3
  <2> QED
    BY <2>8, <2>10, <2>11 DEF result
<1> QED
  BY <1>3, <1>4

\* ensureRuntimeAPIRouting: the API's rule is the first and the only one to it.
LEMMA ApiRuleAdded ==
  ASSUME NEW rules \in Seq(Rule)
  PROVE  LET result == WithApiRule(rules) IN
         /\ result \in Seq(Rule) /\ 1 \in DOMAIN result /\ result[1] = ApiRule
         /\ \A j \in DOMAIN result : result[j].to = "api" => j = 1
<1> DEFINE P == {i \in DOMAIN rules : ~IsApiRoute(rules[i])}
           kept == Kept(rules, P)
           result == WithApiRule(rules)
<1>1. result = <<ApiRule>> \o kept
  BY DEF WithApiRule
<1>2. P \in SUBSET DOMAIN rules /\ \A i \in P : rules[i].to # "api"
  BY DEF IsApiRoute
<1> HIDE DEF P
<1>3. /\ kept \in Seq(Rule) /\ Cardinality(P) \in Nat
      /\ DOMAIN kept = 1 .. Cardinality(P)
      /\ \A k \in 1 .. Cardinality(P) : kept[k].to # "api"
  BY <1>2, KeptElements
<1> HIDE DEF kept
<1>4. ApiRule \in Rule
  BY InputAssumption DEF ApiRule, Rule
<1>5. /\ result \in Seq(Rule) /\ Len(kept) = Cardinality(P)
      /\ DOMAIN result = 1 .. 1 + Cardinality(P) /\ result[1] = ApiRule
      /\ \A j \in 2 .. 1 + Cardinality(P) : result[j] = kept[j - 1]
  BY <1>1, <1>3, <1>4
<1> HIDE DEF result
<1>6. \A j \in DOMAIN result : result[j].to = "api" => j = 1
  BY <1>3, <1>5
<1> QED
  BY <1>3, <1>5, <1>6 DEF result

\* Where the API inbound goes does not depend on the accounts of the others.
LEMMA ApiInboundAlike ==
  ASSUME NEW x \in Seq(Inbound), NEW y \in Seq(Inbound), Alike(x, y)
  PROVE  Alike(WithApiInbound(x), WithApiInbound(y))
<1> DEFINE own == {i \in DOMAIN x : x[i].tag = "api"}
           later == {i \in own : \E j \in own : j < i}
           rx == [i \in DOMAIN x |-> IF i \in own THEN ApiInbound ELSE x[i]]
           ry == [i \in DOMAIN y |-> IF i \in own THEN ApiInbound ELSE y[i]]
           P == DOMAIN x \ later
<1>1. /\ DOMAIN x = 1 .. Len(x) /\ Len(x) \in Nat /\ Len(y) = Len(x) /\ DOMAIN y = 1 .. Len(x)
      /\ \A i \in 1 .. Len(x) : /\ x[i] \in Inbound /\ y[i] \in Inbound
                                /\ x[i].tag = y[i].tag /\ x[i].protocol = y[i].protocol
  BY DEF Alike
<1>2. own = {i \in DOMAIN y : y[i].tag = "api"}
  BY <1>1
<1>3. ApiInbound \in Inbound
  BY InputAssumption DEF ApiInbound, Inbound, Protocol
<1>4. CASE own = {}
  <2>1. WithApiInbound(x) = Append(x, ApiInbound) /\ WithApiInbound(y) = Append(y, ApiInbound)
    BY <1>2, <1>4 DEF WithApiInbound
  <2> QED
    BY <1>1, <1>3, <2>1 DEF Alike
<1>5. CASE own # {}
  <2>1. WithApiInbound(x) = Kept(rx, P) /\ WithApiInbound(y) = Kept(ry, P)
    <3>1. later = {i \in {k \in DOMAIN y : y[k].tag = "api"} :
                     \E j \in {k \in DOMAIN y : y[k].tag = "api"} : j < i}
      BY <1>2
    <3>2. P = DOMAIN y \ later
      BY <1>1
    <3> HIDE DEF later, P
    <3>3. WithApiInbound(y) = Kept(ry, P)
      BY <1>2, <1>5, <3>1, <3>2 DEF WithApiInbound
    <3>4. WithApiInbound(x) = Kept(rx, P)
      BY <1>5 DEF WithApiInbound, later, P
    <3> QED
      BY <3>3, <3>4
  <2>2. /\ rx \in Seq(Inbound) /\ ry \in Seq(Inbound)
        /\ DOMAIN rx = 1 .. Len(x) /\ DOMAIN ry = 1 .. Len(x)
        /\ \A i \in 1 .. Len(x) : /\ rx[i].tag = ry[i].tag
                                  /\ rx[i].protocol = ry[i].protocol
    BY <1>1, <1>3
  <2>3. P \in SUBSET DOMAIN rx /\ P \in SUBSET DOMAIN ry
    BY <1>1
  <2> HIDE DEF rx, ry, P
  <2>4. /\ DOMAIN Kept(rx, P) = 1 .. Cardinality(P)
        /\ \A k \in 1 .. Cardinality(P) :
             Place(P)[k] \in P /\ Kept(rx, P)[k] = rx[Place(P)[k]]
    BY <2>2, <2>3, KeptElements
  <2>5. /\ DOMAIN Kept(ry, P) = 1 .. Cardinality(P)
        /\ \A k \in 1 .. Cardinality(P) :
             Place(P)[k] \in P /\ Kept(ry, P)[k] = ry[Place(P)[k]]
    BY <2>2, <2>3, KeptElements
  <2>6. \A k \in 1 .. Cardinality(P) :
          /\ Kept(rx, P)[k].tag = Kept(ry, P)[k].tag
          /\ Kept(rx, P)[k].protocol = Kept(ry, P)[k].protocol
    BY <2>2, <2>3, <2>4, <2>5
  <2> QED
    BY <2>1, <2>4, <2>5, <2>6 DEF Alike
<1> QED
  BY <1>4, <1>5

\* renderEffectiveRuntimeConfig, with the list of inbounds it puts the users in.
LEMMA RenderTyped ==
  ASSUME NEW r \in Configuration, Renderable(r), NEW list \in Seq(User), NEW t
  PROVE  LET c == Render(r, list, t)
             with == WithUsers(r.inbounds, ActiveOf(list, t)) IN
         /\ with \in Seq(Inbound)
         /\ c.inbounds = IF InjectAPI THEN WithApiInbound(with) ELSE with
         /\ c.needs = r.needs
         /\ c \in Configuration /\ OfSubscriptions(c)
         /\ InjectAPI => ApiOwned(c)
<1> DEFINE c == Render(r, list, t)
           active == ActiveOf(list, t)
           with == WithUsers(r.inbounds, active)
<1>1. /\ r.inbounds \in Seq(Inbound) /\ r.rules \in Seq(Rule) /\ r.levels \in SUBSET Nat
      /\ r.needs \in [File -> SUBSET (Content \cup {None})] /\ r.assets \in Seq(Asset)
  BY DEF Configuration
<1>2. active \in Seq(User)
  BY ActiveTyped
<1>3. \A i \in DOMAIN r.inbounds : Managed(r.inbounds[i]) => r.inbounds[i].accounts # None
  BY DEF Renderable
<1>4. c = [inbounds |-> IF InjectAPI THEN WithApiInbound(with) ELSE with,
           rules |-> IF InjectAPI THEN WithApiRule(r.rules) ELSE r.rules,
           levels |-> IF InjectAPI THEN WithPolicy(r.levels) ELSE r.levels,
           needs |-> r.needs, assets |-> r.assets]
  BY RenderFields
<1> HIDE DEF c, active
<1>5. /\ with \in Seq(Inbound) /\ DOMAIN with = DOMAIN r.inbounds
      /\ \A i \in DOMAIN r.inbounds :
           /\ with[i].tag = r.inbounds[i].tag
           /\ with[i].protocol = r.inbounds[i].protocol
           /\ with[i].accounts = IF Managed(r.inbounds[i]) THEN Accounts(r.inbounds[i], active)
                                 ELSE r.inbounds[i].accounts
  BY <1>1, <1>2, <1>3, WithUsersTyped
<1>6. \A b \in ToSet(with) :
        Managed(b) => b.accounts \in Seq(Account) /\ \A a \in ToSet(b.accounts) : a.email > 0
  <2>1. SUFFICES ASSUME NEW i \in DOMAIN with, Managed(with[i])
                 PROVE  /\ with[i].accounts \in Seq(Account)
                        /\ \A a \in ToSet(with[i].accounts) : a.email > 0
    BY DEF ToSet
  <2>2. /\ i \in DOMAIN r.inbounds /\ r.inbounds[i] \in Inbound /\ Managed(r.inbounds[i])
        /\ with[i].accounts = Accounts(r.inbounds[i], active)
    BY <1>1, <1>5, <2>1 DEF Managed
  <2>3. /\ Accounts(r.inbounds[i], active) \in Seq(Account)
        /\ DOMAIN Accounts(r.inbounds[i], active) = 1 .. Len(active)
        /\ \A k \in 1 .. Len(active) : Accounts(r.inbounds[i], active)[k].email = active[k].id
    BY <1>2, <1>3, <2>2, AccountsTyped
  <2>4. \A k \in 1 .. Len(active) : active[k].id > 0
    <3>1. \A user \in User : user.id > 0
      BY DEF User
    <3>2. \A k \in 1 .. Len(active) : active[k] \in User
      BY <1>2
    <3> QED
      BY <3>1, <3>2
  <2> QED
    BY <2>2, <2>3, <2>4 DEF ToSet
<1>7. ~Managed(ApiInbound)
  BY DEF Managed, ApiInbound, ClientProtocol, UserProtocol
<1> HIDE DEF with
<1>8. InjectAPI =>
        /\ WithApiInbound(with) \in Seq(Inbound)
        /\ \E a \in DOMAIN WithApiInbound(with) :
             /\ WithApiInbound(with)[a] = ApiInbound
             /\ \A i \in DOMAIN WithApiInbound(with) : i # a => WithApiInbound(with)[i].tag # "api"
        /\ ToSet(WithApiInbound(with)) = {b \in ToSet(with) : b.tag # "api"} \cup {ApiInbound}
  BY <1>5, ApiInboundAdded
<1>9. InjectAPI =>
        /\ WithApiRule(r.rules) \in Seq(Rule) /\ 1 \in DOMAIN WithApiRule(r.rules)
        /\ WithApiRule(r.rules)[1] = ApiRule
        /\ \A j \in DOMAIN WithApiRule(r.rules) : WithApiRule(r.rules)[j].to = "api" => j = 1
  BY <1>1, ApiRuleAdded
<1>10. WithPolicy(r.levels) \in SUBSET Nat
  BY <1>1 DEF WithPolicy
<1>11. c \in Configuration
  BY <1>1, <1>4, <1>5, <1>8, <1>9, <1>10 DEF Configuration
<1>12. OfSubscriptions(c)
  <2>1. \A b \in ToSet(c.inbounds) : b \in ToSet(with) \/ ~Managed(b)
    BY <1>4, <1>7, <1>8
  <2>2. \A i \in DOMAIN c.inbounds : c.inbounds[i] \in ToSet(c.inbounds)
    BY DEF ToSet
  <2> QED
    BY <1>6, <2>1, <2>2 DEF OfSubscriptions
<1>13. InjectAPI => ApiOwned(c)
  BY <1>4, <1>8, <1>9 DEF ApiOwned
<1> QED
  BY <1>4, <1>5, <1>11, <1>12, <1>13 DEF c, with, active

\* Two renderings of one configuration differ in accounts only.
LEMMA RenderAlike ==
  ASSUME NEW r \in Configuration, Renderable(r),
         NEW l1 \in Seq(User), NEW l2 \in Seq(User), NEW t1, NEW t2
  PROVE  /\ Alike(Render(r, l1, t1).inbounds, Render(r, l2, t2).inbounds)
         /\ Bare(Render(r, l1, t1)) = Bare(Render(r, l2, t2))
<1> DEFINE with(l, t) == WithUsers(r.inbounds, ActiveOf(l, t))
           placed(l, t) == IF InjectAPI THEN WithApiInbound(with(l, t)) ELSE with(l, t)
           bare(b) == [b EXCEPT !.accounts = <<>>]
           bareList(x) == [i \in DOMAIN x |-> bare(x[i])]
<1>1. r.inbounds \in Seq(Inbound)
  BY DEF Configuration
<1>2. \A i \in DOMAIN r.inbounds : Managed(r.inbounds[i]) => r.inbounds[i].accounts # None
  BY DEF Renderable
<1>3. with(l1, t1) \in Seq(Inbound) /\ with(l2, t2) \in Seq(Inbound)
  BY <1>1, <1>2, ActiveTyped, WithUsersTyped
<1>4. Alike(with(l1, t1), with(l2, t2))
  <2>1. /\ DOMAIN with(l1, t1) = DOMAIN r.inbounds
        /\ \A i \in DOMAIN r.inbounds : /\ with(l1, t1)[i].tag = r.inbounds[i].tag
                                        /\ with(l1, t1)[i].protocol = r.inbounds[i].protocol
    BY <1>1, <1>2, ActiveTyped, WithUsersTyped
  <2>2. /\ DOMAIN with(l2, t2) = DOMAIN r.inbounds
        /\ \A i \in DOMAIN r.inbounds : /\ with(l2, t2)[i].tag = r.inbounds[i].tag
                                        /\ with(l2, t2)[i].protocol = r.inbounds[i].protocol
    BY <1>1, <1>2, ActiveTyped, WithUsersTyped
  <2> HIDE DEF with
  <2> QED
    BY <2>1, <2>2 DEF Alike
<1> DEFINE x == placed(l1, t1)
           y == placed(l2, t2)
<1>5. Alike(x, y) /\ x \in Seq(Inbound) /\ y \in Seq(Inbound)
  BY <1>3, <1>4, ApiInboundAlike, ApiInboundAdded
<1>6. \A b \in Inbound : bare(b) = [tag |-> b.tag, protocol |-> b.protocol, accounts |-> <<>>]
  BY DEF Inbound
<1>7. bareList(x) = bareList(y)
  <2>1. DOMAIN x = DOMAIN y
    BY <1>5 DEF Alike
  <2>2. \A i \in DOMAIN x : /\ x[i] \in Inbound /\ y[i] \in Inbound
                            /\ x[i].tag = y[i].tag /\ x[i].protocol = y[i].protocol
    BY <1>5, <2>1 DEF Alike
  <2> HIDE DEF x, y, bare
  <2>3. \A i \in DOMAIN x : bare(x[i]) = bare(y[i])
    BY <1>6, <2>2
  <2> QED
    BY <2>1, <2>3
<1> DEFINE fields(z) == [inbounds |-> z,
                         rules |-> IF InjectAPI THEN WithApiRule(r.rules) ELSE r.rules,
                         levels |-> IF InjectAPI THEN WithPolicy(r.levels) ELSE r.levels,
                         needs |-> r.needs, assets |-> r.assets]
<1>8. Render(r, l1, t1) = fields(x) /\ Render(r, l2, t2) = fields(y)
  BY RenderFields
<1>9. Bare(fields(x)) = [fields(x) EXCEPT !.inbounds = bareList(x)]
  BY DEF Bare
<1>10. Bare(fields(y)) = [fields(y) EXCEPT !.inbounds = bareList(y)]
  BY DEF Bare
<1> HIDE DEF x, y, bareList
<1>11. \A z, w : [fields(z) EXCEPT !.inbounds = w] = fields(w)
  <2> SUFFICES ASSUME NEW z, NEW w
               PROVE  [fields(z) EXCEPT !.inbounds = w] = fields(w)
    OBVIOUS
  <2> DEFINE rules == IF InjectAPI THEN WithApiRule(r.rules) ELSE r.rules
             levels == IF InjectAPI THEN WithPolicy(r.levels) ELSE r.levels
             e == [fields(z) EXCEPT !.inbounds = w]
  <2> HIDE DEF rules, levels
  <2>1. fields(z) = [inbounds |-> z, rules |-> rules, levels |-> levels,
                     needs |-> r.needs, assets |-> r.assets]
    BY DEF rules, levels
  <2>2. fields(w) = [inbounds |-> w, rules |-> rules, levels |-> levels,
                     needs |-> r.needs, assets |-> r.assets]
    BY DEF rules, levels
  <2> HIDE DEF fields
  <2>3. e \in [inbounds : {w}, rules : {rules}, levels : {levels},
               needs : {r.needs}, assets : {r.assets}]
    BY <2>1
  <2> HIDE DEF e
  <2>4. e = [inbounds |-> w, rules |-> rules, levels |-> levels,
             needs |-> r.needs, assets |-> r.assets]
    BY <2>3
  <2> QED
    BY <2>2, <2>4 DEF e
<1>12. Render(r, l1, t1).inbounds = x /\ Render(r, l2, t2).inbounds = y
  BY <1>8
<1> HIDE DEF fields
<1> QED
  BY <1>5, <1>7, <1>8, <1>9, <1>10, <1>11, <1>12

\* The accounts of a rendered configuration are those of the users active then.
LEMMA RenderServesDue ==
  ASSUME NEW r \in Configuration, Renderable(r), NEW list \in Seq(User), NEW t \in Nat
  PROVE  AccountsOf(Render(r, list, t)) = Due(r, list, t)
<1> DEFINE c == Render(r, list, t)
           active == ActiveOf(list, t)
           with == WithUsers(r.inbounds, active)
           usable(b) == Managed(b) /\ (InjectAPI => b.tag # "api")
           due == {u \in ToSet(list) : u.enabled /\ u.expires \notin 1 .. t}
<1>1. /\ r.inbounds \in Seq(Inbound)
      /\ \A i \in DOMAIN r.inbounds : Managed(r.inbounds[i]) => r.inbounds[i].accounts # None
  BY DEF Configuration, Renderable
<1>2. /\ active \in Seq(User)
      /\ ToSet(active) = due
  <2>1. ToSet(active) = {user \in ToSet(list) : Active(user, t)} /\ active \in Seq(User)
    BY ActiveTyped
  <2>2. \A user \in ToSet(list) : user.expires \in Int
    <3>1. \A user \in User : user.expires \in Int
      BY DEF User
    <3>2. \A user \in ToSet(list) : user \in User
      BY DEF ToSet
    <3> QED
      BY <3>1, <3>2
  <2>3. \A user \in ToSet(list) :
          Active(user, t) <=> user.enabled /\ user.expires \notin 1 .. t
    BY <2>2 DEF Active
  <2> HIDE DEF active
  <2> QED
    BY <2>1, <2>3
<1>3. /\ with \in Seq(Inbound)
      /\ c.inbounds = IF InjectAPI THEN WithApiInbound(with) ELSE with
  BY RenderTyped
<1> HIDE DEF c, active, due
<1>4. /\ DOMAIN with = DOMAIN r.inbounds
      /\ \A i \in DOMAIN r.inbounds :
           /\ with[i].tag = r.inbounds[i].tag
           /\ with[i].protocol = r.inbounds[i].protocol
           /\ with[i].accounts = IF Managed(r.inbounds[i]) THEN Accounts(r.inbounds[i], active)
                                 ELSE r.inbounds[i].accounts
  BY <1>1, <1>2, WithUsersTyped
<1> HIDE DEF with
\* An inbound that is managed is one of the server's, but not of the API's tag.
<1>5. \A b : b \in ToSet(c.inbounds) /\ Managed(b) <=> b \in ToSet(with) /\ usable(b)
  <2>1. ~Managed(ApiInbound)
    BY DEF Managed, ApiInbound, ClientProtocol, UserProtocol
  <2>2. CASE InjectAPI
    <3>1. ToSet(c.inbounds) = {b \in ToSet(with) : b.tag # "api"} \cup {ApiInbound}
      BY <1>3, <2>2, ApiInboundAdded
    <3> QED
      BY <2>1, <2>2, <3>1
  <2>3. CASE ~InjectAPI
    BY <1>3, <2>3
  <2> QED
    BY <2>2, <2>3
\* What the accounts of one of the server's inbounds become.
<1>6. \A b \in ToSet(r.inbounds) :
        Managed(b) => ToSet(Accounts(b, active)) = {AccountOf(b, user) : user \in due}
  <2> TAKE b \in ToSet(r.inbounds)
  <2>1. DOMAIN active = 1 .. Len(active)
    BY <1>2
  <2>2. Accounts(b, active) = [i \in DOMAIN active |-> AccountOf(b, active[i])]
    BY DEF Accounts, AccountOf
  <2>3. ToSet(Accounts(b, active)) = {AccountOf(b, active[i]) : i \in DOMAIN active}
    BY <2>2 DEF ToSet
  <2>4. ToSet(active) = {active[i] : i \in DOMAIN active}
    BY DEF ToSet
  <2> QED
    BY <1>2, <2>3, <2>4
<1>7. \A i \in DOMAIN r.inbounds : Managed(with[i]) <=> Managed(r.inbounds[i])
  BY <1>4 DEF Managed
<1>8. ASSUME NEW x \in AccountsOf(c)
      PROVE  x \in Due(r, list, t)
  <2>1. PICK k \in DOMAIN c.inbounds :
          Managed(c.inbounds[k]) /\
          \E a \in ToSet(c.inbounds[k].accounts) : x = [tag |-> c.inbounds[k].tag, account |-> a]
    BY <1>8 DEF AccountsOf
  <2>2. c.inbounds[k] \in ToSet(with) /\ usable(c.inbounds[k])
    BY <1>5, <2>1 DEF ToSet
  <2>3. PICK i \in DOMAIN r.inbounds : c.inbounds[k] = with[i]
    BY <1>4, <2>2 DEF ToSet
  <2>4. /\ r.inbounds[i] \in ToSet(r.inbounds) /\ usable(r.inbounds[i])
        /\ c.inbounds[k].tag = r.inbounds[i].tag
        /\ c.inbounds[k].accounts = Accounts(r.inbounds[i], active)
    BY <1>4, <1>7, <2>2, <2>3 DEF ToSet
  <2>5. PICK user \in due :
          x = [tag |-> r.inbounds[i].tag, account |-> AccountOf(r.inbounds[i], user)]
    BY <1>6, <2>1, <2>4
  <2> QED
    BY <2>4, <2>5 DEF Due, due
<1>9. ASSUME NEW x \in Due(r, list, t)
      PROVE  x \in AccountsOf(c)
  <2>1. PICK b \in ToSet(r.inbounds) :
          usable(b) /\ \E user \in due : x = [tag |-> b.tag, account |-> AccountOf(b, user)]
    BY <1>9 DEF Due, due
  <2>2. PICK i \in DOMAIN r.inbounds : b = r.inbounds[i]
    BY DEF ToSet
  <2>3. /\ with[i] \in ToSet(with) /\ usable(with[i])
        /\ with[i].tag = b.tag /\ with[i].accounts = Accounts(b, active)
    BY <1>4, <1>7, <2>1, <2>2 DEF ToSet
  <2>4. with[i] \in ToSet(c.inbounds) /\ Managed(with[i])
    BY <1>5, <2>3
  <2>5. PICK k \in DOMAIN c.inbounds : c.inbounds[k] = with[i]
    BY <2>4 DEF ToSet
  <2>6. \E a \in ToSet(with[i].accounts) : x = [tag |-> with[i].tag, account |-> a]
    BY <1>6, <2>1, <2>3
  <2>7. PICK a \in ToSet(c.inbounds[k].accounts) : x = [tag |-> c.inbounds[k].tag, account |-> a]
    BY <2>5, <2>6
  <2>8. x \in {[tag |-> c.inbounds[k].tag, account |-> e] : e \in ToSet(c.inbounds[k].accounts)}
    BY <2>7
  <2>9. k \in {j \in DOMAIN c.inbounds : Managed(c.inbounds[j])}
    BY <2>4, <2>5
  <2> QED
    BY <2>8, <2>9 DEF AccountsOf
<1> QED
  BY <1>8, <1>9 DEF c

-----------------------------------------------------------------------------
(* What the hot synchronisation reads back.                                *)

\* extractDynamicInboundUsers, of accounts in a list.
LEMMA LastOfEmailOnce ==
  ASSUME NEW accounts \in Seq(Account)
  PROVE  /\ LastOfEmail(accounts) \subseteq ToSet(accounts)
         /\ \A a, b \in LastOfEmail(accounts) : a.email = b.email => a = b
         /\ (\A k, l \in DOMAIN accounts : k # l => accounts[k].email # accounts[l].email)
              => LastOfEmail(accounts) = ToSet(accounts)
<1>1. \A k \in DOMAIN accounts : k \in Int
  OBVIOUS
<1>2. LastOfEmail(accounts) \subseteq ToSet(accounts)
  BY DEF LastOfEmail, ToSet
<1>3. \A a, b \in LastOfEmail(accounts) : a.email = b.email => a = b
  <2> SUFFICES ASSUME NEW a \in LastOfEmail(accounts), NEW b \in LastOfEmail(accounts),
                      a.email = b.email
               PROVE  a = b
    OBVIOUS
  <2>1. PICK k \in DOMAIN accounts :
          /\ a = accounts[k]
          /\ \A l \in DOMAIN accounts : accounts[l].email = accounts[k].email => l <= k
    BY DEF LastOfEmail
  <2>2. PICK l \in DOMAIN accounts :
          /\ b = accounts[l]
          /\ \A i \in DOMAIN accounts : accounts[i].email = accounts[l].email => i <= l
    BY DEF LastOfEmail
  <2>3. l <= k /\ k <= l
    BY <2>1, <2>2
  <2>4. k = l
    BY <1>1, <2>3
  <2> QED
    BY <2>1, <2>2, <2>4
<1>4. ASSUME \A k, l \in DOMAIN accounts : k # l => accounts[k].email # accounts[l].email
      PROVE  ToSet(accounts) \subseteq LastOfEmail(accounts)
  <2>1. \A k \in DOMAIN accounts :
          \A l \in DOMAIN accounts : accounts[l].email = accounts[k].email => l <= k
    BY <1>1, <1>4
  <2> QED
    BY <2>1 DEF LastOfEmail, ToSet
<1> QED
  BY <1>2, <1>3, <1>4

\* Without repetition it reads back the accounts of the configuration.
LEMMA ExtractIsAll ==
  ASSUME NEW c, OfSubscriptions(c), ~Repeated(c)
  PROVE  Extract(c) = AccountsOf(c)
<1>0. \A i \in DOMAIN c.inbounds : Managed(c.inbounds[i]) => c.inbounds[i].protocol \in Protocol
  BY DEF Managed, Protocol
<1>1. \A i \in {j \in DOMAIN c.inbounds : Managed(c.inbounds[j])} :
        LastOfEmail(c.inbounds[i].accounts) = ToSet(c.inbounds[i].accounts)
  BY <1>0, LastOfEmailOnce DEF OfSubscriptions, Repeated, RepeatedIn
<1> QED
  BY <1>1 DEF Extract, AccountsOf

\* It never reads back more than the configuration has.
LEMMA ExtractIsPart ==
  ASSUME NEW c, OfSubscriptions(c)
  PROVE  Extract(c) \subseteq AccountsOf(c)
<1>1. \A i \in {j \in DOMAIN c.inbounds : Managed(c.inbounds[j])} :
        LastOfEmail(c.inbounds[i].accounts) \subseteq ToSet(c.inbounds[i].accounts)
  BY LastOfEmailOnce DEF OfSubscriptions
<1> QED
  BY <1>1 DEF Extract, AccountsOf

\* The accounts of a configuration have their types.
LEMMA AccountsOfTyped ==
  ASSUME NEW c \in Configuration, OfSubscriptions(c)
  PROVE  AccountsOf(c) \in SUBSET [tag : Tag, account : Account]
<1>1. c.inbounds \in Seq(Inbound) /\ \A b \in Inbound : b.tag \in Tag
  BY DEF Configuration, Inbound
<1>2. \A i \in DOMAIN c.inbounds : c.inbounds[i].tag \in Tag
  BY <1>1
<1>3. \A i \in DOMAIN c.inbounds :
        Managed(c.inbounds[i]) => \A a \in ToSet(c.inbounds[i].accounts) : a \in Account
  <2> TAKE i \in DOMAIN c.inbounds
  <2> HAVE Managed(c.inbounds[i])
  <2> DEFINE accounts == c.inbounds[i].accounts
  <2>1. accounts \in Seq(Account)
    BY DEF OfSubscriptions
  <2> HIDE DEF accounts
  <2>2. \A a \in ToSet(accounts) : a \in Account
    BY <2>1 DEF ToSet
  <2> QED
    BY <2>2 DEF accounts
<1> QED
  BY <1>2, <1>3 DEF AccountsOf

\* It is made of tags and accounts, and knows an e-mail once in an inbound.
LEMMA ExtractTyped ==
  ASSUME NEW c \in Configuration, OfSubscriptions(c), OneOfTag(c)
  PROVE  /\ Extract(c) \in SUBSET [tag : Tag, account : Account]
         /\ \A a, b \in Extract(c) :
              a.tag = b.tag /\ a.tag # "" /\ a.account.email = b.account.email => a = b
<1>1. /\ c.inbounds \in Seq(Inbound)
      /\ \A i \in DOMAIN c.inbounds : c.inbounds[i].tag \in Tag
  <2>1. c.inbounds \in Seq(Inbound) /\ \A b \in Inbound : b.tag \in Tag
    BY DEF Configuration, Inbound
  <2> QED
    BY <2>1
<1>2. \A x \in Extract(c) :
        \E i \in DOMAIN c.inbounds :
          /\ Managed(c.inbounds[i])
          /\ \E a \in LastOfEmail(c.inbounds[i].accounts) :
               x = [tag |-> c.inbounds[i].tag, account |-> a]
  BY DEF Extract
<1>3. \A i \in DOMAIN c.inbounds :
        Managed(c.inbounds[i]) =>
          /\ \A a \in LastOfEmail(c.inbounds[i].accounts) : a \in Account
          /\ \A a, b \in LastOfEmail(c.inbounds[i].accounts) : a.email = b.email => a = b
  <2> TAKE i \in DOMAIN c.inbounds
  <2> HAVE Managed(c.inbounds[i])
  <2> DEFINE accounts == c.inbounds[i].accounts
  <2>1. accounts \in Seq(Account)
    BY DEF OfSubscriptions
  <2> HIDE DEF accounts
  <2>2. \A a \in ToSet(accounts) : a \in Account
    BY <2>1 DEF ToSet
  <2> QED
    BY <2>1, <2>2, LastOfEmailOnce DEF accounts
<1>4. \A x \in Extract(c) : x \in [tag : Tag, account : Account]
  BY <1>1, <1>2, <1>3
<1>5. ASSUME NEW x \in Extract(c), NEW y \in Extract(c),
             x.tag = y.tag, x.tag # "", x.account.email = y.account.email
      PROVE  x = y
  <2>1. PICK i \in DOMAIN c.inbounds :
          /\ Managed(c.inbounds[i])
          /\ \E a \in LastOfEmail(c.inbounds[i].accounts) :
               x = [tag |-> c.inbounds[i].tag, account |-> a]
    BY <1>2
  <2>2. PICK j \in DOMAIN c.inbounds :
          /\ Managed(c.inbounds[j])
          /\ \E b \in LastOfEmail(c.inbounds[j].accounts) :
               y = [tag |-> c.inbounds[j].tag, account |-> b]
    BY <1>2
  <2>3. i = j
    <3>1. x.tag = c.inbounds[i].tag /\ y.tag = c.inbounds[j].tag
      BY <2>1, <2>2
    <3> QED
      BY <1>5, <3>1 DEF OneOfTag
  <2>4. PICK a \in LastOfEmail(c.inbounds[i].accounts) : x = [tag |-> c.inbounds[i].tag, account |-> a]
    BY <2>1
  <2>5. PICK b \in LastOfEmail(c.inbounds[i].accounts) : y = [tag |-> c.inbounds[i].tag, account |-> b]
    BY <2>2, <2>3
  <2>6. a = b
    BY <1>3, <1>5, <2>1, <2>4, <2>5
  <2> QED
    BY <2>4, <2>5, <2>6
<1> QED
  BY <1>4, <1>5

-----------------------------------------------------------------------------
(* The steps.                                                              *)

\* A configuration that is not refused can be started again while its geodata stay.
LEMMA NotRefused ==
  ASSUME NEW c \in Configuration, ~Refused(c)
  PROVE  OneOfTag(c) /\ \A f \in File : assets[f] \in c.needs[f]
BY DEF Refused, OneOfTag

\* Without its accounts a configuration is still one.
LEMMA BareTyped == \A c \in Configuration : Bare(c) \in Configuration
<1> TAKE c \in Configuration
<1> DEFINE bare == [i \in DOMAIN c.inbounds |-> [c.inbounds[i] EXCEPT !.accounts = <<>>]]
<1>1. c.inbounds \in Seq(Inbound) /\ <<>> \in Seq(Account)
  BY DEF Configuration
<1>2. \A i \in DOMAIN c.inbounds : [c.inbounds[i] EXCEPT !.accounts = <<>>] \in Inbound
  <2>1. \A b \in Inbound : [b EXCEPT !.accounts = <<>>] \in Inbound
    BY <1>1 DEF Inbound
  <2> QED
    BY <1>1, <2>1
<1>3. bare \in Seq(Inbound)
  <2>1. DOMAIN c.inbounds = 1 .. Len(c.inbounds) /\ Len(c.inbounds) \in Nat
    BY <1>1
  <2> QED
    BY <1>2, <2>1
<1> HIDE DEF bare
<1>4. [c EXCEPT !.inbounds = bare] \in Configuration
  BY <1>3 DEF Configuration
<1> QED
  BY <1>4 DEF Bare, bare

\* What newInstance makes of a configuration that is not refused.
LEMMA StartedCore ==
  ASSUME NEW c \in Configuration, OfSubscriptions(c), ~Refused(c),
         assets \in [File -> Content \cup {None}]
  PROVE  Core(c) \in CoreState /\ Core(c).base = Bare(c) /\ Faithful(Core(c), c)
<1>1. Core(c) \in CoreState
  <2>1. Repeated(c) \in BOOLEAN
    BY DEF Repeated, RepeatedIn
  <2> QED
    BY <2>1, AccountsOfTyped, BareTyped DEF Core, CoreState
<1>2. Faithful(Core(c), c)
  BY ExtractIsPart, ExtractIsAll DEF Core, Faithful
<1> QED
  BY <1>1, <1>2 DEF Core

\* The removals take away what the next table no longer has and nothing else, and
\* with the additions it is there; a core that knows an e-mail once has no more.
LEMMA PatchedIsFaithful ==
  ASSUME NEW k \in CoreState, core = k, NEW old \in Configuration, NEW new \in Configuration,
         OfSubscriptions(old), OneOfTag(old), HotSyncable(old),
         OfSubscriptions(new), OneOfTag(new),
         Faithful(k, old), NEW accounts \in Patched(old, new)
  PROVE  /\ accounts \in SUBSET [tag : Tag, account : Account]
         /\ Extract(new) \subseteq accounts
         /\ ~k.doubled => accounts = Extract(new)
<1> DEFINE gone == Extract(old) \ Extract(new)
<1>1. PICK kept \in SUBSET (IF k.doubled THEN Named(gone) ELSE {}) :
        accounts = (k.accounts \ Named(gone)) \cup kept \cup (Extract(new) \ Extract(old))
  BY DEF Patched
<1>2. /\ \A x \in Extract(old) : x.tag # ""
      /\ \A x, y \in Extract(old) :
           x.tag = y.tag /\ x.account.email = y.account.email => x = y
  <2>1. \A x \in Extract(old) :
          \E i \in DOMAIN old.inbounds : Managed(old.inbounds[i]) /\ x.tag = old.inbounds[i].tag
    BY DEF Extract
  <2>2. \A x \in Extract(old) : x.tag # ""
    BY <2>1 DEF HotSyncable
  <2> QED
    BY <2>2, ExtractTyped
<1>3. Named(gone) \subseteq k.accounts
  BY DEF Named
<1>4. \A x \in Extract(old) : x \in Extract(new) => x \notin Named(gone)
  BY <1>2 DEF Named
<1>5. gone \subseteq Named(gone)
  BY DEF Named, Faithful
<1>6. k.accounts \in SUBSET [tag : Tag, account : Account]
  BY DEF CoreState
<1>7. Extract(new) \in SUBSET [tag : Tag, account : Account]
  BY ExtractTyped
<1>8. kept \subseteq k.accounts /\ (~k.doubled => kept = {})
  BY <1>3
<1> HIDE DEF gone
<1>9. accounts \in SUBSET [tag : Tag, account : Account]
  BY <1>1, <1>6, <1>7, <1>8
<1>10. Extract(new) \subseteq accounts
  BY <1>1, <1>4 DEF Faithful
<1>11. ASSUME ~k.doubled PROVE accounts \subseteq Extract(new)
  BY <1>1, <1>5, <1>8, <1>11 DEF Faithful, gone
<1> QED
  BY <1>9, <1>10, <1>11

\* Apply of the rendering of a configuration.
LEMMA RestartKeeps ==
  ASSUME NEW r \in Raw, Renderable(r), NEW list \in Seq(User),
         Restarted(Render(r, list, now)),
         assets \in [File -> Content \cup {None}], assets' = assets
  PROVE  /\ effective' = Render(r, list, now) /\ effective' # None /\ renderedAt' = now
         /\ FilesInv' /\ core' \in CoreState
         /\ core'.base = Bare(effective') /\ Faithful(core', effective')
<1> DEFINE c == Render(r, list, now)
<1>1. r \in Configuration
  BY InputAssumption
<1>2. c \in Configuration /\ OfSubscriptions(c) /\ (InjectAPI => ApiOwned(c))
  BY <1>1, RenderTyped
<1>3. ~Refused(c) /\ core' = Core(c) /\ effective' = c /\ renderedAt' = now
  BY DEF Restarted
<1> HIDE DEF c
<1>4. OneOfTag(c) /\ \A f \in File : assets[f] \in c.needs[f]
  BY <1>2, <1>3, NotRefused
<1>5. c # None
  BY <1>2, InputAssumption
<1>6. FilesInv'
  BY <1>2, <1>3, <1>4 DEF FilesInv
<1> QED
  BY <1>2, <1>3, <1>5, <1>6, StartedCore DEF c

\* SyncUsers onto another rendering of the loaded configuration.
LEMMA HotSyncKeeps ==
  ASSUME RenderInv, raw \in Raw, NEW list \in Seq(User), users \in Seq(User),
         HotSynced(Render(raw, list, now)), UNCHANGED <<assets, touched>>
  PROVE  /\ effective' = Render(raw, list, now) /\ effective' # None /\ renderedAt' = now
         /\ FilesInv' /\ core' \in CoreState
         /\ core'.base = Bare(effective') /\ Faithful(core', effective')
<1> DEFINE c == Render(raw, list, now)
<1>1. raw \in Configuration /\ raw # None /\ Renderable(raw)
  BY InputAssumption DEF RenderInv, LoadedInv
<1>2. c \in Configuration /\ OfSubscriptions(c) /\ (InjectAPI => ApiOwned(c)) /\ c.needs = raw.needs
  BY <1>1, RenderTyped
<1>3. /\ core # None /\ HotSyncable(effective) /\ effective' = c /\ renderedAt' = now
      /\ \E accounts \in Patched(effective, c) : core' = [core EXCEPT !.accounts = accounts]
  BY DEF HotSynced
<1>4. effective # None /\ effective = Render(raw, users, renderedAt)
  BY <1>1 DEF RenderInv, LoadedInv
<1>5. /\ Alike(effective.inbounds, c.inbounds) /\ effective.needs = raw.needs
      /\ Bare(effective) = Bare(c)
  BY <1>1, <1>4, RenderAlike, RenderTyped
<1> HIDE DEF c
<1>6. OneOfTag(c)
  <2>1. OneOfTag(effective)
    BY <1>4 DEF RenderInv, FilesInv
  <2> QED
    BY <1>5, <2>1 DEF OneOfTag, Alike
<1>7. FilesInv'
  BY <1>2, <1>3, <1>4, <1>5, <1>6 DEF RenderInv, FilesInv
<1>8. PICK accounts \in Patched(effective, c) : core' = [core EXCEPT !.accounts = accounts]
  BY <1>3
<1>9. /\ core \in CoreState /\ core.base = Bare(effective) /\ Faithful(core, effective)
      /\ effective \in Configuration /\ OfSubscriptions(effective) /\ OneOfTag(effective)
  BY <1>3, <1>4 DEF RenderInv, CoreInv, FilesInv
<1>10. core' \in CoreState /\ core'.base = Bare(c) /\ Faithful(core', c)
  <2>1. /\ accounts \in SUBSET [tag : Tag, account : Account]
        /\ Extract(c) \subseteq accounts
        /\ ~core.doubled => accounts = Extract(c)
    BY <1>2, <1>3, <1>6, <1>9, PatchedIsFaithful
  <2>2. /\ core' \in CoreState /\ core'.base = core.base /\ core'.doubled = core.doubled
        /\ core'.accounts = accounts
    BY <1>8, <1>9, <2>1 DEF CoreState
  <2> QED
    BY <1>5, <1>9, <2>1, <2>2 DEF Faithful
<1>11. c # None
  BY <1>2, InputAssumption
<1> QED
  BY <1>3, <1>7, <1>10, <1>11 DEF c

\* Nothing is there at first.
LEMMA RenderInitially == Init => RenderInv
BY InputAssumption DEF Init, GeodataInit, RenderInv, InputInv, FilesInv, LoadedInv, CoreInv

\* A list of users is a sequence of them, the empty one too.
LEMMA UserLists == \A list \in UserList \cup {<<>>} : list \in Seq(User)
<1>1. <<>> \in Seq(User)
  OBVIOUS
<1> QED
  BY <1>1, InputAssumption

\* Every step keeps the invariant.
LEMMA RenderInductive == GeoInv /\ RenderInv /\ [Next]_vars => RenderInv'
<1> SUFFICES ASSUME GeoInv, RenderInv, [Next]_vars
             PROVE  RenderInv'
  OBVIOUS
<1>1. /\ assets \in [File -> Content \cup {None}]
      /\ raw \in Raw \cup {None} /\ pulled \in Raw \cup {None}
      /\ pulled = None => todo = None
  BY DEF GeoInv
<1>2. users \in Seq(User) /\ now \in Nat /\ now \in 0 .. MaxTime /\ MaxTime \in Nat
  BY UserLists, InputAssumption DEF RenderInv, InputInv
<1>3. CASE PullConfig
  <2>1. UNCHANGED <<assets, touched, raw, users, effective, core, now, renderedAt>>
    BY <1>3 DEF PullConfig
  <2> QED
    BY <2>1 DEF RenderInv, InputInv, FilesInv, LoadedInv, CoreInv
<1>4. CASE SyncGeodata
  <2>1. UNCHANGED <<raw, users, effective, core, now, renderedAt>>
    BY <1>4 DEF SyncGeodata
  <2>2. /\ touched \subseteq touched' /\ touched' \subseteq File
        /\ \A f \in File \ touched' : assets'[f] = assets[f]
    <3>1. CASE SyncAsset
      <4>1. todo \in Seq(Asset) /\ todo # <<>>
        BY <1>1, <3>1 DEF SyncAsset, GeoInv, TodoIsRest
      <4>2. Head(todo).file \in File
        <5>1. Head(todo) \in Asset
          BY <4>1
        <5> QED
          BY <5>1 DEF Asset
      <4> QED
        BY <1>1, <3>1, <4>2 DEF SyncAsset, RenderInv, InputInv
    <3>2. CASE SyncFails
      BY <3>2 DEF SyncFails, RenderInv, InputInv
    <3> QED
      BY <1>4, <3>1, <3>2 DEF SyncGeodata
  <2>3. FilesInv'
    BY <2>1, <2>2 DEF RenderInv, FilesInv
  <2> QED
    BY <2>1, <2>2, <2>3 DEF RenderInv, InputInv, LoadedInv, CoreInv
<1>5. CASE ApplyPulled
  <2>1. pulled \in Raw /\ UNCHANGED <<assets, users, now>>
    <3>1. todo = <<>> /\ <<>> \in Seq(Asset)
      BY <1>5 DEF ApplyPulled
    <3>2. pulled # None
      BY <1>1, <3>1, InputAssumption
    <3> QED
      BY <1>1, <1>5, <3>2 DEF ApplyPulled
  <2>2. CASE /\ Renderable(pulled) /\ Restarted(Render(pulled, users, now))
             /\ raw' = pulled /\ touched' = {}
    <3>1. /\ effective' = Render(pulled, users, now) /\ effective' # None /\ renderedAt' = now
          /\ FilesInv' /\ core' \in CoreState
          /\ core'.base = Bare(effective') /\ Faithful(core', effective')
      BY <1>1, <1>2, <2>1, <2>2, RestartKeeps
    <3> QED
      BY <1>2, <2>1, <2>2, <3>1 DEF RenderInv, InputInv, LoadedInv, CoreInv
  <2>3. CASE UNCHANGED <<raw, effective, core, renderedAt, touched>>
    BY <2>1, <2>3 DEF RenderInv, InputInv, FilesInv, LoadedInv, CoreInv
  <2> QED
    BY <1>5, <2>2, <2>3 DEF ApplyPulled
<1>6. CASE PullUsers
  <2>1. UNCHANGED <<assets, touched, raw, now>>
    BY <1>6 DEF PullUsers, geodata
  <2>2. PICK list \in UserList :
          /\ users' = list
          /\ \/ raw = None /\ UNCHANGED <<effective, core, renderedAt>>
             \/ /\ raw # None
                /\ HotSynced(Render(raw, list, now)) \/ Restarted(Render(raw, list, now))
    BY <1>6 DEF PullUsers
  <2>3. list \in Seq(User)
    BY UserLists
  <2>4. CASE raw = None /\ UNCHANGED <<effective, core, renderedAt>>
    BY <2>1, <2>2, <2>4 DEF RenderInv, InputInv, FilesInv, LoadedInv, CoreInv
  <2>5. CASE /\ raw # None
             /\ HotSynced(Render(raw, list, now)) \/ Restarted(Render(raw, list, now))
    <3>1. raw \in Raw /\ Renderable(raw)
      BY <1>1, <2>5 DEF RenderInv, LoadedInv
    <3>2. /\ effective' = Render(raw, list, now) /\ effective' # None /\ renderedAt' = now
          /\ FilesInv' /\ core' \in CoreState
          /\ core'.base = Bare(effective') /\ Faithful(core', effective')
      BY <1>1, <1>2, <2>1, <2>3, <2>5, <3>1, RestartKeeps, HotSyncKeeps
    <3> QED
      BY <1>2, <2>1, <2>2, <3>1, <3>2 DEF RenderInv, InputInv, LoadedInv, CoreInv
  <2> QED
    BY <2>2, <2>4, <2>5
<1>7. CASE RestartOffline
  <2>1. raw' = None /\ UNCHANGED <<assets, touched, users, effective, now, renderedAt>>
    BY <1>7 DEF RestartOffline
  <2>2. CoreInv'
    <3>1. CASE core' = None
      BY <2>1, <3>1 DEF CoreInv
    <3>2. CASE effective # None /\ ~Refused(effective) /\ core' = Core(effective)
      <4>1. effective \in Configuration /\ OfSubscriptions(effective)
        BY <3>2 DEF RenderInv, FilesInv
      <4>2. /\ core' \in CoreState
            /\ core'.base = Bare(effective') /\ Faithful(core', effective')
        BY <1>1, <2>1, <3>2, <4>1, StartedCore
      <4> QED
        BY <2>1, <3>2, <4>2 DEF CoreInv
    <3> QED
      BY <1>7, <3>1, <3>2 DEF RestartOffline
  <2> QED
    BY <2>1, <2>2 DEF RenderInv, InputInv, FilesInv, LoadedInv
<1>8. CASE Tick
  <2>1. /\ now' \in 0 .. MaxTime /\ now' = now + 1
        /\ UNCHANGED <<assets, touched, raw, users, effective, core, renderedAt>>
    BY <1>2, <1>8 DEF Tick, geodata
  <2> QED
    BY <1>2, <2>1 DEF RenderInv, InputInv, FilesInv, LoadedInv, CoreInv
<1>9. CASE UNCHANGED vars
  BY <1>9 DEF vars, geodata, RenderInv, InputInv, FilesInv, LoadedInv, CoreInv
<1> QED
  BY <1>3, <1>4, <1>5, <1>6, <1>7, <1>8, <1>9 DEF Next

-----------------------------------------------------------------------------
(* The theorems.                                                           *)

\* The invariant holds in every reachable state.
THEOREM RenderInvariance == Spec => [](GeoInv /\ RenderInv)
<1>1. GeoInv /\ RenderInv /\ [Next]_vars => GeoInv' /\ RenderInv'
  BY GeoInductive, RenderInductive
<1> QED
  BY <1>1, GeoInitially, RenderInitially, PTL DEF Spec

\* Every rendering is a configuration again, with accounts of subscriptions only,
\* and a pull and its list of geodata begin and end together.
THEOREM TypeCorrect == Spec => []TypeOK
<1>1. ASSUME GeoInv, RenderInv
      PROVE  TypeOK
  <2>1. GeodataTypeOK
    <3>1. todo = None \/ todo \in Seq(Asset)
      BY <1>1 DEF GeoInv, TodoIsRest
    <3>2. todo = None \/ \A asset \in ToSet(todo) : asset \in Asset
      BY <3>1 DEF ToSet
    <3> QED
      BY <1>1, <3>2 DEF GeodataTypeOK, GeoInv, RenderInv, InputInv
  <2>2. {raw, pulled} \subseteq Raw \cup {None} /\ (pulled = None <=> todo = None)
    BY <1>1, InputAssumption DEF GeoInv, TodoIsRest
  <2>3. users \in UserList \cup {<<>>} /\ now \in 0 .. MaxTime /\ renderedAt \in 0 .. now
    BY <1>1 DEF RenderInv, InputInv
  <2>4. core # None => effective # None /\ core \in CoreState
    BY <1>1 DEF RenderInv, CoreInv
  <2>5. /\ effective \in Configuration \cup {None}
        /\ effective # None => OfSubscriptions(effective)
    BY <1>1 DEF RenderInv, FilesInv
  <2> QED
    BY <2>1, <2>2, <2>3, <2>4, <2>5 DEF TypeOK, CoreState, OfSubscriptions
<1> QED
  BY <1>1, RenderInvariance, PTL

\* From the server's configuration and list to the accounts in the core, hot or
\* by restarts: exactly the users active at the last rendering are served.
THEOREM ActiveUsersServed == Spec => []CoreServesActiveUsers
<1>1. ASSUME GeoInv, RenderInv, raw # None, ~core.doubled, ~Repeated(effective)
      PROVE  core.accounts = Due(raw, users, renderedAt)
  <2>1. raw \in Configuration /\ users \in Seq(User) /\ renderedAt \in Nat
    BY <1>1, UserLists, InputAssumption DEF GeoInv, RenderInv, InputInv
  <2>2. Renderable(raw) /\ effective # None /\ effective = Render(raw, users, renderedAt)
    BY <1>1 DEF RenderInv, LoadedInv
  <2>3. core.accounts = Extract(effective) /\ OfSubscriptions(effective)
    BY <1>1, <2>2 DEF RenderInv, CoreInv, Faithful, FilesInv
  <2>4. core.accounts = AccountsOf(effective)
    BY <1>1, <2>3, ExtractIsAll
  <2> QED
    BY <2>1, <2>2, <2>4, RenderServesDue
<1>2. GeoInv /\ RenderInv => CoreServesActiveUsers
  BY <1>1 DEF CoreServesActiveUsers, Due, AccountOf
<1> QED
  BY <1>2, RenderInvariance, PTL

\* A list that names a subscription twice, which validateRuntimeUsers lets pass,
\* never brings an e-mail twice into an inbound of a core that runs; only starting
\* one with the list can.
THEOREM EmailsOnce == Spec => []OneAccountPerEmail
<1>1. ASSUME RenderInv, core # None, ~core.doubled
      PROVE  \A a, b \in core.accounts :
               a.tag = b.tag /\ a.tag # "" /\ a.account.email = b.account.email => a = b
  <2>1. effective # None /\ core.accounts = Extract(effective)
    BY <1>1 DEF RenderInv, CoreInv, Faithful
  <2>2. effective \in Configuration /\ OfSubscriptions(effective) /\ OneOfTag(effective)
    BY <1>1, <2>1 DEF RenderInv, FilesInv
  <2> QED
    BY <2>1, <2>2, ExtractTyped
<1>2. RenderInv => OneAccountPerEmail
  BY <1>1 DEF OneAccountPerEmail
<1> QED
  BY <1>2, RenderInvariance, PTL

\* However the core came to its accounts, it is what the files would start: so a
\* configuration can be taken for a base and a table of users (SyncUsers).
THEOREM HotIsLikeRestart == Spec => []HotLikeRestart
<1>1. RenderInv => HotLikeRestart
  BY DEF RenderInv, CoreInv, Faithful, HotLikeRestart
<1> QED
  BY <1>1, RenderInvariance, PTL

\* Whatever inbounds and rules the server sends, the agent's own inbound is the
\* only one of its tag and its connections reach the API (ensureRuntimeAPIInbound,
\* ensureRuntimeAPIRouting).
THEOREM ApiIsReachable == Spec => []ApiReachable
<1>1. ASSUME RenderInv, InjectAPI, effective # None
      PROVE  /\ {i \in DOMAIN effective.inbounds : effective.inbounds[i].tag = "api"}
                  = {i \in DOMAIN effective.inbounds : effective.inbounds[i] = ApiInbound}
             /\ \E i \in DOMAIN effective.inbounds :
                  /\ effective.inbounds[i] = ApiInbound
                  /\ \A j \in DOMAIN effective.inbounds : effective.inbounds[j] = ApiInbound => j = i
             /\ \E k \in DOMAIN effective.rules :
                  /\ effective.rules[k] = ApiRule
                  /\ \A j \in 1 .. k - 1 : effective.rules[j].from # {} /\ "api" \notin effective.rules[j].from
                  /\ \A j \in DOMAIN effective.rules : effective.rules[j].to = "api" => j = k
  <2>1. ApiOwned(effective)
    BY <1>1 DEF RenderInv, FilesInv
  <2>2. ApiInbound.tag = "api"
    BY DEF ApiInbound
  <2>3. PICK a \in DOMAIN effective.inbounds :
          /\ effective.inbounds[a] = ApiInbound
          /\ \A i \in DOMAIN effective.inbounds : i # a => effective.inbounds[i].tag # "api"
    BY <2>1 DEF ApiOwned
  <2>4. \A i \in DOMAIN effective.inbounds :
          /\ effective.inbounds[i].tag = "api" <=> i = a
          /\ effective.inbounds[i] = ApiInbound <=> i = a
    BY <2>2, <2>3
  <2>5. /\ 1 \in DOMAIN effective.rules /\ effective.rules[1] = ApiRule
        /\ \A j \in DOMAIN effective.rules : effective.rules[j].to = "api" => j = 1
        /\ \A j \in 1 .. 1 - 1 : effective.rules[j].from # {} /\ "api" \notin effective.rules[j].from
    BY <2>1 DEF ApiOwned
  <2> QED
    BY <2>4, <2>5
<1>2. RenderInv => ApiReachable
  BY <1>1 DEF ApiReachable
<1> QED
  BY <1>2, RenderInvariance, PTL

\* What the files hold can be started without the server, unless a pull that was
\* rejected or cut off replaced a geodata file it needs.
THEOREM OfflineStarts == Spec => []OfflineCanStart
<1>1. RenderInv => OfflineCanStart
  BY DEF RenderInv, FilesInv, OneOfTag, OfflineCanStart, Refused
<1> QED
  BY <1>1, RenderInvariance, PTL

\* Two renderings of a loaded configuration leave nothing but accounts to change,
\* which is all that a hot change carries into the core (SyncUsers).
THEOREM HotChangesSuffice == Spec => OnlyAccountsDiffer
<1>1. ASSUME GeoInv, RenderInv, RenderInv', Next, raw # None, raw' = raw
      PROVE  Bare(effective') = Bare(effective)
  <2>1. raw \in Configuration /\ users \in Seq(User)
    BY <1>1, UserLists, InputAssumption DEF GeoInv, RenderInv, InputInv
  <2>2. users' \in UserList \cup {<<>>}
    BY <1>1 DEF RenderInv, InputInv
  <2>3. users' \in Seq(User)
    BY <2>2, UserLists
  <2>4. Renderable(raw) /\ effective = Render(raw, users, renderedAt)
    BY <1>1 DEF RenderInv, LoadedInv
  <2>5. effective' = Render(raw, users', renderedAt')
    BY <1>1 DEF RenderInv, LoadedInv
  <2> QED
    BY <2>1, <2>3, <2>4, <2>5, RenderAlike
<1>2. GeoInv /\ RenderInv /\ RenderInv' /\ [Next]_vars
        => [raw # None /\ raw' = raw => Bare(effective') = Bare(effective)]_vars
  BY <1>1
<1> QED
  BY <1>2, RenderInvariance, PTL DEF Spec, OnlyAccountsDiffer

=============================================================================
