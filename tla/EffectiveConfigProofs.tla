----------------------- MODULE EffectiveConfigProofs -----------------------
(***************************************************************************)
(* Geodata, for any files, contents, lists and configurations: what stands *)
(* in the asset directory was listed, and a version is applied only with   *)
(* the files it lists.                                                     *)
(*                                                                         *)
(* The list of the pull under way has a part that is done and a part that  *)
(* is still to do (TodoIsRest); DoneIsThere says of the first what         *)
(* VersionHasItsGeodata says of a whole list, and the two meet when        *)
(* nothing is left to do.                                                  *)
(***************************************************************************)
EXTENDS EffectiveConfig, TLAPS

\* How many assets of the pull under way are synchronised.
Synced == Len(pulled.assets) - Len(todo)

\* What is still to do is the end of the list.
TodoIsRest ==
  pulled # None =>
    /\ todo \in Seq(Asset) /\ Len(todo) <= Len(pulled.assets)
    /\ \A i \in 1 .. Len(todo) : todo[i] = pulled.assets[Synced + i]

\* In the first n assets of a list, the last one of each file is in its place.
InPlace(list, n) ==
  \A i \in 1 .. n :
    /\ list[i].sum # None
    /\ \A j \in 1 .. n : j > i => list[j].file # list[i].file
    => assets[list[i].file] = list[i].sum

DoneIsThere == pulled # None => InPlace(pulled.assets, Synced)

GeoInv ==
  /\ assets \in [File -> Content \cup {None}]
  /\ raw \in Raw \cup {None} /\ pulled \in Raw \cup {None}
  /\ pulled = None => todo = None
  /\ TodoIsRest
  /\ DoneIsThere
  /\ OnlyListedGeodata

-----------------------------------------------------------------------------
(* Geodata.                                                                *)

\* The list of a configuration is a sequence of assets.
LEMMA RawAssets ==
  ASSUME NEW r \in Raw
  PROVE  /\ r.assets \in Seq(Asset) /\ Len(r.assets) \in Nat
         /\ DOMAIN r.assets = 1 .. Len(r.assets)
         /\ \A i \in 1 .. Len(r.assets) :
              /\ r.assets[i] \in Asset
              /\ r.assets[i].file \in File /\ r.assets[i].sum \in Content \cup {None}
<1>1. r.assets \in Seq(Asset)
  BY InputAssumption DEF Configuration
<1>2. \A i \in 1 .. Len(r.assets) : r.assets[i] \in Asset
  BY <1>1
<1>3. \A asset \in Asset : asset.file \in File /\ asset.sum \in Content \cup {None}
  BY DEF Asset
<1> QED
  BY <1>1, <1>2, <1>3

\* A synchronised asset: the list's next, the file brought to its checksum.
LEMMA SyncAssetKeeps ==
  ASSUME GeoInv, SyncAsset, UNCHANGED <<pulled, raw>>
  PROVE  GeoInv'
<1>1. pulled # None /\ pulled \in Raw /\ todo \in Seq(Asset) /\ Len(todo) > 0
  <2>1. todo # None /\ todo # <<>>
    BY DEF SyncAsset
  <2>2. pulled # None /\ pulled \in Raw /\ todo \in Seq(Asset)
    BY <2>1 DEF GeoInv, TodoIsRest
  <2> QED
    BY <2>1, <2>2
<1> DEFINE list == pulled.assets
           n == Synced
           next == list[n + 1]
<1>2. /\ list \in Seq(Asset) /\ Len(list) \in Nat /\ Len(todo) \in Nat
      /\ DOMAIN list = 1 .. Len(list)
      /\ \A i \in 1 .. Len(list) :
           list[i] \in Asset /\ list[i].file \in File /\ list[i].sum \in Content \cup {None}
  BY <1>1, RawAssets
<1>3. /\ Len(todo) <= Len(list)
      /\ \A i \in 1 .. Len(todo) : todo[i] = list[n + i]
  BY <1>1 DEF GeoInv, TodoIsRest
<1>4. n \in Nat /\ n + 1 \in 1 .. Len(list) /\ next = Head(todo)
  BY <1>1, <1>2, <1>3 DEF Synced
<1>5. /\ Len(todo') = Len(todo) - 1 /\ todo' \in Seq(Asset)
      /\ \A i \in 1 .. Len(todo') : todo'[i] = todo[i + 1]
  BY <1>1, <1>2 DEF SyncAsset
<1>6. Synced' = n + 1
  BY <1>2, <1>5 DEF Synced
<1>7. next.valid
  BY <1>4 DEF SyncAsset
<1>8. \/ Matches(next) /\ assets' = assets
      \/ \E content \in Content :
           Accepts(next, content) /\ assets' = [assets EXCEPT ![next.file] = content]
  BY <1>4 DEF SyncAsset
<1>9. next \in Asset /\ next.file \in File /\ next.sum \in Content \cup {None}
  BY <1>2, <1>4
<1>10. /\ assets' \in [File -> Content \cup {None}]
       /\ next.sum # None => assets'[next.file] = next.sum
       /\ next.sum \in {None, assets'[next.file]}
       /\ \A f \in File : f # next.file => assets'[f] = assets[f]
  BY <1>8, <1>9 DEF GeoInv, Matches, Accepts
<1>11. TodoIsRest'
  <2>1. Len(todo') <= Len(list)
    BY <1>2, <1>3, <1>5
  <2>2. \A i \in 1 .. Len(todo') : todo'[i] = list[n + 1 + i]
    <3> TAKE i \in 1 .. Len(todo')
    <3>1. i \in Nat /\ i + 1 \in 1 .. Len(todo)
      BY <1>2, <1>5
    <3>2. n + (i + 1) = n + 1 + i
      BY <1>4, <3>1
    <3> QED
      BY <1>3, <1>5, <3>1, <3>2
  <2> QED
    BY <1>5, <1>6, <2>1, <2>2 DEF TodoIsRest
<1>12. DoneIsThere'
  <2>1. SUFFICES ASSUME NEW i \in 1 .. n + 1,
                        list[i].sum # None,
                        \A j \in 1 .. n + 1 : j > i => list[j].file # list[i].file
                 PROVE  assets'[list[i].file] = list[i].sum
    BY <1>6 DEF DoneIsThere, InPlace
  <2>2. CASE i = n + 1
    BY <1>10, <2>1, <2>2
  <2>3. CASE i # n + 1
    <3>1. i \in 1 .. n /\ list[i].file \in File /\ list[i].file # next.file
      BY <1>2, <1>4, <2>1, <2>3
    <3>2. \A j \in 1 .. n : j > i => list[j].file # list[i].file
      BY <1>4, <2>1
    <3>3. assets[list[i].file] = list[i].sum
      BY <1>1, <2>1, <3>1, <3>2 DEF GeoInv, DoneIsThere, InPlace
    <3> QED
      BY <1>10, <3>1, <3>3
  <2> QED
    BY <2>2, <2>3
<1>13. OnlyListedGeodata'
  <2>1. SUFFICES ASSUME NEW f \in File, assets'[f] # None
                 PROVE  \E r \in Raw : \E i \in DOMAIN r.assets :
                          /\ r.assets[i].file = f /\ r.assets[i].valid
                          /\ r.assets[i].sum \in {None, assets'[f]}
    BY DEF OnlyListedGeodata
  <2>2. CASE f = next.file
    BY <1>1, <1>2, <1>4, <1>7, <1>10, <2>2
  <2>3. CASE f # next.file
    BY <1>10, <2>1, <2>3 DEF GeoInv, OnlyListedGeodata
  <2> QED
    BY <2>2, <2>3
<1> QED
  BY <1>1, <1>10, <1>11, <1>12, <1>13 DEF GeoInv

\* The directory is empty and no pull is under way at first.
LEMMA GeoInitially == Init => GeoInv
<1> SUFFICES ASSUME Init PROVE GeoInv
  OBVIOUS
<1> QED
  BY DEF Init, GeodataInit, GeoInv, TodoIsRest, DoneIsThere, OnlyListedGeodata

\* Every step keeps the geodata part of the invariant.
LEMMA GeoInductive == GeoInv /\ [Next]_vars => GeoInv'
<1> SUFFICES ASSUME GeoInv, [Next]_vars PROVE GeoInv'
  OBVIOUS
<1>1. CASE PullConfig
  <2>1. PICK r \in Raw \ {raw} : pulled' = r /\ todo' = r.assets
    BY <1>1 DEF PullConfig
  <2>2. pulled' # None /\ assets' = assets /\ raw' = raw
    BY <1>1, <2>1, InputAssumption DEF PullConfig
  <2>3. r.assets \in Seq(Asset) /\ Len(r.assets) \in Nat
    BY <2>1, RawAssets
  <2>4. Synced' = 0
    BY <2>1, <2>3 DEF Synced
  <2>5. TodoIsRest'
    BY <2>1, <2>3, <2>4 DEF TodoIsRest
  <2>6. DoneIsThere'
    BY <2>4 DEF DoneIsThere, InPlace
  <2> QED
    BY <2>1, <2>2, <2>5, <2>6 DEF GeoInv, OnlyListedGeodata
<1>2. CASE SyncGeodata
  <2>1. CASE SyncAsset /\ UNCHANGED pulled
    BY <1>2, <2>1, SyncAssetKeeps DEF SyncGeodata
  <2>2. CASE SyncFails /\ pulled' = None
    BY <1>2, <2>2 DEF SyncGeodata, SyncFails, GeoInv, TodoIsRest, DoneIsThere, OnlyListedGeodata
  <2> QED
    BY <1>2, <2>1, <2>2 DEF SyncGeodata
<1>3. CASE ApplyPulled
  <2>1. raw' \in {raw, pulled} /\ pulled' = None /\ todo' = None /\ assets' = assets
    BY <1>3 DEF ApplyPulled
  <2> QED
    BY <2>1 DEF GeoInv, TodoIsRest, DoneIsThere, OnlyListedGeodata
<1>4. CASE PullUsers \/ Tick \/ UNCHANGED vars
  <2>1. UNCHANGED <<assets, todo, raw, pulled>>
    BY <1>4 DEF PullUsers, Tick, vars, geodata
  <2> QED
    BY <2>1 DEF GeoInv, TodoIsRest, DoneIsThere, InPlace, Synced, OnlyListedGeodata
<1>5. CASE RestartOffline
  BY <1>5 DEF RestartOffline, GeoInv, TodoIsRest, DoneIsThere, OnlyListedGeodata
<1> QED
  BY <1>1, <1>2, <1>3, <1>4, <1>5 DEF Next

-----------------------------------------------------------------------------
(* Renderings and the core that is started with one.                       *)

\* The parts of a rendered configuration.
LEMMA RenderFields ==
  ASSUME NEW r \in Configuration, NEW list, NEW t
  PROVE  LET with == WithUsers(r.inbounds, ActiveOf(list, t)) IN
         Render(r, list, t) =
           [inbounds |-> IF InjectAPI THEN WithApiInbound(with) ELSE with,
            rules |-> IF InjectAPI THEN WithApiRule(r.rules) ELSE r.rules,
            levels |-> IF InjectAPI THEN WithPolicy(r.levels) ELSE r.levels,
            needs |-> r.needs, assets |-> r.assets]
<1> DEFINE with == WithUsers(r.inbounds, ActiveOf(list, t))
           c == [r EXCEPT !.inbounds = with]
<1>1. c = [inbounds |-> with, rules |-> r.rules, levels |-> r.levels,
           needs |-> r.needs, assets |-> r.assets]
  <2>1. r \in [inbounds : {r.inbounds}, rules : {r.rules}, levels : {r.levels},
               needs : {r.needs}, assets : {r.assets}]
    BY DEF Configuration
  <2> HIDE DEF with
  <2>2. c \in [inbounds : {with}, rules : {r.rules}, levels : {r.levels},
               needs : {r.needs}, assets : {r.assets}]
    BY <2>1
  <2> HIDE DEF c
  <2> QED
    BY <2>2
<1>2. Render(r, list, t) = WithAPI(c)
  BY DEF Render
<1> HIDE DEF c, with
<1>3. CASE InjectAPI
  <2> DEFINE inbounds == WithApiInbound(c.inbounds)
             rules == WithApiRule(c.rules)
             levels == WithPolicy(c.levels)
             d == [c EXCEPT !.inbounds = inbounds, !.rules = rules, !.levels = levels]
  <2>1. Render(r, list, t) = d
    BY <1>2, <1>3 DEF WithAPI
  <2> HIDE DEF inbounds, rules, levels
  <2>2. d \in [inbounds : {inbounds}, rules : {rules}, levels : {levels},
               needs : {r.needs}, assets : {r.assets}]
    BY <1>1
  <2> HIDE DEF d
  <2>3. d = [inbounds |-> inbounds, rules |-> rules, levels |-> levels,
             needs |-> r.needs, assets |-> r.assets]
    BY <2>2
  <2> QED
    BY <1>1, <1>3, <2>1, <2>3 DEF inbounds, rules, levels, with
<1>4. CASE ~InjectAPI
  BY <1>1, <1>2, <1>4 DEF WithAPI, with
<1> QED
  BY <1>3, <1>4

\* A core that is started has the files on disk.
LEMMA Restarting ==
  ASSUME NEW c, Restarted(c)
  PROVE  core'.built = assets
BY DEF Restarted, Core

-----------------------------------------------------------------------------
\* Whatever the downloads bring and wherever pulls end, the asset directory holds
\* only files that passed the check of a list (writeDownloadedGeodataAsset).
THEOREM GeodataListed == Spec => []OnlyListedGeodata
<1>1. GeoInv => OnlyListedGeodata
  BY DEF GeoInv
<1> QED
  BY <1>1, GeoInitially, GeoInductive, PTL DEF Spec

\* A version that becomes the loaded one is built with the files its list demands
\* (pullRuntimeConfig, syncRuntimeGeodataAssets).
THEOREM VersionHasGeodata == Spec => VersionHasItsGeodata
<1> DEFINE Step == raw' \notin {raw, None} =>
             \A i \in DOMAIN raw'.assets :
               LET asset == raw'.assets[i] IN
               /\ asset.sum # None
               /\ \A j \in DOMAIN raw'.assets : j > i => raw'.assets[j].file # asset.file
               => core'.built[asset.file] = asset.sum
<1>1. ASSUME GeoInv, Next, raw' \notin {raw, None}
      PROVE  Step
  <2>1. /\ ApplyPulled /\ todo = <<>> /\ raw' = pulled
        /\ Restarted(Render(pulled, users, now))
    BY <1>1 DEF Next, PullConfig, SyncGeodata, ApplyPulled, PullUsers, RestartOffline, Tick
  <2>2. pulled # None /\ pulled \in Raw
    BY <1>1, <2>1 DEF GeoInv
  <2>3. core'.built = assets
    BY <2>1, <2>2, Restarting
  <2>4. /\ Len(pulled.assets) \in Nat /\ DOMAIN pulled.assets = 1 .. Len(pulled.assets)
    BY <2>2, RawAssets
  <2>5. Synced = Len(pulled.assets)
    BY <2>1, <2>4 DEF Synced
  <2>6. InPlace(pulled.assets, Len(pulled.assets))
    BY <1>1, <2>2, <2>5 DEF GeoInv, DoneIsThere
  <2> QED
    BY <2>1, <2>3, <2>4, <2>6 DEF InPlace
<1>2. GeoInv /\ [Next]_vars => [Step]_vars
  BY <1>1
<1> QED
  BY <1>2, GeoInitially, GeoInductive, PTL DEF Spec, VersionHasItsGeodata

=============================================================================
