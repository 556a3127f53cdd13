------------------------- MODULE MCEffectiveConfig -------------------------
(* A few configurations a server could send: two with inbounds that take the *)
(* tag of the API, one whose users cannot be managed hot, one the core       *)
(* refuses and one that cannot be rendered, with geodata of two files; and   *)
(* user lists that change a key, disable, expire and repeat a subscription.  *)
EXTENDS EffectiveConfig

CONSTANTS flow, geoip, geosite, old, new, other

InboundOf(tag, protocol, accounts) == [tag |-> tag, protocol |-> protocol, accounts |-> accounts]
Template(level, extra) ==
  <<[email |-> 0, secret |-> [kind |-> "id", key |-> 0], level |-> level, extra |-> extra]>>
RuleOf(from, to) == [from |-> from, to |-> to]
Need(ip, site) == (geoip :> ip) @@ (geosite :> site)
AssetOf(file, sum) == [file |-> file, sum |-> sum, valid |-> TRUE]
NoMatter == {old, new, other, None}

MCFile == {geoip, geosite}
MCTag == {"", "api", "a", "b", "direct", "block"}
MCKey == 0 .. 3
MCContent == {old, new, other}
MCEmailKeyed == ClientProtocol

\* Needs both files; the list demands the old one of the first.
TwoKinds ==
  [inbounds |-> <<InboundOf("api", "dokodemo-door", <<>>), InboundOf("a", "vless", Template(0, flow)),
                  InboundOf("api", "trojan", Template(1, flow)), InboundOf("b", "trojan", <<>>)>>,
   rules |-> <<RuleOf({}, "direct"), RuleOf({"a"}, "api"), RuleOf({"a", "api"}, "block"), RuleOf({"b"}, "block")>>,
   levels |-> {2}, needs |-> Need({old, new, other}, {old, new}),
   assets |-> <<AssetOf(geoip, old), AssetOf(geosite, None)>>]
\* Cannot be built with the old file.
OwnApi ==
  [inbounds |-> <<InboundOf("api", "vmess", <<>>), InboundOf("a", "shadowsocks", Template(1, None))>>,
   rules |-> <<>>, levels |-> {1}, needs |-> Need({new, other}, NoMatter), assets |-> <<AssetOf(geoip, new)>>]
\* Needs a file the server does not list.
Untagged ==
  [inbounds |-> <<InboundOf("", "hysteria", Template(1, None))>>, rules |-> <<RuleOf({}, "direct")>>,
   levels |-> {}, needs |-> Need(NoMatter, {old}), assets |-> <<>>]
TwoOfOneTag ==
  [inbounds |-> <<InboundOf("a", "vless", Template(0, flow)), InboundOf("a", "trojan", <<>>)>>,
   rules |-> <<>>, levels |-> {}, needs |-> Need(NoMatter, NoMatter),
   assets |-> <<AssetOf(geosite, new), [file |-> geoip, sum |-> None, valid |-> FALSE]>>]
\* Lists one file twice.
NoObject ==
  [inbounds |-> <<InboundOf("a", "vless", None)>>, rules |-> <<>>, levels |-> {},
   needs |-> Need(NoMatter, NoMatter), assets |-> <<AssetOf(geosite, new), AssetOf(geosite, old)>>]

UserOf(id, key, enabled, expires) ==
  [id |-> id, key |-> key, enabled |-> enabled, expires |-> expires]

MCRaw == {TwoKinds, OwnApi, Untagged, TwoOfOneTag, NoObject}
MCUserList ==
  {<<>>,
   <<UserOf(1, 1, TRUE, -1)>>,
   <<UserOf(1, 2, TRUE, 0), UserOf(2, 3, TRUE, 2)>>,
   <<UserOf(2, 3, TRUE, 1), UserOf(1, 1, FALSE, 0)>>,
   <<UserOf(1, 1, TRUE, 0), UserOf(1, 2, TRUE, 3)>>}

=============================================================================
