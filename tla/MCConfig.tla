------------------------------ MODULE MCConfig ------------------------------
(***************************************************************************)
(* Configuration and routing.  A behaviour runs one of three parts while   *)
(* the others rest.                                                        *)
(*                                                                         *)
(* file: every kind of entry of every format, from a smallest entry it     *)
(* accepts, with two options set or dropped.  rules: two rules of every    *)
(* format, the first from a list with logical rules nested two deep, over  *)
(* addresses of two bits.  router: one TCP client or one UDP association   *)
(* with two datagrams, two targets, one tag with two addresses, and two    *)
(* updates of routes or upstreams.                                         *)
(***************************************************************************)
EXTENDS ConfigFile, RouterPart

(* The entries of the file.                                                *)
Make(format, kinds, bases) == [format : {format}, kind : kinds, base : bases]
Nothing == <<>>

MihomoEntries ==
  Make("mihomo", DOMAIN MihomoKinds, {Nothing}) \cup Make("mihomo", {"http", "vmess"}, {[tls |-> "on"]})
    \cup Make("mihomo", {"vless"}, {[reality_opts |-> "key"]})
    \cup Make("mihomo-listen", {""}, {Nothing, [mixed_port |-> "x"]}) \cup Make("mihomo-tun", {""}, {Nothing, [enable |-> "on"]})

XrayPeerBase == [address |-> "x", id |-> "x", password |-> "x", method |-> "x"]
XrayServerBase == [port |-> "x", clients |-> "one"]
XrayHy == [version |-> "2", network |-> "hysteria"]
XrayIdentity == [certificates |-> "pair"]
XrayRealityIn == [security |-> "reality", dest |-> "x", private_key |-> "x"]
XrayEntries ==
  Make("xray-out", {"anytls", "shadowsocks", "socks", "http", "vless", "vmess", "trojan", "mieru", "hysteria2"}, {XrayPeerBase})
    \cup Make("xray-out", {"anytls", "http", "vless", "vmess", "trojan"}, {XrayPeerBase @@ [security |-> "tls"]})
    \cup Make("xray-out", {"vless"}, {XrayPeerBase @@ [security |-> "reality", public_key |-> "x"]})
    \cup Make("xray-out", {"hysteria"}, {XrayPeerBase @@ XrayHy}) \cup Make("xray-out", {"freedom"}, {Nothing})
    \cup Make("xray-in", {"shadowsocks", "mieru", "vless", "vmess"}, {XrayServerBase @@ [method |-> "x"]})
    \cup Make("xray-in", {"anytls", "trojan", "vless", "vmess"}, {XrayServerBase @@ XrayIdentity @@ [security |-> "tls"]})
    \cup Make("xray-in", {"vless"}, {XrayServerBase @@ XrayRealityIn})
    \cup Make("xray-in", {"hysteria"}, {XrayServerBase @@ XrayIdentity @@ XrayHy})
    \cup Make("xray-socks", {""}, {[port |-> "x"]}) \cup Make("xray-tun", {""}, {Nothing})

SbTlsBase == [tls |-> "on"]
SbServerBase == [listen_port |-> "x"]
SbIdentityBase == SbServerBase @@ [tls |-> "on", certificate |-> "x", key |-> "x"]
SingboxEntries ==
  Make("singbox-out", {"shadowsocks", "socks", "http", "vless", "vmess", "mieru", "direct"}, {Nothing})
    \cup Make("singbox-out", {"http", "vless", "vmess", "trojan", "anytls", "naive", "tuic"}, {SbTlsBase})
    \cup Make("singbox-out", {"vless"}, {SbTlsBase @@ [reality |-> "on"]})
    \cup Make("singbox-out", {"hysteria2"}, {SbTlsBase @@ [server |-> "x"]})
    \cup Make("singbox-in", {"vless", "vmess", "mieru", "shadowsocks"}, {SbServerBase})
    \cup Make("singbox-in", {"naive", "vless", "anytls", "hysteria2", "tuic", "trojan", "vmess"}, {SbIdentityBase})
    \cup Make("singbox-in", {"vless"}, {SbServerBase @@ [tls |-> "on", reality |-> "server-fields"]})
    \cup Make("singbox-socks", {""}, {SbServerBase}) \cup Make("singbox-tun", {""}, {Nothing})

NativeEntries ==
  Make("client", {"hysteria2", "mieru", "tuic", "naive", "naive+quic", "http", "https", "socks", "trojan", "anytls", "bogus"}, {Nothing})
    \cup Make("client", {"vless", "vmess"}, {[user_id |-> "x"]}) \cup Make("client", {"shadowsocks"}, {[security |-> "x"]})
    \cup Make("server", {"hysteria2", "tuic", "naive", "trojan", "anytls"}, {[cert |-> "x", key |-> "x"]}) \cup Make("server", {"mieru", "bogus"}, {Nothing})
    \cup Make("server", {"vless", "vmess"}, {[user_id |-> "x"], [user_id |-> "x", cert |-> "x", key |-> "x"]})
    \cup Make("server", {"shadowsocks"}, {[security |-> "x"]})

AllEntries == MihomoEntries \cup XrayEntries \cup SingboxEntries \cup NativeEntries

-----------------------------------------------------------------------------
VARIABLES part,
          format, header, written, rules, table, status

routeVars == <<format, header, written, rules, table, status>>

(* The rules.                                                              *)
Rr == INSTANCE RouteRules WITH AddressBits <- 2, Private <- {2, 3}

Host(h) == [kind : {"domain"}, host : {h}, fam : {""}, addr : {0}, port : {1, 2}, network : {"tcp", "udp"}]
Ip(fam, a) == [kind : {"ip"}, host : {<<>>}, fam : {fam}, addr : {a}, port : {1, 2}, network : {"tcp", "udp"}]
AllTargets == UNION {Host(h) : h \in {<<"a">>, <<"b", "a">>, <<"b">>}} \cup UNION {Ip("v4", a) : a \in 0..3} \cup Ip("v6", 0)

GeoFile(cidrs, domains) == [cidrs |-> cidrs, domains |-> domains]
GeoAssets ==
  [dir |-> [s |-> GeoFile({}, {Rr!Pattern("*.", <<"a">>), Rr!Pattern("full", <<"b">>)}), nested |-> GeoFile({}, {Rr!Pattern("geosite", <<"a">>)}),
            c |-> GeoFile({Rr!Cidr("v4", 0, 1)}, {})],
   geosite |-> [c |-> GeoFile({}, {Rr!Pattern("full", <<"a">>)})],
   geoip |-> [g |-> GeoFile({Rr!Cidr("v4", 1, 2), Rr!Cidr("v6", 0, 0)}, {}), s |-> GeoFile({Rr!Cidr("v4", 0, 1)}, {}), wide |-> GeoFile({Rr!Cidr("v4", 0, 3)}, {})]]

Leaf(kind, value) == [kind |-> kind, value |-> value]
Common == {Leaf("DOMAIN", <<"b", "a">>), Leaf("DOMAIN-SUFFIX", <<"a">>), Leaf("IP-CIDR", Rr!Cidr("v4", 0, 1)),
           Leaf("GEOIP", "private"), Leaf("DST-PORT", Rr!Ports(1, 1)), Leaf("NETWORK", "udp")}
Leaves == Common \cup {Leaf("DOMAIN-KEYWORD", <<"b">>), Leaf("DOMAIN-WILDCARD", Rr!Pattern("*.", <<"a">>)), Leaf("GEOSITE", "s"), Leaf("GEOIP", "g"), Leaf("MATCH", "")}
OddLeaves ==
  {Leaf("GEOSITE", n) : n \in {"absent", "nested", "g", "c"}} \cup {Leaf("GEOIP", n) : n \in {"c", "s", "wide", "absent"}}
    \cup {Leaf("RULE-SET", p) : p \in {"absent", "remote", "nested", "odd", "binary", "mixed"}}
    \cup {Leaf("IP-CIDR", Rr!Cidr("v4", 0, 3)), Leaf("DST-PORT", Rr!Ports(2, 1)), Leaf("NETWORK", "icmp"), Leaf("SRC-PORT", 1), Leaf("OR", <<>>)}
SetLeaves == {Leaf("RULE-SET", p) : p \in {"domains", "cidrs", "classical"}}
Provider(kind, behavior, payload) == [kind |-> kind, behavior |-> behavior, payload |-> payload, format |-> "", foreign |-> FALSE, readable |-> TRUE, extra |-> FALSE]
MihomoProviders ==
  [domains |-> Provider("inline", "domain", <<Rr!Pattern("+.", <<"a">>), Rr!Pattern("", <<"*">>), Rr!Pattern(".", <<"b">>)>>),
   cidrs |-> [Provider("file", "ipcidr", <<Rr!Cidr("v4", 3, 2), Rr!Cidr("v6", 0, 1)>>) EXCEPT !.format = "text"],
   classical |-> Provider("file", "classical", <<Leaf("DOMAIN", <<"b">>), Leaf("AND", <<Leaf("DST-PORT", Rr!Ports(1, 1)), Leaf("GEOIP", "private")>>)>>),
   nested |-> Provider("inline", "classical", <<Leaf("RULE-SET", "domains")>>),
   odd |-> Provider("inline", "x", <<Leaf("MATCH", "")>>),
   binary |-> [Provider("file", "classical", <<Leaf("MATCH", "")>>) EXCEPT !.format = "mrs"],
   mixed |-> [Provider("inline", "classical", <<Leaf("MATCH", "")>>) EXCEPT !.foreign = TRUE],
   remote |-> Provider("http", "domain", <<Rr!Pattern("", <<"a">>)>>)]
Two(op, A, B) == {Leaf(op, <<x, y>>) : x \in A, y \in B}
MihomoExprs ==
  Leaves \cup OddLeaves \cup SetLeaves \cup Two("AND", Leaves \cup SetLeaves, Common) \cup Two("OR", Common, Common)
    \cup Two("AND", Two("OR", {Leaf("DOMAIN", <<"b", "a">>), Leaf("GEOIP", "private")}, Common), {Leaf("NETWORK", "udp"), Leaf("DST-PORT", Rr!Ports(1, 1))})
    \cup Two("NOT", {Leaf("MATCH", "")}, {Leaf("MATCH", "")})

SbRule(match) == [type |-> "default", match |-> match, sets |-> <<>>, invert |-> FALSE, metadata |-> FALSE, extra |-> FALSE, own |-> FALSE, mode |-> "", rules |-> <<>>]
Logical(mode, rs) == [SbRule(Rr!AnyTarget) EXCEPT !.type = "logical", !.mode = mode, !.rules = rs]
SbLeaves ==
  {SbRule([Rr!AnyTarget EXCEPT !.domains = {Rr!Matcher("suffix", <<"a">>)}]), SbRule([Rr!AnyTarget EXCEPT !.cidrs = {Rr!Cidr("v4", 0, 1), Rr!Cidr("v6", 0, 0)}]),
   SbRule([Rr!AnyTarget EXCEPT !.private = TRUE]), SbRule([Rr!AnyTarget EXCEPT !.networks = {"udp"}, !.domains = {Rr!Matcher("keyword", <<"b">>)}]),
   SbRule([Rr!AnyTarget EXCEPT !.ports = {Rr!Ports(1, 1)}])}
RuleSet(kind, rs) == [kind |-> kind, rules |-> rs, format |-> "", extension |-> "", foreign |-> FALSE, readable |-> TRUE, extra |-> FALSE]
SbRuleSets ==
  [ads |-> RuleSet("inline", <<SbRule([Rr!AnyTarget EXCEPT !.domains = {Rr!Matcher("exact", <<"b">>)}]), SbRule([Rr!AnyTarget EXCEPT !.private = TRUE])>>),
   both |-> [RuleSet("local", <<Logical("or", <<SbRule([Rr!AnyTarget EXCEPT !.ports = {Rr!Ports(2, 2)}]), SbRule([Rr!AnyTarget EXCEPT !.networks = {"udp"}])>>)>>) EXCEPT !.extension = "json"],
   own |-> RuleSet("inline", <<[SbRule(Rr!AnyTarget) EXCEPT !.own = TRUE]>>),
   binary |-> [RuleSet("local", <<SbRule(Rr!AnyTarget)>>) EXCEPT !.extension = "srs"],
   empty |-> RuleSet("inline", <<>>), remote |-> RuleSet("remote", <<>>)]
SbPairs == {<<x, y>> : x \in SbLeaves, y \in SbLeaves}
SbExprs ==
  SbLeaves \cup {Logical("or", p) : p \in SbPairs} \cup {Logical("and", p) : p \in SbPairs}
    \cup {Logical("and", <<Logical("and", p), x>>) : p \in SbPairs, x \in {SbRule([Rr!AnyTarget EXCEPT !.ports = {Rr!Ports(1, 1)}]), Logical("or", <<SbRule(Rr!AnyTarget)>>)}}
    \cup {Logical("or", <<Logical("and", p), Logical("or", p)>>) : p \in SbPairs}
    \cup {[x EXCEPT !.sets = s] : x \in SbLeaves, s \in {<<"ads">>, <<"both">>, <<"ads", "both">>, <<"own">>, <<"absent">>}}
    \cup {[SbRule(Rr!AnyTarget) EXCEPT !.invert = TRUE], [SbRule(Rr!AnyTarget) EXCEPT !.metadata = TRUE], [SbRule(Rr!AnyTarget) EXCEPT !.extra = TRUE],
          Logical("xor", <<SbRule(Rr!AnyTarget)>>), Logical("and", <<[SbRule(Rr!AnyTarget) EXCEPT !.own = TRUE]>>), Logical("and", <<[SbRule(Rr!AnyTarget) EXCEPT !.sets = <<"ads">>]>>),
          Logical("or", <<[SbRule([Rr!AnyTarget EXCEPT !.private = TRUE]) EXCEPT !.extra = TRUE]>>),
          Logical("or", <<[Logical("or", <<SbRule([Rr!AnyTarget EXCEPT !.private = TRUE])>>) EXCEPT !.extra = TRUE]>>), [Logical("or", <<SbRule(Rr!AnyTarget)>>) EXCEPT !.match.private = TRUE],
          [SbRule(Rr!AnyTarget) EXCEPT !.mode = "or"], SbRule([Rr!AnyTarget EXCEPT !.networks = {"icmp"}]), SbRule([Rr!AnyTarget EXCEPT !.geosite = {"s"}])}

XrayIps == {[form |-> "private", cidr |-> Rr!Cidr("v4", 0, 0)], [form |-> "cidr", cidr |-> Rr!Cidr("v4", 1, 2)], [form |-> "cidr", cidr |-> Rr!Cidr("v4", 2, 1)],
            [form |-> "inverse", cidr |-> Rr!Cidr("v4", 0, 0)]}
XrayMatch(domain, ip, network, port, metadata) == [domain |-> domain, ip |-> ip, network |-> network, port |-> port, metadata |-> metadata, extra |-> FALSE]
XrayDomains == {{}, {Rr!Pattern("", <<"b">>)}, {Rr!Pattern("domain", <<"a">>), Rr!Pattern("dotless", <<"b">>)}, {Rr!Pattern("geosite", <<"s">>)}}
XrayExprs ==
  {XrayMatch(d, ip, {}, {}, FALSE) : d \in XrayDomains, ip \in {s \in SUBSET XrayIps : Cardinality(s) <= 2}}
    \cup {XrayMatch(d, {}, n, p, FALSE) : d \in XrayDomains, n \in {{}, {"udp"}, {"icmp"}}, p \in {{Rr!Ports(1, 1)}, {Rr!Ports(1, 1), Rr!Ports(2, 2)}}}
    \cup {XrayMatch({}, {}, {}, {}, TRUE), [XrayMatch({}, {}, {}, {}, FALSE) EXCEPT !.extra = TRUE]}
NoBalancer == [plain |-> TRUE, selector |-> {}]
Balancers == {NoBalancer, [plain |-> TRUE, selector |-> {"p1"}], [plain |-> FALSE, selector |-> {"p1"}], [plain |-> TRUE, selector |-> {"p"}]}
To(exprs, outs) == {[expr |-> e, outbound |-> o, action |-> "", balancer |-> NoBalancer] : e \in exprs, o \in outs}
Later(exprs) == To(exprs, {"direct", "p2"})
SbActed == {[expr |-> SbRule([Rr!AnyTarget EXCEPT !.private = TRUE]), outbound |-> o, action |-> a, balancer |-> NoBalancer] :
             o \in {"", "p1"}, a \in {"", "route", "direct", "reject", "sniff"}}
AllWritten ==
  ("mihomo" :> <<To(MihomoExprs, {"p1"}), Later({Leaf("MATCH", ""), Leaf("DOMAIN-SUFFIX", <<"a">>)})>>)
    @@ ("sing-box" :> <<To(SbExprs, {"p1"}), Later(SbLeaves) \cup SbActed>>)
    @@ ("xray" :> <<To(XrayExprs, {"direct"}), {[expr |-> XrayMatch({}, {}, {"udp"}, {}, FALSE), outbound |-> o, action |-> "", balancer |-> b] : o \in {"", "p2"}, b \in Balancers}>>)
Starts == [p |-> {"p1", "p2"}, p1 |-> {"p1"}]
Tagged == [tag |-> "p2", protocol |-> "vless", final |-> "", options |-> FALSE, duplicate |-> FALSE, sets |-> {"ads", "both", "own"}]
Untagged(protocols) == {[Tagged EXCEPT !.tag = "", !.protocol = p] : p \in protocols}
AllHeaders ==
  [mihomo |-> {Tagged}, xray |-> {Tagged, [Tagged EXCEPT !.options = TRUE]} \cup Untagged({"blackhole", "vless", "none"})]
    @@ ("sing-box" :> {Tagged, [Tagged EXCEPT !.final = "block", !.sets = {"both"}], [Tagged EXCEPT !.options = TRUE], [Tagged EXCEPT !.duplicate = TRUE]}
                        \cup {[Tagged EXCEPT !.sets = {s}] : s \in {"binary", "empty", "remote"}} \cup Untagged({"block", "vless", "direct"}))

Rules == INSTANCE RouteConfig WITH
  AddressBits <- 2, Private <- {2, 3}, Formats <- {"mihomo", "sing-box", "xray"}, Written <- AllWritten, Targets <- AllTargets,
  Providers <- MihomoProviders, RuleSets <- SbRuleSets, Assets <- GeoAssets, Headers <- AllHeaders, OutboundTags <- {"p1", "p2"}, StartsWith <- Starts

(* The router.                                                             *)
Sites == {"x", "y"}
AllTables == {[t \in Sites |-> "direct"], [t \in Sites |-> "p"], [t \in Sites |-> IF t = "x" THEN "block" ELSE "p"]}

(* TCP clients and UDP associations share the table and nothing else.      *)
RouterNext == Router!Next /\ (assoc' = "none" \/ client'["c"] = "new")

(* A part at rest has one initial state.                                   *)
MCInit ==
  /\ part \in {"file", "rules", "router"}
  /\ Init /\ (part # "file" => entry = [format |-> "mihomo", kind |-> "anytls", base |-> Nothing])
  /\ Rules!Init /\ (part # "rules" => format = "mihomo")
  /\ Router!Init /\ (part # "router" => routes["x"] = "direct" /\ uplinks["p"] = "a1")

MCNext ==
  /\ UNCHANGED part
  /\ \/ part = "file" /\ Next /\ UNCHANGED <<routeVars, routerVars>>
     \/ part = "rules" /\ Rules!Next /\ UNCHANGED <<fileVars, routerVars>>
     \/ part = "router" /\ RouterNext /\ UNCHANGED <<fileVars, routeVars>>

MCSpec == MCInit /\ [][MCNext]_<<part, fileVars, routeVars, routerVars>>

-----------------------------------------------------------------------------
(* What the file asks of the channel: TLS, REALITY, no verification.       *)
TlsAsked == \/ Val(node, "tls", "off") = "on"
            \/ Val(node, "security", "none") \in {"tls", "reality"} /\ entry.format \in {"xray-out", "xray-in"}
RealityAsked ==
  \/ Val(node, "security", "none") = "reality" /\ entry.format \in {"xray-out", "xray-in"}
  \/ ~None(node, {"reality_opts", "reality_public_key", "reality_private_key"})
  \/ Val(node, "reality", "fields-off") # "fields-off" /\ On(node, "tls")
InsecureOptions == {"insecure", "skip_cert_verify", "allow_insecure"}

(* Entries whose mapper never looks at the fields that ask: a native       *)
(* profile is one struct for all protocols, of which Mieru and Shadowsocks *)
(* read no TLS field and only VLESS the REALITY ones; of the sing-box      *)
(* outbounds only VLESS looks at REALITY; and Xray's Hysteria 2 outbound   *)
(* does not look at the security of its stream.                            *)
Native == {"client", "server"}
ReadsNoTls == entry.format \in Native /\ entry.kind \in {"mieru", "shadowsocks"}
ReadsNoReality ==
  \/ entry.format \in Native \cup {"singbox-out"} /\ entry.kind # "vless"
  \/ entry.format = "xray-out" /\ entry.kind \in {"hysteria", "hysteria2"}

(* to_client_config and to_server_config of all formats: an entry that is  *)
(* accepted runs on TLS or REALITY when it asks for TLS in any spelling,   *)
(* and on REALITY when it asks for that, whatever transport or option      *)
(* stands beside it; certificates go unverified only by an option saying   *)
(* so.  (ReadsNoTls and ReadsNoReality are the exceptions, which           *)
(* limitations.md:3 does not make: NoSilentDowngrade.)                     *)
NotWeaker ==
  outcome.ok => /\ TlsAsked => outcome.channel \in {"tls", "reality"} \/ ReadsNoTls
                /\ RealityAsked => outcome.channel = "reality" \/ ReadsNoReality
                /\ outcome.insecure => \E o \in InsecureOptions : On(node, o)

Strength(r) == CASE r.channel = "plain" -> 0 [] r.channel = "cipher" -> 1 [] r.channel = "tls" -> 1 [] r.channel = "reality" -> 2

(* The same mappers, entry against entry: of two files that differ in one  *)
(* option, the one that sets it never runs on a weaker channel, unless     *)
(* the option is the one that names the channel or the verification.  An   *)
(* option for something else never changes the security by the way.        *)
NoOptionWeakens ==
  outcome.ok => \A o \in edited \ {"tls", "security"} :
              LET r == Convert(entry, Without(node, o)) IN
              r.ok => /\ Strength(outcome) >= Strength(r)
                      /\ outcome.insecure /\ ~r.insecure => o \in InsecureOptions

(* limitations.md:3: "Aerion fails closed: unimplemented capability is an  *)
(* error, not a silent downgrade."  An entry that asks for TLS or REALITY  *)
(* is refused or runs on no less.                                          *)
NoSilentDowngrade ==
  outcome.ok => /\ TlsAsked => outcome.channel \in {"tls", "reality"}
                /\ RealityAsked => outcome.channel = "reality"

(* RouteConfig: an accepted file routes every target as its rules say.     *)
RoutesAsWritten == Rules!RoutesAsWritten
=============================================================================
