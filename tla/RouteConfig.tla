----------------------------- MODULE RouteConfig ----------------------------
(***************************************************************************)
(* Reading the routing rules of a configuration file into a route table.   *)
(* The table is flat, so a logical rule becomes several rules (OR) or one  *)
(* merged rule (AND), and what a flat rule cannot say is refused.  The     *)
(* rules are read in order and the first refusal refuses the file.         *)
(***************************************************************************)
EXTENDS RouteRules

CONSTANTS Formats,       \* the file formats looked at
          Written,       \* by format, the rules a file may hold at each place
          Targets,       \* the targets the table is asked about
          Providers,     \* mihomo rule-providers, by name
          RuleSets,      \* sing-box rule sets, by tag
          Assets,        \* geo files on disk, in dir itself, dir/geosite and dir/geoip
          Headers,       \* by format, what may stand beside the rules of a file
          OutboundTags,  \* tags of the outbounds, for balancers
          StartsWith     \* the tags that start with a balancer's selector

VARIABLES format, header, written, rules, table, status

routeVars == <<format, header, written, rules, table, status>>

No == [ok |-> FALSE, matches |-> <<>>]
Yes(matches) == [ok |-> TRUE, matches |-> matches]
OnlyIf(ok, match) == IF ok THEN Yes(<<match>>) ELSE No
Concat(results) ==
  IF \E i \in 1..Len(results) : ~results[i].ok THEN No
  ELSE Yes(FlattenSeq([i \in 1..Len(results) |-> results[i].matches]))

(* The flat rule that says a and b; what a rule lists is a union, so two   *)
(* lists of one kind cannot be said.                                       *)
Merge(a, b) ==
  [networks |-> a.networks \cup b.networks, ports |-> a.ports \cup b.ports, domains |-> a.domains \cup b.domains,
   geosite |-> a.geosite \cup b.geosite, private |-> a.private \/ b.private, cidrs |-> a.cidrs \cup b.cidrs,
   geoip |-> a.geoip \cup b.geoip]
Clash(a, b) ==
  \/ a.networks # {} /\ b.networks # {}
  \/ a.cidrs # {} /\ b.cidrs # {}
  \/ a.geoip # {} /\ b.geoip # {}
  \/ a.ports # {} /\ b.ports # {}
SbClash(a, b) == Clash(a, b) \/ (HasDomain(a) /\ HasDomain(b))
MihomoClashUnion(a, b) == Clash(a, b) \/ (HasDomain(a) /\ HasIp(b)) \/ (HasIp(a) /\ HasDomain(b))
MihomoClash(a, b) == SbClash(a, b) \/ (HasDomain(a) /\ HasIp(b)) \/ (HasIp(a) /\ HasDomain(b))

(* parse_mihomo_route_rule_parts: a rule with one matcher.                 *)
MihomoParts(e) ==
  LET is(field, value) == [AnyTarget EXCEPT ![field] = {value}] IN
  CASE e.kind = "DOMAIN" -> Yes(<<is("domains", Matcher("exact", e.value))>>)
    [] e.kind = "DOMAIN-SUFFIX" -> Yes(<<is("domains", Matcher("suffix", e.value))>>)
    [] e.kind = "DOMAIN-KEYWORD" -> Yes(<<is("domains", Matcher("keyword", e.value))>>)
    [] e.kind = "DOMAIN-WILDCARD" -> Yes(<<is("domains", Wildcard(e.value))>>)
    [] e.kind = "GEOSITE" -> Yes(<<is("geosite", e.value)>>)
    [] e.kind = "IP-CIDR" -> OnlyIf(CidrOk(e.value), is("cidrs", e.value))
    [] e.kind = "GEOIP" -> IF e.value = "private" THEN Yes(<<[AnyTarget EXCEPT !.private = TRUE]>>) ELSE Yes(<<is("geoip", e.value)>>)
    [] e.kind = "DST-PORT" -> OnlyIf(PortsOk(e.value), is("ports", e.value))
    [] e.kind = "NETWORK" -> OnlyIf(NetworkOk(e.value), is("networks", e.value))
    [] e.kind = "MATCH" -> Yes(<<AnyTarget>>)
    [] OTHER -> No

(* parse_mihomo_logical_rules: the branches of an AND are all the ways to  *)
(* take one branch of every child.                                         *)
AndBranches(branches, child) ==
  IF ~branches.ok \/ ~child.ok \/ child.matches = <<>> THEN No ELSE
  LET pairs == FlattenSeq([i \in 1..Len(branches.matches) |->
                 [j \in 1..Len(child.matches) |-> <<branches.matches[i], child.matches[j]>>]]) IN
  IF \E i \in 1..Len(pairs) : MihomoClash(pairs[i][1], pairs[i][2]) THEN No
  ELSE Yes([i \in 1..Len(pairs) |-> Merge(pairs[i][1], pairs[i][2])])
MihomoLogical(kind, children) ==
  CASE kind = "NOT" \/ children = <<>> -> No
    [] kind = "OR" -> Concat(children)
    [] OTHER -> FoldLeft(AndBranches, Yes(<<AnyTarget>>), children)

(* The entries of a rule-provider: may not name another provider.          *)
RECURSIVE ExprWithAction(_)
ExprWithAction(e) ==
  CASE e.kind = "RULE-SET" -> No
    [] e.kind \in {"NOT", "AND", "OR"} -> MihomoLogical(e.kind, [i \in 1..Len(e.value) |-> ExprWithAction(e.value[i])])
    [] OTHER -> MihomoParts(e)

(* rule_lines and load_rule_file; foreign: a field of another type is set. *)
RuleFileOk(p) == p.readable /\ p.format \in {"", "yaml", "text"}
RuleLinesOk(p) ==
  CASE p.kind = "inline" -> ~p.foreign /\ p.format = ""
    [] p.kind = "file" -> ~p.foreign /\ RuleFileOk(p)
    [] OTHER -> FALSE
ProviderRules(p) ==
  CASE p.extra \/ ~RuleLinesOk(p) \/ p.payload = <<>> -> No
    [] p.behavior = "domain" -> Yes(<<[AnyTarget EXCEPT !.domains = {ClashWildcard(d) : d \in ToSet(p.payload)}]>>)
    [] p.behavior = "ipcidr" -> OnlyIf(\A c \in ToSet(p.payload) : CidrOk(c), [AnyTarget EXCEPT !.cidrs = ToSet(p.payload)])
    [] p.behavior = "classical" -> Concat([i \in 1..Len(p.payload) |-> ExprWithAction(p.payload[i])])
    [] OTHER -> No

RECURSIVE MihomoRules(_)
MihomoRules(e) ==
  CASE e.kind = "RULE-SET" -> IF e.value \in DOMAIN Providers THEN ProviderRules(Providers[e.value]) ELSE No
    [] e.kind \in {"NOT", "AND", "OR"} -> MihomoLogical(e.kind, [i \in 1..Len(e.value) |-> MihomoRules(e.value[i])])
    [] OTHER -> MihomoParts(e)

(* static_rules, local_source_rules and rule_set_format of a sing-box rule *)
(* set.  One that cannot be read refuses the file even if it is not used.  *)
RuleSetFormat(s) ==
  CASE s.format # "" -> s.format
    [] s.extension = "json" -> "source"
    [] s.extension = "srs" -> "binary"
    [] OTHER -> "missing"
LocalSourceOk(s) == s.readable /\ RuleSetFormat(s) = "source"
StaticRulesOk(s) ==
  /\ ~s.extra /\ ~s.foreign /\ s.rules # <<>>
  /\ \/ s.kind = "inline" /\ s.format = ""
     \/ s.kind = "local" /\ LocalSourceOk(s)

(* to_default_route_rule, to_default_route_rules, to_logical_route_rules   *)
(* and to_child_route_rules of sing-box; a child inherits the action.      *)
SbNoMetadata(e) == ~e.metadata
SbHasMatch(e) == e.match # AnyTarget \/ e.sets # <<>> \/ e.metadata
SbDefaultRule(e) ==
  OnlyIf(/\ ~e.extra /\ ~e.invert /\ e.mode = "" /\ e.rules = <<>> /\ SbNoMetadata(e)
         /\ \A n \in e.match.networks : NetworkOk(n)
         /\ \A c \in e.match.cidrs : CidrOk(c)
         /\ \A p \in e.match.ports : PortsOk(p)
         /\ e.match.geosite = {} /\ e.match.geoip = {}, e.match)
SbMerged(a, b) ==
  IF ~a.ok \/ ~b.ok \/ Len(b.matches) # 1 THEN No
  ELSE OnlyIf(~SbClash(a.matches[1], b.matches[1]), Merge(a.matches[1], b.matches[1]))

RECURSIVE SbChildRules(_)
SbDefaultRules(e, inherited) ==
  LET base == SbDefaultRule(e)
      branches(tag) == Concat([i \in 1..Len(RuleSets[tag].rules) |-> SbChildRules(RuleSets[tag].rules[i])])
      all == Concat([i \in 1..Len(e.sets) |-> branches(e.sets[i])])
  IN  CASE e.sets = <<>> -> base
        [] inherited \/ ~base.ok \/ ~(ToSet(e.sets) \subseteq header.sets) -> No
        [] ~all.ok \/ all.matches = <<>> -> No
        [] OTHER -> Concat([i \in 1..Len(all.matches) |-> SbMerged(base, Yes(<<all.matches[i]>>))])
SbLogicalRules(e) ==
  CASE e.invert \/ e.rules = <<>> \/ SbHasMatch(e) -> No
    [] e.mode = "or" -> Concat([i \in 1..Len(e.rules) |-> SbChildRules(e.rules[i])])
    [] e.mode = "and" -> FoldLeft(LAMBDA acc, c : SbMerged(acc, SbChildRules(c)), Yes(<<AnyTarget>>), e.rules)
    [] OTHER -> No
SbChildRules(e) ==
  CASE e.own -> No
    [] e.type = "logical" -> SbLogicalRules(e)
    [] e.type = "default" -> SbDefaultRules(e, TRUE)
    [] OTHER -> No
SbRules(e) ==
  CASE e.extra -> No
    [] e.type = "logical" -> SbLogicalRules(e)
    [] e.type = "default" -> SbDefaultRules(e, FALSE)
    [] OTHER -> No

(* to_route_rule of Xray: the entries of domain and ip are read in turn.   *)
XrayIpOk(i) == i.form = "private" \/ (i.form = "cidr" /\ CidrOk(i.cidr))
XrayNoMetadata(e) == ~e.metadata
XrayRule(e) ==
  OnlyIf(/\ ~e.extra /\ XrayNoMetadata(e)
         /\ \A d \in e.domain : PrefixedOk(d)
         /\ \A i \in e.ip : XrayIpOk(i)
         /\ \A n \in e.network : NetworkOk(n)
         /\ \A p \in e.port : PortsOk(p),
         [AnyTarget EXCEPT !.domains = {Xray(d) : d \in e.domain}, !.networks = e.network, !.ports = e.port,
                           !.private = \E i \in e.ip : i.form = "private",
                           !.cidrs = {i.cidr : i \in {j \in e.ip : j.form = "cidr"}}])

Flatten(e) ==
  CASE format = "mihomo" -> MihomoRules(e)
    [] format = "sing-box" -> SbRules(e)
    [] format = "xray" -> XrayRule(e)

(* static_target of a balancer, and the decision of a rule.                *)
BalancerTargets(b) == UNION {StartsWith[s] \cap OutboundTags : s \in b.selector}
BalancerOk(b) == b.plain /\ b.selector # {} /\ Cardinality(BalancerTargets(b)) = 1

(* route_decision of sing-box: an action may stand for the outbound.       *)
SbActions == [direct |-> "direct", reject |-> "block", block |-> "block"]
SbActionOk(r) ==
  CASE r.action \in {"", "route"} -> r.outbound # ""
    [] r.action \in DOMAIN SbActions -> r.outbound = ""
    [] OTHER -> FALSE
ActionOk(r) ==
  CASE format = "sing-box" -> SbActionOk(r)
    [] format = "xray" -> r.outbound # "" \/ (r.balancer.selector # {} /\ BalancerOk(r.balancer))
    [] OTHER -> r.outbound # ""
Action(r) ==
  CASE r.action \in DOMAIN SbActions -> FromOutbound(SbActions[r.action])
    [] r.outbound # "" -> FromOutbound(r.outbound)
    [] OTHER -> [to |-> "proxy", tag |-> CHOOSE t \in BalancerTargets(r.balancer) : TRUE]

(* The default: final, else the first outbound by its tag, else by its     *)
(* protocol; singbox_default_route_decision, xray_default_route_decision.  *)
Untagged ==
  [mihomo |-> <<>>, xray |-> [none |-> "direct", freedom |-> "direct", blackhole |-> "block"]]
    @@ ("sing-box" :> [none |-> "direct", direct |-> "direct", block |-> "block"])
DefaultOk ==
  \/ format = "mihomo" \/ header.tag # "" \/ header.protocol \in DOMAIN Untagged[format]
  \/ format = "sing-box" /\ header.final # ""
Default ==
  CASE format = "mihomo" -> FromOutbound("direct")
    [] format = "sing-box" /\ header.final # "" -> FromOutbound(header.final)
    [] header.tag # "" -> FromOutbound(header.tag)
    [] OTHER -> FromOutbound(Untagged[format][header.protocol])

(* The other fields of the section: unsupported options and, in sing-box,  *)
(* rule sets without tag, with the tag of another, or unreadable.          *)
XrayOptionsOk == ~header.options
SbOptionsOk == ~header.options
RuleSetsOk == ~header.duplicate /\ \A tag \in header.sets : StaticRulesOk(RuleSets[tag])
SectionOk ==
  CASE format = "mihomo" -> TRUE
    [] format = "xray" -> XrayOptionsOk
    [] format = "sing-box" -> SbOptionsOk /\ RuleSetsOk

Init ==
  /\ format \in Formats /\ header \in Headers[format]
  /\ written = <<>> /\ rules = <<>> /\ status = "reading"
  /\ table = [rules |-> <<>>, default |-> FromOutbound("direct"), sets |-> NoSets]

AddRule(r) ==
  /\ status = "reading"
  /\ LET flat == Flatten(r.expr) IN
     IF flat.ok /\ ActionOk(r)
     THEN /\ rules' = rules \o [i \in 1..Len(flat.matches) |-> [match |-> flat.matches[i], action |-> Action(r)]]
          /\ UNCHANGED status
     ELSE status' = "refused" /\ UNCHANGED rules
  /\ written' = Append(written, r)
  /\ UNCHANGED <<format, header, table>>

(* load_mihomo_route_assets: the sets the rules name are read from disk,   *)
(* a file of the directory itself before one of its kind, and one without  *)
(* a file, or with a bad line, refuses the file.  A CIDR is no bad line    *)
(* for a geosite, but a domain nobody asks for.  The other formats have no *)
(* geo sets left in their rules.                                           *)
Named(field) == UNION {rules[i].match[field] : i \in 1..Len(rules)}
AssetPath(name, kind) == IF name \in DOMAIN Assets.dir THEN "dir" ELSE kind
Asset(name, kind) == Assets[AssetPath(name, kind)][name]
IsFile(name, kind) == name \in DOMAIN Assets[AssetPath(name, kind)]
GeoipLoads(name) ==
  /\ IsFile(name, "geoip") /\ Asset(name, "geoip").domains = {}
  /\ \A c \in Asset(name, "geoip").cidrs : CidrOk(c)
GeositeLoads(name) == IsFile(name, "geosite") /\ \A p \in Asset(name, "geosite").domains : PrefixedOk(p)
AssetsOk == (\A n \in Named("geoip") : GeoipLoads(n)) /\ \A n \in Named("geosite") : GeositeLoads(n)
Loaded ==
  [geoip |-> [n \in Named("geoip") |-> Asset(n, "geoip").cidrs],
   geosite |-> [n \in Named("geosite") |-> {FromPrefixed(p) : p \in Asset(n, "geosite").domains}]]
Finish ==
  /\ status = "reading"
  /\ status' = IF DefaultOk /\ SectionOk /\ AssetsOk THEN "ready" ELSE "refused"
  /\ table' = [rules |-> rules, default |-> IF DefaultOk THEN Default ELSE FromOutbound("direct"), sets |-> IF AssetsOk THEN Loaded ELSE NoSets]
  /\ UNCHANGED <<format, header, written, rules>>

Next ==
  \/ Finish
  \/ Len(written) < Len(Written[format]) /\ \E r \in Written[format][Len(written) + 1] : AddRule(r)

-----------------------------------------------------------------------------
(* What the rules of a file say, read as the nested rules they are.        *)

LeafHolds(match, t) == TryMatches(match, table.sets, t) = "yes"

RECURSIVE MihomoHolds(_, _)
MihomoHolds(e, t) ==
  CASE e.kind = "AND" -> \A i \in 1..Len(e.value) : MihomoHolds(e.value[i], t)
    [] e.kind = "OR" -> \E i \in 1..Len(e.value) : MihomoHolds(e.value[i], t)
    [] e.kind = "RULE-SET" ->
         LET p == Providers[e.value] IN
         \E i \in 1..Len(p.payload) :
           CASE p.behavior = "domain" -> t.kind = "domain" /\ HostMatches(ClashWildcard(p.payload[i]), t.host)
             [] p.behavior = "ipcidr" -> t.kind = "ip" /\ CidrContains(p.payload[i], t)
             [] OTHER -> MihomoHolds(p.payload[i], t)
    [] OTHER -> LeafHolds(MihomoParts(e).matches[1], t)

RECURSIVE SbHolds(_, _)
SbHolds(e, t) ==
  IF e.type = "logical"
  THEN IF e.mode = "or" THEN \E i \in 1..Len(e.rules) : SbHolds(e.rules[i], t)
       ELSE \A i \in 1..Len(e.rules) : SbHolds(e.rules[i], t)
  ELSE /\ LeafHolds(e.match, t)
       /\ e.sets # <<>> => \E s \in ToSet(e.sets) : \E i \in 1..Len(RuleSets[s].rules) : SbHolds(RuleSets[s].rules[i], t)

(* A list of Xray is a union.  A list that mixes geoip:private and CIDRs   *)
(* is read as their intersection; MixedIps names that case.                *)
MixedIps(e) == Cardinality({i.form : i \in e.ip}) > 1
XrayHolds(e, t) ==
  /\ LeafHolds([AnyTarget EXCEPT !.domains = {Xray(d) : d \in e.domain}, !.networks = e.network, !.ports = e.port], t)
  /\ e.ip # {} => /\ t.kind = "ip"
                  /\ \E i \in e.ip : IF i.form = "private" THEN t.addr \in Private ELSE CidrContains(i.cidr, t)

Holds(e, t) ==
  CASE format = "mihomo" -> MihomoHolds(e, t)
    [] format = "sing-box" -> SbHolds(e, t)
    [] format = "xray" -> XrayHolds(e, t)

Meant(t) ==
  LET hits == {i \in 1..Len(written) : Holds(written[i].expr, t)} IN
  IF hits = {} THEN Default ELSE Action(written[CHOOSE i \in hits : \A j \in hits : i <= j])

(* Unknown fields of a sing-box rule, and of the rules below it; those of  *)
(* a logical rule below another rule are overlooked: to_child_route_rules  *)
(* looks for them in default rules only.                                   *)
RECURSIVE SbBelow(_)
SbBelow(e) ==
  LET children == ToSet(e.rules) \cup UNION {ToSet(RuleSets[s].rules) : s \in ToSet(e.sets)} IN
  children \cup UNION {SbBelow(c) : c \in children}
Overlooked(e) == \E c \in SbBelow(e) : c.type = "logical" /\ c.extra
UnknownField(e) ==
  CASE format = "mihomo" -> FALSE
    [] format = "sing-box" -> e.extra \/ \E c \in SbBelow(e) : c.extra
    [] format = "xray" -> e.extra

Excepted(e) == (format = "xray" /\ MixedIps(e)) \/ (format = "sing-box" /\ Overlooked(e))

(* A file that is accepted routes every target as its rules say: by the    *)
(* first written rule that holds for it, with AND, OR and rule sets read   *)
(* as logic, else by the default.  Flattening loses or adds no target, and *)
(* no rule has a field that nobody read.  (Excepted are the two places     *)
(* where the code does otherwise: MixedIps, and Overlooked although        *)
(* docs/config.md:3 and :71 say that unknown route fields fail.)           *)
RoutesAsWritten ==
  status = "ready" /\ (\A i \in 1..Len(written) : ~Excepted(written[i].expr)) =>
    /\ \A i \in 1..Len(written) : ~UnknownField(written[i].expr)
    /\ \A t \in Targets : TryDecide(table, t) = Meant(t)
=============================================================================
