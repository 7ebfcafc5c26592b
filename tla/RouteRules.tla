----------------------------- MODULE RouteRules -----------------------------
(***************************************************************************)
(* routing.rs: the static route table and how it decides a target.  A host *)
(* is a sequence of labels of one letter, so that a dot stands between any *)
(* two of them; an address is a number of AddressBits bits of family v4 or *)
(* v6.  A list in which the order of the entries does not matter is a set. *)
(***************************************************************************)
EXTENDS Integers, FiniteSets, Sequences, SequencesExt, TLC

CONSTANTS AddressBits,   \* width of an address: 32 and 128 in the code
          Private        \* is_private_ip: the private addresses

(* DomainMatcher; "under" is the regular expression of the patterns *.x    *)
(* (DOMAIN-WILDCARD) and .x (clash), "labels" that of a clash pattern with *)
(* stars, each of which stands for one label.                              *)
Matcher(form, labels) == [form |-> form, labels |-> labels]
HostMatches(m, host) ==
  CASE m.form = "exact" -> host = m.labels
    [] m.form = "suffix" -> IsSuffix(m.labels, host)
    [] m.form = "keyword" -> \E i \in 1..Len(host) : IsPrefix(m.labels, SubSeq(host, i, Len(host)))
    [] m.form = "dotless" -> Len(host) = 1 /\ host = m.labels
    [] m.form = "under" -> IsStrictSuffix(m.labels, host)
    [] m.form = "labels" -> Len(host) = Len(m.labels) /\ \A i \in 1..Len(host) : m.labels[i] \in {"*", host[i]}

(* How the formats write a domain: a prefix and labels.  The same text     *)
(* means different things: *.x is a suffix in a list of domains, which x   *)
(* matches too, but not in DOMAIN-WILDCARD; a bare name is a keyword in    *)
(* Xray and that one domain elsewhere.                                     *)
Pattern(prefix, labels) == [prefix |-> prefix, labels |-> labels]
PrefixedOk(p) == p.prefix \notin {"geosite", "ext"}
FromPrefixed(p) ==
  Matcher(CASE p.prefix \in {"domain", "*."} -> "suffix"
            [] p.prefix \in {"keyword", "dotless"} -> p.prefix
            [] OTHER -> "exact", p.labels)
Xray(p) == IF p.prefix = "" THEN Matcher("keyword", p.labels) ELSE FromPrefixed(p)
Wildcard(p) == Matcher(IF p.prefix = "*." THEN "under" ELSE "exact", p.labels)
ClashWildcard(p) ==
  Matcher(CASE p.prefix = "+." -> "suffix"
            [] p.prefix = "." -> "under"
            [] "*" \in ToSet(p.labels) -> "labels"
            [] OTHER -> "exact", p.labels)

(* IpCidr::parse checks the prefix; contains compares the masked bits.     *)
Cidr(fam, net, prefix) == [fam |-> fam, net |-> net, prefix |-> prefix]
CidrOk(c) == c.prefix <= AddressBits
Masked(a, prefix) == a \div 2^(AddressBits - prefix)
CidrContains(c, t) == c.fam = t.fam /\ Masked(c.net, c.prefix) = Masked(t.addr, c.prefix)

(* PortRange::parse refuses an empty range.                                *)
Ports(from, to) == [from |-> from, to |-> to]
PortsOk(r) == r.from <= r.to
PortsContain(r, port) == r.from <= port /\ port <= r.to

(* RouteNetwork::parse.                                                    *)
NetworkOk(network) == network \in {"tcp", "udp", "dns"}

(* RouteDecision::from_outbound.                                           *)
FromOutbound(name) ==
  CASE name = "direct" -> [to |-> "direct"]
    [] name \in {"reject", "block"} -> [to |-> "block"]
    [] OTHER -> [to |-> "proxy", tag |-> name]

(* RouteRule: a rule without matchers matches everything.                  *)
AnyTarget == [networks |-> {}, ports |-> {}, domains |-> {}, geosite |-> {},
              private |-> FALSE, cidrs |-> {}, geoip |-> {}]
HasDomain(r) == r.domains # {} \/ r.geosite # {}
HasIp(r) == r.private \/ r.cidrs # {} \/ r.geoip # {}

(* try_matches: "yes", "no", or "missing" when a set it names is not       *)
(* loaded.  sets has the domain matchers and the CIDRs of every set.       *)
DomainPart(r, sets, t) ==
  CASE ~HasDomain(r) -> "yes"
    [] t.kind # "domain" -> "no"
    [] ~(r.geosite \subseteq DOMAIN sets.geosite) -> "missing"
    [] \E m \in r.domains \cup UNION {sets.geosite[g] : g \in r.geosite} : HostMatches(m, t.host) -> "yes"
    [] OTHER -> "no"
IpPart(r, sets, t) ==
  CASE ~HasIp(r) -> "yes"
    [] t.kind # "ip" -> "no"
    [] r.private /\ t.addr \notin Private -> "no"
    [] r.cidrs # {} /\ ~\E c \in r.cidrs : CidrContains(c, t) -> "no"
    [] ~(r.geoip \subseteq DOMAIN sets.geoip) -> "missing"
    [] r.geoip # {} /\ ~\E c \in UNION {sets.geoip[g] : g \in r.geoip} : CidrContains(c, t) -> "no"
    [] OTHER -> "yes"
TryMatches(r, sets, t) ==
  IF \/ r.networks # {} /\ t.network \notin r.networks
     \/ r.ports # {} /\ ~\E p \in r.ports : PortsContain(p, t.port)
  THEN "no"
  ELSE IF DomainPart(r, sets, t) = "yes" THEN IpPart(r, sets, t) ELSE DomainPart(r, sets, t)

(* try_decide: the action of the first rule that matches or fails.         *)
Deciding(table, t) == {i \in 1..Len(table.rules) : TryMatches(table.rules[i].match, table.sets, t) # "no"}
TryDecide(table, t) ==
  LET hits == Deciding(table, t)
      first == CHOOSE i \in hits : \A j \in hits : i <= j
  IN  CASE hits = {} -> table.default
        [] TryMatches(table.rules[first].match, table.sets, t) = "missing" -> [to |-> "error"]
        [] OTHER -> table.rules[first].action

NoSets == [geosite |-> <<>>, geoip |-> <<>>]
=============================================================================
