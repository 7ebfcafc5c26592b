----------------------------- MODULE RouteProxy -----------------------------
(***************************************************************************)
(* router.rs: the local SOCKS listener that sends every flow where the     *)
(* route table says.  The table and the upstreams of the proxy tags are    *)
(* two locks that an embedding application replaces while flows run.  A    *)
(* TCP client is decided once; a UDP association decides every datagram    *)
(* and keeps one session per direct target and per upstream of a tag.      *)
(* since holds, for the TCP request and for the datagram in the loop, the  *)
(* decisions and the upstreams that were in force since it came in, up to  *)
(* the lookup of its upstream.                                             *)
(***************************************************************************)
EXTENDS Integers, Sequences

CONSTANTS Clients,       \* TCP clients
          Targets,       \* the targets they ask for
          Tags,          \* proxy tags
          Addrs,         \* addresses an upstream may listen on
          Tables,        \* route tables: targets to "direct", "block" or a tag
          Capacity,      \* datagrams a session's channel holds: 32
          MaxUpdates, MaxDatagrams

(* What a table is; no tag is called like the words for no proxy.          *)
Decisions == {"direct", "block"} \cup Tags
WellFormed ==
  /\ Tables \subseteq [Targets -> Decisions]
  /\ Tags \cap {"direct", "block", "none"} = {}

VARIABLES routes, upstreams, updates,
          pc, target, decision, via, reply, since,   \* TCP clients, by client
          assoc,     \* the UDP association: "none", "open", "loop", "send", "ended"
          datagram,  \* the datagram in the loop: [target, decision, since]
          command,   \* what it is sending to a session: [key, parcel]
          sessions,  \* UDP sessions by key: [via, queue, alive, ready]
          received,  \* datagrams received so far
          delivered  \* datagrams sent out: [via, since]

routerVars == <<routes, upstreams, updates, pc, target, decision, via, reply, since,
                assoc, datagram, command, sessions, received, delivered>>
tcpVars == <<pc, target, decision, via, reply, since>>
udpVars == <<assoc, datagram, command, sessions, received, delivered>>

Direct == "direct"
NoAddr == "none"
Nothing == [to |-> {}, at |-> {}]
Registered == {<<g, upstreams[g]>> : g \in {h \in Tags : upstreams[h] # NoAddr}}
NoDatagram == [target |-> "none", decision |-> "none", since |-> Nothing]
NoCommand == [key |-> <<>>, parcel |-> [to |-> "none", since |-> Nothing]]

Init ==
  /\ routes \in Tables /\ upstreams \in [Tags -> Addrs \cup {NoAddr}] /\ updates = 0
  /\ pc = [c \in Clients |-> "new"] /\ target = [c \in Clients |-> "none"]
  /\ decision = [c \in Clients |-> "none"] /\ via = [c \in Clients |-> NoAddr]
  /\ reply = [c \in Clients |-> -1] /\ since = [c \in Clients |-> Nothing]
  /\ assoc = "none" /\ datagram = NoDatagram /\ command = NoCommand
  /\ sessions = <<>> /\ received = 0 /\ delivered = {}

(* What a flow that is under way may still see, after an update.           *)
Seen(s, t, table, ups) ==
  [to |-> s.to \cup {table[t]}, at |-> s.at \cup {<<g, ups[g]>> : g \in {h \in Tags : ups[h] # NoAddr}}]
Update(table, ups) ==
  /\ updates < MaxUpdates /\ updates' = updates + 1
  /\ routes' = table /\ upstreams' = ups
  /\ since' = [c \in Clients |-> IF pc[c] \in {"request", "lookup"} THEN Seen(since[c], target[c], table, ups) ELSE since[c]]
  /\ datagram' = IF assoc = "loop" THEN [datagram EXCEPT !.since = Seen(@, datagram.target, table, ups)] ELSE datagram
  /\ UNCHANGED <<pc, target, decision, via, reply, assoc, command, sessions, received, delivered>>
ReplaceRoutes(table) == table # routes /\ Update(table, upstreams)
SetUpstream(g, a) == upstreams[g] # a /\ Update(routes, [upstreams EXCEPT ![g] = a])
RemoveUpstream(g) == upstreams[g] # NoAddr /\ Update(routes, [upstreams EXCEPT ![g] = NoAddr])
ReplaceUpstreams(ups) == ups # upstreams /\ Update(routes, ups)

-----------------------------------------------------------------------------
(* handle_route_client.  The core session is opened before the request is  *)
(* read and may be refused; a missing upstream ends the client unanswered. *)
Go(c, state) == pc' = [pc EXCEPT ![c] = state]
Refused(c) == pc[c] = "new" /\ Go(c, "done") /\ UNCHANGED <<target, decision, via, reply, since>>
Connect(c, t) ==
  /\ pc[c] = "new" /\ Go(c, "request")
  /\ target' = [target EXCEPT ![c] = t]
  /\ since' = [since EXCEPT ![c] = [to |-> {routes[t]}, at |-> Registered]]
  /\ UNCHANGED <<decision, via, reply>>
TryDecide(c) ==
  /\ pc[c] = "request"
  /\ decision' = [decision EXCEPT ![c] = routes[target[c]]]
  /\ IF routes[target[c]] = "block" THEN Go(c, "done") /\ reply' = [reply EXCEPT ![c] = 2]
     ELSE Go(c, IF routes[target[c]] = Direct THEN "connect" ELSE "lookup") /\ UNCHANGED reply
  /\ UNCHANGED <<target, via, since>>
Upstream(c) ==
  /\ pc[c] = "lookup"
  /\ via' = [via EXCEPT ![c] = upstreams[decision[c]]]
  /\ Go(c, IF upstreams[decision[c]] = NoAddr THEN "done" ELSE "connect")
  /\ UNCHANGED <<target, decision, reply, since>>
Connected(c, ok) ==
  /\ pc[c] = "connect"
  /\ Go(c, IF ok THEN "relay" ELSE "done")
  /\ reply' = [reply EXCEPT ![c] = IF ok THEN 0 ELSE IF decision[c] = Direct THEN 1 ELSE 5]
  /\ UNCHANGED <<target, decision, via, since>>
RelayEnds(c) == pc[c] = "relay" /\ Go(c, "done") /\ UNCHANGED <<target, decision, via, reply, since>>

TcpStep ==
  /\ \E c \in Clients : \/ Refused(c) \/ TryDecide(c) \/ Upstream(c) \/ RelayEnds(c)
                        \/ \E t \in Targets : Connect(c, t)
                        \/ \E ok \in BOOLEAN : Connected(c, ok)
  /\ UNCHANGED <<routes, upstreams, updates, udpVars>>

-----------------------------------------------------------------------------
(* handle_udp_associate.  The success reply goes out before the second     *)
(* core session is opened, so the association may end right after it.      *)
Associate(ok) ==
  /\ assoc = "none" /\ assoc' = IF ok THEN "open" ELSE "ended"
  /\ UNCHANGED <<datagram, command, sessions, received, delivered>>
Receive(t) ==
  /\ assoc = "open" /\ received < MaxDatagrams
  /\ assoc' = "loop" /\ received' = received + 1
  /\ datagram' = [target |-> t, decision |-> "none", since |-> [to |-> {routes[t]}, at |-> Registered]]
  /\ UNCHANGED <<command, sessions, delivered>>
Decide ==
  /\ assoc = "loop" /\ datagram.decision = "none"
  /\ IF routes[datagram.target] = "block" THEN assoc' = "open" /\ datagram' = NoDatagram
     ELSE datagram' = [datagram EXCEPT !.decision = routes[datagram.target]] /\ UNCHANGED assoc
  /\ UNCHANGED <<command, sessions, received, delivered>>

(* sessions.entry(key): direct:target or proxy:tag@upstream; then the loop *)
(* waits for room in the channel of the session it has looked up.          *)
KeyByTag(g, a) == <<g, Direct>>
Key(g, a) == <<g, a>>
With(f, key, s) == [k \in DOMAIN f \cup {key} |-> IF k = key THEN s ELSE f[k]]
NewSession(address) == [via |-> address, queue |-> <<>>, alive |-> TRUE, ready |-> FALSE]
Lookup(key, address) ==
  /\ sessions' = IF key \in DOMAIN sessions THEN sessions ELSE With(sessions, key, NewSession(address))
  /\ command' = [key |-> key, parcel |-> [to |-> datagram.decision, since |-> datagram.since]]
  /\ assoc' = "send"
Dispatch ==
  /\ assoc = "loop" /\ datagram.decision # "none"
  /\ LET g == datagram.decision IN
     IF g = Direct THEN Lookup(Key(Direct, datagram.target), Direct)
     ELSE IF upstreams[g] # NoAddr THEN Lookup(Key(g, upstreams[g]), upstreams[g])
     ELSE assoc' = "ended" /\ UNCHANGED <<command, sessions>>
  /\ datagram' = NoDatagram
  /\ UNCHANGED <<received, delivered>>
Send ==
  /\ assoc = "send"
  /\ LET s == sessions[command.key] IN
     IF ~s.alive THEN assoc' = "ended" /\ UNCHANGED sessions
     ELSE /\ Len(s.queue) < Capacity /\ assoc' = "open"
          /\ sessions' = [sessions EXCEPT ![command.key].queue = Append(@, command.parcel)]
  /\ command' = NoCommand
  /\ UNCHANGED <<datagram, received, delivered>>
ControlClosed ==
  /\ assoc = "open" /\ assoc' = "ended"
  /\ UNCHANGED <<datagram, command, sessions, received, delivered>>

(* run_direct_udp_session and run_proxy_udp_session.  A session that fails *)
(* stays in the map; its next datagram finds the channel closed and ends   *)
(* the association.  When the association ends the sessions drain.         *)
Set(k, s) == sessions' = [sessions EXCEPT ![k] = s]
SessionStarts(k, ok) ==
  /\ sessions[k].alive /\ ~sessions[k].ready
  /\ Set(k, [sessions[k] EXCEPT !.ready = ok, !.alive = ok])
  /\ UNCHANGED <<assoc, datagram, command, received, delivered>>
SessionSends(k) ==
  /\ sessions[k].alive /\ sessions[k].ready /\ sessions[k].queue # <<>>
  /\ LET d == Head(sessions[k].queue) IN
     delivered' = delivered \cup {[to |-> d.to, at |-> sessions[k].via, since |-> d.since]}
  /\ Set(k, [sessions[k] EXCEPT !.queue = Tail(@)])
  /\ UNCHANGED <<assoc, datagram, command, received>>
SessionFails(k) ==
  /\ sessions[k].alive /\ sessions[k].ready
  /\ Set(k, [sessions[k] EXCEPT !.alive = FALSE])
  /\ UNCHANGED <<assoc, datagram, command, received, delivered>>

UdpStep ==
  /\ \/ \E ok \in BOOLEAN : Associate(ok)
     \/ \E t \in Targets : Receive(t)
     \/ Decide \/ Dispatch \/ Send \/ ControlClosed
     \/ \E k \in DOMAIN sessions : \/ SessionSends(k) \/ SessionFails(k)
                                   \/ \E ok \in BOOLEAN : SessionStarts(k, ok)
  /\ UNCHANGED <<routes, upstreams, updates, tcpVars>>

AdminStep ==
  \/ \E table \in Tables : ReplaceRoutes(table)
  \/ \E g \in Tags : RemoveUpstream(g) \/ \E a \in Addrs : SetUpstream(g, a)
  \/ \E ups \in [Tags -> Addrs \cup {NoAddr}] : ReplaceUpstreams(ups)

Next == TcpStep \/ UdpStep \/ AdminStep
Spec == Init /\ [][Next]_routerVars

(* Every flow goes where the routing in force after it came in sends it: a *)
(* TCP relay and a datagram that is sent out use a decision some table     *)
(* since then gives for the target, and if that is a tag, an address that  *)
(* was registered for this tag since then.  A session kept from an earlier *)
(* configuration, or a table read too early, would break this.  (The table *)
(* and the address are read under two locks: each was in force since then, *)
(* the two not always together.)                                           *)
Follows(to, at, s) == to \in s.to /\ (to # Direct => <<to, at>> \in s.at)
FlowsFollowRoutes ==
  /\ \A c \in Clients : pc[c] = "relay" => Follows(decision[c], via[c], since[c])
  /\ \A d \in delivered : Follows(d.to, d.at, d.since)
=============================================================================
