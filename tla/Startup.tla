------------------------------ MODULE Startup -------------------------------
(***************************************************************************)
(* main.rs: from a configuration file to running tasks.  A file of a       *)
(* foreign format runs one server, one client, or a router with an         *)
(* outbound task for every tag its route table uses.  Names of outbounds   *)
(* may stand for policy groups, which are resolved to one outbound; the    *)
(* router stops as soon as one of its outbounds ends.                      *)
(* A file is [format, entries, routes, tags, profile, inbounds, listen,    *)
(* tun]: routes says whether it has rules (or a final outbound), tags are  *)
(* those of its route table, which may be none.  An entry is [kind, to,    *)
(* default, plain]: of a group, its candidates, the default of a selector, *)
(* and whether it has no unsupported options; an inbound is [name, ok].    *)
(***************************************************************************)
EXTENDS Integers, FiniteSets, Sequences

CONSTANTS Names,      \* names an outbound may have
          Files       \* the files looked at

VARIABLES file, pc, goal, cursor, seen, todo, upstreams, live, exited

startVars == <<file, pc, goal, cursor, seen, todo, upstreams, live, exited>>

Plain == {"proxy", "bad"}                 \* an outbound; "bad" has a mapper error
Groups == {"select", "auto"}
Entry(n) == IF n \in Names THEN file.entries[n] ELSE [kind |-> "absent", to |-> <<>>, default |-> "", plain |-> TRUE]
Present == {n \in Names : Entry(n).kind # "absent"}

(* What a file is.  No outbound is called "none", which stands for None.   *)
AnEntry == [kind : Plain \cup Groups \cup {"absent"}, to : Seq(STRING), default : STRING, plain : BOOLEAN]
WellFormed ==
  /\ IsFiniteSet(Names) /\ Names \subseteq STRING \ {"none"}
  /\ \A f \in Files : /\ f.format \in {"mihomo", "xray", "sing-box"}
                       /\ f.entries \in [Names -> AnEntry]

Settled == {"running", "serving", "stopped", "refused"}

Init ==
  /\ file \in Files /\ pc = "start" /\ goal = "none" /\ cursor = "none"
  /\ seen = {} /\ todo = {} /\ upstreams = <<>> /\ live = {} /\ exited = {}

Stop(outcome) ==
  /\ pc' = outcome /\ live' = {}
  /\ UNCHANGED <<file, goal, cursor, seen, todo, upstreams, exited>>

(* run_file_config: which of the three ways, select_*_inbound and          *)
(* select_*_outbound: the profile, or the only one there is.               *)
Server == file.format # "mihomo" /\ Present = {}
Routed == ~Server /\ file.profile = "none" /\ file.routes
Selected(i) ==
  IF file.profile = "none" THEN Len(file.inbounds) = 1
  ELSE file.inbounds[i].name = file.profile /\ \A j \in 1..(i - 1) : file.inbounds[j].name # file.profile
ServerOk == \E i \in DOMAIN file.inbounds : Selected(i) /\ file.inbounds[i].ok
ClientOk == (file.listen \/ file.tun) /\ (file.profile # "none" \/ Cardinality(Present) = 1)

RunFileConfig ==
  /\ pc = "start"
  /\ \/ Server /\ Stop(IF ServerOk THEN "serving" ELSE "refused")
     \/ /\ Routed
        /\ IF file.listen \/ file.tun THEN pc' = "outbounds" /\ todo' = file.tags ELSE pc' = "refused" /\ UNCHANGED todo
        /\ UNCHANGED <<file, goal, cursor, seen, upstreams, live, exited>>
     \/ /\ ~Server /\ ~Routed
        /\ pc' = IF ClientOk THEN "resolve" ELSE "refused"
        /\ cursor' = IF file.profile = "none" /\ Present # {} THEN CHOOSE n \in Present : TRUE ELSE file.profile
        /\ goal' = "client"
        /\ UNCHANGED <<file, seen, todo, upstreams, live, exited>>

(* The loop of run_*_route_config: bind a listener for the next tag.       *)
NextOutbound ==
  /\ pc = "outbounds" /\ todo # {}
  /\ LET tag == CHOOSE t \in todo : TRUE IN
     goal' = tag /\ cursor' = tag /\ todo' = todo \ {tag}
  /\ seen' = {} /\ pc' = "resolve"
  /\ UNCHANGED <<file, upstreams, live, exited>>
BindFails == pc = "outbounds" /\ todo # {} /\ Stop("refused")

(* static_target of mihomo and static_policy_target of sing-box: a select  *)
(* group is its first candidate or its default, the other groups must have *)
(* exactly one; nothing is chosen at run time.                             *)
Only(e) == IF Len(e.to) = 1 THEN Head(e.to) ELSE "none"
GroupOk(e) == e.plain
StaticTarget(e) ==
  IF ~GroupOk(e) \/ e.to = <<>> THEN "none" ELSE IF e.kind = "select" THEN Head(e.to) ELSE Only(e)
SelectedTarget(e) ==
  IF ~e.plain \/ e.to = <<>> THEN "none"
  ELSE IF e.default = "" THEN Head(e.to)
  ELSE IF \E i \in DOMAIN e.to : e.to[i] = e.default THEN e.default ELSE "none"
UrlTestTarget(e) == IF e.plain THEN Only(e) ELSE "none"
FirstCandidate(e) == IF e.to = <<>> THEN "none" ELSE Head(e.to)
Candidate(e) ==
  IF file.format = "mihomo" THEN StaticTarget(e)
  ELSE IF e.kind = "select" THEN SelectedTarget(e) ELSE UrlTestTarget(e)

(* One round of resolve_proxy_target and of resolve_policy_outbound.       *)
ResolvesTo(name) == pc' = "convert" /\ cursor' = name /\ UNCHANGED <<seen, live>>
Fails == pc' = "refused" /\ live' = {} /\ UNCHANGED <<cursor, seen>>
Follow == cursor' = Candidate(Entry(cursor)) /\ seen' = seen \cup {cursor} /\ UNCHANGED <<pc, live>>
FollowAgain(name) == TRUE
MayFollow(name) == name \notin seen
Direct == file.format = "mihomo" /\ cursor = "direct"
ResolveStep ==
  /\ pc = "resolve"
  /\ IF Direct THEN ResolvesTo("direct")
     ELSE IF Entry(cursor).kind \in Plain THEN ResolvesTo(cursor)
     ELSE IF Entry(cursor).kind # "absent" /\ file.format # "xray" /\ MayFollow(cursor) THEN Follow
     ELSE Fails
  /\ UNCHANGED <<file, goal, todo, upstreams, exited>>

(* to_client_config and spawn_route_outbound, or the single client.        *)
Convert ==
  /\ pc = "convert"
  /\ LET ok == cursor = "direct" \/ Entry(cursor).kind = "proxy" IN
     IF ~ok THEN Fails /\ UNCHANGED upstreams
     ELSE /\ upstreams' = [t \in DOMAIN upstreams \cup {goal} |-> IF t = goal THEN cursor ELSE upstreams[t]]
          /\ live' = live \cup {goal}
          /\ pc' = "outbounds"
          /\ UNCHANGED <<cursor, seen>>
  /\ UNCHANGED <<file, goal, todo, exited>>

(* tun_config may refuse; then run_route_stack or the client with its TUN. *)
RunStack ==
  /\ pc = "outbounds" /\ todo = {} /\ pc' = "running"
  /\ UNCHANGED <<file, goal, cursor, seen, todo, upstreams, live, exited>>
TunRefused == pc = "outbounds" /\ todo = {} /\ file.tun /\ Stop("refused")

(* An outbound task may end at any time, with or without an error; the     *)
(* select! of run_route_stack takes its exit from the channel.             *)
OutboundExits(t) ==
  /\ pc \notin {"stopped", "refused"} /\ t \in live
  /\ live' = live \ {t} /\ exited' = exited \cup {t}
  /\ UNCHANGED <<file, pc, goal, cursor, seen, todo, upstreams>>
StackEnds == pc = "running" /\ exited # {} /\ Stop("stopped")
ListenerFails == pc \in {"running", "serving"} /\ Stop("stopped")
TunEnds == pc = "running" /\ file.tun /\ Stop("stopped")

StartStep == RunFileConfig \/ NextOutbound \/ ResolveStep \/ Convert \/ RunStack
Next ==
  \/ StartStep \/ StackEnds
  \/ BindFails \/ TunRefused \/ ListenerFails \/ TunEnds
  \/ \E t \in live : OutboundExits(t)

Spec == Init /\ [][Next]_startVars
FairSpec == Spec /\ WF_startVars(StartStep) /\ WF_startVars(StackEnds)

-----------------------------------------------------------------------------
(* The outbound a name stands for: the end of the chain of chosen          *)
(* candidates, if it has one.                                              *)
Chosen(e) == IF e.default # "" /\ file.format = "sing-box" THEN e.default ELSE Head(e.to)
Leads(e, name) ==
  \/ e.kind = "select" /\ e.to # <<>> /\ name = Chosen(e)
  \/ e.kind = "auto" /\ e.to = <<name>>
Chains(name) ==
  {p \in UNION {[1..k -> Names \cup {"direct"}] : k \in 1..(Cardinality(Names) + 1)} :
     /\ p[1] = name
     /\ \A i \in 1..(Len(p) - 1) : Leads(Entry(p[i]), p[i + 1])
     /\ p[Len(p)] = "direct" \/ Entry(p[Len(p)]).kind = "proxy"}

(* main.rs: a router that runs has a listening outbound for every tag of   *)
(* its table, namely the one at the end of the tag's chain of groups.      *)
StackComplete ==
  pc = "running" => /\ DOMAIN upstreams = IF Routed THEN file.tags ELSE {"client"}
                    /\ Routed => \A t \in file.tags : \E p \in Chains(t) : p[Len(p)] = upstreams[t]
                    /\ live \cup exited = DOMAIN upstreams

(* Start-up comes to an end, also when groups refer to each other, and the *)
(* end of one outbound ends the whole stack.                               *)
StartupSettles == /\ <>(pc \in Settled)
                  /\ (pc = "running" /\ exited # {}) ~> (pc = "stopped")
=============================================================================
