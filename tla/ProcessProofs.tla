--------------------------- MODULE ProcessProofs ----------------------------
(***************************************************************************)
(* What a process is built on, for any number of tasks, outbounds and      *)
(* flows: the latch that tells every waiting task of a cancellation, the   *)
(* routing of flows while routes change, and the start from a file.        *)
(***************************************************************************)
EXTENDS TaskAbort, RouterPart, StartPart, TLAPS

\* The latch (TaskAbort).

\* The inductive invariant.  Besides the types it says that the flag is set
\* before anyone is between the swap and the wake-up; that the wake-up is
\* owed or has been given once the flag is set; and that a future which was
\* created before the flag was set captured the counter's initial value.
Owed == \E t \in Triggers : tpc[t] = "notify"

IInv ==
    /\ TypeOK
    /\ Owed => done
    /\ done /\ ~Owed => calls > 0
    /\ ~done => calls = 0
    /\ \A t, u \in Triggers : tpc[t] = "notify" /\ tpc[u] = "notify" => t = u
    /\ Owed => calls = 0
    /\ \A w \in Waiters : wpc[w] = "unparked" => seen[w] = 0
    /\ \A w \in Waiters : wpc[w] = "parked" => calls = 0
    /\ \A w \in Waiters : wpc[w] = "returned" => done
    /\ \A w \in Waiters : seen[w] <= calls

\* The initial state of a TaskAbort satisfies the inductive invariant.
LEMMA InitIInv == Init => IInv
  <1> SUFFICES ASSUME Init PROVE IInv
    BY Zenon
  <1>1. done \in BOOLEAN
    BY Zenon DEF Init
  <1>2. TypeOK
    BY <1>1 DEF Init, TypeOK, WaiterPc, TriggerPc
  <1>3. ~Owed
    BY Zenon DEF Init, Owed
  <1> QED
    BY <1>2, <1>3 DEF Init, IInv

\* Every atomic step of cancelled() and trigger() preserves it.
LEMMA NextIInv == IInv /\ [Next]_vars => IInv'
  <1> SUFFICES ASSUME IInv, [Next]_vars PROVE IInv'
    BY Zenon
  <1> USE DEF IInv, TypeOK, Owed, WaiterPc, TriggerPc
  <1>1. ASSUME NEW w \in Waiters, CreateNotified(w) PROVE IInv'
    BY <1>1 DEF CreateNotified
  <1>2. ASSUME NEW w \in Waiters, CheckDone(w) PROVE IInv'
    BY <1>2 DEF CheckDone
  <1>3. ASSUME NEW w \in Waiters, FirstPoll(w) PROVE IInv'
    BY <1>3, Zenon DEF FirstPoll
  <1>4. ASSUME NEW w \in Waiters, DropFuture(w) PROVE IInv'
    BY <1>4, Zenon DEF DropFuture
  <1>5. ASSUME NEW t \in Triggers, Swap(t) PROVE IInv'
    BY <1>5, Zenon DEF Swap
  <1>6. ASSUME NEW t \in Triggers, NotifyWaiters(t) PROVE IInv'
    BY <1>6 DEF NotifyWaiters
  <1>7. CASE UNCHANGED vars
    BY <1>7, Zenon DEF vars
  <1> QED
    BY <1>1, <1>2, <1>3, <1>4, <1>5, <1>6, <1>7, Zenon
    DEF Next, WaiterStep, TriggerStep

\* The invariant holds in every reachable state.
LEMMA Invariance == Spec => []IInv
  BY InitIInv, NextIInv, PTL DEF Spec

\* No task sleeps through the trigger, whatever the number of tasks on
\* either side and however their steps interleave.
THEOREM NoLostWakeupHolds == Spec => []NoLostWakeup
  <1>1. ASSUME IInv PROVE NoLostWakeup
    <2>1. ASSUME NEW w \in Waiters, done, wpc[w] = "parked" PROVE Owed
      BY <1>1, <2>1 DEF IInv, TypeOK
    <2>2. ASSUME NEW w \in Waiters, done, wpc[w] = "unparked", ~Owed
          PROVE calls # seen[w]
      BY <1>1, <2>2 DEF IInv, TypeOK
    <2> QED
      BY <2>1, <2>2, Zenon DEF NoLostWakeup, Owed
  <1> QED
    BY <1>1, Invariance, PTL

\* TaskAbort implements the safety part of Latch: the flag is set once and
\* for good, and cancelled() returns only after trigger() was called.
THEOREM LatchSafetyHolds == Spec => LatchSafety
  <1>1. Init => L!Init
    BY Zenon DEF Init, L!Init, released
  <1>2. IInv /\ IInv' /\ [Next]_vars => [L!Next]_(L!vars)
    <2> SUFFICES ASSUME IInv, IInv', [Next]_vars PROVE [L!Next]_(L!vars)
      BY Zenon
    <2> USE DEF IInv, TypeOK, Owed, WaiterPc, TriggerPc, released, L!vars
    <2>1. ASSUME NEW w \in Waiters, CreateNotified(w) \/ DropFuture(w)
          PROVE UNCHANGED L!vars
      BY <2>1 DEF CreateNotified, DropFuture
    <2>2. ASSUME NEW w \in Waiters, CheckDone(w) \/ FirstPoll(w)
          PROVE [L!Next]_(L!vars)
      <3>1. CASE wpc'[w] = "returned"
        <4>1. done /\ done' = done
          BY <2>2, <3>1, Zenon DEF CheckDone, FirstPoll
        <4>2. released' = released \cup {w} /\ w \notin released
          BY <2>2, <3>1 DEF CheckDone, FirstPoll
        <4> QED
          BY <4>1, <4>2, Zenon DEF L!Next, L!ReleaseSome
      <3>2. CASE wpc'[w] # "returned"
        BY <2>2, <3>2 DEF CheckDone, FirstPoll
      <3> QED
        BY <3>1, <3>2, Zenon
    <2>3. ASSUME NEW t \in Triggers, Swap(t) PROVE [L!Next]_(L!vars)
      BY <2>3, Zenon DEF Swap, L!Next, L!Fire
    <2>4. ASSUME NEW t \in Triggers, NotifyWaiters(t) PROVE [L!Next]_(L!vars)
      <3> DEFINE W == {w \in Waiters : wpc[w] = "parked"}
      <3>1. done /\ done' = done
        BY <2>4, Zenon DEF NotifyWaiters
      <3>2. released' = released \cup W /\ W \in SUBSET (Waiters \ released)
        BY <2>4, Zenon DEF NotifyWaiters
      <3>3. CASE W = {}
        BY <3>1, <3>2, <3>3, Zenon
      <3>4. CASE W # {}
        BY <3>1, <3>2, <3>4, Zenon DEF L!Next, L!ReleaseSome
      <3> QED
        BY <3>3, <3>4, Zenon
    <2>5. CASE UNCHANGED vars
      BY <2>5, Zenon DEF vars
    <2> QED
      BY <2>1, <2>2, <2>3, <2>4, <2>5, Zenon DEF Next, WaiterStep, TriggerStep
  <1> QED
    BY <1>1, <1>2, Invariance, PTL DEF Spec, LatchSafety, L!Spec

----------------------------------------------------------------------------
\* The flows of the local router (RouteProxy).

\* What was in force since a flow came in: decisions, and upstreams as pairs
\* of a tag and an address.
Hops == Addrs \cup {"none"}
Span == [to : SUBSET Router!Decisions, at : SUBSET (Tags \X Hops)]
\* What is in force now is among it.
InForce(t, s) == routes[t] \in s.to /\ Router!Registered \subseteq s.at

Stages == {"new", "request", "lookup", "connect", "relay", "done"}
RouterTyped ==
  /\ routes \in Tables /\ uplinks \in [Tags -> Hops]
  /\ client \in [Clients -> Stages] /\ target \in [Clients -> Targets \cup {"none"}]
  /\ decision \in [Clients -> Router!Decisions \cup {"none"}]
  /\ via \in [Clients -> Hops] /\ since \in [Clients -> Span]
  /\ datagram \in [target : Targets \cup {"none"}, decision : Router!Decisions \cup {"none"}, since : Span]

\* A TCP client: a table it may still read and the one it has read, then the
\* upstream it may still read and the one it has read.
ClientInv(c) ==
  /\ client[c] \in {"request", "lookup"} => target[c] \in Targets /\ InForce(target[c], since[c])
  /\ client[c] = "lookup" => decision[c] \in since[c].to \cap Tags
  /\ client[c] \in {"connect", "relay"} => Router!Follows(decision[c], via[c], since[c])

\* The same for the datagram in the loop.
DatagramInv ==
  assoc = "loop" =>
    /\ datagram.target \in Targets /\ InForce(datagram.target, datagram.since)
    /\ datagram.decision # "none" => datagram.decision \in datagram.since.to \cap (Tags \cup {"direct"})

\* A UDP session of a tag sends to the address in its key, and that is where
\* every datagram in its queue may go.
Parcel == [to : Router!Decisions \cup {"none"}, since : Span]
Queue == Seq(Parcel)
Goal == Hops \cup {"direct"}
Session == [via : Goal, queue : Queue, alive : BOOLEAN, ready : BOOLEAN]
SessionOk(k, s) ==
  /\ s \in Session
  /\ k[1] # "direct" => s.via = k[2]
  /\ \A i \in 1..Len(s.queue) : Router!Follows(s.queue[i].to, s.via, s.queue[i].since)
SessionsInv ==
  /\ sessions = [k \in DOMAIN sessions |-> sessions[k]]
  /\ \A k \in DOMAIN sessions : SessionOk(k, sessions[k])
\* What the loop is sending may go there too.
CommandInv ==
  assoc = "send" =>
    /\ command.key \in DOMAIN sessions /\ command.parcel \in Parcel
    /\ Router!Follows(command.parcel.to, sessions[command.key].via, command.parcel.since)
DeliveredInv == \A d \in sentOut : Router!Follows(d.to, d.at, d.since)

RouterInv ==
  /\ RouterTyped /\ (\A c \in Clients : ClientInv(c)) /\ DatagramInv
  /\ SessionsInv /\ CommandInv /\ DeliveredInv

\* An update adds to what a flow may see and takes nothing away.
LEMMA SeenGrows ==
  ASSUME NEW s \in Span, NEW t \in Targets, NEW table \in Tables, NEW ups \in [Tags -> Hops]
  PROVE  LET n == Router!Seen(s, t, table, ups) IN
         /\ n \in Span
         /\ s.to \subseteq n.to /\ table[t] \in n.to
         /\ {<<g, ups[g]>> : g \in {h \in Tags : ups[h] # "none"}} \subseteq n.at
<1>1. table[t] \in Router!Decisions
  BY RouterAssumption, Zenon DEF Router!WellFormed
<1>2. {<<g, ups[g]>> : g \in {h \in Tags : ups[h] # "none"}} \subseteq Tags \X Hops
  OBVIOUS
<1> QED
  BY <1>1, <1>2, Zenon DEF Router!Seen, Router!NoAddr, Span

\* What is registered, typed.
LEMMA RegisteredTyped ==
  ASSUME uplinks \in [Tags -> Hops]
  PROVE  /\ Router!Registered \subseteq Tags \X Hops
         /\ \A g \in Tags : uplinks[g] # "none" => <<g, uplinks[g]>> \in Router!Registered
BY DEF Router!Registered, Router!NoAddr

LEMMA RouterInit == Router!Init => RouterInv
<1> SUFFICES ASSUME Router!Init PROVE RouterInv
  BY Zenon
<1>1. Router!Nothing \in Span /\ Router!NoDatagram.since = Router!Nothing
  BY Zenon DEF Router!Nothing, Span, Router!NoDatagram
<1>2. RouterTyped
  <2>1. /\ target \in [Clients -> Targets \cup {"none"}]
        /\ decision \in [Clients -> Router!Decisions \cup {"none"}]
        /\ via \in [Clients -> Hops] /\ since \in [Clients -> Span]
    BY <1>1, Zenon DEF Router!Init, Router!NoAddr, Hops
  <2>2. routes \in Tables /\ uplinks \in [Tags -> Hops] /\ client \in [Clients -> Stages]
    BY Zenon DEF Router!Init, Router!NoAddr, Hops, Stages
  <2>3. datagram \in [target : Targets \cup {"none"}, decision : Router!Decisions \cup {"none"}, since : Span]
    BY <1>1, Zenon DEF Router!Init, Router!NoDatagram
  <2> QED
    BY <2>1, <2>2, <2>3, Zenon DEF RouterTyped
<1>3. \A c \in Clients : ClientInv(c)
  BY Zenon DEF ClientInv, Router!Init
<1>4. DatagramInv
  BY Zenon DEF DatagramInv, Router!Init
<1>5. SessionsInv
  BY DEF SessionsInv, Router!Init
<1>6. CommandInv /\ DeliveredInv
  BY Zenon DEF CommandInv, DeliveredInv, Router!Init
<1> QED
  BY <1>2, <1>3, <1>4, <1>5, <1>6, Zenon DEF RouterInv

\* A new table or new upstreams: replace_routes, set_upstream,
\* remove_upstream and replace_upstreams.
LEMMA UpdateKeeps ==
  ASSUME RouterInv, NEW table \in Tables, NEW ups \in [Tags -> Hops], Router!Update(table, ups)
  PROVE  RouterInv'
<1>1. /\ RouterTyped /\ DatagramInv /\ SessionsInv /\ CommandInv /\ DeliveredInv
      /\ \A c \in Clients : ClientInv(c)
  BY Zenon DEF RouterInv
<1>2. /\ routes' = table /\ uplinks' = ups /\ client' = client /\ target' = target
      /\ decision' = decision /\ via' = via /\ assoc' = assoc /\ command' = command
      /\ sessions' = sessions /\ sentOut' = sentOut
  BY Zenon DEF Router!Update
<1>3. Router!Registered' = {<<g, ups[g]>> : g \in {h \in Tags : ups[h] # "none"}}
  BY <1>2, Zenon DEF Router!Registered, Router!NoAddr
<1>4. ASSUME NEW c \in Clients
      PROVE  since'[c] \in Span /\ ClientInv(c)'
  <2>1. since[c] \in Span /\ client[c] = client'[c]
    BY <1>1, <1>2, Zenon DEF RouterTyped
  <2>2. CASE client[c] \in {"request", "lookup"}
    <3>1. target[c] \in Targets
      BY <1>1, <2>2, Zenon DEF ClientInv
    <3>2. since'[c] = Router!Seen(since[c], target[c], table, ups)
      BY <2>2, Zenon DEF Router!Update
    <3>3. since'[c] \in Span /\ since[c].to \subseteq since'[c].to /\ InForce(target[c], since[c])'
      BY <2>1, <3>1, <3>2, <1>2, <1>3, SeenGrows, Zenon DEF InForce
    <3> QED
      BY <1>1, <1>2, <2>2, <3>1, <3>3, Zenon DEF ClientInv
  <2>3. CASE client[c] \notin {"request", "lookup"}
    <3>1. since'[c] = since[c]
      BY <2>3, Zenon DEF Router!Update
    <3> QED
      BY <1>1, <1>2, <2>1, <2>3, <3>1, Zenon DEF ClientInv, Router!Follows
  <2> QED
    BY <2>2, <2>3, Zenon
<1>5. /\ datagram' \in [target : Targets \cup {"none"}, decision : Router!Decisions \cup {"none"}, since : Span]
      /\ DatagramInv'
  <2>1. CASE assoc = "loop"
    <3>1. datagram.target \in Targets /\ datagram.since \in Span
      BY <1>1, <2>1, Zenon DEF DatagramInv, RouterTyped
    <3>2. datagram' = [datagram EXCEPT !.since = Router!Seen(datagram.since, datagram.target, table, ups)]
      BY <2>1, Zenon DEF Router!Update
    <3>3. /\ datagram'.target = datagram.target /\ datagram'.decision = datagram.decision
          /\ datagram'.since = Router!Seen(datagram.since, datagram.target, table, ups)
      BY <3>2, <1>1, Zenon DEF RouterTyped
    <3>4. /\ datagram'.since \in Span /\ datagram.since.to \subseteq datagram'.since.to
          /\ InForce(datagram.target, datagram.since)'
      BY <3>1, <3>3, <1>2, <1>3, SeenGrows, Zenon DEF InForce
    <3>5. datagram' \in [target : Targets \cup {"none"}, decision : Router!Decisions \cup {"none"}, since : Span]
      BY <3>2, <3>3, <3>4, <1>1, Zenon DEF RouterTyped
    <3> QED
      BY <1>1, <1>2, <2>1, <3>1, <3>3, <3>4, <3>5, Zenon DEF DatagramInv
  <2>2. CASE assoc # "loop"
    <3>1. datagram' = datagram
      BY <2>2, Zenon DEF Router!Update
    <3> QED
      BY <1>1, <1>2, <2>2, <3>1, Zenon DEF DatagramInv, RouterTyped
  <2> QED
    BY <2>1, <2>2, Zenon
<1>6. since' \in [Clients -> Span]
  BY <1>4, Zenon DEF Router!Update
<1>7. RouterTyped'
  BY <1>1, <1>2, <1>5, <1>6, Zenon DEF RouterTyped
<1>8. SessionsInv' /\ CommandInv' /\ DeliveredInv'
  BY <1>1, <1>2, Zenon DEF SessionsInv, CommandInv, DeliveredInv
<1> QED
  BY <1>4, <1>5, <1>7, <1>8, Zenon DEF RouterInv

\* A step of one TCP client (handle_route_client): it changes nothing of the
\* others and nothing of the routing.
LEMMA ClientKeeps ==
  ASSUME RouterInv, NEW c \in Clients,
         \/ Router!Refused(c) \/ Router!TryDecide(c) \/ Router!Upstream(c) \/ Router!RelayEnds(c)
         \/ \E t \in Targets : Router!Connect(c, t)
         \/ \E ok \in BOOLEAN : Router!Connected(c, ok),
         UNCHANGED <<routes, uplinks>>
  PROVE  /\ target' \in [Clients -> Targets \cup {"none"}] /\ client' \in [Clients -> Stages]
         /\ decision' \in [Clients -> Router!Decisions \cup {"none"}]
         /\ via' \in [Clients -> Hops] /\ since' \in [Clients -> Span]
         /\ \A d \in Clients : ClientInv(d)'
<1>1. RouterTyped /\ \A d \in Clients : ClientInv(d)
  BY Zenon DEF RouterInv
<1>2. Router!Registered' = Router!Registered /\ routes' = routes
  BY Zenon DEF Router!Registered
<1> DEFINE Typed ==
      /\ target' \in [Clients -> Targets \cup {"none"}] /\ client' \in [Clients -> Stages]
      /\ decision' \in [Clients -> Router!Decisions \cup {"none"}]
      /\ via' \in [Clients -> Hops] /\ since' \in [Clients -> Span]
    Others ==
      \A d \in Clients \ {c} :
        /\ client'[d] = client[d] /\ target'[d] = target[d] /\ decision'[d] = decision[d]
        /\ via'[d] = via[d] /\ since'[d] = since[d]
<1> SUFFICES Typed /\ \A d \in Clients : ClientInv(d)'
  BY Zenon
<1>3. ASSUME Typed, Others, ClientInv(c)'
      PROVE  \A d \in Clients : ClientInv(d)'
  <2> SUFFICES ASSUME NEW d \in Clients \ {c} PROVE ClientInv(d)'
    BY <1>3, Zenon
  <2> QED
    BY <1>1, <1>2, <1>3, Zenon DEF ClientInv, InForce, Router!Follows
<1>4. CASE Router!Refused(c) \/ Router!RelayEnds(c)
  <2>1. Typed /\ Others /\ client'[c] = "done"
    BY <1>1, <1>4, Zenon DEF RouterTyped, Router!Refused, Router!RelayEnds, Router!Go, Stages
  <2>2. ClientInv(c)'
    BY <2>1, Zenon DEF ClientInv
  <2> QED
    BY <1>3, <2>1, <2>2, Zenon
<1>5. ASSUME NEW t \in Targets, Router!Connect(c, t)
      PROVE  Typed /\ \A d \in Clients : ClientInv(d)'
  <2>1. routes[t] \in Router!Decisions /\ Router!Registered \subseteq Tags \X Hops
    BY <1>1, RegisteredTyped, RouterAssumption DEF RouterTyped, Router!WellFormed
  <2>2. [to |-> {routes[t]}, at |-> Router!Registered] \in Span
    BY <2>1, Zenon DEF Span
  <2>3. /\ Typed /\ Others /\ client'[c] = "request" /\ target'[c] = t
        /\ since'[c] = [to |-> {routes[t]}, at |-> Router!Registered]
    BY <1>1, <1>5, <2>2, Zenon DEF RouterTyped, Router!Connect, Router!Go, Stages
  <2>4. ClientInv(c)'
    BY <1>2, <2>3 DEF ClientInv, InForce
  <2> QED
    BY <1>3, <2>3, <2>4, Zenon
<1>6. CASE Router!TryDecide(c)
  <2>1. target[c] \in Targets /\ InForce(target[c], since[c])
    BY <1>1, <1>6, Zenon DEF ClientInv, Router!TryDecide
  <2>2. routes[target[c]] \in Router!Decisions
    BY <1>1, <2>1, RouterAssumption DEF RouterTyped, Router!WellFormed
  <2>3. Typed /\ Others
    BY <1>1, <1>6, <2>2, Zenon DEF RouterTyped, Router!TryDecide, Router!Go, Stages
  <2>4. /\ decision'[c] = routes[target[c]] /\ since'[c] = since[c] /\ target'[c] = target[c]
        /\ client'[c] = IF routes[target[c]] = "block" THEN "done"
                        ELSE IF routes[target[c]] = "direct" THEN "connect" ELSE "lookup"
    BY <1>1, <1>6, Zenon DEF RouterTyped, Router!TryDecide, Router!Go, Router!Direct
  <2>5. ClientInv(c)'
    BY <1>2, <2>1, <2>2, <2>4, Zenon DEF ClientInv, InForce, Router!Follows, Router!Direct, Router!Decisions
  <2> QED
    BY <1>3, <2>3, <2>5, Zenon
<1>7. CASE Router!Upstream(c)
  <2>1. decision[c] \in since[c].to \cap Tags /\ Router!Registered \subseteq since[c].at
    BY <1>1, <1>7, Zenon DEF ClientInv, InForce, Router!Upstream
  <2>2. uplinks[decision[c]] \in Hops
    BY <1>1, <2>1, Zenon DEF RouterTyped
  <2>3. /\ Typed /\ Others /\ via'[c] = uplinks[decision[c]]
        /\ decision'[c] = decision[c] /\ since'[c] = since[c]
        /\ client'[c] = IF uplinks[decision[c]] = "none" THEN "done" ELSE "connect"
    BY <1>1, <1>7, <2>2, Zenon DEF RouterTyped, Router!Upstream, Router!Go, Router!NoAddr, Stages
  <2>4. uplinks[decision[c]] # "none" => <<decision[c], uplinks[decision[c]]>> \in since[c].at
    BY <1>1, <2>1, RegisteredTyped, Zenon DEF RouterTyped
  <2>5. ClientInv(c)'
    BY <2>1, <2>3, <2>4, Zenon DEF ClientInv, Router!Follows
  <2> QED
    BY <1>3, <2>3, <2>5, Zenon
<1>8. ASSUME NEW ok \in BOOLEAN, Router!Connected(c, ok)
      PROVE  Typed /\ \A d \in Clients : ClientInv(d)'
  <2>1. /\ Typed /\ Others /\ decision'[c] = decision[c] /\ via'[c] = via[c] /\ since'[c] = since[c]
        /\ client[c] = "connect" /\ client'[c] \in {"relay", "done"}
    BY <1>1, <1>8, Zenon DEF RouterTyped, Router!Connected, Router!Go, Stages
  <2>2. ClientInv(c)'
    BY <1>1, <2>1, Zenon DEF ClientInv, Router!Follows
  <2> QED
    BY <1>3, <2>1, <2>2, Zenon
<1> HIDE DEF Typed
<1> QED
  BY <1>4, <1>5, <1>6, <1>7, <1>8, Zenon

LEMMA TcpKeeps ==
  ASSUME RouterInv, Router!TcpStep PROVE RouterInv'
<1>1. PICK c \in Clients :
        \/ Router!Refused(c) \/ Router!TryDecide(c) \/ Router!Upstream(c) \/ Router!RelayEnds(c)
        \/ \E t \in Targets : Router!Connect(c, t)
        \/ \E ok \in BOOLEAN : Router!Connected(c, ok)
  BY Zenon DEF Router!TcpStep
<1>2. UNCHANGED <<routes, uplinks, assoc, datagram, command, sessions, sentOut>>
  BY Zenon DEF Router!TcpStep, Router!udpVars
<1>3. /\ target' \in [Clients -> Targets \cup {"none"}] /\ client' \in [Clients -> Stages]
      /\ decision' \in [Clients -> Router!Decisions \cup {"none"}]
      /\ via' \in [Clients -> Hops] /\ since' \in [Clients -> Span]
      /\ \A d \in Clients : ClientInv(d)'
  BY <1>1, <1>2, ClientKeeps, Zenon
<1>4. RouterTyped'
  BY <1>2, <1>3, Zenon DEF RouterInv, RouterTyped
<1>5. DatagramInv'
  BY <1>2, Zenon DEF RouterInv, DatagramInv, InForce, Router!Registered
<1>6. SessionsInv' /\ CommandInv' /\ DeliveredInv'
  BY <1>2, Zenon DEF RouterInv, SessionsInv, CommandInv, DeliveredInv
<1> QED
  BY <1>3, <1>4, <1>5, <1>6, Zenon DEF RouterInv

\* What the steps of the loop and of a session change of a session.
LEMMA QueueChanged ==
  ASSUME NEW s \in Session, NEW q \in Queue
  PROVE  /\ [s EXCEPT !.queue = q] \in Session
         /\ [s EXCEPT !.queue = q].via = s.via /\ [s EXCEPT !.queue = q].queue = q
BY Zenon DEF Session

LEMMA StateChanged ==
  ASSUME NEW s \in Session, NEW a \in BOOLEAN, NEW b \in BOOLEAN
  PROVE  /\ [s EXCEPT !.ready = b, !.alive = a] \in Session
         /\ [s EXCEPT !.ready = b, !.alive = a].via = s.via
         /\ [s EXCEPT !.ready = b, !.alive = a].queue = s.queue
BY Zenon DEF Session

LEMMA SessionFailed ==
  ASSUME NEW s \in Session
  PROVE  /\ [s EXCEPT !.alive = FALSE] \in Session
         /\ [s EXCEPT !.alive = FALSE].via = s.via
         /\ [s EXCEPT !.alive = FALSE].queue = s.queue
BY Zenon DEF Session

\* One session changes and keeps its address.
LEMMA SetKeeps ==
  ASSUME SessionsInv, NEW k \in DOMAIN sessions, NEW s, SessionOk(k, s), s.via = sessions[k].via,
         Router!Set(k, s)
  PROVE  /\ SessionsInv' /\ DOMAIN sessions' = DOMAIN sessions
         /\ \A l \in DOMAIN sessions : sessions'[l].via = sessions[l].via
<1>1. sessions' = [l \in DOMAIN sessions |-> IF l = k THEN s ELSE sessions[l]]
  BY Zenon DEF Router!Set, SessionsInv
<1>2. DOMAIN sessions' = DOMAIN sessions
  BY <1>1, Zenon
<1>3. ASSUME NEW l \in DOMAIN sessions' PROVE SessionOk(l, sessions'[l])
  BY <1>1, <1>2, Zenon DEF SessionsInv
<1>4. sessions' = [l \in DOMAIN sessions' |-> sessions'[l]]
  BY <1>1, Zenon
<1> QED
  BY <1>1, <1>2, <1>3, <1>4, Zenon DEF SessionsInv

\* The loop looks the session of a datagram up; it may be an old one.
LEMMA LookupKeeps ==
  ASSUME RouterInv, NEW address \in Goal, NEW place,
         datagram.decision \in Tags \cup {"direct"},
         datagram.decision # "direct" => place = address,
         Router!Follows(datagram.decision, address, datagram.since),
         Router!Lookup(<<datagram.decision, place>>, address)
  PROVE  SessionsInv' /\ CommandInv' /\ assoc' = "send"
<1> DEFINE key == <<datagram.decision, place>>
           new == Router!NewSession(address)
           d == [to |-> datagram.decision, since |-> datagram.since]
<1>1. SessionsInv /\ RouterTyped
  BY Zenon DEF RouterInv
<1>2. /\ sessions' = IF key \in DOMAIN sessions THEN sessions ELSE Router!With(sessions, key, new)
      /\ command' = [key |-> key, parcel |-> d] /\ assoc' = "send"
  BY Zenon DEF Router!Lookup
<1>3. SessionOk(key, new) /\ new.via = address
  BY DEF SessionOk, Session, Queue, Router!NewSession
<1>4. d \in Parcel
  BY <1>1, Zenon DEF RouterTyped, Parcel, Router!Decisions
<1>5. ASSUME NEW s, SessionOk(key, s), key \in DOMAIN sessions', sessions'[key] = s, s.via = address \/ key \in DOMAIN sessions
      PROVE  CommandInv'
  <2>1. datagram.decision # "direct" => s.via = address
    BY <1>5, Zenon DEF SessionOk
  <2>2. Router!Follows(datagram.decision, s.via, datagram.since)
    BY <2>1, Zenon DEF Router!Follows, Router!Direct
  <2>3. command'.key = key /\ command'.parcel = d /\ d.to = datagram.decision /\ d.since = datagram.since
    BY <1>2, Zenon
  <2> HIDE DEF d, key
  <2> QED
    BY <1>4, <1>5, <2>2, <2>3, Zenon DEF CommandInv
<1> HIDE DEF new, key
<1>6. CASE key \in DOMAIN sessions
  <2>1. SessionsInv' /\ sessions' = sessions
    BY <1>1, <1>2, <1>6, Zenon DEF SessionsInv
  <2>2. SessionOk(key, sessions[key])
    BY <1>1, <1>6, Zenon DEF SessionsInv
  <2> QED
    BY <1>2, <1>5, <1>6, <2>1, <2>2, Zenon
<1>7. CASE key \notin DOMAIN sessions
  <2>1. sessions' = [k \in DOMAIN sessions \cup {key} |-> IF k = key THEN new ELSE sessions[k]]
    BY <1>2, <1>7, Zenon DEF Router!With
  <2>2. DOMAIN sessions' = DOMAIN sessions \cup {key} /\ sessions'[key] = new
    BY <2>1, Zenon
  <2>3. ASSUME NEW k \in DOMAIN sessions' PROVE SessionOk(k, sessions'[k])
    BY <1>1, <1>3, <2>1, <2>2, Zenon DEF SessionsInv
  <2>4. sessions' = [k \in DOMAIN sessions' |-> sessions'[k]]
    BY <2>1, Zenon
  <2> QED
    BY <1>2, <1>3, <1>5, <2>2, <2>3, <2>4, Zenon DEF SessionsInv
<1> QED
  BY <1>6, <1>7, Zenon

\* The datagram goes into the queue of that session, when there is room.
LEMMA SendKeeps ==
  ASSUME RouterInv, Router!Send
  PROVE  SessionsInv' /\ assoc' \notin {"loop", "send"} /\ datagram' = datagram /\ sentOut' = sentOut
<1> DEFINE k == command.key
           d == command.parcel
           s == sessions[k]
           n == [s EXCEPT !.queue = Append(@, d)]
<1>1. /\ SessionsInv /\ k \in DOMAIN sessions /\ d \in Parcel
      /\ Router!Follows(d.to, s.via, d.since) /\ SessionOk(k, s)
  BY Zenon DEF RouterInv, CommandInv, SessionsInv, Router!Send
<1>2. datagram' = datagram /\ sentOut' = sentOut
  BY Zenon DEF Router!Send
<1>3. CASE ~s.alive
  BY <1>1, <1>2, <1>3, Zenon DEF SessionsInv, Router!Send
<1>4. CASE s.alive
  <2>1. Router!Set(k, n) /\ assoc' = "open"
    BY <1>4, Zenon DEF Router!Send, Router!Set
  <2> HIDE DEF s, d, k
  <2>2. s \in Session /\ s.queue \in Seq(Parcel)
    BY <1>1, Zenon DEF SessionOk, Session, Queue
  <2>3. n \in Session /\ n.via = s.via /\ n.queue = Append(s.queue, d)
    <3>1. Append(s.queue, d) \in Queue
      BY <1>1, <2>2 DEF Queue
    <3> QED
      BY <2>2, <3>1, QueueChanged, Zenon
  <2> HIDE DEF n
  <2>4. /\ Len(n.queue) = Len(s.queue) + 1 /\ Len(s.queue) \in Nat
        /\ n.queue[Len(s.queue) + 1] = d
        /\ \A i \in 1..Len(s.queue) : n.queue[i] = s.queue[i]
    BY <1>1, <2>2, <2>3
  <2>5. ASSUME NEW i \in 1..Len(n.queue)
        PROVE  Router!Follows(n.queue[i].to, n.via, n.queue[i].since)
    <3>1. CASE i = Len(s.queue) + 1
      BY <3>1, <1>1, <2>3, <2>4, Zenon
    <3>2. CASE i \in 1..Len(s.queue)
      BY <3>2, <1>1, <2>3, <2>4, Zenon DEF SessionOk
    <3> QED
      BY <2>4, <3>1, <3>2
  <2>6. SessionOk(k, n)
    BY <1>1, <2>3, <2>5, Zenon DEF SessionOk
  <2> QED
    BY <1>1, <1>2, <2>1, <2>3, <2>6, SetKeeps, Zenon DEF s
<1> QED
  BY <1>3, <1>4, Zenon

\* The loop of the association: decide, then look the upstream up.
LEMMA LoopKeeps ==
  ASSUME RouterInv, UNCHANGED <<routes, uplinks>>,
         \/ \E ok \in BOOLEAN : Router!Associate(ok)
         \/ \E t \in Targets : Router!Receive(t)
         \/ Router!Decide \/ Router!Dispatch \/ Router!Send \/ Router!ControlClosed
  PROVE  /\ datagram' \in [target : Targets \cup {"none"}, decision : Router!Decisions \cup {"none"}, since : Span]
         /\ DatagramInv' /\ SessionsInv' /\ CommandInv' /\ sentOut' = sentOut
<1>1. RouterTyped /\ DatagramInv /\ SessionsInv
  BY Zenon DEF RouterInv
<1>2. Router!Registered' = Router!Registered /\ routes' = routes
  BY Zenon DEF Router!Registered
<1>3. Router!NoDatagram \in [target : Targets \cup {"none"}, decision : Router!Decisions \cup {"none"}, since : Span]
  BY Zenon DEF Router!NoDatagram, Router!Nothing, Span
<1>4. CASE Router!ControlClosed \/ \E ok \in BOOLEAN : Router!Associate(ok)
  <2>1. /\ datagram' = datagram /\ sessions' = sessions /\ sentOut' = sentOut
        /\ assoc' \notin {"loop", "send"}
    BY <1>4, Zenon DEF Router!Associate, Router!ControlClosed
  <2> QED
    BY <1>1, <2>1, Zenon DEF RouterTyped, DatagramInv, CommandInv, SessionsInv
<1>5. ASSUME NEW t \in Targets, Router!Receive(t)
      PROVE  /\ datagram' \in [target : Targets \cup {"none"}, decision : Router!Decisions \cup {"none"}, since : Span]
             /\ DatagramInv' /\ SessionsInv' /\ CommandInv' /\ sentOut' = sentOut
  <2>1. /\ sessions' = sessions /\ sentOut' = sentOut /\ assoc' = "loop"
        /\ datagram' = [target |-> t, decision |-> "none", since |-> [to |-> {routes[t]}, at |-> Router!Registered]]
    BY <1>5, Zenon DEF Router!Receive
  <2>2. routes[t] \in Router!Decisions /\ Router!Registered \subseteq Tags \X Hops
    BY <1>1, RegisteredTyped, RouterAssumption DEF RouterTyped, Router!WellFormed
  <2>3. [to |-> {routes[t]}, at |-> Router!Registered] \in Span
    BY <2>2, Zenon DEF Span
  <2>4. DatagramInv'
    BY <1>2, <2>1, Zenon DEF DatagramInv, InForce
  <2> QED
    BY <1>1, <2>1, <2>3, <2>4, Zenon DEF SessionsInv, CommandInv
<1>6. CASE Router!Decide
  <2>1. /\ sessions' = sessions /\ sentOut' = sentOut
        /\ datagram.target \in Targets /\ InForce(datagram.target, datagram.since)
    BY <1>1, <1>6, Zenon DEF Router!Decide, DatagramInv
  <2>2. routes[datagram.target] \in Router!Decisions
    BY <1>1, <2>1, RouterAssumption DEF RouterTyped, Router!WellFormed
  <2>3. CASE routes[datagram.target] = "block"
    <3>1. datagram' = Router!NoDatagram /\ assoc' = "open"
      BY <1>6, <2>3, Zenon DEF Router!Decide
    <3> QED
      BY <1>1, <1>3, <2>1, <3>1, Zenon DEF DatagramInv, CommandInv, SessionsInv
  <2>4. CASE routes[datagram.target] # "block"
    <3>1. datagram' = [datagram EXCEPT !.decision = routes[datagram.target]] /\ assoc' = "loop"
      BY <1>6, <2>4, Zenon DEF Router!Decide
    <3>2. /\ datagram' \in [target : Targets \cup {"none"}, decision : Router!Decisions \cup {"none"}, since : Span]
          /\ datagram'.target = datagram.target /\ datagram'.since = datagram.since
          /\ datagram'.decision = routes[datagram.target]
      BY <1>1, <2>2, <3>1, Zenon DEF RouterTyped
    <3>3. DatagramInv'
      BY <1>2, <2>1, <2>2, <2>4, <3>2, Zenon DEF DatagramInv, InForce, Router!Decisions
    <3> QED
      BY <1>1, <2>1, <3>1, <3>2, <3>3, Zenon DEF SessionsInv, CommandInv
  <2> QED
    BY <2>3, <2>4, Zenon
<1>7. CASE Router!Dispatch
  <2>1. /\ assoc = "loop" /\ sentOut' = sentOut /\ datagram' = Router!NoDatagram
        /\ datagram.decision \in datagram.since.to \cap (Tags \cup {"direct"})
        /\ Router!Registered \subseteq datagram.since.at
    BY <1>1, <1>7, Zenon DEF Router!Dispatch, DatagramInv, InForce
  <2>2. ASSUME SessionsInv', CommandInv', assoc' # "loop"
        PROVE  /\ datagram' \in [target : Targets \cup {"none"}, decision : Router!Decisions \cup {"none"}, since : Span]
               /\ DatagramInv' /\ SessionsInv' /\ CommandInv' /\ sentOut' = sentOut
    BY <1>3, <2>1, <2>2, Zenon DEF DatagramInv
  <2>3. CASE datagram.decision = "direct"
    <3>1. Router!Lookup(<<datagram.decision, datagram.target>>, "direct")
      BY <1>7, <2>3, Zenon DEF Router!Dispatch, Router!Direct, Router!Key
    <3>2. Router!Follows(datagram.decision, "direct", datagram.since)
      BY <2>1, <2>3, Zenon DEF Router!Follows, Router!Direct
    <3> QED
      BY <2>1, <2>2, <2>3, <3>1, <3>2, LookupKeeps, Zenon DEF Goal
  <2>4. CASE datagram.decision # "direct" /\ uplinks[datagram.decision] # "none"
    <3>1. Router!Lookup(<<datagram.decision, uplinks[datagram.decision]>>, uplinks[datagram.decision])
      BY <1>7, <2>4, Zenon DEF Router!Dispatch, Router!Direct, Router!NoAddr, Router!Key
    <3>2. /\ <<datagram.decision, uplinks[datagram.decision]>> \in datagram.since.at
          /\ uplinks[datagram.decision] \in Hops
      BY <1>1, <2>1, <2>4, RegisteredTyped, Zenon DEF RouterTyped
    <3>3. Router!Follows(datagram.decision, uplinks[datagram.decision], datagram.since)
      BY <2>1, <3>2, Zenon DEF Router!Follows
    <3> QED
      BY <2>1, <2>2, <2>4, <3>1, <3>2, <3>3, LookupKeeps, Zenon DEF Goal
  <2>5. CASE datagram.decision # "direct" /\ uplinks[datagram.decision] = "none"
    <3>1. assoc' = "ended" /\ sessions' = sessions
      BY <1>7, <2>5, Zenon DEF Router!Dispatch, Router!Direct, Router!NoAddr
    <3> QED
      BY <1>1, <2>2, <3>1, Zenon DEF SessionsInv, CommandInv
  <2> QED
    BY <2>3, <2>4, <2>5, Zenon
<1>8. CASE Router!Send
  <2>1. SessionsInv' /\ assoc' \notin {"loop", "send"} /\ datagram' = datagram /\ sentOut' = sentOut
    BY <1>8, SendKeeps, Zenon
  <2> QED
    BY <1>1, <2>1, Zenon DEF RouterTyped, DatagramInv, CommandInv
<1> QED
  BY <1>4, <1>5, <1>6, <1>7, <1>8, Zenon

\* A session's own steps; it takes what it sends from its queue.
LEMMA SessionKeeps ==
  ASSUME RouterInv, NEW k \in DOMAIN sessions,
         \/ Router!SessionSends(k) \/ Router!SessionFails(k)
         \/ \E ok \in BOOLEAN : Router!SessionStarts(k, ok)
  PROVE  SessionsInv' /\ CommandInv' /\ DeliveredInv' /\ assoc' = assoc /\ datagram' = datagram
<1>1. SessionsInv /\ CommandInv /\ DeliveredInv /\ SessionOk(k, sessions[k])
  BY Zenon DEF RouterInv, SessionsInv
<1>2. ASSUME NEW s, SessionOk(k, s), s.via = sessions[k].via, Router!Set(k, s), UNCHANGED <<assoc, datagram, command>>
      PROVE  SessionsInv' /\ CommandInv'
  <2>1. /\ SessionsInv' /\ DOMAIN sessions' = DOMAIN sessions
        /\ \A l \in DOMAIN sessions : sessions'[l].via = sessions[l].via
    BY <1>1, <1>2, SetKeeps, Zenon
  <2> QED
    BY <1>1, <1>2, <2>1, Zenon DEF CommandInv
<1> DEFINE s == sessions[k]
<1>3. s \in Session /\ s.queue \in Queue
  BY <1>1, Zenon DEF SessionOk, Session
<1>4. CASE Router!SessionFails(k)
  <2> DEFINE n == [s EXCEPT !.alive = FALSE]
  <2>1. Router!Set(k, n) /\ sentOut' = sentOut /\ UNCHANGED <<assoc, datagram, command>>
    BY <1>4, Zenon DEF Router!SessionFails
  <2> HIDE DEF s
  <2>2. n \in Session /\ n.via = s.via /\ n.queue = s.queue
    BY <1>3, SessionFailed, Zenon
  <2> HIDE DEF n
  <2>3. SessionOk(k, n)
    BY <1>1, <2>2, Zenon DEF SessionOk, s
  <2> QED
    BY <1>1, <1>2, <2>1, <2>2, <2>3, Zenon DEF DeliveredInv, s
<1>5. ASSUME NEW ok \in BOOLEAN, Router!SessionStarts(k, ok)
      PROVE  SessionsInv' /\ CommandInv' /\ DeliveredInv' /\ assoc' = assoc /\ datagram' = datagram
  <2> DEFINE n == [s EXCEPT !.ready = ok, !.alive = ok]
  <2>1. Router!Set(k, n) /\ sentOut' = sentOut /\ UNCHANGED <<assoc, datagram, command>>
    BY <1>5, Zenon DEF Router!SessionStarts
  <2> HIDE DEF s
  <2>2. n \in Session /\ n.via = s.via /\ n.queue = s.queue
    BY <1>3, StateChanged, Zenon
  <2> HIDE DEF n
  <2>3. SessionOk(k, n)
    BY <1>1, <2>2, Zenon DEF SessionOk, s
  <2> QED
    BY <1>1, <1>2, <2>1, <2>2, <2>3, Zenon DEF DeliveredInv, s
<1>6. CASE Router!SessionSends(k)
  <2> DEFINE n == [s EXCEPT !.queue = Tail(@)]
             d == Head(s.queue)
  <2>1. /\ Router!Set(k, n) /\ UNCHANGED <<assoc, datagram, command>> /\ s.queue # <<>>
        /\ sentOut' = sentOut \cup {[to |-> d.to, at |-> s.via, since |-> d.since]}
    BY <1>6, Zenon DEF Router!SessionSends
  <2> HIDE DEF s
  <2>2. n \in Session /\ n.via = s.via /\ n.queue = Tail(s.queue)
    <3>1. Tail(s.queue) \in Queue
      BY <1>3, <2>1 DEF Queue
    <3> QED
      BY <1>3, <3>1, QueueChanged, Zenon
  <2>3. /\ Len(s.queue) \in Nat \ {0} /\ d = s.queue[1]
        /\ Len(Tail(s.queue)) = Len(s.queue) - 1
        /\ \A i \in 1..Len(Tail(s.queue)) : Tail(s.queue)[i] = s.queue[i + 1]
    BY <1>3, <2>1 DEF Queue
  <2> HIDE DEF n, d
  <2>4. \A i \in 1..Len(s.queue) : Router!Follows(s.queue[i].to, s.via, s.queue[i].since)
    BY <1>1, Zenon DEF SessionOk, s
  <2>5. \A i \in 1..Len(n.queue) : Router!Follows(n.queue[i].to, n.via, n.queue[i].since)
    <3> SUFFICES ASSUME NEW i \in 1..Len(n.queue)
                 PROVE  Router!Follows(n.queue[i].to, n.via, n.queue[i].since)
      BY Zenon
    <3>1. i + 1 \in 1..Len(s.queue) /\ n.queue[i] = s.queue[i + 1]
      BY <2>2, <2>3
    <3> QED
      BY <2>2, <2>4, <3>1, Zenon
  <2>6. SessionOk(k, n)
    BY <1>1, <2>2, <2>5, Zenon DEF SessionOk, s
  <2>7. Router!Follows(d.to, s.via, d.since)
    BY <2>3, <2>4
  <2>8. DeliveredInv'
    BY <1>1, <2>1, <2>7 DEF DeliveredInv
  <2> QED
    BY <1>2, <2>1, <2>2, <2>6, <2>8, Zenon DEF s
<1> QED
  BY <1>4, <1>5, <1>6, Zenon

LEMMA UdpKeeps ==
  ASSUME RouterInv, Router!UdpStep PROVE RouterInv'
<1>1. UNCHANGED <<routes, uplinks, client, target, decision, via, since>>
  BY Zenon DEF Router!UdpStep, Router!tcpVars
<1>2. /\ datagram' \in [target : Targets \cup {"none"}, decision : Router!Decisions \cup {"none"}, since : Span]
      /\ DatagramInv' /\ SessionsInv' /\ CommandInv' /\ DeliveredInv'
  <2>1. CASE \/ \E ok \in BOOLEAN : Router!Associate(ok)
             \/ \E t \in Targets : Router!Receive(t)
             \/ Router!Decide \/ Router!Dispatch \/ Router!Send \/ Router!ControlClosed
    BY <1>1, <2>1, LoopKeeps, Zenon DEF RouterInv, DeliveredInv
  <2>2. ASSUME NEW k \in DOMAIN sessions,
               \/ Router!SessionSends(k) \/ Router!SessionFails(k)
               \/ \E ok \in BOOLEAN : Router!SessionStarts(k, ok)
        PROVE  /\ datagram' \in [target : Targets \cup {"none"}, decision : Router!Decisions \cup {"none"}, since : Span]
               /\ DatagramInv' /\ SessionsInv' /\ CommandInv' /\ DeliveredInv'
    <3>1. SessionsInv' /\ CommandInv' /\ DeliveredInv' /\ assoc' = assoc /\ datagram' = datagram
      BY <2>2, SessionKeeps, Zenon
    <3> QED
      BY <1>1, <3>1, Zenon DEF RouterInv, RouterTyped, DatagramInv, InForce, Router!Registered
  <2> QED
    BY <2>1, <2>2, Zenon DEF Router!UdpStep
<1>3. RouterTyped'
  BY <1>1, <1>2, Zenon DEF RouterInv, RouterTyped
<1>4. \A c \in Clients : ClientInv(c)'
  BY <1>1, Zenon DEF RouterInv, ClientInv, InForce, Router!Registered, Router!Follows
<1> QED
  BY <1>2, <1>3, <1>4, Zenon DEF RouterInv

LEMMA RouterNext ==
  RouterInv /\ [Router!Next]_(Router!routerVars) => RouterInv'
<1> SUFFICES ASSUME RouterInv, [Router!Next]_(Router!routerVars) PROVE RouterInv'
  BY Zenon
<1>1. CASE Router!TcpStep
  BY <1>1, TcpKeeps, Zenon
<1>2. CASE Router!UdpStep
  BY <1>2, UdpKeeps, Zenon
<1>3. CASE Router!AdminStep
  <2>1. routes \in Tables /\ uplinks \in [Tags -> Hops]
    BY Zenon DEF RouterInv, RouterTyped
  <2>2. PICK table \in Tables, ups \in [Tags -> Hops] : Router!Update(table, ups)
    <3>1. \A g \in Tags : \A a \in Hops : [uplinks EXCEPT ![g] = a] \in [Tags -> Hops]
      BY <2>1, Zenon
    <3>2. Router!NoAddr \in Hops /\ Addrs \subseteq Hops /\ Hops = Addrs \cup {Router!NoAddr}
      BY Zenon DEF Hops, Router!NoAddr
    <3>3. CASE \E new \in Tables : Router!ReplaceRoutes(new)
      BY <2>1, <3>3, Zenon DEF Router!ReplaceRoutes
    <3>4. ASSUME NEW g \in Tags, Router!RemoveUpstream(g) \/ \E a \in Addrs : Router!SetUpstream(g, a)
          PROVE  \E table \in Tables, ups \in [Tags -> Hops] : Router!Update(table, ups)
      <4>1. PICK a \in Hops : Router!Update(routes, [uplinks EXCEPT ![g] = a])
        BY <3>2, <3>4, Zenon DEF Router!RemoveUpstream, Router!SetUpstream
      <4> QED
        BY <2>1, <3>1, <4>1, Zenon
    <3>5. CASE \E ups \in [Tags -> Addrs \cup {Router!NoAddr}] : Router!ReplaceUpstreams(ups)
      BY <2>1, <3>2, <3>5, Zenon DEF Router!ReplaceUpstreams
    <3> QED
      BY <1>3, <3>3, <3>4, <3>5, Zenon DEF Router!AdminStep
  <2> QED
    BY <2>2, UpdateKeeps, Zenon
<1>4. CASE UNCHANGED Router!routerVars
  <2>1. UNCHANGED <<routes, uplinks, client, target, decision, via, since, assoc, datagram,
                    command, sessions, sentOut>>
    BY <1>4, Zenon DEF Router!routerVars
  <2>2. RouterTyped' /\ DatagramInv' /\ SessionsInv' /\ CommandInv' /\ DeliveredInv'
    BY <2>1 DEF RouterInv, RouterTyped, DatagramInv, InForce, SessionsInv, CommandInv, DeliveredInv, Router!Registered
  <2>3. \A c \in Clients : ClientInv(c)'
    BY <2>1, Zenon DEF RouterInv, ClientInv, InForce, Router!Registered, Router!Follows
  <2> QED
    BY <2>2, <2>3, Zenon DEF RouterInv
<1> QED
  BY <1>1, <1>2, <1>3, <1>4, Zenon DEF Router!Next

LEMMA RouterInvSays == RouterInv => FlowsFollowRoutes
BY Zenon DEF RouterInv, ClientInv, DeliveredInv, FlowsFollowRoutes, Router!FlowsFollowRoutes

\* Whatever an embedding application does to the routes and the upstreams
\* while flows run, a TCP relay uses a decision and an upstream that were in
\* force since its request, and a datagram that is sent out uses ones that
\* were in force since it was received, the upstream of a kept session
\* included (route_client, handle_udp_associate).
THEOREM FlowsDoFollowRoutes == Router!Spec => []FlowsFollowRoutes
BY RouterInit, RouterNext, RouterInvSays, PTL DEF Router!Spec

----------------------------------------------------------------------------
\* The start of a process (Startup).

\* The tags that need an outbound, and those that still wait for one.
Tagged == IF Start!Routed THEN file.tags ELSE {"client"}
Awaiting == IF step \in {"resolve", "convert"} THEN todo \cup {goal} ELSE todo

\* Nothing is lost between the tags, the outbounds and their tasks.
SetUp ==
    /\ step = "start" => upstreams = <<>> /\ listening = {} /\ exited = {} /\ todo = {} /\ visited = {}
    /\ step \in {"outbounds", "resolve", "convert", "running"} =>
          DOMAIN upstreams \cup Awaiting = Tagged /\ listening \cup exited = DOMAIN upstreams
    /\ step = "running" => todo = {}

\* A way over n groups from one name to another.
Way(n, p, from, to) ==
    /\ p = [i \in 1..(n + 1) |-> p[i]] /\ p[1] = from /\ p[n + 1] = to
    /\ \A i \in 1..n : p[i] \in Names /\ Start!Leads(Start!Entry(p[i]), p[i + 1])

\* The groups visited are a way from the tag being resolved to the cursor.
Trail ==
    Start!Routed /\ step \in {"resolve", "convert"} =>
        /\ visited \in SUBSET Names
        /\ cursor # "none" => \E p : Way(Cardinality(visited), p, goal, cursor)

\* The outbounds so far are at the ends of their chains.
Resolved ==
    Start!Routed /\ step \in {"outbounds", "resolve", "convert", "running"} =>
        \A t \in DOMAIN upstreams : \E p \in Start!Chains(t) : p[Len(p)] = upstreams[t]

StartInv == file \in Files /\ SetUp /\ Trail /\ Resolved

\* The places of a way of n steps.
LEMMA WayPlaces ==
  ASSUME NEW n \in Nat, NEW m \in Nat
  PROVE  /\ n <= m => n + 1 \in Nat /\ n + 1 \in 1..(m + 1)
         /\ (n + 1) - 1 = n
         /\ \A i \in 1..(n + 1) : i # n + 1 => i \in 1..n
  OBVIOUS

INSTANCE FiniteSetTheorems

\* Cardinality has one meaning in all modules.
LEMMA StartCardinality ==
  ASSUME NEW S PROVE Start!Cardinality(S) = Cardinality(S)
  BY Zenon DEF Cardinality, Start!Cardinality, IsFiniteSet, Start!IsFiniteSet

\* What the entries of a file are.
LEMMA FileTyped ==
  ASSUME file \in Files
  PROVE  /\ IsFiniteSet(Names) /\ "none" \notin Names
         /\ file.format \in {"mihomo", "xray", "sing-box"}
         /\ \A n \in Names : Start!Entry(n) \in Start!AnEntry
         /\ \A n : Start!Entry(n).kind # "absent" => n \in Names
  <1>1. Start!WellFormed
    BY StartAssumption, Zenon
  <1>2. IsFiniteSet(Names) /\ "none" \notin Names
    BY <1>1, Zenon DEF Start!WellFormed, IsFiniteSet, Start!IsFiniteSet
  <1>3. file.format \in {"mihomo", "xray", "sing-box"} /\ file.entries \in [Names -> Start!AnEntry]
    BY <1>1, Zenon DEF Start!WellFormed
  <1>4. \A n \in Names : Start!Entry(n) \in Start!AnEntry
    BY <1>3, Zenon DEF Start!Entry
  <1>5. \A n : Start!Entry(n).kind # "absent" => n \in Names
    BY Zenon DEF Start!Entry
  <1> QED
    BY <1>2, <1>3, <1>4, <1>5, Zenon

\* A group's candidate is where the group leads.
LEMMA CandidateLeads ==
  ASSUME NEW e \in Start!AnEntry, e.kind \in Start!Groups, file.format \in {"mihomo", "sing-box"},
         Start!Candidate(e) # "none"
  PROVE  Start!Leads(e, Start!Candidate(e))
  <1>1. e.kind \in {"select", "auto"} /\ e.to \in Seq(STRING)
    BY Zenon DEF Start!Groups, Start!AnEntry
  <1>2. Start!Only(e) # "none" => e.to = <<Start!Only(e)>>
    BY <1>1 DEF Start!Only
  <1>3. CASE file.format = "mihomo"
    BY <1>1, <1>2, <1>3, Zenon
    DEF Start!Candidate, Start!StaticTarget, Start!GroupOk, Start!Leads, Start!Chosen
  <1>4. CASE file.format = "sing-box"
    BY <1>1, <1>2, <1>4, Zenon
    DEF Start!Candidate, Start!SelectedTarget, Start!UrlTestTarget, Start!Leads, Start!Chosen
  <1> QED
    BY <1>3, <1>4, Zenon

\* A way that ends at an outbound is a chain.
LEMMA WayIsChain ==
  ASSUME file \in Files, visited \in SUBSET Names, NEW p, Way(Cardinality(visited), p, goal, cursor),
         cursor = "direct" \/ Start!Entry(cursor).kind = "proxy"
  PROVE  p \in Start!Chains(goal) /\ p[Len(p)] = cursor
  <1>1. IsFiniteSet(Names) /\ (cursor # "direct" => cursor \in Names)
    BY FileTyped, Zenon
  <1>2. PICK n \in Nat : n = Cardinality(visited) /\ n <= Cardinality(Names)
    BY <1>1, FS_Subset, FS_CardinalityType, Zenon
  <1>3. PICK k \in Nat : k = n + 1 /\ k \in 1..(Cardinality(Names) + 1)
    BY <1>1, <1>2, WayPlaces, FS_CardinalityType, Zenon
  <1>4. p \in [1..k -> Names \cup {"direct"}] /\ p[1] = goal /\ p[k] = cursor
    <2>1. p = [i \in 1..k |-> p[i]] /\ p[1] = goal /\ p[k] = cursor
      BY <1>2, <1>3, Zenon DEF Way
    <2>2. ASSUME NEW i \in 1..k PROVE p[i] \in Names \cup {"direct"}
      <3>1. CASE i = k
        BY <1>1, <2>1, <3>1, Zenon
      <3>2. CASE i # k
        <4>1. i \in 1..n
          BY <1>2, <1>3, <3>2, WayPlaces, Zenon
        <4> QED
          BY <1>2, <4>1, Zenon DEF Way
      <3> QED
        BY <3>1, <3>2, Zenon
    <2> QED
      BY <2>1, <2>2, Zenon
  <1>5. Len(p) = k
    BY <1>4
  <1>6. \A i \in 1..(Len(p) - 1) : Start!Leads(Start!Entry(p[i]), p[i + 1])
    <2>1. Len(p) - 1 = n
      BY <1>2, <1>3, <1>5, WayPlaces, Zenon
    <2> QED
      BY <1>2, <2>1, Zenon DEF Way
  <1>7. p \in UNION {[1..j -> Names \cup {"direct"}] : j \in 1..(Start!Cardinality(Names) + 1)}
    <2>1. k \in 1..(Start!Cardinality(Names) + 1)
      BY <1>3, StartCardinality, Zenon
    <2> QED
      BY <1>4, <2>1, Zenon
  <1> QED
    BY <1>4, <1>5, <1>6, <1>7, Zenon DEF Start!Chains

\* A way goes on to the candidate of the group it has come to.
LEMMA WayGoesOn ==
  ASSUME NEW n \in Nat, NEW p, NEW from, NEW to \in Names, NEW next, Way(n, p, from, to),
         Start!Leads(Start!Entry(to), next)
  PROVE  \E q : Way(n + 1, q, from, next)
  <1>0. PICK q : q = [i \in 1..(n + 2) |-> IF i = n + 2 THEN next ELSE p[i]]
    BY Zenon
  <1>1. /\ q[1] = from /\ q[(n + 1) + 1] = next
        /\ q = [i \in 1..((n + 1) + 1) |-> q[i]]
    BY <1>0 DEF Way
  <1>2. ASSUME NEW i \in 1..(n + 1)
        PROVE  q[i] \in Names /\ Start!Leads(Start!Entry(q[i]), q[i + 1])
    <2>1. CASE i = n + 1
      <3>1. q[i] = p[n + 1] /\ q[i + 1] = next
        BY <1>0, <2>1
      <3> QED
        BY <3>1, Zenon DEF Way
    <2>2. CASE i # n + 1
      <3>1. i \in 1..n /\ q[i] = p[i] /\ q[i + 1] = p[i + 1]
        BY <1>0, <2>2
      <3> QED
        BY <3>1, Zenon DEF Way
    <2> QED
      BY <2>1, <2>2, Zenon
  <1> QED
    BY <1>1, <1>2, Zenon DEF Way

\* A step that leaves the file leaves what it says.
LEMMA FileKept ==
  ASSUME file' = file
  PROVE  /\ Start!Routed' <=> Start!Routed
         /\ Tagged' = Tagged
         /\ \A t : Start!Chains(t)' = Start!Chains(t)
         /\ \A n, p, from, to : Way(n, p, from, to)' <=> Way(n, p, from, to)
  <1>1. (Start!Routed' <=> Start!Routed) /\ Tagged' = Tagged
    BY Zenon DEF Start!Routed, Start!Server, Start!Present, Start!Entry, Tagged
  <1>2. \A e, name : Start!Leads(e, name)' <=> Start!Leads(e, name)
    BY Zenon DEF Start!Leads, Start!Chosen
  <1>3. \A name : Start!Entry(name)' = Start!Entry(name)
    BY Zenon DEF Start!Entry
  <1>4. ASSUME NEW t PROVE Start!Chains(t)' = Start!Chains(t)
    <2>1. ASSUME NEW p PROVE p \in Start!Chains(t)' <=> p \in Start!Chains(t)
      BY <1>2, <1>3, Zenon DEF Start!Chains
    <2> QED
      BY <2>1, Zenon
  <1>5. ASSUME NEW n, NEW p, NEW from, NEW to PROVE Way(n, p, from, to)' <=> Way(n, p, from, to)
    BY <1>2, <1>3, Zenon DEF Way
  <1> QED
    BY <1>1, <1>4, <1>5, Zenon

\* A step that leaves the outbounds and their tags keeps them resolved.
LEMMA ResolvedKept ==
  ASSUME Resolved, UNCHANGED <<file, upstreams>>,
         step' \in {"outbounds", "resolve", "convert", "running"} =>
            step \in {"outbounds", "resolve", "convert", "running"}
  PROVE  Resolved'
  BY FileKept, Zenon DEF Resolved

\* The first tags.
LEMMA RunFileKeeps ==
  ASSUME StartInv, Start!RunFileConfig PROVE StartInv'
  <1>0. /\ file' = file /\ upstreams' = upstreams /\ listening' = {} /\ listening = {} /\ exited' = {}
        /\ step = "start" /\ visited' = {} /\ upstreams = <<>> /\ todo = {}
    BY Zenon DEF StartInv, SetUp, Start!RunFileConfig, Start!Stop
  <1>1. DOMAIN upstreams = {} /\ DOMAIN upstreams' = {}
    BY <1>0
  <1>2. SetUp'
    <2>1. CASE Start!Server
      BY <1>0, <2>1, Zenon DEF Start!RunFileConfig, Start!Stop, Start!Routed, SetUp
    <2>2. CASE Start!Routed
      <3>1. \/ step' = "outbounds" /\ todo' = file.tags
            \/ step' = "refused"
        BY <2>2, Zenon DEF Start!RunFileConfig, Start!Routed
      <3>2. Tagged' = file.tags
        BY <1>0, <2>2, FileKept, Zenon DEF Tagged
      <3> QED
        BY <1>0, <1>1, <3>1, <3>2, Zenon DEF SetUp, Awaiting
    <2>3. CASE ~Start!Server /\ ~Start!Routed
      <3>1. step' \in {"resolve", "refused"} /\ goal' = "client" /\ todo' = todo
        BY <2>3, Zenon DEF Start!RunFileConfig
      <3>2. Tagged' = {"client"}
        BY <1>0, <2>3, FileKept, Zenon DEF Tagged
      <3> QED
        BY <1>0, <1>1, <3>1, <3>2, Zenon DEF SetUp, Awaiting
    <2> QED
      BY <2>1, <2>2, <2>3, Zenon
  <1>3. Trail'
    <2>1. ASSUME Start!Routed' PROVE step' \notin {"resolve", "convert"}
      BY <1>0, <2>1, FileKept, Zenon DEF Start!RunFileConfig, Start!Routed
    <2> QED
      BY <2>1, Zenon DEF Trail
  <1>4. Resolved'
    BY <1>1, Zenon DEF Resolved
  <1> QED
    BY <1>0, <1>2, <1>3, <1>4, Zenon DEF StartInv

\* The next tag has come no way yet.
LEMMA NextTagKeeps ==
  ASSUME StartInv, Start!NextOutbound PROVE StartInv'
  <1>1. PICK tag \in todo : /\ goal' = tag /\ cursor' = tag /\ todo' = todo \ {tag}
    <2>1. ASSUME NEW S, S # {} PROVE (CHOOSE t \in S : TRUE) \in S
      BY <2>1, Zenon
    <2> QED
      BY <2>1, Zenon DEF Start!NextOutbound
  <1>2. /\ visited' = {} /\ step = "outbounds" /\ step' = "resolve"
        /\ UNCHANGED <<file, upstreams, listening, exited>>
    BY Zenon DEF Start!NextOutbound
  <1>3. SetUp'
    <2>1. Tagged' = Tagged /\ DOMAIN upstreams \cup todo = Tagged /\ listening \cup exited = DOMAIN upstreams
      BY <1>2, FileKept, Zenon DEF StartInv, SetUp, Awaiting
    <2> QED
      BY <1>1, <1>2, <2>1, Zenon DEF SetUp, Awaiting
  <1>4. Trail'
    <2>1. Cardinality(visited') = 0
      BY <1>2, FS_EmptySet, Zenon
    <2>2. PICK p : p = [i \in 1..1 |-> goal']
      BY Zenon
    <2>3. /\ p = [i \in 1..(0 + 1) |-> p[i]] /\ p[1] = goal' /\ p[0 + 1] = cursor'
          /\ 1..0 = {}
      BY <1>1, <2>2
    <2>4. Way(0, p, goal', cursor')
      BY <2>3, Zenon DEF Way
    <2>5. \E q : Way(Cardinality(visited), q, goal, cursor)'
      BY <1>2, <2>1, <2>4, FileKept, Zenon
    <2> QED
      BY <1>2, <2>5, Zenon DEF Trail
  <1> QED
    BY <1>2, <1>3, <1>4, ResolvedKept, Zenon DEF StartInv

\* A group is followed, an outbound found, or neither.
LEMMA ResolveKeeps ==
  ASSUME StartInv, Start!ResolveStep PROVE StartInv'
  <1>0. step = "resolve" /\ UNCHANGED <<file, goal, todo, upstreams, exited>>
    BY Zenon DEF Start!ResolveStep
  <1>1. Tagged' = Tagged /\ (Start!Routed' <=> Start!Routed)
    BY <1>0, FileKept, Zenon
  <1>2. CASE Start!Fails
    BY <1>0, <1>2, Zenon DEF Start!Fails, StartInv, SetUp, Trail, Resolved
  <1>3. CASE step' = "convert" /\ UNCHANGED <<cursor, visited, listening>>
    <2>1. SetUp'
      BY <1>0, <1>1, <1>3, Zenon DEF StartInv, SetUp, Awaiting
    <2>3. Trail'
      BY <1>0, <1>1, <1>3, FileKept, Zenon DEF StartInv, Trail
    <2> QED
      BY <1>0, <1>3, <2>1, <2>3, ResolvedKept, Zenon DEF StartInv
  <1>4. CASE /\ Start!Follow /\ Start!Entry(cursor).kind \notin Start!Plain \cup {"absent"}
             /\ file.format # "xray" /\ Start!MayFollow(cursor)
    <2>1. /\ cursor' = Start!Candidate(Start!Entry(cursor)) /\ visited' = visited \cup {cursor}
          /\ UNCHANGED <<step, listening>> /\ cursor \notin visited
      BY <1>4, Zenon DEF Start!Follow, Start!MayFollow
    <2>2. SetUp'
      BY <1>0, <1>1, <2>1, Zenon DEF StartInv, SetUp, Awaiting
    <2>3. /\ cursor \in Names /\ cursor # "none" /\ Start!Entry(cursor) \in Start!AnEntry
          /\ IsFiniteSet(Names) /\ file.format \in {"mihomo", "sing-box"}
      BY <1>4, FileTyped, Zenon DEF StartInv
    <2>4. Start!Entry(cursor).kind \in Start!Groups
      BY <1>4, <2>3, Zenon DEF Start!AnEntry
    <2>5. Trail'
      <3> SUFFICES ASSUME Start!Routed
                   PROVE  /\ visited' \in SUBSET Names
                          /\ cursor' # "none" => \E p : Way(Cardinality(visited), p, goal, cursor)'
        BY <1>1, Zenon DEF Trail
      <3>1. visited \in SUBSET Names /\ \E p : Way(Cardinality(visited), p, goal, cursor)
        BY <1>0, <2>3, Zenon DEF StartInv, Trail
      <3>2. IsFiniteSet(visited) /\ Cardinality(visited) \in Nat
        BY <2>3, <3>1, FS_Subset, FS_CardinalityType, Zenon
      <3>3. Cardinality(visited') = Cardinality(visited) + 1
        BY <2>1, <3>2, FS_AddElement, Zenon
      <3>4. ASSUME cursor' # "none" PROVE \E q : Way(Cardinality(visited) + 1, q, goal, cursor')
        <4>1. Start!Leads(Start!Entry(cursor), cursor')
          BY <2>1, <2>3, <2>4, <3>4, CandidateLeads, Zenon
        <4> QED
          BY <1>0, <2>3, <3>1, <3>2, <4>1, WayGoesOn, Zenon
      <3>5. visited' \in SUBSET Names
        BY <2>1, <2>3, <3>1, Zenon
      <3> QED
        BY <1>0, <3>3, <3>4, <3>5, FileKept, Zenon
    <2> QED
      BY <1>0, <2>1, <2>2, <2>5, ResolvedKept, Zenon DEF StartInv
  <1> QED
    BY <1>2, <1>3, <1>4, Zenon DEF Start!ResolveStep, Start!ResolvesTo, Start!Direct

\* An outbound is started at the end of its tag's chain, or start-up fails.
LEMMA ConvertKeeps ==
  ASSUME StartInv, Start!Convert PROVE StartInv'
  <1>0. step = "convert" /\ UNCHANGED <<file, goal, todo, exited>>
    BY Zenon DEF Start!Convert
  <1>1. Tagged' = Tagged /\ (Start!Routed' <=> Start!Routed) /\ \A t : Start!Chains(t)' = Start!Chains(t)
    BY <1>0, FileKept, Zenon
  <1>2. CASE Start!Fails
    BY <1>0, <1>2, Zenon DEF Start!Fails, StartInv, SetUp, Trail, Resolved
  <1>3. CASE ~Start!Fails
    <2>1. /\ cursor = "direct" \/ Start!Entry(cursor).kind = "proxy"
          /\ upstreams' = [t \in DOMAIN upstreams \cup {goal} |-> IF t = goal THEN cursor ELSE upstreams[t]]
          /\ listening' = listening \cup {goal} /\ step' = "outbounds"
      BY <1>3, Zenon DEF Start!Convert
    <2>2. DOMAIN upstreams' = DOMAIN upstreams \cup {goal}
      BY <2>1, Zenon
    <2>3. SetUp'
      BY <1>0, <1>1, <2>1, <2>2, Zenon DEF StartInv, SetUp, Awaiting
    <2>4. Trail'
      BY <2>1, Zenon DEF Trail
    <2>5. Resolved'
      <3> SUFFICES ASSUME Start!Routed, NEW t \in DOMAIN upstreams \cup {goal}
                   PROVE  \E p \in Start!Chains(t) : p[Len(p)] = upstreams'[t]
        BY <1>1, <2>2, Zenon DEF Resolved
      <3>1. CASE t = goal
        <4>1. cursor # "none"
          BY <2>1, FileTyped, Zenon DEF StartInv, Start!Entry
        <4>2. visited \in SUBSET Names /\ \E p : Way(Cardinality(visited), p, goal, cursor)
          BY <1>0, <4>1, Zenon DEF StartInv, Trail
        <4>3. upstreams'[t] = cursor
          BY <2>1, <3>1, Zenon
        <4> QED
          BY <2>1, <3>1, <4>2, <4>3, WayIsChain, Zenon DEF StartInv
      <3>2. CASE t # goal
        BY <1>0, <2>1, <3>2, Zenon DEF StartInv, Resolved
      <3> QED
        BY <3>1, <3>2, Zenon
    <2> QED
      BY <1>0, <2>3, <2>4, <2>5, Zenon DEF StartInv
  <1> QED
    BY <1>2, <1>3, Zenon

\* The initial states satisfy the invariant.
LEMMA StartInit == Start!Init => StartInv
  BY Zenon DEF Start!Init, StartInv, SetUp, Trail, Resolved

\* Every step preserves it.
LEMMA StartNext == StartInv /\ [Start!Next]_(Start!startVars) => StartInv'
  <1> SUFFICES ASSUME StartInv PROVE [Start!Next]_(Start!startVars) => StartInv'
    BY Zenon
  <1>1. ASSUME NEW outcome \in {"stopped", "refused"}, Start!Stop(outcome) PROVE StartInv'
    BY <1>1, Zenon DEF Start!Stop, StartInv, SetUp, Trail, Resolved
  <1>2. Start!BindFails \/ Start!TunRefused \/ Start!StackEnds \/ Start!ListenerFails \/ Start!TunEnds => StartInv'
    BY <1>1, Zenon
    DEF Start!BindFails, Start!TunRefused, Start!StackEnds, Start!ListenerFails, Start!TunEnds
  <1>3. Start!RunStack => StartInv'
    <2> SUFFICES ASSUME Start!RunStack PROVE StartInv'
      BY Zenon
    <2>1. /\ step = "outbounds" /\ todo = {} /\ step' = "running"
          /\ UNCHANGED <<file, goal, cursor, visited, todo, upstreams, listening, exited>>
      BY Zenon DEF Start!RunStack
    <2>2. SetUp'
      BY <2>1, FileKept, Zenon DEF StartInv, SetUp, Awaiting
    <2> QED
      BY <2>1, <2>2, ResolvedKept, Zenon DEF StartInv, Trail
  <1>4. ASSUME UNCHANGED <<file, step, goal, cursor, visited, todo, upstreams>>,
               listening' \cup exited' = listening \cup exited,
               step = "start" => UNCHANGED <<listening, exited>>
        PROVE  StartInv'
    <2>1. SetUp'
      BY <1>4, FileKept, Zenon DEF StartInv, SetUp, Awaiting
    <2>3. Trail'
      BY <1>4, FileKept, Zenon DEF StartInv, Trail
    <2> QED
      BY <1>4, <2>1, <2>3, ResolvedKept, Zenon DEF StartInv
  <1>5. ASSUME NEW t \in listening, Start!OutboundExits(t) PROVE StartInv'
    <2>1. step # "start"
      BY Zenon DEF StartInv, SetUp
    <2>2. /\ UNCHANGED <<file, step, goal, cursor, visited, todo, upstreams>>
          /\ listening' \cup exited' = listening \cup exited
      BY <1>5, Zenon DEF Start!OutboundExits
    <2> QED
      BY <1>4, <2>1, <2>2, Zenon
  <1>6. UNCHANGED Start!startVars => StartInv'
    BY <1>4, Zenon DEF Start!startVars
  <1> QED
    BY <1>2, <1>3, <1>5, <1>6, RunFileKeeps, NextTagKeeps, ResolveKeeps, ConvertKeeps, Zenon
    DEF Start!Next, Start!StartStep

\* The invariant says what is promised.
LEMMA StartInvSays == StartInv => StackComplete
  <1> SUFFICES ASSUME StartInv, step = "running" PROVE StackComplete
    BY Zenon DEF StackComplete, Start!StackComplete
  <1>1. DOMAIN upstreams = Tagged /\ listening \cup exited = DOMAIN upstreams
    BY Zenon DEF StartInv, SetUp, Awaiting
  <1>2. Start!Routed => \A t \in file.tags : \E p \in Start!Chains(t) : p[Len(p)] = upstreams[t]
    BY <1>1, Zenon DEF StartInv, Resolved, Tagged
  <1> QED
    BY <1>1, <1>2, Zenon DEF StackComplete, Start!StackComplete, Tagged

\* Whatever the file's groups refer to, in cycles or not, and whichever
\* outbounds end meanwhile: a router that runs has an outbound task for every
\* tag of its route table, at the end of the tag's chain of groups.
THEOREM StackIsComplete == Start!Spec => []StackComplete
  BY StartInit, StartNext, StartInvSays, PTL DEF Start!Spec
=============================================================================
