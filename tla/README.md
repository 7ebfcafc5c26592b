# Aerion: TLA+ specifications, model checking and proofs

Aerion (`src/src/*.rs`) is a proxy kernel: a *core* that knows users, their
sessions, their limits and their traffic; servers and clients of a dozen proxy
protocols that use it; a router in front of the clients; and readers for four
configuration formats (its own, mihomo, Xray, sing-box).  This directory holds
TLA+ modules for the parts whose correctness depends on interleavings, on
unreliable delivery, on time, or on a case analysis too wide to test; TLC
configurations that check them; and TLAPS proofs for the central ones.

`PROJECT.json` is the index: the components, the runs, the source lines behind
every definition, for every property a mutation of the model that breaks it, the
hazards, the findings and the theorems.

To repeat a run or a proof, in this directory:

    tlc -workers 2 -config MCShared.cfg MCShared
    tlapm CoreRegistryProofs.tla

## The parts and how they interact

A server task accepts a connection, authenticates it at the core
(`ProxyCore::authenticate_from`), and holds the resulting `CoreSession` while it
relays.  An administrator replaces users, changes limits or cancels sessions at
any time.  Every chunk a relay moves is recorded with the core, which makes it
wait for the rate, checks the quota and the cancellation, and counts it.  The
cancellation is a `TaskAbort`, a flag with a `Notify` that many tasks wait on.
Protocols that carry many streams on one connection have tables of their own:
AnyTLS (client pool, client session, server), the VLESS mux, Mieru over UDP, and
the QUIC protocols Hysteria2 and TUIC with UDP associations and fragmented
packets.  A client process reads a configuration file, resolves policy groups,
starts an outbound for every tag its route table uses and a router that sends
each flow to one of them.

| Module | Source | State and actions |
|---|---|---|
| `TaskAbort`, `Latch` | `task_abort.rs` | One action per atomic operation of `trigger` and `cancelled`; `Latch` is the abstract one-shot latch. |
| `CoreRegistry` | `core.rs` | User table, credential index, `UserState`s with session maps and online counts. Local state per connection (`authenticate_from`, `open_session`, drop) and per administrator (`replace_users`, `set_limits`, `cancel_*`). One action per critical section. |
| `CoreTraffic` | `core.rs` | `record_traffic` in any number of relay halves: wait, check, reserve under the limits lock, count; updates of the quota, cancellations; a `u64` that ends at `U64Max`. |
| `CoreCredentials` | `core.rs` | `from_credentials_with_limits`. |
| `RateLimiter` | `core/limiter.rs` | `wait` and `set_rate` in their two steps each, and a clock. |
| `Relay` | `relay.rs` | Two pumps (read, record, write), the race with the cancellation, the shutdown of both writers with its time limit, both close modes. |
| `ReplayCache` | `replay_cache.rs` | `check_and_store` with the expiry queue, and a clock. |
| `AnyTlsPool` | `client.rs` | Acquire, release, reaper, sweeper, listener stop and drop, `close` step by step. |
| `AnyTlsStream` | `client.rs` | `open_stream`, the relay with a payload in its hands while the local client takes it, `finish`, the frame reader with bounded channels, heartbeat, session failure. |
| `AnyTlsServer` | `server.rs` | The frame parser and its tables, dial budget, stream and downlink tasks, shared writer, aborts. |
| `VlessMux` | `vless_mux.rs`, `vless_h2.rs` | `relay_server`'s frame loop, the session table with generations, relay tasks, aborts; the drop of the whole mux by an HTTP/2 or gRPC connection that closes. |
| `MieruPacket` | `mieru.rs` | Both ends of a session on UDP: writes, reads, send window, receive flow, acknowledgements, retransmission, heartbeat, close; a network that loses, repeats and reorders. |
| `QuicServer` | `tuic.rs`, `hysteria2.rs` | One connection: accepting commands, authentication, `TuicAuthState::wait_session` in its steps, UDP associations with reference-counted sockets and reply tasks, dissociation, idle cleanup, the end of the connection. |
| `UdpReassembly` | `udp_fragments.rs`, `hysteria2.rs`, `tuic.rs` | Encoding into fragments, a network that loses, delays and reorders, the reassembly tables with their limit and timeout. |
| `ConfigNode`, `ConfigMihomo`, `ConfigXray`, `ConfigSingbox`, `ConfigNative`, `ConfigFile` | `config.rs`, `main.rs`, `config_compat/**` | One operator per mapper: whether an entry is accepted, the channel it runs on, whether certificates are verified, the values carried over. `ConfigFile` edits the options of an entry and loads it. |
| `RouteRules`, `RouteConfig` | `routing.rs`, `config_compat/*/route.rs` | The route table's matching, and the reading of each format's rules into it. |
| `RouteProxy` | `router.rs` | Routes and upstreams behind their locks, TCP clients, the UDP association (decision, lookup of the session, wait for room in its channel) and its sessions, updates under way. |
| `Startup` | `main.rs`, `config_compat/*` | The choice of what to run, group resolution, binding and spawning of outbounds, the end of the stack. |

`LimiterPart`, `RelayPart` (also `ReplayCache`), `PoolPart`, `MuxPart` (`VlessMux`
and `QuicServer`), `RouterPart` and `StartPart` give a component variables of its
own, so that it can stand beside others in a run and in a proof module; the property
that a run checks and a theorem states is then one definition.  The `MC…` modules
instantiate the components for TLC.  Components that share no state are
checked side by side in one run: a variable `part` says which of them a behaviour
runs, the others stay in one initial state.  The state space is then the sum of
the components', not their product, and each is checked as if alone.

### Conventions

* A lock's critical section is one step, since nothing else can see inside it.
  What the code carries across an unlock or an `.await` (a user id, a copy of
  limits, a looked-up handle) is local state of its task; this is where stale
  values show.
* Atomics are sequentially consistent.  The code's relaxed loads are of counters
  and flags that no property orders against other memory.
* `select!` and `abort` drop a future at an await point: such a step is possible
  wherever the code awaits, and never between two awaits.
* The history variables (`last` of `QuicServer`, `since` of `RouteProxy`,
  `accepted` of `ReplayCache`, `log` of `AnyTlsServer`, and so on) record what
  happened for the properties and guard nothing.
* Data are abstracted to what the properties tell apart.  Credentials and
  addresses are model values with `Trim` and `NormalizeIp` as functions; payloads
  are counts or numbers; an option's value is the class of values a mapper tells
  apart; a domain is a short sequence of labels and an address has two bits.
  Sequence numbers, packet ids and byte counters keep their wrap-around at a
  small modulus.

## The runs

Twelve runs, eight that must hold and four that reproduce a disagreement between
the code and what the repository says of it.  Passing runs take from half a
minute to three minutes with two workers.

**core_sessions** (`MCCoreSessions.cfg`).  One administrator, two connections,
three scenarios: rotation of a credential, limits on sessions and addresses, a
table of two users with lists that must be refused.  `TypeOK`; the sessions that
`replace_users` finds with removed or re-keyed users have ended when it publishes
the index (`TargetedSessionsEnd`); the online counts equal what the session maps
hold (`OnlineCountsExact`); no user is above the largest limits they ever had
(`WithinPeakLimits`); index and table agree when no call is under way
(`IndexMatchesTable`).

**core_admins** (`MCCoreAdmins.cfg`).  Two administrators at once.  A session
opens once and ends at most once (`SessionLifecycle`); one that is held and
active is in its map or in the hands of one canceller (`HeldSessionsReachable`);
a registered session is held and uncancelled (`NoGhostSessions`); what a
canceller collected is eventually cancelled (`CollectedSessionsCancelled`, with
weak fairness of each administrator's steps: a call that was made runs on).

**shared** (`MCShared.cfg`).  `Accounting`, `QuotaNotOverrun`, `OneLateRecord` of
the traffic counters; `RateKept` of the limiter: no more passes than the rate
allows, idle time earns no burst, a new rate leaves no backlog; `Faithful` of the
relay: nothing is delivered uncounted, no end overtakes data, success means
delivery; `Reassembly`: packets come out whole or not at all although their ids
are used again; `NoReplay`: no key twice within its lifetime, and none refused
for room but by living ones.

**latches** (`MCLatches.cfg`).  `NoLostWakeup`, and `LatchImplemented`: `TaskAbort`
refines `Latch`, liveness included.  `WaitersReturn`: a task in the limiter gets
out when its deadline comes, and by a cancellation also when its deadline is out
of reach; a cancelled relay returns even if a peer accepts nothing.  `StackComplete`
and `StartupSettles`: with any references among groups, start-up is refused or
comes to a stack that has every outbound of its table, and the end of one of
them ends the stack.

**anytls_client** (`MCAnyTlsClient.cfg`).  A stream gets its own events only
and none behind a FIN (`OwnEvents`), stays registered while used
(`StreamReachable`), and sees a clean end only after a FIN or because its channel
was full when the session failed (`CleanEndMeansFin`); a pooled
session has one owner (`Exclusive`) and none is lost unclosed (`NotDropped`).

**mux_servers** (`MCMuxServers.cfg`).  AnyTLS: every live stream is in the table
and within the limits (`NoOrphans`), the client sees whole frames in a legal
order (`FramesInOrder`).  VLESS: table, relay tasks and client agree
(`MuxTableExact`).  Mieru: bytes arrive in order, once, and before an end of file
caused by a close (`Exact`), and what the announced window allows finds room
(`PromiseKept`).  QUIC: no command sleeps through its authentication, only
authenticated users have sockets, an association keeps the socket that its
replies come to, and no reply task outlives its connection (`CommandsServed`).

**mux_live** (`MCMuxLive.cfg`).  What must end does, with peers that may send and
take nothing.  The end of one half of an AnyTLS stream ends the other, and the end
of a connection all its tasks (`StreamsEnd`); expired sessions are closed by the
sweeper, and all of them after the listener has stopped (`PoolCloses`); the failure
of a client session reaches its stream, unless the stream is held up for good by a
local client that takes nothing (`CloseReachesStream`); a mux session that is shut
down loses its relay task and its target, and a mux that comes to
`close_all_sessions` ends every relay but the orphans (`MuxSessionsEnd`).

**config** (`MCConfig.cfg`).  Every kind of entry in every format from a smallest
accepted form with two options set or dropped: an accepted entry runs on a
channel no weaker than it asks for (`NotWeaker`; the entries whose mapper reads no
TLS or no REALITY field are named in it and are the finding below), and of two entries that differ
in one option the one that sets it is not weaker unless the option names the
channel or the verification (`NoOptionWeakens`).  Two rules of each routing
format: the table sends every target where the written rules do, with AND, OR
and rule sets read as logic, and a rule with a field the format does not know is
refused (`RoutesAsWritten`; two cases where the code does otherwise are excepted by
name, see the observations).  The router under updates: a flow uses
a decision and an upstream that were each in force since it came in
(`FlowsFollowRoutes`); they are read under two locks, so the two need not have been
in force together.

### Findings

| Run | What it shows |
|---|---|
| **core_revoked**, `RevokedSessionsCancelled` | A connection that looked its credential up before a rotation opens its session after it; no later step cancels it (`core.rs:342`), although the documentation promises that a rotation ends the sessions of the old credential. |
| **core_credentials_blank**, `DeduplicatedCredentialsValid` | A credential of blanks only passes the constructor's test and fails `replace_users`, so the `expect("deduplicated core credentials must be valid")` panics (`core.rs:221`). |
| **anytls_stream_torn**, `UnfinishedFrameNotReused` | `select!` drops an uplink inside a frame and the session goes back to the pool, against the comment at `client.rs:287`. |
| **config_downgrade**, `NoSilentDowngrade` | Entries that ask for a stronger channel in a field their mapper never reads are accepted and run on less, against "Aerion fails closed" in `docs/limitations.md:3`: an Xray `hysteria` or `hysteria2` outbound with `security: reality` (`xray/outbound.rs:597`), sing-box outbounds other than VLESS with `reality`, native entries other than VLESS with REALITY fields, and native Mieru and Shadowsocks entries with TLS. |

### Bounds

Every bound is a constant of its module, given a value in the `MC` module or the
`.cfg`.  They are chosen so that each limit of the code is reached and passed
once, and so that two actors meet in every step.

* Registry: two connections or two administrators, three `UserState`s, three
  session ids, three calls: a session can be opened before, during and after a
  call and its user replaced twice.
* Traffic: three tasks and six as the largest `u64`, so that two reservations
  pass the quota and the end of the counter together.
* Limiter: two tasks, three or two chunks each, one change of the rate, four
  ticks.  Relay: two chunks in each direction.  Replay cache: three keys on two
  places, over three lifetimes.
* Reassembly: two ids for three packets, a table of one, one or two fragments,
  three ticks with a timeout and a delay of one.
* AnyTLS: four stream ids with `LastId` the fourth (the end of the id space); two
  ids used freely, two opens, one dial and one payload at the server; three
  sessions on a pool of one.  VLESS: two opens on a table of one.
* Mieru: a modulus of eight with sessions that start at seven, a window of
  three, two transmissions, two packets under way.  The server makes one session
  for an id (see the observations).
* QUIC: four commands of one association in four scenarios, two sockets, idle
  after two of three ticks.
* Configuration: two edits, since an option acts alone or on one other.  Rules:
  two, the first of up to two levels of logic; all targets of three hosts, five
  addresses, two ports, two networks.  Router: two updates, two datagrams.
* Start-up: three names, two of which are groups of up to two candidates in every
  combination.

### Fairness

Weak fairness is assumed only of steps that the runtime takes by itself: a woken
task is polled, a spawned task runs, a timer fires, a task that was aborted is
dropped, a lock that is released is given on.  None is assumed of peers, targets,
clients or administrators who have not made a call: they may stay silent for
good.  `Rel!ShutdownWriter` and `Rel!Return` are fair since the shutdown is under
a time limit; `Limiter!Tick` since time passes; `Pool!Sweep` since the sweeper is
a loop around an interval; a task of the AnyTLS client takes the events that are in
its channel (`TakeEvents`), while nothing makes its local client take a payload
(`Deliver`).  Liveness is checked by TLC alone, without symmetry.

## Proofs

Thirteen components are proved for every value of their constants, under the named
assumptions of their modules: the "none" values differ from the others, bounds
are naturals, `Trim` and `NormalizeIp` are functions between the right sets, the
arguments of administrative calls are of their types, and the sets that are
counted or summed over (stream ids, session ids, keys, tasks, names) are finite.
TLC evaluates these assumptions in the runs that extend the modules.  Every
inductive invariant was an invariant of a run before it was proved.

* `ProcessProofs`, what a process is built on.
  - `TaskAbort`: `NoLostWakeupHolds`, and `LatchSafetyHolds`, the safety half of the
    refinement.  The inductive invariant relates the two sides' program counters: a
    waiter past its check of the flag with nothing to wake it implies that the flag
    was not set when it looked, so the winner has still to notify.
  - Router: `FlowsDoFollowRoutes`.  What is in force now is always among what a flow
    under way may still use (`InForce`), so that whatever it reads next is; a UDP
    session sends to the address in its key, and that is an address every datagram
    in its queue, or on its way there, may use (`SessionOk`, `CommandInv`).
  - Start-up: `StackIsComplete`.  No tag is lost between those to do, the one being
    resolved and the outbounds (`SetUp`); the groups visited are a way from the tag to
    the cursor (`Trail`), which is short enough since no group is visited twice; and
    every outbound so far is at the end of its tag's chain (`Resolved`).
* `CoreRegistry` has its proofs in three modules that extend each other:
  `CoreRegistrySessionProofs` (the invariants, types, the life of a session), `CoreRegistryReplaceProofs` (what `replace_users` does step by step) and
  `CoreRegistryProofs` (the limits, and all theorems).
  - `TypesHold`: `TypeOK` is not inductive by itself; `Typed` adds that published
    tables name allocated `UserState`s only and that a job in progress has what its
    next step reads.
  - `SessionLifecycleHolds`, `HeldSessionsReachableHolds`, `NoGhostSessionsHolds`: `SInv`
    follows a session through its life.  Before it is opened it is nowhere; while
    active it is in exactly one place, its map or one canceller's collection; the
    collections are disjoint; once ended it has one end event and is in no place.
  - `OnlineCountsAreExact`, `PeakLimitsHold`: `LimitInv`.  A connection opens with a
    copy of the limits it took before the lock, so what is inductive is that this
    copy, like the limits in force, is at least as strict as the largest limits
    its `UserState` ever had; and since a `UserState` gets its limits when it is
    allocated, that everyone who holds one holds an allocated one (`OwnersInv`).
  - `IndexFollowsTable`, `ReplacedSessionsEnd`, under `OneCaller` (administrative calls
    come from one task, any number of users and connections): `replace_users` clones
    the table, updates users in place and publishes table and index under two
    locks, and nothing serialises two callers, for whom both are false.  `BuildOK`
    says what a call has built of its list by each step; `OverInv` that an active
    session in nobody's hands was closed; `TargetOK` that a session to be ended is
    either over or registered with a `UserState` the call still has to clear.
* `TrafficProofs`.
  - Traffic: `TypesHold`, `QuotaHolds`, `OneLateRecordHolds`, and `AccountingHolds`.  For
    the first three the invariant bounds the counter by the largest quota there was,
    and ties a task's position to the cancellation it has or has not seen.
    `Accounting` is inductive beside them: what a task has in flight moves with it
    from step to step (`BytesMove`), and since the shared counter is within `u64`, the
    directions' counters, which are parts of it, never wrap.  The lemmas it needs
    about sums over a finite set (`SumExists`, `SumChanges`, `SumOfZeros`) are proved by a
    least counterexample in place of an induction.
  - Limiter: `RateIsKept`.  That the chunks let through have taken their time is not
    inductive; `Paid` says it of every time t to come, with the chunks that are due
    by t counted in, and a charge keeps it because the schedule is never before the
    latest deadline.
* `ServerProofs`.
  - Relay: `RelayIsFaithful`.  The counters of a direction are determined by each other
    and by the step of its pump (`Counted`).
  - Replay cache: `KeysAreNotReplayed`.  The queue is in order of time and holds each
    living key once, with the time it was accepted (`Ordered`), so that popping from
    the front removes the expired keys and no other.
  - AnyTLS server: `NoStreamIsOrphaned`, `FramesStayInOrder`.  The invariant adds to
    `NoOrphans` that nothing is written for a stream before its SYNACK and that its
    downlink runs only between the SYNACK and the FIN (`Order`).  All steps of the
    tasks but two are `Quiet`, all removals from the tables are `Closing`: each has one
    lemma.
* `AnyTlsClientProofs`.
  - Streams: `EventsAreOwn`, `StreamsStayReachable`, `CleanEndsAreReal`.  The registry holds
    at most the user's stream; after a FIN its stream has no sender left, in the
    registry or in the reader's hands (`Fins`), which is why nothing follows it; and a
    channel that lost its sender has a FIN or an error to show for it, or was full
    (`Clean`).
  - Pool: `SessionsHaveOneOwner`, `SessionsAreNotDropped`.  A session is at one place of
    the pool or with one actor (`OneOwner`), and one that was made is somewhere, or
    its close has begun or is spawned (`Accounted`).  An actor's step moves only its own
    sessions and those it takes from the pool (`Moves`, `Answered`).
* `MuxServersProofs`.
  - QUIC: `CommandsAreServed`, the four promises of `CommandsServed`, for every
    well-formed scenario (each command has a kind, a user and an association).  The
    invariant says what a command holds at each step (`Places`), that one which sleeps
    while the authentication is decided has a notification coming (`Wakeups`), that
    every socket has a user and the one that last sent for an association is in the
    table (`Socks`), and that a reply task runs only while its socket is referred to
    (`Replies`).
  - VLESS mux: `MuxTableStaysExact`.  A session that is being opened is the latest and
    has its place in the table empty (`Fresh`), since the loop shut its predecessor
    down first; generations not used yet have left no trace (`MuxTypes`).

What a proof uses of the libraries on finite sets and naturals is stated once, as a
formula `Facts` or as lemmas, and proved at the end of its module: every obligation
carries the theorems in scope, and the libraries hold many.

Only model-checked: all liveness (fairness and `ENABLED` are out of the prover's
reach), the routing and configuration modules (`RouteConfig` is recursive on
logical rules, and `NotWeaker` and `NoOptionWeakens` are case analyses over finite
tables, which TLC enumerates), reassembly, and Mieru's packets.

## Observations

Behaviour met while modelling.  Except for the last point no document of the
repository excludes it.  The properties are stated so as to allow it.

* Two `replace_users` calls at once may publish the index of one with the table of
  the other (`core.rs:269`); `IndexMatchesTable` speaks of a single caller.
* `VlessMux`: an abort inside `write_all` leaves part of a frame on the shared
  stream (`vless_mux.rs:79`).  Relays without anyone to abort them (`orphans`, and the
  sessions of a dropped mux) run until their target ends or their next write fails:
  that of a session beyond the limit, and, when an HTTP/2 or gRPC connection closes
  and drops its handlers (`vless_h2.rs:155`), those that `close_all_sessions` had not
  come to.
* AnyTLS: a client session that fails while a stream's channel is full ends that
  stream as if by a FIN (`client.rs:335`); a stream registered after the drain is told
  by nobody (`client.rs:388`); a server's downlink that waits for the writer may send
  one more frame after its id was opened anew (`server.rs:433`).
* TUIC: a stream task of a connection that closes before any Authenticate waits
  in `wait_session` for good, since nothing notifies or aborts it.  After a second
  Authenticate by another user, sockets that exist keep charging downloads to the
  first.  A packet served after its Dissociate opens a socket anew, which stays
  until the connection ends.  A reply task that fails leaves an association that
  only sends.  Hysteria2 refreshes `last_seen` by uploads only.
* Mieru: an open request that arrives again after its session has gone makes
  another session (`MaxBorn` is one in the run); an error of
  `handle_server_segment` ends the loop that serves all of the server's UDP peers.
* Router: a missing upstream ends a TCP client without a reply; a UDP session that
  has died stays in its map, and the next datagram for it ends the association.
* Routing: an Xray `ip` list that mixes `geoip:private` with CIDRs is an
  intersection in the table (`Readable` excludes it); an outbound with the tag
  `direct` or `block` is read as the built-in decision.
* Unknown fields of logical rules nested in a sing-box logical rule are not refused
  (`singbox/route.rs:535`), which disagrees with `docs/config.md:3` and `:71` and with
  `docs/limitations.md:7`: such a rule matches as if the field were not there.
  `RoutesAsWritten` excepts it by name.

## Not modelled

* Cryptography and handshakes: TLS, ECH, REALITY, the ClientHello shapes, AEAD and
  key derivation (VMess, Shadowsocks, Mieru), Sudoku's tables, Vision's inspection
  of TLS records.  What they guarantee is taken as given: a packet or a token that
  verifies is authentic.
* Wire formats and framing adapters (AnyTLS frames and padding, mux frames, XUDP,
  WebSocket, gRPC, HTTP/2, XHTTP, SOCKS, HTTP CONNECT, TUIC commands): functions of
  bytes without state that interacts.  The models take frames as parsed.
* Protocols that are one sequential pipeline per connection (Naive, VMess, VLESS,
  Trojan, Shadowsocks): they authenticate at the core and end in the relay, and
  both are modelled.
* The clients of Hysteria2 and TUIC, Mieru over TCP, and the measured congestion
  window of `mieru/congestion.rs` (a constant in `MieruPacket`).
* Libraries and the operating system: tokio, quinn, h3, sockets, TUN devices and
  foreign-function glue.
