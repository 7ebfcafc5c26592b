----------------------------- MODULE AnyTlsPool -----------------------------
(***************************************************************************)
(* The session pool of the AnyTLS client (src/client.rs): SOCKS requests   *)
(* that take a TLS session from the pool or connect one, use it for a      *)
(* stream, and give it back; the sweeper of the pool; the end of the       *)
(* listener; and ClientSession::close, one step per lock it takes.         *)
(*                                                                         *)
(* What happens on a session's stream is in AnyTlsStream; here a use ends  *)
(* in one of the ways a stream can end, and a session dies when its reader *)
(* or its heartbeat fails.                                                 *)
(***************************************************************************)
EXTENDS Naturals, FiniteSets

CONSTANTS
    Tasks,         \* handle_socks_client
    Sweeper,       \* sweep_idle_client_sessions
    MaxSessions,   \* bound on the sessions connected
    PoolSize,      \* MAX_IDLE_SESSIONS
    IdleTimeout,   \* IDLE_SESSION_TIMEOUT
    MaxNow,        \* bound on the clock
    MaxRequests    \* bound on the SOCKS requests

\* What the theorems about the pool assume of the constants.
WellFormed == MaxSessions \in Nat /\ PoolSize \in Nat /\ Sweeper \notin Tasks

Sessions == 1..MaxSessions
Actors == Tasks \cup {Sweeper}
None == 0

VARIABLES
    now, requests,
    listening, shared,  \* the listener, and its SharedClientSession
    idle,               \* the pool: sessions with the time they came, by place
    made,               \* sessions connected so far
    close,              \* progress of a session's first close()
    abort,              \* its TaskAbort
    spawned,            \* sessions with a spawned close()
    pc, held,           \* of a task, and its session
    reap, closing       \* sessions an actor has still to close, is closing

pool == <<now, requests, listening, shared, idle>>
session == <<made, close, abort, spawned>>
task == <<pc, held>>
vars == <<pool, session, task, reap, closing>>

Init ==
    /\ now = 0 /\ requests = 0 /\ listening = TRUE /\ shared = TRUE
    /\ idle = <<>> /\ made = 0 /\ spawned = {}
    /\ close = [s \in Sessions |-> "open"] /\ abort = [s \in Sessions |-> FALSE]
    /\ pc = [t \in Tasks |-> "idle"] /\ held = [t \in Tasks |-> None]
    /\ reap = [a \in Actors |-> {}] /\ closing = [a \in Actors |-> None]

----------------------------------------------------------------------------
(* ClientSession::close *)

\* A caller that finds the session claimed triggers the abort and is done.
CallClose(s) ==
    IF close[s] = "open"
    THEN close' = [close EXCEPT ![s] = "claimed"] /\ UNCHANGED abort
    ELSE abort' = [abort EXCEPT ![s] = TRUE] /\ UNCHANGED close

\* close_idle_sessions, and the other calls that wait for close() to return
Reap(a, s) ==
    /\ s \in reap[a] /\ closing[a] = None
    /\ CallClose(s)
    /\ reap' = [reap EXCEPT ![a] = @ \ {s}]
    /\ closing' = [closing EXCEPT ![a] = IF close[s] = "open" THEN s ELSE None]
    /\ UNCHANGED <<pool, made, spawned, task>>

Reaped(a) ==
    /\ closing[a] # None /\ close[closing[a]] = "shut"
    /\ closing' = [closing EXCEPT ![a] = None]
    /\ UNCHANGED <<pool, session, task, reap>>

RunSpawned(s) ==
    /\ s \in spawned
    /\ CallClose(s)
    /\ spawned' = spawned \ {s}
    /\ UNCHANGED <<pool, made, task, reap, closing>>

\* abort.trigger(); then the streams are failed and the writer shut down,
\* within SESSION_CLOSE_TIMEOUT
CloseStep(s) ==
    /\ \/ /\ close[s] = "claimed"
          /\ abort' = [abort EXCEPT ![s] = TRUE]
          /\ close' = [close EXCEPT ![s] = "aborted"]
       \/ /\ close[s] = "aborted"
          /\ close' = [close EXCEPT ![s] = "shut"]
          /\ UNCHANGED abort
    /\ UNCHANGED <<pool, made, spawned, task, reap, closing>>

----------------------------------------------------------------------------
(* SharedClientSession: acquire, release, the sweeper, Drop *)

Free(a) == reap[a] = {} /\ closing[a] = None
At(t, step) == pc[t] = step /\ Free(t)
Goto(t, step) == pc' = [pc EXCEPT ![t] = step]

Fresh(e) == now - e.since < IdleTimeout

\* take_expired_idle_sessions: the places that stay in the queue, and the
\* sessions that do not.
Kept == {p \in DOMAIN idle : Fresh(idle[p])}
SessionsAt(places) == {idle[p].s : p \in places}
ExpiredIdle == SessionsAt(DOMAIN idle \ Kept)

\* The places whose session is_alive.
Alive == {p \in Kept : ~abort[idle[p].s]}

Request(t) ==
    /\ listening /\ At(t, "idle") /\ requests < MaxRequests
    /\ requests' = requests + 1
    /\ Goto(t, "acquire")
    /\ UNCHANGED <<now, listening, shared, idle, session, held, reap, closing>>

\* The sessions at the front that are not alive are taken out of the queue, up
\* to one that is; the pool keeps what follows it by n places or more.
AcquireWith(t, n, expired) ==
    /\ At(t, "acquire")
    /\ \/ \E p \in Alive :
             /\ \A q \in Alive : p <= q
             /\ idle' = [q \in {r \in Kept : r >= p + n} |-> idle[q]]
             /\ reap' = [reap EXCEPT ![t] = expired \cup SessionsAt({q \in Kept : q < p})]
             /\ held' = [held EXCEPT ![t] = idle[p].s]
             /\ Goto(t, "use")
       \/ /\ Alive = {}
          /\ idle' = <<>>
          /\ reap' = [reap EXCEPT ![t] = expired \cup SessionsAt(Kept)]
          /\ Goto(t, "connect")
          /\ UNCHANGED held
    /\ UNCHANGED <<now, requests, listening, shared, session, closing>>

\* An acquire that leaves the session it returns in the pool.
AcquireSharing(t) == AcquireWith(t, 0, ExpiredIdle)

\* An acquire that drops the expired sessions without closing them.
AcquireDropping(t) == AcquireWith(t, 1, {})

Acquire(t) == AcquireWith(t, 1, ExpiredIdle)

\* ClientSession::connect
Connect(t) ==
    /\ At(t, "connect")
    /\ \/ /\ made < MaxSessions
          /\ made' = made + 1
          /\ held' = [held EXCEPT ![t] = made + 1]
          /\ Goto(t, "use")
       \/ Goto(t, "idle") /\ UNCHANGED <<made, held>>
    /\ UNCHANGED <<pool, close, abort, spawned, reap, closing>>

\* The place behind the ones that stay.
Back == 1 + CHOOSE p \in Kept \cup {0} : \A q \in Kept : q <= p

\* is_alive is read before the pool is locked; a session that dies in between
\* is a dead session in the pool either way.
Release(t) ==
    /\ At(t, "release")
    /\ LET s == held[t]
           room == Cardinality(Kept) < PoolSize
           entry == [s |-> s, since |-> now] IN
       IF abort[s]
       THEN UNCHANGED <<idle, reap>>
       ELSE /\ idle' = [p \in IF room THEN Kept \cup {Back} ELSE Kept |->
                           IF p = Back THEN entry ELSE idle[p]]
            /\ reap' = [reap EXCEPT ![t] = ExpiredIdle \cup (IF room THEN {} ELSE {s})]
    /\ held' = [held EXCEPT ![t] = None]
    /\ Goto(t, "idle")
    /\ UNCHANGED <<now, requests, listening, shared, session, closing>>

\* A sweeper that only looks at a full pool.
SweepWhenFull ==
    /\ shared /\ Free(Sweeper)
    /\ ExpiredIdle # {} /\ Cardinality(DOMAIN idle) = PoolSize
    /\ idle' = [p \in Kept |-> idle[p]]
    /\ reap' = [reap EXCEPT ![Sweeper] = ExpiredIdle]
    /\ UNCHANGED <<now, requests, listening, shared, session, task, closing>>

Sweep ==
    /\ shared /\ Free(Sweeper)
    /\ ExpiredIdle # {}
    /\ idle' = [p \in Kept |-> idle[p]]
    /\ reap' = [reap EXCEPT ![Sweeper] = ExpiredIdle]
    /\ UNCHANGED <<now, requests, listening, shared, session, task, closing>>

StopListening ==
    /\ listening
    /\ listening' = FALSE
    /\ UNCHANGED <<now, requests, shared, idle, session, task, reap, closing>>

\* Drop for SharedClientSession, when the last task and the sweeper let it go
DropShared ==
    /\ ~listening /\ shared
    /\ \A t \in Tasks : At(t, "idle")
    /\ Free(Sweeper)
    /\ shared' = FALSE /\ idle' = <<>>
    /\ LET pooled == SessionsAt(DOMAIN idle) IN
       /\ abort' = [s \in Sessions |-> abort[s] \/ s \in pooled]
       /\ spawned' = spawned \cup pooled
    /\ UNCHANGED <<now, requests, listening, made, close, task, reap, closing>>

----------------------------------------------------------------------------
(* handle_socks_client, after it has got its session *)

\* The stream was finished with a FIN, or never registered.
UseEnds(t) ==
    /\ At(t, "use")
    /\ Goto(t, "release")
    /\ UNCHANGED <<pool, session, held, reap, closing>>

\* The FIN could not be written, or the session has no stream id left.
UseFails(t) ==
    /\ At(t, "use")
    /\ reap' = [reap EXCEPT ![t] = {held[t]}]
    /\ Goto(t, "release")
    /\ UNCHANGED <<pool, session, held, closing>>

\* Drop for StreamRegistration, before finish() has returned
Abandon(t) ==
    /\ At(t, "use")
    /\ abort' = [abort EXCEPT ![held[t]] = TRUE]
    /\ spawned' = spawned \cup {held[t]}
    /\ Goto(t, "release")
    /\ UNCHANGED <<pool, made, close, held, reap, closing>>

\* The reader or the heartbeat fails; their loops end with the abort.
SessionDies(s) ==
    /\ s <= made /\ ~abort[s] /\ s \notin spawned
    /\ spawned' = spawned \cup {s}
    /\ UNCHANGED <<pool, made, close, abort, task, reap, closing>>

Tick ==
    /\ now < MaxNow
    /\ now' = now + 1
    /\ UNCHANGED <<requests, listening, shared, idle, session, task, reap, closing>>

----------------------------------------------------------------------------
TaskStep(t) ==
    Acquire(t) \/ Connect(t) \/ UseEnds(t) \/ UseFails(t) \/ Abandon(t) \/ Release(t)

Next ==
    \/ \E t \in Tasks : Request(t) \/ TaskStep(t)
    \/ \E s \in Sessions : CloseStep(s) \/ RunSpawned(s) \/ SessionDies(s)
    \/ \E a \in Actors : Reaped(a) \/ \E s \in Sessions : Reap(a, s)
    \/ Sweep \/ StopListening \/ DropShared \/ Tick

Spec == Init /\ [][Next]_vars

\* Tasks that can run are scheduled, the sweeper's timer ticks, and close()
\* has a timeout on its only wait.  A use may last for ever.
FairSpec ==
    /\ Spec /\ WF_vars(Sweep) /\ WF_vars(DropShared)
    /\ \A s \in Sessions : WF_vars(CloseStep(s) \/ RunSpawned(s))
    /\ \A a \in Actors : WF_vars(Reaped(a) \/ \E s \in Sessions : Reap(a, s))

----------------------------------------------------------------------------
Holding == {"use", "release"}

\* Who is responsible for a session: a place in the pool, the task that uses
\* it, or the task or sweeper that has taken it out of the pool to close it.
Owners(s) ==
    {<<"pool", p>> : p \in {q \in DOMAIN idle : idle[q].s = s}}
      \cup {<<"actor", t>> : t \in {u \in Tasks : held[u] = s}}
      \cup {<<"actor", a>> : a \in {b \in Actors : s \in reap[b] \/ closing[b] = s}}

\* A session carries one stream at a time: no two requests are ever given the
\* same session, and none is given a session that is in the pool or that
\* another actor is closing.
Exclusive == \A s \in Sessions : Cardinality(Owners(s)) <= 1

\* "Client idle TLS sessions ... are actually closed rather than dropped": a
\* session that nobody is responsible for any more has its close() running or
\* spawned, whichever way it left the pool or its task.  And the pool keeps no
\* more than MAX_IDLE_SESSIONS, however many tasks release at once.
NotDropped ==
    /\ \A s \in 1..made : Owners(s) = {} => close[s] # "open" \/ s \in spawned
    /\ Cardinality(DOMAIN idle) <= PoolSize

\* "A 5s sweeper reaps expired entries": a session that has expired in the
\* pool is closed, though no request ever comes again.  And the pool is
\* released with the listener: once it has stopped and the last request has
\* ended, every session that was ever made is closed.
PoolCloses ==
    /\ \A s \in Sessions : s \in ExpiredIdle ~> close[s] = "shut"
    /\ ~shared ~> \A s \in 1..made : close[s] = "shut"
=============================================================================
