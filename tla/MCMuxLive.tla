------------------------------ MODULE MCMuxLive ------------------------------
(***************************************************************************)
(* What must eventually happen in the multiplexed protocols: the AnyTLS    *)
(* client's pool (two tasks, two sessions) and streams (two ids, a channel *)
(* of one), the AnyTLS server (one id) and the VLESS mux (two ids), these  *)
(* with one open and a payload from its target or two opens and none.      *)
(* Of the pool's two sessions the first to be made may die or be abandoned.*)
(* A behaviour runs one of them, fairly.                                   *)
(***************************************************************************)
EXTENDS AnyTlsServer, TLC

CONSTANTS i1, i2, sweeper

OneId == {i1}

VARIABLES
    part,
    now, requests, listening, shared, idle, made, closes, aborts, spawned, tpc, held, reap, closing,
    close, trigger, nextId, v2, registry, failed, torn, reader, sending, callers, upc, uid, chan,
    writing, payload, late, cause, result,
    pc, cur, table, gens, gid, network, task, aborted, out, orphans, chunks, ended, holder

poolVars == <<now, requests, listening, shared, idle, made, closes, aborts, spawned, tpc, held,
              reap, closing>>
streamVars == <<close, trigger, nextId, v2, registry, failed, torn, reader, sending, callers, upc,
                uid, chan, writing, payload, late, cause, result>>
muxVars == <<pc, cur, table, gens, gid, network, task, aborted, out, orphans, chunks, ended, holder>>

Pool == INSTANCE AnyTlsPool WITH
    Tasks <- {i1, i2}, Sweeper <- sweeper, MaxSessions <- 2, PoolSize <- 2, IdleTimeout <- 1,
    MaxNow <- 1, MaxRequests <- 2, close <- closes, abort <- aborts, pc <- tpc
Stream == INSTANCE AnyTlsStream WITH
    LastId <- 2, Capacity <- 1, abort <- trigger, streams <- registry, broken <- failed, pc <- upc,
    id <- uid, ended <- result
Mux == INSTANCE VlessMux WITH
    Ids <- {i1, i2}, MaxSessions <- 1, MaxReads <- 1, opened <- gens, id <- gid, kind <- network,
    reads <- chunks, writer <- holder

MCInit ==
    /\ part \in {"server", "pool", "stream", "mux"}
    /\ Init /\ Pool!Init /\ Stream!Init /\ Mux!Init

MCNext ==
    /\ UNCHANGED part
    /\ \/ /\ part = "server" /\ Next /\ UNCHANGED <<poolVars, streamVars, muxVars>>
          /\ opened' < 2 \/ reads' = 0
       \/ /\ part = "pool" /\ Pool!Next /\ UNCHANGED <<vars, streamVars, muxVars>>
          /\ shared' => 2 \notin spawned'
       \/ part = "stream" /\ Stream!Next /\ UNCHANGED <<vars, poolVars, muxVars>>
       \/ /\ part = "mux" /\ Mux!Next /\ UNCHANGED <<vars, poolVars, streamVars>>
          /\ gens' < 2 \/ \A k \in Mux!Gens : chunks'[k] = 0

\* The fairness of the components' own FairSpecs.
ServerFair ==
    \A k \in Opens :
       /\ WF_vars(part = "server" /\ (AbandonOpen(k) \/ UplinkAborted(k) \/ ShutOutbound(k) \/ TaskDropped(k)))
       /\ WF_vars(part = "server" /\ (DownlinkAborted(k) \/ DownlinkDropped(k)))
PoolFair ==
    /\ WF_poolVars(part = "pool" /\ Pool!Sweep) /\ WF_poolVars(part = "pool" /\ Pool!DropShared)
    /\ \A s \in Pool!Sessions : WF_poolVars(part = "pool" /\ (Pool!CloseStep(s) \/ Pool!RunSpawned(s)))
    /\ \A a \in Pool!Actors :
          WF_poolVars(part = "pool" /\ (Pool!Reaped(a) \/ \E s \in Pool!Sessions : Pool!Reap(a, s)))
StreamFair ==
    /\ WF_streamVars(part = "stream" /\ Stream!CloseStep)
    /\ WF_streamVars(part = "stream" /\ trigger /\ Stream!ReaderEnds)
    /\ WF_streamVars(part = "stream" /\ Stream!TakeEvents)
MuxFair ==
    /\ WF_muxVars(part = "mux" /\ Mux!CloseAll)
    /\ \A k \in Mux!Gens : WF_muxVars(part = "mux" /\ Mux!TaskAborted(k))

MCSpec ==
    /\ MCInit /\ [][MCNext]_<<part, vars, poolVars, streamVars, muxVars>>
    /\ ServerFair /\ PoolFair /\ StreamFair /\ MuxFair

----------------------------------------------------------------------------
\* client.rs: expired sessions, and all when the listener ends, are closed.
PoolCloses == Pool!PoolCloses

\* client.rs: the end of a session reaches its stream.
CloseReachesStream == Stream!CloseReachesStream

\* vless_mux.rs: sessions that are shut down, or whose mux ends, end.
MuxSessionsEnd == Mux!MuxSessionsEnd
=============================================================================
