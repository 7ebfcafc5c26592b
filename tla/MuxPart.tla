------------------------------ MODULE MuxPart -------------------------------
(***************************************************************************)
(* VlessMux and QuicServer, each with constants and variables of its own,  *)
(* beside another server that carries many streams on one connection.      *)
(***************************************************************************)
EXTENDS Integers, FiniteSets, Sequences

CONSTANTS SessionIds, MaxNews, MaxSessions, MaxChunks  \* of VlessMux

VARIABLES pc, cur, table, gens, gid, kinds, task, aborted, out, orphans, chunks, ended, holder

muxVars == <<pc, cur, table, gens, gid, kinds, task, aborted, out, orphans, chunks, ended, holder>>

Mux == INSTANCE VlessMux WITH
    Ids <- SessionIds, MaxOpens <- MaxNews, MaxReads <- MaxChunks,
    opened <- gens, id <- gid, kind <- kinds, reads <- chunks, writer <- holder

ASSUME MuxAssumption == IsFiniteSet(SessionIds) /\ MaxNews \in Nat /\ MaxSessions \in Nat

\* vless_mux.rs: the table, the relay tasks and the client agree.
MuxTableExact == Mux!MuxTableExact

----------------------------------------------------------------------------
CONSTANTS Scenarios, Commands, Assocs, MaxSockets, Idle, MaxNow  \* of QuicServer

VARIABLES scene, link, session, error, at, heard, who, held, assocs, sock, resp, last, clock

quicVars == <<scene, link, session, error, at, heard, who, held, assocs, sock, resp, last, clock>>

Quic == INSTANCE QuicServer WITH
    conn <- link, pc <- at, now <- clock, table <- assocs

\* The scenes are scenarios of the server.
ASSUME QuicAssumption == Quic!WellFormed

\* tuic.rs, hysteria2.rs: the commands of a connection wait for its
\* authentication and no longer, and its UDP associations keep their sockets.
CommandsServed == Quic!CommandsServed
=============================================================================
