---------------------------- MODULE AnyTlsServer ----------------------------
(***************************************************************************)
(* One connection of the AnyTLS server (src/server.rs): the frame parser   *)
(* with its tables of pending, half-requested and open streams, the task   *)
(* of each stream (dial, SYNACK, uplink, outbound shutdown), the downlink  *)
(* task, the writer lock they share, and the two aborts that end them.     *)
(*                                                                         *)
(* Every open gets a number of its own, since a client may use a stream id *)
(* again; log is what the server has written for it.  A parser that waits  *)
(* (for room in a stream's channel, for the writer) takes no step.         *)
(***************************************************************************)
EXTENDS Integers, Sequences, FiniteSets

CONSTANTS
    Ids,           \* stream ids the client uses
    MaxOpens,      \* bound on the streams opened
    MaxStreams,    \* MAX_SESSION_STREAMS
    MaxPendingUot, \* MAX_PENDING_UOT
    MaxDials,      \* MAX_PENDING_DIALS
    Capacity,      \* of a stream's payload channel, 32 in the code
    MaxReads       \* bound on the payloads read from targets

ASSUME ServerAssumption ==
    /\ IsFiniteSet(Ids)
    /\ MaxOpens \in Nat /\ MaxStreams \in Nat /\ MaxPendingUot \in Nat /\ MaxDials \in Nat

Opens == 1..MaxOpens
None == 0

VARIABLES
    conn,        \* handle_client is "open", or has "ended"
    broken,      \* a write on the TLS stream has failed
    settings,    \* received_settings
    pending,     \* ids with a SYN and no target yet
    uot,         \* pending_uot
    streams,     \* the open stream of each id
    opened,      \* streams opened so far
    id, kind,    \* of each of them
    up, down,    \* its stream task and its downlink task
    abort,       \* its TaskAbort
    queue,       \* payloads in its channel
    reads,       \* payloads read from all targets
    log,         \* the frames written for it
    writer       \* the stream that is within a frame, if any

tables == <<settings, pending, uot, streams>>
birth == <<opened, id, kind>>
tasks == <<up, down, abort, queue, reads, log, writer, broken>>
vars == <<conn, tables, birth, tasks>>

Init ==
    /\ conn = "open" /\ broken = FALSE /\ settings = FALSE
    /\ pending = {} /\ uot = {} /\ streams = [i \in Ids |-> None]
    /\ opened = 0 /\ writer = None
    /\ id = [k \in Opens |-> None] /\ kind = [k \in Opens |-> "tcp"]
    /\ up = [k \in Opens |-> "none"] /\ down = [k \in Opens |-> "none"]
    /\ abort = [k \in Opens |-> FALSE] /\ queue = [k \in Opens |-> 0]
    /\ reads = 0 /\ log = [k \in Opens |-> <<>>]

InTable == {i \in Ids : streams[i] # None}
Used == Cardinality(InTable) + Cardinality(pending) + Cardinality(uot)
Trigger(k) == abort' = [abort EXCEPT ![k] = TRUE]
Up(k, step) == up' = [up EXCEPT ![k] = step]
Down(k, step) == down' = [down EXCEPT ![k] = step]
Lock(k) == writer = None /\ writer' = k
Unlock(k) == writer' = IF writer = k THEN None ELSE writer
Written(k, frame) == ~broken /\ log' = [log EXCEPT ![k] = Append(@, frame)]

----------------------------------------------------------------------------
(* serve_session: frames of the client, and the end of the connection *)

\* Every way out of handle_client: an unreadable frame, an alert, a limit, a
\* failed write or the cancelled session.  The guard triggers the connection's
\* abort, and the streams' controls are dropped.
EndConnection ==
    /\ conn' = "ended"
    /\ streams' = [i \in Ids |-> None] /\ pending' = {} /\ uot' = {}
    /\ abort' = [k \in Opens |-> abort[k] \/ \E i \in Ids : streams[i] = k]
    /\ UNCHANGED <<settings, birth, up, down, queue, reads, log, writer, broken>>

ConnectionEnds == conn = "open" /\ EndConnection

ClientSettings ==
    /\ conn = "open"
    /\ settings' = TRUE
    /\ UNCHANGED <<conn, pending, uot, streams, birth, tasks>>

ClientSyn(i) ==
    /\ conn = "open"
    /\ IF Used < MaxStreams /\ settings
       THEN pending' = pending \cup {i} /\ UNCHANGED <<conn, settings, uot, streams, birth, tasks>>
       ELSE EndConnection

\* PSH of an open stream: into its channel, or its receiver is gone and the
\* entry is removed
ClientPayload(i) ==
    /\ conn = "open" /\ streams[i] # None
    /\ LET k == streams[i] IN
       IF up[k] # "done"
       THEN /\ queue[k] < Capacity
            /\ queue' = [queue EXCEPT ![k] = @ + 1] /\ UNCHANGED <<streams, abort>>
       ELSE /\ streams' = [streams EXCEPT ![i] = None]
            /\ Trigger(k) /\ UNCHANGED queue
    /\ UNCHANGED <<conn, settings, pending, uot, birth, up, down, reads, log, writer, broken>>

Opened(i, what, first) ==
    /\ opened < MaxOpens
    /\ opened' = opened + 1
    /\ id' = [id EXCEPT ![opened'] = i] /\ kind' = [kind EXCEPT ![opened'] = what]
    /\ queue' = [queue EXCEPT ![opened'] = first]
    /\ streams' = [streams EXCEPT ![i] = opened']
    /\ UNCHANGED <<conn, settings, abort, reads, writer, broken>>

\* open_stream, with or without a first payload: the task is spawned.
OpenTcp(i) ==
    /\ \E first \in 0..1 : Opened(i, "tcp", first)
    /\ Up(opened', "dial") /\ UNCHANGED <<down, log>>

\* The parser binds and acknowledges a UOT stream itself and spawns its two
\* tasks, which then run like the halves of a TCP stream.
OpenUot(i) ==
    /\ \E first \in 0..1 : Opened(i, "uot", first)
    /\ writer = None /\ Written(opened', "synack")
    /\ Up(opened', "relay") /\ Down(opened', "read")

\* open_stream failed: the stream is forgotten and the parser goes on.
OpenFails == UNCHANGED <<conn, settings, streams, birth, tasks>>

\* PSH of a pending stream: its target, or the beginning of a UOT request
ClientTarget(i) ==
    /\ conn = "open" /\ streams[i] = None /\ i \notin uot /\ i \in pending
    /\ \/ /\ pending' = pending \ {i} /\ UNCHANGED uot
          /\ OpenFails \/ OpenTcp(i) \/ OpenUot(i)
       \/ IF Cardinality(uot) < MaxPendingUot
          THEN /\ pending' = pending \ {i} /\ uot' = uot \cup {i}
               /\ UNCHANGED <<conn, settings, streams, birth, tasks>>
          ELSE EndConnection

\* PSH that completes a UOT request; one that does not changes no table, and
\* one past the buffer ends the connection.
ClientUotRequest(i) ==
    /\ conn = "open" /\ streams[i] = None /\ i \in uot
    /\ uot' = uot \ {i} /\ UNCHANGED pending
    /\ OpenFails \/ OpenUot(i)

\* A FIN that removes the entry and leaves the stream to end by itself.
ClientFinDetached(i) ==
    /\ conn = "open"
    /\ streams' = [streams EXCEPT ![i] = None]
    /\ pending' = pending \ {i} /\ uot' = uot \ {i}
    /\ UNCHANGED <<conn, settings, birth, tasks>>

\* The stream's control is dropped, which triggers its abort.
ClientFin(i) ==
    /\ conn = "open"
    /\ abort' = [k \in Opens |-> abort[k] \/ streams[i] = k]
    /\ streams' = [streams EXCEPT ![i] = None]
    /\ pending' = pending \ {i} /\ uot' = uot \ {i}
    /\ UNCHANGED <<conn, settings, birth, up, down, queue, reads, log, writer, broken>>

\* The heartbeat purges ended streams.
Heartbeat ==
    /\ conn = "open"
    /\ streams' = [i \in Ids |-> IF streams[i] # None /\ abort[streams[i]] THEN None ELSE streams[i]]
    /\ UNCHANGED <<conn, settings, pending, uot, birth, tasks>>

ParserStep ==
    \/ ConnectionEnds \/ ClientSettings \/ Heartbeat
    \/ \E i \in Ids : \/ ClientSyn(i) \/ ClientPayload(i) \/ ClientTarget(i)
                      \/ ClientUotRequest(i) \/ ClientFin(i)

----------------------------------------------------------------------------
(* run_tcp_stream, and the uplink task of a UOT stream *)

Dialing == {k \in Opens : up[k] = "connecting"}
rest == <<conn, tables, birth, reads>>

\* dial_budget.acquire_owned()
TakePermit(k) ==
    /\ up[k] = "dial" /\ ~abort[k]
    /\ Cardinality(Dialing) < MaxDials
    /\ Up(k, "connecting")
    /\ UNCHANGED <<rest, down, abort, queue, log, writer, broken>>

\* The dial succeeds, fails, or times out with or without its permit.
DialEnds(k) ==
    /\ ~abort[k]
    /\ \/ up[k] = "connecting" /\ Up(k, "connected")
       \/ up[k] \in {"dial", "connecting"} /\ Up(k, "failed")
    /\ UNCHANGED <<rest, down, abort, queue, log, writer, broken>>

\* The biased select! on the abort and the writer
LockForSynAck(k) ==
    /\ ~abort[k] /\ Lock(k)
    /\ \/ up[k] = "connected" /\ Up(k, "accept")
       \/ up[k] = "failed" /\ Up(k, "refuse")
    /\ UNCHANGED <<rest, down, abort, queue, log, broken>>

\* The task of a refused stream ends; that of an accepted one spawns the
\* downlink and becomes the uplink.
WriteSynAck(k) ==
    /\ up[k] \in {"accept", "refuse"} /\ Unlock(k)
    /\ IF up[k] = "accept"
       THEN Written(k, "synack") /\ Up(k, "relay") /\ Down(k, "read") /\ UNCHANGED abort
       ELSE Written(k, "refused") /\ Up(k, "done") /\ Trigger(k) /\ UNCHANGED down
    /\ UNCHANGED <<rest, queue, broken>>

\* An open that is given up returns its permit.
AbandonOpen(k) ==
    /\ abort[k] /\ up[k] \in {"dial", "connecting", "connected", "failed"}
    /\ Up(k, "done")
    /\ UNCHANGED <<rest, down, abort, queue, log, writer, broken>>

\* record_upload and the write to the target
ForwardPayload(k) ==
    /\ up[k] = "relay" /\ queue[k] > 0
    /\ queue' = [queue EXCEPT ![k] = @ - 1]
    /\ UNCHANGED <<rest, up, down, abort, log, writer, broken>>

\* record_upload or the target's write failed
UplinkFails(k) ==
    /\ up[k] = "relay" /\ queue[k] > 0
    /\ Up(k, "shutting")
    /\ queue' = [queue EXCEPT ![k] = @ - 1]
    /\ UNCHANGED <<rest, down, abort, log, writer, broken>>

UplinkAborted(k) ==
    /\ up[k] = "relay" /\ (abort[k] \/ conn = "ended")
    /\ Up(k, "shutting")
    /\ UNCHANGED <<rest, down, abort, queue, log, writer, broken>>

\* A stream that ends without a word to its downlink.
ShutOutboundOnly(k) ==
    /\ up[k] = "shutting" /\ Up(k, "done")
    /\ UNCHANGED <<rest, down, abort, queue, log, writer, broken>>

\* remote_writer.shutdown() with its timeout, then the abort of the downlink
ShutOutbound(k) ==
    /\ up[k] = "shutting" /\ Up(k, "done") /\ Trigger(k)
    /\ UNCHANGED <<rest, down, queue, log, writer, broken>>

\* The connection's abort drops the task wherever it is.
TaskDropped(k) ==
    /\ conn = "ended" /\ up[k] \notin {"none", "done"}
    /\ Up(k, "done") /\ Trigger(k)
    /\ IF up[k] \in {"accept", "refuse"} THEN Unlock(k) ELSE UNCHANGED writer
    /\ UNCHANGED <<rest, down, queue, log, broken>>

----------------------------------------------------------------------------
(* The downlink task *)

\* A payload, the end of the stream (TCP), or an error from the target
TargetSends(k) ==
    /\ down[k] = "read"
    /\ \/ /\ reads < MaxReads
          /\ reads' = reads + 1
          /\ Down(k, "record") /\ UNCHANGED abort
       \/ kind[k] = "tcp" /\ Down(k, "end") /\ UNCHANGED <<abort, reads>>
       \/ Down(k, "done") /\ Trigger(k) /\ UNCHANGED reads
    /\ UNCHANGED <<conn, tables, birth, up, queue, log, writer, broken>>

\* record_download: accepted, or refused
RecordDownload(k) ==
    /\ down[k] = "record"
    /\ \/ Down(k, "lock") /\ UNCHANGED abort
       \/ Down(k, "done") /\ Trigger(k)
    /\ UNCHANGED <<rest, up, queue, log, writer, broken>>

LockWriter(k) ==
    /\ Lock(k)
    /\ \/ down[k] = "lock" /\ Down(k, "write")
       \/ down[k] = "end" /\ Down(k, "fin")
    /\ UNCHANGED <<rest, up, abort, queue, log, broken>>

WriteFrame(k) ==
    /\ down[k] \in {"write", "fin"} /\ Unlock(k)
    /\ IF down[k] = "write"
       THEN Written(k, "psh") /\ Down(k, "read") /\ UNCHANGED abort
       ELSE Written(k, "fin") /\ Down(k, "done") /\ Trigger(k)
    /\ UNCHANGED <<rest, up, queue, broken>>

\* A write on the TLS stream fails, as do all that follow.
WriteFails(k) ==
    /\ writer = k /\ writer' = None
    /\ broken' = TRUE
    /\ Trigger(k)
    /\ IF up[k] \in {"accept", "refuse"} THEN Up(k, "done") /\ UNCHANGED down
                                         ELSE Down(k, "done") /\ UNCHANGED up
    /\ UNCHANGED <<rest, queue, log>>

\* A downlink that its abort also stops within a frame.
DownlinkAbortedAnywhere(k) ==
    /\ abort[k] /\ down[k] \in {"read", "record", "lock", "write"}
    /\ Down(k, "done") /\ Unlock(k)
    /\ UNCHANGED <<rest, up, abort, queue, log, broken>>

\* "A stream FIN cannot cancel a partially written mux frame."
DownlinkAborted(k) ==
    /\ abort[k] /\ down[k] \in {"read", "record", "lock"}
    /\ Down(k, "done")
    /\ UNCHANGED <<rest, up, abort, queue, log, writer, broken>>

\* The connection's abort interrupts even a frame.
DownlinkDropped(k) ==
    /\ conn = "ended" /\ down[k] \notin {"none", "done"}
    /\ Down(k, "done") /\ Trigger(k) /\ Unlock(k)
    /\ UNCHANGED <<rest, up, queue, log, broken>>

UplinkStep(k) ==
    \/ TakePermit(k) \/ DialEnds(k) \/ LockForSynAck(k) \/ WriteSynAck(k) \/ AbandonOpen(k)
    \/ ForwardPayload(k) \/ UplinkFails(k) \/ UplinkAborted(k) \/ ShutOutbound(k) \/ TaskDropped(k)

DownlinkStep(k) ==
    \/ TargetSends(k) \/ RecordDownload(k) \/ LockWriter(k) \/ WriteFrame(k) \/ WriteFails(k)
    \/ DownlinkAborted(k) \/ DownlinkDropped(k)

Next == ParserStep \/ \E k \in Opens : UplinkStep(k) \/ DownlinkStep(k)

Spec == Init /\ [][Next]_vars

\* Tasks notice their aborts, and the outbound shutdown has a timeout.  The
\* client and the targets may send and take nothing for ever.
FairSpec ==
    /\ Spec
    /\ \A k \in Opens : /\ WF_vars(AbandonOpen(k) \/ UplinkAborted(k) \/ ShutOutbound(k) \/ TaskDropped(k))
                        /\ WF_vars(DownlinkAborted(k) \/ DownlinkDropped(k))

----------------------------------------------------------------------------
\* No stream is out of reach: one that has not been aborted is the entry of
\* its id, so that a FIN, the heartbeat's purge and the end of the connection
\* find it, however ids are reused.  So the limits on streams, half-requested
\* UOT streams and dials in progress count every one.
NoOrphans ==
    /\ \A k \in 1..opened : ~abort[k] => streams[id[k]] = k
    /\ Used <= MaxStreams /\ Cardinality(uot) <= MaxPendingUot /\ Cardinality(Dialing) <= MaxDials

\* What the client sees of a stream: a refusal and nothing else, or one SYNACK
\* before all data and the FIN after it.
InOrder(frames) ==
    \A n \in DOMAIN frames :
        /\ frames[n] \in {"synack", "refused"} <=> n = 1
        /\ frames[n] \in {"refused", "fin"} => n = Len(frames)

\* The frames of every stream are in order, and whole: "A stream FIN cannot
\* cancel a partially written mux frame.  Only closing the whole TLS connection
\* may interrupt it", so while the connection works the writer is passed on
\* behind a whole frame.
FramesInOrder ==
    [][\A k \in Opens :
          /\ log'[k] # log[k] => InOrder(log'[k])
          /\ writer = k /\ writer' # k => log'[k] # log[k] \/ broken' \/ conn = "ended"]_vars

\* "Mux streams abort both directions when either side FINs, and the server
\* shuts down the outbound TCP write half": an ended half ends the other one
\* and the outbound side, except a downlink that waits for the client to take
\* a frame.  And the end of the connection ends every task it started.
StreamsEnd ==
    \A k \in Opens :
        /\ abort[k] \/ up[k] = "done" \/ down[k] = "done" ~>
              /\ up[k] \in {"none", "done", "accept", "refuse"}
              /\ down[k] \in {"none", "done", "write", "end", "fin"}
        /\ conn = "ended" ~> up[k] \in {"none", "done"} /\ down[k] \in {"none", "done"}
=============================================================================
