------------------------------- MODULE Relay -------------------------------
(***************************************************************************)
(* The counted relay between two streams (src/relay.rs), which nearly all  *)
(* protocols end in: two pumps that read a chunk, record it and write it,  *)
(* a race of the pumps against the session's cancellation, and the         *)
(* shutdown of both writers.                                               *)
(*                                                                         *)
(* The direction d pumps from its source to its sink; chunks are counted,  *)
(* since they stay in order.  Peers send, close, fail and stop accepting   *)
(* bytes whenever they like.                                               *)
(***************************************************************************)
EXTENDS Naturals

CONSTANTS MaxChunks    \* bound on the chunks a peer sends

Directions == {"up", "down"}

VARIABLES
    halfClose,                  \* relay_split_with_close_mode's half_close
    sent, eof,                  \* the sources: chunks sent, writing side closed
    pump,                       \* step of the uplink and the downlink future
    taken, recorded, delivered, \* chunks read, recorded in the core, written
    fin,                        \* the sinks that have been shut down
    stuck,                      \* the sinks that accept nothing any more
    cancelled,                  \* the session's control
    phase, result               \* of the relay itself

source == <<sent, eof>>
progress == <<pump, taken, recorded, delivered>>
vars == <<halfClose, source, progress, fin, stuck, cancelled, phase, result>>

Init ==
    /\ halfClose \in BOOLEAN
    /\ sent = [d \in Directions |-> 0] /\ eof = {}
    /\ pump = [d \in Directions |-> "read"]
    /\ taken = [d \in Directions |-> 0]
    /\ recorded = [d \in Directions |-> 0]
    /\ delivered = [d \in Directions |-> 0]
    /\ fin = {} /\ stuck = {}
    /\ cancelled = FALSE
    /\ phase = "forward" /\ result = "none"

----------------------------------------------------------------------------
(* The peers and the administrator *)

PeerSends(d) ==
    /\ d \notin eof /\ sent[d] < MaxChunks
    /\ sent' = [sent EXCEPT ![d] = @ + 1]
    /\ UNCHANGED <<halfClose, eof, progress, fin, stuck, cancelled, phase, result>>

PeerCloses(d) ==
    /\ d \notin eof
    /\ eof' = eof \cup {d}
    /\ UNCHANGED <<halfClose, sent, progress, fin, stuck, cancelled, phase, result>>

SinkBlocks(d) ==
    /\ d \notin stuck
    /\ stuck' = stuck \cup {d}
    /\ UNCHANGED <<halfClose, source, progress, fin, cancelled, phase, result>>

Cancel ==
    /\ ~cancelled
    /\ cancelled' = TRUE
    /\ UNCHANGED <<halfClose, source, progress, fin, stuck, phase, result>>

----------------------------------------------------------------------------
(* The uplink and downlink futures *)

Goto(d, step) == pump' = [pump EXCEPT ![d] = step]

ReadChunk(d) ==
    /\ phase = "forward" /\ pump[d] = "read"
    /\ taken[d] < sent[d]
    /\ taken' = [taken EXCEPT ![d] = @ + 1]
    /\ Goto(d, "record")
    /\ UNCHANGED <<halfClose, source, recorded, delivered, fin, stuck, cancelled, phase, result>>

\* read == 0: with half_close the sink is shut down, then the pump is done.
ReadEof(d) ==
    /\ phase = "forward" /\ pump[d] = "read"
    /\ d \in eof /\ taken[d] = sent[d]
    /\ IF halfClose
       THEN d \notin stuck /\ fin' = fin \cup {d}
       ELSE UNCHANGED fin
    /\ Goto(d, "done")
    /\ UNCHANGED <<halfClose, source, taken, recorded, delivered, stuck, cancelled, phase, result>>

\* record_upload / record_download: refused by the quota or a cancellation.
Record(d) ==
    /\ phase = "forward" /\ pump[d] = "record"
    /\ \/ ~cancelled /\ recorded' = [recorded EXCEPT ![d] = @ + 1] /\ Goto(d, "write")
       \/ UNCHANGED recorded /\ Goto(d, "failed")
    /\ UNCHANGED <<halfClose, source, taken, delivered, fin, stuck, cancelled, phase, result>>

\* write_all and flush
WriteChunk(d) ==
    /\ phase = "forward" /\ pump[d] = "write"
    /\ d \notin stuck
    /\ delivered' = [delivered EXCEPT ![d] = @ + 1]
    /\ Goto(d, "read")
    /\ UNCHANGED <<halfClose, source, taken, recorded, fin, stuck, cancelled, phase, result>>

\* A read, write, flush or shutdown error.
PumpFails(d) ==
    /\ phase = "forward" /\ pump[d] \in {"read", "write"}
    /\ Goto(d, "failed")
    /\ UNCHANGED <<halfClose, source, taken, recorded, delivered, fin, stuck, cancelled, phase, result>>

PumpStep(d) == ReadChunk(d) \/ ReadEof(d) \/ Record(d) \/ WriteChunk(d) \/ PumpFails(d)

----------------------------------------------------------------------------
(* The select! over them, and the shutdown *)

Ended(state) == \E d \in Directions : pump[d] = state

\* try_join! that is content with one of the two futures.
ForwardedEither ==
    Ended("done") \/ Ended("failed")

\* When forwarding is over: try_join! of the two pumps, or select!.
Forwarded ==
    \/ Ended("failed")
    \/ IF halfClose THEN \A d \in Directions : pump[d] = "done" ELSE Ended("done")

\* The first of session.cancelled() and forwarding; both futures are dropped.
\* When one pump is done and the other failed, select! may report either.
Stop ==
    /\ phase = "forward"
    /\ \/ cancelled /\ result' = "error"
       \/ Forwarded /\ Ended("failed") /\ result' = "error"
       \/ /\ IF halfClose THEN ~Ended("failed") ELSE Ended("done")
          /\ Forwarded /\ result' = "ok"
    /\ phase' = "closing"
    /\ UNCHANGED <<halfClose, source, progress, fin, stuck, cancelled>>

ShutdownWriter(d) ==
    /\ phase = "closing"
    /\ d \notin fin /\ d \notin stuck
    /\ fin' = fin \cup {d}
    /\ UNCHANGED <<halfClose, source, progress, stuck, cancelled, phase, result>>

\* Both writers are shut down, or five seconds have passed: a sink that
\* accepts its shutdown does so earlier.
Return ==
    /\ phase = "closing"
    /\ \A d \in Directions : d \in fin \cup stuck
    /\ phase' = "returned"
    /\ UNCHANGED <<halfClose, source, progress, fin, stuck, cancelled, result>>

RelayStep == Stop \/ Return \/ \E d \in Directions : ShutdownWriter(d)

Next ==
    \/ \E d \in Directions : \/ PeerSends(d) \/ PeerCloses(d) \/ SinkBlocks(d)
                             \/ PumpStep(d)
    \/ Cancel \/ RelayStep

Spec == Init /\ [][Next]_vars

\* The task that runs the relay is scheduled and its timer fires; reads and
\* writes may take for ever.
FairSpec == /\ Spec /\ WF_vars(Stop) /\ WF_vars(Return)
            /\ \A d \in Directions : WF_vars(ShutdownWriter(d))

----------------------------------------------------------------------------
\* The relay is faithful whenever it is torn down.  Nothing passes uncounted:
\* a chunk that is delivered was recorded before, and at most the one chunk in
\* a pump's hands was read without being delivered.  A sink never sees the end
\* of its stream ahead of data.  And success means delivery: a half-closing
\* relay that returns Ok has "drained the other direction after FIN", any
\* other has delivered the direction it ended with.
Faithful ==
    /\ \A d \in Directions :
          /\ delivered[d] <= recorded[d] /\ taken[d] <= delivered[d] + 1
          /\ phase = "forward" /\ d \in fin => d \in eof /\ delivered[d] = sent[d]
    /\ result = "ok" =>
          /\ \E d \in Directions : d \in eof /\ delivered[d] = sent[d]
          /\ halfClose => \A d \in Directions : d \in eof /\ delivered[d] = sent[d]

\* A cancelled session's relay returns, even when both sinks are stuck.
CancelReturns == cancelled ~> phase = "returned"
=============================================================================
