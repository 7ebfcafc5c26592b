---------------------------- MODULE AnyTlsStream ----------------------------
(***************************************************************************)
(* The streams of one AnyTLS client session (src/client.rs): open_stream,  *)
(* the relay, StreamRegistration, the frame reader, the heartbeat, and     *)
(* ClientSession::close racing with all of them.  A session carries one    *)
(* stream after another (Exclusive of AnyTlsPool); what the task that uses *)
(* it does with it in between is there too.                                *)
(*                                                                         *)
(* Frames are the five kinds of events the code tells apart, tagged with   *)
(* the id of the stream they came for.                                     *)
(***************************************************************************)
EXTENDS Naturals, Sequences, Functions

CONSTANTS
    LastId,      \* the last stream id, u32::MAX in the code
    Capacity     \* of a stream's event channel, 32 in the code

ASSUME StreamAssumption == LastId \in Nat \ {0} /\ Capacity \in Nat \ {0}

StreamIds == 1..LastId
NoId == 0
Answers == {"synack", "refused", "data", "fin"}
Event(i, k) == [id |-> i, kind |-> k]
NoEvent == Event(NoId, "none")

VARIABLES
    close, abort,   \* progress of the first close(), the TaskAbort
    nextId,         \* next_stream_id
    v2,             \* server_v2
    streams,        \* the StreamRegistry
    broken,         \* the transport has failed
    torn,           \* a frame was left unfinished
    reader,         \* read_session_frames: "run" or "ended"
    sending,        \* the event it is sending
    callers,        \* close() was called by the reader, heartbeat or a Drop
    pc, id, chan,   \* of the user: its step, its stream, the stream's channel
    writing,        \* its uplink is inside a frame
    payload,        \* its downlink has a payload for the local client
    late,           \* its stream was registered after the drain
    cause,          \* what justifies a clean end: "fin" came, or "full" channel
    ended           \* how its last relay ended: "fin", "none", "error", "local"

session == <<close, abort, nextId, v2, streams, broken, reader, sending, callers>>
user == <<pc, id, chan, writing, payload, late, cause, ended>>
vars == <<session, torn, user>>

Init ==
    /\ close = "open" /\ abort = FALSE /\ nextId = 1 /\ v2 = FALSE /\ streams = {}
    /\ broken = FALSE /\ torn = FALSE /\ reader = "run" /\ sending = NoEvent
    /\ callers = FALSE
    /\ pc = "ready" /\ id = NoId /\ chan = <<>> /\ writing = FALSE /\ payload = FALSE
    /\ late = FALSE /\ cause = "no" /\ ended = "local"

WriterWorks == ~broken /\ close # "shut"

----------------------------------------------------------------------------
(* ClientSession::close *)

CallClose ==
    IF close = "open" THEN close' = "claimed" /\ UNCHANGED abort
                      ELSE abort' = TRUE /\ UNCHANGED close

\* close() of the reader, the heartbeat or a task spawned by a Drop
Claim ==
    /\ callers /\ callers' = FALSE
    /\ CallClose
    /\ UNCHANGED <<nextId, v2, streams, broken, reader, sending, torn, user>>

\* close() of the user itself, which waits for it when it is the first
UserClaim ==
    /\ pc = "close"
    /\ CallClose
    /\ pc' = IF close = "open" THEN "closing" ELSE "release"
    /\ UNCHANGED <<nextId, v2, streams, broken, reader, sending, callers, torn,
                   id, chan, writing, payload, late, cause, ended>>

TriggerAbort ==
    /\ close = "claimed"
    /\ abort' = TRUE /\ close' = "aborted"
    /\ UNCHANGED <<nextId, v2, streams, broken, reader, sending, callers, torn, user>>

\* try_send of the error to the user's stream: a place that the reader's own
\* send has been given counts as taken.
TryError ==
    \/ /\ Len(chan) < Capacity
       /\ chan' = Append(chan, Event(id, "error")) /\ UNCHANGED cause
    \/ /\ Len(chan) = Capacity \/ (sending.id = id /\ Len(chan) = Capacity - 1)
       /\ cause' = "full" /\ UNCHANGED chan

\* A drain that sends the error and keeps the senders.
FailKeepingSenders ==
    /\ close = "aborted"
    /\ IF id \in streams THEN TryError ELSE UNCHANGED <<chan, cause>>
    /\ close' = "drained"
    /\ UNCHANGED <<abort, nextId, v2, streams, broken, reader, sending, callers, torn,
                   pc, id, writing, payload, late, ended>>

\* A drain that tells nobody.
DrainSilently ==
    /\ close = "aborted"
    /\ streams' = {}
    /\ close' = "drained"
    /\ UNCHANGED <<abort, nextId, v2, broken, reader, sending, callers, torn, user>>

\* fail_open_streams: every sender is dropped, after a try_send of the error.
FailOpenStreams ==
    /\ close = "aborted"
    /\ IF id \in streams THEN TryError ELSE UNCHANGED <<chan, cause>>
    /\ streams' = {}
    /\ close' = "drained"
    /\ UNCHANGED <<abort, nextId, v2, broken, reader, sending, callers, torn,
                   pc, id, writing, payload, late, ended>>

\* writer.shutdown(), or SESSION_CLOSE_TIMEOUT
ShutWriter ==
    /\ close = "drained"
    /\ close' = "shut"
    /\ UNCHANGED <<abort, nextId, v2, streams, broken, reader, sending, callers, torn, user>>

CloseStep == Claim \/ UserClaim \/ TriggerAbort \/ FailOpenStreams \/ ShutWriter

----------------------------------------------------------------------------
(* open_stream *)

Goto(step) == pc' = step

\* The task has the session from acquire, alive when it was taken.
CheckClosed ==
    /\ pc = "ready"
    /\ Goto(IF close = "open" THEN "register" ELSE "release")
    /\ UNCHANGED <<session, torn, id, chan, writing, payload, late, cause, ended>>

RegisterAs(i) ==
    /\ streams' = streams \cup {i}
    /\ id' = i /\ chan' = <<>>
    /\ late' = (close \in {"drained", "shut"}) /\ cause' = "no"
    /\ Goto("syn")

\* next_stream_id.try_update with checked_add, and the registration
Register ==
    /\ pc = "register"
    /\ IF nextId = LastId
       THEN Goto("close") /\ UNCHANGED <<nextId, streams, id, chan, late, cause>>
       ELSE nextId' = nextId + 1 /\ RegisterAs(nextId)
    /\ UNCHANGED <<close, abort, v2, broken, reader, sending, callers, torn,
                   writing, payload, ended>>

\* Drop for StreamRegistration, before finish() has returned
Abandon ==
    /\ streams' = streams \ {id}
    /\ abort' = TRUE /\ callers' = TRUE
    /\ payload' = FALSE
    /\ Goto("release")
    /\ UNCHANGED <<close, nextId, v2, broken, reader, sending, id, writing, late, cause, ended>>

\* The SYN, the target and the first payload
WriteSyn ==
    /\ pc = "syn"
    /\ \/ /\ WriterWorks /\ Goto("await")
          /\ UNCHANGED <<session, torn, id, chan, writing, payload, late, cause, ended>>
       \/ ~WriterWorks /\ Abandon /\ torn' = TRUE /\ UNCHANGED chan

\* events_rx.recv(): the next event, or none when all senders are gone
Recv(kinds) == chan # <<>> /\ Head(chan).kind \in kinds /\ chan' = Tail(chan)
RecvNone == chan = <<>> /\ id \notin streams /\ sending.id # id /\ UNCHANGED chan

\* An empty SYNACK, or data from a server that has not announced version 2,
\* which is kept as pending
StreamOpens ==
    /\ pc = "await"
    /\ \/ Recv({"synack"}) /\ UNCHANGED payload
       \/ ~v2 /\ Recv({"data"}) /\ payload' = TRUE
    /\ Goto("relay")
    /\ UNCHANGED <<session, torn, id, writing, late, cause, ended>>

KeepPending ==
    /\ pc = "await" /\ v2
    /\ Recv({"data"})
    /\ payload' = TRUE
    /\ UNCHANGED <<session, torn, pc, id, writing, late, cause, ended>>

StreamRefused ==
    /\ pc = "await"
    /\ Recv({"refused", "fin", "error"}) \/ RecvNone
    /\ Abandon
    /\ UNCHANGED torn

\* CONNECT authenticates and answers its client when the stream is open.
FailAfterOpen ==
    /\ pc = "relay" /\ ~writing
    /\ Abandon
    /\ UNCHANGED <<torn, chan>>

----------------------------------------------------------------------------
(* relay_tcp_counted and handle_udp_associate_counted *)

StartFrame ==
    /\ pc = "relay" /\ ~writing
    /\ writing' = TRUE
    /\ UNCHANGED <<session, torn, pc, id, chan, payload, late, cause, ended>>

EndFrame ==
    /\ writing /\ WriterWorks
    /\ writing' = FALSE
    /\ UNCHANGED <<session, torn, pc, id, chan, payload, late, cause, ended>>

ReadPayload ==
    /\ pc = "relay" /\ ~payload
    /\ Recv({"data"})
    /\ payload' = TRUE
    /\ UNCHANGED <<session, torn, pc, id, writing, late, cause, ended>>

\* read_payload passes over a late SYNACK.
SkipSynAck ==
    /\ pc = "relay" /\ ~payload
    /\ Recv({"synack"})
    /\ UNCHANGED <<session, torn, pc, id, writing, payload, late, cause, ended>>

\* record_download and the write to the local client have returned; a client
\* that takes nothing holds the downlink up.
Deliver ==
    /\ pc = "relay" /\ payload
    /\ payload' = FALSE
    /\ UNCHANGED <<session, torn, pc, id, chan, writing, late, cause, ended>>

\* A branch of select! ends and the uplink's future is dropped where it is,
\* within a frame or not.
EndRelay(how) ==
    /\ pc = "relay"
    /\ ended' = how
    /\ writing' = FALSE /\ payload' = FALSE /\ torn' = (torn \/ writing)
    /\ Goto("finish")
    /\ UNCHANGED <<session, id, late, cause>>

DownlinkEnds ==
    /\ ~payload
    /\ \/ Recv({"fin"}) /\ EndRelay("fin")
       \/ RecvNone /\ EndRelay("none")
       \/ Recv({"error", "refused"}) /\ EndRelay("error")

\* The local connection is over (of a UDP association, its control connection),
\* a limit is hit or the core session cancelled.
LocalEnds == UNCHANGED chan /\ EndRelay("local")

\* StreamRegistration::finish
Unregister ==
    /\ pc = "finish"
    /\ streams' = streams \ {id}
    /\ Goto("fin")
    /\ UNCHANGED <<close, abort, nextId, v2, broken, reader, sending, callers, torn,
                   id, chan, writing, payload, late, cause, ended>>

\* The FIN is written, or the session closed when that fails or times out.
WriteFin ==
    /\ pc = "fin"
    /\ \/ WriterWorks /\ Goto("release")
       \/ Goto("close")
    /\ UNCHANGED <<session, torn, id, chan, writing, payload, late, cause, ended>>

\* The receiver is dropped; the pool hands the session on while it is alive.
Release ==
    /\ pc = "release" \/ (pc = "closing" /\ close = "shut")
    /\ Goto(IF abort THEN "gone" ELSE "ready")
    /\ id' = NoId /\ chan' = <<>> /\ late' = FALSE /\ cause' = "no" /\ ended' = "local"
    /\ UNCHANGED <<session, torn, writing, payload>>

----------------------------------------------------------------------------
(* read_session_frames, run_heartbeat, the server and the network *)

Reading == reader = "run" /\ sending = NoEvent /\ ~broken

\* A FIN handler that leaves the stream in the registry.
FrameArrivesKeeping(i, k) ==
    /\ Reading
    /\ i \in streams /\ sending' = Event(i, k) /\ UNCHANGED streams
    /\ UNCHANGED <<close, abort, nextId, v2, broken, reader, callers, torn, user>>

\* A handler that takes the sender of any frame's stream out of the registry.
FrameArrivesRemoving(i, k) ==
    /\ Reading
    /\ i \in streams /\ sending' = Event(i, k)
    /\ streams' = streams \ {i}
    /\ UNCHANGED <<close, abort, nextId, v2, broken, reader, callers, torn, user>>

\* handle_session_frame: a frame of a stream that is not registered is dropped.
FrameArrives(i, k) ==
    /\ Reading
    /\ i \in streams /\ sending' = Event(i, k)
    /\ streams' = IF k = "fin" THEN streams \ {i} ELSE streams
    /\ cause' = IF k = "fin" /\ i = id THEN "fin" ELSE cause
    /\ UNCHANGED <<close, abort, nextId, v2, broken, reader, callers, torn,
                   pc, id, chan, writing, payload, late, ended>>

\* sender.send(event).await: waits for room, and fails without a receiver.
SendEvent ==
    /\ sending # NoEvent
    /\ sending.id = id => Len(chan) < Capacity
    /\ chan' = IF sending.id = id THEN Append(chan, sending) ELSE chan
    /\ sending' = NoEvent
    /\ UNCHANGED <<close, abort, nextId, v2, streams, broken, reader, callers, torn,
                   pc, id, writing, payload, late, cause, ended>>

ServerSettings ==
    /\ Reading /\ ~v2
    /\ v2' = TRUE
    /\ UNCHANGED <<close, abort, nextId, streams, broken, reader, sending, callers, torn, user>>

\* The abort ends the reader wherever it is; an unreadable frame, an alert or
\* a write that fails ends it with a close().
ReaderEnds ==
    /\ reader = "run"
    /\ \/ abort /\ UNCHANGED callers
       \/ sending = NoEvent /\ callers' = TRUE
    /\ reader' = "ended" /\ sending' = NoEvent
    /\ UNCHANGED <<close, abort, nextId, v2, streams, broken, torn, user>>

\* A heartbeat that cannot be written
HeartbeatFails ==
    /\ broken /\ ~abort /\ ~callers
    /\ callers' = TRUE
    /\ UNCHANGED <<close, abort, nextId, v2, streams, broken, reader, sending, torn, user>>

TransportBreaks ==
    /\ ~broken
    /\ broken' = TRUE
    /\ UNCHANGED <<close, abort, nextId, v2, streams, reader, sending, callers, torn, user>>

----------------------------------------------------------------------------
UserStep ==
    \/ CheckClosed \/ Register \/ WriteSyn \/ StreamOpens \/ KeepPending \/ StreamRefused
    \/ FailAfterOpen \/ StartFrame \/ EndFrame \/ ReadPayload \/ SkipSynAck \/ Deliver
    \/ DownlinkEnds \/ LocalEnds \/ Unregister \/ WriteFin \/ Release

SessionStep ==
    \/ \E i \in StreamIds, k \in Answers : FrameArrives(i, k)
    \/ SendEvent \/ ServerSettings \/ ReaderEnds \/ HeartbeatFails \/ TransportBreaks

Next == UserStep \/ CloseStep \/ SessionStep

Spec == Init /\ [][Next]_vars

\* A task takes the events that are there.
TakeEvents ==
    StreamOpens \/ KeepPending \/ StreamRefused \/ ReadPayload \/ SkipSynAck \/ DownlinkEnds

\* A runnable task is scheduled: close() goes on, the reader notices the abort
\* and a task that reads events takes them.  No frame need ever come, and the
\* local client need not take a payload.
FairSpec == Spec /\ WF_vars(CloseStep) /\ WF_vars(abort /\ ReaderEnds) /\ WF_vars(TakeEvents)

----------------------------------------------------------------------------
\* Frames never reach another stream: an event in a stream's channel came for
\* that stream, though the reader may still be sending an event of the
\* session's previous stream, and nothing follows a FIN.
OwnEvents ==
    /\ \A n \in DOMAIN chan : chan[n].id = id
    /\ \A n \in 1..(Len(chan) - 1) : chan[n].kind # "fin"

\* A stream that is still open is not cut off: while its session has not been
\* drained, its sender is in the registry or its FIN is on the way.
StreamReachable ==
    pc \in {"syn", "await", "relay"} /\ close \notin {"drained", "shut"} =>
        \/ id \in streams
        \/ Event(id, "fin") \in Range(chan) \cup {sending}
        \/ abort

\* A clean end of a relay (a FIN, or a channel without senders) means that the
\* server's FIN arrived; the exception is a channel without a free place when
\* its session failed, which the error does not get into.
CleanEndMeansFin == ended \in {"fin", "none"} => cause # "no"

\* "Dropping a partially written frame cannot safely reuse this TLS session":
\* no stream is opened on a session that was left with an unfinished frame.
UnfinishedFrameNotReused == torn => pc \notin {"ready", "register", "syn"} \/ abort

\* The end of a session reaches its stream: a stream that was registered when
\* the registry was drained gets its error or the end of its channel and ends,
\* unless the local client leaves the downlink with a payload for good.  (A
\* stream registered after the drain is told by nobody.)
CloseReachesStream ==
    []<>~(pc = "relay" /\ payload) =>
        (close = "shut" /\ pc \in {"await", "relay"} /\ ~late ~> pc \notin {"await", "relay"})
=============================================================================
