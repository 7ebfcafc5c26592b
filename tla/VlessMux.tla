------------------------------ MODULE VlessMux ------------------------------
(***************************************************************************)
(* The mux of a VLESS server (src/vless_mux.rs): the loop that handles the *)
(* client's frames, the relay task of each session from its target to the  *)
(* client, the session table they both take entries out of, and the lock   *)
(* on the client's stream.                                                 *)
(*                                                                         *)
(* A session is its generation.  Abort handles act at the task's next      *)
(* await: an aborted task may still take the steps of its current poll.    *)
(***************************************************************************)
EXTENDS Integers, FiniteSets

CONSTANTS
    Ids,           \* session ids the client uses
    MaxOpens,      \* bound on the sessions opened
    MaxSessions,   \* MAX_MUX_SESSIONS
    MaxReads       \* bound on the chunks read from a target

Gens == 1..MaxOpens
None == 0
Loop == MaxOpens + 1   \* relay_frames, as the holder of the writer

VARIABLES
    pc,          \* of relay_server: the step of its loop; "closing", "ended"; or "dropped"
    cur,         \* the generation it works on
    table,       \* Sessions
    opened,      \* NEXT_SESSION_GENERATION
    id, kind,    \* of each generation
    task,        \* its relay task
    aborted,     \* its AbortHandle was used
    out,         \* its target's write half: "open", or "shut" by the server
    orphans,     \* generations whose entry was dropped without a shutdown
    reads,       \* chunks its task has read
    ended,       \* generations whose task sent the END frame
    writer       \* the holder of the client's stream

loop == <<pc, cur, table>>
birth == <<opened, id, kind>>
tasks == <<task, reads, ended>>
control == <<aborted, out, orphans>>
vars == <<loop, birth, tasks, control, writer>>

Init ==
    /\ pc = "read" /\ cur = None /\ table = [i \in Ids |-> None]
    /\ opened = 0 /\ id = [k \in Gens |-> None] /\ kind = [k \in Gens |-> "tcp"]
    /\ task = [k \in Gens |-> "none"] /\ reads = [k \in Gens |-> 0]
    /\ ended = {} /\ aborted = {} /\ orphans = {}
    /\ out = [k \in Gens |-> "open"] /\ writer = None

Goto(step) == pc' = step
Size == Cardinality({i \in Ids : table[i] # None})
Entries == {table[i] : i \in Ids} \ {None}

----------------------------------------------------------------------------
(* SessionEntry::shutdown, and who calls it *)

\* A shutdown that leaves the target's write half open.
ShutdownTask(K) ==
    /\ aborted' = aborted \cup K
    /\ UNCHANGED out

\* The abort, then the shutdown of a TCP target's write half (which the abort
\* closes too, with the task's read half, when the loop is dropped in between).
Shutdown(K) ==
    /\ aborted' = aborted \cup K
    /\ out' = [k \in Gens |-> IF k \in K /\ kind[k] = "tcp" THEN "shut" ELSE out[k]]

\* shutdown_session: take whatever id i stands for, and shut it down.
ShutdownSession(i) ==
    /\ table' = [table EXCEPT ![i] = None]
    /\ Shutdown({table[i]} \ {None})

----------------------------------------------------------------------------
(* relay_frames *)

\* handle_new: the id's former session is shut down first.
ClientNew(i, network) ==
    /\ pc = "read" /\ opened < MaxOpens
    /\ ShutdownSession(i)
    /\ opened' = opened + 1 /\ cur' = opened + 1
    /\ id' = [id EXCEPT ![opened + 1] = i] /\ kind' = [kind EXCEPT ![opened + 1] = network]
    /\ Goto("dial")
    /\ UNCHANGED <<tasks, orphans, writer>>

\* open_tcp_session, open_udp_session: the target's socket and the task.
Open ==
    /\ pc = "dial"
    /\ task' = [task EXCEPT ![cur] = "read"]
    /\ Goto("insert")
    /\ UNCHANGED <<cur, table, birth, reads, ended, control, writer>>

\* insert_session; without room the whole mux ends, and the new entry is
\* dropped without being shut down.
Insert ==
    /\ pc = "insert"
    /\ IF Size < MaxSessions \/ table[id[cur]] # None
       THEN table' = [table EXCEPT ![id[cur]] = cur] /\ Goto("first") /\ UNCHANGED orphans
       ELSE orphans' = orphans \cup {cur} /\ Goto("closing") /\ UNCHANGED table
    /\ UNCHANGED <<cur, birth, tasks, aborted, out, writer>>

\* The payload of the NEW frame, if any, is recorded and sent.
FirstPayload ==
    /\ pc = "first" /\ Goto("read")
    /\ UNCHANGED <<cur, table, birth, tasks, control, writer>>

\* handle_keep: a frame without data is ignored; an unknown id is answered.
ClientKeep(i) ==
    /\ pc = "read"
    /\ cur' = table[i] /\ Goto(IF table[i] = None THEN "answer" ELSE "keep")
    /\ UNCHANGED <<table, birth, tasks, control, writer>>

KeepSent ==
    /\ pc = "keep" /\ Goto("read")
    /\ UNCHANGED <<cur, table, birth, tasks, control, writer>>

\* The target takes no more, or the frame names a target it must not: what
\* the id stands for by now is shut down, and the client told.
KeepFails ==
    /\ pc = "keep"
    /\ ShutdownSession(id[cur]) /\ Goto("answer")
    /\ UNCHANGED <<cur, birth, tasks, orphans, writer>>

\* write_end_frame by the loop, as one step once it has the writer; a failure
\* after a failed send is ignored, any other ends the mux.
Answer ==
    /\ pc = "answer" /\ writer = None
    /\ Goto("read")
    /\ UNCHANGED <<cur, table, birth, tasks, control, writer>>

ClientEnd(i) ==
    /\ pc = "read"
    /\ ShutdownSession(i)
    /\ UNCHANGED <<pc, cur, birth, tasks, orphans, writer>>

\* The end of the client's stream, a frame that does not parse, a target that
\* cannot be reached, a first payload that fails, a refused record_upload, or
\* a failed answer: every error of the loop.
LoopEnds ==
    /\ pc \in {"read", "dial", "first", "keep", "answer"} /\ Goto("closing")
    /\ UNCHANGED <<cur, table, birth, tasks, control, writer>>

\* close_all_sessions
CloseAll ==
    /\ pc = "closing" /\ Goto("ended")
    /\ table' = [i \in Ids |-> None]
    /\ Shutdown(Entries)
    /\ UNCHANGED <<cur, birth, tasks, orphans, writer>>

\* The physical connection of an HTTP/2 or gRPC stream ends, and vless_h2's serve
\* drops relay_server at the await where it is: nothing is shut down, and the
\* relay tasks go on with the table.
LoopDropped ==
    /\ pc \in {"read", "dial", "first", "keep", "answer"} /\ Goto("dropped")
    /\ UNCHANGED <<cur, table, birth, tasks, control, writer>>

\* The same inside close_all_sessions, at the shutdown of one of the entries.
CloseDropped ==
    /\ pc = "closing" /\ Goto("dropped")
    /\ table' = [i \in Ids |-> None]
    /\ \E K \in (SUBSET Entries) \ {{}} :
          Shutdown(K) /\ orphans' = orphans \cup (Entries \ K)
    /\ UNCHANGED <<cur, birth, tasks, writer>>

LoopStep ==
    \/ LoopDropped \/ CloseDropped
    \/ Open \/ Insert \/ FirstPayload \/ KeepSent \/ KeepFails \/ Answer \/ LoopEnds \/ CloseAll
    \/ \E i \in Ids : \/ ClientKeep(i) \/ ClientEnd(i)
                      \/ \E network \in {"tcp", "udp"} : ClientNew(i, network)

----------------------------------------------------------------------------
(* The relay task of generation k *)

Task(k, step) == task' = [task EXCEPT ![k] = step]
Lock(k) == writer = None /\ writer' = k
Unlock(k) == writer' = IF writer = k THEN None ELSE writer

TargetSends(k) ==
    /\ task[k] = "read" /\ reads[k] < MaxReads
    /\ Task(k, "lock") /\ reads' = [reads EXCEPT ![k] = @ + 1]
    /\ UNCHANGED <<loop, birth, ended, control, writer>>

\* The end of a TCP target, a read error, or a refused record_download
TargetEnds(k) ==
    /\ task[k] \in {"read", "lock"} /\ Task(k, "finish")
    /\ UNCHANGED <<loop, birth, reads, ended, control, writer>>

LockFrame(k) ==
    /\ task[k] \in {"lock", "endlock"} /\ Lock(k)
    /\ Task(k, IF task[k] = "lock" THEN "write" ELSE "end")
    /\ UNCHANGED <<loop, birth, reads, ended, control>>

DataWritten(k) ==
    /\ task[k] = "write" /\ Unlock(k)
    /\ \/ Task(k, "read") \/ Task(k, "finish")
    /\ UNCHANGED <<loop, birth, reads, ended, control>>

\* take_session_if_generation_matches that goes by the id alone.
FinishAny(k) ==
    /\ task[k] = "finish"
    /\ table' = [table EXCEPT ![id[k]] = None]
    /\ Task(k, IF table[id[k]] # None THEN "endlock" ELSE "done")
    /\ UNCHANGED <<pc, cur, birth, reads, ended, control, writer>>

\* take_session_if_generation_matches; only the session that was still the
\* id's current one tells the client.
Finish(k) ==
    /\ task[k] = "finish"
    /\ IF table[id[k]] = k
       THEN table' = [table EXCEPT ![id[k]] = None] /\ Task(k, "endlock")
       ELSE UNCHANGED table /\ Task(k, "done")
    /\ UNCHANGED <<pc, cur, birth, reads, ended, control, writer>>

\* The END frame is written, or the client is gone.
EndWritten(k) ==
    /\ task[k] = "end" /\ Unlock(k) /\ Task(k, "done")
    /\ ended' = ended \cup {k}
    /\ UNCHANGED <<loop, birth, reads, control>>

\* The abort takes effect, wherever the task waits.
TaskAborted(k) ==
    /\ k \in aborted /\ task[k] \notin {"none", "done"}
    /\ Task(k, "done") /\ Unlock(k)
    /\ UNCHANGED <<loop, birth, reads, ended, control>>

TaskStep(k) ==
    \/ TargetSends(k) \/ TargetEnds(k) \/ LockFrame(k) \/ DataWritten(k) \/ Finish(k)
    \/ EndWritten(k) \/ TaskAborted(k)

Next == LoopStep \/ \E k \in Gens : TaskStep(k)
Spec == Init /\ [][Next]_vars

\* Aborts take effect, and close_all_sessions goes on once it is called.
FairSpec == Spec /\ WF_vars(CloseAll) /\ \A k \in Gens : WF_vars(TaskAborted(k))

----------------------------------------------------------------------------
Relaying(k) == task[k] \in {"read", "lock", "write", "finish"}

\* The table, the relay tasks and the client agree, whichever of the loop and
\* the tasks is ahead.  A relay that was not aborted is the table's entry for
\* its id or is being inserted, so that an END, a NEW of the same id or the end
\* of the mux stops it; the table's entries are the latest sessions of their
\* ids, and none that was shut down; and the client learns of a session that
\* its target ended, by an END or because its next frame finds the entry.
\* (The exceptions are the session that found the table full and those that a
\* dropped close_all_sessions had not come to: their entries are gone and their
\* tasks left running.)  The table respects MAX_MUX_SESSIONS.
MuxTableExact ==
    /\ Size <= MaxSessions
    /\ \A k \in Gens :
          /\ k \notin aborted \cup orphans
          /\ Relaying(k) \/ (task[k] = "done" /\ k \notin ended)
          => table[id[k]] = k \/ (cur = k /\ pc = "insert")
    /\ \A i \in Ids : LET k == table[i] IN
          k # None => /\ id[k] = i /\ k \notin aborted /\ out[k] = "open"
                      /\ \A l \in Gens : id[l] = i /\ task[l] # "none" => l <= k \/ l = cur

\* "Mux STATUS_END ... close both directions": a session that is shut down,
\* for an END, a NEW of its id, a failed send or the end of the mux, loses its
\* relay task and its target's write half.  And a mux that comes to its
\* close_all_sessions ends every relay but the orphans.  (One that is dropped
\* before, with its HTTP/2 or gRPC connection, ends none.)
MuxSessionsEnd ==
    \A k \in Gens :
        /\ k \in aborted ~> task[k] = "done" /\ (out[k] = "shut" \/ kind[k] = "udp")
        /\ pc = "closing" ~> pc \in {"ended", "dropped"} /\ (Relaying(k) => k \in orphans)
=============================================================================
