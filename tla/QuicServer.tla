----------------------------- MODULE QuicServer -----------------------------
(***************************************************************************)
(* One QUIC connection at a server: TUIC (src/tuic.rs) and Hysteria2       *)
(* (src/hysteria2.rs).  A command is what a stream or a datagram asks for. *)
(* TUIC serves each stream in a task of its own and the datagrams in one   *)
(* loop; all of them wait for the Authenticate command, which comes on a   *)
(* stream like the others and may come last, fail, or be repeated.         *)
(* Hysteria2 accepts commands only after its HTTP/3 authentication.  UDP   *)
(* associations have a socket each, with a task that carries the replies.  *)
(*                                                                         *)
(* The packets are whole; UdpReassembly has the fragments.  The client may *)
(* close the connection at any moment.                                     *)
(***************************************************************************)
EXTENDS Integers, Sequences

CONSTANTS
    Scenarios,    \* [proto, kind, user, assoc]: the commands a client gives;
                  \* a user of an "auth" command is 0 if the token is wrong
    Commands,
    Assocs,       \* association and session ids
    MaxSockets,   \* bound: sockets opened
    Idle,         \* UDP_SESSION_IDLE_TIMEOUT, in ticks
    MaxNow        \* bound: ticks

\* What a scenario is: every command has a kind, a user and an association.
Kinds == {"auth", "packet", "datagram", "dissociate", "connect"}
WellFormed ==
    /\ Idle \in Nat
    /\ Scenarios \subseteq [proto : {"tuic", "hy2"}, kind : [Commands -> Kinds], user : [Commands -> Nat],
                           assoc : [Commands -> Assocs]]

VARIABLES
    scene,     \* the scenario
    conn,      \* "open", "closed", or "ended" once the handler has returned
    session,   \* the user of TuicAuthState::session, 0 for None
    error,     \* TuicAuthState::error is set
    pc,        \* where the task of each command is
    heard,     \* the command's Notified has been notified
    who,       \* the session the command goes on with
    held,      \* the ServerUdpSession the command holds, 0 for none
    table,     \* udp_sessions
    sock,      \* the sockets opened: association, user, last_seen
    resp,      \* the reply task of each socket
    last,      \* history: the socket that last sent for an association, when
    now

vars == <<scene, conn, session, error, pc, heard, who, held, table, sock, resp, last, now>>

NoOne == 0
Never == [s |-> 0, at |-> 0]
Tuic == scene.proto = "tuic"
Kind(c) == scene.kind[c]
Assoc(c) == scene.assoc[c]
Active(c) == pc[c] \notin {"idle", "done"}
Waiting(c) == pc[c] \in {"session", "error", "asleep"}
Busy(kind) == \E c \in Commands : Kind(c) = kind /\ Active(c)

Init ==
    /\ scene \in Scenarios
    /\ conn = "open" /\ session = NoOne /\ error = FALSE
    /\ pc = [c \in Commands |-> "idle"] /\ heard = [c \in Commands |-> FALSE]
    /\ who = [c \in Commands |-> NoOne] /\ held = [c \in Commands |-> 0]
    /\ table = [a \in Assocs |-> 0] /\ sock = <<>> /\ resp = <<>>
    /\ last = [a \in Assocs |-> Never] /\ now = 0

Goto(c, l) == pc' = [pc EXCEPT ![c] = l]

(***************************************************************************)
(* Drop of ServerUdpSession: the reply task is aborted with the last       *)
(* reference, the table's or a command's.  The table itself goes with the  *)
(* handler, the loops and the stream tasks that share it.                  *)
(***************************************************************************)
Sharing == IF Tuic THEN {"auth", "packet", "dissociate"} ELSE {"datagram"}
TableHeld ==
    conn # "ended" \/ \E c \in Commands : Kind(c) \in Sharing /\ Active(c)
Referenced(s) ==
    \/ TableHeld /\ \E a \in Assocs : table[a] = s
    \/ \E c \in Commands : held[c] = s
Dropped(tasks) ==
    [s \in DOMAIN tasks |-> IF tasks[s] = "run" /\ ~Referenced(s)' THEN "aborted" ELSE tasks[s]]
Drop == resp' = Dropped(resp)

----------------------------------------------------------------------------
(* Accepting commands *)

\* run_server_uni_loop and the accept loop spawn; the datagram loop takes one
\* datagram after the other.
TuicAccept(c) ==
    /\ Kind(c) = "datagram" => ~Busy("datagram")
    /\ Goto(c, IF Kind(c) = "auth" THEN "verify" ELSE "enter")

\* authenticate_server takes one request after the other, and the streams and
\* datagrams are accepted when it has returned.
Hy2Accept(c) ==
    IF Kind(c) = "auth" THEN session = NoOne /\ ~Busy("auth") /\ Goto(c, "verify")
    ELSE /\ session # NoOne /\ (Kind(c) = "datagram" => ~Busy("datagram"))
         /\ Goto(c, "enter")

Accept(c) ==
    /\ pc[c] = "idle" /\ conn = "open"
    /\ IF Tuic THEN TuicAccept(c) ELSE Hy2Accept(c)
    /\ UNCHANGED <<scene, conn, session, error, heard, who, held, table, sock, resp, last, now>>

----------------------------------------------------------------------------
(* Authentication *)

\* authenticate_tuic_connection: the token, then the core, which may refuse.
TuicVerify(c, admitted) ==
    IF scene.user[c] # NoOne /\ admitted
    THEN /\ session' = scene.user[c] /\ Goto(c, "notify") /\ UNCHANGED <<conn, error>>
    ELSE /\ error' = TRUE /\ Goto(c, "notify-error") /\ UNCHANGED <<conn, session>>

\* authenticate_server: a wrong password is answered like any web request; a
\* user the core refuses, or an answer that cannot be sent, ends the handler.
Hy2Verify(c, admitted) ==
    /\ Goto(c, "done") /\ UNCHANGED error
    /\ IF scene.user[c] = NoOne THEN UNCHANGED <<conn, session>>
       ELSE IF admitted THEN session' = scene.user[c] /\ UNCHANGED conn
       ELSE conn' = "closed" /\ UNCHANGED session

Verify(c, admitted) ==
    /\ pc[c] = "verify"
    /\ IF Tuic THEN TuicVerify(c, admitted) ELSE Hy2Verify(c, admitted)
    /\ UNCHANGED <<scene, heard, who, held, table, sock, last, now>>
    /\ Drop

\* set_session and set_error notify after the lock is released.
NotifyWaiters(c) ==
    /\ pc[c] \in {"notify", "notify-error"}
    /\ heard' = [d \in Commands |-> heard[d] \/ Waiting(d)]
    /\ Goto(c, IF pc[c] = "notify" THEN "done" ELSE "close")
    /\ UNCHANGED <<scene, conn, session, error, who, held, table, sock, last, now>>
    /\ Drop

\* A failed Authenticate closes the connection.
CloseOnError(c) ==
    /\ pc[c] = "close"
    /\ conn' = IF conn = "open" THEN "closed" ELSE conn
    /\ Goto(c, "done")
    /\ UNCHANGED <<scene, session, error, heard, who, held, table, sock, last, now>>
    /\ Drop

\* Hysteria2's auth_timeout, which only a request that is awaited loses to.
AuthTimeout ==
    /\ ~Tuic /\ conn = "open" /\ session = NoOne /\ ~Busy("auth") /\ conn' = "closed"
    /\ UNCHANGED <<scene, session, error, pc, heard, who, held, table, sock, resp, last, now>>

----------------------------------------------------------------------------
(* TuicAuthState::wait_session.  Hysteria2 has its session at once. *)

AfterWait(c) ==
    CASE Kind(c) \in {"packet", "datagram"} -> "open"
      [] Kind(c) = "dissociate" -> "remove"
      [] Kind(c) = "connect" -> "relay"

\* notified() first: a notification from here on is not lost.
Enter(c) ==
    /\ pc[c] = "enter"
    /\ Goto(c, "session") /\ heard' = [heard EXCEPT ![c] = FALSE]
    /\ UNCHANGED <<scene, conn, session, error, who, held, table, sock, resp, last, now>>

CheckSession(c) ==
    /\ pc[c] = "session"
    /\ Goto(c, IF session # NoOne THEN AfterWait(c) ELSE "error")
    /\ who' = [who EXCEPT ![c] = session]
    /\ UNCHANGED <<scene, conn, session, error, heard, held, table, sock, resp, last, now>>

CheckError(c) ==
    /\ pc[c] = "error"
    /\ Goto(c, IF error THEN "done" ELSE "asleep")
    /\ UNCHANGED <<scene, conn, session, error, heard, who, held, table, sock, last, now>>
    /\ Drop

Wake(c) ==
    /\ pc[c] = "asleep" /\ heard[c] /\ Goto(c, "enter")
    /\ UNCHANGED <<scene, conn, session, error, heard, who, held, table, sock, resp, last, now>>

----------------------------------------------------------------------------
(* The commands *)

Bind(c) == [assoc |-> Assoc(c), user |-> who[c], seen |-> now]

\* A lookup that forgets to look.
AcquireAlways(c) ==
    LET s == Len(sock) + 1 IN
    /\ pc[c] = "open" /\ s <= MaxSockets
    /\ sock' = Append(sock, Bind(c)) /\ table' = [table EXCEPT ![Assoc(c)] = s]
    /\ held' = [held EXCEPT ![c] = s] /\ Goto(c, "record")
    /\ UNCHANGED <<scene, conn, session, error, heard, who, last, now>>
    /\ resp' = Dropped(Append(resp, "run"))

\* get_server_udp_session, under the table's lock; get_or_create_server_udp_
\* session, in the one loop.  The name may not resolve, the bind may fail.
Acquire(c) ==
    LET s == table[Assoc(c)]
        n == Len(sock) + 1
    IN  /\ pc[c] = "open"
        /\ UNCHANGED <<scene, conn, session, error, heard, who, last, now>>
        /\ \/ /\ s # 0 /\ held' = [held EXCEPT ![c] = s] /\ Goto(c, "record")
              /\ UNCHANGED <<table, sock, resp>>
           \/ /\ s = 0 /\ n <= MaxSockets
              /\ sock' = Append(sock, Bind(c)) /\ resp' = Append(resp, "run")
              /\ table' = [table EXCEPT ![Assoc(c)] = n]
              /\ held' = [held EXCEPT ![c] = n] /\ Goto(c, "record")
           \/ Goto(c, "done") /\ UNCHANGED <<held, table, sock>> /\ Drop

\* Hysteria2 notes the time after it has sent.
Seen(s) == [sock EXCEPT ![s].seen = now]

\* record_upload, which waits for the rate and may refuse, then send_to.
Send(c, admitted) ==
    LET s == held[c]
        a == Assoc(c)
    IN  /\ pc[c] = "record"
        /\ sock' = IF admitted THEN Seen(s) ELSE sock
        /\ last' = IF admitted /\ table[a] = s THEN [last EXCEPT ![a] = [s |-> s, at |-> now]] ELSE last
        /\ held' = [held EXCEPT ![c] = 0] /\ Goto(c, "done")
        /\ UNCHANGED <<scene, conn, session, error, heard, who, table, now>>
        /\ Drop

\* Dissociate.
Remove(c) ==
    /\ pc[c] = "remove"
    /\ table' = [table EXCEPT ![Assoc(c)] = 0] /\ last' = [last EXCEPT ![Assoc(c)] = Never]
    /\ Goto(c, "done")
    /\ UNCHANGED <<scene, conn, session, error, heard, who, held, sock, now>>
    /\ Drop

\* Connect: the target is connected and relayed until it ends (Relay).
RelayEnds(c) ==
    /\ pc[c] = "relay" /\ Goto(c, "done")
    /\ UNCHANGED <<scene, conn, session, error, heard, who, held, table, sock, resp, last, now>>

\* A reply task fails; its socket stays in the table.
ReplyFails(s) ==
    /\ resp[s] = "run" /\ resp' = [resp EXCEPT ![s] = "ended"]
    /\ UNCHANGED <<scene, conn, session, error, pc, heard, who, held, table, sock, last, now>>

----------------------------------------------------------------------------
(* Time, and the end of the connection *)

Tick ==
    /\ ~Tuic /\ now < MaxNow /\ now' = now + 1
    /\ UNCHANGED <<scene, conn, session, error, pc, heard, who, held, table, sock, resp, last>>

\* cleanup_server_udp_state, between two datagrams.
Cleanup ==
    LET old == {a \in Assocs : table[a] # 0 /\ now - sock[table[a]].seen >= Idle} IN
    /\ ~Tuic /\ conn # "ended" /\ ~Busy("datagram") /\ old # {}
    /\ table' = [a \in Assocs |-> IF a \in old THEN 0 ELSE table[a]]
    /\ last' = [a \in Assocs |-> IF now - last[a].at >= Idle THEN Never ELSE last[a]]
    /\ UNCHANGED <<scene, conn, session, error, pc, heard, who, held, sock, now>>
    /\ Drop

\* The client closes, or the connection is lost.
Close ==
    /\ conn = "open" /\ conn' = "closed"
    /\ UNCHANGED <<scene, session, error, pc, heard, who, held, table, sock, resp, last, now>>

\* accept_bi fails and the handler returns.  TUIC aborts its loops, and with
\* the datagram loop the datagram being served; the stream tasks go on.
HandlerEnds ==
    LET cut(c) == Tuic /\ Kind(c) = "datagram" /\ Active(c) IN
    /\ conn = "closed" /\ (Tuic \/ ~Busy("auth")) /\ conn' = "ended"
    /\ pc' = [c \in Commands |-> IF cut(c) THEN "done" ELSE pc[c]]
    /\ held' = [c \in Commands |-> IF cut(c) THEN 0 ELSE held[c]]
    /\ UNCHANGED <<scene, session, error, heard, who, table, sock, last, now>>
    /\ Drop

Step(c) ==
    \/ \E ok \in BOOLEAN : Verify(c, ok) \/ Send(c, ok)
    \/ NotifyWaiters(c) \/ CloseOnError(c)
    \/ Enter(c) \/ CheckSession(c) \/ CheckError(c) \/ Wake(c)
    \/ Acquire(c) \/ Remove(c)

Next ==
    \/ \E c \in Commands : Accept(c) \/ Step(c) \/ RelayEnds(c)
    \/ \E s \in DOMAIN resp : ReplyFails(s)
    \/ AuthTimeout \/ Tick \/ Cleanup \/ Close \/ HandlerEnds

Spec == Init /\ [][Next]_vars

----------------------------------------------------------------------------
\* What a connection owes its commands, in whatever order they come and are
\* served.  wait_session loses no wake-up: once the authentication is decided,
\* a command that sleeps has been notified or is about to be.  Only an
\* authenticated user has UDP sockets.  The socket that sent an association's
\* last packet stays its socket, the one that replies come to, until it is
\* dissociated or idle.  And no reply task outlives the connection's handler
\* and the commands under way.
CommandsServed ==
    /\ \A c \in Commands : pc[c] = "asleep" /\ (session # NoOne \/ error) =>
          heard[c] \/ \E d \in Commands : pc[d] \in {"notify", "notify-error"}
    /\ \A s \in DOMAIN sock : sock[s].user # NoOne
    /\ \A a \in Assocs : last[a].s # 0 /\ TableHeld => table[a] = last[a].s
    /\ \A s \in DOMAIN resp : resp[s] = "run" =>
          conn # "ended" \/ \E c \in Commands : Active(c) /\ Kind(c) # "connect"
=============================================================================
