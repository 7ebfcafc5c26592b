----------------------------- MODULE MieruPacket -----------------------------
(***************************************************************************)
(* One Mieru session over the UDP ("packet") underlay, from src/mieru.rs:   *)
(* the two ends of the session, each with its application side              *)
(* (MieruSession), its output task (run_mieru_session_output with           *)
(* PacketSendWindow) and its receive side (route_session_segment with       *)
(* ReceiveFlow), and a network that loses, duplicates, delays and reorders. *)
(*                                                                          *)
(* End 0 is the client.  Ends 1..MaxBorn are the sessions the server makes  *)
(* for the same session id, in the order it makes them: a delayed open      *)
(* request that arrives after the first session has gone makes another.     *)
(*                                                                          *)
(* The channel of SessionCommands between the reading task and the output   *)
(* task only delays an acknowledgement, which the network does anyway: a    *)
(* command is carried out in the step that queues it.  Sizes are counted in *)
(* packets; timers may fire at any moment.                                  *)
(***************************************************************************)
EXTENDS Integers, FiniteSets, FiniteSetsExt, Sequences

CONSTANTS
    SeqMod,          \* sequence numbers are modulo this (2^32)
    Scenarios,       \* [start, bounds]: the sequence number a modelled session
                     \* starts from; of the client and of a server session, how
                     \* often it writes and whether it closes
    Window,          \* MAX_PENDING_SEGMENTS = ACK_WINDOW_SIZE (1024)
    Budget,          \* SESSION_RECEIVE_BYTES, in packets
    Headroom,        \* what a reordered packet must leave free, in packets
    InitialWindow,   \* peer_window of a new PacketSendWindow (32)
    MaxCwnd,         \* the limit of Cubic's window (512)
    TxLimit,         \* PACKET_TX_COUNT_LIMIT (20)
    SendBudget,      \* permits of send_budget (8)
    MaxBorn,         \* bound: sessions the server makes for the id
    Capacity         \* bound: packets on their way at a time

(* The code's values satisfy what the algorithm rests on, and so must those *)
(* chosen for a model: 2 * Window < SeqMod, so that a window fits in half   *)
(* of the sequence space; InitialWindow <= Budget and <= Window, so that the *)
(* receiver has the room the sender assumes before the first answer.        *)

VARIABLES
    end,    \* the state of each end
    ctab,   \* whether the client's session map holds the session
    stab,   \* the server session its map holds for the id, 0 when none
    born,   \* sessions the server has made
    seen,   \* transmissions of the open request in the replay cache
    net     \* the packets on their way

vars == <<end, ctab, stab, born, seen, net>>

Client == 0
Ends == 0 .. MaxBorn
Seqs == 0 .. SeqMod - 1
Half == SeqMod \div 2
None == -1

Add(a, n) == (a + n) % SeqMod
Minus(a, b) == (a - b) % SeqMod

(***************************************************************************)
(* The receive side: what is still free, and the window it may announce.    *)
(***************************************************************************)
Room(x) == Budget - Len(x.unread) - Cardinality(x.early)

\* An announcement that counts the early packets and forgets the unread ones.
AnnounceEarly(x) == Min({Budget, Window}) - Cardinality(x.early)

Announce(x) == Min({Room(x), Window - Cardinality(x.early)})

Refresh(x) == [x EXCEPT !.win = Announce(x)]

NewEnd(e, start, bound) ==
    [bound |-> bound, task |-> "run", app |-> "open", cause |-> "none",
     wrote |-> 0, sent |-> 0, next |-> start, unacked |-> {},
     opened |-> e # Client \/ start # 0, closing |-> FALSE, ackDue |-> FALSE,
     peerAck |-> start, peerWin |-> InitialWindow,
     rnext |-> start, early |-> {}, unread |-> <<>>, got |-> <<>>,
     win |-> Min({Budget, Window})]

Unborn == [NewEnd(Client, 0, [writes |-> 0, closes |-> FALSE]) EXCEPT !.task = "none", !.app = "closed"]

(***************************************************************************)
(* Packets.                                                                 *)
(***************************************************************************)
Packet(e, kind, seq, pos) ==
    [to |-> IF e = Client THEN "server" ELSE "client", kind |-> kind,
     seq |-> seq, from |-> e, pos |-> pos, ack |-> None, win |-> 0, try |-> 0]

\* ReceiveFlow::ack, and the same fields of a data packet.
WithAck(m, x) == [m EXCEPT !.ack = x.rnext, !.win = Announce(x)]

AckPacket(e, x) == WithAck(Packet(e, "ack", 0, 0), x)

\* A transmission of an open request is encrypted under a nonce of its own;
\* the replay cache tells the transmissions apart.
OnWire(m, tries) == IF m.kind = "open" THEN [m EXCEPT !.try = tries] ELSE m

\* The network takes the packets ps, or loses them.
Post(left, ps) ==
    \/ net' = left \cup ps /\ Cardinality(net') <= Capacity
    \/ net' = left

InTable(e) == IF e = Client THEN ctab ELSE stab = e

\* close_mieru_session_entry: the map's entry for the id goes, whoever made it.
Unmapped(e) ==
    IF e = Client THEN ctab' = FALSE /\ UNCHANGED stab
    ELSE stab' = 0 /\ UNCHANGED ctab

(***************************************************************************)
(* PacketSendWindow.                                                        *)
(***************************************************************************)
\* Cubic keeps its window between 16 and its limit; where in between depends
\* on timing, so a sender may hold back whenever something is in flight.
InCwnd(x) == Cardinality(x.unacked) < MaxCwnd

CanSend(x) ==
    /\ InCwnd(x)
    /\ Minus(x.next, x.peerAck) < x.peerWin

\* The outstanding segment the output task looks at: the first from peer_ack
\* upward, or the first of all when the numbers have wrapped.
Oldest(x) ==
    LET above == {u \in x.unacked : u.m.seq >= x.peerAck}
        from  == IF above = {} THEN x.unacked ELSE above
    IN  CHOOSE u \in from : \A v \in from : u.m.seq <= v.m.seq

StaleOrFuture(x, ack) ==
    \/ Minus(ack, x.peerAck) >= Half
    \/ Minus(ack, x.next) < Half /\ ack # x.next

\* PacketSendWindow::ack.  Duplicate acknowledgements, recovery and the round
\* trip time only choose when the first hole is sent again, and Retransmit may
\* happen at any moment.
PeerAck(x, ack, win) ==
    IF StaleOrFuture(x, ack) THEN x
    ELSE [x EXCEPT !.peerWin = Min({win, Window}), !.peerAck = ack,
                   !.unacked = {u \in @ : Minus(ack, u.m.seq) \notin 1 .. Half - 1}]

(***************************************************************************)
(* The application side of a session: MieruSession.                         *)
(***************************************************************************)
Write(e) ==
    /\ end[e].app = "open" /\ end[e].task = "run"
    /\ end[e].wrote - end[e].sent < SendBudget
    /\ end[e].wrote < end[e].bound.writes
    /\ end' = [end EXCEPT ![e].wrote = @ + 1]
    /\ UNCHANGED <<ctab, stab, born, seen, net>>

\* poll_read consumes a payload and gives its room back; a window that was
\* announced as zero and is not any more is announced again.
Read(e) ==
    LET x == [end[e] EXCEPT !.unread = Tail(@), !.got = Append(@, Head(end[e].unread))]
    IN  /\ end[e].app = "open" /\ end[e].unread # <<>>
        /\ end' = [end EXCEPT ![e] =
                     [Refresh(x) EXCEPT !.ackDue =
                        @ \/ (x.task = "run" /\ x.win = 0 /\ Announce(x) > 0)]]
        /\ UNCHANGED <<ctab, stab, born, seen, net>>

\* poll_shutdown and Drop: the relay that owned the session is done with it.
AppClose(e) ==
    /\ end[e].app = "open" /\ end[e].bound.closes
    /\ end' = [end EXCEPT ![e].app = "closed", ![e].unread = <<>>,
                          ![e].closing = (end[e].task = "run")]
    /\ UNCHANGED <<ctab, stab, born, seen, net>>

\* The reader of e has been told that the stream is over.
Eof(e) == end[e].app = "open" /\ ~InTable(e) /\ end[e].unread = <<>>

(***************************************************************************)
(* The output task: run_mieru_session_output.                               *)
(***************************************************************************)
Ended(e, cause) ==
    /\ end' = [end EXCEPT ![e].task = "ended",
                          ![e].cause = IF @ = "none" THEN cause ELSE @]
    /\ Unmapped(e)

\* pending.front(): a data packet, or the open request, which carries the
\* first payload only when that is small.
SendChunk(e) ==
    LET x    == end[e]
        open == e = Client /\ ~x.opened
    IN  /\ x.task = "run" /\ x.sent < x.wrote /\ CanSend(x)
        /\ \E carried \in IF open THEN {0, 1} ELSE {1} :
             LET pos == IF carried = 1 THEN x.sent + 1 ELSE 0
                 m   == IF open THEN Packet(e, "open", x.next, pos)
                        ELSE WithAck(Packet(e, "data", x.next, pos), x)
                 y   == [x EXCEPT !.unacked = @ \cup {[m |-> m, tries |-> 1]},
                                  !.next = Add(@, 1), !.opened = TRUE,
                                  !.sent = @ + carried,
                                  !.ackDue = @ /\ open]
             IN  /\ Post(net, {OnWire(m, 1)})
                 /\ end' = [end EXCEPT ![e] = IF open THEN y ELSE Refresh(y)]
        /\ UNCHANGED <<ctab, stab, born, seen>>

AckTimer(e) ==
    /\ end[e].task = "run" /\ end[e].ackDue
    /\ Post(net, {AckPacket(e, end[e])})
    /\ end' = [end EXCEPT ![e] = [Refresh(@) EXCEPT !.ackDue = FALSE]]
    /\ UNCHANGED <<ctab, stab, born, seen>>

Heartbeat(e) ==
    /\ end[e].task = "run" /\ end[e].opened
    /\ Post(net, {AckPacket(e, end[e])})
    /\ end' = [end EXCEPT ![e] = Refresh(@)]
    /\ UNCHANGED <<ctab, stab, born, seen>>

\* The first hole is sent again, after a timeout or at once.
Retransmit(e) ==
    LET x == end[e]
        u == Oldest(x)
    IN  /\ x.task = "run" /\ x.unacked # {}
        /\ u.tries < TxLimit
        /\ Post(net, {OnWire(u.m, u.tries + 1)})
        /\ end' = [end EXCEPT ![e] =
                     [x EXCEPT !.unacked = (@ \ {u}) \cup {[u EXCEPT !.tries = @ + 1]}]]
        /\ UNCHANGED <<ctab, stab, born, seen>>

\* "too many retransmissions of Mieru segment".
GiveUp(e) ==
    /\ end[e].task = "run" /\ end[e].unacked # {}
    /\ Oldest(end[e]).tries >= TxLimit
    /\ Ended(e, "failed")
    /\ UNCHANGED <<born, seen, net>>

\* A close that does not wait for the acknowledgements.
SendCloseAtOnce(e) ==
    /\ end[e].task = "run" /\ end[e].closing
    /\ end[e].sent = end[e].wrote /\ ~end[e].ackDue
    /\ Post(net, {Packet(e, "close", end[e].next, 0)})
    /\ Ended(e, "own")
    /\ UNCHANGED <<born, seen>>

\* Everything written is acknowledged: the close request, sent once.
SendClose(e) ==
    /\ end[e].task = "run" /\ end[e].closing
    /\ end[e].sent = end[e].wrote /\ end[e].unacked = {} /\ ~end[e].ackDue
    /\ Post(net, {Packet(e, "close", end[e].next, 0)})
    /\ Ended(e, "own")
    /\ UNCHANGED <<born, seen>>

\* The last sender of the command channel is gone with the session and its
\* entry: the output task stops where it is.
SendersGone(e) ==
    /\ end[e].task = "run" /\ end[e].app = "closed" /\ ~InTable(e)
    /\ Ended(e, "own")
    /\ UNCHANGED <<born, seen, net>>

(***************************************************************************)
(* The receive side: route_session_segment and the reading loops.           *)
(***************************************************************************)
Payload(m) == [seq |-> m.seq, from |-> m.from, pos |-> m.pos]

\* deliver_session_payload: empty payloads and those of a dropped session go.
Deliver(x, ps) ==
    [x EXCEPT !.unread =
        IF x.app = "open" THEN @ \o SelectSeq(ps, LAMBDA p : p.pos # 0) ELSE @]

\* The early payloads that follow the sequence number s without a gap.
Following(x, s) ==
    LET have(k) == \E p \in x.early : p.seq = Add(s, k)
        n == Max({k \in 0 .. Cardinality(x.early) : \A j \in 1 .. k : have(j)})
    IN  [k \in 1 .. n |-> CHOOSE p \in x.early : p.seq = Add(s, k)]

Accept(x, m) ==
    LET more == Following(x, m.seq)
    IN  [Deliver(x, <<Payload(m)>> \o more) EXCEPT
           !.rnext = Add(@, 1 + Len(more)),
           !.early = @ \ {more[k] : k \in DOMAIN more}]

Held(x, m) == \E p \in x.early : p.seq = m.seq

AtHead(x, m) == m.seq = x.rnext /\ Room(x) >= 1

Keep(x, m) ==
    /\ m.seq # x.rnext /\ Minus(m.seq, x.rnext) < Window
    /\ ~Held(x, m) /\ Room(x) >= 1 + Headroom

Routed(x, m) ==
    Refresh(IF AtHead(x, m) THEN Accept(x, m)
            ELSE IF Keep(x, m) THEN [x EXCEPT !.early = @ \cup {Payload(m)}]
            ELSE x)

\* Routing acknowledges: after a delay when the packet was the next one, at
\* once when it was not.
Route(e, x, m, left, sent) ==
    LET y == Routed(x, m)
    IN  /\ end' = [end EXCEPT ![e] = [y EXCEPT !.ackDue = AtHead(x, m)]]
        /\ Post(left, sent \cup IF AtHead(x, m) THEN {} ELSE {AckPacket(e, y)})

Addressee(m) == IF m.to = "client" THEN Client ELSE stab

Reaches(m) == IF m.to = "client" THEN ctab ELSE stab # 0

RecvData(m, left) ==
    LET e == Addressee(m)
        x == IF m.ack = None THEN end[e] ELSE PeerAck(end[e], m.ack, m.win)
    IN  /\ m.kind \in {"data", "openresp"} /\ Reaches(m)
        /\ Route(e, x, m, left, {})
        /\ UNCHANGED <<ctab, stab, born, seen>>

RecvAck(m, left) ==
    /\ m.kind = "ack" /\ Reaches(m)
    /\ end' = [end EXCEPT ![Addressee(m)] = PeerAck(@, m.ack, m.win)]
    /\ net' = left
    /\ UNCHANGED <<ctab, stab, born, seen>>

\* handle_server_segment on an open request: a repetition when the id is
\* known, otherwise a session of its own that answers with sequence number 0.
RecvOpen(m, left) ==
    LET b    == born + 1
        resp == Packet(b, "openresp", 0, 0)
        new  == [NewEnd(b, 0, end[b].bound) EXCEPT !.next = 1,
                   !.unacked = {[m |-> resp, tries |-> 1]}]
    IN  /\ m.kind = "open" /\ m.try \notin seen
        /\ seen' = seen \cup {m.try}
        /\ \/ /\ stab # 0
              /\ Route(stab, end[stab], m, left, {})
              /\ UNCHANGED <<stab, born>>
           \/ /\ stab = 0 /\ born < MaxBorn
              /\ stab' = b /\ born' = b
              /\ Route(b, new, m, left, {resp})
        /\ UNCHANGED ctab

\* write_close_response and close_mieru_session_entry.
RecvClose(m, left) ==
    /\ m.kind \in {"close", "closeresp"}
    /\ end' = IF Reaches(m)
              THEN [end EXCEPT ![Addressee(m)].cause = m.kind] ELSE end
    /\ IF m.kind = "close"
       THEN Post(left, {[m EXCEPT !.kind = "closeresp", !.seq = 0,
                           !.from = Addressee(m),
                           !.to = IF m.to = "client" THEN "server" ELSE "client"]})
       ELSE net' = left
    /\ IF m.to = "client" THEN ctab' = FALSE /\ UNCHANGED stab
       ELSE stab' = 0 /\ UNCHANGED ctab
    /\ UNCHANGED <<born, seen>>

\* A packet arrives; the network may keep a copy.
Receive(m) ==
    \E left \in {net, net \ {m}} :
        RecvData(m, left) \/ RecvAck(m, left) \/ RecvOpen(m, left) \/ RecvClose(m, left)

Lose(m) ==
    /\ net' = net \ {m}
    /\ UNCHANGED <<end, ctab, stab, born, seen>>

Init ==
    /\ \E s \in Scenarios :
         LET bound(e) == s.bounds[IF e = Client THEN 1 ELSE 2] IN
         /\ end = [e \in Ends |-> IF e = Client \/ (e = 1 /\ s.start # 0)
                                  THEN NewEnd(e, s.start, bound(e))
                                  ELSE [Unborn EXCEPT !.bound = bound(e)]]
         /\ stab = IF s.start = 0 THEN 0 ELSE 1
         /\ born = stab
    /\ ctab = TRUE /\ seen = {} /\ net = {}

Next ==
    \/ \E e \in Ends :
         \/ Write(e) \/ Read(e) \/ AppClose(e)
         \/ SendChunk(e) \/ AckTimer(e) \/ Heartbeat(e)
         \/ Retransmit(e) \/ GiveUp(e) \/ SendClose(e) \/ SendersGone(e)
    \/ \E m \in net : Receive(m) \/ Lose(m)

Spec == Init /\ [][Next]_vars

(***************************************************************************)
(* Properties.                                                              *)
(***************************************************************************)
Other(e) == IF e = Client THEN 1 ELSE Client

\* What e's reader has been given, then what waits for it.
Stream(e) == end[e].got \o end[e].unread

\* A session's bytes, over a network that loses, repeats and overtakes: what
\* the reader is given is a prefix of what the other application wrote, in
\* order, each part once, also across the wrap of the sequence numbers; and a
\* reader whose session the peer's close request ended has been given all of
\* it, since poll_read then reports an end of file and no error.
Exact ==
    \A e \in {Client, 1} : born <= 1 =>
        /\ Len(Stream(e)) <= end[Other(e)].sent
        /\ \A k \in DOMAIN Stream(e) : Stream(e)[k].pos = k
        /\ Eof(e) /\ end[e].cause = "close" => Len(end[e].got) = end[Other(e)].wrote

\* ReceiveFlow::window and can_send: a packet the announced window let the
\* sender send finds room in the byte budget when its turn comes, however the
\* announcements and the packets overtook each other.
PromiseKept ==
    \A m \in net : m.kind \in {"data", "openresp", "open"} /\ Reaches(m) =>
        LET x == end[Addressee(m)]
        IN  born <= 1 /\ m.seq = x.rnext => Room(x) >= 1
=============================================================================
