--------------------------- MODULE UdpReassembly ---------------------------
(***************************************************************************)
(* UDP packets in QUIC datagrams: the fragmentation of Hysteria2           *)
(* (src/hysteria2.rs) and TUIC (src/tuic.rs), a network that delays, loses *)
(* and reorders datagrams, and the reassembly of the receiving side with   *)
(* src/udp_fragments.rs.  One session of one connection, in one direction. *)
(*                                                                         *)
(* A packet is its number; a fragment carries the number of the packet it  *)
(* is part of, which the receiver does not see.  The receiver knows packet *)
(* ids, and those are used again after Ids packets.                        *)
(***************************************************************************)
EXTENDS Integers, Sequences, FiniteSets, Functions, SequencesExt

CONSTANTS
    Ids,          \* number of packet ids, 2^16 in the code
    MaxPending,   \* MAX_PENDING_PACKETS
    Timeout,      \* UDP_FRAGMENT_TIMEOUT
    Delay,        \* the longest time a datagram is under way
    MaxDatagram,  \* max_datagram_size of the connection
    Header,       \* the fixed part of a message
    Targets,      \* the targets, each with the length of its address
    Lengths,      \* lengths of payloads
    MaxFragments, \* u8::MAX
    MaxPackets, MaxNow

VARIABLES
    proto,     \* "hy2" or "tuic"
    now,
    sent,      \* the packets sent: target, chunk lengths, time
    net,       \* datagrams under way: packet and fragment index
    buffers,   \* udp_fragments, by packet id
    out,       \* history: the packet handed on last, as its fragments' origins
    refused    \* history: the last fragment was refused for want of room

vars == <<proto, now, sent, net, buffers, out, refused>>

None == 0
NotSent == [target |-> None, len |-> 0, chunks |-> <<>>, at |-> 0]
Nothing == [from |-> None, chunks |-> <<>>]
Id(p) == p % Ids
Count(p) == Len(sent[p].chunks)

Init ==
    /\ proto \in {"hy2", "tuic"} /\ now = 0 /\ sent = <<>> /\ net = {}
    /\ buffers = <<>> /\ out = Nothing /\ refused = FALSE

----------------------------------------------------------------------------
(* The sending side *)

DivCeil(a, b) == (a + b - 1) \div b
\* A payload cut into a first chunk and chunks of at most size.
Cut(first, size, len) ==
    LET n == 1 + DivCeil(len - first, size) IN
    [i \in 1..n |-> IF i = 1 THEN first
                    ELSE IF i < n THEN size ELSE len - first - (n - 2) * size]

\* HY2 repeats the address in each fragment; each must have room for a byte.
Hy2Chunks(target, len) ==
    LET room == MaxDatagram - Header - target.len IN
    IF len <= room THEN <<len>>
    ELSE IF room > 0 THEN Cut(room, room, len) ELSE <<>>

\* TUIC gives the address in the first fragment, the others carry a byte that
\* says that there is none.
TuicChunks(target, len) ==
    LET first == MaxDatagram - Header - target.len
        next  == MaxDatagram - Header - 1
    IN  IF first <= 0 THEN <<>>
        ELSE IF len <= first THEN <<len>> ELSE Cut(first, next, len)

Chunks(target, len) ==
    IF proto = "hy2" THEN Hy2Chunks(target, len) ELSE TuicChunks(target, len)

\* send_udp, send_packet_commands: a packet takes the next id; one that needs
\* too many fragments, or whose address has no room, is refused.
Send(target, len) ==
    LET c == Chunks(target, len)
        p == Len(sent) + 1
    IN  /\ p <= MaxPackets
        /\ IF Len(c) \in 1..MaxFragments
           THEN /\ sent' = Append(sent, [target |-> target, len |-> len, chunks |-> c, at |-> now])
                /\ net' = net \cup {[p |-> p, i |-> i] : i \in 1..Len(c)}
           ELSE sent' = Append(sent, NotSent) /\ UNCHANGED net
        /\ UNCHANGED <<proto, now, buffers, out, refused>>

----------------------------------------------------------------------------
(* Time and the network, external: a datagram that is not received within
   Delay is lost, and datagrams overtake each other *)

Tick ==
    /\ now < MaxNow /\ now' = now + 1 /\ out' = Nothing
    /\ net' = {d \in net : now' - sent[d.p].at <= Delay}
    /\ refused' = FALSE
    /\ UNCHANGED <<proto, sent, buffers>>

----------------------------------------------------------------------------
(* The receiving side *)

\* Buffers are kept for Timeout; TUIC keeps them for the instant more.
Expired(b) == IF proto = "hy2" THEN now - b.created >= Timeout ELSE now - b.created > Timeout
Fresh == Restrict(buffers, {k \in DOMAIN buffers : ~Expired(buffers[k])})

\* A sweep that a full table does not cause.
SweepOwn(k) == IF k \in DOMAIN buffers /\ Expired(buffers[k]) THEN Fresh ELSE buffers

\* HY2 sweeps when the table is full or the packet's own buffer is old, TUIC
\* before every fragment.
Sweep(k) ==
    IF \/ proto = "tuic"
       \/ Cardinality(DOMAIN buffers) >= MaxPending
       \/ k \in DOMAIN buffers /\ Expired(buffers[k])
    THEN Fresh ELSE buffers

NewBuffer(d) ==
    [created |-> now, count |-> Count(d.p),
     from |-> IF proto = "hy2" THEN d.p ELSE None,
     chunks |-> [i \in 1..Count(d.p) |-> None]]

\* A TUIC buffer takes the target of every first fragment, a HY2 buffer that
\* of its first one, and refuses others.
Addressed(b, d) == IF proto = "tuic" /\ d.i = 1 THEN [b EXCEPT !.from = d.p] ELSE b
Fits(b, d) == b.count = Count(d.p) /\ (proto = "hy2" => sent[b.from].target = sent[d.p].target)

\* FragmentPayload::insert refuses a second fragment with an index.
Insert(b, d) == [b EXCEPT !.chunks[d.i] = d.p]
Complete(b) == None \notin Range(b.chunks)
Without(f, k) == Restrict(f, DOMAIN f \ {k})
With(f, k, b) == [j \in DOMAIN f \cup {k} |-> IF j = k THEN b ELSE f[j]]

Deliver(from, chunks) == out' = [from |-> from, chunks |-> chunks]

\* reassemble_udp_message, push_fragment.
Receive(d) ==
    LET k     == Id(d.p)
        swept == Sweep(k)
        room  == Cardinality(DOMAIN swept) < MaxPending \/ k \in DOMAIN swept
        found == IF k \in DOMAIN swept THEN swept[k] ELSE NewBuffer(d)
        b     == IF Fits(found, d) THEN Addressed(found, d) ELSE found
        full  == Insert(b, d)
        taken == Fits(found, d) /\ b.chunks[d.i] = None
    IN  /\ net' = net \ {d}
        /\ refused' = (Count(d.p) > 1 /\ ~room)
        /\ IF Count(d.p) = 1 THEN Deliver(d.p, <<d.p>>) /\ UNCHANGED buffers
           ELSE IF ~room THEN buffers' = swept /\ UNCHANGED out
           ELSE IF taken /\ Complete(full)
           THEN Deliver(full.from, full.chunks) /\ buffers' = Without(swept, k)
           ELSE buffers' = With(swept, k, IF taken THEN full ELSE b) /\ UNCHANGED out
        /\ UNCHANGED <<proto, now, sent>>

\* The cleanup tick of HY2's datagram loops; TUIC has none.
Cleanup ==
    /\ proto = "hy2" /\ Fresh # buffers
    /\ buffers' = Fresh
    /\ UNCHANGED <<proto, now, sent, net, out, refused>>

Next ==
    \/ \E t \in Targets, n \in Lengths : Send(t, n)
    \/ \E d \in net : Receive(d)
    \/ Tick \/ Cleanup

Spec == Init /\ [][Next]_vars

----------------------------------------------------------------------------
Origins == (Range(out.chunks) \cup {out.from}) \ {None}
Size(p, i) ==
    Header + sent[p].chunks[i]
           + IF proto = "hy2" \/ i = 1 THEN sent[p].target.len ELSE 1

\* Packets arrive whole or not at all.  Every packet sent is cut into chunks
\* that make it up and fit a datagram.  What is handed on, with the target it
\* is sent to, comes from one packet, whatever is lost and overtaken; packets
\* are mixed only if Ids of them are sent within the time a datagram can be
\* under way and a buffer kept.  And "at most 64 packets are kept": fragments
\* are refused for room only by packets that are not older than the timeout.
Reassembly ==
    /\ \A p \in DOMAIN sent : LET c == sent[p].chunks IN
          c # <<>> => /\ FoldSeq(LAMBDA a, b : a + b, 0, c) = sent[p].len
                      /\ \A i \in DOMAIN c : Size(p, i) <= MaxDatagram
    /\ \A p, q \in Origins :
          /\ Len(out.chunks) = Count(p)
          /\ p < q => q - p >= Ids /\ sent[q].at - sent[p].at <= Delay + Timeout
    /\ Cardinality(DOMAIN buffers) <= MaxPending
    /\ refused => \A k \in DOMAIN buffers : ~Expired(buffers[k])
=============================================================================
