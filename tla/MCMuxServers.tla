---------------------------- MODULE MCMuxServers ----------------------------
(***************************************************************************)
(* Connections that carry many streams, for safety: the servers of AnyTLS, *)
(* VLESS mux, Mieru and QUIC, one of them in each behaviour.               *)
(*                                                                         *)
(* anytls: two stream ids used freely, two opens with no SYN after them,   *)
(* one UOT stream at most, one dial at a time, one payload from a target.  *)
(* vless: two session ids, two opens, a table of one.  mieru: one session  *)
(* over UDP with packets lost, repeated and overtaken: from its open       *)
(* request with one write, or under way across the wrap of its sequence    *)
(* numbers, with three writes or with both ends closing; room for two      *)
(* packets, a window of three, two transmissions of each packet.  quic: a  *)
(* TUIC or Hysteria2 connection with four commands of one association, in  *)
(* any order: authentications, in vain or not, and packets, with a         *)
(* dissociation or beside a TCP relay.                                     *)
(***************************************************************************)
EXTENDS AnyTlsServer, MuxPart, TLC

CONSTANTS i1, i2

MCIds == {i1, i2}
Symmetry == Permutations(MCIds)

VARIABLES
    part,
    end, ctab, stab, born, seen, net

mieruVars == <<end, ctab, stab, born, seen, net>>

Bounds(writes, closes) == [writes |-> writes, closes |-> closes]
Opening == [start |-> 0, bounds |-> <<Bounds(1, TRUE), Bounds(0, FALSE)>>]
BothClose == [start |-> 7, bounds |-> <<Bounds(1, TRUE), Bounds(0, TRUE)>>]
UnderWay == [start |-> 7, bounds |-> <<Bounds(3, TRUE), Bounds(0, FALSE)>>]
Mieru == INSTANCE MieruPacket WITH
    SeqMod <- 8, Scenarios <- {Opening, UnderWay, BothClose}, Window <- 3, Budget <- 2, Headroom <- 1,
    InitialWindow <- 2, MaxCwnd <- 2, TxLimit <- 2, SendBudget <- 3, MaxBorn <- 1, Capacity <- 2

MCCommands == 1..4
Scene(proto, commands, users) ==
    [proto |-> proto, kind |-> commands, user |-> users, assoc |-> [c \in MCCommands |-> 1]]
RestingScene == Scene("tuic", <<"auth", "packet", "datagram", "dissociate">>, <<1, 0, 0, 0>>)
AllScenes ==
    {RestingScene,
     Scene("tuic", <<"auth", "auth", "packet", "connect">>, <<0, 1, 0, 0>>),
     Scene("hy2", <<"auth", "auth", "datagram", "datagram">>, <<0, 1, 0, 0>>),
     Scene("hy2", <<"auth", "auth", "datagram", "connect">>, <<1, 2, 0, 0>>)}

\* A component at rest has one initial state.
MCInit ==
    /\ part \in {"anytls", "vless", "mieru", "quic"}
    /\ Init /\ Mux!Init
    /\ Mieru!Init /\ (part # "mieru" => born = 0)
    /\ Quic!Init /\ (part # "quic" => scene = RestingScene)

MCNext ==
    /\ UNCHANGED part
    /\ \/ /\ part = "anytls" /\ Next /\ UNCHANGED <<muxVars, mieruVars, quicVars>>
          /\ \E k \in Opens : kind'[k] = "tcp"
          /\ opened = MaxOpens => pending' \subseteq pending
       \/ part = "vless" /\ Mux!Next /\ UNCHANGED <<vars, mieruVars, quicVars>>
       \/ part = "mieru" /\ Mieru!Next /\ UNCHANGED <<vars, muxVars, quicVars>>
       \/ part = "quic" /\ Quic!Next /\ UNCHANGED <<vars, muxVars, mieruVars>>

MCSpec == MCInit /\ [][MCNext]_<<part, vars, muxVars, mieruVars, quicVars>>

----------------------------------------------------------------------------
\* mieru.rs: a session's bytes arrive in order, once, and all before an end of
\* file that the peer's close caused.
Exact == Mieru!Exact

\* mieru.rs: what the announced window allows finds room.
PromiseKept == Mieru!PromiseKept
=============================================================================
