------------------------------ MODULE MCShared ------------------------------
(***************************************************************************)
(* The components all protocols share, for safety.  A behaviour runs one   *)
(* of them from its initial states while the others rest.                  *)
(*                                                                         *)
(* traffic: both halves of one session and the upload half of another;     *)
(* chunks of one or three bytes, quotas of three and four, a u64 of six.   *)
(* limiter: two tasks share one or two bytes a second, or no limit.        *)
(* relay: two chunks in each direction.                                    *)
(* replay: three keys on two places, over three lifetimes.                 *)
(* reassembly: three packets of one or two fragments, two packet ids, one  *)
(* place for a packet in part, longer than its timeout.                    *)
(***************************************************************************)
EXTENDS CoreTraffic, LimiterPart, RelayPart, TLC

CONSTANTS s1, s2, up1, down1, up2, none

TwoSessions == {s1, s2}
ThreeTasks == {up1, down1, up2}
SessionOfTask == (up1 :> s1) @@ (down1 :> s1) @@ (up2 :> s2)
DirectionOfTask == (up1 :> "up") @@ (down1 :> "down") @@ (up2 :> "up")
TrafficSizes == {0, 1, 3}
QuotaValues == {3, 4, none}

VARIABLES part, proto, time, packets, net, buffers, out, refused

reassemblyVars == <<proto, time, packets, net, buffers, out, refused>>

Reasm == INSTANCE UdpReassembly WITH
    Ids <- 2, MaxPending <- 1, Timeout <- 1, Delay <- 1, MaxDatagram <- 6, Header <- 2,
    Targets <- {[name |-> "a", len |-> 2], [name |-> "b", len |-> 3]}, Lengths <- {1, 4, 9},
    MaxFragments <- 2, MaxPackets <- 3, MaxNow <- 3, now <- time, sent <- packets

\* A component at rest has one initial state.
MCInit ==
    /\ part \in {"traffic", "limiter", "relay", "replay", "reassembly"}
    /\ Init /\ (part # "traffic" => quota = none)
    /\ Limiter!Init /\ (part # "limiter" => rate = 0)
    /\ Rel!Init /\ (part # "relay" => halfClose)
    /\ Replay!Init
    /\ Reasm!Init /\ (part # "reassembly" => proto = "hy2")

MCNext ==
    /\ UNCHANGED part
    /\ \/ /\ part = "traffic" /\ Next
          /\ UNCHANGED <<limiterVars, relayVars, replayVars, reassemblyVars>>
       \/ /\ part = "limiter" /\ Limiter!Next
          /\ UNCHANGED <<vars, relayVars, replayVars, reassemblyVars>>
       \/ /\ part = "relay" /\ Rel!Next
          /\ UNCHANGED <<vars, limiterVars, replayVars, reassemblyVars>>
       \/ /\ part = "replay" /\ Replay!Next
          /\ UNCHANGED <<vars, limiterVars, relayVars, reassemblyVars>>
       \/ /\ part = "reassembly" /\ Reasm!Next
          /\ UNCHANGED <<vars, limiterVars, relayVars, replayVars>>

MCSpec ==
    MCInit /\ [][MCNext]_<<part, vars, limiterVars, relayVars, replayVars, reassemblyVars>>

----------------------------------------------------------------------------
\* hysteria2.rs, tuic.rs and udp_fragments.rs: packets arrive whole or not at
\* all, and packets in part make room.
Reassembly == Reasm!Reassembly
=============================================================================
