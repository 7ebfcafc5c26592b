----------------------------- MODULE MCLatches -----------------------------
(***************************************************************************)
(* What must eventually happen once a session is cancelled, in the shared  *)
(* components: TaskAbort itself (three waiters, two callers of trigger),   *)
(* and the two that wait on it; and what start-up must come to.  A         *)
(* behaviour runs one of them, fairly, while the others rest.              *)
(*                                                                         *)
(* limiter: two tasks, one or two bytes a second.  relay: one chunk in     *)
(* each direction.  startup: two names that stand for outbounds or groups  *)
(* of up to two in every combination, beside a simpler third; and every    *)
(* shape of a file with simple ones.                                       *)
(***************************************************************************)
EXTENDS TaskAbort, StartPart, TLC

CONSTANTS w1, w2, w3, t1, t2, s1

MCWaiters == {w1, w2, w3}
MCTriggers == {t1, t2}

VARIABLES
    part,
    now, rate, next, lpc, chunk, spc, live, waits, changes, epoch, charged, spent,
    halfClose, sent, eof, pump, taken, recorded, delivered, fin, stuck, cancelled, phase, result

limiterVars == <<now, rate, next, lpc, chunk, spc, live, waits, changes, epoch, charged, spent>>
relayVars == <<halfClose, sent, eof, pump, taken, recorded, delivered, fin, stuck, cancelled,
               phase, result>>

Limiter == INSTANCE RateLimiter WITH
    Waiters <- {w1, w2}, Setters <- {s1}, Rates <- {0, 1, 2}, Sizes <- {0, 1, 2}, Second <- 2,
    MaxNow <- 3, MaxWaits <- 2, MaxSets <- 1, wpc <- lpc, active <- live, sets <- changes
Rel == INSTANCE Relay WITH MaxChunks <- 1

MCNames == {"a", "b", "c"}
OutboundEntry(kind, to) == [kind |-> kind, to |-> to, default |-> "", plain |-> TRUE]
Lists == {<<>>} \cup {<<x>> : x \in MCNames \cup {"direct"}} \cup {<<x, "b">> : x \in MCNames}
Simple == {OutboundEntry("proxy", <<>>), OutboundEntry("absent", <<>>), OutboundEntry("select", <<"a">>)}
AllEntries ==
    {OutboundEntry(k, <<>>) : k \in {"proxy", "bad", "absent"}}
      \cup {OutboundEntry(k, l) : k \in {"select", "auto"}, l \in Lists}
DefaultEntries ==
    {[OutboundEntry("select", <<"b", "c">>) EXCEPT !.default = d] : d \in {"c", "a"}}
      \cup {[OutboundEntry("auto", <<"b">>) EXCEPT !.plain = FALSE]}
Inbound == [name : {"a", "b"}, ok : BOOLEAN]
RestingFile ==
    [format |-> "mihomo", entries |-> [n \in MCNames |-> OutboundEntry("proxy", <<>>)],
     routes |-> FALSE, tags |-> {}, profile |-> "a", inbounds |-> <<>>, listen |-> TRUE, tun |-> FALSE]
AllFiles ==
    [format : {"mihomo", "sing-box"},
     entries : [a : AllEntries \cup DefaultEntries, b : AllEntries, c : Simple],
     routes : {TRUE}, tags : {{"a", "b"}}, profile : {"none"}, inbounds : {<<>>}, listen : {TRUE},
     tun : {FALSE}]
      \cup {f \in [format : {"mihomo", "xray", "sing-box"}, entries : [MCNames -> Simple],
                   routes : BOOLEAN, tags : {{}, {"a", "c"}}, profile : {"none", "a", "x"},
                   inbounds : {<<>>}, listen : BOOLEAN, tun : BOOLEAN] : f.tags # {} => f.routes}
      \cup [format : {"xray", "sing-box"}, entries : [MCNames -> {OutboundEntry("absent", <<>>)}],
            routes : BOOLEAN, tags : {{}}, profile : {"none", "a"},
            inbounds : {<<>>} \cup {<<x>> : x \in Inbound} \cup {<<x, y>> : x, y \in Inbound},
            listen : {TRUE}, tun : {FALSE}]
      \cup {RestingFile}

\* A component at rest has one initial state.
MCInit ==
    /\ part \in {"latch", "limiter", "relay", "startup"}
    /\ Init
    /\ Limiter!Init /\ (part # "limiter" => rate = 0)
    /\ Rel!Init /\ (part # "relay" => halfClose)
    /\ Start!Init /\ (part # "startup" => file = RestingFile)

MCNext ==
    /\ UNCHANGED part
    /\ \/ part = "latch" /\ Next /\ UNCHANGED <<limiterVars, relayVars, startVars>>
       \/ part = "limiter" /\ Limiter!Next /\ UNCHANGED <<vars, relayVars, startVars>>
       \/ part = "relay" /\ Rel!Next /\ UNCHANGED <<vars, limiterVars, startVars>>
       \/ part = "startup" /\ Start!Next /\ UNCHANGED <<vars, limiterVars, relayVars>>

\* The fairness of the components' own FairSpecs.
MCSpec ==
    /\ MCInit /\ [][MCNext]_<<part, vars, limiterVars, relayVars, startVars>>
    /\ \A w \in Waiters : WF_vars(part = "latch" /\ WaiterStep(w))
    /\ \A t \in Triggers : WF_vars(part = "latch" /\ NotifyWaiters(t))
    /\ \A t \in {w1, w2} : WF_limiterVars(part = "limiter" /\ Limiter!Proceed(t))
    /\ WF_limiterVars(part = "limiter" /\ Limiter!Tick)
    /\ WF_limiterVars(part = "limiter" /\ Limiter!Restart(s1))
    /\ WF_relayVars(part = "relay" /\ Rel!Stop)
    /\ WF_relayVars(part = "relay" /\ Rel!Return)
    /\ \A d \in Rel!Directions : WF_relayVars(part = "relay" /\ Rel!ShutdownWriter(d))
    /\ WF_startVars(part = "startup" /\ Start!StartStep)
    /\ WF_startVars(part = "startup" /\ Start!StackEnds)

----------------------------------------------------------------------------
\* Nobody waits for good: a charged task gets out of ByteRateLimiter::wait, and
\* a cancelled session's relay_split_with_close_mode returns.
WaitersReturn == Limiter!WaitersReturn /\ Rel!CancelReturns

\* main.rs: start-up comes to an end, and an outbound's end ends the stack.  A
\* component at rest does not start.
StartupSettles == part = "startup" => Start!StartupSettles
=============================================================================
