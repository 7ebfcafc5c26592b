---------------------------- MODULE ReplayCache ----------------------------
(***************************************************************************)
(* ReplayCache (src/replay_cache.rs), which refuses a handshake it has     *)
(* seen within the last ttl.  check_and_store is one critical section, and *)
(* reads the clock inside it.                                              *)
(***************************************************************************)
EXTENDS Naturals, FiniteSets, Sequences

CONSTANTS Keys, Ttl, Capacity, MaxNow

\* What the theorems about the cache assume of the constants.
WellFormed == Ttl \in Nat /\ Capacity \in Nat /\ MaxNow \in Nat

VARIABLES
    now,
    keys, expiry,  \* Entries
    accepted,      \* history: when each key was last accepted; Never before
    refusedFull    \* history: the last call was refused for want of room

vars == <<now, keys, expiry, accepted, refusedFull>>
Never == MaxNow + 1

Init ==
    /\ now = 0 /\ keys = {} /\ expiry = <<>>
    /\ accepted = [k \in Keys |-> Never] /\ refusedFull = FALSE

\* Room is made at the front of the queue, expired or not.
ExpiredOrFull ==
    LET n == Cardinality({i \in DOMAIN expiry : now - expiry[i].seen > Ttl}) IN
    IF n = 0 /\ Len(expiry) = Capacity /\ Capacity > 0 THEN 1 ELSE n

\* How many entries the loop pops: it goes on while the one at the front is
\* older than ttl.
Expired ==
    LET stale(i) == now - expiry[i].seen > Ttl IN
    CHOOSE n \in 0..Len(expiry) :
        (\A i \in 1..n : stale(i)) /\ (n < Len(expiry) => ~stale(n + 1))

CheckAndStore(k) ==
    LET popped == {expiry[i].key : i \in 1..Expired}
        left   == SubSeq(expiry, Expired + 1, Len(expiry))
        known  == keys \ popped
        room   == Cardinality(known) < Capacity
        stored == k \notin known /\ room
    IN  /\ keys' = IF stored THEN known \cup {k} ELSE known
        /\ expiry' = IF stored THEN Append(left, [seen |-> now, key |-> k]) ELSE left
        /\ accepted' = IF stored THEN [accepted EXCEPT ![k] = now] ELSE accepted
        /\ refusedFull' = (k \notin known /\ ~room)
        /\ UNCHANGED now

Tick ==
    /\ now < MaxNow
    /\ now' = now + 1 /\ refusedFull' = FALSE
    /\ UNCHANGED <<keys, expiry, accepted>>

Next == Tick \/ \E k \in Keys : CheckAndStore(k)
Spec == Init /\ [][Next]_vars

----------------------------------------------------------------------------
Recent(k) == accepted[k] # Never /\ now - accepted[k] <= Ttl

\* "Never evict an unexpired key to make room": no key is accepted twice
\* within ttl, not even by a cache that is full.  Nor is a new key refused for
\* anything but Capacity others in the last ttl: a full cache empties by
\* itself, whatever the order keys came in.
NoReplay ==
    [][/\ \A k \in Keys : accepted'[k] # accepted[k] => ~Recent(k)
       /\ refusedFull' => Cardinality({k \in Keys : Recent(k)}) >= Capacity]_vars
=============================================================================
