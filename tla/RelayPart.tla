----------------------------- MODULE RelayPart ------------------------------
(***************************************************************************)
(* The relay of one connection, and the replay cache that admits it, with  *)
(* variables of their own, to stand beside other components.               *)
(***************************************************************************)
EXTENDS FiniteSets

CONSTANT MaxChunks  \* of Relay

VARIABLES
    halfClose, sent, eof, pump, taken, recorded, delivered, fin, stuck, cancelled, phase, result

relayVars == <<halfClose, sent, eof, pump, taken, recorded, delivered, fin, stuck, cancelled,
               phase, result>>

Rel == INSTANCE Relay

\* relay_split_with_close_mode: what it counts, ends and reports as delivered.
Faithful == Rel!Faithful

----------------------------------------------------------------------------
CONSTANTS Keys, Ttl, Room, MaxTime  \* of ReplayCache

VARIABLES clock, keys, expiry, accepted, refusedFull

replayVars == <<clock, keys, expiry, accepted, refusedFull>>

Replay == INSTANCE ReplayCache WITH Capacity <- Room, MaxNow <- MaxTime, now <- clock

ASSUME ReplayAssumption == IsFiniteSet(Keys) /\ Replay!WellFormed

\* ReplayCache::check_and_store: no key is accepted twice within its ttl, and
\* none refused for room but by keys within theirs.
NoReplay == Replay!NoReplay
=============================================================================
