---------------------------- MODULE LimiterPart -----------------------------
(***************************************************************************)
(* The rate limiter with variables of its own, to stand beside other       *)
(* components.                                                             *)
(***************************************************************************)
EXTENDS FiniteSets

CONSTANTS Waiters, Setters, Rates, ChunkSizes, Second, MaxNow, MaxWaits, MaxSwaps

VARIABLES now, rate, next, wpc, chunk, spc, live, waits, swaps, epoch, charged, spent

limiterVars == <<now, rate, next, wpc, chunk, spc, live, waits, swaps, epoch, charged, spent>>

Limiter == INSTANCE RateLimiter WITH
    Sizes <- ChunkSizes, MaxSets <- MaxSwaps, active <- live, sets <- swaps

ASSUME LimiterAssumption == IsFiniteSet(Waiters) /\ Limiter!WellFormed

\* ByteRateLimiter: the rate is kept by any number of tasks.
RateKept == Limiter!RateKept
=============================================================================
