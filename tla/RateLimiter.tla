---------------------------- MODULE RateLimiter ----------------------------
(***************************************************************************)
(* ByteRateLimiter (src/core/limiter.rs): a schedule of one deadline that  *)
(* every chunk pushes back by the time it takes at the current rate.       *)
(*                                                                         *)
(* The rate is an atomic and the schedule is under a lock, so wait and     *)
(* set_rate are two steps each.  Time is a number of ticks, Second ticks   *)
(* to a second; every rate divides Second, so that costs are exact.        *)
(***************************************************************************)
EXTENDS Integers, FiniteSets

CONSTANTS
    Waiters,     \* tasks in ByteRateLimiter::wait
    Setters,     \* tasks in ByteRateLimiter::set_rate
    Rates,       \* bytes per second; zero is "no limit", as rate_value has it
    Sizes,       \* bytes of a chunk
    Second, MaxNow, MaxWaits, MaxSets

\* What the theorems about the limiter assume of the constants.
WellFormed ==
    /\ Rates \subseteq Nat /\ Sizes \subseteq Nat
    /\ Second \in Nat

VARIABLES
    now,
    rate,        \* bytes_per_second
    next,        \* the schedule
    wpc, chunk,  \* the waiters: step, and [bytes, rate, at, until, epoch] of the chunk
    spc,         \* the setters
    active,      \* the waiters whose session is not cancelled
    waits, sets, \* calls left
    epoch,       \* history: how often and when the schedule was restarted
    charged,     \* history: the time charged since then
    spent        \* history: the time charged to the chunks released since then

vars == <<now, rate, next, wpc, chunk, spc, active, waits, sets, epoch, charged, spent>>

Cost(c) == c.bytes * (Second \div c.rate)
NoChunk == [bytes |-> 0, rate |-> 0, at |-> 0, until |-> 0, epoch |-> 0]

Init ==
    /\ now = 0
    /\ rate \in Rates
    /\ next = 0
    /\ wpc = [w \in Waiters |-> "idle"]
    /\ chunk = [w \in Waiters |-> NoChunk]
    /\ spc = [s \in Setters |-> "idle"]
    /\ active = Waiters
    /\ waits = MaxWaits /\ sets = MaxSets
    /\ epoch = [count |-> 0, start |-> 0]
    /\ charged = 0 /\ spent = 0

----------------------------------------------------------------------------
Return(w) ==
    /\ wpc' = [wpc EXCEPT ![w] = "idle"]
    /\ chunk' = [chunk EXCEPT ![w] = NoChunk]

\* wait: load the rate.  Without a rate, or without bytes, it returns.
LoadRate(w, n) ==
    /\ wpc[w] = "idle" /\ waits > 0
    /\ w \in active
    /\ n > 0 /\ rate > 0
    /\ waits' = waits - 1
    /\ wpc' = [wpc EXCEPT ![w] = "charge"]
    /\ chunk' = [chunk EXCEPT ![w] = [NoChunk EXCEPT !.bytes = n, !.rate = rate]]
    /\ UNCHANGED <<now, rate, next, spc, active, sets, epoch, charged, spent>>

\* A charge that computes its deadline and does not push the schedule back.
ChargeAlone(w) ==
    LET start == IF next < now THEN now ELSE next
        due   == start + Cost(chunk[w])
    IN  /\ wpc[w] = "charge"
        /\ next' = start
        /\ wpc' = [wpc EXCEPT ![w] = "sleep"]
        /\ chunk' = [chunk EXCEPT ![w] = [@ EXCEPT !.at = now, !.until = due,
                                                  !.epoch = epoch.count]]
        /\ charged' = charged + Cost(chunk[w])
        /\ UNCHANGED <<now, rate, spc, active, waits, sets, epoch, spent>>

\* Under the lock: never start in the past, push the schedule back.
Charge(w) ==
    LET start == IF next < now THEN now ELSE next
        due   == start + Cost(chunk[w])
    IN  /\ wpc[w] = "charge"
        /\ next' = due
        /\ wpc' = [wpc EXCEPT ![w] = "sleep"]
        /\ chunk' = [chunk EXCEPT ![w] = [@ EXCEPT !.at = now, !.until = due,
                                                  !.epoch = epoch.count]]
        /\ charged' = charged + Cost(chunk[w])
        /\ UNCHANGED <<now, rate, spc, active, waits, sets, epoch, spent>>

\* sleep_until fires: wait returns Ok.
Wake(w) ==
    /\ wpc[w] = "sleep" /\ chunk[w].until <= now
    /\ spent' = IF chunk[w].epoch = epoch.count THEN spent + Cost(chunk[w]) ELSE spent
    /\ Return(w)
    /\ UNCHANGED <<now, rate, next, spc, active, waits, sets, epoch, charged>>

\* A wait that looks at its session only once its timer has fired.
WakeCancelledLate(w) ==
    /\ wpc[w] = "sleep" /\ w \notin active /\ chunk[w].until <= now
    /\ Return(w)
    /\ UNCHANGED <<now, rate, next, spc, active, waits, sets, epoch, charged, spent>>

\* The other branch of the select!: the session is cancelled, wait fails.
\* The time it was charged stays on the schedule.
WakeCancelled(w) ==
    /\ wpc[w] = "sleep" /\ w \notin active
    /\ Return(w)
    /\ UNCHANGED <<now, rate, next, spc, active, waits, sets, epoch, charged, spent>>

----------------------------------------------------------------------------
\* set_rate: swap the rate; only another one restarts the schedule.
SwapRate(s, r) ==
    /\ spc[s] = "idle" /\ sets > 0
    /\ sets' = sets - 1
    /\ rate' = r
    /\ spc' = [spc EXCEPT ![s] = IF r = rate THEN "idle" ELSE "restart"]
    /\ UNCHANGED <<now, next, wpc, chunk, active, waits, epoch, charged, spent>>

Restart(s) ==
    /\ spc[s] = "restart"
    /\ spc' = [spc EXCEPT ![s] = "idle"]
    /\ next' = now
    /\ epoch' = [count |-> epoch.count + 1, start |-> now]
    /\ charged' = 0 /\ spent' = 0
    /\ UNCHANGED <<now, rate, wpc, chunk, active, waits, sets>>

\* SessionControl::cancel
Cancel(w) ==
    /\ w \in active
    /\ active' = active \ {w}
    /\ UNCHANGED <<now, rate, next, wpc, chunk, spc, waits, sets, epoch, charged, spent>>

Tick ==
    /\ now < MaxNow
    /\ now' = now + 1
    /\ UNCHANGED <<rate, next, wpc, chunk, spc, active, waits, sets, epoch, charged, spent>>

Proceed(w) == Charge(w) \/ Wake(w) \/ WakeCancelled(w)

Next ==
    \/ \E w \in Waiters : \/ Proceed(w) \/ Cancel(w)
                          \/ \E n \in Sizes : LoadRate(w, n)
    \/ \E s \in Setters : Restart(s) \/ \E r \in Rates : SwapRate(s, r)
    \/ Tick

Spec == Init /\ [][Next]_vars

\* Time passes, timers fire and a call that was started goes on.
FairSpec == /\ Spec /\ WF_vars(Tick)
            /\ \A w \in Waiters : WF_vars(Proceed(w))
            /\ \A s \in Setters : WF_vars(Restart(s))

----------------------------------------------------------------------------
Chunks == [bytes : Sizes \cup {0}, rate : Rates \cup {0}, at : 0..MaxNow,
           until : Nat, epoch : 0..MaxSets]

\* The limiter keeps its rate, however many tasks share it and in whatever
\* order they load the rate, take the lock and wake.  The chunks let through
\* since the schedule was last restarted have taken the time they cost.  An
\* idle limiter saves nothing up: no chunk is let through earlier than its own
\* cost after it asked.  And a new rate takes effect at once: no chunk waits
\* for more time than was charged since the restart, whatever backlog the old
\* rate left.
RateKept ==
    /\ spent <= now - epoch.start
    /\ \A w \in Waiters : wpc[w] = "sleep" => chunk[w].until >= chunk[w].at + Cost(chunk[w])
    /\ next <= now + charged

\* A task that was charged gets out of the limiter: when its deadline comes,
\* and, however far behind a backlog that is, when its session is cancelled.
\* (Time is bounded: a deadline past MaxNow never comes, so there only the
\* cancellation lets the task go.)
WaitersReturn ==
    \A w \in Waiters :
        (wpc[w] = "sleep" /\ (chunk[w].until <= MaxNow \/ w \notin active)) ~> (wpc[w] = "idle")
=============================================================================
