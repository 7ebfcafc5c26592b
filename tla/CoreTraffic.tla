---------------------------- MODULE CoreTraffic ----------------------------
(***************************************************************************)
(* Traffic accounting of one UserState (src/core.rs): record_traffic,      *)
(* called concurrently by the upload and download halves of the user's     *)
(* sessions, against hot updates of the quota and cancellations.           *)
(*                                                                         *)
(* An action is one atomic operation, or the code under the limits lock.   *)
(* The time a caller spends in the rate limiter is arbitrary here          *)
(* (RateLimiter models it); atomics are sequentially consistent.           *)
(***************************************************************************)
EXTENDS Integers, FiniteSets, Functions

CONSTANTS
    Sessions,
    Tasks,       \* the relay halves that call record_traffic
    SessionOf,   \* the session a task records for
    Direction,   \* "up" or "down"
    Sizes,       \* chunk sizes; zero is a legal size
    Quotas,      \* values quota_bytes is set to
    NoQuota,     \* None
    U64Max,      \* u64::MAX, scaled down
    MaxSets      \* bound on the updates of the quota

ASSUME TasksAssumption ==
    /\ IsFiniteSet(Tasks)
    /\ SessionOf \in [Tasks -> Sessions]
    /\ Direction \in [Tasks -> {"up", "down"}]
ASSUME BytesAssumption ==
    /\ U64Max \in Nat /\ MaxSets \in Nat
    /\ Sizes \subseteq 0..U64Max
    /\ Quotas \subseteq (0..U64Max) \cup {NoQuota}
    /\ NoQuota \notin 0..U64Max

VARIABLES
    total, upload, download,   \* the three AtomicU64 counters
    quota,                     \* limits.quota_bytes
    active,                    \* the sessions whose control is not cancelled
    pc, size,                  \* record_traffic in progress: step, bytes
    sets,                      \* quota updates left
    published,                 \* history: bytes of the TrafficRecorded events
    quotaPeak,                 \* history: the largest quota so far
    late                       \* history: records a task made after the cancellation

counters == <<total, upload, download>>
vars == <<counters, quota, active, pc, size, sets, published, quotaPeak, late>>

Within(n, q) == q = NoQuota \/ n <= q
LargerQuota(p, q) == IF p = NoQuota \/ q = NoQuota THEN NoQuota ELSE IF p < q THEN q ELSE p

Init ==
    /\ total = 0 /\ upload = 0 /\ download = 0
    /\ quota \in Quotas
    /\ active = Sessions
    /\ pc = [t \in Tasks |-> "idle"]
    /\ size = [t \in Tasks |-> 0]
    /\ sets = MaxSets
    /\ published = 0
    /\ quotaPeak = quota
    /\ late = [t \in Tasks |-> 0]

----------------------------------------------------------------------------
(* record_traffic *)

Goto(t, step, n) ==
    /\ pc' = [pc EXCEPT ![t] = step]
    /\ size' = [size EXCEPT ![t] = n]

\* An ensure_active that lets every session pass.
LiveIgnoringCancel(t) == t \in Tasks

\* SessionControl::ensure_active
Live(t) == SessionOf[t] \in active

\* The call: no bytes are recorded at once, a cancelled session is refused.
\* The others go to the rate limiter.
RecordTraffic(t, n) ==
    /\ pc[t] = "idle"
    /\ n > 0
    /\ Live(t)
    /\ Goto(t, "waiting", n)
    /\ UNCHANGED <<counters, quota, active, sets, published, quotaPeak, late>>

\* The limiter lets the caller go on, or its select! sees the cancellation;
\* then the control is checked again.
AfterWait(t) ==
    /\ pc[t] = "waiting"
    /\ IF Live(t) THEN Goto(t, "reserve", size[t]) ELSE Goto(t, "idle", 0)
    /\ UNCHANGED <<counters, quota, active, sets, published, quotaPeak, late>>

\* A reservation that checks the direction's own counter.
ReserveByDirection(t) ==
    LET used == IF Direction[t] = "up" THEN upload ELSE download
        next == total + size[t]
    IN  /\ pc[t] = "reserve"
        /\ IF next <= U64Max /\ Within(used + size[t], quota)
           THEN total' = next /\ Goto(t, "count", size[t])
           ELSE total' = total /\ Goto(t, "idle", 0)
        /\ UNCHANGED <<upload, download, quota, active, sets, published, quotaPeak, late>>

\* A reservation that wraps.
ReserveWrapping(t) ==
    LET next == (total + size[t]) % (U64Max + 1) IN
    /\ pc[t] = "reserve"
    /\ IF Within(next, quota)
       THEN total' = next /\ Goto(t, "count", size[t])
       ELSE total' = total /\ Goto(t, "idle", 0)
    /\ UNCHANGED <<upload, download, quota, active, sets, published, quotaPeak, late>>

\* Under the read half of the limits lock: checked_add and the quota.
Reserve(t) ==
    LET next == total + size[t] IN
    /\ pc[t] = "reserve"
    /\ IF next <= U64Max /\ Within(next, quota)
       THEN total' = next /\ Goto(t, "count", size[t])
       ELSE total' = total /\ Goto(t, "idle", 0)
    /\ UNCHANGED <<upload, download, quota, active, sets, published, quotaPeak, late>>

\* The direction's counter; fetch_add wraps.
Count(t) ==
    /\ pc[t] = "count"
    /\ IF Direction[t] = "up"
       THEN upload' = (upload + size[t]) % (U64Max + 1) /\ UNCHANGED download
       ELSE download' = (download + size[t]) % (U64Max + 1) /\ UNCHANGED upload
    /\ Goto(t, "publish", size[t])
    /\ late' = [late EXCEPT ![t] = IF SessionOf[t] \in active THEN @ ELSE @ + 1]
    /\ UNCHANGED <<total, quota, active, sets, published, quotaPeak>>

\* The TrafficRecorded event; the call returns.
Publish(t) ==
    /\ pc[t] = "publish"
    /\ published' = published + size[t]
    /\ Goto(t, "idle", 0)
    /\ UNCHANGED <<counters, quota, active, sets, quotaPeak, late>>

----------------------------------------------------------------------------
\* set_limits, or apply_user_update: under the write half of the limits lock.
SetQuota(q) ==
    /\ sets > 0
    /\ sets' = sets - 1
    /\ quota' = q
    /\ quotaPeak' = LargerQuota(quotaPeak, q)
    /\ UNCHANGED <<counters, active, pc, size, published, late>>

\* SessionControl::cancel
Cancel(s) ==
    /\ s \in active
    /\ active' = active \ {s}
    /\ UNCHANGED <<counters, quota, pc, size, sets, published, quotaPeak, late>>

Proceed(t) == AfterWait(t) \/ Reserve(t) \/ Count(t) \/ Publish(t)

Next ==
    \/ \E t \in Tasks : Proceed(t) \/ \E n \in Sizes : RecordTraffic(t, n)
    \/ \E q \in Quotas : SetQuota(q)
    \/ \E s \in Sessions : Cancel(s)

Spec == Init /\ [][Next]_vars

\* A call in progress returns: its only wait ends by the limiter's deadline
\* or by the cancellation.
FairSpec == Spec /\ \A t \in Tasks : WF_vars(Proceed(t))

----------------------------------------------------------------------------
TypeOK ==
    /\ total \in 0..U64Max /\ upload \in 0..U64Max /\ download \in 0..U64Max
    /\ quota \in (0..U64Max) \cup {NoQuota}
    /\ quotaPeak \in (0..U64Max) \cup {NoQuota}
    /\ active \subseteq Sessions
    /\ pc \in [Tasks -> {"idle", "waiting", "reserve", "count", "publish"}]
    /\ size \in [Tasks -> 0..U64Max]
    /\ \A t \in Tasks : pc[t] # "idle" <=> size[t] > 0
    /\ sets \in 0..MaxSets
    /\ published \in Nat
    /\ late \in [Tasks -> Nat]

InFlight(step) == SumFunction([t \in Tasks |-> IF pc[t] = step THEN size[t] ELSE 0])

\* The shared counter that the quota is checked against is exactly the bytes
\* counted in both directions plus those reserved and not yet counted: no
\* interleaving of the two directions loses or invents a byte, and neither
\* direction's counter ever wraps.  And subscribers are told of every byte
\* that is counted, and of no other: the events sum up to the two counters,
\* less the calls about to publish.
Accounting ==
    /\ total = upload + download + InFlight("count")
    /\ published + InFlight("publish") = upload + download

\* Concurrent uploads and downloads cannot overrun the quota: the user never
\* has more bytes reserved than the largest quota there ever was.  (A quota
\* lowered below what is used already stops further traffic only.)
QuotaNotOverrun == Within(total, quotaPeak)

\* After its session is cancelled a relay half records at most one more
\* chunk, the one that had passed the second check already.
OneLateRecord == \A t \in Tasks : late[t] <= 1

=============================================================================
