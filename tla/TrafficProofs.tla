--------------------------- MODULE TrafficProofs ----------------------------
(***************************************************************************)
(* The accounting, quota and cancellation guarantees of record_traffic,    *)
(* and the rate that ByteRateLimiter keeps, for any number of sessions and *)
(* tasks and any sizes, quotas and rates.                                  *)
(***************************************************************************)
EXTENDS CoreTraffic, LimiterPart, FiniteSetTheorems, WellFoundedInduction, TLAPS

\* Wrapping addition stays in range.
LEMMA WrapRange ==
  ASSUME NEW n \in Nat PROVE n % (U64Max + 1) \in 0..U64Max
  BY BytesAssumption

\* A sum within u64 does not wrap.
LEMMA NoWrap ==
  ASSUME NEW n \in Nat, n <= U64Max PROVE n % (U64Max + 1) = n
  BY BytesAssumption

\* The parts of the type invariant that the calls change.
CallsTyped ==
    /\ pc \in [Tasks -> {"idle", "waiting", "reserve", "count", "publish"}]
    /\ size \in [Tasks -> 0..U64Max]
    /\ \A t \in Tasks : pc[t] # "idle" <=> size[t] > 0

\* A call that moves to another step with its bytes, or returns, stays typed.
LEMMA GotoTyped ==
  ASSUME CallsTyped, NEW t \in Tasks, NEW n \in 0..U64Max,
         NEW step \in {"idle", "waiting", "reserve", "count", "publish"},
         step # "idle" <=> n > 0, Goto(t, step, n)
  PROVE  CallsTyped'
  BY Zenon DEF CallsTyped, Goto

\* Why a relay half records at most one chunk late: it can only have done so
\* if its session is cancelled, and then it is not in a call that has not
\* counted yet.
LateInv ==
    \A t \in Tasks :
        /\ late[t] <= 1
        /\ SessionOf[t] \in active => late[t] = 0
        /\ pc[t] \in {"waiting", "reserve", "count"} => late[t] = 0

\* The quota in force is never above the peak.
QuotaInv ==
    /\ QuotaNotOverrun
    /\ quotaPeak # NoQuota => quota # NoQuota /\ quota <= quotaPeak

IInv == TypeOK /\ QuotaInv /\ LateInv

\* The initial state satisfies the inductive invariant.
LEMMA InitIInv == Init => IInv
  <1> SUFFICES ASSUME Init PROVE IInv
    BY Zenon
  <1> USE BytesAssumption
  <1>1. TypeOK
    BY DEF Init, TypeOK
  <1>2. QuotaInv
    BY DEF Init, QuotaInv, QuotaNotOverrun, Within
  <1>3. LateInv
    BY DEF Init, LateInv
  <1> QED
    BY <1>1, <1>2, <1>3, Zenon DEF IInv

\* Every step preserves it.
LEMMA NextIInv == IInv /\ [Next]_vars => IInv'
  <1> SUFFICES ASSUME IInv, [Next]_vars PROVE IInv'
    BY Zenon
  <1> USE BytesAssumption, TasksAssumption
  <1>0. /\ CallsTyped /\ TypeOK /\ QuotaInv /\ LateInv
    BY Zenon DEF IInv, TypeOK, CallsTyped
  <1>t. /\ total \in 0..U64Max /\ upload \in 0..U64Max /\ download \in 0..U64Max
        /\ late \in [Tasks -> Nat] /\ published \in Nat
        /\ pc \in [Tasks -> {"idle", "waiting", "reserve", "count", "publish"}]
        /\ size \in [Tasks -> 0..U64Max]
    BY <1>0, Zenon DEF TypeOK
  <1>1. ASSUME NEW t \in Tasks, NEW n \in Sizes, RecordTraffic(t, n) PROVE IInv'
    <2>1. CallsTyped'
      BY <1>0, <1>1, GotoTyped, Zenon DEF RecordTraffic
    <2>2. TypeOK'
      BY <1>0, <1>1, <2>1, Zenon DEF RecordTraffic, TypeOK, CallsTyped, counters
    <2>3. QuotaInv'
      BY <1>0, <1>1, Zenon DEF RecordTraffic, QuotaInv, QuotaNotOverrun, Within, counters
    <2>4. LateInv'
      BY <1>0, <1>1, <1>t, Zenon DEF RecordTraffic, Goto, Live, LateInv
    <2> QED
      BY <2>2, <2>3, <2>4, Zenon DEF IInv
  <1>2. ASSUME NEW t \in Tasks, AfterWait(t) PROVE IInv'
    <2>1. CallsTyped'
      <3>1. size[t] \in 0..U64Max /\ size[t] > 0
        BY <1>0, <1>2, Zenon DEF AfterWait, CallsTyped
      <3> QED
        BY <1>0, <1>2, <3>1, GotoTyped DEF AfterWait
    <2>2. TypeOK'
      BY <1>0, <1>2, <2>1, Zenon DEF AfterWait, TypeOK, CallsTyped, counters
    <2>3. QuotaInv'
      BY <1>0, <1>2, Zenon DEF AfterWait, QuotaInv, QuotaNotOverrun, Within, counters
    <2>4. LateInv'
      BY <1>0, <1>2, <1>t, Zenon DEF AfterWait, Goto, LateInv
    <2> QED
      BY <2>2, <2>3, <2>4, Zenon DEF IInv
  <1>3. ASSUME NEW t \in Tasks, Reserve(t) PROVE IInv'
    <2>1. CallsTyped'
      <3>1. size[t] \in 0..U64Max /\ size[t] > 0
        BY <1>0, <1>3, Zenon DEF Reserve, CallsTyped
      <3> QED
        BY <1>0, <1>3, <3>1, GotoTyped DEF Reserve
    <2>2. total' \in 0..U64Max
      BY <1>3, <1>t DEF Reserve
    <2>3. TypeOK'
      BY <1>0, <1>3, <2>1, <2>2, Zenon DEF Reserve, TypeOK, CallsTyped
    <2>4. QuotaInv'
      <3>1. CASE total' = total
        BY <1>0, <1>3, <3>1, Zenon DEF Reserve, QuotaInv, QuotaNotOverrun, Within
      <3>2. CASE total' # total
        <4>1. Within(total', quota)
          BY <1>3, <3>2, Zenon DEF Reserve
        <4> QED
          BY <1>0, <1>3, <4>1, <2>2 DEF Reserve, QuotaInv, QuotaNotOverrun, Within, TypeOK
      <3> QED
        BY <3>1, <3>2, Zenon
    <2>5. LateInv'
      BY <1>0, <1>3, <1>t, Zenon DEF Reserve, Goto, LateInv
    <2> QED
      BY <2>3, <2>4, <2>5, Zenon DEF IInv
  <1>4. ASSUME NEW t \in Tasks, Count(t) PROVE IInv'
    <2>1. CallsTyped' /\ size[t] \in Nat
      <3>1. size[t] \in 0..U64Max /\ size[t] > 0
        BY <1>0, <1>4, Zenon DEF Count, CallsTyped
      <3> QED
        BY <1>0, <1>4, <3>1, GotoTyped DEF Count
    <2>2. upload' \in 0..U64Max /\ download' \in 0..U64Max
      <3>1. upload + size[t] \in Nat /\ download + size[t] \in Nat
        BY <1>t, <2>1
      <3>2. /\ (upload + size[t]) % (U64Max + 1) \in 0..U64Max
            /\ (download + size[t]) % (U64Max + 1) \in 0..U64Max
        BY <3>1, WrapRange, Zenon
      <3> QED
        BY <1>4, <1>t, <3>2, Zenon DEF Count
    <2>3. late' \in [Tasks -> Nat]
      BY <1>4, <1>t DEF Count
    <2>4. TypeOK'
      BY <1>0, <1>4, <2>1, <2>2, <2>3, Zenon DEF Count, TypeOK, CallsTyped
    <2>5. QuotaInv'
      BY <1>0, <1>4, Zenon DEF Count, QuotaInv, QuotaNotOverrun, Within
    <2>6. LateInv'
      BY <1>0, <1>4, <1>t DEF Count, Goto, LateInv
    <2> QED
      BY <2>4, <2>5, <2>6, Zenon DEF IInv
  <1>5. ASSUME NEW t \in Tasks, Publish(t) PROVE IInv'
    <2>1. CallsTyped'
      BY <1>0, <1>5, GotoTyped DEF Publish
    <2>2. published' \in Nat
      BY <1>5, <1>t DEF Publish
    <2>3. TypeOK'
      BY <1>0, <1>5, <2>1, <2>2, Zenon DEF Publish, TypeOK, CallsTyped, counters
    <2>4. QuotaInv'
      BY <1>0, <1>5, Zenon DEF Publish, QuotaInv, QuotaNotOverrun, Within, counters
    <2>5. LateInv'
      BY <1>0, <1>5, <1>t, Zenon DEF Publish, Goto, LateInv
    <2> QED
      BY <2>3, <2>4, <2>5, Zenon DEF IInv
  <1>6. ASSUME NEW q \in Quotas, SetQuota(q) PROVE IInv'
    <2>1. TypeOK'
      BY <1>0, <1>6 DEF SetQuota, LargerQuota, TypeOK, counters
    <2>2. QuotaInv'
      BY <1>0, <1>6 DEF SetQuota, LargerQuota, QuotaInv, QuotaNotOverrun, Within, TypeOK, counters
    <2>3. LateInv'
      BY <1>0, <1>6, Zenon DEF SetQuota, LateInv
    <2> QED
      BY <2>1, <2>2, <2>3, Zenon DEF IInv
  <1>7. ASSUME NEW s \in Sessions, Cancel(s) PROVE IInv'
    <2>1. TypeOK'
      BY <1>0, <1>7, Zenon DEF Cancel, TypeOK, counters
    <2>2. QuotaInv'
      BY <1>0, <1>7, Zenon DEF Cancel, QuotaInv, QuotaNotOverrun, Within, counters
    <2>3. LateInv'
      BY <1>0, <1>7, Zenon DEF Cancel, LateInv
    <2> QED
      BY <2>1, <2>2, <2>3, Zenon DEF IInv
  <1>8. CASE UNCHANGED vars
    BY <1>0, <1>8, Zenon
    DEF IInv, vars, counters, TypeOK, QuotaInv, QuotaNotOverrun, Within, LateInv
  <1> QED
    BY <1>1, <1>2, <1>3, <1>4, <1>5, <1>6, <1>7, <1>8, Zenon DEF Next, Proceed

\* The inductive invariant holds in every reachable state.
LEMMA IInvHolds == Spec => []IInv
  BY InitIInv, NextIInv, PTL DEF Spec

\* The counters of a user keep their types: in particular the shared counter
\* never passes u64::MAX and no call is in progress without bytes.
THEOREM TypesHold == Spec => []TypeOK
  <1>1. IInv => TypeOK
    BY Zenon DEF IInv
  <1> QED
    BY <1>1, IInvHolds, PTL

\* However many relay halves record at the same time, and whenever the quota
\* is changed, a user never has more bytes reserved than the largest quota
\* there ever was (record_traffic checks and reserves in one step).
THEOREM QuotaHolds == Spec => []QuotaNotOverrun
  <1>1. IInv => QuotaNotOverrun
    BY Zenon DEF IInv, QuotaInv
  <1> QED
    BY <1>1, IInvHolds, PTL

\* record_traffic checks the control before and after the wait, so a relay
\* half records at most one chunk after its session was cancelled.
THEOREM OneLateRecordHolds == Spec => []OneLateRecord
  <1>1. IInv => OneLateRecord
    BY Zenon DEF IInv, LateInv, OneLateRecord
  <1> QED
    BY <1>1, IInvHolds, PTL

----------------------------------------------------------------------------
(* Sums over the calls in progress *)

\* The function SumFunctionOnSet takes its value from: the sum of f over
\* every subset of S.
Pick(s) == CHOOSE x \in s : TRUE
IsSum(g, f, S) ==
    g = [s \in SUBSET S |-> IF s = {} THEN 0 ELSE f[Pick(s)] + g[s \ {Pick(s)}]]

\* A set of naturals that is not empty has a least element.
LEMMA Least ==
  ASSUME NEW B \in SUBSET Nat, B # {}
  PROVE  \E n \in B : \A m \in B : n <= m
  <1>1. IsWellFoundedOn(OpToRel(<, Nat), Nat)
    BY NatLessThanWellFounded, Zenon
  <1>2. PICK n \in B : \A m \in B : ~(<<m, n>> \in OpToRel(<, Nat))
    BY <1>1, WFMin, Zenon
  <1>3. ASSUME NEW m \in B PROVE n <= m
    <2>1. ~(m < n)
      BY <1>2, Zenon DEF OpToRel
    <2> QED
      BY <2>1
  <1> QED
    BY <1>3, Zenon

\* A subset of a finite set without the element picked from it is smaller.
LEMMA PickSmaller ==
  ASSUME NEW S, IsFiniteSet(S), NEW s \in SUBSET S
  PROVE  /\ IsFiniteSet(s) /\ Cardinality(s) \in Nat
         /\ s # {} => /\ Pick(s) \in s /\ s \ {Pick(s)} \in SUBSET S
                      /\ Cardinality(s) > 0
                      /\ Cardinality(s \ {Pick(s)}) = Cardinality(s) - 1
         /\ s = {} <=> Cardinality(s) = 0
  <1>1. IsFiniteSet(s)
    BY FS_Subset, Zenon
  <1>2. Cardinality(s) \in Nat /\ (s = {} <=> Cardinality(s) = 0)
    BY <1>1, FS_CardinalityType, FS_EmptySet, Zenon
  <1>3. ASSUME s # {}
        PROVE  Pick(s) \in s /\ s \ {Pick(s)} \in SUBSET S /\ Cardinality(s \ {Pick(s)}) = Cardinality(s) - 1
    <2>1. Pick(s) \in s
      BY <1>3, Zenon DEF Pick
    <2> HIDE DEF Pick
    <2>2. Cardinality(s \ {Pick(s)}) = Cardinality(s) - 1
      BY <1>1, <2>1, FS_RemoveElement, Zenon
    <2> QED
      BY <2>1, <2>2, Zenon
  <1> QED
    BY <1>1, <1>2, <1>3

\* There is such a function.
LEMMA SumExists ==
  ASSUME NEW S, IsFiniteSet(S), NEW f \in [S -> Nat]
  PROVE  \E g : IsSum(g, f, S)
  <1> DEFINE Right(g, s) == g[s] = IF s = {} THEN 0 ELSE f[Pick(s)] + g[s \ {Pick(s)}]
             Good(n) == \E g \in [SUBSET S -> Nat] : \A s \in SUBSET S : Cardinality(s) <= n => Right(g, s)
             B == {n \in Nat : ~Good(n)}
  <1>1. ASSUME B # {} PROVE FALSE
    <2>1. PICK n \in B : \A m \in B : n <= m
      <3> HIDE DEF B
      <3>1. B \in SUBSET Nat
        BY Zenon DEF B
      <3> QED
        BY <1>1, <3>1, Least, Zenon
    <2>2. CASE n = 0
      <3> DEFINE g == [s \in SUBSET S |-> 0]
      <3>1. ASSUME NEW s \in SUBSET S, Cardinality(s) <= 0 PROVE Right(g, s)
        <4>1. s = {}
          <5>1. Cardinality(s) \in Nat /\ (s = {} <=> Cardinality(s) = 0)
            BY PickSmaller, Zenon
          <5>2. Cardinality(s) = 0
            <6> HIDE DEF g
            <6> QED
              BY <3>1, <5>1
          <5> QED
            BY <5>1, <5>2, Zenon
        <4> QED
          BY <4>1, Zenon
      <3>2. g \in [SUBSET S -> Nat]
        BY Zenon
      <3> HIDE DEF g
      <3> QED
        BY <2>1, <2>2, <3>1, <3>2, Zenon
    <2>3. CASE n # 0
      <3>1. n \in Nat /\ n - 1 \in Nat /\ n - 1 \notin B
        <4>1. n \in Nat
          BY <2>1, Zenon
        <4> HIDE DEF B
        <4>2. n - 1 \in Nat /\ ~(n <= n - 1)
          BY <2>3, <4>1
        <4> QED
          BY <2>1, <4>1, <4>2, Zenon
      <3>2. PICK g \in [SUBSET S -> Nat] : \A s \in SUBSET S : Cardinality(s) <= n - 1 => Right(g, s)
        BY <3>1, Zenon
      <3> DEFINE h == [s \in SUBSET S |-> IF Cardinality(s) <= n - 1 THEN g[s] ELSE f[Pick(s)] + g[s \ {Pick(s)}]]
      <3>3. ASSUME NEW s \in SUBSET S PROVE h[s] \in Nat
        <4>1. CASE Cardinality(s) <= n - 1
          BY <4>1, Zenon
        <4>2. CASE ~(Cardinality(s) <= n - 1)
          <5>1. s # {}
            <6>1. s = {} => Cardinality(s) = 0
              BY PickSmaller, Zenon
            <6>2. 0 <= n - 1
              BY <3>1
            <6> QED
              BY <4>2, <6>1, <6>2, Zenon
          <5>2. Pick(s) \in S /\ s \ {Pick(s)} \in SUBSET S
            BY <5>1, PickSmaller, Zenon
          <5>3. f[Pick(s)] \in Nat /\ g[s \ {Pick(s)}] \in Nat
            BY <5>2, Zenon
          <5> QED
            BY <4>2, <5>3
        <4> QED
          BY <4>1, <4>2, Zenon
      <3>4. ASSUME NEW s \in SUBSET S, Cardinality(s) <= n PROVE Right(h, s)
        <4>1. CASE s = {}
          <5>1. Cardinality(s) <= n - 1 /\ Right(g, s)
            <6>1. Cardinality(s) = 0
              BY <4>1, PickSmaller, Zenon
            <6>2. 0 <= n - 1
              BY <3>1
            <6> QED
              BY <3>2, <6>1, <6>2, Zenon
          <5> QED
            BY <4>1, <5>1, Zenon
        <4>2. CASE s # {}
          <5>1. /\ s \ {Pick(s)} \in SUBSET S /\ Cardinality(s \ {Pick(s)}) <= n - 1 /\ Cardinality(s) \in Nat
            BY <3>1, <3>4, <4>2, PickSmaller
          <5>2. h[s \ {Pick(s)}] = g[s \ {Pick(s)}]
            BY <5>1, Zenon
          <5>3. h[s] = f[Pick(s)] + g[s \ {Pick(s)}]
            BY <3>2, <4>2, Zenon
          <5> QED
            BY <4>2, <5>2, <5>3, Zenon
        <4> QED
          BY <4>1, <4>2, Zenon
      <3>5. h \in [SUBSET S -> Nat]
        BY <3>3, Zenon
      <3> HIDE DEF h
      <3> QED
        BY <2>1, <3>4, <3>5, Zenon
    <2> QED
      BY <2>2, <2>3, Zenon
  <1>2. PICK g \in [SUBSET S -> Nat] : \A s \in SUBSET S : Cardinality(s) <= Cardinality(S) => Right(g, s)
    <2>1. Cardinality(S) \in Nat
      BY FS_CardinalityType, Zenon
    <2> QED
      BY <1>1, <2>1, Zenon
  <1>3. \A s \in SUBSET S : Right(g, s)
    BY <1>2, FS_Subset, Zenon
  <1>4. IsSum(g, f, S)
    BY <1>3, Zenon DEF IsSum
  <1> QED
    BY <1>4, Zenon

\* The sum is the value of such a function.
LEMMA SumIs ==
  ASSUME NEW S, IsFiniteSet(S), NEW f \in [S -> Nat]
  PROVE  \E g : IsSum(g, f, S) /\ SumFunctionOnSet(f, S) = g[S]
  <1>1. SumFunctionOnSet(f, S) = (CHOOSE g : IsSum(g, f, S))[S]
    BY Zenon DEF SumFunctionOnSet, FoldFunctionOnSet, MapThenFoldSet, IsSum, Pick
  <1>2. IsSum(CHOOSE g : IsSum(g, f, S), f, S)
    BY SumExists, Zenon
  <1> QED
    BY <1>1, <1>2, Zenon

\* Sums are naturals, and changing one value changes the sum by as much.
LEMMA SumChanges ==
  ASSUME NEW S, IsFiniteSet(S), NEW f \in [S -> Nat], NEW g \in [S -> Nat], NEW t \in S,
         \A x \in S : x # t => g[x] = f[x]
  PROVE  /\ SumFunctionOnSet(f, S) \in Nat /\ SumFunctionOnSet(g, S) \in Nat
         /\ SumFunctionOnSet(g, S) + f[t] = SumFunctionOnSet(f, S) + g[t]
  <1>1. PICK F : IsSum(F, f, S) /\ SumFunctionOnSet(f, S) = F[S]
    BY SumIs, Zenon
  <1>2. PICK G : IsSum(G, g, S) /\ SumFunctionOnSet(g, S) = G[S]
    BY SumIs, Zenon
  <1>f. \A s \in SUBSET S : F[s] = IF s = {} THEN 0 ELSE f[Pick(s)] + F[s \ {Pick(s)}]
    BY <1>1, Zenon DEF IsSum
  <1>g. \A s \in SUBSET S : G[s] = IF s = {} THEN 0 ELSE g[Pick(s)] + G[s \ {Pick(s)}]
    BY <1>2, Zenon DEF IsSum
  <1> DEFINE P(s) == /\ F[s] \in Nat /\ G[s] \in Nat
                     /\ t \notin s => G[s] = F[s]
                     /\ t \in s => G[s] + f[t] = F[s] + g[t]
             B == {n \in Nat : \E s \in SUBSET S : Cardinality(s) = n /\ ~P(s)}
  <1>3. ASSUME B # {} PROVE FALSE
    <2>1. PICK n \in B : \A m \in B : n <= m
      <3> HIDE DEF B
      <3>1. B \in SUBSET Nat
        BY Zenon DEF B
      <3> QED
        BY <1>3, <3>1, Least, Zenon
    <2>2. PICK s \in SUBSET S : Cardinality(s) = n /\ ~P(s)
      BY <2>1, Zenon
    <2>3. s # {}
      <3>1. s = {} => F[s] = 0 /\ G[s] = 0 /\ t \notin s
        BY <1>f, <1>g, Zenon
      <3>2. 0 \in Nat
        BY Zenon
      <3> QED
        BY <2>2, <3>1, <3>2, Zenon
    <2>4. PICK x \in s : x = Pick(s)
      BY <2>3, PickSmaller, Zenon
    <2>5. PICK r \in SUBSET S : r = s \ {x}
      BY Zenon
    <2>6. Cardinality(r) \in Nat /\ Cardinality(r) < n
      BY <2>2, <2>3, <2>4, <2>5, PickSmaller
    <2>7. P(r)
      BY <2>1, <2>6
    <2>8. F[s] = f[x] + F[r] /\ G[s] = g[x] + G[r] /\ f[x] \in Nat /\ g[x] \in Nat /\ f[t] \in Nat /\ g[t] \in Nat
      BY <1>f, <1>g, <2>3, <2>4, <2>5, Zenon
    <2>9. P(s)
      <3>1. CASE x = t
        BY <2>4, <2>5, <2>7, <2>8, <3>1
      <3>2. CASE x # t
        <4>1. g[x] = f[x] /\ (t \in s <=> t \in r)
          BY <2>5, <3>2, Zenon
        <4> QED
          BY <2>7, <2>8, <4>1
      <3> QED
        BY <3>1, <3>2, Zenon
    <2> QED
      BY <2>2, <2>9, Zenon
  <1>4. P(S)
    <2>1. Cardinality(S) \in Nat
      BY FS_CardinalityType, Zenon
    <2> QED
      BY <1>3, <2>1, Zenon
  <1> QED
    BY <1>1, <1>2, <1>4, Zenon

\* The sum of nothing but zeros.
LEMMA SumOfZeros ==
  ASSUME NEW S, IsFiniteSet(S), NEW f \in [S -> Nat], \A x \in S : f[x] = 0
  PROVE  SumFunctionOnSet(f, S) = 0
  <1>1. PICK F : IsSum(F, f, S) /\ SumFunctionOnSet(f, S) = F[S]
    BY SumIs, Zenon
  <1>2. \A s \in SUBSET S : F[s] = IF s = {} THEN 0 ELSE f[Pick(s)] + F[s \ {Pick(s)}]
    BY <1>1, Zenon DEF IsSum
  <1> DEFINE B == {n \in Nat : \E s \in SUBSET S : Cardinality(s) = n /\ F[s] # 0}
  <1>3. ASSUME B # {} PROVE FALSE
    <2>1. PICK n \in B : \A m \in B : n <= m
      <3> HIDE DEF B
      <3>1. B \in SUBSET Nat
        BY Zenon DEF B
      <3> QED
        BY <1>3, <3>1, Least, Zenon
    <2>2. PICK s \in SUBSET S : Cardinality(s) = n /\ F[s] # 0
      BY <2>1, Zenon
    <2>3. s # {}
      BY <1>2, <2>2, Zenon
    <2>4. PICK x \in s : x = Pick(s)
      BY <2>3, PickSmaller, Zenon
    <2>5. PICK r \in SUBSET S : r = s \ {x}
      BY Zenon
    <2>6. Cardinality(r) \in Nat /\ Cardinality(r) = n - 1 /\ n \in Nat
      <3>1. Cardinality(s \ {Pick(s)}) = Cardinality(s) - 1 /\ Cardinality(r) \in Nat
        BY <2>3, PickSmaller, Zenon
      <3> QED
        BY <2>1, <2>2, <2>4, <2>5, <3>1, Zenon
    <2>7. F[r] = 0
      <3>1. ~(n <= n - 1)
        <4> HIDE DEF B
        <4> QED
          BY <2>6
      <3>2. Cardinality(r) \notin B
        BY <2>1, <2>6, <3>1, Zenon
      <3> QED
        BY <2>6, <3>2, Zenon
    <2>8. F[s] = f[x] + F[r] /\ f[x] = 0
      BY <1>2, <2>3, <2>4, <2>5, Zenon
    <2>9. F[s] = 0
      <3> HIDE DEF B
      <3> QED
        BY <2>7, <2>8
    <2> QED
      BY <2>2, <2>9, Zenon
  <1>4. Cardinality(S) \in Nat
    BY FS_CardinalityType, Zenon
  <1>5. F[S] = 0
    BY <1>3, <1>4, Zenon
  <1> QED
    BY <1>1, <1>5, Zenon

----------------------------------------------------------------------------
(* The accounting *)

\* What task t has in flight at a step of record_traffic.
Share(step) == [t \in Tasks |-> IF pc[t] = step THEN size[t] ELSE 0]

\* The bytes in flight are a sum over the tasks.
LEMMA InFlightIsSum ==
  ASSUME NEW step PROVE InFlight(step) = SumFunctionOnSet(Share(step), Tasks)
  <1>1. DOMAIN Share(step) = Tasks
    BY Zenon DEF Share
  <1> QED
    BY <1>1, Zenon DEF InFlight, SumFunction, Share

\* The bytes in flight at a step are those before, less what task t had
\* there, and n more.
Balance(s, t, n) ==
    /\ InFlight(s) \in Nat /\ InFlight(s)' \in Nat
    /\ InFlight(s)' + Share(s)[t] = InFlight(s) + n
    /\ Share(s)[t] <= InFlight(s)

\* A call that moves to another step takes its bytes along.
LEMMA BytesMove ==
  ASSUME CallsTyped, CallsTyped', NEW t \in Tasks, NEW step, NEW n, Goto(t, step, n), NEW s
  PROVE  (step = s => Balance(s, t, n)) /\ (step # s => Balance(s, t, 0))
  <1>1. ASSUME NEW k \in 0..U64Max PROVE k \in Nat
    BY BytesAssumption
  <1>2. Share(s) \in [Tasks -> Nat]
    BY <1>1, BytesAssumption, Zenon DEF Share, CallsTyped
  <1>3. Share(s)' \in [Tasks -> Nat]
    BY <1>1, BytesAssumption, Zenon DEF Share, CallsTyped
  <1>4. PICK f \in [Tasks -> Nat] : f = Share(s)
    BY <1>2, Zenon
  <1>5. PICK g \in [Tasks -> Nat] : g = Share(s)'
    BY <1>3, Zenon
  <1>6. /\ \A x \in Tasks : x # t => g[x] = f[x]
        /\ g[t] = n \/ step # s
        /\ g[t] = 0 \/ step = s
    BY <1>4, <1>5, Zenon DEF Share, Goto, CallsTyped
  <1>7. /\ SumFunctionOnSet(f, Tasks) \in Nat /\ SumFunctionOnSet(g, Tasks) \in Nat
        /\ SumFunctionOnSet(g, Tasks) + f[t] = SumFunctionOnSet(f, Tasks) + g[t]
    <2>1. IsFiniteSet(Tasks)
      BY TasksAssumption, Zenon
    <2> HIDE DEF SumFunctionOnSet
    <2> QED
      BY <1>6, <2>1, SumChanges
  <1>8. f[t] <= SumFunctionOnSet(f, Tasks)
    <2>1. PICK h \in [Tasks -> Nat] : h = [f EXCEPT ![t] = 0]
      BY Zenon
    <2>2. h[t] = 0 /\ \A x \in Tasks : x # t => h[x] = f[x]
      BY <2>1, Zenon
    <2>3. /\ SumFunctionOnSet(f, Tasks) \in Nat /\ SumFunctionOnSet(h, Tasks) \in Nat
          /\ SumFunctionOnSet(h, Tasks) + f[t] = SumFunctionOnSet(f, Tasks) + h[t]
      <3>1. IsFiniteSet(Tasks)
        BY TasksAssumption, Zenon
      <3> QED
        BY <2>2, <3>1, SumChanges
    <2> QED
      BY <2>2, <2>3
  <1>9. InFlight(s) = SumFunctionOnSet(f, Tasks)
    BY <1>4, InFlightIsSum, Zenon
  <1>10. InFlight(s)' = SumFunctionOnSet(g, Tasks)
    <2>1. DOMAIN g = Tasks
      BY Zenon
    <2> QED
      BY <1>5, <2>1, Zenon DEF InFlight, SumFunction, Share
  <1> QED
    BY <1>4, <1>6, <1>7, <1>8, <1>9, <1>10, Zenon DEF Balance

\* Calls that stay where they are keep their bytes.
LEMMA BytesStay ==
  ASSUME UNCHANGED <<pc, size>>, NEW s PROVE InFlight(s)' = InFlight(s)
  BY Zenon DEF InFlight

\* At the start there is nothing to sum up.
LEMMA NothingInFlight ==
  ASSUME Init, NEW s PROVE InFlight(s) = 0
  <1>1. PICK f \in [Tasks -> Nat] : f = Share(s)
    BY Zenon DEF Init, Share
  <1>2. \A t \in Tasks : f[t] = 0
    BY <1>1, Zenon DEF Init, Share
  <1>3. SumFunctionOnSet(f, Tasks) = 0
    BY <1>2, SumOfZeros, TasksAssumption, Zenon
  <1> QED
    BY <1>1, <1>3, InFlightIsSum, Zenon

\* The initial state is accounted for.
LEMMA InitAccounting == Init => Accounting
  <1> SUFFICES ASSUME Init PROVE Accounting
    BY Zenon
  <1>1. InFlight("count") = 0 /\ InFlight("publish") = 0
    BY NothingInFlight, Zenon
  <1>2. total = 0 /\ upload = 0 /\ download = 0 /\ published = 0
    BY Zenon DEF Init
  <1> QED
    BY <1>1, <1>2 DEF Accounting

\* A call that moves between steps with nothing in flight.
LEMMA QuietMove ==
  ASSUME CallsTyped, CallsTyped', Accounting, UNCHANGED <<counters, published>>,
         NEW t \in Tasks, NEW step \in {"idle", "waiting", "reserve"}, NEW n, Goto(t, step, n),
         pc[t] \in {"idle", "waiting", "reserve"}
  PROVE  Accounting'
  <1>1. ASSUME NEW s \in {"count", "publish"} PROVE InFlight(s)' = InFlight(s)
    <2>1. Balance(s, t, 0)
      <3>1. step # s
        BY Zenon
      <3> QED
        BY <3>1, BytesMove, Zenon
    <2>2. Share(s)[t] = 0
      BY Zenon DEF Share
    <2> QED
      BY <2>1, <2>2 DEF Balance
  <1> QED
    BY <1>1, Zenon DEF Accounting, counters

\* Every step keeps the account; the counters of the directions do not wrap,
\* since the shared counter bounds them.
LEMMA NextAccounting == IInv /\ Accounting /\ [Next]_vars => Accounting'
  <1> SUFFICES ASSUME IInv, Accounting, [Next]_vars PROVE Accounting'
    BY Zenon
  <1>0. CallsTyped /\ CallsTyped'
    <2>1. IInv'
      BY NextIInv, Zenon
    <2> QED
      BY <2>1, Zenon DEF IInv, TypeOK, CallsTyped
  <1>t. /\ total \in 0..U64Max /\ upload \in 0..U64Max /\ download \in 0..U64Max
        /\ published \in Nat /\ U64Max \in Nat /\ size \in [Tasks -> 0..U64Max]
    BY BytesAssumption, Zenon DEF IInv, TypeOK
  <1>1. ASSUME NEW t \in Tasks, NEW n \in Sizes, RecordTraffic(t, n) PROVE Accounting'
    BY <1>0, <1>1, QuietMove, Zenon DEF RecordTraffic, counters
  <1>2. ASSUME NEW t \in Tasks, AfterWait(t) PROVE Accounting'
    BY <1>0, <1>2, QuietMove, Zenon DEF AfterWait, counters
  <1>3. ASSUME NEW t \in Tasks, Reserve(t) PROVE Accounting'
    <2>1. CASE total' = total /\ Goto(t, "idle", 0)
      BY <1>0, <1>3, <2>1, QuietMove, Zenon DEF Reserve, counters
    <2>2. CASE total' = total + size[t] /\ Goto(t, "count", size[t])
      <3>1. Balance("count", t, size[t])
        BY <1>0, <2>2, BytesMove, Zenon
      <3>2. Balance("publish", t, 0)
        BY <1>0, <2>2, BytesMove, Zenon
      <3>3. Share("count")[t] = 0 /\ Share("publish")[t] = 0
        BY <1>3, Zenon DEF Reserve, Share
      <3>4. upload' = upload /\ download' = download /\ published' = published
        BY <1>3, Zenon DEF Reserve
      <3>5. size[t] \in 0..U64Max
        BY <1>t, Zenon
      <3> QED
        BY <1>t, <2>2, <3>1, <3>2, <3>3, <3>4, <3>5 DEF Accounting, Balance
    <2> QED
      BY <1>3, <2>1, <2>2, Zenon DEF Reserve
  <1>4. ASSUME NEW t \in Tasks, Count(t) PROVE Accounting'
    <2>1. Balance("count", t, 0)
      BY <1>0, <1>4, BytesMove, Zenon DEF Count
    <2>2. Balance("publish", t, size[t])
      BY <1>0, <1>4, BytesMove, Zenon DEF Count
    <2>3. Share("count")[t] = size[t] /\ Share("publish")[t] = 0
      BY <1>4, Zenon DEF Count, Share
    <2>4. PICK b \in 0..U64Max : b = size[t]
      BY <1>t, Zenon
    <2>5. upload + b <= U64Max /\ download + b <= U64Max
      BY <1>t, <2>1, <2>3, <2>4 DEF Accounting, Balance
    <2>6. (upload + b) % (U64Max + 1) = upload + b /\ (download + b) % (U64Max + 1) = download + b
      BY <1>t, <2>5, NoWrap
    <2>7. \/ upload' = upload + b /\ download' = download
          \/ download' = download + b /\ upload' = upload
      BY <1>4, <2>4, <2>6, Zenon DEF Count
    <2>8. total' = total /\ published' = published
      BY <1>4, Zenon DEF Count
    <2> QED
      BY <1>t, <2>1, <2>2, <2>3, <2>4, <2>7, <2>8 DEF Accounting, Balance
  <1>5. ASSUME NEW t \in Tasks, Publish(t) PROVE Accounting'
    <2>1. Balance("count", t, 0)
      BY <1>0, <1>5, BytesMove, Zenon DEF Publish
    <2>2. Balance("publish", t, 0)
      BY <1>0, <1>5, BytesMove, Zenon DEF Publish
    <2>3. Share("count")[t] = 0 /\ Share("publish")[t] = size[t]
      BY <1>5, Zenon DEF Publish, Share
    <2>4. PICK b \in 0..U64Max : b = size[t]
      BY <1>t, Zenon
    <2>5. published' = published + b /\ total' = total /\ upload' = upload /\ download' = download
      BY <1>5, <2>4, Zenon DEF Publish, counters
    <2> QED
      BY <1>t, <2>1, <2>2, <2>3, <2>4, <2>5 DEF Accounting, Balance
  <1>6. ASSUME UNCHANGED <<counters, pc, size, published>> PROVE Accounting'
    BY <1>6, BytesStay, Zenon DEF Accounting, counters
  <1>7. ASSUME NEW q \in Quotas, SetQuota(q) PROVE Accounting'
    BY <1>6, <1>7, Zenon DEF SetQuota
  <1>8. ASSUME NEW s \in Sessions, Cancel(s) PROVE Accounting'
    BY <1>6, <1>8, Zenon DEF Cancel
  <1>9. CASE UNCHANGED vars
    BY <1>6, <1>9, Zenon DEF vars
  <1> QED
    BY <1>1, <1>2, <1>3, <1>4, <1>5, <1>7, <1>8, <1>9, Zenon DEF Next, Proceed

\* However the halves of the user's sessions interleave between reserving,
\* counting and publishing their bytes, the shared counter is the bytes
\* counted plus those reserved, no counter wraps, and the TrafficRecorded
\* events add up to the counters.
THEOREM AccountingHolds == Spec => []Accounting
  BY IInvHolds, InitAccounting, NextAccounting, PTL DEF Spec

----------------------------------------------------------------------------
\* The rate limiter (RateLimiter).

\* What a task in the limiter holds: its bytes, the rate it read, when it was
\* charged and until when it sleeps, and the schedule it was charged to.
AChunk == [bytes : Nat, rate : Nat, at : Nat, until : Nat, epoch : Nat]

LimiterTyped ==
    /\ now \in Nat /\ rate \in Nat /\ next \in Nat /\ charged \in Nat /\ spent \in Nat
    /\ epoch \in [count : Nat, start : Nat]
    /\ wpc \in [Waiters -> {"idle", "charge", "sleep"}]
    /\ chunk \in [Waiters -> AChunk]
    /\ \A w \in Waiters : wpc[w] # "idle" => chunk[w].rate > 0

\* A task in the limiter that was charged since the schedule was restarted.
Sleeper(w) == wpc[w] = "sleep" /\ chunk[w].epoch = epoch.count

\* What the tasks whose deadline is not after t were charged, for tasks at
\* the steps p with the chunks c and the schedule's e-th restart.
ChargesOf(p, c, e, t) ==
    [w \in Waiters |-> IF p[w] = "sleep" /\ c[w].epoch = e /\ c[w].until <= t
                       THEN Limiter!Cost(c[w]) ELSE 0]
Charges(t) == ChargesOf(wpc, chunk, epoch.count, t)

\* The schedule: by any time t the chunks let through and those due by t have
\* cost no more than the time since the restart.
Paid(t) == spent + SumFunctionOnSet(Charges(t), Waiters) <= t - epoch.start

\* Nobody sleeps less than its chunk costs, or longer than the schedule says.
Deadlines ==
    /\ epoch.start <= now
    /\ next <= now + charged
    /\ \A w \in Waiters : wpc[w] = "sleep" =>
          /\ chunk[w].epoch <= epoch.count
          /\ chunk[w].until >= chunk[w].at + Limiter!Cost(chunk[w])
          /\ Sleeper(w) => chunk[w].until <= next

\* The inductive invariant of the limiter.
LimiterInv ==
    /\ LimiterTyped
    /\ Deadlines
    /\ \A t \in Nat : t >= now => Paid(t)

\* The quotient of a natural number by a positive one.
LEMMA QuotientIsNat ==
  ASSUME NEW a \in Nat, NEW b \in Nat, b > 0 PROVE a \div b \in Nat
  OBVIOUS

\* The product of natural numbers.
LEMMA ProductIsNat ==
  ASSUME NEW a \in Nat, NEW b \in Nat PROVE a * b \in Nat
  OBVIOUS

\* What a chunk is charged is a natural number of ticks.
LEMMA CostIsNat ==
  ASSUME Limiter!WellFormed, NEW c \in AChunk, c.rate > 0
  PROVE  Limiter!Cost(c) \in Nat
  <1>1. Second \in Nat /\ c.rate \in Nat /\ c.bytes \in Nat
    BY Zenon DEF Limiter!WellFormed, AChunk
  <1>2. Second \div c.rate \in Nat
    BY <1>1, QuotientIsNat, Zenon
  <1> QED
    BY <1>1, <1>2, ProductIsNat, Zenon DEF Limiter!Cost

\* Charges are natural numbers.
LEMMA ChargesTyped ==
  ASSUME Limiter!WellFormed, NEW p, NEW c \in [Waiters -> AChunk], NEW e, NEW t,
         \A w \in Waiters : p[w] # "idle" => c[w].rate > 0
  PROVE  ChargesOf(p, c, e, t) \in [Waiters -> Nat]
  <1>1. ASSUME NEW w \in Waiters
        PROVE  (IF p[w] = "sleep" /\ c[w].epoch = e /\ c[w].until <= t
                THEN Limiter!Cost(c[w]) ELSE 0) \in Nat
    <2>1. CASE p[w] = "sleep"
      <3>1. c[w] \in AChunk /\ c[w].rate > 0
        BY <2>1, Zenon
      <3>2. Limiter!Cost(c[w]) \in Nat
        BY <3>1, CostIsNat, Zenon
      <3> QED
        BY <3>2, Zenon
    <2>2. CASE p[w] # "sleep"
      BY <2>2, Zenon
    <2> QED
      BY <2>1, <2>2, Zenon
  <1> QED
    BY <1>1, Zenon DEF ChargesOf

\* The sum of the charges when those of one task change.
LEMMA ChargesChange ==
  ASSUME IsFiniteSet(Waiters), NEW f \in [Waiters -> Nat], NEW g \in [Waiters -> Nat],
         NEW w \in Waiters, \A x \in Waiters : x # w => g[x] = f[x]
  PROVE  /\ SumFunctionOnSet(f, Waiters) \in Nat
         /\ SumFunctionOnSet(g, Waiters) \in Nat
         /\ SumFunctionOnSet(g, Waiters) + f[w] = SumFunctionOnSet(f, Waiters) + g[w]
  BY SumChanges

\* A sum of natural numbers is a natural number.
LEMMA SumIsNat ==
  ASSUME IsFiniteSet(Waiters), NEW f \in [Waiters -> Nat]
  PROVE  SumFunctionOnSet(f, Waiters) \in Nat
  <1>1. CASE Waiters = {}
    <2>1. SumFunctionOnSet(f, Waiters) = 0
      BY <1>1, SumOfZeros, Zenon
    <2> QED
      BY <2>1
  <1>2. CASE Waiters # {}
    <2>1. PICK w \in Waiters : TRUE
      BY <1>2, Zenon
    <2> QED
      BY <2>1, ChargesChange, Zenon
  <1> QED
    BY <1>1, <1>2, Zenon

\* A record of five fields.
LEMMA NoChunkTyped == Limiter!NoChunk \in AChunk
  BY Zenon DEF Limiter!NoChunk, AChunk

\* Every step keeps the types, and the rate of a task in the limiter is not
\* zero.
LEMMA LimiterTypedNext ==
  ASSUME Limiter!WellFormed, LimiterTyped, [Limiter!Next]_(Limiter!vars)
  PROVE  LimiterTyped'
  <1>0. /\ now \in Nat /\ rate \in Nat /\ next \in Nat /\ charged \in Nat /\ spent \in Nat
        /\ epoch \in [count : Nat, start : Nat]
        /\ wpc \in [Waiters -> {"idle", "charge", "sleep"}]
        /\ chunk \in [Waiters -> AChunk]
        /\ \A w \in Waiters : wpc[w] # "idle" => chunk[w].rate > 0
    BY Zenon DEF LimiterTyped
  <1>c. \A w \in Waiters : wpc[w] # "idle" => Limiter!Cost(chunk[w]) \in Nat
    BY <1>0, CostIsNat, Zenon
  <1>r. ASSUME NEW w \in Waiters, Limiter!Return(w)
        PROVE  /\ wpc' \in [Waiters -> {"idle", "charge", "sleep"}]
               /\ chunk' \in [Waiters -> AChunk]
               /\ \A x \in Waiters : wpc'[x] # "idle" => chunk'[x].rate > 0
    BY <1>0, <1>r, NoChunkTyped, Zenon DEF Limiter!Return
  <1>1. ASSUME NEW w \in Waiters, NEW n \in ChunkSizes, Limiter!LoadRate(w, n)
        PROVE  LimiterTyped'
    <2> DEFINE c == [Limiter!NoChunk EXCEPT !.bytes = n, !.rate = rate]
    <2>1. c \in AChunk /\ c.rate > 0
      BY <1>0, <1>1, Zenon DEF Limiter!LoadRate, Limiter!NoChunk, AChunk, Limiter!WellFormed
    <2> HIDE DEF c
    <2>2. wpc' = [wpc EXCEPT ![w] = "charge"] /\ chunk' = [chunk EXCEPT ![w] = c]
      BY <1>1, Zenon DEF Limiter!LoadRate, c
    <2>3. UNCHANGED <<now, rate, next, charged, spent, epoch>>
      BY <1>1, Zenon DEF Limiter!LoadRate
    <2>4. /\ wpc' \in [Waiters -> {"idle", "charge", "sleep"}]
          /\ chunk' \in [Waiters -> AChunk]
      BY <1>0, <2>1, <2>2, Zenon
    <2>5. ASSUME NEW x \in Waiters, wpc'[x] # "idle" PROVE chunk'[x].rate > 0
      BY <1>0, <2>1, <2>2, <2>5, Zenon
    <2> QED
      BY <1>0, <2>3, <2>4, <2>5, Zenon DEF LimiterTyped
  <1>2. ASSUME NEW w \in Waiters, Limiter!Charge(w) PROVE LimiterTyped'
    <2> DEFINE start == IF next < now THEN now ELSE next
               due == start + Limiter!Cost(chunk[w])
               c == [chunk[w] EXCEPT !.at = now, !.until = due, !.epoch = epoch.count]
    <2>1. Limiter!Cost(chunk[w]) \in Nat /\ chunk[w].rate > 0 /\ chunk[w] \in AChunk
      BY <1>0, <1>2, <1>c, Zenon DEF Limiter!Charge
    <2>2. due \in Nat /\ charged + Limiter!Cost(chunk[w]) \in Nat
      BY <1>0, <2>1
    <2>3. /\ next' = due /\ charged' = charged + Limiter!Cost(chunk[w])
          /\ wpc' = [wpc EXCEPT ![w] = "sleep"] /\ chunk' = [chunk EXCEPT ![w] = c]
          /\ UNCHANGED <<now, rate, spent, epoch>>
      BY <1>2, Zenon DEF Limiter!Charge
    <2> HIDE DEF due
    <2>4. c \in AChunk /\ c.rate = chunk[w].rate
      BY <1>0, <2>1, <2>2, Zenon DEF AChunk
    <2> HIDE DEF c
    <2>5. /\ wpc' \in [Waiters -> {"idle", "charge", "sleep"}]
          /\ chunk' \in [Waiters -> AChunk]
      BY <1>0, <2>3, <2>4, Zenon
    <2>6. ASSUME NEW x \in Waiters, wpc'[x] # "idle" PROVE chunk'[x].rate > 0
      BY <1>0, <2>1, <2>3, <2>4, <2>6, Zenon
    <2> QED
      BY <1>0, <2>2, <2>3, <2>5, <2>6, Zenon DEF LimiterTyped
  <1>3. ASSUME NEW w \in Waiters, Limiter!Wake(w) PROVE LimiterTyped'
    <2>1. spent' \in Nat
      <3>1. Limiter!Cost(chunk[w]) \in Nat
        BY <1>0, <1>3, <1>c, Zenon DEF Limiter!Wake
      <3> QED
        BY <1>0, <1>3, <3>1 DEF Limiter!Wake
    <2> QED
      BY <1>0, <1>3, <1>r, <2>1, Zenon DEF Limiter!Wake, LimiterTyped
  <1>4. ASSUME NEW w \in Waiters, Limiter!WakeCancelled(w) PROVE LimiterTyped'
    BY <1>0, <1>4, <1>r, Zenon DEF Limiter!WakeCancelled, LimiterTyped
  <1>5. ASSUME NEW w \in Waiters, Limiter!Cancel(w) PROVE LimiterTyped'
    BY <1>0, <1>5, Zenon DEF Limiter!Cancel, LimiterTyped
  <1>6. ASSUME NEW s \in Setters, NEW r \in Rates, Limiter!SwapRate(s, r) PROVE LimiterTyped'
    BY <1>0, <1>6, Zenon DEF Limiter!SwapRate, LimiterTyped, Limiter!WellFormed
  <1>7. ASSUME NEW s \in Setters, Limiter!Restart(s) PROVE LimiterTyped'
    <2>1. epoch' \in [count : Nat, start : Nat]
      BY <1>0, <1>7 DEF Limiter!Restart
    <2>2. 0 \in Nat
      BY Zenon
    <2> QED
      BY <1>0, <1>7, <2>1, <2>2, Zenon DEF Limiter!Restart, LimiterTyped
  <1>8. CASE Limiter!Tick
    <2>1. now' \in Nat
      BY <1>0, <1>8 DEF Limiter!Tick
    <2> QED
      BY <1>0, <1>8, <2>1, Zenon DEF Limiter!Tick, LimiterTyped
  <1>9. CASE UNCHANGED Limiter!vars
    BY <1>0, <1>9, Zenon DEF Limiter!vars, LimiterTyped
  <1> QED
    BY <1>1, <1>2, <1>3, <1>4, <1>5, <1>6, <1>7, <1>8, <1>9, Zenon
    DEF Limiter!Next, Limiter!Proceed

\* What a charge does: the chunk's deadline is the end of the schedule, which
\* is its cost after the later of now and the schedule's former end.
LEMMA ChargeDoes ==
  ASSUME Limiter!WellFormed, LimiterTyped, NEW w \in Waiters, Limiter!Charge(w)
  PROVE  /\ Limiter!Cost(chunk[w]) \in Nat /\ next' \in Nat
         /\ next' >= now + Limiter!Cost(chunk[w]) /\ next' >= next + Limiter!Cost(chunk[w])
         /\ next' = now + Limiter!Cost(chunk[w]) \/ next' = next + Limiter!Cost(chunk[w])
         /\ charged' = charged + Limiter!Cost(chunk[w])
         /\ wpc[w] = "charge" /\ wpc'[w] = "sleep"
         /\ chunk'[w].until = next' /\ chunk'[w].at = now
         /\ chunk'[w].epoch = epoch.count
         /\ Limiter!Cost(chunk'[w]) = Limiter!Cost(chunk[w])
         /\ \A x \in Waiters : x # w => wpc'[x] = wpc[x] /\ chunk'[x] = chunk[x]
         /\ UNCHANGED <<now, epoch, spent>>
  <1> DEFINE start == IF next < now THEN now ELSE next
             due == start + Limiter!Cost(chunk[w])
             c == [chunk[w] EXCEPT !.at = now, !.until = due, !.epoch = epoch.count]
  <1>0. /\ now \in Nat /\ next \in Nat /\ charged \in Nat /\ wpc[w] = "charge"
        /\ chunk[w] \in AChunk /\ chunk[w].rate > 0
        /\ wpc \in [Waiters -> {"idle", "charge", "sleep"}] /\ chunk \in [Waiters -> AChunk]
    BY Zenon DEF LimiterTyped, Limiter!Charge
  <1>1. Limiter!Cost(chunk[w]) \in Nat
    BY <1>0, CostIsNat, Zenon
  <1>2. /\ next' = due /\ charged' = charged + Limiter!Cost(chunk[w])
        /\ wpc' = [wpc EXCEPT ![w] = "sleep"] /\ chunk' = [chunk EXCEPT ![w] = c]
        /\ UNCHANGED <<now, spent, epoch>>
    BY Zenon DEF Limiter!Charge
  <1>3. /\ next' \in Nat
        /\ next' >= now + Limiter!Cost(chunk[w]) /\ next' >= next + Limiter!Cost(chunk[w])
        /\ next' = now + Limiter!Cost(chunk[w]) \/ next' = next + Limiter!Cost(chunk[w])
    BY <1>0, <1>1, <1>2
  <1> HIDE DEF due
  <1>4. /\ c.until = due /\ c.at = now /\ c.epoch = epoch.count
        /\ c.bytes = chunk[w].bytes /\ c.rate = chunk[w].rate
    BY <1>0, Zenon DEF AChunk
  <1> HIDE DEF c
  <1>5. /\ wpc'[w] = "sleep" /\ chunk'[w] = c
        /\ \A x \in Waiters : x # w => wpc'[x] = wpc[x] /\ chunk'[x] = chunk[x]
    BY <1>0, <1>2, Zenon
  <1>6. Limiter!Cost(chunk'[w]) = Limiter!Cost(chunk[w])
    BY <1>4, <1>5, Zenon DEF Limiter!Cost
  <1> QED
    BY <1>0, <1>1, <1>2, <1>3, <1>4, <1>5, <1>6, Zenon

\* A task that returns is out of the limiter; the others stay as they are.
LEMMA ReturnDoes ==
  ASSUME LimiterTyped, NEW w \in Waiters, Limiter!Return(w)
  PROVE  /\ wpc'[w] = "idle"
         /\ \A x \in Waiters : x # w => wpc'[x] = wpc[x] /\ chunk'[x] = chunk[x]
  BY Zenon DEF LimiterTyped, Limiter!Return

\* So is a task that has loaded the rate and was not charged yet.
LEMMA LoadRateDoes ==
  ASSUME LimiterTyped, NEW w \in Waiters, NEW n, Limiter!LoadRate(w, n)
  PROVE  /\ wpc[w] = "idle" /\ wpc'[w] = "charge"
         /\ \A x \in Waiters : x # w => wpc'[x] = wpc[x] /\ chunk'[x] = chunk[x]
  BY Zenon DEF LimiterTyped, Limiter!LoadRate

\* Every step keeps the deadlines in order.
LEMMA DeadlinesNext ==
  ASSUME Limiter!WellFormed, LimiterTyped, Deadlines, [Limiter!Next]_(Limiter!vars)
  PROVE  Deadlines'
  <1>0. /\ now \in Nat /\ next \in Nat /\ charged \in Nat
        /\ epoch.count \in Nat /\ epoch.start \in Nat
        /\ \A x \in Waiters : /\ chunk[x].epoch \in Nat /\ chunk[x].until \in Nat
                              /\ chunk[x].at \in Nat
    BY Zenon DEF LimiterTyped, AChunk
  <1>d. epoch.start <= now /\ next <= now + charged
    BY Zenon DEF Deadlines
  <1> DEFINE D(x) == wpc[x] = "sleep" =>
                 /\ chunk[x].epoch <= epoch.count
                 /\ chunk[x].until >= chunk[x].at + Limiter!Cost(chunk[x])
                 /\ Sleeper(x) => chunk[x].until <= next
  <1>e. \A x \in Waiters : D(x)
    BY Zenon DEF Deadlines
  <1>u. ASSUME NEW w \in Waiters, wpc'[w] # "sleep", UNCHANGED <<now, next, epoch, charged>>,
               \A x \in Waiters : x # w => wpc'[x] = wpc[x] /\ chunk'[x] = chunk[x]
        PROVE  Deadlines'
    BY <1>d, <1>e, <1>u, Zenon DEF Deadlines, Sleeper
  <1>1. ASSUME NEW w \in Waiters, NEW n \in ChunkSizes, Limiter!LoadRate(w, n)
        PROVE  Deadlines'
    <2>1. UNCHANGED <<now, next, epoch, charged>>
      BY <1>1, Zenon DEF Limiter!LoadRate
    <2> QED
      BY <1>1, <1>u, <2>1, LoadRateDoes, Zenon
  <1>2. ASSUME NEW w \in Waiters, Limiter!Charge(w) PROVE Deadlines'
    <2> DEFINE cost == Limiter!Cost(chunk[w])
    <2>1. /\ cost \in Nat /\ next' \in Nat
          /\ next' >= now + cost /\ next' >= next + cost
          /\ next' = now + cost \/ next' = next + cost
          /\ charged' = charged + cost
          /\ wpc'[w] = "sleep"
          /\ chunk'[w].until = next' /\ chunk'[w].at = now
          /\ chunk'[w].epoch = epoch.count
          /\ Limiter!Cost(chunk'[w]) = cost
          /\ \A x \in Waiters : x # w => wpc'[x] = wpc[x] /\ chunk'[x] = chunk[x]
          /\ now' = now /\ epoch' = epoch
      BY <1>2, ChargeDoes, Zenon
    <2> HIDE DEF cost
    <2>2. next' <= now' + charged' /\ epoch'.start <= now'
      BY <1>0, <1>d, <2>1
    <2>3. D(w)'
      <3>1. epoch.count <= epoch.count /\ next' >= now + cost /\ next' <= next'
        BY <1>0, <2>1
      <3> QED
        BY <2>1, <3>1, Zenon
    <2>4. ASSUME NEW x \in Waiters, x # w PROVE D(x)'
      <3>1. D(x) /\ wpc'[x] = wpc[x] /\ chunk'[x] = chunk[x] /\ epoch' = epoch
        BY <1>e, <2>1, <2>4, Zenon
      <3>2. chunk[x].until <= next => chunk[x].until <= next'
        BY <1>0, <2>1
      <3> QED
        BY <3>1, <3>2, Zenon DEF Sleeper
    <2> QED
      BY <2>2, <2>3, <2>4, Zenon DEF Deadlines
  <1>3. ASSUME NEW w \in Waiters, Limiter!Wake(w) \/ Limiter!WakeCancelled(w) PROVE Deadlines'
    <2>1. UNCHANGED <<now, next, epoch, charged>> /\ Limiter!Return(w)
      BY <1>3, Zenon DEF Limiter!Wake, Limiter!WakeCancelled
    <2>2. /\ wpc'[w] # "sleep"
          /\ \A x \in Waiters : x # w => wpc'[x] = wpc[x] /\ chunk'[x] = chunk[x]
      BY <2>1, ReturnDoes, Zenon
    <2> QED
      BY <1>u, <2>1, <2>2, Zenon
  <1>4. ASSUME NEW s \in Setters, Limiter!Restart(s) PROVE Deadlines'
    <2>1. /\ UNCHANGED <<now, wpc, chunk>> /\ next' = now /\ charged' = 0
          /\ epoch'.count = epoch.count + 1 /\ epoch'.start = now
      BY <1>4, Zenon DEF Limiter!Restart
    <2>2. epoch'.start <= now' /\ next' <= now' + charged'
      BY <1>0, <2>1
    <2>3. ASSUME NEW x \in Waiters, wpc[x] = "sleep"
          PROVE  chunk[x].epoch <= epoch'.count /\ chunk[x].epoch # epoch'.count
      <3>1. chunk[x].epoch <= epoch.count
        BY <1>e, <2>3, Zenon
      <3> QED
        BY <1>0, <2>1, <3>1
    <2> QED
      BY <1>e, <2>1, <2>2, <2>3, Zenon DEF Deadlines, Sleeper
  <1>5. CASE Limiter!Tick
    <2>1. now' = now + 1 /\ UNCHANGED <<next, wpc, chunk, epoch, charged>>
      BY <1>5, Zenon DEF Limiter!Tick
    <2>2. epoch'.start <= now' /\ next' <= now' + charged'
      BY <1>0, <1>d, <2>1
    <2> QED
      BY <1>e, <2>1, <2>2, Zenon DEF Deadlines, Sleeper
  <1>6. CASE UNCHANGED <<now, next, wpc, chunk, epoch, charged>>
    BY <1>d, <1>e, <1>6, Zenon DEF Deadlines, Sleeper
  <1>7. ASSUME NEW w \in Waiters, Limiter!Cancel(w)
        PROVE  UNCHANGED <<now, next, wpc, chunk, epoch, charged>>
    BY <1>7, Zenon DEF Limiter!Cancel
  <1>8. ASSUME NEW s \in Setters, NEW r \in Rates, Limiter!SwapRate(s, r)
        PROVE  UNCHANGED <<now, next, wpc, chunk, epoch, charged>>
    BY <1>8, Zenon DEF Limiter!SwapRate
  <1>9. CASE UNCHANGED Limiter!vars
    BY <1>6, <1>9, Zenon DEF Limiter!vars
  <1> QED
    BY <1>1, <1>2, <1>3, <1>4, <1>5, <1>6, <1>7, <1>8, <1>9, Zenon
    DEF Limiter!Next, Limiter!Proceed

\* A task that stays where it is in the same schedule is charged the same.
LEMMA SameCharge ==
  ASSUME NEW t, NEW x \in Waiters, epoch' = epoch, wpc'[x] = wpc[x], chunk'[x] = chunk[x]
  PROVE  Charges(t)'[x] = Charges(t)[x]
  BY Zenon DEF Charges, ChargesOf

\* The schedule keeps paying for its chunks when one task is charged, let
\* through or turned away.
LEMMA PaidWhenOneMoves ==
  ASSUME IsFiniteSet(Waiters), Limiter!WellFormed, LimiterTyped, LimiterTyped',
         NEW t \in Nat, NEW w \in Waiters, epoch' = epoch,
         \A x \in Waiters : x # w => wpc'[x] = wpc[x] /\ chunk'[x] = chunk[x],
         NEW s \in Nat, s <= t, spent + SumFunctionOnSet(Charges(t), Waiters) <= s - epoch.start,
         s + spent' + Charges(t)'[w] <= t + spent + Charges(t)[w]
  PROVE  Paid(t)'
  <1>1. Charges(t) \in [Waiters -> Nat] /\ Charges(t)' \in [Waiters -> Nat]
    <2>1. Charges(t) \in [Waiters -> Nat]
      BY ChargesTyped, Zenon DEF LimiterTyped, Charges
    <2>2. Charges(t)' \in [Waiters -> Nat]
      BY ChargesTyped, Zenon DEF LimiterTyped, Charges
    <2> QED
      BY <2>1, <2>2, Zenon
  <1>2. \A x \in Waiters : x # w => Charges(t)'[x] = Charges(t)[x]
    BY SameCharge, Zenon
  <1> DEFINE f == Charges(t)  g == Charges(t)'
  <1>3. /\ SumFunctionOnSet(f, Waiters) \in Nat /\ SumFunctionOnSet(g, Waiters) \in Nat
        /\ SumFunctionOnSet(g, Waiters) + f[w] = SumFunctionOnSet(f, Waiters) + g[w]
        /\ f[w] \in Nat /\ g[w] \in Nat
    <2> HIDE DEF f, g
    <2>1. f \in [Waiters -> Nat] /\ g \in [Waiters -> Nat]
          /\ \A x \in Waiters : x # w => g[x] = f[x]
      BY <1>1, <1>2, Zenon DEF f, g
    <2> QED
      BY <2>1, ChargesChange, Zenon
  <1>4. spent \in Nat /\ spent' \in Nat /\ epoch.start \in Nat
    BY Zenon DEF LimiterTyped
  <1>5. /\ spent + SumFunctionOnSet(f, Waiters) <= s - epoch.start
        /\ s + spent' + g[w] <= t + spent + f[w]
    BY Zenon
  <1> HIDE DEF f, g
  <1>6. PICK F \in Nat, G \in Nat, a \in Nat, b \in Nat :
           /\ F = SumFunctionOnSet(f, Waiters) /\ G = SumFunctionOnSet(g, Waiters)
           /\ a = f[w] /\ b = g[w]
    BY <1>3, Zenon
  <1>7. /\ G + a = F + b
        /\ spent + F <= s - epoch.start /\ s + spent' + b <= t + spent + a
    BY <1>3, <1>5, <1>6, Zenon
  <1>8. spent' + G <= t - epoch.start
    BY <1>4, <1>6, <1>7
  <1> QED
    BY <1>6, <1>8, Zenon DEF Paid, g

\* All that was charged is due by the end of the schedule, and no more is due
\* at any later time.
LEMMA AllDue ==
  ASSUME LimiterTyped, Deadlines, NEW s \in Nat, NEW t \in Nat, s >= next, t >= s
  PROVE  Charges(t) = Charges(s)
  <1>1. ASSUME NEW w \in Waiters, wpc[w] = "sleep", chunk[w].epoch = epoch.count
        PROVE  chunk[w].until <= t /\ chunk[w].until <= s
    <2>1. chunk[w].until <= next
      BY <1>1, Zenon DEF Deadlines, Sleeper
    <2>2. chunk[w].until \in Nat /\ next \in Nat
      BY Zenon DEF LimiterTyped, AChunk
    <2> QED
      BY <2>1, <2>2
  <1> QED
    BY <1>1, Zenon DEF Charges, ChargesOf

\* Every step leaves the schedule paid for.
LEMMA PaidNext ==
  ASSUME IsFiniteSet(Waiters), Limiter!WellFormed, LimiterInv, LimiterTyped',
         [Limiter!Next]_(Limiter!vars), NEW t \in Nat, t >= now'
  PROVE  Paid(t)'
  <1>0. /\ now \in Nat /\ now' \in Nat /\ next \in Nat /\ spent \in Nat /\ epoch.start \in Nat
        /\ epoch.count \in Nat
    BY Zenon DEF LimiterInv, LimiterTyped
  <1>i. LimiterTyped /\ Deadlines /\ \A u \in Nat : u >= now => Paid(u)
    BY Zenon DEF LimiterInv
  <1>t. Charges(t) \in [Waiters -> Nat] /\ Charges(t)' \in [Waiters -> Nat]
    <2>1. Charges(t) \in [Waiters -> Nat]
      BY <1>i, ChargesTyped, Zenon DEF LimiterTyped, Charges
    <2>2. Charges(t)' \in [Waiters -> Nat]
      BY ChargesTyped, Zenon DEF LimiterTyped, Charges
    <2> QED
      BY <2>1, <2>2, Zenon
  \* The schedule and the released chunks stay, and no task is charged more.
  <1>u. ASSUME NEW w \in Waiters, UNCHANGED <<now, epoch>>,
               \A x \in Waiters : x # w => wpc'[x] = wpc[x] /\ chunk'[x] = chunk[x],
               spent' + Charges(t)'[w] <= spent + Charges(t)[w]
        PROVE  Paid(t)'
    <2>1. Paid(t)
      BY <1>i, <1>u, Zenon
    <2>2. /\ Charges(t)'[w] \in Nat /\ Charges(t)[w] \in Nat /\ spent' \in Nat
          /\ t <= t
      BY <1>t DEF LimiterTyped
    <2>3. t + spent' + Charges(t)'[w] <= t + spent + Charges(t)[w]
      BY <1>0, <1>u, <2>2
    <2> QED
      BY <1>i, <1>u, <2>1, <2>2, <2>3, PaidWhenOneMoves, Zenon DEF Paid
  <1>1. ASSUME NEW w \in Waiters, NEW n \in ChunkSizes, Limiter!LoadRate(w, n)
        PROVE  Paid(t)'
    <2>1. UNCHANGED <<now, epoch, spent>>
      BY <1>1, Zenon DEF Limiter!LoadRate
    <2>2. /\ wpc[w] = "idle" /\ wpc'[w] = "charge"
          /\ \A x \in Waiters : x # w => wpc'[x] = wpc[x] /\ chunk'[x] = chunk[x]
      BY <1>1, <1>i, LoadRateDoes, Zenon
    <2>3. Charges(t)'[w] = 0 /\ Charges(t)[w] = 0
      BY <2>2, Zenon DEF Charges, ChargesOf
    <2>4. spent' + Charges(t)'[w] <= spent + Charges(t)[w]
      BY <1>0, <2>1, <2>3
    <2> QED
      BY <1>u, <2>1, <2>2, <2>4, Zenon
  <1>2. ASSUME NEW w \in Waiters, Limiter!Charge(w) PROVE Paid(t)'
    <2> DEFINE cost == Limiter!Cost(chunk[w])
    <2>1. /\ cost \in Nat /\ next' \in Nat
          /\ next' >= now + cost /\ next' >= next + cost
          /\ wpc[w] = "charge" /\ wpc'[w] = "sleep"
          /\ chunk'[w].until = next' /\ chunk'[w].epoch = epoch.count
          /\ Limiter!Cost(chunk'[w]) = cost
          /\ \A x \in Waiters : x # w => wpc'[x] = wpc[x] /\ chunk'[x] = chunk[x]
          /\ now' = now /\ epoch' = epoch /\ spent' = spent
      BY <1>2, <1>i, ChargeDoes, Zenon
    <2> HIDE DEF cost
    <2>2. Charges(t)[w] = 0
      BY <2>1, Zenon DEF Charges, ChargesOf
    <2>3. CASE t < next'
      <3>1. ~(next' <= t)
        BY <2>1, <2>3
      <3>2. Charges(t)'[w] = 0
        BY <2>1, <3>1, Zenon DEF Charges, ChargesOf
      <3>3. spent' + Charges(t)'[w] <= spent + Charges(t)[w]
        BY <1>0, <2>1, <2>2, <3>2
      <3> QED
        BY <1>u, <2>1, <3>3, Zenon
    <2>4. CASE t >= next'
      <3> DEFINE s == t - cost
      <3>1. /\ s \in Nat /\ s >= next /\ s >= now /\ s <= t /\ t >= s /\ next' <= t
            /\ s + spent + cost <= t + spent + 0
        BY <1>0, <2>1, <2>4
      <3> HIDE DEF s
      <3>2. Charges(t)'[w] = cost
        BY <2>1, <3>1, Zenon DEF Charges, ChargesOf
      <3>3. Paid(s) /\ Charges(t) = Charges(s)
        BY <1>i, <3>1, AllDue, Zenon
      <3>4. spent + SumFunctionOnSet(Charges(t), Waiters) <= s - epoch.start
        BY <3>3, Zenon DEF Paid
      <3>5. s + spent' + Charges(t)'[w] <= t + spent + Charges(t)[w]
        BY <2>1, <2>2, <3>1, <3>2, Zenon
      <3> QED
        BY <1>i, <2>1, <3>1, <3>4, <3>5, PaidWhenOneMoves, Zenon
    <2> QED
      BY <2>1, <2>3, <2>4
  <1>3. ASSUME NEW w \in Waiters, Limiter!Wake(w) PROVE Paid(t)'
    <2>1. /\ UNCHANGED <<now, epoch>> /\ Limiter!Return(w) /\ wpc[w] = "sleep"
          /\ chunk[w].until <= now
          /\ spent' = IF chunk[w].epoch = epoch.count THEN spent + Limiter!Cost(chunk[w]) ELSE spent
      BY <1>3, Zenon DEF Limiter!Wake
    <2>2. /\ wpc'[w] = "idle"
          /\ \A x \in Waiters : x # w => wpc'[x] = wpc[x] /\ chunk'[x] = chunk[x]
      BY <1>i, <2>1, ReturnDoes, Zenon
    <2>3. chunk[w].until <= t
      <3>1. chunk[w].until \in Nat
        BY <1>i, Zenon DEF LimiterTyped, AChunk
      <3> QED
        BY <1>0, <2>1, <3>1
    <2>4. Charges(t)'[w] = 0
      BY <2>2, Zenon DEF Charges, ChargesOf
    <2>5. spent' + Charges(t)'[w] <= spent + Charges(t)[w]
      <3>1. CASE chunk[w].epoch = epoch.count
        <4>1. Charges(t)[w] = Limiter!Cost(chunk[w])
          BY <2>1, <2>3, <3>1, Zenon DEF Charges, ChargesOf
        <4>2. spent' = spent + Charges(t)[w]
          BY <2>1, <3>1, <4>1, Zenon
        <4>3. Charges(t)[w] \in Nat
          BY <1>t, Zenon
        <4> QED
          BY <1>0, <2>4, <4>2, <4>3
      <3>2. CASE chunk[w].epoch # epoch.count
        <4>1. Charges(t)[w] = 0
          BY <3>2, Zenon DEF Charges, ChargesOf
        <4>2. spent' = spent
          BY <2>1, <3>2, Zenon
        <4> QED
          BY <1>0, <2>4, <4>1, <4>2
      <3> QED
        BY <3>1, <3>2, Zenon
    <2> QED
      BY <1>u, <2>1, <2>2, <2>5, Zenon
  <1>4. ASSUME NEW w \in Waiters, Limiter!WakeCancelled(w) PROVE Paid(t)'
    <2>1. UNCHANGED <<now, epoch, spent>> /\ Limiter!Return(w)
      BY <1>4, Zenon DEF Limiter!WakeCancelled
    <2>2. /\ wpc'[w] = "idle"
          /\ \A x \in Waiters : x # w => wpc'[x] = wpc[x] /\ chunk'[x] = chunk[x]
      BY <1>i, <2>1, ReturnDoes, Zenon
    <2>3. Charges(t)'[w] = 0 /\ Charges(t)[w] \in Nat
      BY <1>t, <2>2, Zenon DEF Charges, ChargesOf
    <2>4. spent' + Charges(t)'[w] <= spent + Charges(t)[w]
      BY <1>0, <2>1, <2>3
    <2> QED
      BY <1>u, <2>1, <2>2, <2>4, Zenon
  <1>5. ASSUME NEW s \in Setters, Limiter!Restart(s) PROVE Paid(t)'
    <2>1. /\ UNCHANGED <<now, wpc, chunk>> /\ spent' = 0
          /\ epoch'.count = epoch.count + 1 /\ epoch'.start = now
      BY <1>5, Zenon DEF Limiter!Restart
    <2>2. ASSUME NEW x \in Waiters PROVE Charges(t)'[x] = 0
      <3>1. ~(wpc'[x] = "sleep" /\ chunk'[x].epoch = epoch'.count)
        <4>1. wpc[x] = "sleep" => chunk[x].epoch <= epoch.count
          BY <1>i, Zenon DEF Deadlines
        <4>2. chunk[x].epoch \in Nat
          BY <1>i, Zenon DEF LimiterTyped, AChunk
        <4> QED
          BY <1>0, <2>1, <4>1, <4>2
      <3> QED
        BY <3>1, Zenon DEF Charges, ChargesOf
    <2>3. SumFunctionOnSet(Charges(t)', Waiters) = 0
      BY <1>t, <2>2, SumOfZeros, Zenon
    <2>4. spent' + 0 <= t - epoch'.start
      BY <1>0, <2>1
    <2> QED
      BY <2>3, <2>4, Zenon DEF Paid
  <1>6. CASE Limiter!Tick
    <2>1. now' = now + 1 /\ UNCHANGED <<wpc, chunk, epoch, spent>>
      BY <1>6, Zenon DEF Limiter!Tick
    <2>2. Paid(t)
      <3>1. t >= now
        BY <1>0, <2>1
      <3> QED
        BY <1>i, <3>1, Zenon
    <2> QED
      BY <2>1, <2>2, Zenon DEF Paid, Charges
  <1>7. CASE UNCHANGED <<now, wpc, chunk, epoch, spent>>
    BY <1>i, <1>7, Zenon DEF Paid, Charges
  <1>8. ASSUME NEW w \in Waiters, Limiter!Cancel(w)
        PROVE  UNCHANGED <<now, wpc, chunk, epoch, spent>>
    BY <1>8, Zenon DEF Limiter!Cancel
  <1>9. ASSUME NEW s \in Setters, NEW r \in Rates, Limiter!SwapRate(s, r)
        PROVE  UNCHANGED <<now, wpc, chunk, epoch, spent>>
    BY <1>9, Zenon DEF Limiter!SwapRate
  <1>10. CASE UNCHANGED Limiter!vars
    BY <1>7, <1>10, Zenon DEF Limiter!vars
  <1> QED
    BY <1>1, <1>2, <1>3, <1>4, <1>5, <1>6, <1>7, <1>8, <1>9, <1>10, Zenon
    DEF Limiter!Next, Limiter!Proceed

\* The initial state satisfies the invariant.
LEMMA LimiterInit ==
  ASSUME IsFiniteSet(Waiters), Limiter!WellFormed, Limiter!Init PROVE LimiterInv
  <1>1. LimiterTyped
    <2>1. wpc = [w \in Waiters |-> "idle"] /\ chunk = [w \in Waiters |-> Limiter!NoChunk]
      BY Zenon DEF Limiter!Init
    <2>2. /\ now \in Nat /\ rate \in Nat /\ next \in Nat /\ charged \in Nat /\ spent \in Nat
          /\ epoch \in [count : Nat, start : Nat]
      BY Zenon DEF Limiter!Init, Limiter!WellFormed
    <2>3. /\ wpc \in [Waiters -> {"idle", "charge", "sleep"}]
          /\ chunk \in [Waiters -> AChunk]
          /\ \A w \in Waiters : wpc[w] = "idle"
      BY <2>1, NoChunkTyped, Zenon
    <2> QED
      BY <2>2, <2>3, Zenon DEF LimiterTyped
  <1>2. \A w \in Waiters : wpc[w] # "sleep"
    BY Zenon DEF Limiter!Init
  <1>3. Deadlines
    <2>1. epoch.start <= now /\ next <= now + charged
      BY DEF Limiter!Init
    <2> QED
      BY <1>2, <2>1, Zenon DEF Deadlines
  <1>4. ASSUME NEW t \in Nat PROVE Paid(t)
    <2>1. \A w \in Waiters : Charges(t)[w] = 0
      BY <1>2, Zenon DEF Charges, ChargesOf
    <2>2. Charges(t) \in [Waiters -> Nat]
      BY <1>1, ChargesTyped, Zenon DEF LimiterTyped, Charges
    <2>3. SumFunctionOnSet(Charges(t), Waiters) = 0
      BY <2>1, <2>2, SumOfZeros, Zenon
    <2>4. spent + 0 <= t - epoch.start
      BY DEF Limiter!Init
    <2> QED
      BY <2>3, <2>4, Zenon DEF Paid
  <1> QED
    BY <1>1, <1>3, <1>4, Zenon DEF LimiterInv

\* The limiter keeps its rate, whatever the number of tasks that share it,
\* the sizes of their chunks and the rates it is set to.
THEOREM RateIsKept == Limiter!Spec => []RateKept
  <1> USE LimiterAssumption
  <1>1. Limiter!Init => LimiterInv
    BY LimiterInit, Zenon
  <1>2. LimiterInv /\ [Limiter!Next]_(Limiter!vars) => LimiterInv'
    <2> SUFFICES ASSUME LimiterInv, [Limiter!Next]_(Limiter!vars) PROVE LimiterInv'
      BY Zenon
    <2>1. LimiterTyped'
      BY LimiterTypedNext, Zenon DEF LimiterInv
    <2>2. Deadlines'
      BY DeadlinesNext, Zenon DEF LimiterInv
    <2>3. \A t \in Nat : t >= now' => Paid(t)'
      BY <2>1, PaidNext, Zenon
    <2> QED
      BY <2>1, <2>2, <2>3, Zenon DEF LimiterInv
  <1>3. LimiterInv => RateKept
    <2> SUFFICES ASSUME LimiterInv PROVE RateKept
      BY Zenon
    <2>1. LimiterTyped /\ Deadlines
      BY Zenon DEF LimiterInv
    <2>2. now \in Nat /\ spent \in Nat /\ epoch.start \in Nat
      BY <2>1, Zenon DEF LimiterTyped
    <2>3. Paid(now)
      <3>1. now >= now
        BY <2>2
      <3> QED
        BY <2>2, <3>1, Zenon DEF LimiterInv
    <2>4. SumFunctionOnSet(Charges(now), Waiters) \in Nat
      <3>1. Charges(now) \in [Waiters -> Nat]
        BY <2>1, ChargesTyped, Zenon DEF LimiterTyped, Charges
      <3> QED
        BY <3>1, SumIsNat, Zenon
    <2>5. spent <= now - epoch.start
      <3>1. PICK n \in Nat : n = SumFunctionOnSet(Charges(now), Waiters)
        BY <2>4, Zenon
      <3>2. spent + n <= now - epoch.start
        BY <2>3, <3>1, Zenon DEF Paid
      <3> QED
        BY <2>2, <3>1, <3>2
    <2> QED
      BY <2>1, <2>5, Zenon DEF RateKept, Limiter!RateKept, Deadlines
  <1> QED
    BY <1>1, <1>2, <1>3, PTL DEF Limiter!Spec
=============================================================================
