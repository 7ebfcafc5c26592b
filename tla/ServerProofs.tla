---------------------------- MODULE ServerProofs ----------------------------
(***************************************************************************)
(* What servers rely on, for any number of chunks, keys and streams: the   *)
(* relay of two halves, the replay cache, and the AnyTLS server, which     *)
(* has no stream out of reach, keeps its limits and sends the frames of    *)
(* every stream whole and in order.                                        *)
(***************************************************************************)
EXTENDS AnyTlsServer, RelayPart, TLAPS

\* What the proofs use of the library on finite sets and on the naturals.  It
\* is proved at the end (FactsHold); every obligation carries the theorems in
\* scope, so that the library comes in there.
Facts ==
    /\ \A S, T : IsFiniteSet(T) /\ S \in SUBSET T =>
          IsFiniteSet(S) /\ Cardinality(S) \in Nat /\ Cardinality(T) \in Nat /\ Cardinality(S) <= Cardinality(T)
    /\ \A S, x : IsFiniteSet(S) =>
          /\ IsFiniteSet(S \cup {x}) /\ Cardinality(S) \in Nat /\ Cardinality(S \cup {x}) \in Nat
          /\ Cardinality(S \cup {x}) <= Cardinality(S) + 1
    /\ \A S : \A x \in S : IsFiniteSet(S) =>
          /\ IsFiniteSet(S \ {x}) /\ Cardinality(S) \in Nat /\ Cardinality(S \ {x}) \in Nat
          /\ Cardinality(S \ {x}) = Cardinality(S) - 1
    /\ Cardinality({}) = 0 /\ \A n \in Nat : IsFiniteSet(1..n)
    /\ \A B \in SUBSET Nat : B # {} => \E n \in B : \A m \in B : n <= m

\* A part of a finite set is finite and no larger.
LEMMA Smaller ==
  ASSUME Facts, NEW T, IsFiniteSet(T), NEW S \in SUBSET T
  PROVE  IsFiniteSet(S) /\ Cardinality(S) \in Nat /\ Cardinality(T) \in Nat /\ Cardinality(S) <= Cardinality(T)
  BY Zenon DEF Facts

----------------------------------------------------------------------------
\* The relay of one connection (Relay).

PumpSteps == {"read", "record", "write", "done", "failed"}

\* The counters of a direction at each step of its pump.
Counted(at, t, r, d) ==
    /\ at = "read" => t = d /\ r = d
    /\ at = "record" => t = d + 1 /\ r = d
    /\ at = "write" => t = d + 1 /\ r = d + 1
    /\ d <= r /\ r <= t /\ t <= d + 1

RelayTyped ==
    /\ sent \in [Rel!Directions -> Nat] /\ taken \in [Rel!Directions -> Nat]
    /\ recorded \in [Rel!Directions -> Nat] /\ delivered \in [Rel!Directions -> Nat]
    /\ pump \in [Rel!Directions -> PumpSteps]

PumpInv(d) ==
    /\ Counted(pump[d], taken[d], recorded[d], delivered[d])
    /\ taken[d] <= sent[d]
    /\ pump[d] = "done" => d \in eof /\ delivered[d] = sent[d]
    /\ phase = "forward" /\ d \in fin => pump[d] = "done"

ResultInv ==
    /\ phase = "forward" => result = "none"
    /\ result = "ok" => /\ \E d \in Rel!Directions : pump[d] = "done"
                        /\ halfClose => \A d \in Rel!Directions : pump[d] = "done"

RelayInv == RelayTyped /\ (\A d \in Rel!Directions : PumpInv(d)) /\ ResultInv

\* What a step of the pump d may do to its direction.
PumpMoves(d) ==
    /\ \A x \in Rel!Directions \ {d} :
          /\ pump'[x] = pump[x] /\ taken'[x] = taken[x]
          /\ recorded'[x] = recorded[x] /\ delivered'[x] = delivered[x]
    /\ fin' \subseteq fin \cup {d}

\* Everything but the direction d stays as it is.
LEMMA OthersKept ==
  ASSUME RelayInv, NEW d \in Rel!Directions, PumpMoves(d), RelayTyped', PumpInv(d)',
         phase = "forward", UNCHANGED <<halfClose, sent, eof, phase, result>>
  PROVE  RelayInv'
  <1>1. ASSUME NEW x \in Rel!Directions, x # d PROVE PumpInv(x)'
    BY <1>1, Zenon DEF RelayInv, PumpInv, PumpMoves
  <1>2. ResultInv'
    <2>1. result' = "none" /\ "none" # "ok"
      BY Zenon DEF RelayInv, ResultInv
    <2> QED
      BY <2>1, Zenon DEF ResultInv
  <1> QED
    BY <1>1, <1>2, Zenon DEF RelayInv

\* Every step of the relay and of its peers preserves the invariant.
LEMMA RelayNext ==
  ASSUME RelayInv, [Rel!Next]_(Rel!vars) PROVE RelayInv'
  <1>0. RelayTyped /\ ResultInv /\ \A d \in Rel!Directions : PumpInv(d)
    BY Zenon DEF RelayInv
  <1>1. ASSUME NEW d \in Rel!Directions, Rel!PeerSends(d) PROVE RelayInv'
    <2>1. UNCHANGED <<halfClose, eof, pump, taken, recorded, delivered, fin, phase, result>>
      BY <1>1, Zenon DEF Rel!PeerSends, Rel!progress
    <2>2. /\ d \notin eof /\ sent' \in [Rel!Directions -> Nat]
          /\ \A x \in Rel!Directions : sent'[x] >= sent[x] /\ (x # d => sent'[x] = sent[x])
      BY <1>0, <1>1 DEF Rel!PeerSends, RelayTyped
    <2>3. \A x \in Rel!Directions : taken[x] <= sent'[x]
      BY <1>0, <2>2 DEF RelayTyped, PumpInv
    <2> QED
      BY <1>0, <2>1, <2>2, <2>3, Zenon DEF RelayInv, RelayTyped, PumpInv, ResultInv
  <1>2. ASSUME NEW d \in Rel!Directions, Rel!PeerCloses(d) PROVE RelayInv'
    BY <1>0, <1>2, Zenon DEF Rel!PeerCloses, Rel!progress, RelayInv, RelayTyped, PumpInv, ResultInv
  <1>3. ASSUME NEW d \in Rel!Directions, Rel!SinkBlocks(d) PROVE RelayInv'
    BY <1>0, <1>3, Zenon
    DEF Rel!SinkBlocks, Rel!progress, Rel!source, RelayInv, RelayTyped, PumpInv, ResultInv
  <1>4. ASSUME NEW d \in Rel!Directions, Rel!ReadChunk(d) PROVE RelayInv'
    <2>1. phase = "forward" /\ UNCHANGED <<halfClose, sent, eof, phase, result, fin>>
      BY <1>4, Zenon DEF Rel!ReadChunk, Rel!source
    <2>2. RelayTyped' /\ PumpMoves(d)
      BY <1>0, <1>4 DEF Rel!ReadChunk, Rel!Goto, Rel!source, RelayTyped, PumpMoves, PumpSteps
    <2>3. PumpInv(d)'
      BY <1>0, <1>4 DEF Rel!ReadChunk, Rel!Goto, Rel!source, RelayTyped, PumpInv, Counted
    <2> QED
      BY <2>1, <2>2, <2>3, OthersKept, Zenon
  <1>5. ASSUME NEW d \in Rel!Directions, Rel!ReadEof(d) PROVE RelayInv'
    <2>1. phase = "forward" /\ UNCHANGED <<halfClose, sent, eof, phase, result>>
      BY <1>5, Zenon DEF Rel!ReadEof, Rel!source
    <2>2. RelayTyped' /\ PumpMoves(d)
      BY <1>0, <1>5, Zenon DEF Rel!ReadEof, Rel!Goto, Rel!source, RelayTyped, PumpMoves, PumpSteps
    <2>3. PumpInv(d)'
      BY <1>0, <1>5, Zenon DEF Rel!ReadEof, Rel!Goto, Rel!source, RelayTyped, PumpInv, Counted
    <2> QED
      BY <2>1, <2>2, <2>3, OthersKept, Zenon
  <1>6. ASSUME NEW d \in Rel!Directions, Rel!Record(d) PROVE RelayInv'
    <2>1. phase = "forward" /\ UNCHANGED <<halfClose, sent, eof, phase, result, fin>>
      BY <1>6, Zenon DEF Rel!Record, Rel!source
    <2>2. RelayTyped' /\ PumpMoves(d)
      BY <1>0, <1>6 DEF Rel!Record, Rel!Goto, Rel!source, RelayTyped, PumpMoves, PumpSteps
    <2>3. PumpInv(d)'
      BY <1>0, <1>6 DEF Rel!Record, Rel!Goto, Rel!source, RelayTyped, PumpInv, Counted
    <2> QED
      BY <2>1, <2>2, <2>3, OthersKept, Zenon
  <1>7. ASSUME NEW d \in Rel!Directions, Rel!WriteChunk(d) PROVE RelayInv'
    <2>1. phase = "forward" /\ UNCHANGED <<halfClose, sent, eof, phase, result, fin>>
      BY <1>7, Zenon DEF Rel!WriteChunk, Rel!source
    <2>2. RelayTyped' /\ PumpMoves(d)
      BY <1>0, <1>7 DEF Rel!WriteChunk, Rel!Goto, Rel!source, RelayTyped, PumpMoves, PumpSteps
    <2>3. PumpInv(d)'
      BY <1>0, <1>7 DEF Rel!WriteChunk, Rel!Goto, Rel!source, RelayTyped, PumpInv, Counted
    <2> QED
      BY <2>1, <2>2, <2>3, OthersKept, Zenon
  <1>8. ASSUME NEW d \in Rel!Directions, Rel!PumpFails(d) PROVE RelayInv'
    <2>1. phase = "forward" /\ UNCHANGED <<halfClose, sent, eof, phase, result, fin>>
      BY <1>8, Zenon DEF Rel!PumpFails, Rel!source
    <2>2. RelayTyped' /\ PumpMoves(d)
      BY <1>0, <1>8, Zenon DEF Rel!PumpFails, Rel!Goto, Rel!source, RelayTyped, PumpMoves, PumpSteps
    <2>3. PumpInv(d)'
      BY <1>0, <1>8, Zenon DEF Rel!PumpFails, Rel!Goto, Rel!source, RelayTyped, PumpInv, Counted
    <2> QED
      BY <2>1, <2>2, <2>3, OthersKept, Zenon
  <1>9. CASE Rel!Stop
    <2>1. UNCHANGED <<halfClose, sent, eof, pump, taken, recorded, delivered, fin>>
      BY <1>9, Zenon DEF Rel!Stop, Rel!source, Rel!progress
    <2>2. phase' # "forward"
      BY <1>9, Zenon DEF Rel!Stop
    <2>3. result' = "ok" => /\ \E d \in Rel!Directions : pump[d] = "done"
                            /\ halfClose => \A d \in Rel!Directions : pump[d] = "done"
      BY <1>9, Zenon DEF Rel!Stop, Rel!Forwarded, Rel!Ended, Rel!Directions
    <2> QED
      BY <1>0, <2>1, <2>2, <2>3, Zenon DEF RelayInv, RelayTyped, PumpInv, ResultInv
  <1>10. ASSUME NEW d \in Rel!Directions, Rel!ShutdownWriter(d) PROVE RelayInv'
    <2>1. /\ UNCHANGED <<halfClose, sent, eof, pump, taken, recorded, delivered, phase, result>>
          /\ phase # "forward"
      BY <1>10, Zenon DEF Rel!ShutdownWriter, Rel!source, Rel!progress
    <2> QED
      BY <1>0, <2>1, Zenon DEF RelayInv, RelayTyped, PumpInv, ResultInv
  <1>11. CASE Rel!Return
    <2>1. /\ UNCHANGED <<halfClose, sent, eof, pump, taken, recorded, delivered, fin, result>>
          /\ phase' # "forward"
      BY <1>11, Zenon DEF Rel!Return, Rel!source, Rel!progress
    <2> QED
      BY <1>0, <2>1, Zenon DEF RelayInv, RelayTyped, PumpInv, ResultInv
  <1>12. CASE Rel!Cancel
    BY <1>0, <1>12, Zenon
    DEF Rel!Cancel, Rel!source, Rel!progress, RelayInv, RelayTyped, PumpInv, ResultInv
  <1>13. CASE UNCHANGED Rel!vars
    BY <1>0, <1>13, Zenon
    DEF Rel!vars, Rel!source, Rel!progress, RelayInv, RelayTyped, PumpInv, ResultInv
  <1> QED
    BY <1>1, <1>2, <1>3, <1>4, <1>5, <1>6, <1>7, <1>8, <1>9, <1>10, <1>11, <1>12, <1>13, Zenon
    DEF Rel!Next, Rel!PumpStep, Rel!RelayStep

\* The relay is faithful, whatever the number of chunks.
THEOREM RelayIsFaithful == Rel!Spec => []Faithful
  <1>1. Rel!Init => RelayInv
    BY DEF Rel!Init, RelayInv, RelayTyped, PumpInv, ResultInv, Counted, PumpSteps
  <1>2. RelayInv /\ [Rel!Next]_(Rel!vars) => RelayInv'
    BY RelayNext, Zenon
  <1>3. RelayInv => Faithful
    BY Zenon DEF RelayInv, RelayTyped, PumpInv, ResultInv, Counted, Faithful, Rel!Faithful
  <1> QED
    BY <1>1, <1>2, <1>3, PTL DEF Rel!Spec

----------------------------------------------------------------------------
\* The replay cache (ReplayCache).

AnEntry == [seen : Nat, key : Keys]
Stale(e) == clock - e.seen > Ttl

ReplayTyped ==
    /\ clock \in 0..MaxTime
    /\ expiry \in Seq(AnEntry)
    /\ accepted \in [Keys -> Nat]

\* The queue is in order of time and holds each key once, with the time it was
\* accepted; the set holds the keys of the queue.
Ordered(q, t, a) ==
    /\ \A i \in 1..Len(q) : q[i].seen <= t /\ a[q[i].key] = q[i].seen
    /\ \A i, j \in 1..Len(q) : i < j => q[i].seen <= q[j].seen /\ q[i].key # q[j].key

ReplayInv ==
    /\ ReplayTyped
    /\ Ordered(expiry, clock, accepted)
    /\ keys = {expiry[i].key : i \in 1..Len(expiry)}
    /\ \A k \in Keys : accepted[k] = Replay!Never \/ accepted[k] <= clock
    /\ \A k \in Keys : Replay!Recent(k) => k \in keys

\* Cardinality has one meaning in all modules.
LEMMA ReplayCardinality ==
  ASSUME NEW S PROVE Replay!Cardinality(S) = Cardinality(S)
  BY Zenon DEF Cardinality, Replay!Cardinality

\* From 1 on, positions are in a set up to some last one.
LEMMA FrontEnds ==
  ASSUME Facts, NEW m \in Nat, NEW S
  PROVE  \E n \in 0..m : (\A i \in 1..n : i \in S) /\ (n < m => n + 1 \notin S)
  <1>1. CASE \A i \in 1..m : i \in S
    <2>1. m \in 0..m /\ ~(m < m)
      OBVIOUS
    <2> QED
      BY <1>1, <2>1, Zenon
  <1>2. CASE \E i \in 1..m : i \notin S
    <2> DEFINE B == {i \in Nat : i \in 1..m /\ i \notin S}
    <2>1. B \in SUBSET Nat /\ B # {}
      <3>1. PICK x \in 1..m : x \notin S
        BY <1>2, Zenon
      <3>2. x \in Nat
        BY <3>1
      <3> QED
        BY <3>1, <3>2, Zenon
    <2> HIDE DEF B
    <2>2. PICK b \in B : \A x \in B : b <= x
      BY <2>1, Zenon DEF Facts
    <2>3. b \in 1..m /\ b \notin S
      BY <2>2, Zenon DEF B
    <2>4. ASSUME NEW x \in 1..(b - 1) PROVE x \in S
      <3>1. x \in Nat /\ x \in 1..m /\ ~(b <= x)
        BY <2>3
      <3> QED
        BY <2>2, <3>1, Zenon DEF B
    <2>5. b - 1 \in 0..m /\ (b - 1) + 1 = b
      BY <2>3
    <2> QED
      BY <2>3, <2>4, <2>5, Zenon
  <1> QED
    BY <1>1, <1>2, Zenon

\* The loop pops the entries older than ttl, and no others.
LEMMA PopsTheStale ==
  ASSUME Facts, Replay!WellFormed, ReplayInv
  PROVE  /\ Replay!Expired \in 0..Len(expiry)
         /\ \A i \in 1..Len(expiry) : i <= Replay!Expired <=> Stale(expiry[i])
  <1> DEFINE m == Len(expiry)
             S == {i \in Nat : Stale(expiry[i])}
             Ends(n) == (\A i \in 1..n : Stale(expiry[i])) /\ (n < m => ~Stale(expiry[n + 1]))
  <1>1. m \in Nat
    BY DEF ReplayInv, ReplayTyped
  <1>2. \E n \in 0..m : Ends(n)
    <2>1. PICK n \in 0..m : (\A i \in 1..n : i \in S) /\ (n < m => n + 1 \notin S)
      BY <1>1, FrontEnds, Zenon
    <2>2. n + 1 \in Nat
      BY <1>1
    <2> QED
      BY <2>1, <2>2, Zenon
  <1>3. Replay!Expired = CHOOSE n \in 0..m : Ends(n)
    BY Zenon DEF Replay!Expired, Stale
  <1> HIDE DEF m, Ends
  <1>4. Replay!Expired \in 0..m /\ Ends(Replay!Expired)
    BY <1>2, <1>3, Zenon
  <1>5. PICK n \in 0..m : n = Replay!Expired /\ Ends(n)
    BY <1>4, Zenon
  <1>6. ASSUME NEW i \in 1..m, i <= n PROVE Stale(expiry[i])
    <2>1. i \in 1..n
      BY <1>1, <1>6
    <2> QED
      BY <1>5, <2>1, Zenon DEF Ends
  <1>7. ASSUME NEW i \in 1..m, Stale(expiry[i]), ~(i <= n) PROVE FALSE
    <2> DEFINE j == n + 1
    <2>1. n < m /\ j \in 1..m /\ (j = i \/ j < i)
      BY <1>1, <1>7
    <2> HIDE DEF j
    <2>2. expiry[i] \in AnEntry /\ expiry[j] \in AnEntry
      <3>1. expiry \in Seq(AnEntry)
        BY Zenon DEF ReplayInv, ReplayTyped
      <3> QED
        BY <2>1, <3>1 DEF m
    <2>3. j < i => expiry[j].seen <= expiry[i].seen
      BY <2>1, Zenon DEF ReplayInv, Ordered, m
    <2>4. expiry[i].seen \in Nat /\ expiry[j].seen \in Nat /\ clock \in Nat /\ Ttl \in Nat
      <3>1. expiry[i].seen \in Nat /\ expiry[j].seen \in Nat
        BY <2>2, Zenon DEF AnEntry
      <3>2. clock \in Nat /\ Ttl \in Nat
        BY DEF ReplayInv, ReplayTyped, Replay!WellFormed
      <3> QED
        BY <3>1, <3>2, Zenon
    <2>5. Stale(expiry[j])
      BY <1>7, <2>1, <2>3, <2>4 DEF Stale
    <2> QED
      BY <1>5, <2>1, <2>5, Zenon DEF Ends, j
  <1> QED
    BY <1>5, <1>6, <1>7, Zenon DEF m

\* The entries of a queue.
LEMMA EntriesTyped ==
  ASSUME NEW q \in Seq(AnEntry)
  PROVE  /\ Len(q) \in Nat
         /\ \A i \in 1..Len(q) : /\ q[i] \in AnEntry /\ q[i].seen \in Nat
                                /\ q[i].key \in Keys
  <1>1. Len(q) \in Nat /\ \A i \in 1..Len(q) : q[i] \in AnEntry
    OBVIOUS
  <1> QED
    BY <1>1, Zenon DEF AnEntry

\* What a queue is without its first n entries.
LEMMA Rest ==
  ASSUME NEW q \in Seq(AnEntry), NEW n \in 0..Len(q)
  PROVE  /\ SubSeq(q, n + 1, Len(q)) \in Seq(AnEntry)
         /\ Len(SubSeq(q, n + 1, Len(q))) = Len(q) - n
         /\ \A i \in 1..(Len(q) - n) : SubSeq(q, n + 1, Len(q))[i] = q[n + i]
  OBVIOUS

\* What a queue is with another entry.
LEMMA OneMoreKey ==
  ASSUME NEW q \in Seq(AnEntry), NEW e \in AnEntry
  PROVE  /\ Append(q, e) \in Seq(AnEntry)
         /\ Len(Append(q, e)) = Len(q) + 1
         /\ \A i \in 1..Len(q) : Append(q, e)[i] = q[i]
         /\ Append(q, e)[Len(q) + 1] = e
  OBVIOUS

\* The keys that are left when the loop is over are those accepted within ttl.
LEMMA KnownAreRecent ==
  ASSUME Facts, Replay!WellFormed, ReplayInv
  PROVE  keys \ {expiry[i].key : i \in 1..Replay!Expired} = {k \in Keys : Replay!Recent(k)}
  <1> DEFINE m == Len(expiry)
             n == Replay!Expired
             popped == {expiry[i].key : i \in 1..n}
  <1>1. n \in 0..m /\ \A i \in 1..m : i <= n <=> Stale(expiry[i])
    BY PopsTheStale, Zenon
  <1>2. m \in Nat /\ \A i \in 1..m : expiry[i].seen \in Nat /\ expiry[i].key \in Keys
    BY EntriesTyped, Zenon DEF ReplayInv, ReplayTyped
  <1> HIDE DEF m, n
  <1>3. /\ \A i \in 1..m : expiry[i].seen <= clock /\ accepted[expiry[i].key] = expiry[i].seen
        /\ \A i, j \in 1..m : i < j => expiry[i].key # expiry[j].key
        /\ keys = {expiry[i].key : i \in 1..m}
        /\ \A k \in Keys : Replay!Recent(k) => k \in keys
    BY Zenon DEF ReplayInv, Ordered, m
  <1>4. clock \in Nat /\ clock <= MaxTime /\ Ttl \in Nat /\ MaxTime \in Nat
    BY DEF ReplayInv, ReplayTyped, Replay!WellFormed
  <1>5. ASSUME NEW i \in 1..m PROVE Replay!Recent(expiry[i].key) <=> ~Stale(expiry[i])
    <2>1. PICK x \in Nat : x = expiry[i].seen
      BY <1>2, Zenon
    <2>2. x <= clock /\ accepted[expiry[i].key] = x
      BY <1>3, <2>1, Zenon
    <2>3. x # MaxTime + 1 /\ (clock - x <= Ttl <=> ~(clock - x > Ttl))
      BY <1>4, <2>1, <2>2
    <2> QED
      BY <2>1, <2>2, <2>3, Zenon DEF Replay!Recent, Replay!Never, Stale
  <1>6. ASSUME NEW k \in keys, k \notin popped PROVE k \in Keys /\ Replay!Recent(k)
    <2>1. PICK i \in 1..m : k = expiry[i].key
      BY <1>3, <1>6, Zenon
    <2>2. ~(i <= n)
      <3>1. i \notin 1..n
        BY <1>6, <2>1, Zenon
      <3> QED
        BY <1>1, <1>2, <2>1, <3>1
    <2> QED
      BY <1>1, <1>2, <1>5, <2>1, <2>2, Zenon
  <1>7. ASSUME NEW k \in Keys, Replay!Recent(k) PROVE k \in keys /\ k \notin popped
    <2>1. PICK i \in 1..m : k = expiry[i].key
      BY <1>3, <1>7, Zenon
    <2>2. ~(i <= n)
      BY <1>1, <1>5, <1>7, <2>1, Zenon
    <2>3. ASSUME NEW j \in 1..n PROVE j \in 1..m /\ j < i
      BY <1>1, <1>2, <2>1, <2>2
    <2>4. \A j \in 1..n : expiry[j].key # expiry[i].key
      BY <1>3, <2>1, <2>3, Zenon
    <2> QED
      BY <1>3, <1>7, <2>1, <2>4, Zenon
  <1>8. keys \ popped = {k \in Keys : Replay!Recent(k)}
    BY <1>6, <1>7, Zenon
  <1> QED
    BY <1>8, Zenon DEF n

\* A call of check_and_store stores a key that is not recent, or refuses one
\* because it is or because Room others are.
LEMMA CheckDoes ==
  ASSUME Facts, Replay!WellFormed, ReplayInv, NEW k \in Keys, Replay!CheckAndStore(k)
  PROVE  LET recent == {x \in Keys : Replay!Recent(x)}
             left   == SubSeq(expiry, Replay!Expired + 1, Len(expiry))
         IN  \/ /\ ~Replay!Recent(k) /\ ~refusedFull'
                /\ keys' = recent \cup {k} /\ clock' = clock
                /\ expiry' = Append(left, [seen |-> clock, key |-> k])
                /\ accepted' = [accepted EXCEPT ![k] = clock]
             \/ /\ refusedFull' => ~(Cardinality(recent) < Room)
                /\ keys' = recent /\ clock' = clock
                /\ expiry' = left /\ accepted' = accepted
  <1> DEFINE known == keys \ {expiry[i].key : i \in 1..Replay!Expired}
             left == SubSeq(expiry, Replay!Expired + 1, Len(expiry))
             room == Cardinality(known) < Room
             stored == k \notin known /\ room
  <1>1. Cardinality(known) = Replay!Cardinality(known)
    BY ReplayCardinality, Zenon
  <1>2. /\ keys' = IF stored THEN known \cup {k} ELSE known
        /\ expiry' = IF stored THEN Append(left, [seen |-> clock, key |-> k]) ELSE left
        /\ accepted' = IF stored THEN [accepted EXCEPT ![k] = clock] ELSE accepted
        /\ refusedFull' = (k \notin known /\ ~room)
        /\ clock' = clock
    BY <1>1, Zenon DEF Replay!CheckAndStore
  <1>3. known = {x \in Keys : Replay!Recent(x)}
    BY KnownAreRecent, Zenon
  <1>4. k \notin known => ~Replay!Recent(k)
    BY <1>3, Zenon
  <1> HIDE DEF known
  <1>5. CASE stored
    BY <1>2, <1>3, <1>4, <1>5, Zenon
  <1>6. CASE ~stored
    BY <1>2, <1>3, <1>6, Zenon
  <1> QED
    BY <1>5, <1>6, Zenon

\* The queue that is left is in order and holds the recent keys.
LEMMA LeftQueue ==
  ASSUME Facts, Replay!WellFormed, ReplayInv, NEW q,
         q = SubSeq(expiry, Replay!Expired + 1, Len(expiry))
  PROVE  /\ q \in Seq(AnEntry)
         /\ Ordered(q, clock, accepted)
         /\ {k \in Keys : Replay!Recent(k)} = {q[i].key : i \in 1..Len(q)}
  <1> DEFINE m == Len(expiry)
             n == Replay!Expired
  <1>1. n \in 0..m /\ expiry \in Seq(AnEntry)
    BY PopsTheStale, Zenon DEF ReplayInv, ReplayTyped
  <1>2. /\ q \in Seq(AnEntry) /\ Len(q) = m - n
        /\ \A i \in 1..(m - n) : q[i] = expiry[n + i]
    BY <1>1, Rest, Zenon
  <1>3. m \in Nat /\ n \in Nat
    BY <1>1
  <1> HIDE DEF m, n
  <1>4. /\ \A i \in 1..m : expiry[i].seen <= clock /\ accepted[expiry[i].key] = expiry[i].seen
        /\ \A i, j \in 1..m : i < j => /\ expiry[i].seen <= expiry[j].seen
                                      /\ expiry[i].key # expiry[j].key
        /\ keys = {expiry[i].key : i \in 1..m}
    BY Zenon DEF ReplayInv, Ordered, m
  <1>5. Ordered(q, clock, accepted)
    <2>1. ASSUME NEW i \in 1..Len(q)
          PROVE  /\ q[i].seen <= clock /\ accepted[q[i].key] = q[i].seen
      <3>1. n + i \in 1..m /\ q[i] = expiry[n + i]
        <4>1. n + i \in 1..m /\ i \in 1..(m - n)
          BY <1>1, <1>2, <1>3
        <4> QED
          BY <1>2, <4>1, Zenon
      <3> QED
        BY <1>4, <3>1, Zenon
    <2>2. ASSUME NEW i \in 1..Len(q), NEW j \in 1..Len(q), i < j
          PROVE  q[i].seen <= q[j].seen /\ q[i].key # q[j].key
      <3>1. /\ n + i \in 1..m /\ n + j \in 1..m /\ n + i < n + j
            /\ i \in 1..(m - n) /\ j \in 1..(m - n)
        BY <1>1, <1>2, <1>3, <2>2
      <3>2. q[i] = expiry[n + i] /\ q[j] = expiry[n + j]
        BY <1>2, <3>1, Zenon
      <3> QED
        BY <1>4, <3>1, <3>2, Zenon
    <2> QED
      BY <2>1, <2>2, Zenon DEF Ordered
  <1> DEFINE popped == {expiry[i].key : i \in 1..n}
  <1>6. keys \ popped = {k \in Keys : Replay!Recent(k)}
    BY KnownAreRecent, Zenon DEF n
  <1>7. ASSUME NEW k \in keys, k \notin popped PROVE \E i \in 1..Len(q) : k = q[i].key
    <2>1. PICK i \in 1..m : k = expiry[i].key
      BY <1>4, <1>7, Zenon
    <2>2. i \notin 1..n
      BY <1>7, <2>1, Zenon
    <2>3. i - n \in 1..Len(q) /\ i - n \in 1..(m - n) /\ n + (i - n) = i
      BY <1>1, <1>2, <1>3, <2>1, <2>2
    <2>4. q[i - n] = expiry[i]
      BY <1>2, <2>3, Zenon
    <2> QED
      BY <2>1, <2>3, <2>4, Zenon
  <1>8. ASSUME NEW i \in 1..Len(q) PROVE q[i].key \in keys /\ q[i].key \notin popped
    <2>1. /\ n + i \in 1..m /\ i \in 1..(m - n)
          /\ \A j \in 1..n : j \in 1..m /\ j < n + i
      BY <1>1, <1>2, <1>3
    <2>2. q[i] = expiry[n + i]
      BY <1>2, <2>1, Zenon
    <2> QED
      BY <1>4, <2>1, <2>2, Zenon
  <1>9. {k \in Keys : Replay!Recent(k)} = {q[i].key : i \in 1..Len(q)}
    <2> HIDE DEF popped
    <2> QED
      BY <1>6, <1>7, <1>8, Zenon
  <1> QED
    BY <1>2, <1>5, <1>9, Zenon

\* Every step preserves the invariant.
LEMMA ReplayNext ==
  ASSUME Facts, Replay!WellFormed, ReplayInv, [Replay!Next]_(Replay!vars) PROVE ReplayInv'
  <1>0. /\ clock \in Nat /\ clock <= MaxTime /\ Ttl \in Nat /\ MaxTime \in Nat
        /\ expiry \in Seq(AnEntry) /\ accepted \in [Keys -> Nat]
    BY DEF ReplayInv, ReplayTyped, Replay!WellFormed
  <1>1. ASSUME NEW k \in Keys, Replay!CheckAndStore(k) PROVE ReplayInv'
    <2> DEFINE recent == {x \in Keys : Replay!Recent(x)}
               q == SubSeq(expiry, Replay!Expired + 1, Len(expiry))
               e == [seen |-> clock, key |-> k]
    <2>1. \/ /\ ~Replay!Recent(k)
             /\ keys' = recent \cup {k} /\ clock' = clock
             /\ expiry' = Append(q, e)
             /\ accepted' = [accepted EXCEPT ![k] = clock]
          \/ /\ keys' = recent /\ clock' = clock
             /\ expiry' = q /\ accepted' = accepted
      BY <1>1, CheckDoes, Zenon
    <2>2. q \in Seq(AnEntry) /\ Ordered(q, clock, accepted) /\ recent = {q[i].key : i \in 1..Len(q)}
      BY LeftQueue, Zenon
    <2>3. \A x \in Keys : Replay!Recent(x) <=> x \in recent
      BY Zenon
    <2>4. recent \subseteq Keys
      BY Zenon
    <2> HIDE DEF q, recent
    <2>5. CASE keys' = recent /\ clock' = clock /\ expiry' = q /\ accepted' = accepted
      <3>1. ReplayTyped'
        BY <2>2, <2>5, Zenon DEF ReplayInv, ReplayTyped
      <3>2. \A x \in Keys : accepted'[x] = Replay!Never \/ accepted'[x] <= clock'
        BY <2>5, Zenon DEF ReplayInv
      <3>3. \A x \in Keys : Replay!Recent(x)' => x \in keys'
        BY <2>3, <2>5, Zenon DEF Replay!Recent
      <3>4. Ordered(expiry', clock', accepted') /\ keys' = {expiry'[i].key : i \in 1..Len(expiry')}
        BY <2>2, <2>5, Zenon
      <3> QED
        BY <3>1, <3>2, <3>3, <3>4, Zenon DEF ReplayInv
    <2>6. CASE /\ ~Replay!Recent(k)
               /\ keys' = recent \cup {k} /\ clock' = clock
               /\ expiry' = Append(q, e)
               /\ accepted' = [accepted EXCEPT ![k] = clock]
      <3> DEFINE p == Append(q, e)
                 m == Len(q)
      <3>1. e \in AnEntry /\ e.seen = clock /\ e.key = k
        BY <1>0, Zenon DEF AnEntry
      <3> HIDE DEF e
      <3>2. /\ p \in Seq(AnEntry) /\ Len(p) = m + 1 /\ m \in Nat
            /\ \A i \in 1..m : p[i] = q[i]
            /\ p[m + 1] = e
        BY <2>2, <3>1, OneMoreKey, EntriesTyped, Zenon
      <3>3. /\ accepted' \in [Keys -> Nat] /\ accepted'[k] = clock
            /\ \A x \in Keys : x # k => accepted'[x] = accepted[x]
        BY <1>0, <2>6, Zenon
      <3>4. \A i \in 1..m : /\ q[i].key \in Keys /\ q[i].key # k
                            /\ q[i].seen <= clock /\ accepted'[q[i].key] = q[i].seen
        <4>1. ASSUME NEW i \in 1..m PROVE q[i].key \in Keys /\ q[i].key # k
          BY <2>2, <2>3, <2>4, <2>6, Zenon
        <4>2. \A i \in 1..m : q[i].seen <= clock /\ accepted[q[i].key] = q[i].seen
          BY <2>2, Zenon DEF Ordered
        <4> QED
          BY <3>3, <4>1, <4>2, Zenon
      <3>5. ReplayTyped'
        BY <2>6, <3>2, <3>3, Zenon DEF ReplayInv, ReplayTyped
      <3> HIDE DEF p, m
      <3>6. expiry' = p
        BY <2>6, Zenon DEF p
      <3>7. clock <= clock
        BY <1>0
      <3>8. \A i \in 1..Len(p) : i \in 1..m \/ i = m + 1
        BY <3>2
      <3>9. Ordered(p, clock, accepted')
        <4>1. ASSUME NEW i \in 1..Len(p)
              PROVE  p[i].seen <= clock /\ accepted'[p[i].key] = p[i].seen
          <5>1. CASE i \in 1..m
            BY <3>2, <3>4, <5>1, Zenon
          <5>2. CASE i = m + 1
            BY <3>1, <3>2, <3>3, <3>7, <5>2, Zenon
          <5> QED
            BY <3>8, <4>1, <5>1, <5>2, Zenon
        <4>2. ASSUME NEW i \in 1..Len(p), NEW j \in 1..Len(p), i < j
              PROVE  p[i].seen <= p[j].seen /\ p[i].key # p[j].key
          <5>1. i \in 1..m
            BY <3>2, <4>2
          <5>2. CASE j \in 1..m
            <6>1. q[i].seen <= q[j].seen /\ q[i].key # q[j].key
              BY <2>2, <4>2, <5>1, <5>2, Zenon DEF Ordered, m
            <6> QED
              BY <3>2, <5>1, <5>2, <6>1, Zenon
          <5>3. CASE j = m + 1
            BY <3>1, <3>2, <3>4, <5>1, <5>3, Zenon
          <5> QED
            BY <3>8, <4>2, <5>2, <5>3, Zenon
        <4> QED
          BY <4>1, <4>2, Zenon DEF Ordered
      <3>10. keys' = {p[i].key : i \in 1..Len(p)}
        <4>1. m + 1 \in 1..Len(p) /\ \A i \in 1..m : i \in 1..Len(p)
          BY <3>2
        <4>2. ASSUME NEW x \in keys' PROVE \E i \in 1..Len(p) : x = p[i].key
          <5>1. CASE x = k
            BY <3>1, <3>2, <4>1, <5>1, Zenon
          <5>2. CASE x \in recent
            BY <2>2, <3>2, <4>1, <5>2, Zenon DEF m
          <5> QED
            BY <2>6, <4>2, <5>1, <5>2, Zenon
        <4>3. ASSUME NEW i \in 1..Len(p) PROVE p[i].key \in keys'
          <5>1. CASE i \in 1..m
            BY <2>2, <2>6, <3>2, <5>1, Zenon DEF m
          <5>2. CASE i = m + 1
            BY <2>6, <3>1, <3>2, <5>2, Zenon
          <5> QED
            BY <3>8, <4>3, <5>1, <5>2, Zenon
        <4> QED
          BY <4>2, <4>3, Zenon
      <3>11. \A x \in Keys : accepted'[x] = Replay!Never \/ accepted'[x] <= clock'
        BY <2>6, <3>3, <3>7, Zenon DEF ReplayInv
      <3>12. \A x \in Keys : Replay!Recent(x)' => x \in keys'
        BY <2>3, <2>6, <3>3, Zenon DEF Replay!Recent
      <3> QED
        BY <2>6, <3>5, <3>6, <3>9, <3>10, <3>11, <3>12, Zenon DEF ReplayInv
    <2> QED
      BY <2>1, <2>5, <2>6, Zenon
  <1>2. CASE Replay!Tick
    <2>1. clock' = clock + 1 /\ clock < MaxTime /\ UNCHANGED <<keys, expiry, accepted>>
      BY <1>2, Zenon DEF Replay!Tick
    <2>2. ReplayTyped' /\ \A n \in Nat : n <= clock => n <= clock'
      BY <1>0, <2>1 DEF ReplayTyped
    <2>3. Ordered(expiry', clock', accepted')
      <3>1. ASSUME NEW i \in 1..Len(expiry) PROVE expiry[i].seen <= clock'
        BY <1>0, <2>2, EntriesTyped, Zenon DEF ReplayInv, Ordered
      <3> QED
        BY <2>1, <3>1, Zenon DEF ReplayInv, Ordered
    <2>4. ASSUME NEW x \in Keys PROVE accepted[x] = Replay!Never \/ accepted[x] <= clock'
      BY <1>0, <2>2, Zenon DEF ReplayInv
    <2>5. ASSUME NEW x \in Keys, Replay!Recent(x)' PROVE Replay!Recent(x)
      <3>1. accepted[x] # Replay!Never /\ clock' - accepted[x] <= Ttl /\ accepted[x] \in Nat
        BY <1>0, <2>1, <2>5, Zenon DEF Replay!Recent
      <3>2. clock - accepted[x] <= Ttl
        BY <1>0, <2>1, <3>1
      <3> QED
        BY <3>1, <3>2, Zenon DEF Replay!Recent
    <2> QED
      BY <2>1, <2>2, <2>3, <2>4, <2>5, Zenon DEF ReplayInv
  <1>3. CASE UNCHANGED Replay!vars
    BY <1>3, Zenon DEF Replay!vars, ReplayInv, ReplayTyped, Replay!Recent
  <1> QED
    BY <1>1, <1>2, <1>3, Zenon DEF Replay!Next

\* What a step of the cache may never do.
ReplayStep ==
    /\ \A k \in Keys : accepted'[k] # accepted[k] => ~Replay!Recent(k)
    /\ refusedFull' => Replay!Cardinality({k \in Keys : Replay!Recent(k)}) >= Room

\* Every step of the cache is one of these.
LEMMA ReplaySteps ==
  ASSUME Facts, ReplayInv, [Replay!Next]_(Replay!vars) PROVE [ReplayStep]_(Replay!vars)
  <1> USE ReplayAssumption
  <1> SUFFICES ASSUME ReplayInv, Replay!Next PROVE ReplayStep
    BY Zenon
  <1>1. CASE Replay!Tick
    BY <1>1, Zenon DEF Replay!Tick, ReplayStep
  <1>2. ASSUME NEW k \in Keys, Replay!CheckAndStore(k) PROVE ReplayStep
    <2> DEFINE recent == {x \in Keys : Replay!Recent(x)}
    <2>1. Cardinality(recent) \in Nat /\ Room \in Nat
      <3>1. recent \in SUBSET Keys
        BY Zenon
      <3> HIDE DEF recent
      <3>2. IsFiniteSet(recent)
        BY <3>1, Smaller, Zenon
      <3> QED
        BY <3>1, Smaller, Zenon DEF Replay!WellFormed
    <2>2. \/ /\ ~Replay!Recent(k) /\ ~refusedFull'
             /\ accepted' = [accepted EXCEPT ![k] = clock]
          \/ /\ refusedFull' => ~(Cardinality(recent) < Room)
             /\ accepted' = accepted
      BY <1>2, CheckDoes, Zenon
    <2>3. Replay!Cardinality(recent) = Cardinality(recent)
      BY ReplayCardinality, Zenon
    <2>4. refusedFull' => Replay!Cardinality(recent) >= Room
      <3> HIDE DEF recent
      <3>1. ~(Cardinality(recent) < Room) => Cardinality(recent) >= Room
        BY <2>1
      <3> QED
        BY <2>2, <2>3, <3>1, Zenon
    <2>5. ASSUME NEW x \in Keys, accepted'[x] # accepted[x] PROVE ~Replay!Recent(x)
      <3>1. accepted \in [Keys -> Nat]
        BY Zenon DEF ReplayInv, ReplayTyped
      <3> QED
        BY <2>2, <2>5, <3>1, Zenon
    <2> QED
      BY <2>4, <2>5, Zenon DEF ReplayStep
  <1> QED
    BY <1>1, <1>2, Zenon DEF Replay!Next

----------------------------------------------------------------------------
\* The streams of an AnyTLS connection (AnyTlsServer).

Opening == {"none", "dial", "connecting", "connected", "failed", "accept", "refuse"}
UpSteps == Opening \cup {"relay", "shutting", "done"}
Relaying == {"read", "record", "lock", "write", "end", "fin"}
DownSteps == Relaying \cup {"none", "done"}
Frames == {"synack", "refused", "psh", "fin"}

Types ==
    /\ opened \in 0..MaxOpens /\ streams \in [Ids -> 0..opened]
    /\ id \in [Opens -> Ids \cup {None}] /\ (\A k \in 1..opened : id[k] \in Ids)
    /\ pending \subseteq Ids /\ uot \subseteq Ids
    /\ up \in [Opens -> UpSteps] /\ down \in [Opens -> DownSteps]
    /\ abort \in [Opens -> BOOLEAN] /\ log \in [Opens -> Seq(Frames)]

Reachable == \A k \in 1..opened : ~abort[k] => streams[id[k]] = k

Limits == Used <= MaxStreams /\ Cardinality(uot) <= MaxPendingUot /\ Cardinality(Dialing) <= MaxDials

\* A log that more may be written to: the SYNACK, and data after it.
Growing(frames) ==
    /\ Len(frames) > 0 /\ frames[1] = "synack"
    /\ \A n \in 2..Len(frames) : frames[n] = "psh"

\* Nothing is written for a stream before its SYNACK, and its downlink runs
\* only between the SYNACK and the FIN.
Order(k) ==
    /\ k > opened => up[k] = "none"
    /\ up[k] \in Opening => log[k] = <<>> /\ down[k] \notin Relaying
    /\ down[k] \in Relaying => Growing(log[k])

Inv == Types /\ Reachable /\ Limits /\ \A k \in Opens : Order(k)

\* A finite set that gains an element.
LEMMA OneMore ==
  ASSUME Facts, NEW S, IsFiniteSet(S), NEW x
  PROVE  /\ IsFiniteSet(S \cup {x}) /\ Cardinality(S) \in Nat /\ Cardinality(S \cup {x}) \in Nat
         /\ Cardinality(S \cup {x}) <= Cardinality(S) + 1
  BY Zenon DEF Facts

\* A finite set that loses one.
LEMMA OneLess ==
  ASSUME Facts, NEW S, IsFiniteSet(S), NEW x \in S
  PROVE  /\ IsFiniteSet(S \ {x}) /\ Cardinality(S) \in Nat /\ Cardinality(S \ {x}) \in Nat
         /\ Cardinality(S \ {x}) = Cardinality(S) - 1
  BY Zenon DEF Facts

\* The opens are finitely many.
LEMMA OpensFinite ==
  ASSUME Facts PROVE IsFiniteSet(Opens)
  BY ServerAssumption, Zenon DEF Opens, Facts

\* The tables of the parser are finite.
LEMMA TablesFinite ==
  ASSUME Facts, Types
  PROVE  /\ IsFiniteSet(InTable) /\ IsFiniteSet(pending) /\ IsFiniteSet(uot) /\ IsFiniteSet(Dialing)
         /\ Cardinality(InTable) \in Nat /\ Cardinality(pending) \in Nat /\ Cardinality(uot) \in Nat
         /\ Cardinality(Dialing) \in Nat
  <1>1. InTable \in SUBSET Ids /\ pending \in SUBSET Ids /\ uot \in SUBSET Ids /\ Dialing \in SUBSET Opens
    BY Zenon DEF Types, InTable, Dialing
  <1>2. IsFiniteSet(Ids)
    BY ServerAssumption, Zenon
  <1> QED
    BY <1>1, <1>2, OpensFinite, Smaller, Zenon

\* The initial state satisfies the invariant.
LEMMA InitInv ==
  ASSUME Facts PROVE Init => Inv
  <1> SUFFICES ASSUME Init PROVE Inv
    BY Zenon
  <1> USE ServerAssumption
  <1>1. Types
    BY DEF Init, Types, UpSteps, DownSteps, Opening, Relaying, None
  <1>2. Reachable
    BY DEF Init, Reachable
  <1>3. Limits
    <2>1. InTable = {} /\ pending = {} /\ uot = {} /\ Dialing = {}
      BY Zenon DEF Init, InTable, Dialing
    <2>2. Cardinality({}) = 0
      BY Zenon DEF Facts
    <2> QED
      BY <2>1, <2>2 DEF Limits, Used
  <1>4. ASSUME NEW k \in Opens PROVE Order(k)
    BY Zenon DEF Init, Order, Relaying
  <1> QED
    BY <1>1, <1>2, <1>3, <1>4, Zenon DEF Inv

----------------------------------------------------------------------------
(* The tasks of a stream *)

\* What a step of the tasks of stream k may change: its own state, and no
\* table of the parser; an abort is never taken back, and a dial begins
\* within its budget.
TaskMove(k) ==
    /\ UNCHANGED <<pending, uot, streams, opened, id>>
    /\ abort' = abort \/ Trigger(k)
    /\ up' = up \/ \E u \in UpSteps : Up(k, u)
    /\ up' = up \/ up'[k] # "connecting" \/ Cardinality(Dialing) < MaxDials
    /\ down' = down \/ \E d \in DownSteps : Down(k, d)
    /\ log' = log \/ \E frame \in Frames : log' = [log EXCEPT ![k] = Append(@, frame)]

\* A frame is added to a log.
LEMMA LogGrows ==
  ASSUME NEW l \in [Opens -> Seq(Frames)], NEW k \in Opens, NEW frame \in Frames
  PROVE  [l EXCEPT ![k] = Append(@, frame)] \in [Opens -> Seq(Frames)]
  <1>1. Append(l[k], frame) \in Seq(Frames)
    OBVIOUS
  <1> QED
    BY <1>1, Zenon

\* Such a step keeps every stream within reach and all limits.
LEMMA MoveKeeps ==
  ASSUME Facts, Types, Reachable, Limits, NEW k \in Opens, TaskMove(k)
  PROVE  Types' /\ Reachable' /\ Limits'
  <1>1. log' \in [Opens -> Seq(Frames)]
    <2>1. log \in [Opens -> Seq(Frames)]
      BY Zenon DEF Types
    <2>2. ASSUME NEW frame \in Frames, log' = [log EXCEPT ![k] = Append(@, frame)]
          PROVE  log' \in [Opens -> Seq(Frames)]
      BY <2>1, <2>2, LogGrows, Zenon
    <2> QED
      BY <2>1, <2>2, Zenon DEF TaskMove
  <1>2. up' \in [Opens -> UpSteps] /\ down' \in [Opens -> DownSteps]
    BY Zenon DEF Types, TaskMove, Up, Down
  <1>3. abort' \in [Opens -> BOOLEAN] /\ \A l \in Opens : abort[l] => abort'[l]
    BY Zenon DEF Types, TaskMove, Trigger
  <1>4. Types'
    BY <1>1, <1>2, <1>3, Zenon DEF Types, TaskMove
  <1>5. Reachable'
    <2>1. opened' = opened /\ streams' = streams /\ id' = id
      BY Zenon DEF TaskMove
    <2>2. 1..opened \subseteq Opens
      BY ServerAssumption DEF Types, Opens
    <2> QED
      BY <1>3, <2>1, <2>2, Zenon DEF Reachable
  <1>6. /\ Dialing' \in SUBSET (Dialing \cup {k})
        /\ Dialing' \in SUBSET Dialing \/ Cardinality(Dialing) < MaxDials
    BY Zenon DEF Dialing, TaskMove, Up, Types
  <1>7. Cardinality(Dialing') <= MaxDials
    <2>1. /\ IsFiniteSet(Dialing) /\ Cardinality(Dialing) \in Nat /\ MaxDials \in Nat
          /\ Cardinality(Dialing) <= MaxDials
      BY TablesFinite, ServerAssumption, Zenon DEF Limits
    <2>2. CASE Dialing' \in SUBSET Dialing
      BY <2>1, <2>2, Smaller
    <2>3. CASE Cardinality(Dialing) < MaxDials
      <3>1. /\ IsFiniteSet(Dialing \cup {k}) /\ Cardinality(Dialing \cup {k}) \in Nat
            /\ Cardinality(Dialing \cup {k}) <= Cardinality(Dialing) + 1
        BY <2>1, OneMore, Zenon
      <3>2. Cardinality(Dialing') \in Nat /\ Cardinality(Dialing') <= Cardinality(Dialing \cup {k})
        BY <1>6, <3>1, Smaller, Zenon
      <3> QED
        BY <2>1, <2>3, <3>1, <3>2
    <2> QED
      BY <1>6, <2>2, <2>3, Zenon
  <1>8. Used' = Used /\ uot' = uot
    BY Zenon DEF Used, InTable, TaskMove
  <1>9. Limits'
    BY <1>7, <1>8, ServerAssumption, Zenon DEF Limits
  <1> QED
    BY <1>4, <1>5, <1>9, Zenon

\* A log that may grow, and one more frame.
LEMMA Grow ==
  ASSUME NEW q \in Seq(Frames), Growing(q), NEW frame \in {"psh", "fin"}
  PROVE  /\ InOrder(Append(q, frame)) /\ (frame = "psh" => Growing(Append(q, frame)))
         /\ Append(q, frame) \in Seq(Frames) /\ Append(q, frame) # q
  <1> PICK m \in Nat : m = Len(q)
    OBVIOUS
  <1> PICK r : r = Append(q, frame)
    BY Zenon
  <1>1. /\ r \in Seq(Frames) /\ Len(r) = m + 1 /\ DOMAIN r = 1..(m + 1)
        /\ (\A n \in 1..m : r[n] = q[n]) /\ r[m + 1] = frame
    BY DEF Frames
  <1>2. m >= 1 /\ r[1] = "synack" /\ \A n \in 2..m : r[n] = "psh"
    BY <1>1 DEF Growing
  <1>3. InOrder(r)
    BY <1>1, <1>2 DEF InOrder
  <1>4. frame = "psh" => Growing(r)
    BY <1>1, <1>2 DEF Growing
  <1> QED
    BY <1>1, <1>3, <1>4

\* The first frame of a stream.
LEMMA First ==
  ASSUME NEW frame \in {"synack", "refused"}
  PROVE  /\ InOrder(Append(<<>>, frame)) /\ (frame = "synack" => Growing(Append(<<>>, frame)))
         /\ Append(<<>>, frame) # <<>>
  <1> PICK r : r = Append(<<>>, frame)
    BY Zenon
  <1>1. Len(r) = 1 /\ DOMAIN r = {1} /\ r[1] = frame
    OBVIOUS
  <1>2. InOrder(r) /\ (frame = "synack" => Growing(r)) /\ r # <<>>
    BY <1>1 DEF InOrder, Growing
  <1> QED
    BY <1>2, Zenon

\* What FramesInOrder says of a step.
FrameStep ==
    \A k \in Opens :
        /\ log'[k] # log[k] => InOrder(log'[k])
        /\ writer = k /\ writer' # k => log'[k] # log[k] \/ broken' \/ conn = "ended"

\* A step that writes nothing, and gives the writer up only when the
\* connection is lost.
Quiet(k) ==
    /\ TaskMove(k) /\ log' = log
    /\ up' # up => up[k] # "none"
    /\ up'[k] \in Opening => up[k] \in Opening
    /\ down'[k] \in Relaying => down[k] \in Relaying
    /\ writer' = writer \/ writer = None \/ broken' \/ conn = "ended"

\* Such a step keeps the invariant and the order of the frames.
LEMMA QuietKeeps ==
  ASSUME Facts, Inv, NEW k \in Opens, Quiet(k) PROVE Inv' /\ FrameStep
  <1>1. Types' /\ Reachable' /\ Limits'
    BY MoveKeeps, Zenon DEF Inv, Quiet
  <1>2. ASSUME NEW l \in Opens PROVE Order(l)'
    <2>1. CASE l = k
      BY <2>1, Zenon DEF Inv, Types, Order, Quiet, TaskMove, Up, Down, Opens
    <2>2. CASE l # k
      <3>1. up'[l] = up[l] /\ down'[l] = down[l] /\ log'[l] = log[l] /\ opened' = opened
        BY <2>2, Zenon DEF Inv, Types, Quiet, TaskMove, Up, Down
      <3> QED
        BY <3>1, Zenon DEF Inv, Order
    <2> QED
      BY <2>1, <2>2, Zenon
  <1>3. FrameStep
    BY DEF FrameStep, Quiet, Opens, None
  <1> QED
    BY <1>1, <1>2, <1>3, Zenon DEF Inv

\* All steps of the tasks but two are quiet.
LEMMA QuietSteps ==
  ASSUME Types, NEW k \in Opens
  PROVE  \/ TakePermit(k) \/ DialEnds(k) \/ LockForSynAck(k) \/ AbandonOpen(k) \/ ForwardPayload(k)
         \/ UplinkFails(k) \/ UplinkAborted(k) \/ ShutOutbound(k) \/ TaskDropped(k) \/ TargetSends(k)
         \/ RecordDownload(k) \/ LockWriter(k) \/ WriteFails(k) \/ DownlinkAborted(k) \/ DownlinkDropped(k)
         => Quiet(k)
  <1>1. TakePermit(k) => Quiet(k)
    BY Zenon DEF TakePermit, Quiet, TaskMove, Types, Up, Down, Trigger, UpSteps, DownSteps, Opening,
           Relaying, rest, tables, birth
  <1>2. DialEnds(k) => Quiet(k)
    BY Zenon DEF DialEnds, Quiet, TaskMove, Types, Up, Down, Trigger, UpSteps, DownSteps, Opening,
           Relaying, rest, tables, birth
  <1>3. LockForSynAck(k) => Quiet(k)
    BY Zenon DEF LockForSynAck, Lock, Quiet, TaskMove, Types, Up, Down, Trigger, UpSteps, DownSteps, Opening,
           Relaying, rest, tables, birth
  <1>4. AbandonOpen(k) => Quiet(k)
    BY Zenon DEF AbandonOpen, Quiet, TaskMove, Types, Up, Down, Trigger, UpSteps, DownSteps, Opening,
           Relaying, rest, tables, birth
  <1>5. ForwardPayload(k) => Quiet(k)
    BY Zenon DEF ForwardPayload, Quiet, TaskMove, Types, Up, Down, Trigger, UpSteps, DownSteps, Opening,
           Relaying, rest, tables, birth
  <1>6. UplinkFails(k) => Quiet(k)
    BY Zenon DEF UplinkFails, Quiet, TaskMove, Types, Up, Down, Trigger, UpSteps, DownSteps, Opening,
           Relaying, rest, tables, birth
  <1>7. UplinkAborted(k) => Quiet(k)
    BY Zenon DEF UplinkAborted, Quiet, TaskMove, Types, Up, Down, Trigger, UpSteps, DownSteps, Opening,
           Relaying, rest, tables, birth
  <1>8. ShutOutbound(k) => Quiet(k)
    BY Zenon DEF ShutOutbound, Quiet, TaskMove, Types, Up, Down, Trigger, UpSteps, DownSteps, Opening,
           Relaying, rest, tables, birth
  <1>9. TaskDropped(k) => Quiet(k)
    BY Zenon DEF TaskDropped, Unlock, Quiet, TaskMove, Types, Up, Down, Trigger, UpSteps, DownSteps, Opening,
           Relaying, rest, tables, birth
  <1>10. TargetSends(k) => Quiet(k)
    BY Zenon DEF TargetSends, Quiet, TaskMove, Types, Up, Down, Trigger, UpSteps, DownSteps, Opening,
           Relaying, rest, tables, birth
  <1>11. RecordDownload(k) => Quiet(k)
    BY Zenon DEF RecordDownload, Quiet, TaskMove, Types, Up, Down, Trigger, UpSteps, DownSteps, Opening,
           Relaying, rest, tables, birth
  <1>12. LockWriter(k) => Quiet(k)
    BY Zenon DEF LockWriter, Lock, Quiet, TaskMove, Types, Up, Down, Trigger, UpSteps, DownSteps, Opening,
           Relaying, rest, tables, birth
  <1>13. WriteFails(k) => Quiet(k)
    BY DEF WriteFails, Quiet, TaskMove, Types, Up, Down, Trigger, UpSteps, DownSteps, Opening,
           Relaying, rest, tables, birth
  <1>14. DownlinkAborted(k) => Quiet(k)
    BY Zenon DEF DownlinkAborted, Quiet, TaskMove, Types, Up, Down, Trigger, UpSteps, DownSteps, Opening,
           Relaying, rest, tables, birth
  <1>15. DownlinkDropped(k) => Quiet(k)
    BY Zenon DEF DownlinkDropped, Unlock, Quiet, TaskMove, Types, Up, Down, Trigger, UpSteps, DownSteps, Opening,
           Relaying, rest, tables, birth
  <1> QED
    BY <1>1, <1>2, <1>3, <1>4, <1>5, <1>6, <1>7, <1>8, <1>9, <1>10, <1>11, <1>12, <1>13, <1>14, <1>15, Zenon

\* A frame is written, whole, and what is written for a stream stays in order.
LEMMA LoudKeeps ==
  ASSUME Facts, Inv, NEW k \in Opens, WriteSynAck(k) \/ WriteFrame(k) PROVE Inv' /\ FrameStep
  <1>0. Types /\ Reachable /\ Limits /\ \A l \in Opens : Order(l)
    BY Zenon DEF Inv
  <1>t. /\ log \in [Opens -> Seq(Frames)] /\ log[k] \in Seq(Frames)
        /\ up \in [Opens -> UpSteps] /\ down \in [Opens -> DownSteps]
    BY <1>0, Zenon DEF Types
  <1>1. PICK frame \in Frames :
           /\ log' = [log EXCEPT ![k] = Append(@, frame)] /\ opened' = opened
           /\ \/ /\ frame = "synack" /\ up[k] = "accept"
                 /\ up' = [up EXCEPT ![k] = "relay"] /\ down' = [down EXCEPT ![k] = "read"]
              \/ /\ frame = "refused" /\ up[k] = "refuse"
                 /\ up' = [up EXCEPT ![k] = "done"] /\ down' = down
              \/ /\ frame = "psh" /\ down[k] = "write"
                 /\ up' = up /\ down' = [down EXCEPT ![k] = "read"]
              \/ /\ frame = "fin" /\ down[k] = "fin"
                 /\ up' = up /\ down' = [down EXCEPT ![k] = "done"]
    BY Zenon DEF WriteSynAck, WriteFrame, Written, Up, Down, Frames, rest, birth
  <1>2. TaskMove(k)
    <2>1. /\ UNCHANGED <<pending, uot, streams, opened, id>>
          /\ abort' = abort \/ Trigger(k)
      BY Zenon DEF WriteSynAck, WriteFrame, rest, tables, birth
    <2>2. /\ up' = up \/ \E u \in UpSteps : Up(k, u)
          /\ down' = down \/ \E d \in DownSteps : Down(k, d)
          /\ up' = up \/ up'[k] # "connecting"
      BY <1>1, <1>t, Zenon DEF Up, Down, UpSteps, DownSteps, Opening, Relaying
    <2> QED
      BY <1>1, <2>1, <2>2, Zenon DEF TaskMove
  <1>3. Types' /\ Reachable' /\ Limits'
    BY <1>0, <1>2, MoveKeeps, Zenon
  <1>4. /\ log'[k] = Append(log[k], frame) /\ \A l \in Opens \ {k} : log'[l] = log[l]
    BY <1>1, <1>t, Zenon
  <1>5. /\ InOrder(log'[k]) /\ log'[k] # log[k]
        /\ frame \in {"synack", "psh"} => Growing(log'[k])
    <2>1. CASE frame \in {"synack", "refused"}
      <3>1. log[k] = <<>>
        BY <1>0, <1>1, <2>1, Zenon DEF Order, Opening
      <3> QED
        BY <1>4, <2>1, <3>1, First, Zenon
    <2>2. CASE frame \in {"psh", "fin"}
      <3>1. Growing(log[k])
        BY <1>0, <1>1, <2>2, Zenon DEF Order, Relaying
      <3> QED
        BY <1>4, <1>t, <2>2, <3>1, Grow, Zenon
    <2> QED
      BY <2>1, <2>2, Zenon DEF Frames
  <1>6. ASSUME NEW l \in Opens PROVE Order(l)'
    <2>1. CASE l = k
      <3>1. up[k] # "none" => ~(k > opened)
        BY <1>0, Zenon DEF Order
      <3>2. up'[k] \notin Opening
        BY <1>0, <1>1, <1>t, Zenon DEF Order, Opening, Relaying, UpSteps
      <3>3. down'[k] \in Relaying => frame \in {"synack", "psh"}
        <4>1. frame = "refused" => down'[k] \notin Relaying
          BY <1>0, <1>1, Zenon DEF Order, Opening
        <4>2. frame = "fin" => down'[k] = "done"
          BY <1>1, <1>t, Zenon
        <4>3. "done" \notin Relaying
          BY Zenon DEF Relaying
        <4> QED
          BY <4>1, <4>2, <4>3, Zenon DEF Frames
      <3>4. up[k] # "none"
        BY <1>0, <1>1, Zenon DEF Order, Opening, Relaying
      <3> QED
        BY <1>1, <1>5, <2>1, <3>1, <3>2, <3>3, <3>4, Zenon DEF Order
    <2>2. CASE l # k
      <3>1. up'[l] = up[l] /\ down'[l] = down[l] /\ log'[l] = log[l]
        BY <1>1, <1>4, <1>t, <2>2, Zenon
      <3> QED
        BY <1>0, <1>1, <3>1, Zenon DEF Order
    <2> QED
      BY <2>1, <2>2, Zenon
  <1>7. FrameStep
    <2>1. writer' = IF writer = k THEN None ELSE writer
      BY Zenon DEF WriteSynAck, WriteFrame, Unlock
    <2> QED
      BY <1>4, <1>5, <2>1, Zenon DEF FrameStep
  <1> QED
    BY <1>3, <1>6, <1>7, Zenon DEF Inv

----------------------------------------------------------------------------
(* The parser *)

\* Entries leave the tables, and those of streams that were not aborted yet
\* with their abort.
Closing ==
    /\ UNCHANGED <<opened, id, up, down, log, writer>>
    /\ streams' \in [Ids -> 0..opened] /\ abort' \in [Opens -> BOOLEAN]
    /\ (\A i \in Ids : streams'[i] = streams[i] \/ streams'[i] = None)
    /\ (\A k \in Opens : abort[k] => abort'[k])
    /\ (\A i \in Ids, k \in Opens : streams[i] = k /\ streams'[i] = None => abort'[k])
    /\ pending' \subseteq pending /\ uot' \subseteq uot

\* Such a step keeps the invariant and writes nothing.
LEMMA ClosingKeeps ==
  ASSUME Facts, Inv, Closing PROVE Inv' /\ FrameStep
  <1>0. Types /\ Reachable /\ Limits /\ \A l \in Opens : Order(l)
    BY Zenon DEF Inv
  <1>1. Types'
    BY <1>0, Zenon DEF Types, Closing
  <1>2. Reachable'
    <2> SUFFICES ASSUME NEW k \in 1..opened, ~abort'[k] PROVE streams'[id[k]] = k
      BY Zenon DEF Reachable, Closing
    <2>1. k \in Opens /\ id[k] \in Ids
      BY <1>0, ServerAssumption DEF Types, Opens
    <2>2. streams[id[k]] = k
      BY <1>0, <2>1, Zenon DEF Reachable, Closing
    <2> QED
      BY <2>1, <2>2, Zenon DEF Closing
  <1>3. Limits'
    <2>1. /\ InTable' \in SUBSET InTable /\ pending' \in SUBSET pending /\ uot' \in SUBSET uot
          /\ Dialing' = Dialing
      BY <1>0, Zenon DEF InTable, Dialing, Closing, Types
    <2>2. /\ Cardinality(InTable) \in Nat /\ Cardinality(pending) \in Nat /\ Cardinality(uot) \in Nat
          /\ Cardinality(InTable') \in Nat /\ Cardinality(InTable') <= Cardinality(InTable)
          /\ Cardinality(pending') \in Nat /\ Cardinality(pending') <= Cardinality(pending)
          /\ Cardinality(uot') \in Nat /\ Cardinality(uot') <= Cardinality(uot)
      BY <1>0, <2>1, TablesFinite, Smaller, Zenon
    <2> QED
      BY <1>0, <2>1, <2>2, ServerAssumption DEF Limits, Used
  <1>4. ASSUME NEW l \in Opens PROVE Order(l)'
    BY <1>0, Zenon DEF Order, Closing
  <1>5. FrameStep
    BY Zenon DEF FrameStep, Closing
  <1> QED
    BY <1>1, <1>2, <1>3, <1>4, <1>5, Zenon DEF Inv

\* None is the number of no stream.
LEMMA NoneIsNoOpen == None \notin Opens
  BY DEF None, Opens

\* The streams in the table stay, as do their aborts.
LEMMA StayingCloses ==
  ASSUME Types, UNCHANGED <<opened, id, up, down, log, writer, streams, abort>>,
         pending' \subseteq pending, uot' \subseteq uot
  PROVE  Closing
  <1>1. streams' \in [Ids -> 0..opened] /\ abort' \in [Opens -> BOOLEAN]
    BY Zenon DEF Types
  <1> QED
    BY <1>1, NoneIsNoOpen, Zenon DEF Closing

\* The end of the connection aborts every stream in the table.
LEMMA EndConnectionCloses ==
  ASSUME Types, EndConnection PROVE Closing
  <1>1. None \in 0..opened
    BY ServerAssumption DEF Types, None
  <1>2. streams' = [i \in Ids |-> None] /\ pending' = {} /\ uot' = {}
    BY Zenon DEF EndConnection
  <1>3. abort' = [k \in Opens |-> abort[k] \/ \E i \in Ids : streams[i] = k]
    BY Zenon DEF EndConnection
  <1>4. UNCHANGED <<opened, id, up, down, log, writer>>
    BY Zenon DEF EndConnection, birth
  <1>5. streams' \in [Ids -> 0..opened]
    BY <1>1, <1>2, Zenon
  <1>6. abort' \in [Opens -> BOOLEAN]
    BY <1>3, Zenon DEF Types
  <1>7. /\ \A k \in Opens : abort[k] => abort'[k]
        /\ \A i \in Ids, k \in Opens : streams[i] = k => abort'[k]
    BY <1>3, Zenon
  <1> QED
    BY <1>2, <1>4, <1>5, <1>6, <1>7, Zenon DEF Closing

\* The entry of i leaves the tables, with the abort of its stream.
LEMMA RemovalCloses ==
  ASSUME Types, NEW i \in Ids, streams' = [streams EXCEPT ![i] = None],
         abort' = [k \in Opens |-> abort[k] \/ streams[i] = k],
         UNCHANGED <<opened, id, up, down, log, writer>>, pending' \subseteq pending, uot' \subseteq uot
  PROVE  Closing
  <1>1. None \in 0..opened
    BY ServerAssumption DEF Types, None
  <1>2. streams \in [Ids -> 0..opened]
    BY Zenon DEF Types
  <1>3. streams' \in [Ids -> 0..opened] /\ \A j \in Ids : streams'[j] = IF j = i THEN None ELSE streams[j]
    BY <1>1, <1>2, Zenon
  <1>4. abort' \in [Opens -> BOOLEAN]
    BY Zenon DEF Types
  <1>5. ASSUME NEW j \in Ids, NEW k \in Opens, streams[j] = k, streams'[j] = None PROVE abort'[k]
    <2>1. j = i
      BY <1>3, <1>5, NoneIsNoOpen, Zenon
    <2> QED
      BY <1>5, <2>1, Zenon
  <1>6. (\A k \in Opens : abort[k] => abort'[k]) /\ \A j \in Ids : streams'[j] = streams[j] \/ streams'[j] = None
    BY <1>3, Zenon
  <1> QED
    BY <1>3, <1>4, <1>5, <1>6, Zenon DEF Closing

\* A pending or half-requested stream is opened: its number is new, and every
\* earlier stream of its id has been aborted.
LEMMA OpenKeeps ==
  ASSUME Facts, Inv, NEW i \in Ids, streams[i] = None, OpenTcp(i) \/ OpenUot(i),
         \/ i \in pending /\ pending' = pending \ {i} /\ uot' = uot
         \/ i \in uot /\ uot' = uot \ {i} /\ pending' = pending
  PROVE  Inv' /\ FrameStep
  <1>0. Types /\ Reachable /\ Limits /\ \A l \in Opens : Order(l)
    BY Zenon DEF Inv
  <1>t. /\ opened \in Nat /\ opened \in 0..MaxOpens /\ streams \in [Ids -> 0..opened]
        /\ id \in [Opens -> Ids \cup {None}] /\ (\A k \in 1..opened : id[k] \in Ids)
        /\ up \in [Opens -> UpSteps] /\ down \in [Opens -> DownSteps]
        /\ abort \in [Opens -> BOOLEAN] /\ log \in [Opens -> Seq(Frames)] /\ MaxOpens \in Nat
    BY <1>0, ServerAssumption DEF Types
  <1>1. PICK n \in Opens : n = opened + 1
    BY <1>t DEF OpenTcp, OpenUot, Opened, Opens
  <1>2. /\ opened' = n /\ id' = [id EXCEPT ![n] = i] /\ streams' = [streams EXCEPT ![i] = n]
        /\ abort' = abort /\ writer' = writer
        /\ \/ up' = [up EXCEPT ![n] = "dial"] /\ down' = down /\ log' = log
           \/ /\ up' = [up EXCEPT ![n] = "relay"] /\ down' = [down EXCEPT ![n] = "read"]
              /\ log' = [log EXCEPT ![n] = Append(@, "synack")]
    BY <1>1, Zenon DEF OpenTcp, OpenUot, Opened, Up, Down, Written
  <1>3. up[n] = "none" /\ log[n] = <<>> /\ down[n] \notin Relaying
    BY <1>0, <1>1, <1>t DEF Order, Opening
  <1>4. Types'
    <2>1. streams' \in [Ids -> 0..n] /\ id' \in [Opens -> Ids \cup {None}] /\ \A k \in 1..n : id'[k] \in Ids
      BY <1>1, <1>2, <1>t
    <2>2. up' \in [Opens -> UpSteps] /\ down' \in [Opens -> DownSteps]
      BY <1>2, <1>t, Zenon DEF UpSteps, DownSteps, Opening, Relaying
    <2>3. log' \in [Opens -> Seq(Frames)]
      <3>1. "synack" \in Frames
        BY Zenon DEF Frames
      <3> QED
        <4>1. log \in [Opens -> Seq(Frames)]
          BY <1>t, Zenon
        <4>2. [log EXCEPT ![n] = Append(@, "synack")] \in [Opens -> Seq(Frames)]
          BY <3>1, <4>1, LogGrows, Zenon
        <4> QED
          BY <1>2, <4>1, <4>2, Zenon
    <2>4. n \in 0..MaxOpens /\ pending' \subseteq Ids /\ uot' \subseteq Ids
      BY <1>0, <1>t DEF Types, Opens
    <2> QED
      BY <1>2, <1>t, <2>1, <2>2, <2>3, <2>4, Zenon DEF Types
  <1>5. Reachable'
    <2> SUFFICES ASSUME NEW k \in 1..n, ~abort[k] PROVE streams'[id'[k]] = k
      BY <1>2, Zenon DEF Reachable
    <2>1. CASE k = n
      BY <1>2, <1>t, <2>1, Zenon
    <2>2. CASE k # n
      <3>1. k \in 1..opened /\ id[k] \in Ids /\ k \in Opens
        BY <1>1, <1>t, <2>2 DEF Opens
      <3>2. streams[id[k]] = k /\ id[k] # i
        BY <1>0, <3>1 DEF Reachable, None
      <3> QED
        BY <1>2, <1>t, <2>2, <3>1, <3>2, Zenon
    <2> QED
      BY <2>1, <2>2, Zenon
  <1>6. Limits'
    <2>1. InTable' = InTable \cup {i}
      BY <1>1, <1>2, <1>t DEF InTable, None
    <2>2. /\ Cardinality(InTable) \in Nat /\ Cardinality(InTable') \in Nat
          /\ Cardinality(InTable') <= Cardinality(InTable) + 1
      BY <1>0, <2>1, TablesFinite, OneMore, Zenon
    <2>3. /\ Cardinality(pending) \in Nat /\ Cardinality(uot) \in Nat
          /\ Cardinality(pending') \in Nat /\ Cardinality(uot') \in Nat
          /\ Cardinality(pending') + Cardinality(uot') = Cardinality(pending) + Cardinality(uot) - 1
          /\ Cardinality(uot') <= Cardinality(uot)
      <3>1. CASE i \in pending /\ pending' = pending \ {i} /\ uot' = uot
        <4>1. IsFiniteSet(pending) /\ Cardinality(uot) \in Nat
          BY <1>0, TablesFinite, Zenon
        <4>2. /\ Cardinality(pending) \in Nat /\ Cardinality(pending') \in Nat
              /\ Cardinality(pending') = Cardinality(pending) - 1
          BY <3>1, <4>1, OneLess, Zenon
        <4> QED
          BY <3>1, <4>1, <4>2
      <3>2. CASE i \in uot /\ uot' = uot \ {i} /\ pending' = pending
        <4>1. IsFiniteSet(uot) /\ Cardinality(pending) \in Nat
          BY <1>0, TablesFinite, Zenon
        <4>2. /\ Cardinality(uot) \in Nat /\ Cardinality(uot') \in Nat
              /\ Cardinality(uot') = Cardinality(uot) - 1
          BY <3>2, <4>1, OneLess, Zenon
        <4> QED
          BY <3>2, <4>1, <4>2
      <3> QED
        BY <3>1, <3>2, Zenon
    <2>4. Dialing' \in SUBSET Dialing
      BY <1>2, <1>t, Zenon DEF Dialing
    <2>5. Cardinality(Dialing') \in Nat /\ Cardinality(Dialing) \in Nat /\ Cardinality(Dialing') <= Cardinality(Dialing)
      BY <1>0, <2>4, TablesFinite, Smaller, Zenon
    <2> QED
      BY <1>0, <2>2, <2>3, <2>5, ServerAssumption DEF Limits, Used
  <1>7. InOrder(Append(<<>>, "synack")) /\ Growing(Append(<<>>, "synack"))
    BY First, Zenon
  <1>8. ASSUME NEW l \in Opens PROVE Order(l)'
    <2>1. CASE l = n
      <3>1. ~(n > n) /\ n \in Int
        BY DEF Opens
      <3>2. CASE up' = [up EXCEPT ![n] = "dial"] /\ down' = down /\ log' = log
        <4>1. up'[n] = "dial" /\ log'[n] = <<>> /\ down'[n] \notin Relaying
          BY <1>3, <1>t, <3>2, Zenon
        <4> QED
          BY <1>2, <2>1, <3>1, <4>1, Zenon DEF Order
      <3>3. CASE /\ up' = [up EXCEPT ![n] = "relay"]
                 /\ log' = [log EXCEPT ![n] = Append(@, "synack")]
        <4>1. up'[n] = "relay" /\ log'[n] = Append(<<>>, "synack")
          BY <1>3, <1>t, <3>3, Zenon
        <4>2. "relay" \notin Opening
          BY Zenon DEF Opening
        <4> QED
          BY <1>2, <1>7, <2>1, <3>1, <4>1, <4>2, Zenon DEF Order
      <3> QED
        BY <1>2, <3>2, <3>3, Zenon
    <2>2. CASE l # n
      <3>1. up'[l] = up[l] /\ down'[l] = down[l] /\ log'[l] = log[l] /\ (l > n => l > opened)
        BY <1>1, <1>2, <1>t, <2>2 DEF Opens
      <3> QED
        BY <1>0, <1>2, <3>1, Zenon DEF Order
    <2> QED
      BY <2>1, <2>2, Zenon
  <1>9. FrameStep
    <2>1. \A l \in Opens : log'[l] # log[l] => l = n /\ log'[l] = Append(log[l], "synack")
      BY <1>2, <1>t, Zenon
    <2> QED
      BY <1>2, <1>3, <1>7, <2>1, Zenon DEF FrameStep
  <1> QED
    BY <1>4, <1>5, <1>6, <1>8, <1>9, Zenon DEF Inv

\* A SYN, or the beginning of a UOT request: within the limits.
LEMMA PendingKeeps ==
  ASSUME Facts, Inv, NEW i \in Ids, UNCHANGED <<streams, birth, tasks>>,
         \/ Used < MaxStreams /\ pending' = pending \cup {i} /\ uot' = uot
         \/ /\ Cardinality(uot) < MaxPendingUot /\ i \in pending
            /\ pending' = pending \ {i} /\ uot' = uot \cup {i}
  PROVE  Inv' /\ FrameStep
  <1>0. Types /\ Reachable /\ Limits /\ \A l \in Opens : Order(l)
    BY Zenon DEF Inv
  <1>1. Types' /\ Reachable'
    BY <1>0, Zenon DEF Types, Reachable, birth, tasks
  <1>2. /\ Cardinality(InTable) \in Nat /\ Cardinality(pending) \in Nat /\ Cardinality(uot) \in Nat
        /\ IsFiniteSet(pending) /\ IsFiniteSet(uot)
    BY <1>0, TablesFinite, Zenon
  <1>3. InTable' = InTable /\ Dialing' = Dialing
    BY Zenon DEF InTable, Dialing, tasks
  <1>4. Limits'
    <2>1. CASE Used < MaxStreams /\ pending' = pending \cup {i} /\ uot' = uot
      <3>1. Cardinality(pending') \in Nat /\ Cardinality(pending') <= Cardinality(pending) + 1
        BY <1>2, <2>1, OneMore, Zenon
      <3> QED
        BY <1>0, <1>2, <1>3, <2>1, <3>1, ServerAssumption DEF Limits, Used
    <2>2. CASE /\ Cardinality(uot) < MaxPendingUot /\ i \in pending
               /\ pending' = pending \ {i} /\ uot' = uot \cup {i}
      <3>1. Cardinality(pending') \in Nat /\ Cardinality(pending') = Cardinality(pending) - 1
        BY <1>2, <2>2, OneLess, Zenon
      <3>2. Cardinality(uot') \in Nat /\ Cardinality(uot') <= Cardinality(uot) + 1
        BY <1>2, <2>2, OneMore, Zenon
      <3> QED
        BY <1>0, <1>2, <1>3, <2>2, <3>1, <3>2, ServerAssumption DEF Limits, Used
    <2> QED
      BY <2>1, <2>2, Zenon
  <1>5. ASSUME NEW l \in Opens PROVE Order(l)'
    BY <1>0, Zenon DEF Order, birth, tasks
  <1>6. FrameStep
    BY Zenon DEF FrameStep, tasks
  <1> QED
    BY <1>1, <1>4, <1>5, <1>6, Zenon DEF Inv

\* Every frame of the client, and the end of the connection.
LEMMA ParserKeeps ==
  ASSUME Facts, Inv, ParserStep PROVE Inv' /\ FrameStep
  <1>0. Types /\ opened \in Nat /\ MaxOpens \in Nat
    BY ServerAssumption DEF Inv, Types
  <1>1. EndConnection => Inv' /\ FrameStep
    BY <1>0, EndConnectionCloses, ClosingKeeps, Zenon
  <1>2. ConnectionEnds => Inv' /\ FrameStep
    BY <1>1, Zenon DEF ConnectionEnds
  <1>3. ClientSettings => Inv' /\ FrameStep
    <2>1. ClientSettings => Closing
      BY <1>0, StayingCloses, Zenon DEF ClientSettings, birth, tasks
    <2> QED
      BY <2>1, ClosingKeeps, Zenon
  <1>4. Heartbeat => Inv' /\ FrameStep
    <2>1. Heartbeat => Closing
      <3> SUFFICES ASSUME Heartbeat PROVE Closing
        BY Zenon
      <3>1. streams \in [Ids -> 0..opened] /\ abort \in [Opens -> BOOLEAN] /\ None \in 0..opened
        BY <1>0 DEF Types, None
      <3>2. streams' = [i \in Ids |-> IF streams[i] # None /\ abort[streams[i]] THEN None ELSE streams[i]]
        BY Zenon DEF Heartbeat
      <3>3. UNCHANGED <<opened, id, up, down, log, writer, abort, pending, uot>>
        BY Zenon DEF Heartbeat, birth, tasks
      <3>4. streams' \in [Ids -> 0..opened]
        BY <3>1, <3>2, Zenon
      <3>5. /\ \A i \in Ids : streams'[i] = streams[i] \/ streams'[i] = None
            /\ \A i \in Ids, k \in Opens : streams[i] = k /\ streams'[i] = None => abort[k]
        BY <3>2, NoneIsNoOpen, Zenon
      <3> QED
        BY <3>1, <3>3, <3>4, <3>5, Zenon DEF Closing
    <2> QED
      BY <2>1, ClosingKeeps, Zenon
  <1>5. ASSUME NEW i \in Ids, ClientSyn(i) PROVE Inv' /\ FrameStep
    BY <1>1, <1>5, PendingKeeps, Zenon DEF ClientSyn
  <1>6. ASSUME NEW i \in Ids, ClientPayload(i) PROVE Inv' /\ FrameStep
    <2>1. streams[i] \in Opens
      BY <1>0, <1>6 DEF ClientPayload, Types, Opens, None
    <2>2. Closing
      <3>1. /\ UNCHANGED <<opened, id, up, down, log, writer, pending, uot>>
            /\ \/ UNCHANGED <<streams, abort>>
               \/ /\ streams' = [streams EXCEPT ![i] = None]
                  /\ abort' = [abort EXCEPT ![streams[i]] = TRUE]
        BY <1>6, Zenon DEF ClientPayload, Trigger, birth
      <3>2. CASE UNCHANGED <<streams, abort>>
        BY <1>0, <3>1, <3>2, StayingCloses, Zenon
      <3>3. CASE streams' = [streams EXCEPT ![i] = None] /\ abort' = [abort EXCEPT ![streams[i]] = TRUE]
        <4>1. abort' = [k \in Opens |-> abort[k] \/ streams[i] = k]
          BY <1>0, <2>1, <3>3, Zenon DEF Types
        <4> QED
          BY <1>0, <3>1, <3>3, <4>1, RemovalCloses, Zenon
      <3> QED
        BY <3>1, <3>2, <3>3, Zenon
    <2> QED
      BY <2>2, ClosingKeeps, Zenon
  <1>7. ASSUME NEW i \in Ids, ClientTarget(i) PROVE Inv' /\ FrameStep
    <2>1. ASSUME OpenFails, pending' = pending \ {i}, uot' = uot PROVE Inv' /\ FrameStep
      <3>1. Closing
        BY <1>0, <2>1, StayingCloses, Zenon DEF OpenFails, birth, tasks
      <3> QED
        BY <3>1, ClosingKeeps, Zenon
    <2>2. ASSUME OpenTcp(i) \/ OpenUot(i), pending' = pending \ {i}, uot' = uot PROVE Inv' /\ FrameStep
      BY <1>7, <2>2, OpenKeeps, Zenon DEF ClientTarget
    <2>3. ASSUME /\ Cardinality(uot) < MaxPendingUot
                 /\ pending' = pending \ {i} /\ uot' = uot \cup {i}
                 /\ UNCHANGED <<conn, settings, streams, birth, tasks>>
          PROVE Inv' /\ FrameStep
      BY <1>7, <2>3, PendingKeeps, Zenon DEF ClientTarget
    <2> QED
      BY <1>1, <1>7, <2>1, <2>2, <2>3, Zenon DEF ClientTarget
  <1>8. ASSUME NEW i \in Ids, ClientUotRequest(i) PROVE Inv' /\ FrameStep
    <2>1. CASE OpenFails
      <3>1. Closing
        BY <1>0, <1>8, <2>1, StayingCloses, Zenon DEF ClientUotRequest, OpenFails, birth, tasks
      <3> QED
        BY <3>1, ClosingKeeps, Zenon
    <2>2. CASE OpenUot(i)
      BY <1>8, <2>2, OpenKeeps, Zenon DEF ClientUotRequest
    <2> QED
      BY <1>8, <2>1, <2>2, Zenon DEF ClientUotRequest
  <1>9. ASSUME NEW i \in Ids, ClientFin(i) PROVE Inv' /\ FrameStep
    <2>1. Closing
      <3>1. /\ streams' = [streams EXCEPT ![i] = None] /\ pending' \subseteq pending /\ uot' \subseteq uot
            /\ abort' = [k \in Opens |-> abort[k] \/ streams[i] = k]
            /\ UNCHANGED <<opened, id, up, down, log, writer>>
        BY <1>9, Zenon DEF ClientFin, birth
      <3> QED
        BY <1>0, <3>1, RemovalCloses, Zenon
    <2> QED
      BY <2>1, ClosingKeeps, Zenon
  <1> QED
    BY <1>2, <1>3, <1>4, <1>5, <1>6, <1>7, <1>8, <1>9, Zenon DEF ParserStep

\* Every step preserves the invariant, and writes in order.
LEMMA NextInv ==
  ASSUME Facts PROVE Inv /\ [Next]_vars => Inv' /\ [FrameStep]_vars
  <1> SUFFICES ASSUME Inv PROVE [Next]_vars => Inv' /\ [FrameStep]_vars
    BY Zenon
  <1>1. ParserStep => Inv' /\ FrameStep
    BY ParserKeeps, Zenon
  <1>2. ASSUME NEW k \in Opens, UplinkStep(k) \/ DownlinkStep(k) PROVE Inv' /\ FrameStep
    <2>1. Types
      BY Zenon DEF Inv
    <2>2. WriteSynAck(k) \/ WriteFrame(k) \/ Quiet(k)
      BY <1>2, <2>1, QuietSteps, Zenon DEF UplinkStep, DownlinkStep
    <2> QED
      BY <2>2, LoudKeeps, QuietKeeps, Zenon
  <1>3. UNCHANGED vars => Inv'
    BY Zenon DEF vars, tables, birth, tasks, Inv, Types, Reachable, Limits, Used, InTable, Dialing, Order
  <1> QED
    BY <1>1, <1>2, <1>3, Zenon DEF Next

----------------------------------------------------------------------------
(* The facts and the theorems *)

INSTANCE FiniteSetTheorems

\* A set of naturals that is not empty has a least element.
LEMMA Least ==
  ASSUME NEW B \in SUBSET Nat, B # {}
  PROVE  \E n \in B : \A m \in B : n <= m
  <1>1. IsWellFoundedOn(OpToRel(<, Nat), Nat)
    BY NatLessThanWellFounded, Zenon
  <1>2. PICK n \in B : \A m \in B : ~(<<m, n>> \in OpToRel(<, Nat))
    BY <1>1, WFMin, Zenon
  <1>3. ASSUME NEW m \in B PROVE n <= m
    <2>1. ~(m < n)
      BY <1>2, Zenon DEF OpToRel
    <2> QED
      BY <2>1
  <1> QED
    BY <1>3, Zenon

\* The library gives the facts.
LEMMA FactsHold == Facts
  <1>1. ASSUME NEW T, IsFiniteSet(T), NEW S \in SUBSET T
        PROVE  IsFiniteSet(S) /\ Cardinality(S) \in Nat /\ Cardinality(T) \in Nat /\ Cardinality(S) <= Cardinality(T)
    BY <1>1, FS_Subset, FS_CardinalityType, Zenon
  <1>2. ASSUME NEW S, IsFiniteSet(S), NEW x
        PROVE  /\ IsFiniteSet(S \cup {x}) /\ Cardinality(S) \in Nat /\ Cardinality(S \cup {x}) \in Nat
               /\ Cardinality(S \cup {x}) <= Cardinality(S) + 1
    <2>1. /\ IsFiniteSet(S \cup {x}) /\ Cardinality(S) \in Nat /\ Cardinality(S \cup {x}) \in Nat
          /\ Cardinality(S \cup {x}) = IF x \in S THEN Cardinality(S) ELSE Cardinality(S) + 1
      BY <1>2, FS_AddElement, FS_CardinalityType, Zenon
    <2> QED
      BY <2>1
  <1>3. ASSUME NEW S, IsFiniteSet(S), NEW x \in S
        PROVE  /\ IsFiniteSet(S \ {x}) /\ Cardinality(S) \in Nat /\ Cardinality(S \ {x}) \in Nat
               /\ Cardinality(S \ {x}) = Cardinality(S) - 1
    BY <1>3, FS_RemoveElement, FS_CardinalityType, Zenon
  <1>4. Cardinality({}) = 0 /\ \A n \in Nat : IsFiniteSet(1..n)
    BY FS_EmptySet, FS_Interval
  <1> QED
    BY <1>1, <1>2, <1>3, <1>4, Least, Zenon DEF Facts

\* No key is accepted twice within ttl, and none refused for room but by
\* Room others within theirs; for any keys, ttl and capacity.
THEOREM KeysAreNotReplayed == Replay!Spec => NoReplay
  <1> USE ReplayAssumption
  <1>1. Replay!Init => ReplayInv
    <2> SUFFICES ASSUME Replay!Init PROVE ReplayInv
      BY Zenon
    <2>1. ReplayTyped /\ Len(expiry) = 0 /\ 1..0 = {} /\ keys = {}
      BY DEF Replay!Init, Replay!Never, Replay!WellFormed, ReplayTyped
    <2>2. \A k \in Keys : accepted[k] = Replay!Never
      BY Zenon DEF Replay!Init
    <2> QED
      BY <2>1, <2>2, Zenon DEF ReplayInv, Ordered, Replay!Recent
  <1>2. ReplayInv /\ [Replay!Next]_(Replay!vars) => ReplayInv'
    BY ReplayNext, FactsHold, Zenon
  <1>3. ReplayInv /\ [Replay!Next]_(Replay!vars) => [ReplayStep]_(Replay!vars)
    BY ReplaySteps, FactsHold, Zenon
  <1> QED
    BY <1>1, <1>2, <1>3, PTL DEF Replay!Spec, NoReplay, Replay!NoReplay, ReplayStep

\* The invariant holds in every reachable state.
LEMMA InvHolds == Spec => []Inv
  <1>1. Inv /\ [Next]_vars => Inv'
    BY NextInv, FactsHold, Zenon
  <1>2. Init => Inv
    BY InitInv, FactsHold, Zenon
  <1> QED
    BY <1>1, <1>2, PTL DEF Spec

\* However the client uses its stream ids again, a stream without an abort is
\* its id's entry, so that a FIN, the purge and the end of the connection find
\* it; and the server stays within MAX_SESSION_STREAMS, MAX_PENDING_UOT and
\* MAX_PENDING_DIALS.
THEOREM NoStreamIsOrphaned == Spec => []NoOrphans
  <1>1. Inv => NoOrphans
    BY Zenon DEF Inv, NoOrphans, Reachable, Limits
  <1> QED
    BY <1>1, InvHolds, PTL

\* However the tasks of the streams interleave at the writer, the client sees
\* one SYNACK or refusal first, data, and the FIN last, and a working
\* connection passes the writer on only behind a whole frame.
THEOREM FramesStayInOrder == Spec => FramesInOrder
  <1>1. Inv /\ [Next]_vars =>
          [\A k \in Opens :
             /\ log'[k] # log[k] => InOrder(log'[k])
             /\ writer = k /\ writer' # k => log'[k] # log[k] \/ broken' \/ conn = "ended"]_vars
    BY NextInv, FactsHold, Zenon DEF FrameStep
  <1> QED
    BY <1>1, InvHolds, PTL DEF Spec, FramesInOrder
=============================================================================
