------------------------- MODULE AnyTlsClientProofs -------------------------
(***************************************************************************)
(* The AnyTLS client, for any number of streams, sessions and tasks: the   *)
(* streams of a session as its users see them, and the pool, where each    *)
(* session has one owner and is closed when it has none.                   *)
(***************************************************************************)
EXTENDS AnyTlsStream, PoolPart, FiniteSets, Sequences, TLAPS

\* The streams of an AnyTLS session (AnyTlsStream).

Events == [id : StreamIds, kind : Answers \cup {"error"}]
Has(kind) == \E n \in DOMAIN chan : chan[n].kind = kind
FinOnTheWay == sending.id = id /\ sending.kind = "fin"

\* Ids only grow, and the registry never holds any but the user's stream,
\* from its registration to finish() or a Drop.
Types ==
    /\ close \in {"open", "claimed", "aborted", "drained", "shut"}
    /\ nextId \in StreamIds /\ id \in 0..(nextId - 1)
    /\ streams \subseteq {id} \ {NoId}
    /\ chan \in Seq(Events) /\ Len(chan) <= Capacity
    /\ sending = NoEvent \/ (sending \in Events /\ sending.id < nextId)
    /\ id = NoId => chan = <<>>
    /\ pc \in {"ready", "register", "gone"} => id = NoId /\ ended = "local"
    /\ pc \in {"fin", "close", "closing", "release"} => id \notin streams

\* Once a FIN has come its stream has no sender left, in the registry or the
\* reader's hands.
Fins ==
    /\ OwnEvents
    /\ Has("fin") => id \notin streams /\ sending.id # id
    /\ FinOnTheWay => id \notin streams

\* A channel that lost its sender has a FIN or an error to show for it.
Clean ==
    /\ CleanEndMeansFin
    /\ Has("fin") \/ FinOnTheWay => cause # "no"
    /\ pc \in {"syn", "await", "relay"} /\ id \notin streams => cause # "no" \/ Has("error")

Inv == Types /\ Fins /\ StreamReachable /\ Clean

\* Positions in a channel and in its tail.
LEMMA Shift ==
  /\ \A m \in Nat : \A n \in 1..(m + 1) : n # 1 => \E k \in 1..m : k + 1 = n
  /\ \A m \in Nat : \A k \in 1..m : k + 1 \in 1..(m + 1)
  /\ \A m \in Nat : \A n \in 1..(m - 1) : n \in 1..m /\ n < m
  /\ \A m \in Nat : \A n \in 1..m : n < m => n \in 1..(m - 1)
  <1>1. ASSUME NEW m \in Nat, NEW n \in 1..(m + 1), n # 1 PROVE \E k \in 1..m : k + 1 = n
    <2>1. n - 1 \in 1..m /\ (n - 1) + 1 = n
      BY <1>1
    <2> QED
      BY <2>1, Zenon
  <1>2. /\ \A m \in Nat : \A k \in 1..m : k + 1 \in 1..(m + 1)
        /\ \A m \in Nat : \A n \in 1..(m - 1) : n \in 1..m /\ n < m
        /\ \A m \in Nat : \A n \in 1..m : n < m => n \in 1..(m - 1)
    OBVIOUS
  <1> QED
    BY <1>1, <1>2, Zenon

\* What a channel looks like behind its first event.
LEMMA Tails ==
  ASSUME NEW q \in Seq(Events), q # <<>>
  PROVE  /\ Tail(q) \in Seq(Events) /\ Len(Tail(q)) = Len(q) - 1
         /\ DOMAIN Tail(q) = 1..(Len(q) - 1) /\ DOMAIN q = 1..Len(q)
         /\ \A n \in 1..(Len(q) - 1) : Tail(q)[n] = q[n + 1]
         /\ Head(q) = q[1] /\ Len(q) \in Nat \ {0}
  <1>1. Len(q) \in Nat \ {0} /\ DOMAIN q = 1..Len(q)
    OBVIOUS
  <1>2. Tail(q) \in Seq(Events) /\ Len(Tail(q)) = Len(q) - 1
    OBVIOUS
  <1>3. DOMAIN Tail(q) = 1..(Len(q) - 1)
    BY <1>2
  <1>4. \A n \in 1..(Len(q) - 1) : Tail(q)[n] = q[n + 1]
    BY <1>1
  <1> QED
    BY <1>1, <1>2, <1>3, <1>4

\* What it looks like with one more.
LEMMA Appends ==
  ASSUME NEW q \in Seq(Events), NEW e \in Events
  PROVE  /\ Append(q, e) \in Seq(Events) /\ Len(Append(q, e)) = Len(q) + 1
         /\ DOMAIN Append(q, e) = 1..(Len(q) + 1) /\ DOMAIN q = 1..Len(q) /\ Len(q) \in Nat
         /\ \A n \in 1..Len(q) : Append(q, e)[n] = q[n]
         /\ Append(q, e)[Len(q) + 1] = e
  <1>1. Len(q) \in Nat /\ DOMAIN q = 1..Len(q)
    OBVIOUS
  <1>2. Append(q, e) \in Seq(Events) /\ Len(Append(q, e)) = Len(q) + 1
    OBVIOUS
  <1>3. DOMAIN Append(q, e) = 1..(Len(q) + 1)
    BY <1>2
  <1>4. \A n \in 1..Len(q) : Append(q, e)[n] = q[n]
    BY <1>1
  <1>5. Append(q, e)[Len(q) + 1] = e
    BY <1>1
  <1> QED
    BY <1>1, <1>2, <1>3, <1>4, <1>5, Zenon

\* Taking an event that is no FIN and no error leaves the channel in order.
LEMMA TakeEvent ==
  ASSUME Inv, NEW kinds, "fin" \notin kinds, "error" \notin kinds, Recv(kinds),
         UNCHANGED <<close, abort, nextId, streams, sending, id, cause, ended>>,
         pc \in {"await", "relay"}, pc' \in {"await", "relay"}
  PROVE  Inv'
  <1>1. /\ chan \in Seq(Events) /\ chan # <<>> /\ chan' = Tail(chan) /\ Len(chan) <= Capacity
        /\ chan[1].kind # "fin" /\ chan[1].kind # "error"
    BY Tails, Zenon DEF Inv, Types, Recv
  <1> PICK m \in Nat : m = Len(chan) - 1
    BY <1>1, Tails, Zenon
  <1>2. /\ chan' \in Seq(Events) /\ Len(chan') = m /\ Len(chan) = m + 1
        /\ DOMAIN chan' = 1..m /\ DOMAIN chan = 1..(m + 1)
        /\ \A n \in 1..m : chan'[n] = chan[n + 1]
    BY <1>1, Tails
  <1>3. Types'
    BY <1>1, <1>2, StreamAssumption DEF Inv, Types
  <1>4. (Has("fin") <=> Has("fin")') /\ (Has("error") <=> Has("error")')
    <2>1. ASSUME NEW n \in 1..(m + 1), n # 1 PROVE \E k \in 1..m : chan'[k] = chan[n]
      <3>1. PICK k \in 1..m : k + 1 = n
        BY <2>1, Shift
      <3> QED
        BY <1>2, <3>1, Zenon
    <2>2. ASSUME NEW k \in 1..m PROVE \E n \in 1..(m + 1) : chan'[k] = chan[n]
      BY <1>2, Shift, Zenon
    <2>3. 1 \in 1..(m + 1)
      OBVIOUS
    <2>4. ASSUME NEW kind \in {"fin", "error"} PROVE Has(kind) <=> Has(kind)'
      <3>1. ASSUME NEW n \in DOMAIN chan, chan[n].kind = kind PROVE Has(kind)'
        <4>1. n \in 1..(m + 1) /\ n # 1
          BY <1>1, <1>2, <2>4, <3>1, Zenon
        <4>2. PICK k \in 1..m : chan'[k] = chan[n]
          BY <2>1, <4>1, Zenon
        <4> QED
          BY <1>2, <3>1, <4>2, Zenon DEF Has
      <3>2. Has(kind)' => Has(kind)
        BY <1>2, <2>2, Zenon DEF Has
      <3> QED
        BY <3>1, <3>2, Zenon DEF Has
    <2> QED
      BY <2>4, Zenon
  <1>5. Fins'
    <2>1. \A k \in 1..m : k + 1 \in 1..(m + 1)
      BY Shift, Zenon
    <2>2. ASSUME NEW k \in 1..(m - 1) PROVE k \in 1..m /\ k + 1 \in 1..((m + 1) - 1)
      BY <2>2
    <2>3. ASSUME NEW k \in 1..m PROVE chan'[k].id = id
      BY <1>2, <2>1, Zenon DEF Inv, Fins, OwnEvents
    <2>4. ASSUME NEW k \in 1..(m - 1) PROVE chan'[k].kind # "fin"
      BY <1>2, <2>2, Zenon DEF Inv, Fins, OwnEvents
    <2>5. OwnEvents'
      BY <1>2, <2>3, <2>4, Zenon DEF OwnEvents
    <2> QED
      BY <1>4, <2>5, Zenon DEF Inv, Fins, FinOnTheWay
  <1>6. Clean'
    BY <1>4, Zenon DEF Inv, Clean, CleanEndMeansFin, FinOnTheWay
  <1>7. StreamReachable'
    <2>1. CASE Event(id, "fin") \in Range(chan)
      <3>1. PICK n \in 1..(m + 1) : chan[n] = Event(id, "fin")
        BY <2>1, <1>2, Zenon DEF Range
      <3>2. n - 1 \in 1..m /\ chan'[n - 1] = chan[n]
        BY <3>1, <1>1, <1>2 DEF Event
      <3> QED
        BY <3>1, <3>2, <1>2, Zenon DEF StreamReachable, Range
    <2>2. CASE Event(id, "fin") \notin Range(chan)
      BY <2>2, Zenon DEF Inv, StreamReachable
    <2> QED
      BY <2>1, <2>2, Zenon
  <1> QED
    BY <1>3, <1>5, <1>6, <1>7, Zenon DEF Inv

\* A step that leaves the stream and its events alone, and gives the stream up
\* or stays before its end.
LEMMA LeaveEvents ==
  ASSUME Inv, UNCHANGED <<nextId, streams, chan, sending, id, cause, ended>>,
         abort => abort', 
         close' \in {"open", "claimed", "aborted", "drained", "shut"},
         close \in {"drained", "shut"} => close' \in {"drained", "shut"},
         \/ pc' = pc
         \/ pc' \in {"await", "relay"} /\ pc \in {"syn", "await", "relay"}
         \/ pc' \in {"close", "closing", "release"} /\ id \notin streams
         \/ pc' = "register" /\ pc = "ready"
  PROVE  Inv'
  <1>1. Types'
    BY Zenon DEF Inv, Types
  <1>2. Fins'
    BY Zenon DEF Inv, Fins, OwnEvents, Has, FinOnTheWay
  <1>3. Clean'
    BY Zenon DEF Inv, Clean, CleanEndMeansFin, Has, FinOnTheWay
  <1>4. StreamReachable'
    BY Zenon DEF Inv, StreamReachable
  <1> QED
    BY <1>1, <1>2, <1>3, <1>4, Zenon DEF Inv

\* The stream is given up: its relay ends, finish() unregisters it or a Drop
\* does, with or without an event taken before.
LEMMA GiveUp ==
  ASSUME Inv, UNCHANGED <<close, nextId, sending, id, cause>>, streams' \subseteq streams,
         chan' = chan \/ (chan # <<>> /\ chan' = Tail(chan)),
         pc' \in {"finish", "fin", "release"}, pc' # "finish" => id \notin streams',
         ended' \in {"fin", "none"} => cause # "no"
  PROVE  Inv'
  <1>1. chan \in Seq(Events) /\ Len(chan) <= Capacity /\ Capacity \in Nat
    BY StreamAssumption, Zenon DEF Inv, Types
  <1>2. /\ chan' \in Seq(Events) /\ Len(chan') <= Capacity
        /\ Len(chan) \in Nat /\ Len(chan') \in Nat
        /\ DOMAIN chan = 1..Len(chan) /\ DOMAIN chan' = 1..Len(chan')
        /\ id = NoId => chan' = <<>>
    <2>1. CASE chan' = chan
      BY <1>1, <2>1 DEF Inv, Types
    <2>2. CASE chan # <<>> /\ chan' = Tail(chan)
      BY <1>1, <2>2, Tails DEF Inv, Types
    <2> QED
      BY <2>1, <2>2, Zenon
  <1>3. \A n \in DOMAIN chan' :
           \E l \in DOMAIN chan : chan'[n] = chan[l] /\ (n < Len(chan') => l < Len(chan))
    <2>1. CASE chan' = chan
      BY <2>1, Zenon
    <2>2. CASE chan # <<>> /\ chan' = Tail(chan)
      <3> SUFFICES ASSUME NEW n \in DOMAIN chan'
                   PROVE  \E l \in DOMAIN chan : chan'[n] = chan[l] /\ (n < Len(chan') => l < Len(chan))
        BY Zenon
      <3>1. Len(chan') = Len(chan) - 1 /\ n \in 1..(Len(chan) - 1) /\ chan'[n] = chan[n + 1]
        BY <1>1, <1>2, <2>2, Tails, Zenon
      <3>2. n + 1 \in DOMAIN chan /\ (n < Len(chan') => n + 1 < Len(chan))
        BY <1>2, <3>1
      <3> QED
        BY <3>1, <3>2, Zenon
    <2> QED
      BY <2>1, <2>2, Zenon
  <1>4. Types'
    BY <1>1, <1>2, Zenon DEF Inv, Types
  <1>5. Has("fin")' => Has("fin")
    BY <1>3, Zenon DEF Has
  <1>6. OwnEvents'
    <2>1. \A n \in DOMAIN chan' : chan'[n].id = id
      BY <1>1, <1>3, Zenon DEF Inv, Fins, OwnEvents
    <2>2. ASSUME NEW n \in 1..(Len(chan') - 1) PROVE chan'[n].kind # "fin"
      <3>1. n \in DOMAIN chan' /\ n < Len(chan')
        BY <1>2, Shift, Zenon
      <3>2. PICK l \in DOMAIN chan : chan'[n] = chan[l] /\ l < Len(chan)
        BY <1>3, <3>1, Zenon
      <3>3. l \in 1..(Len(chan) - 1)
        BY <3>2, <1>2, Shift, Zenon
      <3> QED
        BY <3>2, <3>3, Zenon DEF Inv, Fins, OwnEvents
    <2> QED
      BY <1>1, <2>1, <2>2, Zenon DEF OwnEvents
  <1>7. Fins'
    BY <1>1, <1>5, <1>6, Zenon DEF Inv, Fins, FinOnTheWay
  <1>8. Clean'
    BY <1>1, <1>5, Zenon DEF Inv, Clean, CleanEndMeansFin, FinOnTheWay
  <1>9. StreamReachable'
    BY <1>1, Zenon DEF StreamReachable
  <1> QED
    BY <1>4, <1>7, <1>8, <1>9, Zenon DEF Inv

\* The initial state satisfies the invariant.
LEMMA InitInv == Init => Inv
  <1> SUFFICES ASSUME Init PROVE Inv
    BY Zenon
  <1>1. chan = <<>> /\ Len(chan) = 0 /\ DOMAIN chan = {} /\ chan \in Seq(Events)
    BY DEF Init
  <1>2. Types
    BY <1>1, StreamAssumption DEF Init, Types, StreamIds, NoId
  <1>3. Fins
    BY <1>1 DEF Init, Fins, OwnEvents, Has, FinOnTheWay, NoEvent, Event
  <1>4. Clean
    BY <1>1, Zenon DEF Init, Clean, CleanEndMeansFin, Has, FinOnTheWay, NoEvent, Event
  <1>5. StreamReachable
    BY Zenon DEF Init, StreamReachable
  <1> QED
    BY <1>2, <1>3, <1>4, <1>5, Zenon DEF Inv


\* Every step preserves it.
LEMMA NextInv == Inv /\ [Next]_vars => Inv'
  <1> SUFFICES ASSUME Inv PROVE [Next]_vars => Inv'
    BY Zenon
  <1>t. /\ chan \in Seq(Events) /\ Len(chan) <= Capacity /\ Capacity \in Nat /\ Len(chan) \in Nat
        /\ DOMAIN chan = 1..Len(chan)
        /\ nextId \in 1..LastId /\ id \in 0..(nextId - 1) /\ LastId \in Nat
        /\ sending = NoEvent \/ (sending \in Events /\ sending.id < nextId)
        /\ NoEvent.id = 0 /\ NoEvent.kind = "none" /\ streams \subseteq {id} \ {0}
    BY StreamAssumption DEF Inv, Types, StreamIds, NoEvent, Event, NoId
  <1>1. CheckClosed => Inv'
    <2> SUFFICES ASSUME CheckClosed PROVE Inv'
      BY Zenon
    <2>1. id \notin streams
      BY Zenon DEF CheckClosed, Inv, Types
    <2> QED
      BY <2>1, LeaveEvents, Zenon DEF CheckClosed, Goto, session, Inv, Types
  <1>2. Register => Inv'
    <2> SUFFICES ASSUME Register PROVE Inv'
      BY Zenon
    <2>1. pc = "register" /\ id = 0 /\ ended = "local" /\ streams = {}
      BY Zenon DEF Register, Inv, Types, NoId
    <2>2. CASE nextId = LastId
      BY <2>1, <2>2, LeaveEvents, Zenon DEF Register, Goto, Inv, Types
    <2>3. CASE nextId # LastId
      <3>1. /\ nextId' = nextId + 1 /\ streams' = {nextId} /\ id' = nextId /\ chan' = <<>>
            /\ cause' = "no" /\ pc' = "syn" /\ sending' = sending /\ ended' = "local" /\ close' = close
        BY <2>1, <2>3, Zenon DEF Register, RegisterAs, Goto
      <3>2. chan' \in Seq(Events) /\ Len(chan') = 0 /\ DOMAIN chan' = {}
        BY <3>1
      <3>3. sending.id # id' /\ id' \in streams'
        BY <3>1, <1>t
      <3>4. Types'
        <4>1. nextId' \in StreamIds /\ id' \in 0..(nextId' - 1) /\ id' # NoId
          BY <1>t, <2>3, <3>1 DEF StreamIds, NoId
        <4>2. sending' = NoEvent \/ (sending' \in Events /\ sending'.id < nextId')
          BY <1>t, <3>1 DEF Events, StreamIds
        <4> QED
          BY <1>t, <3>1, <3>2, <4>1, <4>2 DEF Inv, Types
      <3>5. Fins'
        BY <3>1, <3>2, <3>3 DEF Fins, OwnEvents, Has, FinOnTheWay
      <3>6. Clean'
        BY <3>1, <3>2, <3>3, Zenon DEF Clean, CleanEndMeansFin, Has, FinOnTheWay
      <3>7. StreamReachable'
        BY <3>3, Zenon DEF StreamReachable
      <3> QED
        BY <3>4, <3>5, <3>6, <3>7, Zenon DEF Inv
    <2> QED
      BY <2>2, <2>3, Zenon
  <1>3. WriteSyn => Inv'
    <2> SUFFICES ASSUME WriteSyn PROVE Inv'
      BY Zenon
    <2>1. CASE Abandon
      BY <2>1, GiveUp, Zenon DEF WriteSyn, Abandon, Goto, Inv, Clean, CleanEndMeansFin
    <2>2. CASE ~Abandon
      BY <2>2, LeaveEvents DEF WriteSyn, Goto, session, Inv, Types
    <2> QED
      BY <2>1, <2>2, Zenon
  <1>4. StreamOpens \/ KeepPending \/ ReadPayload \/ SkipSynAck => Inv'
    <2>1. StreamOpens => Inv'
      BY TakeEvent, Zenon DEF StreamOpens, session, Goto
    <2>2. KeepPending => Inv'
      BY TakeEvent, Zenon DEF KeepPending, session
    <2>3. ReadPayload \/ SkipSynAck => Inv'
      BY TakeEvent, Zenon DEF ReadPayload, SkipSynAck, session
    <2> QED
      BY <2>1, <2>2, <2>3, Zenon
  <1>5. StreamRefused \/ FailAfterOpen => Inv'
    BY GiveUp, Zenon
    DEF StreamRefused, FailAfterOpen, Recv, RecvNone, Abandon, Goto, Inv, Clean, CleanEndMeansFin
  <1>6. StartFrame \/ EndFrame \/ Deliver \/ WriteFin => Inv'
    <2>1. StartFrame \/ EndFrame \/ Deliver => Inv'
      BY LeaveEvents DEF StartFrame, EndFrame, Deliver, session, Inv, Types
    <2>2. WriteFin => Inv'
      BY LeaveEvents DEF WriteFin, session, Goto, Inv, Types
    <2> QED
      BY <2>1, <2>2, Zenon
  <1>7. DownlinkEnds => Inv'
    <2>1. ASSUME Recv({"fin"}), EndRelay("fin") PROVE Inv'
      <3>1. chan # <<>> /\ chan' = Tail(chan) /\ chan[1].kind = "fin" /\ 1 \in DOMAIN chan
        BY <1>t, <2>1, Tails DEF Recv
      <3>2. cause # "no"
        BY <3>1, Zenon DEF Inv, Clean, Has
      <3> QED
        BY <2>1, <3>1, <3>2, GiveUp, Zenon DEF EndRelay, Goto, session
    <2>2. ASSUME RecvNone, EndRelay("none") PROVE Inv'
      <3>1. pc = "relay" /\ id \notin streams /\ DOMAIN chan = {} /\ chan' = chan
        BY <1>t, <2>2 DEF RecvNone, EndRelay
      <3>2. cause # "no"
        BY <3>1, Zenon DEF Inv, Clean, Has
      <3> QED
        BY <2>2, <3>1, <3>2, GiveUp, Zenon DEF EndRelay, Goto, session
    <2>3. ASSUME Recv({"error", "refused"}), EndRelay("error") PROVE Inv'
      BY <2>3, GiveUp, Zenon DEF Recv, EndRelay, Goto, session
    <2> QED
      BY <2>1, <2>2, <2>3, Zenon DEF DownlinkEnds
  <1>8. LocalEnds => Inv'
    BY GiveUp, Zenon DEF LocalEnds, EndRelay, Goto, session
  <1>9. Unregister => Inv'
    BY GiveUp, Zenon DEF Unregister, Goto, Inv, Clean, CleanEndMeansFin
  <1>10. Release => Inv'
    <2> SUFFICES ASSUME Release PROVE Inv'
      BY Zenon
    <2>1. /\ id' = 0 /\ chan' = <<>> /\ cause' = "no" /\ ended' = "local" /\ sending' = sending
          /\ pc' \in {"gone", "ready"} /\ streams' = streams /\ nextId' = nextId /\ close' = close
      BY Zenon DEF Release, Goto, session, NoId
    <2>2. streams = {}
      BY <1>t, Zenon DEF Release, Inv, Types
    <2>3. chan' \in Seq(Events) /\ Len(chan') = 0 /\ DOMAIN chan' = {}
      BY <2>1
    <2>4. sending.id = 0 => sending.kind = "none"
      BY <1>t DEF Events, StreamIds
    <2>5. Types'
      BY <1>t, <2>1, <2>2, <2>3 DEF Inv, Types, NoId
    <2>6. Fins'
      BY <2>1, <2>2, <2>3 DEF Fins, OwnEvents, Has, FinOnTheWay
    <2>7. Clean'
      BY <2>1, <2>3, <2>4, Zenon DEF Clean, CleanEndMeansFin, Has, FinOnTheWay
    <2>8. StreamReachable'
      BY <2>1, Zenon DEF StreamReachable
    <2> QED
      BY <2>5, <2>6, <2>7, <2>8, Zenon DEF Inv
  <1>11. Claim \/ UserClaim \/ TriggerAbort \/ ShutWriter => Inv'
    <2>1. Claim => Inv'
      BY LeaveEvents, Zenon DEF Claim, CallClose, user, Inv, Types
    <2>2. UserClaim => Inv'
      BY LeaveEvents, Zenon DEF UserClaim, CallClose, Inv, Types
    <2>3. TriggerAbort \/ ShutWriter => Inv'
      BY LeaveEvents DEF TriggerAbort, ShutWriter, user, Inv, Types
    <2> QED
      BY <2>1, <2>2, <2>3, Zenon
  <1>12. FailOpenStreams => Inv'
    <2> SUFFICES ASSUME FailOpenStreams PROVE Inv'
      BY Zenon
    <2>1. /\ streams' = {} /\ close' = "drained" /\ nextId' = nextId /\ sending' = sending
          /\ pc' = pc /\ id' = id /\ ended' = ended
      BY Zenon DEF FailOpenStreams
    <2>2. StreamReachable'
      BY <2>1, Zenon DEF StreamReachable
    <2>3. CASE /\ id \in streams /\ Len(chan) < Capacity
               /\ chan' = Append(chan, Event(id, "error")) /\ cause' = cause
      <3> DEFINE e == Event(id, "error")
      <3>1. id \in StreamIds /\ e \in Events /\ e.id = id /\ e.kind = "error"
        <4>1. id \in StreamIds
          BY <1>t, <2>3 DEF StreamIds
        <4> QED
          BY <4>1, Zenon DEF Events, Event
      <3>2. chan' = Append(chan, e) /\ cause' = cause
        BY <2>3, Zenon
      <3> HIDE DEF e
      <3>3. /\ chan' \in Seq(Events) /\ Len(chan') = Len(chan) + 1 /\ DOMAIN chan' = 1..(Len(chan) + 1)
            /\ \A n \in 1..Len(chan) : chan'[n] = chan[n]
            /\ chan'[Len(chan) + 1] = e
        BY <1>t, <3>1, <3>2, Appends
      <3>4. ~Has("fin") /\ ~FinOnTheWay
        BY <2>3, Zenon DEF Inv, Fins
      <3>5. ~Has("fin")' /\ Has("error")' /\ \A n \in DOMAIN chan' : chan'[n].id = id
        <4>1. ASSUME NEW n \in DOMAIN chan' PROVE chan'[n].kind # "fin" /\ chan'[n].id = id
          <5>1. CASE n = Len(chan) + 1
            BY <3>1, <3>3, <5>1, Zenon
          <5>2. CASE n \in 1..Len(chan)
            BY <1>t, <3>3, <3>4, <5>2, Zenon DEF Has, Inv, Fins, OwnEvents
          <5> QED
            BY <1>t, <3>3, <5>1, <5>2
        <4>2. Len(chan) + 1 \in DOMAIN chan'
          BY <1>t, <3>3
        <4> QED
          BY <3>1, <3>3, <4>1, <4>2, Zenon DEF Has
      <3>6. Types'
        BY <1>t, <2>1, <2>3, <3>1, <3>3 DEF Inv, Types, StreamIds, NoId
      <3>7. OwnEvents'
        <4>1. \A n \in 1..(Len(chan') - 1) : n \in DOMAIN chan'
          BY <1>t, <3>3
        <4> QED
          BY <2>1, <3>5, <4>1, Zenon DEF OwnEvents, Has
      <3>8. Fins'
        BY <2>1, <3>5, <3>7, Zenon DEF Fins
      <3>9. Clean'
        BY <2>1, <3>2, <3>4, <3>5, Zenon DEF Inv, Clean, CleanEndMeansFin, FinOnTheWay
      <3> QED
        BY <2>2, <3>6, <3>8, <3>9, Zenon DEF Inv
    <2>4. CASE /\ chan' = chan /\ (cause' = cause \/ cause' = "full")
               /\ cause' = "full" \/ id \notin streams
      <3>2. Types'
        BY <2>1, <2>4, Zenon DEF Inv, Types
      <3>3. Fins'
        BY <2>1, <2>4, Zenon DEF Inv, Fins, OwnEvents, Has, FinOnTheWay
      <3>4. Clean'
        BY <2>1, <2>4, Zenon DEF Inv, Clean, CleanEndMeansFin, Has, FinOnTheWay
      <3> QED
        BY <2>2, <3>2, <3>3, <3>4, Zenon DEF Inv
    <2> QED
      BY <2>3, <2>4, Zenon DEF FailOpenStreams, TryError
  <1>13. ASSUME NEW i \in StreamIds, NEW k \in Answers, FrameArrives(i, k) PROVE Inv'
    <2>1. /\ i = id /\ i \in streams /\ i # 0 /\ close' = close /\ nextId' = nextId /\ abort' = abort
          /\ pc' = pc /\ id' = id /\ chan' = chan /\ ended' = ended /\ sending' = Event(id, k)
      BY <1>t, <1>13, Zenon DEF FrameArrives
    <2>2. sending' \in Events /\ sending'.id = id /\ sending'.kind = k /\ sending'.id < nextId
      BY <1>t, <2>1 DEF Events, Event, Answers
    <2>3. streams' \subseteq streams /\ (k # "fin" => streams' = streams) /\ (k = "fin" => id \notin streams')
      BY <1>13, <2>1, Zenon DEF FrameArrives
    <2>4. ~Has("fin") /\ ~Has("fin")'
      BY <2>1, Zenon DEF Inv, Fins, Has
    <2>5. (k = "fin" => cause' = "fin") /\ (k # "fin" => cause' = cause)
      BY <1>13, <2>1, Zenon DEF FrameArrives
    <2>6. Types'
      BY <2>1, <2>2, <2>3, Zenon DEF Inv, Types
    <2>7. Fins'
      BY <2>1, <2>2, <2>3, <2>4, Zenon DEF Inv, Fins, OwnEvents, FinOnTheWay
    <2>8. Clean'
      BY <2>1, <2>2, <2>3, <2>4, <2>5, Zenon DEF Inv, Clean, CleanEndMeansFin, FinOnTheWay, Has
    <2>9. StreamReachable'
      BY <2>1, <2>3, Zenon DEF StreamReachable
    <2> QED
      BY <2>6, <2>7, <2>8, <2>9, Zenon DEF Inv
  <1>14. SendEvent => Inv'
    <2> SUFFICES ASSUME SendEvent PROVE Inv'
      BY Zenon
    <2>1. /\ sending \in Events /\ sending.id # 0 /\ sending' = NoEvent
          /\ close' = close /\ nextId' = nextId /\ abort' = abort /\ streams' = streams
          /\ pc' = pc /\ id' = id /\ cause' = cause /\ ended' = ended
      BY <1>t DEF SendEvent, Events, StreamIds
    <2>2. CASE sending.id # id
      <3>1. chan' = chan
        BY <2>2, Zenon DEF SendEvent
      <3>2. Types'
        BY <2>1, <3>1, Zenon DEF Inv, Types
      <3>3. id # 0 \/ ~Has("fin")
        BY <1>t DEF Inv, Types, NoId, Has
      <3>4. Fins'
        BY <1>t, <2>1, <3>1, <3>3, Zenon DEF Inv, Fins, OwnEvents, Has, FinOnTheWay
      <3>5. Clean'
        BY <1>t, <2>1, <3>1, Zenon DEF Inv, Clean, CleanEndMeansFin, Has, FinOnTheWay
      <3>6. StreamReachable'
        BY <2>1, <2>2, <3>1 DEF Inv, StreamReachable, Event
      <3> QED
        BY <3>2, <3>4, <3>5, <3>6, Zenon DEF Inv
    <2>3. CASE sending.id = id
      <3>1. chan' = Append(chan, sending) /\ Len(chan) < Capacity
        BY <2>3, Zenon DEF SendEvent
      <3>2. /\ chan' \in Seq(Events) /\ Len(chan') = Len(chan) + 1 /\ DOMAIN chan' = 1..(Len(chan) + 1)
            /\ \A n \in 1..Len(chan) : chan'[n] = chan[n]
            /\ chan'[Len(chan) + 1] = sending
        BY <1>t, <2>1, <3>1, Appends
      <3>3. \A n \in 1..Len(chan) : chan[n].kind # "fin"
        BY <1>t, <2>3, Zenon DEF Inv, Fins, Has
      <3>4. Types'
        BY <1>t, <2>1, <2>3, <3>1, <3>2 DEF Inv, Types, NoId
      <3>5. OwnEvents'
        <4>1. ASSUME NEW n \in DOMAIN chan' PROVE chan'[n].id = id
          BY <1>t, <2>3, <3>2 DEF Inv, Fins, OwnEvents
        <4> QED
          BY <1>t, <2>1, <3>2, <3>3, <4>1 DEF OwnEvents
      <3>6. Has("fin")' => FinOnTheWay
        BY <1>t, <2>3, <3>2, <3>3 DEF Has, FinOnTheWay
      <3>7. Has("error") => Has("error")'
        <4> SUFFICES ASSUME NEW n \in DOMAIN chan, chan[n].kind = "error" PROVE Has("error")'
          BY Zenon DEF Has
        <4>1. n \in DOMAIN chan' /\ chan'[n] = chan[n]
          BY <1>t, <3>2
        <4> QED
          BY <4>1, Zenon DEF Has
      <3>8. Fins'
        BY <1>t, <2>1, <2>3, <3>5, <3>6, Zenon DEF Inv, Fins, FinOnTheWay
      <3>9. Clean'
        BY <1>t, <2>1, <3>6, <3>7, Zenon DEF Inv, Clean, CleanEndMeansFin, FinOnTheWay
      <3>10. StreamReachable'
        <4>1. Range(chan') = Range(chan) \cup {sending}
          BY <1>t, <3>2 DEF Range
        <4> QED
          BY <2>1, <4>1, Zenon DEF Inv, StreamReachable
      <3> QED
        BY <3>4, <3>8, <3>9, <3>10, Zenon DEF Inv
    <2> QED
      BY <2>2, <2>3, Zenon
  <1>15. ServerSettings \/ HeartbeatFails \/ TransportBreaks => Inv'
    BY LeaveEvents DEF ServerSettings, HeartbeatFails, TransportBreaks, user, Inv, Types
  <1>16. ReaderEnds => Inv'
    <2> SUFFICES ASSUME ReaderEnds PROVE Inv'
      BY Zenon
    <2>1. /\ sending' = NoEvent /\ (abort \/ sending = NoEvent) /\ chan' = chan
          /\ close' = close /\ nextId' = nextId /\ abort' = abort /\ streams' = streams
          /\ pc' = pc /\ id' = id /\ cause' = cause /\ ended' = ended
      BY Zenon DEF ReaderEnds, user
    <2>2. Types'
      BY <2>1, Zenon DEF Inv, Types
    <2>3. id # 0 \/ ~Has("fin")
      BY <1>t DEF Inv, Types, NoId, Has
    <2>4. Fins'
      BY <1>t, <2>1, <2>3, Zenon DEF Inv, Fins, OwnEvents, Has, FinOnTheWay
    <2>5. Clean'
      BY <1>t, <2>1, Zenon DEF Inv, Clean, CleanEndMeansFin, Has, FinOnTheWay
    <2>6. StreamReachable'
      BY <2>1, Zenon DEF Inv, StreamReachable
    <2> QED
      BY <2>2, <2>4, <2>5, <2>6, Zenon DEF Inv
  <1>17. UNCHANGED vars => Inv'
    BY LeaveEvents DEF vars, session, user, Inv, Types
  <1>18. UserStep => Inv'
    BY <1>1, <1>2, <1>3, <1>4, <1>5, <1>6, <1>7, <1>8, <1>9, <1>10, Zenon DEF UserStep
  <1>19. CloseStep => Inv'
    BY <1>11, <1>12, Zenon DEF CloseStep
  <1>20. SessionStep => Inv'
    BY <1>13, <1>14, <1>15, <1>16, Zenon DEF SessionStep
  <1> QED
    BY <1>17, <1>18, <1>19, <1>20, Zenon DEF Next

\* The invariant holds in every reachable state.
LEMMA InvHolds == Spec => []Inv
  BY InitInv, NextInv, PTL DEF Spec

\* Whatever the reader still has in hand when the session goes to its next
\* stream, no event reaches a stream it did not come for, and none follows
\* the FIN (handle_session_frame takes the sender out of the registry).
THEOREM EventsAreOwn == Spec => []OwnEvents
  <1>1. Inv => OwnEvents
    BY Zenon DEF Inv, Fins
  <1> QED
    BY <1>1, InvHolds, PTL

\* Until close() drains the registry, an open stream has its sender there or
\* its FIN on the way, or the session's abort is triggered.
THEOREM StreamsStayReachable == Spec => []StreamReachable
  <1>1. Inv => StreamReachable
    BY Zenon DEF Inv
  <1> QED
    BY <1>1, InvHolds, PTL

\* A relay that ends cleanly got the server's FIN, or its channel was full
\* when fail_open_streams had an error for it.
THEOREM CleanEndsAreReal == Spec => []CleanEndMeansFin
  <1>1. Inv => CleanEndMeansFin
    BY Zenon DEF Inv, Clean
  <1> QED
    BY <1>1, InvHolds, PTL

----------------------------------------------------------------------------
\* The pool of AnyTLS client sessions (AnyTlsPool).

\* Where a request can be.
TaskSteps == {"idle", "acquire", "connect", "use", "release"}

\* A session in the pool; one that an actor holds, is to reap or is closing;
\* one whose close has begun or will be run by a task of its own.
Pooled(s) == \E p \in DOMAIN idle : idle[p].s = s
Owns(a, s) == (a \in Tasks /\ held[a] = s) \/ s \in reap[a] \/ closing[a] = s
Closing(s) == closes[s] # "open" \/ s \in spawned

\* The types, and a session in the hands of a request exactly while it uses one.
PoolTyped ==
    /\ made \in 0..MaxSessions
    /\ \E last \in Nat : DOMAIN idle \subseteq 1..last
    /\ closes \in [Pool!Sessions -> {"open", "claimed", "aborted", "shut"}]
    /\ aborts \in [Pool!Sessions -> BOOLEAN] /\ spawned \subseteq Pool!Sessions
    /\ taskAt \in [Tasks -> TaskSteps] /\ held \in [Tasks -> 0..MaxSessions]
    /\ reap \in [Pool!Actors -> SUBSET Pool!Sessions]
    /\ closing \in [Pool!Actors -> 0..MaxSessions]
    /\ \A t \in Tasks : held[t] = 0 <=> taskAt[t] \notin Pool!Holding

\* Only sessions that were made are anywhere.
Made ==
    /\ \A p \in DOMAIN idle : idle[p].s \in 1..made
    /\ \A a \in Pool!Actors : \A s \in Pool!Sessions : Owns(a, s) => s <= made

\* A session is at one place of the pool or with one actor.
OneOwner ==
    /\ \A p, q \in DOMAIN idle : idle[p].s = idle[q].s => p = q
    /\ \A a \in Pool!Actors : \A s \in Pool!Sessions : Owns(a, s) => ~Pooled(s)
    /\ \A s \in Pool!Sessions : \A a, b \in Pool!Actors : Owns(a, s) /\ Owns(b, s) => a = b

\* A session that was made is in the pool, with an actor, or closing.
Accounted ==
    /\ \A s \in Pool!Sessions : aborts[s] => Closing(s)
    /\ \A s \in 1..made : Pooled(s) \/ (\E a \in Pool!Actors : Owns(a, s)) \/ Closing(s)

\* The pool holds no more sessions than it has room for.
PoolFits == Pool!Cardinality(DOMAIN idle) <= PoolSize

\* The inductive invariant of the pool.
PoolInv == PoolTyped /\ Made /\ OneOwner /\ Accounted /\ PoolFits

\* Cardinality has one meaning in all modules.
LEMMA PoolCardinality ==
  ASSUME NEW S PROVE Pool!Cardinality(S) = Cardinality(S)
  BY Zenon DEF Cardinality, Pool!Cardinality

\* What the proofs use of the library's theorems on naturals and finite sets.
\* It is proved at the end (FactsHold); every obligation carries the theorems
\* in front of it, and these are many.
Facts ==
    /\ \A B \in SUBSET Nat : B # {} => \E n \in B : \A m \in B : n <= m
    /\ \A n \in Nat : IsFiniteSet(1..n)
    /\ \A T : IsFiniteSet(T) => \A S \in SUBSET T :
          IsFiniteSet(S) /\ Cardinality(S) \in Nat /\ Cardinality(T) \in Nat /\ Cardinality(S) <= Cardinality(T)
    /\ \A S : IsFiniteSet(S) => \A x : x \notin S => Cardinality(S \cup {x}) = Cardinality(S) + 1
    /\ Cardinality({}) = 0 /\ \A x : Cardinality({x}) = 1

\* The last of the places K, or 0.
Last(K) == CHOOSE p \in K \cup {0} : \A q \in K : q <= p

\* A bounded set of places has a last one.
LEMMA LastPlace ==
  ASSUME Facts, NEW bound \in Nat, NEW K \in SUBSET (1..bound)
  PROVE  Last(K) \in Nat /\ \A q \in K : q <= Last(K)
  <1>5. ASSUME NEW q \in K PROVE q \in Nat
    OBVIOUS
  <1> DEFINE B == {n \in Nat : \A q \in K : q <= n}
  <1>1. bound \in B
    OBVIOUS
  <1>2. PICK n \in B : \A m \in B : n <= m
    BY <1>1, Zenon DEF Facts
  <1>3. n \in K \cup {0}
    <2>1. SUFFICES ASSUME n \notin K, n # 0 PROVE FALSE
      BY Zenon
    <2>2. n \in Nat /\ n - 1 \in Nat /\ ~(n <= n - 1)
      BY <2>1
    <2>3. ASSUME NEW q \in K PROVE q <= n - 1
      BY <1>2, <2>1, <2>2, <2>3
    <2> QED
      BY <1>2, <2>2, <2>3, Zenon
  <1>4. Last(K) \in K \cup {0} /\ \A q \in K : q <= Last(K)
    BY <1>2, <1>3, Zenon DEF Last
  <1> QED
    BY <1>4, <1>5, 0 \in Nat, Zenon

\* The sessions of the pool and of the other actors stay where they are;
\* actor a only gets sessions that it had, that were in the pool, or new ones.
Moves(a) ==
    /\ made' \in 0..MaxSessions /\ made <= made'
    /\ \A b \in Pool!Actors : b # a => \A s \in Pool!Sessions : Owns(b, s)' <=> Owns(b, s)
    /\ \A s \in Pool!Sessions :
          Owns(a, s)' => s <= made' /\ (Owns(a, s) \/ Pooled(s) \/ made < s) /\ ~Pooled(s)'
    /\ \A p \in DOMAIN idle' :
          /\ idle'[p].s \in 1..made'
          /\ Pooled(idle'[p].s) \/ Owns(a, idle'[p].s)
    /\ \A p, q \in DOMAIN idle' : idle'[p].s = idle'[q].s => p = q

\* A step that moves sessions so leaves each with one owner.
LEMMA OwnersStay ==
  ASSUME Pool!WellFormed, PoolInv, NEW a \in Pool!Actors, Moves(a)
  PROVE  Made' /\ OneOwner'
  <1>0. MaxSessions \in Nat /\ made \in 0..MaxSessions
    BY Zenon DEF Pool!WellFormed, PoolInv, PoolTyped
  <1>1. ASSUME NEW b \in Pool!Actors, NEW s \in Pool!Sessions, Owns(b, s)'
        PROVE  s <= made' /\ ~Pooled(s)'
    <2>1. CASE b = a
      BY <1>1, <2>1, Zenon DEF Moves
    <2>2. CASE b # a
      <3>1. Owns(b, s)
        BY <1>1, <2>2, Zenon DEF Moves
      <3>2. s <= made /\ ~Pooled(s) /\ ~Owns(a, s)
        BY <2>2, <3>1, Zenon DEF PoolInv, Made, OneOwner
      <3>3. s <= made'
        BY <1>0, <3>2 DEF Moves, Pool!Sessions
      <3>4. ASSUME NEW p \in DOMAIN idle', idle'[p].s = s PROVE FALSE
        BY <3>2, <3>4, Zenon DEF Moves
      <3> QED
        BY <3>3, <3>4, Zenon DEF Pooled
    <2> QED
      BY <2>1, <2>2, Zenon
  <1>2. ASSUME NEW s \in Pool!Sessions, NEW b \in Pool!Actors, b # a, Owns(b, s)', Owns(a, s)'
        PROVE  FALSE
    <2>1. Owns(b, s)
      BY <1>2, Zenon DEF Moves
    <2>2. s <= made /\ ~Pooled(s) /\ ~Owns(a, s)
      BY <1>2, <2>1, Zenon DEF PoolInv, Made, OneOwner
    <2>3. Owns(a, s) \/ Pooled(s) \/ made < s
      BY <1>2, Zenon DEF Moves
    <2> QED
      BY <1>0, <2>2, <2>3 DEF Pool!Sessions
  <1>3. ASSUME NEW s \in Pool!Sessions, NEW b \in Pool!Actors, NEW c \in Pool!Actors,
               Owns(b, s)', Owns(c, s)'
        PROVE  b = c
    <2>1. CASE b # a /\ c # a
      BY <1>3, <2>1, Zenon DEF Moves, PoolInv, OneOwner
    <2> QED
      BY <1>2, <1>3, <2>1, Zenon
  <1>4. Made'
    <2>1. \A p \in DOMAIN idle' : idle'[p].s \in 1..made'
      BY Zenon DEF Moves
    <2>2. \A b \in Pool!Actors : \A s \in Pool!Sessions : Owns(b, s)' => s <= made'
      BY <1>1, Zenon
    <2> QED
      BY <2>1, <2>2, Zenon DEF Made, Pool!Actors, Pool!Sessions
  <1>5. OneOwner'
    <2>1. \A p, q \in DOMAIN idle' : idle'[p].s = idle'[q].s => p = q
      BY Zenon DEF Moves
    <2>2. \A b \in Pool!Actors : \A s \in Pool!Sessions : Owns(b, s)' => ~Pooled(s)'
      BY <1>1, Zenon
    <2>3. \A s \in Pool!Sessions : \A b, c \in Pool!Actors : Owns(b, s)' /\ Owns(c, s)' => b = c
      BY <1>3, Zenon
    <2> QED
      BY <2>1, <2>2, <2>3, Zenon DEF OneOwner, Pool!Actors, Pool!Sessions
  <1> QED
    BY <1>4, <1>5, Zenon

\* What actor a gives up, or takes from the pool and does not keep, has its
\* close() running or spawned; and so has a session whose abort is triggered.
Answered(a) ==
    /\ \A s \in Pool!Sessions : Closing(s) => Closing(s)'
    /\ \A s \in Pool!Sessions : aborts'[s] => Closing(s)'
    /\ \A s \in 1..made' :
          Owns(a, s) \/ Pooled(s) \/ made < s => Owns(a, s)' \/ Pooled(s)' \/ Closing(s)'

\* A step that moves and answers for sessions so leaves none unaccounted for.
LEMMA AllAccounted ==
  ASSUME Pool!WellFormed, PoolInv, NEW a \in Pool!Actors, Moves(a), Answered(a)
  PROVE  Accounted'
  <1>1. ASSUME NEW s \in 1..made'
        PROVE  Pooled(s)' \/ (\E b \in Pool!Actors : Owns(b, s)') \/ Closing(s)'
    <2>1. s \in Pool!Sessions /\ (s \in 1..made \/ made < s)
      BY DEF Moves, Pool!Sessions, Pool!WellFormed, PoolInv, PoolTyped
    <2>2. CASE Owns(a, s) \/ Pooled(s) \/ made < s
      BY <2>2, Zenon DEF Answered
    <2>3. CASE ~(Owns(a, s) \/ Pooled(s) \/ made < s)
      <3>1. (\E b \in Pool!Actors : Owns(b, s)) \/ Closing(s)
        BY <2>1, <2>3, Zenon DEF PoolInv, Accounted
      <3> QED
        BY <2>1, <2>3, <3>1, Zenon DEF Moves, Answered
    <2> QED
      BY <2>2, <2>3, Zenon
  <1>2. \A s \in 1..made' : Pooled(s)' \/ (\E b \in Pool!Actors : Owns(b, s)') \/ Closing(s)'
    BY <1>1, Zenon
  <1>3. \A s \in Pool!Sessions : aborts'[s] => Closing(s)'
    BY Zenon DEF Answered
  <1> QED
    BY <1>2, <1>3, Zenon DEF Accounted, Pool!Actors, Pool!Sessions

\* A step that leaves the pool as it is and in which one actor at most gives
\* sessions up.
LEMMA PoolStays ==
  ASSUME Pool!WellFormed, PoolInv, PoolTyped', UNCHANGED <<idle, made>>,
         NEW a \in Pool!Actors,
         \A b \in Pool!Actors : b # a => \A s \in Pool!Sessions : Owns(b, s)' <=> Owns(b, s),
         \A s \in Pool!Sessions : Owns(a, s)' => Owns(a, s),
         \A s \in Pool!Sessions : Owns(a, s) => Owns(a, s)' \/ Closing(s)',
         \A s \in Pool!Sessions : Closing(s) => Closing(s)',
         \A s \in Pool!Sessions : aborts'[s] => Closing(s)'
  PROVE  PoolInv'
  <1>1. \A s : Pooled(s)' <=> Pooled(s)
    BY Zenon DEF Pooled
  <1>2. made' \in 0..MaxSessions /\ made <= made' /\ \A s \in 1..made' : s \in Pool!Sessions /\ ~(made < s)
    BY DEF PoolInv, PoolTyped, Pool!WellFormed, Pool!Sessions
  <1>3. \A p \in DOMAIN idle' : idle'[p].s \in 1..made' /\ Pooled(idle'[p].s)
    BY Zenon DEF PoolInv, Made, Pooled
  <1>4. \A p, q \in DOMAIN idle' : idle'[p].s = idle'[q].s => p = q
    BY Zenon DEF PoolInv, OneOwner
  <1>5. \A s \in Pool!Sessions : Owns(a, s) => s <= made' /\ ~Pooled(s)'
    BY <1>1, Zenon DEF PoolInv, Made, OneOwner
  <1>6. Moves(a)
    BY <1>2, <1>3, <1>4, <1>5, Zenon DEF Moves
  <1>7. Answered(a)
    BY <1>1, <1>2, Zenon DEF Answered
  <1>8. PoolFits'
    BY Zenon DEF PoolInv, PoolFits
  <1> QED
    BY <1>6, <1>7, <1>8, OwnersStay, AllAccounted, Zenon DEF PoolInv

\* close() only ever goes on.
LEMMA CallCloseCloses ==
  ASSUME Pool!WellFormed, PoolInv, NEW s \in Pool!Sessions, Pool!CallClose(s)
  PROVE  /\ closes' \in [Pool!Sessions -> {"open", "claimed", "aborted", "shut"}]
         /\ aborts' \in [Pool!Sessions -> BOOLEAN]
         /\ closes'[s] # "open"
         /\ \A r \in Pool!Sessions : closes[r] # "open" => closes'[r] # "open"
         /\ \A r \in Pool!Sessions : aborts'[r] => aborts[r] \/ r = s
  <1>1. /\ closes \in [Pool!Sessions -> {"open", "claimed", "aborted", "shut"}]
        /\ aborts \in [Pool!Sessions -> BOOLEAN]
    BY Zenon DEF PoolInv, PoolTyped
  <1>2. CASE closes[s] = "open"
    <2>1. closes' = [closes EXCEPT ![s] = "claimed"] /\ aborts' = aborts
      BY <1>2, Zenon DEF Pool!CallClose
    <2> QED
      BY <1>1, <2>1, Zenon
  <1>3. CASE closes[s] # "open"
    <2>1. aborts' = [aborts EXCEPT ![s] = TRUE] /\ closes' = closes
      BY <1>3, Zenon DEF Pool!CallClose
    <2> QED
      BY <1>1, <1>3, <2>1, Zenon
  <1> QED
    BY <1>2, <1>3, Zenon

\* The steps of close() and of the tasks that run it, and of a session that
\* dies.
LEMMA PoolSessionStep ==
  ASSUME Pool!WellFormed, PoolInv, NEW s \in Pool!Sessions,
         Pool!CloseStep(s) \/ Pool!RunSpawned(s) \/ Pool!SessionDies(s)
  PROVE  PoolInv'
  <1>1. UNCHANGED <<idle, made, taskAt, held, reap, closing>>
    <2>1. CASE Pool!CloseStep(s)
      BY <2>1, Zenon DEF Pool!CloseStep, Pool!pool, Pool!task
    <2>2. CASE Pool!RunSpawned(s)
      BY <2>2, Zenon DEF Pool!RunSpawned, Pool!pool, Pool!task
    <2>3. CASE Pool!SessionDies(s)
      BY <2>3, Zenon DEF Pool!SessionDies, Pool!pool, Pool!task
    <2> QED
      BY <2>1, <2>2, <2>3, Zenon
  <1>2. /\ closes \in [Pool!Sessions -> {"open", "claimed", "aborted", "shut"}]
        /\ aborts \in [Pool!Sessions -> BOOLEAN] /\ spawned \subseteq Pool!Sessions
        /\ \A r \in Pool!Sessions : aborts[r] => Closing(r)
    BY Zenon DEF PoolInv, PoolTyped, Accounted
  <1>3. /\ closes' \in [Pool!Sessions -> {"open", "claimed", "aborted", "shut"}]
        /\ aborts' \in [Pool!Sessions -> BOOLEAN] /\ spawned' \subseteq Pool!Sessions
        /\ \A r \in Pool!Sessions : Closing(r) => Closing(r)'
        /\ \A r \in Pool!Sessions : aborts'[r] => Closing(r)'
    <2>1. CASE Pool!CloseStep(s)
      <3>1. /\ closes[s] # "open" /\ spawned' = spawned
            /\ \/ closes' = [closes EXCEPT ![s] = "aborted"] /\ aborts' = [aborts EXCEPT ![s] = TRUE]
               \/ closes' = [closes EXCEPT ![s] = "shut"] /\ aborts' = aborts
        BY <2>1, Zenon DEF Pool!CloseStep
      <3> QED
        BY <1>2, <3>1, Zenon DEF Closing
    <2>2. CASE Pool!RunSpawned(s)
      <3>1. spawned' = spawned \ {s} /\ Pool!CallClose(s)
        BY <2>2, Zenon DEF Pool!RunSpawned
      <3> QED
        BY <1>2, <3>1, CallCloseCloses, Zenon DEF Closing
    <2>3. CASE Pool!SessionDies(s)
      <3>1. spawned' = spawned \cup {s} /\ closes' = closes /\ aborts' = aborts
        BY <2>3, Zenon DEF Pool!SessionDies
      <3> QED
        BY <1>2, <3>1, Zenon DEF Closing
    <2> QED
      BY <2>1, <2>2, <2>3, Zenon
  <1>4. PoolTyped'
    BY <1>1, <1>3, Zenon DEF PoolInv, PoolTyped, Pool!Sessions, Pool!Actors, Pool!Holding
  <1>5. \A a \in Pool!Actors : \A r \in Pool!Sessions : Owns(a, r)' <=> Owns(a, r)
    BY <1>1, Zenon DEF Owns
  <1>6. Sweeper \in Pool!Actors
    BY Zenon DEF Pool!Actors
  <1> QED
    BY <1>1, <1>3, <1>4, <1>5, <1>6, PoolStays, Zenon

\* An actor calls close() on a session it has taken out of the pool, and
\* learns that it has returned.
LEMMA ReapStep ==
  ASSUME Pool!WellFormed, PoolInv, NEW a \in Pool!Actors,
         Pool!Reaped(a) \/ \E s \in Pool!Sessions : Pool!Reap(a, s)
  PROVE  PoolInv'
  <1>1. UNCHANGED <<idle, made, taskAt, held, spawned>>
    BY Zenon DEF Pool!Reaped, Pool!Reap, Pool!pool, Pool!task, Pool!session
  <1>2. /\ closes \in [Pool!Sessions -> {"open", "claimed", "aborted", "shut"}]
        /\ aborts \in [Pool!Sessions -> BOOLEAN]
        /\ reap \in [Pool!Actors -> SUBSET Pool!Sessions]
        /\ closing \in [Pool!Actors -> 0..MaxSessions]
        /\ \A r \in Pool!Sessions : aborts[r] => Closing(r)
    BY Zenon DEF PoolInv, PoolTyped, Accounted
  <1>3. /\ closes' \in [Pool!Sessions -> {"open", "claimed", "aborted", "shut"}]
        /\ aborts' \in [Pool!Sessions -> BOOLEAN]
        /\ reap' \in [Pool!Actors -> SUBSET Pool!Sessions]
        /\ closing' \in [Pool!Actors -> 0..MaxSessions]
        /\ \A r \in Pool!Sessions : Closing(r) => Closing(r)'
        /\ \A r \in Pool!Sessions : aborts'[r] => Closing(r)'
        /\ \A b \in Pool!Actors : b # a => reap'[b] = reap[b] /\ closing'[b] = closing[b]
        /\ \A r \in Pool!Sessions : r \in reap'[a] \/ closing'[a] = r => Owns(a, r)
        /\ \A r \in Pool!Sessions : r \in reap[a] \/ closing[a] = r => Owns(a, r)' \/ Closing(r)'
    <2>1. CASE Pool!Reaped(a)
      <3>1. /\ closing[a] # 0 /\ closes[closing[a]] # "open"
            /\ closing' = [closing EXCEPT ![a] = 0] /\ reap' = reap
            /\ closes' = closes /\ aborts' = aborts
        BY <2>1, Zenon DEF Pool!Reaped, Pool!None, Pool!session
      <3> QED
        BY <1>1, <1>2, <3>1 DEF Closing, Owns, Pool!Sessions, Pool!WellFormed
    <2>2. CASE \E s \in Pool!Sessions : Pool!Reap(a, s)
      <3>1. PICK s \in Pool!Sessions : Pool!Reap(a, s)
        BY <2>2, Zenon
      <3>2. /\ s \in reap[a] /\ closing[a] = 0 /\ Pool!CallClose(s)
            /\ reap' = [reap EXCEPT ![a] = @ \ {s}]
            /\ closing' = [closing EXCEPT ![a] = IF closes[s] = "open" THEN s ELSE 0]
        BY <3>1, Zenon DEF Pool!Reap, Pool!None
      <3>3. /\ reap' \in [Pool!Actors -> SUBSET Pool!Sessions]
            /\ closing' \in [Pool!Actors -> 0..MaxSessions]
            /\ \A b \in Pool!Actors : b # a => reap'[b] = reap[b] /\ closing'[b] = closing[b]
            /\ reap'[a] = reap[a] \ {s} /\ closing'[a] \in {0, s}
        BY <1>2, <3>2 DEF Pool!Sessions, Pool!WellFormed
      <3>4. \A r \in Pool!Sessions : r # 0
        BY DEF Pool!Sessions, Pool!WellFormed
      <3>5. \A r \in Pool!Sessions : Closing(r) => Closing(r)'
        BY <1>1, <3>2, CallCloseCloses, Zenon DEF Closing
      <3>6. Closing(s)'
        BY <3>2, CallCloseCloses, Zenon DEF Closing
      <3>7. \A r \in Pool!Sessions : aborts'[r] => Closing(r)'
        BY <1>2, <3>2, <3>5, <3>6, CallCloseCloses, Zenon
      <3>8. \A r \in Pool!Sessions : r \in reap'[a] \/ closing'[a] = r => Owns(a, r)
        BY <3>2, <3>3, <3>4, Zenon DEF Owns
      <3>9. \A r \in Pool!Sessions : r \in reap[a] \/ closing[a] = r => Owns(a, r)' \/ Closing(r)'
        BY <3>2, <3>3, <3>4, <3>6, Zenon DEF Owns
      <3> QED
        BY <3>2, <3>3, <3>5, <3>7, <3>8, <3>9, CallCloseCloses, Zenon
    <2> QED
      BY <2>1, <2>2, Zenon
  <1>4. PoolTyped'
    BY <1>1, <1>3, Zenon DEF PoolInv, PoolTyped, Pool!Sessions, Pool!Actors, Pool!Holding
  <1>5. /\ \A b \in Pool!Actors : b # a => \A r \in Pool!Sessions : Owns(b, r)' <=> Owns(b, r)
        /\ \A r \in Pool!Sessions : Owns(a, r)' => Owns(a, r)
        /\ \A r \in Pool!Sessions : Owns(a, r) => Owns(a, r)' \/ Closing(r)'
    BY <1>1, <1>3, Zenon DEF Owns
  <1> QED
    BY <1>1, <1>3, <1>4, <1>5, PoolStays, Zenon

\* The clock and the end of the listener.
LEMMA OtherStep ==
  ASSUME Pool!WellFormed, PoolInv,
         Pool!Tick \/ Pool!StopListening \/ UNCHANGED Pool!vars
  PROVE  PoolInv'
  <1>1. UNCHANGED <<idle, made, closes, aborts, spawned>> /\ UNCHANGED <<taskAt, held, reap, closing>>
    <2>1. CASE Pool!Tick
      BY <2>1, Zenon DEF Pool!Tick, Pool!session, Pool!task
    <2>2. CASE Pool!StopListening
      BY <2>2, Zenon DEF Pool!StopListening, Pool!session, Pool!task
    <2>3. CASE UNCHANGED Pool!vars
      BY <2>3, Zenon DEF Pool!vars, Pool!pool, Pool!session, Pool!task
    <2> QED
      BY <2>1, <2>2, <2>3, Zenon
  <1>2. PoolTyped' /\ Made' /\ PoolFits'
    BY <1>1, Zenon
    DEF PoolInv, PoolTyped, Made, PoolFits, Owns, Pool!Sessions, Pool!Actors, Pool!Holding
  <1>3. OneOwner'
    BY <1>1, Zenon DEF PoolInv, OneOwner, Owns, Pooled, Pool!Sessions, Pool!Actors
  <1>4. Accounted'
    BY <1>1, Zenon DEF PoolInv, Accounted, Owns, Pooled, Closing, Pool!Sessions, Pool!Actors
  <1> QED
    BY <1>2, <1>3, <1>4, Zenon DEF PoolInv

\* What a task that is at a step may rely on.
LEMMA AtStep ==
  ASSUME Pool!WellFormed, PoolInv, NEW t \in Tasks, NEW step, Pool!At(t, step)
  PROVE  /\ t \in Pool!Actors /\ taskAt[t] = step /\ reap[t] = {} /\ closing[t] = 0
         /\ \A s \in Pool!Sessions : s # 0 /\ (Owns(t, s) <=> held[t] = s)
  <1>1. t \in Pool!Actors /\ taskAt[t] = step /\ reap[t] = {} /\ closing[t] = 0
    BY Zenon DEF Pool!At, Pool!Free, Pool!Actors, Pool!None
  <1>2. \A s \in Pool!Sessions : s # 0
    BY DEF Pool!Sessions, Pool!WellFormed
  <1> QED
    BY <1>1, <1>2, Zenon DEF Owns

\* The steps of a task that leave the pool alone and the sessions with their
\* owners: a request comes, and a use of a session ends in one of three ways.
LEMMA UseStep ==
  ASSUME Pool!WellFormed, PoolInv, NEW t \in Tasks,
         Pool!Request(t) \/ Pool!UseEnds(t) \/ Pool!UseFails(t) \/ Pool!Abandon(t)
  PROVE  PoolInv'
  <1>0. /\ taskAt \in [Tasks -> TaskSteps] /\ held \in [Tasks -> 0..MaxSessions]
        /\ reap \in [Pool!Actors -> SUBSET Pool!Sessions]
        /\ closes \in [Pool!Sessions -> {"open", "claimed", "aborted", "shut"}]
        /\ aborts \in [Pool!Sessions -> BOOLEAN] /\ spawned \subseteq Pool!Sessions
        /\ \A u \in Tasks : held[u] = 0 <=> taskAt[u] \notin {"use", "release"}
        /\ \A s \in Pool!Sessions : aborts[s] => Closing(s)
    BY Zenon DEF PoolInv, PoolTyped, Accounted, Pool!Holding
  <1>1. t \in Pool!Actors /\ MaxSessions \in Nat
    BY Zenon DEF Pool!Actors, Pool!WellFormed
  <1>2. taskAt[t] = "use" => held[t] \in Pool!Sessions
    BY <1>0, <1>1 DEF Pool!Sessions
  <1>3. /\ UNCHANGED <<idle, made, closes, held, closing>>
        /\ \E step \in TaskSteps :
             /\ taskAt' = [taskAt EXCEPT ![t] = step]
             /\ step \in {"use", "release"} <=> taskAt[t] \in {"use", "release"}
        /\ reap' = reap \/ (taskAt[t] = "use" /\ reap' = [reap EXCEPT ![t] = {held[t]}])
        /\ \/ UNCHANGED <<aborts, spawned>>
           \/ /\ taskAt[t] = "use"
              /\ aborts' = [aborts EXCEPT ![held[t]] = TRUE] /\ spawned' = spawned \cup {held[t]}
        /\ reap[t] = {}
    <2>1. CASE Pool!Request(t)
      BY <2>1, Zenon DEF Pool!Request, Pool!At, Pool!Free, Pool!Goto, Pool!session, TaskSteps
    <2>2. CASE Pool!UseEnds(t)
      BY <2>2, Zenon DEF Pool!UseEnds, Pool!At, Pool!Free, Pool!Goto, Pool!session, Pool!pool, TaskSteps
    <2>3. CASE Pool!UseFails(t)
      BY <2>3, Zenon DEF Pool!UseFails, Pool!At, Pool!Free, Pool!Goto, Pool!session, Pool!pool, TaskSteps
    <2>4. CASE Pool!Abandon(t)
      BY <2>4, Zenon DEF Pool!Abandon, Pool!At, Pool!Free, Pool!Goto, Pool!pool, TaskSteps
    <2> QED
      BY <2>1, <2>2, <2>3, <2>4, Zenon
  <1>4. /\ taskAt' \in [Tasks -> TaskSteps]
        /\ \A u \in Tasks : held'[u] = 0 <=> taskAt'[u] \notin {"use", "release"}
    BY <1>0, <1>3, Zenon
  <1>5. /\ reap' \in [Pool!Actors -> SUBSET Pool!Sessions]
        /\ \A b \in Pool!Actors : b # t => reap'[b] = reap[b]
        /\ reap'[t] \subseteq {held[t]}
    BY <1>0, <1>1, <1>2, <1>3
  <1>6. /\ aborts' \in [Pool!Sessions -> BOOLEAN] /\ spawned' \subseteq Pool!Sessions
        /\ \A s \in Pool!Sessions : Closing(s) => Closing(s)'
        /\ \A s \in Pool!Sessions : aborts'[s] => Closing(s)'
    <2>1. CASE UNCHANGED <<aborts, spawned>>
      BY <1>0, <1>3, <2>1, Zenon DEF Closing
    <2>2. CASE /\ taskAt[t] = "use"
               /\ aborts' = [aborts EXCEPT ![held[t]] = TRUE] /\ spawned' = spawned \cup {held[t]}
      <3>1. PICK h \in Pool!Sessions : h = held[t]
        BY <1>2, <2>2, Zenon
      <3> QED
        BY <1>0, <1>3, <2>2, <3>1, Zenon DEF Closing
    <2> QED
      BY <1>3, <2>1, <2>2, Zenon
  <1>7. PoolTyped'
    BY <1>3, <1>4, <1>5, <1>6, Zenon
    DEF PoolInv, PoolTyped, Pool!Sessions, Pool!Actors, Pool!Holding
  <1>8. \A b \in Pool!Actors : \A s \in Pool!Sessions : Owns(b, s)' <=> Owns(b, s)
    BY <1>3, <1>5, Zenon DEF Owns
  <1> QED
    BY <1>1, <1>3, <1>6, <1>7, <1>8, PoolStays, Zenon

\* The places of the pool: finitely many, and no more than PoolSize.
LEMMA FewPlaces ==
  ASSUME Facts, Pool!WellFormed, PoolInv, NEW D \in SUBSET (DOMAIN idle)
  PROVE  /\ \E last \in Nat : D \subseteq 1..last
         /\ IsFiniteSet(D) /\ Pool!Cardinality(D) = Cardinality(D) /\ Cardinality(D) \in Nat
         /\ Cardinality(D) <= PoolSize
  <1>1. PICK last \in Nat : DOMAIN idle \subseteq 1..last
    BY Zenon DEF PoolInv, PoolTyped
  <1>2. IsFiniteSet(1..last)
    BY Zenon DEF Facts
  <1>3. IsFiniteSet(DOMAIN idle)
    BY <1>1, <1>2, Zenon DEF Facts
  <1>4. IsFiniteSet(D) /\ Cardinality(D) <= Cardinality(DOMAIN idle)
    BY <1>3, Zenon DEF Facts
  <1>5. Cardinality(D) \in Nat /\ Cardinality(DOMAIN idle) \in Nat
    BY <1>3, Zenon DEF Facts
  <1>6. Cardinality(DOMAIN idle) <= PoolSize
    BY PoolCardinality, Zenon DEF PoolInv, PoolFits
  <1>7. Cardinality(D) <= PoolSize
    BY <1>4, <1>5, <1>6 DEF Pool!WellFormed
  <1>8. D \subseteq 1..last
    BY <1>1, Zenon
  <1> QED
    BY <1>4, <1>5, <1>7, <1>8, PoolCardinality, Zenon

\* Actor a keeps its sessions and takes all those out of the pool whose places
\* are not in D, to close them or to use them.
TakesOut(a, D) ==
    /\ DOMAIN idle' = D /\ \A p \in D : idle'[p] = idle[p]
    /\ UNCHANGED <<made, closes, aborts, spawned>>
    /\ \A b \in Pool!Actors : b # a => \A s \in Pool!Sessions : Owns(b, s)' <=> Owns(b, s)
    /\ \A s \in Pool!Sessions :
         Owns(a, s)' <=> Owns(a, s) \/ \E p \in DOMAIN idle \ D : idle[p].s = s

\* The sessions that are taken out of the pool have a new owner.
LEMMA TakenOut ==
  ASSUME Facts, Pool!WellFormed, PoolInv, PoolTyped', NEW a \in Pool!Actors, NEW D \in SUBSET (DOMAIN idle),
         TakesOut(a, D)
  PROVE  PoolInv'
  <1>0. /\ DOMAIN idle' = D /\ \A p \in D : idle'[p] = idle[p]
        /\ UNCHANGED <<made, closes, aborts, spawned>>
        /\ \A b \in Pool!Actors : b # a => \A s \in Pool!Sessions : Owns(b, s)' <=> Owns(b, s)
        /\ \A s \in Pool!Sessions :
             Owns(a, s)' <=> Owns(a, s) \/ \E p \in DOMAIN idle \ D : idle[p].s = s
    BY Zenon DEF TakesOut
  <1> USE <1>0
  <1>1. \A s : Pooled(s)' => Pooled(s)
    BY <1>0, Zenon DEF Pooled
  <1>2. /\ \A p \in DOMAIN idle : idle[p].s \in 1..made
        /\ \A p, q \in DOMAIN idle : idle[p].s = idle[q].s => p = q
        /\ \A s \in Pool!Sessions : Owns(a, s) => s <= made' /\ ~Pooled(s)
    BY Zenon DEF PoolInv, Made, OneOwner
  <1>3. /\ made' = made /\ made' \in 0..MaxSessions /\ made <= made'
        /\ \A s \in 1..made' : s \in Pool!Sessions /\ s <= made' /\ ~(made < s)
    BY DEF PoolInv, PoolTyped, Pool!WellFormed, Pool!Sessions
  <1>4. ASSUME NEW s \in Pool!Sessions, Owns(a, s)'
        PROVE  s <= made' /\ (Owns(a, s) \/ Pooled(s)) /\ ~Pooled(s)'
    <2>1. CASE Owns(a, s)
      BY <1>1, <1>2, <1>3, <2>1, Zenon
    <2>2. CASE \E p \in DOMAIN idle \ D : idle[p].s = s
      <3>1. PICK p \in DOMAIN idle \ D : idle[p].s = s
        BY <2>2, Zenon
      <3>2. ~Pooled(s)'
        BY <1>2, <3>1, Zenon DEF Pooled
      <3> QED
        BY <1>2, <1>3, <3>1, <3>2, Zenon DEF Pooled
    <2> QED
      BY <1>4, <2>1, <2>2, Zenon
  <1>5. Moves(a)
    <2>1. \A p \in DOMAIN idle' : idle'[p].s \in 1..made' /\ Pooled(idle'[p].s)
      BY <1>2, <1>3, Zenon DEF Pooled
    <2>2. ASSUME NEW p \in D, NEW q \in D, idle'[p].s = idle'[q].s PROVE p = q
      <3>1. idle'[p] = idle[p] /\ idle'[q] = idle[q] /\ p \in DOMAIN idle /\ q \in DOMAIN idle
        BY Zenon
      <3>2. idle[p].s = idle[q].s
        BY <2>2, <3>1, Zenon
      <3> QED
        BY <1>2, <3>1, <3>2, Zenon
    <2> QED
      BY <1>3, <1>4, <2>1, <2>2, Zenon DEF Moves
  <1>6. Answered(a)
    <2>1. \A s \in Pool!Sessions : Closing(s) <=> Closing(s)'
      BY Zenon DEF Closing
    <2>2. \A s \in Pool!Sessions : aborts[s] => Closing(s)
      BY Zenon DEF PoolInv, Accounted
    <2>3. ASSUME NEW s \in 1..made', Owns(a, s) \/ Pooled(s) PROVE Owns(a, s)' \/ Pooled(s)'
      BY <1>3, <2>3, Zenon DEF Pooled
    <2> QED
      BY <1>3, <2>1, <2>2, <2>3, Zenon DEF Answered
  <1>7. PoolFits'
    BY FewPlaces, Zenon DEF PoolFits
  <1> QED
    BY <1>5, <1>6, <1>7, OwnersStay, AllAccounted, Zenon DEF PoolInv

\* The sweeper's round.
LEMMA SweepStep ==
  ASSUME Facts, Pool!WellFormed, PoolInv, Pool!Sweep
  PROVE  PoolInv'
  <1> DEFINE K == Pool!Kept
             E == Pool!ExpiredIdle
  <1>1. /\ reap[Sweeper] = {} /\ closing[Sweeper] = 0
        /\ idle' = [p \in K |-> idle[p]] /\ reap' = [reap EXCEPT ![Sweeper] = E]
        /\ UNCHANGED <<made, closes, aborts, spawned, taskAt, held, closing>>
    BY Zenon DEF Pool!Sweep, Pool!Free, Pool!None, Pool!session, Pool!task
  <1>2. K \in SUBSET (DOMAIN idle)
    BY Zenon DEF Pool!Kept
  <1>3. \A s : s \in E <=> \E p \in DOMAIN idle \ K : idle[p].s = s
    BY Zenon DEF Pool!ExpiredIdle, Pool!SessionsAt
  <1> HIDE DEF K, E
  <1>4. E \subseteq Pool!Sessions
    BY <1>3 DEF PoolInv, PoolTyped, Made, Pool!WellFormed, Pool!Sessions
  <1>5. /\ Sweeper \in Pool!Actors /\ Sweeper \notin Tasks
        /\ reap \in [Pool!Actors -> SUBSET Pool!Sessions]
    BY Zenon DEF Pool!Actors, Pool!WellFormed, PoolInv, PoolTyped
  <1>6. /\ reap' \in [Pool!Actors -> SUBSET Pool!Sessions]
        /\ \A b \in Pool!Actors : b # Sweeper => reap'[b] = reap[b]
        /\ reap'[Sweeper] = E
    BY <1>1, <1>4, <1>5, Zenon
  <1>7. PoolTyped'
    <2>1. DOMAIN idle' = K
      BY <1>1, Zenon
    <2>2. \E last \in Nat : DOMAIN idle' \subseteq 1..last
      BY <1>2, <2>1, FewPlaces, Zenon
    <2> QED
      BY <1>1, <1>6, <2>2, Zenon DEF PoolInv, PoolTyped, Pool!Sessions, Pool!Actors, Pool!Holding
  <1>8. \A s \in Pool!Sessions : s # 0
    BY DEF Pool!Sessions, Pool!WellFormed
  <1>9. \A s \in Pool!Sessions : ~Owns(Sweeper, s) /\ (Owns(Sweeper, s)' <=> s \in E)
    BY <1>1, <1>5, <1>6, <1>8, Zenon DEF Owns
  <1>10. \A b \in Pool!Actors : b # Sweeper => \A s \in Pool!Sessions : Owns(b, s)' <=> Owns(b, s)
    BY <1>1, <1>6, Zenon DEF Owns
  <1>11. DOMAIN idle' = K /\ \A p \in K : idle'[p] = idle[p]
    BY <1>1, Zenon
  <1>12. TakesOut(Sweeper, K)
    BY <1>1, <1>3, <1>9, <1>10, <1>11, Zenon DEF TakesOut
  <1> QED
    BY <1>2, <1>5, <1>7, <1>12, TakenOut, Zenon

\* Task t takes all sessions out of the pool but those at the places D: it has
\* those of E to close and uses h, if that is one.
Takes(t, D, E, h, step) ==
    /\ DOMAIN idle' = D /\ \A q \in D : idle'[q] = idle[q]
    /\ reap' = [reap EXCEPT ![t] = E]
    /\ held' = [held EXCEPT ![t] = h] /\ taskAt' = [taskAt EXCEPT ![t] = step]
    /\ h = 0 <=> step \notin {"use", "release"}
    /\ E \subseteq Pool!Sessions
    /\ \A s \in Pool!Sessions : s \in E \/ h = s <=> \E q \in DOMAIN idle \ D : idle[q].s = s

\* acquire, with a session that is alive or without.
LEMMA AcquireStep ==
  ASSUME Facts, Pool!WellFormed, PoolInv, NEW t \in Tasks, Pool!Acquire(t)
  PROVE  PoolInv'
  <1> DEFINE K == Pool!Kept
  <1>0. PICK last \in Nat : DOMAIN idle \subseteq 1..last
    BY Zenon DEF PoolInv, PoolTyped
  <1>1. /\ taskAt \in [Tasks -> TaskSteps] /\ held \in [Tasks -> 0..MaxSessions]
        /\ reap \in [Pool!Actors -> SUBSET Pool!Sessions]
        /\ \A u \in Tasks : held[u] = 0 <=> taskAt[u] \notin {"use", "release"}
    BY Zenon DEF PoolInv, PoolTyped, Pool!Holding
  <1>2. /\ Pool!At(t, "acquire") /\ UNCHANGED <<made, closes, aborts, spawned, closing>>
        /\ \/ \E p \in K :
                /\ idle' = [q \in {r \in K : r >= p + 1} |-> idle[q]]
                /\ reap' = [reap EXCEPT ![t] = Pool!ExpiredIdle \cup Pool!SessionsAt({q \in K : q < p})]
                /\ held' = [held EXCEPT ![t] = idle[p].s]
                /\ taskAt' = [taskAt EXCEPT ![t] = "use"]
           \/ /\ idle' = <<>>
              /\ reap' = [reap EXCEPT ![t] = Pool!ExpiredIdle \cup Pool!SessionsAt(K)]
              /\ held' = held
              /\ taskAt' = [taskAt EXCEPT ![t] = "connect"]
    <2>1. \A p \in Pool!Alive : p \in K
      BY Zenon DEF Pool!Alive
    <2> HIDE DEF K
    <2>2. /\ Pool!At(t, "acquire") /\ Pool!Kept = K
          /\ UNCHANGED <<made, closes, aborts, spawned, closing>>
      BY Zenon DEF Pool!Acquire, Pool!AcquireWith, Pool!session, K
    <2> QED
      BY <2>1, <2>2, Zenon DEF Pool!Acquire, Pool!AcquireWith, Pool!Goto
  <1>3. K \in SUBSET (DOMAIN idle)
    BY Zenon DEF Pool!Kept
  <1>4. /\ \A s : s \in Pool!ExpiredIdle <=> \E q \in DOMAIN idle \ K : idle[q].s = s
        /\ \A S, s : s \in Pool!SessionsAt(S) <=> \E q \in S : idle[q].s = s
    BY Zenon DEF Pool!ExpiredIdle, Pool!SessionsAt
  <1> HIDE DEF K
  <1>5. /\ t \in Pool!Actors /\ taskAt[t] = "acquire" /\ reap[t] = {} /\ closing[t] = 0 /\ held[t] = 0
        /\ \A s \in Pool!Sessions : s # 0 /\ ~Owns(t, s)
    <2>1. /\ t \in Pool!Actors /\ taskAt[t] = "acquire" /\ reap[t] = {} /\ closing[t] = 0
          /\ \A s \in Pool!Sessions : s # 0 /\ (Owns(t, s) <=> held[t] = s)
      BY <1>2, AtStep, Zenon
    <2>2. held[t] = 0
      BY <1>1, <2>1, Zenon
    <2> QED
      BY <2>1, <2>2, Zenon
  <1>6. \A p \in DOMAIN idle : idle[p].s \in Pool!Sessions
    BY DEF PoolInv, PoolTyped, Made, Pool!WellFormed, Pool!Sessions
  <1>7. \E D \in SUBSET (DOMAIN idle) : \E E \in SUBSET Pool!Sessions : \E h \in 0..MaxSessions : \E step \in TaskSteps :
          Takes(t, D, E, h, step)
    <2>1. CASE \E p \in K :
                /\ idle' = [q \in {r \in K : r >= p + 1} |-> idle[q]]
                /\ reap' = [reap EXCEPT ![t] = Pool!ExpiredIdle \cup Pool!SessionsAt({q \in K : q < p})]
                /\ held' = [held EXCEPT ![t] = idle[p].s]
                /\ taskAt' = [taskAt EXCEPT ![t] = "use"]
      <3>1. PICK p \in K :
                /\ idle' = [q \in {r \in K : r >= p + 1} |-> idle[q]]
                /\ reap' = [reap EXCEPT ![t] = Pool!ExpiredIdle \cup Pool!SessionsAt({q \in K : q < p})]
                /\ held' = [held EXCEPT ![t] = idle[p].s]
                /\ taskAt' = [taskAt EXCEPT ![t] = "use"]
        BY <2>1, Zenon
      <3> DEFINE D == {r \in K : r >= p + 1}
                 E == Pool!ExpiredIdle \cup Pool!SessionsAt({q \in K : q < p})
      <3>2. D \in SUBSET (DOMAIN idle) /\ DOMAIN idle' = D /\ \A q \in D : idle'[q] = idle[q]
        BY <1>3, <3>1, Zenon
      <3>3. \A q \in DOMAIN idle : q \notin D <=> q \notin K \/ (q \in K /\ q < p) \/ q = p
        BY <1>0, <1>3
      <3>4. \A s : s \in E \/ idle[p].s = s <=> \E q \in DOMAIN idle \ D : idle[q].s = s
        <4>1. \A s : s \in E <=> \/ \E q \in DOMAIN idle \ K : idle[q].s = s
                                 \/ \E q \in {r \in K : r < p} : idle[q].s = s
          BY <1>4, Zenon
        <4> HIDE DEF D, E
        <4> QED
          BY <1>3, <3>3, <4>1, Zenon
      <3>5. idle[p].s \in Pool!Sessions /\ E \subseteq Pool!Sessions
        <4> HIDE DEF D, E
        <4> QED
          BY <1>3, <1>6, <3>4, Zenon
      <3>6. idle[p].s \in 0..MaxSessions /\ idle[p].s # 0 /\ "use" \in TaskSteps
        BY <3>5 DEF Pool!Sessions, Pool!WellFormed, TaskSteps
      <3>7. reap' = [reap EXCEPT ![t] = E]
        BY <3>1, Zenon
      <3> HIDE DEF D, E
      <3>8. Takes(t, D, E, idle[p].s, "use")
        BY <3>1, <3>2, <3>4, <3>5, <3>6, <3>7, Zenon DEF Takes
      <3> QED
        BY <3>1, <3>2, <3>5, <3>6, <3>8, Zenon
    <2>2. CASE /\ idle' = <<>>
               /\ reap' = [reap EXCEPT ![t] = Pool!ExpiredIdle \cup Pool!SessionsAt(K)]
               /\ held' = held
               /\ taskAt' = [taskAt EXCEPT ![t] = "connect"]
      <3> DEFINE E == Pool!ExpiredIdle \cup Pool!SessionsAt(K)
      <3>1. DOMAIN idle' = {}
        BY <2>2
      <3>2. \A s : s \in E <=> \E q \in DOMAIN idle \ {} : idle[q].s = s
        BY <1>3, <1>4, Zenon
      <3>3. held' = [held EXCEPT ![t] = 0] /\ 0 \in 0..MaxSessions /\ "connect" \in TaskSteps
        BY <1>1, <1>5, <2>2 DEF TaskSteps, Pool!WellFormed
      <3>4. reap' = [reap EXCEPT ![t] = E]
        BY <2>2, Zenon
      <3> HIDE DEF E
      <3>5. E \subseteq Pool!Sessions
        BY <1>6, <3>2, Zenon
      <3>6. {} \in SUBSET (DOMAIN idle) /\ \A q \in {} : idle'[q] = idle[q]
        BY Zenon
      <3>7. taskAt' = [taskAt EXCEPT ![t] = "connect"] /\ "connect" \notin {"use", "release"}
        BY <2>2, Zenon
      <3>8. \A s \in Pool!Sessions : 0 # s
        BY <1>5, Zenon
      <3>9. Takes(t, {}, E, 0, "connect")
        BY <3>1, <3>2, <3>3, <3>4, <3>5, <3>6, <3>7, <3>8, Zenon DEF Takes
      <3> QED
        BY <3>3, <3>5, <3>6, <3>9, Zenon
    <2> QED
      BY <1>2, <2>1, <2>2, Zenon
  <1>8. PICK D \in SUBSET (DOMAIN idle), E \in SUBSET Pool!Sessions, h \in 0..MaxSessions, step \in TaskSteps :
          Takes(t, D, E, h, step)
    BY <1>7, Zenon
  <1>9. /\ taskAt' \in [Tasks -> TaskSteps] /\ held' \in [Tasks -> 0..MaxSessions]
        /\ reap' \in [Pool!Actors -> SUBSET Pool!Sessions]
        /\ \A u \in Tasks : held'[u] = 0 <=> taskAt'[u] \notin {"use", "release"}
        /\ reap'[t] = E /\ held'[t] = h
        /\ \A b \in Pool!Actors : b # t => reap'[b] = reap[b]
        /\ \A b \in Tasks : b # t => held'[b] = held[b]
    BY <1>1, <1>5, <1>8 DEF Takes
  <1>10. PoolTyped'
    <2>1. \E x \in Nat : DOMAIN idle' \subseteq 1..x
      BY <1>8, FewPlaces, Zenon DEF Takes
    <2> QED
      BY <1>2, <1>9, <2>1, Zenon DEF PoolInv, PoolTyped, Pool!Sessions, Pool!Actors, Pool!Holding
  <1>11. \A s \in Pool!Sessions :
            Owns(t, s)' <=> Owns(t, s) \/ \E q \in DOMAIN idle \ D : idle[q].s = s
    BY <1>2, <1>5, <1>8, <1>9, Zenon DEF Owns, Takes
  <1>12. \A b \in Pool!Actors : b # t => \A s \in Pool!Sessions : Owns(b, s)' <=> Owns(b, s)
    BY <1>2, <1>9, Zenon DEF Owns
  <1>13. TakesOut(t, D)
    BY <1>2, <1>8, <1>11, <1>12, Zenon DEF TakesOut, Takes
  <1> QED
    BY <1>5, <1>8, <1>10, <1>13, TakenOut, Zenon

\* connect, with a new session or without.
LEMMA ConnectStep ==
  ASSUME Pool!WellFormed, PoolInv, NEW t \in Tasks, Pool!Connect(t)
  PROVE  PoolInv'
  <1>1. /\ taskAt \in [Tasks -> TaskSteps] /\ held \in [Tasks -> 0..MaxSessions]
        /\ \A u \in Tasks : held[u] = 0 <=> taskAt[u] \notin {"use", "release"}
        /\ \A s \in Pool!Sessions : aborts[s] => Closing(s)
        /\ MaxSessions \in Nat /\ made \in 0..MaxSessions
    BY Zenon DEF PoolInv, PoolTyped, Pool!Holding, Pool!WellFormed, Accounted
  <1>2. /\ Pool!At(t, "connect") /\ UNCHANGED <<idle, closes, aborts, spawned, reap, closing>>
        /\ \/ /\ made < MaxSessions /\ made' = made + 1
              /\ held' = [held EXCEPT ![t] = made + 1] /\ taskAt' = [taskAt EXCEPT ![t] = "use"]
           \/ /\ made' = made /\ held' = held /\ taskAt' = [taskAt EXCEPT ![t] = "idle"]
    BY Zenon DEF Pool!Connect, Pool!Goto, Pool!pool
  <1>3. /\ t \in Pool!Actors /\ taskAt[t] = "connect" /\ reap[t] = {} /\ closing[t] = 0
        /\ \A s \in Pool!Sessions : s # 0 /\ (Owns(t, s) <=> held[t] = s)
    BY <1>2, AtStep, Zenon
  <1>4. held[t] = 0
    BY <1>1, <1>3, Zenon
  <1>5. /\ taskAt' \in [Tasks -> TaskSteps] /\ held' \in [Tasks -> 0..MaxSessions]
        /\ \A u \in Tasks : held'[u] = 0 <=> taskAt'[u] \notin {"use", "release"}
        /\ \A u \in Tasks : u # t => held'[u] = held[u]
        /\ made' \in 0..MaxSessions /\ made <= made'
        /\ held'[t] = 0 \/ (held'[t] = made' /\ made < made')
        /\ \A s \in 1..made' : made < s => held'[t] = s
    BY <1>1, <1>2, <1>4 DEF TaskSteps
  <1>6. PoolTyped'
    BY <1>2, <1>5, Zenon DEF PoolInv, PoolTyped, Pool!Sessions, Pool!Actors, Pool!Holding
  <1>7. \A b \in Pool!Actors : b # t => \A s \in Pool!Sessions : Owns(b, s)' <=> Owns(b, s)
    BY <1>2, <1>5, Zenon DEF Owns
  <1>8. \A s \in Pool!Sessions : ~Owns(t, s) /\ (Owns(t, s)' <=> held'[t] = s)
    BY <1>2, <1>3, <1>4, Zenon DEF Owns
  <1>9. \A s : Pooled(s)' <=> Pooled(s)
    BY <1>2, Zenon DEF Pooled
  <1>10. /\ \A s \in 1..made : s \in 1..made' /\ s <= made /\ ~(made < s)
         /\ \A s \in Pool!Sessions : held'[t] = s => s <= made' /\ made < s
    BY <1>1, <1>3, <1>5 DEF Pool!Sessions
  <1>11. /\ \A p \in DOMAIN idle : idle[p].s \in 1..made /\ Pooled(idle[p].s)
         /\ \A p, q \in DOMAIN idle : idle[p].s = idle[q].s => p = q
    BY Zenon DEF PoolInv, Made, OneOwner, Pooled
  <1>12. \A s : Pooled(s) => s \in 1..made
    BY <1>11, Zenon DEF Pooled
  <1>13. Moves(t)
    <2>1. \A s \in Pool!Sessions : Owns(t, s)' => s <= made' /\ made < s /\ ~Pooled(s)'
      BY <1>8, <1>9, <1>10, <1>12, Zenon
    <2>2. \A p \in DOMAIN idle' : idle'[p].s \in 1..made' /\ Pooled(idle'[p].s)
      BY <1>2, <1>10, <1>11, Zenon
    <2>3. \A p, q \in DOMAIN idle' : idle'[p].s = idle'[q].s => p = q
      BY <1>2, <1>11, Zenon
    <2> QED
      BY <1>5, <1>7, <2>1, <2>2, <2>3, Zenon DEF Moves
  <1>14. Answered(t)
    <2>1. \A s \in Pool!Sessions : Closing(s) <=> Closing(s)'
      BY <1>2, Zenon DEF Closing
    <2>2. \A s \in 1..made' : s \in Pool!Sessions
      BY <1>1, <1>5 DEF Pool!Sessions
    <2> QED
      BY <1>1, <1>2, <1>5, <1>8, <1>9, <2>1, <2>2, Zenon DEF Answered
  <1>15. PoolFits'
    BY <1>2, Zenon DEF PoolInv, PoolFits
  <1> QED
    BY <1>3, <1>6, <1>13, <1>14, <1>15, OwnersStay, AllAccounted, Zenon DEF PoolInv

\* The last owner of the pool lets it go.
LEMMA DropStep ==
  ASSUME Facts, Pool!WellFormed, PoolInv, Pool!DropShared
  PROVE  PoolInv'
  <1> DEFINE P == Pool!SessionsAt(DOMAIN idle)
  <1>1. /\ idle' = <<>> /\ UNCHANGED <<made, closes, taskAt, held, reap, closing>>
        /\ aborts' = [s \in Pool!Sessions |-> aborts[s] \/ s \in P] /\ spawned' = spawned \cup P
    BY Zenon DEF Pool!DropShared, Pool!task
  <1>2. \A s : s \in P <=> Pooled(s)
    BY Zenon DEF Pool!SessionsAt, Pooled
  <1> HIDE DEF P
  <1>3. /\ made \in 0..MaxSessions /\ made <= made
        /\ \A s \in 1..made : s \in Pool!Sessions /\ s <= made /\ ~(made < s)
    BY DEF PoolInv, PoolTyped, Pool!WellFormed, Pool!Sessions
  <1>4. /\ aborts \in [Pool!Sessions -> BOOLEAN] /\ spawned \subseteq Pool!Sessions
        /\ \A s \in Pool!Sessions : aborts[s] => Closing(s)
        /\ \A p \in DOMAIN idle : idle[p].s \in 1..made
    BY Zenon DEF PoolInv, PoolTyped, Accounted, Made
  <1>5. P \subseteq Pool!Sessions
    <2>1. ASSUME NEW s \in P PROVE s \in Pool!Sessions
      <3>1. PICK p \in DOMAIN idle : idle[p].s = s
        BY <1>2, Zenon DEF Pooled
      <3>2. s \in 1..made
        BY <1>4, <3>1, Zenon
      <3> QED
        BY <1>3, <3>2, Zenon
    <2> QED
      BY <2>1, Zenon
  <1>6. aborts' \in [Pool!Sessions -> BOOLEAN] /\ spawned' \subseteq Pool!Sessions
    BY <1>1, <1>4, <1>5, Zenon
  <1>7. DOMAIN idle' = {}
    BY <1>1
  <1>8. 0 \in Nat
    BY Zenon
  <1>9. PoolTyped'
    BY <1>1, <1>6, <1>7, <1>8, Zenon
    DEF PoolInv, PoolTyped, Pool!Sessions, Pool!Actors, Pool!Holding
  <1>10. \A b \in Pool!Actors : \A s \in Pool!Sessions : Owns(b, s)' <=> Owns(b, s)
    BY <1>1, Zenon DEF Owns
  <1>11. \A s : ~Pooled(s)'
    BY <1>7, Zenon DEF Pooled
  <1>12. Sweeper \in Pool!Actors
    BY Zenon DEF Pool!Actors
  <1>13. Moves(Sweeper)
    <2>1. \A s \in Pool!Sessions : Owns(Sweeper, s) => s <= made
      BY <1>12, Zenon DEF PoolInv, Made
    <2> QED
      BY <1>1, <1>3, <1>7, <1>10, <1>11, <1>12, <2>1, Zenon DEF Moves
  <1>14. Answered(Sweeper)
    <2>1. \A s \in Pool!Sessions : Closing(s) \/ s \in P => Closing(s)'
      BY <1>1, Zenon DEF Closing
    <2>2. \A s \in Pool!Sessions : aborts'[s] => aborts[s] \/ s \in P
      BY <1>1, Zenon
    <2> QED
      BY <1>1, <1>2, <1>3, <1>4, <1>10, <1>12, <2>1, <2>2, Zenon DEF Answered
  <1>15. PoolFits'
    <2>1. {} \in SUBSET (DOMAIN idle)
      BY Zenon
    <2> QED
      BY <1>7, <2>1, FewPlaces, Zenon DEF PoolFits
  <1> QED
    BY <1>9, <1>12, <1>13, <1>14, <1>15, OwnersStay, AllAccounted, Zenon DEF PoolInv

\* release: a session that is alive goes to the end of the queue if there is
\* room, and is closed if there is none.
LEMMA ReleaseStep ==
  ASSUME Facts, Pool!WellFormed, PoolInv, NEW t \in Tasks, Pool!Release(t)
  PROVE  PoolInv'
  <1> DEFINE K == Pool!Kept
             back == Pool!Back
             h == held[t]
             room == Pool!Cardinality(K) < PoolSize
             E == Pool!ExpiredIdle
             entry == [s |-> h, since |-> now]
  <1>0. PICK last \in Nat : DOMAIN idle \subseteq 1..last
    BY Zenon DEF PoolInv, PoolTyped
  <1>1. /\ taskAt \in [Tasks -> TaskSteps] /\ held \in [Tasks -> 0..MaxSessions]
        /\ reap \in [Pool!Actors -> SUBSET Pool!Sessions]
        /\ \A u \in Tasks : held[u] = 0 <=> taskAt[u] \notin {"use", "release"}
        /\ \A s \in Pool!Sessions : aborts[s] => Closing(s)
        /\ MaxSessions \in Nat /\ made \in 0..MaxSessions
    BY Zenon DEF PoolInv, PoolTyped, Pool!Holding, Pool!WellFormed, Accounted
  <1>2. /\ Pool!At(t, "release") /\ UNCHANGED <<made, closes, aborts, spawned, closing>>
        /\ held' = [held EXCEPT ![t] = 0] /\ taskAt' = [taskAt EXCEPT ![t] = "idle"]
        /\ aborts[h] => idle' = idle /\ reap' = reap
        /\ ~aborts[h] =>
             /\ idle' = [p \in IF room THEN K \cup {back} ELSE K |-> IF p = back THEN entry ELSE idle[p]]
             /\ reap' = [reap EXCEPT ![t] = E \cup (IF room THEN {} ELSE {h})]
    BY Zenon DEF Pool!Release, Pool!Goto, Pool!session, Pool!None
  <1>3. K \in SUBSET (DOMAIN idle) /\ \A s : s \in E <=> \E q \in DOMAIN idle \ K : idle[q].s = s
    BY Zenon DEF Pool!Kept, Pool!ExpiredIdle, Pool!SessionsAt
  <1>4. back \in Nat /\ back > 0 /\ back \notin K
    <2>1. K \in SUBSET (1..last)
      BY <1>0, <1>3, Zenon
    <2>2. back = 1 + Last(K)
      BY Zenon DEF Pool!Back, Last
    <2>3. Last(K) \in Nat /\ \A q \in K : q <= Last(K)
      BY <2>1, LastPlace, Zenon
    <2> HIDE DEF K, back
    <2> QED
      BY <2>2, <2>3
  <1>5. entry.s = h
    BY Zenon
  <1>6. room <=> Cardinality(K) < PoolSize
    BY PoolCardinality, Zenon
  <1> HIDE DEF K, back, h, room, E, entry
  <1>7. /\ t \in Pool!Actors /\ taskAt[t] = "release" /\ reap[t] = {} /\ closing[t] = 0
        /\ \A s \in Pool!Sessions : s # 0 /\ (Owns(t, s) <=> h = s)
    BY <1>2, AtStep, Zenon DEF h
  <1>8. h \in Pool!Sessions
    BY <1>1, <1>7 DEF h, Pool!Sessions
  <1>9. /\ \A p \in DOMAIN idle : idle[p].s \in 1..made /\ idle[p].s \in Pool!Sessions /\ idle[p].s # h
        /\ \A p, q \in DOMAIN idle : idle[p].s = idle[q].s => p = q
    <2>1. \A s \in 1..made : s \in Pool!Sessions
      BY <1>1 DEF Pool!Sessions
    <2>2. \A p \in DOMAIN idle : idle[p].s \in 1..made
      BY Zenon DEF PoolInv, Made
    <2>3. ~Pooled(h) /\ \A p, q \in DOMAIN idle : idle[p].s = idle[q].s => p = q
      BY <1>7, <1>8, Zenon DEF PoolInv, OneOwner
    <2> QED
      BY <2>1, <2>2, <2>3, Zenon DEF Pooled
  <1>10. E \subseteq Pool!Sessions
    <2>1. ASSUME NEW s \in E PROVE s \in Pool!Sessions
      <3>1. PICK q \in DOMAIN idle : idle[q].s = s
        BY <1>3, Zenon
      <3> QED
        BY <1>9, <3>1, Zenon
    <2> QED
      BY <2>1, Zenon
  <1>11. reap' = reap \/ \E S \in SUBSET Pool!Sessions : reap' = [reap EXCEPT ![t] = S]
    <2>1. E \cup (IF room THEN {} ELSE {h}) \in SUBSET Pool!Sessions
      BY <1>8, <1>10, Zenon
    <2> QED
      BY <1>2, <2>1, Zenon
  <1>12. /\ taskAt' \in [Tasks -> TaskSteps] /\ held' \in [Tasks -> 0..MaxSessions]
         /\ reap' \in [Pool!Actors -> SUBSET Pool!Sessions]
         /\ \A u \in Tasks : held'[u] = 0 <=> taskAt'[u] \notin {"use", "release"}
         /\ held'[t] = 0
         /\ \A b \in Pool!Actors : b # t => reap'[b] = reap[b]
         /\ \A b \in Tasks : b # t => held'[b] = held[b]
    BY <1>1, <1>2, <1>7, <1>11 DEF TaskSteps
  <1>13. \A b \in Pool!Actors : b # t => \A s \in Pool!Sessions : Owns(b, s)' <=> Owns(b, s)
    BY <1>2, <1>12, Zenon DEF Owns
  <1>14. \A s \in Pool!Sessions : Owns(t, s)' <=> s \in reap'[t]
    BY <1>2, <1>7, <1>12, Zenon DEF Owns
  <1>15. ASSUME NEW x \in Nat, DOMAIN idle' \subseteq 1..x PROVE PoolTyped'
    BY <1>2, <1>12, <1>15, Zenon DEF PoolInv, PoolTyped, Pool!Sessions, Pool!Actors, Pool!Holding
  <1>16. \A s \in Pool!Sessions : (Closing(s) <=> Closing(s)') /\ (aborts'[s] => Closing(s)')
    BY <1>1, <1>2, Zenon DEF Closing
  <1>17. CASE aborts[h]
    <2>1. idle' = idle /\ reap' = reap
      BY <1>2, <1>17, Zenon
    <2>2. PoolTyped'
      BY <1>0, <1>15, <2>1, Zenon
    <2>3. /\ \A s \in Pool!Sessions : Owns(t, s)' => Owns(t, s)
          /\ \A s \in Pool!Sessions : Owns(t, s) => Closing(s)'
      BY <1>1, <1>7, <1>8, <1>14, <1>16, <1>17, <2>1, Zenon
    <2> QED
      BY <1>2, <1>7, <1>13, <1>16, <2>1, <2>2, <2>3, PoolStays, Zenon
  <1>18. CASE ~aborts[h] /\ ~room
    <2>1. /\ DOMAIN idle' = K /\ reap' = [reap EXCEPT ![t] = E \cup {h}]
          /\ \A p \in K : idle'[p] = idle[p]
      BY <1>2, <1>4, <1>18, Zenon
    <2>2. PoolTyped'
      BY <1>3, <1>15, <2>1, FewPlaces, Zenon
    <2>3. reap'[t] = E \cup {h}
      BY <1>1, <1>7, <2>1, Zenon
    <2>4. \A s \in Pool!Sessions :
             Owns(t, s)' <=> Owns(t, s) \/ \E p \in DOMAIN idle \ K : idle[p].s = s
      BY <1>3, <1>7, <1>14, <2>3, Zenon
    <2>5. TakesOut(t, K)
      BY <1>2, <1>13, <2>1, <2>4, Zenon DEF TakesOut
    <2> QED
      BY <1>3, <1>7, <2>2, <2>5, TakenOut, Zenon
  <1>19. CASE ~aborts[h] /\ room
    <2>1. /\ DOMAIN idle' = K \cup {back} /\ reap' = [reap EXCEPT ![t] = E]
          /\ \A p \in K : idle'[p] = idle[p]
          /\ idle'[back] = entry
      BY <1>2, <1>4, <1>19, Zenon
    <2>2. reap'[t] = E
      BY <1>1, <1>7, <2>1, Zenon
    <2>3. /\ IsFiniteSet(K) /\ Cardinality(K) \in Nat
          /\ Pool!Cardinality(DOMAIN idle') = Cardinality(DOMAIN idle')
      BY <1>3, FewPlaces, PoolCardinality, Zenon
    <2>4. PoolFits'
      <3>1. Cardinality(DOMAIN idle') = Cardinality(K) + 1
        BY <1>4, <2>1, <2>3, Zenon DEF Facts
      <3>2. Cardinality(DOMAIN idle') <= PoolSize
        BY <1>6, <1>19, <2>3, <3>1 DEF Pool!WellFormed
      <3> QED
        BY <2>3, <3>2, Zenon DEF PoolFits
    <2>5. PoolTyped'
      <3>1. PICK x \in Nat : K \subseteq 1..x
        BY <1>3, FewPlaces, Zenon
      <3>2. PICK y \in Nat : y >= x /\ y >= back
        BY <1>4
      <3>3. DOMAIN idle' \subseteq 1..y
        <4>1. back \in 1..y /\ 1..x \subseteq 1..y
          BY <1>4, <3>2
        <4> QED
          BY <2>1, <3>1, <4>1, Zenon
      <3> QED
        BY <1>15, <3>2, <3>3, Zenon
    <2>6. \A s : Pooled(s)' <=> s = h \/ \E p \in K : idle[p].s = s
      BY <1>5, <2>1, Zenon DEF Pooled
    <2>7. /\ made' = made /\ made' \in 0..MaxSessions /\ made <= made'
          /\ \A s \in 1..made' : s \in Pool!Sessions /\ s <= made' /\ ~(made < s)
      BY <1>1, <1>2 DEF Pool!Sessions
    <2>8. Moves(t)
      <3>1. ASSUME NEW s \in Pool!Sessions, Owns(t, s)'
            PROVE  s <= made' /\ Pooled(s) /\ ~Pooled(s)'
        <4>1. PICK q \in DOMAIN idle \ K : idle[q].s = s
          BY <1>3, <1>14, <2>2, <3>1, Zenon
        <4>2. idle[q].s # h /\ \A p \in K : idle[p].s # idle[q].s
          BY <1>3, <1>9, <4>1, Zenon
        <4>3. ~Pooled(s)'
          BY <2>6, <4>1, <4>2, Zenon
        <4>4. s \in 1..made'
          BY <1>9, <2>7, <4>1, Zenon
        <4> QED
          BY <2>7, <4>1, <4>3, <4>4, Zenon DEF Pooled
      <3>2. h \in 1..made' /\ Owns(t, h)
        <4>1. Owns(t, h)
          BY <1>7, <1>8, Zenon
        <4>2. h <= made
          BY <1>7, <1>8, <4>1, Zenon DEF PoolInv, Made
        <4> QED
          BY <1>1, <1>8, <2>7, <4>1, <4>2 DEF Pool!Sessions
      <3>3. \A p \in DOMAIN idle' :
              idle'[p].s \in 1..made' /\ (Pooled(idle'[p].s) \/ Owns(t, idle'[p].s))
        BY <1>3, <1>5, <1>9, <2>1, <2>7, <3>2, Zenon DEF Pooled
      <3>4. ASSUME NEW p \in DOMAIN idle', NEW q \in DOMAIN idle', idle'[p].s = idle'[q].s
            PROVE  p = q
        <4>1. CASE p \in K /\ q \in K
          <5>1. idle'[p] = idle[p] /\ idle'[q] = idle[q] /\ p \in DOMAIN idle /\ q \in DOMAIN idle
            BY <1>3, <2>1, <4>1, Zenon
          <5>2. idle[p].s = idle[q].s
            BY <3>4, <5>1, Zenon
          <5> QED
            BY <1>9, <5>1, <5>2, Zenon
        <4>2. \A r \in K : idle'[r].s # h
          BY <1>3, <1>9, <2>1, Zenon
        <4>3. idle'[back].s = h
          BY <1>5, <2>1, Zenon
        <4> QED
          BY <2>1, <3>4, <4>1, <4>2, <4>3, Zenon
      <3> QED
        BY <1>13, <2>7, <3>1, <3>3, <3>4, Zenon DEF Moves
    <2>9. Answered(t)
      <3>1. ASSUME NEW s \in 1..made', Owns(t, s) \/ Pooled(s) PROVE Owns(t, s)' \/ Pooled(s)'
        <4>1. CASE Owns(t, s)
          BY <1>7, <2>6, <2>7, <4>1, Zenon
        <4>2. CASE Pooled(s)
          BY <1>3, <1>14, <2>2, <2>6, <2>7, <4>2, Zenon DEF Pooled
        <4> QED
          BY <3>1, <4>1, <4>2, Zenon
      <3> QED
        BY <1>16, <2>7, <3>1, Zenon DEF Answered
    <2> QED
      BY <1>7, <2>4, <2>5, <2>8, <2>9, OwnersStay, AllAccounted, Zenon DEF PoolInv
  <1> QED
    BY <1>17, <1>18, <1>19, Zenon

\* At the start there are no sessions.
LEMMA PoolInit ==
  ASSUME Facts, Pool!WellFormed, Pool!Init PROVE PoolInv
  <1>2. /\ MaxSessions \in Nat /\ PoolSize \in Nat /\ 0 \in Nat /\ 0 \in 0..MaxSessions
        /\ \A s \in Pool!Sessions : s # 0
        /\ \A s \in 1..0 : FALSE
        /\ 0 <= PoolSize
    BY DEF Pool!WellFormed, Pool!Sessions
  <1>3. DOMAIN idle = {} /\ made = 0
    BY DEF Pool!Init
  <1>4. \A a \in Pool!Actors : \A s \in Pool!Sessions : ~Owns(a, s)
    BY <1>2, Zenon DEF Pool!Init, Pool!None, Owns
  <1>5. PoolTyped
    BY <1>2, <1>3, Zenon DEF Pool!Init, Pool!None, Pool!Holding, PoolTyped, TaskSteps
  <1>6. Made /\ OneOwner
    BY <1>3, <1>4, Zenon DEF Made, OneOwner
  <1>7. \A s \in Pool!Sessions : ~aborts[s]
    BY Zenon DEF Pool!Init
  <1>8. Accounted
    BY <1>2, <1>3, <1>7, Zenon DEF Accounted
  <1>9. PoolFits
    BY <1>2, <1>3, PoolCardinality, Zenon DEF PoolFits, Facts
  <1> QED
    BY <1>5, <1>6, <1>8, <1>9, Zenon DEF PoolInv

\* Every step of the pool keeps the inductive invariant.
LEMMA PoolNext ==
  ASSUME Facts, Pool!WellFormed, PoolInv, [Pool!Next]_(Pool!vars) PROVE PoolInv'
  <1>2. ASSUME NEW t \in Tasks, Pool!Request(t) \/ Pool!TaskStep(t) PROVE PoolInv'
    BY <1>2, UseStep, AcquireStep, ConnectStep, ReleaseStep, Zenon DEF Pool!TaskStep
  <1>3. ASSUME NEW s \in Pool!Sessions, Pool!CloseStep(s) \/ Pool!RunSpawned(s) \/ Pool!SessionDies(s)
        PROVE  PoolInv'
    BY <1>3, PoolSessionStep, Zenon
  <1>4. ASSUME NEW a \in Pool!Actors, Pool!Reaped(a) \/ \E s \in Pool!Sessions : Pool!Reap(a, s)
        PROVE  PoolInv'
    BY <1>4, ReapStep, Zenon
  <1>5. ASSUME Pool!Sweep PROVE PoolInv'
    BY <1>5, SweepStep, Zenon
  <1>6. ASSUME Pool!DropShared PROVE PoolInv'
    BY <1>6, DropStep, Zenon
  <1>7. ASSUME Pool!Tick \/ Pool!StopListening \/ UNCHANGED Pool!vars PROVE PoolInv'
    BY <1>7, OtherStep, Zenon
  <1> QED
    BY <1>2, <1>3, <1>4, <1>5, <1>6, <1>7, Zenon DEF Pool!Next

\* A session that is in the pool or an actor's has that as its only owner.
LEMMA OwnersOf ==
  ASSUME Facts, Pool!WellFormed, PoolInv, NEW s \in Pool!Sessions
  PROVE  /\ Pool!Cardinality(Pool!Owners(s)) <= 1
         /\ Pool!Owners(s) = {} => ~Pooled(s) /\ \A a \in Pool!Actors : ~Owns(a, s)
  <1> DEFINE O == Pool!Owners(s)
  <1>1. \A o : o \in O <=> \/ \E p \in DOMAIN idle : idle[p].s = s /\ o = <<"pool", p>>
                           \/ \E a \in Pool!Actors : Owns(a, s) /\ o = <<"actor", a>>
    BY Zenon DEF Pool!Owners, Pool!Actors, Owns
  <1> HIDE DEF O
  <1>2. /\ \A p, q \in DOMAIN idle : idle[p].s = s /\ idle[q].s = s => p = q
        /\ \A a \in Pool!Actors : Owns(a, s) => ~Pooled(s)
        /\ \A a, b \in Pool!Actors : Owns(a, s) /\ Owns(b, s) => a = b
    <2>1. ASSUME NEW p \in DOMAIN idle, NEW q \in DOMAIN idle, idle[p].s = s, idle[q].s = s
          PROVE  p = q
      <3>1. idle[p].s = idle[q].s
        BY <2>1, Zenon
      <3> QED
        BY <3>1, Zenon DEF PoolInv, OneOwner
    <2> QED
      BY <2>1, Zenon DEF PoolInv, OneOwner
  <1>3. ASSUME NEW o \in O, NEW x \in O PROVE o = x
    <2>1. CASE \E p \in DOMAIN idle : idle[p].s = s
      <3>1. PICK p \in DOMAIN idle : idle[p].s = s
        BY <2>1, Zenon
      <3>2. o = <<"pool", p>> /\ x = <<"pool", p>>
        BY <1>1, <1>2, <1>3, <3>1, Zenon DEF Pooled
      <3> QED
        BY <3>2, Zenon
    <2>2. CASE ~\E p \in DOMAIN idle : idle[p].s = s
      <3>1. PICK a \in Pool!Actors : Owns(a, s) /\ o = <<"actor", a>>
        BY <1>1, <1>3, <2>2, Zenon
      <3>2. PICK b \in Pool!Actors : Owns(b, s) /\ x = <<"actor", b>>
        BY <1>1, <1>3, <2>2, Zenon
      <3> QED
        BY <1>2, <3>1, <3>2, Zenon
    <2> QED
      BY <2>1, <2>2, Zenon
  <1>4. ASSUME O # {} PROVE \E o : O = {o}
    <2>1. PICK o : o \in O
      BY <1>4, Zenon
    <2>2. O = {o}
      BY <1>3, <2>1, Zenon
    <2> QED
      BY <2>2, Zenon
  <1>5. Cardinality(O) = 0 \/ Cardinality(O) = 1
    BY <1>4, Zenon DEF Facts
  <1>6. Cardinality(O) <= 1
    BY <1>5
  <1>7. O = {} => ~Pooled(s) /\ \A a \in Pool!Actors : ~Owns(a, s)
    BY <1>1, Zenon DEF Pooled
  <1> QED
    BY <1>6, <1>7, PoolCardinality, Zenon DEF O

----------------------------------------------------------------------------
(* The facts and the theorems *)

\* Naturals are integers.
LEMMA Integral == 1 \in Int /\ \A n \in Nat : n \in Int
  OBVIOUS

\* The sessions made are sessions.
LEMMA MadeSessions == PoolInv => \A s \in 1..made : s \in Pool!Sessions
  BY PoolAssumption DEF PoolInv, PoolTyped, Pool!WellFormed, Pool!Sessions

INSTANCE FiniteSetTheorems

\* A set of naturals that is not empty has a least element.
LEMMA Least ==
  ASSUME NEW B \in SUBSET Nat, B # {}
  PROVE  \E n \in B : \A m \in B : n <= m
  <1>1. IsWellFoundedOn(OpToRel(<, Nat), Nat)
    BY NatLessThanWellFounded, Zenon
  <1>2. PICK n \in B : \A m \in B : ~(<<m, n>> \in OpToRel(<, Nat))
    BY <1>1, WFMin, Zenon
  <1>3. ASSUME NEW m \in B PROVE n <= m
    <2>1. ~(m < n)
      BY <1>2, Zenon DEF OpToRel
    <2> QED
      BY <2>1
  <1> QED
    BY <1>3, Zenon

\* The library gives the facts.
LEMMA FactsHold == Facts
  <1>1. ASSUME NEW T, IsFiniteSet(T), NEW S \in SUBSET T
        PROVE  IsFiniteSet(S) /\ Cardinality(S) \in Nat /\ Cardinality(T) \in Nat /\ Cardinality(S) <= Cardinality(T)
    BY <1>1, FS_Subset, FS_CardinalityType, Zenon
  <1>2. ASSUME NEW S, IsFiniteSet(S), NEW x, x \notin S PROVE Cardinality(S \cup {x}) = Cardinality(S) + 1
    BY <1>2, FS_AddElement, Zenon
  <1>3. Cardinality({}) = 0 /\ \A x : Cardinality({x}) = 1
    BY FS_EmptySet, FS_Singleton, Zenon
  <1>4. \A n \in Nat : IsFiniteSet(1..n)
    BY Integral, FS_Interval, Zenon
  <1> QED
    BY <1>1, <1>2, <1>3, <1>4, Least, Zenon DEF Facts

\* acquire, release and the sweeper: no session is ever given to two requests,
\* or to one while it is in the pool or being closed by another, for any number
\* of tasks and any size of the pool.
THEOREM SessionsHaveOneOwner == Pool!Spec => []Exclusive
  <1> USE PoolAssumption
  <1>1. Pool!Init => PoolInv
    BY PoolInit, FactsHold, Zenon
  <1>2. PoolInv /\ [Pool!Next]_(Pool!vars) => PoolInv'
    BY PoolNext, FactsHold, Zenon
  <1>3. PoolInv => Exclusive
    BY OwnersOf, FactsHold, Zenon DEF Exclusive, Pool!Exclusive
  <1> QED
    BY <1>1, <1>2, <1>3, PTL DEF Pool!Spec

\* ClientSession::close, Drop for StreamRegistration and for
\* SharedClientSession: a session without an owner is closed or about to be,
\* and the pool never holds more than MAX_IDLE_SESSIONS.
THEOREM SessionsAreNotDropped == Pool!Spec => []NotDropped
  <1> USE PoolAssumption
  <1>1. Pool!Init => PoolInv
    BY PoolInit, FactsHold, Zenon
  <1>2. PoolInv /\ [Pool!Next]_(Pool!vars) => PoolInv'
    BY PoolNext, FactsHold, Zenon
  <1>3. PoolInv => NotDropped
    <2>1. SUFFICES ASSUME PoolInv PROVE NotDropped
      BY Zenon
    <2>2. \A s \in 1..made : s \in Pool!Sessions
      BY <2>1, MadeSessions, Zenon
    <2>3. ASSUME NEW s \in 1..made, Pool!Owners(s) = {} PROVE closes[s] # "open" \/ s \in spawned
      BY <2>1, <2>2, <2>3, OwnersOf, FactsHold, Zenon DEF PoolInv, Accounted, Closing
    <2> QED
      BY <2>1, <2>3, Zenon DEF NotDropped, Pool!NotDropped, PoolInv, PoolFits
  <1> QED
    BY <1>1, <1>2, <1>3, PTL DEF Pool!Spec
=============================================================================
