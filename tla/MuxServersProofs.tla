-------------------------- MODULE MuxServersProofs --------------------------
(***************************************************************************)
(* The QUIC servers and the VLESS mux, for any number of commands, of      *)
(* associations, of session ids and of sessions, and for any order in      *)
(* which clients use them: CommandsServed and MuxTableExact.               *)
(***************************************************************************)
EXTENDS MuxPart, TLAPS

----------------------------------------------------------------------------
\* The commands of a QUIC connection (QuicServer).

\* Where a command is while it authenticates, and while it is served.
Authenticating == {"verify", "notify", "notify-error", "close"}
Serving == {"enter", "session", "error", "asleep", "open", "record", "remove", "relay"}
CommandLabels == {"idle", "done"} \cup Authenticating \cup Serving
Socket == [assoc : Assocs, user : Nat, seen : Nat]

\* Types.  The sockets and their reply tasks are numbered alike.
QuicTypes ==
    /\ Quic!WellFormed /\ scene \in Scenarios
    /\ link \in {"open", "closed", "ended"} /\ session \in Nat /\ error \in BOOLEAN /\ clock \in Nat
    /\ at \in [Commands -> CommandLabels] /\ heard \in [Commands -> BOOLEAN]
    /\ who \in [Commands -> Nat] /\ held \in [Commands -> Nat]
    /\ assocs \in [Assocs -> Nat] /\ last \in [Assocs -> [s : Nat, at : Nat]]
    /\ sock \in Seq(Socket) /\ resp \in [1..Len(sock) -> {"run", "ended", "aborted"}]

\* A function on an initial segment is a sequence of that length.
LEMMA SegmentSeq ==
  ASSUME NEW S, NEW n \in Nat, NEW f \in [1..n -> S]
  PROVE  f \in Seq(S) /\ Len(f) = n
  OBVIOUS

\* The initial states are typed.
LEMMA QuicInitTypes == Quic!WellFormed /\ Quic!Init => QuicTypes
  <1> SUFFICES ASSUME Quic!WellFormed, Quic!Init PROVE QuicTypes
    BY Zenon
  <1>1. resp \in [1..Len(sock) -> {"run", "ended", "aborted"}] /\ sock \in Seq(Socket)
    BY DEF Quic!Init
  <1>2. heard \in [Commands -> BOOLEAN] /\ error \in BOOLEAN
    BY Zenon DEF Quic!Init
  <1>3. at \in [Commands -> CommandLabels]
    BY Zenon DEF Quic!Init, CommandLabels
  <1>4. last \in [Assocs -> [s : Nat, at : Nat]]
    BY Zenon DEF Quic!Init, Quic!Never
  <1> QED
    BY <1>1, <1>2, <1>3, <1>4, Zenon DEF Quic!Init, QuicTypes, Quic!NoOne

\* A scenario gives every command a kind, a user and an association.
LEMMA SceneTyped ==
  ASSUME QuicTypes, NEW c \in Commands
  PROVE  Quic!Kind(c) \in Quic!Kinds /\ Quic!Assoc(c) \in Assocs /\ scene.user[c] \in Nat
  BY Zenon DEF QuicTypes, Quic!WellFormed, Quic!Kind, Quic!Assoc

\* The reply tasks are a sequence, as long as that of the sockets.
LEMMA TasksSeq == QuicTypes => resp \in Seq({"run", "ended", "aborted"}) /\ Len(resp) = Len(sock)
  <1> SUFFICES ASSUME QuicTypes PROVE resp \in Seq({"run", "ended", "aborted"}) /\ Len(resp) = Len(sock)
    BY Zenon
  <1>1. Len(sock) \in Nat /\ resp \in [1..Len(sock) -> {"run", "ended", "aborted"}]
    BY DEF QuicTypes
  <1> QED
    BY <1>1, SegmentSeq, Zenon

\* Dropping references keeps the reply tasks typed.
LEMMA DroppedTyped ==
  ASSUME NEW n \in Nat, NEW t \in [1..n -> {"run", "ended", "aborted"}]
  PROVE  Quic!Dropped(t) \in [1..n -> {"run", "ended", "aborted"}]
  BY Zenon DEF Quic!Dropped

\* A command that goes to a label.
LEMMA GotoTyped ==
  ASSUME at \in [Commands -> CommandLabels], NEW c \in Commands, NEW l \in CommandLabels, Quic!Goto(c, l)
  PROVE  at' \in [Commands -> CommandLabels] /\ at'[c] = l /\ \A d \in Commands : d # c => at'[d] = at[d]
  BY Zenon DEF Quic!Goto

\* A command that waited goes on to a label of its kind.
LEMMA AfterWaitLabel ==
  ASSUME NEW c \in Commands, Quic!Kind(c) \in Quic!Kinds \ {"auth"}
  PROVE  /\ Quic!AfterWait(c) \in {"open", "remove", "relay"}
         /\ Quic!AfterWait(c) = "open" => Quic!Kind(c) \in {"packet", "datagram"}
         /\ Quic!AfterWait(c) = "relay" => Quic!Kind(c) = "connect"
  BY Zenon DEF Quic!AfterWait, Quic!Kinds

\* Where a command is depends on its kind: an Authenticate is never made to
\* wait, and a packet has a user before it has a socket, which it holds while
\* it sends.
Place(c) ==
    /\ at[c] \in Authenticating => Quic!Kind(c) = "auth"
    /\ at[c] \in Serving => Quic!Kind(c) # "auth"
    /\ at[c] \in {"open", "record"} => Quic!Kind(c) \in {"packet", "datagram"} /\ who[c] # Quic!NoOne
    /\ at[c] = "relay" => Quic!Kind(c) = "connect"
    /\ held[c] # 0 <=> at[c] = "record"
    /\ held[c] \in 0..Len(sock)
Places == \A c \in Commands : Place(c)

\* Noting the time of a socket changes that and nothing else.
LEMMA SeenTyped ==
  ASSUME sock \in Seq(Socket), clock \in Nat, NEW s \in 1..Len(sock)
  PROVE  /\ Quic!Seen(s) \in Seq(Socket) /\ Len(Quic!Seen(s)) = Len(sock)
         /\ Quic!Seen(s)[s].seen = clock /\ Quic!Seen(s)[s].user = sock[s].user
         /\ \A t \in 1..Len(sock) : t # s => Quic!Seen(s)[t] = sock[t]
  <1> DEFINE e == [sock[s] EXCEPT !.seen = clock]
  <1>1. sock[s] \in Socket
    OBVIOUS
  <1>2. e \in Socket /\ e.seen = clock /\ e.user = sock[s].user
    BY <1>1, Zenon DEF Socket
  <1>3. Quic!Seen(s) = [sock EXCEPT ![s] = e]
    BY Zenon DEF Quic!Seen
  <1> HIDE DEF e
  <1> QED
    BY <1>2, <1>3

\* Every step keeps the types.
LEMMA QuicNextTypes == QuicTypes /\ Places /\ [Quic!Next]_(Quic!vars) => QuicTypes'
  <1> SUFFICES ASSUME QuicTypes, Places PROVE [Quic!Next]_(Quic!vars) => QuicTypes'
    BY Zenon
  <1> USE DEF CommandLabels, Authenticating, Serving
  <1>t. /\ Quic!WellFormed /\ scene \in Scenarios
        /\ link \in {"open", "closed", "ended"} /\ session \in Nat /\ clock \in Nat
        /\ at \in [Commands -> CommandLabels] /\ who \in [Commands -> Nat] /\ held \in [Commands -> Nat]
        /\ assocs \in [Assocs -> Nat] /\ last \in [Assocs -> [s : Nat, at : Nat]]
        /\ sock \in Seq(Socket) /\ resp \in [1..Len(sock) -> {"run", "ended", "aborted"}]
        /\ Len(sock) \in Nat
    BY DEF QuicTypes
  <1>b. error \in BOOLEAN /\ heard \in [Commands -> BOOLEAN]
    BY Zenon DEF QuicTypes
  <1>d. Quic!Dropped(resp) \in [1..Len(sock) -> {"run", "ended", "aborted"}]
    BY <1>t, DroppedTyped, Zenon
  <1>1. ASSUME NEW c \in Commands, Quic!Accept(c) PROVE QuicTypes'
    <2>1. at' \in [Commands -> CommandLabels]
      BY <1>1, <1>t, GotoTyped, Zenon DEF Quic!Accept, Quic!TuicAccept, Quic!Hy2Accept
    <2>2. heard' = heard /\ error' = error
      BY <1>1, Zenon DEF Quic!Accept
    <2> QED
      BY <1>1, <1>t, <1>b, <2>1, <2>2, Zenon DEF Quic!Accept, QuicTypes
  <1>2. ASSUME NEW c \in Commands, NEW ok \in BOOLEAN, Quic!Verify(c, ok) PROVE QuicTypes'
    <2>1. at' \in [Commands -> CommandLabels]
      BY <1>2, <1>t, GotoTyped, Zenon DEF Quic!Verify, Quic!TuicVerify, Quic!Hy2Verify
    <2>2. session' \in Nat /\ link' \in {"open", "closed", "ended"}
      BY <1>2, <1>t, SceneTyped, Zenon DEF Quic!Verify, Quic!TuicVerify, Quic!Hy2Verify
    <2>3. heard' = heard /\ error' \in BOOLEAN
      BY <1>2, <1>b, Zenon DEF Quic!Verify, Quic!TuicVerify, Quic!Hy2Verify
    <2>4. resp' = Quic!Dropped(resp) /\ UNCHANGED <<scene, who, held, assocs, sock, last, clock>>
      BY <1>2, Zenon DEF Quic!Verify, Quic!Drop
    <2> QED
      BY <1>t, <1>b, <1>d, <2>1, <2>2, <2>3, <2>4, Zenon DEF QuicTypes
  <1>3. ASSUME NEW c \in Commands, NEW ok \in BOOLEAN, Quic!Send(c, ok) PROVE QuicTypes'
    <2>1. at' \in [Commands -> CommandLabels]
      BY <1>3, <1>t, GotoTyped, Zenon DEF Quic!Send
    <2>2. held[c] \in 1..Len(sock) /\ Quic!Assoc(c) \in Assocs
      BY <1>3, <1>t, SceneTyped DEF Quic!Send, Places, Place
    <2>3. sock' \in Seq(Socket) /\ Len(sock') = Len(sock)
      BY <1>3, <1>t, <2>2, SeenTyped, Zenon DEF Quic!Send
    <2>4. last' \in [Assocs -> [s : Nat, at : Nat]]
      BY <1>3, <1>t, <2>2, Zenon DEF Quic!Send
    <2>5. held' \in [Commands -> Nat]
      BY <1>3, <1>t, Zenon DEF Quic!Send
    <2>6. resp' = Quic!Dropped(resp) /\ UNCHANGED <<scene, link, session, error, heard, who, assocs, clock>>
      BY <1>3, Zenon DEF Quic!Send, Quic!Drop
    <2> QED
      BY <1>t, <1>b, <1>d, <2>1, <2>3, <2>4, <2>5, <2>6, Zenon DEF QuicTypes
  <1>4. ASSUME NEW c \in Commands, Quic!NotifyWaiters(c) PROVE QuicTypes'
    <2>1. at' \in [Commands -> CommandLabels]
      BY <1>4, <1>t, GotoTyped, Zenon DEF Quic!NotifyWaiters
    <2>2. heard' \in [Commands -> BOOLEAN]
      BY <1>4, <1>b, Zenon DEF Quic!NotifyWaiters
    <2>3. resp' = Quic!Dropped(resp)
          /\ UNCHANGED <<scene, link, session, error, who, held, assocs, sock, last, clock>>
      BY <1>4, Zenon DEF Quic!NotifyWaiters, Quic!Drop
    <2> QED
      BY <1>t, <1>b, <1>d, <2>1, <2>2, <2>3, Zenon DEF QuicTypes
  <1>5. ASSUME NEW c \in Commands, Quic!CloseOnError(c) PROVE QuicTypes'
    <2>1. at' \in [Commands -> CommandLabels] /\ link' \in {"open", "closed", "ended"}
      BY <1>5, <1>t, GotoTyped, Zenon DEF Quic!CloseOnError
    <2>3. resp' = Quic!Dropped(resp)
          /\ UNCHANGED <<scene, session, error, heard, who, held, assocs, sock, last, clock>>
      BY <1>5, Zenon DEF Quic!CloseOnError, Quic!Drop
    <2> QED
      BY <1>t, <1>b, <1>d, <2>1, <2>3, Zenon DEF QuicTypes
  <1>6. ASSUME NEW c \in Commands, Quic!Enter(c) PROVE QuicTypes'
    <2>1. at' \in [Commands -> CommandLabels]
      BY <1>6, <1>t, GotoTyped, Zenon DEF Quic!Enter
    <2>2. heard' \in [Commands -> BOOLEAN]
      BY <1>6, <1>b, Zenon DEF Quic!Enter
    <2>3. UNCHANGED <<scene, link, session, error, who, held, assocs, sock, resp, last, clock>>
      BY <1>6, Zenon DEF Quic!Enter
    <2> QED
      BY <1>t, <1>b, <2>1, <2>2, <2>3, Zenon DEF QuicTypes
  <1>7. ASSUME NEW c \in Commands, Quic!CheckSession(c) PROVE QuicTypes'
    <2>0. Quic!AfterWait(c) \in CommandLabels
      BY <1>7, SceneTyped, AfterWaitLabel, Zenon DEF Quic!CheckSession, Places, Place
    <2>1. at' \in [Commands -> CommandLabels] /\ who' \in [Commands -> Nat]
      BY <1>7, <1>t, <2>0, GotoTyped, Zenon DEF Quic!CheckSession
    <2>3. UNCHANGED <<scene, link, session, error, heard, held, assocs, sock, resp, last, clock>>
      BY <1>7, Zenon DEF Quic!CheckSession
    <2> QED
      BY <1>t, <1>b, <2>1, <2>3, Zenon DEF QuicTypes
  <1>8. ASSUME NEW c \in Commands, Quic!CheckError(c) PROVE QuicTypes'
    <2>1. at' \in [Commands -> CommandLabels]
      BY <1>8, <1>t, GotoTyped, Zenon DEF Quic!CheckError
    <2>3. resp' = Quic!Dropped(resp)
          /\ UNCHANGED <<scene, link, session, error, heard, who, held, assocs, sock, last, clock>>
      BY <1>8, Zenon DEF Quic!CheckError, Quic!Drop
    <2> QED
      BY <1>t, <1>b, <1>d, <2>1, <2>3, Zenon DEF QuicTypes
  <1>9. ASSUME NEW c \in Commands, Quic!Wake(c) PROVE QuicTypes'
    <2>1. at' \in [Commands -> CommandLabels]
      BY <1>9, <1>t, GotoTyped, Zenon DEF Quic!Wake
    <2>3. UNCHANGED <<scene, link, session, error, heard, who, held, assocs, sock, resp, last, clock>>
      BY <1>9, Zenon DEF Quic!Wake
    <2> QED
      BY <1>t, <1>b, <2>1, <2>3, Zenon DEF QuicTypes
  <1>10. ASSUME NEW c \in Commands, Quic!Acquire(c) PROVE QuicTypes'
    <2>0. Quic!Assoc(c) \in Assocs /\ who[c] \in Nat /\ Quic!Bind(c) \in Socket
      BY <1>t, SceneTyped, Zenon DEF Quic!Bind, Socket
    <2>1. at' \in [Commands -> CommandLabels]
      BY <1>10, <1>t, GotoTyped, Zenon DEF Quic!Acquire
    <2>2. held' \in [Commands -> Nat] /\ assocs' \in [Assocs -> Nat]
      <3>1. CASE held' = [held EXCEPT ![c] = assocs[Quic!Assoc(c)]] /\ assocs' = assocs
        BY <1>t, <2>0, <3>1, Zenon
      <3>2. CASE held' = [held EXCEPT ![c] = Len(sock) + 1]
                 /\ assocs' = [assocs EXCEPT ![Quic!Assoc(c)] = Len(sock) + 1]
        BY <1>t, <2>0, <3>2
      <3>3. CASE UNCHANGED <<held, assocs>>
        BY <1>t, <3>3, Zenon
      <3> QED
        BY <1>10, <3>1, <3>2, <3>3, Zenon DEF Quic!Acquire
    <2>3. UNCHANGED <<scene, link, session, error, heard, who, last, clock>>
      BY <1>10, Zenon DEF Quic!Acquire
    <2>4. CASE UNCHANGED <<sock, resp>>
      BY <1>t, <1>b, <2>1, <2>2, <2>3, <2>4, Zenon DEF QuicTypes
    <2>5. CASE sock' = Append(sock, Quic!Bind(c)) /\ resp' = Append(resp, "run")
      <3>1. resp \in Seq({"run", "ended", "aborted"}) /\ Len(resp) = Len(sock)
        BY TasksSeq, Zenon
      <3>2. sock' \in Seq(Socket) /\ Len(sock') = Len(sock) + 1
        BY <1>t, <2>0, <2>5
      <3>3. resp' \in Seq({"run", "ended", "aborted"}) /\ Len(resp') = Len(sock')
        BY <2>5, <3>1, <3>2, <1>t
      <3>4. resp' \in [1..Len(sock') -> {"run", "ended", "aborted"}]
        BY <3>3
      <3> QED
        BY <1>t, <1>b, <2>1, <2>2, <2>3, <3>2, <3>4, Zenon DEF QuicTypes
    <2>6. CASE sock' = sock /\ resp' = Quic!Dropped(resp)
      BY <1>t, <1>b, <1>d, <2>1, <2>2, <2>3, <2>6, Zenon DEF QuicTypes
    <2> QED
      BY <1>10, <2>4, <2>5, <2>6, Zenon DEF Quic!Acquire, Quic!Drop
  <1>11. ASSUME NEW c \in Commands, Quic!Remove(c) PROVE QuicTypes'
    <2>1. at' \in [Commands -> CommandLabels]
      BY <1>11, <1>t, GotoTyped, Zenon DEF Quic!Remove
    <2>2. assocs' \in [Assocs -> Nat] /\ last' \in [Assocs -> [s : Nat, at : Nat]]
      BY <1>11, <1>t, Zenon DEF Quic!Remove, Quic!Never
    <2>3. resp' = Quic!Dropped(resp)
          /\ UNCHANGED <<scene, link, session, error, heard, who, held, sock, clock>>
      BY <1>11, Zenon DEF Quic!Remove, Quic!Drop
    <2> QED
      BY <1>t, <1>b, <1>d, <2>1, <2>2, <2>3, Zenon DEF QuicTypes
  <1>12. ASSUME NEW c \in Commands, Quic!RelayEnds(c) PROVE QuicTypes'
    <2>1. at' \in [Commands -> CommandLabels]
      BY <1>12, <1>t, GotoTyped, Zenon DEF Quic!RelayEnds
    <2>3. UNCHANGED <<scene, link, session, error, heard, who, held, assocs, sock, resp, last, clock>>
      BY <1>12, Zenon DEF Quic!RelayEnds
    <2> QED
      BY <1>t, <1>b, <2>1, <2>3, Zenon DEF QuicTypes
  <1>13. ASSUME NEW s \in DOMAIN resp, Quic!ReplyFails(s) PROVE QuicTypes'
    <2>1. resp' \in [1..Len(sock) -> {"run", "ended", "aborted"}]
      BY <1>13, <1>t, Zenon DEF Quic!ReplyFails
    <2>3. UNCHANGED <<scene, link, session, error, at, heard, who, held, assocs, sock, last, clock>>
      BY <1>13, Zenon DEF Quic!ReplyFails
    <2> QED
      BY <1>t, <1>b, <2>1, <2>3, Zenon DEF QuicTypes
  <1>14. ASSUME Quic!AuthTimeout \/ Quic!Tick \/ Quic!Close PROVE QuicTypes'
    <2>1. link' \in {"open", "closed", "ended"} /\ clock' \in Nat
      BY <1>14, <1>t DEF Quic!AuthTimeout, Quic!Tick, Quic!Close
    <2>2. UNCHANGED <<scene, session, error, at, heard, who, held, assocs, sock, resp, last>>
      BY <1>14, Zenon DEF Quic!AuthTimeout, Quic!Tick, Quic!Close
    <2> QED
      BY <1>t, <1>b, <2>1, <2>2, Zenon DEF QuicTypes
  <1>15. ASSUME Quic!Cleanup PROVE QuicTypes'
    <2>1. assocs' \in [Assocs -> Nat] /\ last' \in [Assocs -> [s : Nat, at : Nat]]
      BY <1>15, <1>t, Zenon DEF Quic!Cleanup, Quic!Never
    <2>3. resp' = Quic!Dropped(resp)
          /\ UNCHANGED <<scene, link, session, error, at, heard, who, held, sock, clock>>
      BY <1>15, Zenon DEF Quic!Cleanup, Quic!Drop
    <2> QED
      BY <1>t, <1>b, <1>d, <2>1, <2>3, Zenon DEF QuicTypes
  <1>16. ASSUME Quic!HandlerEnds PROVE QuicTypes'
    <2>1. at' \in [Commands -> CommandLabels] /\ held' \in [Commands -> Nat] /\ link' = "ended"
      BY <1>16, <1>t, Zenon DEF Quic!HandlerEnds
    <2>3. resp' = Quic!Dropped(resp)
          /\ UNCHANGED <<scene, session, error, heard, who, assocs, sock, last, clock>>
      BY <1>16, Zenon DEF Quic!HandlerEnds, Quic!Drop
    <2> QED
      BY <1>t, <1>b, <1>d, <2>1, <2>3, Zenon DEF QuicTypes
  <1>17. CASE UNCHANGED Quic!vars
    BY <1>t, <1>b, <1>17, Zenon DEF Quic!vars, QuicTypes
  <1> QED
    BY <1>1, <1>2, <1>3, <1>4, <1>5, <1>6, <1>7, <1>8, <1>9, <1>10, <1>11, <1>12, <1>13, <1>14, <1>15,
       <1>16, <1>17, Zenon DEF Quic!Next, Quic!Step

\* The associations' sockets: each has a user, and the one that last sent for
\* an association is in the table and has been seen since.
Socks ==
    /\ \A s \in 1..Len(sock) : sock[s].user # Quic!NoOne /\ sock[s].seen <= clock
    /\ \A a \in Assocs :
          /\ assocs[a] \in 0..Len(sock)
          /\ last[a].s # 0 => assocs[a] = last[a].s /\ last[a].at <= sock[last[a].s].seen

\* A command that a step leaves alone stays where it may be.
LEMMA PlaceKept ==
  ASSUME NEW d \in Commands, Place(d), at'[d] = at[d], who'[d] = who[d], held'[d] = held[d], scene' = scene,
         Len(sock) \in Nat, Len(sock') \in Nat, Len(sock) <= Len(sock')
  PROVE  Place(d)'
  BY DEF Place, Quic!Kind

\* What the end of the handler does to a command.
LEMMA HandlerCuts ==
  ASSUME Quic!HandlerEnds, NEW d \in Commands
  PROVE  \/ at'[d] = at[d] /\ held'[d] = held[d]
         \/ at'[d] = "done" /\ held'[d] = 0 /\ Quic!Tuic /\ Quic!Kind(d) = "datagram"
  <1> DEFINE cut(c) == Quic!Tuic /\ Quic!Kind(c) = "datagram" /\ Quic!Active(c)
  <1>1. /\ at' = [c \in Commands |-> IF cut(c) THEN "done" ELSE at[c]]
        /\ held' = [c \in Commands |-> IF cut(c) THEN 0 ELSE held[c]]
    BY Zenon DEF Quic!HandlerEnds
  <1>2. cut(d) => Quic!Tuic /\ Quic!Kind(d) = "datagram"
    BY Zenon
  <1> HIDE DEF cut
  <1> QED
    BY <1>1, <1>2, Zenon

\* Every step keeps the commands where they may be.
LEMMA NextPlaces == QuicTypes /\ QuicTypes' /\ Places /\ Socks /\ [Quic!Next]_(Quic!vars) => Places'
  <1> SUFFICES ASSUME QuicTypes, QuicTypes', Places, Socks, NEW d \in Commands
               PROVE  [Quic!Next]_(Quic!vars) => Place(d)'
    BY Zenon DEF Places
  <1> USE DEF Authenticating, Serving, Quic!NoOne
  <1>t. /\ at \in [Commands -> CommandLabels] /\ who \in [Commands -> Nat] /\ held \in [Commands -> Nat]
        /\ Len(sock) \in Nat /\ Len(sock') \in Nat /\ session \in Nat
    BY DEF QuicTypes
  <1>p. Place(d) /\ Quic!Kind(d) \in Quic!Kinds
    BY SceneTyped, Zenon DEF Places
  <1>1. ASSUME NEW c \in Commands, Quic!Accept(c) PROVE Place(d)'
    <2>1. UNCHANGED <<scene, who, held, sock>>
      BY <1>1, Zenon DEF Quic!Accept
    <2>2. CASE c # d
      BY <1>1, <1>t, <1>p, <2>1, <2>2, PlaceKept
      DEF Quic!Accept, Quic!TuicAccept, Quic!Hy2Accept, Quic!Goto
    <2>3. CASE c = d
      BY <1>1, <1>t, <1>p, <2>1, <2>3, Zenon
      DEF Quic!Accept, Quic!TuicAccept, Quic!Hy2Accept, Quic!Goto, Place, Quic!Kind
    <2> QED
      BY <2>2, <2>3, Zenon
  <1>2. ASSUME NEW c \in Commands, NEW ok \in BOOLEAN, Quic!Verify(c, ok) PROVE Place(d)'
    <2>1. UNCHANGED <<scene, who, held, sock>>
      BY <1>2, Zenon DEF Quic!Verify
    <2>2. CASE c # d
      BY <1>2, <1>t, <1>p, <2>1, <2>2, PlaceKept
      DEF Quic!Verify, Quic!TuicVerify, Quic!Hy2Verify, Quic!Goto
    <2>3. CASE c = d
      BY <1>2, <1>t, <1>p, <2>1, <2>3, Zenon
      DEF Quic!Verify, Quic!TuicVerify, Quic!Hy2Verify, Quic!Goto, Place, Quic!Kind
    <2> QED
      BY <2>2, <2>3, Zenon
  <1>3. ASSUME NEW c \in Commands, NEW ok \in BOOLEAN, Quic!Send(c, ok) PROVE Place(d)'
    <2>1. UNCHANGED <<scene, who>> /\ held' = [held EXCEPT ![c] = 0] /\ at' = [at EXCEPT ![c] = "done"]
      BY <1>3, Zenon DEF Quic!Send, Quic!Goto
    <2>2. held[c] \in 1..Len(sock)
      BY <1>3, <1>t DEF Quic!Send, Places, Place
    <2>3. Len(sock') = Len(sock)
      BY <1>3, <2>2, SeenTyped, Zenon DEF Quic!Send, QuicTypes
    <2>4. CASE c # d
      BY <1>t, <1>p, <2>1, <2>3, <2>4, PlaceKept
    <2>5. CASE c = d
      BY <1>t, <1>p, <2>1, <2>5 DEF Place, Quic!Kind
    <2> QED
      BY <2>4, <2>5, Zenon
  <1>4. ASSUME NEW c \in Commands, Quic!NotifyWaiters(c) PROVE Place(d)'
    <2>1. UNCHANGED <<scene, who, held, sock>> /\ Quic!Goto(c, IF at[c] = "notify" THEN "done" ELSE "close")
          /\ at[c] \in {"notify", "notify-error"}
      BY <1>4, Zenon DEF Quic!NotifyWaiters
    <2>2. CASE c # d
      BY <1>t, <1>p, <2>1, <2>2, PlaceKept DEF Quic!Goto
    <2>3. CASE c = d
      BY <1>t, <1>p, <2>1, <2>3, Zenon DEF Quic!Goto, Place, Quic!Kind
    <2> QED
      BY <2>2, <2>3, Zenon
  <1>5. ASSUME NEW c \in Commands,
               Quic!CloseOnError(c) \/ Quic!Enter(c) \/ Quic!CheckError(c) \/ Quic!Wake(c)
                 \/ Quic!Remove(c) \/ Quic!RelayEnds(c)
        PROVE  Place(d)'
    <2>1. UNCHANGED <<scene, who, held, sock>>
      BY <1>5, Zenon
      DEF Quic!CloseOnError, Quic!Enter, Quic!CheckError, Quic!Wake, Quic!Remove, Quic!RelayEnds
    <2>2. \/ at[c] \in {"close", "error", "remove", "relay"} /\ Quic!Goto(c, "done")
          \/ at[c] = "enter" /\ Quic!Goto(c, "session")
          \/ at[c] = "error" /\ Quic!Goto(c, "asleep")
          \/ at[c] = "asleep" /\ Quic!Goto(c, "enter")
      BY <1>5, Zenon
      DEF Quic!CloseOnError, Quic!Enter, Quic!CheckError, Quic!Wake, Quic!Remove, Quic!RelayEnds
    <2>3. CASE c # d
      BY <1>t, <1>p, <2>1, <2>2, <2>3, PlaceKept DEF Quic!Goto
    <2>4. CASE c = d
      BY <1>t, <1>p, <2>1, <2>2, <2>4, Zenon DEF Quic!Goto, Place, Quic!Kind
    <2> QED
      BY <2>3, <2>4, Zenon
  <1>6. ASSUME NEW c \in Commands, Quic!CheckSession(c) PROVE Place(d)'
    <2>1. UNCHANGED <<scene, held, sock>> /\ who' = [who EXCEPT ![c] = session] /\ at[c] = "session"
          /\ Quic!Goto(c, IF session # Quic!NoOne THEN Quic!AfterWait(c) ELSE "error")
      BY <1>6, Zenon DEF Quic!CheckSession
    <2>2. CASE c # d
      BY <1>t, <1>p, <2>1, <2>2, PlaceKept DEF Quic!Goto
    <2>3. CASE c = d
      <3>1. Quic!Kind(d) \in Quic!Kinds \ {"auth"} /\ held[d] = 0
        BY <1>t, <1>p, <2>1, <2>3, Zenon DEF Place
      <3>2. /\ Quic!AfterWait(d) \in {"open", "remove", "relay"}
            /\ Quic!AfterWait(d) = "open" => Quic!Kind(d) \in {"packet", "datagram"}
            /\ Quic!AfterWait(d) = "relay" => Quic!Kind(d) = "connect"
        BY <3>1, AfterWaitLabel, Zenon
      <3> HIDE DEF Quic!AfterWait
      <3> QED
        BY <1>t, <1>p, <2>1, <2>3, <3>1, <3>2, Zenon DEF Quic!Goto, Place, Quic!Kind
    <2> QED
      BY <2>2, <2>3, Zenon
  <1>7. ASSUME NEW c \in Commands, Quic!Acquire(c) PROVE Place(d)'
    <2>1. UNCHANGED <<scene, who>> /\ at[c] = "open"
      BY <1>7, Zenon DEF Quic!Acquire
    <2>2. Quic!Assoc(c) \in Assocs /\ assocs[Quic!Assoc(c)] \in 0..Len(sock)
      BY SceneTyped, Zenon DEF Socks
    <2>3. CASE assocs[Quic!Assoc(c)] # 0 /\ held' = [held EXCEPT ![c] = assocs[Quic!Assoc(c)]]
               /\ Quic!Goto(c, "record") /\ sock' = sock
      <3>1. CASE c # d
        BY <1>t, <1>p, <2>1, <2>3, <3>1, PlaceKept DEF Quic!Goto
      <3>2. CASE c = d
        BY <1>t, <1>p, <2>1, <2>2, <2>3, <3>2, Zenon DEF Quic!Goto, Place, Quic!Kind
      <3> QED
        BY <3>1, <3>2, Zenon
    <2>4. CASE held' = [held EXCEPT ![c] = Len(sock) + 1] /\ Quic!Goto(c, "record")
               /\ sock' = Append(sock, Quic!Bind(c))
      <3>1. Len(sock') = Len(sock) + 1
        BY <1>t, <2>4 DEF QuicTypes
      <3>2. CASE c # d
        BY <1>t, <1>p, <2>1, <2>4, <3>1, <3>2, PlaceKept DEF Quic!Goto
      <3>3. CASE c = d
        BY <1>t, <1>p, <2>1, <2>4, <3>1, <3>3 DEF Quic!Goto, Place, Quic!Kind
      <3> QED
        BY <3>2, <3>3, Zenon
    <2>5. CASE UNCHANGED <<held, sock>> /\ Quic!Goto(c, "done")
      <3>1. CASE c # d
        BY <1>t, <1>p, <2>1, <2>5, <3>1, PlaceKept DEF Quic!Goto
      <3>2. CASE c = d
        BY <1>t, <1>p, <2>1, <2>5, <3>2, Zenon DEF Quic!Goto, Place, Quic!Kind
      <3> QED
        BY <3>1, <3>2, Zenon
    <2> QED
      BY <1>7, <2>3, <2>4, <2>5, Zenon DEF Quic!Acquire
  <1>8. CASE Quic!HandlerEnds
    <2>1. UNCHANGED <<scene, who, sock>>
      BY <1>8, Zenon DEF Quic!HandlerEnds
    <2>2. (at'[d] = at[d] /\ held'[d] = held[d]) \/ (at'[d] = "done" /\ held'[d] = 0)
      BY <1>8, HandlerCuts, Zenon
    <2> QED
      BY <1>t, <1>p, <2>1, <2>2 DEF Place, Quic!Kind
  <1>9. CASE UNCHANGED <<scene, at, who, held, sock>>
    BY <1>t, <1>p, <1>9, PlaceKept
  <1>10. ASSUME Quic!AuthTimeout \/ Quic!Tick \/ Quic!Cleanup \/ Quic!Close
                \/ (\E s \in DOMAIN resp : Quic!ReplyFails(s)) \/ UNCHANGED Quic!vars
         PROVE  UNCHANGED <<scene, at, who, held, sock>>
    BY <1>10, Zenon DEF Quic!AuthTimeout, Quic!Tick, Quic!Cleanup, Quic!Close, Quic!ReplyFails, Quic!vars
  <1> QED
    BY <1>1, <1>2, <1>3, <1>4, <1>5, <1>6, <1>7, <1>8, <1>9, <1>10, Zenon DEF Quic!Next, Quic!Step

\* The wake-ups.  A command that has looked for the session before it was
\* there has been notified of it, or is about to be; Hysteria2 has no command
\* waiting before its session is there.
Notifying == \E d \in Commands : at[d] \in {"notify", "notify-error"}
Told(c) ==
    /\ at[c] = "asleep" /\ (session # Quic!NoOne \/ error) => heard[c] \/ Notifying
    /\ at[c] = "error" /\ session # Quic!NoOne => heard[c] \/ Notifying
    /\ ~Quic!Tuic /\ session = Quic!NoOne /\ Quic!Kind(c) # "auth" => at[c] = "idle"
Wakeups == \A c \in Commands : Told(c)

\* A step that takes nothing back keeps a command told: it leaves the command
\* alone or brings it to a place where nothing is owed.
LEMMA ToldKept ==
  ASSUME NEW d \in Commands, Told(d), UNCHANGED <<scene, session, error>>, heard'[d] = heard[d],
         Notifying => Notifying', at'[d] = at[d] \/ at'[d] \notin {"error", "asleep"},
         at'[d] = at[d] \/ Quic!Tuic \/ session # Quic!NoOne \/ Quic!Kind(d) = "auth"
  PROVE  Told(d)'
  BY Zenon DEF Told, Quic!Tuic, Quic!Kind

\* A command that goes on keeps the notifications of the others under way.
LEMMA NotifyingKept ==
  ASSUME at \in [Commands -> CommandLabels], NEW c \in Commands, NEW l, Quic!Goto(c, l),
         at[c] \notin {"notify", "notify-error"}, Notifying
  PROVE  Notifying'
  BY Zenon DEF Quic!Goto, Notifying

\* Every step keeps the wake-ups.
LEMMA NextWakeups == QuicTypes /\ Places /\ Wakeups /\ [Quic!Next]_(Quic!vars) => Wakeups'
  <1> SUFFICES ASSUME QuicTypes, Places, Wakeups, NEW d \in Commands
               PROVE  [Quic!Next]_(Quic!vars) => Told(d)'
    BY Zenon DEF Wakeups
  <1> USE DEF Quic!NoOne
  <1>t. at \in [Commands -> CommandLabels] /\ session \in Nat /\ Told(d)
    BY Zenon DEF QuicTypes, Wakeups
  <1>b. error \in BOOLEAN /\ heard \in [Commands -> BOOLEAN]
    BY Zenon DEF QuicTypes
  <1>1. ASSUME NEW c \in Commands, Quic!Accept(c) PROVE Told(d)'
    <2>1. UNCHANGED <<scene, session, error, heard>> /\ at[c] = "idle"
      BY <1>1, Zenon DEF Quic!Accept
    <2>2. PICK l \in {"verify", "enter"} : Quic!Goto(c, l)
      BY <1>1, Zenon DEF Quic!Accept, Quic!TuicAccept, Quic!Hy2Accept
    <2>3. Notifying => Notifying'
      BY <1>t, <2>1, <2>2, NotifyingKept, Zenon
    <2>4. Quic!Tuic \/ session # Quic!NoOne \/ Quic!Kind(c) = "auth"
      BY <1>1, Zenon DEF Quic!Accept, Quic!Hy2Accept
    <2>5. at'[d] = at[d] \/ (c = d /\ at'[d] \in {"verify", "enter"})
      BY <1>t, <2>2, Zenon DEF Quic!Goto
    <2> QED
      BY <1>t, <2>1, <2>3, <2>4, <2>5, ToldKept, Zenon
  <1>2. ASSUME NEW c \in Commands, NEW ok \in BOOLEAN, Quic!Verify(c, ok), Quic!Tuic PROVE Told(d)'
    <2>1. PICK l \in {"notify", "notify-error"} : Quic!Goto(c, l)
      BY <1>2, Zenon DEF Quic!Verify, Quic!TuicVerify
    <2>2. Notifying'
      BY <1>t, <2>1, Zenon DEF Quic!Goto, Notifying
    <2>3. Quic!Tuic'
      BY <1>2, Zenon DEF Quic!Verify, Quic!Tuic
    <2> QED
      BY <2>2, <2>3, Zenon DEF Told
  <1>3. ASSUME NEW c \in Commands, NEW ok \in BOOLEAN, Quic!Verify(c, ok), ~Quic!Tuic PROVE Told(d)'
    <2>1. Quic!Kind(c) = "auth" /\ at[c] = "verify" /\ at'[c] = "done" /\ UNCHANGED <<scene, error, heard>>
      BY <1>3, <1>t, Zenon DEF Quic!Verify, Quic!Hy2Verify, Quic!Goto, Places, Place, Authenticating
    <2>2. Quic!Goto(c, "done")
      BY <1>3, Zenon DEF Quic!Verify, Quic!Hy2Verify
    <2>3. Notifying => Notifying'
      BY <1>t, <2>1, <2>2, NotifyingKept, Zenon
    <2>4. CASE session' = session
      <3>1. at'[d] = at[d] \/ c = d
        BY <1>t, <2>2, Zenon DEF Quic!Goto
      <3> QED
        BY <1>t, <2>1, <2>3, <2>4, <3>1, ToldKept, Zenon
    <2>5. CASE session' # session
      <3>1. session' # Quic!NoOne
        BY <1>3, <2>5, Zenon DEF Quic!Verify, Quic!Hy2Verify
      <3>2. CASE session # Quic!NoOne
        <4>1. at'[d] = at[d] \/ at'[d] = "done"
          BY <1>t, <2>2, Zenon DEF Quic!Goto
        <4> QED
          BY <1>t, <2>1, <2>3, <3>1, <3>2, <4>1, Zenon DEF Told
      <3>3. CASE session = Quic!NoOne
        <4>1. at'[d] \notin {"asleep", "error"}
          <5>1. CASE Quic!Kind(d) = "auth"
            BY <1>t, <2>2, <5>1, Zenon DEF Quic!Goto, Places, Place, Serving
          <5>2. CASE Quic!Kind(d) # "auth"
            BY <1>3, <1>t, <2>1, <2>2, <3>3, <5>2, Zenon DEF Quic!Goto, Told
          <5> QED
            BY <5>1, <5>2, Zenon
        <4> QED
          BY <3>1, <4>1, Zenon DEF Told
      <3> QED
        BY <3>2, <3>3, Zenon
    <2> QED
      BY <2>4, <2>5, Zenon
  <1>4. ASSUME NEW c \in Commands, Quic!NotifyWaiters(c) PROVE Told(d)'
    <2>1. UNCHANGED <<scene, session, error>> /\ at[c] \in {"notify", "notify-error"}
      BY <1>4, Zenon DEF Quic!NotifyWaiters
    <2>2. at'[d] = at[d] \/ (c = d /\ at'[d] \in {"done", "close"})
      BY <1>4, <1>t, Zenon DEF Quic!NotifyWaiters, Quic!Goto
    <2>3. Quic!Waiting(d) => heard'[d]
      BY <1>4, Zenon DEF Quic!NotifyWaiters
    <2>4. Quic!Kind(c) = "auth"
      BY <2>1, Zenon DEF Places, Place, Authenticating
    <2> QED
      BY <1>t, <2>1, <2>2, <2>3, <2>4, Zenon DEF Told, Quic!Waiting, Quic!Tuic, Quic!Kind
  <1>5. ASSUME NEW c \in Commands, NEW ok \in BOOLEAN,
               Quic!Send(c, ok) \/ Quic!CloseOnError(c) \/ Quic!CheckSession(c) \/ Quic!Wake(c)
                 \/ Quic!Acquire(c)
               \/ Quic!Remove(c) \/ Quic!RelayEnds(c)
        PROVE  Told(d)'
    <2>1. UNCHANGED <<scene, session, error, heard>>
      BY <1>5, Zenon
      DEF Quic!Send, Quic!CloseOnError, Quic!CheckSession, Quic!Wake, Quic!Acquire, Quic!Remove,
          Quic!RelayEnds
    <2>2. at[c] \notin {"idle", "notify", "notify-error"}
      BY <1>5, Zenon
      DEF Quic!Send, Quic!CloseOnError, Quic!CheckSession, Quic!Wake, Quic!Acquire, Quic!Remove,
          Quic!RelayEnds
    <2>3. PICK l : Quic!Goto(c, l) /\ (l = "error" => session = Quic!NoOne) /\ l # "asleep"
      <3>1. CASE Quic!CheckSession(c)
        <4>1. Quic!AfterWait(c) \in {"open", "remove", "relay"}
          BY <3>1, SceneTyped, AfterWaitLabel, Zenon DEF Quic!CheckSession, Places, Place, Serving
        <4> QED
          BY <3>1, <4>1, Zenon DEF Quic!CheckSession
      <3> QED
        BY <1>5, <3>1, Zenon
        DEF Quic!Send, Quic!CloseOnError, Quic!Wake, Quic!Acquire, Quic!Remove, Quic!RelayEnds
    <2>4. Notifying => Notifying'
      BY <1>t, <2>2, <2>3, NotifyingKept, Zenon
    <2>5. Quic!Tuic \/ session # Quic!NoOne \/ Quic!Kind(c) = "auth"
      BY <2>2, Zenon DEF Wakeups, Told
    <2>6. c = d \/ at'[d] = at[d]
      BY <1>t, <2>3, Zenon DEF Quic!Goto
    <2>7. c = d => at'[d] = l
      BY <1>t, <2>3, Zenon DEF Quic!Goto
    <2> QED
      BY <1>t, <2>1, <2>3, <2>4, <2>5, <2>6, <2>7, Zenon DEF Told, Quic!Tuic, Quic!Kind
  <1>6. ASSUME NEW c \in Commands, Quic!Enter(c) PROVE Told(d)'
    <2>1. UNCHANGED <<scene, session, error>> /\ at[c] = "enter" /\ Quic!Goto(c, "session")
      BY <1>6, Zenon DEF Quic!Enter
    <2>2. Notifying => Notifying'
      BY <1>t, <2>1, NotifyingKept, Zenon
    <2>3. Quic!Tuic \/ session # Quic!NoOne \/ Quic!Kind(c) = "auth"
      BY <2>1, Zenon DEF Wakeups, Told
    <2>4. c = d => at'[d] = "session"
      BY <1>t, <2>1, Zenon DEF Quic!Goto
    <2>5. c # d => at'[d] = at[d]
      BY <1>t, <2>1, Zenon DEF Quic!Goto
    <2>6. c # d => heard'[d] = heard[d]
      BY <1>6, <1>b, Zenon DEF Quic!Enter
    <2> QED
      BY <1>t, <2>1, <2>2, <2>3, <2>4, <2>5, <2>6, Zenon DEF Told, Quic!Tuic, Quic!Kind
  <1>7. ASSUME NEW c \in Commands, Quic!CheckError(c) PROVE Told(d)'
    <2>1. UNCHANGED <<scene, session, error, heard>> /\ at[c] = "error"
      BY <1>7, Zenon DEF Quic!CheckError
    <2>2. PICK l \in {"done", "asleep"} : Quic!Goto(c, l) /\ (l = "asleep" => ~error)
      BY <1>7, Zenon DEF Quic!CheckError
    <2>3. Notifying => Notifying'
      BY <1>t, <2>1, <2>2, NotifyingKept, Zenon
    <2>4. Quic!Tuic \/ session # Quic!NoOne \/ Quic!Kind(c) = "auth"
      BY <2>1, Zenon DEF Wakeups, Told
    <2>5. c = d => at'[d] = l
      BY <1>t, <2>2, Zenon DEF Quic!Goto
    <2>6. c # d => at'[d] = at[d]
      BY <1>t, <2>2, Zenon DEF Quic!Goto
    <2> QED
      BY <1>t, <2>1, <2>2, <2>3, <2>4, <2>5, <2>6, Zenon DEF Told, Quic!Tuic, Quic!Kind
  <1>8. CASE Quic!HandlerEnds
    <2>1. UNCHANGED <<scene, session, error, heard>>
      BY <1>8, Zenon DEF Quic!HandlerEnds
    <2>2. \A c \in Commands : at'[c] = at[c] \/ (at'[c] = "done" /\ Quic!Tuic /\ Quic!Kind(c) = "datagram")
      BY <1>8, HandlerCuts, Zenon
    <2>3. Notifying => Notifying'
      BY <2>2, Zenon DEF Notifying, Places, Place, Authenticating
    <2> QED
      BY <1>t, <2>1, <2>2, <2>3, ToldKept, Zenon
  <1>9. CASE UNCHANGED <<scene, session, error, heard, at>>
    BY <1>t, <1>9, Zenon DEF Told, Notifying, Quic!Tuic, Quic!Kind
  <1>10. ASSUME Quic!AuthTimeout \/ Quic!Tick \/ Quic!Cleanup \/ Quic!Close
                \/ (\E s \in DOMAIN resp : Quic!ReplyFails(s)) \/ UNCHANGED Quic!vars
         PROVE  UNCHANGED <<scene, session, error, heard, at>>
    BY <1>10, Zenon DEF Quic!AuthTimeout, Quic!Tick, Quic!Cleanup, Quic!Close, Quic!ReplyFails, Quic!vars
  <1> QED
    BY <1>1, <1>2, <1>3, <1>4, <1>5, <1>6, <1>7, <1>8, <1>9, <1>10, Zenon DEF Quic!Next, Quic!Step

\* Every step keeps the sockets.
LEMMA NextSocks == QuicTypes /\ Places /\ Socks /\ [Quic!Next]_(Quic!vars) => Socks'
  <1> SUFFICES ASSUME QuicTypes, Places, Socks PROVE [Quic!Next]_(Quic!vars) => Socks'
    BY Zenon
  <1> USE DEF Quic!NoOne
  <1>t. /\ Idle \in Nat /\ clock \in Nat /\ held \in [Commands -> Nat] /\ who \in [Commands -> Nat]
        /\ assocs \in [Assocs -> Nat] /\ last \in [Assocs -> [s : Nat, at : Nat]]
        /\ sock \in Seq(Socket) /\ Len(sock) \in Nat
    BY DEF QuicTypes, Quic!WellFormed
  <1>f. \A s \in 1..Len(sock) : sock[s] \in Socket
    BY <1>t
  <1>e. \A s \in 1..Len(sock) : sock[s].seen \in Nat
    BY <1>f, Zenon DEF Socket
  <1>g. \A b \in Assocs : last[b].s # 0 =>
            assocs[b] = last[b].s /\ last[b].s \in 1..Len(sock) /\ last[b].at <= sock[last[b].s].seen
    BY <1>t DEF Socks
  <1>1. ASSUME NEW c \in Commands, NEW ok \in BOOLEAN, Quic!Send(c, ok) PROVE Socks'
    <2> DEFINE s == held[c]
               a == Quic!Assoc(c)
    <2>0. at[c] = "record" /\ Place(c)
      BY <1>1, Zenon DEF Quic!Send, Places
    <2>5. s \in 1..Len(sock)
      BY <1>t, <2>0 DEF Place
    <2>6. a \in Assocs
      BY SceneTyped, Zenon
    <2>1. s \in 1..Len(sock) /\ a \in Assocs
      BY <2>5, <2>6, Zenon
    <2>2. UNCHANGED <<assocs, clock>>
      BY <1>1, Zenon DEF Quic!Send
    <2>3. CASE ~ok
      <3>1. UNCHANGED <<sock, last>>
        BY <1>1, <2>3, Zenon DEF Quic!Send
      <3> QED
        BY <2>2, <3>1, Zenon DEF Socks
    <2>4. CASE ok
      <3>1. /\ sock' = Quic!Seen(s) /\ Len(sock') = Len(sock)
            /\ sock'[s].seen = clock /\ sock'[s].user = sock[s].user
            /\ \A t \in 1..Len(sock) : t # s => sock'[t] = sock[t]
        BY <1>1, <1>t, <2>1, <2>4, SeenTyped, Zenon DEF Quic!Send
      <3>2. \A t \in 1..Len(sock) :
               sock'[t].seen \in Nat /\ sock[t].seen <= sock'[t].seen /\ sock'[t].seen <= clock
                                    /\ sock'[t].user # Quic!NoOne
        BY <1>t, <1>e, <3>1 DEF Socks
      <3>3. last' = last \/ (assocs[a] = s /\ last' = [last EXCEPT ![a] = [s |-> s, at |-> clock]])
        BY <1>1, <2>4, Zenon DEF Quic!Send
      <3>4. ASSUME NEW b \in Assocs, last'[b].s # 0
            PROVE  assocs'[b] = last'[b].s /\ last'[b].at <= sock'[last'[b].s].seen
        <4>1. CASE last'[b] = last[b]
          <5>1. assocs[b] = last[b].s /\ last[b].s \in 1..Len(sock) /\ last[b].at <= sock[last[b].s].seen
            BY <1>g, <3>4, <4>1, Zenon
          <5>2. PICK r \in 1..Len(sock) : r = last[b].s
            BY <5>1, Zenon
          <5>3. sock[r].seen <= sock'[r].seen /\ sock'[r].seen \in Nat /\ sock[r].seen \in Nat
            BY <1>e, <3>2, Zenon
          <5>4. last[b].at \in Nat /\ last[b].at <= sock[r].seen
            BY <1>t, <5>1, <5>2, Zenon
          <5>5. assocs'[b] = r /\ last'[b].s = r /\ last'[b].at = last[b].at
            BY <2>2, <4>1, <5>1, <5>2, Zenon
          <5>6. last'[b].at <= sock'[r].seen
            BY <5>3, <5>4, <5>5
          <5> QED
            BY <5>5, <5>6, Zenon
        <4>2. CASE b = a /\ assocs[a] = s /\ last'[b] = [s |-> s, at |-> clock]
          BY <1>t, <2>1, <2>2, <3>1, <4>2
        <4> QED
          BY <1>t, <2>1, <3>3, <4>1, <4>2, Zenon
      <3> QED
        BY <2>2, <3>1, <3>2, <3>4, Zenon DEF Socks
    <2> QED
      BY <2>3, <2>4, Zenon
  <1>2. ASSUME NEW c \in Commands, Quic!Acquire(c) PROVE Socks'
    <2> DEFINE a == Quic!Assoc(c)
               n == Len(sock) + 1
    <2>1. a \in Assocs /\ UNCHANGED <<last, clock>> /\ who[c] \in Nat /\ who[c] # Quic!NoOne
      BY <1>2, <1>t, SceneTyped, Zenon DEF Quic!Acquire, Places, Place
    <2>2. CASE UNCHANGED <<assocs, sock>>
      BY <2>1, <2>2, Zenon DEF Socks
    <2>3. CASE assocs[a] = 0 /\ sock' = Append(sock, Quic!Bind(c)) /\ assocs' = [assocs EXCEPT ![a] = n]
      <3>1. Quic!Bind(c) \in Socket /\ Quic!Bind(c).user # Quic!NoOne /\ Quic!Bind(c).seen = clock
        BY <1>t, <2>1, Zenon DEF Quic!Bind, Socket
      <3>2. Len(sock') = n /\ sock'[n] = Quic!Bind(c) /\ \A t \in 1..Len(sock) : sock'[t] = sock[t]
        <4>1. PICK e \in Socket : e = Quic!Bind(c)
          BY <3>1, Zenon
        <4>2. sock' = Append(sock, e)
          BY <2>3, <4>1, Zenon
        <4> QED
          BY <1>t, <4>1, <4>2
      <3>3. \A t \in 1..Len(sock') : sock'[t].user # Quic!NoOne /\ sock'[t].seen <= clock'
        <4> SUFFICES ASSUME NEW t \in 1..Len(sock')
                     PROVE  sock'[t].user # Quic!NoOne /\ sock'[t].seen <= clock'
          BY Zenon
        <4>1. CASE t = n
          BY <1>t, <2>1, <3>1, <3>2, <4>1
        <4>2. CASE t \in 1..Len(sock)
          BY <2>1, <3>2, <4>2, Zenon DEF Socks
        <4> QED
          BY <1>t, <3>2, <4>1, <4>2
      <3>4. ASSUME NEW b \in Assocs
            PROVE  assocs'[b] \in 0..Len(sock')
        BY <1>t, <2>1, <2>3, <3>2 DEF Socks
      <3>5. ASSUME NEW b \in Assocs, last'[b].s # 0
            PROVE  assocs'[b] = last'[b].s /\ last'[b].at <= sock'[last'[b].s].seen
        <4>1. assocs[b] = last[b].s /\ last[b].s \in 1..Len(sock) /\ last[b].at <= sock[last[b].s].seen
          BY <1>g, <2>1, <3>5, Zenon
        <4>2. PICK r \in 1..Len(sock) : r = last[b].s
          BY <4>1, Zenon
        <4>3. b # a /\ last' = last
          BY <2>1, <2>3, <4>1
        <4>4. assocs'[b] = r /\ sock'[r] = sock[r]
          BY <1>t, <2>3, <3>2, <4>1, <4>2, <4>3, Zenon
        <4> QED
          BY <4>1, <4>2, <4>3, <4>4, Zenon
      <3> QED
        BY <3>3, <3>4, <3>5, Zenon DEF Socks
    <2> QED
      BY <1>2, <2>2, <2>3, Zenon DEF Quic!Acquire
  <1>3. ASSUME NEW c \in Commands, Quic!Remove(c) PROVE Socks'
    <2>1. Quic!Assoc(c) \in Assocs /\ UNCHANGED <<sock, clock>>
      BY <1>3, SceneTyped, Zenon DEF Quic!Remove
    <2>2. assocs' = [assocs EXCEPT ![Quic!Assoc(c)] = 0]
          /\ last' = [last EXCEPT ![Quic!Assoc(c)] = Quic!Never]
      BY <1>3, Zenon DEF Quic!Remove
    <2>3. ASSUME NEW b \in Assocs
          PROVE  /\ assocs'[b] \in 0..Len(sock')
                 /\ last'[b].s # 0 => assocs'[b] = last'[b].s /\ last'[b].at <= sock'[last'[b].s].seen
      <3>1. CASE b = Quic!Assoc(c)
        BY <1>t, <2>1, <2>2, <3>1 DEF Quic!Never
      <3>2. CASE b # Quic!Assoc(c)
        <4>1. assocs'[b] = assocs[b] /\ last'[b] = last[b]
          BY <1>t, <2>1, <2>2, <3>2, Zenon
        <4> QED
          BY <2>1, <4>1, Zenon DEF Socks
      <3> QED
        BY <3>1, <3>2, Zenon
    <2> QED
      BY <2>1, <2>3, Zenon DEF Socks
  <1>4. CASE Quic!Cleanup
    <2> DEFINE old == {a \in Assocs : assocs[a] # 0 /\ clock - sock[assocs[a]].seen >= Idle}
    <2>1. /\ UNCHANGED <<sock, clock>>
          /\ assocs' = [a \in Assocs |-> IF a \in old THEN 0 ELSE assocs[a]]
          /\ last' = [a \in Assocs |-> IF clock - last[a].at >= Idle THEN Quic!Never ELSE last[a]]
      BY <1>4, Zenon DEF Quic!Cleanup
    <2>2. ASSUME NEW b \in Assocs
          PROVE  assocs'[b] \in 0..Len(sock')
      BY <1>t, <2>1 DEF Socks
    <2>3. ASSUME NEW b \in Assocs, last'[b].s # 0
          PROVE  assocs'[b] = last'[b].s /\ last'[b].at <= sock'[last'[b].s].seen
      <3>1. last'[b] = last[b] /\ clock - last[b].at < Idle
        BY <1>t, <2>1, <2>3 DEF Quic!Never
      <3>2. assocs[b] = last[b].s /\ last[b].s \in 1..Len(sock) /\ last[b].at <= sock[last[b].s].seen
        BY <1>g, <2>3, <3>1, Zenon
      <3>3. b \notin old
        BY <1>t, <1>e, <3>1, <3>2
      <3> QED
        BY <2>1, <3>1, <3>2, <3>3, Zenon
    <2> QED
      BY <2>1, <2>2, <2>3, Zenon DEF Socks
  <1>5. CASE Quic!Tick
    <2>1. clock' = clock + 1 /\ UNCHANGED <<assocs, sock, last>>
      BY <1>5, Zenon DEF Quic!Tick
    <2> QED
      BY <1>t, <1>e, <2>1 DEF Socks
  <1>6. CASE UNCHANGED <<assocs, sock, last, clock>>
    BY <1>6, Zenon DEF Socks
  <1>7. ASSUME NEW c \in Commands, NEW ok \in BOOLEAN,
               Quic!Accept(c) \/ Quic!Verify(c, ok) \/ Quic!NotifyWaiters(c) \/ Quic!CloseOnError(c)
                 \/ Quic!Enter(c) \/ Quic!CheckSession(c)
               \/ Quic!CheckError(c) \/ Quic!Wake(c) \/ Quic!RelayEnds(c)
        PROVE  UNCHANGED <<assocs, sock, last, clock>>
    BY <1>7, Zenon
    DEF Quic!Accept, Quic!Verify, Quic!NotifyWaiters, Quic!CloseOnError, Quic!Enter, Quic!CheckSession,
        Quic!CheckError, Quic!Wake, Quic!RelayEnds
  <1>8. ASSUME Quic!AuthTimeout \/ Quic!Close \/ Quic!HandlerEnds
               \/ (\E s \in DOMAIN resp : Quic!ReplyFails(s)) \/ UNCHANGED Quic!vars
        PROVE  UNCHANGED <<assocs, sock, last, clock>>
    BY <1>8, Zenon DEF Quic!AuthTimeout, Quic!Close, Quic!HandlerEnds, Quic!ReplyFails, Quic!vars
  <1> QED
    BY <1>1, <1>2, <1>3, <1>4, <1>5, <1>6, <1>7, <1>8, Zenon DEF Quic!Next, Quic!Step

\* A reply task that runs has a reference: the table's or a command's.
Replies == \A s \in 1..Len(sock) : resp[s] = "run" => Quic!Referenced(s)

\* A step that leaves the table and the references alone, and keeps whoever
\* shares the table active, keeps the reply tasks referenced.
LEMMA RepliesKept ==
  ASSUME Replies, UNCHANGED <<scene, held, assocs, sock>>, Quic!TableHeld => Quic!TableHeld',
         \A s \in 1..Len(sock) : resp'[s] = "run" => resp[s] = "run"
  PROVE  Replies'
  BY Zenon DEF Replies, Quic!Referenced

\* Dropping a reference leaves no reply task without one.
LEMMA DroppedReplies ==
  ASSUME QuicTypes, Len(sock') = Len(sock), resp' = Quic!Dropped(resp)
  PROVE  Replies'
  <1>1. DOMAIN resp = 1..Len(sock)
    BY Zenon DEF QuicTypes
  <1>2. ASSUME NEW s \in 1..Len(sock), resp'[s] = "run" PROVE Quic!Referenced(s)'
    BY <1>1, <1>2, Zenon DEF Quic!Dropped
  <1> QED
    BY <1>2, Zenon DEF Replies

\* Every step keeps the reply tasks referenced.
LEMMA NextReplies == QuicTypes /\ QuicTypes' /\ Places /\ Replies /\ Socks /\ [Quic!Next]_(Quic!vars)
                     => Replies'
  <1> SUFFICES ASSUME QuicTypes, QuicTypes', Places, Replies, Socks
               PROVE  [Quic!Next]_(Quic!vars) => Replies'
    BY Zenon
  <1>t. /\ at \in [Commands -> CommandLabels] /\ held \in [Commands -> Nat] /\ assocs \in [Assocs -> Nat]
        /\ sock \in Seq(Socket) /\ Len(sock) \in Nat /\ DOMAIN resp = 1..Len(sock)
    BY DEF QuicTypes
  <1>1. CASE resp' = Quic!Dropped(resp) /\ sock' = sock
    BY <1>1, DroppedReplies, Zenon
  <1>2. ASSUME NEW c \in Commands, NEW ok \in BOOLEAN,
               Quic!Verify(c, ok) \/ Quic!NotifyWaiters(c) \/ Quic!CloseOnError(c) \/ Quic!CheckError(c)
                 \/ Quic!Remove(c)
        PROVE  resp' = Quic!Dropped(resp) /\ sock' = sock
    BY <1>2, Zenon
    DEF Quic!Verify, Quic!NotifyWaiters, Quic!CloseOnError, Quic!CheckError, Quic!Remove, Quic!Drop
  <1>8. ASSUME Quic!Cleanup \/ Quic!HandlerEnds PROVE resp' = Quic!Dropped(resp) /\ sock' = sock
    BY <1>8, Zenon DEF Quic!Cleanup, Quic!HandlerEnds, Quic!Drop
  <1>3. ASSUME NEW c \in Commands, NEW ok \in BOOLEAN, Quic!Send(c, ok) PROVE Replies'
    <2>1. resp' = Quic!Dropped(resp) /\ held[c] \in 1..Len(sock)
      BY <1>3, <1>t DEF Quic!Send, Quic!Drop, Places, Place
    <2>2. Len(sock') = Len(sock)
      BY <1>3, <1>t, <2>1, SeenTyped, Zenon DEF Quic!Send, QuicTypes
    <2> QED
      BY <2>1, <2>2, DroppedReplies, Zenon
  <1>4. ASSUME NEW c \in Commands, Quic!Accept(c) \/ Quic!Enter(c) \/ Quic!CheckSession(c)
               \/ Quic!Wake(c) \/ Quic!RelayEnds(c)
        PROVE  Replies'
    <2>1. UNCHANGED <<scene, link, held, assocs, sock, resp>>
      BY <1>4, Zenon DEF Quic!Accept, Quic!Enter, Quic!CheckSession, Quic!Wake, Quic!RelayEnds
    <2>2. Quic!TableHeld => Quic!TableHeld'
      <3>1. CASE link # "ended"
        BY <2>1, <3>1, Zenon DEF Quic!TableHeld
      <3>2. CASE link = "ended"
        <4>1. PICK l : Quic!Goto(c, l) /\ (l \in {"idle", "done"} => Quic!Kind(c) = "connect")
          <5>1. CASE Quic!CheckSession(c)
            <6>1. Quic!AfterWait(c) \in {"open", "remove", "relay"}
              BY <5>1, SceneTyped, AfterWaitLabel, Zenon DEF Quic!CheckSession, Places, Place, Serving
            <6> QED
              BY <5>1, <6>1 DEF Quic!CheckSession
          <5>2. CASE Quic!Enter(c) \/ Quic!Wake(c)
            BY <5>2 DEF Quic!Enter, Quic!Wake
          <5>3. CASE Quic!RelayEnds(c)
            <6>1. Quic!Goto(c, "done") /\ Quic!Kind(c) = "connect"
              BY <5>3, Zenon DEF Quic!RelayEnds, Places, Place
            <6> QED
              BY <6>1, Zenon
          <5>4. ~Quic!Accept(c)
            BY <3>2, Zenon DEF Quic!Accept
          <5> QED
            BY <1>4, <5>1, <5>2, <5>3, <5>4, Zenon
        <4>2. ASSUME NEW d \in Commands, Quic!Kind(d) \in Quic!Sharing, Quic!Active(d)
              PROVE  Quic!Active(d)'
          <5>1. Quic!Kind(d) # "connect"
            BY <4>2, Zenon DEF Quic!Sharing
          <5> QED
            BY <1>t, <4>1, <4>2, <5>1, Zenon DEF Quic!Active, Quic!Goto
        <4> QED
          BY <2>1, <3>2, <4>2, Zenon DEF Quic!TableHeld, Quic!Sharing, Quic!Kind, Quic!Tuic
      <3> QED
        BY <3>1, <3>2, Zenon
    <2> QED
      BY <2>1, <2>2, RepliesKept, Zenon
  <1>5. ASSUME NEW c \in Commands, Quic!Acquire(c) PROVE Replies'
    <2> DEFINE a == Quic!Assoc(c)
               n == Len(sock) + 1
    <2>1. a \in Assocs /\ held[c] = 0 /\ UNCHANGED <<scene, link>> /\ at[c] = "open"
      BY <1>5, SceneTyped, Zenon DEF Quic!Acquire, Places, Place
    <2>2. ASSUME Quic!Goto(c, "record"), Quic!TableHeld PROVE Quic!TableHeld'
      BY <1>t, <2>1, <2>2, Zenon
      DEF Quic!TableHeld, Quic!Active, Quic!Goto, Quic!Sharing, Quic!Kind, Quic!Tuic
    <2>3. CASE held' = [held EXCEPT ![c] = assocs[a]] /\ Quic!Goto(c, "record")
               /\ UNCHANGED <<assocs, sock, resp>>
      <3>1. ASSUME NEW s \in 1..Len(sock), Quic!Referenced(s) PROVE Quic!Referenced(s)'
        <4>1. CASE Quic!TableHeld /\ \E b \in Assocs : assocs[b] = s
          BY <2>2, <2>3, <4>1, Zenon DEF Quic!Referenced
        <4>2. CASE \E d \in Commands : held[d] = s
          <5>1. PICK d \in Commands : held[d] = s
            BY <4>2, Zenon
          <5>2. d # c
            BY <2>1, <5>1
          <5>3. held'[d] = s
            BY <1>t, <2>3, <5>1, <5>2, Zenon
          <5> QED
            BY <5>3, Zenon DEF Quic!Referenced
        <4> QED
          BY <3>1, <4>1, <4>2, Zenon DEF Quic!Referenced
      <3> QED
        BY <2>3, <3>1, Zenon DEF Replies
    <2>4. CASE /\ assocs[a] = 0 /\ sock' = Append(sock, Quic!Bind(c)) /\ resp' = Append(resp, "run")
               /\ assocs' = [assocs EXCEPT ![a] = n]
               /\ held' = [held EXCEPT ![c] = n] /\ Quic!Goto(c, "record")
      <3>1. Len(sock') = n /\ Len(sock') \in Nat
        BY <1>t, <2>4
      <3>m. PICK m \in Nat : m = n
        BY <1>t
      <3>2. Quic!Referenced(m)'
        <4>1. held'[c] = m
          BY <1>t, <2>4, <3>m, Zenon
        <4> QED
          BY <4>1, Zenon DEF Quic!Referenced
      <3>3. ASSUME NEW s \in 1..Len(sock), Quic!Referenced(s) PROVE Quic!Referenced(s)'
        <4>1. CASE Quic!TableHeld /\ \E b \in Assocs : assocs[b] = s
          <5>1. PICK b \in Assocs : assocs[b] = s
            BY <4>1, Zenon
          <5>2. assocs'[b] = s
            BY <1>t, <2>4, <5>1
          <5> QED
            BY <2>2, <2>4, <4>1, <5>2, Zenon DEF Quic!Referenced
        <4>2. CASE \E d \in Commands : held[d] = s
          <5>1. PICK d \in Commands : held[d] = s
            BY <4>2, Zenon
          <5>2. held'[d] = s
            BY <1>t, <2>1, <2>4, <5>1
          <5> QED
            BY <5>2, Zenon DEF Quic!Referenced
        <4> QED
          BY <3>3, <4>1, <4>2, Zenon DEF Quic!Referenced
      <3>4. \A s \in 1..Len(sock) : resp'[s] = resp[s]
        <4>1. resp \in Seq({"run", "ended", "aborted"}) /\ Len(resp) = Len(sock)
          BY TasksSeq, Zenon
        <4> QED
          BY <2>4, <4>1
      <3>5. ASSUME NEW s \in 1..m, resp'[s] = "run" PROVE Quic!Referenced(s)'
        <4>1. CASE s = m
          BY <3>2, <4>1, Zenon
        <4>2. CASE s \in 1..Len(sock)
          BY <3>3, <3>4, <3>5, <4>2, Zenon DEF Replies
        <4> QED
          BY <1>t, <3>m, <4>1, <4>2
      <3> QED
        BY <3>1, <3>m, <3>5, Zenon DEF Replies
    <2>5. CASE sock' = sock /\ resp' = Quic!Dropped(resp)
      BY <2>5, DroppedReplies, Zenon
    <2> QED
      BY <1>5, <2>3, <2>4, <2>5, Zenon DEF Quic!Acquire, Quic!Drop
  <1>6. ASSUME NEW s \in DOMAIN resp, Quic!ReplyFails(s) PROVE Replies'
    <2>1. UNCHANGED <<scene, link, at, held, assocs, sock>> /\ resp' = [resp EXCEPT ![s] = "ended"]
      BY <1>6, Zenon DEF Quic!ReplyFails
    <2>2. Quic!TableHeld => Quic!TableHeld'
      BY <2>1, Zenon DEF Quic!TableHeld, Quic!Active, Quic!Sharing, Quic!Kind, Quic!Tuic
    <2> QED
      BY <1>t, <2>1, <2>2, RepliesKept, Zenon
  <1>7. ASSUME Quic!AuthTimeout \/ Quic!Tick \/ Quic!Close \/ UNCHANGED Quic!vars PROVE Replies'
    <2>1. UNCHANGED <<scene, at, held, assocs, sock, resp>> /\ (link' = link \/ link' = "closed")
      BY <1>7, Zenon DEF Quic!AuthTimeout, Quic!Tick, Quic!Close, Quic!vars
    <2>2. Quic!TableHeld => Quic!TableHeld'
      BY <2>1, Zenon DEF Quic!TableHeld, Quic!Active, Quic!Sharing, Quic!Kind, Quic!Tuic
    <2> QED
      BY <2>1, <2>2, RepliesKept, Zenon
  <1> QED
    BY <1>1, <1>2, <1>3, <1>4, <1>5, <1>6, <1>7, <1>8, Zenon DEF Quic!Next, Quic!Step

QuicInv == QuicTypes /\ Places /\ Wakeups /\ Socks /\ Replies

\* The initial states satisfy the invariant.
LEMMA QuicInit == Quic!WellFormed /\ Quic!Init => QuicInv
  <1> SUFFICES ASSUME Quic!WellFormed, Quic!Init PROVE QuicInv
    BY Zenon
  <1>1. QuicTypes
    BY QuicInitTypes, Zenon
  <1>2. sock = <<>> /\ Len(sock) = 0
    BY Zenon DEF Quic!Init
  <1>3. Places
    BY <1>2 DEF Quic!Init, Places, Place, Authenticating, Serving
  <1>4. Wakeups
    BY Zenon DEF Quic!Init, Wakeups, Told
  <1>5. Socks
    BY <1>2 DEF Quic!Init, Socks, Quic!Never
  <1>6. Replies
    BY <1>2 DEF Replies
  <1> QED
    BY <1>1, <1>3, <1>4, <1>5, <1>6, Zenon DEF QuicInv

\* The invariant gives what the connection owes its commands.
LEMMA InvServes == QuicInv => CommandsServed
  <1> SUFFICES ASSUME QuicInv PROVE CommandsServed
    BY Zenon
  <1>t. Len(sock) \in Nat /\ DOMAIN sock = 1..Len(sock) /\ DOMAIN resp = 1..Len(sock)
    BY DEF QuicInv, QuicTypes
  <1>1. \A c \in Commands : at[c] = "asleep" /\ (session # Quic!NoOne \/ error) =>
           heard[c] \/ \E d \in Commands : at[d] \in {"notify", "notify-error"}
    BY Zenon DEF QuicInv, Wakeups, Told, Notifying
  <1>2. \A s \in DOMAIN sock : sock[s].user # Quic!NoOne
    BY <1>t, Zenon DEF QuicInv, Socks
  <1>3. \A a \in Assocs : last[a].s # 0 /\ Quic!TableHeld => assocs[a] = last[a].s
    BY Zenon DEF QuicInv, Socks
  <1>4. ASSUME NEW s \in DOMAIN resp, resp[s] = "run"
        PROVE  link # "ended" \/ \E c \in Commands : Quic!Active(c) /\ Quic!Kind(c) # "connect"
    <2>1. Quic!Referenced(s)
      BY <1>t, <1>4, Zenon DEF QuicInv, Replies
    <2>2. CASE Quic!TableHeld
      <3>1. "connect" \notin Quic!Sharing
        BY Zenon DEF Quic!Sharing
      <3> QED
        BY <2>2, <3>1, Zenon DEF Quic!TableHeld
    <2>3. ASSUME NEW c \in Commands, held[c] = s PROVE Quic!Active(c) /\ Quic!Kind(c) # "connect"
      <3>1. held[c] # 0
        BY <1>t, <2>3
      <3>2. at[c] = "record" /\ Quic!Kind(c) \in {"packet", "datagram"}
        BY <3>1, Zenon DEF QuicInv, Places, Place
      <3> QED
        BY <3>2, Zenon DEF Quic!Active
    <2> QED
      BY <2>1, <2>2, <2>3, Zenon DEF Quic!Referenced
  <1> QED
    BY <1>1, <1>2, <1>3, <1>4, Zenon DEF CommandsServed, Quic!CommandsServed

\* However many commands, associations and sockets there are, and however the
\* stream tasks, the datagram loop and the end of the connection interleave:
\* wait_session loses no wake-up, no socket is without an authenticated user,
\* an association keeps the socket that sent for it, and no reply task
\* outlives the handler and the commands under way.
THEOREM CommandsAreServed == Quic!Spec => []CommandsServed
  <1>1. Quic!Init => QuicInv
    BY QuicInit, QuicAssumption, Zenon
  <1>2. QuicInv /\ [Quic!Next]_(Quic!vars) => QuicInv'
    BY QuicNextTypes, NextPlaces, NextWakeups, NextSocks, NextReplies, Zenon DEF QuicInv
  <1>3. QuicInv => CommandsServed
    BY InvServes, Zenon
  <1> QED
    BY <1>1, <1>2, <1>3, PTL DEF Quic!Spec

----------------------------------------------------------------------------
\* The sessions of a VLESS mux (VlessMux).

\* What the proofs use of the constants.
MuxBounds == IsFiniteSet(SessionIds) /\ MaxNews \in Nat /\ MaxSessions \in Nat

\* Where a relay task can be.
TaskSteps == {"none", "read", "lock", "write", "finish", "endlock", "end", "done"}

\* The table holds generations in use, and the loop works on one of them; a
\* generation not used yet has no trace.
MuxTypes ==
    /\ gens \in 0..MaxNews /\ cur \in 0..gens /\ table \in [SessionIds -> 0..gens]
    /\ gid \in [Mux!Gens -> SessionIds \cup {Mux!None}] /\ (\A k \in 1..gens : gid[k] \in SessionIds)
    /\ task \in [Mux!Gens -> TaskSteps] /\ out \in [Mux!Gens -> {"open", "shut"}]
    /\ \A k \in Mux!Gens : k > gens => task[k] = "none" /\ k \notin aborted /\ out[k] = "open"

\* While a session is being opened it is the latest, and its id's place in
\* the table is empty.
Fresh ==
    /\ pc = "keep" => cur # Mux!None
    /\ pc \in {"dial", "insert"} =>
          cur = gens /\ cur # Mux!None /\ table[gid[cur]] = Mux!None /\ cur \notin aborted
            /\ out[cur] = "open"

\* A relay that was not aborted is within reach, and the client learns of its end.
Known(k) ==
    k \notin aborted \cup orphans /\ (Mux!Relaying(k) \/ (task[k] = "done" /\ k \notin ended))
    => table[gid[k]] = k \/ (cur = k /\ pc = "insert")

\* The entry of an id is its latest session.
Entry(i) ==
    table[i] # Mux!None => /\ gid[table[i]] = i /\ table[i] \notin aborted /\ out[table[i]] = "open"
                       /\ \A l \in 1..gens : gid[l] = i => l <= table[i]

\* The inductive invariant of the mux.
MuxInv ==
    /\ MuxBounds /\ MuxTypes /\ Fresh
    /\ (\A k \in Mux!Gens : Known(k)) /\ \A i \in SessionIds : Entry(i)

\* The initial state satisfies it.
LEMMA MuxInit == MuxBounds /\ Mux!Init => MuxInv
  <1> SUFFICES ASSUME MuxBounds, Mux!Init PROVE MuxInv
    BY Zenon
  <1>1. MuxTypes
    BY DEF MuxBounds, Mux!Init, MuxTypes, TaskSteps, Mux!None, Mux!Gens
  <1>2. Fresh
    BY Zenon DEF Mux!Init, Fresh
  <1>4. \A k \in Mux!Gens : Known(k)
    BY Zenon DEF Mux!Init, Known, Mux!Relaying
  <1>5. \A i \in SessionIds : Entry(i)
    BY Zenon DEF Mux!Init, Entry
  <1> QED
    BY <1>1, <1>2, <1>4, <1>5, Zenon DEF MuxInv

\* A generation whose task was started is in use.
LEMMA InUse ==
  ASSUME MuxBounds, MuxTypes, NEW k \in Mux!Gens, task[k] # "none"
  PROVE  k \in 1..gens /\ k <= gens /\ gid[k] \in SessionIds
  <1>1. ~(k > gens)
    BY Zenon DEF MuxTypes
  <1>2. k \in 1..gens /\ k <= gens
    <2>1. gens \in 0..MaxNews
      BY Zenon DEF MuxTypes
    <2> QED
      BY <1>1, <2>1 DEF MuxBounds, Mux!Gens
  <1> QED
    BY <1>2, Zenon DEF MuxTypes

\* An entry of the table is a generation.
LEMMA EntryIsGen ==
  ASSUME MuxBounds, MuxTypes, NEW i \in SessionIds, table[i] # Mux!None PROVE table[i] \in Mux!Gens
  <1>1. table[i] \in 0..gens /\ gens \in 0..MaxNews
    BY Zenon DEF MuxTypes
  <1> QED
    BY <1>1 DEF MuxBounds, Mux!Gens, Mux!None

\* Sessions are taken out of the table, and shut down but for the orphans.
LEMMA ShutdownKeeps ==
  ASSUME MuxInv, NEW J \in SUBSET SessionIds,
         table' = [i \in SessionIds |-> IF i \in J THEN Mux!None ELSE table[i]],
         NEW K \in SUBSET ({table[i] : i \in J} \ {Mux!None}), Mux!Shutdown(K),
         orphans \subseteq orphans', ({table[i] : i \in J} \ {Mux!None}) \ K \subseteq orphans',
         UNCHANGED <<gens, gid, task, ended>>, cur' = cur,
         pc \notin {"dial", "insert"}, pc' \notin {"dial", "insert", "keep"}
  PROVE  MuxInv'
  <1>0. MuxBounds /\ MuxTypes /\ (\A k \in Mux!Gens : Known(k)) /\ (\A i \in SessionIds : Entry(i))
    BY Zenon DEF MuxInv
  <1>1. /\ table' \in [SessionIds -> 0..gens] /\ out' \in [Mux!Gens -> {"open", "shut"}]
        /\ \A k \in Mux!Gens : k > gens => k \notin aborted' /\ out'[k] = "open"
    BY <1>0 DEF MuxTypes, Mux!Shutdown, Mux!None, Mux!Gens
  <1>2. MuxTypes'
    BY <1>0, <1>1, Zenon DEF MuxTypes
  <1>3. Fresh'
    BY Zenon DEF Fresh
  <1>5. ASSUME NEW k \in Mux!Gens PROVE Known(k)'
    <2> SUFFICES ASSUME k \notin aborted' \cup orphans',
                        Mux!Relaying(k) \/ (task[k] = "done" /\ k \notin ended)
                 PROVE  table'[gid[k]] = k
      BY Zenon DEF Known, Mux!Relaying
    <2>0. k # Mux!None
      BY DEF Mux!Gens, Mux!None
    <2>1. k \notin aborted \cup orphans /\ k \notin {table[i] : i \in J} \ {Mux!None} /\ k # Mux!None
      BY <2>0, Zenon DEF Mux!Shutdown
    <2>2. table[gid[k]] = k
      BY <1>0, <2>1, Zenon DEF Known
    <2>3. k <= gens
      <3>1. task[k] # "none"
        BY Zenon DEF Mux!Relaying
      <3> QED
        BY <1>0, <3>1, InUse, Zenon
    <2>4. gid[k] \in SessionIds \ J
      BY <1>0, <2>1, <2>2, <2>3 DEF MuxTypes, Mux!Gens
    <2> QED
      BY <2>2, <2>4, Zenon
  <1>6. ASSUME NEW i \in SessionIds PROVE Entry(i)'
    <2> SUFFICES ASSUME table'[i] # Mux!None
                 PROVE  /\ gid[table'[i]] = i /\ table'[i] \notin aborted' /\ out'[table'[i]] = "open"
                        /\ \A l \in 1..gens : gid[l] = i => l <= table'[i]
      BY Zenon DEF Entry
    <2>1. i \notin J /\ table'[i] = table[i] /\ table[i] # Mux!None
      BY Zenon
    <2>2. /\ gid[table[i]] = i /\ table[i] \notin aborted /\ out[table[i]] = "open"
          /\ \A l \in 1..gens : gid[l] = i => l <= table[i]
      BY <1>0, <2>1, Zenon DEF Entry
    <2>3. ASSUME NEW j \in J, table[j] # Mux!None PROVE table[j] # table[i]
      <3>1. Entry(j) /\ j # i
        BY <1>0, <2>1, Zenon
      <3>2. gid[table[j]] = j
        BY <2>3, <3>1, Zenon DEF Entry
      <3> QED
        BY <2>2, <3>1, <3>2, Zenon
    <2>4. table[i] \in Mux!Gens
      BY <1>0, <2>1, EntryIsGen, Zenon
    <2>5. table[i] \notin K
      BY <2>3, Zenon
    <2> QED
      BY <2>1, <2>2, <2>4, <2>5, Zenon DEF Mux!Shutdown
  <1> QED
    BY <1>2, <1>3, <1>5, <1>6, Zenon DEF MuxInv

\* NEW: the id's former session is shut down, and a generation begins.
LEMMA NewKeeps ==
  ASSUME MuxInv, NEW i \in SessionIds, NEW network, Mux!ClientNew(i, network)
  PROVE  MuxInv'
  <1>0. MuxBounds /\ MuxTypes /\ (\A k \in Mux!Gens : Known(k)) /\ (\A j \in SessionIds : Entry(j))
    BY Zenon DEF MuxInv
  <1>t. /\ gens \in Nat /\ gens < MaxNews /\ table \in [SessionIds -> 0..gens] /\ MaxNews \in Nat
        /\ gid \in [Mux!Gens -> SessionIds \cup {Mux!None}] /\ (\A k \in 1..gens : gid[k] \in SessionIds)
        /\ out \in [Mux!Gens -> {"open", "shut"}]
    BY <1>0 DEF MuxTypes, Mux!ClientNew, MuxBounds
  <1>1. PICK n \in Mux!Gens : n = gens + 1
    BY <1>t DEF Mux!Gens
  <1>2. /\ gens' = n /\ cur' = n /\ pc' = "dial" /\ gid' = [gid EXCEPT ![n] = i]
        /\ table' = [table EXCEPT ![i] = Mux!None]
        /\ aborted' = aborted \cup ({table[i]} \ {Mux!None})
        /\ out' = [k \in Mux!Gens |->
                     IF k \in {table[i]} \ {Mux!None} /\ kinds[k] = "tcp" THEN "shut" ELSE out[k]]
        /\ task' = task /\ orphans' = orphans /\ ended' = ended /\ pc = "read"
    BY <1>1, Zenon DEF Mux!ClientNew, Mux!ShutdownSession, Mux!Shutdown, Mux!Goto, Mux!tasks
  <1>3. n # table[i] /\ table[i] <= gens /\ n \notin aborted /\ out[n] = "open" /\ task[n] = "none"
        /\ n # Mux!None
    BY <1>0, <1>1, <1>t DEF MuxTypes, Mux!None
  <1>4. MuxTypes'
    <2>1. /\ table' \in [SessionIds -> 0..n] /\ out' \in [Mux!Gens -> {"open", "shut"}] /\ n \in 0..MaxNews
          /\ gid' \in [Mux!Gens -> SessionIds \cup {Mux!None}] /\ (\A k \in 1..n : gid'[k] \in SessionIds)
      BY <1>1, <1>2, <1>t DEF Mux!None, Mux!Gens
    <2>2. \A k \in Mux!Gens : k > n => task[k] = "none" /\ k \notin aborted' /\ out'[k] = "open"
      BY <1>0, <1>1, <1>2, <1>3, <1>t DEF MuxTypes, Mux!Gens
    <2> QED
      BY <1>0, <1>2, <2>1, <2>2 DEF MuxTypes
  <1>5. Fresh'
    BY <1>1, <1>2, <1>3, <1>t, Zenon DEF Fresh
  <1>7. ASSUME NEW k \in Mux!Gens PROVE Known(k)'
    <2> SUFFICES ASSUME k \notin aborted' \cup orphans,
                        Mux!Relaying(k) \/ (task[k] = "done" /\ k \notin ended)
                 PROVE  table'[gid'[k]] = k
      BY <1>2, Zenon DEF Known, Mux!Relaying
    <2>1. k \notin aborted /\ k # table[i] /\ k # n /\ k # Mux!None
      BY <1>2, <1>3 DEF Mux!Gens, Mux!None, Mux!Relaying
    <2>2. table[gid[k]] = k /\ k <= gens
      <3>1. table[gid[k]] = k
        BY <1>0, <1>2, <2>1, Zenon DEF Known
      <3>2. task[k] # "none"
        BY Zenon DEF Mux!Relaying
      <3> QED
        BY <1>0, <3>1, <3>2, InUse, Zenon
    <2>3. gid[k] \in SessionIds \ {i} /\ gid'[k] = gid[k]
      BY <1>2, <1>t, <2>1, <2>2 DEF Mux!Gens
    <2> QED
      BY <1>2, <1>t, <2>2, <2>3, Zenon
  <1>8. ASSUME NEW j \in SessionIds PROVE Entry(j)'
    <2> SUFFICES ASSUME table'[j] # Mux!None
                 PROVE  /\ gid'[table'[j]] = j /\ table'[j] \notin aborted' /\ out'[table'[j]] = "open"
                        /\ \A l \in 1..n : gid'[l] = j => l <= table'[j]
      BY <1>2, Zenon DEF Entry
    <2>1. j # i /\ table'[j] = table[j] /\ table[j] # Mux!None /\ table[j] # n /\ table[j] \in Mux!Gens
      BY <1>1, <1>2, <1>t DEF Mux!Gens, Mux!None
    <2>2. /\ gid[table[j]] = j /\ table[j] \notin aborted /\ out[table[j]] = "open"
          /\ \A l \in 1..gens : gid[l] = j => l <= table[j]
      BY <1>0, <2>1, Zenon DEF Entry
    <2>3. table[j] # table[i]
      BY <1>0, <2>1, <2>2, Zenon DEF Entry
    <2>4. gid'[table[j]] = j /\ table[j] \notin aborted' /\ out'[table[j]] = "open"
      BY <1>2, <1>t, <2>1, <2>2, <2>3, Zenon
    <2>5. ASSUME NEW l \in 1..n, gid'[l] = j PROVE l <= table[j]
      BY <1>1, <1>2, <1>t, <2>1, <2>2, <2>5 DEF Mux!Gens
    <2> QED
      BY <2>1, <2>4, <2>5, Zenon
  <1> QED
    BY <1>4, <1>5, <1>7, <1>8, Zenon DEF MuxInv

\* The session is opened, and found room for or not.
LEMMA DialKeeps ==
  ASSUME MuxInv, Mux!Open PROVE MuxInv'
  <1>0. MuxBounds /\ MuxTypes /\ Fresh /\ (\A k \in Mux!Gens : Known(k)) /\ (\A j \in SessionIds : Entry(j))
    BY Zenon DEF MuxInv
  <1>1. /\ pc = "dial" /\ pc' = "insert" /\ task' = [task EXCEPT ![cur] = "read"]
        /\ UNCHANGED <<cur, table, gens, gid, aborted, out, orphans, ended>>
    BY Zenon DEF Mux!Open, Mux!Goto, Mux!birth, Mux!control
  <1>2. cur = gens /\ cur # Mux!None /\ cur \in Mux!Gens
    BY <1>0, <1>1 DEF Fresh, MuxTypes, Mux!Gens, Mux!None
  <1>3. MuxTypes'
    BY <1>0, <1>1, <1>2 DEF MuxTypes, TaskSteps
  <1>4. Fresh'
    BY <1>0, <1>1, Zenon DEF Fresh
  <1>6. ASSUME NEW k \in Mux!Gens PROVE Known(k)'
    <2>1. CASE k = cur
      BY <1>1, <2>1, Zenon DEF Known
    <2>2. CASE k # cur
      BY <1>0, <1>1, <2>2, Zenon DEF Known, Mux!Relaying, MuxTypes
    <2> QED
      BY <2>1, <2>2, Zenon
  <1>7. ASSUME NEW j \in SessionIds PROVE Entry(j)'
    BY <1>0, <1>1, Zenon DEF Entry
  <1> QED
    BY <1>3, <1>4, <1>6, <1>7, Zenon DEF MuxInv

\* insert_session: the latest session takes its id's place, or is an orphan.
LEMMA InsertKeeps ==
  ASSUME MuxInv, Mux!Insert PROVE MuxInv'
  <1>0. MuxBounds /\ MuxTypes /\ Fresh /\ (\A k \in Mux!Gens : Known(k)) /\ (\A j \in SessionIds : Entry(j))
    BY Zenon DEF MuxInv
  <1>1. /\ pc = "insert" /\ UNCHANGED <<cur, gens, gid, task, aborted, out, ended>>
    BY Zenon DEF Mux!Insert, Mux!birth, Mux!tasks
  <1>2. /\ cur = gens /\ cur # Mux!None /\ cur \in 1..gens /\ gid[cur] \in SessionIds /\ gens \in Nat
        /\ table[gid[cur]] = Mux!None /\ cur \notin aborted /\ out[cur] = "open"
        /\ table \in [SessionIds -> 0..gens]
    BY <1>0, <1>1 DEF Fresh, MuxTypes, Mux!Gens, Mux!None
  <1>3. CASE Mux!Size < MaxSessions
    <2>1. table' = [table EXCEPT ![gid[cur]] = cur] /\ pc' = "first" /\ orphans' = orphans
      BY <1>3, Zenon DEF Mux!Insert, Mux!Goto
    <2>2. MuxTypes'
      BY <1>0, <1>1, <1>2, <2>1, Zenon DEF MuxTypes
    <2>3. Fresh'
      BY <2>1, Zenon DEF Fresh
    <2>5. ASSUME NEW k \in Mux!Gens PROVE Known(k)'
      <3> SUFFICES ASSUME k \notin aborted \cup orphans,
                          Mux!Relaying(k) \/ (task[k] = "done" /\ k \notin ended)
                   PROVE  table'[gid[k]] = k
        BY <1>1, <2>1, Zenon DEF Known, Mux!Relaying
      <3>1. CASE k = cur
        BY <1>2, <2>1, <3>1, Zenon
      <3>2. CASE k # cur
        <4>1. table[gid[k]] = k /\ k <= gens /\ k # Mux!None
          BY <1>0, <3>2 DEF Known, MuxTypes, Mux!Relaying, Mux!Gens, Mux!None
        <4>2. gid[k] \in SessionIds /\ gid[k] # gid[cur]
          BY <1>0, <1>2, <4>1 DEF MuxTypes, Mux!Gens
        <4> QED
          BY <1>2, <2>1, <4>1, <4>2, Zenon
      <3> QED
        BY <3>1, <3>2, Zenon
    <2>6. ASSUME NEW j \in SessionIds PROVE Entry(j)'
      <3>1. CASE j = gid[cur]
        BY <1>1, <1>2, <2>1, <3>1 DEF Entry
      <3>2. CASE j # gid[cur]
        BY <1>0, <1>1, <1>2, <2>1, <3>2, Zenon DEF Entry
      <3> QED
        BY <3>1, <3>2, Zenon
    <2> QED
      BY <2>2, <2>3, <2>5, <2>6, Zenon DEF MuxInv
  <1>4. CASE ~(Mux!Size < MaxSessions)
    <2>1. table' = table /\ pc' = "closing" /\ orphans' = orphans \cup {cur}
      BY <1>2, <1>4, Zenon DEF Mux!Insert, Mux!Goto
    <2>2. MuxTypes' /\ Fresh'
      BY <1>0, <1>1, <2>1, Zenon DEF MuxTypes, Fresh
    <2>4. ASSUME NEW k \in Mux!Gens PROVE Known(k)'
      BY <1>0, <1>1, <2>1, Zenon DEF Known, Mux!Relaying
    <2>5. ASSUME NEW j \in SessionIds PROVE Entry(j)'
      BY <1>0, <1>1, <2>1, Zenon DEF Entry
    <2> QED
      BY <2>2, <2>4, <2>5, Zenon DEF MuxInv
  <1> QED
    BY <1>3, <1>4, Zenon

\* The loop goes on with another frame, or ends.
LEMMA LoopKeeps ==
  ASSUME MuxInv, UNCHANGED <<table, gens, gid, task, ended, aborted, out, orphans>>,
         pc # "insert", pc' \notin {"dial", "insert"}, cur' \in 0..gens, pc' = "keep" => cur' # Mux!None
  PROVE  MuxInv'
  <1>1. MuxTypes' /\ Fresh'
    BY Zenon DEF MuxInv, MuxTypes, Fresh
  <1>3. ASSUME NEW k \in Mux!Gens PROVE Known(k)'
    BY Zenon DEF MuxInv, Known, Mux!Relaying
  <1>4. ASSUME NEW j \in SessionIds PROVE Entry(j)'
    BY Zenon DEF MuxInv, Entry
  <1> QED
    BY <1>1, <1>3, <1>4, Zenon DEF MuxInv

\* A relay task moves on, ends unheard once its abort allows it, or ends
\* behind its END frame.
LEMMA TaskKeeps ==
  ASSUME MuxInv, NEW k \in Mux!Gens, NEW step \in TaskSteps, Mux!Task(k, step), task[k] # "none",
         UNCHANGED <<Mux!loop, gens, gid, aborted, out, orphans>>, ended \subseteq ended',
         \/ step \in {"read", "lock", "write", "finish"} /\ Mux!Relaying(k)
         \/ step \in {"end", "endlock"}
         \/ step = "done" /\ k \in aborted \cup ended'
  PROVE  MuxInv'
  <1>1. MuxTypes' /\ Fresh'
    BY Zenon DEF MuxInv, MuxTypes, Fresh, Mux!Task, Mux!loop
  <1>3. ASSUME NEW l \in Mux!Gens PROVE Known(l)'
    <2>1. task' = [task EXCEPT ![k] = step] /\ task \in [Mux!Gens -> TaskSteps]
      BY Zenon DEF MuxInv, MuxTypes, Mux!Task
    <2>2. CASE l = k
      BY <2>1, <2>2, Zenon DEF MuxInv, Known, Mux!Relaying, Mux!loop
    <2>3. CASE l # k
      BY <2>1, <2>3, Zenon DEF MuxInv, Known, Mux!Relaying, Mux!loop
    <2> QED
      BY <2>2, <2>3, Zenon
  <1>4. ASSUME NEW j \in SessionIds PROVE Entry(j)'
    BY Zenon DEF MuxInv, Entry, Mux!loop
  <1> QED
    BY <1>1, <1>3, <1>4, Zenon DEF MuxInv

\* The task takes its own entry out of the table, or finds that it is gone.
LEMMA FinishKeeps ==
  ASSUME MuxInv, NEW k \in Mux!Gens, Mux!Finish(k) PROVE MuxInv'
  <1>0. MuxBounds /\ MuxTypes /\ Fresh /\ (\A l \in Mux!Gens : Known(l)) /\ (\A j \in SessionIds : Entry(j))
    BY Zenon DEF MuxInv
  <1>1. task[k] = "finish" /\ UNCHANGED <<pc, cur, gens, gid, aborted, out, orphans, ended>>
    BY Zenon DEF Mux!Finish, Mux!birth, Mux!control
  <1>2. k \in 1..gens /\ gid[k] \in SessionIds /\ k # Mux!None /\ table \in [SessionIds -> 0..gens]
        /\ task \in [Mux!Gens -> TaskSteps]
    BY <1>0, <1>1 DEF MuxTypes, Mux!Gens, Mux!None
  <1>3. CASE table[gid[k]] = k
    <2>1. table' = [table EXCEPT ![gid[k]] = Mux!None] /\ task' = [task EXCEPT ![k] = "endlock"]
      BY <1>3, Zenon DEF Mux!Finish, Mux!Task
    <2>2. MuxTypes'
      <3>1. table' \in [SessionIds -> 0..gens]
        <4>1. Mux!None \in 0..gens
          <5>1. gens \in 0..MaxNews /\ MaxNews \in Nat
            BY <1>0, Zenon DEF MuxTypes, MuxBounds
          <5> QED
            BY <5>1 DEF Mux!None
        <4> QED
          BY <1>2, <2>1, <4>1, Zenon
      <3>2. task' \in [Mux!Gens -> TaskSteps] /\ \A l \in Mux!Gens : l > gens => task'[l] = "none"
        BY <1>0, <1>2, <2>1 DEF MuxTypes, TaskSteps, Mux!Gens
      <3> QED
        BY <1>0, <1>1, <3>1, <3>2, Zenon DEF MuxTypes
    <2>3. Fresh'
      BY <1>0, <1>1, <1>2, <2>1 DEF Fresh, MuxTypes, Mux!Gens, Mux!None
    <2>5. ASSUME NEW l \in Mux!Gens PROVE Known(l)'
      <3>1. CASE l = k
        BY <1>2, <2>1, <3>1, Zenon DEF Known, Mux!Relaying
      <3>2. CASE l # k
        <4>1. task'[l] = task[l]
          BY <1>2, <2>1, <3>2, Zenon
        <4>2. table[gid[l]] = l => table'[gid[l]] = l
          BY <1>2, <1>3, <2>1, <3>2
        <4> QED
          BY <1>0, <1>1, <4>1, <4>2, Zenon DEF Known, Mux!Relaying
      <3> QED
        BY <3>1, <3>2, Zenon
    <2>6. ASSUME NEW j \in SessionIds PROVE Entry(j)'
      BY <1>0, <1>1, <1>2, <2>1, Zenon DEF Entry
    <2> QED
      BY <2>2, <2>3, <2>5, <2>6, Zenon DEF MuxInv
  <1>4. CASE table[gid[k]] # k
    <2>1. table' = table /\ task' = [task EXCEPT ![k] = "done"]
      BY <1>4, Zenon DEF Mux!Finish, Mux!Task
    <2>2. MuxTypes' /\ Fresh'
      BY <1>0, <1>1, <1>2, <2>1, Zenon DEF MuxTypes, Fresh, TaskSteps
    <2>4. ASSUME NEW l \in Mux!Gens PROVE Known(l)'
      BY <1>0, <1>1, <1>2, <2>1, Zenon DEF Known, Mux!Relaying
    <2>5. ASSUME NEW j \in SessionIds PROVE Entry(j)'
      BY <1>0, <1>1, <2>1, Zenon DEF Entry
    <2> QED
      BY <2>2, <2>4, <2>5, Zenon DEF MuxInv
  <1> QED
    BY <1>3, <1>4, Zenon

\* Every step preserves the invariant.
LEMMA MuxNext == MuxInv /\ [Mux!Next]_(Mux!vars) => MuxInv'
  <1> SUFFICES ASSUME MuxInv PROVE [Mux!Next]_(Mux!vars) => MuxInv'
    BY Zenon
  <1>t. /\ cur \in 0..gens /\ table \in [SessionIds -> 0..gens]
        /\ (\A k \in 1..gens : gid[k] \in SessionIds)
        /\ gens \in Nat /\ (pc = "keep" => cur # Mux!None)
    BY DEF MuxInv, MuxTypes, Fresh
  <1>1. Mux!Open \/ Mux!Insert => MuxInv'
    BY DialKeeps, InsertKeeps, Zenon
  <1>2. Mux!FirstPayload \/ Mux!KeepSent \/ Mux!Answer \/ Mux!LoopEnds \/ Mux!LoopDropped => MuxInv'
    BY <1>t, LoopKeeps, Zenon
    DEF Mux!FirstPayload, Mux!KeepSent, Mux!Answer, Mux!LoopEnds, Mux!LoopDropped, Mux!Goto, Mux!birth, Mux!tasks,
        Mux!control
  <1>3. ASSUME NEW i \in SessionIds, Mux!ClientKeep(i) PROVE MuxInv'
    BY <1>3, <1>t, LoopKeeps, Zenon DEF Mux!ClientKeep, Mux!Goto, Mux!birth, Mux!tasks, Mux!control
  <1>4. ASSUME NEW i \in SessionIds, Mux!ShutdownSession(i),
               UNCHANGED <<gens, gid, task, orphans, ended>>, cur' = cur,
               pc \notin {"dial", "insert"}, pc' \notin {"dial", "insert", "keep"}
        PROVE  MuxInv'
    <2> DEFINE J == {i}
    <2>1. table' = [j \in SessionIds |-> IF j \in J THEN Mux!None ELSE table[j]]
      BY <1>4, <1>t, Zenon DEF Mux!ShutdownSession
    <2>2. {table[j] : j \in J} = {table[i]}
      BY Zenon
    <2>3. PICK K : K = {table[j] : j \in J} \ {Mux!None} /\ Mux!Shutdown(K)
      BY <1>4, <2>2, Zenon DEF Mux!ShutdownSession
    <2>4. J \in SUBSET SessionIds
      BY Zenon
    <2> HIDE DEF J
    <2> QED
      BY <1>4, <2>1, <2>3, <2>4, ShutdownKeeps, Zenon
  <1>5. Mux!KeepFails => MuxInv'
    BY <1>4, <1>t DEF Mux!KeepFails, Mux!Goto, Mux!birth, Mux!tasks, Mux!None
  <1>6. ASSUME NEW i \in SessionIds, Mux!ClientEnd(i) PROVE MuxInv'
    BY <1>4, <1>6, Zenon DEF Mux!ClientEnd, Mux!birth, Mux!tasks
  <1>7. Mux!CloseAll \/ Mux!CloseDropped => MuxInv'
    <2> SUFFICES ASSUME Mux!CloseAll \/ Mux!CloseDropped PROVE MuxInv'
      BY Zenon
    <2>1. table' = [j \in SessionIds |-> IF j \in SessionIds THEN Mux!None ELSE table[j]]
      BY Zenon DEF Mux!CloseAll, Mux!CloseDropped
    <2>2. /\ SessionIds \in SUBSET SessionIds /\ UNCHANGED <<gens, gid, task, ended>> /\ cur' = cur
          /\ pc \notin {"dial", "insert"} /\ pc' \notin {"dial", "insert", "keep"}
      BY Zenon DEF Mux!CloseAll, Mux!CloseDropped, Mux!Goto, Mux!birth, Mux!tasks
    <2>3. PICK K \in SUBSET Mux!Entries :
            Mux!Shutdown(K) /\ orphans \subseteq orphans' /\ Mux!Entries \ K \subseteq orphans'
      BY Zenon DEF Mux!CloseAll, Mux!CloseDropped
    <2> QED
      BY <2>1, <2>2, <2>3, ShutdownKeeps, Zenon DEF Mux!Entries
  <1>8. ASSUME NEW i \in SessionIds, NEW network \in {"tcp", "udp"}, Mux!ClientNew(i, network) PROVE MuxInv'
    BY <1>8, NewKeeps, Zenon
  <1>9. Mux!LoopStep => MuxInv'
    BY <1>1, <1>2, <1>3, <1>5, <1>6, <1>7, <1>8, Zenon DEF Mux!LoopStep
  <1>10. ASSUME NEW k \in Mux!Gens, Mux!TaskStep(k) PROVE MuxInv'
    <2>1. Mux!TargetSends(k) => MuxInv'
      BY TaskKeeps, Zenon DEF Mux!TargetSends, Mux!Relaying, TaskSteps, Mux!birth, Mux!control
    <2>2. Mux!TargetEnds(k) => MuxInv'
      BY TaskKeeps, Zenon DEF Mux!TargetEnds, Mux!Relaying, TaskSteps, Mux!birth, Mux!control
    <2>3. Mux!LockFrame(k) => MuxInv'
      <3>1. CASE task[k] = "lock"
        BY <3>1, TaskKeeps, Zenon DEF Mux!LockFrame, Mux!Relaying, TaskSteps, Mux!birth, Mux!control
      <3>2. CASE task[k] = "endlock"
        BY <3>2, TaskKeeps, Zenon DEF Mux!LockFrame, Mux!Relaying, TaskSteps, Mux!birth, Mux!control
      <3> QED
        BY <3>1, <3>2, Zenon DEF Mux!LockFrame
    <2>4. Mux!DataWritten(k) => MuxInv'
      BY TaskKeeps, Zenon DEF Mux!DataWritten, Mux!Relaying, TaskSteps, Mux!birth, Mux!control
    <2>5. Mux!Finish(k) => MuxInv'
      BY FinishKeeps, Zenon
    <2>6. Mux!EndWritten(k) => MuxInv'
      BY TaskKeeps, Zenon DEF Mux!EndWritten, TaskSteps, Mux!birth, Mux!control
    <2>7. Mux!TaskAborted(k) => MuxInv'
      BY TaskKeeps, Zenon DEF Mux!TaskAborted, TaskSteps, Mux!birth, Mux!control
    <2> QED
      BY <1>10, <2>1, <2>2, <2>3, <2>4, <2>5, <2>6, <2>7, Zenon DEF Mux!TaskStep
  <1>11. UNCHANGED Mux!vars => MuxInv'
    <2> SUFFICES ASSUME UNCHANGED Mux!vars PROVE MuxInv'
      BY Zenon
    <2>1. MuxTypes' /\ Fresh'
      BY Zenon
      DEF Mux!vars, Mux!loop, Mux!birth, Mux!tasks, Mux!control, MuxInv, MuxTypes, Fresh
    <2>2. ASSUME NEW k \in Mux!Gens PROVE Known(k)'
      BY Zenon
      DEF Mux!vars, Mux!loop, Mux!birth, Mux!tasks, Mux!control, MuxInv, Known, Mux!Relaying
    <2>3. ASSUME NEW j \in SessionIds PROVE Entry(j)'
      BY Zenon DEF Mux!vars, Mux!loop, Mux!birth, Mux!tasks, Mux!control, MuxInv, Entry
    <2> QED
      BY <2>1, <2>2, <2>3, Zenon DEF MuxInv
  <1> QED
    BY <1>9, <1>10, <1>11, Zenon DEF Mux!Next

\* The table loses entries, or gains one that insert_session had room for.
Loses == \A i \in SessionIds : table'[i] # Mux!None => table[i] # Mux!None
Gains ==
    /\ Mux!Size < MaxSessions
    /\ \E j \in SessionIds : \A i \in SessionIds : i # j => (table'[i] # Mux!None => table[i] # Mux!None)

\* Every step does one or the other.
LEMMA TableMoves == MuxInv /\ [Mux!Next]_(Mux!vars) => Loses \/ Gains
  <1> SUFFICES ASSUME MuxInv PROVE [Mux!Next]_(Mux!vars) => Loses \/ Gains
    BY Zenon
  <1>t. table \in [SessionIds -> 0..gens]
    BY Zenon DEF MuxInv, MuxTypes
  <1>1. UNCHANGED table => Loses
    BY Zenon DEF Loses
  <1>2. ASSUME NEW i, table' = [table EXCEPT ![i] = Mux!None] PROVE Loses
    BY <1>2, <1>t, Zenon DEF Loses
  <1>3. Mux!Insert => Loses \/ Gains
    <2> SUFFICES ASSUME Mux!Insert PROVE Loses \/ Gains
      BY Zenon
    <2>1. /\ pc = "insert" /\ table[gid[cur]] = Mux!None /\ gid[cur] \in SessionIds
      BY DEF Mux!Insert, MuxInv, MuxTypes, Fresh, Mux!None
    <2>2. CASE Mux!Size < MaxSessions
      <3>1. table' = [table EXCEPT ![gid[cur]] = cur]
        BY <2>2, Zenon DEF Mux!Insert
      <3> QED
        BY <1>t, <2>1, <2>2, <3>1, Zenon DEF Gains
    <2>3. CASE ~(Mux!Size < MaxSessions)
      BY <1>1, <2>1, <2>3, Zenon DEF Mux!Insert
    <2> QED
      BY <2>2, <2>3, Zenon
  <1>4. Mux!LoopStep => Loses \/ Gains
    <2>1. Mux!Open \/ Mux!FirstPayload \/ Mux!KeepSent \/ Mux!Answer \/ Mux!LoopEnds \/ Mux!LoopDropped
          => Loses
      BY <1>1, Zenon
      DEF Mux!Open, Mux!FirstPayload, Mux!KeepSent, Mux!Answer, Mux!LoopEnds, Mux!LoopDropped
    <2>2. Mux!KeepFails => Loses
      BY <1>2, Zenon DEF Mux!KeepFails, Mux!ShutdownSession
    <2>3. Mux!CloseAll \/ Mux!CloseDropped => Loses
      BY Zenon DEF Mux!CloseAll, Mux!CloseDropped, Loses
    <2>4. ASSUME NEW i \in SessionIds
          PROVE  /\ Mux!ClientKeep(i) \/ Mux!ClientEnd(i) => Loses
                 /\ \A network : Mux!ClientNew(i, network) => Loses
      BY <1>1, <1>2, Zenon DEF Mux!ClientKeep, Mux!ClientEnd, Mux!ClientNew, Mux!ShutdownSession
    <2> QED
      BY <1>3, <2>1, <2>2, <2>3, <2>4, Zenon DEF Mux!LoopStep
  <1>5. ASSUME NEW k \in Mux!Gens, Mux!TaskStep(k) PROVE Loses
    <2>1. UNCHANGED table \/ table' = [table EXCEPT ![gid[k]] = Mux!None]
      BY <1>5, Zenon
      DEF Mux!TaskStep, Mux!TargetSends, Mux!TargetEnds, Mux!LockFrame, Mux!DataWritten, Mux!Finish,
          Mux!EndWritten, Mux!TaskAborted, Mux!loop
    <2> QED
      BY <1>1, <1>2, <2>1, Zenon
  <1>6. UNCHANGED Mux!vars => Loses
    BY <1>1, Zenon DEF Mux!vars, Mux!loop
  <1> QED
    BY <1>4, <1>5, <1>6, Zenon DEF Mux!Next

----------------------------------------------------------------------------
\* The size of the table.

INSTANCE FiniteSetTheorems

\* Cardinality has one meaning in all modules.
LEMMA MuxCardinality ==
  ASSUME NEW S PROVE Mux!Cardinality(S) = Cardinality(S)
  BY Zenon DEF Cardinality, Mux!Cardinality

\* A part of a finite set is finite and no larger.
LEMMA Smaller ==
  ASSUME NEW T, IsFiniteSet(T), NEW S \in SUBSET T
  PROVE  IsFiniteSet(S) /\ Cardinality(S) \in Nat /\ Cardinality(T) \in Nat
         /\ Cardinality(S) <= Cardinality(T)
  BY FS_Subset, FS_CardinalityType, Zenon

\* What is needed of the order.
LEMMA Ordered ==
  /\ \A n \in Nat : n <= n + 1 /\ n + 1 <= n + 1
  /\ \A m \in Nat, n \in Nat, l \in Nat : m <= n /\ n <= l => m <= l
  OBVIOUS

\* A finite set that gains an element.
LEMMA OneMore ==
  ASSUME NEW S, IsFiniteSet(S), NEW x
  PROVE  /\ IsFiniteSet(S \cup {x}) /\ Cardinality(S) \in Nat /\ Cardinality(S \cup {x}) \in Nat
         /\ Cardinality(S \cup {x}) <= Cardinality(S) + 1
  <1>1. /\ IsFiniteSet(S \cup {x}) /\ Cardinality(S) \in Nat /\ Cardinality(S \cup {x}) \in Nat
        /\ Cardinality(S \cup {x}) \in {Cardinality(S), Cardinality(S) + 1}
    BY FS_AddElement, FS_CardinalityType, Zenon
  <1> QED
    BY <1>1, Ordered, Zenon

\* A table that lost entries has room for the rest.
LEMMA SizeShrinks ==
  ASSUME MuxBounds, Mux!Size <= MaxSessions,
         \A i \in SessionIds : table'[i] # Mux!None => table[i] # Mux!None
  PROVE  Mux!Size' <= MaxSessions
  <1> PICK S : S = {i \in SessionIds : table[i] # Mux!None}
    BY Zenon
  <1> PICK T : T = {i \in SessionIds : table'[i] # Mux!None}
    BY Zenon
  <1>1. T \in SUBSET S /\ IsFiniteSet(S)
    BY FS_Subset, Zenon DEF MuxBounds
  <1>2. Cardinality(T) <= Cardinality(S) /\ Cardinality(T) \in Nat /\ Cardinality(S) \in Nat
    BY <1>1, Smaller, Zenon
  <1>3. Mux!Size = Cardinality(S) /\ Mux!Size' = Cardinality(T) /\ MaxSessions \in Nat
    BY MuxCardinality, Zenon DEF Mux!Size, MuxBounds
  <1> QED
    BY <1>2, <1>3, Ordered, Zenon

\* A table that was not full has room for one entry more.
LEMMA SizeGrows ==
  ASSUME MuxBounds, Mux!Size < MaxSessions, NEW j \in SessionIds,
         \A i \in SessionIds : i # j => (table'[i] # Mux!None => table[i] # Mux!None)
  PROVE  Mux!Size' <= MaxSessions
  <1> PICK S : S = {i \in SessionIds : table[i] # Mux!None}
    BY Zenon
  <1> PICK T : T = {i \in SessionIds : table'[i] # Mux!None}
    BY Zenon
  <1>1. T \in SUBSET (S \cup {j}) /\ IsFiniteSet(S)
    BY FS_Subset, Zenon DEF MuxBounds
  <1>2. /\ IsFiniteSet(S \cup {j}) /\ Cardinality(S) \in Nat /\ Cardinality(S \cup {j}) \in Nat
        /\ Cardinality(S \cup {j}) <= Cardinality(S) + 1
    BY <1>1, OneMore, Zenon
  <1>3. Cardinality(T) <= Cardinality(S \cup {j}) /\ Cardinality(T) \in Nat
    BY <1>1, <1>2, Smaller, Zenon
  <1>4. Mux!Size = Cardinality(S) /\ Mux!Size' = Cardinality(T)
    BY MuxCardinality, Zenon DEF Mux!Size
  <1> QED
    BY <1>2, <1>3, <1>4 DEF MuxBounds

\* The table is within MAX_MUX_SESSIONS.
Fits == Mux!Size <= MaxSessions

\* It is at first.
LEMMA FitsInit == MuxBounds /\ Mux!Init => Fits
  <1> SUFFICES ASSUME MuxBounds, Mux!Init PROVE Mux!Size <= MaxSessions
    BY Zenon DEF Fits
  <1>1. {i \in SessionIds : table[i] # Mux!None} = {}
    BY Zenon DEF Mux!Init
  <1> QED
    BY <1>1, MuxCardinality, FS_EmptySet DEF Mux!Size, MuxBounds

\* And it stays.
LEMMA FitsNext == MuxInv /\ Fits /\ [Mux!Next]_(Mux!vars) => Fits'
  <1> SUFFICES ASSUME MuxInv, Mux!Size <= MaxSessions, [Mux!Next]_(Mux!vars)
               PROVE  Mux!Size' <= MaxSessions
    BY Zenon DEF Fits
  <1>1. MuxBounds
    BY Zenon DEF MuxInv
  <1>2. Loses \/ Gains
    BY TableMoves, Zenon
  <1> QED
    BY <1>1, <1>2, SizeShrinks, SizeGrows, Zenon DEF Loses, Gains

\* The invariant says what is promised of the table.
LEMMA MuxInvSays == MuxInv /\ Fits => MuxTableExact
  <1> SUFFICES ASSUME MuxInv, Fits PROVE MuxTableExact
    BY Zenon
  <1>1. \A k \in Mux!Gens :
          /\ k \notin aborted \cup orphans
          /\ Mux!Relaying(k) \/ (task[k] = "done" /\ k \notin ended)
          => table[gid[k]] = k \/ (cur = k /\ pc = "insert")
    BY Zenon DEF MuxInv, Known
  <1>2. ASSUME NEW i \in SessionIds, table[i] # Mux!None
        PROVE  /\ gid[table[i]] = i /\ table[i] \notin aborted /\ out[table[i]] = "open"
               /\ \A l \in Mux!Gens : gid[l] = i /\ task[l] # "none" => l <= table[i] \/ l = cur
    <2>1. Entry(i)
      BY Zenon DEF MuxInv
    <2>2. \A l \in Mux!Gens : task[l] # "none" => l \in 1..gens
      BY DEF MuxInv, MuxTypes, Mux!Gens
    <2> QED
      BY <1>2, <2>1, <2>2, Zenon DEF Entry
  <1> QED
    BY <1>1, <1>2, Zenon DEF MuxInv, Fits, MuxTableExact, Mux!MuxTableExact

\* Whichever of the loop and the relay tasks is ahead, and however the client
\* uses its ids again: the table holds the latest session of each id and none
\* that was shut down, reaches every relay that was not, and stays within
\* MAX_MUX_SESSIONS.
THEOREM MuxTableStaysExact == Mux!Spec => []MuxTableExact
  <1>1. MuxBounds
    BY MuxAssumption, Zenon DEF MuxBounds
  <1> QED
    BY <1>1, MuxInit, MuxNext, FitsInit, FitsNext, MuxInvSays, PTL DEF Mux!Spec
=============================================================================
