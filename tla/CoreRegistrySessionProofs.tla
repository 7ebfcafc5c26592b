--------------------- MODULE CoreRegistrySessionProofs ---------------------
(***************************************************************************)
(* Every step of CoreRegistry keeps the state well typed and keeps the     *)
(* session invariant, for any users, credentials, connections,             *)
(* administrators, lists and limits.                                       *)
(***************************************************************************)
EXTENDS CoreRegistry, TLAPS

----------------------------------------------------------------------------
(* The invariants the proofs about CoreRegistry rest on *)

\* What a connection carries from lock to lock: a user id once it is
\* identified, a UserState and a session id once it has resolved the user.
ConnOK(pc, r, h, s) ==
    /\ pc = "identified" => r.user \in UserIds
    /\ pc = "hashed" => r.cred \in Credentials
    /\ pc \in {"resolved", "opening", "holding"} => h \in Handles /\ s \in Sids

\* What an administrator carries: a list that was validated, of which the
\* users still to be processed are part, and a UserState wherever the code
\* dereferences one.
JobOK(pc, J) ==
    /\ Valid(J.list)
    /\ J.todo \subseteq IdsOf(J.list)
    /\ pc \in {"clear", "signal", "credentials", "limits"} => J.handle \in Handles

ConnsOK == \A c \in Connections : ConnOK(cpc[c], req[c], handle[c], sid[c])
JobsOK  == \A a \in Admins : JobOK(apc[a], job[a])

\* Types, but for those of the counters.
Typed == TypeTable /\ TypeSessions /\ TypeConn /\ TypeAdmin /\ ConnsOK /\ JobsOK

Numbered == {"resolved", "opening", "holding"}

\* Session ids are drawn once, in order.
DrawnOnce ==
    /\ \A s \in Sids : s > seq => ctl[s] = "none"
    /\ \A c \in Connections : cpc[c] \in Numbered => sid[c] <= seq
    /\ \A c, d \in Connections :
          cpc[c] \in Numbered /\ cpc[d] \in Numbered /\ sid[c] = sid[d] => c = d

\* What the control and the events of a session say about each other.
Sent(s, o, c, x) == opened[s] = o /\ closed[s] = c /\ cancelled[s] = x

ControlOK(s) ==
    /\ ctl[s] = "none" => Sent(s, 0, 0, 0)
    /\ ctl[s] = "cancelled" => Sent(s, 1, 0, 1)
    /\ ctl[s] = "active" => opened[s] = 1 /\ closed[s] + cancelled[s] <= 1

ControlInv == \A s \in Sids : ControlOK(s)

\* A connection's session is unopened until it is held, and reachable while
\* it is held and active.
ConnInv ==
    /\ \A c \in Connections : cpc[c] \in {"resolved", "opening"} => ctl[sid[c]] = "none"
    /\ \A c \in Connections : cpc[c] = "holding" => ctl[sid[c]] # "none"
    /\ \A c \in Connections : cpc[c] = "holding" /\ ctl[sid[c]] = "active" =>
          \/ sid[c] \in slots[handle[c]]
          \/ \E a \in Admins : sid[c] \in pend[a]

\* A registered session is open, held, and in no administrator's hands.
SlotOK(h, s) ==
    /\ ctl[s] = "active" /\ Sent(s, 1, 0, 0)
    /\ \E c \in Connections : cpc[c] = "holding" /\ handle[c] = h /\ sid[c] = s
    /\ \A a \in Admins : s \notin pend[a]

SlotInv == \A h \in Handles : \A s \in slots[h] : SlotOK(h, s)

\* A session an administrator has collected is still active, in no other
\* administrator's hands, and announced just before it is cancelled.
PendOK(a, s) ==
    /\ ctl[s] = "active"
    /\ announced[a] = s => Sent(s, 1, 0, 1)
    /\ announced[a] # s => Sent(s, 1, 0, 0)
    /\ \A b \in Admins : s \in pend[b] => b = a

PendInv ==
    /\ \A a \in Admins : \A s \in pend[a] : PendOK(a, s)
    /\ \A a \in Admins : announced[a] # NoSid => announced[a] \in pend[a]
    /\ \A a \in Admins : apc[a] # "signal" => pend[a] = {}

\* A step sends no event about the session x.
Silent(x) == opened'[x] = opened[x] /\ closed'[x] = closed[x] /\ cancelled'[x] = cancelled[x]

SInv == DrawnOnce /\ ControlInv /\ ConnInv /\ SlotInv /\ PendInv

\* A UserState that somebody refers to has been allocated.
Allocated(h) == owner[h] # NoUser

\* ... of those a call at pc with the job J refers to.
JobOwned(ow, pc, J) ==
    /\ \A u \in UserIds : J.current[u] # NoHandle => ow[J.current[u]] # NoUser
    /\ \A u \in UserIds : J.built[u] # NoHandle => ow[J.built[u]] # NoUser
    /\ \A h \in J.queue : ow[h] # NoUser
    /\ pc \in {"clear", "signal", "credentials", "limits"} => ow[J.handle] # NoUser

OwnersInv ==
    /\ \A u \in UserIds : users[u] # NoHandle => Allocated(users[u])
    /\ \A c \in Connections : cpc[c] \in Numbered => Allocated(handle[c])
    /\ \A a \in Admins : JobOwned(owner, apc[a], job[a])

\* Limits l are at least as strict as p; 0 is no limit.
Stricter(l, p) ==
    /\ p.sessions > 0 => l.sessions > 0 /\ l.sessions <= p.sessions
    /\ p.ips > 0 => l.ips > 0 /\ l.ips <= p.ips

\* No limits in force, and none a connection has copied, exceed the peak.
PeakInv ==
    /\ \A h \in Handles : Stricter(limits[h], peak[h])
    /\ \A c \in Connections : cpc[c] = "opening" => Stricter(req[c].limits, peak[handle[c]])

LimitsOK == PeakInv /\ OnlineCountsExact /\ WithinPeakLimits
LimitInv == TypeCounts /\ OwnersInv /\ LimitsOK

\* The number of sessions with a UserState and of their addresses, against
\* limits p.
Fits(S, ip, p) ==
    /\ p.sessions > 0 => Cardinality(S) <= p.sessions
    /\ p.ips > 0 => Cardinality(Addresses(S, ip)) <= p.ips

\* The limits and counts of a handle are right.
HandleOK(h) ==
    /\ Stricter(limits[h], peak[h])
    /\ online[h] = Cardinality(slots[h]) /\ onlineIps[h] = Cardinality(Addresses(slots[h], ipOf))
    /\ Fits(slots[h], ipOf, peak[h])

CopyOK(c) == cpc[c] = "opening" => Stricter(req[c].limits, peak[handle[c]])

\* Administrative calls come from one task.
OneCaller == \A a, b \in Admins : a = b

\* Every published UserState belongs to the user it is published under.
TableOwned == \A u \in UserIds : users[u] # NoHandle => owner[users[u]] = u

\* What IndexMatchesTable says when no replace_users is in progress.
Agree ==
    /\ \A u \in UserIds : users[u] # NoHandle =>
          /\ owner[users[u]] = u
          /\ creds[users[u]] = {k \in Credentials : index[k] = u}
    /\ \A k \in Credentials : index[k] # NoUser => users[index[k]] # NoHandle

\* The call an administrator is in, by the step it has reached.
StepOK(pc, J) ==
    /\ pc = "idle" => J.op # "replace"
    /\ pc = "cancel" => J.op = "cancel"
    /\ pc \in {"update", "credentials", "index"} => J.op = "replace"
    /\ pc \in {"clear", "signal"} => J.op \in {"replace", "cancel"}

\* A replace_users in progress has built the users of its list that are not
\* still to do, with the credentials of the list; it still has to do the one
\* it is updating, whose credentials are written before its limits.
BuildOK(pc, J) ==
    /\ \A u \in UserIds :
          /\ J.built[u] # NoHandle <=> u \in IdsOf(J.list) /\ u \notin J.todo
          /\ J.built[u] # NoHandle => owner[J.built[u]] = u /\ creds[J.built[u]] = CredsOf(J.list, u)
          /\ J.current[u] # NoHandle => owner[J.current[u]] = u
    /\ J.user # NoUser => J.user \in J.todo /\ J.handle = J.current[J.user]
    /\ pc = "update" => J.user = NoUser
    /\ pc \in {"credentials", "limits"} => J.user # NoUser
    /\ pc = "limits" => creds[J.handle] = CredsOf(J.list, J.user)
    /\ pc = "index" => J.todo = {} /\ J.queue = {} /\ users = J.built

ReplaceInv ==
    /\ TableOwned
    /\ \A a \in Admins : /\ StepOK(apc[a], job[a])
                         /\ job[a].op = "replace" => BuildOK(apc[a], job[a])
    /\ IndexMatchesTable

\* A session that is active but neither registered nor collected was closed.
OverInv ==
    \A s \in Sids :
        /\ ctl[s] = "active"
        /\ \A h \in Handles : s \notin slots[h]
        /\ \A a \in Admins : s \notin pend[a]
        => closed[s] = 1

\* A replace_users still has to clear the sessions of h: h is on its list of
\* removed users, is the one it is clearing, or is a user it has to re-key.
Due(pc, J, h) ==
    \/ h \in J.queue
    \/ pc = "clear" /\ h = J.handle
    \/ \E u \in J.todo : /\ J.current[u] = h /\ creds[h] # CredsOf(J.list, u)
                         /\ pc \in {"signal", "credentials"} => u # J.user

TargetOK(pc, J, T) ==
    /\ J.op # "replace" => T = {}
    /\ \A s \in T : /\ ctl[s] # "none"
                    /\ \A h \in Handles : s \in slots[h] => Due(pc, J, h)

TargetInv ==
    /\ targeted \in [Admins -> SUBSET Sids]
    /\ \A a \in Admins : TargetOK(apc[a], job[a], targeted[a])

----------------------------------------------------------------------------
(* Types *)

\* The limits a validated list gives a user on it are limits.
LEMMA LimitsOfType ==
  ASSUME NEW list \in SUBSET ListEntries, NEW u \in IdsOf(list)
  PROVE  LimitsOf(list, u) \in Limits
  BY Zenon DEF LimitsOf, IdsOf, ListEntries

\* The credentials a validated list gives a user are credentials.
LEMMA CredsOfType ==
  ASSUME NEW list \in SUBSET ListEntries, Valid(list), NEW u
  PROVE  CredsOf(list, u) \in SUBSET Credentials
  BY Zenon DEF CredsOf, Valid, ListEntries

\* Counting one event more keeps the counters natural numbers.
LEMMA CountUp ==
  ASSUME NEW S, NEW f \in [S -> Nat], NEW x \in S
  PROVE  [f EXCEPT ![x] = @ + 1] \in [S -> Nat]
  OBVIOUS

\* The initial state is well typed.
LEMMA InitTyped == Init => Typed
  <1> SUFFICES ASSUME Init PROVE Typed
    BY Zenon
  <1>1. NoLimits \in Limits
    BY Zenon DEF NoLimits, Limits
  <1>2. NoJob \in Jobs /\ NoJob.list = {} /\ NoJob.todo = {}
    BY <1>1, Zenon DEF NoJob, Jobs
  <1>3. NoRequest \in Requests
    BY <1>1, Zenon DEF NoRequest, Requests
  <1>4. TypeTable /\ TypeSessions /\ TypeConn /\ TypeAdmin
    BY <1>1, <1>2, <1>3, BoundsAssumption
    DEF Init, TypeTable, TypeSessions, TypeConn, TypeAdmin, ConnPc, AdminPc, NoSid
  <1>5. Valid({})
    BY Zenon DEF Valid
  <1>6. ConnsOK /\ JobsOK
    BY <1>2, <1>5, Zenon DEF Init, ConnsOK, JobsOK, ConnOK, JobOK
  <1> QED
    BY <1>4, <1>6, Zenon DEF Typed

\* A connection that goes to a well-formed local state leaves all of them
\* well formed.
LEMMA GoToTyped ==
  ASSUME TypeConn, ConnsOK, NEW c \in Connections, NEW pc \in ConnPc,
         NEW r \in Requests, NEW h \in Handles \cup {NoHandle}, NEW s \in 0..MaxSeq,
         ConnOK(pc, r, h, s), GoTo(c, pc, r, h, s)
  PROVE  TypeConn' /\ ConnsOK'
  <1>1. TypeConn'
    BY Zenon DEF TypeConn, GoTo
  <1>2. ASSUME NEW d \in Connections
        PROVE  ConnOK(cpc'[d], req'[d], handle'[d], sid'[d])
    <2>1. CASE d = c
      BY <2>1, Zenon DEF GoTo, TypeConn
    <2>2. CASE d # c
      <3>1. cpc'[d] = cpc[d] /\ req'[d] = req[d] /\ handle'[d] = handle[d] /\ sid'[d] = sid[d]
        BY <2>2, Zenon DEF GoTo, TypeConn
      <3> QED
        BY <3>1, Zenon DEF ConnsOK
    <2> QED
      BY <2>1, <2>2, Zenon
  <1> QED
    BY <1>1, <1>2, Zenon DEF ConnsOK

\* So does a connection that goes back to idle.
LEMMA GoIdleTyped ==
  ASSUME TypeConn, ConnsOK, NEW c \in Connections, GoIdle(c)
  PROVE  TypeConn' /\ ConnsOK'
  <1>1. NoRequest \in Requests /\ NoSid \in 0..MaxSeq /\ "idle" \in ConnPc
    BY BoundsAssumption DEF NoRequest, NoLimits, Limits, Requests, NoSid, ConnPc
  <1>2. ConnOK("idle", NoRequest, NoHandle, NoSid)
    BY Zenon DEF ConnOK
  <1> QED
    BY <1>1, <1>2, GoToTyped, Zenon DEF GoIdle

\* An administrator that takes up a well-formed job leaves all of them well
\* formed.
LEMMA SetJobTyped ==
  ASSUME TypeAdmin, JobsOK, NEW a \in Admins, NEW pc \in AdminPc, NEW J \in Jobs,
         JobOK(pc, J), SetJob(a, pc, J)
  PROVE  /\ apc' \in [Admins -> AdminPc] /\ job' \in [Admins -> Jobs]
         /\ JobsOK'
  <1>1. apc' \in [Admins -> AdminPc] /\ job' \in [Admins -> Jobs]
    BY Zenon DEF TypeAdmin, SetJob
  <1>2. ASSUME NEW b \in Admins PROVE JobOK(apc'[b], job'[b])
    <2>1. CASE b = a
      BY <2>1, Zenon DEF SetJob, TypeAdmin
    <2>2. CASE b # a
      <3>1. apc'[b] = apc[b] /\ job'[b] = job[b]
        BY <2>2, Zenon DEF SetJob, TypeAdmin
      <3> QED
        BY <3>1, Zenon DEF JobsOK
    <2> QED
      BY <2>1, <2>2, Zenon
  <1> QED
    BY <1>1, <1>2, Zenon DEF JobsOK

\* What a step does not touch stays well typed.
LEMMA Frames ==
  /\ TypeTable /\ UNCHANGED <<core, userState>> => TypeTable'
  /\ TypeSessions /\ UNCHANGED <<sessionMap, sessions, seq>> => TypeSessions'
  /\ TypeConn /\ ConnsOK /\ UNCHANGED conn => TypeConn' /\ ConnsOK'
  /\ TypeAdmin /\ JobsOK /\ UNCHANGED <<admin, ops>> => TypeAdmin' /\ JobsOK'
  <1>1. TypeTable /\ UNCHANGED <<core, userState>> => TypeTable'
    BY Zenon DEF TypeTable, core, userState
  <1>2. TypeSessions /\ UNCHANGED <<sessionMap, sessions, seq>> => TypeSessions'
    BY Zenon DEF TypeSessions, sessionMap, sessions, events
  <1>3. TypeConn /\ ConnsOK /\ UNCHANGED conn => TypeConn' /\ ConnsOK'
    BY Zenon DEF TypeConn, ConnsOK, conn
  <1>4. TypeAdmin /\ JobsOK /\ UNCHANGED <<admin, ops>> => TypeAdmin' /\ JobsOK'
    BY Zenon DEF TypeAdmin, JobsOK, admin
  <1> QED
    BY <1>1, <1>2, <1>3, <1>4, Zenon

\* A connection's steps keep the state well typed.
LEMMA ConnectionTyped ==
  ASSUME Typed, NEW c \in Connections, ConnectionStep(c)
  PROVE  Typed'
  <1> USE DEF Typed
  <1>0. NoLimits \in Limits
    BY Zenon DEF NoLimits, Limits
  <1>a. PeerIps \subseteq Ips \cup {NoIp} /\ NoSid \in 0..MaxSeq
        /\ {"idle", "hashed", "identified", "resolved", "opening", "holding"} \subseteq ConnPc
    BY ConversionsAssumption, BoundsAssumption DEF PeerIps, SourceIps, NoSid, ConnPc
  <1>1. ASSUME NEW k \in Credentials, NEW ip \in PeerIps, Authenticate(c, k, ip)
        PROVE  Typed'
    <2> DEFINE r == [cred |-> Trim[k], user |-> index[Trim[k]], ip |-> ip, limits |-> NoLimits]
    <2>1. r \in Requests /\ ConnOK("identified", r, NoHandle, NoSid)
      BY <1>0, <1>a, <1>1, ConversionsAssumption, Zenon DEF Authenticate, Requests, ConnOK, TypeTable
    <2> HIDE DEF r
    <2>2. TypeConn' /\ ConnsOK'
      BY <1>a, <1>1, <2>1, GoToTyped, Zenon DEF Authenticate, r
    <2> QED
      BY <1>1, <2>2, Frames, Zenon DEF Authenticate
  <1>2. ASSUME NEW k \in Credentials, NEW ip \in PeerIps, AuthenticateHash(c, k, ip)
        PROVE  Typed'
    <2> DEFINE r == [cred |-> k, user |-> NoUser, ip |-> ip, limits |-> NoLimits]
    <2>1. r \in Requests /\ ConnOK("hashed", r, NoHandle, NoSid)
      BY <1>0, <1>a, Zenon DEF Requests, ConnOK
    <2> HIDE DEF r
    <2>2. TypeConn' /\ ConnsOK'
      BY <1>a, <1>2, <2>1, GoToTyped, Zenon DEF AuthenticateHash, r
    <2> QED
      BY <1>2, <2>2, Frames, Zenon DEF AuthenticateHash
  <1>3. ASSUME NEW u \in UserIds, NEW ip \in PeerIps, OpenSessionById(c, u, ip)
        PROVE  Typed'
    <2> DEFINE r == [cred |-> NoCredential, user |-> u, ip |-> ip, limits |-> NoLimits]
    <2>1. r \in Requests /\ ConnOK("identified", r, NoHandle, NoSid)
      BY <1>0, <1>a, Zenon DEF Requests, ConnOK
    <2> HIDE DEF r
    <2>2. TypeConn' /\ ConnsOK'
      BY <1>a, <1>3, <2>1, GoToTyped, Zenon DEF OpenSessionById, r
    <2> QED
      BY <1>3, <2>2, Frames, Zenon DEF OpenSessionById
  <1>4. ASSUME AuthenticateHashed(c) PROVE Typed'
    <2> DEFINE k == Trim[req[c].cred]
               r == [cred |-> k, user |-> index[k], ip |-> req[c].ip, limits |-> NoLimits]
    <2>1. k \in Credentials
      BY <1>4, ConversionsAssumption, Zenon DEF AuthenticateHashed, ConnsOK, ConnOK
    <2>2. CASE index[k] # NoUser
      <3>1. r \in Requests /\ ConnOK("identified", r, NoHandle, NoSid)
        BY <1>0, <2>1, <2>2, Zenon DEF Requests, ConnOK, TypeConn, TypeTable
      <3>2. GoTo(c, "identified", r, NoHandle, NoSid)
        BY <1>4, <2>2, Zenon DEF AuthenticateHashed
      <3> QED
        BY <1>a, <1>4, <3>1, <3>2, GoToTyped, Frames, Zenon DEF AuthenticateHashed
    <2>3. CASE index[k] = NoUser
      BY <1>4, <2>3, GoIdleTyped, Frames, Zenon DEF AuthenticateHashed
    <2> QED
      BY <2>2, <2>3, Zenon
  <1>5. ASSUME ResolveUser(c) PROVE Typed'
    <2> DEFINE h == users[req[c].user]
    <2>1. h \in Handles \cup {NoHandle}
      BY <1>5, Zenon DEF ResolveUser, ConnsOK, ConnOK, TypeTable
    <2>2. CASE h = NoHandle
      BY <1>5, <2>2, GoIdleTyped, Frames, Zenon DEF ResolveUser, TypeSessions, sessionMap, sessions, events
    <2>3. CASE h # NoHandle
      <3>0. seq < MaxSeq /\ seq' = seq + 1 /\ GoTo(c, "resolved", req[c], h, seq + 1)
        BY <1>5, <2>3, Zenon DEF ResolveUser
      <3>5. seq + 1 \in Sids /\ seq + 1 \in 0..MaxSeq
        BY <3>0, BoundsAssumption DEF Sids, TypeSessions
      <3>1. seq' = seq + 1 /\ seq + 1 \in Sids /\ seq + 1 \in 0..MaxSeq
            /\ GoTo(c, "resolved", req[c], h, seq + 1)
        BY <3>0, <3>5, Zenon
      <3>2. req[c] \in Requests /\ ConnOK("resolved", req[c], h, seq + 1)
        BY <2>1, <2>3, <3>1, Zenon DEF ConnOK, TypeConn
      <3>3. TypeConn' /\ ConnsOK'
        BY <1>a, <2>1, <3>1, <3>2, GoToTyped, Zenon
      <3>4. TypeSessions'
        BY <1>5, <3>1, Zenon DEF ResolveUser, TypeSessions, sessionMap, sessions, events
      <3> QED
        BY <1>5, <3>3, <3>4, Frames, Zenon DEF ResolveUser
    <2> QED
      BY <2>2, <2>3, Zenon
  <1>6. ASSUME ReadLimits(c) PROVE Typed'
    <2> DEFINE r == [req[c] EXCEPT !.limits = limits[handle[c]]]
    <2>0. handle[c] \in Handles /\ sid[c] \in Sids
      BY <1>6, Zenon DEF ReadLimits, ConnsOK, ConnOK
    <2>4. req[c] \in Requests /\ limits[handle[c]] \in Limits
      BY <2>0, Zenon DEF TypeConn, TypeTable
    <2>1. r \in Requests /\ ConnOK("opening", r, handle[c], sid[c])
      BY <2>0, <2>4, Zenon DEF Requests, ConnOK
    <2>2. handle[c] \in Handles \cup {NoHandle} /\ sid[c] \in 0..MaxSeq
      BY Zenon DEF TypeConn
    <2> HIDE DEF r
    <2>3. TypeConn' /\ ConnsOK'
      BY <1>a, <1>6, <2>1, <2>2, GoToTyped, Zenon DEF ReadLimits, r
    <2> QED
      BY <1>6, <2>3, Frames, Zenon DEF ReadLimits
  <1>7. ASSUME OpenSession(c) PROVE Typed'
    <2> DEFINE S == slots[handle[c]] \cup {sid[c]}
               ip == [ipOf EXCEPT ![sid[c]] = req[c].ip]
    <2>0. handle[c] \in Handles /\ sid[c] \in Sids /\ cpc[c] = "opening"
      BY <1>7, Zenon DEF OpenSession, ConnsOK, ConnOK
    <2>1. S \in SUBSET Sids /\ ip \in [Sids -> Ips \cup {NoIp}]
      BY <2>0, Zenon DEF TypeSessions, TypeConn, Requests
    <2>3. /\ UpdateOnlineCounts(handle[c], S, ip) /\ ipOf' = ip
          /\ GoTo(c, "holding", req[c], handle[c], sid[c])
      BY <1>7, Zenon DEF OpenSession
    <2> HIDE DEF S, ip
    <2>4. /\ slots' \in [Handles -> SUBSET Sids] /\ ipOf' \in [Sids -> Ips \cup {NoIp}]
      BY <2>1, <2>3, Zenon DEF UpdateOnlineCounts, TypeSessions
    <2>5. TypeSessions'
      <3>1. opened' \in [Sids -> Nat]
        BY <1>7, <2>0, CountUp, Zenon DEF OpenSession, TypeSessions
      <3>2. ctl' \in [Sids -> {"none", "active", "cancelled"}]
        BY <1>7, <2>0, Zenon DEF OpenSession, TypeSessions
      <3>3. closed' = closed /\ cancelled' = cancelled /\ seq' = seq
        BY <1>7, Zenon DEF OpenSession
      <3> QED
        BY <2>4, <3>1, <3>2, <3>3, Zenon DEF TypeSessions
    <2>6. TypeConn' /\ ConnsOK'
      <3>1. req[c] \in Requests /\ sid[c] \in 0..MaxSeq
            /\ ConnOK("holding", req[c], handle[c], sid[c])
        BY <2>0, Zenon DEF TypeConn, ConnOK
      <3> QED
        BY <1>a, <2>0, <2>3, <3>1, GoToTyped, Zenon
    <2> QED
      BY <1>7, <2>5, <2>6, Frames, Zenon DEF OpenSession
  <1>8. ASSUME RefuseSession(c) PROVE Typed'
    BY <1>8, GoIdleTyped, Frames, Zenon DEF RefuseSession
  <1>9. ASSUME CloseSession(c) PROVE Typed'
    <2> DEFINE S == slots[handle[c]] \ {sid[c]}
    <2>0. handle[c] \in Handles /\ sid[c] \in Sids
      BY <1>9, Zenon DEF CloseSession, ConnsOK, ConnOK
    <2>1. S \in SUBSET Sids
      BY <2>0, Zenon DEF TypeSessions
    <2>3. UpdateOnlineCounts(handle[c], S, ipOf)
      BY <1>9, Zenon DEF CloseSession
    <2> HIDE DEF S
    <2>4. /\ slots' \in [Handles -> SUBSET Sids]
      BY <2>1, <2>3, Zenon DEF UpdateOnlineCounts, TypeSessions
    <2>5. TypeSessions'
      <3>1. closed' \in [Sids -> Nat]
        <4>1. closed' = closed \/ closed' = [closed EXCEPT ![sid[c]] = @ + 1]
          <5>1. closed' = [closed EXCEPT ![sid[c]] = IF sid[c] \in slots[handle[c]] THEN @ + 1 ELSE @]
            BY <1>9, Zenon DEF CloseSession
          <5> QED
            BY <2>0, <5>1, Zenon DEF TypeSessions
        <4> QED
          BY <2>0, <4>1, CountUp DEF TypeSessions
      <3>2. ipOf' = ipOf /\ ctl' = ctl /\ opened' = opened /\ cancelled' = cancelled /\ seq' = seq
        BY <1>9, Zenon DEF CloseSession
      <3> QED
        BY <2>4, <3>1, <3>2, Zenon DEF TypeSessions
    <2> QED
      BY <1>9, <2>5, GoIdleTyped, Frames, Zenon DEF CloseSession
  <1> QED
    BY <1>1, <1>2, <1>3, <1>4, <1>5, <1>6, <1>7, <1>8, <1>9, Zenon DEF ConnectionStep, PeerIps

\* The calls an administrator makes keep the state well typed.
LEMMA AdminCallTyped ==
  ASSUME Typed, NEW a \in Admins, AdminCall(a)
  PROVE  Typed'
  <1> USE DEF Typed
  <1>0. NoLimits \in Limits /\ NoJob \in Jobs /\ NoJob.list = {} /\ NoJob.todo = {}
        /\ Valid({}) /\ {"update", "cancel", "limits"} \subseteq AdminPc
    BY Zenon DEF NoLimits, Limits, NoJob, Jobs, Valid, AdminPc
  <1>1. ASSUME NEW list \in UserLists, ReplaceUsers(a, list) PROVE Typed'
    <2>1. IdsOf(list) \subseteq UserIds /\ list \in SUBSET ListEntries /\ Valid(list)
      BY <1>1, ListsAssumption, Zenon DEF ReplaceUsers, Valid, IdsOf, ListEntries
    <2> DEFINE Q == {users[u] : u \in UserIds \ IdsOf(list)} \ {NoHandle}
               J == [NoJob EXCEPT !.op = "replace", !.list = list, !.current = users,
                                  !.todo = IdsOf(list), !.queue = Q]
    <2>2. Q \in SUBSET Handles
      BY DEF TypeTable
    <2>3. J \in Jobs /\ J.list = list /\ J.todo = IdsOf(list)
      BY <1>0, <2>1, <2>2, Zenon DEF Jobs, TypeTable
    <2>4. SetJob(a, "update", J) /\ ops' \in 0..MaxOps
      BY <1>1, BoundsAssumption DEF ReplaceUsers, TypeAdmin
    <2> HIDE DEF J
    <2>5. JobOK("update", J)
      BY <2>1, <2>3, Zenon DEF JobOK
    <2>6. TypeAdmin' /\ JobsOK'
      BY <1>0, <1>1, <2>3, <2>4, <2>5, SetJobTyped, Zenon DEF ReplaceUsers, TypeAdmin
    <2> QED
      BY <1>1, <2>6, Frames, Zenon DEF ReplaceUsers
  <1>2. ASSUME NEW H \in SUBSET Handles, CancelHandles(a, H) PROVE Typed'
    <2> DEFINE J == [NoJob EXCEPT !.op = "cancel", !.queue = H]
    <2>1. J \in Jobs /\ J.list = {} /\ J.todo = {}
      BY <1>0, Zenon DEF Jobs
    <2>2. SetJob(a, "cancel", J) /\ ops' \in 0..MaxOps
      BY <1>2, BoundsAssumption DEF CancelHandles, TypeAdmin
    <2> HIDE DEF J
    <2>3. JobOK("cancel", J)
      BY <1>0, <2>1, Zenon DEF JobOK
    <2>4. TypeAdmin' /\ JobsOK'
      BY <1>0, <1>2, <2>1, <2>2, <2>3, SetJobTyped, Zenon DEF CancelHandles, TypeAdmin
    <2> QED
      BY <1>2, <2>4, Frames, Zenon DEF CancelHandles
  <1>3. ASSUME NEW u \in UserIds, NEW l \in LimitValues, SetLimits(a, u, l) PROVE Typed'
    <2> DEFINE J == [NoJob EXCEPT !.op = "limits", !.handle = users[u], !.limits = l]
    <2>1. users[u] \in Handles /\ l \in Limits
      BY <1>3, LimitsAssumption, Zenon DEF SetLimits, TypeTable
    <2>2. J \in Jobs /\ J.list = {} /\ J.todo = {} /\ J.handle = users[u]
      BY <1>0, <2>1, Zenon DEF Jobs
    <2>3. SetJob(a, "limits", J) /\ ops' \in 0..MaxOps
      BY <1>3, BoundsAssumption DEF SetLimits, TypeAdmin
    <2> HIDE DEF J
    <2>4. JobOK("limits", J)
      BY <1>0, <2>1, <2>2, Zenon DEF JobOK
    <2>5. TypeAdmin' /\ JobsOK'
      BY <1>0, <1>3, <2>2, <2>3, <2>4, SetJobTyped, Zenon DEF SetLimits, TypeAdmin
    <2> QED
      BY <1>3, <2>5, Frames, Zenon DEF SetLimits
  <1>4. ASSUME NEW u \in UserIds, CancelUserSessions(a, u) PROVE Typed'
    <2>1. {users[u]} \in SUBSET Handles
      BY <1>4, Zenon DEF CancelUserSessions, TypeTable
    <2> QED
      BY <1>2, <1>4, <2>1, Zenon DEF CancelUserSessions
  <1>5. ASSUME CancelAllSessions(a) PROVE Typed'
    <2>1. Table \in SUBSET Handles
      BY DEF Table, TypeTable
    <2> QED
      BY <1>2, <1>5, <2>1, Zenon DEF CancelAllSessions
  <1> QED
    BY <1>1, <1>3, <1>4, <1>5, Zenon DEF AdminCall
\* The steps of a call in progress keep the state well typed.
LEMMA AdminStepTyped ==
  ASSUME Typed, NEW a \in Admins, AdminStep(a)
  PROVE  Typed'
  <1> USE DEF Typed
  <1>0. NoJob \in Jobs /\ JobOK("idle", NoJob) /\ AdminPc =
          {"idle", "update", "credentials", "limits", "index", "clear", "signal", "cancel"}
    BY Zenon DEF NoLimits, Limits, NoJob, Jobs, Valid, JobOK, AdminPc
  <1>a. job[a] \in Jobs /\ JobOK(apc[a], job[a]) /\ apc[a] \in AdminPc
    BY Zenon DEF TypeAdmin, JobsOK
  <1>b. ASSUME NEW pc \in AdminPc, apc' = [apc EXCEPT ![a] = pc], job' = job,
               pc \in {"clear", "signal", "credentials", "limits"} => job[a].handle \in Handles
        PROVE  apc' \in [Admins -> AdminPc] /\ JobsOK'
    <2>1. JobOK(pc, job[a]) /\ SetJob(a, pc, job[a])
      BY <1>a, <1>b, Zenon DEF JobOK, SetJob, TypeAdmin
    <2> QED
      BY <1>a, <2>1, SetJobTyped, Zenon
  <1>1. ASSUME NEW u \in UserIds, NEW h \in Handles, AddUser(a, u, h) PROVE Typed'
    <2> DEFINE J == [job[a] EXCEPT !.built = [@ EXCEPT ![u] = h], !.todo = @ \ {u}]
    <2>1. /\ CredsOf(job[a].list, u) \in SUBSET Credentials
          /\ LimitsOf(job[a].list, u) \in Limits
      BY <1>1, <1>a, CredsOfType, LimitsOfType, Zenon DEF AddUser, Jobs, JobOK
    <2>2. J \in Jobs /\ J.list = job[a].list /\ J.todo \subseteq job[a].todo
      BY <1>a, Zenon DEF Jobs
    <2>3. SetJob(a, "update", J)
      BY <1>1, Zenon DEF AddUser
    <2> HIDE DEF J
    <2>4. JobOK("update", J)
      BY <1>a, <2>2, Zenon DEF JobOK
    <2>5. TypeAdmin' /\ JobsOK'
      BY <1>0, <1>1, <2>2, <2>3, <2>4, SetJobTyped, Zenon DEF AddUser, TypeAdmin
    <2>6. TypeTable'
      BY <1>1, <2>1, Zenon DEF AddUser, TypeTable, core
    <2> QED
      BY <1>1, <2>5, <2>6, Frames, Zenon DEF AddUser
  <1>2. ASSUME NEW u \in UserIds, UpdateUser(a, u) PROVE Typed'
    <2> DEFINE h == job[a].current[u]
               J == [job[a] EXCEPT !.user = u, !.handle = h, !.limits = LimitsOf(job[a].list, u)]
               pc == IF creds[h] = CredsOf(job[a].list, u) THEN "limits" ELSE "clear"
    <2>1. LimitsOf(job[a].list, u) \in Limits
      BY <1>2, <1>a, LimitsOfType, Zenon DEF UpdateUser, Jobs, JobOK
    <2>2. h \in Handles
      BY <1>2, <1>a, Zenon DEF UpdateUser, Jobs
    <2>3. J \in Jobs /\ J.list = job[a].list /\ J.todo = job[a].todo /\ J.handle = h
      BY <1>a, <2>1, <2>2, Zenon DEF Jobs
    <2>4. SetJob(a, pc, J) /\ pc \in AdminPc
      BY <1>0, <1>2, Zenon DEF UpdateUser
    <2> HIDE DEF J, pc
    <2>5. JobOK(pc, J)
      BY <1>a, <2>2, <2>3, Zenon DEF JobOK
    <2>6. TypeAdmin' /\ JobsOK'
      BY <1>2, <2>3, <2>4, <2>5, SetJobTyped, Zenon DEF UpdateUser, TypeAdmin
    <2> QED
      BY <1>2, <2>6, Frames, Zenon DEF UpdateUser
  <1>3. ASSUME WriteCredentials(a) PROVE Typed'
    <2>1. CredsOf(job[a].list, job[a].user) \in SUBSET Credentials
      BY <1>a, CredsOfType, Zenon DEF Jobs, JobOK
    <2>2. TypeAdmin' /\ JobsOK'
      BY <1>0, <1>3, <1>a, <1>b, Zenon DEF WriteCredentials, TypeAdmin, JobOK
    <2>3. TypeTable'
      BY <1>3, <2>1, Zenon DEF WriteCredentials, TypeTable, core
    <2> QED
      BY <1>3, <2>2, <2>3, Frames, Zenon DEF WriteCredentials
  <1>4. ASSUME WriteLimits(a) PROVE Typed'
    <2> DEFINE J == [job[a] EXCEPT !.built = [@ EXCEPT ![job[a].user] = job[a].handle],
                                   !.todo = @ \ {job[a].user},
                                   !.user = NoUser, !.handle = NoHandle]
    <2>1. job[a].limits \in Limits /\ job[a].handle \in Handles
      BY <1>4, <1>a, Zenon DEF Jobs, JobOK, WriteLimits
    <2>2. \A p, l \in Limits : Raise(p, l) \in Limits
      BY Zenon DEF Raise, Limits, Larger
    <2>3. TypeTable'
      BY <1>4, <2>1, <2>2, Zenon DEF WriteLimits, TypeTable, core
    <2>4. CASE job[a].op = "replace"
      <3>1. J \in Jobs /\ J.list = job[a].list /\ J.todo \subseteq job[a].todo
        BY <1>a, <2>1, Zenon DEF Jobs
      <3>2. SetJob(a, "update", J)
        BY <1>4, <2>4, Zenon DEF WriteLimits
      <3> HIDE DEF J
      <3>3. JobOK("update", J)
        BY <1>a, <3>1, Zenon DEF JobOK
      <3>4. TypeAdmin' /\ JobsOK'
        BY <1>0, <1>4, <3>1, <3>2, <3>3, SetJobTyped, Zenon DEF WriteLimits, TypeAdmin
      <3> QED
        BY <1>4, <2>3, <3>4, Frames, Zenon DEF WriteLimits
    <2>5. CASE job[a].op # "replace"
      <3>1. TypeAdmin' /\ JobsOK'
        BY <1>0, <1>4, <2>5, SetJobTyped, Zenon DEF WriteLimits, TypeAdmin
      <3> QED
        BY <1>4, <2>3, <3>1, Frames, Zenon DEF WriteLimits
    <2> QED
      BY <2>4, <2>5, Zenon
  <1>5. ASSUME NEW h \in Handles, CancelRemoved(a, h) \/ CancelNext(a, h) PROVE Typed'
    <2> DEFINE J == [job[a] EXCEPT !.handle = h, !.queue = @ \ {h}]
    <2>1. J \in Jobs /\ J.list = job[a].list /\ J.todo = job[a].todo /\ J.handle = h
      BY <1>a, Zenon DEF Jobs
    <2>2. SetJob(a, "clear", J)
      BY <1>5, Zenon DEF CancelRemoved, CancelNext
    <2> HIDE DEF J
    <2>3. JobOK("clear", J)
      BY <1>a, <2>1, Zenon DEF JobOK
    <2>4. TypeAdmin' /\ JobsOK'
      BY <1>0, <1>5, <2>1, <2>2, <2>3, SetJobTyped, Zenon DEF CancelRemoved, CancelNext, TypeAdmin
    <2> QED
      BY <1>5, <2>4, Frames, Zenon DEF CancelRemoved, CancelNext
  <1>6. ASSUME PublishUsers(a) PROVE Typed'
    <2>1. TypeAdmin' /\ JobsOK'
      BY <1>0, <1>6, <1>b, Zenon DEF PublishUsers, TypeAdmin
    <2>2. TypeTable'
      BY <1>6, <1>a, Zenon DEF PublishUsers, TypeTable, userState, Jobs
    <2> QED
      BY <1>6, <2>1, <2>2, Frames, Zenon DEF PublishUsers
  <1>7. ASSUME PublishIndex(a) PROVE Typed'
    <2> DEFINE X == [k \in Credentials |->
                       IF \E e \in job[a].list : e.cred = k
                       THEN (CHOOSE e \in job[a].list : e.cred = k).id ELSE NoUser]
    <2>1. \A e \in job[a].list : e.id \in UserIds
      BY <1>a, Zenon DEF Jobs, JobOK, Valid, ListEntries
    <2>2. X \in [Credentials -> UserIds \cup {NoUser}]
      BY <2>1, Zenon
    <2>3. index' = X
      BY <1>7, Zenon DEF PublishIndex
    <2> HIDE DEF X
    <2>4. TypeTable'
      BY <1>7, <2>2, <2>3, Zenon DEF PublishIndex, TypeTable, userState
    <2>5. TypeAdmin' /\ JobsOK'
      BY <1>0, <1>7, SetJobTyped, Zenon DEF PublishIndex, TypeAdmin
    <2> QED
      BY <1>7, <2>4, <2>5, Frames, Zenon DEF PublishIndex
  <1>8. ASSUME ClearSessions(a) PROVE Typed'
    <2>1. job[a].handle \in Handles
      BY <1>8, <1>a, Zenon DEF ClearSessions, JobOK
    <2>4. /\ slots' \in [Handles -> SUBSET Sids] /\ pend' \in [Admins -> SUBSET Sids]
      BY <1>8, <2>1, Zenon DEF ClearSessions, TypeSessions, TypeAdmin
    <2>5. UNCHANGED <<ipOf, seq, ctl, opened, closed, cancelled>>
      BY <1>8, Zenon DEF ClearSessions, sessions, events
    <2>2. TypeSessions' /\ pend' \in [Admins -> SUBSET Sids]
      BY <2>4, <2>5, Zenon DEF TypeSessions
    <2>3. TypeAdmin' /\ JobsOK'
      BY <1>0, <1>8, <1>b, <2>1, <2>2, Zenon DEF ClearSessions, TypeAdmin
    <2> QED
      BY <1>8, <2>2, <2>3, Frames, Zenon DEF ClearSessions
  <1>9. ASSUME NEW s \in Sids, AnnounceCancelled(a, s) PROVE Typed'
    <2>0. /\ cancelled' = [cancelled EXCEPT ![s] = @ + 1] /\ announced' = [announced EXCEPT ![a] = s]
          /\ UNCHANGED <<slots, ipOf, seq, ctl, opened, closed, apc, job, pend, ops, targeted>>
      BY <1>9, Zenon DEF AnnounceCancelled, sessionMap
    <2>1. cancelled' \in [Sids -> Nat]
      BY <2>0, CountUp, Zenon DEF TypeSessions
    <2>2. TypeSessions'
      BY <2>0, <2>1, Zenon DEF TypeSessions
    <2>3. TypeAdmin' /\ JobsOK'
      BY <2>0, BoundsAssumption DEF TypeAdmin, JobsOK, Sids
    <2> QED
      BY <1>9, <2>2, <2>3, Frames, Zenon DEF AnnounceCancelled
  <1>10. ASSUME CancelControl(a) PROVE Typed'
    <2>0. /\ ctl' = [ctl EXCEPT ![announced[a]] = "cancelled"]
          /\ pend' = [pend EXCEPT ![a] = @ \ {announced[a]}] /\ announced' = [announced EXCEPT ![a] = NoSid]
          /\ UNCHANGED <<slots, ipOf, seq, opened, closed, cancelled, apc, job, ops, targeted>>
      BY <1>10, Zenon DEF CancelControl, sessionMap, events
    <2>3. ctl' \in [Sids -> {"none", "active", "cancelled"}]
      BY <2>0, Zenon DEF TypeSessions
    <2>1. TypeSessions'
      BY <2>0, <2>3, Zenon DEF TypeSessions
    <2>2. TypeAdmin' /\ JobsOK'
      BY <2>0, BoundsAssumption DEF TypeAdmin, JobsOK, NoSid
    <2> QED
      BY <1>10, <2>1, <2>2, Frames, Zenon DEF CancelControl
  <1>11. ASSUME FinishCancel(a) PROVE Typed'
    <2>1. job[a].handle \in Handles
      BY <1>11, <1>a, Zenon DEF FinishCancel, JobOK
    <2>2. TypeAdmin' /\ JobsOK'
      BY <1>0, <1>11, <1>b, <2>1, Zenon DEF FinishCancel, TypeAdmin
    <2> QED
      BY <1>11, <2>2, Frames, Zenon DEF FinishCancel
  <1>12. ASSUME CancelReturns(a) PROVE Typed'
    <2>1. TypeAdmin' /\ JobsOK'
      BY <1>0, <1>12, SetJobTyped, Zenon DEF CancelReturns, TypeAdmin
    <2> QED
      BY <1>12, <2>1, Frames, Zenon DEF CancelReturns
  <1> QED
    BY <1>1, <1>2, <1>3, <1>4, <1>5, <1>6, <1>7, <1>8, <1>9, <1>10, <1>11, <1>12, Zenon DEF AdminStep

\* Stuttering and every step of the system keep the state well typed.
LEMMA NextTyped == Typed /\ [Next]_vars => Typed'
  <1> SUFFICES ASSUME Typed, [Next]_vars PROVE Typed'
    BY Zenon
  <1>1. CASE UNCHANGED vars
    BY <1>1, Frames, Zenon DEF vars, Typed
  <1> QED
    BY <1>1, ConnectionTyped, AdminCallTyped, AdminStepTyped, Zenon DEF Next

----------------------------------------------------------------------------
(* Sessions *)

\* No session exists in the initial state.
LEMMA InitSInv == Init => SInv
  BY BoundsAssumption
  DEF Init, SInv, DrawnOnce, ControlInv, ControlOK, ConnInv, SlotInv, PendInv, Sids, NoSid, Numbered, Sent

\* A step that leaves every session alone preserves the session invariant.
LEMMA SInvFrame ==
  ASSUME Typed, SInv,
         UNCHANGED <<slots, ctl, events, seq, pend, announced, cpc, handle, sid>>,
         \A a \in Admins : apc'[a] # "signal" => pend[a] = {}
  PROVE  SInv'
  BY SMTT(30) DEF SInv, DrawnOnce, ControlInv, ControlOK, ConnInv, SlotInv, PendInv, SlotOK, PendOK, Sent, events

\* The events of every session still match its control after a step that is
\* silent about all but one session, and right about that one.
LEMMA ControlKept ==
  ASSUME ControlInv, NEW s \in Sids, ControlOK(s)',
         \A x \in Sids : x # s => ctl'[x] = ctl[x] /\ Silent(x)
  PROVE  ControlInv'
  BY DEF ControlInv, ControlOK, Sent, Silent

\* Collected sessions stay well formed under a step that changes neither
\* them nor what the administrators are doing.
LEMMA PendKept ==
  ASSUME PendInv, UNCHANGED <<pend, announced, apc>>,
         \A a \in Admins : \A x \in pend[a] : ctl'[x] = ctl[x] /\ Silent(x)
  PROVE  PendInv'
  <1>1. ASSUME NEW a \in Admins, NEW x \in pend[a] PROVE PendOK(a, x)'
    BY DEF PendInv, PendOK, Sent, Silent
  <1> QED
    BY <1>1, Zenon DEF PendInv

\* Registered sessions stay well formed under a step that takes none of them
\* from its connection, its events or its control, and collects none.
LEMMA SlotsKept ==
  ASSUME SlotInv,
         \A h \in Handles : \A s \in slots'[h] :
            /\ s \in slots[h] /\ ctl'[s] = ctl[s] /\ Silent(s)
            /\ \A a \in Admins : s \notin pend[a] => s \notin pend'[a],
         \A c \in Connections : cpc[c] = "holding" /\ sid[c] \in slots'[handle[c]] =>
            cpc'[c] = "holding" /\ handle'[c] = handle[c] /\ sid'[c] = sid[c]
  PROVE  SlotInv'
  <1> SUFFICES ASSUME NEW h \in Handles, NEW s \in slots'[h] PROVE SlotOK(h, s)'
    BY Zenon DEF SlotInv
  <1>1. SlotOK(h, s)
    BY Zenon DEF SlotInv
  <1>2. PICK c \in Connections : cpc[c] = "holding" /\ handle[c] = h /\ sid[c] = s
    BY <1>1, Zenon DEF SlotOK
  <1>3. cpc'[c] = "holding" /\ handle'[c] = h /\ sid'[c] = s
    BY <1>2, Zenon
  <1> QED
    BY <1>1, <1>3 DEF SlotOK, Sent, Silent

\* A session is registered with at most one UserState.
LEMMA SlotsDisjoint ==
  ASSUME SInv, NEW g \in Handles, NEW h \in Handles, NEW s \in slots[g], s \in slots[h]
  PROVE  g = h
  <1>1. SlotOK(g, s) /\ SlotOK(h, s)
    BY Zenon DEF SInv, SlotInv
  <1>2. PICK c \in Connections : cpc[c] = "holding" /\ handle[c] = g /\ sid[c] = s
    BY <1>1, Zenon DEF SlotOK
  <1>3. PICK d \in Connections : cpc[d] = "holding" /\ handle[d] = h /\ sid[d] = s
    BY <1>1, Zenon DEF SlotOK
  <1> QED
    BY <1>2, <1>3, Zenon DEF SInv, DrawnOnce, Numbered

\* An unallocated UserState has no sessions.
LEMMA UnallocatedEmpty ==
  ASSUME Typed, SInv, OwnersInv, NEW h \in Handles, owner[h] = NoUser
  PROVE  /\ slots[h] = {}
         /\ \A c \in Connections : cpc[c] \in Numbered => handle[c] # h
  <1>1. \A c \in Connections : cpc[c] \in Numbered => handle[c] # h
    BY Zenon DEF OwnersInv, Allocated
  <1>2. slots[h] = {}
    BY <1>1 DEF SInv, SlotInv, SlotOK, Numbered
  <1> QED
    BY <1>1, <1>2, Zenon

\* So does a connection that is not holding a session and does not come to
\* hold one.
LEMMA SInvGoTo ==
  ASSUME Typed, SInv, NEW c \in Connections, NEW pc, NEW r, NEW h, NEW s,
         GoTo(c, pc, r, h, s), cpc[c] # "holding",
         pc \in Numbered => pc # "holding" /\ cpc[c] \in Numbered /\ s = sid[c],
         UNCHANGED <<slots, ctl, events, seq, pend, announced, apc>>
  PROVE  SInv'
  <1> USE DEF Typed, TypeConn, GoTo
  <1>1. DrawnOnce'
    BY DEF SInv, DrawnOnce, Numbered
  <1>2. ControlInv'
    BY Zenon DEF SInv, ControlInv, ControlOK, Sent, events
  <1>3. ConnInv'
    BY Zenon DEF SInv, ConnInv, Numbered
  <1>4. SlotInv'
    BY SlotsKept, Zenon DEF SInv, Silent, events
  <1>5. PendInv'
    BY DEF SInv, PendInv, PendOK, Sent, events
  <1> QED
    BY <1>1, <1>2, <1>3, <1>4, <1>5, Zenon DEF SInv

\* Drawing a session id and registering and dropping a session preserve it.
LEMMA ConnectionSInv ==
  ASSUME Typed, Typed', SInv, NEW c \in Connections, ConnectionStep(c)
  PROVE  SInv'
  <1> USE DEF core, userState, sessionMap, sessions, admin
  <1>1. ASSUME NEW ip, NEW k, Authenticate(c, k, ip) \/ AuthenticateHash(c, k, ip)
        PROVE  SInv'
    BY <1>1, SInvGoTo, Zenon DEF Authenticate, AuthenticateHash, Numbered
  <1>2. ASSUME NEW ip, NEW u, OpenSessionById(c, u, ip) PROVE SInv'
    BY <1>2, SInvGoTo, Zenon DEF OpenSessionById, Numbered
  <1>3. ASSUME AuthenticateHashed(c) PROVE SInv'
    BY <1>3, SInvGoTo, Zenon DEF AuthenticateHashed, GoIdle, Numbered
  <1>4. ASSUME ResolveUser(c) PROVE SInv'
    <2>1. CASE users[req[c].user] = NoHandle
      BY <1>4, <2>1, SInvGoTo, Zenon DEF ResolveUser, GoIdle, Numbered
    <2>2. CASE users[req[c].user] # NoHandle
      <3>n. seq \in Nat
        BY BoundsAssumption DEF Typed, TypeSessions
      <3>u. /\ seq' = seq + 1 /\ seq < MaxSeq /\ cpc[c] = "identified"
            /\ GoTo(c, "resolved", req[c], users[req[c].user], seq + 1)
            /\ UNCHANGED <<slots, ctl, events, pend, announced, apc>>
        BY <1>4, <2>2, Zenon DEF ResolveUser
      <3>0. /\ seq' = seq + 1 /\ seq < MaxSeq /\ cpc[c] = "identified" /\ seq \in Nat
            /\ GoTo(c, "resolved", req[c], users[req[c].user], seq + 1)
            /\ UNCHANGED <<slots, ctl, events, pend, announced, apc>>
        BY <3>n, <3>u, Zenon
      <3>1. /\ cpc'[c] = "resolved" /\ sid'[c] = seq + 1 /\ seq + 1 \in Sids
            /\ \A d \in Connections : d # c =>
                  cpc'[d] = cpc[d] /\ handle'[d] = handle[d] /\ sid'[d] = sid[d]
        BY <3>0, BoundsAssumption DEF Typed, TypeConn, GoTo, Sids
      <3>2. DrawnOnce'
        <4>1. \A d \in Connections : cpc[d] \in Numbered => sid[d] \in Sids
          BY Zenon DEF Typed, ConnsOK, ConnOK, Numbered
        <4> QED
          BY <3>0, <3>1, <4>1, BoundsAssumption DEF SInv, DrawnOnce, Numbered, Sids
      <3>3. ControlInv'
        BY <3>0, Zenon DEF SInv, ControlInv, ControlOK, Sent, events
      <3>4. ConnInv'
        <4>1. ctl[seq + 1] = "none"
          BY <3>0, <3>1 DEF SInv, DrawnOnce
        <4>2. ASSUME NEW d \in Connections, d # c
              PROVE  /\ cpc'[d] \in {"resolved", "opening"} => ctl'[sid'[d]] = "none"
                     /\ cpc'[d] = "holding" => ctl'[sid'[d]] # "none"
                     /\ cpc'[d] = "holding" /\ ctl'[sid'[d]] = "active" =>
                          \/ sid'[d] \in slots'[handle'[d]]
                          \/ \E a \in Admins : sid'[d] \in pend'[a]
          BY <3>0, <3>1, <4>2, Zenon DEF SInv, ConnInv
        <4> QED
          BY <3>0, <3>1, <4>1, <4>2, Zenon DEF ConnInv
      <3>5. SlotInv'
        BY <3>0, <3>1, SlotsKept, Zenon DEF SInv, Silent, events
      <3>6. PendInv'
        BY <3>0 DEF SInv, PendInv, PendOK, Sent, events
      <3> QED
        BY <3>2, <3>3, <3>4, <3>5, <3>6, Zenon DEF SInv
    <2> QED
      BY <2>1, <2>2, Zenon
  <1>5. ASSUME ReadLimits(c) PROVE SInv'
    BY <1>5, SInvGoTo, Zenon DEF ReadLimits, Numbered
  <1>6. ASSUME RefuseSession(c) PROVE SInv'
    BY <1>6, SInvGoTo, Zenon DEF RefuseSession, GoIdle, Numbered
  <1>7. ASSUME OpenSession(c) PROVE SInv'
    <2>s. PICK s \in Sids : s = sid[c]
      BY <1>7, Zenon DEF OpenSession, Typed, ConnsOK, ConnOK
    <2>h. PICK h \in Handles : h = handle[c]
      BY <1>7, Zenon DEF OpenSession, Typed, ConnsOK, ConnOK
    <2>t. /\ slots \in [Handles -> SUBSET Sids] /\ opened \in [Sids -> Nat]
          /\ ctl \in [Sids -> {"none", "active", "cancelled"}] /\ seq \in 0..MaxSeq
          /\ cpc \in [Connections -> ConnPc] /\ handle \in [Connections -> Handles \cup {NoHandle}]
          /\ sid \in [Connections -> 0..MaxSeq]
          /\ pend \in [Admins -> SUBSET Sids]
      BY Zenon DEF Typed, TypeConn, TypeSessions, TypeAdmin
    <2>0. /\ cpc[c] = "opening" /\ h = handle[c] /\ s = sid[c]
          /\ slots' = [slots EXCEPT ![h] = slots[h] \cup {s}]
          /\ ctl' = [ctl EXCEPT ![s] = "active"]
          /\ opened' = [opened EXCEPT ![s] = opened[s] + 1]
          /\ cpc' = [cpc EXCEPT ![c] = "holding"]
          /\ handle' = handle /\ sid' = sid
          /\ UNCHANGED <<closed, cancelled, seq, pend, announced, apc>>
      BY <1>7, <2>s, <2>h, Zenon DEF OpenSession, GoTo, UpdateOnlineCounts, Typed, TypeConn, ConnsOK, ConnOK
    <2>1. ctl[s] = "none" /\ Sent(s, 0, 0, 0)
      BY <2>t, <2>0, Zenon DEF SInv, ConnInv, ControlInv, ControlOK
    <2>2. Sent(s, 1, 0, 0)' /\ ctl'[s] = "active"
      BY <2>t, <2>0, <2>1 DEF Sent
    <2>3. /\ \A g \in Handles : s \notin slots[g]
          /\ \A a \in Admins : s \notin pend[a]
      BY <2>1, Zenon DEF SInv, SlotInv, PendInv, SlotOK, PendOK
    <2>4. /\ \A x \in Sids : x # s => ctl'[x] = ctl[x] /\ Silent(x)
          /\ \A d \in Connections : d # c => cpc'[d] = cpc[d]
          /\ \A d \in Connections : cpc[d] \in Numbered /\ d # c => sid[d] # s
      BY <2>t, <2>0, Zenon DEF SInv, DrawnOnce, Numbered, Silent
    <2>5. DrawnOnce'
      BY <2>t, <2>0, <2>2, <2>4 DEF SInv, DrawnOnce, Numbered, Sids
    <2>6. ControlInv'
      <3>1. ControlOK(s)'
        BY <2>2 DEF ControlOK, Sent
      <3> QED
        BY <2>0, <2>4, <3>1, ControlKept, Zenon DEF SInv
    <2>7. ConnInv'
      <3>1. ASSUME NEW d \in Connections, cpc'[d] \in Numbered, d # c
            PROVE  /\ cpc'[d] = cpc[d] /\ sid[d] # s /\ sid[d] \in Sids
                   /\ ctl'[sid[d]] = ctl[sid[d]] /\ handle[d] \in Handles
                   /\ slots[handle[d]] \subseteq slots'[handle[d]]
        BY <2>t, <2>0, <2>4, <3>1, Zenon DEF Typed, ConnsOK, ConnOK, Numbered
      <3>2. s \in slots'[h]
        BY <2>t, <2>0, Zenon
      <3> QED
        BY <2>t, <2>0, <2>2, <3>1, <3>2 DEF SInv, ConnInv, Numbered
    <2>8. SlotInv'
      <3> SUFFICES ASSUME NEW g \in Handles, NEW x \in slots'[g] PROVE SlotOK(g, x)'
        BY Zenon DEF SlotInv
      <3>1. CASE x = s
        <4>1. g = h
          BY <2>t, <2>0, <2>3, <3>1, Zenon
        <4>2. cpc'[c] = "holding" /\ handle'[c] = g /\ sid'[c] = x
          BY <2>t, <2>0, <3>1, <4>1, Zenon
        <4> QED
          BY <2>t, <2>0, <2>2, <2>3, <3>1, <4>2, Zenon DEF SlotOK
      <3>2. CASE x # s
        <4>1. x \in slots[g] /\ x \in Sids
          BY <2>t, <2>0, <3>2, Zenon
        <4>2. SlotOK(g, x)
          BY <4>1, Zenon DEF SInv, SlotInv
        <4>3. PICK d \in Connections : cpc[d] = "holding" /\ handle[d] = g /\ sid[d] = x
          BY <4>2, Zenon DEF SlotOK
        <4>4. cpc'[d] = "holding" /\ handle'[d] = g /\ sid'[d] = x
          BY <2>t, <2>0, <2>4, <3>2, <4>3, Zenon
        <4> QED
          BY <2>t, <2>0, <2>4, <3>2, <4>1, <4>2, <4>4 DEF SlotOK, Sent, Silent
      <3> QED
        BY <3>1, <3>2, Zenon
    <2>9. PendInv'
      <3>1. ASSUME NEW a \in Admins, NEW x \in pend[a] PROVE ctl'[x] = ctl[x] /\ Silent(x)
        BY <2>t, <2>3, <2>4, Zenon
      <3> QED
        BY <2>0, <3>1, PendKept, Zenon DEF SInv
    <2> QED
      BY <2>5, <2>6, <2>7, <2>8, <2>9, Zenon DEF SInv
  <1>8. ASSUME CloseSession(c) PROVE SInv'
    <2>s. PICK s \in Sids : s = sid[c]
      BY <1>8, Zenon DEF CloseSession, Typed, ConnsOK, ConnOK
    <2>h. PICK h \in Handles : h = handle[c]
      BY <1>8, Zenon DEF CloseSession, Typed, ConnsOK, ConnOK
    <2>t. /\ slots \in [Handles -> SUBSET Sids] /\ closed \in [Sids -> Nat]
          /\ cpc \in [Connections -> ConnPc] /\ handle \in [Connections -> Handles \cup {NoHandle}]
          /\ sid \in [Connections -> 0..MaxSeq]
          /\ pend \in [Admins -> SUBSET Sids]
      BY Zenon DEF Typed, TypeConn, TypeSessions, TypeAdmin
    <2>0. /\ cpc[c] = "holding" /\ h = handle[c] /\ s = sid[c]
          /\ slots' = [slots EXCEPT ![h] = slots[h] \ {s}]
          /\ closed' = [closed EXCEPT ![s] = IF s \in slots[h] THEN closed[s] + 1 ELSE closed[s]]
          /\ cpc' = [cpc EXCEPT ![c] = "idle"]
          /\ handle' = [handle EXCEPT ![c] = NoHandle]
          /\ sid' = [sid EXCEPT ![c] = NoSid]
          /\ UNCHANGED <<ctl, opened, cancelled, seq, pend, announced, apc>>
      BY <1>8, <2>s, <2>h, Zenon DEF CloseSession, GoIdle, GoTo, UpdateOnlineCounts, Typed, ConnsOK, ConnOK
    <2>1. /\ \A x \in Sids : x # s \/ s \notin slots[h] => Silent(x)
          /\ \A d \in Connections : d # c =>
                cpc'[d] = cpc[d] /\ handle'[d] = handle[d] /\ sid'[d] = sid[d]
          /\ \A d \in Connections : cpc[d] \in Numbered /\ d # c => sid[d] # s
          /\ cpc'[c] = "idle"
      BY <2>t, <2>0, Zenon DEF SInv, DrawnOnce, Numbered, Silent
    <2>2. \A g \in Handles : s \notin slots'[g] /\ slots'[g] \subseteq slots[g]
      <3> SUFFICES ASSUME NEW g \in Handles PROVE s \notin slots'[g] /\ slots'[g] \subseteq slots[g]
        BY Zenon
      <3>1. CASE g = h
        BY <2>t, <2>0, <3>1, Zenon
      <3>2. CASE g # h
        <4>1. slots'[g] = slots[g]
          BY <2>t, <2>0, <3>2, Zenon
        <4>2. ASSUME s \in slots[g] PROVE FALSE
          <5>1. SlotOK(g, s)
            BY <4>2, Zenon DEF SInv, SlotInv
          <5>2. PICK d \in Connections : cpc[d] = "holding" /\ handle[d] = g /\ sid[d] = s
            BY <5>1, Zenon DEF SlotOK
          <5> QED
            BY <2>0, <2>1, <3>2, <5>2, Zenon DEF Numbered
        <4> QED
          BY <4>1, <4>2, Zenon
      <3> QED
        BY <3>1, <3>2, Zenon
    <2>3. DrawnOnce'
      BY <2>0, <2>1 DEF SInv, DrawnOnce, Numbered
    <2>4. ControlInv'
      <3>1. CASE s \in slots[h]
        <4>1. Sent(s, 1, 0, 0) /\ ctl[s] = "active"
          <5>1. SlotOK(h, s)
            BY <2>t, <3>1, Zenon DEF SInv, SlotInv
          <5> QED
            BY <5>1, Zenon DEF SlotOK
        <4>2. Sent(s, 1, 1, 0)'
          BY <2>t, <2>0, <3>1, <4>1 DEF Sent
        <4>3. ctl'[s] = "active"
          BY <2>0, <4>1, Zenon
        <4>4. ControlOK(s)'
          BY <4>2, <4>3 DEF ControlOK, Sent
        <4> QED
          BY <2>0, <2>1, <4>4, ControlKept, Zenon DEF SInv
      <3>2. CASE s \notin slots[h]
        <4>1. Silent(s) /\ ControlOK(s)
          BY <2>0, <2>1, <3>2, Zenon DEF SInv, ControlInv
        <4>2. ControlOK(s)'
          BY <2>0, <4>1, Zenon DEF ControlOK, Sent, Silent
        <4> QED
          BY <2>0, <2>1, <4>2, ControlKept, Zenon DEF SInv
      <3> QED
        BY <3>1, <3>2, Zenon
    <2>5. ConnInv'
      <3> SUFFICES ASSUME NEW d \in Connections, cpc'[d] \in Numbered
                   PROVE  /\ cpc'[d] \in {"resolved", "opening"} => ctl'[sid'[d]] = "none"
                          /\ cpc'[d] = "holding" => ctl'[sid'[d]] # "none"
                          /\ cpc'[d] = "holding" /\ ctl'[sid'[d]] = "active" =>
                               \/ sid'[d] \in slots'[handle'[d]]
                               \/ \E a \in Admins : sid'[d] \in pend'[a]
        BY Zenon DEF ConnInv, Numbered
      <3>1. /\ d # c /\ sid'[d] = sid[d] /\ cpc'[d] = cpc[d] /\ handle'[d] = handle[d]
            /\ sid[d] # s /\ handle[d] \in Handles
        BY <2>1, Zenon DEF Numbered, Typed, ConnsOK, ConnOK
      <3>2. sid[d] \in slots[handle[d]] => sid[d] \in slots'[handle[d]]
        BY <2>t, <2>0, <3>1, Zenon
      <3> QED
        BY <2>0, <3>1, <3>2, Zenon DEF SInv, ConnInv
    <2>6. SlotInv'
      <3>1. \A g \in Handles : \A x \in slots'[g] : x \in slots[g] /\ Silent(x)
        BY <2>t, <2>1, <2>2, Zenon
      <3>2. \A d \in Connections : cpc[d] = "holding" /\ sid[d] \in slots'[handle[d]] =>
              cpc'[d] = "holding" /\ handle'[d] = handle[d] /\ sid'[d] = sid[d]
        BY <2>0, <2>1, <2>2, Zenon
      <3> QED
        BY <2>0, <3>1, <3>2, SlotsKept, Zenon DEF SInv
    <2>7. PendInv'
      <3>1. ASSUME NEW a \in Admins, NEW x \in pend[a] PROVE Silent(x)
        <4>1. x \notin slots[h] /\ x \in Sids
          BY <2>t, <2>0, Zenon DEF SInv, SlotInv, SlotOK
        <4> QED
          BY <2>t, <2>0, <2>1, <4>1, Zenon
      <3> QED
        BY <2>0, <3>1, PendKept, Zenon DEF SInv
    <2> QED
      BY <2>3, <2>4, <2>5, <2>6, <2>7, Zenon DEF SInv
  <1> QED
    BY <1>1, <1>2, <1>3, <1>4, <1>5, <1>6, <1>7, <1>8, Zenon DEF ConnectionStep

\* Collecting, announcing and cancelling sessions preserves it, and so does
\* everything else an administrator does.
LEMMA AdminSInv ==
  ASSUME Typed, Typed', SInv, NEW a \in Admins, AdminCall(a) \/ AdminStep(a)
  PROVE  SInv'
  <1> USE DEF core, userState, sessionMap, sessions, conn
  <1>0. \A b \in Admins : apc[b] # "signal" => pend[b] = {}
    BY Zenon DEF SInv, PendInv
  <1>a. ASSUME NEW pc, apc' = [apc EXCEPT ![a] = pc],
               apc[a] # "signal" \/ pend[a] = {},
               UNCHANGED <<slots, ctl, events, seq, pend, announced, cpc, handle, sid>>
        PROVE  SInv'
    <2>1. \A b \in Admins : apc'[b] # "signal" => pend[b] = {}
      BY <1>0, <1>a, Zenon DEF Typed, TypeAdmin
    <2> QED
      BY <1>a, <2>1, SInvFrame, Zenon
  <1>1. ASSUME AdminCall(a) PROVE SInv'
    BY <1>1, <1>a, Zenon DEF AdminCall, ReplaceUsers, CancelUserSessions, CancelAllSessions,
                      CancelHandles, SetLimits, SetJob
  <1>2. ASSUME NEW u, NEW h, UpdateUser(a, u) \/ AddUser(a, u, h) PROVE SInv'
    BY <1>2, <1>a, Zenon DEF UpdateUser, AddUser, SetJob
  <1>3. ASSUME NEW h, CancelRemoved(a, h) \/ CancelNext(a, h) PROVE SInv'
    BY <1>3, <1>a, Zenon DEF CancelRemoved, CancelNext, SetJob
  <1>4. ASSUME \/ WriteCredentials(a) \/ PublishUsers(a) \/ PublishIndex(a)
               \/ FinishCancel(a) \/ CancelReturns(a)
        PROVE  SInv'
    BY <1>4, <1>a, Zenon DEF WriteCredentials, PublishUsers, PublishIndex, FinishCancel,
                      CancelReturns, SetJob
  <1>5. ASSUME WriteLimits(a) PROVE SInv'
    BY <1>5, <1>a, Zenon DEF WriteLimits, SetJob
  <1>6. ASSUME ClearSessions(a) PROVE SInv'
    <2> DEFINE h == job[a].handle
    <2>t. /\ slots \in [Handles -> SUBSET Sids] /\ ctl \in [Sids -> {"none", "active", "cancelled"}]
          /\ cancelled \in [Sids -> Nat]
          /\ pend \in [Admins -> SUBSET Sids] /\ announced \in [Admins -> 0..MaxSeq]
          /\ apc \in [Admins -> AdminPc]
      BY Zenon DEF Typed, TypeSessions, TypeAdmin
    <2>0. /\ h \in Handles /\ apc[a] = "clear" /\ pend[a] = {} /\ announced[a] = NoSid
          /\ pend' = [pend EXCEPT ![a] = slots[h]]
          /\ slots' = [slots EXCEPT ![h] = {}]
          /\ apc' = [apc EXCEPT ![a] = "signal"]
          /\ UNCHANGED <<ctl, events, seq, announced, cpc, handle, sid>>
      BY <1>0, <1>6, Zenon DEF ClearSessions, Typed, JobsOK, JobOK, SInv, PendInv
    <2>1. /\ pend'[a] = slots[h]
          /\ \A b \in Admins : b # a => pend'[b] = pend[b] /\ apc'[b] = apc[b]
          /\ slots'[h] = {}
          /\ \A g \in Handles : g # h => slots'[g] = slots[g]
      BY <2>t, <2>0, Zenon
    <2>2. DrawnOnce' /\ ControlInv'
      BY <2>0, Zenon DEF SInv, DrawnOnce, ControlInv, ControlOK, Sent, events
    <2>3. ConnInv'
      <3>1. ASSUME NEW c \in Connections, cpc[c] = "holding", ctl[sid[c]] = "active"
            PROVE  \/ sid[c] \in slots'[handle[c]]
                   \/ \E b \in Admins : sid[c] \in pend'[b]
        <4>1. handle[c] \in Handles
          BY <3>1, Zenon DEF Typed, ConnsOK, ConnOK
        <4>2. CASE sid[c] \in slots[handle[c]]
          BY <2>1, <4>1, <4>2, Zenon
        <4>3. CASE \E b \in Admins : sid[c] \in pend[b]
          BY <2>0, <2>1, <4>3, Zenon
        <4> QED
          BY <3>1, <4>2, <4>3, Zenon DEF SInv, ConnInv
      <3> QED
        BY <2>0, <3>1, Zenon DEF SInv, ConnInv
    <2>4. SlotInv'
      <3>1. ASSUME NEW g \in Handles, NEW x \in slots'[g]
            PROVE  x \in slots[g] /\ x \notin slots[h]
        <4>1. g # h /\ x \in slots[g]
          BY <2>1, <3>1, Zenon
        <4> QED
          BY <2>0, <4>1, SlotsDisjoint, Zenon
      <3>2. ASSUME NEW g \in Handles, NEW x \in slots'[g], NEW b \in Admins, x \notin pend[b]
            PROVE  x \notin pend'[b]
        BY <2>1, <3>1, <3>2, Zenon
      <3> QED
        BY <2>0, <3>1, <3>2, SlotsKept, Zenon DEF SInv, Silent, events
    <2>5. PendInv'
      <3>1. ASSUME NEW x \in slots[h]
            PROVE  x \in Sids /\ announced[a] # x /\ SlotOK(h, x)
        BY <2>t, <2>0 DEF Sids, NoSid, SInv, SlotInv
      <3>2. ASSUME NEW x \in slots[h] PROVE PendOK(a, x)'
        <4>1. ASSUME NEW d \in Admins, x \in pend'[d] PROVE d = a
          BY <2>1, <3>1, <4>1, Zenon DEF SlotOK
        <4> QED
          BY <2>0, <3>1, <4>1, Zenon DEF PendOK, SlotOK, Sent, events
      <3>3. ASSUME NEW b \in Admins, b # a, NEW x \in pend[b] PROVE PendOK(b, x)'
        <4>1. PendOK(b, x) /\ x \notin slots[h]
          BY <2>0, Zenon DEF SInv, PendInv, SlotInv, SlotOK
        <4>2. ASSUME NEW d \in Admins, x \in pend'[d] PROVE d = b
          BY <2>1, <4>1, <4>2, Zenon DEF PendOK
        <4> QED
          BY <2>0, <4>1, <4>2, Zenon DEF PendOK, Sent, events
      <3>4. \A b \in Admins : \A x \in pend'[b] : PendOK(b, x)'
        BY <2>1, <3>2, <3>3, Zenon
      <3>5. \A b \in Admins : announced'[b] # NoSid => announced'[b] \in pend'[b]
        BY <2>0, <2>1, Zenon DEF SInv, PendInv
      <3>6. \A b \in Admins : apc'[b] # "signal" => pend'[b] = {}
        BY <1>0, <2>t, <2>0, <2>1, Zenon
      <3> QED
        BY <3>4, <3>5, <3>6, Zenon DEF PendInv
    <2> QED
      BY <2>2, <2>3, <2>4, <2>5, Zenon DEF SInv
  <1>7. ASSUME NEW s \in Sids, AnnounceCancelled(a, s) PROVE SInv'
    <2>t. /\ slots \in [Handles -> SUBSET Sids] /\ ctl \in [Sids -> {"none", "active", "cancelled"}]
          /\ cancelled \in [Sids -> Nat]
          /\ pend \in [Admins -> SUBSET Sids] /\ announced \in [Admins -> 0..MaxSeq]
          /\ apc \in [Admins -> AdminPc]
      BY Zenon DEF Typed, TypeSessions, TypeAdmin
    <2>0. /\ s \in pend[a] /\ announced[a] = NoSid
          /\ cancelled' = [cancelled EXCEPT ![s] = cancelled[s] + 1]
          /\ announced' = [announced EXCEPT ![a] = s]
          /\ UNCHANGED <<slots, ctl, opened, closed, seq, cpc, handle, sid, apc, pend>>
      BY <1>7, Zenon DEF AnnounceCancelled
    <2>1. PendOK(a, s) /\ announced[a] # s
      BY <2>0 DEF SInv, PendInv, Sids, NoSid
    <2>2. ctl[s] = "active" /\ Sent(s, 1, 0, 0) /\ \A b \in Admins : s \in pend[b] => b = a
      BY <2>1, Zenon DEF PendOK
    <2>3. Sent(s, 1, 0, 1)' /\ \A x \in Sids : x # s => Silent(x)
      BY <2>t, <2>0, <2>2 DEF Sent, Silent
    <2>4. DrawnOnce' /\ ConnInv'
      BY <2>0, Zenon DEF SInv, DrawnOnce, ConnInv
    <2>5. ControlInv'
      BY <2>0, <2>2, <2>3 DEF SInv, ControlInv, ControlOK, Sent, Silent
    <2>6. SlotInv'
      <3>1. ASSUME NEW g \in Handles, NEW x \in slots[g] PROVE Silent(x)
        <4>1. SlotOK(g, x) /\ x \in Sids
          BY <2>t, Zenon DEF SInv, SlotInv
        <4> QED
          BY <2>0, <2>3, <4>1, Zenon DEF SlotOK
      <3> QED
        BY <2>0, <3>1, SlotsKept, Zenon DEF SInv
    <2>7. PendInv'
      <3>1. PendOK(a, s)'
        BY <2>t, <2>0, <2>2, <2>3, Zenon DEF PendOK
      <3>2. ASSUME NEW b \in Admins, NEW x \in pend[b], x # s PROVE PendOK(b, x)'
        <4>1. x \in Sids /\ PendOK(b, x) /\ Silent(x)
          BY <2>t, <2>3, <3>2, Zenon DEF SInv, PendInv
        <4>2. announced'[b] = x <=> announced[b] = x
          BY <2>t, <2>0, <3>2, <4>1 DEF Sids, NoSid
        <4> QED
          BY <2>0, <4>1, <4>2, Zenon DEF PendOK, Sent, Silent
      <3>3. \A b \in Admins : \A x \in pend'[b] : PendOK(b, x)'
        BY <2>0, <2>2, <3>1, <3>2, Zenon
      <3>4. \A b \in Admins : announced'[b] # NoSid => announced'[b] \in pend'[b]
        BY <2>t, <2>0, Zenon DEF SInv, PendInv
      <3> QED
        BY <1>0, <2>0, <3>3, <3>4, Zenon DEF PendInv
    <2> QED
      BY <2>4, <2>5, <2>6, <2>7, Zenon DEF SInv
  <1>8. ASSUME CancelControl(a) PROVE SInv'
    <2> DEFINE s == announced[a]
    <2>t. /\ slots \in [Handles -> SUBSET Sids] /\ ctl \in [Sids -> {"none", "active", "cancelled"}]
          /\ cancelled \in [Sids -> Nat]
          /\ pend \in [Admins -> SUBSET Sids] /\ announced \in [Admins -> 0..MaxSeq]
          /\ apc \in [Admins -> AdminPc]
      BY Zenon DEF Typed, TypeSessions, TypeAdmin
    <2>0. /\ s # NoSid /\ s \in pend[a] /\ s \in Sids /\ apc[a] = "signal"
          /\ ctl' = [ctl EXCEPT ![s] = "cancelled"]
          /\ pend' = [pend EXCEPT ![a] = pend[a] \ {s}]
          /\ announced' = [announced EXCEPT ![a] = NoSid]
          /\ UNCHANGED <<slots, events, seq, cpc, handle, sid, apc>>
      BY <1>8, <2>t, Zenon DEF CancelControl, SInv, PendInv
    <2>1. PendOK(a, s)
      BY <2>0, Zenon DEF SInv, PendInv
    <2>2. Sent(s, 1, 0, 1) /\ ctl[s] = "active" /\ \A b \in Admins : s \in pend[b] => b = a
      BY <2>1, Zenon DEF PendOK
    <2>3. ctl'[s] = "cancelled" /\ \A x \in Sids : x # s => ctl'[x] = ctl[x]
      BY <2>t, <2>0, Zenon
    <2>4. /\ pend'[a] = pend[a] \ {s} /\ announced'[a] = NoSid
          /\ \A b \in Admins : b # a => pend'[b] = pend[b] /\ announced'[b] = announced[b]
      BY <2>t, <2>0, Zenon
    <2>5. DrawnOnce'
      BY <2>0, <2>2, <2>3, Zenon DEF SInv, DrawnOnce
    <2>6. ControlInv'
      BY <2>0, <2>2, <2>3 DEF SInv, ControlInv, ControlOK, Sent, events
    <2>7. ConnInv'
      <3>1. ASSUME NEW c \in Connections, cpc[c] \in Numbered
            PROVE  sid[c] \in Sids /\ handle[c] \in Handles
        BY <3>1, Zenon DEF Typed, ConnsOK, ConnOK, Numbered
      <3>2. ASSUME NEW c \in Connections, cpc[c] \in {"resolved", "opening"}
            PROVE  ctl'[sid[c]] = "none"
        BY <2>2, <2>3, <3>1, <3>2, Zenon DEF SInv, ConnInv, Numbered
      <3>3. ASSUME NEW c \in Connections, cpc[c] = "holding"
            PROVE  /\ ctl'[sid[c]] # "none"
                   /\ ctl'[sid[c]] = "active" => \/ sid[c] \in slots[handle[c]]
                                                 \/ \E b \in Admins : sid[c] \in pend'[b]
        <4>1. /\ sid[c] \in Sids /\ ctl[sid[c]] # "none"
              /\ ctl[sid[c]] = "active" => \/ sid[c] \in slots[handle[c]]
                                            \/ \E b \in Admins : sid[c] \in pend[b]
          BY <3>1, <3>3, Zenon DEF SInv, ConnInv, Numbered
        <4>2. ctl'[sid[c]] # "none" /\ (ctl'[sid[c]] = "active" => sid[c] # s /\ ctl[sid[c]] = "active")
          BY <2>3, <4>1, Zenon
        <4>3. ASSUME NEW b \in Admins, sid[c] \in pend[b], sid[c] # s PROVE sid[c] \in pend'[b]
          BY <2>4, <4>3, Zenon
        <4> QED
          BY <4>1, <4>2, <4>3, Zenon
      <3> QED
        BY <2>0, <3>2, <3>3, Zenon DEF ConnInv
    <2>8. SlotInv'
      <3>1. ASSUME NEW g \in Handles, NEW x \in slots[g]
            PROVE  ctl'[x] = ctl[x] /\ \A b \in Admins : x \notin pend'[b]
        <4>1. SlotOK(g, x) /\ x \in Sids
          BY <2>t, Zenon DEF SInv, SlotInv
        <4> QED
          BY <2>0, <2>3, <2>4, <4>1, Zenon DEF SlotOK
      <3> QED
        BY <2>0, <3>1, SlotsKept, Zenon DEF SInv, Silent, events
    <2>9. PendInv'
      <3>1. ASSUME NEW b \in Admins, NEW x \in pend'[b] PROVE PendOK(b, x)'
        <4>1. x \in pend[b] /\ x # s /\ x \in Sids
          BY <2>t, <2>2, <2>4, <3>1, Zenon
        <4>2. PendOK(b, x)
          BY <4>1, Zenon DEF SInv, PendInv
        <4>3. announced'[b] = x <=> announced[b] = x
          BY <2>0, <2>4, <4>1 DEF Sids, NoSid
        <4>4. \A d \in Admins : x \in pend'[d] => x \in pend[d]
          BY <2>4, Zenon
        <4> QED
          BY <2>0, <2>3, <4>1, <4>2, <4>3, <4>4, Zenon DEF PendOK, Sent, events
      <3>2. \A b \in Admins : announced'[b] # NoSid => announced'[b] \in pend'[b]
        BY <2>4, Zenon DEF SInv, PendInv
      <3>3. \A b \in Admins : apc'[b] # "signal" => pend'[b] = {}
        BY <1>0, <2>0, <2>4, Zenon
      <3> QED
        BY <3>1, <3>2, <3>3, Zenon DEF PendInv
    <2> QED
      BY <2>5, <2>6, <2>7, <2>8, <2>9, Zenon DEF SInv
  <1> QED
    BY <1>1, <1>2, <1>3, <1>4, <1>5, <1>6, <1>7, <1>8, Zenon DEF AdminStep

\* Every step preserves the session invariant.
LEMMA NextSInv == Typed /\ Typed' /\ SInv /\ [Next]_vars => SInv'
  <1> SUFFICES ASSUME Typed, Typed', SInv, [Next]_vars PROVE SInv'
    BY Zenon
  <1>1. CASE UNCHANGED vars
    <2>1. \A a \in Admins : apc'[a] # "signal" => pend[a] = {}
      BY <1>1, Zenon DEF vars, admin, SInv, PendInv
    <2> QED
      BY <1>1, <2>1, SInvFrame, Zenon DEF vars, core, userState, sessionMap, sessions, conn, admin
  <1> QED
    BY <1>1, ConnectionSInv, AdminSInv, Zenon DEF Next
=============================================================================
