------------------------- MODULE CoreRegistryProofs -------------------------
(***************************************************************************)
(* What CoreRegistry guarantees in every reachable state, for any number   *)
(* of users, credentials, connections, administrators and sessions.        *)
(* First, every step keeps the counters exact and the sessions within the  *)
(* peak limits; the theorems are at the end.                               *)
(***************************************************************************)
EXTENDS CoreRegistryReplaceProofs, FiniteSetTheorems

\* A set of session ids is finite, and so are the addresses they come from.
LEMMA SlotsFinite ==
  ASSUME NEW S \in SUBSET Sids, NEW ip
  PROVE  /\ IsFiniteSet(S) /\ Cardinality(S) \in Nat
         /\ IsFiniteSet(Addresses(S, ip)) /\ Cardinality(Addresses(S, ip)) \in Nat
  <1>1. IsFiniteSet(Sids)
    BY FS_Interval, BoundsAssumption DEF Sids
  <1>2. IsFiniteSet(S)
    BY <1>1, FS_Subset, Zenon
  <1>3. IsFiniteSet({ip[s] : s \in S})
    <2> DEFINE f == [s \in S |-> ip[s]]  T == {ip[s] : s \in S}
    <2>1. f \in Surjection(S, T)
      BY Zenon DEF Surjection
    <2> QED
      BY <2>1, <1>2, FS_Surjection, Zenon
  <1>4. IsFiniteSet(Addresses(S, ip))
    BY <1>3, FS_Subset, Zenon DEF Addresses
  <1> QED
    BY <1>2, <1>4, FS_CardinalityType, Zenon


\* The counters are natural numbers.
LEMMA NextCounts == Typed /\ TypeCounts /\ [Next]_vars => TypeCounts'
  <1> SUFFICES ASSUME Typed, TypeCounts, [Next]_vars PROVE TypeCounts'
    BY Zenon
  <1>1. ASSUME UNCHANGED <<online, onlineIps>> PROVE TypeCounts'
    BY <1>1, Zenon DEF TypeCounts
  <1>2. ASSUME NEW h, NEW S \in SUBSET Sids, NEW ip, UpdateOnlineCounts(h, S, ip) PROVE TypeCounts'
    <2>1. Cardinality(S) \in Nat /\ Cardinality(Addresses(S, ip)) \in Nat
      BY SlotsFinite, Zenon
    <2> QED
      BY <1>2, <2>1, Zenon DEF UpdateOnlineCounts, TypeCounts
  <1>3. ASSUME NEW c \in Connections, ConnectionStep(c) PROVE TypeCounts'
    <2>0. \A h \in Handles : slots[h] \in SUBSET Sids
      BY Zenon DEF Typed, TypeSessions
    <2>1. ASSUME OpenSession(c) \/ CloseSession(c) PROVE handle[c] \in Handles /\ sid[c] \in Sids
      BY <2>1, Zenon DEF OpenSession, CloseSession, Typed, ConnsOK, ConnOK
    <2>2. ASSUME OpenSession(c) PROVE TypeCounts'
      <3>1. slots[handle[c]] \cup {sid[c]} \in SUBSET Sids
        BY <2>0, <2>1, <2>2, Zenon
      <3> QED
        BY <1>2, <2>2, <3>1, Zenon DEF OpenSession
    <2>3. ASSUME CloseSession(c) PROVE TypeCounts'
      <3>1. slots[handle[c]] \ {sid[c]} \in SUBSET Sids
        BY <2>0, <2>1, <2>3, Zenon
      <3> QED
        BY <1>2, <2>3, <3>1, Zenon DEF CloseSession
    <2>4. ASSUME ~OpenSession(c), ~CloseSession(c) PROVE UNCHANGED <<online, onlineIps>>
      BY <1>3, <2>4, Zenon DEF ConnectionStep, Authenticate, OpenSessionById, AuthenticateHash, AuthenticateHashed,
         ResolveUser, ReadLimits, RefuseSession, sessionMap
    <2> QED
      BY <1>1, <2>2, <2>3, <2>4, Zenon
  <1>4. ASSUME NEW a \in Admins, AdminCall(a) PROVE TypeCounts'
    BY <1>1, <1>4, Zenon DEF AdminCall, ReplaceUsers, CancelUserSessions, CancelAllSessions, CancelHandles,
       SetLimits, sessionMap
  <1>5. ASSUME NEW a \in Admins, AdminStep(a) PROVE TypeCounts'
    <2>1. ASSUME ClearSessions(a) PROVE TypeCounts'
      BY <2>1, Zenon DEF ClearSessions, TypeCounts
    <2>2. ASSUME ~ClearSessions(a) PROVE UNCHANGED <<online, onlineIps>>
      BY <1>5, <2>2, Zenon DEF AdminStep, UpdateUser, AddUser, CancelRemoved, CancelNext, AnnounceCancelled,
         WriteCredentials, WriteLimits, PublishUsers, PublishIndex, CancelControl, FinishCancel,
         CancelReturns, sessionMap
    <2> QED
      BY <1>1, <2>1, <2>2, Zenon
  <1>6. CASE UNCHANGED vars
    BY <1>1, <1>6, Zenon DEF vars, sessionMap
  <1> QED
    BY <1>3, <1>4, <1>5, <1>6, Zenon DEF Next

\* Raised limits are no stricter than what they were raised from.
LEMMA RaiseLoosens ==
  ASSUME NEW p \in Limits, NEW m \in Limits
  PROVE  /\ Raise(p, m) \in Limits /\ Stricter(m, Raise(p, m)) /\ Stricter(p, Raise(p, m))
  BY DEF Raise, Larger, Limits, Stricter

\* Being no looser is transitive.
LEMMA StricterTransitive ==
  ASSUME NEW k \in Limits, NEW l \in Limits, NEW p \in Limits, Stricter(k, l), Stricter(l, p)
  PROVE  Stricter(k, p)
  BY DEF Stricter, Limits

\* What fits strict limits fits looser ones.
LEMMA FitsLooser ==
  ASSUME NEW S \in SUBSET Sids, NEW ip, NEW l \in Limits, NEW p \in Limits, Fits(S, ip, l), Stricter(l, p)
  PROVE  Fits(S, ip, p)
  <1>1. Cardinality(S) \in Nat /\ Cardinality(Addresses(S, ip)) \in Nat
    BY SlotsFinite, Zenon
  <1>2. l.sessions \in Nat /\ l.ips \in Nat /\ p.sessions \in Nat /\ p.ips \in Nat
    BY Zenon DEF Limits
  <1> QED
    BY <1>1, <1>2 DEF Fits, Stricter

\* Some of the sessions that fit, fit.
LEMMA FitsFewer ==
  ASSUME NEW S \in SUBSET Sids, NEW R \in SUBSET S, NEW ip, NEW p \in Limits, Fits(S, ip, p)
  PROVE  Fits(R, ip, p)
  <1>1. /\ Cardinality(S) \in Nat /\ Cardinality(Addresses(S, ip)) \in Nat /\ R \in SUBSET Sids
        /\ IsFiniteSet(S) /\ IsFiniteSet(Addresses(S, ip))
    BY SlotsFinite, Zenon
  <1>2. Cardinality(R) \in Nat /\ Cardinality(Addresses(R, ip)) \in Nat
    BY <1>1, SlotsFinite, Zenon
  <1>3. Addresses(R, ip) \subseteq Addresses(S, ip)
    BY Zenon DEF Addresses
  <1>4. Cardinality(R) <= Cardinality(S) /\ Cardinality(Addresses(R, ip)) <= Cardinality(Addresses(S, ip))
    BY <1>1, <1>3, FS_Subset, Zenon
  <1>5. p.sessions \in Nat /\ p.ips \in Nat
    BY Zenon DEF Limits
  <1> QED
    BY <1>1, <1>2, <1>4, <1>5 DEF Fits

\* No sessions fit every limit.
LEMMA NothingFits ==
  ASSUME NEW ip, NEW p \in Limits
  PROVE  Fits({}, ip, p) /\ Cardinality({}) = 0 /\ Cardinality(Addresses({}, ip)) = 0
  <1>1. Addresses({}, ip) = {}
    BY Zenon DEF Addresses
  <1>2. Cardinality({}) = 0
    BY FS_EmptySet, Zenon
  <1>3. p.sessions \in Nat /\ p.ips \in Nat
    BY Zenon DEF Limits
  <1> QED
    BY <1>1, <1>2, <1>3 DEF Fits

\* The initial state satisfies the invariant.
LEMMA InitLimitInv == Init => LimitInv
  <1> SUFFICES ASSUME Init PROVE LimitInv
    BY Zenon
  <1>1. OwnersInv
    BY Zenon DEF Init, OwnersInv, Numbered, NoJob, JobOwned
  <1>2. PeakInv
    BY DEF Init, PeakInv, Stricter, NoLimits
  <1>3. NoLimits \in Limits /\ NoLimits.sessions = 0 /\ NoLimits.ips = 0
    BY Zenon DEF NoLimits, Limits
  <1>4. Cardinality({}) = 0 /\ Cardinality(Addresses({}, ipOf)) = 0
    BY <1>3, NothingFits, Zenon
  <1>5. OnlineCountsExact /\ WithinPeakLimits
    BY <1>3, <1>4 DEF Init, OnlineCountsExact, WithinPeakLimits
  <1>6. TypeCounts
    BY Zenon DEF Init, TypeCounts
  <1> QED
    BY <1>1, <1>2, <1>5, <1>6, Zenon DEF LimitInv, LimitsOK

----------------------------------------------------------------------------
(* Limits and counts *)

\* The three invariants, handle by handle and connection by connection.
LEMMA LimitsByHandle ==
  LimitsOK <=> (\A h \in Handles : HandleOK(h)) /\ (\A c \in Connections : CopyOK(c))
  BY Zenon DEF LimitsOK, PeakInv, OnlineCountsExact, WithinPeakLimits, HandleOK, CopyOK, Fits

\* The same, after a step.
LEMMA LimitsByHandleNext ==
  LimitsOK' <=> (\A h \in Handles : HandleOK(h)') /\ (\A c \in Connections : CopyOK(c)')
  BY Zenon DEF LimitsOK, PeakInv, OnlineCountsExact, WithinPeakLimits, HandleOK, CopyOK, Fits

\* A handle nobody touches stays right.
LEMMA HandleKept ==
  ASSUME NEW h \in Handles, HandleOK(h), limits'[h] = limits[h], peak'[h] = peak[h],
         slots'[h] = slots[h], online'[h] = online[h], onlineIps'[h] = onlineIps[h],
         \A s \in slots[h] : ipOf'[s] = ipOf[s]
  PROVE  HandleOK(h)'
  <1>1. Addresses(slots'[h], ipOf') = Addresses(slots[h], ipOf)
    BY Zenon DEF Addresses
  <1> QED
    BY <1>1, Zenon DEF HandleOK, Fits

\* A session that is admitted fits the limits it was admitted under.
LEMMA AdmittedFits ==
  ASSUME NEW S \in SUBSET Sids, NEW s \in Sids, s \notin S, NEW ip, NEW jp, NEW l \in Limits, NEW p \in Limits,
         \A x \in S : jp[x] = ip[x],
         l.sessions > 0 => Cardinality(S) < l.sessions,
         l.ips > 0 /\ jp[s] # NoIp /\ jp[s] \notin Addresses(S, ip) => Cardinality(Addresses(S, ip)) + 1 <= l.ips,
         Stricter(l, p), Fits(S, ip, p)
  PROVE  Fits(S \cup {s}, jp, p)
  <1>1. /\ IsFiniteSet(S) /\ Cardinality(S) \in Nat
        /\ IsFiniteSet(Addresses(S, ip)) /\ Cardinality(Addresses(S, ip)) \in Nat
    BY SlotsFinite, Zenon
  <1>2. l.sessions \in Nat /\ l.ips \in Nat /\ p.sessions \in Nat /\ p.ips \in Nat
    BY Zenon DEF Limits
  <1>3. Cardinality(S \cup {s}) = Cardinality(S) + 1
    BY <1>1, FS_AddElement, Zenon
  <1>4. p.sessions > 0 => Cardinality(S \cup {s}) <= p.sessions
    BY <1>1, <1>2, <1>3 DEF Stricter
  <1>5. CASE jp[s] = NoIp \/ jp[s] \in Addresses(S, ip)
    <2>1. Addresses(S \cup {s}, jp) = Addresses(S, ip)
      BY <1>5, Zenon DEF Addresses
    <2> QED
      BY <1>4, <2>1, Zenon DEF Fits
  <1>6. CASE jp[s] # NoIp /\ jp[s] \notin Addresses(S, ip)
    <2>1. Addresses(S \cup {s}, jp) = Addresses(S, ip) \cup {jp[s]}
      BY <1>6, Zenon DEF Addresses
    <2>2. Cardinality(Addresses(S \cup {s}, jp)) = Cardinality(Addresses(S, ip)) + 1
      BY <1>1, <1>6, <2>1, FS_AddElement, Zenon
    <2>3. p.ips > 0 => Cardinality(Addresses(S \cup {s}, jp)) <= p.ips
      BY <1>1, <1>2, <1>6, <2>2 DEF Stricter
    <2> QED
      BY <1>4, <2>3, Zenon DEF Fits
  <1> QED
    BY <1>5, <1>6, Zenon

\* A connection keeps the counts exact and within the peak.
LEMMA ConnectionLimits ==
  ASSUME Typed, TypeCounts, SInv, LimitsOK, NEW c \in Connections, ConnectionStep(c) PROVE LimitsOK'
  <1>t. /\ cpc \in [Connections -> ConnPc] /\ handle \in [Connections -> Handles \cup {NoHandle}]
        /\ req \in [Connections -> Requests] /\ sid \in [Connections -> 0..MaxSeq]
        /\ slots \in [Handles -> SUBSET Sids] /\ ipOf \in [Sids -> Ips \cup {NoIp}]
        /\ online \in [Handles -> Nat] /\ onlineIps \in [Handles -> Nat]
        /\ limits \in [Handles -> Limits] /\ peak \in [Handles -> Limits]
    BY Zenon DEF Typed, TypeConn, TypeSessions, TypeCounts, TypeTable
  <1>0. (\A h \in Handles : HandleOK(h)) /\ (\A d \in Connections : CopyOK(d))
    BY LimitsByHandle, Zenon
  <1>a. UNCHANGED <<limits, peak>>
    BY Zenon DEF ConnectionStep, Authenticate, OpenSessionById, AuthenticateHash, AuthenticateHashed,
           ResolveUser, ReadLimits, OpenSession, RefuseSession, CloseSession, userState
  <1>b. ASSUME NEW pc, NEW r, NEW h, NEW s, GoTo(c, pc, r, h, s),
               pc = "opening" => Stricter(r.limits, peak[h])
        PROVE  \A d \in Connections : CopyOK(d)'
    <2>1. /\ cpc'[c] = pc /\ req'[c] = r /\ handle'[c] = h
          /\ \A d \in Connections : d # c => cpc'[d] = cpc[d] /\ req'[d] = req[d] /\ handle'[d] = handle[d]
      BY <1>t, <1>b, Zenon DEF GoTo
    <2> QED
      BY <1>0, <1>a, <1>b, <2>1, Zenon DEF CopyOK
  <1>c. ASSUME UNCHANGED sessionMap, \A d \in Connections : CopyOK(d)' PROVE LimitsOK'
    <2>1. \A h \in Handles : HandleOK(h)'
      BY <1>0, <1>a, <1>c, HandleKept, Zenon DEF sessionMap
    <2> QED
      BY <1>c, <2>1, LimitsByHandleNext, Zenon
  <1>1. ASSUME NEW k, NEW ip, Authenticate(c, k, ip) \/ AuthenticateHash(c, k, ip) \/ OpenSessionById(c, k, ip)
        PROVE  LimitsOK'
    BY <1>1, <1>b, <1>c, Zenon DEF Authenticate, AuthenticateHash, OpenSessionById
  <1>2. ASSUME AuthenticateHashed(c) \/ RefuseSession(c) \/ ResolveUser(c) PROVE LimitsOK'
    <2>1. \E pc, r, h, s : GoTo(c, pc, r, h, s) /\ pc # "opening"
      BY <1>2 DEF AuthenticateHashed, RefuseSession, ResolveUser, GoIdle
    <2> QED
      BY <1>2, <1>b, <1>c, <2>1, Zenon DEF AuthenticateHashed, RefuseSession, ResolveUser
  <1>3. ASSUME ReadLimits(c) PROVE LimitsOK'
    <2> DEFINE r == [req[c] EXCEPT !.limits = limits[handle[c]]]
    <2>1. handle[c] \in Handles /\ req[c] \in Requests
      BY <1>3, <1>t, Zenon DEF ReadLimits, Typed, ConnsOK, ConnOK
    <2>2. r.limits = limits[handle[c]]
      BY <2>1, Zenon DEF Requests
    <2>3. Stricter(r.limits, peak[handle[c]])
      BY <1>0, <2>1, <2>2, Zenon DEF HandleOK
    <2>4. GoTo(c, "opening", r, handle[c], sid[c])
      BY <1>3, Zenon DEF ReadLimits
    <2> HIDE DEF r
    <2> QED
      BY <1>3, <1>b, <1>c, <2>3, <2>4, Zenon DEF ReadLimits
  <1>4. ASSUME OpenSession(c) PROVE LimitsOK'
    <2>s. PICK s \in Sids : s = sid[c]
      BY <1>4, Zenon DEF OpenSession, Typed, ConnsOK, ConnOK
    <2>h. PICK h \in Handles : h = handle[c]
      BY <1>4, Zenon DEF OpenSession, Typed, ConnsOK, ConnOK
    <2>i. PICK jp : jp = [ipOf EXCEPT ![s] = req[c].ip]
      BY Zenon
    <2>l. PICK l \in Limits : l = req[c].limits
      BY <1>t, Zenon DEF Requests
    <2>1. /\ cpc[c] = "opening" /\ Admits(c) /\ ipOf' = jp
          /\ UpdateOnlineCounts(h, slots[h] \cup {s}, jp)
          /\ GoTo(c, "holding", req[c], h, s)
      BY <1>4, <2>s, <2>h, <2>i, Zenon DEF OpenSession
    <2>2. \A d \in Connections : CopyOK(d)'
      BY <1>b, <2>1, Zenon
    <2>3. \A g \in Handles : s \notin slots[g]
      BY <2>1, <2>s, Zenon DEF SInv, ConnInv, SlotInv, SlotOK
    <2>4. jp[s] = req[c].ip /\ \A x \in Sids : x # s => jp[x] = ipOf[x]
      BY <1>t, <2>i, Zenon
    <2>5. /\ slots'[h] = slots[h] \cup {s} /\ online'[h] = Cardinality(slots[h] \cup {s})
          /\ onlineIps'[h] = Cardinality(Addresses(slots[h] \cup {s}, jp))
          /\ \A g \in Handles : g # h => slots'[g] = slots[g] /\ online'[g] = online[g] /\ onlineIps'[g] = onlineIps[g]
      BY <1>t, <2>1, Zenon DEF UpdateOnlineCounts
    <2>6. ASSUME NEW g \in Handles, g # h PROVE HandleOK(g)'
      <3>1. \A x \in slots[g] : ipOf'[x] = ipOf[x]
        BY <1>t, <2>1, <2>3, <2>4, Zenon
      <3> QED
        BY <1>0, <1>a, <2>5, <2>6, <3>1, HandleKept, Zenon
    <2>7. Fits(slots[h] \cup {s}, jp, peak[h])
      <3>1. /\ slots[h] \in SUBSET Sids /\ s \notin slots[h] /\ peak[h] \in Limits
            /\ \A x \in slots[h] : jp[x] = ipOf[x]
        BY <1>t, <2>3, <2>4, Zenon
      <3>2. /\ l.sessions > 0 => Cardinality(slots[h]) < l.sessions
            /\ l.ips > 0 /\ jp[s] # NoIp /\ jp[s] \notin Addresses(slots[h], ipOf)
                 => Cardinality(Addresses(slots[h], ipOf)) + 1 <= l.ips
        BY <2>1, <2>h, <2>l, <2>4, Zenon DEF Admits
      <3>3. Stricter(l, peak[h]) /\ Fits(slots[h], ipOf, peak[h])
        BY <1>0, <2>1, <2>h, <2>l, Zenon DEF CopyOK, HandleOK
      <3> QED
        BY <3>1, <3>2, <3>3, AdmittedFits, Zenon
    <2>8. HandleOK(h)'
      BY <1>0, <1>a, <2>1, <2>5, <2>7, Zenon DEF HandleOK, Fits
    <2> QED
      BY <2>2, <2>6, <2>8, LimitsByHandleNext, Zenon
  <1>5. ASSUME CloseSession(c) PROVE LimitsOK'
    <2>s. PICK s \in Sids : s = sid[c]
      BY <1>5, Zenon DEF CloseSession, Typed, ConnsOK, ConnOK
    <2>h. PICK h \in Handles : h = handle[c]
      BY <1>5, Zenon DEF CloseSession, Typed, ConnsOK, ConnOK
    <2>1. /\ ipOf' = ipOf /\ UpdateOnlineCounts(h, slots[h] \ {s}, ipOf)
          /\ GoTo(c, "idle", NoRequest, NoHandle, NoSid)
      BY <1>5, <2>s, <2>h, Zenon DEF CloseSession, GoIdle
    <2>2. \A d \in Connections : CopyOK(d)'
      BY <1>b, <2>1, Zenon
    <2>3. /\ slots'[h] = slots[h] \ {s} /\ online'[h] = Cardinality(slots[h] \ {s})
          /\ onlineIps'[h] = Cardinality(Addresses(slots[h] \ {s}, ipOf))
          /\ \A g \in Handles : g # h => slots'[g] = slots[g] /\ online'[g] = online[g] /\ onlineIps'[g] = onlineIps[g]
      BY <1>t, <2>1, Zenon DEF UpdateOnlineCounts
    <2>4. Fits(slots[h] \ {s}, ipOf, peak[h])
      <3>1. slots[h] \in SUBSET Sids /\ slots[h] \ {s} \in SUBSET slots[h] /\ peak[h] \in Limits
        BY <1>t, Zenon
      <3> QED
        BY <1>0, <3>1, FitsFewer, Zenon DEF HandleOK
    <2>5. HandleOK(h)'
      BY <1>0, <1>a, <2>1, <2>3, <2>4, Zenon DEF HandleOK, Fits
    <2>6. ASSUME NEW g \in Handles, g # h PROVE HandleOK(g)'
      BY <1>0, <1>a, <2>1, <2>3, <2>6, HandleKept, Zenon
    <2> QED
      BY <2>2, <2>5, <2>6, LimitsByHandleNext, Zenon
  <1> QED
    BY <1>1, <1>2, <1>3, <1>4, <1>5, Zenon DEF ConnectionStep

\* An administrator that touches neither limits nor sessions does as well.
LEMMA LimitsFrame ==
  ASSUME LimitsOK, UNCHANGED <<limits, peak, sessionMap, conn>> PROVE LimitsOK'
  BY Zenon DEF LimitsOK, PeakInv, OnlineCountsExact, WithinPeakLimits, Stricter, sessionMap, conn

\* An administrator keeps the counts exact and within the peak.
LEMMA AdminLimits ==
  ASSUME Typed, TypeCounts, SInv, OwnersInv, LimitsOK, NEW a \in Admins, AdminCall(a) \/ AdminStep(a) PROVE LimitsOK'
  <1>t. /\ slots \in [Handles -> SUBSET Sids]
        /\ online \in [Handles -> Nat] /\ onlineIps \in [Handles -> Nat]
        /\ limits \in [Handles -> Limits] /\ peak \in [Handles -> Limits]
    BY Zenon DEF Typed, TypeSessions, TypeCounts, TypeTable
  <1>j. job[a] \in Jobs /\ JobOK(apc[a], job[a])
    BY Zenon DEF Typed, TypeAdmin, JobsOK
  <1>0. (\A h \in Handles : HandleOK(h)) /\ (\A c \in Connections : CopyOK(c))
    BY LimitsByHandle, Zenon
  <1>1. ASSUME NEW u \in UserIds, NEW h \in Handles, AddUser(a, u, h) PROVE LimitsOK'
    <2>l. PICK l \in Limits : l = LimitsOf(job[a].list, u)
      <3>1. job[a].list \in SUBSET ListEntries /\ u \in IdsOf(job[a].list)
        BY <1>1, <1>j, Zenon DEF AddUser, Jobs, JobOK
      <3> QED
        BY <3>1, LimitsOfType, Zenon
    <2>1. /\ owner[h] = NoUser /\ UNCHANGED <<sessionMap, conn>>
          /\ limits' = [limits EXCEPT ![h] = l] /\ peak' = [peak EXCEPT ![h] = l]
      BY <1>1, <2>l, Zenon DEF AddUser
    <2>2. slots[h] = {} /\ \A c \in Connections : cpc[c] \in Numbered => handle[c] # h
      BY <2>1, UnallocatedEmpty, Zenon
    <2>3. /\ limits'[h] = l /\ peak'[h] = l
          /\ \A g \in Handles : g # h => limits'[g] = limits[g] /\ peak'[g] = peak[g]
      BY <1>t, <2>1, Zenon
    <2>4. HandleOK(h)'
      <3>1. Stricter(l, l)
        BY DEF Stricter, Limits
      <3>2. Fits({}, ipOf, l)
        BY NothingFits, Zenon
      <3> QED
        BY <1>0, <2>1, <2>2, <2>3, <3>1, <3>2, Zenon DEF HandleOK, sessionMap, Fits
    <2>5. ASSUME NEW g \in Handles, g # h PROVE HandleOK(g)'
      BY <1>0, <2>1, <2>3, <2>5, HandleKept, Zenon DEF sessionMap
    <2>6. ASSUME NEW c \in Connections PROVE CopyOK(c)'
      <3>1. cpc[c] = "opening" => handle[c] \in Handles /\ handle[c] # h
        BY <2>2, Zenon DEF Typed, ConnsOK, ConnOK, Numbered
      <3> QED
        BY <1>0, <2>1, <2>3, <3>1, Zenon DEF CopyOK, conn
    <2> QED
      BY <2>4, <2>5, <2>6, LimitsByHandleNext, Zenon
  <1>2. ASSUME WriteLimits(a) PROVE LimitsOK'
    <2>h. PICK h \in Handles : h = job[a].handle
      BY <1>2, <1>j, Zenon DEF WriteLimits, JobOK
    <2>l. PICK l \in Limits : l = job[a].limits
      BY <1>j, Zenon DEF Jobs
    <2>p. PICK p \in Limits : p = Raise(peak[h], l)
      BY <1>t, RaiseLoosens, Zenon
    <2>1. /\ UNCHANGED <<sessionMap, conn>>
          /\ limits' = [limits EXCEPT ![h] = l] /\ peak' = [peak EXCEPT ![h] = p]
      BY <1>2, <2>h, <2>l, <2>p, Zenon DEF WriteLimits
    <2>2. Stricter(l, p) /\ Stricter(peak[h], p)
      BY <1>t, <2>p, RaiseLoosens, Zenon
    <2>3. /\ limits'[h] = l /\ peak'[h] = p
          /\ \A g \in Handles : g # h => limits'[g] = limits[g] /\ peak'[g] = peak[g]
      BY <1>t, <2>1, Zenon
    <2>4. HandleOK(h)'
      <3>1. slots[h] \in SUBSET Sids /\ peak[h] \in Limits /\ Fits(slots[h], ipOf, peak[h])
        BY <1>0, <1>t, Zenon DEF HandleOK
      <3>2. Fits(slots[h], ipOf, p)
        BY <2>2, <3>1, FitsLooser, Zenon
      <3> QED
        BY <1>0, <2>1, <2>2, <2>3, <3>2, Zenon DEF HandleOK, sessionMap, Fits
    <2>5. ASSUME NEW g \in Handles, g # h PROVE HandleOK(g)'
      BY <1>0, <2>1, <2>3, <2>5, HandleKept, Zenon DEF sessionMap
    <2>6. ASSUME NEW c \in Connections PROVE CopyOK(c)'
      <3> SUFFICES ASSUME cpc[c] = "opening" PROVE Stricter(req[c].limits, peak'[handle[c]])
        BY <2>1, Zenon DEF CopyOK, conn
      <3>1. handle[c] \in Handles /\ req[c].limits \in Limits /\ Stricter(req[c].limits, peak[handle[c]])
        BY <1>0, Zenon DEF CopyOK, Typed, ConnsOK, ConnOK, TypeOK, TypeConn, Requests
      <3>2. CASE handle[c] = h
        BY <1>t, <2>2, <2>3, <3>1, <3>2, StricterTransitive, Zenon
      <3>3. CASE handle[c] # h
        BY <2>3, <3>1, <3>3, Zenon
      <3> QED
        BY <3>2, <3>3, Zenon
    <2> QED
      BY <2>4, <2>5, <2>6, LimitsByHandleNext, Zenon
  <1>3. ASSUME ClearSessions(a) PROVE LimitsOK'
    <2>h. PICK h \in Handles : h = job[a].handle
      BY <1>3, <1>j, Zenon DEF ClearSessions, JobOK
    <2>1. /\ UNCHANGED <<ipOf, limits, peak, conn>>
          /\ slots' = [slots EXCEPT ![h] = {}] /\ online' = [online EXCEPT ![h] = 0]
          /\ onlineIps' = [onlineIps EXCEPT ![h] = 0]
      BY <1>3, <2>h, Zenon DEF ClearSessions, userState
    <2>2. /\ slots'[h] = {} /\ online'[h] = 0 /\ onlineIps'[h] = 0
          /\ \A g \in Handles : g # h => slots'[g] = slots[g] /\ online'[g] = online[g] /\ onlineIps'[g] = onlineIps[g]
      BY <1>t, <2>1, Zenon
    <2>3. HandleOK(h)'
      <3>1. peak[h] \in Limits
        BY <1>t, Zenon
      <3>2. Fits({}, ipOf, peak[h]) /\ Cardinality({}) = 0 /\ Cardinality(Addresses({}, ipOf)) = 0
        BY <3>1, NothingFits, Zenon
      <3> QED
        BY <1>0, <2>1, <2>2, <3>2, Zenon DEF HandleOK, Fits
    <2>4. ASSUME NEW g \in Handles, g # h PROVE HandleOK(g)'
      BY <1>0, <2>1, <2>2, <2>4, HandleKept, Zenon
    <2>5. \A c \in Connections : CopyOK(c)'
      BY <1>0, <2>1, Zenon DEF CopyOK, conn
    <2> QED
      BY <2>3, <2>4, <2>5, LimitsByHandleNext, Zenon
  <1>4. ASSUME AdminCall(a) PROVE LimitsOK'
    BY <1>4, LimitsFrame, Zenon DEF AdminCall, ReplaceUsers, CancelUserSessions, CancelAllSessions, CancelHandles,
       SetLimits, userState
  <1>5. ASSUME NEW u, NEW s, UpdateUser(a, u) \/ CancelRemoved(a, s) \/ CancelNext(a, s) \/ AnnounceCancelled(a, s)
        PROVE  LimitsOK'
    BY <1>5, LimitsFrame, Zenon DEF UpdateUser, CancelRemoved, CancelNext, AnnounceCancelled, userState
  <1>6. ASSUME \/ WriteCredentials(a) \/ PublishUsers(a) \/ PublishIndex(a)
               \/ CancelControl(a) \/ FinishCancel(a) \/ CancelReturns(a)
        PROVE  LimitsOK'
    BY <1>6, LimitsFrame, Zenon DEF WriteCredentials, PublishUsers, PublishIndex, CancelControl, FinishCancel,
       CancelReturns, userState
  <1> QED
    BY <1>1, <1>2, <1>3, <1>4, <1>5, <1>6, Zenon DEF AdminStep

\* Every step preserves the invariant.
LEMMA NextLimitInv == Typed /\ SInv /\ LimitInv /\ [Next]_vars => LimitInv'
  <1> SUFFICES ASSUME Typed, SInv, LimitInv, [Next]_vars PROVE LimitInv'
    BY Zenon
  <1>0. TypeCounts /\ OwnersInv /\ LimitsOK
    BY Zenon DEF LimitInv
  <1>t. TypeCounts'
    BY <1>0, NextCounts, Zenon
  <1>1. ASSUME UNCHANGED vars PROVE OwnersInv' /\ LimitsOK'
    <2>1. LimitsOK'
      BY <1>0, <1>1, LimitsFrame, Zenon DEF vars, userState
    <2>2. OwnersInv'
      BY <1>0, <1>1, Zenon DEF vars, core, userState, conn, admin, OwnersInv, Allocated
    <2> QED
      BY <2>1, <2>2, Zenon
  <1>2. ASSUME NEW c \in Connections, ConnectionStep(c) PROVE OwnersInv' /\ LimitsOK'
    BY <1>0, <1>2, ConnectionOwners, ConnectionLimits, Zenon
  <1>3. ASSUME NEW a \in Admins, AdminCall(a) \/ AdminStep(a) PROVE OwnersInv' /\ LimitsOK'
    BY <1>0, <1>3, AdminOwners, AdminLimits, Zenon
  <1> QED
    BY <1>t, <1>1, <1>2, <1>3, Zenon DEF LimitInv, Next

----------------------------------------------------------------------------
(* The theorems *)

\* The types, the session invariant and the limit invariant hold in every
\* reachable state.
LEMMA RegistryInvariant == Spec => [](Typed /\ SInv /\ LimitInv)
  BY InitTyped, NextTyped, InitSInv, NextSInv, InitLimitInv, NextLimitInv, PTL DEF Spec

\* The registry's variables have their types in every reachable state, and
\* no step dereferences a user, a list entry or a UserState that is not there.
THEOREM TypesHold == Spec => []TypeOK
  <1>1. Typed /\ LimitInv => TypeOK
    BY Zenon DEF Typed, LimitInv, TypeOK
  <1> QED
    BY <1>1, RegistryInvariant, PTL

\* Subscribers see a session open once and end at most once, for any number
\* of connections and administrators.
THEOREM SessionLifecycleHolds == Spec => []SessionLifecycle
  <1>1. Typed /\ SInv => SessionLifecycle
    BY DEF Typed, TypeSessions, SInv, ControlInv, ControlOK, SessionLifecycle, Sent
  <1> QED
    BY <1>1, RegistryInvariant, PTL

\* No active session a connection holds is out of every cancellation's reach.
THEOREM HeldSessionsReachableHolds == Spec => []HeldSessionsReachable
  <1>1. Typed /\ SInv => HeldSessionsReachable
    BY DEF SInv, ConnInv, HeldSessionsReachable, Held, BeingCancelled
  <1> QED
    BY <1>1, RegistryInvariant, PTL

\* Every registered session is active and held by the connection that opened
\* it, so no slot leaks.
THEOREM NoGhostSessionsHolds == Spec => []NoGhostSessions
  <1>1. Typed /\ SInv => NoGhostSessions
    BY DEF SInv, SlotInv, SlotOK, NoGhostSessions, Held, BeingCancelled
  <1> QED
    BY <1>1, RegistryInvariant, PTL

\* online and online_ips equal what the session map holds between any two
\* critical sections.
THEOREM OnlineCountsAreExact == Spec => []OnlineCountsExact
  <1>1. LimitInv => OnlineCountsExact
    BY Zenon DEF LimitInv, LimitsOK
  <1> QED
    BY <1>1, RegistryInvariant, PTL

\* No interleaving of opens, whose limits are a copy taken before the lock,
\* puts a user above the largest limits they ever had.
THEOREM PeakLimitsHold == Spec => []WithinPeakLimits
  <1>1. LimitInv => WithinPeakLimits
    BY Zenon DEF LimitInv, LimitsOK
  <1> QED
    BY <1>1, RegistryInvariant, PTL

----------------------------------------------------------------------------
(* One caller *)

\* What the calls of a single task keep.
CallerInv == OneCaller /\ ReplaceInv /\ OverInv /\ TargetInv

\* It holds in every reachable state, with the invariants that need no such
\* assumption.
LEMMA CallerInvariant == OneCaller /\ Spec => [](Typed /\ SInv /\ LimitInv /\ CallerInv)
  <1>1. OneCaller /\ Init => CallerInv
    BY InitReplaceInv, InitOver, InitTarget DEF CallerInv
  <1>2. Typed /\ SInv /\ LimitInv /\ CallerInv /\ [Next]_vars => CallerInv'
    <2> SUFFICES ASSUME Typed, SInv, LimitInv, CallerInv, [Next]_vars PROVE CallerInv'
      OBVIOUS
    <2>1. ReplaceInv' /\ OverInv' /\ TargetInv'
      BY NextReplaceInv, NextOver, NextTarget DEF CallerInv, LimitInv
    <2> QED
      BY <2>1 DEF CallerInv, OneCaller
  <1> QED
    BY <1>1, <1>2, InitTyped, NextTyped, InitSInv, NextSInv, InitLimitInv, NextLimitInv, PTL DEF Spec

\* With one caller, a credential identifies exactly the published user that
\* lists it whenever no replace_users is in progress.
THEOREM IndexFollowsTable == OneCaller /\ Spec => []IndexMatchesTable
  BY CallerInvariant, PTL DEF CallerInv, ReplaceInv

\* With one caller, replace_users has ended every session that was registered
\* with a removed or re-keyed user when it began, before it publishes the
\* index.
THEOREM ReplacedSessionsEnd == OneCaller /\ Spec => []TargetedSessionsEnd
  <1>1. Typed /\ SInv /\ CallerInv => TargetedSessionsEnd
    <2> SUFFICES ASSUME Typed, SInv, CallerInv, NEW a \in Admins, apc[a] = "index", NEW s \in targeted[a]
                 PROVE  closed[s] + cancelled[s] = 1 /\ s \notin Registered
      BY DEF TargetedSessionsEnd
    <2>1. BuildOK("index", job[a]) /\ TargetOK("index", job[a], targeted[a]) /\ s \in Sids
      BY DEF CallerInv, ReplaceInv, StepOK, TargetInv
    <2>2. \A h \in Handles : s \notin slots[h]
      BY <2>1 DEF TargetOK, Due, BuildOK
    <2>3. \A b \in Admins : s \notin pend[b]
      BY DEF CallerInv, OneCaller, SInv, PendInv
    <2>4. ctl[s] # "none" /\ ctl[s] \in {"none", "active", "cancelled"} /\ closed[s] \in Nat /\ cancelled[s] \in Nat
      BY <2>1 DEF TargetOK, Typed, TypeSessions
    <2>5. ControlOK(s)
      BY <2>1 DEF SInv, ControlInv
    <2>6. CASE ctl[s] = "active"
      <3>1. closed[s] = 1
        BY <2>1, <2>2, <2>3, <2>6 DEF CallerInv, OverInv
      <3> QED
        BY <2>2, <2>4, <2>5, <2>6, <3>1 DEF ControlOK, Registered
    <2>7. CASE ctl[s] = "cancelled"
      BY <2>2, <2>5, <2>7 DEF ControlOK, Sent, Registered
    <2> QED
      BY <2>4, <2>6, <2>7, Zenon
  <1> QED
    BY <1>1, CallerInvariant, PTL
=============================================================================
