--------------------- MODULE CoreRegistryReplaceProofs ---------------------
(***************************************************************************)
(* Every step of CoreRegistry keeps what one caller of replace_users at a  *)
(* time can rely on.  With two callers neither result holds, since the     *)
(* calls clone and publish the table without a common lock.                *)
(***************************************************************************)
EXTENDS CoreRegistrySessionProofs

(* The index *)

----------------------------------------------------------------------------
(* References *)

\* Whatever a connection does, it goes on with a request, a UserState and a
\* session id.
LEMMA ConnectionGoes ==
  ASSUME NEW c, ConnectionStep(c) PROVE \E pc, r, h, s : GoTo(c, pc, r, h, s)
  <1>1. ASSUME AuthenticateHashed(c) PROVE \E pc, r, h, s : GoTo(c, pc, r, h, s)
    BY <1>1, Zenon DEF AuthenticateHashed, GoIdle
  <1>2. ASSUME ResolveUser(c) PROVE \E pc, r, h, s : GoTo(c, pc, r, h, s)
    BY <1>2, Zenon DEF ResolveUser, GoIdle
  <1>3. ASSUME RefuseSession(c) \/ CloseSession(c) PROVE \E pc, r, h, s : GoTo(c, pc, r, h, s)
    BY <1>3, Zenon DEF RefuseSession, CloseSession, GoIdle
  <1>4. ASSUME ReadLimits(c) \/ OpenSession(c) PROVE \E pc, r, h, s : GoTo(c, pc, r, h, s)
    BY <1>4, Zenon DEF ReadLimits, OpenSession
  <1>5. ASSUME NEW k, NEW ip, Authenticate(c, k, ip) \/ OpenSessionById(c, k, ip) \/ AuthenticateHash(c, k, ip)
        PROVE  \E pc, r, h, s : GoTo(c, pc, r, h, s)
    BY <1>5, Zenon DEF Authenticate, OpenSessionById, AuthenticateHash
  <1> QED
    BY <1>1, <1>2, <1>3, <1>4, <1>5, Zenon DEF ConnectionStep

\* A connection only ever refers to a UserState it found in the table.
LEMMA ConnectionOwners ==
  ASSUME Typed, OwnersInv, NEW c \in Connections, ConnectionStep(c) PROVE OwnersInv'
  <1>t. cpc \in [Connections -> ConnPc] /\ handle \in [Connections -> Handles \cup {NoHandle}]
    BY Zenon DEF Typed, TypeConn
  <1>1. UNCHANGED <<users, owner, apc, job>>
    BY Zenon DEF ConnectionStep, Authenticate, OpenSessionById, AuthenticateHash, AuthenticateHashed,
           ResolveUser, ReadLimits, OpenSession, RefuseSession, CloseSession, core, userState, admin
  <1>2. \/ cpc'[c] \notin Numbered
        \/ cpc[c] \in Numbered /\ handle'[c] = handle[c]
        \/ \E u \in UserIds : users[u] # NoHandle /\ handle'[c] = users[u]
    <2>1. ASSUME NEW k, NEW ip, Authenticate(c, k, ip) \/ AuthenticateHash(c, k, ip) \/ OpenSessionById(c, k, ip)
          PROVE  cpc'[c] \notin Numbered
      BY <1>t, <2>1, Zenon DEF Authenticate, AuthenticateHash, OpenSessionById, GoTo, Numbered
    <2>2. ASSUME AuthenticateHashed(c) \/ RefuseSession(c) \/ CloseSession(c) PROVE cpc'[c] \notin Numbered
      BY <1>t, <2>2, Zenon DEF AuthenticateHashed, RefuseSession, CloseSession, GoIdle, GoTo, Numbered
    <2>3. ASSUME ResolveUser(c)
          PROVE  \/ cpc'[c] \notin Numbered
                 \/ \E u \in UserIds : users[u] # NoHandle /\ handle'[c] = users[u]
      <3>1. req[c].user \in UserIds
        BY <2>3, Zenon DEF ResolveUser, Typed, ConnsOK, ConnOK
      <3> QED
        BY <1>t, <2>3, <3>1, Zenon DEF ResolveUser, GoIdle, GoTo, Numbered
    <2>4. ASSUME ReadLimits(c) \/ OpenSession(c) PROVE cpc[c] \in Numbered /\ handle'[c] = handle[c]
      BY <1>t, <2>4, Zenon DEF ReadLimits, OpenSession, GoTo, Numbered
    <2> QED
      BY <2>1, <2>2, <2>3, <2>4, Zenon DEF ConnectionStep
  <1>3. \A d \in Connections : d # c => cpc'[d] = cpc[d] /\ handle'[d] = handle[d]
    <2>1. PICK pc, r, h, s : GoTo(c, pc, r, h, s)
      BY ConnectionGoes, Zenon
    <2>2. cpc' = [cpc EXCEPT ![c] = pc] /\ handle' = [handle EXCEPT ![c] = h]
      BY <2>1, Zenon DEF GoTo
    <2> QED
      BY <1>t, <2>2, Zenon
  <1> QED
    BY <1>1, <1>2, <1>3 DEF OwnersInv, Allocated

\* What a call refers to stays allocated.
LEMMA JobOwnedKept ==
  ASSUME NEW ow, NEW nw, NEW pc, NEW J \in Jobs, JobOK(pc, J), JobOwned(ow, pc, J),
         \A g \in Handles : ow[g] # NoUser => nw[g] # NoUser
  PROVE  JobOwned(nw, pc, J)
  <1>1. /\ \A u \in UserIds : J.current[u] \in Handles \cup {NoHandle}
        /\ \A u \in UserIds : J.built[u] \in Handles \cup {NoHandle}
        /\ J.queue \subseteq Handles
    BY Zenon DEF Jobs
  <1>2. pc \in {"clear", "signal", "credentials", "limits"} => J.handle \in Handles
    BY Zenon DEF JobOK
  <1>3. \A u \in UserIds : J.current[u] # NoHandle => nw[J.current[u]] # NoUser
    BY <1>1, Zenon DEF JobOwned
  <1>4. \A u \in UserIds : J.built[u] # NoHandle => nw[J.built[u]] # NoUser
    BY <1>1, Zenon DEF JobOwned
  <1>5. \A h \in J.queue : nw[h] # NoUser
    BY <1>1, Zenon DEF JobOwned
  <1>6. pc \in {"clear", "signal", "credentials", "limits"} => nw[J.handle] # NoUser
    BY <1>2, Zenon DEF JobOwned
  <1> QED
    BY <1>3, <1>4, <1>5, <1>6, Zenon DEF JobOwned

\* An administrator only ever refers to one it found in the table or
\* allocated.
LEMMA AdminOwners ==
  ASSUME Typed, OwnersInv, NEW a \in Admins, AdminCall(a) \/ AdminStep(a) PROVE OwnersInv'
  <1>t. /\ apc \in [Admins -> AdminPc] /\ job \in [Admins -> Jobs] /\ job[a] \in Jobs
        /\ users \in [UserIds -> Handles \cup {NoHandle}] /\ owner \in [Handles -> UserIds \cup {NoUser}]
    BY Zenon DEF Typed, TypeAdmin, TypeTable
  <1>0. JobOwned(owner, apc[a], job[a]) /\ \A u \in UserIds : users[u] # NoHandle => owner[users[u]] # NoUser
    BY Zenon DEF OwnersInv, JobOwned, Allocated
  <1>a. ASSUME NEW pc, NEW J, SetJob(a, pc, J), JobOwned(owner, pc, J), UNCHANGED <<users, owner, cpc, handle>>
        PROVE  OwnersInv'
    <2>1. apc'[a] = pc /\ job'[a] = J /\ \A b \in Admins : b # a => apc'[b] = apc[b] /\ job'[b] = job[b]
      BY <1>t, <1>a, Zenon DEF SetJob
    <2> QED
      BY <1>a, <2>1 DEF OwnersInv, Allocated
  <1>b. ASSUME NEW pc, apc' = [apc EXCEPT ![a] = pc], job' = job,
               UNCHANGED <<users, owner, cpc, handle>>,
               pc \in {"clear", "signal", "credentials", "limits"} => owner[job[a].handle] # NoUser
        PROVE  OwnersInv'
    <2>1. SetJob(a, pc, job[a]) /\ JobOwned(owner, pc, job[a])
      BY <1>0, <1>t, <1>b, Zenon DEF SetJob, JobOwned, Allocated
    <2> QED
      BY <1>a, <1>b, <2>1, Zenon
  <1>n. /\ NoJob.current = [u \in UserIds |-> NoHandle] /\ NoJob.built = [u \in UserIds |-> NoHandle]
        /\ NoJob.queue = {}
    BY Zenon DEF NoJob
  <1> USE DEF core, userState, conn
  <1>1. ASSUME NEW list, ReplaceUsers(a, list) PROVE OwnersInv'
    <2> DEFINE Q == {users[u] : u \in UserIds \ IdsOf(list)} \ {NoHandle}
               J == [NoJob EXCEPT !.op = "replace", !.list = list, !.current = users,
                                  !.todo = IdsOf(list), !.queue = Q]
    <2>1. J.current = users /\ J.built = [u \in UserIds |-> NoHandle] /\ J.queue = Q
      BY Zenon DEF NoJob
    <2>2. JobOwned(owner, "update", J)
      BY <1>0, <2>1, Zenon DEF JobOwned, Allocated
    <2>3. SetJob(a, "update", J)
      BY <1>1, Zenon DEF ReplaceUsers
    <2> HIDE DEF J, Q
    <2> QED
      BY <1>1, <1>a, <2>2, <2>3, Zenon DEF ReplaceUsers
  <1>2. ASSUME NEW H, CancelHandles(a, H), \A h \in H : owner[h] # NoUser PROVE OwnersInv'
    <2> DEFINE J == [NoJob EXCEPT !.op = "cancel", !.queue = H]
    <2>1. J.current = NoJob.current /\ J.built = NoJob.built /\ J.queue = H
      BY Zenon DEF NoJob
    <2>2. JobOwned(owner, "cancel", J)
      BY <1>2, <1>n, <2>1 DEF JobOwned, Allocated
    <2>3. SetJob(a, "cancel", J)
      BY <1>2, Zenon DEF CancelHandles
    <2> HIDE DEF J
    <2> QED
      BY <1>2, <1>a, <2>2, <2>3, Zenon DEF CancelHandles
  <1>3. ASSUME NEW u \in UserIds, NEW l, SetLimits(a, u, l) PROVE OwnersInv'
    <2> DEFINE J == [NoJob EXCEPT !.op = "limits", !.handle = users[u], !.limits = l]
    <2>1. J.current = NoJob.current /\ J.built = NoJob.built /\ J.queue = {} /\ J.handle = users[u]
      BY Zenon DEF NoJob
    <2>2. JobOwned(owner, "limits", J)
      BY <1>0, <1>3, <1>n, <2>1 DEF SetLimits, JobOwned, Allocated
    <2>3. SetJob(a, "limits", J)
      BY <1>3, Zenon DEF SetLimits
    <2> HIDE DEF J
    <2> QED
      BY <1>3, <1>a, <2>2, <2>3, Zenon DEF SetLimits
  <1>4. AdminCall(a) => OwnersInv'
    <2>1. ASSUME NEW u \in UserIds, CancelUserSessions(a, u) PROVE OwnersInv'
      BY <1>0, <1>2, <2>1 DEF CancelUserSessions
    <2>2. CancelAllSessions(a) => OwnersInv'
      BY <1>0, <1>2 DEF CancelAllSessions, Table
    <2> QED
      BY <1>1, <1>3, <2>1, <2>2, Zenon DEF AdminCall
  <1>5. ASSUME NEW u \in UserIds, UpdateUser(a, u) PROVE OwnersInv'
    <2> DEFINE J == [job[a] EXCEPT !.user = u, !.handle = job[a].current[u], !.limits = LimitsOf(job[a].list, u)]
    <2>1. /\ J.current = job[a].current /\ J.built = job[a].built /\ J.queue = job[a].queue
          /\ J.handle = job[a].current[u]
      BY <1>t, Zenon DEF Jobs
    <2>2. PICK pc : SetJob(a, pc, J)
      BY <1>5, Zenon DEF UpdateUser
    <2>3. JobOwned(owner, pc, J)
      BY <1>0, <1>5, <2>1, Zenon DEF UpdateUser, JobOwned, Allocated
    <2> HIDE DEF J
    <2> QED
      BY <1>5, <1>a, <2>2, <2>3, Zenon DEF UpdateUser
  <1>6. ASSUME NEW u \in UserIds, NEW h \in Handles, AddUser(a, u, h) PROVE OwnersInv'
    <2> DEFINE J == [job[a] EXCEPT !.built = [@ EXCEPT ![u] = h], !.todo = @ \ {u}]
    <2>1. /\ J.current = job[a].current /\ J.queue = job[a].queue
          /\ J.built = [job[a].built EXCEPT ![u] = h]
      BY <1>t, Zenon DEF Jobs
    <2>2. /\ apc'[a] = "update" /\ job'[a] = J
          /\ \A b \in Admins : b # a => apc'[b] = apc[b] /\ job'[b] = job[b]
      BY <1>6, <1>t, Zenon DEF AddUser, SetJob
    <2>3. owner'[h] # NoUser /\ \A g \in Handles : owner[g] # NoUser => owner'[g] # NoUser
      BY <1>6, <1>t, NonesAssumption DEF AddUser
    <2>4. \A v \in UserIds : J.built[v] = h \/ J.built[v] = job[a].built[v]
      BY <1>t, <2>1, Zenon DEF Jobs
    <2>5. UNCHANGED <<users, cpc, handle>>
      BY <1>6, Zenon DEF AddUser
    <2> HIDE DEF J
    <2>k. \A b \in Admins : job[b] \in Jobs /\ JobOK(apc[b], job[b])
      BY <1>t, Zenon DEF Typed, JobsOK
    <2>c. \A c \in Connections : cpc[c] \in Numbered => handle[c] \in Handles
      BY Zenon DEF Typed, ConnsOK, ConnOK, Numbered
    <2>6. /\ \A v \in UserIds : users'[v] # NoHandle => owner'[users'[v]] # NoUser
          /\ \A c \in Connections : cpc'[c] \in Numbered => owner'[handle'[c]] # NoUser
      BY <1>t, <2>3, <2>5, <2>c, Zenon DEF OwnersInv, Allocated
    <2>7. ASSUME NEW b \in Admins PROVE JobOwned(owner', apc'[b], job'[b])
      <3>0. JobOwned(owner, apc[b], job[b])
        BY Zenon DEF OwnersInv, JobOwned, Allocated
      <3>1. JobOwned(owner', apc[b], job[b])
        BY <2>3, <2>k, <3>0, JobOwnedKept, Zenon
      <3>2. CASE b = a
        <4>1. JobOwned(owner', "update", J)
          BY <2>1, <2>3, <2>4, <3>1, <3>2, Zenon DEF JobOwned
        <4> QED
          BY <2>2, <3>2, <4>1, Zenon
      <3>3. CASE b # a
        BY <2>2, <3>1, <3>3, Zenon
      <3> QED
        BY <3>2, <3>3, Zenon
    <2> QED
      BY <2>6, <2>7, Zenon DEF OwnersInv, Allocated
  <1>7. ASSUME NEW h \in Handles, CancelRemoved(a, h) \/ CancelNext(a, h) PROVE OwnersInv'
    <2> DEFINE J == [job[a] EXCEPT !.handle = h, !.queue = @ \ {h}]
    <2>1. /\ J.current = job[a].current /\ J.built = job[a].built /\ J.queue = job[a].queue \ {h}
          /\ J.handle = h
      BY <1>t, Zenon DEF Jobs
    <2>2. SetJob(a, "clear", J) /\ h \in job[a].queue
      BY <1>7, Zenon DEF CancelRemoved, CancelNext
    <2>3. JobOwned(owner, "clear", J)
      BY <1>0, <2>1, <2>2, Zenon DEF JobOwned, Allocated
    <2> HIDE DEF J
    <2> QED
      BY <1>7, <1>a, <2>2, <2>3, Zenon DEF CancelRemoved, CancelNext
  <1>8. ASSUME WriteLimits(a) PROVE OwnersInv'
    <2>0. owner[job[a].handle] # NoUser
      BY <1>0, <1>8, Zenon DEF WriteLimits, JobOwned
    <2>1. CASE job[a].op = "replace"
      <3> DEFINE J == [job[a] EXCEPT !.built = [@ EXCEPT ![job[a].user] = job[a].handle],
                                     !.todo = @ \ {job[a].user}, !.user = NoUser, !.handle = NoHandle]
      <3>1. /\ J.current = job[a].current /\ J.queue = job[a].queue
            /\ J.built = [job[a].built EXCEPT ![job[a].user] = job[a].handle]
        BY <1>t, Zenon DEF Jobs
      <3>2. SetJob(a, "update", J)
        BY <1>8, <2>1, Zenon DEF WriteLimits
      <3>3. \A v \in UserIds : J.built[v] = job[a].handle \/ J.built[v] = job[a].built[v]
        BY <1>t, <3>1, Zenon DEF Jobs
      <3>4. JobOwned(owner, "update", J)
        BY <1>0, <2>0, <3>1, <3>3, Zenon DEF JobOwned, Allocated
      <3> HIDE DEF J
      <3> QED
        BY <1>8, <1>a, <3>2, <3>4, Zenon DEF WriteLimits
    <2>2. CASE job[a].op # "replace"
      <3>1. SetJob(a, "idle", NoJob) /\ JobOwned(owner, "idle", NoJob)
        BY <1>8, <1>n, <2>2, Zenon DEF WriteLimits, JobOwned, Allocated
      <3> QED
        BY <1>8, <1>a, <3>1, Zenon DEF WriteLimits
    <2> QED
      BY <2>1, <2>2, Zenon
  <1>9. ASSUME WriteCredentials(a) \/ ClearSessions(a) \/ FinishCancel(a) PROVE OwnersInv'
    <2>1. owner[job[a].handle] # NoUser
      BY <1>0, <1>9, Zenon DEF WriteCredentials, ClearSessions, FinishCancel, JobOwned
    <2>2. PICK pc : apc' = [apc EXCEPT ![a] = pc]
      BY <1>9, Zenon DEF WriteCredentials, ClearSessions, FinishCancel
    <2> QED
      BY <1>9, <1>b, <2>1, <2>2, Zenon DEF WriteCredentials, ClearSessions, FinishCancel
  <1>10. ASSUME PublishUsers(a) PROVE OwnersInv'
    <2>1. /\ users' = job[a].built /\ apc' = [apc EXCEPT ![a] = "index"]
          /\ UNCHANGED <<owner, cpc, handle, job>>
      BY <1>10, Zenon DEF PublishUsers
    <2> QED
      <3>1. \A u \in UserIds : users'[u] # NoHandle => owner'[users'[u]] # NoUser
        BY <1>0, <2>1, Zenon DEF JobOwned
      <3>2. \A b \in Admins : JobOwned(owner, apc'[b], job[b])
        BY <1>t, <2>1, Zenon DEF OwnersInv, JobOwned
      <3> QED
        BY <2>1, <3>1, <3>2, Zenon DEF OwnersInv, Allocated
  <1>11. ASSUME PublishIndex(a) \/ CancelReturns(a) PROVE OwnersInv'
    <2>1. SetJob(a, "idle", NoJob) /\ JobOwned(owner, "idle", NoJob)
      BY <1>11, <1>n, Zenon DEF PublishIndex, CancelReturns, JobOwned, Allocated
    <2> QED
      BY <1>11, <1>a, <2>1, Zenon DEF PublishIndex, CancelReturns
  <1>12. ASSUME NEW s, AnnounceCancelled(a, s) \/ CancelControl(a) PROVE OwnersInv'
    BY <1>12 DEF AnnounceCancelled, CancelControl, OwnersInv, Allocated
  <1> QED
    BY <1>4, <1>5, <1>6, <1>7, <1>8, <1>9, <1>10, <1>11, <1>12, Zenon DEF AdminStep

----------------------------------------------------------------------------
(* The index *)

\* Nothing is published in the initial state.
LEMMA InitReplaceInv == Init => ReplaceInv
  BY DEF Init, ReplaceInv, TableOwned, StepOK, IndexMatchesTable, NoJob

\* A step that leaves the table, the users and the calls alone.
LEMMA ReplaceFrame ==
  ASSUME ReplaceInv, UNCHANGED <<core, owner, creds, apc, job>> PROVE ReplaceInv'
  BY DEF ReplaceInv, TableOwned, StepOK, BuildOK, IndexMatchesTable, core

\* With one caller, its job decides what has to hold.
LEMMA OneJob ==
  ASSUME OneCaller, Typed, NEW a \in Admins, NEW pc, NEW J, SetJob(a, pc, J),
         TableOwned', StepOK(pc, J), J.op = "replace" => BuildOK(pc, J)', J.op # "replace" => Agree'
  PROVE  ReplaceInv'
  <1>1. apc'[a] = pc /\ job'[a] = J /\ \A b \in Admins : b = a
    BY Zenon DEF Typed, TypeAdmin, SetJob, OneCaller
  <1>2. ASSUME NEW b \in Admins
        PROVE  /\ StepOK(apc[b], job[b])'
               /\ job'[b].op = "replace" => BuildOK(apc[b], job[b])'
    <2>1. b = a
      BY <1>1, Zenon
    <2> QED
      BY <1>1, <2>1, Zenon DEF StepOK, BuildOK
  <1>3. IndexMatchesTable'
    BY <1>1, Zenon DEF IndexMatchesTable, Agree
  <1> QED
    BY <1>2, <1>3, Zenon DEF ReplaceInv

\* Calls other than replace_users leave the index as it is.
LEMMA OtherCalls ==
  ASSUME OneCaller, Typed, ReplaceInv, NEW a \in Admins, NEW pc, NEW J, SetJob(a, pc, J),
         UNCHANGED <<core, owner, creds>>, job[a].op # "replace", J.op # "replace", StepOK(pc, J)
  PROVE  ReplaceInv'
  <1>1. Agree /\ TableOwned
    BY Zenon DEF ReplaceInv, IndexMatchesTable, Agree, OneCaller
  <1>2. Agree' /\ TableOwned'
    BY <1>1, Zenon DEF Agree, TableOwned, core
  <1> QED
    BY <1>2, OneJob, Zenon

\* The calls preserve the invariant.
LEMMA AdminCallReplaces ==
  ASSUME OneCaller, Typed, ReplaceInv, NEW a \in Admins, AdminCall(a) PROVE ReplaceInv'
  <1>0. apc[a] = "idle" => job[a].op # "replace"
    BY Zenon DEF ReplaceInv, StepOK
  <1>1. ASSUME NEW list \in UserLists, ReplaceUsers(a, list) PROVE ReplaceInv'
    <2>q. PICK Q : Q = {users[u] : u \in UserIds \ IdsOf(list)} \ {NoHandle}
      BY Zenon
    <2>J. PICK J : J = [NoJob EXCEPT !.op = "replace", !.list = list, !.current = users,
                                     !.todo = IdsOf(list), !.queue = Q]
      BY Zenon
    <2>1. /\ J.op = "replace" /\ J.list = list /\ J.current = users /\ J.todo = IdsOf(list)
          /\ J.built = [u \in UserIds |-> NoHandle] /\ J.user = NoUser
      BY <2>J, Zenon DEF NoJob
    <2>2. SetJob(a, "update", J) /\ UNCHANGED <<core, owner, creds>>
      BY <1>1, <2>q, <2>J, Zenon DEF ReplaceUsers, userState
    <2>3. TableOwned /\ TableOwned'
      BY <2>2, Zenon DEF ReplaceInv, TableOwned, core
    <2>4. BuildOK("update", J)'
      BY <2>1, <2>2, <2>3, Zenon DEF BuildOK, TableOwned, core
    <2>5. StepOK("update", J)
      BY <2>1, Zenon DEF StepOK
    <2> QED
      BY <2>1, <2>2, <2>3, <2>4, <2>5, OneJob, Zenon
  <1>2. ASSUME NEW H, CancelHandles(a, H) PROVE ReplaceInv'
    <2>J. PICK J : J = [NoJob EXCEPT !.op = "cancel", !.queue = H]
      BY Zenon
    <2>1. J.op = "cancel"
      BY <2>J, Zenon DEF NoJob
    <2>2. SetJob(a, "cancel", J) /\ UNCHANGED <<core, owner, creds>> /\ apc[a] = "idle"
      BY <1>2, <2>J, Zenon DEF CancelHandles, userState
    <2>3. StepOK("cancel", J)
      BY <2>1, Zenon DEF StepOK
    <2> QED
      BY <1>0, <2>1, <2>2, <2>3, OtherCalls, Zenon
  <1>3. ASSUME NEW u, NEW l, SetLimits(a, u, l) PROVE ReplaceInv'
    <2>J. PICK J : J = [NoJob EXCEPT !.op = "limits", !.handle = users[u], !.limits = l]
      BY Zenon
    <2>1. J.op = "limits"
      BY <2>J, Zenon DEF NoJob
    <2>2. SetJob(a, "limits", J) /\ UNCHANGED <<core, owner, creds>> /\ apc[a] = "idle"
      BY <1>3, <2>J, Zenon DEF SetLimits, userState
    <2>3. StepOK("limits", J)
      BY <2>1, Zenon DEF StepOK
    <2> QED
      BY <1>0, <2>1, <2>2, <2>3, OtherCalls, Zenon
  <1> QED
    BY <1>1, <1>2, <1>3, Zenon DEF AdminCall, CancelUserSessions, CancelAllSessions

\* A credential names at most one entry of a validated list.
LEMMA IndexOfList ==
  ASSUME NEW list \in SUBSET ListEntries, Valid(list), NEW u,
         NEW X, X = [k \in Credentials |-> IF \E e \in list : e.cred = k
                                           THEN (CHOOSE e \in list : e.cred = k).id ELSE NoUser]
  PROVE  /\ u \in IdsOf(list) => CredsOf(list, u) = {k \in Credentials : X[k] = u}
         /\ \A k \in Credentials : X[k] # NoUser => X[k] \in IdsOf(list)
  <1>1. \A e \in list : e.cred \in Credentials /\ e.id \in UserIds
    BY Zenon DEF Valid, ListEntries
  <1>2. ASSUME NEW e \in list PROVE X[e.cred] = e.id
    BY <1>1, Zenon DEF Valid
  <1>3. \A k \in Credentials : X[k] = NoUser \/ \E e \in list : e.cred = k /\ X[k] = e.id
    BY <1>1, <1>2, Zenon
  <1>4. \A k \in Credentials : X[k] # NoUser => X[k] \in IdsOf(list)
    BY <1>3, Zenon DEF IdsOf
  <1>5. ASSUME u \in IdsOf(list) PROVE CredsOf(list, u) = {k \in Credentials : X[k] = u}
    <2>1. u # NoUser
      BY <1>1, <1>5, NonesAssumption, Zenon DEF IdsOf
    <2>2. CredsOf(list, u) \subseteq {k \in Credentials : X[k] = u}
      BY <1>1, <1>2 DEF CredsOf
    <2>3. {k \in Credentials : X[k] = u} \subseteq CredsOf(list, u)
      BY <1>3, <2>1, Zenon DEF CredsOf
    <2> QED
      BY <2>2, <2>3, Zenon
  <1> QED
    BY <1>4, <1>5, Zenon

\* The steps of a call preserve the invariant.
LEMMA AdminStepReplaces ==
  ASSUME OneCaller, Typed, SInv, ReplaceInv, NEW a \in Admins, AdminStep(a) PROVE ReplaceInv'
  <1>t. /\ apc \in [Admins -> AdminPc] /\ job \in [Admins -> Jobs]
        /\ users \in [UserIds -> Handles \cup {NoHandle}] /\ index \in [Credentials -> UserIds \cup {NoUser}]
        /\ owner \in [Handles -> UserIds \cup {NoUser}] /\ creds \in [Handles -> SUBSET Credentials]
    BY Zenon DEF Typed, TypeAdmin, TypeTable
  <1>j. PICK O \in Jobs : O = job[a]
    BY <1>t, Zenon
  <1>o. JobOK(apc[a], O) /\ StepOK(apc[a], O) /\ (O.op = "replace" => BuildOK(apc[a], O)) /\ TableOwned
    BY <1>j, Zenon DEF Typed, JobsOK, ReplaceInv
  <1>n. NoJob.op = "none" /\ StepOK("idle", NoJob)
    BY Zenon DEF NoJob, StepOK
  <1>1. ASSUME NEW u \in UserIds, UpdateUser(a, u) PROVE ReplaceInv'
    <2>J. PICK J : J = [O EXCEPT !.user = u, !.handle = O.current[u], !.limits = LimitsOf(O.list, u)]
      BY Zenon
    <2>1. /\ J.op = O.op /\ J.list = O.list /\ J.current = O.current /\ J.built = O.built /\ J.todo = O.todo
          /\ J.queue = O.queue /\ J.user = u /\ J.handle = O.current[u]
      BY <2>J, Zenon DEF Jobs
    <2>2. PICK pc : pc = IF creds[O.current[u]] = CredsOf(O.list, u) THEN "limits" ELSE "clear"
      BY Zenon
    <2>3. /\ SetJob(a, pc, J) /\ UNCHANGED <<core, owner, creds>>
          /\ apc[a] = "update" /\ u \in O.todo /\ O.current[u] # NoHandle
      BY <1>1, <1>j, <2>J, <2>2, Zenon DEF UpdateUser, userState
    <2>4. O.op = "replace" /\ BuildOK("update", O)
      BY <1>o, <2>3, Zenon DEF StepOK
    <2>5. TableOwned' /\ StepOK(pc, J)
      BY <1>o, <2>1, <2>2, <2>3, <2>4, Zenon DEF TableOwned, StepOK, core
    <2>6. BuildOK(pc, J)'
      BY <2>1, <2>2, <2>3, <2>4, NonesAssumption DEF BuildOK, core
    <2> QED
      BY <2>1, <2>3, <2>4, <2>5, <2>6, OneJob, Zenon
  <1>2. ASSUME NEW u \in UserIds, NEW h \in Handles, AddUser(a, u, h) PROVE ReplaceInv'
    <2>J. PICK J : J = [O EXCEPT !.built = [O.built EXCEPT ![u] = h], !.todo = O.todo \ {u}]
      BY Zenon
    <2>1. /\ J.op = O.op /\ J.list = O.list /\ J.current = O.current /\ J.built = [O.built EXCEPT ![u] = h]
          /\ J.todo = O.todo \ {u} /\ J.user = O.user /\ J.handle = O.handle
      BY <2>J, Zenon DEF Jobs
    <2>3. /\ SetJob(a, "update", J) /\ UNCHANGED core /\ owner[h] = NoUser /\ u \in O.todo /\ apc[a] = "update"
          /\ owner' = [owner EXCEPT ![h] = u] /\ creds' = [creds EXCEPT ![h] = CredsOf(O.list, u)]
      BY <1>2, <1>j, <2>J, Zenon DEF AddUser
    <2>4. O.op = "replace" /\ BuildOK("update", O)
      BY <1>o, <2>3, Zenon DEF StepOK
    <2>5. /\ owner'[h] = u /\ creds'[h] = CredsOf(O.list, u)
          /\ \A g \in Handles : g # h => owner'[g] = owner[g] /\ creds'[g] = creds[g]
      BY <1>t, <2>3, Zenon
    <2>6. \A v \in UserIds, g \in Handles : owner[g] = v => g # h
      BY <2>3, NonesAssumption, Zenon
    <2>7. TableOwned'
      BY <1>o, <1>t, <2>3, <2>5, <2>6 DEF TableOwned, core
    <2>8. J.built[u] = h /\ \A v \in UserIds : v # u => J.built[v] = O.built[v]
      BY <2>1, Zenon DEF Jobs
    <2>9. ASSUME NEW v \in UserIds
          PROVE  /\ J.built[v] # NoHandle <=> v \in IdsOf(J.list) /\ v \notin J.todo
                 /\ J.built[v] # NoHandle => owner'[J.built[v]] = v /\ creds'[J.built[v]] = CredsOf(J.list, v)
                 /\ J.current[v] # NoHandle => owner'[J.current[v]] = v
      <3>0. O.built[v] \in Handles \cup {NoHandle} /\ O.current[v] \in Handles \cup {NoHandle}
        BY Zenon DEF Jobs
      <3>1. J.current[v] # NoHandle => owner'[J.current[v]] = v
        BY <2>1, <2>4, <2>5, <2>6, <3>0 DEF BuildOK
      <3>2. CASE v = u
        <4>1. u \in IdsOf(O.list) /\ h # NoHandle
          BY <1>o, <2>3, NonesAssumption, Zenon DEF JobOK
        <4> QED
          BY <2>1, <2>5, <2>8, <3>1, <3>2, <4>1, Zenon
      <3>3. CASE v # u
        BY <2>1, <2>4, <2>5, <2>6, <2>8, <3>0, <3>1, <3>3 DEF BuildOK
      <3> QED
        BY <3>2, <3>3, Zenon
    <2>10. BuildOK("update", J)'
      BY <2>1, <2>4, <2>9, Zenon DEF BuildOK
    <2>11. StepOK("update", J)
      BY <2>1, <2>4, Zenon DEF StepOK
    <2> QED
      BY <2>1, <2>3, <2>4, <2>7, <2>10, <2>11, OneJob, Zenon
  <1>3. ASSUME WriteCredentials(a) PROVE ReplaceInv'
    <2>0. apc[a] = "credentials" /\ O.op = "replace" /\ BuildOK("credentials", O) /\ O.handle \in Handles
      BY <1>3, <1>o, Zenon DEF WriteCredentials, StepOK, JobOK
    <2>1. PICK h \in Handles : h = O.handle
      BY <2>0, Zenon
    <2>2. PICK u \in UserIds : u = O.user /\ u \in O.todo /\ h = O.current[u]
      BY <2>0, <2>1, Zenon DEF BuildOK, Jobs
    <2>3. /\ creds' = [creds EXCEPT ![h] = CredsOf(O.list, u)] /\ UNCHANGED <<core, owner>>
          /\ apc' = [apc EXCEPT ![a] = "limits"] /\ job' = job
      BY <1>3, <1>j, <2>1, <2>2, Zenon DEF WriteCredentials
    <2>4. SetJob(a, "limits", O)
      BY <1>j, <1>t, <2>3, Zenon DEF SetJob
    <2>5. creds'[h] = CredsOf(O.list, u) /\ \A g \in Handles : g # h => creds'[g] = creds[g]
      BY <1>t, <2>3, Zenon
    <2>6. owner[h] = u
      BY <2>0, <2>2, NonesAssumption, Zenon DEF BuildOK
    <2>7. ASSUME NEW v \in UserIds, O.built[v] # NoHandle PROVE creds'[O.built[v]] = CredsOf(O.list, v)
      <3>1. v # u /\ O.built[v] \in Handles /\ owner[O.built[v]] = v /\ creds[O.built[v]] = CredsOf(O.list, v)
        BY <2>0, <2>2, <2>7, Zenon DEF BuildOK, Jobs
      <3> QED
        BY <2>5, <2>6, <3>1, Zenon
    <2>8. BuildOK("limits", O)'
      BY <2>0, <2>1, <2>2, <2>3, <2>5, <2>7, Zenon DEF BuildOK
    <2>9. TableOwned' /\ StepOK("limits", O)
      BY <1>o, <2>3, Zenon DEF TableOwned, core, StepOK
    <2> QED
      BY <2>0, <2>4, <2>8, <2>9, OneJob, Zenon
  <1>4. ASSUME WriteLimits(a) PROVE ReplaceInv'
    <2>u. UNCHANGED <<core, owner, creds>> /\ apc[a] = "limits"
      BY <1>4, Zenon DEF WriteLimits
    <2>1. CASE O.op = "replace"
      <3>0. BuildOK("limits", O) /\ O.handle \in Handles
        BY <1>o, <2>1, <2>u, Zenon DEF JobOK
      <3>1. PICK u \in UserIds : u = O.user /\ u \in O.todo /\ O.handle = O.current[u]
        BY <3>0, Zenon DEF BuildOK, Jobs
      <3>J. PICK J : J = [O EXCEPT !.built = [O.built EXCEPT ![u] = O.handle],
                                   !.todo = O.todo \ {u}, !.user = NoUser, !.handle = NoHandle]
        BY Zenon
      <3>2. /\ J.op = O.op /\ J.list = O.list /\ J.current = O.current
            /\ J.built = [O.built EXCEPT ![u] = O.handle]
            /\ J.todo = O.todo \ {u} /\ J.user = NoUser
        BY <3>J, Zenon DEF Jobs
      <3>3. SetJob(a, "update", J)
        BY <1>4, <1>j, <2>1, <3>1, <3>J, Zenon DEF WriteLimits
      <3>4. J.built[u] = O.handle /\ \A v \in UserIds : v # u => J.built[v] = O.built[v]
        BY <3>2, Zenon DEF Jobs
      <3>5. /\ owner[O.handle] = u /\ creds[O.handle] = CredsOf(O.list, u) /\ u \in IdsOf(O.list)
            /\ O.handle # NoHandle
        <4>1. O.handle # NoHandle
          BY <3>0, NonesAssumption, Zenon
        <4> QED
          BY <1>o, <3>0, <3>1, <4>1, Zenon DEF BuildOK, JobOK
      <3>6. ASSUME NEW v \in UserIds
            PROVE  /\ J.built[v] # NoHandle <=> v \in IdsOf(J.list) /\ v \notin J.todo
                   /\ J.built[v] # NoHandle => owner[J.built[v]] = v /\ creds[J.built[v]] = CredsOf(J.list, v)
                   /\ J.current[v] # NoHandle => owner[J.current[v]] = v
        <4>1. CASE v = u
          BY <3>0, <3>2, <3>4, <3>5, <4>1 DEF BuildOK
        <4>2. CASE v # u
          BY <3>0, <3>2, <3>4, <4>2 DEF BuildOK
        <4> QED
          BY <4>1, <4>2, Zenon
      <3>7. BuildOK("update", J)'
        BY <2>u, <3>2, <3>6, Zenon DEF BuildOK
      <3>8. TableOwned' /\ StepOK("update", J)
        BY <1>o, <2>1, <2>u, <3>2, Zenon DEF TableOwned, core, StepOK
      <3> QED
        BY <2>1, <3>2, <3>3, <3>7, <3>8, OneJob, Zenon
    <2>2. CASE O.op # "replace"
      <3>1. SetJob(a, "idle", NoJob)
        BY <1>4, <1>j, <2>2, Zenon DEF WriteLimits
      <3> QED
        BY <1>j, <1>n, <2>2, <2>u, <3>1, OtherCalls, Zenon
    <2> QED
      BY <2>1, <2>2, Zenon
  <1>5. ASSUME NEW h \in Handles, CancelRemoved(a, h) \/ CancelNext(a, h) PROVE ReplaceInv'
    <2>J. PICK J : J = [O EXCEPT !.handle = h, !.queue = O.queue \ {h}]
      BY Zenon
    <2>1. /\ J.op = O.op /\ J.list = O.list /\ J.current = O.current /\ J.built = O.built /\ J.todo = O.todo
          /\ J.user = O.user
      BY <2>J, Zenon DEF Jobs
    <2>2. SetJob(a, "clear", J) /\ UNCHANGED <<core, owner, creds>> /\ apc[a] \in {"update", "cancel"}
      BY <1>5, <1>j, <2>J, Zenon DEF CancelRemoved, CancelNext, userState
    <2>3. StepOK("clear", J)
      BY <1>o, <2>1, <2>2, Zenon DEF StepOK
    <2>4. CASE O.op = "replace"
      <3>1. apc[a] = "update" /\ BuildOK("update", O)
        BY <1>o, <2>2, <2>4, Zenon DEF StepOK
      <3>2. BuildOK("clear", J)' /\ TableOwned'
        BY <1>o, <2>1, <2>2, <3>1 DEF BuildOK, TableOwned, core
      <3> QED
        BY <2>1, <2>2, <2>3, <2>4, <3>2, OneJob, Zenon
    <2>5. CASE O.op # "replace"
      BY <1>j, <2>1, <2>2, <2>3, <2>5, OtherCalls, Zenon
    <2> QED
      BY <2>4, <2>5, Zenon
  <1>6. ASSUME PublishUsers(a) PROVE ReplaceInv'
    <2>1. /\ apc[a] = "update" /\ O.todo = {} /\ O.queue = {} /\ users' = O.built
          /\ apc' = [apc EXCEPT ![a] = "index"] /\ job' = job /\ UNCHANGED <<owner, creds>>
      BY <1>6, <1>j, Zenon DEF PublishUsers, userState
    <2>2. SetJob(a, "index", O)
      BY <1>j, <1>t, <2>1, Zenon DEF SetJob
    <2>3. O.op = "replace" /\ BuildOK("update", O)
      BY <1>o, <2>1, Zenon DEF StepOK
    <2>4. BuildOK("index", O)' /\ TableOwned' /\ StepOK("index", O)
      BY <2>1, <2>3, Zenon DEF BuildOK, TableOwned, StepOK
    <2> QED
      BY <2>2, <2>3, <2>4, OneJob, Zenon
  <1>7. ASSUME PublishIndex(a) PROVE ReplaceInv'
    <2>X. PICK X : X = [k \in Credentials |-> IF \E e \in O.list : e.cred = k
                                              THEN (CHOOSE e \in O.list : e.cred = k).id ELSE NoUser]
      BY Zenon
    <2>1. /\ apc[a] = "index" /\ index' = X /\ SetJob(a, "idle", NoJob) /\ UNCHANGED <<users, owner, creds>>
      BY <1>7, <1>j, <2>X, Zenon DEF PublishIndex, userState
    <2>2. O.op = "replace" /\ BuildOK("index", O) /\ O.list \in SUBSET ListEntries /\ Valid(O.list)
      BY <1>o, <2>1, Zenon DEF StepOK, JobOK, Jobs
    <2>3. users = O.built /\ O.todo = {}
      BY <2>2, Zenon DEF BuildOK
    <2>4. ASSUME NEW u \in UserIds, users[u] # NoHandle
          PROVE  owner[users[u]] = u /\ creds[users[u]] = {k \in Credentials : X[k] = u}
      <3>1. u \in IdsOf(O.list) /\ owner[users[u]] = u /\ creds[users[u]] = CredsOf(O.list, u)
        BY <2>2, <2>3, <2>4, Zenon DEF BuildOK
      <3>2. CredsOf(O.list, u) = {k \in Credentials : X[k] = u}
        BY <2>X, <2>2, <3>1, IndexOfList
      <3> QED
        BY <3>1, <3>2, Zenon
    <2>5. ASSUME NEW k \in Credentials, X[k] # NoUser PROVE users[X[k]] # NoHandle
      <3>1. X[k] \in IdsOf(O.list)
        BY <2>X, <2>2, <2>5, IndexOfList, Zenon
      <3>2. X[k] \in UserIds
        BY <2>2, <3>1, Zenon DEF Valid, IdsOf, ListEntries
      <3> QED
        BY <2>2, <2>3, <3>1, <3>2, Zenon DEF BuildOK
    <2>6. Agree' /\ TableOwned'
      BY <2>1, <2>4, <2>5, Zenon DEF Agree, TableOwned
    <2> QED
      BY <1>n, <2>1, <2>6, OneJob, Zenon
  <1>8. ASSUME ClearSessions(a) PROVE ReplaceInv'
    <2>1. /\ apc[a] = "clear" /\ SetJob(a, "signal", O) /\ UNCHANGED <<core, owner, creds>>
      BY <1>8, <1>j, <1>t, Zenon DEF ClearSessions, userState, SetJob
    <2>2. StepOK("signal", O)
      BY <1>o, <2>1, Zenon DEF StepOK
    <2>3. CASE O.op = "replace"
      <3>1. BuildOK("signal", O)' /\ TableOwned'
        BY <1>o, <2>1, <2>3, Zenon DEF BuildOK, TableOwned, core
      <3> QED
        BY <2>1, <2>2, <2>3, <3>1, OneJob, Zenon
    <2>4. CASE O.op # "replace"
      BY <1>j, <2>1, <2>2, <2>4, OtherCalls, Zenon
    <2> QED
      BY <2>3, <2>4, Zenon
  <1>9. ASSUME FinishCancel(a) PROVE ReplaceInv'
    <2>1. PICK pc : pc = IF O.op = "cancel" THEN "cancel" ELSE IF O.user = NoUser THEN "update" ELSE "credentials"
      BY Zenon
    <2>2. apc[a] = "signal" /\ SetJob(a, pc, O) /\ UNCHANGED <<core, owner, creds>>
      BY <1>9, <1>j, <1>t, <2>1, Zenon DEF FinishCancel, userState, SetJob
    <2>3. CASE O.op = "replace"
      <3>1. StepOK(pc, O)
        BY <2>1, <2>3, Zenon DEF StepOK
      <3>2. BuildOK(pc, O)' /\ TableOwned'
        BY <1>o, <2>1, <2>2, <2>3, Zenon DEF BuildOK, TableOwned, core
      <3> QED
        BY <2>2, <2>3, <3>1, <3>2, OneJob, Zenon
    <2>4. CASE O.op # "replace"
      <3>1. O.op = "cancel"
        BY <1>o, <2>2, <2>4, Zenon DEF StepOK
      <3>2. StepOK(pc, O)
        BY <2>1, <3>1, Zenon DEF StepOK
      <3> QED
        BY <1>j, <2>2, <2>4, <3>2, OtherCalls, Zenon
    <2> QED
      BY <2>3, <2>4, Zenon
  <1>10. ASSUME CancelReturns(a) PROVE ReplaceInv'
    <2>1. apc[a] = "cancel" /\ SetJob(a, "idle", NoJob) /\ UNCHANGED <<core, owner, creds>>
      BY <1>10, Zenon DEF CancelReturns, userState
    <2>2. job[a].op # "replace"
      BY <1>j, <1>o, <2>1, Zenon DEF StepOK
    <2> QED
      BY <1>n, <2>1, <2>2, OtherCalls, Zenon
  <1>11. ASSUME NEW s, AnnounceCancelled(a, s) \/ CancelControl(a) PROVE ReplaceInv'
    BY <1>11, ReplaceFrame, Zenon DEF AnnounceCancelled, CancelControl, userState
  <1> QED
    BY <1>1, <1>2, <1>3, <1>4, <1>5, <1>6, <1>7, <1>8, <1>9, <1>10, <1>11, Zenon DEF AdminStep

\* Every step preserves the invariant.
LEMMA NextReplaceInv == OneCaller /\ Typed /\ SInv /\ ReplaceInv /\ [Next]_vars => ReplaceInv'
  <1> SUFFICES ASSUME OneCaller, Typed, SInv, ReplaceInv, [Next]_vars PROVE ReplaceInv'
    BY Zenon
  <1>1. CASE UNCHANGED vars
    BY <1>1, ReplaceFrame, Zenon DEF vars, userState, admin
  <1>2. ASSUME NEW c \in Connections, ConnectionStep(c) PROVE ReplaceInv'
    BY <1>2, ReplaceFrame, Zenon
    DEF ConnectionStep, Authenticate, OpenSessionById, AuthenticateHash, AuthenticateHashed,
        ResolveUser, ReadLimits, OpenSession, RefuseSession, CloseSession, userState, admin
  <1> QED
    BY <1>1, <1>2, AdminCallReplaces, AdminStepReplaces, Zenon DEF Next

----------------------------------------------------------------------------
(* The end of a session *)

\* No session is open in the initial state.
LEMMA InitOver == Init => OverInv
  BY Zenon DEF Init, OverInv

\* An open session leaves the map through close_session, which counts it
\* closed, or through cancel_sessions, which collects it.
LEMMA NextOver == Typed /\ SInv /\ OverInv /\ [Next]_vars => OverInv'
  <1> SUFFICES ASSUME Typed, SInv, OverInv, [Next]_vars PROVE OverInv'
    BY Zenon
  <1>t. /\ slots \in [Handles -> SUBSET Sids] /\ closed \in [Sids -> Nat]
        /\ ctl \in [Sids -> {"none", "active", "cancelled"}] /\ pend \in [Admins -> SUBSET Sids]
        /\ announced \in [Admins -> 0..MaxSeq]
    BY Zenon DEF Typed, TypeSessions, TypeAdmin
  <1>a. ASSUME UNCHANGED <<slots, ctl, closed, pend>> PROVE OverInv'
    BY <1>a, Zenon DEF OverInv
  <1>1. CASE UNCHANGED vars
    BY <1>1, <1>a, Zenon DEF vars, sessionMap, sessions, events, admin
  <1>2. ASSUME NEW c \in Connections, OpenSession(c) PROVE OverInv'
    <2>s. PICK s \in Sids : s = sid[c]
      BY <1>2, Zenon DEF OpenSession, Typed, ConnsOK, ConnOK
    <2>h. PICK h \in Handles : h = handle[c]
      BY <1>2, Zenon DEF OpenSession, Typed, ConnsOK, ConnOK
    <2>1. /\ slots' = [slots EXCEPT ![h] = slots[h] \cup {s}] /\ ctl' = [ctl EXCEPT ![s] = "active"]
          /\ closed' = closed /\ pend' = pend
      BY <1>2, <2>s, <2>h, Zenon DEF OpenSession, UpdateOnlineCounts, admin
    <2>2. s \in slots'[h] /\ \A g \in Handles : slots[g] \subseteq slots'[g]
      BY <1>t, <2>1, Zenon
    <2>3. \A x \in Sids : x # s => ctl'[x] = ctl[x]
      BY <1>t, <2>1, Zenon
    <2> QED
      BY <2>1, <2>2, <2>3 DEF OverInv
  <1>3. ASSUME NEW c \in Connections, CloseSession(c) PROVE OverInv'
    <2>s. PICK s \in Sids : s = sid[c]
      BY <1>3, Zenon DEF CloseSession, Typed, ConnsOK, ConnOK
    <2>h. PICK h \in Handles : h = handle[c]
      BY <1>3, Zenon DEF CloseSession, Typed, ConnsOK, ConnOK
    <2>1. /\ slots' = [slots EXCEPT ![h] = slots[h] \ {s}] /\ ctl' = ctl /\ pend' = pend
          /\ closed' = [closed EXCEPT ![s] = IF s \in slots[h] THEN closed[s] + 1 ELSE closed[s]]
      BY <1>3, <2>s, <2>h, Zenon DEF CloseSession, UpdateOnlineCounts, admin
    <2>2. \A x \in Sids, g \in Handles : x # s /\ x \in slots[g] => x \in slots'[g]
      BY <1>t, <2>1, Zenon
    <2>3. \A x \in Sids : x # s => closed'[x] = closed[x]
      BY <1>t, <2>1, Zenon
    <2>4. CASE s \in slots[h]
      <3>1. closed[s] = 0
        BY <2>4 DEF SInv, SlotInv, SlotOK, Sent
      <3>2. closed'[s] = 1
        BY <1>t, <2>1, <2>4, <3>1
      <3> QED
        BY <2>1, <2>2, <2>3, <3>2, Zenon DEF OverInv
    <2>5. CASE s \notin slots[h]
      <3>1. slots' = slots /\ closed' = closed
        BY <1>t, <2>1, <2>5
      <3> QED
        BY <1>a, <2>1, <3>1, Zenon
    <2> QED
      BY <2>4, <2>5, Zenon
  <1>4. ASSUME NEW c \in Connections, ConnectionStep(c), ~OpenSession(c), ~CloseSession(c) PROVE OverInv'
    BY <1>4, <1>a, Zenon DEF ConnectionStep, Authenticate, OpenSessionById, AuthenticateHash, AuthenticateHashed,
           ResolveUser, ReadLimits, RefuseSession, sessionMap, sessions, events, admin
  <1>5. ASSUME NEW a \in Admins, ClearSessions(a) PROVE OverInv'
    <2>h. PICK h \in Handles : h = job[a].handle
      BY <1>5, Zenon DEF ClearSessions, Typed, JobsOK, JobOK
    <2>1. /\ slots' = [slots EXCEPT ![h] = {}] /\ ctl' = ctl /\ closed' = closed
          /\ pend' = [pend EXCEPT ![a] = slots[h]] /\ pend[a] = {}
      BY <1>5, <2>h, Zenon DEF ClearSessions, sessions, events, SInv, PendInv
    <2>2. \A x \in Sids, g \in Handles : x \in slots[g] => x \in slots'[g] \/ x \in pend'[a]
      BY <1>t, <2>1, Zenon
    <2>3. \A x \in Sids, b \in Admins : x \in pend[b] => x \in pend'[b]
      BY <1>t, <2>1, Zenon
    <2> QED
      BY <2>1, <2>2, <2>3, Zenon DEF OverInv
  <1>6. ASSUME NEW a \in Admins, CancelControl(a) PROVE OverInv'
    <2>s. PICK s \in Sids : s = announced[a]
      BY <1>6, <1>t DEF CancelControl, NoSid, Sids
    <2>1. /\ slots' = slots /\ ctl' = [ctl EXCEPT ![s] = "cancelled"] /\ closed' = closed
          /\ pend' = [pend EXCEPT ![a] = pend[a] \ {s}]
      BY <1>6, <2>s, Zenon DEF CancelControl, sessionMap, events
    <2>2. ctl'[s] = "cancelled" /\ \A x \in Sids : x # s => ctl'[x] = ctl[x]
      BY <1>t, <2>1, Zenon
    <2>3. \A x \in Sids, b \in Admins : x # s /\ x \in pend[b] => x \in pend'[b]
      BY <1>t, <2>1, Zenon
    <2> QED
      BY <2>1, <2>2, <2>3, Zenon DEF OverInv
  <1>7. ASSUME NEW a \in Admins, AdminCall(a) PROVE OverInv'
    BY <1>7, <1>a, Zenon DEF AdminCall, ReplaceUsers, CancelUserSessions, CancelAllSessions, CancelHandles,
           SetLimits, sessionMap, sessions, events
  <1>8. ASSUME NEW a \in Admins, AdminStep(a), ~ClearSessions(a), ~CancelControl(a) PROVE OverInv'
    BY <1>8, <1>a, Zenon DEF AdminStep, UpdateUser, AddUser, CancelRemoved, CancelNext, AnnounceCancelled,
           WriteCredentials, WriteLimits, PublishUsers, PublishIndex, FinishCancel, CancelReturns,
           sessionMap, sessions, events
  <1> QED
    BY <1>1, <1>2, <1>3, <1>4, <1>5, <1>6, <1>7, <1>8, Zenon DEF Next

----------------------------------------------------------------------------
(* The sessions a replace_users call must end *)

\* At the start no call is in progress.
LEMMA InitTarget == Init => TargetInv
  BY DEF Init, TargetInv, TargetOK

\* With one caller, its job and targets decide what has to hold.
LEMMA OneTarget ==
  ASSUME OneCaller, Typed, NEW a \in Admins, NEW pc, NEW J, NEW T \in SUBSET Sids, SetJob(a, pc, J),
         TargetInv, targeted' = [targeted EXCEPT ![a] = T], TargetOK(pc, J, T)'
  PROVE  TargetInv'
  <1>1. apc'[a] = pc /\ job'[a] = J /\ targeted'[a] = T /\ \A b \in Admins : b = a
    BY Zenon DEF Typed, TypeAdmin, SetJob, OneCaller, TargetInv
  <1>2. targeted' \in [Admins -> SUBSET Sids]
    BY Zenon DEF TargetInv
  <1>3. ASSUME NEW b \in Admins PROVE TargetOK(apc[b], job[b], targeted[b])'
    <2>1. b = a
      BY <1>1, Zenon
    <2> QED
      BY <1>1, <2>1 DEF TargetOK, Due
  <1> QED
    BY <1>2, <1>3, Zenon DEF TargetInv

\* Targets stay due when no session of theirs moves, what is due stays due
\* and the kind of call stays.
LEMMA TargetsKept ==
  ASSUME OneCaller, Typed, TargetInv, NEW a \in Admins, NEW pc, NEW J, SetJob(a, pc, J), targeted' = targeted,
         UNCHANGED <<ctl, slots>>, J.op # "replace" => job[a].op # "replace",
         \A h \in Handles : slots[h] # {} /\ Due(apc[a], job[a], h) => Due(pc, J, h)'
  PROVE  TargetInv'
  <1>T. PICK T \in SUBSET Sids : T = targeted[a]
    BY Zenon DEF TargetInv
  <1>1. targeted' = [targeted EXCEPT ![a] = T]
    BY <1>T, Zenon DEF TargetInv
  <1>2. TargetOK(apc[a], job[a], T)
    BY <1>T, Zenon DEF TargetInv
  <1>3. TargetOK(pc, J, T)'
    <2>1. J.op # "replace" => T = {}
      BY <1>2, Zenon DEF TargetOK
    <2>2. ASSUME NEW s \in T
          PROVE  ctl'[s] # "none" /\ \A h \in Handles : s \in slots'[h] => Due(pc, J, h)'
      <3>1. ctl[s] # "none" /\ \A h \in Handles : s \in slots[h] => Due(apc[a], job[a], h)
        BY <1>2, Zenon DEF TargetOK
      <3> QED
        BY <3>1, Zenon
    <2> QED
      BY <2>1, <2>2, Zenon DEF TargetOK
  <1> QED
    BY <1>1, <1>3, OneTarget, Zenon

\* A connection opens no session that was targeted, and its other steps take
\* sessions away.
LEMMA ConnectionTargets ==
  ASSUME Typed, SInv, TargetInv, NEW c \in Connections, ConnectionStep(c) PROVE TargetInv'
  <1>t. /\ slots \in [Handles -> SUBSET Sids] /\ ctl \in [Sids -> {"none", "active", "cancelled"}]
    BY Zenon DEF Typed, TypeSessions
  <1>1. UNCHANGED <<targeted, apc, job, creds>>
    BY Zenon DEF ConnectionStep, Authenticate, OpenSessionById, AuthenticateHash, AuthenticateHashed,
           ResolveUser, ReadLimits, OpenSession, RefuseSession, CloseSession, admin, userState
  <1>2. \A s \in Sids : ctl[s] # "none" =>
           ctl'[s] # "none" /\ \A h \in Handles : s \in slots'[h] => s \in slots[h]
    <2>1. CASE OpenSession(c)
      <3>s. PICK s \in Sids : s = sid[c]
        BY <2>1, Zenon DEF OpenSession, Typed, ConnsOK, ConnOK
      <3>h. PICK h \in Handles : h = handle[c]
        BY <2>1, Zenon DEF OpenSession, Typed, ConnsOK, ConnOK
      <3>1. /\ slots' = [slots EXCEPT ![h] = slots[h] \cup {s}] /\ ctl' = [ctl EXCEPT ![s] = "active"]
            /\ ctl[s] = "none"
        BY <2>1, <3>s, <3>h, Zenon DEF OpenSession, UpdateOnlineCounts, SInv, ConnInv
      <3> QED
        BY <1>t, <3>1, Zenon
    <2>2. CASE CloseSession(c)
      <3>h. PICK h \in Handles : h = handle[c]
        BY <2>2, Zenon DEF CloseSession, Typed, ConnsOK, ConnOK
      <3>1. slots' = [slots EXCEPT ![h] = slots[h] \ {sid[c]}] /\ ctl' = ctl
        BY <2>2, <3>h, Zenon DEF CloseSession, UpdateOnlineCounts
      <3> QED
        BY <1>t, <3>1, Zenon
    <2>3. CASE ~OpenSession(c) /\ ~CloseSession(c)
      <3>1. slots' = slots /\ ctl' = ctl
        BY <2>3, Zenon DEF ConnectionStep, Authenticate, OpenSessionById, AuthenticateHash, AuthenticateHashed,
               ResolveUser, ReadLimits, RefuseSession, sessionMap, sessions
      <3> QED
        BY <3>1, Zenon
    <2> QED
      BY <2>1, <2>2, <2>3, Zenon
  <1>3. ASSUME NEW a \in Admins PROVE TargetOK(apc[a], job[a], targeted[a])'
    <2>1. TargetOK(apc[a], job[a], targeted[a]) /\ targeted[a] \subseteq Sids
      BY Zenon DEF TargetInv
    <2>2. \A h \in Handles : Due(apc[a], job[a], h) => Due(apc[a], job[a], h)'
      BY <1>1, Zenon DEF Due
    <2> QED
      BY <1>1, <1>2, <2>1, <2>2, Zenon DEF TargetOK
  <1> QED
    BY <1>1, <1>3, Zenon DEF TargetInv

\* When a call begins, every session it must end is due; a call of another
\* kind has none.
LEMMA AdminCallTargets ==
  ASSUME OneCaller, Typed, SInv, ReplaceInv, TargetInv, NEW a \in Admins, AdminCall(a) PROVE TargetInv'
  <1>t. /\ users \in [UserIds -> Handles \cup {NoHandle}] /\ slots \in [Handles -> SUBSET Sids]
        /\ job[a] \in Jobs
    BY Zenon DEF Typed, TypeTable, TypeSessions, TypeAdmin
  <1>0. apc[a] = "idle" => targeted[a] = {} /\ targeted = [targeted EXCEPT ![a] = {}]
    BY Zenon DEF ReplaceInv, StepOK, TargetInv, TargetOK
  <1>1. ASSUME NEW list \in UserLists, ReplaceUsers(a, list) PROVE TargetInv'
    <2>q. PICK Q : Q = {users[u] : u \in UserIds \ IdsOf(list)} \ {NoHandle}
      BY Zenon
    <2>J. PICK J : J = [NoJob EXCEPT !.op = "replace", !.list = list, !.current = users,
                                     !.todo = IdsOf(list), !.queue = Q]
      BY Zenon
    <2>T. PICK T : T = MustEnd(list)
      BY Zenon
    <2>1. /\ J.op = "replace" /\ J.list = list /\ J.current = users /\ J.todo = IdsOf(list) /\ J.queue = Q
      BY <2>J, Zenon DEF NoJob
    <2>2. /\ SetJob(a, "update", J) /\ targeted' = [targeted EXCEPT ![a] = T]
          /\ UNCHANGED <<creds, slots, ctl>>
      BY <1>1, <2>q, <2>J, <2>T, Zenon DEF ReplaceUsers, userState, sessionMap, sessions
    <2>3. ASSUME NEW s \in T
          PROVE  s \in Sids /\ ctl[s] # "none" /\ \A h \in Handles : s \in slots[h] => Due("update", J, h)
      <3>1. PICK u \in UserIds : users[u] # NoHandle /\ creds[users[u]] # CredsOf(list, u) /\ s \in slots[users[u]]
        BY <2>T, Zenon DEF MustEnd
      <3>2. PICK g \in Handles : g = users[u]
        BY <1>t, <3>1, Zenon
      <3>3. s \in Sids /\ ctl[s] # "none"
        BY <1>t, <3>1, <3>2, Zenon DEF SInv, SlotInv, SlotOK
      <3>4. ASSUME NEW h \in Handles, s \in slots[h] PROVE Due("update", J, h)
        <4>1. h = g
          BY <3>1, <3>2, <3>4, SlotsDisjoint, Zenon
        <4>2. CASE u \in IdsOf(list)
          BY <2>1, <3>1, <3>2, <4>1, <4>2, Zenon DEF Due
        <4>3. CASE u \notin IdsOf(list)
          BY <2>q, <2>1, <3>1, <3>2, <4>1, <4>3, Zenon DEF Due
        <4> QED
          BY <4>2, <4>3, Zenon
      <3> QED
        BY <3>3, <3>4, Zenon
    <2>4. TargetOK("update", J, T)' /\ T \in SUBSET Sids
      BY <2>1, <2>2, <2>3, Zenon DEF TargetOK, Due
    <2> QED
      BY <2>2, <2>4, OneTarget, Zenon
  <1>2. ASSUME NEW pc, NEW J, SetJob(a, pc, J), apc[a] = "idle", targeted' = targeted PROVE TargetInv'
    <2>1. targeted' = [targeted EXCEPT ![a] = {}]
      BY <1>0, <1>2, Zenon
    <2>2. TargetOK(pc, J, {})'
      BY Zenon DEF TargetOK
    <2> QED
      BY <1>2, <2>1, <2>2, OneTarget, Zenon
  <1> QED
    BY <1>1, <1>2, Zenon DEF AdminCall, CancelUserSessions, CancelAllSessions, CancelHandles, SetLimits

\* A call in progress clears what is due before it publishes.
LEMMA AdminStepTargets ==
  ASSUME OneCaller, Typed, SInv, OwnersInv, ReplaceInv, TargetInv, NEW a \in Admins, AdminStep(a)
  PROVE  TargetInv'
  <1>t. /\ apc \in [Admins -> AdminPc] /\ job \in [Admins -> Jobs] /\ creds \in [Handles -> SUBSET Credentials]
        /\ slots \in [Handles -> SUBSET Sids] /\ ctl \in [Sids -> {"none", "active", "cancelled"}]
    BY Zenon DEF Typed, TypeAdmin, TypeTable, TypeSessions
  <1>j. PICK O \in Jobs : O = job[a]
    BY <1>t, Zenon
  <1>o. /\ JobOK(apc[a], O) /\ StepOK(apc[a], O) /\ (O.op = "replace" => BuildOK(apc[a], O))
        /\ TargetOK(apc[a], O, targeted[a]) /\ targeted[a] \in SUBSET Sids
    BY <1>j, Zenon DEF Typed, JobsOK, ReplaceInv, TargetInv
  <1>e. targeted[a] = {} => targeted = [targeted EXCEPT ![a] = {}]
    BY Zenon DEF TargetInv
  <1>n. ASSUME NEW pc, NEW J, SetJob(a, pc, J), targeted' = targeted, O.op # "replace" PROVE TargetInv'
    <2>1. targeted' = [targeted EXCEPT ![a] = {}]
      BY <1>e, <1>n, <1>o, Zenon DEF TargetOK
    <2>2. TargetOK(pc, J, {})'
      BY Zenon DEF TargetOK
    <2> QED
      BY <1>n, <2>1, <2>2, OneTarget, Zenon
  <1>k. ASSUME NEW pc, NEW J, SetJob(a, pc, J), targeted' = targeted, UNCHANGED <<ctl, slots>>, J.op = O.op,
               \A h \in Handles : slots[h] # {} /\ Due(apc[a], O, h) => Due(pc, J, h)'
        PROVE  TargetInv'
    BY <1>j, <1>k, TargetsKept, Zenon
  <1>1. ASSUME NEW u \in UserIds, UpdateUser(a, u) PROVE TargetInv'
    <2>J. PICK J : J = [O EXCEPT !.user = u, !.handle = O.current[u], !.limits = LimitsOf(O.list, u)]
      BY Zenon
    <2>1. /\ J.op = O.op /\ J.list = O.list /\ J.current = O.current /\ J.todo = O.todo
          /\ J.queue = O.queue
      BY <2>J, Zenon DEF Jobs
    <2>2. PICK pc : pc = IF creds[O.current[u]] = CredsOf(O.list, u) THEN "limits" ELSE "clear"
      BY Zenon
    <2>3. SetJob(a, pc, J) /\ UNCHANGED <<targeted, ctl, slots, creds>> /\ apc[a] = "update"
      BY <1>1, <1>j, <2>J, <2>2, Zenon DEF UpdateUser, userState, sessions, sessionMap
    <2>4. \A h \in Handles : Due(apc[a], O, h) => Due(pc, J, h)'
      BY <2>1, <2>2, <2>3 DEF Due
    <2> QED
      BY <1>k, <2>1, <2>3, <2>4, Zenon
  <1>2. ASSUME NEW u \in UserIds, NEW h \in Handles, AddUser(a, u, h) PROVE TargetInv'
    <2>J. PICK J : J = [O EXCEPT !.built = [O.built EXCEPT ![u] = h], !.todo = O.todo \ {u}]
      BY Zenon
    <2>1. /\ J.op = O.op /\ J.list = O.list /\ J.current = O.current /\ J.todo = O.todo \ {u}
          /\ J.queue = O.queue
      BY <2>J, Zenon DEF Jobs
    <2>2. /\ SetJob(a, "update", J) /\ UNCHANGED <<targeted, ctl, slots>> /\ apc[a] = "update"
          /\ creds' = [creds EXCEPT ![h] = CredsOf(O.list, u)] /\ O.current[u] = NoHandle /\ owner[h] = NoUser
      BY <1>2, <1>j, <2>J, Zenon DEF AddUser, sessions, sessionMap
    <2>3. slots[h] = {}
      BY <2>2, UnallocatedEmpty, Zenon
    <2>4. ASSUME NEW g \in Handles, slots[g] # {}, Due(apc[a], O, g) PROVE Due("update", J, g)'
      <3>1. g # h /\ creds'[g] = creds[g] /\ g # NoHandle
        BY <1>t, <2>2, <2>3, <2>4, NonesAssumption, Zenon
      <3> QED
        BY <2>1, <2>2, <2>4, <3>1, Zenon DEF Due
    <2> QED
      BY <1>k, <2>1, <2>2, <2>4, Zenon
  <1>3. ASSUME WriteCredentials(a) PROVE TargetInv'
    <2>0. apc[a] = "credentials" /\ O.op = "replace" /\ BuildOK("credentials", O) /\ O.handle \in Handles
      BY <1>3, <1>o, Zenon DEF WriteCredentials, StepOK, JobOK
    <2>1. PICK h \in Handles : h = O.handle
      BY <2>0, Zenon
    <2>2. PICK u \in UserIds : u = O.user /\ u \in O.todo /\ h = O.current[u]
      BY <2>0, <2>1, Zenon DEF BuildOK, Jobs
    <2>3. /\ creds' = [creds EXCEPT ![h] = CredsOf(O.list, u)] /\ UNCHANGED <<targeted, ctl, slots>>
          /\ SetJob(a, "limits", O)
      BY <1>3, <1>j, <1>t, <2>1, <2>2, Zenon DEF WriteCredentials, sessions, sessionMap, SetJob
    <2>4. \A v \in UserIds : v # u /\ O.current[v] # NoHandle => O.current[v] # h
      BY <2>0, <2>2, NonesAssumption DEF BuildOK
    <2>5. ASSUME NEW g \in Handles, Due(apc[a], O, g) PROVE Due("limits", O, g)'
      <3>1. CASE g \in O.queue
        BY <3>1, Zenon DEF Due
      <3>2. CASE g \notin O.queue
        <4>1. PICK v \in O.todo : O.current[v] = g /\ creds[g] # CredsOf(O.list, v) /\ v # u
          BY <2>0, <2>2, <2>5, <3>2, Zenon DEF Due
        <4>2. g # h
          BY <2>4, <4>1, NonesAssumption, Zenon DEF Jobs
        <4>3. creds'[g] = creds[g]
          BY <1>t, <2>3, <4>2, Zenon
        <4> QED
          BY <4>1, <4>3, Zenon DEF Due
      <3> QED
        BY <3>1, <3>2, Zenon
    <2> QED
      BY <1>k, <2>3, <2>5, Zenon
  <1>4. ASSUME WriteLimits(a) PROVE TargetInv'
    <2>u. UNCHANGED <<targeted, creds, ctl, slots>> /\ apc[a] = "limits"
      BY <1>4, Zenon DEF WriteLimits, sessions, sessionMap
    <2>1. CASE O.op = "replace"
      <3>0. BuildOK("limits", O) /\ O.handle \in Handles
        BY <1>o, <2>1, <2>u, Zenon DEF JobOK
      <3>1. PICK u \in UserIds : u = O.user /\ u \in O.todo /\ O.handle = O.current[u]
        BY <3>0, Zenon DEF BuildOK, Jobs
      <3>J. PICK J : J = [O EXCEPT !.built = [O.built EXCEPT ![u] = O.handle],
                                   !.todo = O.todo \ {u}, !.user = NoUser, !.handle = NoHandle]
        BY Zenon
      <3>2. /\ J.op = O.op /\ J.list = O.list /\ J.current = O.current
            /\ J.todo = O.todo \ {u} /\ J.queue = O.queue
        BY <3>J, Zenon DEF Jobs
      <3>3. SetJob(a, "update", J)
        BY <1>4, <1>j, <2>1, <3>1, <3>J, Zenon DEF WriteLimits
      <3>4. creds[O.current[u]] = CredsOf(O.list, u)
        BY <3>0, <3>1, Zenon DEF BuildOK
      <3>5. \A g \in Handles : Due(apc[a], O, g) => Due("update", J, g)'
        BY <2>u, <3>2, <3>4, Zenon DEF Due
      <3> QED
        BY <1>k, <2>u, <3>2, <3>3, <3>5, Zenon
    <2>2. CASE O.op # "replace"
      BY <1>4, <1>j, <1>n, <2>2, <2>u, Zenon DEF WriteLimits
    <2> QED
      BY <2>1, <2>2, Zenon
  <1>5. ASSUME NEW h \in Handles, CancelRemoved(a, h) \/ CancelNext(a, h) PROVE TargetInv'
    <2>J. PICK J : J = [O EXCEPT !.handle = h, !.queue = O.queue \ {h}]
      BY Zenon
    <2>1. /\ J.op = O.op /\ J.list = O.list /\ J.current = O.current /\ J.todo = O.todo
          /\ J.handle = h /\ J.queue = O.queue \ {h}
      BY <2>J, Zenon DEF Jobs
    <2>2. /\ SetJob(a, "clear", J) /\ UNCHANGED <<targeted, creds, ctl, slots>>
          /\ apc[a] \in {"update", "cancel"}
      BY <1>5, <1>j, <2>J, Zenon DEF CancelRemoved, CancelNext, userState, sessions, sessionMap
    <2>3. \A g \in Handles : Due(apc[a], O, g) => Due("clear", J, g)'
      BY <2>1, <2>2, Zenon DEF Due
    <2> QED
      BY <1>k, <2>1, <2>2, <2>3, Zenon
  <1>6. ASSUME PublishUsers(a) PROVE TargetInv'
    <2>1. /\ SetJob(a, "index", O) /\ UNCHANGED <<targeted, creds, ctl, slots>>
          /\ apc[a] = "update"
      BY <1>6, <1>j, <1>t, Zenon DEF PublishUsers, userState, sessions, sessionMap, SetJob
    <2>2. \A g \in Handles : Due(apc[a], O, g) => Due("index", O, g)'
      BY <2>1, Zenon DEF Due
    <2> QED
      BY <1>k, <2>1, <2>2, Zenon
  <1>7. ASSUME PublishIndex(a) PROVE TargetInv'
    <2>J. PICK J : J = NoJob
      BY Zenon
    <2>T. PICK T \in SUBSET Sids : T = {}
      BY Zenon
    <2>1. TargetOK("idle", J, T)'
      BY <2>T, Zenon DEF TargetOK
    <2>2. SetJob(a, "idle", J) /\ targeted' = [targeted EXCEPT ![a] = T]
      BY <1>7, <2>J, <2>T, Zenon DEF PublishIndex
    <2> QED
      BY <2>1, <2>2, OneTarget, Zenon
  <1>8. ASSUME ClearSessions(a) PROVE TargetInv'
    <2>h. PICK h \in Handles : h = O.handle
      BY <1>8, <1>o, Zenon DEF ClearSessions, JobOK
    <2>1. /\ apc[a] = "clear" /\ SetJob(a, "signal", O) /\ UNCHANGED <<targeted, creds, ctl>>
          /\ slots' = [slots EXCEPT ![h] = {}]
      BY <1>8, <1>j, <1>t, <2>h, Zenon DEF ClearSessions, userState, sessions, SetJob
    <2>2. CASE O.op = "replace"
      <3>T. PICK T \in SUBSET Sids : T = targeted[a]
        BY <1>o, Zenon
      <3>1. targeted' = [targeted EXCEPT ![a] = T]
        BY <2>1, <3>T, Zenon DEF TargetInv
      <3>2. slots'[h] = {} /\ \A g \in Handles : g # h => slots'[g] = slots[g]
        BY <1>t, <2>1, Zenon
      <3>3. \A u \in O.todo : O.current[u] # h => u # O.user
        BY <1>o, <2>1, <2>2, <2>h, NonesAssumption DEF BuildOK, Jobs
      <3>4. ASSUME NEW g \in Handles, g # h, Due("clear", O, g) PROVE Due("signal", O, g)'
        BY <2>1, <2>h, <3>3, <3>4, Zenon DEF Due
      <3>5. TargetOK("clear", O, T)
        BY <1>o, <2>1, <3>T, Zenon
      <3>6. TargetOK("signal", O, T)'
        BY <2>1, <2>2, <3>2, <3>4, <3>5, Zenon DEF TargetOK
      <3> QED
        BY <2>1, <3>1, <3>6, OneTarget, Zenon
    <2>3. CASE O.op # "replace"
      BY <1>n, <2>1, <2>3, Zenon
    <2> QED
      BY <2>2, <2>3, Zenon
  <1>9. ASSUME FinishCancel(a) PROVE TargetInv'
    <2>1. PICK pc : pc = IF O.op = "cancel" THEN "cancel" ELSE IF O.user = NoUser THEN "update" ELSE "credentials"
      BY Zenon
    <2>2. apc[a] = "signal" /\ SetJob(a, pc, O) /\ UNCHANGED <<targeted, creds, ctl, slots>>
      BY <1>9, <1>j, <1>t, <2>1, Zenon DEF FinishCancel, userState, sessions, sessionMap, SetJob
    <2>3. \A g \in Handles : Due(apc[a], O, g) => Due(pc, O, g)'
      BY <2>1, <2>2, Zenon DEF Due
    <2> QED
      BY <1>k, <2>2, <2>3, Zenon
  <1>10. ASSUME CancelReturns(a) PROVE TargetInv'
    <2>1. SetJob(a, "idle", NoJob) /\ targeted' = targeted /\ O.op # "replace"
      BY <1>10, <1>o, Zenon DEF CancelReturns, StepOK
    <2> QED
      BY <1>n, <2>1, Zenon
  <1>11. ASSUME NEW s, AnnounceCancelled(a, s) \/ CancelControl(a) PROVE TargetInv'
    <2>1. UNCHANGED <<targeted, creds, slots, apc, job>>
      BY <1>11, Zenon DEF AnnounceCancelled, CancelControl, userState, sessionMap
    <2>2. \A x \in Sids : ctl[x] # "none" => ctl'[x] # "none"
      BY <1>11, <1>t, Zenon DEF AnnounceCancelled, CancelControl
    <2>3. \A b \in Admins, h \in Handles : Due(apc[b], job[b], h) => Due(apc[b], job[b], h)'
      BY <2>1, Zenon DEF Due
    <2> QED
      BY <2>1, <2>2, <2>3, Zenon DEF TargetInv, TargetOK
  <1> QED
    BY <1>1, <1>2, <1>3, <1>4, <1>5, <1>6, <1>7, <1>8, <1>9, <1>10, <1>11, Zenon DEF AdminStep

\* Every step preserves the invariant.
LEMMA NextTarget ==
  OneCaller /\ Typed /\ SInv /\ OwnersInv /\ ReplaceInv /\ TargetInv /\ [Next]_vars => TargetInv'
  <1> SUFFICES ASSUME OneCaller, Typed, SInv, OwnersInv, ReplaceInv, TargetInv, [Next]_vars PROVE TargetInv'
    BY Zenon
  <1>1. CASE UNCHANGED vars
    <2>1. UNCHANGED <<targeted, creds, slots, apc, job, ctl>>
      BY <1>1, Zenon DEF vars, userState, sessionMap, sessions, admin
    <2>2. \A b \in Admins, h \in Handles : Due(apc[b], job[b], h) => Due(apc[b], job[b], h)'
      BY <2>1, Zenon DEF Due
    <2> QED
      BY <2>1, <2>2, Zenon DEF TargetInv, TargetOK
  <1> QED
    BY <1>1, ConnectionTargets, AdminCallTargets, AdminStepTargets, Zenon DEF Next
=============================================================================
