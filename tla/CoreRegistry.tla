---------------------------- MODULE CoreRegistry ----------------------------
(***************************************************************************)
(* The user and session registry of ProxyCore (src/core.rs): the table of  *)
(* users, the credential index, the per-user session map, and the code     *)
(* that authenticates connections, opens and closes their sessions,        *)
(* replaces the users and cancels sessions.                                *)
(*                                                                         *)
(* One action is one critical section: the code between taking and         *)
(* releasing one lock, or one atomic operation.  What the code carries     *)
(* from one lock to the next (a user id, an Arc<UserState>, a copy of the  *)
(* limits, the collected session slots) is in the local state of the       *)
(* connection or administrator that carries it.                            *)
(***************************************************************************)
EXTENDS Naturals, FiniteSets

CONSTANTS
    UserIds, Credentials, Ips,
    Sources,      \* peer addresses as the listener reports them
    NormalizeIp,  \* normalize_ip: the address a source is counted as
    Trim,         \* str::trim, applied to a presented credential
    Handles,      \* identities of UserState allocations (Arc<UserState>)
    Connections,  \* tasks that authenticate and hold a session
    Admins,       \* tasks that call replace_users, cancel_*, set_limits
    UserLists,    \* the Vec<CoreUser> arguments replace_users is called with
    LimitValues,  \* the limits records set_limits is called with
    MaxSeq,       \* bound on session_seq
    MaxOps,       \* bound on the administrative calls of a behaviour
    NoUser, NoHandle, NoCredential, NoIp, Blank

ASSUME NonesAssumption ==
    /\ NoUser \notin UserIds /\ Blank \notin UserIds
    /\ NoHandle \notin Handles
    /\ NoCredential \notin Credentials /\ Blank \notin Credentials
    /\ NoIp \notin Ips
ASSUME BoundsAssumption == MaxSeq \in Nat /\ MaxOps \in Nat
ASSUME ConversionsAssumption ==
    /\ NormalizeIp \in [Sources -> Ips]
    /\ Trim \in [Credentials -> Credentials]

Sids == 1..MaxSeq
NoSid == 0

\* CoreUserLimits, as far as sessions are concerned; 0 is "no limit"
\* (None and Some(0) are treated alike by the filter in open_session).
Limits == [sessions : Nat, ips : Nat]
NoLimits == [sessions |-> 0, ips |-> 0]

\* CoreUser
ListEntries == [id : UserIds \cup {Blank}, cred : Credentials \cup {Blank}, limits : Limits]
ASSUME ListsAssumption == UserLists \subseteq SUBSET ListEntries
ASSUME LimitsAssumption == LimitValues \subseteq Limits

VARIABLES
    users,       \* CoreInner.users
    index,       \* CoreInner.credentials (users; password_hashes has the same keys)
    owner,       \* UserState.id; NoUser while the handle is not allocated
    creds,       \* UserState.credentials
    limits,      \* UserState.limits
    slots,       \* UserState.sessions: the session ids registered
    online,      \* UserState.online
    onlineIps,   \* UserState.online_ips
    ipOf,        \* SessionSlot.source_ip
    seq,         \* CoreInner.session_seq
    ctl,         \* SessionControl: "none" before it exists
    opened, closed, cancelled,   \* how many SessionOpened, SessionClosed and
                 \* SessionCancelled events were sent for each session
    cpc, req, handle, sid,       \* connections
    apc, job, pend, announced,   \* administrators
    ops,         \* administrative calls left
    peak,        \* history: the largest limits each UserState ever had
    targeted     \* history: the sessions a replace_users call must end

core == <<users, index>>
userState == <<owner, creds, limits, peak>>
sessionMap == <<slots, online, onlineIps, ipOf>>
events == <<opened, closed, cancelled>>
sessions == <<ctl, events>>
conn == <<cpc, req, handle, sid>>
admin == <<apc, job, pend, announced>>
vars == <<core, userState, sessionMap, sessions, seq, conn, admin, ops, targeted>>

----------------------------------------------------------------------------
(* Helpers *)

CredsOf(list, u)  == {e.cred : e \in {f \in list : f.id = u}}
LimitsOf(list, u) == (CHOOSE e \in list : e.id = u).limits
IdsOf(list)       == {e.id : e \in list}
Table             == {users[u] : u \in UserIds} \ {NoHandle}

\* A validation that does not look for a credential given to two users.
ValidSkippingDuplicates(list) ==
    /\ \A e \in list : e.id # Blank /\ e.cred # Blank
    /\ \A e, f \in list : e.id = f.id => e.limits = f.limits

\* A validation that lets an empty credential through.
ValidAllowingBlank(list) ==
    /\ \A e \in list : e.id # Blank
    /\ \A e, f \in list : e.cred = f.cred => e = f
    /\ \A e, f \in list : e.id = f.id => e.limits = f.limits

\* The checks replace_users makes before it touches anything.  (A list is a
\* set here: an entry given twice, which is rejected as well, has no model.)
Valid(list) ==
    /\ \A e \in list : e.id # Blank /\ e.cred # Blank
    /\ \A e, f \in list : e.cred = f.cred => e = f
    /\ \A e, f \in list : e.id = f.id => e.limits = f.limits

Addresses(S, ip) == {ip[s] : s \in S} \ {NoIp}

\* UserState::update_online_counts, for a session map with the slots S.
UpdateOnlineCounts(h, S, ip) ==
    /\ slots' = [slots EXCEPT ![h] = S]
    /\ online' = [online EXCEPT ![h] = Cardinality(S)]
    /\ onlineIps' = [onlineIps EXCEPT ![h] = Cardinality(Addresses(S, ip))]

Larger(x, y) == IF x = 0 \/ y = 0 THEN 0 ELSE IF x < y THEN y ELSE x
Raise(p, l) == [sessions |-> Larger(p.sessions, l.sessions),
                ips      |-> Larger(p.ips, l.ips)]

NoRequest == [cred |-> NoCredential, user |-> NoUser, ip |-> NoIp, limits |-> NoLimits]

NoJob == [op |-> "none", list |-> {}, current |-> [u \in UserIds |-> NoHandle],
          built |-> [u \in UserIds |-> NoHandle], todo |-> {}, queue |-> {},
          user |-> NoUser, handle |-> NoHandle, limits |-> NoLimits]

----------------------------------------------------------------------------
\* ProxyCore::empty
Init ==
    /\ users = [u \in UserIds |-> NoHandle]
    /\ index = [k \in Credentials |-> NoUser]
    /\ owner = [h \in Handles |-> NoUser]
    /\ creds = [h \in Handles |-> {}]
    /\ limits = [h \in Handles |-> NoLimits]
    /\ peak = [h \in Handles |-> NoLimits]
    /\ slots = [h \in Handles |-> {}]
    /\ online = [h \in Handles |-> 0]
    /\ onlineIps = [h \in Handles |-> 0]
    /\ ipOf = [s \in Sids |-> NoIp]
    /\ seq = 0
    /\ ctl = [s \in Sids |-> "none"]
    /\ opened = [s \in Sids |-> 0]
    /\ closed = [s \in Sids |-> 0]
    /\ cancelled = [s \in Sids |-> 0]
    /\ cpc = [c \in Connections |-> "idle"]
    /\ req = [c \in Connections |-> NoRequest]
    /\ handle = [c \in Connections |-> NoHandle]
    /\ sid = [c \in Connections |-> NoSid]
    /\ apc = [a \in Admins |-> "idle"]
    /\ job = [a \in Admins |-> NoJob]
    /\ pend = [a \in Admins |-> {}]
    /\ announced = [a \in Admins |-> NoSid]
    /\ ops = MaxOps
    /\ targeted = [a \in Admins |-> {}]

----------------------------------------------------------------------------
(* A connection: authenticate, open a session, hold it, drop it.            *)

\* The connection c goes to pc with the request r, a handle and a session id.
GoTo(c, pc, r, h, s) ==
    /\ cpc' = [cpc EXCEPT ![c] = pc]
    /\ req' = [req EXCEPT ![c] = r]
    /\ handle' = [handle EXCEPT ![c] = h]
    /\ sid' = [sid EXCEPT ![c] = s]

\* The connection is done, or was refused.
GoIdle(c) == GoTo(c, "idle", NoRequest, NoHandle, NoSid)

\* The address of a peer as open_session counts it; callers may pass none.
SourceIps == {NormalizeIp[x] : x \in Sources}
PeerIps == {NoIp} \cup SourceIps

\* authenticate / authenticate_from: look the trimmed credential up.
Authenticate(c, k, ip) ==
    /\ cpc[c] = "idle"
    /\ index[Trim[k]] # NoUser
    /\ GoTo(c, "identified", [cred |-> Trim[k], user |-> index[Trim[k]],
                              ip |-> ip, limits |-> NoLimits], NoHandle, NoSid)
    /\ UNCHANGED <<core, userState, sessionMap, sessions, seq, admin, ops, targeted>>

\* authenticate_password_hash_from, first lock: the hash names a credential.
AuthenticateHash(c, k, ip) ==
    /\ cpc[c] = "idle"
    /\ index[k] # NoUser
    /\ GoTo(c, "hashed", [cred |-> k, user |-> NoUser,
                          ip |-> ip, limits |-> NoLimits], NoHandle, NoSid)
    /\ UNCHANGED <<core, userState, sessionMap, sessions, seq, admin, ops, targeted>>

\* ... second lock: authenticate_from with that credential, which the index
\* may no longer hold.
AuthenticateHashed(c) ==
    LET k == Trim[req[c].cred] IN
    /\ cpc[c] = "hashed"
    /\ IF index[k] # NoUser
       THEN GoTo(c, "identified", [cred |-> k, user |-> index[k],
                                   ip |-> req[c].ip, limits |-> NoLimits], NoHandle, NoSid)
       ELSE GoIdle(c)
    /\ UNCHANGED <<core, userState, sessionMap, sessions, seq, admin, ops, targeted>>

\* open_session / open_session_from: the caller names the user itself.
OpenSessionById(c, u, ip) ==
    /\ cpc[c] = "idle"
    /\ GoTo(c, "identified", [cred |-> NoCredential, user |-> u,
                              ip |-> ip, limits |-> NoLimits], NoHandle, NoSid)
    /\ UNCHANGED <<core, userState, sessionMap, sessions, seq, admin, ops, targeted>>

\* open_session_with_source: clone the user's Arc under the users lock, then
\* draw a session id.
ResolveUser(c) ==
    LET h == users[req[c].user] IN
    /\ cpc[c] = "identified"
    /\ IF h = NoHandle
       THEN GoIdle(c) /\ UNCHANGED seq
       ELSE /\ seq < MaxSeq
            /\ seq' = seq + 1
            /\ GoTo(c, "resolved", req[c], h, seq + 1)
    /\ UNCHANGED <<core, userState, sessionMap, sessions, admin, ops, targeted>>

\* UserState::open_session: the limits are copied out before the sessions
\* lock is taken.
ReadLimits(c) ==
    /\ cpc[c] = "resolved"
    /\ GoTo(c, "opening", [req[c] EXCEPT !.limits = limits[handle[c]]], handle[c], sid[c])
    /\ UNCHANGED <<core, userState, sessionMap, sessions, seq, admin, ops, targeted>>

\* An admission check that lets one session too many in.
AdmitsOneMore(c) ==
    LET h == handle[c]  l == req[c].limits  ip == req[c].ip IN
    /\ l.sessions > 0 => Cardinality(slots[h]) <= l.sessions
    /\ l.ips > 0 /\ ip # NoIp /\ ip \notin Addresses(slots[h], ipOf)
          => Cardinality(Addresses(slots[h], ipOf)) + 1 <= l.ips

\* The two ensure! checks under the sessions lock.
Admits(c) ==
    LET h == handle[c]  l == req[c].limits  ip == req[c].ip IN
    /\ l.sessions > 0 => Cardinality(slots[h]) < l.sessions
    /\ l.ips > 0 /\ ip # NoIp /\ ip \notin Addresses(slots[h], ipOf)
          => Cardinality(Addresses(slots[h], ipOf)) + 1 <= l.ips

\* UserState::open_session under the sessions lock: register, count, send
\* SessionOpened, and return the session to the connection.
OpenSession(c) ==
    LET h == handle[c]
        s == sid[c]
        ip == [ipOf EXCEPT ![s] = req[c].ip]
    IN  /\ cpc[c] = "opening"
        /\ Admits(c)
        /\ ipOf' = ip
        /\ UpdateOnlineCounts(h, slots[h] \cup {s}, ip)
        /\ ctl' = [ctl EXCEPT ![s] = "active"]
        /\ opened' = [opened EXCEPT ![s] = @ + 1]
        /\ GoTo(c, "holding", req[c], h, s)
        /\ UNCHANGED <<core, userState, closed, cancelled, seq, admin, ops, targeted>>

\* ... or refuse it: the session id is spent, nothing else happened.
RefuseSession(c) ==
    /\ cpc[c] = "opening"
    /\ ~Admits(c)
    /\ GoIdle(c)
    /\ UNCHANGED <<core, userState, sessionMap, sessions, seq, admin, ops, targeted>>

\* close_session that reports the end of a session it did not find.
CloseSessionUnchecked(c) ==
    LET h == handle[c]  s == sid[c] IN
    /\ cpc[c] = "holding"
    /\ UpdateOnlineCounts(h, slots[h] \ {s}, ipOf)
    /\ closed' = [closed EXCEPT ![s] = @ + 1]
    /\ GoIdle(c)
    /\ UNCHANGED <<core, userState, ipOf, ctl, opened, cancelled, seq, admin, ops, targeted>>

\* The last clone of the CoreSession is dropped: UserState::close_session.
CloseSession(c) ==
    LET h == handle[c]  s == sid[c] IN
    /\ cpc[c] = "holding"
    /\ UpdateOnlineCounts(h, slots[h] \ {s}, ipOf)
    /\ closed' = [closed EXCEPT ![s] = IF s \in slots[h] THEN @ + 1 ELSE @]
    /\ GoIdle(c)
    /\ UNCHANGED <<core, userState, ipOf, ctl, opened, cancelled, seq, admin, ops, targeted>>

----------------------------------------------------------------------------
(* replace_users *)

\* The administrator a goes to pc with the job J.
SetJob(a, pc, J) ==
    /\ apc' = [apc EXCEPT ![a] = pc]
    /\ job' = [job EXCEPT ![a] = J]

\* The sessions registered with users the list drops or gives other
\* credentials to.
MustEnd(list) ==
    UNION {slots[users[u]] : u \in {v \in UserIds : /\ users[v] # NoHandle
                                                  /\ creds[users[v]] # CredsOf(list, v)}}

\* Validate the list (nothing happens if it is rejected) and clone the table.
ReplaceUsers(a, list) ==
    /\ apc[a] = "idle" /\ ops > 0
    /\ Valid(list)
    /\ ops' = ops - 1
    /\ SetJob(a, "update", [NoJob EXCEPT
                  !.op = "replace", !.list = list, !.current = users,
                  !.todo = IdsOf(list),
                  !.queue = {users[u] : u \in UserIds \ IdsOf(list)} \ {NoHandle}])
    /\ targeted' = [targeted EXCEPT ![a] = MustEnd(list)]
    /\ UNCHANGED <<core, userState, sessionMap, sessions, seq, conn, pend, announced>>

\* A user the cloned table does not have: UserState::new.
AddUser(a, u, h) ==
    /\ apc[a] = "update" /\ u \in job[a].todo
    /\ job[a].current[u] = NoHandle
    /\ owner[h] = NoUser
    /\ owner' = [owner EXCEPT ![h] = u]
    /\ creds' = [creds EXCEPT ![h] = CredsOf(job[a].list, u)]
    /\ limits' = [limits EXCEPT ![h] = LimitsOf(job[a].list, u)]
    /\ peak' = [peak EXCEPT ![h] = LimitsOf(job[a].list, u)]
    /\ SetJob(a, "update", [job[a] EXCEPT !.built = [@ EXCEPT ![u] = h],
                                          !.todo = @ \ {u}])
    /\ UNCHANGED <<core, sessionMap, sessions, seq, conn, pend, announced, ops, targeted>>

\* apply_user_update that never cancels.
UpdateUserKeepingSessions(a, u) ==
    LET h == job[a].current[u] IN
    /\ apc[a] = "update" /\ u \in job[a].todo
    /\ h # NoHandle
    /\ SetJob(a, IF creds[h] = CredsOf(job[a].list, u) THEN "limits" ELSE "credentials",
              [job[a] EXCEPT !.user = u, !.handle = h, !.limits = LimitsOf(job[a].list, u)])
    /\ UNCHANGED <<core, userState, sessionMap, sessions, seq, conn, pend, announced, ops, targeted>>

\* apply_user_update: compare the credentials; if they differ, the sessions
\* are cancelled before the new credentials are written.
UpdateUser(a, u) ==
    LET h == job[a].current[u] IN
    /\ apc[a] = "update" /\ u \in job[a].todo
    /\ h # NoHandle
    /\ SetJob(a, IF creds[h] = CredsOf(job[a].list, u) THEN "limits" ELSE "clear",
              [job[a] EXCEPT !.user = u, !.handle = h, !.limits = LimitsOf(job[a].list, u)])
    /\ UNCHANGED <<core, userState, sessionMap, sessions, seq, conn, pend, announced, ops, targeted>>

WriteCredentials(a) ==
    /\ apc[a] = "credentials"
    /\ creds' = [creds EXCEPT ![job[a].handle] = CredsOf(job[a].list, job[a].user)]
    /\ apc' = [apc EXCEPT ![a] = "limits"]
    /\ UNCHANGED <<core, owner, limits, peak, sessionMap, sessions, seq, conn,
                   job, pend, announced, ops, targeted>>

\* Shared by apply_user_update and set_limits; the rate limiters the same
\* code updates are in RateLimiter.
WriteLimits(a) ==
    LET h == job[a].handle IN
    /\ apc[a] = "limits"
    /\ limits' = [limits EXCEPT ![h] = job[a].limits]
    /\ peak' = [peak EXCEPT ![h] = Raise(@, job[a].limits)]
    /\ IF job[a].op = "replace"
       THEN SetJob(a, "update", [job[a] EXCEPT !.built = [@ EXCEPT ![job[a].user] = h],
                                               !.todo = @ \ {job[a].user},
                                               !.user = NoUser, !.handle = NoHandle])
       ELSE SetJob(a, "idle", NoJob)
    /\ UNCHANGED <<core, owner, creds, sessionMap, sessions, seq, conn, pend, announced, ops, targeted>>

\* The second loop of replace_users: a user that is gone loses its sessions.
CancelRemoved(a, h) ==
    /\ apc[a] = "update" /\ job[a].todo = {} /\ h \in job[a].queue
    /\ SetJob(a, "clear", [job[a] EXCEPT !.handle = h, !.queue = @ \ {h}])
    /\ UNCHANGED <<core, userState, sessionMap, sessions, seq, conn, pend, announced, ops, targeted>>

PublishUsers(a) ==
    /\ apc[a] = "update" /\ job[a].todo = {} /\ job[a].queue = {}
    /\ users' = job[a].built
    /\ apc' = [apc EXCEPT ![a] = "index"]
    /\ UNCHANGED <<index, userState, sessionMap, sessions, seq, conn, job, pend, announced, ops, targeted>>

\* An index update that adds the new credentials and leaves the old ones in.
PublishIndexMerging(a) ==
    /\ apc[a] = "index"
    /\ index' = [k \in Credentials |->
                    IF \E e \in job[a].list : e.cred = k
                    THEN (CHOOSE e \in job[a].list : e.cred = k).id ELSE index[k]]
    /\ SetJob(a, "idle", NoJob)
    /\ targeted' = [targeted EXCEPT ![a] = {}]
    /\ UNCHANGED <<users, userState, sessionMap, sessions, seq, conn, pend, announced, ops>>

\* The new CredentialIndex replaces the old one; replace_users returns.
PublishIndex(a) ==
    /\ apc[a] = "index"
    /\ index' = [k \in Credentials |->
                    IF \E e \in job[a].list : e.cred = k
                    THEN (CHOOSE e \in job[a].list : e.cred = k).id ELSE NoUser]
    /\ SetJob(a, "idle", NoJob)
    /\ targeted' = [targeted EXCEPT ![a] = {}]
    /\ UNCHANGED <<users, userState, sessionMap, sessions, seq, conn, pend, announced, ops>>

----------------------------------------------------------------------------
(* cancel_sessions, cancel_user_sessions, cancel_all_sessions, set_limits    *)

\* A cancel_sessions that reads the map and does not empty it.
CollectSessionsOnly(a) ==
    LET h == job[a].handle IN
    /\ apc[a] = "clear"
    /\ pend' = [pend EXCEPT ![a] = slots[h]]
    /\ apc' = [apc EXCEPT ![a] = "signal"]
    /\ UNCHANGED <<core, userState, sessionMap, sessions, seq, conn, job, announced, ops, targeted>>

\* A cancel_sessions that empties the map before it collects the slots.
ClearBeforeCollecting(a) ==
    LET h == job[a].handle IN
    /\ apc[a] = "clear"
    /\ pend' = [pend EXCEPT ![a] = {}]
    /\ slots' = [slots EXCEPT ![h] = {}]
    /\ online' = [online EXCEPT ![h] = 0]
    /\ onlineIps' = [onlineIps EXCEPT ![h] = 0]
    /\ apc' = [apc EXCEPT ![a] = "signal"]
    /\ UNCHANGED <<core, userState, ipOf, sessions, seq, conn, job, announced, ops, targeted>>

\* A cancel_sessions that forgets to reset the counters.
ClearKeepingCounts(a) ==
    LET h == job[a].handle IN
    /\ apc[a] = "clear"
    /\ pend' = [pend EXCEPT ![a] = slots[h]]
    /\ slots' = [slots EXCEPT ![h] = {}]
    /\ apc' = [apc EXCEPT ![a] = "signal"]
    /\ UNCHANGED <<core, userState, online, onlineIps, ipOf, sessions, seq, conn, job,
                   announced, ops, targeted>>

\* cancel_sessions, under the sessions lock: collect the slots, empty the
\* map, store zero in both counters.
ClearSessions(a) ==
    LET h == job[a].handle IN
    /\ apc[a] = "clear"
    /\ pend' = [pend EXCEPT ![a] = slots[h]]
    /\ slots' = [slots EXCEPT ![h] = {}]
    /\ online' = [online EXCEPT ![h] = 0]
    /\ onlineIps' = [onlineIps EXCEPT ![h] = 0]
    /\ apc' = [apc EXCEPT ![a] = "signal"]
    /\ UNCHANGED <<core, userState, ipOf, sessions, seq, conn, job, announced, ops, targeted>>

\* ... and after the lock is released, session by session: send
\* SessionCancelled,
AnnounceCancelled(a, s) ==
    /\ apc[a] = "signal" /\ announced[a] = NoSid
    /\ s \in pend[a]
    /\ cancelled' = [cancelled EXCEPT ![s] = @ + 1]
    /\ announced' = [announced EXCEPT ![a] = s]
    /\ UNCHANGED <<core, userState, sessionMap, ctl, opened, closed, seq, conn, apc, job, pend,
                   ops, targeted>>

\* A cancel_sessions that waits for the connection to drop the session first.
CancelControlWhenDropped(a) ==
    /\ apc[a] = "signal" /\ announced[a] # NoSid
    /\ \A c \in Connections : ~(cpc[c] = "holding" /\ sid[c] = announced[a])
    /\ ctl' = [ctl EXCEPT ![announced[a]] = "cancelled"]
    /\ pend' = [pend EXCEPT ![a] = @ \ {announced[a]}]
    /\ announced' = [announced EXCEPT ![a] = NoSid]
    /\ UNCHANGED <<core, userState, sessionMap, events, seq, conn, apc, job, ops, targeted>>

\* ... then slot.control.cancel().
CancelControl(a) ==
    /\ apc[a] = "signal" /\ announced[a] # NoSid
    /\ ctl' = [ctl EXCEPT ![announced[a]] = "cancelled"]
    /\ pend' = [pend EXCEPT ![a] = @ \ {announced[a]}]
    /\ announced' = [announced EXCEPT ![a] = NoSid]
    /\ UNCHANGED <<core, userState, sessionMap, events, seq, conn, apc, job, ops, targeted>>

\* cancel_sessions returns to its caller.
FinishCancel(a) ==
    /\ apc[a] = "signal" /\ pend[a] = {}
    /\ apc' = [apc EXCEPT ![a] = IF job[a].op = "cancel" THEN "cancel"
                                 ELSE IF job[a].user = NoUser THEN "update"
                                 ELSE "credentials"]
    /\ UNCHANGED <<core, userState, sessionMap, sessions, seq, conn, job, pend, announced, ops, targeted>>

CancelHandles(a, H) ==
    /\ apc[a] = "idle" /\ ops > 0
    /\ ops' = ops - 1
    /\ SetJob(a, "cancel", [NoJob EXCEPT !.op = "cancel", !.queue = H])
    /\ UNCHANGED <<core, userState, sessionMap, sessions, seq, conn, pend, announced, targeted>>

CancelUserSessions(a, u) == users[u] # NoHandle /\ CancelHandles(a, {users[u]})

CancelAllSessions(a) == CancelHandles(a, Table)

CancelNext(a, h) ==
    /\ apc[a] = "cancel" /\ h \in job[a].queue
    /\ SetJob(a, "clear", [job[a] EXCEPT !.handle = h, !.queue = @ \ {h}])
    /\ UNCHANGED <<core, userState, sessionMap, sessions, seq, conn, pend, announced, ops, targeted>>

CancelReturns(a) ==
    /\ apc[a] = "cancel" /\ job[a].queue = {}
    /\ SetJob(a, "idle", NoJob)
    /\ UNCHANGED <<core, userState, sessionMap, sessions, seq, conn, pend, announced, ops, targeted>>

SetLimits(a, u, l) ==
    /\ apc[a] = "idle" /\ ops > 0
    /\ users[u] # NoHandle
    /\ ops' = ops - 1
    /\ SetJob(a, "limits", [NoJob EXCEPT !.op = "limits", !.handle = users[u], !.limits = l])
    /\ UNCHANGED <<core, userState, sessionMap, sessions, seq, conn, pend, announced, targeted>>

----------------------------------------------------------------------------
ConnectionStep(c) ==
    \/ \E ip \in PeerIps :
          \/ \E k \in Credentials : Authenticate(c, k, ip)
          \/ \E u \in UserIds : OpenSessionById(c, u, ip)
    \/ \E ip \in SourceIps : \E k \in Credentials : AuthenticateHash(c, k, ip)
    \/ AuthenticateHashed(c) \/ ResolveUser(c) \/ ReadLimits(c)
    \/ OpenSession(c) \/ RefuseSession(c) \/ CloseSession(c)

AdminCall(a) ==
    \/ \E list \in UserLists : ReplaceUsers(a, list)
    \/ \E u \in UserIds : \/ CancelUserSessions(a, u)
                          \/ \E l \in LimitValues : SetLimits(a, u, l)
    \/ CancelAllSessions(a)

\* The steps of a call in progress.  None of these functions awaits.
AdminStep(a) ==
    \/ \E u \in UserIds : UpdateUser(a, u) \/ \E h \in Handles : AddUser(a, u, h)
    \/ \E h \in Handles : CancelRemoved(a, h) \/ CancelNext(a, h)
    \/ \E s \in Sids : AnnounceCancelled(a, s)
    \/ WriteCredentials(a) \/ WriteLimits(a) \/ PublishUsers(a) \/ PublishIndex(a)
    \/ ClearSessions(a) \/ CancelControl(a) \/ FinishCancel(a) \/ CancelReturns(a)

Next ==
    \/ \E c \in Connections : ConnectionStep(c)
    \/ \E a \in Admins : AdminCall(a) \/ AdminStep(a)

Spec == Init /\ [][Next]_vars

\* An administrative call that has started runs to its end: it is synchronous
\* code that only ever waits for locks held for one critical section.
FairSpec == Spec /\ \A a \in Admins : WF_vars(AdminStep(a))

----------------------------------------------------------------------------
(* Properties *)

ConnPc == {"idle", "hashed", "identified", "resolved", "opening", "holding"}
Requests == [cred : Credentials \cup {NoCredential}, user : UserIds \cup {NoUser},
             ip : Ips \cup {NoIp}, limits : Limits]
AdminPc == {"idle", "update", "credentials", "limits", "index", "clear", "signal", "cancel"}
Jobs == [op : {"none", "replace", "cancel", "limits"}, list : SUBSET ListEntries,
         current : [UserIds -> Handles \cup {NoHandle}],
         built : [UserIds -> Handles \cup {NoHandle}],
         todo : SUBSET UserIds, queue : SUBSET Handles, user : UserIds \cup {NoUser},
         handle : Handles \cup {NoHandle}, limits : Limits]

TypeTable ==
    /\ users \in [UserIds -> Handles \cup {NoHandle}]
    /\ index \in [Credentials -> UserIds \cup {NoUser}]
    /\ owner \in [Handles -> UserIds \cup {NoUser}]
    /\ creds \in [Handles -> SUBSET Credentials]
    /\ limits \in [Handles -> Limits]
    /\ peak \in [Handles -> Limits]

TypeSessions ==
    /\ slots \in [Handles -> SUBSET Sids]
    /\ ipOf \in [Sids -> Ips \cup {NoIp}]
    /\ seq \in 0..MaxSeq
    /\ ctl \in [Sids -> {"none", "active", "cancelled"}]
    /\ opened \in [Sids -> Nat]
    /\ closed \in [Sids -> Nat]
    /\ cancelled \in [Sids -> Nat]

TypeCounts ==
    /\ online \in [Handles -> Nat]
    /\ onlineIps \in [Handles -> Nat]

TypeConn ==
    /\ cpc \in [Connections -> ConnPc]
    /\ req \in [Connections -> Requests]
    /\ handle \in [Connections -> Handles \cup {NoHandle}]
    /\ sid \in [Connections -> 0..MaxSeq]

TypeAdmin ==
    /\ apc \in [Admins -> AdminPc]
    /\ job \in [Admins -> Jobs]
    /\ pend \in [Admins -> SUBSET Sids]
    /\ announced \in [Admins -> 0..MaxSeq]
    /\ ops \in 0..MaxOps

TypeOK == TypeTable /\ TypeSessions /\ TypeCounts /\ TypeConn /\ TypeAdmin

Held(c) == cpc[c] = "holding"
BeingCancelled == UNION {pend[a] : a \in Admins}
Registered == UNION {slots[h] : h \in Handles}

\* Subscribers see every session open once and end at most once, and the end
\* is either SessionClosed or SessionCancelled, whatever the races between
\* the connection dropping its session and administrators cancelling it.
SessionLifecycle ==
    \A s \in Sids : opened[s] <= 1 /\ closed[s] + cancelled[s] <= opened[s]

\* No session escapes the registry: while a connection holds a session whose
\* control is still active, the session is in the map of the UserState it was
\* opened on, or cancel_sessions has taken it out and is about to cancel it.
\* Otherwise no later cancellation could reach it.
HeldSessionsReachable ==
    \A c \in Connections :
        Held(c) /\ ctl[sid[c]] = "active" =>
            sid[c] \in slots[handle[c]] \/ sid[c] \in BeingCancelled

\* No session slot outlives its connection: every registered session is held
\* by the one connection it was opened for and not cancelled, so the online
\* counts that admission and the snapshot use never count a ghost.
NoGhostSessions ==
    \A h \in Handles : \A s \in slots[h] :
        /\ ctl[s] = "active" /\ s \notin BeingCancelled
        /\ \E c \in Connections : Held(c) /\ handle[c] = h /\ sid[c] = s

\* online and online_ips are what the session map implies between any two
\* critical sections, although three functions maintain them.
OnlineCountsExact ==
    \A h \in Handles : /\ online[h] = Cardinality(slots[h])
                       /\ onlineIps[h] = Cardinality(Addresses(slots[h], ipOf))

\* Admission uses a copy of the limits taken before the sessions lock, so a
\* limit lowered meanwhile may be missed; but no interleaving of opens can
\* exceed the largest limit the user ever had.
WithinPeakLimits ==
    \A h \in Handles :
        /\ peak[h].sessions > 0 => Cardinality(slots[h]) <= peak[h].sessions
        /\ peak[h].ips > 0 => Cardinality(Addresses(slots[h], ipOf)) <= peak[h].ips

\* A single caller's replace_users ends the sessions it finds: when it has
\* published the table, every session that was registered with a removed or
\* re-keyed user when the call began has been closed or cancelled.
TargetedSessionsEnd ==
    \A a \in Admins : apc[a] = "index" =>
        \A s \in targeted[a] : closed[s] + cancelled[s] = 1 /\ s \notin Registered

\* With one administrator at a time, the credential index and the credentials
\* of the published users agree whenever no replace_users is in progress:
\* a credential identifies exactly the user that lists it.
IndexMatchesTable ==
    (\A a \in Admins : job[a].op # "replace") =>
        /\ \A u \in UserIds : users[u] # NoHandle =>
              /\ owner[users[u]] = u
              /\ creds[users[u]] = {k \in Credentials : index[k] = u}
        /\ \A k \in Credentials : index[k] # NoUser => users[index[k]] # NoHandle

\* docs/core.md promises "Session cancellation when a user is removed or their
\* credential rotates": once no administrative call is in progress, no
\* connection holds an active session that was authenticated with a credential
\* its user no longer has, or that belongs to a user no longer in the table.
RevokedSessionsCancelled ==
    (\A a \in Admins : apc[a] = "idle") =>
        \A c \in Connections :
            Held(c) /\ ctl[sid[c]] = "active" /\ req[c].cred # NoCredential =>
                handle[c] \in Table /\ req[c].cred \in creds[handle[c]]

\* A session taken out of the map by cancel_sessions is eventually cancelled,
\* so its relay wakes up.
CollectedSessionsCancelled ==
    \A s \in Sids : (s \in BeingCancelled) ~> (ctl[s] = "cancelled")

=============================================================================
