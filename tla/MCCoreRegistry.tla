--------------------------- MODULE MCCoreRegistry ---------------------------
(***************************************************************************)
(* Instances of CoreRegistry.  u1 is given the credential k1, rotated to   *)
(* k2, removed, or joined by u2; two source addresses are one IP (an IPv4  *)
(* address and its IPv4-mapped form); p1 is k1 with surrounding blanks.    *)
(* A scenario restricts the calls of a behaviour to those one question is  *)
(* about.                                                                  *)
(***************************************************************************)
EXTENDS CoreRegistry, TLC

CONSTANTS u1, u2, k1, k2, p1, v4, mapped, v6, ip4, ip6, h1, h2, h3, c1, c2, a1, a2

TwoUsers == {u1, u2}
PaddedCredentials == {k1, k2, p1}
BothIps == {ip4, ip6}
AllSources == {v4, mapped, v6}
AllNormalized == (v4 :> ip4) @@ (mapped :> ip4) @@ (v6 :> ip6)
PaddedTrim == (k1 :> k1) @@ (k2 :> k2) @@ (p1 :> k1)
ThreeHandles == {h1, h2, h3}
OneConnection == {c1}
TwoConnections == {c1, c2}
OneAdmin == {a1}
TwoAdmins == {a1, a2}

L(s, i) == [sessions |-> s, ips |-> i]
User(u, k, l) == [id |-> u, cred |-> k, limits |-> l]

\* u1 with k1; u1 with k2; nobody.
RotateLists == { {User(u1, k1, L(0, 0))}, {User(u1, k2, L(0, 0))}, {} }

\* u1 limited to one session, or to one address.
LimitedLists == { {User(u1, k1, L(1, 0))}, {User(u1, k1, L(0, 1))} }

\* Two users, one of them with two credentials; and lists that are rejected:
\* one credential for two users, an empty credential, and conflicting limits
\* for one user.
UserTableLists ==
    { {User(u1, k1, L(1, 0))},
      {User(u1, k1, L(2, 1)), User(u1, p1, L(2, 1)), User(u2, k2, L(0, 1))},
      {User(u2, k2, L(0, 0))},
      {User(u1, k1, L(1, 0)), User(u2, k1, L(1, 0))},
      {User(u1, Blank, L(1, 0))},
      {User(u1, k1, L(1, 0)), User(u1, k2, L(2, 0))} }

\* set_limits: two sessions from one address, any number of sessions.
SomeLimits == {L(2, 1), L(0, 0)}
AllLists == RotateLists \cup LimitedLists \cup UserTableLists

\* The arguments, addresses, users, number of connections at a time, UserStates
\* (allocated in order), and the numbers of sessions and calls of a scenario.
Scenario(lists, values, ips, us, conns, handles, sids, calls) ==
    [lists |-> lists, values |-> values, ips |-> ips, users |-> us, conns |-> conns,
     handles |-> handles, sids |-> sids, calls |-> calls]

Rotation == Scenario(RotateLists, {}, {NoIp}, {u1}, 2, {h1, h2}, 3, 2)
Limitation == Scenario(LimitedLists, SomeLimits, {NoIp, ip4, ip6}, {u1}, 2, {h1}, 2, 2)
UserTable == Scenario(UserTableLists, {}, {ip4}, {u1, u2}, 1, {h1, h2, h3}, 2, 3)
Administration == Scenario(RotateLists, {}, {NoIp}, {u1}, 1, {h1, h2}, 1, 3)

VARIABLE scenario

Within ==
    /\ \A c \in Connections : req[c] # NoRequest => /\ req[c].ip \in scenario.ips
                                                    /\ req[c].user \in scenario.users \cup {NoUser}
    /\ \A a \in Admins : /\ job[a].op = "replace" => job[a].list \in scenario.lists
                         /\ job[a].op = "limits" => job[a].limits \in scenario.values
    /\ Cardinality({c \in Connections : cpc[c] # "idle"}) <= scenario.conns
    /\ \A h \in Handles : owner[h] # NoUser => h \in scenario.handles
    /\ owner[h2] # NoUser => owner[h1] # NoUser
    /\ owner[h3] # NoUser => owner[h2] # NoUser
    /\ seq <= scenario.sids /\ MaxOps - ops <= scenario.calls

SessionsInit == Init /\ scenario \in {Rotation, Limitation, UserTable}
RotationInit == Init /\ scenario = Rotation
AdminsInit == Init /\ scenario = Administration
MCNext == Next /\ UNCHANGED scenario /\ Within'

SessionsSpec == SessionsInit /\ [][MCNext]_<<vars, scenario>>
RotationSpec == RotationInit /\ [][MCNext]_<<vars, scenario>>
AdminsSpec == AdminsInit /\ [][MCNext]_<<vars, scenario>>
                         /\ \A a \in Admins : WF_vars(AdminStep(a))

Symmetry == Permutations(TwoConnections)
=============================================================================
