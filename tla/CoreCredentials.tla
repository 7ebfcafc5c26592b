-------------------------- MODULE CoreCredentials --------------------------
(***************************************************************************)
(* ProxyCore::from_credentials_with_limits (src/core.rs): the user table   *)
(* of a server that is configured with one password and a list of          *)
(* credentials instead of CoreUsers.                                       *)
(***************************************************************************)
EXTENDS Sequences, Naturals, SequencesExt

CONSTANTS
    Words,      \* non-empty strings
    Blanks,     \* those that str::trim leaves nothing of
    Empty,      \* ""
    Default,    \* "default", the id of the password's user
    MaxUsers

VARIABLES password, users, pc, next, seen, entries
vars == <<password, users, pc, next, seen, entries>>

Init ==
    /\ password \in Words \cup {Empty}
    /\ users \in SeqOf(Words \cup {Empty}, MaxUsers)
    /\ pc = "password" /\ next = 1
    /\ seen = {} /\ entries = <<>>

\* The password becomes the user "default".
TakePassword ==
    /\ pc = "password"
    /\ pc' = "users"
    /\ IF password # Empty
       THEN /\ seen' = seen \cup {password}
            /\ entries' = Append(entries, [id |-> Default, cred |-> password])
       ELSE UNCHANGED <<seen, entries>>
    /\ UNCHANGED <<password, users, next>>

\* Every other credential becomes a user named after itself, once.
TakeUser ==
    LET u == users[next] IN
    /\ pc = "users" /\ next <= Len(users)
    /\ next' = next + 1
    /\ IF u # Empty /\ u \notin seen
       THEN /\ seen' = seen \cup {u}
            /\ entries' = Append(entries, [id |-> u, cred |-> u])
       ELSE UNCHANGED <<seen, entries>>
    /\ UNCHANGED <<password, users, pc>>

\* What replace_users accepts; all entries have the same limits.
Accepted ==
    /\ \A i \in DOMAIN entries : entries[i].id \notin Blanks /\ entries[i].cred \notin Blanks
    /\ \A i, j \in DOMAIN entries : entries[i].cred = entries[j].cred => i = j

\* Self::new(entries).expect(...)
Build ==
    /\ pc = "users" /\ next > Len(users)
    /\ pc' = IF Accepted THEN "built" ELSE "panicked"
    /\ UNCHANGED <<password, users, next, seen, entries>>

Next == TakePassword \/ TakeUser \/ Build
Spec == Init /\ [][Next]_vars

----------------------------------------------------------------------------
\* The code's own claim, .expect("deduplicated core credentials must be
\* valid"): the table built from the configured credentials is accepted.
DeduplicatedCredentialsValid == pc # "panicked"
=============================================================================
