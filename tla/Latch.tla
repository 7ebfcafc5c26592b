------------------------------- MODULE Latch -------------------------------
(***************************************************************************)
(* What src/task_abort.rs promises to the rest of the program: a one-shot  *)
(* latch.  It is fired at most once and stays fired; a task that waits on  *)
(* it is let through only after it has fired, and once it has fired every  *)
(* waiting task is eventually let through.                                 *)
(***************************************************************************)
CONSTANT Waiters

VARIABLES fired, released

vars == <<fired, released>>

Init == fired = FALSE /\ released = {}

Fire == ~fired /\ fired' = TRUE /\ UNCHANGED released

Release(w) ==
    /\ fired
    /\ w \in Waiters \ released
    /\ released' = released \cup {w}
    /\ UNCHANGED fired

\* Several waiters may be let through by one wake-up.
ReleaseSome ==
    /\ fired
    /\ \E W \in SUBSET (Waiters \ released) :
          W # {} /\ released' = released \cup W
    /\ UNCHANGED fired

Next == Fire \/ ReleaseSome

Spec == Init /\ [][Next]_vars

FairSpec == Spec /\ \A w \in Waiters : WF_vars(Release(w) \/ (ReleaseSome /\ w \in released'))
=============================================================================
