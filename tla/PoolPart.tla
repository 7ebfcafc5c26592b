------------------------------ MODULE PoolPart ------------------------------
(***************************************************************************)
(* The pool of AnyTLS client sessions with variables of its own, to stand  *)
(* beside other components.                                                *)
(***************************************************************************)
CONSTANTS Tasks, Sweeper, MaxSessions, PoolSize, IdleTimeout, MaxNow, MaxRequests

VARIABLES
    now, requests, listening, shared, idle, made, closes, aborts, spawned, taskAt, held, reap, closing

poolVars == <<now, requests, listening, shared, idle, made, closes, aborts, spawned, taskAt, held,
              reap, closing>>

Pool == INSTANCE AnyTlsPool WITH close <- closes, abort <- aborts, pc <- taskAt

ASSUME PoolAssumption == Pool!WellFormed

\* SharedClientSession: a session has one owner at a time.
Exclusive == Pool!Exclusive

\* SharedClientSession: a session without an owner is closed or about to be.
NotDropped == Pool!NotDropped
=============================================================================
