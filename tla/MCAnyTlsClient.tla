--------------------------- MODULE MCAnyTlsClient ---------------------------
(***************************************************************************)
(* The AnyTLS client for safety: the streams of one session (four ids, a   *)
(* channel of two events), or the pool of sessions (two requests at a time *)
(* and three in all, up to three sessions, room for one).                  *)
(***************************************************************************)
EXTENDS AnyTlsStream, PoolPart, TLC

CONSTANTS t1, t2

VARIABLE part

MCInit == part \in {"stream", "pool"} /\ Init /\ Pool!Init

MCNext ==
    /\ UNCHANGED part
    /\ \/ part = "stream" /\ Next /\ UNCHANGED poolVars
       \/ part = "pool" /\ Pool!Next /\ UNCHANGED vars

MCSpec == MCInit /\ [][MCNext]_<<part, vars, poolVars>>

Symmetry == Permutations({t1, t2})
=============================================================================
