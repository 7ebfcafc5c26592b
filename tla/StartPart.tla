----------------------------- MODULE StartPart ------------------------------
(***************************************************************************)
(* Startup with variables of its own, beside the components that the       *)
(* started tasks use.                                                      *)
(***************************************************************************)
EXTENDS Integers, FiniteSets, Sequences

CONSTANTS Names, Files  \* of Startup

VARIABLES file, step, goal, cursor, visited, todo, upstreams, listening, exited

startVars == <<file, step, goal, cursor, visited, todo, upstreams, listening, exited>>

Start == INSTANCE Startup WITH pc <- step, seen <- visited, live <- listening

\* The files are of the formats' shape.
ASSUME StartAssumption == Start!WellFormed

----------------------------------------------------------------------------
\* main.rs: a router that runs has the outbound of every tag of its table.
StackComplete == Start!StackComplete
=============================================================================
