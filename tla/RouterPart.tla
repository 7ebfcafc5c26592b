----------------------------- MODULE RouterPart -----------------------------
(***************************************************************************)
(* RouteProxy with variables of its own, beside the configuration it is    *)
(* started from.                                                           *)
(***************************************************************************)
EXTENDS Integers, Sequences

CONSTANTS Clients, Targets, Tags, Addrs, Tables, Capacity, MaxUpdates, MaxDatagrams

VARIABLES routes, uplinks, updates, client, target, decision, via, reply, since,
          assoc, datagram, command, sessions, received, sentOut

routerVars == <<routes, uplinks, updates, client, target, decision, via, reply, since,
                assoc, datagram, command, sessions, received, sentOut>>

Router == INSTANCE RouteProxy WITH upstreams <- uplinks, pc <- client, delivered <- sentOut

ASSUME RouterAssumption == Router!WellFormed

-----------------------------------------------------------------------------
(* RouteProxy: a flow uses a decision and an upstream in force since it    *)
(* came in.                                                                *)
FlowsFollowRoutes == Router!FlowsFollowRoutes
=============================================================================
