------------------------------ MODULE MCRollback ------------------------------
(***************************************************************************)
(* Instances of Rollback for TLC.                                          *)
(***************************************************************************)
EXTENDS Rollback, TLC

CONSTANTS s1, s2, e1, e2, a1, a2

\* Two Envoys with a stream each, or one Envoy that can reconnect once.
TwoEnvoys  == s1 :> e1 @@ s2 :> e2
Reconnects == s1 :> e1 @@ s2 :> e1

\* A Listener names a route configuration.
ListenerOnly  == [t \in Types |-> {}]
ListenerRoute == [t \in Types |-> IF t = "LDS" THEN {"RDS"} ELSE {}]
===============================================================================
