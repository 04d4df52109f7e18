------------------------------ MODULE MCHelloXds -------------------------------
(***************************************************************************)
(* Instances of HelloXds for TLC.                                          *)
(***************************************************************************)
EXTENDS HelloXds

\* A Listener names a route configuration.
ListenerRoute == [t \in Types |-> IF t = "LDS" THEN {"RDS"} \cap Types ELSE {}]
===============================================================================
