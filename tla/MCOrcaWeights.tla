----------------------------- MODULE MCOrcaWeights -----------------------------
(***************************************************************************)
(* Instances of OrcaWeights for TLC.                                       *)
(***************************************************************************)
EXTENDS OrcaWeights, TLC

CONSTANTS s1, e1, h1, h2

OneStream == s1 :> e1

\* Envoy asks for what concerns us from the start.
EndpointsOnly == [t \in Types |-> {}]

\* Two backends that report different loads.
BusyAndIdle == {1000, 9000}

\* A reading, and one that no comparison takes for the same as any other.
IdleOrOdd == {1000, NaN}

\* Steps that observe ignores one by one but not together, and readings beyond
\* either end of the range a utilization should have.
Drifting == {5000, 5008, 5016, 25000, -3000}
===============================================================================
