---------------------------- MODULE MCCertRotation ----------------------------
(***************************************************************************)
(* Instances of CertRotation for TLC.                                      *)
(***************************************************************************)
EXTENDS CertFeed, TLC

CONSTANTS s1, s2, e1, a1, a2

\* One Envoy that can reconnect once.
Reconnects == s1 :> e1 @@ s2 :> e1

\* SDS on its own: an Envoy that has its Listener, which names the secret.
NoLinks == [t \in Types |-> {}]

\* The second certificate is one that Envoy does not accept.
Second == {Build(2, 2)}
===============================================================================
