--------------------------- MODULE MCPushDelivery ---------------------------
(***************************************************************************)
(* One person with two browsers, one device and one trigger.               *)
(***************************************************************************)
EXTENDS PushDelivery

CONSTANTS p1, c1, c2, d1, t1

MCPersons == {p1}
MCClients == {c1, c2}
MCDevices == {d1}
MCTriggers == {t1}
=============================================================================
