-------------------------- MODULE MCDeliveryOutbox --------------------------
(* Two intents and two dispatcher loops: enough for a claim to skip a row   *)
(* locked by the other loop, for a second loop to expire the first one's    *)
(* claim, and for a stale worker to act after that.                         *)
EXTENDS DeliveryOutbox
=============================================================================
