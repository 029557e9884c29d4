------------------------ MODULE MCOCPPMessageHandler ------------------------
(***************************************************************************)
(* TLC instances of OCPPMessageHandler, and its refinement of CallDelivery *)
(* over the CALL ids an instance can reach.                                *)
(***************************************************************************)
EXTENDS OCPPMessageHandler

CONSTANT MaxIds  \* bound: ids observed by the refinement

ASSUME MaxIdsAssumption == MaxIds \in Nat

Delivery ==
  INSTANCE CallDelivery WITH
    Calls <- 1..MaxIds,
    status <- [i \in 1..MaxIds |-> StatusOf(i)]

(* Each step of the handler is a step of the abstract delivery of CALLs,   *)
(* or none: answered and dropped are final, refused durable CALLs are kept.*)
ImplementsDelivery == Delivery!Spec
=============================================================================
