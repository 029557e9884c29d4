---------------------- MODULE OCPPMessageHandlerClaims ----------------------
(***************************************************************************)
(* What a comment of the repository says of the outgoing-CALL path and the *)
(* code does not do; TLC finds a behaviour of the handler that violates it.*)
(***************************************************************************)
EXTENDS MCOCPPMessageHandler

(* OCPPMessageHandler.ts:742: on close "Transaction-related messages       *)
(* survive via PendingMessageQueue".  Queued ones are discarded, also      *)
(* those a flush has just taken out of that queue.                         *)
DurableSurvivesClose ==
  [][\A call \in Range(serialQueue) :
       IsTransactionRelated(call.action) =>
         Among(call.id, Range(serialQueue' \o pendingQueue' \o wire'))]_vars
=============================================================================
