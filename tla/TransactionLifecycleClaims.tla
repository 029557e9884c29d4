--------------------- MODULE TransactionLifecycleClaims ----------------------
(***************************************************************************)
(* What the sources say of the transactions of a connector and the code    *)
(* does not do.                                                            *)
(***************************************************************************)
EXTENDS MCTransactionLifecycle

(* ScenarioLifecycle.wave1.test.ts:325 "leaves the active transaction      *)
(* intact on a duplicate start"; startTransaction says the same where it   *)
(* looks for one (ChargePoint.ts:1294-1297).  A start parked on            *)
(* Authorize.req does not look again when it goes on: a transaction begun  *)
(* meanwhile is replaced, and never stopped.                               *)
ActiveStaysIntact ==
  [][\A c \in Connectors :
       tx[c].open => tx'[c] = NoTx \/ tx'[c].no = tx[c].no]_vars
=============================================================================
