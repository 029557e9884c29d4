----------------------- MODULE MCTransactionLifecycle -----------------------
(***************************************************************************)
(* TLC instances of TransactionLifecycle.                                  *)
(***************************************************************************)
EXTENDS TransactionLifecycle

(* ChangeAvailability.req for connector 0, the whole charge point.         *)
MCRanges == {Connectors}
=============================================================================
