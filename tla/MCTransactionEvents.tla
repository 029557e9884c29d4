------------------------- MODULE MCTransactionEvents -------------------------
(***************************************************************************)
(* TLC instances of TransactionEvents.                                     *)
(***************************************************************************)
EXTENDS TransactionEvents

(* Statuses told as a charging state, and one that is not.                 *)
MCUserStatuses == {"Charging", "SuspendedEV", "Finishing"}

(* A notification that leaves the status of the connector as it is.        *)
MCRawStatuses == {"SuspendedEVSE"}
=============================================================================
