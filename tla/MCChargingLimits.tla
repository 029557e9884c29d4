-------------------------- MODULE MCChargingLimits ---------------------------
(***************************************************************************)
(* TLC instances of ChargingLimits.                                        *)
(***************************************************************************)
EXTENDS ChargingLimits

P(start, limit) == [start |-> start, limit |-> limit]

(* A pause in the middle of a session; a daily pause that began before the *)
(* connector looked, with its periods out of order; a cap that begins later*)
(* and expires.                                                            *)
MCProfiles == {
  [id |-> 1, purpose |-> "TxProfile", stackLevel |-> 0, kind |-> "Relative",
   cycle |-> 1, from |-> None, to |-> None, periods |-> <<P(0, 2), P(1, 0)>>],
  [id |-> 2, purpose |-> "TxDefaultProfile", stackLevel |-> 0, kind |-> "Recurring",
   cycle |-> 3, from |-> 1, to |-> None, periods |-> <<P(2, 0), P(0, 1)>>],
  [id |-> 3, purpose |-> "ChargePointMaxProfile", stackLevel |-> 0, kind |-> "Absolute",
   cycle |-> 1, from |-> 0, to |-> 1, periods |-> <<P(0, 1), P(2, 3), P(4, 0)>>]}
=============================================================================
