---------------------------- MODULE CallDelivery ----------------------------
(***************************************************************************)
(* What the outgoing-CALL path of an OCPP 1.6J charge point promises about *)
(* each CALL, whatever queues and timers it uses to keep the promise:      *)
(*                                                                         *)
(*   - at any moment at most one CALL is "sent", that is, on the wire with *)
(*     its answer still awaited (OCPP-J 4.1.1, quoted in the handler);     *)
(*   - "answered" and "dropped" are final: an answer is consumed once, and *)
(*     a CALL given up is never sent afterwards;                           *)
(*   - a durable (transaction-related) CALL that the socket refuses is     *)
(*     stored, not dropped, and the one way out of the store is back into  *)
(*     the queue.                                                          *)
(*                                                                         *)
(* The promise is deliberately weak where the code is weak: a connection   *)
(* that goes away drops every queued CALL, durable or not.                 *)
(***************************************************************************)
CONSTANT Calls   \* the identities of the CALLs

VARIABLE status  \* where each CALL is in its life

Queued == {"queued", "queuedDurable"}

Statuses == Queued \cup {"none", "sent", "stored", "expired", "answered",
                         "dropped"}

TypeOK == status \in [Calls -> Statuses]

Init == status = [c \in Calls |-> "none"]

Move(c, from, to) ==
  /\ status[c] \in from
  /\ status' = [status EXCEPT ![c] = to]

NoneSent == \A c \in Calls : status[c] # "sent"

Issue(c)   == \E q \in Queued : Move(c, {"none"}, q)
Send(c)    == NoneSent /\ Move(c, Queued, "sent")
Answer(c)  == Move(c, {"sent", "expired"}, "answered")
Expire(c)  == Move(c, {"sent"}, "expired")
Store(c)   == Move(c, {"queuedDurable"}, "stored")
Requeue(c) == Move(c, {"stored"}, "queuedDurable")
Discard(c) == Move(c, {"queued"}, "dropped")

(* The connection goes away: the awaited CALL expires, the queue empties.  *)
Disconnect ==
  status' = [c \in Calls |-> CASE status[c] = "sent"     -> "expired"
                               [] status[c] \in Queued   -> "dropped"
                               [] OTHER                  -> status[c]]

Next ==
  \/ \E c \in Calls : Issue(c) \/ Send(c) \/ Answer(c) \/ Expire(c)
                        \/ Store(c) \/ Requeue(c) \/ Discard(c)
  \/ Disconnect

Spec == Init /\ [][Next]_status
=============================================================================
