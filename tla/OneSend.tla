------------------------------ MODULE OneSend ------------------------------
(***************************************************************************)
(* What a round tripper promises of a request that is charged by the call: *)
(* it is written to the upstream at most once, it is answered only if it   *)
(* was written, and it has one end.                                        *)
(***************************************************************************)
CONSTANT Requests

VARIABLE fate

Init == fate = [r \in Requests |-> "new"]

Send(r) ==
  /\ fate[r] = "new"
  /\ fate' = [fate EXCEPT ![r] = "sent"]

Answer(r) ==
  /\ fate[r] = "sent"
  /\ fate' = [fate EXCEPT ![r] = "answered"]

Fail(r) ==
  /\ fate[r] \in {"new", "sent"}
  /\ fate' = [fate EXCEPT ![r] = "failed"]

Next == \E r \in Requests : Send(r) \/ Answer(r) \/ Fail(r)

Spec == Init /\ [][Next]_fate
=============================================================================
