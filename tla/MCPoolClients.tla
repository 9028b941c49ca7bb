--------------------------- MODULE MCPoolClients ----------------------------
(***************************************************************************)
(* PoolClients on three accounts, two requests and one borrower.           *)
(***************************************************************************)
EXTENDS PoolClients, TLC

CONSTANTS r1, r2, b1

MCAccounts   == 1..3
MCRequests   == {r1, r2}
MCBorrowers  == {b1}
MCExclusions == {{}, {2, 3}}
MCPlanOf     == [a \in MCAccounts |-> IF a = 2 THEN "solo-trial" ELSE "free"]
MCFresh      == {3}
MCVolatile   == {1}
MCCoolable   == {2}
MCFailureStatus == {"exhausted", "active"}

\* The two requests run the same code.
RequestSymmetry == Permutations({r1, r2})
=============================================================================
