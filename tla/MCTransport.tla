----------------------------- MODULE MCTransport ----------------------------
(***************************************************************************)
(* The two levels of tlsfp: what happens on one connection, and which      *)
(* connection a request takes.  They share no variable; a behaviour is one *)
(* of either.                                                              *)
(***************************************************************************)
EXTENDS H2Conn, H2Pool, TLC

CONSTANTS q1, q2

MCUpload == q1 :> 1 @@ q2 :> 1

VARIABLE level

OnTheConnection == level = "connection" /\ H2Next /\ UNCHANGED <<level, poolVars>>

InThePool == level = "pool" /\ PoolNext /\ UNCHANGED <<level, h2Vars>>

TransportInit ==
  /\ level \in {"connection", "pool"}
  /\ H2Init /\ initStreamWin = 2   \* SETTINGS lower it and raise it again
  /\ PoolInit

TransportNext == OnTheConnection \/ InThePool

TransportSpec ==
  TransportInit /\ [][TransportNext]_<<level, h2Vars, poolVars>> /\ H2Fairness

\* The type invariants of both (newH2Conn, and the round tripper's pool).
TransportTypeOK == H2TypeOK /\ H2PoolTypeOK
=============================================================================
