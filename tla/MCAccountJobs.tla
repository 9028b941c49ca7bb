--------------------------- MODULE MCAccountJobs ---------------------------
(***************************************************************************)
(* AccountJobs on one account: the code never looks at two accounts at     *)
(* once, so what can go wrong is between the tasks of one.                 *)
(***************************************************************************)
EXTENDS AccountJobs

CONSTANTS t1, t2, r1, r2

MCAccounts == {1}
MCTriggers == {t1, t2}
MCSpawned  == {r1, r2}
MCFirstPlans == {"free", "FREE_USER"}
MCFirstBases == {"active"}
MCReplies  ==
  {[auth |-> FALSE, cycle |-> TRUE, usage |-> u] : u \in {"none", "AVAILABLE", "EXCEEDED", "BLOCKED"}}
  \cup {[auth |-> TRUE, cycle |-> FALSE, usage |-> "none"]}
=============================================================================
