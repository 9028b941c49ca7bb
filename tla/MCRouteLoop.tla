----------------------------- MODULE MCRouteLoop ----------------------------
(***************************************************************************)
(* RouteLoop on two or three accounts: a streaming continuation whose      *)
(* session is on account 1, and a fresh non-streaming request.             *)
(***************************************************************************)
EXTENDS RouteLoop

CONSTANTS cont, single

MCAccounts      == 1..2
MCRequests      == {cont, single}
MCStreaming     == {cont}
MCContinuations == {cont}
MCStickyOwner   == [r \in MCContinuations |-> 1]
MCUsageCycles   == {TRUE}
MCInitialQuota  == [a \in MCAccounts |-> IF a = 1 THEN "unknown" ELSE "left"]

\* One request alone meets every result ...
MCAlone         == {cont}
MCThreeAccounts == 1..3
MCThreeQuota    == [a \in MCThreeAccounts |-> IF a = 1 THEN "unknown" ELSE "left"]
\* ... two meet those that write the row they share.
MCSharedResults == {[kind |-> "success", usage |-> "AVAILABLE"],
                    [kind |-> "upstream", usage |-> "AVAILABLE"],
                    [kind |-> "quota", usage |-> "BLOCKED"],
                    [kind |-> "quota", usage |-> "EXCEEDED"],
                    [kind |-> "gateway", usage |-> "none"],
                    [kind |-> "auth", usage |-> "none"]}
=============================================================================
