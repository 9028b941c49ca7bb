---------------------------- MODULE AccountStore ----------------------------
(***************************************************************************)
(* The accounts table of internal/store/store.go, reduced to the columns   *)
(* the router, the pool and the quota refreshers decide on.                *)
(*                                                                         *)
(* A row is a record:                                                      *)
(*   status     accounts.status                                            *)
(*   enabled    accounts.enabled                                           *)
(*   neverUsed  accounts.last_used_at IS NULL                              *)
(*   plan       accounts.plan, up to the prefix preferredPlan looks at     *)
(*   quota      quota_limit and quota_remaining: "unknown" is limit <= 0,  *)
(*              "left" is limit > 0 and remaining > 0, "spent" is limit >  *)
(*              0 and remaining <= 0                                       *)
(*   cycle      quota_cycle_end: NULL, in the future or already past       *)
(*                                                                         *)
(* Every UPDATE of the store is one SQL statement on a database opened     *)
(* with SetMaxOpenConns(1), so each write operator below is atomic.  They  *)
(* are functions of the table, so that a handler that issues several       *)
(* UPDATEs in a row composes them.                                         *)
(***************************************************************************)
EXTENDS Integers, FiniteSets

CONSTANT Accounts       \* account ids: ListAccounts orders by them

ASSUME AccountsAssumption == Accounts \subseteq Nat /\ IsFiniteSet(Accounts)

VARIABLE row            \* the table

Status   == {"active", "exhausted", "error", "offline"}
Plan     == {"solo-trial", "free"}
Quota    == {"unknown", "left", "spent"}
Cycle    == {"none", "open", "past"}

Row == [status : Status, enabled : BOOLEAN, neverUsed : BOOLEAN,
        plan : Plan, quota : Quota, cycle : Cycle]

Table == [Accounts -> Row]

(***************************************************************************)
(* Reads.                                                                  *)
(***************************************************************************)

\* ActiveAccounts: what the pool may choose from.
ActiveAccounts(db) == {a \in Accounts : db[a].status = "active" /\ db[a].enabled}

\* quotaExhausted: an unknown limit does not count as exhausted.
QuotaExhausted(r) == r.quota = "spent"

\* preferredPlan: the plan starts with "sync-solo-trial".
PreferredPlan(r) == r.plan = "solo-trial"

(***************************************************************************)
(* Writes.                                                                 *)
(***************************************************************************)

SetAccountStatus(db, a, s)  == [db EXCEPT ![a].status = s]

SetAccountEnabled(db, a, e) == [db EXCEPT ![a].enabled = e]

MarkUsed(db, a) == [db EXCEPT ![a].neverUsed = FALSE]

\* Writes plan, quota and cycle columns together, whatever they held.
SetQuotaSnapshot(db, a, p, q, c) ==
  [db EXCEPT ![a].plan = p, ![a].quota = q, ![a].cycle = c]

\* Writes the two cycle columns only.
SetQuotaCycle(db, a, c) == [db EXCEPT ![a].cycle = c]
=============================================================================
