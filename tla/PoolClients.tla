---------------------------- MODULE PoolClients -----------------------------
(***************************************************************************)
(* The pool under its concurrent callers.                                  *)
(*                                                                         *)
(* A request (router.runAttempts, one attempt at a time) lists the active  *)
(* accounts, takes the lock and is given one, calls upstream, gives the    *)
(* slot back with Done and then reports the outcome.  A borrower (the      *)
(* model refreshers, which call Pool.Next for an account to fetch the      *)
(* model list with; the toolsets path, which drops the poolUsed result)    *)
(* takes an account the same way and never calls Done.                     *)
(*                                                                         *)
(* The listing is read before the lock, so it may be stale when used.      *)
(***************************************************************************)
EXTENDS Pool

CONSTANTS
  Requests,        \* callers that pair Next with Done
  Borrowers,       \* one-shot callers that do not
  Exclusions,      \* the sets of accounts a request may have excluded
  PlanOf,          \* the accounts' plans
  Fresh,           \* accounts that may start out never used
  Volatile,        \* accounts whose status and quota change during a run
  FailureStatus,   \* the statuses a failed call may leave
  Coolable,        \* accounts whose egress the gateway blocks during a run
  ReservationTTL   \* account_reservation_seconds

Callers == Requests \cup Borrowers

ASSUME CallersAssumption ==
  /\ IsFiniteSet(Callers)
  /\ Requests \cap Borrowers = {}
  /\ Exclusions \subseteq SUBSET Accounts
  /\ PlanOf \in [Accounts -> Plan]
  /\ Fresh \subseteq Accounts
  /\ Volatile \subseteq Accounts
  /\ FailureStatus \subseteq {"exhausted", "error", "active"}
  /\ Coolable \subseteq Accounts
  /\ ReservationTTL \in Nat

NoAccount == -1

VARIABLES
  pc,        \* idle, listed, calling, returned; a borrower ends at finished
  view,      \* the rows the caller listed
  excluded,  \* the accounts the caller will not take
  acc        \* the account it was given

callerVars == <<pc, view, excluded, acc>>

vars == <<row, poolVars, callerVars>>

EmptyView == [a \in {} |-> {}]

\* Every variable has its type, last is -1 or an index of a full listing, and a
\* caller holds an account exactly from Next to the end of its call.
TypeOK ==
  /\ row \in Table
  /\ PoolTypeOK
  /\ pc \in [Callers -> {"idle", "listed", "calling", "returned", "finished"}]
  /\ DOMAIN view = Callers
  /\ \A c \in Callers : IsView(view[c])
  /\ excluded \in [Callers -> SUBSET Accounts]
  /\ acc \in [Callers -> Accounts \cup {NoAccount}]
  /\ \A c \in Callers : /\ pc[c] \in {"calling", "returned"} => acc[c] \in Accounts
                        /\ pc[c] \in {"idle", "listed"} => acc[c] = NoAccount

Init ==
  /\ \E new \in SUBSET Fresh :
       row = [a \in Accounts |->
                [status |-> "active", enabled |-> TRUE, neverUsed |-> a \in new,
                 plan |-> PlanOf[a], quota |-> "left", cycle |-> "none"]]
  /\ PoolInit
  /\ pc = [c \in Callers |-> "idle"]
  /\ view = [c \in Callers |-> EmptyView]
  /\ excluded = [c \in Callers |-> {}]
  /\ acc = [c \in Callers |-> NoAccount]

\* The caller leaves with nothing in its hands.
Leave(c, where) ==
  /\ pc' = [pc EXCEPT ![c] = where]
  /\ view' = [view EXCEPT ![c] = EmptyView]
  /\ excluded' = [excluded EXCEPT ![c] = {}]

\* next, before the lock: ActiveAccounts.  A borrower excludes nothing.
ListActive(c, X) ==
  /\ pc[c] = "idle"
  /\ X # {} => c \in Requests
  /\ pc' = [pc EXCEPT ![c] = "listed"]
  /\ view' = [view EXCEPT ![c] = [a \in ActiveAccounts(row) |-> row[a]]]
  /\ excluded' = [excluded EXCEPT ![c] = X]
  /\ UNCHANGED <<row, poolVars, acc>>

\* next, under the lock.
Take(c, a) ==
  /\ pc[c] = "listed"
  /\ PoolNext(view[c], excluded[c], a)
  /\ acc' = [acc EXCEPT ![c] = a]
  /\ Leave(c, "calling")
  /\ UNCHANGED row

\* NoAccountsError: the listing is empty or all of it is excluded.
Refused(c) ==
  /\ pc[c] = "listed"
  /\ NoAccounts(view[c], excluded[c])
  /\ Leave(c, IF c \in Requests THEN "idle" ELSE "finished")
  /\ UNCHANGED <<row, poolVars, acc>>

\* runAttempts: the call came back, Done.
Return(c) ==
  /\ c \in Requests
  /\ pc[c] = "calling"
  /\ PoolDone(acc[c])
  /\ pc' = [pc EXCEPT ![c] = "returned"]
  /\ UNCHANGED <<row, view, excluded, acc>>

\* A refresher's fetch ended: the slot stays taken.
Finish(c) ==
  /\ c \in Borrowers
  /\ pc[c] = "calling"
  /\ pc' = [pc EXCEPT ![c] = "finished"]
  /\ UNCHANGED <<row, poolVars, view, excluded, acc>>

\* The request is over and drops its account.
Over(c) ==
  /\ c \in Requests
  /\ pc[c] = "returned"
  /\ pc' = [pc EXCEPT ![c] = "idle"]
  /\ acc' = [acc EXCEPT ![c] = NoAccount]
  /\ UNCHANGED <<view, excluded>>

\* Success: MarkUsed, then Reserve.
Delivered(c) ==
  /\ Over(c)
  /\ row' = MarkUsed(row, acc[c])
  /\ Reserve(acc[c], ReservationTTL)

\* A zero-signature gateway 403: MarkGatewayBlocked.
Blocked(c) ==
  /\ Over(c)
  /\ acc[c] \in Coolable
  /\ MarkGatewayBlocked(acc[c])
  /\ UNCHANGED row

\* MarkExhausted, MarkError or MarkTransient.
Failed(c, s) ==
  /\ Over(c)
  /\ s \in FailureStatus
  /\ acc[c] \in Volatile
  /\ row' = SetAccountStatus(row, acc[c], s)
  /\ UNCHANGED poolVars

\* A quota refresh: the row's quota and status follow what billing says.
Refreshed(a, q) ==
  /\ a \in Volatile
  /\ q \in {"left", "spent"}
  /\ row' = SetAccountStatus(SetQuotaSnapshot(row, a, row[a].plan, q, row[a].cycle),
                             a, IF q = "spent" THEN "exhausted" ELSE "active")
  /\ UNCHANGED <<poolVars, callerVars>>

\* The last call used the quota up, the status has not followed yet.
RunsOut(a) ==
  /\ a \in Volatile
  /\ row' = SetQuotaSnapshot(row, a, row[a].plan, "spent", row[a].cycle)
  /\ UNCHANGED <<poolVars, callerVars>>

ClockTicks(a) ==
  /\ CooldownEnds(a) \/ ReservationEnds(a)
  /\ UNCHANGED <<row, callerVars>>

Next ==
  \/ \E c \in Callers :
       \/ \E X \in Exclusions : ListActive(c, X)
       \/ \E a \in Accounts : Take(c, a)
       \/ Refused(c)
       \/ Return(c)
       \/ Finish(c)
       \/ Delivered(c)
       \/ Blocked(c)
       \/ \E s \in Status : Failed(c, s)
  \/ \E a \in Accounts :
       \/ \E q \in Quota : Refreshed(a, q)
       \/ RunsOut(a)
       \/ ClockTicks(a)

Spec == Init /\ [][Next]_vars

(***************************************************************************)
(* Properties.                                                             *)
(***************************************************************************)

\* The callers an account's counter stands for: the calls under way, and the
\* borrowers that have ended without giving their slot back.
Holders(a) == {c \in Callers : pc[c] \in {"calling", "finished"} /\ acc[c] = a}

\* The in-flight counter Next and Done keep never drifts: whatever the
\* interleaving, it is the number of calls under way plus the slots the
\* borrowers kept.  Done's clamp at zero never swallows a release.
InFlightAccounted == \A a \in Accounts : inFlight[a] = Cardinality(Holders(a))

\* c is being given an account in this step.
IsGiven(c) == pc[c] = "listed" /\ pc'[c] = "calling"

\* The three rounds of next: an account whose quota was spent in the listing
\* is given out only when every account the caller accepts was spent, and a
\* cooled one only when none was both unspent and out of its cooldown.
GivenByRounds ==
  \A c \in Callers : IsGiven(c) =>
    LET p     == acc'[c]
        other == DOMAIN view[c] \ excluded[c]
    IN  /\ p \in other
        /\ view[c][p].quota = "spent" => \A b \in other : view[c][b].quota = "spent"
        /\ p \in gatewayCooldown =>
             \A b \in other : b \in gatewayCooldown \/ view[c][b].quota = "spent"

RoundsRespected == [][GivenByRounds]_vars

\* Among the accounts of its own plan that are no worse off by the rounds, the
\* account given out is a never-used one if there is one, then one with the
\* fewest calls in flight, then one no client has reserved: the early break of
\* pickIndex does not lose a better account of the plan.
GivenBestOfItsPlan ==
  \A c \in Callers : IsGiven(c) =>
    LET p     == acc'[c]
        peers == {b \in DOMAIN view[c] \ excluded[c] :
                    /\ view[c][b].plan = view[c][p].plan
                    /\ b \in gatewayCooldown => p \in gatewayCooldown
                    /\ view[c][b].quota = "spent" => view[c][p].quota = "spent"}
        used(b) == ~view[c][b].neverUsed
    IN  \A b \in peers :
          /\ used(p) => used(b)
          /\ used(p) = used(b) => inFlight[p] <= inFlight[b]
          /\ (used(p) = used(b) /\ inFlight[p] = inFlight[b] /\ p \in reservedUntil)
               => b \in reservedUntil

BestOfItsPlan == [][GivenBestOfItsPlan]_vars

\* pool.go, on inFlight: "inFlight is > 0 only while a request is really in
\* flight".  The borrowers break it: their accounts look busy until a restart.
InFlightOnlyWhileCalling ==
  \A a \in Accounts :
    inFlight[a] > 0 => \E c \in Callers : pc[c] = "calling" /\ acc[c] = a

\* pool.go and pool_test.go, on the preferred plan: a solo-trial account is
\* taken before any other, "even when its load or its use is worse".  The early
\* break of pickIndex can stop the scan on an account of another plan first.
PreferredPlanFirst ==
  [][\A c \in Callers : IsGiven(c) =>
       \A b \in Candidates(view[c], excluded[c]) :
         PreferredPlan(view[c][b]) => PreferredPlan(view[c][acc'[c]])]_vars
=============================================================================
