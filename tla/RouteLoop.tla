------------------------------ MODULE RouteLoop -----------------------------
(***************************************************************************)
(* internal/router/route_loop.go: the retry and failover loop behind Chat  *)
(* and Stream, several requests at a time on one pool and one store.       *)
(*                                                                         *)
(* One turn of a request's loop is four steps:                             *)
(*   Select   selectAccount: the pinned account, the conversation's owner, *)
(*            or the pool; the row read here is the snapshot "acc" the     *)
(*            rest of the turn decides on                                  *)
(*   Return   the provider's call comes back with a result; Pool.Done      *)
(*   Sync     persistQuota and applyUsageState                             *)
(*   one of the branches on the result, which ends the request or starts   *)
(*            the next turn                                                *)
(* Other requests, an operator and a billing refresh act in between.  The  *)
(* window between ActiveAccounts and the pool's lock is PoolClients'       *)
(* subject; selection is one step here.  Back-off sleeps and traces change *)
(* no state.                                                               *)
(***************************************************************************)
EXTENDS Pool, QuotaWrites

CONSTANTS
  Requests,        \* the requests; each runs the loop once
  Streaming,       \* those served by Stream: output may precede a failure
  Continuations,   \* those whose messages have a reusable history
  StickyOwner,     \* Provider.StickyAccount, for each continuation
  RetryCount,      \* setting retry_count
  Failover,        \* setting failover_enabled
  ReservationTTL,  \* setting account_reservation_seconds
  UsageCycles,     \* whether usage events carry a usageCycle
  InitialQuota,    \* what the table knows of each account's quota
  Results,         \* what the upstream calls of this instance may return
  MaxChanges       \* bound: operator, billing and clock steps in a behaviour

NoAccount == -1

(***************************************************************************)
(* What a call can return: res.Kind, with a zero-signature gateway 403     *)
(* ("gateway") told from one with HTML or JS in the body ("content"), and  *)
(* res.Usage.UsageState.  "rate" is KindRateLimited or IsTransient,        *)
(* "flagged" the safety checks, "other" an unclassified error, "gone" the  *)
(* client disconnected.                                                    *)
(***************************************************************************)

UsageState == {"AVAILABLE", "EXCEEDED", "UNAVAILABLE", "BLOCKED"}

Result ==
  [kind : {"success", "rejected", "flagged", "upstream", "rate", "other"},
   usage : {"none", "AVAILABLE"}]
  \cup [kind : {"gateway", "content", "auth"}, usage : {"none"}]
  \cup [kind : {"quota", "gone"}, usage : {"none"} \cup UsageState]

NoResult == [kind |-> "none", usage |-> "none"]

\* Failures that precede the response body: nothing can have been emitted.
BeforeBody == {"gateway", "content", "auth"}

ASSUME RouteAssumption ==
  /\ IsFiniteSet(Requests)
  /\ Streaming \subseteq Requests
  /\ Continuations \subseteq Requests
  /\ StickyOwner \in [Continuations -> Accounts \cup {NoAccount}]
  /\ RetryCount \in Nat \ {0}
  /\ Failover \in BOOLEAN
  /\ ReservationTTL \in Nat
  /\ UsageCycles \subseteq BOOLEAN
  /\ InitialQuota \in [Accounts -> Quota]
  /\ Results \subseteq Result
  /\ MaxChanges \in Nat

Attempts == IF Failover THEN RetryCount ELSE 1

VARIABLES
  pc,           \* selecting, invoking, returned, synced, finished
  attempt,      \* the loop variable
  maxAttempts,  \* its bound, which grows
  excluded,
  pinned,       \* pinnedAcc, or NoAccount
  gwRetried,
  acc,          \* the account called, [id, row as read]; then prevAcc
  pooled,       \* poolUsed
  result,       \* what the last call returned
  emitted,      \* output was flushed to the client
  egressSeq,    \* EgressAttempt of the last call
  verdict,      \* how the request ended
  dead,         \* history: the accounts it found blocked or without a session
  changes       \* history: the steps of the environment so far

turnVars == <<excluded, pinned, gwRetried, dead>>
callVars == <<acc, pooled, result, emitted, egressSeq>>
loopVars == <<pc, attempt, maxAttempts, verdict>>

vars == <<row, poolVars, turnVars, callVars, loopVars, changes>>

Snapshot == [id : Accounts \cup {NoAccount}, row : Row]

Verdict == {"none", "delivered", "gone", "gateway", "rejected", "aborted",
            "failed", "noAccounts"}

\* The turns a request has won beyond its attempts.
FreeTurns(r) == Cardinality(dead[r]) + (IF gwRetried[r] THEN 1 ELSE 0)

\* Every variable has its type, and a request past its selection has an account.
TypeOK ==
  /\ row \in Table
  /\ PoolTypeOK
  /\ pc \in [Requests -> {"selecting", "invoking", "returned", "synced", "finished"}]
  /\ attempt \in [Requests -> Nat]
  /\ maxAttempts \in [Requests -> Nat]
  /\ excluded \in [Requests -> SUBSET Accounts]
  /\ pinned \in [Requests -> Accounts \cup {NoAccount}]
  /\ gwRetried \in [Requests -> BOOLEAN]
  /\ acc \in [Requests -> Snapshot]
  /\ pooled \in [Requests -> BOOLEAN]
  /\ result \in [Requests -> Result \cup {NoResult}]
  /\ emitted \in [Requests -> BOOLEAN]
  /\ egressSeq \in [Requests -> Nat]
  /\ verdict \in [Requests -> Verdict]
  /\ dead \in [Requests -> SUBSET Accounts]
  /\ changes \in Nat
  /\ \A r \in Requests : pc[r] \in {"invoking", "returned", "synced"} => acc[r].id \in Accounts

FirstRow(a) == [status |-> "active", enabled |-> TRUE, neverUsed |-> FALSE,
                plan |-> "free", quota |-> InitialQuota[a], cycle |-> "none"]

NoSnapshot ==
  [id |-> NoAccount,
   row |-> [status |-> "active", enabled |-> TRUE, neverUsed |-> FALSE,
            plan |-> "free", quota |-> "unknown", cycle |-> "none"]]

Init ==
  /\ row = [a \in Accounts |-> FirstRow(a)]
  /\ PoolInit
  /\ pc = [r \in Requests |-> "selecting"]
  /\ attempt = [r \in Requests |-> 0]
  /\ maxAttempts = [r \in Requests |-> Attempts]
  /\ excluded = [r \in Requests |-> {}]
  /\ pinned = [r \in Requests |-> NoAccount]
  /\ gwRetried = [r \in Requests |-> FALSE]
  /\ acc = [r \in Requests |-> NoSnapshot]
  /\ pooled = [r \in Requests |-> FALSE]
  /\ result = [r \in Requests |-> NoResult]
  /\ emitted = [r \in Requests |-> FALSE]
  /\ egressSeq = [r \in Requests |-> 0]
  /\ verdict = [r \in Requests |-> "none"]
  /\ dead = [r \in Requests |-> {}]
  /\ changes = 0

(***************************************************************************)
(* selectAccount.                                                          *)
(***************************************************************************)

\* usableForSticky: an account in error still serves its conversation.
UsableForSticky(w) == w.enabled /\ w.status # "exhausted" /\ ~QuotaExhausted(w)

Returns(r, a) == a \in Accounts \ excluded[r] /\ UsableForSticky(row[a])

IsPinned(r) == Returns(r, pinned[r])

\* StickyAccount knows an owner only for messages with a reusable history.
Owner(r) == IF r \in Continuations THEN StickyOwner[r] ELSE NoAccount

IsSticky(r) == ~IsPinned(r) /\ Returns(r, Owner(r))

Listing == [a \in ActiveAccounts(row) |-> row[a]]

\* nextEgressSeq: back to the sticky egress when the account changes.
NextEgressSeq(r, a) ==
  IF attempt[r] = 0 \/ a # acc[r].id THEN 0 ELSE egressSeq[r] + 1

\* The call on a starts.
Call(r, a, fromPool) ==
  /\ acc' = [acc EXCEPT ![r] = [id |-> a, row |-> row[a]]]
  /\ pooled' = [pooled EXCEPT ![r] = fromPool]
  /\ egressSeq' = [egressSeq EXCEPT ![r] = NextEgressSeq(r, a)]
  /\ pc' = [pc EXCEPT ![r] = "invoking"]
  /\ UNCHANGED <<row, turnVars, result, emitted, attempt, maxAttempts, verdict, changes>>

SelectPinned(r) ==
  /\ pc[r] = "selecting"
  /\ IsPinned(r)
  /\ Call(r, pinned[r], FALSE)
  /\ UNCHANGED poolVars

SelectSticky(r) ==
  /\ pc[r] = "selecting"
  /\ IsSticky(r)
  /\ Call(r, Owner(r), FALSE)
  /\ UNCHANGED poolVars

SelectPooled(r, a) ==
  /\ pc[r] = "selecting"
  /\ ~IsPinned(r) /\ ~IsSticky(r)
  /\ PoolNext(Listing, excluded[r], a)
  /\ Call(r, a, TRUE)

End(r, how) ==
  /\ pc' = [pc EXCEPT ![r] = "finished"]
  /\ verdict' = [verdict EXCEPT ![r] = how]
  /\ UNCHANGED <<attempt, maxAttempts>>

SelectFails(r) ==
  /\ pc[r] = "selecting"
  /\ ~IsPinned(r) /\ ~IsSticky(r)
  /\ NoAccounts(Listing, excluded[r])
  /\ End(r, "noAccounts")
  /\ UNCHANGED <<row, poolVars, turnVars, callVars, changes>>

(***************************************************************************)
(* The call comes back, then the store follows what it said.               *)
(***************************************************************************)

\* Mutant: Done whether or not the account came from the pool.
ReturnAlwaysDone(r, res, e) ==
  /\ pc[r] = "invoking"
  /\ e => r \in Streaming /\ res.kind \notin BeforeBody
  /\ PoolDone(acc[r].id)
  /\ result' = [result EXCEPT ![r] = res]
  /\ emitted' = [emitted EXCEPT ![r] = @ \/ e]
  /\ pc' = [pc EXCEPT ![r] = "returned"]
  /\ UNCHANGED <<row, turnVars, acc, pooled, egressSeq, attempt, maxAttempts,
                 verdict, changes>>

Return(r, res, e) ==
  /\ pc[r] = "invoking"
  /\ e => r \in Streaming /\ res.kind \notin BeforeBody
  /\ IF pooled[r] THEN PoolDone(acc[r].id) ELSE UNCHANGED poolVars
  /\ result' = [result EXCEPT ![r] = res]
  /\ emitted' = [emitted EXCEPT ![r] = @ \/ e]
  /\ pc' = [pc EXCEPT ![r] = "returned"]
  /\ UNCHANGED <<row, turnVars, acc, pooled, egressSeq, attempt, maxAttempts,
                 verdict, changes>>

Sync(r, withCycle) ==
  /\ pc[r] = "returned"
  /\ row' = ApplyUsageState(PersistQuota(row, acc[r], result[r].usage, withCycle),
                            acc[r], result[r].usage)
  /\ pc' = [pc EXCEPT ![r] = "synced"]
  /\ UNCHANGED <<poolVars, turnVars, callVars, attempt, maxAttempts, verdict, changes>>

(***************************************************************************)
(* The branches of the loop.                                               *)
(***************************************************************************)

\* Mutant: the loop without its attempt++.
ContinueUncounted(r, extra) ==
  /\ maxAttempts' = [maxAttempts EXCEPT ![r] = @ + extra]
  /\ pc' = [pc EXCEPT ![r] = "selecting"]
  /\ UNCHANGED <<attempt, verdict>>

\* The next turn, the budget raised by extra, or "All accounts failed".
Continue(r, extra) ==
  /\ attempt' = [attempt EXCEPT ![r] = @ + 1]
  /\ maxAttempts' = [maxAttempts EXCEPT ![r] = @ + extra]
  /\ \/ /\ attempt[r] + 1 < maxAttempts[r] + extra
        /\ pc' = [pc EXCEPT ![r] = "selecting"]
        /\ UNCHANGED verdict
     \/ /\ attempt[r] + 1 >= maxAttempts[r] + extra
        /\ pc' = [pc EXCEPT ![r] = "finished"]
        /\ verdict' = [verdict EXCEPT ![r] = "failed"]

\* abort: once output has begun the request ends instead.
AbortOrContinue(r, extra) ==
  \/ emitted[r] /\ End(r, "aborted")
  \/ ~emitted[r] /\ Continue(r, extra)

Exclude(r) == excluded' = [excluded EXCEPT ![r] = @ \cup {acc[r].id}]

\* Every branch starts here; a branch is taken when those before it are not.
Decides(r, kind) ==
  /\ pc[r] = "synced"
  /\ result[r].kind = kind
  /\ UNCHANGED <<callVars, changes>>

Succeed(r) ==
  /\ Decides(r, "success")
  /\ row' = MarkUsed(row, acc[r].id)
  /\ Reserve(acc[r].id, ReservationTTL)
  /\ End(r, "delivered")
  /\ UNCHANGED turnVars

ClientGone(r) ==
  /\ Decides(r, "gone")
  /\ End(r, "gone")
  /\ UNCHANGED <<row, poolVars, turnVars>>

\* The first zero-signature 403 of the request: one more turn.
GatewayRetry(r) ==
  /\ Decides(r, "gateway")
  /\ ~gwRetried[r]
  /\ MarkGatewayBlocked(acc[r].id)
  /\ \/ /\ emitted[r]
        /\ End(r, "aborted")
        /\ UNCHANGED gwRetried
     \/ /\ ~emitted[r]
        /\ gwRetried' = [gwRetried EXCEPT ![r] = TRUE]
        /\ Continue(r, 1)
  /\ UNCHANGED <<row, excluded, pinned, dead>>

\* The second one, or a 403 over the content: the request ends.
GatewayStop(r) ==
  /\ \/ Decides(r, "gateway") /\ gwRetried[r] /\ MarkGatewayBlocked(acc[r].id)
     \/ Decides(r, "content") /\ UNCHANGED poolVars
  /\ End(r, IF emitted[r] THEN "aborted" ELSE "gateway")
  /\ UNCHANGED <<row, turnVars>>

RequestRejected(r) ==
  /\ Decides(r, "rejected")
  /\ End(r, "rejected")
  /\ UNCHANGED <<row, poolVars, turnVars>>

\* usageState BLOCKED: Sync has disabled the account; the turn is free.
AccountBlocked(r) ==
  /\ Decides(r, "quota")
  /\ result[r].usage = "BLOCKED"
  /\ Exclude(r)
  /\ AbortOrContinue(r, 1)
  /\ dead' = [dead EXCEPT ![r] = @ \cup {acc[r].id}]
  /\ UNCHANGED <<row, poolVars, pinned, gwRetried>>

\* Mutant: an exhausted account gives a free turn like a dead one.
QuotaExceededFree(r) ==
  /\ Decides(r, "quota")
  /\ result[r].usage # "BLOCKED"
  /\ Exclude(r)
  /\ row' = SetAccountStatus(row, acc[r].id, "exhausted")
  /\ AbortOrContinue(r, 1)
  /\ UNCHANGED <<poolVars, pinned, gwRetried, dead>>

QuotaExceeded(r) ==
  /\ Decides(r, "quota")
  /\ result[r].usage # "BLOCKED"
  /\ Exclude(r)
  /\ row' = SetAccountStatus(row, acc[r].id, "exhausted")
  /\ AbortOrContinue(r, 0)
  /\ UNCHANGED <<poolVars, pinned, gwRetried, dead>>

\* Mutant: dead sessions use the retry budget up.
AuthFailedCharged(r) ==
  /\ Decides(r, "auth")
  /\ row' = MarkOffline(row, acc[r])
  /\ Exclude(r)
  /\ AbortOrContinue(r, 0)
  /\ dead' = [dead EXCEPT ![r] = @ \cup {acc[r].id}]
  /\ UNCHANGED <<poolVars, pinned, gwRetried>>

\* markOffline: the session is dead; the turn is free.
AuthFailed(r) ==
  /\ Decides(r, "auth")
  /\ row' = MarkOffline(row, acc[r])
  /\ Exclude(r)
  /\ AbortOrContinue(r, 1)
  /\ dead' = [dead EXCEPT ![r] = @ \cup {acc[r].id}]
  /\ UNCHANGED <<poolVars, pinned, gwRetried>>

\* Mutant: a stream that breaks after its first output is retried.
RateLimitedRetried(r) ==
  /\ Decides(r, "rate")
  /\ row' = SetAccountStatus(row, acc[r].id, "active")
  /\ Continue(r, 0)
  /\ UNCHANGED <<poolVars, turnVars>>

\* KindRateLimited or a transient error: MarkTransient, abort after it.
RateLimited(r) ==
  /\ Decides(r, "rate")
  /\ row' = SetAccountStatus(row, acc[r].id, "active")
  /\ AbortOrContinue(r, 0)
  /\ UNCHANGED <<poolVars, turnVars>>

\* Mutant: only the conversation's owner keeps a continuation in place.
PinNothing(r) == pinned' = pinned

\* From here on abort comes first, and a continuation is pinned.
Pin(r) ==
  pinned' = IF r \in Continuations THEN [pinned EXCEPT ![r] = acc[r].id] ELSE pinned

AbortedFirst(r) ==
  /\ \E kind \in {"flagged", "upstream", "other"} : Decides(r, kind)
  /\ emitted[r]
  /\ End(r, "aborted")
  /\ UNCHANGED <<row, poolVars, turnVars>>

SafetyFlagged(r) ==
  /\ Decides(r, "flagged")
  /\ ~emitted[r]
  /\ Pin(r)
  /\ Exclude(r)
  /\ row' = SetAccountStatus(row, acc[r].id, "active")
  /\ Continue(r, 0)
  /\ UNCHANGED <<poolVars, gwRetried, dead>>

\* MarkTransient for a failure of the upstream's model call, MarkError for an
\* unclassified one.
UpstreamFailure(r, kind) ==
  /\ kind \in {"upstream", "other"}
  /\ Decides(r, kind)
  /\ ~emitted[r]
  /\ Pin(r)
  /\ row' = SetAccountStatus(row, acc[r].id, IF kind = "upstream" THEN "active" ELSE "error")
  /\ Continue(r, 0)
  /\ UNCHANGED <<poolVars, excluded, gwRetried, dead>>

(***************************************************************************)
(* The rest of the system, as far as it touches the same rows.             *)
(***************************************************************************)

\* PATCH /accounts/{id}.
OperatorToggles(a, on) ==
  /\ changes < MaxChanges
  /\ row' = SetAccountEnabled(row, a, on)
  /\ changes' = changes + 1
  /\ UNCHANGED <<poolVars, turnVars, callVars, loopVars>>

\* A billing refresh that found the quota left or spent, in one step.
BillingRefreshed(a, q) ==
  /\ changes < MaxChanges
  /\ q \in {"left", "spent"}
  /\ row[a].enabled
  /\ row' = SetQuotaSnapshot(
              SetAccountStatus(row, a, IF q = "spent" THEN "exhausted" ELSE "active"),
              a, row[a].plan, q, row[a].cycle)
  /\ changes' = changes + 1
  /\ UNCHANGED <<poolVars, turnVars, callVars, loopVars>>

ClockTicks(a) ==
  /\ changes < MaxChanges
  /\ CooldownEnds(a) \/ ReservationEnds(a)
  /\ changes' = changes + 1
  /\ UNCHANGED <<row, turnVars, callVars, loopVars>>

\* What the loop does by itself, the provider's answer in hand or not yet asked.
OwnStep(r) ==
  \/ SelectPinned(r)
  \/ SelectSticky(r)
  \/ \E a \in Accounts : SelectPooled(r, a)
  \/ SelectFails(r)
  \/ \E withCycle \in UsageCycles : Sync(r, withCycle)
  \/ Succeed(r)
  \/ ClientGone(r)
  \/ GatewayRetry(r)
  \/ GatewayStop(r)
  \/ RequestRejected(r)
  \/ AccountBlocked(r)
  \/ QuotaExceeded(r)
  \/ AuthFailed(r)
  \/ RateLimited(r)
  \/ AbortedFirst(r)
  \/ SafetyFlagged(r)
  \/ \E kind \in {"upstream", "other"} : UpstreamFailure(r, kind)

Turn(r) ==
  \/ \E res \in Results, e \in BOOLEAN : Return(r, res, e)
  \/ OwnStep(r)

Environment ==
  \E a \in Accounts :
    \/ \E on \in BOOLEAN : OperatorToggles(a, on)
    \/ \E q \in Quota : BillingRefreshed(a, q)
    \/ ClockTicks(a)

Next == (\E r \in Requests : Turn(r)) \/ Environment

\* A request's goroutine keeps running and nothing in the loop waits for another
\* request.  Of a provider call under way nothing is assumed: its timeout is not
\* looked at once the response headers are there, so a silent upstream, or a
\* client that has stopped reading, keeps it for ever.
Fairness == \A r \in Requests : WF_vars(OwnStep(r))

Spec == Init /\ [][Next]_vars /\ Fairness

(***************************************************************************)
(* Properties.                                                             *)
(***************************************************************************)

\* The calls under way on a that the pool gave out.
Holders(a) == {r \in Requests : pc[r] = "invoking" /\ pooled[r] /\ acc[r].id = a}

\* Whatever way a turn ends, the pool's counter of an account is the number of
\* pooled calls on it: no branch leaks a slot or gives one back twice, and the
\* calls that bypass the pool (pinned, sticky) touch no counter.
SlotsMatchCalls == \A a \in Accounts : inFlight[a] = Cardinality(Holders(a))

\* The loop bound grows by one for each account found dead and for the gateway
\* retry, and for nothing else.  Since a dead account is excluded it counts
\* once, so the number of turns is bounded however many accounts die.
BudgetExact ==
  \A r \in Requests :
    /\ maxAttempts[r] <= Attempts + FreeTurns(r)
    /\ verdict[r] # "aborted" => maxAttempts[r] = Attempts + FreeTurns(r)
    /\ attempt[r] <= maxAttempts[r]
    /\ dead[r] \subseteq excluded[r]
    /\ pc[r] \in {"invoking", "returned", "synced"} => acc[r].id \notin dead[r]

\* "All accounts failed" is said only when every attempt of the setting was
\* spent on a living account: dead ones never use the budget up.
FailedOnTheLiving ==
  \A r \in Requests : verdict[r] = "failed" =>
    attempt[r] = Attempts + FreeTurns(r)

\* Once output has been flushed no branch may start another turn, which would
\* send the client a second answer after part of the first.
NoTurnAfterOutput ==
  \A r \in Requests : emitted[r] => pc[r] # "selecting"

\* A failure the account is not to blame for keeps a continuation where its
\* server-side session is: the next call goes to the same account, unless that
\* has meanwhile become unusable.
ContinuationStays ==
  [][\A r \in Continuations :
       /\ pc[r] = "selecting" /\ pc'[r] = "invoking"
       /\ result[r].kind \in {"upstream", "other"}
       /\ UsableForSticky(row[acc[r].id])
       => acc'[r].id = acc[r].id]_vars

\* An account found blocked or without a session stays out of every request's
\* reach until something other than a request enables it: the stale snapshots
\* of the calls still under way on it never switch it back on.
DeadStaysOut ==
  \A r \in Requests : \A a \in dead[r] : changes = 0 => ~row[a].enabled

\* Every request ends unless one of its provider calls never returns: the
\* retries, the free turns for dead accounts and the gateway retry together
\* cannot keep it going.
EveryRequestEnds ==
  \A r \in Requests : []<>(pc[r] # "invoking") => <>(pc[r] = "finished")

\* route_loop.go, on an upstream failure: "the account is healthy.  Only the
\* error text is recorded".  MarkTransient also writes the status, and undoes
\* what another request or a refresh found meanwhile.
UpstreamFailureKeepsStatus ==
  [][\A r \in Requests : UpstreamFailure(r, "upstream") =>
       row'[acc[r].id].status = row[acc[r].id].status]_vars
=============================================================================
