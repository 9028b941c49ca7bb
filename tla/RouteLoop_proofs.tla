-------------------------- MODULE RouteLoop_proofs --------------------------
(***************************************************************************)
(* Theorems about RouteLoop, for every set of accounts and requests, every *)
(* retry budget and every environment.                                     *)
(***************************************************************************)
EXTENDS RouteLoop, Pool_proofs

(***************************************************************************)
(* What the operations on a snapshot give.                                 *)
(***************************************************************************)

\* applyUsageState and its parts, as markOffline uses them, yield a table.
LEMMA SyncTyped ==
  ASSUME NEW db \in Table, NEW s \in Snapshot, s.id \in Accounts
  PROVE  /\ \A goal \in Status : StatusUnless(db, s, goal) \in Table
         /\ \A goal \in BOOLEAN : EnabledUnless(db, s, goal) \in Table
         /\ \A goal \in Status, on \in BOOLEAN :
              EnabledUnless(StatusUnless(db, s, goal), s, on) \in Table
         /\ \A usage : ApplyUsageState(db, s, usage) \in Table
         /\ \A usage, withCycle : PersistQuota(db, s, usage, withCycle) \in Table
  <1>1. ASSUME NEW d \in Table
        PROVE  /\ \A goal \in Status : StatusUnless(d, s, goal) \in Table
               /\ \A goal \in BOOLEAN : EnabledUnless(d, s, goal) \in Table
    BY <1>1, WritesTyped DEF StatusUnless, EnabledUnless
  <1>2. ASSUME NEW goal \in Status, NEW on \in BOOLEAN
        PROVE  EnabledUnless(StatusUnless(db, s, goal), s, on) \in Table
    BY <1>1
  <1>3. ASSUME NEW usage
        PROVE  ApplyUsageState(db, s, usage) \in Table
    BY <1>1, <1>2 DEF ApplyUsageState, Status
  <1>4. ASSUME NEW usage, NEW withCycle
        PROVE  PersistQuota(db, s, usage, withCycle) \in Table
    <2> DEFINE placed == SetQuotaSnapshot(db, s.id, s.row.plan, "unknown", "none")
    <2>1. placed \in Table
      BY WritesTyped DEF Snapshot, Row, Quota, Cycle
    <2>2. SetQuotaCycle(placed, s.id, "open") \in Table
      <3> HIDE DEF placed
      <3> QED
        BY <2>1, WritesTyped DEF Cycle
    <2>3. SetQuotaCycle(db, s.id, "open") \in Table
      BY WritesTyped DEF Cycle
    <2> QED
      BY <2>1, <2>2, <2>3 DEF PersistQuota
  <1> QED
    BY <1>1, <1>2, <1>3, <1>4

\* ActiveAccounts returns a listing.
LEMMA ListingTyped ==
  ASSUME row \in Table
  PROVE  IsView(Listing)
  <1>1. Listing \in [ActiveAccounts(row) -> Row]
    BY DEF Listing, ActiveAccounts, Table
  <1> QED
    BY <1>1 DEF IsView, ActiveAccounts

\* There is at least one attempt, whatever the setting.
LEMMA AttemptsTyped == Attempts \in Nat \ {0}
  BY RouteAssumption DEF Attempts

\* A turn that continues selects again or finishes.
LEMMA ContinueTyped ==
  ASSUME TypeOK, NEW r \in Requests, NEW extra \in {0, 1}, Continue(r, extra)
  PROVE  /\ attempt' \in [Requests -> Nat]
         /\ maxAttempts' \in [Requests -> Nat]
         /\ verdict' \in [Requests -> Verdict]
         /\ \/ pc' = [pc EXCEPT ![r] = "selecting"]
            \/ pc' = [pc EXCEPT ![r] = "finished"]
  BY DEF Continue, TypeOK, Verdict

\* A turn that ends finishes with its verdict.
LEMMA EndTyped ==
  ASSUME TypeOK, NEW r \in Requests, NEW how \in Verdict, End(r, how)
  PROVE  /\ attempt' \in [Requests -> Nat]
         /\ maxAttempts' \in [Requests -> Nat]
         /\ verdict' \in [Requests -> Verdict]
         /\ pc' = [pc EXCEPT ![r] = "finished"]
  BY DEF End, TypeOK

\* A turn that flushed output ends, any other continues.
LEMMA AbortOrContinueTyped ==
  ASSUME TypeOK, NEW r \in Requests, NEW extra \in {0, 1}, AbortOrContinue(r, extra)
  PROVE  /\ attempt' \in [Requests -> Nat]
         /\ maxAttempts' \in [Requests -> Nat]
         /\ verdict' \in [Requests -> Verdict]
         /\ \/ pc' = [pc EXCEPT ![r] = "selecting"]
            \/ pc' = [pc EXCEPT ![r] = "finished"]
  BY ContinueTyped, EndTyped DEF AbortOrContinue, Verdict

(***************************************************************************)
(* Types.                                                                  *)
(***************************************************************************)

\* A branch of the loop leaves the call's variables alone and moves pc on, so
\* what is left to show of it is the table, the pool and the turn's variables.
LEMMA BranchTyped ==
  ASSUME TypeOK, NEW r \in Requests,
         UNCHANGED <<callVars, changes>>,
         row' \in Table, PoolTypeOK',
         attempt' \in [Requests -> Nat],
         maxAttempts' \in [Requests -> Nat],
         verdict' \in [Requests -> Verdict],
         \/ pc' = [pc EXCEPT ![r] = "selecting"]
         \/ pc' = [pc EXCEPT ![r] = "finished"],
         excluded' \in [Requests -> SUBSET Accounts],
         pinned' \in [Requests -> Accounts \cup {NoAccount}],
         gwRetried' \in [Requests -> BOOLEAN],
         dead' \in [Requests -> SUBSET Accounts]
  PROVE  TypeOK'
  BY DEF TypeOK, callVars

\* What leaves the pool alone keeps its types.
LEMMA PoolUnchanged ==
  ASSUME PoolTypeOK, UNCHANGED poolVars
  PROVE  PoolTypeOK'
  BY DEF PoolTypeOK, poolVars

\* MarkGatewayBlocked opens a window and keeps the types.
LEMMA CoolTyped ==
  ASSUME PoolTypeOK, NEW a \in Accounts, MarkGatewayBlocked(a)
  PROVE  PoolTypeOK'
  BY DEF PoolTypeOK, MarkGatewayBlocked

\* A branch's account: there is one once the call is under way.
LEMMA HasAccount ==
  ASSUME TypeOK, NEW r \in Requests, pc[r] \in {"invoking", "returned", "synced"}
  PROVE  acc[r].id \in Accounts /\ acc[r] \in Snapshot
  BY DEF TypeOK

\* The three ways selectAccount finds an account keep the types.
LEMMA SelectTyped ==
  ASSUME TypeOK, NEW r \in Requests,
         SelectPinned(r) \/ SelectSticky(r) \/ (\E a \in Accounts : SelectPooled(r, a))
  PROVE  TypeOK'
  <1>1. ASSUME NEW a \in Accounts, NEW fromPool \in BOOLEAN, Call(r, a, fromPool), PoolTypeOK'
        PROVE  TypeOK'
    <2>1. [id |-> a, row |-> row[a]] \in Snapshot
      BY DEF Snapshot, TypeOK, Table
    <2>2. NextEgressSeq(r, a) \in Nat
      BY DEF NextEgressSeq, TypeOK
    <2>3. /\ acc' \in [Requests -> Snapshot]
          /\ egressSeq' \in [Requests -> Nat]
          /\ pooled' \in [Requests -> BOOLEAN]
      BY <1>1, <2>1, <2>2 DEF Call, TypeOK
    <2>4. acc'[r].id = a /\ \A q \in Requests \ {r} : acc'[q] = acc[q] /\ pc'[q] = pc[q]
      BY <1>1 DEF Call, TypeOK
    <2>5. pc' \in [Requests -> {"selecting", "invoking", "returned", "synced", "finished"}]
      BY <1>1 DEF Call, TypeOK
    <2>6. UNCHANGED <<row, turnVars, result, emitted, attempt, maxAttempts, verdict, changes>>
      BY <1>1 DEF Call
    <2> QED
      BY <1>1, <2>3, <2>4, <2>5, <2>6 DEF TypeOK, turnVars
  <1>2. ASSUME NEW a, Returns(r, a)
        PROVE  a \in Accounts
    BY <1>2 DEF Returns
  <1>3. CASE SelectPinned(r)
    BY <1>1, <1>2, <1>3, PoolUnchanged DEF SelectPinned, IsPinned, TypeOK
  <1>4. CASE SelectSticky(r)
    BY <1>1, <1>2, <1>4, PoolUnchanged DEF SelectSticky, IsSticky, TypeOK
  <1>5. CASE \E a \in Accounts : SelectPooled(r, a)
    <2>1. PICK a \in Accounts : SelectPooled(r, a)
      BY <1>5
    <2>2. PoolTypeOK'
      BY <2>1, ListingTyped, PoolNextTyped DEF SelectPooled, TypeOK
    <2> QED
      BY <1>1, <2>1, <2>2 DEF SelectPooled
  <1> QED
    BY <1>3, <1>4, <1>5

\* A call that returns gives its slot back and keeps the types.
LEMMA ReturnTyped ==
  ASSUME TypeOK, NEW r \in Requests, NEW res \in Results, NEW e \in BOOLEAN, Return(r, res, e)
  PROVE  TypeOK'
  <1>1. PoolTypeOK'
    BY HasAccount, PoolDoneTyped, PoolUnchanged DEF Return, TypeOK
  <1>2. result' \in [Requests -> Result \cup {NoResult}]
    BY RouteAssumption DEF Return, TypeOK
  <1>3. emitted' \in [Requests -> BOOLEAN]
    BY DEF Return, TypeOK
  <1>4. /\ pc' \in [Requests -> {"selecting", "invoking", "returned", "synced", "finished"}]
        /\ \A q \in Requests : pc'[q] \in {"invoking", "returned", "synced"} =>
                                acc'[q].id \in Accounts
    BY DEF Return, TypeOK
  <1> QED
    BY <1>1, <1>2, <1>3, <1>4 DEF Return, TypeOK, turnVars

\* The writes of quota and usage state keep the types.
LEMMA SyncStepTyped ==
  ASSUME TypeOK, NEW r \in Requests, NEW withCycle, Sync(r, withCycle)
  PROVE  TypeOK'
  <1>1. row' \in Table
    <2> DEFINE db == PersistQuota(row, acc[r], result[r].usage, withCycle)
    <2>1. acc[r] \in Snapshot /\ acc[r].id \in Accounts
      BY HasAccount DEF Sync
    <2>2. db \in Table
      BY <2>1, SyncTyped DEF TypeOK
    <2>3. row' = ApplyUsageState(db, acc[r], result[r].usage)
      BY DEF Sync
    <2> HIDE DEF db
    <2> QED
      BY <2>1, <2>2, <2>3, SyncTyped
  <1>2. PoolTypeOK'
    BY PoolUnchanged DEF Sync, TypeOK
  <1>3. /\ pc' \in [Requests -> {"selecting", "invoking", "returned", "synced", "finished"}]
        /\ \A q \in Requests : pc'[q] \in {"invoking", "returned", "synced"} =>
                                acc'[q].id \in Accounts
    BY DEF Sync, TypeOK, callVars
  <1> QED
    BY <1>1, <1>2, <1>3 DEF Sync, TypeOK, turnVars, callVars

\* The branches that end the request and touch at most the pool or one row.
LEMMA EndingBranchesTyped ==
  ASSUME TypeOK, NEW r \in Requests,
         Succeed(r) \/ ClientGone(r) \/ GatewayStop(r) \/ RequestRejected(r) \/ AbortedFirst(r)
  PROVE  TypeOK'
  <1>1. acc[r].id \in Accounts
    BY HasAccount DEF Succeed, ClientGone, GatewayStop, RequestRejected, AbortedFirst, Decides
  <1>2. /\ UNCHANGED <<callVars, changes>>
        /\ UNCHANGED turnVars
        /\ \E how \in Verdict : End(r, how)
    BY DEF Succeed, ClientGone, GatewayStop, RequestRejected, AbortedFirst, Decides, Verdict
  <1>3. row' \in Table
    BY <1>1, WritesTyped
    DEF Succeed, ClientGone, GatewayStop, RequestRejected, AbortedFirst, TypeOK
  <1>4. PoolTypeOK'
    <2>1. CASE Succeed(r)
      BY <1>1, <2>1 DEF Succeed, Reserve, PoolTypeOK, TypeOK
    <2>2. CASE GatewayStop(r)
      BY <1>1, <2>2, CoolTyped, PoolUnchanged DEF GatewayStop, TypeOK
    <2>3. CASE ClientGone(r) \/ RequestRejected(r) \/ AbortedFirst(r)
      BY <2>3, PoolUnchanged DEF ClientGone, RequestRejected, AbortedFirst, TypeOK
    <2> QED
      BY <2>1, <2>2, <2>3
  <1>5. /\ excluded' \in [Requests -> SUBSET Accounts]
        /\ pinned' \in [Requests -> Accounts \cup {NoAccount}]
        /\ gwRetried' \in [Requests -> BOOLEAN]
        /\ dead' \in [Requests -> SUBSET Accounts]
    BY <1>2 DEF TypeOK, turnVars
  <1> QED
    BY <1>2, <1>3, <1>4, <1>5, EndTyped, BranchTyped

\* The free retry behind a blocked gateway keeps the types.
LEMMA GatewayRetryTyped ==
  ASSUME TypeOK, NEW r \in Requests, GatewayRetry(r)
  PROVE  TypeOK'
  <1>1. acc[r].id \in Accounts
    BY HasAccount DEF GatewayRetry, Decides
  <1>2. PoolTypeOK'
    BY <1>1, CoolTyped DEF GatewayRetry, TypeOK
  <1>3. gwRetried' \in [Requests -> BOOLEAN]
    BY DEF GatewayRetry, TypeOK
  <1>4. AbortOrContinue(r, 1)
    BY DEF GatewayRetry, AbortOrContinue
  <1>5. /\ row' \in Table
        /\ excluded' \in [Requests -> SUBSET Accounts]
        /\ pinned' \in [Requests -> Accounts \cup {NoAccount}]
        /\ dead' \in [Requests -> SUBSET Accounts]
        /\ UNCHANGED <<callVars, changes>>
    BY DEF GatewayRetry, Decides, TypeOK
  <1> QED
    BY <1>2, <1>3, <1>4, <1>5, AbortOrContinueTyped, BranchTyped

\* The branches that exclude the account, write its row, or both.
LEMMA RetryingBranchesTyped ==
  ASSUME TypeOK, NEW r \in Requests,
         \/ AccountBlocked(r) \/ QuotaExceeded(r) \/ AuthFailed(r) \/ RateLimited(r)
         \/ SafetyFlagged(r) \/ \E kind \in {"upstream", "other"} : UpstreamFailure(r, kind)
  PROVE  TypeOK'
  <1> USE DEF AccountBlocked, QuotaExceeded, AuthFailed, RateLimited, SafetyFlagged,
              UpstreamFailure
  <1>1. acc[r].id \in Accounts /\ acc[r] \in Snapshot
    BY HasAccount DEF Decides
  <1>2. row' \in Table
    <2>1. \A s \in {"active", "exhausted", "error"} :
            SetAccountStatus(row, acc[r].id, s) \in Table
      BY <1>1, WritesTyped DEF TypeOK, Status
    <2>2. MarkOffline(row, acc[r]) \in Table
      BY <1>1, SyncTyped DEF TypeOK, Status, MarkOffline
    <2>3. row \in Table
      BY DEF TypeOK
    <2> QED
      BY <2>1, <2>2, <2>3
  <1>3. \E extra \in {0, 1} : AbortOrContinue(r, extra)
    BY DEF AbortOrContinue
  <1>4. PoolTypeOK'
    BY PoolUnchanged DEF TypeOK
  <1>5. excluded' \in [Requests -> SUBSET Accounts]
    <2>1. [excluded EXCEPT ![r] = @ \cup {acc[r].id}] \in [Requests -> SUBSET Accounts]
      BY <1>1 DEF TypeOK
    <2>2. excluded \in [Requests -> SUBSET Accounts]
      BY DEF TypeOK
    <2> QED
      BY <2>1, <2>2 DEF Exclude, turnVars
  <1>6. pinned' \in [Requests -> Accounts \cup {NoAccount}]
    BY <1>1 DEF Pin, TypeOK, turnVars
  <1>7. dead' \in [Requests -> SUBSET Accounts] /\ gwRetried' \in [Requests -> BOOLEAN]
    <2>1. [dead EXCEPT ![r] = @ \cup {acc[r].id}] \in [Requests -> SUBSET Accounts]
      BY <1>1 DEF TypeOK
    <2>2. dead \in [Requests -> SUBSET Accounts] /\ gwRetried \in [Requests -> BOOLEAN]
      BY DEF TypeOK
    <2> QED
      BY <2>1, <2>2 DEF turnVars
  <1>8. UNCHANGED <<callVars, changes>>
    BY DEF Decides
  <1> QED
    BY <1>2, <1>3, <1>4, <1>5, <1>6, <1>7, <1>8, AbortOrContinueTyped, BranchTyped

\* Every step of a request keeps the types.
LEMMA TurnTyped ==
  ASSUME TypeOK, NEW r \in Requests, Turn(r)
  PROVE  TypeOK'
  <1>1. CASE SelectFails(r)
    <2>1. PoolTypeOK' /\ row' \in Table
      BY <1>1, PoolUnchanged DEF SelectFails, TypeOK
    <2> QED
      BY <1>1, <2>1, EndTyped, BranchTyped DEF SelectFails, Verdict, TypeOK, turnVars
  <1>2. CASE \E res \in Results, e \in BOOLEAN : Return(r, res, e)
    BY <1>2, ReturnTyped
  <1>3. CASE \E withCycle \in UsageCycles : Sync(r, withCycle)
    BY <1>3, SyncStepTyped
  <1> QED
    BY <1>1, <1>2, <1>3, SelectTyped, EndingBranchesTyped, GatewayRetryTyped,
       RetryingBranchesTyped DEF Turn, OwnStep

\* So does what others do to rows and windows.
LEMMA EnvironmentTyped ==
  ASSUME TypeOK, Environment
  PROVE  TypeOK'
  <1>1. PICK a \in Accounts : \/ \E on \in BOOLEAN : OperatorToggles(a, on)
                              \/ \E q \in Quota : BillingRefreshed(a, q)
                              \/ ClockTicks(a)
    BY DEF Environment
  <1>2. row' \in Table
    <2>1. CASE \E on \in BOOLEAN : OperatorToggles(a, on)
      BY <2>1, WritesTyped DEF OperatorToggles, TypeOK
    <2>2. ASSUME NEW q \in Quota, BillingRefreshed(a, q)
          PROVE  row' \in Table
      <3> DEFINE db == SetAccountStatus(row, a, IF q = "spent" THEN "exhausted" ELSE "active")
      <3>1. db \in Table
        BY WritesTyped DEF TypeOK, Status
      <3>2. row[a].plan \in Plan /\ row[a].cycle \in Cycle
        BY DEF TypeOK, Table, Row
      <3>3. row' = SetQuotaSnapshot(db, a, row[a].plan, q, row[a].cycle)
        BY <2>2 DEF BillingRefreshed
      <3> HIDE DEF db
      <3> QED
        BY <3>1, <3>2, <3>3, WritesTyped
    <2>3. CASE ClockTicks(a)
      BY <2>3 DEF ClockTicks, TypeOK
    <2> QED
      BY <1>1, <2>1, <2>2, <2>3
  <1>3. PoolTypeOK'
    BY <1>1 DEF OperatorToggles, BillingRefreshed, ClockTicks, CooldownEnds, ReservationEnds,
                TypeOK, PoolTypeOK, poolVars
  <1>4. changes' \in Nat /\ UNCHANGED <<turnVars, callVars, loopVars>>
    BY <1>1 DEF OperatorToggles, BillingRefreshed, ClockTicks, TypeOK
  <1> QED
    BY <1>2, <1>3, <1>4 DEF TypeOK, turnVars, callVars, loopVars

\* Every step keeps the types.
LEMMA NextTyped == TypeOK /\ [Next]_vars => TypeOK'
  <1> SUFFICES ASSUME TypeOK, [Next]_vars
               PROVE  TypeOK'
    OBVIOUS
  <1>1. CASE UNCHANGED vars
    BY <1>1 DEF vars, TypeOK, PoolTypeOK, poolVars, turnVars, callVars, loopVars
  <1> QED
    BY <1>1, TurnTyped, EnvironmentTyped DEF Next

\* The initial states have the types.
LEMMA InitTyped == Init => TypeOK
  <1> SUFFICES ASSUME Init
               PROVE  TypeOK
    OBVIOUS
  <1>1. PoolTypeOK
    BY AccountsAssumption, FS_CardinalityType DEF Init, PoolInit, PoolTypeOK
  <1>2. row \in Table
    <2>1. \A a \in Accounts : FirstRow(a) \in Row
      BY RouteAssumption DEF FirstRow, Row, Status, Plan, Cycle
    <2> QED
      BY <2>1 DEF Init, Table
  <1>3. NoSnapshot \in Snapshot
    BY DEF NoSnapshot, Snapshot, Row, Status, Plan, Quota, Cycle
  <1> QED
    BY <1>1, <1>2, <1>3, AttemptsTyped DEF Init, TypeOK, Verdict

\* Every variable keeps its type, whatever the upstream answers and whatever
\* the environment does: in particular the loop never works on a row it has not
\* read, and the statuses it writes are those the pool and the sticky rule know.
THEOREM TypeCorrect == Spec => []TypeOK
  BY InitTyped, NextTyped, PTL DEF Spec

(***************************************************************************)
(* The pool's counters.                                                    *)
(***************************************************************************)

\* Finitely many calls hold a slot of an account.
LEMMA HoldersFinite ==
  \A a : IsFiniteSet(Holders(a)) /\ Cardinality(Holders(a)) \in Nat
  <1> TAKE a
  <1>1. Holders(a) \subseteq Requests
    BY DEF Holders
  <1> QED
    BY <1>1, RouteAssumption, FS_Subset, FS_CardinalityType

\* With counters and holders as they were, they still agree.
LEMMA SameHolders ==
  ASSUME SlotsMatchCalls, inFlight' = inFlight,
         \A a \in Accounts : Holders(a)' = Holders(a)
  PROVE  SlotsMatchCalls'
  BY DEF SlotsMatchCalls

\* Pool.Next counts the call it gives the account to.
LEMMA PooledCounts ==
  ASSUME TypeOK, SlotsMatchCalls,
         NEW r \in Requests, NEW a \in Accounts, SelectPooled(r, a)
  PROVE  SlotsMatchCalls'
  <1>1. inFlight' = [inFlight EXCEPT ![a] = @ + 1]
    BY DEF SelectPooled, PoolNext
  <1>2. /\ pc[r] = "selecting" /\ pc' = [pc EXCEPT ![r] = "invoking"]
        /\ pooled' = [pooled EXCEPT ![r] = TRUE]
        /\ acc'[r].id = a /\ \A q \in Requests \ {r} : acc'[q] = acc[q]
    BY DEF SelectPooled, Call, TypeOK
  <1>3. r \notin Holders(a) /\ Holders(a)' = Holders(a) \cup {r}
    BY <1>2 DEF Holders, TypeOK
  <1>4. Cardinality(Holders(a)') = Cardinality(Holders(a)) + 1
    <2>1. IsFiniteSet(Holders(a))
      BY HoldersFinite
    <2>2. Cardinality(Holders(a) \cup {r}) = Cardinality(Holders(a)) + 1
      BY <1>3, <2>1, FS_AddElement
    <2> QED
      BY <1>3, <2>2
  <1>5. \A b \in Accounts \ {a} : Holders(b)' = Holders(b)
    BY <1>2 DEF Holders, TypeOK
  <1> QED
    BY <1>1, <1>4, <1>5 DEF SlotsMatchCalls, TypeOK, PoolTypeOK

\* Pool.Done takes the call back out of the count.
LEMMA DoneCounts ==
  ASSUME TypeOK, SlotsMatchCalls, NEW r \in Requests, pooled[r],
         NEW res, NEW e, Return(r, res, e), NEW a \in Accounts, acc[r].id = a
  PROVE  SlotsMatchCalls'
  <1>1. inFlight' = [inFlight EXCEPT ![a] = IF @ <= 1 THEN 0 ELSE @ - 1]
    BY DEF Return, PoolDone
  <1>2. /\ pc[r] = "invoking" /\ pc' = [pc EXCEPT ![r] = "returned"]
        /\ UNCHANGED <<pooled, acc>>
    BY DEF Return
  <1>3. r \in Holders(a) /\ Holders(a)' = Holders(a) \ {r}
    BY <1>2 DEF Holders, TypeOK
  <1>4. /\ Cardinality(Holders(a)') = Cardinality(Holders(a)) - 1
        /\ Cardinality(Holders(a)) # 0
    <2>1. IsFiniteSet(Holders(a))
      BY HoldersFinite
    <2>2. Cardinality(Holders(a) \ {r}) = Cardinality(Holders(a)) - 1
      BY <1>3, <2>1, FS_RemoveElement
    <2>3. Cardinality(Holders(a)) # 0
      BY <1>3, <2>1, FS_EmptySet
    <2> QED
      BY <1>3, <2>2, <2>3
  <1>5. \A b \in Accounts \ {a} : Holders(b)' = Holders(b)
    BY <1>2 DEF Holders, TypeOK
  <1>6. inFlight[a] = Cardinality(Holders(a)) /\ inFlight[a] \in Nat
    BY DEF SlotsMatchCalls, TypeOK, PoolTypeOK
  <1>7. inFlight'[a] = inFlight[a] - 1 /\ \A b \in Accounts \ {a} : inFlight'[b] = inFlight[b]
    <2>1. inFlight[a] # 0 /\ inFlight \in [Accounts -> Nat]
      BY <1>4, <1>6 DEF TypeOK, PoolTypeOK
    <2> QED
      BY <1>1, <1>6, <2>1
  <1> QED
    BY <1>4, <1>5, <1>6, <1>7 DEF SlotsMatchCalls

\* A step that moves r's pc, but neither from nor to a pooled call.
LEMMA MoveCounts ==
  ASSUME TypeOK, SlotsMatchCalls, NEW r \in Requests,
         inFlight' = inFlight,
         \A q \in Requests \ {r} : pc'[q] = pc[q] /\ acc'[q] = acc[q] /\ pooled'[q] = pooled[q],
         pc[r] # "invoking" \/ ~pooled[r],
         pc'[r] # "invoking" \/ ~pooled'[r]
  PROVE  SlotsMatchCalls'
  <1>1. \A a \in Accounts : Holders(a)' = Holders(a)
    BY DEF Holders
  <1> QED
    BY <1>1, SameHolders

\* The pinned and the sticky account bypass the pool and are not counted.
LEMMA SelectCounts ==
  ASSUME TypeOK, SlotsMatchCalls, NEW r \in Requests, SelectPinned(r) \/ SelectSticky(r)
  PROVE  SlotsMatchCalls'
  <1>1. inFlight' = inFlight /\ pc[r] = "selecting" /\ \E a : Call(r, a, FALSE)
    BY DEF SelectPinned, SelectSticky, poolVars
  <1>2. /\ \A q \in Requests \ {r} : pc'[q] = pc[q] /\ acc'[q] = acc[q] /\ pooled'[q] = pooled[q]
        /\ ~pooled'[r]
    BY <1>1 DEF Call, TypeOK
  <1> QED
    BY <1>1, <1>2, MoveCounts

\* A call that bypassed the pool returns no slot.
LEMMA DirectReturnCounts ==
  ASSUME TypeOK, SlotsMatchCalls, NEW r \in Requests, NEW res, NEW e,
         Return(r, res, e), ~pooled[r]
  PROVE  SlotsMatchCalls'
  <1>1. /\ inFlight' = inFlight /\ pc' = [pc EXCEPT ![r] = "returned"]
        /\ UNCHANGED <<acc, pooled>>
    BY DEF Return, poolVars
  <1> QED
    BY <1>1, MoveCounts DEF TypeOK

\* No branch and no selection failure touches a counter or a call under way.
LEMMA OtherTurnCounts ==
  ASSUME TypeOK, SlotsMatchCalls, NEW r \in Requests,
         \/ SelectFails(r) \/ (\E withCycle \in UsageCycles : Sync(r, withCycle))
         \/ Succeed(r) \/ ClientGone(r) \/ GatewayRetry(r) \/ GatewayStop(r)
         \/ RequestRejected(r) \/ AccountBlocked(r) \/ QuotaExceeded(r) \/ AuthFailed(r)
         \/ RateLimited(r) \/ AbortedFirst(r) \/ SafetyFlagged(r)
         \/ \E kind \in {"upstream", "other"} : UpstreamFailure(r, kind)
  PROVE  SlotsMatchCalls'
  <1>1. inFlight' = inFlight /\ UNCHANGED callVars
    BY DEF SelectFails, Sync, Succeed, ClientGone, GatewayRetry, GatewayStop, RequestRejected,
           AccountBlocked, QuotaExceeded, AuthFailed, RateLimited, AbortedFirst, SafetyFlagged,
           UpstreamFailure, Decides, Reserve, MarkGatewayBlocked, poolVars
  <1>2. pc[r] # "invoking"
    BY DEF SelectFails, Sync, Succeed, ClientGone, GatewayRetry, GatewayStop, RequestRejected,
           AccountBlocked, QuotaExceeded, AuthFailed, RateLimited, AbortedFirst, SafetyFlagged,
           UpstreamFailure, Decides
  <1>3. \E where \in {"selecting", "synced", "finished"} : pc' = [pc EXCEPT ![r] = where]
    BY DEF SelectFails, Sync, Succeed, ClientGone, GatewayRetry, GatewayStop, RequestRejected,
           AccountBlocked, QuotaExceeded, AuthFailed, RateLimited, AbortedFirst, SafetyFlagged,
           UpstreamFailure, AbortOrContinue, Continue, End
  <1> QED
    BY <1>1, <1>2, <1>3, MoveCounts DEF TypeOK, callVars

\* Every step keeps the counters equal to the calls that hold a slot.
LEMMA NextCounts == TypeOK /\ SlotsMatchCalls /\ [Next]_vars => SlotsMatchCalls'
  <1> SUFFICES ASSUME TypeOK, SlotsMatchCalls, [Next]_vars
               PROVE  SlotsMatchCalls'
    OBVIOUS
  <1>1. ASSUME inFlight' = inFlight, UNCHANGED <<pc, acc, pooled>>
        PROVE  SlotsMatchCalls'
    <2>1. \A a \in Accounts : Holders(a)' = Holders(a)
      BY <1>1 DEF Holders
    <2> QED
      BY <1>1, <2>1, SameHolders
  <1>2. CASE UNCHANGED vars
    BY <1>1, <1>2 DEF vars, poolVars, callVars, loopVars
  <1>3. CASE Environment
    <2>1. inFlight' = inFlight /\ UNCHANGED <<pc, acc, pooled>>
      BY <1>3 DEF Environment, OperatorToggles, BillingRefreshed, ClockTicks, CooldownEnds,
                  ReservationEnds, poolVars, callVars, loopVars
    <2> QED
      BY <1>1, <2>1
  <1>4. ASSUME NEW r \in Requests, NEW res \in Results, NEW e \in BOOLEAN, Return(r, res, e)
        PROVE  SlotsMatchCalls'
    <2>1. acc[r].id \in Accounts
      BY <1>4, HasAccount DEF Return
    <2> QED
      BY <1>4, <2>1, DoneCounts, DirectReturnCounts
  <1> QED
    BY <1>2, <1>3, <1>4, SelectCounts, PooledCounts, OtherTurnCounts DEF Next, Turn, OwnStep

\* Next and Done pair up on every path through the loop, for any number of
\* requests and accounts: an account's counter is the number of pooled calls
\* under way on it.
THEOREM SlotsAlwaysMatch == Spec => []SlotsMatchCalls
  <1>1. Init => SlotsMatchCalls
    <2> SUFFICES ASSUME Init, NEW a \in Accounts
                 PROVE  inFlight[a] = Cardinality(Holders(a))
      BY DEF SlotsMatchCalls
    <2>1. Holders(a) = {}
      BY DEF Init, Holders
    <2> QED
      BY <2>1, FS_EmptySet DEF Init, PoolInit
  <1> QED
    BY <1>1, TypeCorrect, NextCounts, PTL DEF Spec

(***************************************************************************)
(* The retry budget.                                                       *)
(***************************************************************************)

\* BudgetExact is not inductive: that a request still in its loop has turns
\* left is what keeps attempt below its bound.
InBudget ==
  /\ BudgetExact
  /\ FailedOnTheLiving
  /\ \A r \in Requests :
       pc[r] # "finished" => verdict[r] = "none" /\ attempt[r] < maxAttempts[r]

\* The same for one request.
Budget(r) ==
  /\ maxAttempts[r] <= Attempts + FreeTurns(r)
  /\ verdict[r] # "aborted" => maxAttempts[r] = Attempts + FreeTurns(r)
  /\ attempt[r] <= maxAttempts[r]
  /\ dead[r] \subseteq excluded[r]
  /\ pc[r] \in {"invoking", "returned", "synced"} => acc[r].id \notin dead[r]
  /\ verdict[r] = "failed" => attempt[r] = Attempts + FreeTurns(r)
  /\ pc[r] # "finished" => verdict[r] = "none" /\ attempt[r] < maxAttempts[r]

\* The budget is a matter of each request on its own.
LEMMA InBudgetByRequest == InBudget <=> \A r \in Requests : Budget(r)
  BY DEF InBudget, BudgetExact, FailedOnTheLiving, Budget

\* A request finds no more accounts dead than there are.
LEMMA DeadFinite ==
  ASSUME TypeOK, NEW r \in Requests
  PROVE  IsFiniteSet(dead[r]) /\ Cardinality(dead[r]) \in Nat /\ FreeTurns(r) \in Nat
         /\ Cardinality(dead[r]) <= Cardinality(Accounts)
  <1>1. dead[r] \subseteq Accounts /\ gwRetried[r] \in BOOLEAN
    BY DEF TypeOK
  <1>2. IsFiniteSet(dead[r]) /\ Cardinality(dead[r]) <= Cardinality(Accounts)
        /\ Cardinality(dead[r]) \in Nat
    BY <1>1, AccountsAssumption, FS_Subset, FS_CardinalityType
  <1> QED
    BY <1>1, <1>2 DEF FreeTurns

\* The turns a request is owed are a number.
LEMMA FreeTurnsStayNat ==
  ASSUME TypeOK', NEW r \in Requests
  PROVE  FreeTurns(r)' \in Nat
  <1>1. dead'[r] \subseteq Accounts /\ gwRetried'[r] \in BOOLEAN
    BY DEF TypeOK
  <1>2. Cardinality(dead'[r]) \in Nat
    BY <1>1, AccountsAssumption, FS_Subset, FS_CardinalityType
  <1> QED
    BY <1>1, <1>2 DEF FreeTurns

\* The requests that do not act keep their budget.
LEMMA OthersKeepBudget ==
  ASSUME NEW q \in Requests, Budget(q),
         attempt'[q] = attempt[q], maxAttempts'[q] = maxAttempts[q], verdict'[q] = verdict[q],
         dead'[q] = dead[q], gwRetried'[q] = gwRetried[q], excluded'[q] = excluded[q],
         pc'[q] = pc[q], acc'[q] = acc[q]
  PROVE  Budget(q)'
  BY DEF Budget, FreeTurns

\* A turn of one request leaves the others' bookkeeping alone.
LEMMA TurnKeepsOthers ==
  ASSUME TypeOK, NEW r \in Requests, Turn(r), NEW q \in Requests \ {r}
  PROVE  /\ attempt'[q] = attempt[q] /\ maxAttempts'[q] = maxAttempts[q]
         /\ verdict'[q] = verdict[q] /\ dead'[q] = dead[q] /\ gwRetried'[q] = gwRetried[q]
         /\ excluded'[q] = excluded[q] /\ pc'[q] = pc[q] /\ acc'[q] = acc[q]
  <1> USE DEF TypeOK, turnVars, callVars
  <1>1. CASE SelectPinned(r) \/ SelectSticky(r) \/ \E a \in Accounts : SelectPooled(r, a)
    BY <1>1 DEF SelectPinned, SelectSticky, SelectPooled, Call
  <1>2. CASE \/ SelectFails(r)
             \/ \E res \in Results, e \in BOOLEAN : Return(r, res, e)
             \/ \E withCycle \in UsageCycles : Sync(r, withCycle)
    BY <1>2 DEF SelectFails, Return, Sync, End
  <1>3. CASE Succeed(r) \/ ClientGone(r) \/ GatewayStop(r) \/ RequestRejected(r) \/ AbortedFirst(r)
    BY <1>3 DEF Succeed, ClientGone, GatewayStop, RequestRejected, AbortedFirst, Decides, End
  <1>4. CASE \/ GatewayRetry(r) \/ AccountBlocked(r) \/ QuotaExceeded(r) \/ AuthFailed(r)
             \/ RateLimited(r) \/ SafetyFlagged(r)
             \/ \E kind \in {"upstream", "other"} : UpstreamFailure(r, kind)
    BY <1>4 DEF GatewayRetry, AccountBlocked, QuotaExceeded, AuthFailed, RateLimited,
                SafetyFlagged, UpstreamFailure, Decides, AbortOrContinue, Continue, End,
                Exclude, Pin
  <1> QED
    BY <1>1, <1>2, <1>3, <1>4 DEF Turn, OwnStep

\* A turn that wins as many free turns as it adds to the bound keeps the budget.
LEMMA ContinueKeepsBudget ==
  ASSUME TypeOK, TypeOK', NEW r \in Requests, Budget(r), NEW extra \in {0, 1},
         pc[r] = "synced",
         \/ Continue(r, extra)
         \/ End(r, "aborted"),
         dead'[r] \subseteq excluded'[r],
         Continue(r, extra) => FreeTurns(r)' = FreeTurns(r) + extra,
         FreeTurns(r)' >= FreeTurns(r)
  PROVE  Budget(r)'
  <1>1. /\ FreeTurns(r) \in Nat /\ FreeTurns(r)' \in Nat /\ Attempts \in Nat
        /\ attempt[r] \in Nat /\ maxAttempts[r] \in Nat
    BY DeadFinite, FreeTurnsStayNat, AttemptsTyped DEF TypeOK
  <1>2. Attempts' = Attempts
    BY DEF Attempts
  <1>3. CASE Continue(r, extra)
    <2>1. /\ attempt'[r] = attempt[r] + 1 /\ maxAttempts'[r] = maxAttempts[r] + extra
          /\ \/ /\ attempt[r] + 1 < maxAttempts[r] + extra
                /\ pc'[r] = "selecting" /\ verdict'[r] = verdict[r]
             \/ /\ attempt[r] + 1 >= maxAttempts[r] + extra
                /\ pc'[r] = "finished" /\ verdict'[r] = "failed"
      BY <1>3 DEF Continue, TypeOK
    <2> QED
      BY <1>1, <1>2, <1>3, <2>1 DEF Budget
  <1>4. CASE End(r, "aborted")
    <2>1. /\ attempt'[r] = attempt[r] /\ maxAttempts'[r] = maxAttempts[r]
          /\ pc'[r] = "finished" /\ verdict'[r] = "aborted"
      BY <1>4 DEF End, TypeOK
    <2> QED
      BY <1>1, <1>2, <2>1 DEF Budget
  <1> QED
    BY <1>3, <1>4

\* A request that ends without another turn keeps its budget.
LEMMA EndKeepsBudget ==
  ASSUME TypeOK, NEW r \in Requests, Budget(r), pc[r] # "finished",
         NEW how \in Verdict \ {"failed"}, End(r, how),
         dead'[r] = dead[r], gwRetried'[r] = gwRetried[r], excluded'[r] = excluded[r]
  PROVE  Budget(r)'
  <1>1. /\ attempt'[r] = attempt[r] /\ maxAttempts'[r] = maxAttempts[r]
        /\ pc'[r] = "finished" /\ verdict'[r] = how
    BY DEF End, TypeOK
  <1> QED
    BY <1>1 DEF Budget, FreeTurns, Attempts

\* The selections: the account called is not among the excluded ones.
LEMMA SelectKeepsBudget ==
  ASSUME TypeOK, NEW r \in Requests, Budget(r),
         SelectPinned(r) \/ SelectSticky(r) \/ \E a \in Accounts : SelectPooled(r, a)
  PROVE  Budget(r)'
  <1>1. PICK a \in Accounts \ excluded[r], fromPool \in BOOLEAN :
          pc[r] = "selecting" /\ Call(r, a, fromPool)
    <2>1. CASE SelectPinned(r)
      BY <2>1 DEF SelectPinned, IsPinned, Returns
    <2>2. CASE SelectSticky(r)
      BY <2>2 DEF SelectSticky, IsSticky, Returns
    <2>3. ASSUME NEW a \in Accounts, SelectPooled(r, a)
          PROVE  a \notin excluded[r] /\ pc[r] = "selecting" /\ Call(r, a, TRUE)
      BY <2>3 DEF SelectPooled, PoolNext, Candidates, NotExhausted, NotExcluded
    <2> QED
      BY <2>1, <2>2, <2>3
  <1>2. /\ pc'[r] = "invoking" /\ acc'[r].id = a
        /\ UNCHANGED <<excluded, gwRetried, dead, attempt, maxAttempts, verdict>>
    BY <1>1 DEF Call, turnVars, TypeOK
  <1> QED
    BY <1>1, <1>2 DEF Budget, FreeTurns, Attempts

\* The call and the write to the store only move pc.
LEMMA CallKeepsBudget ==
  ASSUME TypeOK, NEW r \in Requests, Budget(r),
         \/ \E res \in Results, e \in BOOLEAN : Return(r, res, e)
         \/ \E withCycle \in UsageCycles : Sync(r, withCycle)
  PROVE  Budget(r)'
  <1>1. /\ pc[r] \in {"invoking", "returned"} /\ pc'[r] \in {"returned", "synced"}
        /\ UNCHANGED <<acc, excluded, gwRetried, dead, attempt, maxAttempts, verdict>>
    BY DEF Return, Sync, turnVars, callVars, TypeOK
  <1> QED
    BY <1>1 DEF Budget, FreeTurns, Attempts

\* Finding an account dead adds one to the accounts found dead.
LEMMA OneMoreDead ==
  ASSUME TypeOK, NEW r \in Requests, Budget(r), pc[r] = "synced", UNCHANGED gwRetried,
         dead' = [dead EXCEPT ![r] = @ \cup {acc[r].id}], Exclude(r)
  PROVE  FreeTurns(r)' = FreeTurns(r) + 1 /\ dead'[r] \subseteq excluded'[r]
  <1>1. dead'[r] = dead[r] \cup {acc[r].id} /\ excluded'[r] = excluded[r] \cup {acc[r].id}
    BY DEF Exclude, TypeOK
  <1>2. acc[r].id \notin dead[r] /\ dead[r] \subseteq excluded[r]
    BY DEF Budget
  <1>3. Cardinality(dead'[r]) = Cardinality(dead[r]) + 1
    BY <1>1, <1>2, DeadFinite, FS_AddElement
  <1>4. Cardinality(dead[r]) \in Nat
    BY DeadFinite
  <1> QED
    BY <1>1, <1>2, <1>3, <1>4 DEF FreeTurns

\* Each branch that may go on raises the bound by what it owes and no more.
LEMMA RetryKeepsBudget ==
  ASSUME TypeOK, TypeOK', NEW r \in Requests, Budget(r),
         \/ GatewayRetry(r) \/ AccountBlocked(r) \/ QuotaExceeded(r) \/ AuthFailed(r)
         \/ RateLimited(r) \/ SafetyFlagged(r)
         \/ \E kind \in {"upstream", "other"} : UpstreamFailure(r, kind)
  PROVE  Budget(r)'
  <1>0. FreeTurns(r) \in Nat /\ dead[r] \subseteq excluded[r]
    BY DeadFinite DEF Budget
  <1>1. CASE GatewayRetry(r)
    <2>1. pc[r] = "synced" /\ dead'[r] \subseteq excluded'[r] /\ ~gwRetried[r]
      BY <1>0, <1>1 DEF GatewayRetry, Decides
    <2>2. CASE End(r, "aborted") /\ UNCHANGED gwRetried
      <3>1. FreeTurns(r)' = FreeTurns(r) /\ excluded'[r] = excluded[r] /\ dead'[r] = dead[r]
            /\ gwRetried'[r] = gwRetried[r]
        BY <1>1, <2>2 DEF GatewayRetry, FreeTurns
      <3> QED
        BY <2>1, <2>2, <3>1, EndKeepsBudget DEF Verdict
    <2>3. CASE Continue(r, 1) /\ gwRetried' = [gwRetried EXCEPT ![r] = TRUE]
      <3>1. Cardinality(dead[r]) \in Nat /\ dead' = dead /\ gwRetried'[r] = TRUE
        BY <1>1, <2>3, DeadFinite DEF GatewayRetry, TypeOK
      <3>2. FreeTurns(r)' = FreeTurns(r) + 1
        BY <2>1, <3>1 DEF FreeTurns
      <3> QED
        BY <1>0, <2>1, <2>3, <3>2, ContinueKeepsBudget
    <2> QED
      BY <1>1, <2>2, <2>3 DEF GatewayRetry
  <1>2. CASE AccountBlocked(r) \/ AuthFailed(r)
    <2>1. /\ pc[r] = "synced"
          /\ Continue(r, 1) \/ End(r, "aborted")
          /\ UNCHANGED gwRetried /\ Exclude(r)
          /\ dead' = [dead EXCEPT ![r] = @ \cup {acc[r].id}]
      BY <1>2 DEF AccountBlocked, AuthFailed, Decides, AbortOrContinue
    <2>2. FreeTurns(r)' = FreeTurns(r) + 1 /\ dead'[r] \subseteq excluded'[r]
      BY <2>1, OneMoreDead
    <2> QED
      BY <1>0, <2>1, <2>2, ContinueKeepsBudget
  <1>3. CASE \/ QuotaExceeded(r) \/ RateLimited(r) \/ SafetyFlagged(r)
             \/ \E kind \in {"upstream", "other"} : UpstreamFailure(r, kind)
    <2>1. /\ pc[r] = "synced"
          /\ Continue(r, 0) \/ End(r, "aborted")
          /\ UNCHANGED <<gwRetried, dead>> /\ excluded[r] \subseteq excluded'[r]
      BY <1>3 DEF QuotaExceeded, RateLimited, SafetyFlagged, UpstreamFailure, Decides,
                  AbortOrContinue, Exclude, turnVars, TypeOK
    <2>2. FreeTurns(r)' = FreeTurns(r) /\ dead'[r] \subseteq excluded'[r]
      BY <1>0, <2>1 DEF FreeTurns
    <2> QED
      BY <1>0, <2>1, <2>2, ContinueKeepsBudget
  <1> QED
    BY <1>1, <1>2, <1>3

\* Each branch that ends the request leaves its bound alone.
LEMMA StopKeepsBudget ==
  ASSUME TypeOK, NEW r \in Requests, Budget(r),
         \/ SelectFails(r) \/ Succeed(r) \/ ClientGone(r) \/ GatewayStop(r)
         \/ RequestRejected(r) \/ AbortedFirst(r)
  PROVE  Budget(r)'
  <1>1. PICK how \in Verdict \ {"failed"} :
          /\ pc[r] # "finished" /\ End(r, how)
          /\ dead'[r] = dead[r] /\ gwRetried'[r] = gwRetried[r] /\ excluded'[r] = excluded[r]
    BY DEF SelectFails, Succeed, ClientGone, GatewayStop, RequestRejected, AbortedFirst,
           Decides, turnVars, Verdict
  <1> QED
    BY <1>1, EndKeepsBudget

\* Every turn keeps the request's budget.
LEMMA TurnKeepsBudget ==
  ASSUME TypeOK, TypeOK', NEW r \in Requests, Budget(r), Turn(r)
  PROVE  Budget(r)'
  BY SelectKeepsBudget, CallKeepsBudget, RetryKeepsBudget, StopKeepsBudget DEF Turn, OwnStep

\* Every step keeps every request's budget.
LEMMA NextKeepsBudget == TypeOK /\ InBudget /\ [Next]_vars => InBudget'
  <1> SUFFICES ASSUME TypeOK, InBudget, [Next]_vars
               PROVE  InBudget'
    OBVIOUS
  <1>0. TypeOK' /\ \A q \in Requests : Budget(q)
    BY NextTyped, InBudgetByRequest
  <1>1. ASSUME NEW r \in Requests, Turn(r)
        PROVE  \A q \in Requests : Budget(q)'
    <2>1. Budget(r)'
      BY <1>0, <1>1, TurnKeepsBudget
    <2>2. ASSUME NEW q \in Requests \ {r}
          PROVE  Budget(q)'
      BY <1>0, <1>1, TurnKeepsOthers, OthersKeepBudget
    <2> QED
      BY <2>1, <2>2
  <1>2. ASSUME Environment \/ UNCHANGED vars
        PROVE  \A q \in Requests : Budget(q)'
    <2>1. UNCHANGED <<attempt, maxAttempts, verdict, dead, gwRetried, excluded, pc, acc>>
      BY <1>2 DEF Environment, OperatorToggles, BillingRefreshed, ClockTicks, turnVars,
                  callVars, loopVars, vars
    <2> QED
      BY <1>0, <2>1, OthersKeepBudget
  <1>3. \A q \in Requests : Budget(q)'
    BY <1>1, <1>2 DEF Next
  <1> QED
    BY <1>3, InBudgetByRequest DEF InBudget, BudgetExact, FailedOnTheLiving, Budget

\* A request begins with its attempts and nothing owed.
LEMMA InitInBudget == Init => InBudget
  <1> SUFFICES ASSUME Init, NEW r \in Requests
               PROVE  Budget(r)
    BY InBudgetByRequest
  <1>1. /\ attempt[r] = 0 /\ maxAttempts[r] = Attempts /\ dead[r] = {} /\ excluded[r] = {}
        /\ ~gwRetried[r] /\ pc[r] = "selecting" /\ verdict[r] = "none"
    BY DEF Init
  <1>2. FreeTurns(r) = 0
    BY <1>1, FS_EmptySet DEF FreeTurns
  <1> QED
    BY <1>1, <1>2, AttemptsTyped DEF Budget

\* The budget holds throughout every behaviour.
LEMMA AlwaysInBudget == Spec => []InBudget
  BY InitInBudget, TypeCorrect, NextKeepsBudget, PTL DEF Spec

\* The loop bound of selectAccount's caller grows by one per dead account and
\* once for the gateway retry, never otherwise.
THEOREM BudgetAlwaysExact == Spec => []BudgetExact
  <1>1. InBudget => BudgetExact
    BY DEF InBudget
  <1> QED
    BY <1>1, AlwaysInBudget, PTL

\* A request says "All accounts failed" only after every attempt of the setting
\* was spent on an account that was not dead.
THEOREM AlwaysFailsOnTheLiving == Spec => []FailedOnTheLiving
  <1>1. InBudget => FailedOnTheLiving
    BY DEF InBudget
  <1> QED
    BY <1>1, AlwaysInBudget, PTL

\* However many accounts die under it, a request makes no more turns than the
\* setting, one for each account and one for the gateway.
TurnsBounded ==
  \A r \in Requests : attempt[r] <= Attempts + Cardinality(Accounts) + 1

\* The safety half of termination: runAttempts' loop is short whatever happens.
THEOREM TurnsAlwaysBounded == Spec => []TurnsBounded
  <1>1. TypeOK /\ InBudget => TurnsBounded
    <2> SUFFICES ASSUME TypeOK, InBudget, NEW r \in Requests
                 PROVE  attempt[r] <= Attempts + Cardinality(Accounts) + 1
      BY DEF TurnsBounded
    <2>1. /\ attempt[r] \in Nat /\ maxAttempts[r] \in Nat /\ gwRetried[r] \in BOOLEAN
          /\ attempt[r] <= maxAttempts[r] /\ maxAttempts[r] <= Attempts + FreeTurns(r)
      BY DEF TypeOK, InBudget, BudgetExact
    <2>2. /\ Cardinality(dead[r]) \in Nat /\ Cardinality(dead[r]) <= Cardinality(Accounts)
          /\ Cardinality(Accounts) \in Nat
      BY DeadFinite, AccountsAssumption, FS_CardinalityType
    <2>3. FreeTurns(r) \in Nat /\ FreeTurns(r) <= Cardinality(Accounts) + 1
      BY <2>1, <2>2 DEF FreeTurns
    <2> QED
      BY <2>1, <2>2, <2>3, AttemptsTyped
  <1> QED
    BY <1>1, TypeCorrect, AlwaysInBudget, PTL

(***************************************************************************)
(* Dead accounts.                                                          *)
(***************************************************************************)

\* Every snapshot was taken of an enabled row, so no request ever switches an
\* account on, and what the usage state BLOCKED promises is done before the
\* branch that counts the account as dead.
OutOfReach ==
  /\ \A r \in Requests :
       pc[r] \in {"invoking", "returned", "synced"} => acc[r].row.enabled
  /\ \A r \in Requests :
       changes = 0 /\ pc[r] = "synced" /\ result[r].usage = "BLOCKED"
       => ~row[acc[r].id].enabled
  /\ DeadStaysOut

\* Writing a status does not touch the switch of an account.
LEMMA StatusKeepsSwitch ==
  ASSUME NEW db \in Table, NEW s \in Snapshot, s.id \in Accounts, NEW goal \in Status
  PROVE  /\ StatusUnless(db, s, goal) \in Table
         /\ \A a \in Accounts : StatusUnless(db, s, goal)[a].enabled = db[a].enabled
  <1>1. StatusUnless(db, s, goal) \in Table
    BY SyncTyped
  <1>2. \A a \in Accounts : StatusUnless(db, s, goal)[a].enabled = db[a].enabled
    BY DEF StatusUnless, SetAccountStatus, Table, Row
  <1> QED
    BY <1>1, <1>2

\* persistQuota does not touch the switch of an account.
LEMMA PersistKeepsSwitch ==
  ASSUME NEW db \in Table, NEW s \in Snapshot, s.id \in Accounts, NEW usage,
         NEW withCycle \in BOOLEAN
  PROVE  /\ PersistQuota(db, s, usage, withCycle) \in Table
         /\ \A a \in Accounts : PersistQuota(db, s, usage, withCycle)[a].enabled = db[a].enabled
  <1> DEFINE placed == IF usage # "none" /\ s.row.quota = "unknown"
                       THEN SetQuotaSnapshot(db, s.id, s.row.plan, "unknown", "none") ELSE db
  <1>1. placed \in Table /\ \A a \in Accounts : placed[a].enabled = db[a].enabled
    <2>1. placed \in Table
      BY WritesTyped DEF Snapshot, Row, Quota, Cycle
    <2>2. \A a \in Accounts : placed[a].enabled = db[a].enabled
      BY DEF SetQuotaSnapshot, Table, Row
    <2> QED
      BY <2>1, <2>2
  <1>2. /\ SetQuotaCycle(placed, s.id, "open") \in Table
        /\ \A a \in Accounts : SetQuotaCycle(placed, s.id, "open")[a].enabled = placed[a].enabled
    <2> HIDE DEF placed
    <2> QED
      BY <1>1 DEF SetQuotaCycle, Table, Row, Cycle
  <1>3. PersistQuota(db, s, usage, withCycle)
        = IF usage # "none" /\ withCycle THEN SetQuotaCycle(placed, s.id, "open") ELSE placed
    BY DEF PersistQuota
  <1> QED
    <2> HIDE DEF placed
    <2> QED
      BY <1>1, <1>2, <1>3

\* With a snapshot of an enabled row, the switch can only go off.
LEMMA SwitchOnlyOff ==
  ASSUME NEW db \in Table, NEW s \in Snapshot, s.id \in Accounts, s.row.enabled,
         NEW goal \in BOOLEAN
  PROVE  /\ \A a \in Accounts : EnabledUnless(db, s, goal)[a].enabled => db[a].enabled
         /\ ~goal => ~EnabledUnless(db, s, goal)[s.id].enabled
  <1>1. s.row.enabled = TRUE
    BY DEF Snapshot, Row
  <1> QED
    BY <1>1 DEF EnabledUnless, SetAccountEnabled, Table, Row

\* A snapshot of an enabled account only ever switches it off.
LEMMA UsageOnlyOff ==
  ASSUME NEW db \in Table, NEW s \in Snapshot, s.id \in Accounts, s.row.enabled, NEW usage
  PROVE  /\ \A a \in Accounts : ApplyUsageState(db, s, usage)[a].enabled => db[a].enabled
         /\ usage = "BLOCKED" => ~ApplyUsageState(db, s, usage)[s.id].enabled
  <1>1. CASE usage = "BLOCKED"
    <2>1. /\ StatusUnless(db, s, "error") \in Table
          /\ \A a \in Accounts : StatusUnless(db, s, "error")[a].enabled = db[a].enabled
      BY StatusKeepsSwitch DEF Status
    <2>2. ApplyUsageState(db, s, usage) = EnabledUnless(StatusUnless(db, s, "error"), s, FALSE)
      BY <1>1 DEF ApplyUsageState
    <2> QED
      BY <2>1, <2>2, SwitchOnlyOff
  <1>2. CASE usage = "EXCEEDED"
    <2>1. ApplyUsageState(db, s, usage) = StatusUnless(db, s, "exhausted")
      BY <1>2 DEF ApplyUsageState
    <2>2. \A a \in Accounts : StatusUnless(db, s, "exhausted")[a].enabled = db[a].enabled
      BY StatusKeepsSwitch DEF Status
    <2> QED
      BY <1>2, <2>1, <2>2, Zenon
  <1>3. CASE usage = "AVAILABLE"
    <2>1. /\ StatusUnless(db, s, "active") \in Table
          /\ \A a \in Accounts : StatusUnless(db, s, "active")[a].enabled = db[a].enabled
      BY StatusKeepsSwitch DEF Status
    <2>2. ApplyUsageState(db, s, usage) = EnabledUnless(StatusUnless(db, s, "active"), s, TRUE)
      BY <1>3 DEF ApplyUsageState
    <2>3. \A a \in Accounts : EnabledUnless(StatusUnless(db, s, "active"), s, TRUE)[a].enabled
                              => StatusUnless(db, s, "active")[a].enabled
      BY <2>1, SwitchOnlyOff
    <2>4. \A a \in Accounts : ApplyUsageState(db, s, usage)[a].enabled => db[a].enabled
      BY <2>1, <2>2, <2>3, Zenon
    <2>5. usage # "BLOCKED"
      BY <1>3
    <2> QED
      BY <2>4, <2>5
  <1>4. CASE usage \notin {"BLOCKED", "EXCEEDED", "AVAILABLE"}
    BY <1>4 DEF ApplyUsageState
  <1> QED
    BY <1>1, <1>2, <1>3, <1>4

\* Whatever a turn does, the switch of no account goes on, and a call that said
\* BLOCKED leaves its account off.
LEMMA TurnOnlyOff ==
  ASSUME TypeOK, OutOfReach, NEW r \in Requests, Turn(r)
  PROVE  /\ \A a \in Accounts : row'[a].enabled => row[a].enabled
         /\ \A withCycle \in UsageCycles : Sync(r, withCycle) /\ result[r].usage = "BLOCKED"
              => ~row'[acc[r].id].enabled
         /\ AuthFailed(r) => ~row'[acc[r].id].enabled
  <1>0. /\ row \in Table /\ acc[r] \in Snapshot
        /\ pc[r] \in {"invoking", "returned", "synced"}
           => acc[r].id \in Accounts /\ acc[r].row.enabled
    BY DEF TypeOK, OutOfReach
  <1>1. ASSUME NEW withCycle \in UsageCycles, Sync(r, withCycle)
        PROVE  /\ \A a \in Accounts : row'[a].enabled => row[a].enabled
               /\ result[r].usage = "BLOCKED" => ~row'[acc[r].id].enabled
    <2> DEFINE usage == result[r].usage
               kept  == PersistQuota(row, acc[r], usage, withCycle)
    <2>1. pc[r] = "returned" /\ row' = ApplyUsageState(kept, acc[r], usage)
      BY <1>1 DEF Sync
    <2>2. withCycle \in BOOLEAN
      BY RouteAssumption
    <2>3. kept \in Table /\ \A a \in Accounts : kept[a].enabled = row[a].enabled
      BY <1>0, <2>1, <2>2, PersistKeepsSwitch
    <2> HIDE DEF usage, kept
    <2>4. /\ \A a \in Accounts : ApplyUsageState(kept, acc[r], usage)[a].enabled => kept[a].enabled
          /\ usage = "BLOCKED" => ~ApplyUsageState(kept, acc[r], usage)[acc[r].id].enabled
      BY <1>0, <2>1, <2>3, UsageOnlyOff
    <2> QED
      BY <2>1, <2>3, <2>4 DEF usage
  <1>2. ASSUME AuthFailed(r)
        PROVE  /\ \A a \in Accounts : row'[a].enabled => row[a].enabled
               /\ ~row'[acc[r].id].enabled
    <2>1. pc[r] = "synced" /\ row' = EnabledUnless(StatusUnless(row, acc[r], "offline"), acc[r], FALSE)
      BY <1>2 DEF AuthFailed, Decides, MarkOffline
    <2>2. /\ StatusUnless(row, acc[r], "offline") \in Table
          /\ \A a \in Accounts : StatusUnless(row, acc[r], "offline")[a].enabled = row[a].enabled
      BY <1>0, <2>1, StatusKeepsSwitch DEF Status
    <2> QED
      BY <1>0, <2>1, <2>2, SwitchOnlyOff
  <1>3. ASSUME \/ Succeed(r) \/ QuotaExceeded(r) \/ RateLimited(r) \/ SafetyFlagged(r)
               \/ \E kind \in {"upstream", "other"} : UpstreamFailure(r, kind)
        PROVE  \A a \in Accounts : row'[a].enabled => row[a].enabled
    <2>1. \/ row' = MarkUsed(row, acc[r].id)
          \/ \E status \in Status : row' = SetAccountStatus(row, acc[r].id, status)
      BY <1>3 DEF Succeed, QuotaExceeded, RateLimited, SafetyFlagged, UpstreamFailure, Status
    <2> QED
      BY <1>0, <2>1 DEF MarkUsed, SetAccountStatus, Table, Row
  <1>4. ASSUME \/ SelectPinned(r) \/ SelectSticky(r) \/ \E a \in Accounts : SelectPooled(r, a)
               \/ SelectFails(r)
               \/ \E res \in Results, e \in BOOLEAN : Return(r, res, e)
               \/ ClientGone(r) \/ GatewayRetry(r) \/ GatewayStop(r) \/ RequestRejected(r)
               \/ AccountBlocked(r) \/ AbortedFirst(r)
        PROVE  \A a \in Accounts : row'[a].enabled => row[a].enabled
    <2>1. row' = row
      BY <1>4 DEF SelectPinned, SelectSticky, SelectPooled, Call, SelectFails, Return, ClientGone,
                  GatewayRetry, GatewayStop, RequestRejected, AccountBlocked, AbortedFirst
    <2> QED
      BY <2>1
  <1>5. \A a \in Accounts : row'[a].enabled => row[a].enabled
    BY <1>1, <1>2, <1>3, <1>4 DEF Turn, OwnStep
  <1> QED
    BY <1>1, <1>2, <1>5

\* What the other requests hold a result of is not disturbed.
LEMMA TurnKeepsResults ==
  ASSUME TypeOK, NEW r \in Requests, Turn(r), NEW q \in Requests \ {r}
  PROVE  result'[q] = result[q]
  <1>1. CASE \E res \in Results, e \in BOOLEAN : Return(r, res, e)
    BY <1>1 DEF Return, TypeOK
  <1>2. CASE ~\E res \in Results, e \in BOOLEAN : Return(r, res, e)
    <2>1. UNCHANGED result
      BY <1>2 DEF Turn, OwnStep, SelectPinned, SelectSticky, SelectPooled, Call, SelectFails, Sync, Succeed,
                  ClientGone, GatewayRetry, GatewayStop, RequestRejected, AccountBlocked,
                  QuotaExceeded, AuthFailed, RateLimited, AbortedFirst, SafetyFlagged,
                  UpstreamFailure, Decides, callVars
    <2> QED
      BY <2>1
  <1> QED
    BY <1>1, <1>2

\* A turn changes no counter of the environment.
LEMMA TurnIsNoChange ==
  ASSUME NEW r \in Requests, Turn(r)
  PROVE  changes' = changes
  BY DEF Turn, OwnStep, SelectPinned, SelectSticky, SelectPooled, Call, SelectFails, Return, Sync, Succeed,
         ClientGone, GatewayRetry, GatewayStop, RequestRejected, AccountBlocked, QuotaExceeded,
         AuthFailed, RateLimited, AbortedFirst, SafetyFlagged, UpstreamFailure, Decides

\* The account a selection calls is enabled when its row is read.
LEMMA CalledWhileEnabled ==
  ASSUME TypeOK, NEW r \in Requests,
         SelectPinned(r) \/ SelectSticky(r) \/ \E a \in Accounts : SelectPooled(r, a)
  PROVE  /\ pc'[r] = "invoking" /\ acc'[r].row.enabled
         /\ dead' = dead
  <1>1. PICK a \in Accounts, fromPool \in BOOLEAN : row[a].enabled /\ Call(r, a, fromPool)
    <2>1. CASE SelectPinned(r)
      BY <2>1 DEF SelectPinned, IsPinned, Returns, UsableForSticky
    <2>2. CASE SelectSticky(r)
      BY <2>2 DEF SelectSticky, IsSticky, Returns, UsableForSticky
    <2>3. ASSUME NEW a \in Accounts, SelectPooled(r, a)
          PROVE  row[a].enabled /\ Call(r, a, TRUE)
      <3>1. a \in ActiveAccounts(row)
        BY <2>3 DEF SelectPooled, PoolNext, Candidates, NotExhausted, NotExcluded, Listing
      <3> QED
        BY <2>3, <3>1 DEF SelectPooled, ActiveAccounts
    <2> QED
      BY <2>1, <2>2, <2>3
  <1>2. acc'[r] = [id |-> a, row |-> row[a]] /\ pc'[r] = "invoking" /\ dead' = dead
    BY <1>1 DEF Call, turnVars, TypeOK
  <1> QED
    BY <1>1, <1>2

\* How a turn changes what it knows of dead accounts: it adds the account a
\* BLOCKED call used, or one whose session it finds dead.
LEMMA DeadGrows ==
  ASSUME TypeOK, NEW r \in Requests, Turn(r)
  PROVE  \/ dead'[r] = dead[r]
         \/ /\ dead'[r] = dead[r] \cup {acc[r].id} /\ pc[r] = "synced"
            /\ AuthFailed(r) \/ result[r].usage = "BLOCKED"
  <1>1. CASE AccountBlocked(r) \/ AuthFailed(r)
    BY <1>1 DEF AccountBlocked, AuthFailed, Decides, TypeOK
  <1>2. CASE ~(AccountBlocked(r) \/ AuthFailed(r))
    BY <1>2 DEF Turn, OwnStep, SelectPinned, SelectSticky, SelectPooled, Call, SelectFails, Return, Sync,
                Succeed, ClientGone, GatewayRetry, GatewayStop, RequestRejected, QuotaExceeded,
                RateLimited, AbortedFirst, SafetyFlagged, UpstreamFailure, turnVars
  <1> QED
    BY <1>1, <1>2

\* The call and the store's step keep the account and the snapshot.
LEMMA LaterSteps ==
  ASSUME TypeOK, NEW r \in Requests, Turn(r), pc'[r] \in {"invoking", "returned", "synced"}
  PROVE  \/ SelectPinned(r) \/ SelectSticky(r) \/ \E a \in Accounts : SelectPooled(r, a)
         \/ /\ pc[r] \in {"invoking", "returned"} /\ acc' = acc
            /\ pc'[r] # "synced"
         \/ /\ pc[r] = "returned" /\ acc' = acc /\ result' = result
            /\ \E withCycle \in UsageCycles : Sync(r, withCycle)
  <1> USE DEF TypeOK
  <1>1. CASE \E res \in Results, e \in BOOLEAN : Return(r, res, e)
    BY <1>1 DEF Return
  <1>2. CASE \E withCycle \in UsageCycles : Sync(r, withCycle)
    BY <1>2 DEF Sync, callVars
  <1>3. CASE \/ SelectFails(r) \/ Succeed(r) \/ ClientGone(r) \/ GatewayStop(r)
             \/ RequestRejected(r) \/ AbortedFirst(r)
    <2>1. \E how \in Verdict : End(r, how)
      BY <1>3 DEF SelectFails, Succeed, ClientGone, GatewayStop, RequestRejected, AbortedFirst,
                  Verdict
    <2> QED
      BY <2>1 DEF End
  <1>4. CASE \/ GatewayRetry(r) \/ AccountBlocked(r) \/ QuotaExceeded(r) \/ AuthFailed(r)
             \/ RateLimited(r) \/ SafetyFlagged(r)
             \/ \E kind \in {"upstream", "other"} : UpstreamFailure(r, kind)
    <2>1. \/ \E extra \in {0, 1} : Continue(r, extra)
          \/ End(r, "aborted")
      BY <1>4 DEF GatewayRetry, AccountBlocked, QuotaExceeded, AuthFailed, RateLimited,
                  SafetyFlagged, UpstreamFailure, AbortOrContinue
    <2> QED
      BY <2>1 DEF Continue, End
  <1> QED
    BY <1>1, <1>2, <1>3, <1>4 DEF Turn, OwnStep

\* A turn enables nothing, and what it finds dead is disabled by then.
LEMMA TurnKeepsOutOfReach ==
  ASSUME TypeOK, OutOfReach, NEW r \in Requests, Turn(r)
  PROVE  OutOfReach'
  <1>1. \A a \in Accounts : row'[a].enabled => row[a].enabled
    BY TurnOnlyOff
  <1>2. changes' = changes
    BY TurnIsNoChange
  <1>3. ASSUME NEW q \in Requests \ {r}
        PROVE  /\ pc'[q] \in {"invoking", "returned", "synced"} => acc'[q].row.enabled
               /\ changes' = 0 /\ pc'[q] = "synced" /\ result'[q].usage = "BLOCKED"
                  => ~row'[acc'[q].id].enabled
               /\ \A a \in dead'[q] : changes' = 0 => ~row'[a].enabled
    <2>1. /\ dead'[q] = dead[q] /\ pc'[q] = pc[q] /\ acc'[q] = acc[q]
          /\ result'[q] = result[q]
      BY TurnKeepsOthers, TurnKeepsResults
    <2>2. /\ dead[q] \subseteq Accounts
          /\ pc[q] = "synced" => acc[q].id \in Accounts
      BY DEF TypeOK
    <2> QED
      BY <1>1, <1>2, <2>1, <2>2 DEF OutOfReach, DeadStaysOut
  <1>4. /\ pc'[r] \in {"invoking", "returned", "synced"} => acc'[r].row.enabled
        /\ changes' = 0 /\ pc'[r] = "synced" /\ result'[r].usage = "BLOCKED"
           => ~row'[acc'[r].id].enabled
    <2> SUFFICES ASSUME pc'[r] \in {"invoking", "returned", "synced"}
                 PROVE  /\ acc'[r].row.enabled
                        /\ pc'[r] = "synced" /\ result'[r].usage = "BLOCKED"
                           => ~row'[acc'[r].id].enabled
      OBVIOUS
    <2>1. CASE SelectPinned(r) \/ SelectSticky(r) \/ \E a \in Accounts : SelectPooled(r, a)
      BY <2>1, CalledWhileEnabled
    <2>2. CASE pc[r] \in {"invoking", "returned"} /\ acc' = acc /\ pc'[r] # "synced"
      BY <2>2 DEF OutOfReach
    <2>3. CASE /\ pc[r] = "returned" /\ acc' = acc /\ result' = result
               /\ \E withCycle \in UsageCycles : Sync(r, withCycle)
      <3>1. result[r].usage = "BLOCKED" => ~row'[acc[r].id].enabled
        BY <2>3, TurnOnlyOff
      <3> QED
        BY <2>3, <3>1 DEF OutOfReach
    <2> QED
      BY <2>1, <2>2, <2>3, LaterSteps
  <1>5. \A a \in dead'[r] : changes' = 0 => ~row'[a].enabled
    <2>1. \A a \in dead[r] : changes' = 0 => ~row'[a].enabled
      BY <1>1, <1>2 DEF OutOfReach, DeadStaysOut, TypeOK
    <2>2. CASE AuthFailed(r)
      <3>1. ~row'[acc[r].id].enabled
        BY <2>2, TurnOnlyOff
      <3> QED
        BY <2>1, <3>1, DeadGrows
    <2>3. CASE pc[r] = "synced" /\ result[r].usage = "BLOCKED"
      <3>1. acc[r].id \in Accounts /\ (changes = 0 => ~row[acc[r].id].enabled)
        BY <2>3 DEF OutOfReach, TypeOK
      <3> QED
        BY <1>1, <1>2, <2>1, <3>1, DeadGrows
    <2> QED
      BY <2>1, <2>2, <2>3, DeadGrows
  <1> QED
    BY <1>3, <1>4, <1>5 DEF OutOfReach, DeadStaysOut

\* Every step keeps the dead accounts out of reach.
LEMMA NextKeepsOutOfReach ==
  TypeOK /\ OutOfReach /\ [Next]_vars => OutOfReach'
  <1> SUFFICES ASSUME TypeOK, OutOfReach, [Next]_vars
               PROVE  OutOfReach'
    OBVIOUS
  <1>1. CASE \E r \in Requests : Turn(r)
    BY <1>1, TurnKeepsOutOfReach
  <1>2. CASE Environment
    <2>1. changes' = changes + 1 /\ pc' = pc /\ acc' = acc
      BY <1>2 DEF Environment, OperatorToggles, BillingRefreshed, ClockTicks, loopVars, callVars
    <2>2. changes' # 0
      BY <2>1 DEF TypeOK
    <2> QED
      BY <2>1, <2>2 DEF OutOfReach, DeadStaysOut
  <1>3. CASE UNCHANGED vars
    BY <1>3 DEF OutOfReach, DeadStaysOut, vars, turnVars, callVars, loopVars
  <1> QED
    BY <1>1, <1>2, <1>3 DEF Next

\* While neither an operator nor a billing refresh switches it on, an account
\* that a request found blocked or without a session stays disabled: the stale
\* snapshots in applyUsageState and markOffline never enable one.
THEOREM DeadAlwaysStayOut == Spec => []DeadStaysOut
  <1>1. Init => OutOfReach
    BY DEF Init, OutOfReach, DeadStaysOut
  <1>2. OutOfReach => DeadStaysOut
    BY DEF OutOfReach
  <1> QED
    BY <1>1, <1>2, TypeCorrect, NextKeepsOutOfReach, PTL DEF Spec

(***************************************************************************)
(* Output.                                                                 *)
(***************************************************************************)

\* What the property needs between its steps: a call is never under way for a
\* request whose client has had output, so no selection can follow it either.
OutputSettles ==
  \A r \in Requests : emitted[r] => pc[r] \notin {"selecting", "invoking"}

\* A turn moves its own request only, and marks output only when a call returns.
LEMMA TurnSettles ==
  ASSUME TypeOK, OutputSettles, NEW r \in Requests, Turn(r)
  PROVE  emitted'[r] => pc'[r] \notin {"selecting", "invoking"}
  <1> USE DEF TypeOK
  <1>1. CASE \/ SelectPinned(r) \/ SelectSticky(r)
             \/ \E a \in Accounts : SelectPooled(r, a)
    <2>1. pc[r] = "selecting" /\ emitted' = emitted
      BY <1>1 DEF SelectPinned, SelectSticky, SelectPooled, Call
    <2> QED
      BY <2>1 DEF OutputSettles
  <1>2. CASE \E res \in Results, e \in BOOLEAN : Return(r, res, e)
    BY <1>2 DEF Return
  <1>3. CASE \E withCycle \in UsageCycles : Sync(r, withCycle)
    BY <1>3 DEF Sync
  <1>4. CASE \/ SelectFails(r) \/ Succeed(r) \/ ClientGone(r) \/ GatewayStop(r)
             \/ RequestRejected(r) \/ AbortedFirst(r)
    <2>1. \E how \in Verdict : End(r, how)
      BY <1>4 DEF SelectFails, Succeed, ClientGone, GatewayStop, RequestRejected, AbortedFirst,
                  Verdict
    <2> QED
      BY <2>1 DEF End
  <1>5. CASE \/ GatewayRetry(r) \/ AccountBlocked(r) \/ QuotaExceeded(r) \/ AuthFailed(r)
             \/ RateLimited(r) \/ SafetyFlagged(r)
             \/ \E kind \in {"upstream", "other"} : UpstreamFailure(r, kind)
    <2>1. /\ emitted' = emitted
          /\ \/ End(r, "aborted")
             \/ ~emitted[r]
      BY <1>5 DEF GatewayRetry, AccountBlocked, QuotaExceeded, AuthFailed, RateLimited,
                  SafetyFlagged, UpstreamFailure, AbortOrContinue, Decides, callVars
    <2> QED
      BY <2>1 DEF End
  <1> QED
    BY <1>1, <1>2, <1>3, <1>4, <1>5 DEF Turn, OwnStep

\* A turn flushes output for its own request only.
LEMMA OthersSettle ==
  ASSUME TypeOK, NEW r \in Requests, Turn(r), NEW q \in Requests \ {r}
  PROVE  emitted'[q] = emitted[q]
  <1> USE DEF TypeOK
  <1>1. CASE \E res \in Results, e \in BOOLEAN : Return(r, res, e)
    BY <1>1 DEF Return
  <1>2. CASE ~\E res \in Results, e \in BOOLEAN : Return(r, res, e)
    BY <1>2 DEF Turn, OwnStep, SelectPinned, SelectSticky, SelectPooled, Call, SelectFails, Sync, Succeed,
                ClientGone, GatewayRetry, GatewayStop, RequestRejected, AccountBlocked,
                QuotaExceeded, AuthFailed, RateLimited, AbortedFirst, SafetyFlagged,
                UpstreamFailure, Decides, callVars
  <1> QED
    BY <1>1, <1>2

\* Every step leaves a request that has flushed output to finish.
LEMMA NextSettles ==
  TypeOK /\ OutputSettles /\ [Next]_vars => OutputSettles'
  <1> SUFFICES ASSUME TypeOK, OutputSettles, [Next]_vars
               PROVE  OutputSettles'
    OBVIOUS
  <1>1. CASE \E r \in Requests : Turn(r)
    <2>1. PICK r \in Requests : Turn(r)
      BY <1>1
    <2>2. \A q \in Requests \ {r} : emitted'[q] = emitted[q] /\ pc'[q] = pc[q]
      BY <2>1, OthersSettle, TurnKeepsOthers
    <2>3. emitted'[r] => pc'[r] \notin {"selecting", "invoking"}
      BY <2>1, TurnSettles
    <2> QED
      BY <2>2, <2>3 DEF OutputSettles
  <1>2. CASE Environment
    <2>1. pc' = pc /\ emitted' = emitted
      BY <1>2 DEF Environment, OperatorToggles, BillingRefreshed, ClockTicks, loopVars, callVars
    <2> QED
      BY <2>1 DEF OutputSettles
  <1>3. CASE UNCHANGED vars
    BY <1>3 DEF OutputSettles, vars, callVars, loopVars
  <1> QED
    BY <1>1, <1>2, <1>3 DEF Next

\* No branch of the loop starts another turn once output has been flushed, so a
\* client never receives a second answer after part of a first one.
THEOREM NeverTurnsAfterOutput == Spec => []NoTurnAfterOutput
  <1>1. Init => OutputSettles
    BY DEF Init, OutputSettles
  <1>2. OutputSettles => NoTurnAfterOutput
    BY DEF OutputSettles, NoTurnAfterOutput
  <1> QED
    BY <1>1, <1>2, TypeCorrect, NextSettles, PTL DEF Spec

(***************************************************************************)
(* Continuations.                                                          *)
(***************************************************************************)

\* What keeps a continuation in place between its turns: the account called was
\* not an excluded one, and after a failure it is not to blame for it is pinned
\* and still not excluded.
StayedPut(r) ==
  /\ pc[r] \in {"invoking", "returned", "synced"} => acc[r].id \in Accounts \ excluded[r]
  /\ r \in Continuations /\ pc[r] = "selecting" /\ result[r].kind \in {"upstream", "other"} =>
       pinned[r] = acc[r].id /\ acc[r].id \in Accounts \ excluded[r]

StaysPut == \A r \in Requests : StayedPut(r)

\* A turn of one request leaves the pins of the others alone.
LEMMA TurnKeepsPins ==
  ASSUME TypeOK, NEW r \in Requests, Turn(r), NEW q \in Requests \ {r}
  PROVE  pinned'[q] = pinned[q] /\ result'[q] = result[q]
  <1> USE DEF TypeOK, turnVars, callVars
  <1>1. CASE SelectPinned(r) \/ SelectSticky(r) \/ \E a \in Accounts : SelectPooled(r, a)
    BY <1>1 DEF SelectPinned, SelectSticky, SelectPooled, Call
  <1>2. CASE \/ SelectFails(r)
             \/ \E res \in Results, e \in BOOLEAN : Return(r, res, e)
             \/ \E withCycle \in UsageCycles : Sync(r, withCycle)
    BY <1>2 DEF SelectFails, Return, Sync, End
  <1>3. CASE Succeed(r) \/ ClientGone(r) \/ GatewayStop(r) \/ RequestRejected(r) \/ AbortedFirst(r)
    BY <1>3 DEF Succeed, ClientGone, GatewayStop, RequestRejected, AbortedFirst, Decides, End
  <1>4. CASE \/ GatewayRetry(r) \/ AccountBlocked(r) \/ QuotaExceeded(r) \/ AuthFailed(r)
             \/ RateLimited(r) \/ SafetyFlagged(r)
             \/ \E kind \in {"upstream", "other"} : UpstreamFailure(r, kind)
    BY <1>4 DEF GatewayRetry, AccountBlocked, QuotaExceeded, AuthFailed, RateLimited,
                SafetyFlagged, UpstreamFailure, Decides, Pin
  <1> QED
    BY <1>1, <1>2, <1>3, <1>4 DEF Turn, OwnStep

\* A turn leaves its own request where it belongs.
LEMMA TurnStaysPut ==
  ASSUME TypeOK, NEW r \in Requests, StayedPut(r), Turn(r)
  PROVE  StayedPut(r)'
  <1> USE DEF TypeOK
  <1>1. CASE SelectPinned(r) \/ SelectSticky(r) \/ \E a \in Accounts : SelectPooled(r, a)
    <2>1. PICK a \in Accounts \ excluded[r], fromPool \in BOOLEAN :
            pc[r] = "selecting" /\ Call(r, a, fromPool)
      <3>1. CASE SelectPinned(r)
        BY <3>1 DEF SelectPinned, IsPinned, Returns
      <3>2. CASE SelectSticky(r)
        BY <3>2 DEF SelectSticky, IsSticky, Returns
      <3>3. ASSUME NEW a \in Accounts, SelectPooled(r, a)
            PROVE  a \notin excluded[r] /\ pc[r] = "selecting" /\ Call(r, a, TRUE)
        BY <3>3 DEF SelectPooled, PoolNext, Candidates, NotExhausted, NotExcluded
      <3> QED
        BY <1>1, <3>1, <3>2, <3>3
    <2>2. pc'[r] = "invoking" /\ acc'[r].id = a /\ excluded' = excluded
      BY <2>1 DEF Call, turnVars
    <2> QED
      BY <2>1, <2>2 DEF StayedPut
  <1>2. CASE \/ \E res \in Results, e \in BOOLEAN : Return(r, res, e)
             \/ \E withCycle \in UsageCycles : Sync(r, withCycle)
    <2>1. /\ pc[r] \in {"invoking", "returned"} /\ pc'[r] \in {"returned", "synced"}
          /\ UNCHANGED <<acc, excluded>>
      BY <1>2 DEF Return, Sync, turnVars, callVars
    <2> QED
      BY <2>1 DEF StayedPut
  <1>3. CASE \/ SelectFails(r) \/ Succeed(r) \/ ClientGone(r) \/ GatewayStop(r)
             \/ RequestRejected(r) \/ AbortedFirst(r)
    <2>1. pc'[r] = "finished"
      BY <1>3 DEF SelectFails, Succeed, ClientGone, GatewayStop, RequestRejected, AbortedFirst, End
    <2> QED
      BY <2>1 DEF StayedPut
  <1>4. CASE \/ GatewayRetry(r) \/ AccountBlocked(r) \/ QuotaExceeded(r) \/ AuthFailed(r)
             \/ RateLimited(r) \/ SafetyFlagged(r)
    <2>1. /\ result'[r].kind \notin {"upstream", "other"}
          /\ pc'[r] \in {"selecting", "finished"}
      BY <1>4 DEF GatewayRetry, AccountBlocked, QuotaExceeded, AuthFailed, RateLimited,
                  SafetyFlagged, Decides, AbortOrContinue, Continue, End, callVars
    <2> QED
      BY <2>1 DEF StayedPut
  <1>5. CASE \E kind \in {"upstream", "other"} : UpstreamFailure(r, kind)
    <2>1. /\ pc[r] = "synced" /\ pc'[r] \in {"selecting", "finished"}
          /\ UNCHANGED <<acc, excluded>> /\ Pin(r)
      BY <1>5 DEF UpstreamFailure, Decides, Continue, callVars
    <2>2. r \in Continuations => pinned'[r] = acc[r].id
      BY <2>1 DEF Pin
    <2> QED
      BY <2>1, <2>2 DEF StayedPut
  <1> QED
    BY <1>1, <1>2, <1>3, <1>4, <1>5 DEF Turn, OwnStep

\* Every step keeps a continuation with the account it may go back to.
LEMMA NextStaysPut ==
  TypeOK /\ StaysPut /\ [Next]_vars => StaysPut'
  <1> SUFFICES ASSUME TypeOK, StaysPut, [Next]_vars
               PROVE  StaysPut'
    OBVIOUS
  <1>1. CASE \E r \in Requests : Turn(r)
    <2>1. PICK r \in Requests : Turn(r)
      BY <1>1
    <2>2. ASSUME NEW q \in Requests \ {r} PROVE StayedPut(q)'
      <3>1. /\ pc'[q] = pc[q] /\ acc'[q] = acc[q] /\ excluded'[q] = excluded[q]
            /\ pinned'[q] = pinned[q] /\ result'[q] = result[q]
        BY <2>1, TurnKeepsOthers, TurnKeepsPins
      <3> QED
        BY <3>1 DEF StaysPut, StayedPut
    <2>3. StayedPut(r)'
      BY <2>1, TurnStaysPut DEF StaysPut
    <2> QED
      BY <2>2, <2>3 DEF StaysPut
  <1>2. CASE Environment
    <2>1. UNCHANGED <<turnVars, callVars, loopVars>>
      BY <1>2 DEF Environment, OperatorToggles, BillingRefreshed, ClockTicks
    <2> QED
      BY <2>1 DEF StaysPut, StayedPut, turnVars, callVars, loopVars
  <1>3. CASE UNCHANGED vars
    BY <1>3 DEF StaysPut, StayedPut, vars, turnVars, callVars, loopVars
  <1> QED
    BY <1>1, <1>2, <1>3 DEF Next

\* A failure of the upstream leaves a continuation on its account: the next call
\* goes there too while the account is usable, whatever other requests, the
\* operator and the billing refresh did in between.
THEOREM ContinuationsAlwaysStay == Spec => ContinuationStays
  <1> DEFINE Stays == \A r \in Continuations :
               /\ pc[r] = "selecting" /\ pc'[r] = "invoking"
               /\ result[r].kind \in {"upstream", "other"}
               /\ UsableForSticky(row[acc[r].id])
               => acc'[r].id = acc[r].id
  <1>1. Init => StaysPut
    BY DEF Init, StaysPut, StayedPut, NoResult
  <1>2. TypeOK /\ StaysPut /\ [Next]_vars => [Stays]_vars
    <2> SUFFICES ASSUME TypeOK, StaysPut, Next, NEW r \in Continuations,
                        pc[r] = "selecting", pc'[r] = "invoking",
                        result[r].kind \in {"upstream", "other"},
                        UsableForSticky(row[acc[r].id])
                 PROVE  acc'[r].id = acc[r].id
      OBVIOUS
    <2>1. r \in Requests
      BY RouteAssumption
    <2>2. pinned[r] = acc[r].id /\ IsPinned(r)
      BY <2>1 DEF StaysPut, StayedPut, IsPinned, Returns
    <2>3. ASSUME NEW q \in Requests, Turn(q) PROVE q = r
      BY <2>1, <2>3, TurnKeepsOthers
    <2>4. ~Environment
      <3>1. Environment => pc' = pc
        BY DEF Environment, OperatorToggles, BillingRefreshed, ClockTicks, loopVars
      <3> QED
        BY <3>1
    <2>5. Turn(r)
      BY <2>3, <2>4 DEF Next
    <2>6. SelectPinned(r)
      <3> USE DEF TypeOK
      <3>1. ~SelectSticky(r) /\ ~\E a \in Accounts : SelectPooled(r, a)
        BY <2>2 DEF SelectSticky, SelectPooled, IsSticky
      <3>2. ~SelectFails(r) /\ ~(\E res \in Results, e \in BOOLEAN : Return(r, res, e))
            /\ ~(\E withCycle \in UsageCycles : Sync(r, withCycle))
        BY <2>2 DEF SelectFails, Return, Sync
      <3>3. \/ Succeed(r) \/ ClientGone(r) \/ GatewayRetry(r) \/ GatewayStop(r)
            \/ RequestRejected(r) \/ AccountBlocked(r) \/ QuotaExceeded(r) \/ AuthFailed(r)
            \/ RateLimited(r) \/ AbortedFirst(r) \/ SafetyFlagged(r)
            \/ (\E kind \in {"upstream", "other"} : UpstreamFailure(r, kind))
            => pc[r] = "synced"
        BY DEF Succeed, ClientGone, GatewayRetry, GatewayStop, RequestRejected, AccountBlocked,
               QuotaExceeded, AuthFailed, RateLimited, AbortedFirst, SafetyFlagged,
               UpstreamFailure, Decides
      <3> QED
        BY <2>5, <3>1, <3>2, <3>3 DEF Turn, OwnStep
    <2> QED
      BY <2>1, <2>2, <2>6 DEF SelectPinned, Call, TypeOK
  <1> QED
    BY <1>1, <1>2, TypeCorrect, NextStaysPut, PTL DEF Spec, ContinuationStays
=============================================================================
