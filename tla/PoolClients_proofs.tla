------------------------- MODULE PoolClients_proofs -------------------------
(***************************************************************************)
(* Theorems about PoolClients, for every set of accounts and callers.      *)
(***************************************************************************)
EXTENDS PoolClients, Pool_proofs

\* A listing may be empty.
LEMMA EmptyViewTyped == IsView(EmptyView)
  <1>1. EmptyView \in [{} -> Row]
    BY DEF EmptyView
  <1> QED
    BY <1>1 DEF IsView

\* Every step keeps the types.
LEMMA NextTyped == TypeOK /\ [Next]_vars => TypeOK'
  <1> SUFFICES ASSUME TypeOK, [Next]_vars
               PROVE  TypeOK'
    OBVIOUS
  <1> USE DEF TypeOK, PoolTypeOK
  <1>1. ASSUME NEW c \in Callers, NEW X \in Exclusions, ListActive(c, X)
        PROVE  TypeOK'
    <2>1. [a \in ActiveAccounts(row) |-> row[a]] \in [ActiveAccounts(row) -> Row]
      BY DEF ActiveAccounts, Table
    <2>2. IsView([a \in ActiveAccounts(row) |-> row[a]])
      BY <2>1 DEF IsView, ActiveAccounts
    <2> QED
      BY <1>1, <2>2, CallersAssumption DEF ListActive, poolVars
  <1>2. ASSUME NEW c \in Callers, NEW a \in Accounts, Take(c, a)
        PROVE  TypeOK'
    <2>1. IsView(view[c])
      OBVIOUS
    <2>2. PoolTypeOK'
      <3> HIDE DEF PoolTypeOK
      <3> QED
        BY <1>2, <2>1, PoolNextTyped DEF Take
    <2> QED
      BY <1>2, <2>2, EmptyViewTyped DEF Take, Leave
  <1>3. ASSUME NEW c \in Callers, Refused(c)
        PROVE  TypeOK'
    BY <1>3, EmptyViewTyped DEF Refused, Leave, poolVars
  <1>4. ASSUME NEW c \in Callers, Return(c)
        PROVE  TypeOK'
    <2>1. acc[c] \in Accounts
      BY <1>4 DEF Return
    <2>2. inFlight' \in [Accounts -> Nat]
      BY <1>4, <2>1 DEF Return, PoolDone
    <2> QED
      BY <1>4, <2>1, <2>2 DEF Return, PoolDone
  <1>5. ASSUME NEW c \in Callers, Finish(c)
        PROVE  TypeOK'
    BY <1>5 DEF Finish, poolVars
  <1>6. ASSUME NEW c \in Callers, Delivered(c)
        PROVE  TypeOK'
    <2>1. acc[c] \in Accounts
      BY <1>6 DEF Delivered, Over
    <2>2. row' \in Table
      BY <1>6, <2>1, WritesTyped DEF Delivered
    <2>3. reservedUntil' \in SUBSET Accounts
      BY <1>6, <2>1 DEF Delivered, Reserve
    <2> QED
      BY <1>6, <2>2, <2>3 DEF Delivered, Over, Reserve
  <1>7. ASSUME NEW c \in Callers, Blocked(c)
        PROVE  TypeOK'
    BY <1>7 DEF Blocked, Over, MarkGatewayBlocked
  <1>8. ASSUME NEW c \in Callers, NEW s \in Status, Failed(c, s)
        PROVE  TypeOK'
    <2>1. acc[c] \in Accounts
      BY <1>8 DEF Failed, Over
    <2>2. row' \in Table
      BY <1>8, <2>1, WritesTyped DEF Failed
    <2> QED
      BY <1>8, <2>2 DEF Failed, Over, poolVars
  <1>9. ASSUME NEW a \in Accounts, NEW q \in Quota, Refreshed(a, q)
        PROVE  TypeOK'
    <2> DEFINE db == SetQuotaSnapshot(row, a, row[a].plan, q, row[a].cycle)
    <2>1. db \in Table
      BY WritesTyped DEF Table, Row
    <2>2. row' \in Table
      <3> HIDE DEF db
      <3>1. \A s \in Status : SetAccountStatus(db, a, s) \in Table
        BY <2>1, WritesTyped
      <3> QED
        BY <1>9, <3>1 DEF Refreshed, Status, db
    <2> QED
      BY <1>9, <2>2 DEF Refreshed, poolVars, callerVars
  <1>10. ASSUME NEW a \in Accounts, RunsOut(a)
        PROVE  TypeOK'
    <2>1. row' \in Table
      BY <1>10, WritesTyped DEF RunsOut, Quota, Table, Row
    <2> QED
      BY <1>10, <2>1 DEF RunsOut, poolVars, callerVars
  <1>11. ASSUME NEW a \in Accounts, ClockTicks(a)
         PROVE  TypeOK'
    BY <1>11 DEF ClockTicks, CooldownEnds, ReservationEnds, callerVars
  <1>12. CASE UNCHANGED vars
    BY <1>12 DEF vars, poolVars, callerVars
  <1> QED
    BY <1>1, <1>2, <1>3, <1>4, <1>5, <1>6, <1>7, <1>8, <1>9, <1>10, <1>11, <1>12
    DEF Next

\* The initial states have the types.
LEMMA InitTyped == Init => TypeOK
  <1> SUFFICES ASSUME Init
               PROVE  TypeOK
    OBVIOUS
  <1>1. PoolTypeOK
    BY AccountsAssumption, FS_CardinalityType DEF Init, PoolInit, PoolTypeOK
  <1>2. row \in Table
    BY CallersAssumption DEF Init, Table, Row, Status, Quota, Cycle
  <1> QED
    BY <1>1, <1>2, EmptyViewTyped DEF Init, TypeOK, NoAccount

\* TypeOK is an invariant: in particular last always indexes a listing no longer
\* than the table, and a caller whose call is under way holds an account.
THEOREM TypeCorrect == Spec => []TypeOK
  BY InitTyped, NextTyped, PTL DEF Spec

(***************************************************************************)
(* The in-flight counters.                                                 *)
(***************************************************************************)

\* The holders of an account are finitely many.
LEMMA HoldersFinite ==
  \A a : IsFiniteSet(Holders(a)) /\ Cardinality(Holders(a)) \in Nat
  <1> TAKE a
  <1>1. Holders(a) \subseteq Callers
    BY DEF Holders
  <1> QED
    BY <1>1, CallersAssumption, FS_Subset, FS_CardinalityType

\* A step that leaves pc, acc and the counters of every caller's class alone.
LEMMA SameHolders ==
  ASSUME InFlightAccounted, inFlight' = inFlight,
         \A a \in Accounts : Holders(a)' = Holders(a)
  PROVE  InFlightAccounted'
  BY DEF InFlightAccounted

\* Take adds one to one counter and one caller to its holders.
LEMMA TakeCounts ==
  ASSUME TypeOK, InFlightAccounted,
         NEW c \in Callers, NEW a \in Accounts, Take(c, a)
  PROVE  InFlightAccounted'
  <1> USE DEF TypeOK, PoolTypeOK
  <1>1. pc[c] = "listed" /\ pc' = [pc EXCEPT ![c] = "calling"] /\ acc' = [acc EXCEPT ![c] = a]
    BY DEF Take, Leave
  <1>2. inFlight' = [inFlight EXCEPT ![a] = @ + 1]
    BY DEF Take, PoolNext
  <1>3. c \notin Holders(a) /\ Holders(a)' = Holders(a) \cup {c}
    BY <1>1 DEF Holders
  <1>4. Cardinality(Holders(a)') = Cardinality(Holders(a)) + 1
    BY <1>3, HoldersFinite, FS_AddElement
  <1>5. \A b \in Accounts \ {a} : Holders(b)' = Holders(b)
    BY <1>1 DEF Holders
  <1> QED
    BY <1>2, <1>4, <1>5 DEF InFlightAccounted

\* Done is called by one of the holders, so the counter is at least 1 and the
\* clamp at zero is not reached.
LEMMA ReturnCounts ==
  ASSUME TypeOK, InFlightAccounted, NEW c \in Callers, Return(c),
         NEW a \in Accounts, acc[c] = a
  PROVE  InFlightAccounted'
  <1> USE DEF TypeOK, PoolTypeOK
  <1>1. pc[c] = "calling" /\ pc' = [pc EXCEPT ![c] = "returned"] /\ acc' = acc
    BY DEF Return
  <1>2. inFlight' = [inFlight EXCEPT ![a] = IF @ <= 1 THEN 0 ELSE @ - 1]
    BY DEF Return, PoolDone
  <1>3. c \in Holders(a) /\ Holders(a)' = Holders(a) \ {c}
    BY <1>1 DEF Holders
  <1>4. Cardinality(Holders(a)') = Cardinality(Holders(a)) - 1
    <2>1. IsFiniteSet(Holders(a))
      BY HoldersFinite
    <2>2. Cardinality(Holders(a) \ {c}) = Cardinality(Holders(a)) - 1
      BY <1>3, <2>1, FS_RemoveElement
    <2> QED
      BY <1>3, <2>2
  <1>5. Cardinality(Holders(a)) # 0
    BY <1>3, HoldersFinite, FS_EmptySet
  <1>6. inFlight[a] = Cardinality(Holders(a)) /\ inFlight[a] \in Nat
    BY <1>1 DEF InFlightAccounted
  <1>7. \A b \in Accounts \ {a} : Holders(b)' = Holders(b)
    BY <1>1 DEF Holders
  <1>8. inFlight'[a] = inFlight[a] - 1
    BY <1>1, <1>2, <1>5, <1>6
  <1>9. \A b \in Accounts \ {a} : inFlight'[b] = inFlight[b]
    BY <1>2
  <1> QED
    BY <1>4, <1>6, <1>7, <1>8, <1>9 DEF InFlightAccounted

\* Every step keeps the counters equal to their holders.
LEMMA NextCounts == TypeOK /\ InFlightAccounted /\ [Next]_vars => InFlightAccounted'
  <1> SUFFICES ASSUME TypeOK, InFlightAccounted, [Next]_vars
               PROVE  InFlightAccounted'
    OBVIOUS
  <1> USE DEF TypeOK, PoolTypeOK
  <1>1. ASSUME NEW c \in Callers, NEW X \in Exclusions, ListActive(c, X)
        PROVE  InFlightAccounted'
    <2>1. inFlight' = inFlight /\ \A a \in Accounts : Holders(a)' = Holders(a)
      BY <1>1 DEF ListActive, Holders, poolVars
    <2> QED
      BY <2>1, SameHolders
  <1>2. ASSUME NEW c \in Callers, Refused(c)
        PROVE  InFlightAccounted'
    <2>1. inFlight' = inFlight /\ \A a \in Accounts : Holders(a)' = Holders(a)
      BY <1>2, AccountsAssumption DEF NoAccount, Refused, Leave, Holders, poolVars
    <2> QED
      BY <2>1, SameHolders
  <1>3. ASSUME NEW c \in Callers, Finish(c)
        PROVE  InFlightAccounted'
    <2>1. inFlight' = inFlight /\ \A a \in Accounts : Holders(a)' = Holders(a)
      BY <1>3 DEF Finish, Holders, poolVars
    <2> QED
      BY <2>1, SameHolders
  <1>4. ASSUME NEW c \in Callers, inFlight' = inFlight, Over(c)
        PROVE  InFlightAccounted'
    <2>1. \A a \in Accounts : Holders(a)' = Holders(a)
      BY <1>4 DEF Over, Holders, NoAccount
    <2> QED
      BY <1>4, <2>1, SameHolders
  <1>5. ASSUME NEW c \in Callers,
               Delivered(c) \/ Blocked(c) \/ \E s \in Status : Failed(c, s)
        PROVE  InFlightAccounted'
    <2>1. inFlight' = inFlight /\ Over(c)
      BY <1>5 DEF Delivered, Blocked, Failed, Reserve, MarkGatewayBlocked, poolVars
    <2> QED
      BY <2>1, <1>4
  <1>6. ASSUME inFlight' = inFlight, UNCHANGED callerVars
        PROVE  InFlightAccounted'
    <2>1. \A a \in Accounts : Holders(a)' = Holders(a)
      BY <1>6 DEF Holders, callerVars
    <2> QED
      BY <1>6, <2>1, SameHolders
  <1>7. ASSUME NEW a \in Accounts,
               (\E q \in Quota : Refreshed(a, q)) \/ RunsOut(a) \/ ClockTicks(a)
        PROVE  InFlightAccounted'
    <2>1. inFlight' = inFlight /\ UNCHANGED callerVars
      BY <1>7 DEF Refreshed, RunsOut, ClockTicks, CooldownEnds, ReservationEnds, poolVars
    <2> QED
      BY <2>1, <1>6
  <1>8. ASSUME NEW c \in Callers, Return(c)
        PROVE  InFlightAccounted'
    <2>1. acc[c] \in Accounts
      BY <1>8 DEF Return
    <2> QED
      BY <1>8, <2>1, ReturnCounts
  <1>9. CASE UNCHANGED vars
    BY <1>6, <1>9 DEF vars, poolVars
  <1> QED
    BY <1>1, <1>2, <1>3, <1>5, <1>7, <1>8, <1>9, TakeCounts DEF Next

\* The counter the pool balances load on is exact: for any number of accounts,
\* requests and borrowers it is the number of calls under way plus the slots
\* the borrowers never gave back.
THEOREM CountersExact == Spec => []InFlightAccounted
  <1>1. Init => InFlightAccounted
    <2> SUFFICES ASSUME Init, NEW a \in Accounts
                 PROVE  inFlight[a] = Cardinality(Holders(a))
      BY DEF InFlightAccounted
    <2>1. Holders(a) = {}
      BY DEF Init, Holders
    <2> QED
      BY <2>1, FS_EmptySet DEF Init, PoolInit
  <1> QED
    BY <1>1, TypeCorrect, NextCounts, PTL DEF Spec

\* Only Take gives an account out.
LEMMA GivenByTake ==
  ASSUME TypeOK, [Next]_vars, NEW c \in Callers, IsGiven(c)
  PROVE  acc'[c] \in Accounts /\ Take(c, acc'[c])
  <1> USE DEF TypeOK, IsGiven
  <1>1. \E a \in Accounts : Take(c, a)
    BY DEF Next, ListActive, Take, Refused, Return, Finish, Over, Delivered, Blocked,
           Failed, Refreshed, RunsOut, ClockTicks, Leave, callerVars, vars
  <1>2. \A a \in Accounts : Take(c, a) => acc'[c] = a
    BY DEF Take
  <1> QED
    BY <1>1, <1>2

\* The rounds of next hold whatever the listing, the excluded accounts and the
\* number of accounts: a spent or cooled account is the last resort.
THEOREM RoundsAlwaysRespected == Spec => RoundsRespected
  <1>1. ASSUME TypeOK, [Next]_vars
        PROVE  [GivenByRounds]_vars
    <2> SUFFICES ASSUME NEW c \in Callers, IsGiven(c)
                 PROVE  LET p     == acc'[c]
                            other == DOMAIN view[c] \ excluded[c]
                        IN  /\ p \in other
                            /\ view[c][p].quota = "spent" =>
                                 \A b \in other : view[c][b].quota = "spent"
                            /\ p \in gatewayCooldown =>
                                 \A b \in other : \/ b \in gatewayCooldown
                                                   \/ view[c][b].quota = "spent"
      BY DEF GivenByRounds
    <2>1. acc'[c] \in Candidates(view[c], excluded[c])
      BY <1>1, GivenByTake DEF Take, PoolNext
    <2> QED
      BY <2>1 DEF Candidates, NotExhausted, NotExcluded, QuotaExhausted
  <1> QED
    BY <1>1, TypeCorrect, PTL DEF Spec, RoundsRespected

\* The early break of pickIndex loses no better account of the chosen plan.
THEOREM AlwaysBestOfItsPlan == Spec => BestOfItsPlan
  <1>1. ASSUME TypeOK, [Next]_vars
        PROVE  [GivenBestOfItsPlan]_vars
    <2> SUFFICES ASSUME NEW c \in Callers, IsGiven(c),
                        NEW b \in DOMAIN view[c] \ excluded[c],
                        view[c][b].plan = view[c][acc'[c]].plan,
                        b \in gatewayCooldown => acc'[c] \in gatewayCooldown,
                        view[c][b].quota = "spent" => view[c][acc'[c]].quota = "spent"
                 PROVE  /\ ~view[c][acc'[c]].neverUsed => ~view[c][b].neverUsed
                        /\ (~view[c][acc'[c]].neverUsed) = (~view[c][b].neverUsed) =>
                             /\ inFlight[acc'[c]] <= inFlight[b]
                             /\ /\ inFlight[acc'[c]] = inFlight[b]
                                /\ acc'[c] \in reservedUntil
                                => b \in reservedUntil
      BY DEF GivenBestOfItsPlan
    <2> DEFINE v == view[c]
               p == acc'[c]
               C == Candidates(v, excluded[c])
    <2>1. IsView(v) /\ C \in SUBSET DOMAIN v
      BY <1>1 DEF TypeOK, Candidates, NotExhausted, NotExcluded
    <2>2. PickIndex(v, C, p) /\ p \in C
      BY <1>1, GivenByTake DEF Take, PoolNext
    <2>3. b \in C
      BY <2>2 DEF Candidates, NotExhausted, NotExcluded, QuotaExhausted
    <2>4. ~Better(v, b, p)
      <3>1. PreferredPlan(v[b]) = PreferredPlan(v[p])
        BY DEF PreferredPlan
      <3> HIDE DEF v, p, C
      <3> QED
        BY <1>1, <2>1, <2>2, <2>3, <3>1, PickUnbeaten DEF TypeOK
    <2>5. /\ v[b].neverUsed \in BOOLEAN /\ v[p].neverUsed \in BOOLEAN
          /\ inFlight[b] \in Nat /\ inFlight[p] \in Nat
      BY <1>1, <2>1, <2>2, <2>3, ViewDomain DEF TypeOK, PoolTypeOK, Row
    <2> QED
      BY <2>4, <2>5 DEF Better, PreferredPlan
  <1> QED
    BY <1>1, TypeCorrect, PTL DEF Spec, BestOfItsPlan
=============================================================================
