---------------------------- MODULE Pool_proofs -----------------------------
(***************************************************************************)
(* Facts about the operations of the store and of the pool, for any set of *)
(* accounts and any listing.                                               *)
(***************************************************************************)
EXTENDS Pool, FiniteSetTheorems, TLAPS

\* Each write of the store yields a table.
LEMMA WritesTyped ==
  ASSUME NEW db \in Table, NEW a \in Accounts
  PROVE  /\ \A s \in Status : SetAccountStatus(db, a, s) \in Table
         /\ \A e \in BOOLEAN : SetAccountEnabled(db, a, e) \in Table
         /\ MarkUsed(db, a) \in Table
         /\ \A p \in Plan, q \in Quota, c \in Cycle :
              SetQuotaSnapshot(db, a, p, q, c) \in Table
         /\ \A c \in Cycle : SetQuotaCycle(db, a, c) \in Table
  <1> USE DEF Table, Row
  <1>1. \A s \in Status : SetAccountStatus(db, a, s) \in Table
    BY DEF SetAccountStatus
  <1>2. \A e \in BOOLEAN : SetAccountEnabled(db, a, e) \in Table
    BY DEF SetAccountEnabled
  <1>3. MarkUsed(db, a) \in Table
    BY DEF MarkUsed
  <1>4. ASSUME NEW p \in Plan, NEW q \in Quota, NEW c \in Cycle
        PROVE  SetQuotaSnapshot(db, a, p, q, c) \in Table
    BY DEF SetQuotaSnapshot
  <1>5. \A c \in Cycle : SetQuotaCycle(db, a, c) \in Table
    BY DEF SetQuotaCycle
  <1> QED
    BY <1>1, <1>2, <1>3, <1>4, <1>5

\* A listing maps some of the accounts to rows.
LEMMA ViewDomain ==
  ASSUME NEW v, IsView(v)
  PROVE  DOMAIN v \in SUBSET Accounts /\ \A a \in DOMAIN v : v[a] \in Row
  BY DEF IsView

\* A slice's index is below the number of accounts, so last names one of them.
LEMMA IndexBound ==
  ASSUME NEW v, IsView(v), NEW a \in DOMAIN v
  PROVE  /\ Index(v, a) \in 0 .. Cardinality(Accounts) - 1
         /\ Cardinality(DOMAIN v) \in Nat \ {0}
  <1> DEFINE S == DOMAIN v
             before == {b \in S : b < a}
  <1>0. S \in SUBSET Accounts
    BY ViewDomain
  <1>1. /\ IsFiniteSet(S)
        /\ Cardinality(S) <= Cardinality(Accounts)
        /\ Cardinality(Accounts) \in Nat
    BY <1>0, AccountsAssumption, FS_Subset, FS_CardinalityType
  <1>2. before \subseteq S \ {a}
    <2>1. ASSUME NEW b \in before
          PROVE  b \in S \ {a}
      <3>1. a \in Nat /\ b \in Nat /\ b < a
        BY <1>0, AccountsAssumption
      <3> QED
        BY <3>1
    <2> QED
      BY <2>1
  <1>3. IsFiniteSet(S \ {a}) /\ Cardinality(S \ {a}) = Cardinality(S) - 1
    BY <1>1, FS_RemoveElement
  <1>4. Cardinality(before) \in Nat /\ Cardinality(before) <= Cardinality(S \ {a})
    BY <1>2, <1>3, FS_Subset, FS_CardinalityType
  <1>5. Cardinality(S) \in Nat /\ Cardinality(S \ {a}) \in Nat
    BY <1>1, <1>3, FS_CardinalityType
  <1>6. Index(v, a) = Cardinality(before)
    BY DEF Index
  <1> HIDE DEF before, S
  <1>7. Index(v, a) \in 0 .. Cardinality(Accounts) - 1 /\ Cardinality(S) # 0
    BY <1>1, <1>3, <1>4, <1>5, <1>6
  <1> QED
    BY <1>5, <1>7 DEF S

\* Next keeps the pool's types; what it gives out was listed and not excluded.
LEMMA PoolNextTyped ==
  ASSUME PoolTypeOK, NEW v, IsView(v), NEW X, NEW a, PoolNext(v, X, a)
  PROVE  /\ PoolTypeOK'
         /\ a \in Accounts /\ a \in DOMAIN v /\ a \notin X
         /\ inFlight' = [inFlight EXCEPT ![a] = @ + 1]
  <1>1. a \in DOMAIN v /\ a \notin X
    BY DEF PoolNext, Candidates, NotExcluded, NotExhausted
  <1>2. a \in Accounts
    BY <1>1, ViewDomain
  <1>3. Index(v, a) \in 0 .. Cardinality(Accounts) - 1
    BY <1>1, IndexBound
  <1>4. last' \in -1 .. Cardinality(Accounts) - 1
    BY <1>3, AccountsAssumption, FS_CardinalityType DEF PoolNext
  <1> QED
    BY <1>1, <1>2, <1>4 DEF PoolNext, PoolTypeOK

\* Done keeps a counter at zero or above.
LEMMA PoolDoneTyped ==
  ASSUME PoolTypeOK, NEW a \in Accounts, PoolDone(a)
  PROVE  PoolTypeOK'
  <1>1. inFlight' \in [Accounts -> Nat]
    BY DEF PoolDone, PoolTypeOK
  <1> QED
    BY <1>1 DEF PoolDone, PoolTypeOK

(***************************************************************************)
(* What pickIndex chooses.                                                 *)
(***************************************************************************)

\* The distance from the last pick is an integer.
LEMMA DistanceTyped ==
  ASSUME PoolTypeOK, NEW v, IsView(v), NEW a \in DOMAIN v
  PROVE  Distance(v, a) \in Int
  <1>1. Index(v, a) \in Int /\ Cardinality(DOMAIN v) \in Nat \ {0}
    BY IndexBound, ViewDomain, AccountsAssumption, FS_CardinalityType
  <1>2. last \in Int
    BY AccountsAssumption, FS_CardinalityType DEF PoolTypeOK
  <1> QED
    BY <1>1, <1>2 DEF Distance

\* The first of the best is unique.
LEMMA BestUnique ==
  ASSUME PoolTypeOK, NEW v, IsView(v), NEW C \in SUBSET DOMAIN v,
         NEW a, NEW b, IsBestOf(v, C, a), IsBestOf(v, C, b)
  PROVE  a = b
  <1> SUFFICES ASSUME a # b
               PROVE  FALSE
    OBVIOUS
  <1>1. Distance(v, a) \in Int /\ Distance(v, b) \in Int
    BY DistanceTyped DEF IsBestOf
  <1>2. Distance(v, a) < Distance(v, b) /\ Distance(v, b) < Distance(v, a)
    BY DEF IsBestOf
  <1> QED
    BY <1>1, <1>2

\* No candidate whose plan ranks the same beats the choice, wherever the scan
\* stopped.
LEMMA PickUnbeaten ==
  ASSUME PoolTypeOK, NEW v, IsView(v), NEW C \in SUBSET DOMAIN v,
         NEW p, PickIndex(v, C, p),
         NEW b \in C, PreferredPlan(v[b]) = PreferredPlan(v[p])
  PROVE  p \in C /\ ~Better(v, b, p)
  <1>1. \A x \in C : x \in Accounts /\ inFlight[x] \in Nat /\ v[x].neverUsed \in BOOLEAN
    BY ViewDomain DEF PoolTypeOK, Row
  <1>2. ASSUME NEW D \in SUBSET C, IsBestOf(v, D, p), b \in D
        PROVE  ~Better(v, b, p)
    BY <1>1, <1>2 DEF IsBestOf, Better
  <1>3. CASE \E s \in C : StopsAt(v, C, s) /\ IsBestOf(v, ScannedTo(v, C, s), p)
    <2>1. PICK s \in C : StopsAt(v, C, s) /\ IsBestOf(v, ScannedTo(v, C, s), p)
      BY <1>3
    <2> DEFINE D == ScannedTo(v, C, s)
    <2>2. D \in SUBSET C /\ p \in D /\ p \in C
      BY <2>1 DEF ScannedTo, IsBestOf
    <2>3. CASE b \in D
      BY <1>2, <2>1, <2>2, <2>3
    <2>4. CASE b \notin D
      <3>1. PICK best \in D :
              /\ IsBestOf(v, D, best)
              /\ PreferredPlan(v[s]) = PreferredPlan(v[best])
              /\ v[s].neverUsed = v[best].neverUsed
              /\ v[s].neverUsed \/ \A x \in DOMAIN v : ~v[x].neverUsed
              /\ inFlight[s] = 0
              /\ best \notin reservedUntil
        BY <2>1 DEF StopsAt
      <3>2. best = p
        BY <2>1, <2>2, <3>1, BestUnique
      <3>3. s \in D
        <4>1. Distance(v, s) \in Int
          BY DistanceTyped
        <4> QED
          BY <4>1 DEF ScannedTo
      <3>4. inFlight[p] <= inFlight[s]
        BY <1>1, <2>1, <2>2, <3>1, <3>2, <3>3 DEF IsBestOf, Better
      <3> QED
        BY <1>1, <2>2, <3>1, <3>2, <3>4 DEF Better
    <2> QED
      BY <2>2, <2>3, <2>4
  <1>4. CASE IsBestOf(v, C, p)
    BY <1>2, <1>4 DEF IsBestOf
  <1> QED
    BY <1>3, <1>4 DEF PickIndex
=============================================================================
