-------------------------------- MODULE Pool --------------------------------
(***************************************************************************)
(* internal/pool/pool.go: the in-memory state of the account pool and one  *)
(* operator per method.  Everything here runs under Pool.mu, so a method   *)
(* is one step; what a caller read from the store before it took the lock  *)
(* is the argument "view", the slice ActiveAccounts returned, as a         *)
(* function from the listed ids to the rows they held.                     *)
(*                                                                         *)
(* Deadlines are abstracted to the set of accounts whose window is still   *)
(* open: CooldownEnds and ReservationEnds are the clock passing one.       *)
(***************************************************************************)
EXTENDS AccountStore

VARIABLES
  last,             \* index, in the last listing, of the last choice; -1 first
  inFlight,         \* calls counted against an account; 0 is an absent key
  gatewayCooldown,  \* accounts inside their gateway cooldown window
  reservedUntil     \* accounts inside their soft reservation window

poolVars == <<last, inFlight, gatewayCooldown, reservedUntil>>

\* What ActiveAccounts may return: some of the accounts, with their rows.
IsView(v) == \E S \in SUBSET Accounts : v \in [S -> Row]

PoolTypeOK ==
  /\ last \in -1 .. Cardinality(Accounts) - 1
  /\ inFlight \in [Accounts -> Nat]
  /\ gatewayCooldown \in SUBSET Accounts
  /\ reservedUntil \in SUBSET Accounts

\* New.
PoolInit ==
  /\ last = -1
  /\ inFlight = [a \in Accounts |-> 0]
  /\ gatewayCooldown = {}
  /\ reservedUntil = {}

(***************************************************************************)
(* pickIndex, QuotaModeRoundRobin.                                         *)
(***************************************************************************)

\* The index of a in the slice, which is ordered by id.
Index(view, a) == Cardinality({b \in DOMAIN view : b < a})

\* How far a is from the rotation's start, (last + 1) % len.
Distance(view, a) ==
  LET n == Cardinality(DOMAIN view)
  IN  (Index(view, a) + n - ((last + 1) % n)) % n

\* a replaces b as the best so far: preferred plan, then never used, then
\* the smaller load, then not reserved.
Better(view, a, b) ==
  \/ PreferredPlan(view[a]) /\ ~PreferredPlan(view[b])
  \/ /\ PreferredPlan(view[a]) = PreferredPlan(view[b])
     /\ \/ view[a].neverUsed /\ ~view[b].neverUsed
        \/ /\ view[a].neverUsed = view[b].neverUsed
           /\ \/ inFlight[a] < inFlight[b]
              \/ /\ inFlight[a] = inFlight[b]
                 /\ a \notin reservedUntil /\ b \in reservedUntil

\* The first of the best of C in rotation order.
IsBestOf(view, C, a) ==
  /\ a \in C
  /\ \A b \in C \ {a} :
       /\ ~Better(view, b, a)
       /\ Better(view, a, b) \/ Distance(view, a) < Distance(view, b)

\* The prefix of the scan that ends with s.
ScannedTo(view, C, s) == {b \in C : Distance(view, b) <= Distance(view, s)}

\* Mutant: a reserved best ends the scan too.
StopsAtReserved(view, C, s) ==
  \E best \in ScannedTo(view, C, s) :
    /\ IsBestOf(view, ScannedTo(view, C, s), best)
    /\ PreferredPlan(view[s]) = PreferredPlan(view[best])
    /\ view[s].neverUsed = view[best].neverUsed
    /\ view[s].neverUsed \/ \A b \in DOMAIN view : ~view[b].neverUsed
    /\ inFlight[s] = 0

\* The scan breaks at s: s has the plan and the use of the best so far, no
\* never-used account can still turn up above them, s is idle and the best
\* is not reserved.
StopsAt(view, C, s) ==
  \E best \in ScannedTo(view, C, s) :
    /\ IsBestOf(view, ScannedTo(view, C, s), best)
    /\ PreferredPlan(view[s]) = PreferredPlan(view[best])
    /\ view[s].neverUsed = view[best].neverUsed
    /\ view[s].neverUsed \/ \A b \in DOMAIN view : ~view[b].neverUsed
    /\ inFlight[s] = 0
    /\ best \notin reservedUntil

PickIndex(view, C, a) ==
  \/ \E s \in C :
       /\ StopsAt(view, C, s)
       /\ \A t \in ScannedTo(view, C, s) \ {s} : ~StopsAt(view, C, t)
       /\ IsBestOf(view, ScannedTo(view, C, s), a)
  \/ /\ \A s \in C : ~StopsAt(view, C, s)
     /\ IsBestOf(view, C, a)

(***************************************************************************)
(* next: three rounds, from "skip cooled and exhausted" to "skip nothing". *)
(***************************************************************************)

NotExcluded(view, excluded) == DOMAIN view \ excluded

NotExhausted(view, excluded) ==
  {a \in NotExcluded(view, excluded) : ~QuotaExhausted(view[a])}

\* Mutant: only an exhausted listing makes the rounds look at the cooldown.
CandidatesCooldownLast(view, excluded) ==
  LET usable == NotExhausted(view, excluded)
      all    == NotExcluded(view, excluded)
  IN  IF usable # {} THEN usable
      ELSE IF all \ gatewayCooldown # {} THEN all \ gatewayCooldown
      ELSE all

Candidates(view, excluded) ==
  LET usable == NotExhausted(view, excluded)
      fresh  == usable \ gatewayCooldown
  IN  IF fresh # {} THEN fresh
      ELSE IF usable # {} THEN usable
      ELSE NotExcluded(view, excluded)

\* Mutant: last counts choices instead of naming a place in the slice.
PoolNextCounting(view, excluded, a) ==
  /\ a \in Candidates(view, excluded)
  /\ PickIndex(view, Candidates(view, excluded), a)
  /\ last' = last + 1
  /\ inFlight' = [inFlight EXCEPT ![a] = @ + 1]
  /\ UNCHANGED <<gatewayCooldown, reservedUntil>>

\* The index of a becomes last, and a is counted in flight.
PoolNext(view, excluded, a) ==
  /\ a \in Candidates(view, excluded)
  /\ PickIndex(view, Candidates(view, excluded), a)
  /\ last' = Index(view, a)
  /\ inFlight' = [inFlight EXCEPT ![a] = @ + 1]
  /\ UNCHANGED <<gatewayCooldown, reservedUntil>>

\* NoAccountsError.
NoAccounts(view, excluded) == Candidates(view, excluded) = {}

\* Mutant: the key is deleted whatever the count.
PoolDoneDeletes(a) ==
  /\ inFlight' = [inFlight EXCEPT ![a] = 0]
  /\ UNCHANGED <<last, gatewayCooldown, reservedUntil>>

\* Done.
PoolDone(a) ==
  /\ inFlight' = [inFlight EXCEPT ![a] = IF @ <= 1 THEN 0 ELSE @ - 1]
  /\ UNCHANGED <<last, gatewayCooldown, reservedUntil>>

\* MarkGatewayBlocked; gatewayCooldownDur is never <= 0.
MarkGatewayBlocked(a) ==
  /\ gatewayCooldown' = gatewayCooldown \cup {a}
  /\ UNCHANGED <<last, inFlight, reservedUntil>>

\* Reserve with the window the settings give: ttl <= 0 reserves nothing.
Reserve(a, ttl) ==
  /\ reservedUntil' = IF ttl <= 0 THEN reservedUntil ELSE reservedUntil \cup {a}
  /\ UNCHANGED <<last, inFlight, gatewayCooldown>>

(***************************************************************************)
(* The clock.                                                              *)
(***************************************************************************)

CooldownEnds(a) ==
  /\ a \in gatewayCooldown
  /\ gatewayCooldown' = gatewayCooldown \ {a}
  /\ UNCHANGED <<last, inFlight, reservedUntil>>

ReservationEnds(a) ==
  /\ a \in reservedUntil
  /\ reservedUntil' = reservedUntil \ {a}
  /\ UNCHANGED <<last, inFlight, gatewayCooldown>>
=============================================================================
