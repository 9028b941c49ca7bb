---------------------------- MODULE QuotaWrites ----------------------------
(***************************************************************************)
(* What a usage event writes into the accounts table: persistQuota of      *)
(* internal/router/observability.go, applyUsageState and markOffline of    *)
(* quota_probe.go.  All of them decide on s, the snapshot [id, row] their  *)
(* caller read before the upstream call, and write to the table db as it   *)
(* is by then.  The retry loop and the background jobs share them.         *)
(***************************************************************************)
EXTENDS AccountStore

\* persistQuota: a place-holder while the snapshot knew no limit, then the cycle.
\* The numbers of a usage event are never stored.
PersistQuota(db, s, usage, withCycle) ==
  LET placed == IF usage # "none" /\ s.row.quota = "unknown"
                THEN SetQuotaSnapshot(db, s.id, s.row.plan, "unknown", "none") ELSE db
  IN  IF usage # "none" /\ withCycle THEN SetQuotaCycle(placed, s.id, "open") ELSE placed

\* Set the status or the switch only if the snapshot differs from the goal.
StatusUnless(db, s, goal) ==
  IF s.row.status # goal THEN SetAccountStatus(db, s.id, goal) ELSE db

\* Mutant: the switch is set without a look at the snapshot.
EnabledAlways(db, s, goal) == SetAccountEnabled(db, s.id, goal)

EnabledUnless(db, s, goal) ==
  IF s.row.enabled # goal THEN SetAccountEnabled(db, s.id, goal) ELSE db

\* Mutant: the upstream's word for the state becomes the status.
ApplyUsageStateVerbatim(db, s, usage) ==
  CASE usage = "BLOCKED"   -> EnabledUnless(StatusUnless(db, s, "blocked"), s, FALSE)
    [] usage = "EXCEEDED"  -> StatusUnless(db, s, "exhausted")
    [] usage = "AVAILABLE" -> EnabledUnless(StatusUnless(db, s, "active"), s, TRUE)
    [] OTHER               -> db

\* applyUsageState; usage events carry no numbers, so resQuotaExhausted is FALSE.
ApplyUsageState(db, s, usage) ==
  CASE usage = "BLOCKED"   -> EnabledUnless(StatusUnless(db, s, "error"), s, FALSE)
    [] usage = "EXCEEDED"  -> StatusUnless(db, s, "exhausted")
    [] usage = "AVAILABLE" -> EnabledUnless(StatusUnless(db, s, "active"), s, TRUE)
    [] OTHER               -> db

\* markOffline: the session of the account is dead.
MarkOffline(db, s) == EnabledUnless(StatusUnless(db, s, "offline"), s, FALSE)
=============================================================================
