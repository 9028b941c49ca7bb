---------------------------- MODULE AccountJobs ----------------------------
(***************************************************************************)
(* Everything that keeps the accounts table true to the upstream besides   *)
(* the retry loop itself: the usage events of conversations, the billing   *)
(* refresh they schedule, the probes of the panel and of an import, the    *)
(* 22:00 trial extension, the 23:10 purge, and the operator's edits.       *)
(*                                                                         *)
(* Each goroutine is a task.  It read its snapshot of the row when it      *)
(* began, and every step it takes is one answer of the upstream or one     *)
(* re-read of the store, with the writes that follow at once:              *)
(*   ping                ProbeQuota or a conversation; persistQuota,       *)
(*                       markOffline, applyUsageState                      *)
(*   bill -> snap        fetchBillingOpsResult, up to and from the moment  *)
(*                       the cycle columns are re-read                     *)
(*   check -> refill     the cycle is missing: backfillQuotaCycle          *)
(*   decide              RefreshAccountQuotaWithTrial after its probe      *)
(*   slot -> mirror -> base -> start    one account's trial extension      *)
(*   wait                a goroutine still in its time.Sleep               *)
(* The process may be restarted at any moment: tasks and the debounce map  *)
(* are lost, the table stays, and the purge runs at once.                  *)
(***************************************************************************)
EXTENDS QuotaWrites

CONSTANTS
  Triggers,      \* goroutines of conversations, handlers and jobs
  Spawned,       \* goroutines these start: billing refreshes
  FirstPlans,    \* what the table may say of an account's plan at first
  FirstBases,    \* where its base trial may be at first
  Replies,       \* what a conversation or a probe may return
  MaxEvents      \* bound: what is begun, edited or changes upstream

ASSUME JobsAssumption ==
  /\ Triggers \cap Spawned = {}
  /\ FirstPlans \subseteq {"none", "free", "solo-trial", "FREE_USER"}
  /\ FirstBases \subseteq {"active", "lastHour", "over"}
  /\ Replies \subseteq [auth : BOOLEAN, cycle : BOOLEAN,
                        usage : {"none", "AVAILABLE", "EXCEEDED", "BLOCKED"}]
  /\ MaxEvents \in Nat

Slots == Triggers \cup Spawned

VARIABLES
  live,      \* the accounts that have a row
  fresh,     \* those created within the purge's grace day
  extCount,  \* accounts.ext_trial_count
  up,        \* upstream: quota, base trial, extension slot, of each account
  openedIn,  \* history: the base trial's phase when the extension was opened
  task,      \* the goroutines
  queue,     \* what a loop over accounts still has to start
  pending,   \* billingRefresher.pending
  recent,    \* lastAt is less than billingRefreshDebounce ago
  doomed,    \* accounts the running purge has yet to delete
  clock,     \* "day", or "evening" between 22:00 and 23:10
  events

rowVars  == <<row, live, fresh, extCount>>
upVars   == <<up, openedIn>>
procVars == <<task, queue, pending, recent, doomed>>
vars     == <<rowVars, upVars, procVars, clock, events>>

Trial == {"active", "lastHour", "over"}
Slot  == {"unused", "active", "over"}

JobRow == [status : Status, enabled : BOOLEAN, neverUsed : BOOLEAN,
           plan : Plan \cup {"none", "FREE_USER"}, quota : Quota, cycle : Cycle]

Snapshot == [id : Accounts, row : JobRow, count : {0, 1}]

\* The fields a task needs; got is what it last learned.
Got == [quota : Quota, plan : Plan \cup {"none"}, cycle : Cycle, slot : Slot \cup {"none"}]

Nothing == [quota |-> "unknown", plan |-> "none", cycle |-> "none", slot |-> "none"]

Kind == {"chat", "probe", "panel", "panelTrial", "nightly", "after", "late"}
Pc   == {"wait", "ping", "bill", "snap", "check", "refill", "decide", "slot",
         "mirror", "base", "start"}

NoTask == [kind |-> "none", pc |-> "none"]

Task == [kind : Kind, pc : Pc, seen : Snapshot, got : Got]

Running(t) == task[t] # NoTask

\* Every variable has its type, and the stored count says no extension was used
\* that the upstream has not seen.
TypeOK ==
  /\ row \in [Accounts -> JobRow]
  /\ live \subseteq Accounts
  /\ fresh \subseteq Accounts
  /\ extCount \in [Accounts -> {0, 1}]
  /\ up \in [Accounts -> [quota : {"left", "spent"}, base : Trial, ext : Slot]]
  /\ openedIn \in [Accounts -> Trial \cup {"none"}]
  /\ \A t \in Slots : task[t] \in Task \cup {NoTask}
  /\ queue \subseteq [kind : {"nightly", "probe", "import"}, seen : Snapshot]
  /\ pending \subseteq Accounts
  /\ recent \subseteq Accounts
  /\ doomed \subseteq Accounts
  /\ clock \in {"day", "evening"}
  /\ events \in Nat
  /\ \A t \in Slots : Running(t) /\ task[t].pc = "mirror" => task[t].got.slot # "none"
  /\ \A a \in live : extCount[a] = 1 => up[a].ext # "unused"

FirstRow(p) == [status |-> "active", enabled |-> TRUE, neverUsed |-> TRUE,
                plan |-> p, quota |-> IF p = "none" THEN "unknown" ELSE "left",
                cycle |-> "none"]

Init ==
  /\ \E p \in FirstPlans : row = [a \in Accounts |-> FirstRow(p)]
  /\ live = Accounts
  /\ fresh = {}
  /\ extCount = [a \in Accounts |-> 0]
  /\ \E b \in FirstBases : up = [a \in Accounts |-> [quota |-> "left", base |-> b, ext |-> "unused"]]
  /\ openedIn = [a \in Accounts |-> "none"]
  /\ task = [t \in Slots |-> NoTask]
  /\ queue = {}
  /\ pending = {}
  /\ recent = {}
  /\ doomed = {}
  /\ clock = "day"
  /\ events = 0

(***************************************************************************)
(* The table.  An UPDATE of a row that is gone changes nothing.            *)
(***************************************************************************)

\* A row as INSERT leaves it.
NewRow(on) == [status |-> "active", enabled |-> on, neverUsed |-> TRUE,
               plan |-> "none", quota |-> "unknown", cycle |-> "none"]

\* An id alone: what is left of a snapshot nobody will look at again.
Ref(a) == [id |-> a, row |-> NewRow(TRUE), count |-> 0]

\* A snapshot; the cycle columns are re-read by whoever needs them.
Look(a) == [id |-> a, row |-> [row[a] EXCEPT !.cycle = "none"], count |-> extCount[a]]

\* The rows of a listing, ListAccounts or GetAccount.
Listed == {Look(a) : a \in live}

Write(a, db) == row' = IF a \in live THEN db ELSE row

WriteCount(a, n) == extCount' = IF a \in live THEN [extCount EXCEPT ![a] = n] ELSE extCount

\* INSERT ... ON CONFLICT(email) DO UPDATE: status active, the switch as given.
Upsert(a, on) ==
  /\ row' = [row EXCEPT ![a] = IF a \in live
                               THEN [@ EXCEPT !.status = "active", !.enabled = on]
                               ELSE NewRow(on)]
  /\ extCount' = IF a \in live THEN extCount ELSE [extCount EXCEPT ![a] = 0]
  /\ fresh' = IF a \in live THEN fresh ELSE fresh \cup {a}
  /\ live' = live \cup {a}

(***************************************************************************)
(* Tasks.                                                                  *)
(***************************************************************************)

Begin(kind, at, seen) == [kind |-> kind, pc |-> at, seen |-> seen, got |-> Nothing]

Goto(t, at) == [task[t] EXCEPT !.pc = at]

\* From here on the task looks at what it learned, not at its snapshot.
Learn(t, at, got) == [task[t] EXCEPT !.pc = at, !.seen = Ref(@.id), !.got = got]

\* A slot for one more goroutine; which one makes no difference.
FreeSlot(S) == CHOOSE u \in S : ~Running(u)

HasFree(S) == \E u \in S : ~Running(u)

\* Where a task goes when its probe is over.
AfterProbe(t) ==
  IF task[t].kind = "panelTrial" THEN Learn(t, "decide", task[t].got) ELSE NoTask

Counted == events < MaxEvents /\ events' = events + 1

At(t, at) == Running(t) /\ task[t].pc = at

(***************************************************************************)
(* scheduleBillingRefresh and its goroutine.                               *)
(***************************************************************************)

\* Mutant: the debounce looks at lastAt only.
DueByTimeOnly(a) == a \notin recent

RefreshDue(a) == a \notin recent /\ a \notin pending

\* t goes on as next; a refresh of a is started beside it unless debounced.
ScheduleRefresh(t, a, next) ==
  IF RefreshDue(a)
  THEN /\ HasFree(Spawned)
       /\ task' = [task EXCEPT ![t] = next,
                              ![FreeSlot(Spawned)] = Begin("after", "wait", Ref(a))]
       /\ recent' = recent \cup {a}
       /\ pending' = pending \cup {a}
  ELSE /\ task' = [task EXCEPT ![t] = next]
       /\ UNCHANGED <<recent, pending>>

\* The end of a task; the refresh clears its pending mark on every path.
EndTask(t) ==
  /\ task' = [task EXCEPT ![t] = NoTask]
  /\ pending' = IF task[t].kind = "after" THEN pending \ {task[t].seen.id} ELSE pending

\* Mutant: the early return forgets the mark.
WakesForgetful(t) ==
  LET a == task[t].seen.id
  IN  /\ At(t, "wait")
      /\ IF a \in live /\ row[a].enabled
         THEN /\ task' = [task EXCEPT ![t] = Begin(@.kind, "bill", Look(a))]
              /\ UNCHANGED pending
         ELSE /\ task' = [task EXCEPT ![t] = NoTask]
              /\ UNCHANGED pending
      /\ UNCHANGED <<rowVars, upVars, queue, recent, doomed, clock, events>>

\* After its sleep the goroutine reads the account: gone or off, it ends.
Wakes(t) ==
  LET a == task[t].seen.id
  IN  /\ At(t, "wait")
      /\ IF a \in live /\ row[a].enabled
         THEN /\ task' = [task EXCEPT ![t] = Begin(@.kind, "bill", Look(a))]
              /\ UNCHANGED pending
         ELSE EndTask(t)
      /\ UNCHANGED <<rowVars, upVars, queue, recent, doomed, clock, events>>

(***************************************************************************)
(* A conversation or a probe returns.                                      *)
(***************************************************************************)

PingReturns(t, rep) ==
  LET s == task[t].seen
      kept == PersistQuota(row, s, rep.usage, rep.cycle)
  IN  /\ At(t, "ping")
      /\ rep.usage = "EXCEEDED" => up[s.id].quota = "spent"
      /\ Write(s.id, ApplyUsageState(IF rep.auth THEN MarkOffline(kept, s) ELSE kept, s, rep.usage))
      /\ ScheduleRefresh(t, s.id, AfterProbe(t))
      /\ UNCHANGED <<live, fresh, extCount, upVars, queue, doomed, clock, events>>

(***************************************************************************)
(* fetchBillingOpsResult.                                                  *)
(***************************************************************************)

\* The plan billing reports for what is active upstream.
PlanOf(u) == IF u.base # "over" \/ u.ext = "active" THEN "solo-trial" ELSE "free"

\* Mutant: the switch is set on whatever the snapshot says.
SwitchOnAlways(db, s) == SetAccountEnabled(db, s.id, TRUE)

SwitchOnIfOff(db, s) == IF ~s.row.enabled THEN SetAccountEnabled(db, s.id, TRUE) ELSE db

\* Status and switch follow what is left, on the snapshot's word.
SyncHealth(db, s, quota) ==
  IF quota = "spent" THEN StatusUnless(db, s, "exhausted")
                     ELSE SwitchOnIfOff(StatusUnless(db, s, "active"), s)

\* Billing answers: status and switch are written, the cycle is re-read.
BillAnswers(t) ==
  LET s == task[t].seen
      a == s.id
  IN  /\ At(t, "bill")
      /\ Write(a, SyncHealth(row, s, up[a].quota))
      /\ task' = [task EXCEPT ![t] =
                    Learn(t, "snap", [quota |-> up[a].quota, plan |-> PlanOf(up[a]),
                                      cycle |-> IF a \in live THEN row[a].cycle ELSE "none",
                                      slot |-> "none"])]
      /\ UNCHANGED <<live, fresh, extCount, upVars, queue, pending, recent, doomed, clock, events>>

\* A refresh gives up; a probe falls back on a conversation of its own.
BillFails(t) ==
  /\ At(t, "bill")
  /\ IF task[t].kind \in {"after", "late"}
     THEN EndTask(t)
     ELSE task' = [task EXCEPT ![t] = Goto(t, "ping")] /\ UNCHANGED pending
  /\ UNCHANGED <<rowVars, upVars, queue, recent, doomed, clock, events>>

SnapWrites(t) ==
  LET a == task[t].seen.id
      got == task[t].got
  IN  /\ At(t, "snap")
      /\ Write(a, SetQuotaSnapshot(row, a, got.plan, got.quota, got.cycle))
      /\ IF task[t].kind \in {"after", "late"}
         THEN EndTask(t)
         ELSE task' = [task EXCEPT ![t] = Learn(t, "check", Nothing)] /\ UNCHANGED pending
      /\ UNCHANGED <<live, fresh, extCount, upVars, queue, recent, doomed, clock, events>>

\* The row is read again; a cycle that is missing or over is asked for.
Check(t) ==
  LET a == task[t].seen.id
      seen == [Nothing EXCEPT !.quota = row[a].quota]
  IN  /\ At(t, "check")
      /\ task' = [task EXCEPT ![t] =
                    IF row[a].cycle # "open" THEN Learn(t, "refill", seen)
                    ELSE IF @.kind = "panelTrial" THEN Learn(t, "decide", seen)
                    ELSE NoTask]
      /\ UNCHANGED <<rowVars, upVars, queue, pending, recent, doomed, clock, events>>

\* backfillQuotaCycle: only the cycle of this conversation is stored.
Refill(t, withCycle) ==
  LET a == task[t].seen.id
  IN  /\ At(t, "refill")
      /\ Write(a, IF withCycle THEN SetQuotaCycle(row, a, "open") ELSE row)
      /\ task' = [task EXCEPT ![t] = AfterProbe(t)]
      /\ UNCHANGED <<live, fresh, extCount, upVars, queue, pending, recent, doomed, clock, events>>

(***************************************************************************)
(* The trial extension of one account, nightly or after a panel refresh.   *)
(***************************************************************************)

\* All the trial extension looks at in its snapshot.
CountOnly(s) == [Ref(s.id) EXCEPT !.count = s.count]

\* After the panel's probe: spent or fallen back to the free plan, and on.
Decide(t) ==
  LET a == task[t].seen.id
      wanted == /\ a \in live
                /\ row[a].enabled
                /\ \/ row[a].status = "exhausted"
                   \/ task[t].got.quota = "spent"
                   \/ row[a].plan = "free"
  IN  /\ At(t, "decide")
      /\ task' = [task EXCEPT ![t] = IF wanted THEN Begin(@.kind, "slot", CountOnly(Look(a))) ELSE NoTask]
      /\ UNCHANGED <<rowVars, upVars, queue, pending, recent, doomed, clock, events>>

SlotAnswers(t) ==
  /\ At(t, "slot")
  /\ task' = [task EXCEPT ![t] =
                [Goto(t, "mirror") EXCEPT !.got.slot = up[task[t].seen.id].ext]]
  /\ UNCHANGED <<rowVars, upVars, queue, pending, recent, doomed, clock, events>>

TrialCallFails(t) ==
  /\ \E at \in {"slot", "base", "start"} : At(t, at)
  /\ task' = [task EXCEPT ![t] = NoTask]
  /\ UNCHANGED <<rowVars, upVars, queue, pending, recent, doomed, clock, events>>

\* syncCycleFromTrial, by the nightly job alone.
SyncCycle(t, trial) ==
  LET a == task[t].seen.id
  IN  Write(a, IF task[t].kind = "nightly" /\ trial # "over" THEN SetQuotaCycle(row, a, "open") ELSE row)

\* Mutant: the count is written even when it has not changed.
SyncCountAlways(t, n) == WriteCount(task[t].seen.id, n)

\* syncExtTrialCount: n activations upstream, against the snapshot's count.
SyncCount(t, n) ==
  IF task[t].seen.count # n THEN WriteCount(task[t].seen.id, n) ELSE UNCHANGED extCount

\* A slot in use, now or before, ends the matter; a free one asks for the base.
Mirror(t) ==
  LET slot == task[t].got.slot
  IN  /\ At(t, "mirror")
      /\ SyncCount(t, IF slot = "unused" THEN 0 ELSE 1)
      /\ \/ /\ slot = "unused"
            /\ task' = [task EXCEPT ![t] = Learn(t, "base", Nothing)]
            /\ UNCHANGED row
         \/ /\ slot # "unused"
            /\ SyncCycle(t, slot)
            /\ task' = [task EXCEPT ![t] = NoTask]
      /\ UNCHANGED <<live, fresh, upVars, queue, pending, recent, doomed, clock, events>>

\* Mutant: the base trial is not looked at.
BaseNeverActive(base) == FALSE

\* baseTrialActive: its end lies more than an hour ahead.
BaseTrialActive(base) == base = "active"

BaseAnswers(t) ==
  LET base == up[task[t].seen.id].base
  IN  /\ At(t, "base")
      /\ \/ /\ BaseTrialActive(base)
            /\ SyncCycle(t, base)
            /\ task' = [task EXCEPT ![t] = NoTask]
         \/ /\ ~BaseTrialActive(base)
            /\ task' = [task EXCEPT ![t] = Goto(t, "start")]
            /\ UNCHANGED row
      /\ UNCHANGED <<live, fresh, extCount, upVars, queue, pending, recent, doomed, clock, events>>

\* The upstream opens the slot, once: a new allowance, and a window in history.
Opened(a) ==
  /\ up[a].ext = "unused"
  /\ up' = [up EXCEPT ![a].ext = "active", ![a].quota = "left"]
  /\ openedIn' = [openedIn EXCEPT ![a] = up[a].base]

\* StartTrial succeeds: count and cycle are stored, a late refresh is started.
StartAnswers(t) ==
  LET a == task[t].seen.id
  IN  /\ At(t, "start")
      /\ Opened(a)
      /\ WriteCount(a, 1)
      /\ Write(a, SetQuotaCycle(row, a, "open"))
      /\ task' = [task EXCEPT ![t] = Begin("late", "wait", Ref(a))]
      /\ UNCHANGED <<live, fresh, queue, pending, recent, doomed, clock, events>>

\* It succeeds upstream and its answer is lost.
StartLost(t) ==
  /\ At(t, "start")
  /\ Opened(task[t].seen.id)
  /\ task' = [task EXCEPT ![t] = NoTask]
  /\ UNCHANGED <<rowVars, queue, pending, recent, doomed, clock, events>>

(***************************************************************************)
(* What begins a task.                                                     *)
(***************************************************************************)

IdleTrigger(t) == HasFree(Triggers) /\ t = FreeSlot(Triggers)

\* A conversation on an account the pool or its stickiness may serve.
ChatBegins(t, a) ==
  /\ IdleTrigger(t) /\ Counted
  /\ a \in live
  /\ row[a].enabled /\ row[a].status # "exhausted" /\ ~QuotaExhausted(row[a])
  /\ task' = [task EXCEPT ![t] = Begin("chat", "ping", Look(a))]
  /\ UNCHANGED <<rowVars, upVars, queue, pending, recent, doomed, clock>>

\* ProbeAccountQuota, with or without the trial: any account, switched off or not.
PanelRefreshes(t, a, kind) ==
  /\ IdleTrigger(t) /\ Counted
  /\ a \in live
  /\ task' = [task EXCEPT ![t] = Begin(kind, "bill", Look(a))]
  /\ UNCHANGED <<rowVars, upVars, queue, pending, recent, doomed, clock>>

Worth(s) == s.row.enabled /\ s.row.status # "exhausted"

\* ProbeQuotas: the accounts whose quota was never collected.
ProbesAll ==
  LET due == {s \in Listed : Worth(s) /\ s.row.quota = "unknown"}
  IN  /\ Counted
      /\ due # {}
      /\ queue' = queue \cup {[kind |-> "probe", seen |-> s] : s \in due}
      /\ UNCHANGED <<rowVars, upVars, task, pending, recent, doomed, clock>>

\* ExtendTrialsDue at 22:00: the accounts that are switched on.
Evening ==
  /\ clock = "day" /\ Counted
  /\ clock' = "evening"
  /\ queue' = queue \cup {[kind |-> "nightly", seen |-> CountOnly(s)] : s \in {s \in Listed : s.row.enabled}}
  /\ UNCHANGED <<rowVars, upVars, task, pending, recent, doomed>>

\* The semaphore lets the next of a loop in; ProbeAccountsByIDs reads it now.
TakesNext(t, q) ==
  LET s == IF q.kind = "import" THEN Look(q.seen.id) ELSE q.seen
  IN  /\ IdleTrigger(t)
      /\ q \in queue
      /\ queue' = queue \ {q}
      /\ task' = [task EXCEPT ![t] =
                    IF q.kind = "nightly" THEN Begin("nightly", "slot", CountOnly(s))
                    ELSE IF q.kind = "import" /\ ~(s.id \in live /\ Worth(s)) THEN NoTask
                    ELSE Begin("probe", "bill", s)]
      /\ UNCHANGED <<rowVars, upVars, pending, recent, doomed, clock, events>>

(***************************************************************************)
(* The operator's edits.                                                   *)
(***************************************************************************)

\* importAccounts: the switched on are probed in the background.
Imports(a, on) ==
  /\ Counted
  /\ Upsert(a, on)
  /\ queue' = IF on THEN queue \cup {[kind |-> "import",
                                      seen |-> Ref(a)]}
                    ELSE queue
  /\ UNCHANGED <<upVars, task, pending, recent, doomed, clock>>

\* addAccount: a row it finds keeps its switch.
Adds(a) ==
  /\ Counted
  /\ Upsert(a, a \in live => row[a].enabled)
  /\ UNCHANGED <<upVars, procVars, clock>>

Toggles(a, on) ==
  /\ Counted
  /\ a \in live /\ row[a].enabled # on
  /\ row' = SetAccountEnabled(row, a, on)
  /\ UNCHANGED <<live, fresh, extCount, upVars, procVars, clock>>

\* DeleteAccount; what the row held no longer matters.
Gone(a) ==
  /\ live' = live \ {a}
  /\ fresh' = fresh \ {a}
  /\ row' = [row EXCEPT ![a] = NewRow(FALSE)]
  /\ extCount' = [extCount EXCEPT ![a] = 0]

Deletes(a) ==
  /\ Counted
  /\ a \in live
  /\ Gone(a)
  /\ UNCHANGED <<upVars, procVars, clock>>

(***************************************************************************)
(* The purge of free accounts, and the restart that runs it at once.       *)
(***************************************************************************)

\* isFreePlanForCleanup.
FreePlanForCleanup(w) == w.plan = "FREE_USER" \/ (w.plan = "free" /\ QuotaExhausted(w))

\* What purgeFreeAccountsOnce finds to delete when it lists the table.
Condemned == {a \in live \ fresh : FreePlanForCleanup(row[a]) /\ row[a].enabled}

\* 23:10, whether or not the run of 22:00 is over.
Purge ==
  /\ clock = "evening"
  /\ clock' = "day"
  /\ doomed' = Condemned
  /\ fresh' = {}
  /\ UNCHANGED <<row, live, extCount, upVars, task, queue, pending, recent, events>>

PurgeDeletes(a) ==
  /\ a \in doomed
  /\ Gone(a)
  /\ doomed' = doomed \ {a}
  /\ UNCHANGED <<upVars, task, queue, pending, recent, clock, events>>

\* The process dies and comes back: main starts the purge.
Restarts ==
  /\ Counted
  /\ task' = [t \in Slots |-> NoTask]
  /\ queue' = {}
  /\ pending' = {}
  /\ recent' = {}
  /\ doomed' = Condemned
  /\ UNCHANGED <<rowVars, upVars, clock>>

(***************************************************************************)
(* The upstream and the clock.                                             *)
(***************************************************************************)

\* The allowance is used up, or its cycle begins anew.
QuotaTurns(a) ==
  /\ Counted
  /\ up' = [up EXCEPT ![a].quota = IF @ = "left" THEN "spent" ELSE "left"]
  /\ UNCHANGED <<rowVars, openedIn, procVars, clock>>

\* The base trial nears its end, then ends.
BaseAges(a) ==
  /\ Counted
  /\ up[a].base # "over"
  /\ \E phase \in {"lastHour", "over"} \ {up[a].base} : up' = [up EXCEPT ![a].base = phase]
  /\ UNCHANGED <<rowVars, openedIn, procVars, clock>>

ExtensionEnds(a) ==
  /\ Counted
  /\ up[a].ext = "active"
  /\ up' = [up EXCEPT ![a].ext = "over"]
  /\ UNCHANGED <<rowVars, openedIn, procVars, clock>>

\* quota_cycle_end passes.
CycleEnds(a) ==
  /\ Counted
  /\ a \in live /\ row[a].cycle = "open"
  /\ row' = SetQuotaCycle(row, a, "past")
  /\ UNCHANGED <<live, fresh, extCount, upVars, procVars, clock>>

\* Thirty seconds have passed since lastAt.
DebounceEnds(a) ==
  /\ Counted
  /\ a \in recent
  /\ recent' = recent \ {a}
  /\ UNCHANGED <<rowVars, upVars, task, queue, pending, doomed, clock>>

(***************************************************************************)
(* The specification.                                                      *)
(***************************************************************************)

\* What a goroutine does by itself.
OwnStep(t) == Wakes(t) \/ SnapWrites(t) \/ Check(t) \/ Decide(t) \/ Mirror(t)

\* What the upstream's answer, or its failure, makes of it.
Answered(t) ==
  \/ BillAnswers(t) \/ BillFails(t)
  \/ \E withCycle \in BOOLEAN : Refill(t, withCycle)
  \/ \E rep \in Replies : PingReturns(t, rep)
  \/ SlotAnswers(t) \/ BaseAnswers(t)
  \/ StartAnswers(t) \/ StartLost(t) \/ TrialCallFails(t)

Step(t) == OwnStep(t) \/ Answered(t)

Triggered(t, a) ==
  \/ ChatBegins(t, a)
  \/ \E kind \in {"panel", "panelTrial"} : PanelRefreshes(t, a, kind)

Operator(a) ==
  \/ Adds(a) \/ Deletes(a)
  \/ \E on \in BOOLEAN : Imports(a, on) \/ Toggles(a, on)

Upstream(a) == QuotaTurns(a) \/ BaseAges(a) \/ ExtensionEnds(a)

Next ==
  \/ \E t \in Slots : Step(t)
  \/ \E t \in Triggers, a \in Accounts : Triggered(t, a)
  \/ \E t \in Triggers, q \in queue : TakesNext(t, q)
  \/ ProbesAll \/ Evening \/ Purge \/ Restarts
  \/ \E a \in Accounts : PurgeDeletes(a) \/ Operator(a) \/ Upstream(a)
  \/ \E a \in Accounts : CycleEnds(a) \/ DebounceEnds(a)

\* Sleeps end and a goroutine goes on by itself.  An upstream call need not
\* return: its context is not looked at while the body of the answer is read.
Fairness == \A t \in Slots : WF_vars(OwnStep(t))

Spec == Init /\ [][Next]_vars /\ Fairness

(***************************************************************************)
(* Properties.                                                             *)
(***************************************************************************)

\* Per account there is one billing refresh exactly while it is marked pending,
\* whatever restarts, deletions and early returns come in between.
OneRefreshWhilePending ==
  \A a \in Accounts :
    Cardinality({t \in Slots : Running(t) /\ task[t].kind = "after" /\ task[t].seen.id = a})
      = IF a \in pending THEN 1 ELSE 0

\* The extension is never opened more than an hour before the base trial ends,
\* which would cut the base trial short: neither by two starters between each
\* other's look and start, nor by a job and a panel refresh.
BaseNotCutShort == \A a \in Accounts : openedIn[a] # "active"

\* No task with an old snapshot takes a stored activation back.
CountNeverFalls == [][\A a \in live \cap live' : extCount'[a] >= extCount[a]]_vars

\* What nobody asked for an account by hand switches no account on: an account
\* the operator switched off stays off through every job already under way.
JobsSwitchNothingOn ==
  [][\A t \in Slots :
       /\ Running(t) /\ task[t].kind \notin {"panel", "panelTrial"}
       /\ task'[t] # task[t]
       => \A a \in Accounts : row'[a].enabled => row[a].enabled]_vars

\* Task t is a refresh of a whose billing call is under way.
AsksBilling(t, a) == At(t, "bill") /\ task[t].kind = "after" /\ task[t].seen.id = a

\* Unless one of its billing calls never returns, a refresh that is marked
\* pending ends, and the account can be refreshed again.
PendingEnds ==
  \A a \in Accounts :
    (\A t \in Spawned : []<>~AsksBilling(t, a)) => []<>(a \notin pending)

=============================================================================
