------------------------- MODULE AccountJobs_proofs -------------------------
(***************************************************************************)
(* Theorems about what keeps the accounts table true to the upstream, for  *)
(* any accounts, goroutines and answers: types, that a billing refresh     *)
(* runs exactly while it is marked pending, that no base trial is cut      *)
(* short, that a stored activation is never taken back, and that no job    *)
(* switches an account on.                                                 *)
(*                                                                         *)
(* A task acts on a snapshot that may be old by then.  Fit says what such  *)
(* a snapshot is still worth: only things the upstream never takes back    *)
(* (an extension once opened, a base trial once in its last hour) and what *)
(* the task itself looked at when it began.                                *)
(***************************************************************************)
EXTENDS AccountJobs, FiniteSetTheorems, TLAPS

\* What the table may hold: a row of every account, live or not.
JobTable == [Accounts -> JobRow]

\* What the upstream has of an account.
Offer == [quota : {"left", "spent"}, base : Trial, ext : Slot]

\* What a loop over accounts still has to start, with what it read.
Items == [kind : {"nightly", "probe", "import"}, seen : Snapshot]

\* What every variable holds.
Types ==
  /\ row \in JobTable
  /\ live \in SUBSET Accounts
  /\ fresh \in SUBSET Accounts
  /\ extCount \in [Accounts -> {0, 1}]
  /\ up \in [Accounts -> Offer]
  /\ openedIn \in [Accounts -> Trial \cup {"none"}]
  /\ task \in [Slots -> Task \cup {NoTask}]
  /\ queue \in SUBSET Items
  /\ pending \in SUBSET Accounts
  /\ recent \in SUBSET Accounts
  /\ doomed \in SUBSET Accounts
  /\ clock \in {"day", "evening"}
  /\ events \in Nat

\* What a task and its snapshot are still worth, the upstream being u.
Fit(u, x) ==
  /\ x \in Task \cup {NoTask}
  /\ x # NoTask =>
       /\ x.kind = "after" => x.pc \in {"wait", "bill", "snap"}
       /\ x.kind \notin {"panel", "panelTrial"} /\ x.pc \in {"ping", "bill"} => x.seen.row.enabled
       /\ x.seen.count = 1 => u[x.seen.id].ext # "unused"
       /\ x.pc = "mirror" =>
            /\ x.got.slot \in Slot
            /\ x.got.slot = "unused" => x.seen.count = 0
            /\ x.got.slot # "unused" => u[x.seen.id].ext # "unused"
       /\ x.pc = "start" => u[x.seen.id].base # "active"

\* An item of a loop's queue.
ItemFit(u, q) ==
  /\ q.seen.count = 1 => u[q.seen.id].ext # "unused"
  /\ q.kind = "probe" => q.seen.row.enabled

\* Every task and every queued item fits the upstream as it is.
AllFit == (\A t \in Slots : Fit(up, task[t])) /\ \A q \in queue : ItemFit(up, q)

\* A stored activation is one the upstream knows.
Counts == \A a \in Accounts : extCount[a] = 1 => up[a].ext # "unused"

\* The task x is the billing refresh of a.
Refreshes(x, a) == x # NoTask /\ x.kind = "after" /\ x.seen.id = a

\* The refreshes under way are those marked pending, one of each account.
RefreshInv ==
  /\ \A a \in pending : \E t \in Slots : Refreshes(task[t], a)
  /\ \A t \in Slots, a \in Accounts : Refreshes(task[t], a) => a \in pending
  /\ \A t, u \in Slots, a \in Accounts : Refreshes(task[t], a) /\ Refreshes(task[u], a) => t = u

\* The inductive invariant.
IInv == Types /\ AllFit /\ Counts /\ RefreshInv /\ BaseNotCutShort

-----------------------------------------------------------------------------
(***************************************************************************)
(* The writes.                                                             *)
(***************************************************************************)

\* A write of the status or of the quota columns leaves every switch alone.
LEMMA StatusWrite ==
  ASSUME NEW db \in JobTable, NEW a \in Accounts, NEW s \in Status
  PROVE  /\ SetAccountStatus(db, a, s) \in JobTable
         /\ \A b \in Accounts : SetAccountStatus(db, a, s)[b].enabled = db[b].enabled
BY DEF SetAccountStatus, JobTable, JobRow

\* Switching one account off switches no other on.
LEMMA EnabledWrite ==
  ASSUME NEW db \in JobTable, NEW a \in Accounts, NEW e \in BOOLEAN
  PROVE  /\ SetAccountEnabled(db, a, e) \in JobTable
         /\ ~e => \A b \in Accounts : SetAccountEnabled(db, a, e)[b].enabled => db[b].enabled
BY DEF SetAccountEnabled, JobTable, JobRow

\* The cycle columns leave the switch alone.
LEMMA CycleWrite ==
  ASSUME NEW db \in JobTable, NEW a \in Accounts, NEW c \in Cycle
  PROVE  /\ SetQuotaCycle(db, a, c) \in JobTable
         /\ \A b \in Accounts : SetQuotaCycle(db, a, c)[b].enabled = db[b].enabled
BY DEF SetQuotaCycle, JobTable, JobRow

\* So do the quota columns.
LEMMA SnapshotWrite ==
  ASSUME NEW db \in JobTable, NEW a \in Accounts, NEW p \in Plan \cup {"none", "FREE_USER"},
         NEW q \in Quota, NEW c \in Cycle
  PROVE  /\ SetQuotaSnapshot(db, a, p, q, c) \in JobTable
         /\ \A b \in Accounts : SetQuotaSnapshot(db, a, p, q, c)[b].enabled = db[b].enabled
<1> DEFINE w == db[a]
           v == [w EXCEPT !.plan = p, !.quota = q, !.cycle = c]
<1>1. w \in JobRow
  BY DEF JobTable
<1>2. SetQuotaSnapshot(db, a, p, q, c) = [db EXCEPT ![a] = v]
  BY DEF SetQuotaSnapshot, JobTable
<1> HIDE DEF w
<1>3. v \in JobRow /\ v.enabled = w.enabled
  BY <1>1 DEF JobRow
<1> HIDE DEF v
<1>4. [db EXCEPT ![a] = v] \in JobTable
  BY <1>3 DEF JobTable
<1>5. \A b \in Accounts : [db EXCEPT ![a] = v][b].enabled = db[b].enabled
  BY <1>3 DEF JobTable, w
<1> QED
  BY <1>2, <1>4, <1>5

\* A status set on the word of a snapshot leaves every switch alone.
LEMMA StatusUnlessWrite ==
  ASSUME NEW db \in JobTable, NEW s \in Snapshot, NEW goal \in Status
  PROVE  /\ StatusUnless(db, s, goal) \in JobTable
         /\ \A b \in Accounts : StatusUnless(db, s, goal)[b].enabled = db[b].enabled
<1>1. s.id \in Accounts
  BY DEF Snapshot
<1> QED
  BY <1>1, StatusWrite DEF StatusUnless

\* A switch goes on only on the word of a snapshot in which it was off.
LEMMA EnabledUnlessWrite ==
  ASSUME NEW db \in JobTable, NEW s \in Snapshot, NEW goal \in BOOLEAN
  PROVE  /\ EnabledUnless(db, s, goal) \in JobTable
         /\ s.row.enabled \/ ~goal =>
              \A b \in Accounts : EnabledUnless(db, s, goal)[b].enabled => db[b].enabled
<1>1. s.id \in Accounts /\ s.row \in JobRow
  BY DEF Snapshot
<1>2. s.row.enabled \in BOOLEAN
  BY <1>1 DEF JobRow
<1>3. CASE s.row.enabled # goal
  <2>1. EnabledUnless(db, s, goal) = SetAccountEnabled(db, s.id, goal)
    BY <1>3 DEF EnabledUnless
  <2> QED
    BY <1>1, <1>2, <1>3, <2>1, EnabledWrite
<1>4. CASE s.row.enabled = goal
  BY <1>4 DEF EnabledUnless
<1> QED
  BY <1>3, <1>4

\* An account found offline is only ever switched off.
LEMMA MarkOfflineWrite ==
  ASSUME NEW db \in JobTable, NEW s \in Snapshot
  PROVE  /\ MarkOffline(db, s) \in JobTable
         /\ \A b \in Accounts : MarkOffline(db, s)[b].enabled => db[b].enabled
<1> DEFINE mid == StatusUnless(db, s, "offline")
<1>1. mid \in JobTable /\ \A b \in Accounts : mid[b].enabled = db[b].enabled
  BY StatusUnlessWrite DEF Status
<1> HIDE DEF mid
<1>2. /\ EnabledUnless(mid, s, FALSE) \in JobTable
      /\ \A b \in Accounts : EnabledUnless(mid, s, FALSE)[b].enabled => mid[b].enabled
  BY <1>1, EnabledUnlessWrite
<1> QED
  BY <1>1, <1>2 DEF MarkOffline, mid

\* What a usage event stores of the quota leaves every switch alone.
LEMMA PersistWrite ==
  ASSUME NEW db \in JobTable, NEW s \in Snapshot, NEW usage, NEW withCycle \in BOOLEAN
  PROVE  /\ PersistQuota(db, s, usage, withCycle) \in JobTable
         /\ \A b \in Accounts : PersistQuota(db, s, usage, withCycle)[b].enabled = db[b].enabled
<1> DEFINE mid == IF usage # "none" /\ s.row.quota = "unknown"
                  THEN SetQuotaSnapshot(db, s.id, s.row.plan, "unknown", "none") ELSE db
<1>1. s.id \in Accounts /\ s.row.plan \in Plan \cup {"none", "FREE_USER"}
  BY DEF Snapshot, JobRow
<1>2. mid \in JobTable /\ \A b \in Accounts : mid[b].enabled = db[b].enabled
  <2>1. "unknown" \in Quota /\ "none" \in Cycle
    BY DEF Quota, Cycle
  <2> DEFINE a == s.id
             p == s.row.plan
             placed == SetQuotaSnapshot(db, a, p, "unknown", "none")
  <2>2. db \in JobTable /\ a \in Accounts /\ p \in Plan \cup {"none", "FREE_USER"}
    BY <1>1
  <2> HIDE DEF a, p
  <2>3. placed \in JobTable /\ \A b \in Accounts : placed[b].enabled = db[b].enabled
    BY ONLY <2>1, <2>2, SnapshotWrite, Z3
  <2>4. mid = placed \/ mid = db
    BY DEF a, p
  <2> QED
    BY <2>3, <2>4
<1> HIDE DEF mid
<1>3. /\ SetQuotaCycle(mid, s.id, "open") \in JobTable
      /\ \A b \in Accounts : SetQuotaCycle(mid, s.id, "open")[b].enabled = mid[b].enabled
  BY <1>1, <1>2, CycleWrite DEF Cycle
<1>4. PersistQuota(db, s, usage, withCycle) \in {mid, SetQuotaCycle(mid, s.id, "open")}
  BY DEF PersistQuota, mid
<1> QED
  BY <1>2, <1>3, <1>4

\* A usage event switches an account on only if the snapshot had it off.
LEMMA UsageWrite ==
  ASSUME NEW db \in JobTable, NEW s \in Snapshot, NEW usage
  PROVE  /\ ApplyUsageState(db, s, usage) \in JobTable
         /\ s.row.enabled =>
              \A b \in Accounts : ApplyUsageState(db, s, usage)[b].enabled => db[b].enabled
<1> DEFINE err == StatusUnless(db, s, "error")
           exh == StatusUnless(db, s, "exhausted")
           act == StatusUnless(db, s, "active")
<1>1. /\ err \in JobTable /\ \A b \in Accounts : err[b].enabled = db[b].enabled
      /\ exh \in JobTable /\ \A b \in Accounts : exh[b].enabled = db[b].enabled
      /\ act \in JobTable /\ \A b \in Accounts : act[b].enabled = db[b].enabled
  BY StatusUnlessWrite DEF Status
<1>2. \/ ApplyUsageState(db, s, usage) = EnabledUnless(err, s, FALSE)
      \/ ApplyUsageState(db, s, usage) = exh
      \/ ApplyUsageState(db, s, usage) = EnabledUnless(act, s, TRUE)
      \/ ApplyUsageState(db, s, usage) = db
  BY DEF ApplyUsageState
<1> HIDE DEF err, exh, act
<1>3. /\ EnabledUnless(err, s, FALSE) \in JobTable
      /\ \A b \in Accounts : EnabledUnless(err, s, FALSE)[b].enabled => err[b].enabled
      /\ EnabledUnless(act, s, TRUE) \in JobTable
      /\ s.row.enabled => \A b \in Accounts : EnabledUnless(act, s, TRUE)[b].enabled => act[b].enabled
  BY <1>1, EnabledUnlessWrite
<1> QED
  BY <1>1, <1>2, <1>3

\* So does a billing answer.
LEMMA HealthWrite ==
  ASSUME NEW db \in JobTable, NEW s \in Snapshot, NEW quota
  PROVE  /\ SyncHealth(db, s, quota) \in JobTable
         /\ s.row.enabled =>
              \A b \in Accounts : SyncHealth(db, s, quota)[b].enabled => db[b].enabled
<1> DEFINE exh == StatusUnless(db, s, "exhausted")
           act == StatusUnless(db, s, "active")
<1>1. /\ exh \in JobTable /\ \A b \in Accounts : exh[b].enabled = db[b].enabled
      /\ act \in JobTable /\ \A b \in Accounts : act[b].enabled = db[b].enabled
  BY StatusUnlessWrite DEF Status
<1>2. SyncHealth(db, s, quota) = exh \/ SyncHealth(db, s, quota) = SwitchOnIfOff(act, s)
  BY DEF SyncHealth
<1> HIDE DEF exh, act
<1>3. /\ SwitchOnIfOff(act, s) \in JobTable
      /\ s.row.enabled => SwitchOnIfOff(act, s) = act
  <2>1. SetAccountEnabled(act, s.id, TRUE) \in JobTable
    BY <1>1, EnabledWrite DEF Snapshot
  <2> QED
    BY <1>1, <2>1 DEF SwitchOnIfOff
<1> QED
  BY <1>1, <1>2, <1>3

-----------------------------------------------------------------------------
(***************************************************************************)
(* Snapshots and tasks.                                                    *)
(***************************************************************************)

\* A new row, and what is left of a snapshot.
LEMMA RefIs ==
  ASSUME NEW a \in Accounts
  PROVE  /\ Ref(a) \in Snapshot /\ Ref(a).id = a /\ Ref(a).count = 0
         /\ \A on \in BOOLEAN : NewRow(on) \in JobRow
<1>1. \A on \in BOOLEAN : NewRow(on) \in JobRow
  BY DEF NewRow, JobRow, Status, Quota, Cycle
<1> QED
  BY <1>1 DEF Ref, Snapshot

\* A snapshot of a row has the switch and the count of the row.
LEMMA LookIs ==
  ASSUME Types, NEW a \in Accounts
  PROVE  /\ Look(a) \in Snapshot /\ Look(a).id = a /\ Look(a).count = extCount[a]
         /\ Look(a).row.enabled = row[a].enabled
<1>1. row[a] \in JobRow /\ extCount[a] \in {0, 1}
  BY DEF Types, JobTable
<1>2. /\ [row[a] EXCEPT !.cycle = "none"] \in JobRow
      /\ [row[a] EXCEPT !.cycle = "none"].enabled = row[a].enabled
  BY <1>1 DEF JobRow, Cycle
<1> QED
  BY <1>1, <1>2 DEF Look, Snapshot

\* Dropping all but the count keeps the account and the count.
LEMMA CountOnlyIs ==
  ASSUME NEW s \in Snapshot
  PROVE  CountOnly(s) \in Snapshot /\ CountOnly(s).id = s.id /\ CountOnly(s).count = s.count
<1>1. s.id \in Accounts /\ s.count \in {0, 1}
  BY DEF Snapshot
<1>2. Ref(s.id) \in Snapshot /\ Ref(s.id).id = s.id
  BY <1>1, RefIs
<1> QED
  BY <1>1, <1>2 DEF CountOnly, Snapshot

\* The parts of a task.
LEMMA TaskIs ==
  ASSUME NEW x \in Task
  PROVE  /\ x # NoTask /\ x.kind \in Kind /\ x.pc \in Pc
         /\ x.seen \in Snapshot /\ x.seen.id \in Accounts /\ x.seen.count \in {0, 1}
         /\ x.got \in Got
<1>1. x.kind \in Kind /\ x.pc \in Pc /\ x.seen \in Snapshot /\ x.got \in Got
  BY DEF Task
<1>2. NoTask.kind \notin Kind
  BY DEF NoTask, Kind
<1> QED
  BY <1>1, <1>2 DEF Snapshot

\* A slot that is taken holds a task.
LEMMA RunningIs ==
  ASSUME Types, NEW t \in Slots, Running(t)
  PROVE  task[t] \in Task
BY DEF Types, Running

\* Nothing learned yet, or only the quota.
LEMMA NothingIs ==
  /\ Nothing \in Got
  /\ \A q \in Quota : [Nothing EXCEPT !.quota = q] \in Got
BY DEF Nothing, Got, Quota, Cycle

\* A task that begins, that learned something, and that went on.
LEMMA BeginIs ==
  ASSUME NEW kind \in Kind, NEW at \in Pc, NEW s \in Snapshot
  PROVE  /\ Begin(kind, at, s) \in Task
         /\ Begin(kind, at, s).kind = kind /\ Begin(kind, at, s).pc = at
         /\ Begin(kind, at, s).seen = s
BY NothingIs DEF Begin, Task

\* A task that looks at what it learned keeps its kind and its account alone.
LEMMA LearnIs ==
  ASSUME Types, NEW t \in Slots, Running(t), NEW at \in Pc, NEW got \in Got
  PROVE  /\ Learn(t, at, got) \in Task
         /\ Learn(t, at, got).kind = task[t].kind /\ Learn(t, at, got).pc = at
         /\ Learn(t, at, got).seen.id = task[t].seen.id
         /\ Learn(t, at, got).seen.count = 0
<1>1. task[t] \in Task /\ task[t].seen.id \in Accounts
  BY RunningIs, TaskIs
<1>2. /\ Ref(task[t].seen.id) \in Snapshot /\ Ref(task[t].seen.id).id = task[t].seen.id
      /\ Ref(task[t].seen.id).count = 0
  BY <1>1, RefIs
<1> DEFINE x == task[t]
           s == Ref(x.seen.id)
<1>3. Learn(t, at, got) = [x EXCEPT !.pc = at, !.seen = s, !.got = got]
  BY DEF Learn
<1>4. x \in Task /\ s \in Snapshot
  BY <1>1, <1>2
<1> HIDE DEF x, s
<1>5. LET y == [x EXCEPT !.pc = at, !.seen = s, !.got = got]
      IN  y \in Task /\ y.kind = x.kind /\ y.pc = at /\ y.seen = s
  BY <1>4 DEF Task
<1> QED
  BY <1>2, <1>3, <1>5 DEF x, s

\* A task that went on keeps all but its place.
LEMMA GotoIs ==
  ASSUME Types, NEW t \in Slots, Running(t), NEW at \in Pc
  PROVE  /\ Goto(t, at) \in Task
         /\ Goto(t, at).kind = task[t].kind /\ Goto(t, at).pc = at
         /\ Goto(t, at).seen = task[t].seen /\ Goto(t, at).got = task[t].got
<1>1. task[t] \in Task
  BY RunningIs
<1> QED
  BY <1>1 DEF Goto, Task

\* The upstream takes back neither an extension nor the end of a base trial.
Aged(u, v) ==
  \A a \in Accounts :
    /\ u[a].ext # "unused" => v[a].ext # "unused"
    /\ u[a].base # "active" => v[a].base # "active"

\* What is worth something stays worth it as the upstream ages.
LEMMA FitAges ==
  ASSUME NEW u, NEW v, Aged(u, v)
  PROVE  /\ \A x : Fit(u, x) => Fit(v, x)
         /\ \A q \in Items : ItemFit(u, q) => ItemFit(v, q)
<1>1. ASSUME NEW x, Fit(u, x)
      PROVE  Fit(v, x)
  <2>1. x # NoTask => x.seen.id \in Accounts
    BY <1>1, TaskIs DEF Fit
  <2> QED
    BY <1>1, <2>1 DEF Fit, Aged
<1>2. \A q \in Items : q.seen.id \in Accounts
  BY DEF Items, Snapshot
<1> QED
  BY <1>1, <1>2 DEF ItemFit, Aged

\* A task in between, with nothing to its snapshot.
LEMMA LearnFits ==
  ASSUME Types, NEW t \in Slots, Running(t), NEW got \in Got,
         NEW at \in {"snap", "check", "refill", "decide", "base"},
         task[t].kind = "after" => at = "snap"
  PROVE  /\ \A u : Fit(u, Learn(t, at, got))
         /\ \A a : Refreshes(Learn(t, at, got), a) <=> Refreshes(task[t], a)
<1>1. at \in Pc
  BY DEF Pc
<1>2. /\ Learn(t, at, got) \in Task
      /\ Learn(t, at, got).kind = task[t].kind /\ Learn(t, at, got).pc = at
      /\ Learn(t, at, got).seen.id = task[t].seen.id
      /\ Learn(t, at, got).seen.count = 0
  BY <1>1, LearnIs
<1>3. Learn(t, at, got) # NoTask /\ task[t] # NoTask
  BY <1>2, TaskIs DEF Running
<1> QED
  BY <1>2, <1>3 DEF Fit, Refreshes

-----------------------------------------------------------------------------
(***************************************************************************)
(* The steps of a task.                                                    *)
(***************************************************************************)

\* t goes on as x.  It is no refresh, or the one it was; or it was one and
\* ended; or it is none and starts one.
Moves(t, x) ==
  \/ /\ task' = [task EXCEPT ![t] = x]
     /\ UNCHANGED <<pending, recent>>
     /\ \A a : Refreshes(x, a) <=> Refreshes(task[t], a)
  \/ /\ x = NoTask
     /\ EndTask(t)
     /\ UNCHANGED recent
  \/ /\ \A a : ~Refreshes(x, a) /\ ~Refreshes(task[t], a)
     /\ \E a \in Accounts : ScheduleRefresh(t, a, x)

\* An empty slot fits, and refreshes nothing.
LEMMA NoTaskFits ==
  (\A u : Fit(u, NoTask)) /\ \A a : ~Refreshes(NoTask, a)
BY DEF Fit, Refreshes

\* Whatever is at this point in the code is no refresh.
LEMMA NoRefreshAt ==
  ASSUME AllFit, NEW t \in Slots, task[t].pc \notin {"wait", "bill", "snap"}
  PROVE  task[t] # NoTask => task[t].kind # "after" /\ \A a : ~Refreshes(task[t], a)
BY DEF AllFit, Fit, Refreshes

\* What billing answers, with the cycle re-read from the table.
LEMMA BillGot ==
  ASSUME Types, NEW a \in Accounts
  PROVE  [quota |-> up[a].quota, plan |-> PlanOf(up[a]),
          cycle |-> IF a \in live THEN row[a].cycle ELSE "none", slot |-> "none"] \in Got
<1>1. row[a].cycle \in Cycle /\ up[a].quota \in Quota
  BY DEF Types, Offer, JobTable, JobRow, Quota
<1>2. PlanOf(up[a]) \in Plan
  BY DEF PlanOf, Plan
<1> QED
  BY <1>1, <1>2 DEF Got, Cycle

\* After the sleep: the refresh of the same account, or its end.
LEMMA WakesMoves ==
  ASSUME Types, AllFit, Counts, NEW t \in Slots, Wakes(t)
  PROVE  \E x : Fit(up', x) /\ Moves(t, x)
<1> DEFINE a == task[t].seen.id
           x == Begin(task[t].kind, "bill", Look(a))
<1>1. Running(t) /\ up' = up /\ recent' = recent
  BY DEF Wakes, At, upVars
<1>2. task[t] \in Task /\ a \in Accounts /\ task[t].kind \in Kind
  BY <1>1, RunningIs, TaskIs
<1>3. CASE EndTask(t)
  BY <1>1, <1>3, NoTaskFits DEF Moves
<1>4. CASE task' = [task EXCEPT ![t] = x] /\ UNCHANGED pending /\ row[a].enabled
  <2>1. /\ Look(a) \in Snapshot /\ Look(a).id = a /\ Look(a).count = extCount[a]
        /\ Look(a).row.enabled
    BY <1>2, <1>4, LookIs
  <2>2. x \in Task /\ x.kind = task[t].kind /\ x.pc = "bill" /\ x.seen = Look(a)
    BY <1>2, <2>1, BeginIs DEF Pc
  <2>3. x # NoTask
    BY <2>2, TaskIs
  <2> HIDE DEF x
  <2>4. Fit(up, x)
    BY <1>2, <2>1, <2>2 DEF Fit, Counts
  <2>5. \A b : Refreshes(x, b) <=> Refreshes(task[t], b)
    BY <1>1, <2>1, <2>2, <2>3 DEF Refreshes, Running
  <2> QED
    BY <1>1, <1>4, <2>4, <2>5 DEF Moves
<1> QED
  BY <1>3, <1>4 DEF Wakes

\* The steps of fetchBillingOpsResult.
LEMMA BillMoves ==
  ASSUME Types, AllFit, NEW t \in Slots, BillAnswers(t) \/ BillFails(t) \/ SnapWrites(t)
  PROVE  \E x : Fit(up', x) /\ Moves(t, x)
<1>1. /\ Running(t) /\ up' = up /\ recent' = recent
      /\ task[t].pc = "bill" \/ SnapWrites(t)
  BY DEF BillAnswers, BillFails, SnapWrites, At, upVars
<1>2. task[t] \in Task /\ task[t].seen.id \in Accounts
  BY <1>1, RunningIs, TaskIs
<1>3. CASE EndTask(t)
  BY <1>1, <1>3, NoTaskFits DEF Moves
<1>4. CASE BillAnswers(t)
  <2> DEFINE b == task[t].seen.id
             got == [quota |-> up[b].quota, plan |-> PlanOf(up[b]),
                     cycle |-> IF b \in live THEN row[b].cycle ELSE "none", slot |-> "none"]
  <2>1. got \in Got
    BY <1>2, BillGot
  <2>2. task' = [task EXCEPT ![t] = Learn(t, "snap", got)] /\ UNCHANGED pending
    BY <1>4 DEF BillAnswers
  <2> HIDE DEF got
  <2>3. /\ Fit(up', Learn(t, "snap", got))
        /\ \A a : Refreshes(Learn(t, "snap", got), a) <=> Refreshes(task[t], a)
    BY <1>1, <2>1, LearnFits
  <2> QED
    BY <1>1, <2>2, <2>3 DEF Moves
<1>5. CASE BillFails(t) /\ ~EndTask(t)
  <2>1. /\ task' = [task EXCEPT ![t] = Goto(t, "ping")] /\ UNCHANGED pending
        /\ task[t].kind \notin {"after", "late"} /\ task[t].pc = "bill"
    BY <1>5 DEF BillFails, At
  <2>2. /\ Goto(t, "ping") \in Task
        /\ Goto(t, "ping").kind = task[t].kind /\ Goto(t, "ping").pc = "ping"
        /\ Goto(t, "ping").seen = task[t].seen
    BY <1>1, GotoIs DEF Pc
  <2>3. Goto(t, "ping") # NoTask
    BY <2>2, TaskIs
  <2>4. Fit(up, task[t]) /\ task[t] # NoTask
    BY <1>1 DEF AllFit, Running
  <2>5. Fit(up, Goto(t, "ping"))
    BY <2>1, <2>2, <2>4 DEF Fit
  <2>6. \A a : Refreshes(Goto(t, "ping"), a) <=> Refreshes(task[t], a)
    BY <2>2, <2>3, <2>4 DEF Refreshes
  <2> QED
    BY <1>1, <2>1, <2>5, <2>6 DEF Moves
<1>6. CASE SnapWrites(t) /\ ~EndTask(t)
  <2>1. /\ task' = [task EXCEPT ![t] = Learn(t, "check", Nothing)] /\ UNCHANGED pending
        /\ task[t].kind \notin {"after", "late"}
    BY <1>6 DEF SnapWrites
  <2>2. /\ Fit(up', Learn(t, "check", Nothing))
        /\ \A a : Refreshes(Learn(t, "check", Nothing), a) <=> Refreshes(task[t], a)
    BY <1>1, <2>1, NothingIs, LearnFits
  <2> QED
    BY <1>1, <2>1, <2>2 DEF Moves
<1> QED
  BY <1>3, <1>4, <1>5, <1>6

\* A task that ends, of what is no refresh.
LEMMA EndMoves ==
  ASSUME AllFit, NEW t \in Slots, Running(t), task[t].pc \notin {"wait", "bill", "snap"},
         task' = [task EXCEPT ![t] = NoTask], UNCHANGED <<pending, recent>>
  PROVE  \E x : Fit(up', x) /\ Moves(t, x)
BY NoTaskFits, NoRefreshAt DEF Moves, Running

\* A task that goes on with what it learned.
LEMMA LearnMoves ==
  ASSUME Types, AllFit, NEW t \in Slots, Running(t), task[t].pc \notin {"wait", "bill", "snap"},
         NEW at \in {"refill", "decide", "base"}, NEW got \in Got,
         task' = [task EXCEPT ![t] = Learn(t, at, got)], UNCHANGED <<pending, recent>>
  PROVE  \E x : Fit(up', x) /\ Moves(t, x)
<1>1. task[t].kind # "after"
  BY NoRefreshAt DEF Running
<1>2. /\ Fit(up', Learn(t, at, got))
      /\ \A a : Refreshes(Learn(t, at, got), a) <=> Refreshes(task[t], a)
  BY <1>1, LearnFits
<1> QED
  BY <1>2 DEF Moves

\* What follows a probe is no refresh.
LEMMA AfterProbeFits ==
  ASSUME Types, AllFit, NEW t \in Slots, Running(t), task[t].pc \notin {"wait", "bill", "snap"}
  PROVE  /\ \A u : Fit(u, AfterProbe(t))
         /\ \A a : ~Refreshes(AfterProbe(t), a) /\ ~Refreshes(task[t], a)
<1>1. task[t].kind # "after" /\ \A a : ~Refreshes(task[t], a)
  BY NoRefreshAt DEF Running
<1>2. task[t].got \in Got
  BY RunningIs, TaskIs
<1>3. /\ \A u : Fit(u, Learn(t, "decide", task[t].got))
      /\ \A a : Refreshes(Learn(t, "decide", task[t].got), a) <=> Refreshes(task[t], a)
  BY <1>1, <1>2, LearnFits
<1> QED
  BY <1>1, <1>3, NoTaskFits DEF AfterProbe

\* The steps of a probe or a conversation.
LEMMA ProbeMoves ==
  ASSUME Types, AllFit, NEW t \in Slots,
         \/ Check(t) \/ \E withCycle \in BOOLEAN : Refill(t, withCycle)
         \/ \E rep \in Replies : PingReturns(t, rep)
  PROVE  \E x : Fit(up', x) /\ Moves(t, x)
<1>1. Running(t) /\ task[t].pc \notin {"wait", "bill", "snap"} /\ up' = up
  BY DEF Check, Refill, PingReturns, At, upVars
<1>2. task[t] \in Task /\ task[t].seen.id \in Accounts
  BY <1>1, RunningIs, TaskIs
<1>3. CASE Check(t)
  <2> DEFINE seen == [Nothing EXCEPT !.quota = row[task[t].seen.id].quota]
  <2>1. row[task[t].seen.id].quota \in Quota
    BY <1>2 DEF Types, JobTable, JobRow
  <2>2. seen \in Got
    BY <2>1, NothingIs
  <2> HIDE DEF seen
  <2>3. /\ UNCHANGED <<pending, recent>>
        /\ \/ task' = [task EXCEPT ![t] = Learn(t, "refill", seen)]
           \/ task' = [task EXCEPT ![t] = Learn(t, "decide", seen)]
           \/ task' = [task EXCEPT ![t] = NoTask]
    BY <1>3 DEF Check, seen
  <2> QED
    BY <1>1, <2>2, <2>3, EndMoves, LearnMoves
<1>4. CASE \E withCycle \in BOOLEAN : Refill(t, withCycle)
  <2>1. task' = [task EXCEPT ![t] = AfterProbe(t)] /\ UNCHANGED <<pending, recent>>
    BY <1>4 DEF Refill
  <2> QED
    BY <1>1, <2>1, AfterProbeFits DEF Moves
<1>5. CASE \E rep \in Replies : PingReturns(t, rep)
  <2>1. ScheduleRefresh(t, task[t].seen.id, AfterProbe(t))
    BY <1>5 DEF PingReturns
  <2> QED
    BY <1>1, <1>2, <2>1, AfterProbeFits DEF Moves
<1> QED
  BY <1>3, <1>4, <1>5

\* The steps of a trial extension.
LEMMA TrialMoves ==
  ASSUME Types, AllFit, Counts, NEW t \in Slots,
         \/ Decide(t) \/ SlotAnswers(t) \/ Mirror(t) \/ BaseAnswers(t)
         \/ StartAnswers(t) \/ StartLost(t) \/ TrialCallFails(t)
  PROVE  \E x : Fit(up', x) /\ Moves(t, x)
<1>1. /\ Running(t) /\ task[t].pc \notin {"wait", "bill", "snap"}
      /\ UNCHANGED <<pending, recent>>
  BY DEF Decide, SlotAnswers, Mirror, BaseAnswers, StartAnswers, StartLost, TrialCallFails, At
<1> DEFINE a == task[t].seen.id
<1>2. task[t] \in Task /\ a \in Accounts /\ task[t].kind \in Kind /\ task[t].seen.count \in {0, 1}
  BY <1>1, RunningIs, TaskIs
<1>3. /\ task[t] # NoTask /\ task[t].kind # "after"
      /\ Fit(up, task[t]) /\ \A b : ~Refreshes(task[t], b)
  BY <1>1, NoRefreshAt DEF Running, AllFit
<1>4. CASE task' = [task EXCEPT ![t] = NoTask]
  BY <1>1, <1>4, EndMoves
<1>5. CASE Decide(t) /\ task' # [task EXCEPT ![t] = NoTask]
  <2> DEFINE s == CountOnly(Look(a))
             x == Begin(task[t].kind, "slot", s)
  <2>1. task' = [task EXCEPT ![t] = x] /\ up' = up
    BY <1>5 DEF Decide, upVars
  <2>2. s \in Snapshot /\ s.id = a /\ s.count = extCount[a]
    BY <1>2, LookIs, CountOnlyIs
  <2> HIDE DEF s
  <2>3. x \in Task /\ x.kind = task[t].kind /\ x.pc = "slot" /\ x.seen = s
    BY <1>2, <2>2, BeginIs DEF Pc
  <2> HIDE DEF x
  <2>4. Fit(up, x) /\ \A b : ~Refreshes(x, b)
    BY <1>2, <1>3, <2>2, <2>3 DEF Fit, Counts, Refreshes
  <2> QED
    BY <1>1, <1>3, <2>1, <2>4 DEF Moves
<1>6. CASE SlotAnswers(t)
  <2> DEFINE g == Goto(t, "mirror")
             x == [g EXCEPT !.got.slot = up[a].ext]
  <2>1. task' = [task EXCEPT ![t] = x] /\ up' = up
    BY <1>6 DEF SlotAnswers, upVars
  <2>2. /\ g \in Task /\ g.kind = task[t].kind /\ g.pc = "mirror" /\ g.seen = task[t].seen
    BY <1>1, GotoIs DEF Pc
  <2> HIDE DEF g
  <2>3. up[a].ext \in Slot
    BY <1>2 DEF Types, Offer
  <2>4. /\ x \in Task /\ x.kind = g.kind /\ x.pc = g.pc /\ x.seen = g.seen
        /\ x.got.slot = up[a].ext
    BY <2>2, <2>3 DEF Task, Got
  <2> HIDE DEF x
  <2>5. x.seen.count = 1 => up[a].ext # "unused"
    BY <1>3, <2>2, <2>4 DEF Fit
  <2>6. Fit(up, x) /\ \A b : ~Refreshes(x, b)
    BY <1>2, <1>3, <2>2, <2>3, <2>4, <2>5 DEF Fit, Refreshes
  <2> QED
    BY <1>1, <1>3, <2>1, <2>6 DEF Moves
<1>7. CASE Mirror(t) /\ task' # [task EXCEPT ![t] = NoTask]
  <2>1. task' = [task EXCEPT ![t] = Learn(t, "base", Nothing)]
    BY <1>7 DEF Mirror
  <2> QED
    BY <1>1, <2>1, NothingIs, LearnMoves
<1>8. CASE BaseAnswers(t) /\ task' # [task EXCEPT ![t] = NoTask]
  <2> DEFINE x == Goto(t, "start")
  <2>1. task' = [task EXCEPT ![t] = x] /\ up' = up /\ up[a].base # "active"
    BY <1>8 DEF BaseAnswers, upVars, BaseTrialActive
  <2>2. x \in Task /\ x.kind = task[t].kind /\ x.pc = "start" /\ x.seen = task[t].seen
    BY <1>1, GotoIs DEF Pc
  <2> HIDE DEF x
  <2>3. Fit(up, x) /\ \A b : ~Refreshes(x, b)
    BY <1>3, <2>1, <2>2 DEF Fit, Refreshes
  <2> QED
    BY <1>1, <1>3, <2>1, <2>3 DEF Moves
<1>9. CASE StartAnswers(t)
  <2> DEFINE x == Begin("late", "wait", Ref(a))
  <2>1. task' = [task EXCEPT ![t] = x]
    BY <1>9 DEF StartAnswers
  <2>2. Ref(a) \in Snapshot /\ Ref(a).count = 0
    BY <1>2, RefIs
  <2>3. x \in Task /\ x.kind = "late" /\ x.pc = "wait" /\ x.seen = Ref(a)
    BY <2>2, BeginIs DEF Kind, Pc
  <2> HIDE DEF x
  <2>4. Fit(up', x) /\ \A b : ~Refreshes(x, b)
    BY <2>2, <2>3 DEF Fit, Refreshes
  <2> QED
    BY <1>1, <1>3, <2>1, <2>4 DEF Moves
<1>10. \/ task' = [task EXCEPT ![t] = NoTask]
       \/ Decide(t) \/ SlotAnswers(t) \/ Mirror(t) \/ BaseAnswers(t) \/ StartAnswers(t)
  BY DEF StartLost, TrialCallFails
<1> QED
  BY <1>4, <1>5, <1>6, <1>7, <1>8, <1>9, <1>10

\* Every step of a task moves it to something that fits.
LEMMA StepMoves ==
  ASSUME Types, AllFit, Counts, NEW t \in Slots, Step(t)
  PROVE  \E x : Fit(up', x) /\ Moves(t, x)
BY WakesMoves, BillMoves, ProbeMoves, TrialMoves DEF Step, OwnStep, Answered

\* A free slot is free.
LEMMA FreeIs ==
  ASSUME NEW S, HasFree(S)
  PROVE  FreeSlot(S) \in S /\ ~Running(FreeSlot(S))
BY DEF HasFree, FreeSlot

\* The tasks after one of them went on.
LEMMA MovesTasks ==
  ASSUME Types, AllFit, Aged(up, up'), NEW t \in Slots, Running(t), NEW x, Fit(up', x), Moves(t, x)
  PROVE  /\ task' \in [Slots -> Task \cup {NoTask}]
         /\ \A u \in Slots : Fit(up', task'[u])
         /\ pending' \in SUBSET Accounts /\ recent' \in SUBSET Accounts
         /\ \A u \in Slots : Running(u) /\ task'[u] # task[u] => u = t
<1>1. x \in Task \cup {NoTask} /\ task \in [Slots -> Task \cup {NoTask}]
  BY DEF Fit, Types
<1>2. \A u \in Slots : Fit(up', task[u])
  BY FitAges DEF AllFit
<1>3. CASE task' = [task EXCEPT ![t] = x]
  <2>1. pending' \in SUBSET Accounts /\ recent' \in SUBSET Accounts
    BY <1>3 DEF Moves, EndTask, Types, ScheduleRefresh
  <2> QED
    BY <1>1, <1>2, <1>3, <2>1
<1>4. ASSUME NEW a \in Accounts, RefreshDue(a), ScheduleRefresh(t, a, x)
      PROVE  /\ task' \in [Slots -> Task \cup {NoTask}]
             /\ \A u \in Slots : Fit(up', task'[u])
             /\ pending' \in SUBSET Accounts /\ recent' \in SUBSET Accounts
             /\ \A u \in Slots : Running(u) /\ task'[u] # task[u] => u = t
  <2> DEFINE f == FreeSlot(Spawned)
             y == Begin("after", "wait", Ref(a))
  <2>1. f \in Slots /\ ~Running(f)
    BY <1>4, FreeIs DEF ScheduleRefresh, Slots
  <2>2. /\ task' = [task EXCEPT ![t] = x, ![f] = y]
        /\ recent' = recent \cup {a} /\ pending' = pending \cup {a}
    BY <1>4 DEF ScheduleRefresh
  <2>3. Ref(a) \in Snapshot /\ Ref(a).count = 0
    BY RefIs
  <2>4. y \in Task /\ y.kind = "after" /\ y.pc = "wait" /\ y.seen = Ref(a)
    BY <2>3, BeginIs DEF Kind, Pc
  <2> HIDE DEF y, f
  <2>5. Fit(up', y)
    BY <2>3, <2>4 DEF Fit
  <2>6. \A u \in Slots : task'[u] = IF u = f THEN y ELSE IF u = t THEN x ELSE task[u]
    BY <1>1, <2>1, <2>2
  <2>7. task' \in [Slots -> Task \cup {NoTask}]
    BY <1>1, <2>2, <2>4
  <2>8. \A u \in Slots : Fit(up', task'[u])
    BY <1>2, <2>5, <2>6
  <2>9. \A u \in Slots : Running(u) /\ task'[u] # task[u] => u = t
    BY <2>1, <2>6
  <2> QED
    BY <2>2, <2>7, <2>8, <2>9 DEF Types
<1>5. task' = [task EXCEPT ![t] = x] \/ \E a \in Accounts : RefreshDue(a) /\ ScheduleRefresh(t, a, x)
  BY DEF Moves, EndTask, ScheduleRefresh
<1> QED
  BY <1>3, <1>4, <1>5

\* The refreshes after one of the tasks went on.
LEMMA MovesRefreshes ==
  ASSUME Types, RefreshInv, NEW t \in Slots, Running(t), NEW x, Moves(t, x)
  PROVE  RefreshInv'
<1> USE DEF RefreshInv
<1>1. task \in [Slots -> Task \cup {NoTask}]
  BY DEF Types
<1>2. CASE /\ task' = [task EXCEPT ![t] = x] /\ UNCHANGED pending
           /\ \A a : Refreshes(x, a) <=> Refreshes(task[t], a)
  <2>1. \A u \in Slots, a \in Accounts : Refreshes(task'[u], a) <=> Refreshes(task[u], a)
    BY <1>1, <1>2
  <2> QED
    BY <1>2, <2>1 DEF Types
<1>3. CASE EndTask(t)
  <2> DEFINE b == task[t].seen.id
  <2>1. task' = [task EXCEPT ![t] = NoTask]
    BY <1>3 DEF EndTask
  <2>2. \A u \in Slots, a \in Accounts : Refreshes(task'[u], a) <=> u # t /\ Refreshes(task[u], a)
    BY <1>1, <2>1, NoTaskFits
  <2>3. CASE task[t].kind = "after"
    <3>1. pending' = pending \ {b} /\ Refreshes(task[t], b)
      BY <1>3, <2>3 DEF EndTask, Refreshes, Running
    <3>2. b \in Accounts
      BY RunningIs, TaskIs
    <3>3. \A u \in Slots, a \in Accounts : u # t /\ Refreshes(task[u], a) => a # b
      BY <3>1, <3>2
    <3>4. \A a \in Accounts : Refreshes(task[t], a) => a = b
      BY DEF Refreshes
    <3> HIDE DEF b
    <3>5. \A a \in pending' : \E u \in Slots : Refreshes(task'[u], a)
      <4> TAKE a \in pending'
      <4>1. a \in pending /\ a # b /\ a \in Accounts
        BY <3>1 DEF Types
      <4>2. PICK u \in Slots : Refreshes(task[u], a)
        BY <4>1
      <4>3. u # t
        BY <3>4, <4>1, <4>2
      <4> QED
        BY <2>2, <4>1, <4>2, <4>3
    <3>6. \A u \in Slots, a \in Accounts : Refreshes(task'[u], a) => a \in pending'
      BY <2>2, <3>1, <3>3
    <3> QED
      BY <2>2, <3>5, <3>6
  <2>4. CASE task[t].kind # "after"
    <3>1. pending' = pending /\ \A a : ~Refreshes(task[t], a)
      BY <1>3, <2>4 DEF EndTask, Refreshes
    <3> QED
      BY <2>2, <3>1 DEF Types
  <2> QED
    BY <2>3, <2>4
<1>4. ASSUME NEW b \in Accounts, RefreshDue(b), ScheduleRefresh(t, b, x),
             \A a : ~Refreshes(x, a) /\ ~Refreshes(task[t], a)
      PROVE  RefreshInv'
  <2> DEFINE f == FreeSlot(Spawned)
             y == Begin("after", "wait", Ref(b))
  <2>1. f \in Slots /\ ~Running(f)
    BY <1>4, FreeIs DEF ScheduleRefresh, Slots
  <2>2. task' = [task EXCEPT ![t] = x, ![f] = y] /\ pending' = pending \cup {b} /\ b \notin pending
    BY <1>4 DEF ScheduleRefresh, RefreshDue
  <2>3. Ref(b) \in Snapshot /\ Ref(b).id = b
    BY RefIs
  <2>4. y \in Task /\ y.kind = "after" /\ y.seen = Ref(b) /\ y # NoTask
    BY <2>3, BeginIs, TaskIs DEF Kind, Pc
  <2> HIDE DEF y, f
  <2>5. \A a : Refreshes(y, a) <=> a = b
    BY <2>3, <2>4 DEF Refreshes
  <2>6. \A u \in Slots : task'[u] = IF u = f THEN y ELSE IF u = t THEN x ELSE task[u]
    BY <1>1, <2>1, <2>2
  <2>7. \A a : ~Refreshes(task[f], a)
    BY <2>1 DEF Running, Refreshes
  <2>8. \A u \in Slots, a \in Accounts :
          Refreshes(task'[u], a) <=> (u = f /\ a = b) \/ Refreshes(task[u], a)
    BY <1>4, <2>5, <2>6, <2>7
  <2>9. \A u \in Slots : ~Refreshes(task[u], b)
    BY <2>2
  <2> QED
    BY <2>1, <2>2, <2>8, <2>9 DEF Types
<1>5. CASE \E a \in Accounts : ScheduleRefresh(t, a, x) /\ ~RefreshDue(a)
           /\ \A b : ~Refreshes(x, b) /\ ~Refreshes(task[t], b)
  BY <1>2, <1>5 DEF ScheduleRefresh
<1> QED
  BY <1>2, <1>3, <1>4, <1>5 DEF Moves

\* A task that begins in a free slot and is no refresh.
LEMMA BeginsTask ==
  ASSUME Types, AllFit, RefreshInv, NEW t \in Slots, ~Running(t), NEW x, Fit(up, x),
         \A a : ~Refreshes(x, a), task' = [task EXCEPT ![t] = x], UNCHANGED <<up, pending>>
  PROVE  /\ task' \in [Slots -> Task \cup {NoTask}]
         /\ \A u \in Slots : Fit(up', task'[u])
         /\ RefreshInv'
<1>1. task \in [Slots -> Task \cup {NoTask}] /\ x \in Task \cup {NoTask}
  BY DEF Types, Fit
<1>2. task' \in [Slots -> Task \cup {NoTask}] /\ \A u \in Slots : Fit(up', task'[u])
  BY <1>1 DEF AllFit
<1>3. \A u \in Slots, a \in Accounts : Refreshes(task'[u], a) <=> Refreshes(task[u], a)
  BY <1>1 DEF Refreshes, Running
<1>4. RefreshInv'
  BY <1>3 DEF RefreshInv, Types
<1> QED
  BY <1>2, <1>4

\* What the steps of a task write into the table; only a panel's probe
\* switches an account on.
LEMMA StepRow ==
  ASSUME Types, AllFit, NEW t \in Slots, Step(t)
  PROVE  /\ row' \in JobTable
         /\ task[t].kind \notin {"panel", "panelTrial"} =>
              \A b \in Accounts : row'[b].enabled => row[b].enabled
<1> DEFINE s == task[t].seen
           Off(db) == /\ db \in JobTable
                      /\ task[t].kind \notin {"panel", "panelTrial"} =>
                           \A b \in Accounts : db[b].enabled => row[b].enabled
<1>0. Running(t)
  BY DEF Step, OwnStep, Answered, Wakes, BillAnswers, BillFails, SnapWrites, Check, Refill, PingReturns, Decide,
         SlotAnswers, Mirror, BaseAnswers, StartAnswers, StartLost, TrialCallFails, At
<1>1. /\ task[t] \in Task /\ s \in Snapshot /\ s.id \in Accounts /\ task[t].got \in Got
      /\ row \in JobTable
  BY <1>0, RunningIs, TaskIs DEF Types
<1>2. task[t].pc \in {"ping", "bill"} /\ task[t].kind \notin {"panel", "panelTrial"} => s.row.enabled
  BY <1>0 DEF AllFit, Fit, Running
<1>3. CASE UNCHANGED row
  BY <1>1, <1>3
<1>4. ASSUME NEW a \in Accounts, NEW db, Off(db), Write(a, db)
      PROVE  Off(row')
  BY <1>1, <1>4 DEF Write
<1>5. CASE BillAnswers(t)
  <2> DEFINE db == SyncHealth(row, s, up[s.id].quota)
  <2>1. Write(s.id, db) /\ task[t].pc = "bill"
    BY <1>5 DEF BillAnswers, At
  <2>2. db \in JobTable /\ (s.row.enabled => \A b \in Accounts : db[b].enabled => row[b].enabled)
    BY <1>1, HealthWrite
  <2> HIDE DEF db
  <2> QED
    BY <1>1, <1>2, <1>4, <2>1, <2>2
<1>6. CASE SnapWrites(t)
  <2> DEFINE db == SetQuotaSnapshot(row, s.id, task[t].got.plan, task[t].got.quota, task[t].got.cycle)
  <2>1. Write(s.id, db)
    BY <1>6 DEF SnapWrites
  <2>2. /\ task[t].got.plan \in Plan \cup {"none", "FREE_USER"} /\ task[t].got.quota \in Quota
        /\ task[t].got.cycle \in Cycle /\ s.id \in Accounts /\ row \in JobTable
    BY <1>1 DEF Got
  <2>3. db \in JobTable /\ \A b \in Accounts : db[b].enabled = row[b].enabled
    BY ONLY <2>2, SnapshotWrite
  <2> HIDE DEF db
  <2> QED
    BY <1>1, <1>4, <2>1, <2>3
<1>7. /\ SetQuotaCycle(row, s.id, "open") \in JobTable
      /\ \A b \in Accounts : SetQuotaCycle(row, s.id, "open")[b].enabled = row[b].enabled
  BY <1>1, CycleWrite DEF Cycle
<1>8. CASE Write(s.id, SetQuotaCycle(row, s.id, "open"))
  BY <1>1, <1>4, <1>7, <1>8
<1>9. ASSUME NEW rep \in Replies, PingReturns(t, rep)
      PROVE  Off(row')
  <2> DEFINE kept == PersistQuota(row, s, rep.usage, rep.cycle)
             mid  == IF rep.auth THEN MarkOffline(kept, s) ELSE kept
             db   == ApplyUsageState(mid, s, rep.usage)
  <2>1. Write(s.id, db) /\ task[t].pc = "ping"
    BY <1>9 DEF PingReturns, At
  <2>2. rep.cycle \in BOOLEAN
    BY <1>9, JobsAssumption
  <2>3. kept \in JobTable /\ \A b \in Accounts : kept[b].enabled = row[b].enabled
    BY <1>1, <2>2, PersistWrite
  <2> HIDE DEF kept
  <2>4. mid \in JobTable /\ \A b \in Accounts : mid[b].enabled => kept[b].enabled
    BY <1>1, <2>3, MarkOfflineWrite
  <2> HIDE DEF mid
  <2>5. db \in JobTable /\ (s.row.enabled => \A b \in Accounts : db[b].enabled => mid[b].enabled)
    BY <1>1, <2>4, UsageWrite
  <2> HIDE DEF db
  <2> QED
    BY <1>1, <1>2, <1>4, <2>1, <2>3, <2>4, <2>5
<1>10. \/ BillAnswers(t) \/ SnapWrites(t) \/ \E rep \in Replies : PingReturns(t, rep)
       \/ UNCHANGED row \/ Write(s.id, SetQuotaCycle(row, s.id, "open"))
  <2>1. Wakes(t) \/ BillFails(t) \/ Check(t) \/ Decide(t) \/ SlotAnswers(t) \/ StartLost(t)
          \/ TrialCallFails(t) => UNCHANGED row
    BY DEF Wakes, BillFails, Check, Decide, SlotAnswers, StartLost, TrialCallFails, rowVars
  <2>2. Write(s.id, row) => UNCHANGED row
    BY DEF Write
  <2>3. ASSUME NEW withCycle \in BOOLEAN, Refill(t, withCycle)
        PROVE  UNCHANGED row \/ Write(s.id, SetQuotaCycle(row, s.id, "open"))
    BY <2>2, <2>3 DEF Refill
  <2>4. \A w : SyncCycle(t, w) => UNCHANGED row \/ Write(s.id, SetQuotaCycle(row, s.id, "open"))
    BY <2>2 DEF SyncCycle
  <2>5. Mirror(t) \/ BaseAnswers(t) => UNCHANGED row \/ Write(s.id, SetQuotaCycle(row, s.id, "open"))
    BY <2>4 DEF Mirror, BaseAnswers
  <2>6. StartAnswers(t) => Write(s.id, SetQuotaCycle(row, s.id, "open"))
    BY DEF StartAnswers
  <2> QED
    BY <2>1, <2>3, <2>5, <2>6 DEF Step, OwnStep, Answered
<1> QED
  BY <1>3, <1>5, <1>6, <1>8, <1>9, <1>10

\* What they say to the upstream: an extension is opened in the last hour of the
\* base trial or after it.
LEMMA StepUp ==
  ASSUME Types, AllFit, BaseNotCutShort, NEW t \in Slots, Step(t)
  PROVE  /\ up' \in [Accounts -> Offer]
         /\ openedIn' \in [Accounts -> Trial \cup {"none"}]
         /\ Aged(up, up')
         /\ BaseNotCutShort'
<1>1. CASE UNCHANGED <<up, openedIn>>
  BY <1>1 DEF Types, Aged, BaseNotCutShort
<1>2. CASE StartAnswers(t) \/ StartLost(t)
  <2> DEFINE a == task[t].seen.id
             u == up[a]
             v == [u EXCEPT !.ext = "active", !.quota = "left"]
  <2>1. Running(t) /\ task[t].pc = "start" /\ Opened(a)
    BY <1>2 DEF StartAnswers, StartLost, At
  <2>2. a \in Accounts /\ up[a].base # "active"
    BY <2>1, RunningIs, TaskIs DEF AllFit, Fit, Running
  <2>3. u \in Offer
    BY <2>2 DEF Types
  <2> HIDE DEF u
  <2>4. /\ v \in Offer
        /\ v.base = u.base /\ v.ext = "active"
    BY <2>3 DEF Offer, Slot
  <2>5. up' = [up EXCEPT ![a] = v] /\ openedIn' = [openedIn EXCEPT ![a] = u.base]
    BY <2>1, <2>2 DEF Opened, u, Types
  <2> HIDE DEF v
  <2>6. \A b \in Accounts : b # a => up'[b] = up[b] /\ openedIn'[b] = openedIn[b]
    BY <2>5 DEF Types
  <2>7. up'[a] = v /\ openedIn'[a] = u.base
    BY <2>2, <2>5 DEF Types
  <2>8. /\ up' \in [Accounts -> Offer]
        /\ openedIn' \in [Accounts -> Trial \cup {"none"}]
    BY <2>3, <2>4, <2>5 DEF Types, Offer
  <2>9. Aged(up, up')
    BY <2>2, <2>4, <2>6, <2>7 DEF Aged, u
  <2> QED
    BY <2>2, <2>6, <2>7, <2>8, <2>9 DEF BaseNotCutShort, u
<1>3. UNCHANGED <<up, openedIn>> \/ StartAnswers(t) \/ StartLost(t)
  BY DEF Step, OwnStep, Answered, Wakes, BillAnswers, BillFails, SnapWrites, Check, Refill, PingReturns, Decide,
         SlotAnswers, Mirror, BaseAnswers, TrialCallFails, upVars
<1> QED
  BY <1>1, <1>2, <1>3

\* What they store of it: a count of 0 is never written over a 1.
LEMMA StepCount ==
  ASSUME Types, AllFit, Counts, NEW t \in Slots, Step(t), Aged(up, up')
  PROVE  /\ extCount' \in [Accounts -> {0, 1}]
         /\ \A a \in Accounts : extCount'[a] >= extCount[a]
         /\ Counts'
<1>0. \A a \in Accounts : extCount[a] \in {0, 1}
  BY DEF Types
<1>1. CASE UNCHANGED extCount
  BY <1>0, <1>1 DEF Types, Counts, Aged
<1>2. ASSUME NEW a \in Accounts, WriteCount(a, 1), up'[a].ext # "unused"
      PROVE  /\ extCount' \in [Accounts -> {0, 1}]
             /\ \A b \in Accounts : extCount'[b] >= extCount[b]
             /\ Counts'
  <2>1. extCount' \in [Accounts -> {0, 1}]
    BY <1>2 DEF WriteCount, Types
  <2>2. \A b \in Accounts : extCount'[b] = extCount[b] \/ (b = a /\ extCount'[b] = 1)
    BY <1>2 DEF WriteCount, Types
  <2> QED
    BY <1>0, <1>2, <2>1, <2>2 DEF Counts, Aged
<1>3. CASE Mirror(t)
  <2> DEFINE a == task[t].seen.id
             slot == task[t].got.slot
  <2>1. Running(t) /\ task[t].pc = "mirror" /\ SyncCount(t, IF slot = "unused" THEN 0 ELSE 1)
    BY <1>3 DEF Mirror, At
  <2>2. /\ a \in Accounts /\ slot \in Slot
        /\ slot = "unused" => task[t].seen.count = 0
        /\ slot # "unused" => up[a].ext # "unused"
    BY <2>1, RunningIs, TaskIs DEF AllFit, Fit, Running
  <2>3. CASE slot = "unused"
    BY <1>1, <2>1, <2>2, <2>3 DEF SyncCount
  <2>4. CASE slot # "unused"
    <3>1. UNCHANGED extCount \/ WriteCount(a, 1)
      BY <2>1, <2>4 DEF SyncCount
    <3>2. up'[a].ext # "unused"
      BY <2>2, <2>4 DEF Aged
    <3> QED
      BY <1>1, <1>2, <2>2, <3>1, <3>2
  <2> QED
    BY <2>3, <2>4
<1>4. CASE StartAnswers(t)
  <2> DEFINE a == task[t].seen.id
  <2>1. Running(t) /\ WriteCount(a, 1) /\ Opened(a)
    BY <1>4 DEF StartAnswers, At
  <2>2. a \in Accounts
    BY <2>1, RunningIs, TaskIs
  <2> DEFINE u == up[a]
             v == [u EXCEPT !.ext = "active", !.quota = "left"]
  <2>3. u \in Offer /\ up' = [up EXCEPT ![a] = v]
    BY <2>1, <2>2 DEF Opened, Types
  <2> HIDE DEF u
  <2>4. v.ext = "active"
    BY <2>3 DEF Offer
  <2> HIDE DEF v
  <2>5. up'[a].ext = "active"
    BY <2>2, <2>3, <2>4 DEF Types
  <2> QED
    BY <1>2, <2>1, <2>2, <2>5
<1>5. UNCHANGED extCount \/ Mirror(t) \/ StartAnswers(t)
  BY DEF Step, OwnStep, Answered, Wakes, BillAnswers, BillFails, SnapWrites, Check, Refill, PingReturns, Decide,
         SlotAnswers, BaseAnswers, StartLost, TrialCallFails, rowVars
<1> QED
  BY <1>1, <1>3, <1>4, <1>5

-----------------------------------------------------------------------------
(***************************************************************************)
(* The inductive invariant.                                                *)
(***************************************************************************)

\* A step of a task keeps the invariant.
LEMMA StepKeeps ==
  ASSUME IInv, NEW t \in Slots, Step(t)
  PROVE  IInv'
<1> USE DEF IInv
<1>1. UNCHANGED <<live, fresh, queue, doomed, clock, events>>
  BY DEF Step, OwnStep, Answered, Wakes, BillAnswers, BillFails, SnapWrites, Check, Refill, PingReturns, Decide,
         SlotAnswers, Mirror, BaseAnswers, StartAnswers, StartLost, TrialCallFails, rowVars
<1>2. Running(t)
  BY DEF Step, OwnStep, Answered, Wakes, BillAnswers, BillFails, SnapWrites, Check, Refill, PingReturns, Decide,
         SlotAnswers, Mirror, BaseAnswers, StartAnswers, StartLost, TrialCallFails, At
<1>3. /\ up' \in [Accounts -> Offer] /\ openedIn' \in [Accounts -> Trial \cup {"none"}]
      /\ Aged(up, up') /\ BaseNotCutShort'
  BY StepUp
<1>4. PICK x : Fit(up', x) /\ Moves(t, x)
  BY StepMoves
<1>5. /\ task' \in [Slots -> Task \cup {NoTask}] /\ \A u \in Slots : Fit(up', task'[u])
      /\ pending' \in SUBSET Accounts /\ recent' \in SUBSET Accounts
  BY <1>2, <1>3, <1>4, MovesTasks
<1>6. RefreshInv'
  BY <1>2, <1>4, MovesRefreshes
<1>7. row' \in JobTable
  BY StepRow
<1>8. extCount' \in [Accounts -> {0, 1}] /\ Counts'
  BY <1>3, StepCount
<1>9. Types'
  BY <1>1, <1>3, <1>5, <1>7, <1>8 DEF Types
<1>10. AllFit'
  <2>1. \A q \in queue : ItemFit(up', q)
    BY <1>3, FitAges DEF AllFit, Types
  <2> QED
    BY <1>1, <1>5, <2>1 DEF AllFit
<1> QED
  BY <1>3, <1>6, <1>8, <1>9, <1>10

\* So does what begins a task in a free slot.
LEMMA TriggersKeep ==
  ASSUME IInv, NEW t \in Triggers,
         (\E a \in Accounts : Triggered(t, a)) \/ \E q \in queue : TakesNext(t, q)
  PROVE  IInv'
<1> USE DEF IInv
<1>1. t \in Slots /\ ~Running(t)
  BY FreeIs DEF Triggered, ChatBegins, PanelRefreshes, TakesNext, IdleTrigger, Slots
<1>2. UNCHANGED <<rowVars, upVars, pending, recent, doomed, clock>>
  BY DEF Triggered, ChatBegins, PanelRefreshes, TakesNext
<1>3. events' \in Nat /\ queue' \in SUBSET queue
  BY DEF Triggered, ChatBegins, PanelRefreshes, TakesNext, Counted, Types
<1>4. ASSUME NEW x, Fit(up, x), \A b : ~Refreshes(x, b), task' = [task EXCEPT ![t] = x]
      PROVE  IInv'
  <2>1. /\ task' \in [Slots -> Task \cup {NoTask}]
        /\ \A u \in Slots : Fit(up', task'[u])
        /\ RefreshInv'
    BY <1>1, <1>2, <1>4, BeginsTask DEF upVars
  <2>2. Types'
    BY <1>2, <1>3, <2>1 DEF Types, rowVars, upVars
  <2>3. AllFit' /\ Counts' /\ BaseNotCutShort'
    BY <1>2, <1>3, <2>1 DEF AllFit, Counts, BaseNotCutShort, rowVars, upVars
  <2> QED
    BY <2>1, <2>2, <2>3
<1>5. ASSUME NEW kind \in Kind \ {"after"}, NEW at \in {"ping", "bill", "slot"}, NEW s \in Snapshot,
             s.count = 1 => up[s.id].ext # "unused",
             at = "slot" \/ kind \in {"panel", "panelTrial"} \/ s.row.enabled
      PROVE  Fit(up, Begin(kind, at, s)) /\ \A b : ~Refreshes(Begin(kind, at, s), b)
  <2> DEFINE x == Begin(kind, at, s)
  <2>1. x \in Task /\ x.kind = kind /\ x.pc = at /\ x.seen = s
    BY BeginIs DEF Pc
  <2> HIDE DEF x
  <2>2. Fit(up, x) /\ \A b : ~Refreshes(x, b)
    BY <1>5, <2>1 DEF Fit, Refreshes
  <2> QED
    BY <2>2 DEF x
<1>6. ASSUME NEW a \in Accounts
      PROVE  /\ Look(a) \in Snapshot /\ Look(a).row.enabled = row[a].enabled
             /\ Look(a).count = 1 => up[Look(a).id].ext # "unused"
  BY LookIs DEF Counts
<1>7. ASSUME NEW a \in Accounts, ChatBegins(t, a)
      PROVE  IInv'
  <2>1. task' = [task EXCEPT ![t] = Begin("chat", "ping", Look(a))] /\ row[a].enabled
    BY <1>7 DEF ChatBegins
  <2>2. "chat" \in Kind \ {"after"}
    BY DEF Kind
  <2>3. LET x == Begin("chat", "ping", Look(a)) IN Fit(up, x) /\ \A b : ~Refreshes(x, b)
    BY <1>5, <1>6, <2>1, <2>2
  <2> QED
    BY <1>4, <2>1, <2>3
<1>8. ASSUME NEW a \in Accounts, NEW kind \in {"panel", "panelTrial"}, PanelRefreshes(t, a, kind)
      PROVE  IInv'
  <2>1. task' = [task EXCEPT ![t] = Begin(kind, "bill", Look(a))]
    BY <1>8 DEF PanelRefreshes
  <2>2. kind \in Kind \ {"after"}
    BY DEF Kind
  <2>3. LET x == Begin(kind, "bill", Look(a)) IN Fit(up, x) /\ \A b : ~Refreshes(x, b)
    BY <1>5, <1>6, <2>2
  <2> QED
    BY <1>4, <2>1, <2>3
<1>9. ASSUME NEW q \in queue, TakesNext(t, q)
      PROVE  IInv'
  <2> DEFINE s == IF q.kind = "import" THEN Look(q.seen.id) ELSE q.seen
  <2>1. /\ q.seen \in Snapshot /\ q.seen.id \in Accounts
        /\ q.kind \in {"nightly", "probe", "import"} /\ ItemFit(up, q)
    BY DEF Types, Items, Snapshot, AllFit
  <2>2. /\ s \in Snapshot /\ (s.count = 1 => up[s.id].ext # "unused")
        /\ q.kind = "probe" => s.row.enabled
    BY <1>6, <2>1 DEF ItemFit
  <2> HIDE DEF s
  <2>3. \/ task' = [task EXCEPT ![t] = NoTask]
        \/ q.kind = "nightly" /\ task' = [task EXCEPT ![t] = Begin("nightly", "slot", CountOnly(s))]
        \/ /\ q.kind = "probe" \/ s.row.enabled
           /\ task' = [task EXCEPT ![t] = Begin("probe", "bill", s)]
    BY <1>9, <2>1 DEF TakesNext, Worth, s
  <2>4. CountOnly(s) \in Snapshot /\ CountOnly(s).id = s.id /\ CountOnly(s).count = s.count
    BY <2>2, CountOnlyIs
  <2>5. "nightly" \in Kind \ {"after"} /\ "probe" \in Kind \ {"after"}
    BY DEF Kind
  <2>6. LET x == Begin("nightly", "slot", CountOnly(s)) IN Fit(up, x) /\ \A b : ~Refreshes(x, b)
    BY <1>5, <2>2, <2>4, <2>5
  <2>7. s.row.enabled =>
          LET x == Begin("probe", "bill", s) IN Fit(up, x) /\ \A b : ~Refreshes(x, b)
    BY <1>5, <2>2, <2>5
  <2> QED
    BY <1>4, <2>2, <2>3, <2>6, <2>7, NoTaskFits
<1> QED
  BY <1>7, <1>8, <1>9 DEF Triggered

\* A step that touches no task keeps the invariant if what it writes fits.
LEMMA QuietKeeps ==
  ASSUME IInv, UNCHANGED <<task, pending>>, Aged(up, up'),
         row' \in JobTable, live' \in SUBSET Accounts, fresh' \in SUBSET Accounts,
         extCount' \in [Accounts -> {0, 1}], up' \in [Accounts -> Offer],
         \A a \in Accounts : extCount'[a] = 1 => extCount[a] = 1,
         queue' \in SUBSET Items, \A q \in queue' \ queue : ItemFit(up', q),
         recent' \in SUBSET Accounts, doomed' \in SUBSET Accounts,
         clock' \in {"day", "evening"}, events' \in Nat, UNCHANGED openedIn
  PROVE  IInv'
<1> USE DEF IInv
<1>1. Types'
  BY DEF Types
<1>2. AllFit'
  BY FitAges DEF AllFit, Types
<1>3. Counts' /\ RefreshInv' /\ BaseNotCutShort'
  BY DEF Counts, Aged, RefreshInv, BaseNotCutShort
<1> QED
  BY <1>1, <1>2, <1>3

\* Where nothing changes, nothing is taken back.
LEMMA SameAges == Aged(up, up)
BY DEF Aged

\* What a listing says of an account fits a loop's queue.
LEMMA ListedFits ==
  ASSUME Types, Counts, NEW s \in Listed
  PROVE  /\ s \in Snapshot /\ CountOnly(s) \in Snapshot
         /\ s.count = 1 => up[s.id].ext # "unused"
         /\ CountOnly(s).count = 1 => up[CountOnly(s).id].ext # "unused"
<1>1. PICK a \in live : s = Look(a)
  BY DEF Listed
<1>2. a \in Accounts
  BY DEF Types
<1>3. s \in Snapshot /\ s.id = a /\ s.count = extCount[a]
  BY <1>1, <1>2, LookIs
<1> QED
  BY <1>2, <1>3, CountOnlyIs DEF Counts

\* The loops over accounts and the purge keep the invariant.
LEMMA LoopsKeep ==
  ASSUME IInv, ProbesAll \/ Evening \/ Purge
  PROVE  IInv'
<1> USE DEF IInv
<1>1. /\ UNCHANGED <<row, live, extCount, up, openedIn, task, pending, recent>>
      /\ events' \in Nat /\ clock' \in {"day", "evening"} /\ fresh' \in SUBSET Accounts
  BY DEF ProbesAll, Evening, Purge, Counted, Types, rowVars, upVars
<1>2. doomed' \in SUBSET Accounts
  BY DEF ProbesAll, Evening, Purge, Condemned, Types
<1>3. queue' \in SUBSET Items /\ \A q \in queue' \ queue : ItemFit(up', q)
  <2>1. CASE ProbesAll
    <3>1. \A q \in queue' :
            q \in queue \/ \E s \in Listed : s.row.enabled /\ q = [kind |-> "probe", seen |-> s]
      BY <2>1 DEF ProbesAll, Worth
    <3> QED
      BY <1>1, <3>1, ListedFits DEF Types, Items, ItemFit
  <2>2. CASE Evening
    <3>1. \A q \in queue' :
            q \in queue \/ \E s \in Listed : q = [kind |-> "nightly", seen |-> CountOnly(s)]
      BY <2>2 DEF Evening
    <3> QED
      BY <1>1, <3>1, ListedFits DEF Types, Items, ItemFit
  <2>3. CASE Purge
    BY <2>3 DEF Purge, Types
  <2> QED
    BY <2>1, <2>2, <2>3
<1> QED
  BY <1>1, <1>2, <1>3, SameAges, QuietKeeps DEF Types

\* A restart drops tasks and marks together.
LEMMA RestartsKeep ==
  ASSUME IInv, Restarts
  PROVE  IInv'
<1> USE DEF IInv
<1>1. /\ UNCHANGED <<row, live, fresh, extCount, up, openedIn, clock>>
      /\ events' \in Nat /\ queue' = {} /\ pending' = {} /\ recent' = {}
      /\ doomed' \in SUBSET Accounts
      /\ task' = [t \in Slots |-> NoTask]
  BY DEF Restarts, Counted, Condemned, Types, rowVars, upVars
<1>2. \A t \in Slots : task'[t] = NoTask
  BY <1>1
<1>3. Types'
  BY <1>1 DEF Types
<1>4. AllFit' /\ RefreshInv'
  BY <1>1, <1>2, NoTaskFits DEF AllFit, RefreshInv
<1>5. Counts' /\ BaseNotCutShort'
  BY <1>1 DEF Counts, BaseNotCutShort
<1> QED
  BY <1>3, <1>4, <1>5

\* The row after an INSERT on it.
LEMMA UpsertIs ==
  ASSUME Types, NEW a \in Accounts, NEW on \in BOOLEAN, Upsert(a, on)
  PROVE  /\ row' \in JobTable /\ live' \in SUBSET Accounts /\ fresh' \in SUBSET Accounts
         /\ extCount' \in [Accounts -> {0, 1}]
         /\ \A b \in Accounts : extCount'[b] = 1 => extCount[b] = 1
         /\ \A b \in live : extCount'[b] = extCount[b]
<1>1. live' \in SUBSET Accounts /\ fresh' \in SUBSET Accounts
  BY DEF Upsert, Types
<1>2. /\ extCount' \in [Accounts -> {0, 1}]
      /\ \A b \in Accounts : extCount'[b] = 1 => extCount[b] = 1
      /\ \A b \in live : extCount'[b] = extCount[b]
  BY DEF Upsert, Types
<1>3. row' \in JobTable
  <2>1. row \in [Accounts -> JobRow] /\ row[a] \in JobRow
    BY DEF Types, JobTable
  <2>2. [row[a] EXCEPT !.status = "active", !.enabled = on] \in JobRow
    BY <2>1 DEF JobRow, Status
  <2>3. NewRow(on) \in JobRow
    BY RefIs
  <2> QED
    BY <2>1, <2>2, <2>3 DEF Upsert, JobTable
<1> QED
  BY <1>1, <1>2, <1>3

\* The row after its DELETE.
LEMMA GoneIs ==
  ASSUME Types, NEW a \in Accounts, Gone(a)
  PROVE  /\ row' \in JobTable /\ live' \in SUBSET Accounts /\ fresh' \in SUBSET Accounts
         /\ extCount' \in [Accounts -> {0, 1}]
         /\ \A b \in Accounts : extCount'[b] = 1 => extCount[b] = 1
         /\ \A b \in live' : extCount'[b] = extCount[b]
<1>1. row' \in JobTable
  BY RefIs DEF Gone, Types, JobTable
<1> QED
  BY <1>1 DEF Gone, Types

\* The operator's edits and the purge's deletions keep the invariant.
LEMMA OperatorKeeps ==
  ASSUME IInv, NEW a \in Accounts, Operator(a) \/ PurgeDeletes(a)
  PROVE  IInv'
<1> USE DEF IInv
<1>1. /\ UNCHANGED <<up, openedIn, task, pending, recent, clock>> /\ events' \in Nat
      /\ doomed' \in SUBSET Accounts
  BY DEF Operator, Adds, Deletes, Imports, Toggles, PurgeDeletes, Counted, Types, upVars, procVars
<1>2. queue' \in SUBSET Items /\ \A q \in queue' \ queue : ItemFit(up', q)
  <2>1. \A q \in queue' : q \in queue \/ q = [kind |-> "import", seen |-> Ref(a)]
    BY DEF Operator, Adds, Deletes, Imports, Toggles, PurgeDeletes, procVars
  <2> QED
    BY <2>1, RefIs DEF Types, Items, ItemFit
<1>3. /\ row' \in JobTable /\ live' \in SUBSET Accounts /\ fresh' \in SUBSET Accounts
      /\ extCount' \in [Accounts -> {0, 1}]
      /\ \A b \in Accounts : extCount'[b] = 1 => extCount[b] = 1
  <2>1. ASSUME NEW on \in BOOLEAN, Imports(a, on)
        PROVE  Upsert(a, on)
    BY <2>1 DEF Imports
  <2>2. CASE Adds(a)
    <3>1. (a \in live => row[a].enabled) \in BOOLEAN
      OBVIOUS
    <3> QED
      BY <2>2, <3>1, UpsertIs DEF Adds
  <2>3. ASSUME NEW on \in BOOLEAN, Toggles(a, on)
        PROVE  UNCHANGED <<live, fresh, extCount>> /\ row' \in JobTable
    BY <2>3, EnabledWrite DEF Toggles, Types
  <2>4. Deletes(a) \/ PurgeDeletes(a) => Gone(a)
    BY DEF Deletes, PurgeDeletes
  <2> QED
    BY <2>1, <2>2, <2>3, <2>4, UpsertIs, GoneIs DEF Operator, Types
<1> QED
  BY <1>1, <1>2, <1>3, SameAges, QuietKeeps DEF Types

\* So do the upstream and the clock.
LEMMA UpstreamKeeps ==
  ASSUME IInv, NEW a \in Accounts, Upstream(a) \/ CycleEnds(a) \/ DebounceEnds(a)
  PROVE  IInv'
<1> USE DEF IInv
<1>1. /\ UNCHANGED <<live, fresh, extCount, openedIn, task, queue, pending, doomed, clock>>
      /\ events' \in Nat /\ recent' \in SUBSET Accounts
  <2>1. CASE Upstream(a)
    BY <2>1 DEF Upstream, QuotaTurns, BaseAges, ExtensionEnds, Counted, Types, rowVars, procVars
  <2>2. CASE CycleEnds(a)
    BY <2>2 DEF CycleEnds, Counted, Types, upVars, procVars
  <2>3. CASE DebounceEnds(a)
    BY <2>3 DEF DebounceEnds, Counted, Types, rowVars, upVars
  <2> QED
    BY <2>1, <2>2, <2>3
<1>2. row' \in JobTable
  <2>1. CASE CycleEnds(a)
    BY <2>1, CycleWrite DEF CycleEnds, Types, Cycle
  <2>2. CASE UNCHANGED row
    BY <2>2 DEF Types
  <2> QED
    BY <2>1, <2>2 DEF Upstream, QuotaTurns, BaseAges, ExtensionEnds, DebounceEnds, rowVars
<1>3. up' \in [Accounts -> Offer] /\ Aged(up, up')
  <2>1. up \in [Accounts -> Offer] /\ up[a] \in Offer
    BY DEF Types
  <2>2. CASE UNCHANGED up
    BY <2>2 DEF Types, Aged
  <2>3. CASE QuotaTurns(a)
    BY <2>1, <2>3 DEF QuotaTurns, Offer, Aged
  <2>4. CASE BaseAges(a)
    <3>1. PICK phase \in {"lastHour", "over"} : up' = [up EXCEPT ![a].base = phase]
      BY <2>4 DEF BaseAges
    <3> QED
      BY <2>1, <3>1 DEF Offer, Aged, Trial
  <2>5. CASE ExtensionEnds(a)
    BY <2>1, <2>5 DEF ExtensionEnds, Offer, Aged, Slot
  <2> QED
    BY <2>2, <2>3, <2>4, <2>5 DEF Upstream, CycleEnds, DebounceEnds, upVars
<1> QED
  BY <1>1, <1>2, <1>3, QuietKeeps DEF Types

\* Every step keeps it.
LEMMA NextIInv == IInv /\ [Next]_vars => IInv'
<1> SUFFICES ASSUME IInv, [Next]_vars
             PROVE  IInv'
  OBVIOUS
<1>1. CASE UNCHANGED vars
  <2>1. UNCHANGED <<row, live, fresh, extCount, up, openedIn, task, queue, pending, recent, doomed,
                    clock, events>>
    BY <1>1 DEF vars, rowVars, upVars, procVars
  <2> QED
    BY <2>1, SameAges, QuietKeeps DEF IInv, Types
<1>2. CASE Next
  BY <1>2, StepKeeps, TriggersKeep, LoopsKeep, RestartsKeep, OperatorKeeps, UpstreamKeeps DEF Next
<1> QED
  BY <1>1, <1>2

\* It holds at first.
LEMMA InitIInv == Init => IInv
<1> SUFFICES ASSUME Init
             PROVE  IInv
  OBVIOUS
<1> USE DEF Init
<1>1. row \in JobTable
  <2>1. PICK p \in FirstPlans : row = [a \in Accounts |-> FirstRow(p)]
    OBVIOUS
  <2>2. FirstRow(p) \in JobRow
    BY <2>1, JobsAssumption DEF FirstRow, JobRow, Status, Plan, Quota, Cycle
  <2> QED
    BY <2>1, <2>2 DEF JobTable
<1>2. up \in [Accounts -> Offer]
  BY JobsAssumption DEF Offer, Trial, Slot
<1>3. Types
  BY <1>1, <1>2 DEF Types
<1>4. AllFit /\ RefreshInv
  BY NoTaskFits DEF AllFit, RefreshInv
<1>5. Counts /\ BaseNotCutShort
  BY DEF Counts, BaseNotCutShort
<1> QED
  BY <1>3, <1>4, <1>5 DEF IInv

\* At every moment each task, each queued item and each mark fits the rest.
THEOREM SpecIInv == Spec => []IInv
BY InitIInv, NextIInv, PTL DEF Spec

-----------------------------------------------------------------------------
(***************************************************************************)
(* What follows from it.                                                   *)
(***************************************************************************)

\* Whatever the accounts, goroutines and answers, every variable has its type,
\* and no stored count speaks of an extension the upstream has not seen.
THEOREM SpecTypeOK == Spec => []TypeOK
<1>1. IInv => TypeOK
  <2> SUFFICES ASSUME IInv
               PROVE  TypeOK
    OBVIOUS
  <2> USE DEF IInv
  <2>1. \A t \in Slots : Running(t) /\ task[t].pc = "mirror" => task[t].got.slot # "none"
    BY DEF AllFit, Fit, Running, Slot
  <2>2. \A a \in live : extCount[a] = 1 => up[a].ext # "unused"
    BY DEF Counts, Types
  <2> QED
    BY <2>1, <2>2 DEF TypeOK, Types, JobTable, Items, Offer
<1> QED
  BY <1>1, SpecIInv, PTL

\* An account has one billing refresh exactly while it is marked pending.
THEOREM SpecOneRefreshWhilePending == Spec => []OneRefreshWhilePending
<1>1. IInv => OneRefreshWhilePending
  <2> SUFFICES ASSUME IInv, NEW a \in Accounts
               PROVE  Cardinality({t \in Slots : Running(t) /\ task[t].kind = "after" /\ task[t].seen.id = a})
                        = IF a \in pending THEN 1 ELSE 0
    BY DEF OneRefreshWhilePending
  <2> DEFINE R == {t \in Slots : Refreshes(task[t], a)}
  <2>1. R = {t \in Slots : Running(t) /\ task[t].kind = "after" /\ task[t].seen.id = a}
    BY DEF Refreshes, Running
  <2>2. CASE a \in pending
    <3>1. PICK t \in Slots : Refreshes(task[t], a)
      BY <2>2 DEF IInv, RefreshInv
    <3>2. R = {t}
      BY <3>1 DEF IInv, RefreshInv
    <3> QED
      BY <2>1, <2>2, <3>2, FS_Singleton
  <2>3. CASE a \notin pending
    <3>1. R = {}
      BY <2>3 DEF IInv, RefreshInv
    <3> QED
      BY <2>1, <2>3, <3>1, FS_EmptySet
  <2> QED
    BY <2>2, <2>3
<1> QED
  BY <1>1, SpecIInv, PTL

\* No job and no panel, however they interleave, opens an extension more than
\* an hour before the base trial ends.
THEOREM SpecBaseNotCutShort == Spec => []BaseNotCutShort
BY SpecIInv, PTL DEF IInv

\* No task with an old snapshot takes a stored activation back.
THEOREM SpecCountNeverFalls == Spec => CountNeverFalls
<1>1. IInv /\ [Next]_vars => [\A a \in live \cap live' : extCount'[a] >= extCount[a]]_vars
  <2> SUFFICES ASSUME IInv, Next, NEW a \in live \cap live'
               PROVE  extCount'[a] >= extCount[a]
    OBVIOUS
  <2> USE DEF IInv
  <2>1. a \in Accounts /\ extCount[a] >= extCount[a]
    BY DEF Types
  <2>2. ASSUME NEW t \in Slots, Step(t)
        PROVE  extCount'[a] >= extCount[a]
    BY <2>1, <2>2, StepUp, StepCount
  <2>3. ASSUME NEW b \in Accounts, (\E on \in BOOLEAN : Upsert(b, on)) \/ Gone(b)
        PROVE  extCount'[a] >= extCount[a]
    BY <2>1, <2>3, UpsertIs, GoneIs
  <2>4. ASSUME NEW b \in Accounts, PurgeDeletes(b) \/ Operator(b)
        PROVE  extCount'[a] >= extCount[a]
    <3>1. CASE Adds(b)
      <4>1. (b \in live => row[b].enabled) \in BOOLEAN
        OBVIOUS
      <4> QED
        BY <2>3, <3>1, <4>1 DEF Adds
    <3>2. CASE UNCHANGED extCount
      BY <2>1, <3>2
    <3>3. ~Adds(b) => UNCHANGED extCount \/ (\E on \in BOOLEAN : Upsert(b, on)) \/ Gone(b)
      BY <2>4 DEF Operator, Imports, Toggles, Deletes, PurgeDeletes
    <3> QED
      BY <2>3, <3>1, <3>2, <3>3
  <2>5. CASE UNCHANGED extCount
    BY <2>1, <2>5
  <2>6. \/ \E t \in Slots : Step(t)
        \/ \E b \in Accounts : PurgeDeletes(b) \/ Operator(b)
        \/ UNCHANGED extCount
    <3>1. ASSUME NEW t \in Triggers, NEW b \in Accounts, Triggered(t, b)
          PROVE  UNCHANGED extCount
      BY <3>1 DEF Triggered, ChatBegins, PanelRefreshes, rowVars
    <3>2. ASSUME NEW t \in Triggers, NEW q \in queue, TakesNext(t, q)
          PROVE  UNCHANGED extCount
      BY <3>2 DEF TakesNext, rowVars
    <3>3. ProbesAll \/ Evening \/ Purge \/ Restarts => UNCHANGED extCount
      BY DEF ProbesAll, Evening, Purge, Restarts, rowVars
    <3>4. ASSUME NEW b \in Accounts, Upstream(b) \/ CycleEnds(b) \/ DebounceEnds(b)
          PROVE  UNCHANGED extCount
      BY <3>4 DEF Upstream, QuotaTurns, BaseAges, ExtensionEnds, CycleEnds, DebounceEnds, rowVars
    <3> QED
      BY <3>1, <3>2, <3>3, <3>4 DEF Next
  <2> QED
    BY <2>2, <2>4, <2>5, <2>6
<1> QED
  BY <1>1, SpecIInv, PTL DEF Spec, CountNeverFalls

\* An account the operator switched off stays off through every job.
THEOREM SpecJobsSwitchNothingOn == Spec => JobsSwitchNothingOn
<1>1. IInv /\ [Next]_vars =>
        [\A t \in Slots :
           /\ Running(t) /\ task[t].kind \notin {"panel", "panelTrial"}
           /\ task'[t] # task[t]
           => \A a \in Accounts : row'[a].enabled => row[a].enabled]_vars
  <2> SUFFICES ASSUME IInv, Next, NEW t \in Slots, Running(t),
                      task[t].kind \notin {"panel", "panelTrial"}, task'[t] # task[t]
               PROVE  \A a \in Accounts : row'[a].enabled => row[a].enabled
    OBVIOUS
  <2> USE DEF IInv
  <2>1. ASSUME NEW u \in Slots, Step(u)
        PROVE  \A a \in Accounts : row'[a].enabled => row[a].enabled
    <3>1. Running(u)
      BY <2>1 DEF Step, OwnStep, Answered, Wakes, BillAnswers, BillFails, SnapWrites, Check, Refill, PingReturns,
             Decide, SlotAnswers, Mirror, BaseAnswers, StartAnswers, StartLost, TrialCallFails, At
    <3>2. PICK x : Fit(up', x) /\ Moves(u, x)
      BY <2>1, StepMoves
    <3>3. t = u
      BY <2>1, <3>1, <3>2, StepUp, MovesTasks
    <3> QED
      BY <2>1, <3>3, StepRow
  <2>2. CASE UNCHANGED row
    BY <2>2
  <2>3. CASE UNCHANGED task
    BY <2>3
  <2>4. (\E u \in Slots : Step(u)) \/ UNCHANGED row \/ UNCHANGED task
    <3>1. ASSUME NEW u \in Triggers, NEW b \in Accounts, Triggered(u, b)
          PROVE  UNCHANGED row
      BY <3>1 DEF Triggered, ChatBegins, PanelRefreshes, rowVars
    <3>2. ASSUME NEW u \in Triggers, NEW q \in queue, TakesNext(u, q)
          PROVE  UNCHANGED row
      BY <3>2 DEF TakesNext, rowVars
    <3>3. ProbesAll \/ Evening \/ Purge \/ Restarts => UNCHANGED row
      BY DEF ProbesAll, Evening, Purge, Restarts, rowVars
    <3>4. ASSUME NEW b \in Accounts, Upstream(b) \/ CycleEnds(b) \/ DebounceEnds(b)
          PROVE  UNCHANGED task
      BY <3>4 DEF Upstream, QuotaTurns, BaseAges, ExtensionEnds, CycleEnds, DebounceEnds, procVars
    <3>5. ASSUME NEW b \in Accounts, PurgeDeletes(b) \/ Operator(b)
          PROVE  UNCHANGED task
      BY <3>5 DEF Operator, Adds, Imports, Toggles, Deletes, PurgeDeletes, procVars
    <3> QED
      BY <3>1, <3>2, <3>3, <3>4, <3>5 DEF Next
  <2> QED
    BY <2>1, <2>2, <2>3, <2>4
<1> QED
  BY <1>1, SpecIInv, PTL DEF Spec, JobsSwitchNothingOn
=============================================================================
