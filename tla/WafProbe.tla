------------------------------ MODULE WafProbe ------------------------------
\* The dashboard's probe of what the upstream's firewall blocks: one job at a
\* time sends a control, each suspicious leaf of a request, and halves of the
\* leaves that were blocked until a line is left. Cancelling is noticed between
\* requests only, and a job that has been told to stop may still be unwinding
\* when the next one starts. (api/waf_probe.go)
\* The firewall blocks a text by its content alone: a leaf has a set of lines
\* that together trip it, or none. In bad weather (the account in a risk window,
\* a network fault) any request may be refused or fail, and the job is dirty.
EXTENDS Integers, FiniteSets, SequencesExt

CONSTANTS
  LineCounts,   \* a sequence: the lines of each chosen leaf
  Jobs,         \* bound: a sequence of jobs, 1..Jobs
  Reps          \* probeReps

VARIABLES
  trigger,      \* the lines of each leaf that trip the firewall together
  current,      \* probeManager.current; 0 before the first job
  job

probeVars == <<trigger, current, job>>

LeafNos == DOMAIN LineCounts
LinesOf(l) == 0..LineCounts[l] - 1

\* A request names at least one leaf, and a text has at least one line.
ASSUME ProbeAssumption ==
  /\ LineCounts \in Seq(Nat \ {0}) /\ Len(LineCounts) > 0
  /\ Jobs \in Nat /\ Reps \in Nat \ {0}

\* phase: what is being sent; lo..hi the lines of the bisection. step: pause
\* (trySend's select), sending, judge (trySend has returned). hits, concluded:
\* as the job's lists; found: the leaf a bisection is at, an index of hits.
NewJob ==
  [status |-> "running", phase |-> "control", leaf |-> 0, lo |-> 0, hi |-> 0,
   step |-> "pause", rep |-> 0, blocked |-> FALSE, dirty |-> FALSE,
   cancelled |-> FALSE, live |-> FALSE, hits |-> <<>>, found |-> 0, concluded |-> <<>>]

Status == {"running", "done", "aborted"}
Phase == {"control", "leaf", "pick", "left", "right", "over"}

ProbeJobs ==
  [status : Status, phase : Phase, leaf : Nat, lo : Nat, hi : Nat,
   step : {"pause", "sending", "judge"}, rep : 0..Reps, blocked : BOOLEAN, dirty : BOOLEAN,
   cancelled : BOOLEAN, live : BOOLEAN, hits : Seq(LeafNos), found : Nat,
   concluded : Seq([leaf : LeafNos, lo : Nat, hi : Nat, ambiguous : BOOLEAN])]

ProbeTypeOK ==
  /\ current \in 0..Jobs
  /\ job \in [1..current -> ProbeJobs]
  /\ \A j \in 1..current :
       /\ job[j].phase \in {"left", "right"} => job[j].lo + 1 < job[j].hi
       /\ IsInjective(job[j].hits)

ProbeInit ==
  /\ trigger \in {t \in [LeafNos -> SUBSET UNION {LinesOf(l) : l \in LeafNos}] :
                    \A l \in LeafNos : t[l] \subseteq LinesOf(l)}
  /\ current = 0
  /\ job = <<>>

Becomes(j, next) == job' = [job EXCEPT ![j] = next]

\* wafProbeStart: refused while the current job is running.
Busy == current > 0 /\ job[current].status = "running"

\* probeManager keeps the current job only: one that has ended is dropped with
\* its lists, one that is still unwinding goes on unseen.
Unseen == [NewJob EXCEPT !.phase = "over", !.status = "aborted"]

StartsJob ==
  /\ current < Jobs
  /\ ~Busy
  /\ current' = current + 1
  /\ job' = Append([j \in 1..current |-> IF job[j].phase = "over" THEN Unseen ELSE job[j]], NewJob)
  /\ UNCHANGED trigger

\* Mutant: the handler writes the status itself.
AbortedAtOnce(j) == [job[j] EXCEPT !.status = "aborted", !.cancelled = TRUE]

\* wafProbeAbort cancels the context and leaves the status to the job.
Aborted(j) == [job[j] EXCEPT !.cancelled = TRUE]

AbortsJob ==
  /\ Busy
  /\ Becomes(current, Aborted(current))
  /\ UNCHANGED <<trigger, current>>

Mid(y) == (y.lo + y.hi) \div 2

\* The lines in the text that job y is sending: none in the control.
SentLines(y) ==
  CASE y.phase = "control" -> {}
    [] y.phase = "leaf"    -> LinesOf(y.leaf)
    [] y.phase = "left"    -> y.lo..Mid(y) - 1
    [] y.phase = "right"   -> Mid(y)..y.hi - 1

TripsTheWall(y) ==
  /\ y.phase # "control"
  /\ trigger[y.leaf] # {}
  /\ trigger[y.leaf] \subseteq SentLines(y)

\* trySend, before a repetition: with the context done and the timer due the
\* select takes either.
Waits(j) ==
  /\ job[j].phase \notin {"pick", "over"}
  /\ job[j].step = "pause"
  /\ UNCHANGED <<trigger, current>>

GivesUpSend(j) ==
  /\ Waits(j)
  /\ job[j].cancelled
  /\ Becomes(j, [job[j] EXCEPT !.status = "aborted", !.step = "judge", !.blocked = FALSE])

\* A request with a cancelled context never reaches the upstream.
Sends(j) ==
  /\ Waits(j)
  /\ Becomes(j, [job[j] EXCEPT !.step = "sending", !.live = ~job[j].cancelled])

\* The request comes back; blocked once is blocked.
SendReturns(j, label, dirty) ==
  /\ job[j].step = "sending"
  /\ Becomes(j, [job[j] EXCEPT
       !.step = IF job[j].rep + 1 = Reps THEN "judge" ELSE "pause",
       !.rep = @ + 1, !.live = FALSE,
       !.blocked = @ \/ label = "403", !.dirty = @ \/ dirty])
  /\ UNCHANGED <<trigger, current>>

Outcome(j) ==
  \/ /\ job[j].live
     /\ SendReturns(j, IF TripsTheWall(job[j]) THEN "403" ELSE "pass", FALSE)
  \/ /\ job[j].live
     /\ \E label \in {"403", "other"} : SendReturns(j, label, TRUE)
  \/ /\ job[j].cancelled
     /\ SendReturns(j, "other", FALSE)

\* trySend has returned: what runProbeJob makes of it, the job y being what it
\* has noted.
Variant(y, phase) == [y EXCEPT !.phase = phase, !.step = "pause", !.rep = 0, !.blocked = FALSE]

Ends(y, status) == [y EXCEPT !.phase = "over", !.status = status]

\* Mutant: a cancelled job goes on to the next phase.
NeverStop(y, next) == next

\* stopIfCancelled
StopOr(y, next) == IF y.cancelled THEN Ends(y, "aborted") ELSE next

\* An abort that trySend noticed stays in the status until the end overwrites it.
Judged(j, phase) == job[j].phase = phase /\ job[j].step = "judge" /\ UNCHANGED <<trigger, current>>

JudgesControl(j) ==
  /\ Judged(j, "control")
  /\ Becomes(j, IF job[j].blocked THEN Ends(job[j], "aborted")
                ELSE StopOr(job[j], Variant([job[j] EXCEPT !.leaf = 1], "leaf")))

\* The last leaf is followed by done if none was blocked, else by bisection.
AfterLeaf(y) ==
  IF y.leaf < Len(LineCounts) THEN Variant([y EXCEPT !.leaf = @ + 1], "leaf")
  ELSE IF y.hits = <<>> THEN Ends(y, "done")
  ELSE Variant([y EXCEPT !.found = 1], "pick")

LeafNoted(y) == IF y.blocked THEN [y EXCEPT !.hits = Append(@, y.leaf)] ELSE y

JudgesLeaf(j) ==
  LET y == LeafNoted(job[j]) IN
  /\ Judged(j, "leaf")
  /\ Becomes(j, StopOr(y, AfterLeaf(y)))

Conclusion(l, lo, hi, ambiguous) == [leaf |-> l, lo |-> lo, hi |-> hi, ambiguous |-> ambiguous]

Noted(y, conclusion) == [y EXCEPT !.concluded = Append(@, conclusion), !.found = @ + 1]

\* The next blocked leaf; one with a single line is its own conclusion.
NextHit(y) ==
  LET l == y.hits[y.found] IN
  IF y.found > Len(y.hits) THEN Ends(y, "done")
  ELSE IF LineCounts[l] = 1 THEN Noted(y, Conclusion(l, 0, 1, FALSE))
  ELSE Variant([y EXCEPT !.leaf = l, !.lo = 0, !.hi = LineCounts[l]], "left")

Picks(j) ==
  /\ job[j].phase = "pick"
  /\ Becomes(j, StopOr(job[j], NextHit(job[j])))
  /\ UNCHANGED <<trigger, current>>

\* What is left of the lines: go on halving, or conclude.
Concludes(y, lo, hi, ambiguous) ==
  StopOr(y, Variant(Noted(y, Conclusion(y.leaf, lo, hi, ambiguous)), "pick"))

Narrowed(y, lo, hi) ==
  IF hi - lo > 1 THEN Variant([y EXCEPT !.lo = lo, !.hi = hi], "left")
  ELSE Concludes(y, lo, hi, FALSE)

\* bisectDescend. It does not ask whether the job was cancelled: its caller does
\* when it is back.
JudgesLeft(j) ==
  /\ Judged(j, "left")
  /\ Becomes(j, IF job[j].blocked THEN Narrowed(job[j], job[j].lo, Mid(job[j]))
                ELSE Variant(job[j], "right"))

JudgesRight(j) ==
  /\ Judged(j, "right")
  /\ Becomes(j, IF job[j].blocked THEN Narrowed(job[j], Mid(job[j]), job[j].hi)
                ELSE Concludes(job[j], job[j].lo, job[j].hi, TRUE))

Works(j) ==
  \/ GivesUpSend(j) \/ Sends(j) \/ Outcome(j)
  \/ JudgesControl(j) \/ JudgesLeaf(j) \/ Picks(j) \/ JudgesLeft(j) \/ JudgesRight(j)

ProbeNext ==
  \/ StartsJob \/ AbortsJob
  \/ \E j \in 1..current : Works(j)

ProbeSpec == ProbeInit /\ [][ProbeNext]_probeVars

-----------------------------------------------------------------------------
\* Properties.

Done(j) == job[j].status = "done"

\* A job that ended done in fair weather is right: the leaves it calls hits are
\* those that trip the firewall, and each conclusion holds the lines that do,
\* a single line unless it says ambiguous. An abort, whenever it comes, leaves
\* no false conclusion behind ("严禁让后续阶段的 finish("done", ...) 覆盖成假
\* 结论", waf_probe.go:426).
DoneIsTrue ==
  \A j \in 1..current :
    Done(j) /\ ~job[j].dirty =>
      /\ ToSet(job[j].hits) = {l \in LeafNos : trigger[l] # {}}
      /\ {c.leaf : c \in ToSet(job[j].concluded)} = ToSet(job[j].hits)
      /\ \A c \in ToSet(job[j].concluded) :
           /\ trigger[c.leaf] \subseteq c.lo..c.hi - 1
           /\ ~c.ambiguous => c.hi = c.lo + 1
           /\ c.ambiguous => Cardinality(trigger[c.leaf]) > 1

\* The probe sends one request at a time to the upstream ("同一时刻仅一个 job",
\* waf_probe.go:3), an aborted job that is still unwinding included.
OneProbeAtATime ==
  Cardinality({j \in 1..current : job[j].live}) <= 1
==============================================================================
