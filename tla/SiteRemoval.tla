---------------------------- MODULE SiteRemoval -----------------------------
(***************************************************************************)
(* Removal of a website by the control plane                               *)
(* (internal/control/provision/site_removal_*.go, site_job_fence.go):      *)
(* the approved operation and the website's row in the database, the       *)
(* remove_site jobs that drive the agent stage by stage, the other jobs of *)
(* the website, which are drained and fenced off, the sweep that recovers  *)
(* operations without a job, and the operator's retry.                     *)
(***************************************************************************)
EXTENDS RemovalAgent, FiniteSets

CONSTANTS
    Worker,      \* slots of the job queue that run remove_site jobs
    NoWorker,
    Task,        \* jobs of other kinds whose target is the website
    Sweeper,     \* sweep_site_removals jobs that may overlap
    MaxRev,      \* bound: revisions of the operation, so MaxRev - 1 retries
    MaxAttempts, \* attempts of a remove_site job
    MaxFaults,   \* bound: crashes, database errors and failed agent calls
    MaxCleans    \* bound: finished jobs that the queue deletes

ASSUME RemovalAssumption ==
    /\ {MaxRev, MaxAttempts} \subseteq Nat \ {0} /\ MaxFaults \in Nat /\ MaxCleans \in Nat
    /\ NoWorker \notin Worker

VARIABLES
    op,      \* the row of site_removal_operations
    site,    \* sites.removal_state, or "gone" once the row is deleted
    queue,   \* the latest remove_site job of each revision
    task,    \* the rows of the other jobs
    doing,   \* how far the process that runs such a job has come
    lock,    \* the advisory lock of the operation
    pc, job, stage, answer,  \* Work: label, revision of its job, stage, result
    late,    \* requests the agent may still serve although nobody waits
    sweep,   \* the sweeps
    faults,
    cleans   \* the bound on the cleaner, and whether it was too early once

dbVars == <<op, site>>
wVars  == <<pc, job, stage, answer>>
tVars  == <<task, doing>>
rvars  == <<agent, op, site, queue, task, doing, lock, pc, job, stage, answer, late, sweep, faults, cleans>>

Rev == 1..MaxRev

\* What Finalize asks for (Converge records the two surviving-* checkpoints).
Required == Stage \cup {"surviving-access", "surviving-mail"}

Checkpoint == Required \cup {"shared-dns-intent"}

Active == {"queued", "waiting", "running"}

NoJob == [state |-> "absent", tries |-> 0]

RInit ==
    /\ AgentInit
    /\ op = [state |-> "none", rev |-> 0, done |-> {}]
    /\ site = "none"
    /\ queue = [r \in Rev |-> NoJob]
    /\ task = [t \in Task |-> "absent"]
    /\ doing = [t \in Task |-> "nothing"]
    /\ lock = NoWorker
    /\ pc = [w \in Worker |-> "idle"]
    /\ job = [w \in Worker |-> 0]
    /\ stage = [w \in Worker |-> "stop_services"]
    /\ answer = [w \in Worker |-> {}]
    /\ late = {}
    /\ sweep = [s \in Sweeper |-> [at |-> "idle", rev |-> 0]]
    /\ faults = MaxFaults /\ cleans = [left |-> MaxCleans, early |-> FALSE]

Fault == faults > 0 /\ faults' = faults - 1

-----------------------------------------------------------------------------
(* The operator: approval and retry, each one transaction.                 *)

\* "available" stands for every waiting state of the queue: available,
\* pending, scheduled (a snooze) and retryable.
InQueue(r) == queue[r].state \in {"available", "running"}

\* A job is inserted unless one with the same arguments is waiting or running.
Insert(r) ==
    queue' = IF InQueue(r) THEN queue ELSE [queue EXCEPT ![r] = [state |-> "available", tries |-> 0]]

\* RemoveSiteFor: a repeated request finds the operation and changes nothing.
Request ==
    /\ op.state = "none" /\ site = "none"
    /\ op' = [state |-> "queued", rev |-> 1, done |-> {}]
    /\ site' = "queued"
    /\ Insert(1)
    /\ UNCHANGED <<agent, tVars, lock, wVars, late, sweep, faults, cleans>>

\* Mutant of Retry: the revision is raised twice.
RetryTwice ==
    /\ op.state = "failed" /\ op.rev < MaxRev
    /\ op' = [op EXCEPT !.state = "queued", !.rev = op.rev + 2]
    /\ site' = "queued"
    /\ Insert(op.rev + 1)
    /\ UNCHANGED <<agent, tVars, lock, wVars, late, sweep, faults, cleans>>

Retry ==
    /\ op.state = "failed" /\ op.rev < MaxRev
    /\ op' = [op EXCEPT !.state = "queued", !.rev = op.rev + 1]
    /\ site' = "queued"
    /\ Insert(op.rev + 1)
    /\ UNCHANGED <<agent, tVars, lock, wVars, late, sweep, faults, cleans>>

-----------------------------------------------------------------------------
(* The other jobs of the website.                                          *)

taskFrame == <<agent, op, site, queue, lock, wVars, late, sweep, cleans>>

\* LockSiteMutationTx: intent, and so a job, only for a website not in removal.
InsertTask(t) ==
    /\ task[t] = "absent" /\ site = "none"
    /\ task' = [task EXCEPT ![t] = "available"]
    /\ UNCHANGED <<taskFrame, doing, faults>>

FetchTask(t) ==
    /\ task[t] = "available"
    /\ task' = [task EXCEPT ![t] = "running"]
    /\ doing' = [doing EXCEPT ![t] = "fence"]
    /\ UNCHANGED <<taskFrame, faults>>

\* Mutant of FenceTask: a removal that is only queued does not stop a job.
FenceTaskOpen(t) ==
    /\ doing[t] = "fence"
    /\ \/ site \in {"none", "queued"} /\ doing' = [doing EXCEPT ![t] = "work"]
       \/ site \notin {"none", "queued"} /\ doing' = [doing EXCEPT ![t] = "cancelled"]
    /\ UNCHANGED <<taskFrame, task, faults>>

\* The fence reads removal_state once, before the work.
FenceTask(t) ==
    /\ doing[t] = "fence"
    /\ \/ site = "none" /\ doing' = [doing EXCEPT ![t] = "work"]
       \/ site # "none" /\ doing' = [doing EXCEPT ![t] = "cancelled"]
    /\ UNCHANGED <<taskFrame, task, faults>>

\* The work of the job has ended, for good or to be tried again.
EndTask(t) ==
    /\ doing[t] = "work"
    /\ \E end \in {"completed", "available"} : doing' = [doing EXCEPT ![t] = end]
    /\ UNCHANGED <<taskFrame, task, faults>>

\* The queue records the outcome after the job has returned.
ReportTask(t) ==
    /\ doing[t] \in {"cancelled", "completed", "available"}
    /\ task' = [task EXCEPT ![t] = doing[t]]
    /\ doing' = [doing EXCEPT ![t] = "nothing"]
    /\ UNCHANGED <<taskFrame, faults>>

\* A job whose process died is found by the queue's rescuer.
RescueTask(t) ==
    /\ task[t] = "running" /\ doing[t] = "nothing"
    /\ \E row \in {"available", "discarded"} : task' = [task EXCEPT ![t] = row]
    /\ UNCHANGED <<taskFrame, doing, faults>>

TaskStep(t) ==
    \/ InsertTask(t) \/ FetchTask(t) \/ FenceTask(t) \/ EndTask(t) \/ ReportTask(t) \/ RescueTask(t)

-----------------------------------------------------------------------------
(* RemoveSiteWorker.Work.                                                  *)

Goto(w, l) == pc' = [pc EXCEPT ![w] = l]

\* Return: the deferred unlock runs before the queue records the outcome.
Return(w, outcome) ==
    /\ Goto(w, outcome)
    /\ lock' = IF lock = w THEN NoWorker ELSE lock
    /\ stage' = [stage EXCEPT ![w] = "stop_services"]
    /\ answer' = [answer EXCEPT ![w] = {}]

Outcome == {"nil", "snooze", "cancel", "error"}

wFrame == <<agent, tVars, late, sweep, cleans>>

Fetch(w, r) ==
    /\ pc[w] = "idle" /\ queue[r].state = "available"
    /\ queue' = [queue EXCEPT ![r] = [state |-> "running", tries |-> @.tries + 1]]
    /\ job' = [job EXCEPT ![w] = r]
    /\ Goto(w, "lock")
    /\ UNCHANGED <<wFrame, dbVars, lock, stage, answer, faults>>

\* A job that returned an error is tried again until its attempts are used up;
\* a snooze does not count as an attempt.
Recorded(j, outcome) ==
    CASE outcome = "nil"    -> [j EXCEPT !.state = "completed"]
      [] outcome = "cancel" -> [j EXCEPT !.state = "cancelled"]
      [] outcome = "snooze" -> [state |-> "available", tries |-> j.tries - 1]
      [] outcome = "error"  -> [j EXCEPT !.state = IF j.tries < MaxAttempts THEN "available" ELSE "discarded"]

Report(w) ==
    /\ pc[w] \in Outcome
    /\ queue' = [queue EXCEPT ![job[w]] = Recorded(@, pc[w])]
    /\ Goto(w, "idle")
    /\ job' = [job EXCEPT ![w] = 0]
    /\ UNCHANGED <<wFrame, dbVars, lock, stage, answer, faults>>

Rescue(r) ==
    /\ queue[r].state = "running" /\ \A w \in Worker : job[w] # r
    /\ queue' = [queue EXCEPT ![r] = Recorded(@, "error")]
    /\ UNCHANGED <<wFrame, dbVars, lock, wVars, faults>>

TryLock(w) ==
    /\ pc[w] = "lock"
    /\ \/ lock = NoWorker /\ lock' = w /\ Goto(w, "read") /\ UNCHANGED <<stage, answer>>
       \/ lock # NoWorker /\ Return(w, "snooze")
    /\ UNCHANGED <<wFrame, dbVars, queue, job, faults>>

\* Mutant of Current: a failed operation counts as current.
CurrentFailed(w) == op.rev = job[w] /\ op.state # "completed"

\* The operation is still the one of this job, and neither failed nor complete.
Current(w) == op.rev = job[w] /\ op.state \in Active

ReadOperation(w) ==
    /\ pc[w] = "read"
    /\ \/ Current(w) /\ Goto(w, "drain") /\ UNCHANGED <<lock, stage, answer>>
       \/ ~Current(w) /\ Return(w, "nil")
    /\ UNCHANGED <<wFrame, dbVars, queue, job, faults>>

\* drainSiteJobs: first the waiting jobs are cancelled, then the running ones
\* are counted.
CancelTasks(w) ==
    /\ pc[w] = "drain"
    /\ task' = [t \in Task |-> IF task[t] = "available" THEN "cancelled" ELSE task[t]]
    /\ Goto(w, "count")
    /\ UNCHANGED <<agent, dbVars, queue, doing, lock, job, stage, answer, late, sweep, faults, cleans>>

CountTasks(w) ==
    /\ pc[w] = "count"
    /\ Goto(w, IF \E t \in Task : task[t] = "running" THEN "wait" ELSE "advance")
    /\ UNCHANGED <<wFrame, dbVars, queue, lock, job, stage, answer, faults>>

Wait(w) ==
    /\ pc[w] = "wait"
    /\ op' = IF op.rev = job[w] /\ op.state # "completed" THEN [op EXCEPT !.state = "waiting"] ELSE op
    /\ Return(w, "snooze")
    /\ UNCHANGED <<wFrame, site, queue, job, faults>>

\* advanceRemoval: an operation that is no longer current is an error.
Advance(w, checkpoints, next) ==
    IF Current(w)
    THEN /\ op' = [op EXCEPT !.state = "running", !.done = @ \cup checkpoints]
         /\ site' = "removing"
         /\ next
    ELSE Return(w, "error") /\ UNCHANGED dbVars

\* The advance in front of a stage (the one before the loop is the same as the
\* first one inside it).
EnterStage(w) ==
    /\ pc[w] = "advance"
    /\ Advance(w, {}, Goto(w, "call") /\ UNCHANGED <<lock, stage, answer>>)
    /\ UNCHANGED <<wFrame, queue, job, faults>>

\* What the agent does with a request: a complete journal and a stage already
\* finished are answered without any work.
Answers(rev, st) ==
    agent.complete \/ (agent.rev <= rev /\ (st \in agent.done \/ StageInOrder(st, agent.done)))

Serve(rev, st) ==
    IF agent.complete \/ st \in agent.done THEN UNCHANGED agent ELSE Perform(st, rev)

CallAgent(w) ==
    /\ pc[w] = "call"
    /\ IF Answers(job[w], stage[w])
       THEN /\ Serve(job[w], stage[w])
            /\ answer' = [answer EXCEPT ![w] = agent'.done]
            /\ Goto(w, "record")
       ELSE Goto(w, "fail") /\ UNCHANGED <<agent, answer>>
    /\ UNCHANGED <<dbVars, queue, tVars, lock, job, stage, late, sweep, faults, cleans>>

\* The call fails or times out: the agent has not begun, or has stopped half
\* way, or is still going to serve the request.
CallFails(w) ==
    /\ pc[w] = "call" /\ Fault
    /\ Goto(w, "fail")
    /\ \/ UNCHANGED <<agent, late>>
       \/ Answers(job[w], stage[w]) /\ Begin(job[w]) /\ UNCHANGED late
       \/ late' = late \cup {[rev |-> job[w], stage |-> stage[w]]} /\ UNCHANGED agent
    /\ UNCHANGED <<dbVars, queue, tVars, lock, job, stage, answer, sweep, cleans>>

ServeLate ==
    /\ \E c \in late :
         /\ late' = late \ {c}
         /\ IF Answers(c.rev, c.stage) THEN Serve(c.rev, c.stage) ELSE UNCHANGED agent
    /\ UNCHANGED <<dbVars, queue, tVars, lock, wVars, sweep, faults, cleans>>

NextStage(st) ==
    CASE st = "stop_services" -> "hosting"
      [] st = "hosting"       -> "shared"
      [] OTHER                -> "finalize"

ToStage(w, st) ==
    /\ Goto(w, "advance")
    /\ stage' = [stage EXCEPT ![w] = st]
    /\ UNCHANGED <<lock, answer>>

\* Mutant of RecordStage: the surviving services are not converged.
RecordStageUnconverged(w) ==
    /\ pc[w] = "record"
    /\ Advance(w, answer[w],
         IF stage[w] = "finalize" THEN Goto(w, "finalize") /\ UNCHANGED <<lock, stage, answer>>
                                  ELSE ToStage(w, NextStage(stage[w])))
    /\ UNCHANGED <<wFrame, queue, job, faults>>

\* The advance behind a stage records every checkpoint of the agent's journal.
RecordStage(w) ==
    /\ pc[w] = "record"
    /\ Advance(w, answer[w],
         CASE stage[w] = "shared"   -> Goto(w, "dns") /\ UNCHANGED <<lock, stage, answer>>
           [] stage[w] = "finalize" -> Goto(w, "finalize") /\ UNCHANGED <<lock, stage, answer>>
           [] OTHER                 -> ToStage(w, NextStage(stage[w])))
    /\ UNCHANGED <<wFrame, queue, job, faults>>

\* Converge: the DNS intent of surviving zones in one transaction, then the
\* services that survive the website.
PrepareDNS(w) ==
    /\ pc[w] = "dns"
    /\ IF op.rev = job[w] /\ op.state # "completed"
       THEN op' = [op EXCEPT !.done = @ \cup {"shared-dns-intent"}] /\ Goto(w, "converge")
       ELSE Goto(w, "fail") /\ UNCHANGED op
    /\ UNCHANGED <<wFrame, site, queue, lock, job, stage, answer, faults>>

Converge(w) ==
    /\ pc[w] = "converge"
    /\ Goto(w, "converged")
    /\ UNCHANGED <<wFrame, dbVars, queue, lock, job, stage, answer, faults>>

ConvergeFails(w) ==
    /\ pc[w] \in {"dns", "converge"} /\ Fault
    /\ Goto(w, "fail")
    /\ UNCHANGED <<wFrame, dbVars, queue, lock, job, stage, answer>>

RecordConverged(w) ==
    /\ pc[w] = "converged"
    /\ Advance(w, {"surviving-access", "surviving-mail"}, ToStage(w, NextStage(stage[w])))
    /\ UNCHANGED <<wFrame, queue, job, faults>>

\* Finalize: one transaction that deletes the website and ends the operation.
Finalizable(w) == op.rev = job[w] /\ op.state = "running" /\ Required \subseteq op.done

Finalize(w) ==
    /\ pc[w] = "finalize"
    /\ IF Finalizable(w) \/ (op.rev = job[w] /\ op.state = "completed")
       THEN op' = [op EXCEPT !.state = "completed"] /\ site' = "gone" /\ Return(w, "nil")
       ELSE Goto(w, "fail") /\ UNCHANGED <<dbVars, lock, stage, answer>>
    /\ UNCHANGED <<wFrame, queue, job, faults>>

FinalizeFails(w) ==
    /\ pc[w] = "finalize" /\ Fault
    /\ Goto(w, "fail")
    /\ UNCHANGED <<wFrame, dbVars, queue, lock, job, stage, answer>>

\* Mutant of Fails: the revision is not compared.
FailsAny(rev) == op.state # "completed"

\* failRemoval: the operation and the website show the failure, unless the
\* revision has changed or the operation is complete.
Fails(rev) == op.rev = rev /\ op.state # "completed"

FailRemoval(rev) ==
    IF Fails(rev)
    THEN op' = [op EXCEPT !.state = "failed"] /\ site' = "failed"
    ELSE UNCHANGED dbVars

Fail(w) ==
    /\ pc[w] = "fail"
    /\ FailRemoval(job[w])
    /\ Return(w, IF Fails(job[w]) THEN "cancel" ELSE "nil")
    /\ UNCHANGED <<wFrame, queue, job, faults>>

\* A database error, or the timeout of the job, at any other step.
StepFails(w) ==
    /\ pc[w] \in {"lock", "read", "drain", "count", "wait", "advance", "record", "converged", "fail"}
    /\ Fault
    /\ Return(w, "error")
    /\ UNCHANGED <<wFrame, dbVars, queue, job>>

WorkStep(w) ==
    \/ TryLock(w) \/ ReadOperation(w) \/ CancelTasks(w) \/ CountTasks(w) \/ Wait(w)
    \/ EnterStage(w) \/ CallAgent(w) \/ RecordStage(w) \/ PrepareDNS(w) \/ Converge(w)
    \/ RecordConverged(w) \/ Finalize(w) \/ Fail(w) \/ Report(w)

WorkFault(w) == CallFails(w) \/ ConvergeFails(w) \/ FinalizeFails(w) \/ StepFails(w)

-----------------------------------------------------------------------------
(* SweepSiteRemovalsWorker.Work, crashes and the queue's cleaner.          *)

sFrame == <<agent, tVars, lock, wVars, late, faults, cleans>>

SweepRead(s) ==
    /\ sweep[s].at = "idle" /\ op.state \in Active
    /\ sweep' = [sweep EXCEPT ![s] = [at |-> "active", rev |-> op.rev]]
    /\ UNCHANGED <<sFrame, dbVars, queue>>

\* Mutant of SweepActive: a job that has ended counts as active.
SweepActiveAny(s) ==
    /\ sweep[s].at = "active"
    /\ sweep' = [sweep EXCEPT ![s].at = IF queue[sweep[s].rev] # NoJob THEN "idle" ELSE "latest"]
    /\ UNCHANGED <<sFrame, dbVars, queue>>

\* Is there a job of this revision?  If not, how did the latest one end?
SweepActive(s) ==
    /\ sweep[s].at = "active"
    /\ sweep' = [sweep EXCEPT ![s].at = IF InQueue(sweep[s].rev) THEN "idle" ELSE "latest"]
    /\ UNCHANGED <<sFrame, dbVars, queue>>

SweepLatest(s) ==
    /\ sweep[s].at = "latest"
    /\ sweep' = [sweep EXCEPT ![s].at =
                   IF queue[sweep[s].rev].state \in {"cancelled", "discarded"} THEN "fail" ELSE "insert"]
    /\ UNCHANGED <<sFrame, dbVars, queue>>

SweepFail(s) ==
    /\ sweep[s].at = "fail"
    /\ FailRemoval(sweep[s].rev)
    /\ sweep' = [sweep EXCEPT ![s].at = "idle"]
    /\ UNCHANGED <<sFrame, queue>>

SweepInsert(s) ==
    /\ sweep[s].at = "insert"
    /\ Insert(sweep[s].rev)
    /\ sweep' = [sweep EXCEPT ![s].at = "idle"]
    /\ UNCHANGED <<sFrame, dbVars>>

SweepStep(s) == SweepRead(s) \/ SweepActive(s) \/ SweepLatest(s) \/ SweepFail(s) \/ SweepInsert(s)

\* The panel process dies: its connections, and so the advisory lock, are gone;
\* the rows of its jobs stay "running"; the agent may still serve a request.
Crash ==
    /\ Fault
    /\ \E w \in Worker : pc[w] # "idle"
    /\ pc' = [w \in Worker |-> "idle"]
    /\ job' = [w \in Worker |-> 0]
    /\ stage' = [w \in Worker |-> "stop_services"]
    /\ answer' = [w \in Worker |-> {}]
    /\ lock' = NoWorker
    /\ doing' = [t \in Task |-> "nothing"]
    /\ sweep' = [s \in Sweeper |-> [at |-> "idle", rev |-> 0]]
    /\ late' = late \cup {[rev |-> job[w], stage |-> stage[w]] : w \in {v \in Worker : pc[v] = "call"}}
    /\ UNCHANGED <<agent, dbVars, queue, task, cleans>>

\* The queue deletes jobs that ended long ago (a day or more, which no sweep
\* under way has seen).  cleans.early records, for the properties alone, that
\* the operation of such a job was still under way: in all that time the sweep of
\* every minute had not settled it.
Clean(r) ==
    /\ cleans.left > 0
    /\ cleans' = [left |-> cleans.left - 1,
                  early |-> cleans.early \/ (r = op.rev /\ op.state \in Active)]
    /\ \A s \in Sweeper : sweep[s].at = "idle"
    /\ queue[r].state \in {"completed", "cancelled", "discarded"}
    /\ queue' = [queue EXCEPT ![r] = NoJob]
    /\ UNCHANGED <<agent, dbVars, tVars, lock, wVars, late, sweep, faults>>

RNext ==
    \/ Request \/ Retry \/ ServeLate \/ Crash
    \/ \E t \in Task : TaskStep(t)
    \/ \E w \in Worker : WorkStep(w) \/ WorkFault(w)
    \/ \E r \in Rev : Rescue(r) \/ Clean(r) \/ \E w \in Worker : Fetch(w, r)
    \/ \E s \in Sweeper : SweepStep(s)

RSpec == RInit /\ [][RNext]_rvars

\* The queue fetches every waiting job sooner or later, a started step ends
\* (every agent call and every statement has a deadline), the rescuer finds the
\* jobs of a dead process, and the sweep runs every minute.
RFairness ==
    /\ \A w \in Worker : WF_rvars(WorkStep(w))
    /\ \A r \in Rev : SF_rvars(\E w \in Worker : Fetch(w, r)) /\ WF_rvars(Rescue(r))
    /\ \A t \in Task : WF_rvars(FetchTask(t) \/ FenceTask(t) \/ EndTask(t) \/ ReportTask(t) \/ RescueTask(t))
    /\ \A s \in Sweeper : WF_rvars(SweepStep(s))

RFairSpec == RSpec /\ RFairness

\* In addition the operator retries a failed removal.
RetriedSpec == RFairSpec /\ WF_rvars(Retry)

-----------------------------------------------------------------------------
(* Properties.                                                             *)

\* Type invariant of the operation, the queue, the workers and the agent's journal.
RTypeOK ==
    /\ agent \in AgentJournal
    /\ op \in [state: Active \cup {"none", "failed", "completed"}, rev: 0..MaxRev, done: SUBSET Checkpoint]
    /\ site \in {"none", "queued", "removing", "failed", "gone"}
    /\ queue \in [Rev -> [state: {"absent", "available", "running", "completed", "cancelled", "discarded"},
                          tries: 0..MaxAttempts]]
    /\ task \in [Task -> {"absent", "available", "running", "completed", "cancelled", "discarded"}]
    /\ lock \in Worker \cup {NoWorker}
    /\ job \in [Worker -> 0..MaxRev]
    /\ stage \in [Worker -> Stage]
    /\ answer \in [Worker -> SUBSET Stage]
    /\ late \subseteq [rev: Rev, stage: Stage]

\* Past the drain: from here on Work changes the host.
Driving(w) == pc[w] \in {"advance", "call", "record", "dns", "converge", "converged", "finalize"}

\* No other job of the website is at work while the removal takes the website
\* apart, although the fence reads removal_state once and the drain counts
\* once: a job that passed the fence is still counted, and one that starts
\* after the count meets the fence.
TeardownIsAlone ==
    (late # {} \/ agent.rev # 0 \/ \E w \in Worker : Driving(w)) => \A t \in Task : doing[t] # "work"

\* The rows of the website are deleted only when the agent has finished, and
\* the host lets go of the hostname only when the surviving services have been
\* converged: neither a crash, nor a late request, nor a retry reorders that.
RowsOutliveTheHost ==
    /\ op.state = "completed" <=> site = "gone"
    /\ site = "gone" => agent.complete
    /\ agent.complete => "surviving-mail" \in op.done

\* A failed operation moves again only by a retry, which starts a new revision,
\* although the update to 'waiting' does not test for 'failed'.  It rests on the
\* sweep being faster than the queue's cleaner: were the job of an operation under
\* way deleted first, a sweep would insert a second one beside a sweep about to
\* fail the operation.
FailedUntilRetried ==
    [][op.state = "failed" /\ ~cleans.early => op'.state = "failed" \/ op'.rev = op.rev + 1]_rvars

\* A verdict on an earlier revision fails nothing: a job or a sweep that has
\* decided to fail the removal may act after the operator's retry.
StaleVerdictsAreHarmless ==
    [][op.state # "failed" /\ op'.state = "failed" =>
         \/ \E w \in Worker : pc[w] = "fail" /\ job[w] = op.rev
         \/ \E s \in Sweeper : sweep[s].at = "fail" /\ sweep[s].rev = op.rev]_rvars

\* With an operator who retries, a removal that meets a bounded number of
\* faults is completed: no checkpoint, journal or job left behind by a failed
\* attempt blocks the next one, and a job whose attempts are used up leaves no
\* operation behind that is neither driven on nor shown as failed.  No step
\* leads back to "none", so whatever was requested ends in "completed".
RemovalCompletes == []<>(op.state \in {"none", "completed"})
=============================================================================
