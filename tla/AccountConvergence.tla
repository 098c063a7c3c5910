-------------------------- MODULE AccountConvergence --------------------------
(***************************************************************************)
(* One subscription: its intent in PostgreSQL, the converge_subscription   *)
(* jobs that bring the host to that intent, the minute sweep that queues   *)
(* missing jobs, and the purge of its billing account.                     *)
(*                                                                         *)
(* Every change of the intent advances desired_revision and queues a job   *)
(* of that revision in one transaction.  A job takes the subscription's    *)
(* mutex, reads the intent, applies it through the agent and acknowledges  *)
(* the revision it read, if that is still the desired one.                 *)
(*                                                                         *)
(* available, scheduled and retryable jobs are "queued" (a queued job may  *)
(* wait arbitrarily long, so waking one changes nothing here); completed,  *)
(* cancelled and discarded jobs are "none"; "stuck" is a job whose process *)
(* died, which PostgreSQL still shows as running.                          *)
(***************************************************************************)
EXTENDS Integers, FiniteSets

CONSTANTS
    Plan,           \* contents of the entitlements that plan changes choose from
    NoPlan,
    MaxRev,         \* bound: desired revisions
    MaxAttempts,    \* attempts of a converge_subscription job
    PurgeAttempts,  \* attempts of a teardown_billing_account job
    MaxFaults,      \* bound: failed calls and crashes
    MaxLate         \* bound: agent calls abandoned by their job

ASSUME AccountAssumption ==
    /\ {MaxRev, MaxAttempts, PurgeAttempts} \subseteq Nat \ {0}
    /\ {MaxFaults, MaxLate} \subseteq Nat
    /\ NoPlan \notin Plan
    /\ Plan # {}

Rev == 1..MaxRev
Lifecycle == {"active", "suspended"}

VARIABLES
    sub,      \* subscriptions.status
    cust,     \* customers.status
    bill,     \* billing_accounts.provisioning_state
    acct,     \* the row of subscription_system_accounts
    plan,     \* the plan the entitlements were copied from
    rows,     \* the rows of the website and of its scheduled task exist
    gen,      \* status of the newest runtime generation of each content
    job,      \* the converge_subscription job of each revision
    pc, snap, \* where each running job is, and the snapshot it holds
    mutex,    \* holder of LockSubscriptionRuntime, 0 when free
    api,      \* target of a lifecycle request between its check and its transaction
    sweep,    \* revision the sweep read and has not inserted yet, 0 for none
    td,       \* the teardown_billing_account job
    host,     \* what the agent has set up
    late,     \* abandoned calls the agent still serves
    faults

intent == <<sub, cust, bill, plan, rows>>
work   == <<pc, snap, mutex>>
vars   == <<sub, cust, bill, acct, plan, rows, gen, job, pc, snap, mutex,
            api, sweep, td, host, late, faults>>

NoJob  == [st |-> "none", att |-> 0]
Queued == [st |-> "queued", att |-> 0]
NoSnap == [rev |-> 0, state |-> "suspended", plan |-> NoPlan, site |-> FALSE,
           cand |-> FALSE]
TeardownCall == [NoSnap EXCEPT !.state = "terminated"]
Purging == bill \in {"terminating", "terminated"}

\* An account that was provisioned: the website is on the host, in sync.
AInit ==
    /\ sub = "active" /\ cust = "active" /\ bill = "active"
    /\ plan \in Plan
    /\ rows = TRUE
    /\ acct = [want |-> "active", rev |-> 1, applied |-> "active",
               appliedRev |-> 1, conv |-> "in_sync"]
    /\ gen = [c \in Plan |-> IF c = plan THEN "active" ELSE "none"]
    /\ job = [r \in Rev |-> NoJob]
    /\ pc = [r \in Rev |-> "idle"]
    /\ snap = [r \in Rev |-> NoSnap]
    /\ mutex = 0 /\ api = "none" /\ sweep = 0
    /\ td = [st |-> "none", att |-> 0, pc |-> "idle"]
    /\ host = [acc |-> TRUE, site |-> "active", plan |-> plan, svc |-> "active",
               cache |-> "active", gone |-> FALSE, stray |-> FALSE]
    /\ late = {} /\ faults = 0

-----------------------------------------------------------------------------
(* Intent *)

\* The state the account should be in, as the first query of the load reads it.
Effective ==
    IF sub = "active" /\ cust = "active" THEN acct.want ELSE "suspended"

\* A job is unique by subscription and revision among the unfinished ones.
Insert(j, r) == IF j[r].st = "none" THEN [j EXCEPT ![r] = Queued] ELSE j

\* EnqueueSubscriptionConvergenceTx.
Enqueue(want) ==
    /\ acct.rev < MaxRev
    /\ acct' = [acct EXCEPT !.want = want, !.rev = @ + 1, !.conv = "pending"]
    /\ job' = Insert(job, acct.rev + 1)

\* Mutant of Mutable: the transaction trusts the check made before it.
MutableUnchecked == TRUE

\* LockSubscriptionMutationTx, and the triggers on the subscription's rows.
Mutable == ~Purging

\* SetSubscriptionStatuses, for a status the panel or the API asked for.
SetStatus(s) ==
    /\ Mutable
    /\ sub' = s
    /\ Enqueue(IF s = "active" THEN "active" ELSE "suspended")
    /\ UNCHANGED <<cust, bill, plan, rows, gen, work, sweep, td, host, late, faults>>

PanelStatus == \E s \in Lifecycle \cup {"cancelled"} : SetStatus(s) /\ UNCHANGED api

\* SetLifecycle checks the states first and changes them in a later transaction.
LifecycleCheck ==
    /\ api = "none"
    /\ ~Purging
    /\ \E s \in Lifecycle : s # sub /\ api' = s
    /\ UNCHANGED <<intent, acct, gen, job, work, sweep, td, host, late, faults>>

LifecycleApply ==
    /\ api # "none"
    /\ IF Mutable THEN SetStatus(api)
                  ELSE UNCHANGED <<intent, acct, gen, job, work, sweep, td, host, late, faults>>
    /\ api' = "none"

\* SetCustomerStatuses.  While the purge is under way the update of the
\* website's row is refused and with it the transaction; afterwards the account
\* is no longer among those that follow the customer.
SetCustomer ==
    /\ bill # "terminating"
    /\ \E s \in Lifecycle : s # cust /\ cust' = s
    /\ IF bill = "terminated" THEN UNCHANGED <<acct, job>> ELSE Enqueue(acct.want)
    /\ UNCHANGED <<sub, bill, plan, rows, gen, work, api, sweep, td, host, late, faults>>

\* ChangePlan.
ChangePlan ==
    /\ Mutable
    /\ \E c \in Plan \ {plan} : plan' = c
    /\ Enqueue(acct.want)
    /\ UNCHANGED <<sub, cust, bill, rows, gen, work, api, sweep, td, host, late, faults>>

\* Cancel with purge: markAccountTerminatingTx and the teardown job.
Purge ==
    /\ bill # "terminated"
    /\ sub' = "cancelled"
    /\ bill' = "terminating"
    /\ td' = IF td.st = "none" THEN [td EXCEPT !.st = "queued", !.att = 0] ELSE td
    /\ UNCHANGED <<cust, acct, plan, rows, gen, job, work, api, sweep, host, late, faults>>

-----------------------------------------------------------------------------
(* The converge_subscription job of revision r *)

\* River starts a job: it becomes visible as running.
Start(r) ==
    /\ job[r].st = "queued"
    /\ job' = [job EXCEPT ![r] = [st |-> "running", att |-> @.att + 1]]
    /\ pc' = [pc EXCEPT ![r] = "lock"]
    /\ UNCHANGED <<intent, acct, gen, snap, mutex, api, sweep, td, host, late, faults>>

\* LockSubscriptionRuntime.
Lock(r) ==
    /\ pc[r] = "lock"
    /\ mutex = 0
    /\ mutex' = r
    /\ pc' = [pc EXCEPT ![r] = "load"]
    /\ UNCHANGED <<intent, acct, gen, job, snap, api, sweep, td, host, late, faults>>

\* The first statement of loadSubscriptionConvergence reads the revision and the
\* state.  The others, at READ COMMITTED, see what was committed since.
LoadAccount(r) ==
    /\ pc[r] = "load"
    /\ snap' = [snap EXCEPT ![r] = [rev |-> acct.rev, state |-> Effective,
                                    plan |-> NoPlan, site |-> FALSE, cand |-> FALSE]]
    /\ pc' = [pc EXCEPT ![r] = "content"]
    /\ UNCHANGED <<intent, acct, gen, job, mutex, api, sweep, td, host, late, faults>>

LoadContent(r) ==
    /\ pc[r] = "content"
    /\ snap' = [snap EXCEPT ![r].plan = plan, ![r].site = rows]
    /\ pc' = [pc EXCEPT ![r] = IF snap[r].state = "active" \/ ~rows THEN "prepare" ELSE "shutdown"]
    /\ UNCHANGED <<intent, acct, gen, job, mutex, api, sweep, td, host, late, faults>>

\* The cache of a suspended account is stopped before anything else.
Shutdown(r) ==
    /\ pc[r] = "shutdown"
    /\ host' = [host EXCEPT !.cache = snap[r].state]
    /\ pc' = [pc EXCEPT ![r] = "prepare"]
    /\ UNCHANGED <<intent, acct, gen, job, snap, mutex, api, sweep, td, late, faults>>

\* Mutant of Ended: an error always queues the job again.
EndedAlways(j, err, max) == IF err THEN [j EXCEPT !.st = "queued"] ELSE NoJob

\* A job that returns nil is completed, one that returns an error is queued again
\* until its attempts are used up.
Ended(j, err, max) ==
    IF err /\ j.att < max THEN [j EXCEPT !.st = "queued"] ELSE NoJob

\* The job returns and lets go of the mutex.
Leave(r) ==
    /\ pc' = [pc EXCEPT ![r] = "idle"]
    /\ snap' = [snap EXCEPT ![r] = NoSnap]
    /\ mutex' = 0

\* prepareRuntimeGenerations: a new content becomes a candidate.  The insert is
\* refused once the purge has begun, and the job returns without a verdict.
Prepare(r) ==
    LET c == snap[r].plan
        known == gen[c] \in {"candidate", "active"}
    IN  /\ pc[r] = "prepare"
        /\ IF snap[r].site /\ ~known /\ (Purging \/ ~rows)
           THEN /\ job' = [job EXCEPT ![r] = Ended(@, TRUE, MaxAttempts)]
                /\ Leave(r)
                /\ UNCHANGED gen
           ELSE /\ gen' = IF snap[r].site /\ ~known THEN [gen EXCEPT ![c] = "candidate"]
                                                   ELSE gen
                /\ snap' = [snap EXCEPT ![r].cand = snap[r].site /\ gen[c] # "active"]
                /\ pc' = [pc EXCEPT ![r] = "ensure"]
                /\ UNCHANGED <<job, mutex>>
        /\ UNCHANGED <<intent, acct, api, sweep, td, host, late, faults>>

\* EnsureSubscriptionAccount on the agent creates the Linux account and sets up
\* the websites of the request that were not removed.  host.stray records, for
\* the properties alone, that the last request to do so was an abandoned one.
EnsureOn(h, s) ==
    IF s.site /\ ~h.gone
    THEN [h EXCEPT !.acc = TRUE, !.site = s.state, !.plan = s.plan, !.stray = FALSE]
    ELSE [h EXCEPT !.acc = TRUE]

\* When the cache cannot be stopped, the account is suspended all the same and
\* the job fails.
ShutdownFails(r) ==
    /\ pc[r] = "shutdown"
    /\ faults < MaxFaults /\ faults' = faults + 1
    /\ \E h \in {host, [host EXCEPT !.cache = snap[r].state]} :
           host' \in {h, EnsureOn(h, snap[r])}
    /\ pc' = [pc EXCEPT ![r] = "failed"]
    /\ UNCHANGED <<intent, acct, gen, job, snap, mutex, api, sweep, td, late>>

Ensure(r) ==
    /\ pc[r] = "ensure"
    /\ host' = EnsureOn(host, snap[r])
    /\ pc' = [pc EXCEPT ![r] = "activate"]
    /\ UNCHANGED <<intent, acct, gen, job, snap, mutex, api, sweep, td, late, faults>>

\* The agent reports an error, before or after it changed the host; the
\* candidate fails (failRuntimeGenerations, whose own error is ignored).
EnsureFails(r) ==
    /\ pc[r] = "ensure"
    /\ faults < MaxFaults /\ faults' = faults + 1
    /\ host' \in {host, EnsureOn(host, snap[r])}
    /\ gen' = IF snap[r].cand /\ rows /\ ~Purging
              THEN [gen EXCEPT ![snap[r].plan] = "failed"] ELSE gen
    /\ pc' = [pc EXCEPT ![r] = "failed"]
    /\ UNCHANGED <<intent, acct, job, snap, mutex, api, sweep, td, late>>

\* The job's context ends while the call waits at the agent, which goes on
\* without its client.  Nothing more can be written under that context.
EnsureAbandoned(r) ==
    /\ pc[r] = "ensure"
    /\ faults < MaxFaults /\ faults' = faults + 1
    /\ Cardinality(late) < MaxLate
    /\ late' = late \cup {snap[r]}
    /\ job' = [job EXCEPT ![r] = Ended(@, TRUE, MaxAttempts)]
    /\ Leave(r)
    /\ UNCHANGED <<intent, acct, gen, api, sweep, td, host>>

\* activateRuntimeGenerations.
Activate(r) ==
    LET c == snap[r].plan
        done == ~snap[r].cand \/ (rows /\ ~Purging)
    IN  /\ pc[r] = "activate"
        /\ gen' = IF snap[r].cand /\ done
                  THEN [x \in Plan |-> IF x = c THEN "active"
                                       ELSE IF gen[x] = "active" THEN "retired" ELSE gen[x]]
                  ELSE gen
        /\ pc' = [pc EXCEPT ![r] = IF done THEN "services" ELSE "failed"]
        /\ UNCHANGED <<intent, acct, job, snap, mutex, api, sweep, td, host, late, faults>>

ActivateFails(r) ==
    /\ pc[r] = "activate"
    /\ faults < MaxFaults /\ faults' = faults + 1
    /\ pc' = [pc EXCEPT ![r] = "failed"]
    /\ UNCHANGED <<intent, acct, gen, job, snap, mutex, api, sweep, td, host, late>>

\* Scheduled tasks, FTPS, DNS, the cache of an active account, Git and protected
\* directories.  The update of the tasks' rows is refused during the purge.
ServicesOn(h, s) ==
    [h EXCEPT !.svc = s.state, !.cache = IF s.state = "active" THEN "active" ELSE @]

Services(r) ==
    /\ pc[r] = "services"
    /\ host' = ServicesOn(host, snap[r])
    /\ pc' = [pc EXCEPT ![r] = IF Purging /\ rows THEN "failed" ELSE "done"]
    /\ UNCHANGED <<intent, acct, gen, job, snap, mutex, api, sweep, td, late, faults>>

ServicesFail(r) ==
    /\ pc[r] = "services"
    /\ faults < MaxFaults /\ faults' = faults + 1
    /\ host' \in {host, [host EXCEPT !.svc = snap[r].state], ServicesOn(host, snap[r])}
    /\ pc' = [pc EXCEPT ![r] = "failed"]
    /\ UNCHANGED <<intent, acct, gen, job, snap, mutex, api, sweep, td, late>>

\* Mutant of Acks: whatever was applied is acknowledged.
AcksAny(r) == TRUE

\* updateAccountConvergenceTx changes the row of the revision that was read.
Acks(r) == acct.rev = snap[r].rev

\* markAccountConvergence; the mutex is free when Work returns.
Mark(r) ==
    LET ok == pc[r] = "done"
    IN  /\ pc[r] \in {"done", "failed"}
        /\ acct' = IF Acks(r)
                   THEN [acct EXCEPT !.applied = IF ok THEN snap[r].state ELSE "failed",
                                     !.appliedRev = snap[r].rev,
                                     !.conv = IF ok THEN "in_sync" ELSE "failed"]
                   ELSE acct
        /\ job' = IF Acks(r) THEN job ELSE Insert(job, acct.rev)
        /\ pc' = [pc EXCEPT ![r] = IF ok THEN "nil" ELSE "error"]
        /\ snap' = [snap EXCEPT ![r] = NoSnap]
        /\ mutex' = 0
        /\ UNCHANGED <<intent, gen, api, sweep, td, host, late, faults>>

\* River records how the job ended.
Finish(r) ==
    /\ pc[r] \in {"nil", "error"}
    /\ job' = [job EXCEPT ![r] = Ended(@, pc[r] = "error", MaxAttempts)]
    /\ pc' = [pc EXCEPT ![r] = "idle"]
    /\ UNCHANGED <<intent, acct, gen, snap, mutex, api, sweep, td, host, late, faults>>

\* A query fails: the job returns the error without a verdict.
QueryFails(r) ==
    /\ pc[r] \in {"load", "content", "prepare", "done", "failed"}
    /\ faults < MaxFaults /\ faults' = faults + 1
    /\ job' = [job EXCEPT ![r] = Ended(@, TRUE, MaxAttempts)]
    /\ Leave(r)
    /\ UNCHANGED <<intent, acct, gen, api, sweep, td, host, late>>

\* Mutant of Sweeps: accounts whose last attempt failed are swept instead.
SweepsFailed == acct.conv = "failed"

\* ConvergePendingSubscriptionsWorker: the rows are read first, then inserted.
Sweeps == acct.conv = "pending"

SweepRead ==
    /\ sweep = 0 /\ Sweeps
    /\ sweep' = acct.rev
    /\ UNCHANGED <<intent, acct, gen, job, work, api, td, host, late, faults>>

SweepInsert ==
    /\ sweep # 0
    /\ job' = Insert(job, sweep)
    /\ sweep' = 0
    /\ UNCHANGED <<intent, acct, gen, work, api, td, host, late, faults>>

-----------------------------------------------------------------------------
(* The teardown_billing_account job *)

\* Jobs of the subscription that PostgreSQL shows as running.
ChildRunning == \E r \in Rev : job[r].st \in {"running", "stuck"}

TdEnded(err) ==
    IF err /\ td.att < PurgeAttempts THEN [td EXCEPT !.st = "queued", !.pc = "idle"]
                                     ELSE [st |-> "none", att |-> 0, pc |-> "idle"]

TdStart ==
    /\ td.st = "queued"
    /\ td' = [st |-> "running", att |-> td.att + 1, pc |-> "check"]
    /\ UNCHANGED <<intent, acct, gen, job, work, api, sweep, host, late, faults>>

\* A job that starts again after its final transaction has nothing to do.
TdSettled ==
    /\ td.pc = "check" /\ bill = "terminated"
    /\ td' = TdEnded(FALSE)
    /\ UNCHANGED <<intent, acct, gen, job, work, api, sweep, host, late, faults>>

TdCheck ==
    /\ \/ td.pc = "check" /\ bill # "terminated"
       \/ td.pc = "recheck"
    /\ td' = IF ChildRunning THEN TdEnded(TRUE)
             ELSE [td EXCEPT !.pc = IF td.pc = "check" THEN "cancel" ELSE "call"]
    /\ UNCHANGED <<intent, acct, gen, job, work, api, sweep, host, late, faults>>

TdCancel ==
    /\ td.pc = "cancel"
    /\ job' = [r \in Rev |-> IF job[r].st = "queued" THEN NoJob ELSE job[r]]
    /\ td' = [td EXCEPT !.pc = "recheck"]
    /\ UNCHANGED <<intent, acct, gen, work, api, sweep, host, late, faults>>

\* TeardownSubscription on the agent.
Removed == [acc |-> FALSE, site |-> "none", plan |-> NoPlan, svc |-> "none",
            cache |-> "none", gone |-> TRUE, stray |-> FALSE]

TdCall ==
    /\ td.pc = "call"
    /\ host' = Removed
    /\ td' = [td EXCEPT !.pc = "final"]
    /\ UNCHANGED <<intent, acct, gen, job, work, api, sweep, late, faults>>

\* A query or the agent fails, the latter before, during or after the removal.
TdFails ==
    /\ td.pc \notin {"idle", "end"}
    /\ faults < MaxFaults /\ faults' = faults + 1
    /\ td' = TdEnded(TRUE)
    /\ \/ UNCHANGED host
       \/ td.pc = "call" /\ host' \in {[host EXCEPT !.site = "none", !.gone = TRUE], Removed}
    /\ UNCHANGED <<intent, acct, gen, job, work, api, sweep, late>>

TdAbandoned ==
    /\ td.pc = "call"
    /\ faults < MaxFaults /\ faults' = faults + 1
    /\ Cardinality(late) < MaxLate
    /\ late' = late \cup {TeardownCall}
    /\ td' = TdEnded(TRUE)
    /\ UNCHANGED <<intent, acct, gen, job, work, api, sweep, host>>

\* The final transaction deletes the subscription's rows and ends the account.
TdFinal ==
    /\ td.pc = "final"
    /\ rows' = FALSE
    /\ gen' = [c \in Plan |-> "none"]
    /\ acct' = [acct EXCEPT !.want = "terminated", !.applied = "terminated", !.conv = "in_sync"]
    /\ sub' = "cancelled"
    /\ bill' = "terminated"
    /\ td' = [td EXCEPT !.pc = "end"]
    /\ UNCHANGED <<cust, plan, job, work, api, sweep, host, late, faults>>

TdFinish ==
    /\ td.pc = "end"
    /\ td' = TdEnded(FALSE)
    /\ UNCHANGED <<intent, acct, gen, job, work, api, sweep, host, late, faults>>

-----------------------------------------------------------------------------
(* Crashes and abandoned calls *)

\* The panel dies.  A call of a job may be at the agent.
Crash ==
    /\ faults < MaxFaults /\ faults' = faults + 1
    /\ job' = [r \in Rev |-> IF job[r].st = "running" THEN [job[r] EXCEPT !.st = "stuck"]
                             ELSE job[r]]
    /\ pc' = [r \in Rev |-> "idle"]
    /\ snap' = [r \in Rev |-> NoSnap]
    /\ mutex' = 0 /\ api' = "none" /\ sweep' = 0
    /\ td' = IF td.st = "running" THEN [td EXCEPT !.st = "stuck", !.pc = "idle"] ELSE td
    /\ \/ UNCHANGED late
       \/ /\ Cardinality(late) < MaxLate
          /\ \/ \E r \in Rev : pc[r] = "ensure" /\ late' = late \cup {snap[r]}
             \/ td.pc = "call" /\ late' = late \cup {TeardownCall}
    /\ UNCHANGED <<intent, acct, gen, host>>

\* River's rescuer takes a stuck job for one that returned an error.
Rescue(r) ==
    /\ job[r].st = "stuck"
    /\ job' = [job EXCEPT ![r] = Ended(@, TRUE, MaxAttempts)]
    /\ UNCHANGED <<intent, acct, gen, work, api, sweep, td, host, late, faults>>

TdRescue ==
    /\ td.st = "stuck"
    /\ td' = TdEnded(TRUE)
    /\ UNCHANGED <<intent, acct, gen, job, work, api, sweep, host, late, faults>>

\* The agent serves a call whose job is gone.
ServeLate ==
    /\ \E s \in late : /\ host' = IF s = TeardownCall THEN Removed
                                  ELSE [EnsureOn(host, s) EXCEPT !.stray = TRUE]
                       /\ late' = late \ {s}
    /\ UNCHANGED <<intent, acct, gen, job, work, api, sweep, td, faults>>

Step(r) ==
    \/ Start(r) \/ Lock(r) \/ LoadAccount(r) \/ LoadContent(r) \/ Shutdown(r) \/ Prepare(r)
    \/ Ensure(r) \/ Activate(r) \/ Services(r) \/ Mark(r) \/ Finish(r) \/ Rescue(r)

Fault(r) ==
    \/ ShutdownFails(r) \/ EnsureFails(r) \/ EnsureAbandoned(r) \/ ActivateFails(r)
    \/ ServicesFail(r) \/ QueryFails(r)

TdStep ==
    \/ TdStart \/ TdSettled \/ TdCheck \/ TdCancel \/ TdCall \/ TdFinal \/ TdFinish \/ TdRescue

ANext ==
    \/ PanelStatus \/ LifecycleCheck \/ LifecycleApply \/ SetCustomer \/ ChangePlan \/ Purge
    \/ \E r \in Rev : Step(r) \/ Fault(r)
    \/ SweepRead \/ SweepInsert
    \/ TdStep \/ TdFails \/ TdAbandoned
    \/ Crash \/ ServeLate

ASpec == AInit /\ [][ANext]_vars

\* River runs, retries and rescues jobs, and the sweep is a periodic job.
AFairness ==
    /\ \A r \in Rev : WF_vars(Step(r))
    /\ WF_vars(SweepRead) /\ WF_vars(SweepInsert)
    /\ WF_vars(TdStep)

-----------------------------------------------------------------------------
(* Properties *)

\* Type invariant; a job has a program counter exactly while it runs, and its
\* attempts stay within the limit of the queue.
ATypeOK ==
    /\ sub \in Lifecycle \cup {"cancelled"}
    /\ cust \in Lifecycle
    /\ bill \in {"active", "terminating", "terminated"}
    /\ acct \in [want : Lifecycle \cup {"terminated"}, rev : Rev,
                 applied : Lifecycle \cup {"terminated", "failed"}, appliedRev : Rev,
                 conv : {"in_sync", "pending", "failed"}]
    /\ plan \in Plan /\ rows \in BOOLEAN
    /\ gen \in [Plan -> {"none", "candidate", "active", "retired", "failed"}]
    /\ job \in [Rev -> [st : {"none", "queued", "running", "stuck"}, att : 0..MaxAttempts]]
    /\ \A r \in Rev : (pc[r] # "idle") <=> (job[r].st = "running")
    /\ mutex \in 0..MaxRev /\ sweep \in 0..MaxRev
    /\ api \in Lifecycle \cup {"none"}
    /\ td \in [st : {"none", "queued", "running", "stuck"}, att : 0..PurgeAttempts,
               pc : {"idle", "check", "cancel", "recheck", "call", "final", "end"}]
    /\ host.site \in Lifecycle \cup {"none"} /\ host.plan \in Plan \cup {NoPlan}
    /\ Cardinality(late) <= MaxLate /\ faults \in 0..MaxFaults

\* An account shown as in sync is: the account, the website, its plan and the
\* services on the host are those of the intent of now, and the recorded state
\* and the active runtime generation say so.  Jobs of several revisions read
\* and write in any order; what one of them applied for an older intent must not
\* be left behind an acknowledgement (account_lifecycle.go, markAccountConvergence).
\* The exception is the website whose last setup was a call that its job had
\* given up: the agent may serve it after a newer intent was acknowledged, and
\* nothing puts the website right until the next convergence.
AckedIsApplied ==
    acct.conv = "in_sync" /\ bill = "active" =>
        /\ host.acc /\ host.svc = Effective /\ host.cache = Effective
        /\ host.stray \/ (host.site = Effective /\ host.plan = plan)
        /\ acct.applied = Effective /\ acct.appliedRev = acct.rev
        /\ gen[plan] = "active"

\* Once the purge has begun, no request that was checked before it brings the
\* subscription back or moves its revision (LockSubscriptionMutationTx).
PurgeIsFinal ==
    [][Purging => /\ bill' # "active" /\ sub' = "cancelled"
                  /\ acct'.rev = acct.rev
                  /\ (bill = "terminated" => bill' = "terminated")]_vars

\* While the account is not being purged, a change of the intent does not stay
\* pending: it is applied or its failure is shown, also when the process died
\* between two steps or the attempts of the job are used up, for the sweep
\* queues it again (ConvergePendingSubscriptionsWorker).
ConvergenceSettles ==
    acct.conv = "pending" /\ bill = "active" ~> acct.conv # "pending" \/ Purging

\* What LockSubscriptionMutationTx and the triggers are there for: no operation
\* on the subscription is queued behind the cancellation pass of the purge, so a
\* purged account stays off the host.
PurgedStaysPurged == bill = "terminated" => ~host.acc
=============================================================================
