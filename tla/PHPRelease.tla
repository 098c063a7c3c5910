----------------------------- MODULE PHPRelease -----------------------------
(* Releases of one managed PHP application.                                *)
(*                                                                         *)
(* The panel keeps the wanted revision, the active and the previous        *)
(* deployment and one job per intent.  A worker holds the application's    *)
(* mutex in the panel for the length of a job and sends one call to the    *)
(* agent.  The agent serves the calls of the application one at a time: it *)
(* builds a release directory, points the web server at it, writes a       *)
(* marker of what it activated and prunes old releases.  A caller that     *)
(* gives up, or dies, leaves its call behind, and the agent still serves   *)
(* it.                                                                     *)
(*                                                                         *)
(* A deployment is named by its release number, 0 is no deployment.        *)
EXTENDS Naturals, FiniteSets

CONSTANTS
    Retention,    \* release_retention of the application
    MaxAttempts,  \* attempts of a job
    MaxRequests,  \* bound: requests of administrators
    MaxFaults     \* bound: crashes, calls given up and failing steps

ASSUME ConstantsAssumption ==
    /\ Retention \in Nat \ {0}
    /\ MaxAttempts \in Nat \ {0}
    /\ MaxRequests \in Nat
    /\ MaxFaults \in Nat

VARIABLES
    row,       \* the php_applications row
    dep,       \* the php_deployments rows
    jobs,      \* River's jobs of the application that have not ended
    worker,    \* the job that holds the application's mutex in the panel
    calls,     \* calls that wait for the application's mutex in the agent
    agent,     \* the call that holds it
    releases,  \* release directories
    marker,    \* the observed-state marker
    live,      \* the release that the web server runs, 0 if none
    faults

intents == <<row, dep, jobs>>
host == <<releases, marker, live>>
vars == <<row, dep, jobs, worker, calls, agent, releases, marker, live, faults>>

Settled == 2                   \* bound: deployments before the instance starts
Id == 1..(Settled + MaxRequests)
Ref == Id \cup {0}
Rev == 0..(MaxRequests + 1)
Kind == {"deploy", "rollback", "reconcile"}
OpenStatus == {"pending", "preparing"}
Status == OpenStatus \cup {"none", "healthy", "retired", "failed", "rolled_back"}
Convergence == {"pending", "in_sync", "failed"}
Job == [kind : Kind, dep : Ref, target : Ref, rev : Rev, attempt : 1..MaxAttempts]
Request == [kind : Kind, id : Ref, prev : Ref, rev : Rev]
Outcome == {"ok", "waiting", "adopt", "error", "terminal", "expired"}
Marker == [active : Ref, prev : Ref, rev : Rev]

NoMarker == [active |-> 0, prev |-> 0, rev |-> 0]
NoJob == [kind |-> "reconcile", dep |-> 0, target |-> 0, rev |-> 0, attempt |-> 1]
NoRequest == [kind |-> "reconcile", id |-> 0, prev |-> 0, rev |-> 0]
NoWorker == [pc |-> "idle", job |-> NoJob, out |-> "ok", active |-> 0, prev |-> 0]
NoCall == [pc |-> "idle", req |-> NoRequest, lost |-> 0, was |-> 0]

Fault == faults < MaxFaults /\ faults' = faults + 1
NoFault == faults' = faults

\* enqueueTx: a job with the arguments of one that has not ended is not inserted.
Insert(js, kind, d, target, rev) ==
    IF \E j \in js : j.kind = kind /\ j.dep = d /\ j.target = target /\ j.rev = rev
      THEN js
      ELSE js \cup {[kind |-> kind, dep |-> d, target |-> target, rev |-> rev, attempt |-> 1]}

\* An application that has just become a managed one, or one with one or two
\* deployments behind it.
PInit ==
    /\ \E n \in 0..Settled :
        /\ row = [rev |-> 1, applied |-> IF n = 0 THEN 0 ELSE 1, active |-> n,
                  prev |-> IF n = 0 THEN 0 ELSE n - 1, conv |-> IF n = 0 THEN "pending" ELSE "in_sync"]
        /\ dep = [d \in Id |-> [status |-> IF d > n THEN "none" ELSE IF d = n THEN "healthy" ELSE "retired",
                                prev |-> IF d > n THEN 0 ELSE d - 1]]
        /\ jobs = IF n = 0 THEN Insert({}, "reconcile", 0, 0, 1) ELSE {}
        /\ releases = 1..n
        /\ marker = [active |-> n, prev |-> IF n = 0 THEN 0 ELSE n - 1, rev |-> IF n = 0 THEN 0 ELSE 1]
        /\ live = n
    /\ worker = NoWorker
    /\ calls = {}
    /\ agent = NoCall
    /\ faults = 0

-----------------------------------------------------------------------------
(* Requests.  Each one is a transaction that takes the row's lock, moves   *)
(* the revision on and inserts a job for it.                               *)

Newest == Cardinality({d \in Id : dep[d].status # "none"})

\* supersedeDeploymentIntentsTx.
Superseded == [d \in Id |-> [dep[d] EXCEPT !.status = IF @ \in OpenStatus THEN "failed" ELSE @]]

Advance ==
    /\ row.rev <= MaxRequests
    /\ row' = [row EXCEPT !.rev = @ + 1, !.conv = "pending"]
    /\ UNCHANGED <<worker, calls, agent, host, faults>>

Intent == [Superseded EXCEPT ![Newest + 1] = [status |-> "pending", prev |-> row.active]]

\* ConfigureApplication and RequestReconcile.
Configure ==
    /\ Advance
    /\ dep' = Superseded
    /\ jobs' = Insert(jobs, "reconcile", 0, 0, row.rev + 1)

QueueDeployment ==
    /\ Advance
    /\ dep' = Intent
    /\ jobs' = Insert(jobs, "deploy", Newest + 1, 0, row.rev + 1)

\* validateRollbackTarget.
ValidTarget(t) == t # row.active /\ dep[t].status \in {"healthy", "retired"}

\* A release outside the retained ones is refused, unless it is the previous one.
QueueRollback(t) ==
    /\ ValidTarget(t)
    /\ Newest - t < Retention \/ t = row.prev
    /\ Advance
    /\ dep' = Intent
    /\ jobs' = Insert(jobs, "rollback", Newest + 1, t, row.rev + 1)

\* Mutant of Sweep: an application in sync is never looked at again.
SweepPendingOnly ==
    /\ row.conv # "in_sync" \/ row.applied < row.rev
    /\ \A j \in jobs : ~(j.kind = "reconcile" /\ j.rev = row.rev)
    /\ jobs' = Insert(jobs, "reconcile", 0, 0, row.rev)
    /\ UNCHANGED <<row, dep, worker, calls, agent, host, faults>>

\* SweepPHPApplicationsWorker: after five minutes every managed application is
\* a candidate, in sync or not, unless its reconciliation is queued already.
\* ReconcileSiteApplication inserts the same job.
Sweep ==
    /\ \A j \in jobs : ~(j.kind = "reconcile" /\ j.rev = row.rev)
    /\ jobs' = Insert(jobs, "reconcile", 0, 0, row.rev)
    /\ UNCHANGED <<row, dep, worker, calls, agent, host, faults>>

-----------------------------------------------------------------------------
(* Jobs.                                                                   *)

\* River: a job that returns an error is tried again until its attempts are used up.
Retried(j) ==
    (jobs \ {j}) \cup IF j.attempt = MaxAttempts THEN {} ELSE {[j EXCEPT !.attempt = @ + 1]}

\* fail: recordFailure after a terminal error and on the last attempt, which
\* also ends the job, recordRetryableFailure before that.  Neither touches
\* anything once the revision has moved on.
Failed(j, terminal) ==
    LET last == terminal \/ j.attempt = MaxAttempts
        verdict == IF last THEN "failed" ELSE "pending"
    IN  /\ IF j.rev = row.rev
             THEN /\ dep' = [d \in Id |-> [dep[d] EXCEPT !.status =
                                IF d = j.dep /\ @ # "healthy" THEN verdict ELSE @]]
                  /\ row' = [row EXCEPT !.conv = verdict]
             ELSE UNCHANGED <<row, dep>>
        /\ jobs' = IF last THEN jobs \ {j} ELSE Retried(j)

\* What the worker asks of the agent: the deployment, the target of the
\* rollback, or the active deployment of the row.
RequestOf(j) ==
    [kind |-> j.kind, rev |-> j.rev,
     id |-> CASE j.kind = "deploy" -> j.dep [] j.kind = "rollback" -> j.target [] OTHER -> row.active,
     prev |-> CASE j.kind = "deploy" -> dep[j.dep].prev [] j.kind = "rollback" -> 0 [] OTHER -> row.prev]

\* The intents of j that may still be settled or claimed.
Claimable(j) == {d \in Id : d = j.dep /\ dep[d].status \in OpenStatus}
Mark(ds, status) == [d \in Id |-> IF d \in ds THEN [dep[d] EXCEPT !.status = status] ELSE dep[d]]

\* loadForWorker finds a newer revision: settleSupersededDeployment.
BeginStale(j) ==
    /\ j.rev # row.rev
    /\ dep' = Mark(Claimable(j), "failed")
    /\ jobs' = jobs \ {j}
    /\ UNCHANGED <<row, worker, calls, faults>>

\* A job whose intent is settled ends; a rollback looks at its target first.
BeginSettled(j) ==
    /\ j.rev = row.rev /\ j.kind # "reconcile"
    /\ \/ j.kind = "rollback" /\ ~ValidTarget(j.target) /\ Failed(j, FALSE)
       \/ /\ j.kind = "rollback" => ValidTarget(j.target)
          /\ Claimable(j) = {}
          /\ jobs' = jobs \ {j} /\ UNCHANGED <<row, dep>>
    /\ UNCHANGED <<worker, calls, faults>>

\* markDeploymentRunning and markRollbackRunning claim the intent, then the call.
BeginCall(j) ==
    /\ j.rev = row.rev
    /\ j.kind = "rollback" => ValidTarget(j.target)
    /\ j.kind # "reconcile" => Claimable(j) # {}
    /\ dep' = Mark(Claimable(j), "preparing")
    /\ worker' = [NoWorker EXCEPT !.pc = "waiting", !.job = j]
    /\ calls' = calls \cup {[req |-> RequestOf(j), lost |-> 0]}
    /\ UNCHANGED <<row, jobs, faults>>

\* The row, the policy or the runtimes cannot be read.
BeginFails(j) ==
    /\ Fault
    /\ j.rev = row.rev
    /\ \E terminal \in BOOLEAN : Failed(j, terminal)
    /\ UNCHANGED <<worker, calls>>

Begin(j) ==
    /\ worker.pc = "idle"
    /\ BeginStale(j) \/ BeginSettled(j) \/ BeginCall(j) \/ BeginFails(j)
    /\ UNCHANGED <<agent, host>>

\* The completing transaction found a newer revision: the intent is settled,
\* the newer revision is reconciled, and the job returns an error.
Conflict(j) ==
    /\ dep' = Mark(Claimable(j), "failed")
    /\ row' = row
    /\ jobs' = Insert(Retried(j), "reconcile", 0, 0, row.rev)

\* The job returned without error.  The panel may die before River knows.
Done(j) == (jobs' = jobs \ {j} /\ NoFault) \/ (jobs' = Retried(j) /\ Fault)

\* Mutant of TakeOver: the release that is replaced stays healthy.
TakeOverKeeps(d, others) ==
    /\ dep' = [e \in Id |-> [dep[e] EXCEPT !.status =
                  IF e = d THEN "healthy" ELSE IF e \in others THEN "rolled_back" ELSE @]]
    /\ row' = [row EXCEPT !.active = d, !.prev = row.active, !.applied = row.rev, !.conv = "in_sync"]

\* Release d took over from the row's active one.
TakeOver(d, others) ==
    /\ dep' = [e \in Id |-> [dep[e] EXCEPT !.status =
                  IF e = d THEN "healthy"
                  ELSE IF e \in others THEN "rolled_back"
                  ELSE IF e = row.active /\ @ = "healthy" THEN "retired" ELSE @]]
    /\ row' = [row EXCEPT !.active = d, !.prev = row.active, !.applied = row.rev, !.conv = "in_sync"]

\* Mutant of CompleteDeployment: the revision is not compared again.
CompleteDeploymentAnyway(j) == TakeOver(j.dep, {}) /\ Done(j)

CompleteDeployment(j) ==
    IF j.rev = row.rev THEN TakeOver(j.dep, {}) /\ Done(j) ELSE Conflict(j) /\ NoFault

CompleteRollback(j) ==
    IF j.rev = row.rev THEN TakeOver(j.target, {j.dep}) /\ Done(j) ELSE Conflict(j) /\ NoFault

\* Mutant of CompleteReconcile: the observed state is stored as the verdict.
CompleteReconcileObserved(j) ==
    /\ dep' = dep
    /\ row' = IF j.rev # row.rev THEN row ELSE [row EXCEPT !.applied = row.rev, !.conv = worker.out]
    /\ Done(j)

\* Adopts the release of the marker when the row has none, which leaves the
\* application pending, as does an application without a release.
CompleteReconcile(j) ==
    /\ IF j.rev # row.rev THEN UNCHANGED <<row, dep>>
       ELSE IF worker.out = "adopt"
         THEN /\ dep' = Mark({worker.active}, "healthy")
              /\ row' = [row EXCEPT !.active = worker.active, !.prev = worker.prev, !.conv = "pending"]
         ELSE /\ dep' = dep
              /\ row' = IF worker.out = "waiting" THEN [row EXCEPT !.conv = "pending"]
                        ELSE [row EXCEPT !.applied = row.rev, !.conv = "in_sync"]
    /\ Done(j)

Complete(j) ==
    CASE j.kind = "deploy" -> CompleteDeployment(j)
      [] j.kind = "rollback" -> CompleteRollback(j)
      [] OTHER -> CompleteReconcile(j)

\* The worker has its answer.  When its context has expired, nothing can be
\* recorded and River alone counts the attempt.
End ==
    LET j == worker.job
    IN  /\ worker.pc = "answered"
        /\ CASE worker.out = "expired" -> jobs' = Retried(j) /\ UNCHANGED <<row, dep>> /\ NoFault
             [] worker.out \in {"error", "terminal"} -> Failed(j, worker.out = "terminal") /\ NoFault
             [] OTHER -> Complete(j)
        /\ worker' = NoWorker
        /\ UNCHANGED <<calls, agent, host>>

\* The calls and the agent once nobody waits for the answer any more.
Abandoned == {[c EXCEPT !.lost = IF @ = 0 THEN faults' ELSE @] : c \in calls}
Orphaned == IF agent.pc # "idle" /\ agent.lost = 0 THEN [agent EXCEPT !.lost = faults'] ELSE agent

\* The connection breaks, or the minute that River grants a job is over.  The
\* agent has the request, or never gets it.
GiveUp ==
    /\ Fault
    /\ worker.pc = "waiting"
    /\ worker' \in {[worker EXCEPT !.pc = "answered", !.out = o] : o \in {"error", "expired"}}
    /\ calls' \in {Abandoned, {c \in calls : c.lost # 0}}
    /\ agent' = Orphaned
    /\ UNCHANGED <<intents, host>>

\* The panel dies with a job; the job is rescued and starts again later.
PanelCrash ==
    /\ Fault
    /\ worker.pc # "idle"
    /\ jobs' = Retried(worker.job)
    /\ worker' = NoWorker
    /\ calls' = Abandoned
    /\ agent' = Orphaned
    /\ UNCHANGED <<row, dep, host>>

-----------------------------------------------------------------------------
(* The agent, step by step under the application's mutex.                  *)

At(pc) == agent.pc = pc
Goto(pc) == agent' = [agent EXCEPT !.pc = pc] /\ UNCHANGED worker

Reply(lost, out, active, prev) ==
    /\ agent' = NoCall
    /\ worker' = IF lost # 0 THEN worker
                 ELSE [worker EXCEPT !.pc = "answered", !.out = out, !.active = active, !.prev = prev]

Answer(out) == Reply(agent.lost, out, 0, 0)

\* An error is a terminal one or not by its wording.
AnswerError == \E out \in {"error", "terminal"} : Answer(out)

AlreadyActive(r) == marker.active = r.id /\ marker.rev = r.rev

\* ReconcilePHPApplication for a row without an active deployment.
Observe(lost) ==
    IF marker = NoMarker THEN Reply(lost, "waiting", 0, 0)
    ELSE IF marker.active \in releases THEN Reply(lost, "adopt", marker.active, marker.prev)
    ELSE Reply(lost, "error", 0, 0)

Enter(c, pc) == agent' = [pc |-> pc, req |-> c.req, lost |-> c.lost, was |-> live] /\ UNCHANGED worker

\* The call gets the mutex, and looks at the marker and the directories.
Serve(c) ==
    LET r == c.req
    IN  /\ At("idle")
        /\ calls' = calls \ {c}
        /\ IF r.kind = "reconcile" /\ r.id = 0 THEN Observe(c.lost)
           ELSE IF r.kind # "deploy" /\ r.id \notin releases
             THEN Reply(c.lost, IF r.kind = "rollback" THEN "terminal" ELSE "error", 0, 0)
           ELSE IF r.kind # "reconcile" /\ AlreadyActive(r) THEN Reply(c.lost, "ok", 0, 0)
           ELSE Enter(c, IF r.kind = "deploy" THEN "build" ELSE "activate")
        /\ UNCHANGED <<intents, host, faults>>

\* DeployPHPRelease up to the rename of the checked candidate.  A directory
\* that is there already is an error.
Build ==
    /\ At("build")
    /\ \/ agent.req.id \in releases /\ Answer("error") /\ UNCHANGED releases /\ NoFault
       \/ agent.req.id \notin releases /\ releases' = releases \cup {agent.req.id} /\ Goto("activate") /\ NoFault
       \/ AnswerError /\ UNCHANGED releases /\ Fault
    /\ UNCHANGED <<intents, calls, marker, live>>

\* activateRelease: configuration, restart and reload, then the probes.
Activate ==
    /\ At("activate")
    /\ \/ live' = agent.req.id /\ Goto("marker") /\ NoFault
       \/ live' \in {live, agent.req.id} /\ Goto("undo") /\ Fault
    /\ UNCHANGED <<intents, calls, releases, marker>>

\* The marker comes last.
WriteMarker ==
    LET r == agent.req
    IN  /\ At("marker")
        /\ \/ /\ marker' = [active |-> r.id, rev |-> r.rev,
                            prev |-> IF r.kind = "rollback" THEN marker.active ELSE r.prev]
              /\ Goto("workers") /\ NoFault
           \/ marker' = marker /\ Goto("undo") /\ Fault
        /\ UNCHANGED <<intents, calls, releases, live>>

\* A deployment that fails takes its directory with it.
Discard == releases' = IF agent.req.kind = "deploy" THEN releases \ {agent.req.id} ELSE releases

\* The files go back and the services are restarted.  What made the activation
\* fail may make this fail, which is only reported; nothing is served from a
\* directory that is gone.
Undo ==
    /\ At("undo")
    /\ Discard
    /\ live' \in {agent.was, 0} \cup ({live} \cap releases')
    /\ AnswerError
    /\ UNCHANGED <<intents, calls, marker, faults>>

\* Mutant of RunWorkers: the directory also goes when a later step fails.
RunWorkersDiscards ==
    /\ At("workers")
    /\ \/ /\ IF agent.req.kind = "deploy" THEN Goto("prune") ELSE Answer("ok")
          /\ UNCHANGED releases /\ NoFault
       \/ AnswerError /\ Discard /\ Fault
    /\ UNCHANGED <<intents, calls, marker, live>>

\* reconcileWorkersForActive; for a reconciliation the panel asks for it with a
\* second call, which changes none of this state.  The release stays when it fails.
RunWorkers ==
    /\ At("workers")
    /\ \/ /\ IF agent.req.kind = "deploy" THEN Goto("prune") ELSE Answer("ok")
          /\ NoFault
       \/ AnswerError /\ Fault
    /\ UNCHANGED <<intents, calls, host>>

\* pruneReleases: the protected ones, and the newest others up to the retention.
Kept(protected) ==
    LET keep == protected \ {0}
        others == releases \ keep
        newer(r) == {s \in others : s > r}
    IN  (releases \cap keep) \cup {r \in others : Cardinality(newer(r)) + Cardinality(keep) < Retention}

Prune ==
    /\ At("prune")
    /\ \/ releases' = Kept({agent.req.id, agent.req.prev}) /\ Answer("ok") /\ NoFault
       \/ releases' = releases /\ AnswerError /\ Fault
    /\ UNCHANGED <<intents, calls, marker, live>>

\* The agent dies: nothing deferred runs, and its caller sees an error.
AgentCrash ==
    /\ Fault
    /\ agent' = NoCall
    /\ calls' = {}
    /\ worker' = IF worker.pc = "waiting" THEN [worker EXCEPT !.pc = "answered", !.out = "error"] ELSE worker
    /\ UNCHANGED <<intents, host>>

-----------------------------------------------------------------------------

RequestStep == Configure \/ QueueDeployment \/ \E t \in Id : QueueRollback(t)
WorkerStep == End \/ \E j \in jobs : Begin(j)
AgentStep ==
    \/ \E c \in calls : Serve(c)
    \/ Build \/ Activate \/ WriteMarker \/ Undo \/ RunWorkers \/ Prune

PNext ==
    \/ RequestStep \/ Sweep \/ WorkerStep \/ AgentStep
    \/ GiveUp \/ PanelCrash \/ AgentCrash

PSpec == PInit /\ [][PNext]_vars

\* River runs jobs, its rescuer and the periodic sweep; the agent goes on.
PFairness == WF_vars(WorkerStep) /\ WF_vars(AgentStep) /\ WF_vars(Sweep)

PFairSpec == PSpec /\ PFairness

-----------------------------------------------------------------------------
(* Properties.                                                             *)

\* The type invariant.
PTypeOK ==
    /\ row \in [rev : Rev, applied : Rev, active : Ref, prev : Ref, conv : Convergence]
    /\ dep \in [Id -> [status : Status, prev : Ref]]
    /\ jobs \subseteq Job
    /\ worker \in [pc : {"idle", "waiting", "answered"}, job : Job, out : Outcome, active : Ref, prev : Ref]
    /\ calls \subseteq [req : Request, lost : 0..MaxFaults]
    /\ agent \in [pc : {"idle", "build", "activate", "marker", "undo", "workers", "prune"},
                  req : Request, lost : 0..MaxFaults, was : Ref]
    /\ releases \subseteq Id
    /\ marker \in Marker
    /\ live \in Ref
    /\ faults \in 0..MaxFaults

\* The release that is served and the one the marker names are on disk, through
\* crashes, failed activations, pruning and calls that nobody waits for
\* (DeployPHPRelease, activateRelease and pruneReleases).
ServedIsInstalled == {live, marker.active} \subseteq releases \cup {0}

\* At any time the active deployment is the only healthy one, as the unique
\* index php_deployments_active_idx demands: no completion, adoption or failure,
\* repeated or late, runs into the index or leaves a second one behind.
OneIsHealthy == {d \in Id : dep[d].status = "healthy"} = {row.active} \ {0}

\* A release replaces the active one only for the newest intent, and only while
\* nothing newer was asked for, although the call ran without the row's lock
\* (completeDeployment, completeRollback).
NewestIntentWins ==
    [][row.active \notin {0, row'.active} =>
          /\ worker.job.dep = Newest /\ dep[Newest].status = "preparing"
          /\ row'.active \in {Newest, worker.job.target}]_vars

\* As long as the active release is on disk, the web server ends up running it:
\* after failures, and after late calls that activated something else
\* (SweepPHPApplicationsWorker and ReconcilePHPApplication).
HostFollowsPanel ==
    <>[](row.active \in releases \cup {0}) => <>[](row.active \in {0, live})

Quiet == worker.pc = "idle" /\ At("idle") /\ calls = {}

\* "Active and previous healthy releases are retained even when the plan limit
\* is lower" (internal/control/web/workspace.templ:1056), whenever neither the
\* panel nor the agent is at work on the application.
ActiveAndPreviousRetained == Quiet => {row.active, row.prev} \subseteq releases \cup {0}
=============================================================================
