----------------------- MODULE AccountConvergenceProofs -----------------------
(***************************************************************************)
(* The purge of an account is final, for any number of revisions, plans,   *)
(* faults and abandoned calls; the state keeps its types; and what a job   *)
(* acknowledges is on the host as long as no abandoned call is served.     *)
(***************************************************************************)
EXTENDS AccountConvergence, FiniteSetTheorems, TLAPS

\* What every step keeps: the subscription of an account that is being purged
\* is cancelled.
PurgeInv ==
    /\ bill \in {"active", "terminating", "terminated"}
    /\ "rev" \in DOMAIN acct
    /\ Purging => sub = "cancelled"

\* One step of the argument: the states after a purge has begun.
PurgeKept ==
    Purging => /\ bill' # "active" /\ sub' = "cancelled"
               /\ acct'.rev = acct.rev
               /\ (bill = "terminated" => bill' = "terminated")

\* The account starts active.
LEMMA PurgeInit == AInit => PurgeInv
BY Zenon DEF AInit, PurgeInv, Purging

\* Requests that change the intent do nothing once the purge has begun, save for
\* the status of the customer (customers.go, LockSubscriptionMutationTx).
LEMMA IntentSteps ==
    ASSUME PurgeInv,
           PanelStatus \/ LifecycleCheck \/ LifecycleApply \/ SetCustomer \/ ChangePlan \/ Purge
    PROVE  PurgeInv' /\ PurgeKept
<1> USE DEF PurgeInv, PurgeKept, Purging
<1>1. ASSUME NEW s, SetStatus(s) PROVE PurgeInv' /\ PurgeKept
  BY Zenon, <1>1 DEF SetStatus, Mutable, Enqueue
<1>2. CASE PanelStatus
  BY Zenon, <1>1, <1>2 DEF PanelStatus
<1>3. CASE LifecycleCheck
  BY Zenon, <1>3 DEF LifecycleCheck, intent
<1>4. CASE LifecycleApply
  <2>1. CASE Mutable
    BY Zenon, <1>1, <1>4, <2>1 DEF LifecycleApply
  <2>2. CASE ~Mutable
    BY Zenon, <1>4, <2>2 DEF LifecycleApply, intent
  <2> QED BY Zenon, <2>1, <2>2
<1>5. CASE SetCustomer
  BY Zenon, <1>5 DEF SetCustomer, Enqueue
<1>6. CASE ChangePlan
  BY Zenon, <1>6 DEF ChangePlan, Mutable, Enqueue
<1>7. CASE Purge
  BY Zenon, <1>7 DEF Purge
<1> QED BY Zenon, <1>2, <1>3, <1>4, <1>5, <1>6, <1>7

\* A converge_subscription job writes the account's row and leaves its desired
\* revision alone (account_lifecycle.go, updateAccountConvergenceTx).
LEMMA JobSteps ==
    ASSUME PurgeInv, NEW r \in Rev, Step(r) \/ Fault(r)
    PROVE  PurgeInv' /\ PurgeKept
<1> USE DEF PurgeInv, PurgeKept, Purging
<1>1. CASE Mark(r)
  BY Zenon, <1>1 DEF Mark, intent
<1>2. CASE Start(r) \/ Lock(r) \/ LoadAccount(r) \/ LoadContent(r) \/ Shutdown(r) \/ Prepare(r)
  BY Zenon, <1>2 DEF Start, Lock, LoadAccount, LoadContent, Shutdown, Prepare, intent
<1>3. CASE Ensure(r) \/ Activate(r) \/ Services(r) \/ Finish(r) \/ Rescue(r)
  BY Zenon, <1>3 DEF Ensure, Activate, Services, Finish, Rescue, intent
<1>4. CASE Fault(r)
  BY Zenon, <1>4 DEF Fault, ShutdownFails, EnsureFails, EnsureAbandoned, ActivateFails,
              ServicesFail, QueryFails, intent
<1> QED BY Zenon, <1>1, <1>2, <1>3, <1>4 DEF Step

\* The sweep, the teardown job, crashes and abandoned calls.
LEMMA OtherSteps ==
    ASSUME PurgeInv,
           \/ SweepRead \/ SweepInsert \/ TdStep \/ TdFails \/ TdAbandoned
           \/ Crash \/ ServeLate
    PROVE  PurgeInv' /\ PurgeKept
<1> USE DEF PurgeInv, PurgeKept, Purging
<1>1. CASE TdFinal
  BY Zenon, <1>1 DEF TdFinal
<1>2. CASE TdStart \/ TdSettled \/ TdCheck \/ TdCancel \/ TdCall \/ TdFinish \/ TdRescue
  BY Zenon, <1>2 DEF TdStart, TdSettled, TdCheck, TdCancel, TdCall, TdFinish, TdRescue, intent
<1>3. CASE TdFails \/ TdAbandoned \/ Crash \/ ServeLate \/ SweepRead \/ SweepInsert
  BY Zenon, <1>3 DEF TdFails, TdAbandoned, Crash, ServeLate, SweepRead, SweepInsert, intent
<1> QED BY Zenon, <1>1, <1>2, <1>3 DEF TdStep

\* Every step keeps the invariant and what a purge may never lose.
LEMMA PurgeStep == PurgeInv /\ [ANext]_vars => PurgeInv' /\ [PurgeKept]_vars
<1> SUFFICES ASSUME PurgeInv, [ANext]_vars PROVE PurgeInv' /\ [PurgeKept]_vars
  BY Zenon
<1>1. CASE ANext
  BY Zenon, <1>1, IntentSteps, JobSteps, OtherSteps DEF ANext
<1>2. CASE UNCHANGED vars
  BY Zenon, <1>2 DEF vars, PurgeInv, Purging
<1> QED BY Zenon, <1>1, <1>2

\* However many revisions are requested and whatever fails, a purge that has
\* begun is never undone: not by a request that was checked before it, a job, the
\* sweep or a late agent call (LockSubscriptionMutationTx, TeardownAccountWorker).
THEOREM PurgesAreFinal == ASpec => PurgeIsFinal
<1>1. PurgeInv /\ [ANext]_vars => [PurgeKept]_vars
  BY Zenon, PurgeStep
<1>2. PurgeInv /\ [ANext]_vars => PurgeInv'
  BY Zenon, PurgeStep
<1> QED BY PurgeInit, <1>1, <1>2, PTL DEF ASpec, PurgeIsFinal, PurgeKept
-----------------------------------------------------------------------------
(* Types *)

\* Labels of a job that holds the subscription's mutex, and all labels.
Holding == {"load", "content", "shutdown", "prepare", "ensure", "activate", "services",
            "done", "failed"}
Label == Holding \cup {"idle", "lock", "nil", "error"}
Snapshot == [rev : 0..MaxRev, state : Lifecycle, plan : Plan \cup {NoPlan},
             site : BOOLEAN, cand : BOOLEAN]
AccountRow == [want : Lifecycle \cup {"terminated"}, rev : Rev,
               applied : Lifecycle \cup {"terminated", "failed"}, appliedRev : Rev,
               conv : {"in_sync", "pending", "failed"}]
TeardownJob == [st : {"none", "queued", "running", "stuck"}, att : 0..PurgeAttempts,
                pc : {"idle", "check", "cancel", "recheck", "call", "final", "end"}]
HostState == [acc : BOOLEAN, site : Lifecycle \cup {"none"}, plan : Plan \cup {NoPlan},
              svc : Lifecycle \cup {"none"}, cache : Lifecycle \cup {"none"}, gone : BOOLEAN,
              stray : BOOLEAN]

\* The intent; a state "terminated" is never read by a job, because the
\* subscription of a purged account is cancelled.
IntentOK ==
    /\ sub \in Lifecycle \cup {"cancelled"}
    /\ cust \in Lifecycle
    /\ bill \in {"active", "terminating", "terminated"}
    /\ acct \in AccountRow
    /\ plan \in Plan /\ rows \in BOOLEAN
    /\ api \in Lifecycle \cup {"none"} /\ sweep \in 0..MaxRev
    /\ Purging => sub = "cancelled"
    /\ acct.want = "terminated" => bill = "terminated"

\* The jobs: one that runs has a label, one that is queued has an attempt left,
\* and one past the load of the contents has a plan in its snapshot.
JobsOK ==
    /\ job \in [Rev -> [st : {"none", "queued", "running", "stuck"}, att : 0..MaxAttempts]]
    /\ pc \in [Rev -> Label]
    /\ snap \in [Rev -> Snapshot]
    /\ mutex \in 0..MaxRev
    /\ gen \in [Plan -> {"none", "candidate", "active", "retired", "failed"}]
    /\ \A r \in Rev : (pc[r] # "idle") <=> (job[r].st = "running")
    /\ \A r \in Rev : job[r].st = "queued" => job[r].att < MaxAttempts
    /\ \A r \in Rev : pc[r] \in Holding \ {"load", "content"} => snap[r].plan \in Plan

TeardownOK ==
    /\ td \in TeardownJob
    /\ td.st = "queued" => td.att < PurgeAttempts

HostOK ==
    /\ host \in HostState
    /\ late \subseteq Snapshot \cup {TeardownCall}
    /\ IsFiniteSet(late) /\ Cardinality(late) <= MaxLate
    /\ faults \in 0..MaxFaults

TInv == IntentOK /\ JobsOK /\ TeardownOK /\ HostOK

\* The bounds as numbers.
LEMMA Bounds ==
    /\ MaxRev \in Nat /\ MaxRev > 0 /\ MaxAttempts \in Nat /\ MaxAttempts > 0
    /\ PurgeAttempts \in Nat /\ PurgeAttempts > 0 /\ MaxFaults \in Nat /\ MaxLate \in Nat
    /\ Rev \subseteq Nat \ {0}
BY AccountAssumption DEF Rev

\* What the constants of the model are.
LEMMA Constants ==
    /\ NoSnap \in Snapshot
    /\ NoJob \in [st : {"none", "queued", "running", "stuck"}, att : 0..MaxAttempts]
    /\ Queued \in [st : {"none", "queued", "running", "stuck"}, att : 0..MaxAttempts]
    /\ NoJob.st = "none" /\ Queued.st = "queued" /\ Queued.att < MaxAttempts
    /\ Removed \in HostState
BY Bounds DEF NoSnap, NoJob, Queued, Removed, Snapshot, HostState, Lifecycle

\* The model starts in a typed state.
LEMMA TypesInit == AInit => TInv
<1> SUFFICES ASSUME AInit PROVE TInv
  BY Zenon
<1> USE Bounds, Constants DEF AInit
<1>1. IntentOK
  BY DEF IntentOK, AccountRow, Lifecycle, Rev, Purging
<1>2. JobsOK
  BY DEF JobsOK, Label, Holding
<1>3. TeardownOK
  BY DEF TeardownOK, TeardownJob
<1>4. HostOK
  <2>1. IsFiniteSet({}) /\ Cardinality({}) = 0
    BY Zenon, FS_EmptySet
  <2>2. host \in HostState
    BY Zenon DEF HostState, Lifecycle
  <2> QED BY <2>1, <2>2 DEF HostOK
<1> QED BY Zenon, <1>1, <1>2, <1>3, <1>4 DEF TInv
\* What the parts of the invariant are about.
LEMMA TypesFrame ==
    /\ IntentOK /\ UNCHANGED <<intent, acct, api, sweep>> => IntentOK'
    /\ JobsOK /\ UNCHANGED <<gen, job, pc, snap, mutex>> => JobsOK'
    /\ TeardownOK /\ UNCHANGED td => TeardownOK'
    /\ HostOK /\ UNCHANGED <<host, late, faults>> => HostOK'
    /\ HostOK /\ UNCHANGED <<host, late>> /\ faults < MaxFaults /\ faults' = faults + 1 => HostOK'
<1>1. IntentOK /\ UNCHANGED <<intent, acct, api, sweep>> => IntentOK'
  BY Zenon DEF IntentOK, intent, Purging
<1>2. JobsOK /\ UNCHANGED <<gen, job, pc, snap, mutex>> => JobsOK'
  BY Zenon DEF JobsOK
<1>3. TeardownOK /\ UNCHANGED td => TeardownOK'
  BY Zenon DEF TeardownOK
<1>4. HostOK /\ UNCHANGED <<host, late, faults>> => HostOK'
  BY Zenon DEF HostOK
<1>5. HostOK /\ UNCHANGED <<host, late>> /\ faults < MaxFaults /\ faults' = faults + 1 => HostOK'
  BY Bounds DEF HostOK
<1> QED BY Zenon, <1>1, <1>2, <1>3, <1>4, <1>5

\* A job may be queued at any time (river's insert, unique by revision).
LEMMA InsertTyped ==
    ASSUME JobsOK, NEW q \in Rev, job' = Insert(job, q), UNCHANGED <<gen, pc, snap, mutex>>
    PROVE  JobsOK'
BY Zenon, Constants DEF JobsOK, Insert

\* Requests that change the intent.
LEMMA IntentTypes ==
    ASSUME TInv,
           PanelStatus \/ LifecycleCheck \/ LifecycleApply \/ SetCustomer \/ ChangePlan \/ Purge
    PROVE  TInv'
<1>1. ASSUME NEW w \in Lifecycle \cup {"terminated"}, Enqueue(w), UNCHANGED <<gen, work>>
      PROVE  JobsOK' /\ acct' \in AccountRow /\ acct'.want = w
  <2>1. acct.rev \in Rev /\ acct.rev < MaxRev
    BY Zenon, <1>1 DEF TInv, IntentOK, Enqueue, AccountRow
  <2>2. acct.rev + 1 \in Rev
    BY <2>1, Bounds DEF Rev
  <2>3. JobsOK'
    BY Zenon, <1>1, <2>2, InsertTyped DEF TInv, Enqueue, work
  <2>4. acct' \in AccountRow /\ acct'.want = w
    BY Zenon, <1>1, <2>2 DEF TInv, IntentOK, Enqueue, AccountRow
  <2> QED BY Zenon, <2>3, <2>4
<1>2. ASSUME NEW s \in Lifecycle \cup {"cancelled"}, SetStatus(s), api' \in Lifecycle \cup {"none"}
      PROVE  TInv'
  <2>1. PICK w \in Lifecycle : Enqueue(w)
    BY Zenon, <1>2 DEF SetStatus, Lifecycle
  <2>2. JobsOK' /\ acct' \in AccountRow /\ acct'.want = w
    BY Zenon, <1>1, <1>2, <2>1 DEF SetStatus
  <2>3. IntentOK'
    BY <1>2, <2>2, Zenon DEF SetStatus, IntentOK, TInv, Mutable, Purging, Lifecycle
  <2> QED BY <1>2, <2>2, <2>3, TypesFrame, Zenon DEF TInv, SetStatus
<1>3. CASE PanelStatus
  BY Zenon, <1>2, <1>3 DEF PanelStatus, TInv, IntentOK
<1>4. CASE LifecycleCheck
  <2>1. IntentOK'
    BY Zenon, <1>4 DEF LifecycleCheck, TInv, IntentOK, intent, Purging
  <2> QED BY Zenon, <1>4, <2>1, TypesFrame DEF LifecycleCheck, TInv, work
<1>5. CASE LifecycleApply
  <2>1. CASE Mutable
    BY Zenon, <1>2, <1>5, <2>1 DEF LifecycleApply, TInv, IntentOK
  <2>2. CASE ~Mutable
    <3>1. IntentOK'
      BY Zenon, <1>5, <2>2 DEF LifecycleApply, TInv, IntentOK, intent, Purging
    <3> QED BY Zenon, <1>5, <2>2, <3>1, TypesFrame DEF LifecycleApply, TInv, work
  <2> QED BY Zenon, <2>1, <2>2
<1>6. CASE SetCustomer
  <2>1. CASE bill = "terminated"
    <3>1. IntentOK'
      BY Zenon, <1>6, <2>1 DEF SetCustomer, TInv, IntentOK, Purging
    <3> QED BY Zenon, <1>6, <2>1, <3>1, TypesFrame DEF SetCustomer, TInv, work
  <2>2. CASE bill # "terminated"
    <3>1. acct.want \in Lifecycle \cup {"terminated"} /\ Enqueue(acct.want)
      BY Zenon, <1>6, <2>2 DEF SetCustomer, TInv, IntentOK, AccountRow
    <3>2. JobsOK' /\ acct' \in AccountRow /\ acct'.want = acct.want
      BY <1>1, <1>6, <3>1, Zenon DEF SetCustomer
    <3>3. IntentOK'
      BY <1>6, <2>2, <3>2, Zenon DEF SetCustomer, TInv, IntentOK, Purging
    <3> QED BY <1>6, <3>2, <3>3, TypesFrame, Zenon DEF SetCustomer, TInv
  <2> QED BY Zenon, <2>1, <2>2
<1>7. CASE ChangePlan
  <2>1. acct.want \in Lifecycle \cup {"terminated"} /\ Enqueue(acct.want)
    BY Zenon, <1>7 DEF ChangePlan, TInv, IntentOK, AccountRow
  <2>2. JobsOK' /\ acct' \in AccountRow /\ acct'.want = acct.want
    BY <1>1, <1>7, <2>1, Zenon DEF ChangePlan
  <2>3. IntentOK'
    BY <1>7, <2>2, Zenon DEF ChangePlan, TInv, IntentOK, Purging, Mutable
  <2> QED BY <1>7, <2>2, <2>3, TypesFrame, Zenon DEF ChangePlan, TInv
<1>8. CASE Purge
  <2>1. IntentOK'
    BY Zenon, <1>8 DEF Purge, TInv, IntentOK, Purging
  <2>2. TeardownOK
    BY Zenon DEF TInv
  <2>3. TeardownOK'
    <3>1. CASE td.st = "none"
      <4>1. td' = [td EXCEPT !.st = "queued", !.att = 0] /\ 0 \in 0..PurgeAttempts
        BY <1>8, <3>1, Bounds DEF Purge
      <4>2. td' \in TeardownJob /\ td'.att = 0
        BY Zenon, <2>2, <4>1 DEF TeardownOK, TeardownJob
      <4> QED BY Zenon, <4>2, Bounds DEF TeardownOK
    <3>2. CASE td.st # "none"
      BY <1>8, <2>2, <3>2, TypesFrame, Zenon DEF Purge
    <3> QED BY Zenon, <3>1, <3>2
  <2> QED BY <1>8, <2>1, <2>3, TypesFrame, Zenon DEF Purge, TInv, work
<1> QED BY Zenon, <1>3, <1>4, <1>5, <1>6, <1>7, <1>8
\* A job that runs moves on to another label.
LEMMA MoveTyped ==
    ASSUME JobsOK, NEW r \in Rev, pc[r] # "idle", NEW l \in Label \ {"idle"},
           pc' = [pc EXCEPT ![r] = l], UNCHANGED job,
           NEW s \in Snapshot, snap' = [snap EXCEPT ![r] = s],
           l \in Holding \ {"load", "content"} => s.plan \in Plan,
           mutex' \in 0..MaxRev,
           gen' \in [Plan -> {"none", "candidate", "active", "retired", "failed"}]
    PROVE  JobsOK'
<1>1. snap' \in [Rev -> Snapshot] /\ pc' \in [Rev -> Label]
  BY Zenon DEF JobsOK
<1>2. \A q \in Rev : (pc'[q] # "idle") <=> (job'[q].st = "running")
  BY Zenon DEF JobsOK
<1>3. \A q \in Rev : pc'[q] \in Holding \ {"load", "content"} => snap'[q].plan \in Plan
  BY Zenon DEF JobsOK
<1> QED BY <1>1, <1>2, <1>3, Zenon DEF JobsOK

\* What becomes of a job that ends.
LEMMA EndedTyped ==
    ASSUME NEW j \in [st : {"none", "queued", "running", "stuck"}, att : 0..MaxAttempts],
           NEW err \in BOOLEAN
    PROVE  LET e == Ended(j, err, MaxAttempts)
           IN  /\ e \in [st : {"none", "queued", "running", "stuck"}, att : 0..MaxAttempts]
               /\ e.st # "running"
               /\ e.st = "queued" => e.att < MaxAttempts
BY Bounds DEF Ended, NoJob

\* A job that runs ends.
LEMMA EndTyped ==
    ASSUME JobsOK, NEW r \in Rev, NEW err \in BOOLEAN,
           job' = [job EXCEPT ![r] = Ended(@, err, MaxAttempts)],
           pc' = [pc EXCEPT ![r] = "idle"],
           NEW s \in Snapshot, snap' = [snap EXCEPT ![r] = s],
           mutex' \in 0..MaxRev, UNCHANGED gen
    PROVE  JobsOK'
<1>1. PICK e : e = Ended(job[r], err, MaxAttempts)
  BY Zenon
<1>2. /\ e \in [st : {"none", "queued", "running", "stuck"}, att : 0..MaxAttempts]
      /\ e.st # "running"
      /\ e.st = "queued" => e.att < MaxAttempts
  <2>1. job[r] \in [st : {"none", "queued", "running", "stuck"}, att : 0..MaxAttempts]
    BY Zenon DEF JobsOK
  <2> QED BY Zenon, <1>1, <2>1, EndedTyped
<1>3. job' = [job EXCEPT ![r] = e]
  BY Zenon, <1>1 DEF JobsOK
<1>4. /\ job' \in [Rev -> [st : {"none", "queued", "running", "stuck"}, att : 0..MaxAttempts]]
      /\ snap' \in [Rev -> Snapshot] /\ pc' \in [Rev -> Label]
  BY <1>2, <1>3 DEF JobsOK, Label
<1>5. /\ \A q \in Rev : (pc'[q] # "idle") <=> (job'[q].st = "running")
      /\ \A q \in Rev : job'[q].st = "queued" => job'[q].att < MaxAttempts
  BY Zenon, <1>2, <1>3 DEF JobsOK
<1>6. \A q \in Rev : pc'[q] \in Holding \ {"load", "content"} => snap'[q].plan \in Plan
  BY Zenon DEF JobsOK, Holding
<1> QED BY <1>4, <1>5, <1>6, Zenon DEF JobsOK

\* The agent's calls leave a host state.
LEMMA HostTyped ==
    ASSUME NEW h \in HostState, NEW s \in Snapshot
    PROVE  /\ EnsureOn(h, s) \in HostState
           /\ ServicesOn(h, s) \in HostState
           /\ [h EXCEPT !.cache = s.state] \in HostState
           /\ [h EXCEPT !.svc = s.state] \in HostState
BY Zenon DEF EnsureOn, ServicesOn, HostState, Snapshot, Lifecycle

\* A snapshot that was replaced field by field.
LEMMA SnapTyped ==
    ASSUME NEW s \in Snapshot, NEW p \in Plan, NEW b \in BOOLEAN
    PROVE  /\ [s EXCEPT !.plan = p, !.site = b] \in Snapshot
           /\ [s EXCEPT !.plan = p, !.site = b].plan = p
           /\ [s EXCEPT !.cand = b] \in Snapshot
           /\ [s EXCEPT !.cand = b].plan = s.plan
BY Zenon DEF Snapshot
\* The steps of a job that read, prepare and acknowledge.
LEMMA StepTypes ==
    ASSUME TInv, NEW r \in Rev, Step(r)
    PROVE  TInv'
<1>1. /\ IntentOK /\ JobsOK /\ TeardownOK /\ HostOK
      /\ snap[r] \in Snapshot /\ host \in HostState /\ mutex \in 0..MaxRev
      /\ pc[r] \in Label /\ r \in 0..MaxRev
      /\ gen \in [Plan -> {"none", "candidate", "active", "retired", "failed"}]
      /\ snap = [snap EXCEPT ![r] = snap[r]]
  BY Bounds DEF TInv, JobsOK, HostOK, Rev
<1>2. CASE Start(r)
  <2>1. PICK j : j = [st |-> "running", att |-> job[r].att + 1]
    BY Zenon
  <2>2. j \in [st : {"none", "queued", "running", "stuck"}, att : 0..MaxAttempts]
        /\ j.st = "running"
    BY <1>1, <1>2, <2>1, Bounds DEF Start, JobsOK
  <2>3. job' = [job EXCEPT ![r] = j] /\ pc' = [pc EXCEPT ![r] = "lock"]
    BY Zenon, <1>2, <2>1 DEF Start, TInv, JobsOK
  <2>4. JobsOK'
    BY <1>1, <1>2, <2>2, <2>3 DEF Start, JobsOK, Label, Holding
  <2> QED BY <1>1, <1>2, <2>4, TypesFrame, Zenon DEF Start, TInv
<1>3. CASE Lock(r)
  <2>1. JobsOK'
    <3>1. "load" \in Label \ {"idle"} /\ "load" \notin Holding \ {"load", "content"}
      BY Zenon DEF Label, Holding
    <3> QED BY Zenon, <1>1, <1>3, <3>1, MoveTyped DEF Lock
  <2> QED BY <1>1, <1>3, <2>1, TypesFrame, Zenon DEF Lock, TInv
<1>4. CASE LoadAccount(r)
  <2>1. PICK s : s = [rev |-> acct.rev, state |-> Effective, plan |-> NoPlan,
                      site |-> FALSE, cand |-> FALSE]
    BY Zenon
  <2>2. s \in Snapshot
    <3>1. acct.rev \in 0..MaxRev
      BY <1>1, Bounds DEF IntentOK, AccountRow, Rev
    <3>2. Effective \in Lifecycle
      BY Zenon, <1>1 DEF IntentOK, AccountRow, Effective, Purging, Lifecycle
    <3> QED BY Zenon, <2>1, <3>1, <3>2 DEF Snapshot
  <2>3. "content" \in Label \ {"idle"} /\ "content" \notin Holding \ {"load", "content"}
    BY Zenon DEF Label, Holding
  <2>4. JobsOK'
    BY Zenon, <1>1, <1>4, <2>1, <2>2, <2>3, MoveTyped DEF LoadAccount
  <2> QED BY <1>1, <1>4, <2>4, TypesFrame, Zenon DEF LoadAccount, TInv
<1>5. CASE LoadContent(r)
  <2>1. PICK s : s = [snap[r] EXCEPT !.plan = plan, !.site = rows]
    BY Zenon
  <2>2. s \in Snapshot /\ s.plan \in Plan
    <3>1. plan \in Plan /\ rows \in BOOLEAN
      BY Zenon, <1>1 DEF IntentOK
    <3> QED BY <1>1, <2>1, <3>1, SnapTyped, Zenon
  <2>3. snap' = [snap EXCEPT ![r] = s]
    BY Zenon, <1>5, <2>1 DEF LoadContent, TInv, JobsOK
  <2>4. PICK l : l \in {"prepare", "shutdown"} /\ pc' = [pc EXCEPT ![r] = l]
    BY Zenon, <1>5 DEF LoadContent
  <2>5. l \in Label \ {"idle"}
    BY Zenon, <2>4 DEF Label, Holding
  <2>6. JobsOK'
    BY Zenon, <1>1, <1>5, <2>2, <2>3, <2>4, <2>5, MoveTyped DEF LoadContent
  <2> QED BY <1>1, <1>5, <2>6, TypesFrame, Zenon DEF LoadContent, TInv
<1>6. ASSUME NEW l \in Label \ {"idle"}, pc[r] \in Holding \ {"load", "content"},
             pc' = [pc EXCEPT ![r] = l], UNCHANGED <<job, snap, mutex>>,
             gen' \in [Plan -> {"none", "candidate", "active", "retired", "failed"}]
      PROVE  JobsOK'
  <2>1. pc[r] # "idle" /\ snap[r].plan \in Plan
    BY Zenon, <1>1, <1>6 DEF Holding, JobsOK
  <2> QED BY Zenon, <1>1, <1>6, <2>1, MoveTyped
<1>7. ASSUME NEW h \in HostState, host' = h, UNCHANGED <<late, faults>> PROVE HostOK'
  BY <1>1, <1>7, Zenon DEF HostOK
<1>8. {"prepare", "ensure", "activate", "services", "done", "failed", "nil", "error"}
      \subseteq Label \ {"idle"}
  BY Zenon DEF Label, Holding
<1>9. {"shutdown", "prepare", "ensure", "activate", "services", "done", "failed"}
      \subseteq Holding \ {"load", "content"}
  BY Zenon DEF Holding
<1>10. CASE Shutdown(r)
  <2>1. JobsOK'
    BY Zenon, <1>1, <1>6, <1>8, <1>9, <1>10 DEF Shutdown
  <2>2. HostOK'
    BY Zenon, <1>1, <1>7, <1>10, HostTyped DEF Shutdown
  <2> QED BY <1>1, <1>10, <2>1, <2>2, TypesFrame, Zenon DEF Shutdown, TInv
<1>11. CASE Prepare(r)
  <2>1. CASE job' = [job EXCEPT ![r] = Ended(@, TRUE, MaxAttempts)] /\ Leave(r) /\ UNCHANGED gen
    <3>1. JobsOK'
      <4>1. NoSnap \in Snapshot /\ 0 \in 0..MaxRev /\ TRUE \in BOOLEAN
        BY Constants, Bounds
      <4> QED BY Zenon, <1>1, <2>1, <4>1, EndTyped DEF Leave
    <3> QED BY <1>1, <1>11, <3>1, TypesFrame, Zenon DEF Prepare, TInv
  <2>2. CASE /\ gen' = IF snap[r].site /\ ~(gen[snap[r].plan] \in {"candidate", "active"})
                       THEN [gen EXCEPT ![snap[r].plan] = "candidate"] ELSE gen
             /\ snap' = [snap EXCEPT ![r].cand = snap[r].site /\ gen[snap[r].plan] # "active"]
             /\ pc' = [pc EXCEPT ![r] = "ensure"]
             /\ UNCHANGED <<job, mutex>>
    <3>1. pc[r] # "idle" /\ snap[r].plan \in Plan
      BY Zenon, <1>1, <1>9, <1>11 DEF JobsOK, Prepare
    <3>2. PICK b \in BOOLEAN : b = (snap[r].site /\ gen[snap[r].plan] # "active")
      BY Zenon
    <3>3. PICK s : s = [snap[r] EXCEPT !.cand = b]
      BY Zenon
    <3>4. s \in Snapshot /\ s.plan \in Plan
      BY Zenon, <1>1, <3>1, <3>3, SnapTyped
    <3>5. snap' = [snap EXCEPT ![r] = s]
      BY <1>1, <2>2, <3>2, <3>3, Zenon
    <3>6. gen' \in [Plan -> {"none", "candidate", "active", "retired", "failed"}]
      BY Zenon, <1>1, <2>2, <3>1
    <3>7. JobsOK'
      BY Zenon, <1>1, <1>8, <2>2, <3>1, <3>4, <3>5, <3>6, MoveTyped
    <3> QED BY <1>1, <1>11, <3>7, TypesFrame, Zenon DEF Prepare, TInv
  <2> QED BY <1>11, <2>1, <2>2, Zenon DEF Prepare
<1>12. CASE Ensure(r)
  <2>1. JobsOK'
    BY Zenon, <1>1, <1>6, <1>8, <1>9, <1>12 DEF Ensure
  <2>2. HostOK'
    BY Zenon, <1>1, <1>7, <1>12, HostTyped DEF Ensure
  <2> QED BY <1>1, <1>12, <2>1, <2>2, TypesFrame, Zenon DEF Ensure, TInv
<1>13. CASE Activate(r)
  <2>1. gen' \in [Plan -> {"none", "candidate", "active", "retired", "failed"}]
    BY Zenon, <1>1, <1>13 DEF Activate
  <2>2. PICK l : l \in {"services", "failed"} /\ pc' = [pc EXCEPT ![r] = l]
    BY Zenon, <1>13 DEF Activate
  <2>3. JobsOK'
    BY Zenon, <1>1, <1>6, <1>8, <1>9, <1>13, <2>1, <2>2 DEF Activate
  <2> QED BY <1>1, <1>13, <2>3, TypesFrame, Zenon DEF Activate, TInv
<1>14. CASE Services(r)
  <2>1. PICK l : l \in {"done", "failed"} /\ pc' = [pc EXCEPT ![r] = l]
    BY Zenon, <1>14 DEF Services
  <2>2. JobsOK'
    BY Zenon, <1>1, <1>6, <1>8, <1>9, <1>14, <2>1 DEF Services
  <2>3. HostOK'
    BY Zenon, <1>1, <1>7, <1>14, HostTyped DEF Services
  <2> QED BY <1>1, <1>14, <2>2, <2>3, TypesFrame, Zenon DEF Services, TInv
<1>15. CASE Mark(r)
  <2>1. acct' \in AccountRow /\ acct'.want = acct.want
    <3>1. CASE Acks(r)
      <4>1. snap[r].rev \in Rev /\ snap[r].state \in Lifecycle
        BY Zenon, <1>1, <3>1 DEF Acks, IntentOK, AccountRow, Snapshot
      <4> QED BY Zenon, <1>1, <1>15, <3>1, <4>1 DEF Mark, IntentOK, AccountRow, Lifecycle
    <3>2. CASE ~Acks(r)
      BY Zenon, <1>1, <1>15, <3>2 DEF Mark, IntentOK
    <3> QED BY Zenon, <3>1, <3>2
  <2>2. IntentOK'
    BY <1>1, <1>15, <2>1, Zenon DEF Mark, IntentOK, intent, Purging
  <2>3. PICK l : l \in {"nil", "error"} /\ pc' = [pc EXCEPT ![r] = l]
    BY Zenon, <1>15 DEF Mark
  <2>4. PICK j : j \in {job, Insert(job, acct.rev)} /\ job' = j
    BY Zenon, <1>15 DEF Mark
  <2>5. /\ j \in [Rev -> [st : {"none", "queued", "running", "stuck"}, att : 0..MaxAttempts]]
        /\ \A q \in Rev : (pc[q] # "idle") <=> (j[q].st = "running")
        /\ \A q \in Rev : j[q].st = "queued" => j[q].att < MaxAttempts
    <3>1. acct.rev \in Rev
      BY Zenon, <1>1 DEF IntentOK, AccountRow
    <3> QED BY <1>1, <2>4, <3>1, Constants DEF JobsOK, Insert
  <2>6. pc[r] # "idle" /\ l # "idle" /\ l \notin Holding /\ l \in Label
    BY Zenon, <1>15, <2>3 DEF Mark, Label, Holding
  <2>7. JobsOK'
    <3>1. snap' = [snap EXCEPT ![r] = NoSnap] /\ mutex' = 0 /\ gen' = gen
      BY Zenon, <1>15 DEF Mark
    <3>2. /\ snap' \in [Rev -> Snapshot] /\ pc' \in [Rev -> Label] /\ mutex' \in 0..MaxRev
          /\ gen' \in [Plan -> {"none", "candidate", "active", "retired", "failed"}]
      BY <1>1, <2>3, <2>6, <3>1, Constants, Bounds DEF JobsOK
    <3>3. /\ \A q \in Rev : (pc'[q] # "idle") <=> (job'[q].st = "running")
          /\ \A q \in Rev : pc'[q] \in Holding \ {"load", "content"} => snap'[q].plan \in Plan
      BY Zenon, <1>1, <2>3, <2>4, <2>5, <2>6, <3>1 DEF JobsOK
    <3> QED BY <2>4, <2>5, <3>2, <3>3, Zenon DEF JobsOK
  <2> QED BY <1>1, <1>15, <2>2, <2>7, TypesFrame, Zenon DEF Mark, TInv
<1>16. CASE Finish(r)
  <2>1. JobsOK'
    BY Zenon, <1>1, <1>16, EndTyped DEF Finish
  <2> QED BY <1>1, <1>16, <2>1, TypesFrame, Zenon DEF Finish, TInv
<1>17. CASE Rescue(r)
  <2>1. pc = [pc EXCEPT ![r] = "idle"]
    BY Zenon, <1>1, <1>17 DEF Rescue, JobsOK
  <2>2. JobsOK'
    BY Zenon, <1>1, <1>17, <2>1, EndTyped DEF Rescue, work
  <2> QED BY <1>1, <1>17, <2>2, TypesFrame, Zenon DEF Rescue, TInv, work
<1> QED BY Zenon, <1>2, <1>3, <1>4, <1>5, <1>10, <1>11, <1>12, <1>13, <1>14, <1>15, <1>16, <1>17 DEF Step
\* A call is left at the agent.
LEMMA LateAdded ==
    ASSUME HostOK, Cardinality(late) < MaxLate, NEW s \in Snapshot \cup {TeardownCall},
           late' = late \cup {s}, UNCHANGED host, faults < MaxFaults, faults' = faults + 1
    PROVE  HostOK'
<1>1. IsFiniteSet(late) /\ Cardinality(late) \in Nat
  BY Zenon, FS_CardinalityType DEF HostOK
<1>2. IsFiniteSet(late') /\ Cardinality(late') <= Cardinality(late) + 1
  <2>1. /\ IsFiniteSet(late \cup {s})
        /\ Cardinality(late \cup {s}) = IF s \in late THEN Cardinality(late)
                                                     ELSE Cardinality(late) + 1
    BY Zenon, <1>1, FS_AddElement
  <2> QED BY <1>1, <2>1
<1>3. IsFiniteSet(late') /\ Cardinality(late') \in Nat
  BY Zenon, <1>2, FS_CardinalityType
<1>4. Cardinality(late') <= MaxLate /\ faults' \in 0..MaxFaults
  BY <1>1, <1>2, <1>3, Bounds DEF HostOK
<1> QED BY <1>3, <1>4, Zenon DEF HostOK

\* The steps in which a job meets a fault.
LEMMA FaultTypes ==
    ASSUME TInv, NEW r \in Rev, Fault(r)
    PROVE  TInv'
<1>1. /\ IntentOK /\ JobsOK /\ TeardownOK /\ HostOK
      /\ snap[r] \in Snapshot /\ host \in HostState /\ mutex \in 0..MaxRev
      /\ gen \in [Plan -> {"none", "candidate", "active", "retired", "failed"}]
      /\ snap = [snap EXCEPT ![r] = snap[r]]
  BY Zenon, Bounds DEF TInv, JobsOK, HostOK, Rev
<1>2. ASSUME pc[r] \in Holding \ {"load", "content"}, pc' = [pc EXCEPT ![r] = "failed"],
             UNCHANGED <<job, snap, mutex>>,
             gen' \in [Plan -> {"none", "candidate", "active", "retired", "failed"}]
      PROVE  JobsOK'
  <2>1. pc[r] # "idle" /\ snap[r].plan \in Plan /\ "failed" \in Label \ {"idle"}
    BY Zenon, <1>1, <1>2 DEF Holding, Label, JobsOK
  <2> QED BY <1>1, <1>2, <2>1, MoveTyped, Zenon
<1>3. ASSUME NEW h \in HostState, host' = h, UNCHANGED late, faults < MaxFaults,
             faults' = faults + 1
      PROVE  HostOK'
  <2>1. faults' \in 0..MaxFaults
    BY <1>1, <1>3, Bounds DEF HostOK
  <2> QED BY <1>1, <1>3, <2>1, Zenon DEF HostOK
<1>4. ASSUME job' = [job EXCEPT ![r] = Ended(@, TRUE, MaxAttempts)], Leave(r), UNCHANGED gen
      PROVE  JobsOK'
  <2>1. NoSnap \in Snapshot /\ 0 \in 0..MaxRev /\ TRUE \in BOOLEAN
    BY Constants, Bounds
  <2> QED BY <1>1, <1>4, <2>1, EndTyped, Zenon DEF Leave
<1>5. {"shutdown", "prepare", "ensure", "activate", "services", "done", "failed"}
      \subseteq Holding \ {"load", "content"}
  BY Zenon DEF Holding
<1>6. CASE ShutdownFails(r)
  <2>1. JobsOK'
    BY <1>1, <1>2, <1>5, <1>6, Zenon DEF ShutdownFails
  <2>2. PICK h \in {host, [host EXCEPT !.cache = snap[r].state]} :
            host' \in {h, EnsureOn(h, snap[r])}
    BY Zenon, <1>6 DEF ShutdownFails
  <2>3. h \in HostState
    BY <1>1, <2>2, HostTyped, Zenon
  <2>4. host' \in HostState
    BY <1>1, <2>2, <2>3, HostTyped, Zenon
  <2> QED BY <1>1, <1>3, <1>6, <2>1, <2>4, TypesFrame, Zenon DEF ShutdownFails, TInv
<1>7. CASE EnsureFails(r)
  <2>1. gen' \in [Plan -> {"none", "candidate", "active", "retired", "failed"}]
    BY Zenon, <1>1, <1>7 DEF EnsureFails
  <2>2. JobsOK'
    BY <1>1, <1>2, <1>5, <1>7, <2>1, Zenon DEF EnsureFails
  <2>3. host' \in HostState
    BY <1>1, <1>7, HostTyped, Zenon DEF EnsureFails
  <2> QED BY <1>1, <1>3, <1>7, <2>2, <2>3, TypesFrame, Zenon DEF EnsureFails, TInv
<1>8. CASE EnsureAbandoned(r)
  <2>1. JobsOK'
    BY <1>4, <1>8, Zenon DEF EnsureAbandoned
  <2>2. HostOK'
    BY <1>1, <1>8, LateAdded, Zenon DEF EnsureAbandoned
  <2> QED BY <1>1, <1>8, <2>1, <2>2, TypesFrame, Zenon DEF EnsureAbandoned, TInv
<1>9. CASE ActivateFails(r)
  <2>1. JobsOK'
    BY <1>1, <1>2, <1>5, <1>9, Zenon DEF ActivateFails
  <2> QED BY <1>1, <1>3, <1>9, <2>1, TypesFrame, Zenon DEF ActivateFails, TInv
<1>10. CASE ServicesFail(r)
  <2>1. JobsOK'
    BY <1>1, <1>2, <1>5, <1>10, Zenon DEF ServicesFail
  <2>2. host' \in HostState
    BY <1>1, <1>10, HostTyped, Zenon DEF ServicesFail
  <2> QED BY <1>1, <1>3, <1>10, <2>1, <2>2, TypesFrame, Zenon DEF ServicesFail, TInv
<1>11. CASE QueryFails(r)
  <2>1. JobsOK'
    BY <1>4, <1>11, Zenon DEF QueryFails
  <2> QED BY <1>1, <1>11, <2>1, TypesFrame, Zenon DEF QueryFails, TInv
<1> QED BY <1>6, <1>7, <1>8, <1>9, <1>10, <1>11, Zenon DEF Fault
\* What becomes of the teardown job when it ends.
LEMMA TdEndedTyped ==
    ASSUME TeardownOK, NEW err \in BOOLEAN, td' = TdEnded(err)
    PROVE  TeardownOK'
<1>1. CASE err /\ td.att < PurgeAttempts
  BY Zenon, <1>1 DEF TdEnded, TeardownOK, TeardownJob
<1>2. CASE ~(err /\ td.att < PurgeAttempts)
  BY <1>2, Bounds DEF TdEnded, TeardownOK, TeardownJob
<1> QED BY Zenon, <1>1, <1>2

\* The teardown job.
LEMMA TeardownTypes ==
    ASSUME TInv, TdStep \/ TdFails \/ TdAbandoned
    PROVE  TInv'
<1>1. /\ IntentOK /\ JobsOK /\ TeardownOK /\ HostOK
      /\ TRUE \in BOOLEAN /\ FALSE \in BOOLEAN
  BY Zenon DEF TInv
<1>2. ASSUME NEW l \in {"cancel", "recheck", "call", "final", "end"}, td' = [td EXCEPT !.pc = l]
      PROVE  TeardownOK'
  BY Zenon, <1>1, <1>2 DEF TeardownOK, TeardownJob
<1>3. CASE TdStart
  <2>1. td.att + 1 \in 0..PurgeAttempts
    BY <1>1, <1>3, Bounds DEF TdStart, TeardownOK, TeardownJob
  <2>2. TeardownOK'
    BY Zenon, <1>3, <2>1 DEF TdStart, TeardownOK, TeardownJob
  <2> QED BY <1>1, <1>3, <2>2, TypesFrame, Zenon DEF TdStart, TInv, work
<1>4. CASE TdSettled \/ TdFinish \/ TdRescue
  <2>1. TeardownOK'
    BY <1>1, <1>4, TdEndedTyped, Zenon DEF TdSettled, TdFinish, TdRescue
  <2> QED BY <1>1, <1>4, <2>1, TypesFrame, Zenon DEF TdSettled, TdFinish, TdRescue, TInv, work
<1>5. CASE TdCheck
  <2>1. TeardownOK'
    BY <1>1, <1>2, <1>5, TdEndedTyped, Zenon DEF TdCheck
  <2> QED BY <1>1, <1>5, <2>1, TypesFrame, Zenon DEF TdCheck, TInv, work
<1>6. CASE TdCancel
  <2>1. TeardownOK'
    BY <1>2, <1>6, Zenon DEF TdCancel
  <2>2. JobsOK'
    BY Zenon, <1>1, <1>6, Constants DEF TdCancel, JobsOK, work
  <2> QED BY <1>1, <1>6, <2>1, <2>2, TypesFrame, Zenon DEF TdCancel, TInv
<1>7. CASE TdCall
  <2>1. TeardownOK' /\ HostOK'
    BY <1>1, <1>2, <1>7, Constants, Zenon DEF TdCall, HostOK
  <2> QED BY <1>1, <1>7, <2>1, TypesFrame, Zenon DEF TdCall, TInv, work
<1>8. CASE TdFinal
  <2>1. TeardownOK'
    BY <1>2, <1>8, Zenon DEF TdFinal
  <2>2. acct' \in AccountRow
    BY Zenon, <1>1, <1>8 DEF TdFinal, IntentOK, AccountRow
  <2>3. IntentOK'
    BY <1>1, <1>8, <2>2, Zenon DEF TdFinal, IntentOK, Purging
  <2>4. JobsOK'
    <3>1. gen' \in [Plan -> {"none", "candidate", "active", "retired", "failed"}]
      BY Zenon, <1>8 DEF TdFinal
    <3> QED BY <1>1, <1>8, <3>1, Zenon DEF TdFinal, JobsOK, work
  <2> QED BY <1>1, <1>8, <2>1, <2>3, <2>4, TypesFrame, Zenon DEF TdFinal, TInv
<1>9. CASE TdFails
  <2>1. TeardownOK'
    BY <1>1, <1>9, TdEndedTyped, Zenon DEF TdFails
  <2>2. host' \in HostState /\ UNCHANGED late
    BY Zenon, <1>1, <1>9, Constants DEF TdFails, HostOK, HostState
  <2>3. faults' \in 0..MaxFaults
    BY <1>1, <1>9, Bounds DEF TdFails, HostOK
  <2>4. HostOK'
    BY <1>1, <2>2, <2>3, Zenon DEF HostOK
  <2> QED BY <1>1, <1>9, <2>1, <2>4, TypesFrame, Zenon DEF TdFails, TInv, work
<1>10. CASE TdAbandoned
  <2>1. TeardownOK'
    BY <1>1, <1>10, TdEndedTyped, Zenon DEF TdAbandoned
  <2>2. HostOK'
    BY <1>1, <1>10, LateAdded, Zenon DEF TdAbandoned
  <2> QED BY <1>1, <1>10, <2>1, <2>2, TypesFrame, Zenon DEF TdAbandoned, TInv, work
<1> QED BY <1>3, <1>4, <1>5, <1>6, <1>7, <1>8, <1>9, <1>10, Zenon DEF TdStep

\* The sweep, crashes and abandoned calls.
LEMMA OtherTypes ==
    ASSUME TInv, SweepRead \/ SweepInsert \/ Crash \/ ServeLate
    PROVE  TInv'
<1>1. IntentOK /\ JobsOK /\ TeardownOK /\ HostOK
  BY Zenon DEF TInv
<1>2. CASE SweepRead
  <2>1. sweep' \in 0..MaxRev
    BY <1>1, <1>2, Bounds DEF SweepRead, IntentOK, AccountRow, Rev
  <2>2. IntentOK'
    BY <1>1, <1>2, <2>1, Zenon DEF SweepRead, IntentOK, intent, Purging
  <2> QED BY <1>1, <1>2, <2>2, TypesFrame, Zenon DEF SweepRead, TInv, work
<1>3. CASE SweepInsert
  <2>1. sweep \in Rev /\ 0 \in 0..MaxRev
    BY <1>1, <1>3, Bounds DEF SweepInsert, IntentOK, Rev
  <2>2. IntentOK'
    BY <1>1, <1>3, <2>1, Zenon DEF SweepInsert, IntentOK, intent, Purging
  <2>3. JobsOK'
    BY <1>1, <1>3, <2>1, InsertTyped, Zenon DEF SweepInsert, work
  <2> QED BY <1>1, <1>3, <2>2, <2>3, TypesFrame, Zenon DEF SweepInsert, TInv
<1>4. CASE Crash
  <2>1. 0 \in 0..MaxRev /\ faults' \in 0..MaxFaults
    BY <1>1, <1>4, Bounds DEF Crash, HostOK
  <2>2. IntentOK'
    BY <1>1, <1>4, <2>1, Zenon DEF Crash, IntentOK, intent, Purging
  <2>3. JobsOK'
    <3>1. /\ job' \in [Rev -> [st : {"none", "queued", "running", "stuck"}, att : 0..MaxAttempts]]
          /\ \A q \in Rev : job'[q].st # "running"
          /\ \A q \in Rev : job'[q].st = "queued" => job'[q].att < MaxAttempts
      BY Zenon, <1>1, <1>4 DEF Crash, JobsOK
    <3>2. /\ pc' \in [Rev -> Label] /\ snap' \in [Rev -> Snapshot]
          /\ \A q \in Rev : pc'[q] = "idle" /\ pc'[q] \notin Holding
      BY Zenon, <1>4, Constants DEF Crash, Label, Holding
    <3> QED BY <1>1, <1>4, <2>1, <3>1, <3>2, Zenon DEF Crash, JobsOK
  <2>4. TeardownOK'
    BY Zenon, <1>1, <1>4 DEF Crash, TeardownOK, TeardownJob
  <2>5. HostOK'
    <3>1. CASE UNCHANGED late
      BY <1>1, <1>4, <2>1, <3>1, Zenon DEF Crash, HostOK
    <3>2. CASE Cardinality(late) < MaxLate /\ \E r \in Rev : late' = late \cup {snap[r]}
      BY <1>1, <1>4, <3>2, LateAdded, Zenon DEF Crash, JobsOK
    <3>3. CASE Cardinality(late) < MaxLate /\ late' = late \cup {TeardownCall}
      BY <1>1, <1>4, <3>3, LateAdded, Zenon DEF Crash
    <3> QED BY <1>4, <3>1, <3>2, <3>3, Zenon DEF Crash
  <2> QED BY Zenon, <2>2, <2>3, <2>4, <2>5 DEF TInv
<1>5. CASE ServeLate
  <2>1. PICK s \in late : /\ host' = IF s = TeardownCall THEN Removed
                                     ELSE [EnsureOn(host, s) EXCEPT !.stray = TRUE]
                          /\ late' = late \ {s}
    BY Zenon, <1>5 DEF ServeLate
  <2>2. host' \in HostState
    <3>1. CASE s = TeardownCall
      BY <1>1, <2>1, <3>1, HostTyped, Constants, Zenon DEF HostOK
    <3>2. CASE s # TeardownCall
      <4>1. PICK h \in HostState : h = EnsureOn(host, s)
        BY <1>1, <3>2, HostTyped, Constants, Zenon DEF HostOK
      <4> QED BY <2>1, <3>2, <4>1, Zenon DEF HostState
    <3> QED BY Zenon, <3>1, <3>2
  <2>3. IsFiniteSet(late') /\ Cardinality(late') <= MaxLate
    <3>1. IsFiniteSet(late) /\ Cardinality(late) \in Nat
      BY Zenon, <1>1, FS_CardinalityType DEF HostOK
    <3>2. IsFiniteSet(late \ {s}) /\ Cardinality(late \ {s}) = Cardinality(late) - 1
      BY Zenon, <3>1, FS_RemoveElement
    <3> QED BY <1>1, <2>1, <3>1, <3>2, Bounds DEF HostOK
  <2>4. HostOK'
    BY <1>1, <1>5, <2>1, <2>2, <2>3, Zenon DEF HostOK, ServeLate
  <2> QED BY <1>1, <1>5, <2>4, TypesFrame, Zenon DEF ServeLate, TInv, work
<1> QED BY Zenon, <1>2, <1>3, <1>4, <1>5

\* Every step keeps the types.
LEMMA TypesStep == TInv /\ [ANext]_vars => TInv'
<1> SUFFICES ASSUME TInv, [ANext]_vars PROVE TInv'
  BY Zenon
<1>1. CASE ANext
  BY <1>1, IntentTypes, StepTypes, FaultTypes, TeardownTypes, OtherTypes, Zenon DEF ANext
<1>2. CASE UNCHANGED vars
  BY <1>2, TypesFrame, Zenon DEF vars, TInv, intent
<1> QED BY Zenon, <1>1, <1>2

\* The rows of the account, its jobs, their attempts and the abandoned calls keep
\* their types and limits, for any number of revisions, attempts and faults
\* (account_lifecycle.go, and River's queue as it uses it).
THEOREM AccountsAreTyped == ASpec => []ATypeOK
<1>1. TInv => ATypeOK
  BY Zenon DEF TInv, IntentOK, JobsOK, TeardownOK, HostOK, AccountRow, TeardownJob, HostState, ATypeOK
<1> QED BY <1>1, TypesInit, TypesStep, PTL DEF ASpec
-----------------------------------------------------------------------------
(* Acknowledgements *)

\* The job that holds the mutex is the only one past the lock.
Mutual == \A r \in Rev : pc[r] \in Holding <=> mutex = r

\* Before the purge, nothing of the account is being taken down.
Provisioned == rows /\ ~host.gone /\ td.st = "none" /\ td.pc = "idle"

\* What the snapshot of a job is worth: while the revision it read is the desired
\* one, it is the intent; and a job with an older one runs only while the account
\* is pending, because the mutex keeps the job of the new revision out.
Seen(r) ==
    pc[r] \in Holding \ {"load"} =>
        /\ snap[r].rev \in 1..acct.rev
        /\ pc[r] # "content" => snap[r].site
        /\ snap[r].rev # acct.rev => acct.conv = "pending"
        /\ snap[r].rev = acct.rev => /\ snap[r].state = Effective
                                     /\ pc[r] # "content" => snap[r].plan = plan

\* What the job has done so far is on the host and in the generations.
Applied(r) ==
    /\ pc[r] \in {"prepare", "ensure", "activate", "services", "done"}
          => snap[r].state = "active" \/ host.cache = snap[r].state
    /\ pc[r] \in {"ensure", "activate"}
          => gen[snap[r].plan] = IF snap[r].cand THEN "candidate" ELSE "active"
    /\ pc[r] \in {"activate", "services", "done"}
          => host.acc /\ (host.stray \/ (host.site = snap[r].state /\ host.plan = snap[r].plan))
    /\ pc[r] \in {"services", "done"} => gen[snap[r].plan] = "active"
    /\ pc[r] = "done" => host.svc = snap[r].state /\ host.cache = snap[r].state

Kept(r) == Seen(r) /\ Applied(r)

\* Before the purge, no abandoned call is one that takes the account down.
NoTeardown == bill = "active" => late \subseteq Snapshot

CInv ==
    /\ Mutual /\ NoTeardown
    /\ bill = "active" => Provisioned /\ \A r \in Rev : Kept(r)
    /\ AckedIsApplied

\* The first account is in sync and nothing is under way.
LEMMA AcksInit == AInit => CInv
BY Bounds DEF AInit, CInv, Mutual, NoTeardown, Provisioned, Kept, Seen, Applied, AckedIsApplied, Effective, Holding

\* A job without the mutex has nothing to keep.
LEMMA NotHolding ==
    ASSUME NEW r \in Rev
    PROVE  /\ pc[r] \notin Holding => Kept(r)
           /\ pc'[r] \notin Holding => Kept(r)'
BY Zenon DEF Holding, Kept, Seen, Applied

\* Every step keeps the mutex to one job (LockSubscriptionRuntime).
LEMMA MutualStep ==
    ASSUME TInv, Mutual, ANext
    PROVE  Mutual'
<1>1. pc \in [Rev -> Label] /\ Rev \subseteq Nat \ {0}
  BY Zenon, Bounds DEF TInv, JobsOK
<1>2. ASSUME UNCHANGED <<pc, mutex>> PROVE Mutual'
  BY Zenon, <1>2 DEF Mutual
<1>3. ASSUME NEW r \in Rev, pc[r] \in Holding, NEW l \in Holding,
             pc' = [pc EXCEPT ![r] = l], UNCHANGED mutex
      PROVE  Mutual'
  BY Zenon, <1>1, <1>3 DEF Mutual
<1>4. ASSUME NEW r \in Rev, pc[r] \in Holding, NEW l, l \notin Holding,
             pc' = [pc EXCEPT ![r] = l], mutex' = 0
      PROVE  Mutual'
  BY Zenon, <1>1, <1>4 DEF Mutual
<1>5. ASSUME NEW r \in Rev, pc[r] \notin Holding, NEW l, l \notin Holding,
             pc' = [pc EXCEPT ![r] = l], UNCHANGED mutex
      PROVE  Mutual'
  BY Zenon, <1>1, <1>5 DEF Mutual
<1>6. "idle" \notin Holding /\ "lock" \notin Holding /\ "nil" \notin Holding /\ "error" \notin Holding
  BY Zenon DEF Holding
<1>7. {"load", "content", "shutdown", "prepare", "ensure", "activate", "services", "done", "failed"}
      \subseteq Holding
  BY Zenon DEF Holding
<1>8. ASSUME NEW r \in Rev, Step(r) PROVE Mutual'
  <2>1. CASE Start(r) \/ Finish(r)
    <3>1. pc[r] \notin Holding
      BY Zenon, <1>6, <2>1 DEF Start, Finish, TInv, JobsOK
    <3> QED BY <1>5, <1>6, <2>1, <3>1, Zenon DEF Start, Finish
  <2>2. CASE Lock(r)
    BY Zenon, <1>1, <1>7, <2>2 DEF Lock, Mutual
  <2>3. CASE LoadAccount(r) \/ Shutdown(r) \/ Ensure(r)
    BY <1>3, <1>7, <2>3, Zenon DEF LoadAccount, Shutdown, Ensure
  <2>4. CASE LoadContent(r)
    BY <1>3, <1>7, <2>4, Zenon DEF LoadContent
  <2>5. CASE Activate(r) \/ Services(r)
    BY <1>3, <1>7, <2>5, Zenon DEF Activate, Services
  <2>6. CASE Prepare(r)
    BY <1>3, <1>4, <1>6, <1>7, <2>6, Zenon DEF Prepare, Leave
  <2>7. CASE Mark(r)
    BY <1>4, <1>6, <1>7, <2>7, Zenon DEF Mark
  <2>8. CASE Rescue(r)
    BY <1>2, <2>8, Zenon DEF Rescue, work
  <2> QED BY <1>8, <2>1, <2>2, <2>3, <2>4, <2>5, <2>6, <2>7, <2>8, Zenon DEF Step
<1>9. ASSUME NEW r \in Rev, Fault(r) PROVE Mutual'
  <2>1. CASE ShutdownFails(r) \/ EnsureFails(r) \/ ActivateFails(r) \/ ServicesFail(r)
    BY <1>3, <1>7, <2>1, Zenon DEF ShutdownFails, EnsureFails, ActivateFails, ServicesFail
  <2>2. CASE EnsureAbandoned(r) \/ QueryFails(r)
    BY <1>4, <1>6, <1>7, <2>2, Zenon DEF EnsureAbandoned, QueryFails, Leave
  <2> QED BY <1>9, <2>1, <2>2, Zenon DEF Fault
<1>10. CASE Crash
  BY Zenon, <1>1, <1>6, <1>10 DEF Crash, Mutual
<1>11. CASE \/ PanelStatus \/ LifecycleCheck \/ LifecycleApply \/ SetCustomer \/ ChangePlan \/ Purge
            \/ SweepRead \/ SweepInsert \/ TdStep \/ TdFails \/ TdAbandoned \/ ServeLate
  BY <1>2, <1>11, Zenon DEF PanelStatus, LifecycleCheck, LifecycleApply, SetStatus, SetCustomer,
         ChangePlan, Purge, SweepRead, SweepInsert, TdStep, TdStart, TdSettled, TdCheck, TdCancel,
         TdCall, TdFinal, TdFinish, TdRescue, TdFails, TdAbandoned, ServeLate, work
<1> QED BY <1>8, <1>9, <1>10, <1>11, Zenon DEF ANext
\* What the agent's calls do to each part of the host.
LEMMA HostFields ==
    ASSUME NEW h \in HostState, NEW s \in Snapshot
    PROVE  /\ EnsureOn(h, s).acc
           /\ EnsureOn(h, s).svc = h.svc /\ EnsureOn(h, s).cache = h.cache
           /\ EnsureOn(h, s).gone = h.gone
           /\ s.site /\ ~h.gone => EnsureOn(h, s).site = s.state /\ EnsureOn(h, s).plan = s.plan
           /\ ServicesOn(h, s).stray = h.stray
           /\ ServicesOn(h, s).acc = h.acc /\ ServicesOn(h, s).site = h.site
           /\ ServicesOn(h, s).plan = h.plan /\ ServicesOn(h, s).gone = h.gone
           /\ ServicesOn(h, s).svc = s.state
           /\ ServicesOn(h, s).cache = IF s.state = "active" THEN "active" ELSE h.cache
BY Zenon DEF EnsureOn, ServicesOn, HostState, Snapshot

\* In sync, the job at work has the intent of now.
LEMMA InSync ==
    ASSUME NEW r \in Rev, Seen(r), pc[r] \in Holding \ {"load"}, acct.conv = "in_sync"
    PROVE  /\ snap[r].rev = acct.rev /\ snap[r].state = Effective
           /\ pc[r] # "content" => snap[r].plan = plan
BY Zenon DEF Seen

\* A change of the intent makes every snapshot an old one.
LEMMA IntentAcks ==
    ASSUME TInv, CInv, bill = "active", bill' = "active",
           PanelStatus \/ LifecycleCheck \/ LifecycleApply \/ SetCustomer \/ ChangePlan \/ Purge
    PROVE  Provisioned' /\ (\A r \in Rev : Kept(r)') /\ AckedIsApplied'
<1>1. ASSUME NEW w, Enqueue(w), UNCHANGED <<rows, gen, pc, snap, td, host>>
      PROVE  Provisioned' /\ (\A r \in Rev : Kept(r)') /\ AckedIsApplied'
  <2>1. acct'.conv = "pending" /\ acct'.rev = acct.rev + 1 /\ acct.rev \in Nat
    BY Zenon, <1>1, Bounds DEF Enqueue, TInv, IntentOK, AccountRow, Rev
  <2>2. Provisioned' /\ AckedIsApplied'
    BY Zenon, <1>1, <2>1 DEF CInv, Provisioned, AckedIsApplied
  <2>3. ASSUME NEW r \in Rev PROVE Kept(r)'
    <3>1. Seen(r) /\ Applied(r)
      BY Zenon DEF CInv, Kept
    <3>2. Seen(r)'
      BY <1>1, <2>1, <3>1 DEF Seen
    <3>3. Applied(r)'
      BY <1>1, <3>1, Zenon DEF Applied
    <3> QED BY Zenon, <3>2, <3>3 DEF Kept
  <2> QED BY Zenon, <2>2, <2>3
<1>2. ASSUME NEW s, SetStatus(s)
      PROVE  Provisioned' /\ (\A r \in Rev : Kept(r)') /\ AckedIsApplied'
  BY <1>1, <1>2, Zenon DEF SetStatus, work
<1>3. CASE PanelStatus
  BY <1>2, <1>3, Zenon DEF PanelStatus
<1>4. CASE LifecycleApply
  <2>1. Mutable
    BY Zenon DEF Mutable, Purging
  <2> QED BY <1>2, <1>4, <2>1, Zenon DEF LifecycleApply
<1>5. CASE SetCustomer
  BY <1>1, <1>5, Zenon DEF SetCustomer, work
<1>6. CASE ChangePlan
  BY <1>1, <1>6, Zenon DEF ChangePlan, work
<1>7. CASE LifecycleCheck
  BY <1>7, Zenon DEF LifecycleCheck, intent, work, CInv, Provisioned, Kept, Seen, Applied,
                     AckedIsApplied, Effective
<1>8. CASE Purge
  BY Zenon, <1>8 DEF Purge
<1> QED BY Zenon, <1>3, <1>4, <1>5, <1>6, <1>7, <1>8

\* Steps that change neither the intent nor the host: jobs start, wait, end or die.
LEMMA QuietAcks ==
    ASSUME CInv, bill = "active",
           UNCHANGED <<intent, acct, gen, host, td>>,
           \A q \in Rev : \/ pc'[q] \notin Holding \ {"load"}
                          \/ pc'[q] = pc[q] /\ snap'[q] = snap[q]
    PROVE  Provisioned' /\ (\A r \in Rev : Kept(r)') /\ AckedIsApplied'
<1>1. Provisioned' /\ AckedIsApplied' /\ Effective' = Effective
  BY Zenon DEF CInv, Provisioned, AckedIsApplied, Effective, intent
<1>2. ASSUME NEW q \in Rev PROVE Kept(q)'
  <2>1. CASE pc'[q] \notin Holding \ {"load"}
    BY Zenon, <2>1 DEF Kept, Seen, Applied, Holding
  <2>2. CASE pc'[q] = pc[q] /\ snap'[q] = snap[q]
    <3>1. Seen(q) /\ Applied(q)
      BY Zenon DEF CInv, Kept
    <3>2. Seen(q)'
      BY <1>1, <2>2, <3>1, Zenon DEF Seen, intent
    <3>3. Applied(q)'
      BY <2>2, <3>1, Zenon DEF Applied
    <3> QED BY Zenon, <3>2, <3>3 DEF Kept
  <2> QED BY Zenon, <2>1, <2>2
<1> QED BY Zenon, <1>1, <1>2

\* A step of the job that holds the mutex is about that job only.
LEMMA HolderAcks ==
    ASSUME TInv, CInv, NEW r \in Rev, pc[r] \in Holding,
           \A q \in Rev \ {r} : pc'[q] = pc[q],
           Kept(r)'
    PROVE  \A q \in Rev : Kept(q)'
<1>1. ASSUME NEW q \in Rev \ {r} PROVE pc'[q] \notin Holding
  BY Zenon, <1>1 DEF CInv, Mutual
<1> QED BY Zenon, <1>1, NotHolding
\* The steps of a job in which nothing fails.
LEMMA StepAcks ==
    ASSUME TInv, TInv', CInv, bill = "active", NEW r \in Rev, Step(r)
    PROVE  Provisioned' /\ (\A q \in Rev : Kept(q)') /\ AckedIsApplied'
<1>1. /\ Provisioned /\ Seen(r) /\ Applied(r) /\ AckedIsApplied /\ ~Purging
      /\ pc \in [Rev -> Label] /\ snap \in [Rev -> Snapshot] /\ host \in HostState
      /\ snap[r] \in Snapshot
      /\ gen \in [Plan -> {"none", "candidate", "active", "retired", "failed"}]
      /\ \A q \in Rev : (pc[q] # "idle") <=> (job[q].st = "running")
      /\ pc[r] \in Holding \ {"load", "content"} => snap[r].plan \in Plan
  BY Zenon DEF CInv, Kept, TInv, JobsOK, HostOK, Purging
<1>2. CASE Start(r) \/ Lock(r) \/ Finish(r) \/ Rescue(r)
  <2>1. \A q \in Rev : \/ pc'[q] \notin Holding \ {"load"}
                       \/ pc'[q] = pc[q] /\ snap'[q] = snap[q]
    BY Zenon, <1>1, <1>2 DEF Start, Lock, Finish, Rescue, work, Holding
  <2> QED BY <1>2, <2>1, QuietAcks, Zenon DEF Start, Lock, Finish, Rescue
<1>3. CASE LoadAccount(r)
  <2>1. /\ pc'[r] = "content" /\ snap'[r].rev = acct.rev /\ snap'[r].state = Effective
        /\ \A q \in Rev \ {r} : pc'[q] = pc[q]
    BY Zenon, <1>1, <1>3 DEF LoadAccount
  <2>2. UNCHANGED <<sub, cust, acct, plan, rows, gen, td, host, bill>> /\ Effective' = Effective
    BY Zenon, <1>3 DEF LoadAccount, intent, Effective
  <2>3. acct.rev \in 1..acct.rev
    BY Bounds DEF TInv, IntentOK, AccountRow, Rev
  <2>4. Kept(r)'
    BY <2>1, <2>2, <2>3, Zenon DEF Kept, Seen, Applied
  <2>5. Provisioned' /\ AckedIsApplied'
    BY <1>1, <2>2, Zenon DEF Provisioned, AckedIsApplied
  <2>6. pc[r] \in Holding
    BY Zenon, <1>3 DEF LoadAccount, Holding
  <2> QED BY <2>1, <2>4, <2>5, <2>6, HolderAcks, Zenon
<1>4. CASE LoadContent(r)
  <2>1. /\ pc[r] = "content" /\ pc'[r] \in {"prepare", "shutdown"}
        /\ pc'[r] = "prepare" => snap[r].state = "active"
        /\ snap'[r].rev = snap[r].rev /\ snap'[r].state = snap[r].state
        /\ snap'[r].plan = plan /\ snap'[r].site = rows
        /\ \A q \in Rev \ {r} : pc'[q] = pc[q]
    BY Zenon, <1>1, <1>4 DEF LoadContent, Provisioned, Snapshot
  <2>2. UNCHANGED <<sub, cust, acct, plan, rows, gen, td, host, bill>> /\ Effective' = Effective
    BY Zenon, <1>4 DEF LoadContent, intent, Effective
  <2>3. Seen(r)'
    BY Zenon, <1>1, <2>1, <2>2 DEF Seen, Provisioned, Holding
  <2>4. Applied(r)'
    BY Zenon, <2>1, <2>2 DEF Applied
  <2>5. Provisioned' /\ AckedIsApplied'
    BY <1>1, <2>2, Zenon DEF Provisioned, AckedIsApplied
  <2>6. pc[r] \in Holding
    BY Zenon, <2>1 DEF Holding
  <2> QED BY <2>1, <2>3, <2>4, <2>5, <2>6, HolderAcks, Zenon DEF Kept
<1>5. CASE Shutdown(r)
  <2>1. /\ pc[r] = "shutdown" /\ pc'[r] = "prepare" /\ snap' = snap
        /\ \A q \in Rev \ {r} : pc'[q] = pc[q]
    BY Zenon, <1>1, <1>5 DEF Shutdown
  <2>2. UNCHANGED <<sub, cust, acct, plan, rows, gen, td, bill>> /\ Effective' = Effective
    BY Zenon, <1>5 DEF Shutdown, intent, Effective
  <2>3. /\ host'.cache = snap[r].state /\ host'.acc = host.acc /\ host'.site = host.site
        /\ host'.plan = host.plan /\ host'.svc = host.svc /\ host'.gone = host.gone
        /\ host'.stray = host.stray
    BY Zenon, <1>1, <1>5 DEF Shutdown, HostState
  <2>4. pc[r] \in Holding \ {"load"}
    BY Zenon, <2>1 DEF Holding
  <2>5. Seen(r)'
    BY <1>1, <2>1, <2>2, <2>4, Zenon DEF Seen
  <2>6. Applied(r)'
    BY Zenon, <2>1, <2>2, <2>3 DEF Applied
  <2>7. Provisioned'
    BY <1>1, <2>2, <2>3, Zenon DEF Provisioned
  <2>8. AckedIsApplied'
    BY <1>1, <2>2, <2>3, <2>4, InSync, Zenon DEF AckedIsApplied
  <2> QED BY <2>1, <2>4, <2>5, <2>6, <2>7, <2>8, HolderAcks, Zenon DEF Kept
<1>6. CASE Prepare(r)
  <2>1. /\ pc[r] = "prepare" /\ pc[r] \in Holding \ {"load", "content"} /\ snap[r].plan \in Plan
        /\ snap[r].site
    BY Zenon, <1>1, <1>6 DEF Prepare, Holding, Seen
  <2>2. /\ gen' = IF ~(gen[snap[r].plan] \in {"candidate", "active"})
                  THEN [gen EXCEPT ![snap[r].plan] = "candidate"] ELSE gen
        /\ snap' = [snap EXCEPT ![r].cand = snap[r].site /\ gen[snap[r].plan] # "active"]
        /\ pc' = [pc EXCEPT ![r] = "ensure"]
    BY <1>1, <1>6, <2>1, Zenon DEF Prepare, Provisioned
  <2>3. /\ pc'[r] = "ensure" /\ \A q \in Rev \ {r} : pc'[q] = pc[q]
        /\ snap'[r].rev = snap[r].rev /\ snap'[r].state = snap[r].state
        /\ snap'[r].plan = snap[r].plan /\ snap'[r].site = snap[r].site
        /\ snap'[r].cand <=> gen[snap[r].plan] # "active"
    BY Zenon, <1>1, <2>1, <2>2 DEF Snapshot
  <2>4. /\ gen'[snap[r].plan] = IF gen[snap[r].plan] = "active" THEN "active" ELSE "candidate"
        /\ gen[snap[r].plan] = "active" => gen' = gen
    BY Zenon, <1>1, <2>1, <2>2
  <2>5. UNCHANGED <<sub, cust, acct, plan, rows, td, bill, host>> /\ Effective' = Effective
    BY Zenon, <1>6 DEF Prepare, intent, Effective
  <2>6. Seen(r)'
    BY <1>1, <2>1, <2>3, <2>5, Zenon DEF Seen
  <2>7. Applied(r)'
    BY Zenon, <1>1, <2>1, <2>3, <2>4, <2>5 DEF Applied
  <2>8. Provisioned'
    BY <1>1, <2>5, Zenon DEF Provisioned
  <2>9. AckedIsApplied'
    BY <1>1, <2>1, <2>4, <2>5, InSync, Zenon DEF AckedIsApplied
  <2> QED BY <2>1, <2>3, <2>6, <2>7, <2>8, <2>9, HolderAcks, Zenon DEF Kept
<1>7. CASE Ensure(r)
  <2>1. /\ pc[r] = "ensure" /\ pc'[r] = "activate" /\ snap' = snap
        /\ pc[r] \in Holding \ {"load", "content"} /\ snap[r].site
        /\ \A q \in Rev \ {r} : pc'[q] = pc[q]
    BY Zenon, <1>1, <1>7 DEF Ensure, Holding, Seen
  <2>2. UNCHANGED <<sub, cust, acct, plan, rows, gen, td, bill>> /\ Effective' = Effective
    BY Zenon, <1>7 DEF Ensure, intent, Effective
  <2>3. /\ host'.acc /\ host'.svc = host.svc /\ host'.cache = host.cache /\ host'.gone = host.gone
        /\ host'.site = snap[r].state /\ host'.plan = snap[r].plan
    BY <1>1, <1>7, <2>1, HostFields, Zenon DEF Ensure, Provisioned
  <2>4. Seen(r)'
    BY <1>1, <2>1, <2>2, Zenon DEF Seen
  <2>5. Applied(r)'
    BY Zenon, <1>1, <2>1, <2>2, <2>3 DEF Applied
  <2>6. Provisioned'
    BY <1>1, <2>2, <2>3, Zenon DEF Provisioned
  <2>7. AckedIsApplied'
    <3>1. acct.conv = "in_sync" => snap[r].state = Effective /\ snap[r].plan = plan
      BY Zenon, <1>1, <2>1, InSync
    <3> QED BY <1>1, <2>2, <2>3, <3>1, Zenon DEF AckedIsApplied
  <2> QED BY <2>1, <2>4, <2>5, <2>6, <2>7, HolderAcks, Zenon DEF Kept
<1>8. CASE Activate(r)
  <2>1. /\ pc[r] = "activate" /\ pc'[r] = "services" /\ snap' = snap
        /\ pc[r] \in Holding \ {"load", "content"} /\ snap[r].plan \in Plan
        /\ \A q \in Rev \ {r} : pc'[q] = pc[q]
    BY Zenon, <1>1, <1>8 DEF Activate, Holding, Provisioned
  <2>2. UNCHANGED <<sub, cust, acct, plan, rows, td, bill, host>> /\ Effective' = Effective
    BY Zenon, <1>8 DEF Activate, intent, Effective
  <2>3. gen'[snap[r].plan] = "active" /\ (gen[snap[r].plan] = "active" => gen' = gen)
    <3>1. CASE snap[r].cand
      BY Zenon, <1>1, <1>8, <2>1, <3>1 DEF Activate, Provisioned, Applied
    <3>2. CASE ~snap[r].cand
      BY Zenon, <1>1, <1>8, <2>1, <3>2 DEF Activate, Applied
    <3> QED BY Zenon, <3>1, <3>2
  <2>4. Seen(r)'
    BY <1>1, <2>1, <2>2, Zenon DEF Seen
  <2>5. Applied(r)'
    BY Zenon, <1>1, <2>1, <2>2, <2>3 DEF Applied
  <2>6. Provisioned'
    BY <1>1, <2>2, Zenon DEF Provisioned
  <2>7. AckedIsApplied'
    <3>1. acct.conv = "in_sync" => snap[r].state = Effective /\ snap[r].plan = plan
      BY Zenon, <1>1, <2>1, InSync
    <3> QED BY <1>1, <2>2, <2>3, <3>1, Zenon DEF AckedIsApplied
  <2> QED BY <2>1, <2>4, <2>5, <2>6, <2>7, HolderAcks, Zenon DEF Kept
<1>9. CASE Services(r)
  <2>1. /\ pc[r] = "services" /\ pc'[r] = "done" /\ snap' = snap
        /\ pc[r] \in Holding \ {"load", "content"}
        /\ \A q \in Rev \ {r} : pc'[q] = pc[q]
    BY Zenon, <1>1, <1>9 DEF Services, Holding
  <2>2. UNCHANGED <<sub, cust, acct, plan, rows, gen, td, bill>> /\ Effective' = Effective
    BY Zenon, <1>9 DEF Services, intent, Effective
  <2>3. /\ host'.acc = host.acc /\ host'.site = host.site /\ host'.plan = host.plan
        /\ host'.gone = host.gone /\ host'.svc = snap[r].state /\ host'.cache = snap[r].state
        /\ host'.stray = host.stray
    <3>1. snap[r].state = "active" \/ host.cache = snap[r].state
      BY Zenon, <1>1, <2>1 DEF Applied
    <3>2. PICK h : h = ServicesOn(host, snap[r])
      BY Zenon
    <3>3. /\ h.acc = host.acc /\ h.site = host.site /\ h.plan = host.plan /\ h.gone = host.gone
          /\ h.stray = host.stray /\ h.svc = snap[r].state
          /\ h.cache = IF snap[r].state = "active" THEN "active" ELSE host.cache
      BY Zenon, <1>1, <3>2, HostFields
    <3>4. host' = h
      BY Zenon, <1>9, <3>2 DEF Services
    <3> QED BY <3>1, <3>3, <3>4, Zenon
  <2>4. Seen(r)'
    BY <1>1, <2>1, <2>2, Zenon DEF Seen
  <2>5. Applied(r)'
    BY Zenon, <1>1, <2>1, <2>2, <2>3 DEF Applied
  <2>6. Provisioned'
    BY <1>1, <2>2, <2>3, Zenon DEF Provisioned
  <2>7. AckedIsApplied'
    <3>1. acct.conv = "in_sync" => snap[r].state = Effective /\ snap[r].plan = plan
      BY Zenon, <1>1, <2>1, InSync
    <3> QED BY <1>1, <2>2, <2>3, <3>1, Zenon DEF AckedIsApplied
  <2> QED BY <2>1, <2>4, <2>5, <2>6, <2>7, HolderAcks, Zenon DEF Kept
<1>10. CASE Mark(r)
  <2>1. /\ pc[r] \in {"done", "failed"} /\ pc[r] \in Holding \ {"load", "content"}
        /\ pc'[r] \notin Holding /\ \A q \in Rev \ {r} : pc'[q] = pc[q]
    BY Zenon, <1>1, <1>10 DEF Mark, Holding
  <2>2. UNCHANGED <<sub, cust, plan, rows, gen, td, bill, host>>
    BY Zenon, <1>10 DEF Mark, intent
  <2>3. Provisioned'
    BY <1>1, <2>2, Zenon DEF Provisioned
  <2>4. Kept(r)'
    BY Zenon, <2>1, NotHolding
  <2>5. AckedIsApplied'
    <3>1. CASE ~Acks(r)
      BY <1>1, <1>10, <2>2, <3>1, Zenon DEF Mark, AckedIsApplied, Effective
    <3>2. CASE Acks(r) /\ pc[r] = "failed"
      <4>1. acct'.conv = "failed"
        BY Zenon, <1>10, <3>2 DEF Mark, TInv, IntentOK, AccountRow
      <4> QED BY Zenon, <4>1 DEF AckedIsApplied
    <3>3. CASE Acks(r) /\ pc[r] = "done"
      <4>1. /\ acct'.want = acct.want /\ acct'.rev = acct.rev /\ acct'.applied = snap[r].state
            /\ acct'.appliedRev = snap[r].rev
        BY Zenon, <1>10, <3>3 DEF Mark, TInv, IntentOK, AccountRow
      <4>2. Effective' = Effective
        BY <2>2, <4>1, Zenon DEF Effective
      <4>3. /\ snap[r].rev = acct.rev /\ snap[r].state = Effective /\ snap[r].plan = plan
        BY Zenon, <1>1, <2>1, <3>3 DEF Acks, Seen
      <4>4. /\ host.acc /\ (host.stray \/ (host.site = snap[r].state /\ host.plan = snap[r].plan))
            /\ host.svc = snap[r].state /\ host.cache = snap[r].state
            /\ gen[snap[r].plan] = "active"
        BY Zenon, <1>1, <3>3 DEF Applied
      <4> QED BY <2>2, <4>1, <4>2, <4>3, <4>4, Zenon DEF AckedIsApplied
    <3> QED BY Zenon, <2>1, <3>1, <3>2, <3>3
  <2> QED BY <2>1, <2>3, <2>4, <2>5, HolderAcks, Zenon
<1> QED BY <1>2, <1>3, <1>4, <1>5, <1>6, <1>7, <1>8, <1>9, <1>10, Zenon DEF Step
\* A job that fails has changed the host at most in the direction of its snapshot.
LEMMA FaultAcks ==
    ASSUME TInv, CInv, bill = "active", NEW r \in Rev, Fault(r)
    PROVE  Provisioned' /\ (\A q \in Rev : Kept(q)') /\ AckedIsApplied'
<1>1. /\ Provisioned /\ Seen(r) /\ Applied(r) /\ AckedIsApplied
      /\ pc \in [Rev -> Label] /\ snap \in [Rev -> Snapshot] /\ host \in HostState
      /\ snap[r] \in Snapshot
      /\ gen \in [Plan -> {"none", "candidate", "active", "retired", "failed"}]
      /\ pc[r] \in Holding \ {"load", "content"} => snap[r].plan \in Plan
  BY Zenon DEF CInv, Kept, TInv, JobsOK, HostOK
<1>2. ASSUME pc[r] \in Holding \ {"load", "content"}, pc' = [pc EXCEPT ![r] = "failed"],
             UNCHANGED <<intent, acct, td, snap>>, host'.gone = host.gone,
             acct.conv = "in_sync" /\ snap[r].state = Effective /\ snap[r].plan = plan =>
                 /\ host'.acc /\ (host'.stray \/ (host'.site = Effective /\ host'.plan = plan))
                 /\ host'.svc = host.svc /\ host'.cache = host.cache
                 /\ gen'[plan] = "active"
      PROVE  Provisioned' /\ (\A q \in Rev : Kept(q)') /\ AckedIsApplied'
  <2>1. pc'[r] = "failed" /\ \A q \in Rev \ {r} : pc'[q] = pc[q]
    BY Zenon, <1>1, <1>2
  <2>2. UNCHANGED <<sub, cust, acct, plan, rows, td, bill, snap>> /\ Effective' = Effective
    BY Zenon, <1>2 DEF intent, Effective
  <2>3. Seen(r)'
    BY <1>1, <1>2, <2>1, <2>2, Zenon DEF Seen
  <2>4. Applied(r)'
    BY Zenon, <2>1 DEF Applied
  <2>5. Provisioned'
    BY <1>1, <1>2, <2>2, Zenon DEF Provisioned
  <2>6. AckedIsApplied'
    <3>1. acct.conv = "in_sync" => snap[r].state = Effective /\ snap[r].plan = plan
      BY Zenon, <1>1, <1>2, InSync
    <3> QED BY <1>1, <1>2, <2>2, <3>1, Zenon DEF AckedIsApplied
  <2> QED BY <1>2, <2>1, <2>3, <2>4, <2>5, <2>6, HolderAcks, Zenon DEF Kept
<1>3. {"shutdown", "prepare", "ensure", "activate", "services", "done", "failed"}
      \subseteq Holding \ {"load", "content"}
  BY Zenon DEF Holding
<1>4. acct.conv = "in_sync" => /\ host.acc
                               /\ host.stray \/ (host.site = Effective /\ host.plan = plan)
                               /\ host.svc = Effective /\ host.cache = Effective
                               /\ gen[plan] = "active"
  BY <1>1, Zenon DEF AckedIsApplied
<1>5. pc[r] \in Holding \ {"load", "content"} => snap[r].site /\ ~host.gone
  BY Zenon, <1>1 DEF Seen, Provisioned, Holding
<1>6. CASE ShutdownFails(r)
  <2>1. pc[r] \in Holding \ {"load", "content"}
    BY Zenon, <1>3, <1>6 DEF ShutdownFails
  <2>2. PICK h \in {host, [host EXCEPT !.cache = snap[r].state]} :
            host' \in {h, EnsureOn(h, snap[r])}
    BY Zenon, <1>6 DEF ShutdownFails
  <2>3. /\ h \in HostState /\ h.gone = host.gone /\ h.acc = host.acc /\ h.site = host.site
        /\ h.stray = host.stray /\ h.plan = host.plan /\ h.svc = host.svc
        /\ h.cache \in {host.cache, snap[r].state}
    BY Zenon, <1>1, <2>2 DEF HostState, Snapshot
  <2>4. /\ host'.gone = host.gone /\ host'.svc = host.svc
        /\ host'.cache \in {host.cache, snap[r].state}
        /\ host.acc => host'.acc
        /\ \/ host'.site = host.site /\ host'.plan = host.plan /\ host'.stray = host.stray
           \/ host'.site = snap[r].state /\ host'.plan = snap[r].plan
    <3>1. CASE host' = h
      BY <2>3, <3>1, Zenon
    <3>2. CASE host' = EnsureOn(h, snap[r])
      BY <1>1, <1>5, <2>1, <2>3, <3>2, HostFields, Zenon
    <3> QED BY Zenon, <2>2, <3>1, <3>2
  <2>5. acct.conv = "in_sync" /\ snap[r].state = Effective /\ snap[r].plan = plan =>
                 /\ host'.acc /\ (host'.stray \/ (host'.site = Effective /\ host'.plan = plan))
                 /\ host'.svc = host.svc /\ host'.cache = host.cache
                 /\ gen'[plan] = "active"
    <3>1. gen' = gen
      BY Zenon, <1>6 DEF ShutdownFails
    <3> QED BY <1>4, <2>4, <3>1, Zenon
  <2> QED BY <1>2, <1>6, <2>1, <2>4, <2>5, Zenon DEF ShutdownFails
<1>7. CASE EnsureFails(r)
  <2>1. pc[r] = "ensure" /\ pc[r] \in Holding \ {"load", "content"}
    BY Zenon, <1>3, <1>7 DEF EnsureFails
  <2>2. /\ host'.gone = host.gone /\ host'.svc = host.svc /\ host'.cache = host.cache
        /\ host.acc => host'.acc
        /\ \/ host'.site = host.site /\ host'.plan = host.plan /\ host'.stray = host.stray
           \/ host'.site = snap[r].state /\ host'.plan = snap[r].plan
    <3>1. CASE host' = host
      BY Zenon, <3>1
    <3>2. CASE host' = EnsureOn(host, snap[r])
      BY <1>1, <1>5, <2>1, <3>2, HostFields, Zenon
    <3> QED BY Zenon, <1>7, <3>1, <3>2 DEF EnsureFails
  <2>3. acct.conv = "in_sync" /\ snap[r].plan = plan => gen'[plan] = "active"
    <3>1. acct.conv = "in_sync" /\ snap[r].plan = plan => ~snap[r].cand
      BY Zenon, <1>1, <1>4, <2>1 DEF Applied
    <3> QED BY <1>4, <1>7, <3>1, Zenon DEF EnsureFails
  <2>4. acct.conv = "in_sync" /\ snap[r].state = Effective /\ snap[r].plan = plan =>
                 /\ host'.acc /\ (host'.stray \/ (host'.site = Effective /\ host'.plan = plan))
                 /\ host'.svc = host.svc /\ host'.cache = host.cache
                 /\ gen'[plan] = "active"
    BY <1>4, <2>2, <2>3, Zenon
  <2> QED BY <1>2, <1>7, <2>1, <2>2, <2>4, Zenon DEF EnsureFails
<1>8. CASE ActivateFails(r)
  <2>1. pc[r] \in Holding \ {"load", "content"} /\ host' = host /\ gen' = gen
    BY Zenon, <1>3, <1>8 DEF ActivateFails
  <2> QED BY <1>2, <1>4, <1>8, <2>1, Zenon DEF ActivateFails
<1>9. CASE ServicesFail(r)
  <2>1. pc[r] = "services" /\ pc[r] \in Holding \ {"load", "content"} /\ gen' = gen
    BY Zenon, <1>3, <1>9 DEF ServicesFail
  <2>2. /\ host'.gone = host.gone /\ host'.acc = host.acc /\ host'.site = host.site
        /\ host'.plan = host.plan /\ host'.svc \in {host.svc, snap[r].state}
        /\ host'.cache \in {host.cache, snap[r].state} /\ host'.stray = host.stray
    BY Zenon, <1>1, <1>9 DEF ServicesFail, ServicesOn, HostState
  <2>3. acct.conv = "in_sync" /\ snap[r].state = Effective /\ snap[r].plan = plan =>
                 /\ host'.acc /\ (host'.stray \/ (host'.site = Effective /\ host'.plan = plan))
                 /\ host'.svc = host.svc /\ host'.cache = host.cache
                 /\ gen'[plan] = "active"
    BY <1>4, <2>1, <2>2, Zenon
  <2> QED BY <1>2, <1>9, <2>1, <2>2, <2>3, Zenon DEF ServicesFail
<1>10. CASE EnsureAbandoned(r) \/ QueryFails(r)
  <2>1. pc' = [pc EXCEPT ![r] = "idle"] /\ snap' = [snap EXCEPT ![r] = NoSnap]
    BY Zenon, <1>10 DEF EnsureAbandoned, QueryFails, Leave
  <2>2. \A q \in Rev : \/ pc'[q] \notin Holding \ {"load"}
                       \/ pc'[q] = pc[q] /\ snap'[q] = snap[q]
    BY Zenon, <1>1, <2>1 DEF Holding
  <2> QED BY <1>10, <2>2, QuietAcks, Zenon DEF EnsureAbandoned, QueryFails
<1> QED BY <1>6, <1>7, <1>8, <1>9, <1>10, Zenon DEF Fault

\* An abandoned call that is served leaves everything but the website alone.
LEMMA LateAcks ==
    ASSUME TInv, CInv, bill = "active", ServeLate
    PROVE  Provisioned' /\ (\A r \in Rev : Kept(r)') /\ AckedIsApplied'
<1>1. UNCHANGED <<sub, cust, bill, plan, rows, acct, gen, pc, snap, td>> /\ Effective' = Effective
  BY Zenon DEF ServeLate, intent, work, Effective
<1>2. /\ host'.acc /\ host'.stray /\ host'.svc = host.svc /\ host'.cache = host.cache
      /\ host'.gone = host.gone
  <2>1. PICK s \in Snapshot : host' = [EnsureOn(host, s) EXCEPT !.stray = TRUE]
    <3>1. PICK s \in late : host' = IF s = TeardownCall THEN Removed
                                   ELSE [EnsureOn(host, s) EXCEPT !.stray = TRUE]
      BY Zenon DEF ServeLate
    <3>2. s \in Snapshot
      BY Zenon DEF CInv, NoTeardown
    <3>3. s # TeardownCall
      <4>1. s.state \in Lifecycle
        BY Zenon, <3>2 DEF Snapshot
      <4>2. TeardownCall.state = "terminated"
        BY DEF TeardownCall, NoSnap
      <4> QED BY Zenon, <4>1, <4>2 DEF Lifecycle
    <3> QED BY Zenon, <3>1, <3>2, <3>3
  <2>2. host \in HostState
    BY Zenon DEF TInv, HostOK
  <2>3. PICK h \in HostState : h = EnsureOn(host, s)
    BY <2>2, HostTyped, Constants, Zenon
  <2>4. host' = [h EXCEPT !.stray = TRUE]
    BY Zenon, <2>1, <2>3
  <2>5. /\ host'.acc = h.acc /\ host'.stray /\ host'.svc = h.svc /\ host'.cache = h.cache
        /\ host'.gone = h.gone
    BY Zenon, <2>4 DEF HostState
  <2>6. h.acc /\ h.svc = host.svc /\ h.cache = host.cache /\ h.gone = host.gone
    BY Zenon, <2>2, <2>3, HostFields
  <2> QED BY Zenon, <2>5, <2>6
<1>3. Provisioned' /\ AckedIsApplied'
  BY <1>1, <1>2, Zenon DEF CInv, Provisioned, AckedIsApplied
<1>4. ASSUME NEW r \in Rev PROVE Kept(r)'
  <2>1. Seen(r) /\ Applied(r)
    BY Zenon DEF CInv, Kept
  <2>2. Seen(r)'
    BY <1>1, <2>1, Zenon DEF Seen
  <2>3. Applied(r)'
    BY <1>1, <1>2, <2>1, Zenon DEF Applied
  <2> QED BY Zenon, <2>2, <2>3 DEF Kept
<1> QED BY Zenon, <1>3, <1>4

\* While the account is not being purged, the calls that are abandoned are those
\* of convergences.
LEMMA NoTeardownStep ==
    ASSUME TInv, CInv, bill = "active", td.pc = "idle", ANext
    PROVE  late' \subseteq Snapshot
<1>1. late \subseteq Snapshot /\ \A r \in Rev : snap[r] \in Snapshot
  BY Zenon DEF CInv, NoTeardown, TInv, JobsOK
<1>2. CASE UNCHANGED late
  BY Zenon, <1>1, <1>2
<1>3. ASSUME NEW r \in Rev, late' = late \cup {snap[r]} PROVE late' \subseteq Snapshot
  BY Zenon, <1>1, <1>3
<1>4. CASE ServeLate
  BY Zenon, <1>1, <1>4 DEF ServeLate
<1>5. CASE Crash
  BY <1>2, <1>3, <1>5, Zenon DEF Crash
<1>6. ASSUME NEW r \in Rev, Fault(r) PROVE late' \subseteq Snapshot
  BY <1>2, <1>3, <1>6, Zenon DEF Fault, ShutdownFails, EnsureFails, EnsureAbandoned, ActivateFails,
         ServicesFail, QueryFails
<1>7. ASSUME NEW r \in Rev, Step(r) PROVE UNCHANGED late
  BY <1>7, Zenon DEF Step, Start, Lock, LoadAccount, LoadContent, Shutdown, Prepare, Ensure,
         Activate, Services, Mark, Finish, Rescue
<1>8. PanelStatus \/ LifecycleCheck \/ LifecycleApply \/ SetCustomer \/ ChangePlan \/ Purge => UNCHANGED late
  BY Zenon DEF PanelStatus, LifecycleCheck, LifecycleApply, SetStatus, SetCustomer, ChangePlan, Purge
<1>9. SweepRead \/ SweepInsert => UNCHANGED late
  BY Zenon DEF SweepRead, SweepInsert
<1>10. TdStep \/ TdFails => UNCHANGED late
  BY Zenon DEF TdStep, TdStart, TdSettled, TdCheck, TdCancel, TdCall, TdFinal, TdFinish, TdRescue, TdFails
<1>11. ~TdAbandoned
  BY Zenon DEF TdAbandoned
<1> QED BY <1>2, <1>4, <1>5, <1>6, <1>7, <1>8, <1>9, <1>10, <1>11, Zenon DEF ANext

\* Every step keeps the invariant.
LEMMA AcksStep == TInv /\ CInv /\ [ANext]_vars => CInv'
<1> SUFFICES ASSUME TInv, CInv, [ANext]_vars PROVE CInv'
  BY Zenon
<1>1. CASE ANext
  <2>1. Mutual' /\ TInv'
    BY Zenon, <1>1, MutualStep, TypesStep DEF CInv
  <2>2. CASE bill' # "active"
    BY <2>1, <2>2, Zenon DEF CInv, AckedIsApplied, NoTeardown
  <2>3. CASE bill' = "active"
    <3>1. bill = "active"
      <4>1. PurgeInv
        BY Zenon DEF TInv, IntentOK, PurgeInv, AccountRow
      <4> QED BY <1>1, <2>3, <4>1, IntentSteps, JobSteps, OtherSteps, Zenon
              DEF ANext, PurgeKept, PurgeInv, Purging
    <3>2. td.st = "none" /\ td.pc = "idle"
      BY Zenon, <3>1 DEF CInv, Provisioned
    <3>0. NoTeardown'
      BY <1>1, <3>1, <3>2, NoTeardownStep, Zenon DEF NoTeardown
    <3>3. CASE \/ PanelStatus \/ LifecycleCheck \/ LifecycleApply \/ SetCustomer \/ ChangePlan
               \/ Purge
      BY <2>1, <2>3, <3>1, <3>3, <3>0, IntentAcks, Zenon DEF CInv
    <3>4. ASSUME NEW r \in Rev, Step(r) \/ Fault(r) PROVE CInv'
      BY <2>1, <3>1, <3>0, <3>4, StepAcks, FaultAcks, Zenon DEF CInv
    <3>5. CASE SweepRead \/ SweepInsert
      BY <2>1, <3>1, <3>0, <3>5, QuietAcks, Zenon DEF CInv, SweepRead, SweepInsert, work
    <3>6. CASE Crash
      <4>1. td' = td /\ \A q \in Rev : pc'[q] \notin Holding
        BY Zenon, <3>2, <3>6 DEF Crash, Holding
      <4> QED BY <2>1, <3>1, <3>0, <3>6, <4>1, QuietAcks, Zenon DEF CInv, Crash
    <3>7. ~TdStep /\ ~TdFails /\ ~TdAbandoned
      BY Zenon, <3>2 DEF TdStep, TdStart, TdSettled, TdCheck, TdCancel, TdCall, TdFinal, TdFinish,
                  TdRescue, TdFails, TdAbandoned
    <3>8. CASE ServeLate
      BY <2>1, <3>0, <3>1, <3>8, LateAcks, Zenon DEF CInv
    <3> QED BY <1>1, <3>3, <3>4, <3>5, <3>6, <3>7, <3>8, Zenon DEF ANext
  <2> QED BY Zenon, <2>2, <2>3
<1>2. CASE UNCHANGED vars
  <2>1. UNCHANGED <<intent, acct, gen, host, td, pc, snap, mutex, bill>>
    BY Zenon, <1>2 DEF vars, intent
  <2>2. Mutual' /\ NoTeardown'
    BY Zenon, <1>2, <2>1 DEF vars, CInv, Mutual, NoTeardown
  <2>3. CASE bill = "active"
    BY <2>1, <2>2, <2>3, QuietAcks, Zenon DEF CInv
  <2>4. CASE bill # "active"
    BY <2>1, <2>2, <2>4, Zenon DEF CInv, AckedIsApplied
  <2> QED BY Zenon, <2>3, <2>4
<1> QED BY Zenon, <1>1, <1>2

\* An account shown as in sync is what the host has, however the jobs of its
\* revisions, the requests, the faults and the calls that jobs have given up
\* interleave; only the website may be what such a call has made of it since
\* (ConvergeSubscriptionWorker.Work, markAccountConvergence).
THEOREM AcknowledgedIsApplied == ASpec => []AckedIsApplied
<1>1. CInv => AckedIsApplied
  BY Zenon DEF CInv
<1> QED BY <1>1, AcksStep, AcksInit, TypesInit, TypesStep, PTL DEF ASpec
=============================================================================
