------------------------- MODULE SiteRemovalProofs --------------------------
(* The removal of a website by the control plane, for any number of        *)
(* workers, other jobs, sweeps, retries, attempts and faults.              *)
EXTENDS SiteRemoval, TLAPS

-----------------------------------------------------------------------------
(* Types, by part of the state.                                            *)

Label ==
    {"idle", "lock", "read", "drain", "count", "wait", "advance", "call", "record", "dns", "converge",
     "converged", "finalize", "fail"} \cup Outcome

Operation == [state: Active \cup {"none", "failed", "completed"}, rev: 0..MaxRev, done: SUBSET Checkpoint]
QueuedJob == [state: {"absent", "available", "running", "completed", "cancelled", "discarded"}, tries: 0..MaxAttempts]

DbOK == op \in Operation /\ site \in {"none", "queued", "removing", "failed", "gone"}

\* A waiting job has an attempt left, a running one uses one.
QueueOK ==
    /\ queue \in [Rev -> QueuedJob]
    /\ \A r \in Rev : /\ queue[r].state = "available" => queue[r].tries < MaxAttempts
                      /\ queue[r].state = "running" => queue[r].tries >= 1

TaskOK ==
    /\ task \in [Task -> {"absent", "available", "running", "completed", "cancelled", "discarded"}]
    /\ doing \in [Task -> {"nothing", "fence", "work", "cancelled", "completed", "available"}]

WorkOK ==
    /\ lock \in Worker \cup {NoWorker}
    /\ pc \in [Worker -> Label] /\ job \in [Worker -> 0..MaxRev]
    /\ stage \in [Worker -> Stage] /\ answer \in [Worker -> SUBSET Stage]
    /\ \A w \in Worker : pc[w] # "idle" => job[w] \in Rev

AgentOK == agent \in AgentJournal /\ late \subseteq [rev: Rev, stage: Stage]
SweepOK == sweep \in [Sweeper -> [at: {"idle", "active", "latest", "fail", "insert"}, rev: 0..MaxRev]]

\* A worker runs a job of its own.
Busy ==
    /\ \A w \in Worker : pc[w] # "idle" => queue[job[w]].state = "running"
    /\ \A v, w \in Worker : pc[v] # "idle" /\ pc[w] # "idle" /\ job[v] = job[w] => v = w

TInv == DbOK /\ QueueOK /\ TaskOK /\ WorkOK /\ AgentOK /\ SweepOK /\ Busy

LEMMA TInvIsEnough == TInv => RTypeOK
BY Zenon DEF TInv, DbOK, Operation, QueueOK, QueuedJob, TaskOK, WorkOK, AgentOK, RTypeOK

LEMMA TypeInit == RInit => TInv
<1>. SUFFICES ASSUME RInit PROVE TInv
  BY Zenon
<1>1. DbOK /\ AgentOK
  BY RemovalAssumption DEF RInit, AgentInit, AgentJournal, DbOK, Operation, AgentOK
<1>2. QueueOK
  BY RemovalAssumption DEF RInit, NoJob, QueueOK, QueuedJob
<1>3. WorkOK
  BY RemovalAssumption DEF RInit, WorkOK, Label, Stage
<1>4. TaskOK /\ SweepOK /\ Busy
  BY RemovalAssumption DEF RInit, TaskOK, SweepOK, Busy
<1>. QED
  BY Zenon, <1>1, <1>2, <1>3, <1>4 DEF TInv

\* A step that leaves a part of the state alone.
LEMMA Frames ==
    /\ DbOK /\ UNCHANGED dbVars => DbOK'
    /\ QueueOK /\ UNCHANGED queue => QueueOK'
    /\ TaskOK /\ UNCHANGED tVars => TaskOK'
    /\ WorkOK /\ UNCHANGED <<lock, wVars>> => WorkOK'
    /\ AgentOK /\ UNCHANGED <<agent, late>> => AgentOK'
    /\ SweepOK /\ UNCHANGED sweep => SweepOK'
BY Zenon DEF DbOK, QueueOK, TaskOK, WorkOK, AgentOK, SweepOK, dbVars, tVars, wVars

LEMMA BusyKept ==
    ASSUME Busy, WorkOK, \A r \in Rev : queue[r].state = "running" => queue'[r].state = "running",
           \A w \in Worker : pc'[w] # "idle" => pc[w] # "idle" /\ job'[w] = job[w]
    PROVE  Busy'
BY Zenon DEF Busy, WorkOK

\* The queue records an outcome within the limit of attempts.
LEMMA RecordedTyped ==
    ASSUME NEW j \in QueuedJob, j.state = "running", j.tries >= 1, NEW o \in Outcome
    PROVE  /\ Recorded(j, o) \in QueuedJob /\ Recorded(j, o).state # "running"
           /\ Recorded(j, o).state = "available" => Recorded(j, o).tries < MaxAttempts
           /\ o \in {"nil", "cancel"} => Recorded(j, o).state \in {"completed", "cancelled"}
           /\ o \in {"snooze", "error"} => Recorded(j, o).state \in {"available", "discarded"}
<1>1. MaxAttempts \in Nat \ {0}
  BY Zenon, RemovalAssumption
<1>2. CASE o = "nil"
  BY Zenon, <1>1, <1>2 DEF Recorded, QueuedJob
<1>3. CASE o = "cancel"
  BY Zenon, <1>1, <1>3 DEF Recorded, QueuedJob
<1>4. CASE o = "snooze"
  BY <1>1, <1>4 DEF Recorded, QueuedJob
<1>5. CASE o = "error"
  BY Zenon, <1>1, <1>5 DEF Recorded, QueuedJob
<1>. QED
  BY Zenon, <1>2, <1>3, <1>4, <1>5 DEF Outcome

\* One job of the queue is replaced.
LEMMA QueueWrite ==
    ASSUME QueueOK, NEW r, NEW j \in QueuedJob, queue' = [queue EXCEPT ![r] = j],
           j.state = "available" => j.tries < MaxAttempts, j.state = "running" => j.tries >= 1
    PROVE  QueueOK' /\ \A q \in Rev : queue'[q] = IF q = r THEN j ELSE queue[q]
<1>1. \A q \in Rev : queue'[q] = IF q = r THEN j ELSE queue[q]
  BY Zenon DEF QueueOK
<1>2. queue' \in [Rev -> QueuedJob]
  BY Zenon DEF QueueOK
<1>. QED
  BY <1>1, <1>2, Zenon DEF QueueOK

\* A job is inserted as available, unless one is waiting or running.
LEMMA InsertEffect ==
    ASSUME QueueOK, NEW r, Insert(r)
    PROVE  /\ QueueOK'
           /\ \A q \in Rev : \/ queue'[q] = queue[q]
                             \/ q = r /\ ~InQueue(r) /\ queue'[q].state = "available"
           /\ r \in Rev => InQueue(r)'
<1>1. PICK j : j = [state |-> "available", tries |-> 0]
  BY Zenon
<1>2. j \in QueuedJob /\ j.state = "available" /\ j.tries < MaxAttempts
  BY <1>1, RemovalAssumption DEF QueuedJob
<1>3. CASE InQueue(r)
  BY <1>3, Frames, Zenon DEF Insert, InQueue
<1>4. CASE ~InQueue(r)
  <2>1. queue' = [queue EXCEPT ![r] = j]
    BY <1>1, <1>4, Zenon DEF Insert
  <2>2. QueueOK' /\ \A q \in Rev : queue'[q] = IF q = r THEN j ELSE queue[q]
    BY <1>2, <2>1, QueueWrite, Zenon
  <2>. QED
    BY <1>2, <1>4, <2>2, Zenon DEF InQueue
<1>. QED
  BY <1>3, <1>4, Zenon

\* A worker moves to another label, or returns and lets go of the lock.
LEMMA GotoTyped ==
    ASSUME WorkOK, NEW w \in Worker, NEW l \in Label \ {"idle"}, pc[w] # "idle", Goto(w, l),
           lock' \in {lock, w}, job' = job, stage' = stage, answer' = answer
    PROVE  WorkOK'
<1>1. pc' \in [Worker -> Label] /\ \A v \in Worker : pc'[v] # "idle" => pc[v] # "idle"
  BY Zenon DEF WorkOK, Goto
<1>. QED
  BY Zenon, <1>1 DEF WorkOK

LEMMA ReturnTyped ==
    ASSUME WorkOK, NEW w \in Worker, NEW o \in Outcome, pc[w] # "idle", Return(w, o), job' = job
    PROVE  WorkOK'
<1>1. o \in Label \ {"idle"}
  BY Zenon DEF Label, Outcome
<1>2. pc' \in [Worker -> Label] /\ \A v \in Worker : pc'[v] # "idle" => pc[v] # "idle"
  BY <1>1, Zenon DEF WorkOK, Return, Goto
<1>3. lock' \in Worker \cup {NoWorker} /\ stage' \in [Worker -> Stage] /\ answer' \in [Worker -> SUBSET Stage]
  BY Zenon DEF WorkOK, Return, Stage
<1>. QED
  BY Zenon, <1>2, <1>3 DEF WorkOK

\* What the agent does with a request leaves a journal.
LEMMA ServeTyped ==
    ASSUME agent \in AgentJournal, NEW r \in Nat, NEW st \in Stage, Serve(r, st) \/ Begin(r)
    PROVE  agent' \in AgentJournal
<1>1. CASE agent' = agent
  BY Zenon, <1>1
<1>2. CASE Perform(st, r)
  <2>1. PICK b \in BOOLEAN : b = (st = "finalize")
    BY Zenon
  <2>2. PICK d \in SUBSET Stage : d = agent.done \cup {st}
    BY Zenon DEF AgentJournal
  <2>3. agent' = [rev |-> r, done |-> d, complete |-> b]
    BY <1>2, <2>1, <2>2, Zenon DEF Perform
  <2>. QED
    BY Zenon, <2>3 DEF AgentJournal
<1>3. CASE Begin(r)
  BY Zenon, <1>3 DEF Begin, AgentJournal
<1>. QED
  BY <1>1, <1>2, <1>3, Zenon DEF Serve

LEMMA OperatorTyped == ASSUME TInv, Request \/ Retry PROVE TInv'
<1>1. PICK r : Insert(r)
  BY Zenon DEF Request, Retry
<1>2. DbOK'
  <2>1. CASE Request
    BY <2>1, RemovalAssumption DEF Request, DbOK, Operation, Active
  <2>2. CASE Retry
    <3>1. op \in Operation
      BY Zenon DEF TInv, DbOK
    <3>2. op.rev + 1 \in 0..MaxRev
      BY <2>2, <3>1, RemovalAssumption DEF Operation, Retry
    <3>. QED
      BY <2>2, <3>1, <3>2, Zenon DEF Retry, DbOK, Operation, Active
  <2>. QED
    BY Zenon, <2>1, <2>2
<1>3. UNCHANGED <<agent, tVars, lock, wVars, late, sweep>>
  BY Zenon DEF Request, Retry
<1>4. QueueOK'
  BY <1>1, InsertEffect, Zenon DEF TInv
<1>5. \A q \in Rev : queue[q].state = "running" => queue'[q].state = "running"
  BY <1>1, InsertEffect, Zenon DEF TInv, InQueue
<1>. QED
  BY Zenon, <1>2, <1>3, <1>4, <1>5, Frames, BusyKept DEF TInv, wVars

LEMMA TaskTyped == ASSUME TInv, NEW t \in Task, TaskStep(t) PROVE TInv'
<1>1. TaskOK'
  BY Zenon DEF TaskStep, InsertTask, FetchTask, FenceTask, EndTask, ReportTask, RescueTask, TInv, TaskOK
<1>2. UNCHANGED <<dbVars, queue, lock, wVars, agent, late, sweep>>
  BY Zenon DEF TaskStep, InsertTask, FetchTask, FenceTask, EndTask, ReportTask, RescueTask, taskFrame, dbVars
<1>. QED
  BY Zenon, <1>1, <1>2, Frames, BusyKept DEF TInv, wVars

\* failRemoval writes the two rows or nothing.
LEMMA FailRemovalTyped == ASSUME DbOK, NEW r, FailRemoval(r) PROVE DbOK'
<1>1. CASE op' = op /\ site' = site
  BY Zenon, <1>1 DEF DbOK
<1>2. CASE op' = [op EXCEPT !.state = "failed"] /\ site' = "failed"
  BY Zenon, <1>2 DEF DbOK, Operation
<1>. QED
  BY Zenon, <1>1, <1>2 DEF FailRemoval, dbVars

LEMMA SweepTyped == ASSUME TInv, NEW s \in Sweeper, SweepStep(s) PROVE TInv'
<1>1. UNCHANGED <<agent, late, tVars, lock, wVars>>
  BY Zenon DEF SweepStep, SweepRead, SweepActive, SweepLatest, SweepFail, SweepInsert, sFrame
<1>2. SweepOK'
  <2>1. op.rev \in 0..MaxRev
    BY Zenon DEF TInv, DbOK, Operation
  <2>2. CASE SweepRead(s)
    BY Zenon, <2>1, <2>2 DEF SweepRead, TInv, SweepOK
  <2>3. CASE ~SweepRead(s)
    BY <2>3 DEF SweepStep, SweepActive, SweepLatest, SweepFail, SweepInsert, TInv, SweepOK
  <2>. QED
    BY Zenon, <2>2, <2>3
<1>3. DbOK'
  <2>1. UNCHANGED dbVars \/ \E r : FailRemoval(r)
    BY Zenon DEF SweepStep, SweepRead, SweepActive, SweepLatest, SweepFail, SweepInsert
  <2>. QED
    BY Zenon, <2>1, FailRemovalTyped, Frames DEF TInv
<1>4. UNCHANGED queue \/ \E r : Insert(r)
  BY Zenon DEF SweepStep, SweepRead, SweepActive, SweepLatest, SweepFail, SweepInsert
<1>5. QueueOK' /\ \A q \in Rev : queue[q].state = "running" => queue'[q].state = "running"
  BY <1>4, InsertEffect, Frames, Zenon DEF TInv, InQueue
<1>. QED
  BY Zenon, <1>1, <1>2, <1>3, <1>5, Frames, BusyKept DEF TInv, wVars

\* The steps of the queue itself.
LEMMA QueueTyped ==
    ASSUME TInv, NEW r \in Rev, Rescue(r) \/ Clean(r) \/ \E w \in Worker : Fetch(w, r)
    PROVE  TInv'
<1>1. QueueOK /\ queue[r] \in QueuedJob /\ MaxAttempts \in Nat \ {0}
  BY Zenon, RemovalAssumption DEF TInv, QueueOK
<1>2. CASE Rescue(r)
  <2>1. PICK j : j = Recorded(queue[r], "error")
    BY Zenon
  <2>2. queue[r].state = "running" /\ queue[r].tries >= 1 /\ queue' = [queue EXCEPT ![r] = j]
    BY Zenon, <1>1, <1>2, <2>1 DEF Rescue, QueueOK
  <2>3. QueueOK' /\ \A q \in Rev : q # r => queue'[q] = queue[q]
    <3>1. j \in QueuedJob /\ j.state # "running" /\ (j.state = "available" => j.tries < MaxAttempts)
      BY <1>1, <2>1, <2>2, RecordedTyped, Zenon DEF Outcome
    <3>2. QueueOK' /\ \A q \in Rev : queue'[q] = IF q = r THEN j ELSE queue[q]
      BY <1>1, <2>2, <3>1, QueueWrite, Zenon
    <3>. QED
      BY <3>2, Zenon
  <2>4. UNCHANGED <<agent, late, tVars, sweep, dbVars, lock, wVars>> /\ \A w \in Worker : job[w] # r
    BY Zenon, <1>2 DEF Rescue, wFrame
  <2>5. Busy'
    BY Zenon, <2>3, <2>4 DEF TInv, Busy, WorkOK, wVars
  <2>. QED
    BY Zenon, <2>3, <2>4, <2>5, Frames DEF TInv
<1>3. CASE Clean(r)
  <2>1. NoJob \in QueuedJob /\ NoJob.state = "absent"
    BY <1>1 DEF NoJob, QueuedJob
  <2>2. QueueOK' /\ \A q \in Rev : queue[q].state = "running" => queue'[q].state = "running"
    <3>1. queue' = [queue EXCEPT ![r] = NoJob] /\ queue[r].state # "running"
      BY Zenon, <1>3 DEF Clean
    <3>2. QueueOK' /\ \A q \in Rev : queue'[q] = IF q = r THEN NoJob ELSE queue[q]
      BY <1>1, <2>1, <3>1, QueueWrite, Zenon
    <3>. QED
      BY <3>1, <3>2, Zenon
  <2>3. UNCHANGED <<agent, late, tVars, sweep, dbVars, lock, wVars>>
    BY Zenon, <1>3 DEF Clean
  <2>. QED
    BY Zenon, <2>2, <2>3, Frames, BusyKept DEF TInv, wVars
<1>4. ASSUME NEW w \in Worker, Fetch(w, r) PROVE TInv'
  <2>1. PICK j : j = [state |-> "running", tries |-> queue[r].tries + 1]
    BY Zenon
  <2>2. queue' = [queue EXCEPT ![r] = j] /\ queue[r].state = "available"
    BY Zenon, <1>4, <2>1 DEF Fetch
  <2>3. j \in QueuedJob /\ j.state = "running" /\ j.tries >= 1
    BY <1>1, <2>1, <2>2 DEF QueuedJob, QueueOK
  <2>4. QueueOK' /\ \A q \in Rev : queue'[q] = IF q = r THEN j ELSE queue[q]
    BY <1>1, <2>2, <2>3, QueueWrite, Zenon
  <2>5. WorkOK'
    <3>1. pc' \in [Worker -> Label] /\ job' \in [Worker -> 0..MaxRev]
      BY <1>4 DEF Fetch, Goto, TInv, WorkOK, Label, Rev
    <3>2. \A v \in Worker : pc'[v] # "idle" => job'[v] \in Rev
      BY Zenon, <1>4 DEF Fetch, Goto, TInv, WorkOK
    <3>. QED
      BY Zenon, <1>4, <3>1, <3>2 DEF Fetch, TInv, WorkOK
  <2>6. \A v \in Worker : /\ pc'[v] # "idle" => v = w \/ pc[v] # "idle"
                          /\ job'[v] = IF v = w THEN r ELSE job[v]
    BY Zenon, <1>4 DEF Fetch, Goto, TInv, WorkOK
  <2>7. \A v \in Worker : pc[v] # "idle" => job[v] \in Rev /\ queue[job[v]].state = "running" /\ job[v] # r
    BY Zenon, <2>2 DEF TInv, Busy, WorkOK
  <2>8. Busy'
    BY <2>3, <2>4, <2>6, <2>7 DEF TInv, Busy
  <2>9. UNCHANGED <<agent, late, tVars, sweep, dbVars>>
    BY Zenon, <1>4 DEF Fetch, wFrame
  <2>. QED
    BY Zenon, <2>4, <2>5, <2>8, <2>9, Frames DEF TInv
<1>. QED
  BY Zenon, <1>2, <1>3, <1>4

\* What advanceRemoval does to the rows.
Advanced(w, c) ==
    /\ Current(w)
    /\ op' = [op EXCEPT !.state = "running", !.done = @ \cup c]
    /\ site' = "removing"

LEMMA AdvanceTyped ==
    ASSUME DbOK, NEW w \in Worker, NEW c \in SUBSET Checkpoint, Advanced(w, c)
    PROVE  DbOK'
BY Zenon DEF Advanced, DbOK, Operation, Active

LEMMA StepAdvances ==
    ASSUME NEW w \in Worker, EnterStage(w) \/ RecordStage(w) \/ RecordConverged(w)
    PROVE  \/ UNCHANGED dbVars /\ ~Current(w) /\ Return(w, "error")
           \/ /\ EnterStage(w) => Advanced(w, {}) /\ Goto(w, "call")
              /\ RecordStage(w) => Advanced(w, answer[w])
              /\ RecordConverged(w) => Advanced(w, {"surviving-access", "surviving-mail"})
<1>1. ASSUME pc[w] = "advance", EnterStage(w)
      PROVE  \/ UNCHANGED dbVars /\ ~Current(w) /\ Return(w, "error")
             \/ Advanced(w, {}) /\ Goto(w, "call")
  BY <1>1, Zenon DEF EnterStage, Advance, Advanced
<1>2. ASSUME pc[w] = "record", RecordStage(w)
      PROVE  \/ UNCHANGED dbVars /\ ~Current(w) /\ Return(w, "error")
             \/ Advanced(w, answer[w])
  BY <1>2, Zenon DEF RecordStage, Advance, Advanced
<1>3. ASSUME pc[w] = "converged", RecordConverged(w)
      PROVE  \/ UNCHANGED dbVars /\ ~Current(w) /\ Return(w, "error")
             \/ Advanced(w, {"surviving-access", "surviving-mail"})
  BY <1>3, Zenon DEF RecordConverged, Advance, Advanced
<1>4. /\ EnterStage(w) => pc[w] = "advance"
      /\ RecordStage(w) => pc[w] = "record"
      /\ RecordConverged(w) => pc[w] = "converged"
  BY Zenon DEF EnterStage, RecordStage, RecordConverged
<1>. QED
  BY Zenon, <1>1, <1>2, <1>3, <1>4

\* The steps of a worker: what they leave alone, and what they do to the
\* worker's own variables.
WorkerMove(w) ==
    \/ \E l \in Label \ {"idle"} : Goto(w, l) /\ lock' \in {lock, w} /\ job' = job /\ stage' = stage /\ answer' = answer
    \/ \E o \in Outcome : Return(w, o) /\ job' = job
    \/ pc[w] \in {"record", "converged"} /\ job' = job /\ ToStage(w, NextStage(stage[w]))
    \/ CallAgent(w)
    \/ Report(w)

LEMMA StepIsMove ==
    ASSUME NEW w \in Worker, WorkStep(w) \/ WorkFault(w)
    PROVE  WorkerMove(w) /\ pc[w] # "idle"
<1>. USE DEF WorkerMove, Label, Outcome
<1>1. CASE TryLock(w) \/ ReadOperation(w) \/ CancelTasks(w) \/ CountTasks(w) \/ Wait(w)
  <2>1. CASE TryLock(w)
    BY <2>1, Zenon DEF TryLock
  <2>2. CASE ReadOperation(w)
    BY <2>2, Zenon DEF ReadOperation
  <2>3. CASE CancelTasks(w)
    BY <2>3, Zenon DEF CancelTasks
  <2>4. CASE CountTasks(w)
    BY <2>4, Zenon DEF CountTasks, wFrame
  <2>5. CASE Wait(w)
    BY <2>5, Zenon DEF Wait
  <2>. QED
    BY Zenon, <1>1, <2>1, <2>2, <2>3, <2>4, <2>5
<1>2. CASE EnterStage(w) \/ CallAgent(w) \/ RecordStage(w) \/ RecordConverged(w)
  <2>1. CASE EnterStage(w)
    BY <2>1, Zenon DEF EnterStage, Advance
  <2>2. CASE RecordStage(w)
    <3>1. CASE Return(w, "error") /\ job' = job
      BY <2>2, <3>1, Zenon DEF RecordStage
    <3>2. CASE ~Return(w, "error")
      <4>1. /\ pc[w] = "record" /\ job' = job
            /\ CASE stage[w] = "shared"   -> Goto(w, "dns") /\ UNCHANGED <<lock, stage, answer>>
                 [] stage[w] = "finalize" -> Goto(w, "finalize") /\ UNCHANGED <<lock, stage, answer>>
                 [] OTHER                 -> ToStage(w, NextStage(stage[w]))
        BY <2>2, <3>2, Zenon DEF RecordStage, Advance
      <4>. QED
        BY Zenon, <4>1
    <3>. QED
      BY <2>2, <3>1, <3>2, Zenon DEF RecordStage
  <2>3. CASE RecordConverged(w)
    BY <2>3, Zenon DEF RecordConverged, Advance
  <2>. QED
    BY <1>2, <2>1, <2>2, <2>3, Zenon DEF CallAgent
<1>3. CASE PrepareDNS(w) \/ Converge(w) \/ Finalize(w) \/ Fail(w) \/ Report(w)
  <2>1. CASE PrepareDNS(w) \/ Converge(w)
    BY Zenon, <2>1 DEF PrepareDNS, Converge
  <2>2. CASE Finalize(w)
    BY Zenon, <2>2 DEF Finalize
  <2>3. CASE Fail(w) \/ Report(w)
    BY Zenon, <2>3 DEF Fail, Report
  <2>. QED
    BY Zenon, <1>3, <2>1, <2>2, <2>3
<1>4. CASE CallFails(w) \/ ConvergeFails(w) \/ FinalizeFails(w) \/ StepFails(w)
  BY Zenon, <1>4 DEF CallFails, ConvergeFails, FinalizeFails, StepFails
<1>. QED
  BY Zenon, <1>1, <1>2, <1>3, <1>4 DEF WorkStep, WorkFault

\* What the steps of a worker leave alone.
LEMMA StepFrame ==
    ASSUME NEW w \in Worker, WorkStep(w) \/ WorkFault(w)
    PROVE  /\ doing' = doing /\ sweep' = sweep /\ cleans' = cleans
           /\ task' = task \/ CancelTasks(w)
           /\ (agent' = agent /\ late' = late) \/ CallAgent(w) \/ CallFails(w)
           /\ (queue' = queue /\ job' = job) \/ Report(w)
           /\ \/ op' = op /\ site' = site
              \/ Wait(w) \/ PrepareDNS(w) \/ Finalize(w) \/ Fail(w)
              \/ EnterStage(w) \/ RecordStage(w) \/ RecordConverged(w)
<1>. USE DEF wFrame, tVars, dbVars
<1>1. CASE TryLock(w) \/ ReadOperation(w) \/ CancelTasks(w) \/ CountTasks(w) \/ Wait(w)
  BY <1>1, Zenon DEF TryLock, ReadOperation, CancelTasks, CountTasks, Wait
<1>2. CASE EnterStage(w) \/ RecordStage(w) \/ RecordConverged(w)
  BY <1>2, Zenon DEF EnterStage, RecordStage, RecordConverged
<1>3. CASE CallAgent(w) \/ PrepareDNS(w) \/ Converge(w)
  BY <1>3, Zenon DEF CallAgent, PrepareDNS, Converge
<1>4. CASE Finalize(w) \/ Fail(w) \/ Report(w)
  BY <1>4, Zenon DEF Finalize, Fail, Report
<1>5. CASE CallFails(w) \/ ConvergeFails(w) \/ FinalizeFails(w) \/ StepFails(w)
  BY <1>5, Zenon DEF CallFails, ConvergeFails, FinalizeFails, StepFails
<1>. QED
  BY <1>1, <1>2, <1>3, <1>4, <1>5, Zenon DEF WorkStep, WorkFault

LEMMA MoveTyped == ASSUME TInv, NEW w \in Worker, WorkerMove(w), pc[w] # "idle" PROVE WorkOK'
<1>1. WorkOK /\ stage[w] \in Stage
  BY Zenon DEF TInv, WorkOK
<1>2. CASE \E l \in Label \ {"idle"} : Goto(w, l) /\ lock' \in {lock, w} /\ job' = job /\ stage' = stage /\ answer' = answer
  BY Zenon, <1>1, <1>2, GotoTyped
<1>3. CASE \E o \in Outcome : Return(w, o) /\ job' = job
  BY Zenon, <1>1, <1>3, ReturnTyped
<1>4. CASE job' = job /\ ToStage(w, NextStage(stage[w]))
  <2>1. NextStage(stage[w]) \in Stage
    BY Zenon DEF NextStage, Stage
  <2>2. /\ pc' \in [Worker -> Label] /\ \A v \in Worker : pc'[v] # "idle" => pc[v] # "idle"
        /\ stage' \in [Worker -> Stage]
    BY Zenon, <1>1, <1>4, <2>1 DEF ToStage, Goto, WorkOK, Label
  <2>. QED
    BY Zenon, <1>1, <1>4, <2>2 DEF ToStage, WorkOK
<1>5. CASE CallAgent(w)
  <2>1. agent'.done \subseteq Stage \/ answer' = answer
    <3>1. job[w] \in Nat /\ agent \in AgentJournal
      BY <1>1 DEF WorkOK, TInv, AgentOK, Rev
    <3>2. CASE Serve(job[w], stage[w])
      BY Zenon, <1>1, <3>1, <3>2, ServeTyped DEF AgentJournal
    <3>. QED
      BY Zenon, <1>5, <3>2 DEF CallAgent
  <2>2. answer' \in [Worker -> SUBSET Stage]
    BY Zenon, <1>1, <1>5, <2>1 DEF CallAgent, WorkOK
  <2>3. pc' \in [Worker -> Label] /\ \A v \in Worker : pc'[v] # "idle" => pc[v] # "idle"
    BY Zenon, <1>1, <1>5 DEF CallAgent, Goto, WorkOK, Label
  <2>. QED
    BY Zenon, <1>1, <1>5, <2>2, <2>3 DEF CallAgent, WorkOK
<1>6. CASE Report(w)
  <2>1. /\ pc' \in [Worker -> Label] /\ job' \in [Worker -> 0..MaxRev]
        /\ \A v \in Worker : pc'[v] # "idle" => pc[v] # "idle" /\ job'[v] = job[v]
    BY <1>1, <1>6, RemovalAssumption DEF Report, Goto, WorkOK, Label
  <2>. QED
    BY Zenon, <1>1, <1>6, <2>1 DEF Report, WorkOK
<1>. QED
  BY Zenon, <1>2, <1>3, <1>4, <1>5, <1>6 DEF WorkerMove

\* What the steps of a worker do to the rows, the queue and the agent.
LEMMA WorkTyped == ASSUME TInv, NEW w \in Worker, WorkStep(w) \/ WorkFault(w) PROVE TInv'
<1>1. WorkOK' /\ pc[w] # "idle"
  BY Zenon, MoveTyped, StepIsMove
<1>2. /\ DbOK /\ job[w] \in Rev /\ Rev \subseteq Nat /\ stage[w] \in Stage
      /\ answer[w] \in SUBSET Checkpoint /\ agent \in AgentJournal
  BY <1>1 DEF TInv, WorkOK, AgentOK, Rev, Checkpoint, Required
<1>3. DbOK'
  <2>1. CASE Wait(w) \/ PrepareDNS(w)
    BY <1>2, <2>1 DEF Wait, PrepareDNS, DbOK, Operation, Active, Checkpoint
  <2>2. CASE Finalize(w)
    BY Zenon, <1>2, <2>2 DEF Finalize, DbOK, Operation, dbVars
  <2>3. CASE Fail(w)
    BY Zenon, <1>2, <2>3, FailRemovalTyped DEF Fail
  <2>4. CASE EnterStage(w) \/ RecordStage(w) \/ RecordConverged(w)
    <3>1. UNCHANGED dbVars \/ \E c \in {{}, answer[w], {"surviving-access", "surviving-mail"}} : Advanced(w, c)
      BY Zenon, <2>4, StepAdvances
    <3>2. {{}, answer[w], {"surviving-access", "surviving-mail"}} \subseteq SUBSET Checkpoint
      BY Zenon, <1>2 DEF Checkpoint, Required
    <3>. QED
      BY Zenon, <1>2, <3>1, <3>2, AdvanceTyped, Frames
  <2>5. CASE op' = op /\ site' = site
    BY Zenon, <1>2, <2>5 DEF DbOK
  <2>. QED
    BY <2>1, <2>2, <2>3, <2>4, <2>5, StepFrame, Zenon
<1>4. QueueOK' /\ Busy'
  <2>1. CASE Report(w)
    <3>1. PICK j : j = Recorded(queue[job[w]], pc[w])
      BY Zenon
    <3>2. queue' = [queue EXCEPT ![job[w]] = j] /\ pc[w] \in Outcome
      BY <2>1, <3>1, Zenon DEF Report
    <3>3. queue[job[w]] \in QueuedJob /\ queue[job[w]].state = "running" /\ queue[job[w]].tries >= 1
      BY <1>1, <1>2, Zenon DEF TInv, QueueOK, Busy
    <3>4. QueueOK' /\ \A q \in Rev : q # job[w] => queue'[q] = queue[q]
      <4>1. j \in QueuedJob /\ j.state # "running" /\ (j.state = "available" => j.tries < MaxAttempts)
        BY <3>1, <3>2, <3>3, RecordedTyped, Zenon
      <4>2. QueueOK' /\ \A q \in Rev : queue'[q] = IF q = job[w] THEN j ELSE queue[q]
        BY <3>2, <4>1, QueueWrite, Zenon DEF TInv
      <4>. QED
        BY <4>2, Zenon
    <3>5. \A v \in Worker : pc'[v] # "idle" => v # w /\ pc[v] # "idle" /\ job'[v] = job[v]
      BY Zenon, <2>1 DEF Report, Goto, TInv, WorkOK
    <3>6. \A v \in Worker : pc'[v] # "idle" => job[v] \in Rev /\ job[v] # job[w]
      BY <1>1, <3>5, Zenon DEF TInv, WorkOK, Busy
    <3>. QED
      BY <3>4, <3>5, <3>6, ZenonT(40) DEF TInv, Busy
  <2>2. CASE ~Report(w)
    <3>1. queue' = queue /\ job' = job
      BY <2>2, StepFrame, Zenon
    <3>2. \A v \in Worker : pc'[v] # "idle" => pc[v] # "idle"
      <4>1. \E l : Goto(w, l)
        BY <2>2, StepIsMove, Zenon DEF WorkerMove, Return, ToStage, CallAgent
      <4>. QED
        BY <1>1, <4>1, Zenon DEF Goto, TInv, WorkOK
    <3>. QED
      BY Zenon, <3>1, <3>2, Frames, BusyKept DEF TInv
  <2>. QED
    BY Zenon, <2>1, <2>2
<1>5. AgentOK'
  <2>1. CASE CallAgent(w)
    <3>1. agent' = agent \/ Serve(job[w], stage[w])
      BY <2>1, Zenon DEF CallAgent
    <3>2. agent' \in AgentJournal
      BY <1>2, <3>1, ServeTyped, Zenon
    <3>. QED
      BY Zenon, <2>1, <3>2 DEF CallAgent, TInv, AgentOK
  <2>2. CASE CallFails(w)
    <3>1. agent' = agent \/ Begin(job[w])
      BY Zenon, <2>2 DEF CallFails
    <3>2. late' = late \/ late' = late \cup {[rev |-> job[w], stage |-> stage[w]]}
      BY Zenon, <2>2 DEF CallFails
    <3>3. agent' \in AgentJournal
      BY <1>2, <3>1, ServeTyped, Zenon
    <3>. QED
      BY <1>2, <3>2, <3>3 DEF TInv, AgentOK
  <2>3. CASE ~CallAgent(w) /\ ~CallFails(w)
    BY <2>3, StepFrame, Zenon DEF TInv, AgentOK
  <2>. QED
    BY Zenon, <2>1, <2>2, <2>3
<1>6. TaskOK' /\ SweepOK'
  <2>2. doing' = doing /\ sweep' = sweep /\ (task' = task \/ CancelTasks(w))
    BY StepFrame, Zenon
  <2>3. task' \in [Task -> {"absent", "available", "running", "completed", "cancelled", "discarded"}]
    BY Zenon, <2>2 DEF CancelTasks, TInv, TaskOK
  <2>. QED
    BY <2>2, <2>3, Zenon DEF TInv, TaskOK, SweepOK
<1>. QED
  BY Zenon, <1>1, <1>3, <1>4, <1>5, <1>6 DEF TInv

LEMMA ServeLateTyped == ASSUME TInv, ServeLate PROVE TInv'
<1>1. PICK c \in late : late' = late \ {c} /\ (agent' = agent \/ Serve(c.rev, c.stage))
  BY Zenon DEF ServeLate
<1>2. c.rev \in Nat /\ c.stage \in Stage /\ agent \in AgentJournal
  BY <1>1 DEF TInv, AgentOK, Rev
<1>3. agent' \in AgentJournal
  BY Zenon, <1>1, <1>2, ServeTyped
<1>4. AgentOK'
  BY Zenon, <1>1, <1>3 DEF TInv, AgentOK
<1>5. UNCHANGED <<dbVars, queue, tVars, lock, wVars, sweep>>
  BY Zenon DEF ServeLate
<1>. QED
  BY Zenon, <1>4, <1>5, Frames, BusyKept DEF TInv, wVars

LEMMA CrashTyped == ASSUME TInv, Crash PROVE TInv'
<1>1. late' \subseteq [rev: Rev, stage: Stage]
  <2>1. ASSUME NEW v \in Worker, pc[v] = "call" PROVE [rev |-> job[v], stage |-> stage[v]] \in [rev: Rev, stage: Stage]
    BY Zenon, <2>1 DEF TInv, WorkOK
  <2>. QED
    BY Zenon, <2>1 DEF Crash, TInv, AgentOK
<1>2. AgentOK'
  BY Zenon, <1>1 DEF Crash, TInv, AgentOK
<1>3. WorkOK' /\ Busy'
  BY RemovalAssumption DEF Crash, WorkOK, Busy, Label, Stage
<1>4. TaskOK' /\ SweepOK'
  BY RemovalAssumption DEF Crash, TInv, TaskOK, SweepOK
<1>5. UNCHANGED <<dbVars, queue>>
  BY Zenon DEF Crash
<1>. QED
  BY Zenon, <1>2, <1>3, <1>4, <1>5, Frames DEF TInv

LEMMA TypeStep == TInv /\ [RNext]_rvars => TInv'
<1>. SUFFICES ASSUME TInv, [RNext]_rvars PROVE TInv'
  BY Zenon
<1>1. CASE UNCHANGED rvars
  BY Zenon, <1>1, Frames, BusyKept DEF rvars, TInv, dbVars, tVars, wVars
<1>2. CASE RNext
  BY <1>2, OperatorTyped, ServeLateTyped, CrashTyped, TaskTyped, WorkTyped, QueueTyped, SweepTyped, Zenon DEF RNext
<1>. QED
  BY Zenon, <1>1, <1>2

LEMMA Types == RSpec => []TInv
BY TypeInit, TypeStep, PTL DEF RSpec

\* For any workers, jobs, sweeps, retries and faults the state is well typed; in
\* particular the queue never gives a job more attempts than it has
\* (RemoveSiteWorker.Work).
THEOREM RemovalIsTyped == RSpec => []RTypeOK
BY Types, TInvIsEnough, PTL

-----------------------------------------------------------------------------
(* No other job of the website is at work during the teardown.             *)
(*                                                                         *)
(* A job that passed the fence is shown as running until it has ended, so   *)
(* the count of the drain sees it; one that meets the fence later finds    *)
(* the website in removal, which it stays.                                 *)

\* Nothing has happened to a website that is not in removal.
Untouched ==
    site = "none" => /\ op.state = "none" /\ late = {} /\ agent.rev = 0
                     /\ \A r \in Rev : queue[r].state = "absent"
                     /\ \A w \in Worker : pc[w] = "idle"
                     /\ \A s \in Sweeper : sweep[s].at = "idle"

Shown == \A t \in Task : doing[t] # "nothing" => task[t] = "running"

AInv == TInv /\ Untouched /\ Shown /\ TeardownIsAlone

LEMMA AloneInit == RInit => AInv
<1>. SUFFICES ASSUME RInit PROVE AInv
  BY Zenon
<1>1. Untouched /\ Shown /\ TeardownIsAlone
  BY Zenon DEF RInit, AgentInit, NoJob, Untouched, Shown, TeardownIsAlone, Driving
<1>. QED
  BY Zenon, <1>1, TypeInit DEF AInv

\* The website never leaves its removal, which only a request begins.
LEMMA UntouchedStep == ASSUME AInv, [RNext]_rvars PROVE Untouched'
<1>1. CASE site = "none"
  <2>1. CASE UNCHANGED rvars
    BY Zenon, <2>1 DEF rvars, AInv, Untouched
  <2>2. CASE \E t \in Task : TaskStep(t)
    BY <2>2 DEF TaskStep, InsertTask, FetchTask, FenceTask, EndTask, ReportTask, RescueTask, taskFrame, wVars,
                AInv, Untouched
  <2>3. CASE Request
    BY Zenon, <2>3 DEF Request, Untouched
  <2>4. CASE Retry \/ ServeLate \/ Crash
    BY Zenon, <1>1, <2>4 DEF Retry, ServeLate, Crash, AInv, Untouched
  <2>5. ASSUME NEW w \in Worker, WorkStep(w) \/ WorkFault(w) PROVE FALSE
    BY Zenon, <1>1, <2>5, StepIsMove DEF AInv, Untouched
  <2>6. ASSUME NEW r \in Rev, Rescue(r) \/ Clean(r) \/ \E w \in Worker : Fetch(w, r) PROVE FALSE
    BY Zenon, <1>1, <2>6 DEF Rescue, Clean, Fetch, AInv, Untouched
  <2>7. ASSUME NEW s \in Sweeper, SweepStep(s) PROVE FALSE
    BY Zenon, <1>1, <2>7 DEF SweepStep, SweepRead, SweepActive, SweepLatest, SweepFail, SweepInsert, Active, AInv, Untouched
  <2>. QED
    BY <2>1, <2>2, <2>3, <2>4, <2>5, <2>6, <2>7, Zenon DEF RNext
<1>2. CASE site # "none"
  <2>1. site' # "none"
    <3>1. site' \in {site, "queued", "removing", "failed", "gone"}
      <4>1. ASSUME NEW w \in Worker, WorkStep(w) \/ WorkFault(w) PROVE site' \in {site, "removing", "failed", "gone"}
        <5>1. CASE EnterStage(w) \/ RecordStage(w) \/ RecordConverged(w)
          BY <5>1, StepAdvances, Zenon DEF Advanced, dbVars
        <5>2. CASE Wait(w) \/ PrepareDNS(w) \/ Finalize(w) \/ Fail(w)
          BY Zenon, <5>2 DEF Wait, PrepareDNS, Finalize, Fail, FailRemoval, dbVars
        <5>. QED
          BY Zenon, <4>1, <5>1, <5>2, StepFrame
      <4>2. ASSUME NEW s \in Sweeper, SweepStep(s) PROVE site' \in {site, "failed"}
        BY Zenon, <4>2 DEF SweepStep, SweepRead, SweepActive, SweepLatest, SweepFail, SweepInsert, FailRemoval, dbVars
      <4>3. ASSUME NEW t \in Task, TaskStep(t) PROVE site' = site
        BY <4>3, Zenon DEF TaskStep, InsertTask, FetchTask, FenceTask, EndTask, ReportTask, RescueTask, taskFrame
      <4>4. ASSUME NEW r \in Rev, Rescue(r) \/ Clean(r) \/ \E w \in Worker : Fetch(w, r) PROVE site' = site
        BY <4>4, Zenon DEF Rescue, Clean, Fetch, dbVars
      <4>5. Request \/ Retry \/ ServeLate \/ Crash \/ UNCHANGED rvars => site' \in {site, "queued"}
        BY Zenon DEF Request, Retry, ServeLate, Crash, rvars, dbVars
      <4>. QED
        BY <4>1, <4>2, <4>3, <4>4, <4>5, Zenon DEF RNext
    <3>. QED
      BY Zenon, <1>2, <3>1
  <2>. QED
    BY Zenon, <2>1 DEF Untouched
<1>. QED
  BY Zenon, <1>1, <1>2

\* A process runs only a job that the queue shows as running.
LEMMA ShownStep == ASSUME AInv, [RNext]_rvars PROVE Shown'
<1>. USE DEF Shown
<1>1. ASSUME NEW t \in Task, TaskStep(t) PROVE Shown'
  BY Zenon, <1>1 DEF TaskStep, InsertTask, FetchTask, FenceTask, EndTask, ReportTask, RescueTask, AInv, TInv, TaskOK
<1>2. ASSUME NEW w \in Worker, WorkStep(w) \/ WorkFault(w) PROVE Shown'
  BY Zenon, <1>2, StepFrame DEF CancelTasks, AInv
<1>3. CASE Crash
  BY Zenon, <1>3 DEF Crash
<1>4. CASE UNCHANGED tVars
  BY Zenon, <1>4 DEF tVars, AInv
<1>5. ASSUME NEW r \in Rev, Rescue(r) \/ Clean(r) \/ \E w \in Worker : Fetch(w, r) PROVE UNCHANGED tVars
  BY Zenon, <1>5 DEF Rescue, Clean, Fetch, wFrame
<1>6. ASSUME NEW s \in Sweeper, SweepStep(s) PROVE UNCHANGED tVars
  BY Zenon, <1>6 DEF SweepStep, SweepRead, SweepActive, SweepLatest, SweepFail, SweepInsert, sFrame
<1>7. Request \/ Retry \/ ServeLate \/ UNCHANGED rvars => UNCHANGED tVars
  BY Zenon DEF Request, Retry, ServeLate, rvars, tVars
<1>. QED
  BY <1>1, <1>2, <1>3, <1>4, <1>5, <1>6, <1>7, Zenon DEF RNext

\* The removal touches the host.
Teardown == late # {} \/ agent.rev # 0 \/ \E w \in Worker : Driving(w)

\* Only the count of the drain lets a worker begin with that.
LEMMA TeardownBegins ==
    ASSUME AInv, NEW w \in Worker, WorkStep(w) \/ WorkFault(w), Teardown', ~Teardown
    PROVE  CountTasks(w) /\ \A t \in Task : task[t] # "running"
<1>1. pc[w] \notin {"advance", "call", "record", "dns", "converge", "converged", "finalize"}
  BY Zenon DEF Teardown, Driving
<1>2. agent' = agent /\ late' = late
  BY <1>1, StepFrame, Zenon DEF CallAgent, CallFails
<1>3. PICK v \in Worker : Driving(v)' /\ ~Driving(v)
  BY <1>2, Zenon DEF Teardown
<1>4. \E l : Goto(w, l) /\ (l \in {"idle", "read", "drain", "count", "wait"} \cup Outcome \/ CountTasks(w))
  BY Zenon, <1>1 DEF WorkStep, WorkFault, TryLock, ReadOperation, CancelTasks, CountTasks, Converge, Report, CallAgent, Return,
       Wait, EnterStage, RecordStage, PrepareDNS, RecordConverged, Finalize, Fail, CallFails,
       ConvergeFails, FinalizeFails, StepFails, Outcome
<1>5. CountTasks(w)
  BY Zenon, <1>3, <1>4 DEF Goto, Driving, Outcome, AInv, TInv, WorkOK
<1>6. v = w /\ pc'[w] = "advance"
  BY Zenon, <1>3, <1>5 DEF CountTasks, Goto, Driving, AInv, TInv, WorkOK
<1>. QED
  BY Zenon, <1>5, <1>6 DEF CountTasks, Goto, AInv, TInv, WorkOK

LEMMA AloneStep == ASSUME AInv, [RNext]_rvars PROVE TeardownIsAlone'
<1>. SUFFICES ASSUME NEW t \in Task, doing'[t] = "work" PROVE ~Teardown'
  BY Zenon DEF TeardownIsAlone, Teardown
<1>1. doing[t] = "work" => task[t] = "running" /\ ~Teardown
  BY Zenon DEF AInv, Shown, TeardownIsAlone, Teardown
<1>2. ASSUME NEW u \in Task, TaskStep(u) PROVE ~Teardown'
  <2>1. UNCHANGED taskFrame
    BY Zenon, <1>2 DEF TaskStep, InsertTask, FetchTask, FenceTask, EndTask, ReportTask, RescueTask
  <2>2. doing[t] = "work" \/ site = "none"
    BY Zenon, <1>2 DEF TaskStep, InsertTask, FetchTask, FenceTask, EndTask, ReportTask, RescueTask, AInv, TInv, TaskOK
  <2>3. ~Teardown
    BY Zenon, <1>1, <2>2 DEF AInv, Untouched, Teardown, Driving
  <2>. QED
    BY Zenon, <2>1, <2>3 DEF taskFrame, wVars, Teardown, Driving
<1>3. ASSUME NEW w \in Worker, WorkStep(w) \/ WorkFault(w) PROVE ~Teardown'
  <2>1. doing[t] = "work"
    BY Zenon, <1>3, StepFrame
  <2>. QED
    BY Zenon, <1>1, <1>3, <2>1, TeardownBegins
<1>4. CASE Crash
  BY Zenon, <1>4 DEF Crash
<1>5. CASE ServeLate
  BY Zenon, <1>1, <1>5 DEF ServeLate, Teardown, tVars
<1>6. CASE UNCHANGED <<agent, late, doing>> /\ \A w \in Worker : Driving(w)' => Driving(w)
  BY Zenon, <1>1, <1>6 DEF Teardown
<1>7. ASSUME NEW r \in Rev, Rescue(r) \/ Clean(r) \/ \E w \in Worker : Fetch(w, r) PROVE ~Teardown'
  BY Zenon, <1>1, <1>7 DEF Rescue, Clean, Fetch, wFrame, wVars, tVars, Goto, Teardown, Driving, AInv, TInv, WorkOK
<1>8. ASSUME NEW s \in Sweeper, SweepStep(s) PROVE UNCHANGED <<agent, late, doing, pc>>
  BY Zenon, <1>8 DEF SweepStep, SweepRead, SweepActive, SweepLatest, SweepFail, SweepInsert, sFrame, tVars, wVars
<1>9. Request \/ Retry \/ UNCHANGED rvars => UNCHANGED <<agent, late, doing, pc>>
  BY Zenon DEF Request, Retry, rvars, tVars, wVars
<1>10. CASE UNCHANGED <<agent, late, doing, pc>>
  BY Zenon, <1>1, <1>10 DEF Teardown, Driving
<1>. QED
  BY <1>2, <1>3, <1>4, <1>5, <1>7, <1>8, <1>9, <1>10, Zenon DEF RNext

LEMMA AInvariant == RSpec => []AInv
<1>1. AInv /\ [RNext]_rvars => AInv'
  BY Zenon, UntouchedStep, ShownStep, AloneStep, TypeStep DEF AInv
<1>. QED
  BY AloneInit, <1>1, PTL DEF RSpec

\* Whatever workers, jobs, retries and crashes do, no other job of the website
\* works while the removal takes it apart (drainSiteJobs, SiteJobFence).
THEOREM TeardownStaysAlone == RSpec => []TeardownIsAlone
<1>1. AInv => TeardownIsAlone
  BY Zenon DEF AInv
<1>. QED
  BY AInvariant, <1>1, PTL

-----------------------------------------------------------------------------
(* The rows of the website outlive what they describe on the host.         *)
(*                                                                         *)
(* The panel knows no more of the agent than the agent's journal says, and *)
(* asks for the last stage only when the surviving services are converged. *)

Fresh == op.state = "none" => site = "none" /\ op.rev = 0 /\ op.done = {}

\* The agent's checkpoints in the panel, and in an answer under way.
Echoed ==
    /\ op.done \cap Stage \subseteq agent.done
    /\ \A w \in Worker : answer[w] \subseteq agent.done
    /\ "finalize" \in agent.done => agent.complete

\* Who asks, or has asked, for the last stage.
Ordered ==
    (\/ \E w \in Worker : stage[w] = "finalize"
     \/ \E c \in late : c.stage = "finalize") => "surviving-mail" \in op.done

HInv == AInv /\ Fresh /\ Echoed /\ Ordered /\ RowsOutliveTheHost

LEMMA RowsInit == RInit => HInv
<1>. SUFFICES ASSUME RInit PROVE HInv
  BY Zenon
<1>1. Fresh /\ Echoed /\ Ordered /\ RowsOutliveTheHost
  BY Zenon DEF RInit, AgentInit, Fresh, Echoed, Ordered, RowsOutliveTheHost
<1>. QED
  BY Zenon, <1>1, AloneInit DEF HInv

\* Who changes the rows.
LEMMA RowsChange ==
    ASSUME AInv, [RNext]_rvars
    PROVE  \/ op' = op /\ site' = site
           \/ Request \/ Retry
           \/ \E s \in Sweeper : SweepFail(s)
           \/ \E w \in Worker : Wait(w) \/ PrepareDNS(w) \/ Finalize(w) \/ Fail(w)
           \/ \E w \in Worker : /\ EnterStage(w) \/ RecordStage(w) \/ RecordConverged(w)
                               /\ \E c \in {{}, answer[w], {"surviving-access", "surviving-mail"}} : Advanced(w, c)
<1>1. ASSUME NEW w \in Worker, EnterStage(w) \/ RecordStage(w) \/ RecordConverged(w)
      PROVE  \/ op' = op /\ site' = site
             \/ \E c \in {{}, answer[w], {"surviving-access", "surviving-mail"}} : Advanced(w, c)
  BY Zenon, <1>1, StepAdvances DEF dbVars
<1>2. ASSUME NEW s \in Sweeper, SweepStep(s) PROVE SweepFail(s) \/ (op' = op /\ site' = site)
  BY <1>2, Zenon DEF SweepStep, SweepRead, SweepActive, SweepLatest, SweepInsert, dbVars
<1>3. ASSUME NEW t \in Task, TaskStep(t) PROVE op' = op /\ site' = site
  BY <1>3, Zenon DEF TaskStep, InsertTask, FetchTask, FenceTask, EndTask, ReportTask, RescueTask, taskFrame
<1>4. ASSUME NEW r \in Rev, Rescue(r) \/ Clean(r) \/ \E w \in Worker : Fetch(w, r) PROVE op' = op /\ site' = site
  BY <1>4, Zenon DEF Rescue, Clean, Fetch, dbVars
<1>5. ServeLate \/ Crash \/ UNCHANGED rvars => op' = op /\ site' = site
  BY Zenon DEF ServeLate, Crash, rvars, dbVars
<1>. QED
  BY <1>1, <1>2, <1>3, <1>4, <1>5, StepFrame, Zenon DEF RNext

\* The checkpoints of an operation are never lost, and only the end of the
\* operation deletes the website.
Kept ==
    /\ op.done \subseteq op'.done
    /\ op'.state = "completed" <=> site' = "gone"
    /\ op'.state = "none" => op' = op /\ site' = site

LEMMA RowsGrow == ASSUME HInv, [RNext]_rvars PROVE Kept
<1>. USE DEF Kept
<1>1. op \in Operation /\ Fresh /\ (op.state = "completed" <=> site = "gone")
  BY Zenon DEF HInv, AInv, TInv, DbOK, RowsOutliveTheHost
<1>2. CASE op' = op /\ site' = site
  BY <1>1, <1>2, Zenon
<1>3. CASE Request \/ Retry
  <2>1. CASE Request
    <3>1. op' = [state |-> "queued", rev |-> 1, done |-> {}] /\ site' = "queued" /\ op.state = "none"
      BY <2>1, Zenon DEF Request
    <3>. QED
      BY Zenon, <1>1, <3>1 DEF Fresh
  <2>2. CASE Retry
    <3>1. op' = [op EXCEPT !.state = "queued", !.rev = op.rev + 1] /\ site' = "queued"
      BY <2>2, Zenon DEF Retry
    <3>. QED
      BY Zenon, <1>1, <3>1 DEF Operation
  <2>. QED
    BY Zenon, <1>3, <2>1, <2>2
<1>4. ASSUME NEW r, FailRemoval(r) PROVE Kept
  <2>1. CASE Fails(r)
    <3>1. op' = [op EXCEPT !.state = "failed"] /\ site' = "failed"
      BY <1>4, <2>1, Zenon DEF FailRemoval
    <3>. QED
      BY Zenon, <1>1, <3>1 DEF Operation
  <2>2. CASE ~Fails(r)
    BY <1>2, <1>4, <2>2, Zenon DEF FailRemoval, dbVars
  <2>. QED
    BY Zenon, <2>1, <2>2
<1>5. ASSUME NEW w \in Worker, Wait(w) \/ PrepareDNS(w) \/ Finalize(w) PROVE op.state = "none" \/ Kept
  <2>1. CASE Wait(w)
    BY Zenon, <1>1, <2>1 DEF Wait, Operation
  <2>2. CASE PrepareDNS(w)
    BY Zenon, <1>1, <2>2 DEF PrepareDNS, Operation
  <2>3. CASE Finalize(w)
    BY Zenon, <1>1, <2>3 DEF Finalize, Operation, dbVars
  <2>. QED
    BY Zenon, <1>5, <2>1, <2>2, <2>3
<1>6. ASSUME NEW w \in Worker, NEW c, Advanced(w, c) PROVE Kept
  BY Zenon, <1>1, <1>6 DEF Advanced, Operation
<1>7. ASSUME NEW w \in Worker, pc[w] # "idle" PROVE op.state # "none"
  BY <1>1, <1>7, Zenon DEF Fresh, HInv, AInv, Untouched
<1>8. ASSUME NEW w \in Worker, Wait(w) \/ PrepareDNS(w) \/ Finalize(w) PROVE pc[w] # "idle"
  BY Zenon, <1>8 DEF Wait, PrepareDNS, Finalize
<1>9. AInv
  BY Zenon DEF HInv
<1>. QED
  BY <1>2, <1>3, <1>4, <1>5, <1>6, <1>7, <1>8, <1>9, RowsChange, Zenon DEF SweepFail, Fail

LEMMA FreshStep == ASSUME HInv, [RNext]_rvars PROVE Fresh'
BY RowsGrow, Zenon DEF Kept, HInv, Fresh

\* A request of this revision, by a worker or late.
Asks(st) == (\E w \in Worker : stage[w] = st) \/ \E c \in late : c.stage = st

\* Who changes the agent's journal.
LEMMA AgentChange ==
    ASSUME AInv, [RNext]_rvars
    PROVE  \/ agent' = agent
           \/ \E r \in Nat : Begin(r)
           \/ \E r \in Nat, st \in Stage : Perform(st, r) /\ Asks(st)
<1>1. ASSUME NEW w \in Worker, WorkStep(w) \/ WorkFault(w)
      PROVE  agent' = agent \/ CallAgent(w) \/ CallFails(w)
  BY <1>1, StepFrame, Zenon
<1>2. ASSUME NEW s \in Sweeper, SweepStep(s) PROVE agent' = agent
  BY <1>2, Zenon DEF SweepStep, SweepRead, SweepActive, SweepLatest, SweepFail, SweepInsert, sFrame
<1>3. ASSUME NEW t \in Task, TaskStep(t) PROVE agent' = agent
  BY <1>3, Zenon DEF TaskStep, InsertTask, FetchTask, FenceTask, EndTask, ReportTask, RescueTask, taskFrame
<1>4. ASSUME NEW r \in Rev, Rescue(r) \/ Clean(r) \/ \E w \in Worker : Fetch(w, r) PROVE agent' = agent
  BY <1>4, Zenon DEF Rescue, Clean, Fetch, wFrame
<1>5. Request \/ Retry \/ Crash \/ UNCHANGED rvars => agent' = agent
  BY Zenon DEF Request, Retry, Crash, rvars
<1>6. \A w \in Worker : job[w] \in Nat /\ stage[w] \in Stage
  BY RemovalAssumption DEF AInv, TInv, WorkOK
<1>7. \A c \in late : c.rev \in Nat /\ c.stage \in Stage
  BY RemovalAssumption DEF AInv, TInv, AgentOK, Rev
<1>8. ASSUME NEW w \in Worker, CallAgent(w) PROVE agent' = agent \/ (Perform(stage[w], job[w]) /\ Asks(stage[w]))
  BY <1>8, Zenon DEF CallAgent, Serve, Asks
<1>9. ASSUME NEW w \in Worker, CallFails(w) PROVE agent' = agent \/ Begin(job[w])
  BY <1>9, Zenon DEF CallFails
<1>10. CASE ServeLate
  <2>1. PICK c \in late : agent' = agent \/ Perform(c.stage, c.rev)
    BY <1>10, Zenon DEF ServeLate, Serve
  <2>2. Asks(c.stage)
    BY Zenon DEF Asks
  <2>. QED
    BY <1>7, <2>1, <2>2, Zenon
<1>. QED
  BY <1>1, <1>2, <1>3, <1>4, <1>5, <1>6, <1>8, <1>9, <1>10, Zenon DEF RNext

\* The agent's journal only grows, and its last stage makes it complete.
LEMMA AgentGrows ==
    ASSUME HInv, [RNext]_rvars
    PROVE  /\ agent.done \subseteq agent'.done /\ (agent.complete => agent'.complete)
           /\ "finalize" \in agent'.done => agent'.complete
           /\ agent'.complete => agent.complete \/ Asks("finalize")
<1>1. agent \in AgentJournal /\ ("finalize" \in agent.done => agent.complete) /\ AInv
  BY Zenon DEF HInv, AInv, TInv, AgentOK, Echoed
<1>2. CASE agent' = agent
  BY Zenon, <1>1, <1>2
<1>3. ASSUME NEW r \in Nat, Begin(r)
      PROVE  agent'.done = agent.done /\ agent'.complete = agent.complete
  BY Zenon, <1>1, <1>3 DEF Begin, AgentJournal
<1>4. ASSUME NEW r \in Nat, NEW st \in Stage, Perform(st, r), Asks(st)
      PROVE  /\ agent'.done = agent.done \cup {st} /\ ~agent.complete
             /\ agent'.complete = (st = "finalize")
  BY <1>4, Zenon DEF Perform
<1>5. CASE \E r \in Nat : Begin(r)
  BY Zenon, <1>1, <1>3, <1>5
<1>6. CASE \E r \in Nat, st \in Stage : Perform(st, r) /\ Asks(st)
  <2>1. PICK st \in Stage : /\ agent'.done = agent.done \cup {st} /\ ~agent.complete /\ Asks(st)
                           /\ agent'.complete = (st = "finalize")
    BY <1>4, <1>6, Zenon
  <2>. QED
    BY <1>1, <2>1, Zenon
<1>. QED
  BY <1>1, <1>2, <1>5, <1>6, AgentChange, Zenon

\* The variables of a worker after a step.
LEMMA WorkerChange ==
    ASSUME AInv, [RNext]_rvars, NEW w \in Worker
    PROVE  /\ answer'[w] \in {{}, answer[w], agent'.done}
           /\ stage'[w] = "finalize" => stage[w] = "finalize" \/ RecordConverged(w)
<1>. DEFINE Goal == /\ answer'[w] \in {{}, answer[w], agent'.done}
                    /\ stage'[w] = "finalize" => stage[w] = "finalize" \/ RecordConverged(w)
<1>1. WorkOK
  BY Zenon DEF AInv, TInv
<1>2. CASE answer' = answer /\ stage' = stage
  BY Zenon, <1>2
<1>3. ASSUME NEW v \in Worker, WorkStep(v) \/ WorkFault(v) PROVE Goal
  <2>1. CASE \E o \in Outcome : Return(v, o)
    <3>1. /\ stage' = [stage EXCEPT ![v] = "stop_services"] /\ answer' = [answer EXCEPT ![v] = {}]
          /\ stage \in [Worker -> Stage] /\ answer \in [Worker -> SUBSET Stage]
      BY <1>1, <2>1, Zenon DEF Return, WorkOK
    <3>. QED
      BY Zenon, <3>1
  <2>2. CASE CallAgent(v)
    BY Zenon, <1>1, <2>2 DEF CallAgent, WorkOK
  <2>3. CASE Report(v)
    BY <1>2, <2>3, Zenon DEF Report
  <2>4. CASE pc[v] \in {"record", "converged"} /\ ToStage(v, NextStage(stage[v]))
    <3>1. answer' = answer /\ stage' = [stage EXCEPT ![v] = NextStage(stage[v])]
      BY <2>4, Zenon DEF ToStage
    <3>2. CASE NextStage(stage[v]) # "finalize" \/ stage[v] = "finalize"
      BY Zenon, <1>1, <3>1, <3>2 DEF WorkOK
    <3>3. CASE NextStage(stage[v]) = "finalize" /\ stage[v] # "finalize"
      <4>1. stage[v] = "shared"
        BY Zenon, <1>1, <3>3 DEF NextStage, WorkOK, Stage
      <4>2. RecordConverged(v)
        <5>1. pc'[v] = "advance"
          BY Zenon, <1>1, <2>4 DEF ToStage, Goto, WorkOK
        <5>2. RecordStage(v) \/ RecordConverged(v) \/ StepFails(v)
          BY Zenon, <1>3, <2>4
          DEF WorkStep, WorkFault, TryLock, ReadOperation, CancelTasks, CountTasks, Wait, EnterStage, CallAgent,
              PrepareDNS, Converge, Finalize, Fail, Report, Outcome, CallFails, ConvergeFails, FinalizeFails
        <5>3. ~StepFails(v)
          BY Zenon, <1>1, <5>1 DEF StepFails, Return, Goto, WorkOK
        <5>4. ASSUME RecordStage(v) PROVE Goto(v, "dns") \/ Return(v, "error")
          BY Zenon, <4>1, <5>4 DEF RecordStage, Advance
        <5>5. ~RecordStage(v)
          BY Zenon, <1>1, <5>1, <5>4 DEF Return, Goto, WorkOK
        <5>. QED
          BY Zenon, <5>2, <5>3, <5>5
      <4>. QED
        BY Zenon, <1>1, <3>1, <4>2 DEF WorkOK
    <3>. QED
      BY <3>2, <3>3, Zenon
  <2>. QED
    BY <1>2, <1>3, <2>1, <2>2, <2>3, <2>4, StepIsMove, Zenon DEF WorkerMove
<1>4. CASE Crash
  BY <1>4, Zenon DEF Crash
<1>5. ASSUME NEW s \in Sweeper, SweepStep(s) PROVE answer' = answer /\ stage' = stage
  BY <1>5, Zenon DEF SweepStep, SweepRead, SweepActive, SweepLatest, SweepFail, SweepInsert, sFrame, wVars
<1>6. ASSUME NEW t \in Task, TaskStep(t) PROVE answer' = answer /\ stage' = stage
  BY <1>6, Zenon DEF TaskStep, InsertTask, FetchTask, FenceTask, EndTask, ReportTask, RescueTask, taskFrame, wVars
<1>7. ASSUME NEW r \in Rev, Rescue(r) \/ Clean(r) \/ \E v \in Worker : Fetch(v, r)
      PROVE  answer' = answer /\ stage' = stage
  BY <1>7, Zenon DEF Rescue, Clean, Fetch, wVars
<1>8. Request \/ Retry \/ ServeLate \/ UNCHANGED rvars => answer' = answer /\ stage' = stage
  BY Zenon DEF Request, Retry, ServeLate, rvars, wVars
<1>. QED
  BY <1>2, <1>3, <1>4, <1>5, <1>6, <1>7, <1>8, Zenon DEF RNext

LEMMA EchoedStep == ASSUME HInv, [RNext]_rvars PROVE Echoed'
<1>1. AInv /\ Echoed /\ op \in Operation
  BY Zenon DEF HInv, AInv, TInv, DbOK
<1>2. \A w \in Worker : answer'[w] \subseteq agent'.done
  BY Zenon, <1>1, AgentGrows, WorkerChange DEF Echoed
<1>3. op'.done \cap Stage \subseteq agent'.done
  <2>1. ASSUME op'.done \subseteq op.done \cup {"shared-dns-intent"} PROVE op'.done \cap Stage \subseteq agent'.done
    BY Zenon, <1>1, <2>1, AgentGrows DEF Echoed, Stage
  <2>2. ASSUME NEW w \in Worker, NEW c \in {{}, answer[w], {"surviving-access", "surviving-mail"}}, Advanced(w, c)
        PROVE  op'.done \cap Stage \subseteq agent'.done
    <3>1. op'.done = op.done \cup c
      BY Zenon, <1>1, <2>2 DEF Advanced, Operation
    <3>. QED
      BY Zenon, <1>1, <2>2, <3>1, AgentGrows DEF Echoed, Stage
  <2>3. ASSUME NEW r, FailRemoval(r) PROVE op'.done = op.done
    BY Zenon, <1>1, <2>3 DEF FailRemoval, dbVars, Operation
  <2>4. ASSUME NEW w \in Worker, Wait(w) \/ Finalize(w) PROVE op'.done = op.done
    BY Zenon, <1>1, <2>4 DEF Wait, Finalize, dbVars, Operation
  <2>5. ASSUME NEW w \in Worker, PrepareDNS(w) PROVE op'.done \subseteq op.done \cup {"shared-dns-intent"}
    BY Zenon, <1>1, <2>5 DEF PrepareDNS, Operation
  <2>6. Request => op'.done = {}
    BY DEF Request
  <2>7. Retry => op'.done = op.done
    <3>. SUFFICES ASSUME op' = [op EXCEPT !.state = "queued", !.rev = op.rev + 1] PROVE op'.done = op.done
      BY Zenon DEF Retry
    <3>. QED
      BY Zenon, <1>1 DEF Operation
  <2>8. op' = op => op'.done = op.done
    BY Zenon
  <2>9. ASSUME op'.done = op.done \/ op'.done = {} PROVE op'.done \subseteq op.done \cup {"shared-dns-intent"}
    BY Zenon, <2>9
  <2>. QED
    BY <1>1, <2>1, <2>2, <2>3, <2>4, <2>5, <2>6, <2>7, <2>8, <2>9, RowsChange, Zenon DEF SweepFail, Fail
<1>. QED
  BY <1>2, <1>3, AgentGrows, Zenon DEF Echoed

LEMMA OrderedStep == ASSUME HInv, [RNext]_rvars PROVE Ordered'
<1>1. AInv /\ Ordered /\ op \in Operation
  BY Zenon DEF HInv, AInv, TInv, DbOK
<1>2. op.done \subseteq op'.done
  BY Zenon, RowsGrow DEF Kept
<1>3. ASSUME NEW w \in Worker, stage'[w] = "finalize" PROVE "surviving-mail" \in op'.done
  <2>1. CASE stage[w] = "finalize"
    BY <1>1, <1>2, <2>1, Zenon DEF Ordered
  <2>2. CASE RecordConverged(w)
    <3>1. Return(w, "error") \/ Advanced(w, {"surviving-access", "surviving-mail"})
      BY <2>2, StepAdvances, Zenon
    <3>2. CASE Return(w, "error")
      BY Zenon, <1>1, <1>3, <3>2 DEF Return, AInv, TInv, WorkOK
    <3>3. CASE Advanced(w, {"surviving-access", "surviving-mail"})
      BY Zenon, <1>1, <3>3 DEF Advanced, Operation
    <3>. QED
      BY Zenon, <3>1, <3>2, <3>3
  <2>. QED
    BY <1>1, <1>3, <2>1, <2>2, WorkerChange, Zenon
<1>4. ASSUME NEW c \in late', c.stage = "finalize" PROVE c \in late \/ \E w \in Worker : stage[w] = "finalize"
  <2>1. ASSUME NEW w \in Worker, WorkStep(w) \/ WorkFault(w) PROVE late' = late \/ CallFails(w)
    BY <2>1, StepFrame, Zenon DEF CallAgent
  <2>2. ASSUME NEW s \in Sweeper, SweepStep(s) PROVE late' = late
    BY <2>2, Zenon DEF SweepStep, SweepRead, SweepActive, SweepLatest, SweepFail, SweepInsert, sFrame
  <2>3. ASSUME NEW t \in Task, TaskStep(t) PROVE late' = late
    BY <2>3, Zenon DEF TaskStep, InsertTask, FetchTask, FenceTask, EndTask, ReportTask, RescueTask, taskFrame
  <2>4. ASSUME NEW r \in Rev, Rescue(r) \/ Clean(r) \/ \E w \in Worker : Fetch(w, r) PROVE late' = late
    BY <2>4, Zenon DEF Rescue, Clean, Fetch, wFrame
  <2>5. Request \/ Retry \/ UNCHANGED rvars => late' = late
    BY Zenon DEF Request, Retry, rvars
  <2>6. CASE ServeLate
    BY Zenon, <2>6 DEF ServeLate
  <2>7. CASE Crash
    <3>1. PICK v \in Worker : c \in late \/ c = [rev |-> job[v], stage |-> stage[v]]
      BY Zenon, <2>7 DEF Crash
    <3>. QED
      BY <1>4, <3>1
  <2>8. ASSUME NEW w \in Worker, CallFails(w) PROVE c \in late \/ stage[w] = "finalize"
    <3>1. c \in late \/ c = [rev |-> job[w], stage |-> stage[w]]
      BY Zenon, <2>8 DEF CallFails
    <3>. QED
      BY <1>4, <3>1
  <2>. QED
    BY <2>1, <2>2, <2>3, <2>4, <2>5, <2>6, <2>7, <2>8, Zenon DEF RNext
<1>5. ASSUME NEW c \in late', c.stage = "finalize" PROVE "surviving-mail" \in op'.done
  BY <1>1, <1>2, <1>4, <1>5, Zenon DEF Ordered
<1>. QED
  BY <1>3, <1>5, Zenon DEF Ordered

LEMMA RowsStep == ASSUME HInv, [RNext]_rvars PROVE RowsOutliveTheHost'
<1>1. AInv /\ Ordered /\ Echoed /\ RowsOutliveTheHost /\ op \in Operation
  BY Zenon DEF HInv, AInv, TInv, DbOK
<1>2. ASSUME site' = "gone" PROVE agent'.complete
  <2>1. CASE site = "gone"
    BY <1>1, <2>1, AgentGrows, Zenon DEF RowsOutliveTheHost
  <2>2. ASSUME NEW w \in Worker, Finalize(w), site # "gone" PROVE "finalize" \in op.done \cap Stage
    <3>1. op.state # "completed"
      BY <1>1, <2>2, Zenon DEF RowsOutliveTheHost
    <3>2. Finalizable(w)
      BY <1>2, <2>2, <3>1, Zenon DEF Finalize, dbVars
    <3>. QED
      BY Zenon, <3>2 DEF Finalizable, Required, Stage
  <2>3. ASSUME NEW w \in Worker, Finalize(w), site # "gone" PROVE agent'.complete
    BY <1>1, <2>2, <2>3, AgentGrows, Zenon DEF Echoed
  <2>4. Request \/ Retry => site' = "queued"
    BY Zenon DEF Request, Retry
  <2>5. ASSUME NEW r, FailRemoval(r) PROVE site' \in {site, "failed"}
    BY Zenon, <2>5 DEF FailRemoval, dbVars
  <2>6. ASSUME NEW w \in Worker, Wait(w) \/ PrepareDNS(w) PROVE site' = site
    BY <2>6, Zenon DEF Wait, PrepareDNS
  <2>7. ASSUME NEW w \in Worker, NEW c, Advanced(w, c) PROVE site' = "removing"
    BY <2>7, Zenon DEF Advanced
  <2>8. CASE site' \in {site, "queued", "removing", "failed"}
    BY Zenon, <1>2, <2>1, <2>8
  <2>. QED
    BY <1>1, <2>1, <2>3, <2>4, <2>5, <2>6, <2>7, <2>8, RowsChange, Zenon DEF SweepFail, Fail
<1>3. ASSUME agent'.complete PROVE "surviving-mail" \in op'.done
  <2>1. agent.complete \/ Asks("finalize")
    BY <1>3, AgentGrows, Zenon
  <2>2. "surviving-mail" \in op.done
    BY <1>1, <2>1, Zenon DEF Asks, Ordered, RowsOutliveTheHost
  <2>. QED
    BY <2>2, RowsGrow, Zenon DEF Kept
<1>4. op'.state = "completed" <=> site' = "gone"
  BY RowsGrow, Zenon DEF Kept
<1>. QED
  BY <1>2, <1>3, <1>4, Zenon DEF RowsOutliveTheHost

LEMMA HInvariant == RSpec => []HInv
<1>1. HInv /\ [RNext]_rvars => HInv'
  BY Zenon, FreshStep, EchoedStep, OrderedStep, RowsStep, UntouchedStep, ShownStep, AloneStep, TypeStep DEF HInv, AInv
<1>. QED
  BY RowsInit, <1>1, PTL DEF RSpec

\* Whatever crashes, late requests, retries and sweeps do, the rows are deleted
\* only after the agent has finished, and the agent lets go of the hostname
\* only after the surviving services were converged (Finalize, Converge).
THEOREM RowsAlwaysOutliveTheHost == RSpec => []RowsOutliveTheHost
<1>1. HInv => RowsOutliveTheHost
  BY Zenon DEF HInv
<1>. QED
  BY HInvariant, <1>1, PTL

-----------------------------------------------------------------------------
(* Verdicts.                                                               *)

LEMMA VerdictStep ==
    ASSUME AInv, [RNext]_rvars, op.state # "failed", op'.state = "failed"
    PROVE  \/ \E w \in Worker : pc[w] = "fail" /\ job[w] = op.rev
           \/ \E s \in Sweeper : sweep[s].at = "fail" /\ sweep[s].rev = op.rev
<1>1. op \in Operation
  BY Zenon DEF AInv, TInv, DbOK
<1>2. ASSUME NEW r, FailRemoval(r) PROVE r = op.rev
  BY <1>2, Zenon DEF FailRemoval, Fails, dbVars
<1>3. ~(op' = op /\ site' = site)
  BY Zenon
<1>4. ~Request /\ ~Retry
  <2>1. CASE Request
    BY Zenon, <2>1 DEF Request
  <2>2. CASE Retry
    <3>1. op' = [op EXCEPT !.state = "queued", !.rev = op.rev + 1]
      BY <2>2, Zenon DEF Retry
    <3>. QED
      BY Zenon, <1>1, <3>1 DEF Operation
  <2>. QED
    BY Zenon, <2>1, <2>2
<1>5. \A w \in Worker : ~Wait(w) /\ ~PrepareDNS(w) /\ ~Finalize(w)
  BY Zenon, <1>1 DEF Wait, PrepareDNS, Finalize, dbVars, Operation
<1>6. ASSUME NEW w \in Worker, NEW c, Advanced(w, c) PROVE FALSE
  BY Zenon, <1>1, <1>6 DEF Advanced, Operation
<1>7. ASSUME NEW w \in Worker, Fail(w) PROVE pc[w] = "fail" /\ job[w] = op.rev
  BY <1>2, <1>7, Zenon DEF Fail
<1>8. ASSUME NEW s \in Sweeper, SweepFail(s) PROVE sweep[s].at = "fail" /\ sweep[s].rev = op.rev
  BY <1>2, <1>8, Zenon DEF SweepFail
<1>. QED
  BY <1>3, <1>4, <1>5, <1>6, <1>7, <1>8, RowsChange, Zenon

\* Only a job or a sweep of the current revision fails the operation, however
\* late a verdict on an earlier one arrives (failRemoval).
THEOREM VerdictsAreCurrent == RSpec => StaleVerdictsAreHarmless
<1>1. AInv /\ [RNext]_rvars =>
        [op.state # "failed" /\ op'.state = "failed" =>
           \/ \E w \in Worker : pc[w] = "fail" /\ job[w] = op.rev
           \/ \E s \in Sweeper : sweep[s].at = "fail" /\ sweep[s].rev = op.rev]_rvars
  BY VerdictStep, Zenon
<1>. QED
  BY AInvariant, <1>1, PTL DEF RSpec, StaleVerdictsAreHarmless

-----------------------------------------------------------------------------
(* A failed operation waits for its retry.                                 *)
(*                                                                         *)
(* The update to 'waiting' does not test for 'failed', so this rests on    *)
(* who may fail an operation while a job of its revision runs: only the    *)
(* job itself, because a sweep fails an operation only when its job was    *)
(* discarded, and inserts a second one only when the first is gone.        *)

\* Nothing refers to a revision that is yet to come.
Past ==
    /\ \A w \in Worker : job[w] <= op.rev
    /\ \A s \in Sweeper : sweep[s].rev <= op.rev
    /\ \A r \in Rev : queue[r].state # "absent" => r <= op.rev

\* An operation under way has a job, or one whose attempts are used up.
Live == op.state \in Active => op.rev \in Rev /\ queue[op.rev].state \in {"available", "running", "discarded"}

\* A sweep that has found no job of such an operation is about to fail it.
Swept ==
    \A s \in Sweeper :
        op.state \in Active /\ sweep[s].rev = op.rev /\ sweep[s].at \in {"latest", "fail", "insert"} =>
            queue[op.rev].state = "discarded" /\ sweep[s].at # "insert"

Working == {"drain", "count", "wait", "advance", "call", "record", "dns", "converge", "converged", "finalize", "fail"}

\* A worker past its reading works on the operation as it is, and a job that
\* has ended for good leaves no operation under way.
Held ==
    \A w \in Worker :
        /\ pc[w] \in Working => op.rev = job[w] /\ op.state \in Active
        /\ pc[w] \in {"nil", "cancel"} /\ op.rev = job[w] => op.state \notin Active

LInv == HInv /\ Past /\ Live /\ Swept /\ Held

LEMMA RetryInit == RInit => LInv
<1>. SUFFICES ASSUME RInit PROVE LInv
  BY Zenon
<1>1. Past /\ Live /\ Swept /\ Held
  BY DEF RInit, NoJob, Past, Live, Swept, Held, Working, Active
<1>. QED
  BY Zenon, <1>1, RowsInit DEF LInv

\* A new revision begins with a job of its own.
LEMMA Started ==
    ASSUME LInv, [RNext]_rvars, Request \/ Retry
    PROVE  /\ op'.rev = op.rev + 1 /\ op'.state = "queued" /\ op'.rev \in Rev /\ op.state \in {"none", "failed"}
           /\ queue' = [queue EXCEPT ![op'.rev] = [state |-> "available", tries |-> 0]]
           /\ pc' = pc /\ job' = job /\ sweep' = sweep
<1>1. op \in Operation /\ Fresh /\ Past /\ MaxRev \in Nat \ {0} /\ op.rev \in 0..MaxRev
  BY Zenon, RemovalAssumption DEF LInv, HInv, AInv, TInv, DbOK, Operation
<1>2. op'.rev = op.rev + 1 /\ op'.state = "queued" /\ op'.rev \in Rev /\ op.state \in {"none", "failed"}
  <2>1. CASE Request
    <3>1. op' = [state |-> "queued", rev |-> 1, done |-> {}] /\ op.state = "none" /\ op.rev = 0
      BY <1>1, <2>1, Zenon DEF Request, Fresh
    <3>. QED
      BY <1>1, <3>1 DEF Rev
  <2>2. CASE Retry
    <3>1. op' = [op EXCEPT !.state = "queued", !.rev = op.rev + 1] /\ op.state = "failed" /\ op.rev < MaxRev
      BY <2>2, Zenon DEF Retry
    <3>. QED
      BY <1>1, <3>1 DEF Operation, Rev
  <2>. QED
    BY Zenon, <2>1, <2>2
<1>3. Insert(op'.rev)
  BY <1>1, <1>2 DEF Request, Retry, Fresh
<1>4. queue[op'.rev].state = "absent"
  BY <1>1, <1>2 DEF Past
<1>5. pc' = pc /\ job' = job /\ sweep' = sweep
  BY Zenon DEF Request, Retry, wVars
<1>. QED
  BY Zenon, <1>2, <1>3, <1>4, <1>5 DEF Insert, InQueue

LEMMA StartStep == ASSUME LInv, [RNext]_rvars, Request \/ Retry PROVE Past' /\ Live' /\ Swept' /\ Held'
<1>1. /\ op.rev \in Nat /\ job \in [Worker -> 0..MaxRev] /\ Past /\ Held /\ queue \in [Rev -> QueuedJob]
      /\ \A s \in Sweeper : sweep[s].rev \in Nat
      /\ MaxRev \in Nat
  BY RemovalAssumption DEF LInv, HInv, AInv, TInv, DbOK, Operation, WorkOK, QueueOK, SweepOK
<1>2. Past'
  <2>1. \A r \in Rev : queue'[r].state # "absent" => queue[r].state # "absent" \/ r = op'.rev
    BY Zenon, <1>1, Started
  <2>2. op'.rev = op.rev + 1 /\ job' = job /\ sweep' = sweep
    BY Started, Zenon
  <2>3. \A w \in Worker : job'[w] <= op'.rev
    BY <1>1, <2>2 DEF Past
  <2>4. \A s \in Sweeper : sweep'[s].rev <= op'.rev
    BY <1>1, <2>2 DEF Past
  <2>5. \A r \in Rev : queue'[r].state # "absent" => r <= op'.rev
    BY <1>1, <2>1, <2>2 DEF Past, Rev
  <2>. QED
    BY <2>3, <2>4, <2>5, Zenon DEF Past
<1>3. Live'
  BY <1>1, Started DEF Live
<1>4. Swept'
  BY <1>1, Started DEF Swept, Past
<1>5. Held'
  BY <1>1, Started DEF Held, Past, Active
<1>. QED
  BY Zenon, <1>2, <1>3, <1>4, <1>5

\* A worker moves by itself, by a fetch or by a crash.
LEMMA Moves ==
    ASSUME AInv, [RNext]_rvars, NEW w \in Worker
    PROVE  \/ pc'[w] = pc[w] /\ job'[w] = job[w]
           \/ pc'[w] = "idle" /\ job'[w] = 0
           \/ \E r \in Rev : pc'[w] = "lock" /\ job'[w] = r /\ queue[r].state = "available"
           \/ (WorkStep(w) \/ WorkFault(w)) /\ job'[w] = job[w]
<1>1. WorkOK
  BY Zenon DEF AInv, TInv
<1>2. ASSUME NEW v \in Worker, WorkStep(v) \/ WorkFault(v)
      PROVE  \/ pc'[w] = pc[w] /\ job'[w] = job[w]
             \/ pc'[w] = "idle" /\ job'[w] = 0
             \/ (WorkStep(w) \/ WorkFault(w)) /\ job'[w] = job[w]
  <2>1. CASE Report(v)
    BY Zenon, <1>1, <2>1 DEF Report, Goto, WorkOK
  <2>2. CASE job' = job /\ v = w
    BY <1>2, <2>2, Zenon
  <2>3. CASE v # w /\ job' = job
    <3>1. \E l : Goto(v, l)
      BY Zenon, <1>2, StepIsMove DEF WorkerMove, Return, ToStage, CallAgent, Report
    <3>. QED
      BY Zenon, <1>1, <2>3, <3>1 DEF Goto, WorkOK
  <2>. QED
    BY <1>2, <2>1, <2>2, <2>3, StepFrame, Zenon
<1>3. CASE Crash
  BY <1>3, Zenon DEF Crash
<1>4. ASSUME NEW s \in Sweeper, SweepStep(s) PROVE pc' = pc /\ job' = job
  BY <1>4, Zenon DEF SweepStep, SweepRead, SweepActive, SweepLatest, SweepFail, SweepInsert, sFrame, wVars
<1>5. ASSUME NEW t \in Task, TaskStep(t) PROVE pc' = pc /\ job' = job
  BY <1>5, Zenon DEF TaskStep, InsertTask, FetchTask, FenceTask, EndTask, ReportTask, RescueTask, taskFrame, wVars
<1>6. ASSUME NEW r \in Rev, Rescue(r) \/ Clean(r) PROVE pc' = pc /\ job' = job
  BY <1>6, Zenon DEF Rescue, Clean, wVars
<1>7. ASSUME NEW r \in Rev, NEW v \in Worker, Fetch(v, r)
      PROVE  \/ pc'[w] = pc[w] /\ job'[w] = job[w]
             \/ pc'[w] = "lock" /\ job'[w] = r /\ queue[r].state = "available"
  BY Zenon, <1>1, <1>7 DEF Fetch, Goto, WorkOK
<1>8. Request \/ Retry \/ ServeLate \/ UNCHANGED rvars => pc' = pc /\ job' = job
  BY Zenon DEF Request, Retry, ServeLate, rvars, wVars
<1>. QED
  BY <1>2, <1>3, <1>4, <1>5, <1>6, <1>7, <1>8, Zenon DEF RNext

\* A job of the queue changes by its end, its fetch, its rescue, by an insert
\* of a sweep or by the cleaner; QueueMove(r) is what may happen to job r.
QueueMove(r) ==
    \/ queue'[r] = queue[r]
    \/ queue[r].state = "available" /\ queue'[r].state = "running"
    \/ /\ queue[r].state = "running" /\ queue'[r].state \in {"available", "discarded", "completed", "cancelled"}
       /\ op' = op
       /\ queue'[r].state \in {"available", "discarded"} \/ \E w \in Worker : job[w] = r /\ pc[w] \in {"nil", "cancel"}
    \/ /\ queue'[r].state = "available"
       /\ \E s \in Sweeper : sweep[s].at = "insert" /\ sweep[s].rev = r
    \/ /\ queue[r] # NoJob /\ queue'[r] = NoJob /\ \A s \in Sweeper : sweep'[s].at = "idle"
       /\ r = op.rev /\ op.state \in Active => cleans'.early

LEMMA QueueChange ==
    ASSUME AInv, [RNext]_rvars, ~Request, ~Retry, NEW r \in Rev
    PROVE  QueueMove(r)
<1>. USE DEF QueueMove
<1>1. QueueOK /\ WorkOK /\ Busy /\ queue \in [Rev -> QueuedJob]
  BY Zenon DEF AInv, TInv, QueueOK
<1>2. CASE queue' = queue
  BY <1>2, Zenon
<1>3. ASSUME NEW w \in Worker, Report(w) PROVE QueueMove(r)
  <2>1. CASE job[w] = r
    <3>1. pc[w] \in Outcome /\ queue[r].state = "running" /\ queue[r].tries >= 1 /\ op' = op
      BY Zenon, <1>1, <1>3, <2>1 DEF Report, Busy, QueueOK, Outcome, dbVars
    <3>2. queue'[r] = Recorded(queue[r], pc[w])
      BY Zenon, <1>1, <1>3, <2>1 DEF Report
    <3>3. queue[r] \in QueuedJob
      BY Zenon, <1>1
    <3>4. CASE pc[w] \in {"nil", "cancel"}
      BY <2>1, <3>1, <3>2, <3>3, <3>4, RecordedTyped
    <3>5. CASE pc[w] \in {"snooze", "error"}
      BY Zenon, <2>1, <3>1, <3>2, <3>3, <3>5, RecordedTyped
    <3>. QED
      BY <3>1, <3>4, <3>5, Zenon DEF Outcome
  <2>2. CASE job[w] # r
    BY <1>1, <1>3, <2>2, Zenon DEF Report
  <2>. QED
    BY <2>1, <2>2, Zenon
<1>4. ASSUME NEW q \in Rev, Rescue(q) PROVE QueueMove(r)
  <2>1. CASE q = r
    <3>1. queue[r].state = "running" /\ queue[r].tries >= 1 /\ op' = op /\ queue[r] \in QueuedJob
      BY Zenon, <1>1, <1>4, <2>1 DEF Rescue, QueueOK, dbVars
    <3>2. queue'[r] = Recorded(queue[r], "error")
      BY Zenon, <1>1, <1>4, <2>1 DEF Rescue
    <3>3. queue'[r].state \in {"available", "discarded"}
      BY Zenon, <3>1, <3>2, RecordedTyped DEF Outcome
    <3>. QED
      BY Zenon, <3>1, <3>3
  <2>2. CASE q # r
    BY Zenon, <1>1, <1>4, <2>2 DEF Rescue
  <2>. QED
    BY Zenon, <2>1, <2>2
<1>5. ASSUME NEW q \in Rev, Clean(q) PROVE QueueMove(r)
  BY Zenon, <1>1, <1>5 DEF Clean, NoJob
<1>6. ASSUME NEW q \in Rev, NEW w \in Worker, Fetch(w, q) PROVE QueueMove(r)
  BY Zenon, <1>1, <1>6 DEF Fetch, QueuedJob
<1>7. ASSUME NEW s \in Sweeper, SweepStep(s) PROVE QueueMove(r)
  <2>1. queue' = queue \/ SweepInsert(s)
    BY <1>7, Zenon DEF SweepStep, SweepRead, SweepActive, SweepLatest, SweepFail
  <2>2. CASE SweepInsert(s)
    BY Zenon, <1>1, <2>2 DEF SweepInsert, Insert
  <2>. QED
    BY Zenon, <1>2, <2>1, <2>2
<1>8. ASSUME NEW t \in Task, TaskStep(t) PROVE queue' = queue
  BY <1>8, Zenon DEF TaskStep, InsertTask, FetchTask, FenceTask, EndTask, ReportTask, RescueTask, taskFrame
<1>9. ServeLate \/ Crash \/ UNCHANGED rvars => queue' = queue
  BY Zenon DEF ServeLate, Crash, rvars
<1>. QED
  BY <1>2, <1>3, <1>4, <1>5, <1>6, <1>7, <1>8, <1>9, StepFrame, Zenon DEF RNext

\* What a sweep knows of the operation and its job.
SweepMove(s) ==
    \/ sweep'[s] = sweep[s]
    \/ sweep'[s].at \in {"idle", "active"} /\ sweep'[s].rev \in {0, op.rev, sweep[s].rev}
    \/ /\ sweep'[s].rev = sweep[s].rev /\ queue' = queue
       /\ \/ sweep[s].at = "active" /\ sweep'[s].at = "latest" /\ ~InQueue(sweep[s].rev)
          \/ /\ sweep[s].at = "latest" /\ sweep'[s].at \in {"fail", "insert"}
             /\ queue[sweep[s].rev].state = "discarded" => sweep'[s].at = "fail"

LEMMA SweepChange == ASSUME AInv, [RNext]_rvars, NEW s \in Sweeper PROVE SweepMove(s)
<1>. USE DEF SweepMove
<1>1. SweepOK
  BY Zenon DEF AInv, TInv
<1>2. CASE sweep' = sweep
  BY <1>2, Zenon
<1>3. ASSUME NEW z \in Sweeper, SweepStep(z), z # s PROVE sweep'[s] = sweep[s]
  BY <1>1, <1>3, Zenon DEF SweepStep, SweepRead, SweepActive, SweepLatest, SweepFail, SweepInsert, SweepOK
<1>4. CASE SweepRead(s) \/ SweepFail(s) \/ SweepInsert(s)
  BY <1>1, <1>4 DEF SweepRead, SweepFail, SweepInsert, SweepOK
<1>5. CASE SweepActive(s)
  <2>1. PICK a : a = IF InQueue(sweep[s].rev) THEN "idle" ELSE "latest"
    BY Zenon
  <2>2. sweep' = [sweep EXCEPT ![s].at = a] /\ queue' = queue /\ sweep[s].at = "active"
    BY <1>5, <2>1, Zenon DEF SweepActive
  <2>3. sweep'[s].at = a /\ sweep'[s].rev = sweep[s].rev
    BY Zenon, <1>1, <2>2 DEF SweepOK
  <2>4. a = "idle" \/ (a = "latest" /\ ~InQueue(sweep[s].rev))
    BY <2>1, Zenon
  <2>. QED
    BY Zenon, <2>2, <2>3, <2>4
<1>6. CASE SweepLatest(s)
  <2>1. PICK a : a = IF queue[sweep[s].rev].state \in {"cancelled", "discarded"} THEN "fail" ELSE "insert"
    BY Zenon
  <2>2. sweep' = [sweep EXCEPT ![s].at = a] /\ queue' = queue /\ sweep[s].at = "latest"
    BY <1>6, <2>1, Zenon DEF SweepLatest
  <2>3. sweep'[s].at = a /\ sweep'[s].rev = sweep[s].rev
    BY Zenon, <1>1, <2>2 DEF SweepOK
  <2>4. a \in {"fail", "insert"} /\ (queue[sweep[s].rev].state = "discarded" => a = "fail")
    BY Zenon, <2>1
  <2>. QED
    BY Zenon, <2>2, <2>3, <2>4
<1>7. CASE Crash
  BY Zenon, <1>7 DEF Crash
<1>8. ASSUME NEW t \in Task, TaskStep(t) PROVE sweep' = sweep
  BY <1>8, Zenon DEF TaskStep, InsertTask, FetchTask, FenceTask, EndTask, ReportTask, RescueTask, taskFrame
<1>9. ASSUME NEW r \in Rev, Rescue(r) \/ Clean(r) \/ \E w \in Worker : Fetch(w, r) PROVE sweep' = sweep
  BY <1>9, Zenon DEF Rescue, Clean, Fetch, wFrame
<1>10. Request \/ Retry \/ ServeLate \/ UNCHANGED rvars => sweep' = sweep
  BY Zenon DEF Request, Retry, ServeLate, rvars
<1>. QED
  BY <1>2, <1>3, <1>4, <1>5, <1>6, <1>7, <1>8, <1>9, <1>10, StepFrame, Zenon DEF RNext, SweepStep

\* Within a revision no step makes an operation active that was not, and only
\* its worker, or a sweep that found its job discarded, ends it.
LEMMA Ends ==
    ASSUME LInv, [RNext]_rvars, ~Request, ~Retry
    PROVE  /\ op'.rev = op.rev
           /\ op'.state \in Active => op.state \in Active
           /\ op.state = "failed" => op'.state = "failed"
           /\ \/ op.state \in Active => op'.state \in Active
              \/ \E w \in Worker : (Finalize(w) \/ Fail(w)) /\ job[w] = op.rev
              \/ \E s \in Sweeper : sweep[s].at = "fail" /\ sweep[s].rev = op.rev
<1>1. op \in Operation /\ Held /\ AInv
  BY Zenon DEF LInv, HInv, AInv, TInv, DbOK
<1>2. CASE op' = op
  BY <1>2, Zenon
<1>3. ASSUME NEW r, FailRemoval(r), op' # op PROVE op'.rev = op.rev /\ op'.state = "failed" /\ r = op.rev
  BY Zenon, <1>1, <1>3 DEF FailRemoval, Fails, dbVars, Operation
<1>4. ASSUME NEW w \in Worker, NEW c, Advanced(w, c) PROVE op'.rev = op.rev /\ op'.state \in Active /\ op.state \in Active
  BY Zenon, <1>1, <1>4 DEF Advanced, Operation, Current, Active
<1>5. ASSUME NEW w \in Worker, Wait(w) \/ PrepareDNS(w)
      PROVE  op'.rev = op.rev /\ op'.state \in Active /\ op.state \in Active
  <2>1. op.state \in Active
    BY Zenon, <1>1, <1>5 DEF Held, Working, Wait, PrepareDNS
  <2>. QED
    BY Zenon, <1>1, <1>5, <2>1 DEF Wait, PrepareDNS, Operation, Active
<1>6. ASSUME NEW w \in Worker, Finalize(w), op' # op PROVE op'.rev = op.rev /\ op'.state = "completed" /\ op.state # "failed" /\ job[w] = op.rev
  BY Zenon, <1>1, <1>6 DEF Finalize, Finalizable, Operation, dbVars
<1>7. "failed" \notin Active /\ "completed" \notin Active
  BY Zenon DEF Active
<1>8. ASSUME NEW w \in Worker, Fail(w) PROVE FailRemoval(job[w])
  BY <1>8, Zenon DEF Fail
<1>9. ASSUME NEW s \in Sweeper, SweepFail(s) PROVE FailRemoval(sweep[s].rev) /\ sweep[s].at = "fail"
  BY <1>9, Zenon DEF SweepFail
<1>10. CASE \E s \in Sweeper : SweepFail(s)
  BY <1>2, <1>3, <1>7, <1>9, <1>10, Zenon
<1>11. CASE \E w \in Worker : Fail(w)
  BY <1>2, <1>3, <1>7, <1>8, <1>11, Zenon
<1>12. CASE \E w \in Worker : Finalize(w)
  BY <1>2, <1>6, <1>7, <1>12, Zenon
<1>13. CASE \E w \in Worker : Wait(w) \/ PrepareDNS(w)
  BY <1>5, <1>7, <1>13, Zenon
<1>14. CASE \E w \in Worker, c \in {{}} \cup {answer[v] : v \in Worker} \cup {{"surviving-access", "surviving-mail"}} : Advanced(w, c)
  BY <1>4, <1>7, <1>14, Zenon
<1>. QED
  BY <1>1, <1>2, <1>10, <1>11, <1>12, <1>13, <1>14, RowsChange, Zenon

LEMMA PastStep == ASSUME LInv, [RNext]_rvars, ~Request, ~Retry PROVE Past'
<1>1. /\ op.rev \in Nat /\ op'.rev = op.rev /\ Past /\ AInv
      /\ \A s \in Sweeper : sweep[s].rev \in Nat
  BY Ends, RemovalAssumption DEF LInv, HInv, AInv, TInv, DbOK, Operation, SweepOK
<1>2. \A w \in Worker : job'[w] <= op.rev
  BY <1>1, Moves DEF Past
<1>3. \A s \in Sweeper : sweep'[s].rev <= op.rev
  <2>1. \A s \in Sweeper : sweep'[s].rev \in {0, op.rev, sweep[s].rev}
    BY <1>1, SweepChange, Zenon DEF SweepMove
  <2>. QED
    BY <1>1, <2>1 DEF Past
<1>4. \A r \in Rev : queue'[r].state # "absent" => r <= op.rev
  BY <1>1, QueueChange DEF Past, QueueMove, NoJob
<1>. QED
  BY <1>1, <1>2, <1>3, <1>4, Zenon DEF Past

LEMMA LiveStep == ASSUME LInv, [RNext]_rvars, ~Request, ~Retry, ~cleans'.early PROVE Live'
<1>. SUFFICES ASSUME op'.state \in Active
              PROVE  op'.rev \in Rev /\ queue'[op'.rev].state \in {"available", "running", "discarded"}
  BY Zenon DEF Live
<1>1. /\ op'.rev = op.rev /\ op.state \in Active /\ op.rev \in Rev
      /\ queue[op.rev].state \in {"available", "running", "discarded"} /\ AInv /\ Held
  BY Ends, Zenon DEF LInv, Live, HInv
<1>2. QueueMove(op.rev) /\ queue'[op.rev] # NoJob
  <2>1. QueueMove(op.rev)
    BY Zenon, <1>1, QueueChange
  <2>2. NoJob.state = "absent"
    BY Zenon DEF NoJob
  <2>. QED
    BY <1>1, <2>1, <2>2, SMT DEF QueueMove
<1>3. ASSUME op' = op, NEW w \in Worker, job[w] = op.rev, pc[w] \in {"nil", "cancel"} PROVE FALSE
  BY <1>1, <1>3, Zenon DEF Held
<1>. QED
  BY Zenon, <1>1, <1>2, <1>3 DEF QueueMove

LEMMA SweptStep == ASSUME LInv, [RNext]_rvars, ~Request, ~Retry PROVE Swept'
<1>. SUFFICES ASSUME NEW s \in Sweeper, op'.state \in Active, sweep'[s].rev = op'.rev,
                     sweep'[s].at \in {"latest", "fail", "insert"}
              PROVE  queue'[op'.rev].state = "discarded" /\ sweep'[s].at # "insert"
  BY Zenon DEF Swept
<1>1. /\ op'.rev = op.rev /\ op.state \in Active /\ op.rev \in Rev
      /\ queue[op.rev].state \in {"available", "running", "discarded"} /\ AInv /\ Swept
  BY Ends, Zenon DEF LInv, Live, HInv
<1>2. CASE sweep'[s] = sweep[s]
  <2>1. queue[op.rev].state = "discarded" /\ sweep[s].at # "insert"
    BY <1>1, <1>2, Zenon DEF Swept
  <2>2. ASSUME NEW z \in Sweeper, sweep[z].at = "insert", sweep[z].rev = op.rev PROVE FALSE
    BY Zenon, <1>1, <2>2 DEF Swept
  <2>3. QueueMove(op.rev)
    BY Zenon, <1>1, QueueChange
  <2>. QED
    BY Zenon, <1>1, <1>2, <2>1, <2>2, <2>3 DEF QueueMove
<1>3. CASE sweep'[s] # sweep[s]
  <2>1. /\ sweep[s].rev = op.rev /\ queue' = queue
        /\ \/ sweep[s].at = "active" /\ sweep'[s].at = "latest" /\ ~InQueue(op.rev)
           \/ /\ sweep[s].at = "latest"
              /\ queue[op.rev].state = "discarded" => sweep'[s].at = "fail"
    <3>1. SweepMove(s)
      BY <1>1, SweepChange, Zenon
    <3>. QED
      BY Zenon, <1>1, <1>3, <3>1 DEF SweepMove
  <2>. QED
    BY Zenon, <1>1, <2>1 DEF Swept, InQueue
<1>. QED
  BY Zenon, <1>2, <1>3

\* A worker that goes on working has left the operation under way.
LEMMA GoesOn ==
    ASSUME LInv, NEW w \in Worker, WorkStep(w) \/ WorkFault(w), pc'[w] \in Working
    PROVE  op.rev = job[w] /\ op.state \in Active /\ op'.state \in Active
<1>1. op \in Operation /\ WorkOK /\ Held
  BY Zenon DEF LInv, HInv, AInv, TInv, DbOK
<1>2. \A l : Goto(w, l) => l = pc'[w]
  BY Zenon, <1>1 DEF Goto, WorkOK
<1>3. \A o \in Outcome \cup {"idle", "read"} : ~Goto(w, o)
  BY Zenon, <1>2 DEF Outcome, Working
<1>4. \A o \in Outcome : ~Return(w, o)
  BY <1>3, Zenon DEF Return
<1>5. "nil" \in Outcome /\ "snooze" \in Outcome /\ "cancel" \in Outcome /\ "error" \in Outcome
  BY Zenon DEF Outcome
<1>6. ~TryLock(w) /\ ~Wait(w) /\ ~Fail(w) /\ ~StepFails(w) /\ ~Report(w)
  BY <1>3, <1>4, <1>5, Zenon DEF TryLock, Wait, Fail, StepFails, Report
<1>7. CASE ReadOperation(w)
  BY <1>4, <1>5, <1>7, Zenon DEF ReadOperation, Current, dbVars
<1>8. pc[w] \in Working => op.rev = job[w] /\ op.state \in Active
  BY <1>1, Zenon DEF Held
<1>9. CASE CancelTasks(w) \/ CountTasks(w) \/ Converge(w) \/ CallAgent(w) \/ CallFails(w) \/ ConvergeFails(w) \/ FinalizeFails(w)
  <2>1. pc[w] \in Working
    BY <1>9, Zenon DEF CancelTasks, CountTasks, Converge, CallAgent, CallFails, ConvergeFails, FinalizeFails, Working
  <2>2. op' = op
    BY <1>9, Zenon DEF CancelTasks, CountTasks, Converge, CallAgent, CallFails, ConvergeFails, FinalizeFails, dbVars
  <2>. QED
    BY <1>8, <2>1, <2>2, Zenon
<1>10. CASE EnterStage(w) \/ RecordStage(w) \/ RecordConverged(w)
  <2>1. \E c : Advanced(w, c)
    BY <1>4, <1>5, <1>10, StepAdvances, Zenon
  <2>. QED
    BY Zenon, <1>1, <2>1 DEF Advanced, Current, Operation, Active
<1>11. CASE PrepareDNS(w)
  <2>1. op.rev = job[w] /\ op.state \in Active
    BY Zenon, <1>8, <1>11 DEF PrepareDNS, Working
  <2>. QED
    BY Zenon, <1>1, <1>11, <2>1 DEF PrepareDNS, Operation
<1>12. CASE Finalize(w)
  <2>1. op' = op /\ pc[w] = "finalize"
    BY <1>4, <1>5, <1>12, Zenon DEF Finalize, dbVars
  <2>. QED
    BY Zenon, <1>8, <2>1 DEF Working
<1>. QED
  BY <1>6, <1>7, <1>9, <1>10, <1>11, <1>12, Zenon DEF WorkStep, WorkFault

\* A job that ends for good leaves no operation of its revision under way.
LEMMA EndsForGood ==
    ASSUME LInv, NEW w \in Worker, WorkStep(w) \/ WorkFault(w), pc'[w] \in {"nil", "cancel"}, op'.rev = job[w]
    PROVE  op'.state \notin Active
<1>1. op \in Operation /\ WorkOK
  BY Zenon DEF LInv, HInv, AInv, TInv, DbOK
<1>2. \A l : Goto(w, l) => l = pc'[w]
  BY Zenon, <1>1 DEF Goto, WorkOK
<1>3. /\ ~Goto(w, "read") /\ ~Goto(w, "drain") /\ ~Goto(w, "count") /\ ~Goto(w, "wait") /\ ~Goto(w, "advance")
      /\ ~Goto(w, "call") /\ ~Goto(w, "record") /\ ~Goto(w, "fail") /\ ~Goto(w, "dns") /\ ~Goto(w, "converge")
      /\ ~Goto(w, "converged") /\ ~Goto(w, "finalize") /\ ~Goto(w, "idle")
      /\ ~Return(w, "snooze") /\ ~Return(w, "error")
  <2>1. \A l : Goto(w, l) => l \in {"nil", "cancel"}
    BY Zenon, <1>2
  <2>2. \A l : Return(w, l) => l \in {"nil", "cancel"}
    BY <2>1, Zenon DEF Return
  <2>. QED
    BY <2>1, <2>2
<1>4. ReadOperation(w) \/ Finalize(w) \/ Fail(w)
  <2>1. ~TryLock(w) /\ ~CancelTasks(w) /\ ~CountTasks(w) /\ ~Wait(w)
    BY <1>3, Zenon DEF TryLock, CancelTasks, CountTasks, Wait
  <2>2. ~CallAgent(w) /\ ~PrepareDNS(w) /\ ~Converge(w) /\ ~Report(w)
    BY <1>3, Zenon DEF CallAgent, PrepareDNS, Converge, Report
  <2>3. ~CallFails(w) /\ ~ConvergeFails(w) /\ ~FinalizeFails(w) /\ ~StepFails(w)
    BY <1>3, Zenon DEF CallFails, ConvergeFails, FinalizeFails, StepFails
  <2>4. ~EnterStage(w) /\ ~RecordConverged(w)
    BY <1>3, Zenon DEF EnterStage, RecordConverged, Advance, ToStage
  <2>5. ~RecordStage(w)
    <3>. SUFFICES ASSUME RecordStage(w) PROVE FALSE
      BY Zenon
    <3>1. (CASE stage[w] = "shared"   -> Goto(w, "dns") /\ UNCHANGED <<lock, stage, answer>>
             [] stage[w] = "finalize" -> Goto(w, "finalize") /\ UNCHANGED <<lock, stage, answer>>
             [] OTHER                 -> ToStage(w, NextStage(stage[w])))
      BY <1>3, Zenon DEF RecordStage, Advance
    <3>. QED
      BY Zenon, <1>3, <3>1 DEF ToStage
  <2>. QED
    BY <2>1, <2>2, <2>3, <2>4, <2>5, Zenon DEF WorkStep, WorkFault
<1>5. CASE ReadOperation(w)
  <2>2. ~Current(w)
    BY <1>3, <1>5, Zenon DEF ReadOperation
  <2>. QED
    BY <1>5, <2>2, Zenon DEF ReadOperation, Current, dbVars
<1>6. CASE Finalize(w)
  <2>1. op' = [op EXCEPT !.state = "completed"]
    BY <1>3, <1>6, Zenon DEF Finalize
  <2>. QED
    BY Zenon, <1>1, <2>1 DEF Operation, Active
<1>7. CASE Fail(w)
  <2>1. FailRemoval(job[w])
    BY <1>7, Zenon DEF Fail
  <2>2. CASE Fails(job[w])
    BY Zenon, <1>1, <2>1, <2>2 DEF FailRemoval, Operation, Active
  <2>3. CASE ~Fails(job[w])
    <3>1. op' = op /\ (op.rev # job[w] \/ op.state = "completed")
      BY <2>1, <2>3, Zenon DEF FailRemoval, Fails, dbVars
    <3>. QED
      BY Zenon, <3>1 DEF Active
  <2>. QED
    BY Zenon, <2>2, <2>3
<1>. QED
  BY Zenon, <1>4, <1>5, <1>6, <1>7

LEMMA HeldStep == ASSUME LInv, [RNext]_rvars, ~Request, ~Retry PROVE Held'
<1>. SUFFICES ASSUME NEW w \in Worker
              PROVE  /\ pc'[w] \in Working => op'.rev = job'[w] /\ op'.state \in Active
                     /\ pc'[w] \in {"nil", "cancel"} /\ op'.rev = job'[w] => op'.state \notin Active
  BY Zenon DEF Held
<1>1. AInv /\ Held /\ Swept /\ WorkOK /\ Busy
  BY Zenon DEF LInv, HInv, AInv, TInv
<1>2. CASE (WorkStep(w) \/ WorkFault(w)) /\ job'[w] = job[w]
  BY <1>2, GoesOn, EndsForGood, Ends, Zenon
<1>3. CASE pc'[w] \in {"idle", "lock"}
  BY Zenon, <1>3 DEF Working
<1>4. CASE pc'[w] = pc[w] /\ job'[w] = job[w]
  <2>1. ASSUME pc[w] \in Working, op'.state \notin Active PROVE FALSE
    <3>1. /\ op.rev = job[w] /\ op.state \in Active /\ pc[w] # "idle" /\ pc[w] \notin Outcome
          /\ queue[op.rev].state = "running"
      BY Zenon, <1>1, <2>1 DEF Held, Busy, Working, Outcome
    <3>2. ASSUME NEW v \in Worker, Finalize(v) \/ Fail(v), job[v] = op.rev PROVE FALSE
      <4>1. v = w
        BY Zenon, <1>1, <3>1, <3>2 DEF Busy, Finalize, Fail
      <4>2. (Finalize(w) \/ Fail(w)) /\ (WorkStep(w) \/ WorkFault(w))
        BY <3>2, <4>1, Zenon DEF WorkStep
      <4>3. pc'[w] # pc[w]
        <5>1. ASSUME NEW l, Goto(w, l) PROVE pc'[w] = l
          BY Zenon, <1>1, <5>1 DEF Goto, WorkOK
        <5>. QED
          BY Zenon, <4>2, <5>1 DEF Finalize, Fail, Return
      <4>. QED
        BY Zenon, <1>4, <4>3
    <3>3. ASSUME NEW s \in Sweeper, sweep[s].at = "fail", sweep[s].rev = op.rev PROVE FALSE
      BY Zenon, <1>1, <3>1, <3>3 DEF Swept
    <3>. QED
      BY <2>1, <3>1, <3>2, <3>3, Ends, Zenon
  <2>. QED
    BY <1>1, <1>4, <2>1, Ends, Zenon DEF Held
<1>. QED
  BY <1>1, <1>2, <1>3, <1>4, Moves, Zenon

\* Once the cleaner was too early, it stays on record.
LEMMA EarlyStays == [RNext]_rvars /\ cleans.early => cleans'.early
<1>. SUFFICES ASSUME [RNext]_rvars, cleans.early PROVE cleans'.early
  BY Zenon
<1>1. ASSUME NEW r \in Rev, Clean(r) PROVE cleans'.early
  <2>1. PICK b \in BOOLEAN : b = (cleans.early \/ (r = op.rev /\ op.state \in Active))
    BY Zenon
  <2>2. b /\ cleans' = [left |-> cleans.left - 1, early |-> b]
    BY Zenon, <1>1, <2>1 DEF Clean
  <2>. QED
    BY Zenon, <2>2
<1>2. ASSUME NEW w \in Worker, WorkStep(w) \/ WorkFault(w) PROVE cleans' = cleans
  BY Zenon, <1>2, StepFrame
<1>3. ASSUME NEW t \in Task, TaskStep(t) PROVE cleans' = cleans
  BY <1>3, Zenon DEF TaskStep, InsertTask, FetchTask, FenceTask, EndTask, ReportTask, RescueTask, taskFrame
<1>4. ASSUME NEW s \in Sweeper, SweepStep(s) PROVE cleans' = cleans
  BY <1>4, Zenon DEF SweepStep, SweepRead, SweepActive, SweepLatest, SweepFail, SweepInsert, sFrame
<1>5. ASSUME NEW r \in Rev, Rescue(r) \/ \E w \in Worker : Fetch(w, r) PROVE cleans' = cleans
  BY <1>5, Zenon DEF Rescue, Fetch, wFrame
<1>6. Request \/ Retry \/ ServeLate \/ Crash \/ UNCHANGED rvars => cleans' = cleans
  BY Zenon DEF Request, Retry, ServeLate, Crash, rvars
<1>. QED
  BY <1>1, <1>2, <1>3, <1>4, <1>5, <1>6, Zenon DEF RNext

\* The invariant holds until the cleaner is too early.
LEMMA RetryStep == HInv /\ (cleans.early \/ LInv) /\ [RNext]_rvars => HInv' /\ (cleans'.early \/ LInv')
<1>. SUFFICES ASSUME HInv, cleans.early \/ LInv, [RNext]_rvars PROVE HInv' /\ (cleans'.early \/ LInv')
  BY Zenon
<1>1. HInv'
  BY Zenon, FreshStep, EchoedStep, OrderedStep, RowsStep, UntouchedStep, ShownStep, AloneStep, TypeStep DEF HInv, AInv
<1>2. ASSUME ~cleans'.early PROVE LInv'
  <2>1. LInv
    BY Zenon, <1>2, EarlyStays
  <2>. QED
    BY Zenon, <1>1, <1>2, <2>1, StartStep, PastStep, LiveStep, SweptStep, HeldStep DEF LInv
<1>. QED
  BY Zenon, <1>1, <1>2

\* As long as the queue has not deleted the job of an operation under way, a
\* failed removal moves again only by the operator's retry (the update to
\* 'waiting' and advanceRemoval in RemoveSiteWorker.Work).
THEOREM FailureWaitsForTheRetry == RSpec => FailedUntilRetried
<1>. DEFINE Inv == HInv /\ (cleans.early \/ LInv)
<1>1. RInit => Inv
  BY Zenon, RetryInit DEF LInv
<1>2. Inv /\ [RNext]_rvars => Inv'
  BY Zenon, RetryStep
<1>3. Inv /\ [RNext]_rvars =>
        [op.state = "failed" /\ ~cleans.early => op'.state = "failed" \/ op'.rev = op.rev + 1]_rvars
  BY Ends, Started, Zenon
<1>. QED
  BY <1>1, <1>2, <1>3, PTL DEF RSpec, FailedUntilRetried
=============================================================================
