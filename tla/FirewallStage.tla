--------------------------- MODULE FirewallStage ---------------------------
(* Staged changes of the managed firewall (table inet nakpanel).           *)
(*                                                                         *)
(* An administrator's change is an operation: a row and a job at the panel *)
(* and a stage directory at the root agent, which keeps the configuration  *)
(* it found, applies the candidate and arms a rollback that only a         *)
(* confirmation before the deadline disarms.  The agent works under one    *)
(* mutex, one file or nft command at a time, and may die in between; the   *)
(* panel may die, and may lose the answer of a call the agent still        *)
(* serves.                                                                 *)
(*                                                                         *)
(* A configuration is named by the operation that staged it, "base" is the *)
(* one installed before, "none" a missing file or table.  The window is    *)
(* the same for every stage, so deadlines pass in the order of creation.   *)
(*                                                                         *)
(* The file is a bare table block without a flush: nft -f sets the policy  *)
(* of the chains that exist and adds the file's rules to those they have.  *)
(* So the table is the configuration loaded last, whose policy the input   *)
(* chain has, and all those whose rules are in the chains.                 *)
EXTENDS Naturals, Sequences, FiniteSets

CONSTANTS
    Op,          \* operations an administrator may start
    MaxAdmins,   \* bound: administrators with a request in flight
    MaxFaults    \* bound: crashes, lost answers and failing steps

ASSUME ConstantsAssumption ==
    /\ MaxAdmins \in Nat
    /\ MaxFaults \in Nat
    /\ {"none", "base"} \cap Op = {}
    /\ Op # {}

VARIABLES
    row,      \* server_operations.status of each operation, "absent" before
    job,      \* the stage_firewall job of each operation
    call,     \* the panel's side of each call to the agent
    late,     \* calls the agent has to serve although nobody waits for them
    stage,    \* stage directories of the agent: status and previous file
    created,  \* operations in the order of their stage records
    expired,  \* how many of them are past their deadline
    agent,    \* what the holder of the agent's mutex is doing
    file,     \* content of the managed nftables file
    policy,   \* the configuration that set the policy of the input chain
    rules,    \* the configurations whose rules are in the table
    unlisted, \* history: a table was taken for missing because nft list failed
    faults

panel == <<row, job>>
transport == <<call, late>>
store == <<stage, created, expired>>
host == <<file, policy, rules, unlisted>>
vars == <<row, job, call, late, stage, created, expired, agent, file, policy, rules,
          unlisted, faults>>

Config == Op \cup {"none", "base"}
Kind == {"stage", "confirm", "revert"}
Call == Kind \X Op
RowStatus == {"absent", "pending", "running", "awaiting_confirmation", "succeeded", "failed", "rolled_back"}
Terminal == {"succeeded", "failed", "rolled_back"}
StageStatus == {"none", "partial", "pending_confirmation", "confirmed", "rollback_pending", "rolled_back"}
Stage == [status : StageStatus, prev : Config]
Pc == {"idle", "mkdir", "record", "check", "install", "activate", "health", "undo_file", "undo_live",
       "begin", "restore_file", "restore_live", "complete"}
Agent == [pc : Pc, kind : Kind \cup {"recover"}, op : Op, due : SUBSET Op]

Idle == [pc |-> "idle", kind |-> "recover", op |-> CHOOSE o \in Op : TRUE, due |-> {}]
Missing == [status |-> "none", prev |-> "none"]
Status(o) == stage[o].status
Unsettled(o) == Status(o) \in {"pending_confirmation", "rollback_pending"}
Settled(o) == Status(o) \in {"confirmed", "rolled_back"}
Expired(o) == \E i \in 1..Len(created) : i <= expired /\ created[i] = o

FInit ==
    /\ row = [o \in Op |-> "absent"]
    /\ job = [o \in Op |-> "none"]
    /\ call = [c \in Call |-> "idle"]
    /\ late = {}
    /\ stage = [o \in Op |-> Missing]
    /\ created = <<>>
    /\ expired = 0
    /\ agent = Idle
    /\ file \in {"none", "base"}
    /\ policy = file
    /\ rules = {file} \ {"none"} /\ unlisted = FALSE
    /\ faults = 0

Fault == faults < MaxFaults /\ faults' = faults + 1
NoFault == faults' = faults

-----------------------------------------------------------------------------
(* The panel.                                                              *)

\* StageFirewall: the row and its job in one transaction.
Queue(o) ==
    /\ row[o] = "absent"
    /\ row' = [row EXCEPT ![o] = "pending"]
    /\ job' = [job EXCEPT ![o] = "available"]
    /\ UNCHANGED <<transport, store, agent, host, faults>>

\* The guard of UpdateOperation and FinishOperation: a terminal row stays.
Guarded(o, status) == IF row[o] \in Terminal THEN row[o] ELSE status

\* The worker starts, on a queue with one worker: beginOperation, then the call.
\* A row that is terminal already ends the job.
BeginWork(o) ==
    /\ job[o] = "available"
    /\ \A p \in Op : job[p] # "running"
    /\ row' = [row EXCEPT ![o] = Guarded(o, "running")]
    /\ IF row[o] \in Terminal
         THEN job' = [job EXCEPT ![o] = "done"] /\ UNCHANGED call
         ELSE job' = [job EXCEPT ![o] = "running"] /\ call' = [call EXCEPT ![<<"stage", o>>] = "sent"]
    /\ UNCHANGED <<late, store, agent, host, faults>>

\* The worker records the answer of the agent; the job has a single attempt.
EndWork(o) ==
    /\ job[o] = "running"
    /\ call[<<"stage", o>>] \in {"ok", "error"}
    /\ row' = [row EXCEPT ![o] =
                 Guarded(o, IF call[<<"stage", o>>] = "ok" THEN "awaiting_confirmation" ELSE "failed")]
    /\ job' = [job EXCEPT ![o] = "done"]
    /\ call' = [call EXCEPT ![<<"stage", o>>] = "idle"]
    /\ UNCHANGED <<late, store, agent, host, faults>>

\* An administrator confirms or reverts an operation; the handler does not look
\* at the row, and the call does not go through the queue.
Send(k, o) ==
    /\ k \in {"confirm", "revert"}
    /\ row[o] # "absent"
    /\ call[<<k, o>>] = "idle" /\ <<k, o>> \notin late
    /\ Cardinality({c \in Call : c[1] # "stage" /\ call[c] # "idle"}) < MaxAdmins
    /\ call' = [call EXCEPT ![<<k, o>>] = "sent"]
    /\ UNCHANGED <<panel, late, store, agent, host, faults>>

\* Mutant of Outcome: any answer to a request to revert counts as a rollback.
OutcomeAssumed(k, o) ==
    IF k = "revert" THEN "rolled_back"
    ELSE IF call[<<k, o>>] = "error" THEN "failed" ELSE "succeeded"

\* What an administrator's request makes of the row.
Outcome(k, o) ==
    IF call[<<k, o>>] = "error" THEN "failed"
    ELSE IF k = "confirm" THEN "succeeded" ELSE "rolled_back"

\* finishSecurityOperation.
Receive(k, o) ==
    /\ k \in {"confirm", "revert"}
    /\ call[<<k, o>>] \in {"ok", "error"}
    /\ row' = [row EXCEPT ![o] = Guarded(o, Outcome(k, o))]
    /\ call' = [call EXCEPT ![<<k, o>>] = "idle"]
    /\ UNCHANGED <<job, late, store, agent, host, faults>>

\* The connection breaks or times out; the agent serves the call all the same.
LoseAnswer(c) ==
    /\ Fault
    /\ call[c] = "sent" /\ c \notin late
    /\ call' = [call EXCEPT ![c] = "error"]
    /\ late' = late \cup {c}
    /\ UNCHANGED <<panel, store, agent, host>>

\* The panel dies: a job with one attempt is never run again.
PanelCrash ==
    /\ Fault
    /\ late' = late \cup {c \in Call : call[c] = "sent"}
    /\ call' = [c \in Call |-> "idle"]
    /\ job' = [o \in Op |-> IF job[o] = "running" THEN "done" ELSE job[o]]
    /\ UNCHANGED <<row, store, agent, host>>

-----------------------------------------------------------------------------
(* The agent.  Every operator below is a step of the holder of the mutex.  *)

At(pc) == agent.pc = pc
Goto(pc) == agent' = [agent EXCEPT !.pc = pc]

\* The call returns, to its caller if there still is one.
Answer(k, o, result) ==
    /\ agent' = Idle
    /\ IF <<k, o>> \in late
         THEN late' = late \ {<<k, o>>} /\ UNCHANGED call
         ELSE call' = [call EXCEPT ![<<k, o>>] = result] /\ UNCHANGED late

\* The stages that are due are rolled back in the order of their deadlines.
Earliest(o, due) ==
    o \in due /\ \E i \in 1..Len(created) : created[i] = o /\ \A j \in 1..(i - 1) : created[j] \notin due

RollBackNext(due) ==
    \E o \in Op : /\ Earliest(o, due)
                 /\ agent' = [pc |-> "begin", kind |-> "recover", op |-> o, due |-> due \ {o}]

\* The end of a call; RecoverDue goes on with the next stage that is due.
Return(result) ==
    IF agent.kind # "recover"
      THEN Answer(agent.kind, agent.op, result)
      ELSE /\ IF agent.due = {} THEN agent' = Idle ELSE RollBackNext(agent.due)
           /\ UNCHANGED transport

Waiting(c) == call[c] = "sent" \/ c \in late

\* SecurityStageStore.Confirm.
Confirm(o) ==
    LET ok == Status(o) = "confirmed" \/ (Status(o) = "pending_confirmation" /\ ~Expired(o))
    IN  /\ stage' = [stage EXCEPT ![o].status = IF ok THEN "confirmed" ELSE @]
        /\ Answer("confirm", o, IF ok THEN "ok" ELSE "error")

\* The record may fail to be written.
ServeConfirm(o) ==
    /\ At("idle") /\ Waiting(<<"confirm", o>>)
    /\ \/ Confirm(o) /\ NoFault
       \/ Answer("confirm", o, "error") /\ Fault /\ UNCHANGED stage
    /\ UNCHANGED <<panel, created, expired, host>>

ServeRevert(o) ==
    /\ At("idle") /\ Waiting(<<"revert", o>>)
    /\ agent' = [agent EXCEPT !.pc = "begin", !.kind = "revert", !.op = o]
    /\ UNCHANGED <<panel, transport, store, host, faults>>

\* StageServerSecurity: a stage that exists already is only reported.
ServeStage(o) ==
    /\ At("idle") /\ Waiting(<<"stage", o>>)
    /\ IF Status(o) = "none"
         THEN agent' = [agent EXCEPT !.pc = "mkdir", !.kind = "stage", !.op = o] /\ UNCHANGED transport
         ELSE Answer("stage", o, IF Status(o) = "partial" THEN "error" ELSE "ok")
    /\ UNCHANGED <<panel, store, host, faults>>

\* Mutant of Due: an interrupted rollback is not taken up again.
DueFresh(o) == Status(o) = "pending_confirmation" /\ Expired(o)

Due(o) == Status(o) = "rollback_pending" \/ (Status(o) = "pending_confirmation" /\ Expired(o))

\* RecoverDue at boot and once a second.  RollbacksDue lists nothing at all
\* while one directory has no readable record.
Recover ==
    /\ At("idle")
    /\ \A o \in Op : Status(o) # "partial"
    /\ RollBackNext({o \in Op : Due(o)})
    /\ UNCHANGED <<panel, transport, store, host, faults>>

\* stageRendered: the directory with its files, then the record.
MakeDirectory ==
    /\ At("mkdir") /\ Goto("record")
    /\ stage' = [stage EXCEPT ![agent.op].status = "partial"]
    /\ UNCHANGED <<panel, transport, created, expired, host, faults>>

\* Mutant of WriteRecord: the record does not say that there was no file.
WriteRecordNoFlag ==
    /\ At("record") /\ Goto("check")
    /\ stage' = [stage EXCEPT ![agent.op] =
                   [status |-> "pending_confirmation", prev |-> IF file = "none" THEN "" ELSE file]]
    /\ created' = Append(created, agent.op)
    /\ UNCHANGED <<panel, transport, expired, host, faults>>

WriteRecord ==
    /\ At("record") /\ Goto("check")
    /\ stage' = [stage EXCEPT ![agent.op] = [status |-> "pending_confirmation", prev |-> file]]
    /\ created' = Append(created, agent.op)
    /\ UNCHANGED <<panel, transport, expired, host, faults>>

\* A failed write removes the directory.
StageFails ==
    /\ Fault
    /\ At("mkdir") \/ At("record")
    /\ stage' = [stage EXCEPT ![agent.op] = Missing]
    /\ Return("error")
    /\ UNCHANGED <<panel, created, expired, host>>

\* Candidate reads the staged bytes back; an error there ends the call and
\* leaves the stage to its deadline.  ValidateAndApplyNftables then runs nft -c,
\* writes the file, and runs nft -f and nft list.
Check ==
    /\ At("check")
    /\ \/ Goto("install") /\ NoFault /\ UNCHANGED transport
       \/ Goto("begin") /\ Fault /\ UNCHANGED transport
       \/ Return("error") /\ Fault
    /\ UNCHANGED <<panel, store, host>>

KeepTable == UNCHANGED <<policy, rules, unlisted>>

Install ==
    /\ At("install")
    /\ \/ file' = agent.op /\ Goto("activate") /\ NoFault
       \/ file' = file /\ Goto("begin") /\ Fault
    /\ KeepTable /\ UNCHANGED <<panel, transport, store>>

\* nft -f on a file that RenderNftablesPolicy wrote.
Load(c) == policy' = c /\ rules' = rules \cup {c} /\ UNCHANGED unlisted

\* A command that is cut off may have loaded the file.
Activate ==
    /\ At("activate")
    /\ \/ Load(agent.op) /\ Goto("health") /\ NoFault
       \/ (Load(agent.op) \/ KeepTable) /\ Goto("undo_file") /\ Fault
    /\ UNCHANGED <<panel, transport, store, file>>

Health ==
    /\ At("health")
    /\ \/ Return("ok") /\ NoFault
       \/ Goto("undo_file") /\ UNCHANGED transport /\ Fault
    /\ UNCHANGED <<panel, store, host>>

Previous == stage[agent.op].prev

\* restore, first half: put the previous file back, or remove the file.
\* What comes of a failure depends on the caller.
RestoreFile(from, to, failed) ==
    /\ At(from)
    /\ \/ file' = Previous /\ Goto(to) /\ NoFault /\ UNCHANGED transport
       \/ file' = file /\ failed /\ Fault
    /\ KeepTable /\ UNCHANGED <<panel, store>>

\* restore, second half: load the previous file, or delete the table.
RestoreTable ==
    IF Previous = "none" THEN policy' = "none" /\ rules' = {} /\ unlisted' = FALSE
                         ELSE Load(Previous)

\* Without a previous file an nft list that fails counts as a missing table.
RestoreLive(from, to, failed) ==
    /\ At(from)
    /\ \/ RestoreTable /\ Goto(to) /\ NoFault /\ UNCHANGED transport
       \/ (RestoreTable \/ KeepTable) /\ failed /\ Fault
       \/ /\ Previous = "none" /\ unlisted' = TRUE /\ UNCHANGED <<policy, rules>>
          /\ Goto(to) /\ Fault /\ UNCHANGED transport
    /\ UNCHANGED <<panel, store, file>>

\* The applier undoes its own failed activation and ignores the outcome.
Undo ==
    \/ RestoreFile("undo_file", "undo_live", Goto("begin") /\ UNCHANGED transport)
    \/ RestoreLive("undo_live", "begin", Goto("begin") /\ UNCHANGED transport)

\* beginRollback: forced for a failed stage and for an administrator.
BeginRollback ==
    /\ At("begin")
    /\ IF Unsettled(agent.op)
         THEN /\ stage' = [stage EXCEPT ![agent.op].status = "rollback_pending"]
              /\ Goto("restore_file") /\ UNCHANGED transport
         ELSE /\ Return(IF agent.kind = "revert" /\ Status(agent.op) = "rolled_back" THEN "ok" ELSE "error")
              /\ UNCHANGED stage
    /\ UNCHANGED <<panel, created, expired, host, faults>>

\* Mutant of RestorePrevious: a file that cannot be written is passed over.
RestorePreviousAnyway ==
    \/ RestoreFile("restore_file", "restore_live", Goto("restore_live") /\ UNCHANGED transport)
    \/ RestoreLive("restore_live", "complete", Return("error"))

RestorePrevious ==
    \/ RestoreFile("restore_file", "restore_live", Return("error"))
    \/ RestoreLive("restore_live", "complete", Return("error"))

CompleteRollback ==
    /\ At("complete")
    /\ stage' = [stage EXCEPT ![agent.op].status = "rolled_back"]
    /\ Return(IF agent.kind = "stage" THEN "error" ELSE "ok")
    /\ UNCHANGED <<panel, created, expired, host, faults>>

\* A record that cannot be written ends the rollback with an error.
RollbackFails ==
    /\ Fault
    /\ At("begin") \/ At("complete")
    /\ Return("error")
    /\ UNCHANGED <<panel, store, host>>

\* The agent dies: its callers see a broken connection, the rest is gone.
AgentCrash ==
    /\ Fault
    /\ agent' = Idle
    /\ call' = [c \in Call |-> IF call[c] = "sent" THEN "error" ELSE call[c]]
    /\ late' = {}
    /\ UNCHANGED <<panel, store, host>>

Expire ==
    /\ expired < Len(created)
    /\ expired' = expired + 1
    /\ UNCHANGED <<panel, transport, stage, created, agent, host, faults>>

-----------------------------------------------------------------------------

AgentStep ==
    \/ MakeDirectory \/ WriteRecord \/ StageFails
    \/ Check \/ Install \/ Activate \/ Health \/ Undo
    \/ BeginRollback \/ RestorePrevious \/ CompleteRollback \/ RollbackFails

PanelStep(o) ==
    \/ Queue(o) \/ BeginWork(o) \/ EndWork(o)
    \/ \E k \in Kind : Send(k, o) \/ Receive(k, o)

Serve(o) == ServeStage(o) \/ ServeConfirm(o) \/ ServeRevert(o)

FNext ==
    \/ \E o \in Op : PanelStep(o) \/ Serve(o)
    \/ \E c \in Call : LoseAnswer(c)
    \/ Recover \/ AgentStep \/ Expire
    \/ PanelCrash \/ AgentCrash

FSpec == FInit /\ [][FNext]_vars

\* Go's mutex hands itself to a waiter that has waited long enough, so the
\* recovery timer gets its turn among requests that keep coming.
FFairness ==
    /\ WF_vars(AgentStep) /\ WF_vars(Expire) /\ SF_vars(Recover)

FFairSpec == FSpec /\ FFairness

-----------------------------------------------------------------------------
(* Properties.                                                             *)

\* The type invariant.
FTypeOK ==
    /\ row \in [Op -> RowStatus]
    /\ job \in [Op -> {"none", "available", "running", "done"}]
    /\ call \in [Call -> {"idle", "sent", "ok", "error"}]
    /\ late \subseteq Call
    /\ stage \in [Op -> Stage]
    /\ created \in Seq(Op) /\ Len(created) <= Cardinality(Op)
    /\ expired \in 0..Len(created)
    /\ agent \in Agent
    /\ file \in Config /\ policy \in Config /\ rules \subseteq Op \cup {"base"} /\ unlisted \in BOOLEAN
    /\ faults \in 0..MaxFaults

\* What the panel shows is what the agent did, whatever was lost on the way: a
\* succeeded operation is confirmed at the agent, a rolled back one is rolled
\* back, and one that awaits confirmation has a stage (finishSecurityOperation
\* and StageFirewallWorker against the agent's records).
VerdictsAreTrue ==
    \A o \in Op :
        /\ row[o] = "succeeded" => Status(o) = "confirmed"
        /\ row[o] = "rolled_back" => Status(o) = "rolled_back"
        /\ row[o] = "awaiting_confirmation" => Unsettled(o) \/ Settled(o)

Quiet == At("idle") /\ \A o \in Op : Status(o) = "none" \/ Settled(o)

Approved(c) == c \notin Op \/ Status(c) = "confirmed"

Snapshotted(c) == \E o \in Op : stage[o].prev = c

\* When every stage is settled, the file, and with it the firewall after the next
\* boot, the policy of the input chain and the rules in the kernel are those of no
\* candidate that was never confirmed, in spite of crashes and failing commands.
\* There are three ways around it: a second stage took the candidate for its
\* previous file; nft list failed when the table of a first configuration was to
\* be deleted; and the rules of a candidate staged over another configuration,
\* which restore loads again without removing anything.
UnconfirmedIsUndone ==
    Quiet =>
        /\ Approved(file) \/ Snapshotted(file)
        /\ Approved(policy) \/ Snapshotted(policy) \/ unlisted
        /\ \A c \in rules :
              Approved(c) \/ Snapshotted(c) \/ unlisted \/ stage[c].prev # "none"

\* A directory without a record that an agent which died has left behind.
Littered == At("idle") /\ \E o \in Op : Status(o) = "partial"

\* Without anybody's help there is again and again a moment at which every stage
\* is settled, unless a directory cannot be read.  An operation has one stage, so
\* each stage is confirmed or rolled back in the end (RecoverDue).
StagesSettle == []<>(Littered \/ \A o \in Op : ~Unsettled(o))
=============================================================================
