----------------------------- MODULE MailImport -----------------------------
(***************************************************************************)
(* Import of a mailbox (internal/control/mailimport): preview and start,   *)
(* pause, resume and cancel, expiry of previews, and Engine.Run, which     *)
(* copies the messages of the source one by one into the destination.      *)
(*                                                                         *)
(* An append cannot be undone and its answer may be lost, so every message *)
(* is marked 'appending' before it is sent, and a message whose append is  *)
(* in doubt is settled by the receipt it carries, never by a second        *)
(* append.  The jobs run at least once, overlap and outlive the revision   *)
(* they were made for.                                                     *)
(***************************************************************************)
EXTENDS Naturals, FiniteSets, FiniteSetsExt

CONSTANTS
    N,           \* messages 1..N in the order of their discovery
    Folder, FolderOf,   \* the source folders and the folder of each message
    Worker,      \* slots of the job queue
    NoWorker,
    MaxRev,      \* bound: desired_revision
    MaxFaults    \* bound: crashes, errors and refusals of the mail servers

ASSUME ImportAssumption ==
    /\ N \in Nat \ {0} /\ MaxRev \in Nat \ {0} /\ MaxFaults \in Nat
    /\ FolderOf \in [1..N -> Folder]
    /\ NoWorker \notin Worker

VARIABLES
    imp,       \* the row of mail_imports: state, desired_revision, prepared
    expired,   \* expires_at has passed
    usable,    \* the mailbox, the subscription and the policy allow the import
    source,    \* messages that exist at the source
    skip,      \* folders the operator left out (approved = false)
    prep,      \* progress of the request that prepares the preview
    rec,       \* state of each row of mail_import_messages
    box,       \* how many copies of each message the destination holds
    flying,    \* appends without an answer that may still arrive
    secrets, staged,          \* credentials and staged archive exist
    queue,     \* the mail_import job of each revision
    lock,      \* the advisory lock of the import
    pc, job, scan, todo,      \* Run: label, revision, scan, messages left
    faults

intake == <<expired, usable, source, skip, prep, secrets, staged>>
copies == <<rec, box, flying>>
run    == <<pc, job, scan, todo>>
ivars  == <<imp, intake, copies, queue, lock, run, faults>>

Msg == 1..N
Rev == 1..MaxRev
MaxAttempts == 3

RunningState == {"queued", "discovering", "copying", "verifying"}
Terminal     == {"complete", "cancelled"}
ImportState  == RunningState \cup Terminal \cup {"none", "preview", "paused", "attention_required"}
Settled      == {"verified", "excluded"}

IInit ==
    /\ imp = [state |-> "none", rev |-> 1, prepared |-> FALSE]
    /\ expired = FALSE /\ usable = TRUE
    /\ source \in {1..k : k \in 1..N}
    /\ skip = {} /\ prep = "none"
    /\ rec = [m \in Msg |-> "absent"]
    /\ box = [m \in Msg |-> 0]
    /\ flying = {}
    /\ secrets = FALSE /\ staged = FALSE
    /\ queue = [r \in Rev |-> [state |-> "absent", tries |-> 0]]
    /\ lock = NoWorker
    /\ pc = [w \in Worker |-> "idle"]
    /\ job = [w \in Worker |-> 0]
    /\ scan = [w \in Worker |-> 1]
    /\ todo = [w \in Worker |-> {}]
    /\ faults = MaxFaults

Fault == faults > 0 /\ faults' = faults - 1

Insert(r) == queue' = [queue EXCEPT ![r] = [state |-> "available", tries |-> 0]]

-----------------------------------------------------------------------------
(* The operator and the environment.                                       *)

opFrame == <<copies, lock, run, faults>>

\* Manager.Preview stores the import and its credentials, and goes on to
\* Engine.Prepare in the same request.
Preview ==
    /\ imp.state = "none" /\ usable
    /\ imp' = [imp EXCEPT !.state = "preview"]
    /\ secrets' = TRUE /\ staged' = TRUE /\ prep' = "open"
    /\ UNCHANGED <<opFrame, expired, usable, source, skip, queue>>

PrepareOpen ==
    /\ prep = "open"
    /\ \/ prep' = (IF secrets THEN "discover" ELSE "fail") /\ UNCHANGED faults
       \/ prep' = "fail" /\ Fault
    /\ UNCHANGED <<imp, copies, queue, lock, run, expired, usable, source, skip, secrets, staged>>

\* Store.Discover: new messages become records, known ones are left alone.
Discovered ==
    [m \in Msg |-> IF m \in source /\ rec[m] = "absent"
                   THEN IF FolderOf[m] \in skip THEN "excluded" ELSE "pending"
                   ELSE rec[m]]

PrepareDiscover ==
    /\ prep = "discover"
    /\ rec' = Discovered
    /\ prep' = "mark"
    /\ UNCHANGED <<imp, box, flying, queue, lock, run, faults, expired, usable, source, skip, secrets, staged>>

\* Prepared marks only what is still a preview.
Prepared ==
    /\ prep = "mark"
    /\ imp' = [imp EXCEPT !.prepared = imp.prepared \/ imp.state = "preview"]
    /\ prep' = "done"
    /\ UNCHANGED <<opFrame, queue, expired, usable, source, skip, secrets, staged>>

\* Mutant of MapFolders: a folder that is taken in again keeps its excluded messages.
MapFoldersSticky ==
    /\ imp.state = "preview"
    /\ \E excluded \in SUBSET {FolderOf[m] : m \in {k \in Msg : rec[k] # "absent"}} :
         /\ skip' = excluded
         /\ rec' = [m \in Msg |-> IF rec[m] # "absent" /\ FolderOf[m] \in excluded THEN "excluded" ELSE rec[m]]
    /\ UNCHANGED <<imp, box, flying, queue, lock, run, faults, expired, usable, source, prep, secrets, staged>>

MapFolders ==
    /\ imp.state = "preview"
    /\ \E excluded \in SUBSET {FolderOf[m] : m \in {k \in Msg : rec[k] # "absent"}} :
         /\ skip' = excluded
         /\ rec' = [m \in Msg |-> IF rec[m] = "absent" THEN "absent"
                                  ELSE IF FolderOf[m] \in excluded THEN "excluded" ELSE "pending"]
    /\ UNCHANGED <<imp, box, flying, queue, lock, run, faults, expired, usable, source, prep, secrets, staged>>

Start ==
    /\ imp.state = "preview" /\ imp.prepared /\ ~expired /\ usable
    /\ imp' = [imp EXCEPT !.state = "queued"]
    /\ Insert(imp.rev)
    /\ UNCHANGED <<opFrame, intake>>

\* Transition: each one starts a new revision.
Move(state) == imp' = [imp EXCEPT !.state = state, !.rev = imp.rev + 1]

Pause ==
    /\ imp.state \in RunningState /\ imp.rev < MaxRev
    /\ Move("paused")
    /\ UNCHANGED <<opFrame, intake, queue>>

Resume ==
    /\ imp.state \in {"paused", "attention_required"} /\ imp.rev < MaxRev /\ usable
    /\ Move("queued")
    /\ Insert(imp.rev + 1)
    /\ UNCHANGED <<opFrame, intake>>

\* Cancel, by the operator or by a Preview that could not prepare.
\* The credentials go in the transaction; the staged archive is then removed
\* at once if the agent answers, otherwise by the job.
Cancel ==
    /\ imp.state \notin Terminal \cup {"none"} /\ imp.rev < MaxRev
    /\ Move("cancelled")
    /\ Insert(imp.rev + 1)
    /\ secrets' = FALSE
    /\ \/ staged' = FALSE /\ UNCHANGED faults
       \/ staged' = staged /\ Fault
    /\ UNCHANGED <<copies, lock, run, expired, usable, source, skip, prep>>

\* Mutant of ExpirePreviews: the credentials go although the job was not queued.
ExpirePreviewsSplit ==
    /\ imp.state = "preview" /\ expired
    /\ secrets' = FALSE
    /\ UNCHANGED <<opFrame, imp, queue, expired, usable, source, skip, prep, staged>>

ExpirePreviews ==
    /\ imp.state = "preview" /\ expired /\ imp.rev < MaxRev
    /\ Move("cancelled")
    /\ Insert(imp.rev + 1)
    /\ secrets' = FALSE
    /\ UNCHANGED <<opFrame, expired, usable, source, skip, prep, staged>>

\* Thirty minutes pass; a message reaches the source; the mailbox, its
\* subscription or its policy is disabled, and enabled again.
Elapse ==
    /\ imp.state = "preview" /\ ~expired /\ expired' = TRUE
    /\ UNCHANGED <<opFrame, imp, queue, usable, source, skip, prep, secrets, staged>>

Arrive ==
    /\ source # Msg /\ source' = source \cup {Cardinality(source) + 1}
    /\ UNCHANGED <<opFrame, imp, queue, expired, usable, skip, prep, secrets, staged>>

Disable ==
    /\ usable /\ Fault /\ usable' = FALSE
    /\ UNCHANGED <<imp, copies, queue, lock, run, expired, source, skip, prep, secrets, staged>>

Enable ==
    /\ ~usable /\ usable' = TRUE
    /\ UNCHANGED <<opFrame, imp, queue, expired, source, skip, prep, secrets, staged>>

Operator ==
    \/ Preview \/ PrepareOpen \/ PrepareDiscover \/ Prepared \/ MapFolders
    \/ Start \/ Pause \/ Resume \/ Cancel \/ ExpirePreviews
    \/ Elapse \/ Arrive \/ Disable \/ Enable

-----------------------------------------------------------------------------
(* Engine.Run, one label per call whose place among the steps of others    *)
(* matters.                                                                *)

Goto(w, label) == pc' = [pc EXCEPT ![w] = label]

\* Store.Current and Engine.active.
Current(w) == imp.rev = job[w] /\ imp.state \in RunningState /\ usable

\* Mutant of MaySet: only a cancelled import is protected from its runs.
MaySetPaused(w, state) ==
    /\ imp.state # "cancelled"
    /\ state = "complete" => \A m \in Msg : rec[m] \in Settled \cup {"absent"}

\* The guard of SetState.
MaySet(w, state) ==
    /\ imp.rev = job[w]
    /\ imp.state \notin {"paused", "cancelled"}
    /\ state = "complete" => \A m \in Msg : rec[m] \in Settled \cup {"absent"}

\* The message the loop over the records is at.
Here(w) == Min(todo[w])

Checkpoint(w, state) == rec' = [rec EXCEPT ![Here(w)] = state]

\* Run returns nil or an error; the queue counts attempts when it fetches.
Release(w) ==
    /\ lock' = IF lock = w THEN NoWorker ELSE lock
    /\ pc' = [pc EXCEPT ![w] = "idle"]
    /\ job' = [job EXCEPT ![w] = 0]
    /\ scan' = [scan EXCEPT ![w] = 1]
    /\ todo' = [todo EXCEPT ![w] = {}]

\* Mutant of AfterError: attempts are not limited.
AfterErrorAlways(j) == [j EXCEPT !.state = "available"]

AfterError(j) == [j EXCEPT !.state = IF j.tries < MaxAttempts THEN "available" ELSE "discarded"]

Done(w)  == Release(w) /\ queue' = [queue EXCEPT ![job[w]].state = "completed"]
Error(w) == Release(w) /\ queue' = [queue EXCEPT ![job[w]] = AfterError(@)]

\* Idle workers are alike: the queue hands a job to one of them.
Fetch(w, r) ==
    /\ pc[w] = "idle" /\ w = CHOOSE idle \in Worker : pc[idle] = "idle"
    /\ queue[r].state = "available"
    /\ queue' = [queue EXCEPT ![r] = [state |-> "running", tries |-> @.tries + 1]]
    /\ job' = [job EXCEPT ![w] = r]
    /\ Goto(w, "lock")
    /\ UNCHANGED <<imp, intake, copies, lock, scan, todo, faults>>

Lock(w) ==
    /\ pc[w] = "lock"
    /\ IF lock = NoWorker
       THEN lock' = w /\ Goto(w, "job") /\ UNCHANGED <<queue, job, scan, todo>>
       ELSE Error(w)
    /\ UNCHANGED <<imp, intake, copies, faults>>

\* Mutant of LoadJob: a finished import is not disposed of by a retry.
LoadJobNoDisposal(w) ==
    /\ pc[w] = "job"
    /\ Goto(w, "current")
    /\ UNCHANGED <<imp, intake, copies, queue, lock, job, scan, todo, faults>>

LoadJob(w) ==
    /\ pc[w] = "job"
    /\ Goto(w, IF imp.state \in Terminal THEN "retire" ELSE "current")
    /\ UNCHANGED <<imp, intake, copies, queue, lock, job, scan, todo, faults>>

\* A step that goes on only while the revision is current.
IfCurrent(w, label) ==
    /\ IF Current(w) THEN Goto(w, label) /\ UNCHANGED <<queue, lock, job, scan, todo>> ELSE Done(w)
    /\ UNCHANGED <<imp, intake, copies, faults>>

CheckCurrent(w) == pc[w] = "current" /\ IfCurrent(w, "open")

\* The step succeeds, or a mail server or the agent fails it and the import
\* asks for attention.
OrAttention(w, ok, label) ==
    /\ \/ Goto(w, IF ok THEN label ELSE "attention") /\ UNCHANGED faults
       \/ Goto(w, "attention") /\ Fault
    /\ UNCHANGED <<imp, intake, box, flying, queue, lock, job>>

Open(w) == pc[w] = "open" /\ OrAttention(w, secrets, "scan") /\ UNCHANGED <<rec, scan, todo>>

Scan(w) == pc[w] = "scan" /\ IfCurrent(w, "discovering")

\* SetState, with the messages left after it: ErrSuperseded when the guard
\* fails, which fails the job.
SetState(w, state, label, left) ==
    /\ IF MaySet(w, state)
       THEN /\ imp' = [imp EXCEPT !.state = state]
            /\ Goto(w, label)
            /\ todo' = [todo EXCEPT ![w] = left]
            /\ UNCHANGED <<queue, lock, job, scan>>
       ELSE Error(w) /\ UNCHANGED imp
    /\ UNCHANGED <<intake, copies, faults>>

SetDiscovering(w) == pc[w] = "discovering" /\ SetState(w, "discovering", "discover", todo[w])

\* source.Discover, Store.Discover and EnsureFolder.
Discover(w) ==
    /\ pc[w] = "discover"
    /\ OrAttention(w, TRUE, "copying")
    /\ rec' = (IF pc'[w] = "copying" THEN Discovered ELSE rec)
    /\ UNCHANGED <<scan, todo>>

\* Messages reads the records once for the scan; only the holder of the lock
\* writes them after the preview.
SetCopying(w) ==
    /\ pc[w] = "copying"
    /\ SetState(w, "copying", "record", {m \in Msg : rec[m] # "absent"})

\* Mutant of StepOf: a message that was being appended is appended again.
StepOfBlind(m) ==
    CASE rec[m] = "uncertain"                         -> "find"
      [] rec[m] \in {"pending", "failed", "appending"} -> "mark"
      [] OTHER                                        -> "verifying"

\* Where the loop goes with the message it is at.
StepOf(m) ==
    CASE rec[m] \in {"appending", "uncertain"} -> "find"
      [] rec[m] \in {"pending", "failed"}      -> "mark"
      [] OTHER                                 -> "verifying"

\* The top of the loop: active, the states that are skipped, and source.Read
\* with the comparison of the content hash.
Record(w) ==
    /\ pc[w] = "record" /\ todo[w] # {}
    /\ IF ~Current(w)
       THEN Done(w) /\ UNCHANGED <<imp, intake, copies, faults>>
       ELSE IF rec[Here(w)] \in Settled \/ FolderOf[Here(w)] \in skip
       THEN todo' = [todo EXCEPT ![w] = @ \ {Here(w)}] /\ UNCHANGED <<imp, intake, copies, queue, lock, pc, job, scan, faults>>
       ELSE OrAttention(w, TRUE, StepOf(Here(w))) /\ UNCHANGED <<rec, scan, todo>>

\* Mutant of FindReceipt: no receipt at all is taken for a receipt.
FindReceiptNone(w) ==
    /\ pc[w] = "find"
    /\ OrAttention(w, box[Here(w)] <= 1, "verifying")
    /\ IF pc'[w] = "attention" THEN Checkpoint(w, "uncertain") ELSE UNCHANGED rec
    /\ UNCHANGED <<scan, todo>>

\* FindReceipt settles an append in doubt, or leaves it uncertain.
FindReceipt(w) ==
    /\ pc[w] = "find"
    /\ OrAttention(w, box[Here(w)] = 1, "verifying")
    /\ IF pc'[w] = "attention" THEN Checkpoint(w, "uncertain") ELSE UNCHANGED rec
    /\ UNCHANGED <<scan, todo>>

MarkAppending(w) ==
    /\ pc[w] = "mark"
    /\ Checkpoint(w, "appending")
    /\ Goto(w, "recheck")
    /\ UNCHANGED <<imp, intake, box, flying, queue, lock, job, scan, todo, faults>>

Recheck(w) == pc[w] = "recheck" /\ IfCurrent(w, "append")

\* The append is acknowledged, refused before it is sent, or sent without an
\* answer: it then arrives at once, later or never.
Append(w) ==
    /\ pc[w] = "append"
    /\ \/ /\ box' = [box EXCEPT ![Here(w)] = @ + 1]
          /\ Goto(w, "copied") /\ UNCHANGED <<flying, faults>>
       \/ Fault /\ Goto(w, "failed") /\ UNCHANGED <<box, flying>>
       \/ Fault /\ Goto(w, "uncertain") /\ flying' = flying \cup {Here(w)} /\ UNCHANGED box
    /\ UNCHANGED <<imp, intake, rec, queue, lock, job, scan, todo>>

\* The checkpoint after the append.
RecordAppend(w) ==
    /\ pc[w] \in {"copied", "failed", "uncertain"}
    /\ Checkpoint(w, pc[w])
    /\ Goto(w, IF pc[w] = "copied" THEN "verifying" ELSE "attention")
    /\ UNCHANGED <<imp, intake, box, flying, queue, lock, job, scan, todo, faults>>

SetVerifying(w) == pc[w] = "verifying" /\ SetState(w, "verifying", "read", todo[w])

\* target.Read and sameMessage.
Verify(w) ==
    /\ pc[w] = "read"
    /\ OrAttention(w, box[Here(w)] > 0, "record")
    /\ IF pc'[w] = "record"
       THEN Checkpoint(w, "verified") /\ todo' = [todo EXCEPT ![w] = @ \ {Here(w)}]
       ELSE Checkpoint(w, "copied") /\ UNCHANGED todo
    /\ UNCHANGED scan

\* The end of a scan: the source is scanned twice.
EndScan(w) ==
    /\ pc[w] = "record" /\ todo[w] = {}
    /\ scan' = [scan EXCEPT ![w] = 2]
    /\ Goto(w, IF scan[w] = 1 THEN "scan" ELSE "final")
    /\ UNCHANGED <<imp, intake, copies, queue, lock, job, todo, faults>>

CheckFinal(w) == pc[w] = "final" /\ IfCurrent(w, "fresh")

\* verifyFreshConnection: every record is verified and the destination holds
\* exactly one message with its receipt.
FreshlyVerified == \A m \in Msg : rec[m] \in {"absent", "excluded"} \/ (rec[m] = "verified" /\ box[m] = 1)

VerifyFresh(w) ==
    /\ pc[w] = "fresh"
    /\ IF secrets /\ (\E m \in Msg : rec[m] \notin {"absent", "excluded"}) /\ ~Current(w)
       THEN Done(w) /\ UNCHANGED <<imp, intake, copies, faults>>
       ELSE OrAttention(w, secrets /\ FreshlyVerified, "complete") /\ UNCHANGED <<rec, scan, todo>>

Complete(w) == pc[w] = "complete" /\ SetState(w, "complete", "retire", todo[w])

\* Mutant of Attention: the job is acknowledged without a verdict.
AttentionLost(w) == pc[w] = "attention" /\ Done(w) /\ UNCHANGED <<imp, intake, copies, faults>>

Attention(w) ==
    /\ pc[w] = "attention"
    /\ IF MaySet(w, "attention_required")
       THEN imp' = [imp EXCEPT !.state = "attention_required"] /\ Done(w)
       ELSE Error(w) /\ UNCHANGED imp
    /\ UNCHANGED <<intake, copies, faults>>

Retire(w) ==
    /\ pc[w] = "retire"
    /\ secrets' = (secrets /\ imp.state \notin Terminal)
    /\ Goto(w, "cleanup")
    /\ UNCHANGED <<imp, copies, queue, lock, job, scan, todo, faults, expired, usable, source, skip, prep, staged>>

Cleanup(w) ==
    /\ pc[w] = "cleanup"
    /\ staged' = FALSE
    /\ Done(w)
    /\ UNCHANGED <<imp, copies, faults, expired, usable, source, skip, prep, secrets>>

-----------------------------------------------------------------------------
(* Faults.                                                                 *)

\* A database error or the time limit of the job ends Run with an error.  An
\* append cut off this way has no answer.
CutOff(w) == flying' = IF pc[w] = "append" THEN flying \cup {Here(w)} ELSE flying

RunFails(w) ==
    /\ pc[w] # "idle" /\ Fault
    /\ CutOff(w) /\ Error(w)
    /\ UNCHANGED <<imp, intake, rec, box>>

\* The process dies: the session lock goes with its connection and the job
\* stays running until it is rescued.
Crash(w) ==
    /\ pc[w] # "idle" /\ Fault
    /\ CutOff(w) /\ Release(w)
    /\ UNCHANGED <<imp, intake, rec, box, queue>>

Rescue(r) ==
    /\ queue[r].state = "running" /\ \A w \in Worker : job[w] # r
    /\ queue' = [queue EXCEPT ![r] = AfterError(@)]
    /\ UNCHANGED <<imp, intake, copies, lock, run, faults>>

\* An append without an answer reaches the mailbox, or is lost for good.
Arrives(m) ==
    /\ m \in flying /\ flying' = flying \ {m}
    /\ \/ box' = [box EXCEPT ![m] = @ + 1]
       \/ UNCHANGED box
    /\ UNCHANGED <<imp, intake, rec, queue, lock, run, faults>>

RunStep(w) ==
    \/ Lock(w) \/ LoadJob(w) \/ CheckCurrent(w) \/ Open(w) \/ Scan(w) \/ SetDiscovering(w)
    \/ Discover(w) \/ SetCopying(w) \/ Record(w) \/ FindReceipt(w) \/ MarkAppending(w)
    \/ Recheck(w) \/ Append(w) \/ RecordAppend(w) \/ SetVerifying(w) \/ Verify(w)
    \/ EndScan(w) \/ CheckFinal(w) \/ VerifyFresh(w) \/ Complete(w) \/ Attention(w)
    \/ Retire(w) \/ Cleanup(w)

INext ==
    \/ Operator
    \/ \E w \in Worker : RunStep(w) \/ RunFails(w) \/ Crash(w) \/ \E r \in Rev : Fetch(w, r)
    \/ \E r \in Rev : Rescue(r)
    \/ \E m \in Msg : Arrives(m)

ISpec == IInit /\ [][INext]_ivars

-----------------------------------------------------------------------------
(* Fairness: the queue hands out available jobs and rescues abandoned      *)
(* ones, and a running job goes on.  Nothing is assumed of the operator,   *)
(* of the expiry sweep or of an append without an answer.                  *)

IFairness ==
    /\ WF_ivars(\E w \in Worker : RunStep(w))
    /\ WF_ivars(\E r \in Rev : Rescue(r) \/ \E w \in Worker : Fetch(w, r))

IFairSpec == ISpec /\ IFairness

-----------------------------------------------------------------------------
(* Properties.                                                             *)

\* Type invariant of the import, its ledger, its jobs and the runs.
ITypeOK ==
    /\ imp \in [state : ImportState, rev : Rev, prepared : BOOLEAN]
    /\ rec \in [Msg -> {"absent", "pending", "appending", "copied", "verified", "failed", "uncertain", "excluded"}]
    /\ box \in [Msg -> Nat] /\ flying \subseteq Msg
    /\ expired \in BOOLEAN /\ usable \in BOOLEAN /\ secrets \in BOOLEAN /\ staged \in BOOLEAN
    /\ source \subseteq Msg /\ skip \subseteq Folder
    /\ prep \in {"none", "open", "discover", "mark", "done", "fail"}
    /\ queue \in [Rev -> [state : {"absent", "available", "running", "completed", "discarded"}, tries : 0..MaxAttempts]]
    /\ lock \in Worker \cup {NoWorker}
    /\ job \in [Worker -> 0..MaxRev] /\ scan \in [Worker -> {1, 2}] /\ todo \in [Worker -> SUBSET Msg]
    /\ faults \in 0..MaxFaults

\* No message is ever copied twice: neither overlapping jobs, nor retries of
\* an append in doubt, nor one that arrives late, produce a second copy
\* (worker.go: the checkpoint before Append and FindReceipt after a doubt).
NoMessageTwice == \A m \in Msg : box[m] + (IF m \in flying THEN 1 ELSE 0) <= 1

\* The ledger never claims a copy the destination does not hold: the counts
\* copied and verified never exceed the messages that arrived (Checkpoint).
LedgerIsTrue == \A m \in Msg : rec[m] \in {"copied", "verified"} => box[m] = 1

\* A complete import holds every selected message it ever discovered exactly
\* once and nothing of the folders that were left out (Run, SetState).
CompleteIsExact ==
    imp.state = "complete" =>
        \A m \in Msg : /\ rec[m] # "absent" => (box[m] = 1 <=> FolderOf[m] \notin skip)
                       /\ rec[m] = "absent" => box[m] = 0

\* The credentials of an import live until it is terminal: no expiry and no
\* retry of a superseded job takes them from an import that may still run
\* (ExpirePreviews "never a paused or running copy", Retire).
CredentialsOutliveTheImport == imp.state \notin Terminal \cup {"none"} => secrets

\* A stopped import is moved only by a new revision, and a finished one by
\* nothing: no run of an earlier revision, retried or late, revives it
\* (SetState, Transition).
StoppedStaysStopped ==
    [][/\ imp.state \in Terminal => imp'.state = imp.state
       /\ imp.state \in {"paused", "attention_required"} /\ imp'.state # imp.state => imp'.rev > imp.rev]_ivars

\* An import that stays allowed does not stay in a running state: its job
\* ends in a verdict, unless the queue gave the job up (Run, attention).
RunsEnd ==
    []usable => []<>(imp.state \notin RunningState \/ queue[imp.rev].state = "discarded")

\* A finished import gives up its credentials and its staged archive, crashes
\* between the verdict and the disposal included, unless the queue gave the
\* job up (Run: "Terminal retries finish disposal").
FinishedIsDisposed ==
    []<>(imp.state \notin Terminal \/ (~secrets /\ ~staged) \/ queue[imp.rev].state = "discarded")

\* What TestPauseResume says of pause and resume: they cost nothing.  Where no
\* server, database or process failed, no message is left in doubt.
PauseLeavesNoDoubt == faults = MaxFaults => \A m \in Msg : rec[m] # "uncertain"
=============================================================================
