-------------------------- MODULE MailImportProofs --------------------------
(* No message is copied twice, the ledger is true, a complete import is    *)
(* exact, a stopped one stays stopped and one that goes on keeps its       *)
(* credentials, for any messages, folders, workers, revisions and faults.  *)
(*                                                                         *)
(* The first three are not inductive alone: a run acts on a message it     *)
(* looked at several steps earlier.  LInv says what each label of the run  *)
(* knows of the message it is at.  The advisory lock keeps every other run *)
(* out, and the requests that rewrite the ledger without it come before    *)
(* the first job.  JInv ties the runs to their jobs, which is what keeps a *)
(* late run from reviving an import that was stopped.                      *)
EXTENDS MailImport, FiniteSetTheorems, TLAPS, WellFoundedInduction

\* Most leaves are first-order; those with arithmetic or large case splits cite SMT.
USE ZenonT(20)

RecState == {"absent", "pending", "appending", "copied", "verified", "failed", "uncertain", "excluded"}

\* Nothing of message m was sent, or it never left.
Unsent(m) == box[m] = 0 /\ m \notin flying

\* The types the argument needs.
LType ==
    /\ rec \in [Msg -> RecState] /\ box \in [Msg -> Nat]
    /\ DOMAIN pc = Worker /\ DOMAIN todo = Worker
    /\ \A w \in Worker : todo[w] \subseteq Msg
    /\ DOMAIN queue = Rev
    /\ imp \in [state : ImportState, rev : Nat, prepared : BOOLEAN]

Outside == {"idle", "lock"}

\* Only the holder of the lock is inside Run.
Alone == \A w \in Worker : pc[w] \notin Outside => lock = w

\* Until the import is started there is no job, and nothing was copied.
NotStarted ==
    imp.state \in {"none", "preview"} =>
        /\ \A w \in Worker : pc[w] = "idle"
        /\ \A r \in Rev : queue[r].state \notin {"available", "running"}
        /\ \A m \in Msg : rec[m] \in {"absent", "pending", "excluded"}

\* What the ledger says of each message.
Ledger ==
    \A m \in Msg :
        /\ rec[m] \in {"absent", "pending", "failed", "excluded"} => Unsent(m)
        /\ rec[m] \in {"copied", "verified"} => box[m] = 1
        /\ rec[m] # "absent" => (rec[m] = "excluded" <=> FolderOf[m] \in skip)

\* What the run knows of the message it is at.
AtMessage == {"find", "mark", "recheck", "append", "copied", "failed", "uncertain", "verifying", "read"}

Known(w) ==
    /\ \A m \in todo[w] : rec[m] # "absent"
    /\ pc[w] \in AtMessage => todo[w] # {} /\ FolderOf[Here(w)] \notin skip
    /\ pc[w] = "mark" => rec[Here(w)] \in {"pending", "failed"}
    /\ pc[w] \in {"recheck", "append", "failed"} => rec[Here(w)] = "appending" /\ Unsent(Here(w))
    /\ pc[w] = "copied" => rec[Here(w)] = "appending" /\ box[Here(w)] = 1
    /\ pc[w] = "uncertain" => rec[Here(w)] = "appending"
    /\ pc[w] = "find" => rec[Here(w)] \in {"appending", "uncertain"}
    /\ pc[w] \in {"verifying", "read"} => box[Here(w)] = 1

\* After completion no run touches the ledger any more, and no request does.
Finished ==
    /\ imp.prepared => prep = "done" /\ imp.state # "none"
    /\ imp.state \notin {"none", "preview", "cancelled"} => imp.prepared
    /\ imp.state = "complete" =>
         /\ \A m \in Msg : rec[m] \in Settled \cup {"absent"}
         /\ \A w \in Worker : pc[w] \in Outside \cup {"job", "retire", "cleanup"}

LInv == LType /\ NoMessageTwice /\ Alone /\ NotStarted /\ Ledger /\ Finished /\ \A w \in Worker : Known(w)

\* What a step of worker w never touches.
Own(w) ==
    /\ \A v \in Worker \ {w} : pc'[v] = pc[v] /\ todo'[v] = todo[v]
    /\ DOMAIN pc' = Worker /\ DOMAIN todo' = Worker
    /\ lock' = lock \/ lock \in {w, NoWorker}
    /\ pc'[w] \notin Outside => lock' = w
    /\ DOMAIN queue' = Rev
    /\ imp' \in [state : ImportState \ {"none", "preview"}, rev : Nat, prepared : {imp.prepared}]
    /\ UNCHANGED <<skip, prep>>

-----------------------------------------------------------------------------
(* Lemmas about the definitions.                                           *)

\* The loop is at one of the messages that are left.
LEMMA HereIsLeft ==
    ASSUME LType, NEW w \in Worker, todo[w] # {}
    PROVE  Here(w) \in todo[w] /\ Here(w) \in Msg
<1>1. PICK T : T = todo[w]
  OBVIOUS
<1>2. T \subseteq Nat /\ T # {}
  BY <1>1, ImportAssumption, SMT DEF LType, Msg
<1>. DEFINE Less == {ss \in Nat \X Nat : ss[1] < ss[2]}
<1>3. \E x \in T : \A y \in T : <<y, x>> \notin Less
  <2>1. IsWellFoundedOn(Less, Nat)
    BY NatLessThanWellFounded, Zenon DEF OpToRel
  <2>. HIDE DEF Less
  <2>. QED
    BY <1>2, <2>1, WFMin
<1>4. \E x \in T : \A y \in T : x <= y
  <2>1. PICK x \in T : \A y \in T : <<y, x>> \notin Less
    BY <1>3
  <2>2. ASSUME NEW y \in T PROVE x <= y
    <3>1. x \in Nat /\ y \in Nat
      BY <1>2
    <3>2. <<y, x>> \in Less <=> y < x
      BY <3>1
    <3>. QED
      BY <2>1, <3>1, <3>2, SMT
  <2>. QED
    BY <2>1, <2>2
<1>5. Min(T) \in T
  BY <1>4 DEF Min
<1>. QED
  BY <1>1, <1>5 DEF Here, LType

\* Discovery adds records and leaves the ones there are alone.
LEMMA DiscoveredKeeps ==
    ASSUME LType
    PROVE  /\ Discovered \in [Msg -> RecState]
           /\ \A m \in Msg : rec[m] # "absent" => Discovered[m] = rec[m]
           /\ \A m \in Msg : rec[m] = "absent" =>
                \/ Discovered[m] = "absent"
                \/ Discovered[m] = "excluded" /\ FolderOf[m] \in skip
                \/ Discovered[m] = "pending" /\ FolderOf[m] \notin skip
BY DEF Discovered, LType, RecState

\* The ledger types are kept, and a record does not disappear.
Grows ==
    /\ rec' \in [Msg -> RecState] /\ box' \in [Msg -> Nat]
    /\ \A m \in Msg : rec[m] # "absent" => rec'[m] # "absent"

\* A step of one run leaves what the others know as it is: inside Run there
\* is no other.
LEMMA OthersKnow ==
    ASSUME LInv, NEW w \in Worker, Own(w), Grows, pc[w] \in Outside => UNCHANGED copies,
           NEW v \in Worker \ {w}
    PROVE  Known(v)'
<1>1. pc'[v] = pc[v] /\ todo'[v] = todo[v] /\ skip' = skip /\ Here(v)' = Here(v)
  BY DEF Own, Here
<1>2. todo[v] \subseteq Msg
  BY DEF LInv, LType
<1>3. CASE pc[v] \in Outside
  BY <1>1, <1>2, <1>3 DEF LInv, Known, Grows, Outside, AtMessage
<1>4. CASE pc[v] \notin Outside
  <2>1. pc[w] \in Outside
    BY <1>4 DEF LInv, Alone
  <2>2. rec' = rec /\ box' = box /\ flying' = flying
    BY <2>1 DEF copies
  <2>. QED
    BY <1>1, <2>2 DEF LInv, Known, Unsent
<1>. QED
  BY <1>3, <1>4

\* What is left to show of a step of worker w.
LEMMA RunKeeps ==
    ASSUME LInv, NEW w \in Worker, Own(w), Grows, pc[w] \in Outside => UNCHANGED copies,
           todo'[w] \subseteq Msg,
           NoMessageTwice', Ledger', Known(w)',
           imp'.state = "complete" =>
               /\ \A m \in Msg : rec'[m] \in Settled \cup {"absent"}
               /\ pc'[w] \in Outside \cup {"job", "retire", "cleanup"}
               /\ pc[w] \notin Outside \/ imp.state = "complete",
           imp'.state # "cancelled" => imp.state \notin {"none", "preview", "cancelled"}
    PROVE  LInv'
<1>1. LType'
  BY DEF LInv, LType, Own, Grows
<1>2. Alone'
  <2>. SUFFICES ASSUME NEW v \in Worker, pc'[v] \notin Outside PROVE lock' = v
    BY DEF Alone
  <2>1. CASE v = w
    BY <2>1 DEF Own
  <2>2. CASE v # w
    <3>1. pc[v] \notin Outside /\ lock = v
      BY <2>2 DEF Own, LInv, Alone
    <3>. QED
      BY <2>2, <3>1, ImportAssumption DEF Own
  <2>. QED
    BY <2>1, <2>2
<1>3. NotStarted'
  BY DEF Own, NotStarted
<1>4. Finished'
  <2>1. imp'.prepared = imp.prepared /\ prep' = prep /\ imp'.state \notin {"none", "preview"}
    BY DEF Own
  <2>2. imp'.state \notin {"none", "preview", "cancelled"} => imp'.prepared
    BY <2>1 DEF LInv, Finished
  <2>3. ASSUME imp'.state = "complete", NEW v \in Worker
        PROVE  pc'[v] \in Outside \cup {"job", "retire", "cleanup"}
    <3>1. CASE v = w
      BY <2>3, <3>1
    <3>2. CASE v # w /\ pc[w] \notin Outside
      BY <3>2 DEF LInv, Alone, Own
    <3>3. CASE v # w /\ imp.state = "complete"
      BY <3>3 DEF LInv, Finished, Own
    <3>. QED
      BY <2>3, <3>1, <3>2, <3>3
  <2>4. imp'.prepared => prep' = "done" /\ imp'.state # "none"
    BY <2>1 DEF LInv, Finished
  <2>. QED
    BY <2>2, <2>3, <2>4 DEF Finished
<1>5. \A v \in Worker : Known(v)'
  BY OthersKnow
<1>. QED
  BY <1>1, <1>2, <1>3, <1>4, <1>5 DEF LInv

-----------------------------------------------------------------------------
(* Every step of a run is its own.                                         *)

\* A job exists only for an import that was started.
LEMMA RunsAreStarted ==
    ASSUME LInv, NEW w \in Worker, pc[w] # "idle" \/ \E r \in Rev : queue[r].state = "available"
    PROVE  imp.state \notin {"none", "preview"}
BY DEF LInv, NotStarted

\* The run that returns frees the lock and forgets its message.
LEMMA ReleaseIsOwn ==
    ASSUME LInv, NEW w \in Worker, pc[w] # "idle", Release(w), DOMAIN queue' = Rev, UNCHANGED <<skip, prep>>,
           imp' = imp \/ imp' = [imp EXCEPT !.state = "attention_required"]
    PROVE  Own(w) /\ pc'[w] = "idle" /\ todo'[w] = {}
<1>1. imp' \in [state : ImportState \ {"none", "preview"}, rev : Nat, prepared : {imp.prepared}]
  BY RunsAreStarted DEF LInv, LType, ImportState
<1>2. /\ DOMAIN pc = Worker /\ DOMAIN todo = Worker
      /\ lock' = lock \/ lock = w
  BY DEF LInv, LType, Release
<1>. QED
  BY <1>1, <1>2 DEF Own, Release, Outside

\* Inside Run a step moves the label and perhaps the state of the import.
LEMMA GotoIsOwn ==
    ASSUME LInv, NEW w \in Worker, pc[w] \notin Outside, NEW label, Goto(w, label),
           DOMAIN todo' = Worker, \A v \in Worker \ {w} : todo'[v] = todo[v],
           UNCHANGED <<skip, prep, lock, queue>>,
           imp' = imp \/ \E state \in {"discovering", "copying", "verifying", "complete"} : imp' = [imp EXCEPT !.state = state]
    PROVE  Own(w) /\ pc'[w] = label
<1>1. imp' \in [state : ImportState \ {"none", "preview"}, rev : Nat, prepared : {imp.prepared}]
  BY RunsAreStarted DEF LInv, LType, ImportState, RunningState, Terminal, Outside
<1>2. DOMAIN pc = Worker /\ DOMAIN queue = Rev /\ lock = w
  BY DEF LInv, LType, Alone
<1>. QED
  BY <1>1, <1>2 DEF Own, Goto

\* A job that returns without error, or with one.
LEMMA EndIsOwn ==
    ASSUME LInv, NEW w \in Worker, pc[w] # "idle", Done(w) \/ Error(w), UNCHANGED <<skip, prep>>,
           imp' = imp \/ imp' = [imp EXCEPT !.state = "attention_required"]
    PROVE  Own(w) /\ pc'[w] = "idle" /\ todo'[w] = {}
<1>1. DOMAIN queue' = Rev /\ Release(w)
  BY DEF Done, Error, LInv, LType
<1>. QED
  BY <1>1, ReleaseIsOwn

-----------------------------------------------------------------------------
(* Steps that leave ledger and mailbox alone.                              *)

\* What is true of the ledger stays true while nobody writes to it.
LEMMA SameCopies ==
    ASSUME LInv, UNCHANGED <<copies, skip>>
    PROVE  Grows /\ NoMessageTwice' /\ Ledger'
BY DEF LInv, LType, Grows, copies, NoMessageTwice, Ledger, Unsent

\* A run that returns keeps the invariant.
LEMMA EndKeeps ==
    ASSUME LInv, NEW w \in Worker, pc[w] # "idle", Done(w) \/ Error(w), UNCHANGED <<skip, prep, copies>>,
           \/ imp' = imp
           \/ imp.state # "cancelled" /\ imp' = [imp EXCEPT !.state = "attention_required"]
    PROVE  LInv'
<1>1. Own(w) /\ pc'[w] = "idle" /\ todo'[w] = {}
  BY EndIsOwn
<1>2. Grows /\ NoMessageTwice' /\ Ledger'
  BY SameCopies
<1>3. Known(w)'
  BY <1>1 DEF Known, AtMessage
<1>4. imp.state \notin {"none", "preview"}
  BY RunsAreStarted
<1>5. imp'.state = "complete" => imp.state = "complete" /\ \A m \in Msg : rec'[m] \in Settled \cup {"absent"}
  BY DEF LInv, LType, Finished, copies
<1>6. imp'.state # "cancelled" => imp.state \notin {"none", "preview", "cancelled"}
  BY <1>4
<1>. QED
  BY <1>1, <1>2, <1>3, <1>5, <1>6, RunKeeps DEF Outside

\* A run that moves on keeps the invariant if it knows what its label claims.
LEMMA GotoKeeps ==
    ASSUME LInv, NEW w \in Worker, pc[w] \notin Outside, NEW label, Goto(w, label),
           DOMAIN todo' = Worker, \A v \in Worker \ {w} : todo'[v] = todo[v], todo'[w] \subseteq Msg,
           UNCHANGED <<skip, prep, lock, queue, copies>>,
           \/ imp' = imp
           \/ /\ imp.state # "cancelled"
              /\ \E state \in {"discovering", "copying", "verifying"} : imp' = [imp EXCEPT !.state = state],
           imp.state = "complete" => label \in {"job", "retire", "cleanup"},
           Known(w)'
    PROVE  LInv'
<1>1. Own(w) /\ pc'[w] = label
  BY GotoIsOwn
<1>2. Grows /\ NoMessageTwice' /\ Ledger'
  BY SameCopies
<1>3. imp.state \notin {"none", "preview"}
  BY RunsAreStarted DEF Outside
<1>4. imp'.state = "complete" => imp.state = "complete" /\ \A m \in Msg : rec'[m] \in Settled \cup {"absent"}
  BY DEF LInv, LType, Finished, copies
<1>5. imp'.state # "cancelled" => imp.state \notin {"none", "preview", "cancelled"}
  BY <1>3
<1>. QED
  BY <1>1, <1>2, <1>4, <1>5, RunKeeps

\* A complete import has no run in the middle of its work.
LEMMA NotComplete ==
    ASSUME LInv, NEW w \in Worker, pc[w] \notin Outside \cup {"job", "retire", "cleanup"}
    PROVE  imp.state # "complete"
BY DEF LInv, Finished

\* Labels that claim nothing of the message.
LEMMA FreeLabel ==
    ASSUME LInv, NEW w \in Worker, NEW label, label \notin AtMessage, Goto(w, label), UNCHANGED <<todo, rec>>
    PROVE  Known(w)'
<1>1. pc'[w] = label
  BY DEF Goto, LInv, LType
<1>. QED
  BY <1>1 DEF LInv, Known, AtMessage

\* A run that goes to such a label.
LEMMA FreeGotoKeeps ==
    ASSUME LInv, NEW w \in Worker, pc[w] \notin Outside, NEW label, label \notin AtMessage, Goto(w, label),
           UNCHANGED <<imp, skip, prep, copies, queue, lock, todo>>,
           imp.state = "complete" => label \in {"job", "retire", "cleanup"}
    PROVE  LInv'
<1>1. Known(w)'
  BY FreeLabel DEF copies
<1>2. DOMAIN todo' = Worker /\ todo'[w] \subseteq Msg
  BY DEF LInv, LType
<1>. QED
  BY <1>1, <1>2, GotoKeeps

\* A step that returns when its revision is no longer current.
LEMMA IfCurrentKeeps ==
    ASSUME LInv, NEW w \in Worker, pc[w] \notin Outside, NEW label, label \notin AtMessage, IfCurrent(w, label),
           pc[w] \notin {"job", "retire", "cleanup"}
    PROVE  LInv'
<1>1. UNCHANGED <<imp, skip, prep, copies>>
  BY DEF IfCurrent, intake
<1>2. CASE Done(w)
  BY <1>1, <1>2, EndKeeps DEF Outside
<1>3. CASE Goto(w, label) /\ UNCHANGED <<queue, lock, todo>>
  BY <1>1, <1>3, NotComplete, FreeGotoKeeps
<1>. QED
  BY <1>2, <1>3 DEF IfCurrent

\* The checks before opening, before a scan and before the final verification.
LEMMA ChecksKeep ==
    ASSUME LInv, NEW w \in Worker, CheckCurrent(w) \/ Scan(w) \/ CheckFinal(w)
    PROVE  LInv'
BY IfCurrentKeeps DEF CheckCurrent, Scan, CheckFinal, Outside, AtMessage

\* A finished import is only disposed of.
LEMMA LoadJobKeeps ==
    ASSUME LInv, NEW w \in Worker, LoadJob(w)
    PROVE  LInv'
<1>1. pc[w] \notin Outside /\ UNCHANGED <<imp, skip, prep, copies, queue, lock, todo>>
  BY DEF LoadJob, Outside, intake
<1>2. CASE Goto(w, "retire")
  BY <1>1, <1>2, FreeGotoKeeps DEF AtMessage
<1>3. CASE Goto(w, "current") /\ imp.state # "complete"
  BY <1>1, <1>3, FreeGotoKeeps DEF AtMessage
<1>. QED
  BY <1>2, <1>3 DEF LoadJob, Terminal

\* Opening source and destination.
LEMMA OpenKeeps ==
    ASSUME LInv, NEW w \in Worker, Open(w)
    PROVE  LInv'
<1>1. pc[w] = "open" /\ UNCHANGED <<imp, skip, prep, copies, queue, lock, todo>>
  BY DEF Open, OrAttention, intake, copies
<1>2. \E label \in {"scan", "attention"} : Goto(w, label)
  BY DEF Open, OrAttention
<1>. QED
  BY <1>1, <1>2, NotComplete, FreeGotoKeeps DEF AtMessage, Outside

\* The verification over a fresh connection.
LEMMA VerifyFreshKeeps ==
    ASSUME LInv, NEW w \in Worker, VerifyFresh(w)
    PROVE  LInv'
<1>1. pc[w] = "fresh" /\ UNCHANGED <<imp, skip, prep, copies>>
  BY DEF VerifyFresh, OrAttention, intake, copies
<1>2. CASE Done(w)
  BY <1>1, <1>2, EndKeeps
<1>3. CASE OrAttention(w, secrets /\ FreshlyVerified, "complete") /\ UNCHANGED <<rec, scan, todo>>
  <2>1. UNCHANGED <<queue, lock, todo>> /\ \E label \in {"complete", "attention"} : Goto(w, label)
    BY <1>3 DEF OrAttention
  <2>. QED
    BY <1>1, <2>1, NotComplete, FreeGotoKeeps DEF AtMessage, Outside
<1>. QED
  BY <1>2, <1>3 DEF VerifyFresh

\* The end of a scan.
LEMMA EndScanKeeps ==
    ASSUME LInv, NEW w \in Worker, EndScan(w)
    PROVE  LInv'
<1>1. pc[w] = "record" /\ UNCHANGED <<imp, skip, prep, copies, queue, lock, todo>>
  BY DEF EndScan, intake
<1>2. \E label \in {"scan", "final"} : Goto(w, label)
  BY DEF EndScan
<1>. QED
  BY <1>1, <1>2, NotComplete, FreeGotoKeeps DEF AtMessage, Outside

\* The verdict that asks for attention.
LEMMA AttentionKeeps ==
    ASSUME LInv, NEW w \in Worker, Attention(w)
    PROVE  LInv'
<1>1. pc[w] # "idle" /\ (Done(w) \/ Error(w)) /\ UNCHANGED <<skip, prep, copies>>
  BY DEF Attention, intake
<1>2. \/ imp' = imp
      \/ imp.state # "cancelled" /\ imp' = [imp EXCEPT !.state = "attention_required"]
  BY DEF Attention, MaySet
<1>. QED
  BY <1>1, <1>2, EndKeeps

\* Credentials and archive of a finished import are disposed of.
LEMMA DisposalKeeps ==
    ASSUME LInv, NEW w \in Worker, Retire(w) \/ Cleanup(w)
    PROVE  LInv'
<1>1. CASE Retire(w)
  <2>1. pc[w] = "retire" /\ Goto(w, "cleanup") /\ UNCHANGED <<imp, skip, prep, copies, queue, lock, todo>>
    BY <1>1 DEF Retire
  <2>. QED
    BY <2>1, FreeGotoKeeps DEF AtMessage, Outside
<1>2. CASE Cleanup(w)
  <2>1. pc[w] # "idle" /\ Done(w) /\ UNCHANGED <<imp, skip, prep, copies>>
    BY <1>2 DEF Cleanup
  <2>. QED
    BY <2>1, EndKeeps
<1>. QED
  BY <1>1, <1>2

\* The queue hands out the job of an import that was started.
LEMMA FetchKeeps ==
    ASSUME LInv, NEW w \in Worker, NEW r \in Rev, Fetch(w, r)
    PROVE  LInv'
<1>1. /\ pc[w] = "idle" /\ UNCHANGED <<imp, skip, prep, copies, lock, todo>>
      /\ imp.state \notin {"none", "preview"}
  BY RunsAreStarted DEF Fetch, intake
<1>2. DOMAIN queue' = Rev /\ DOMAIN pc' = Worker /\ pc'[w] = "lock" /\ \A v \in Worker \ {w} : pc'[v] = pc[v]
  BY DEF Fetch, Goto, LInv, LType
<1>3. Own(w) /\ todo'[w] \subseteq Msg
  BY <1>1, <1>2 DEF Own, LInv, LType, Outside
<1>4. Grows /\ NoMessageTwice' /\ Ledger'
  BY <1>1, SameCopies
<1>5. Known(w)'
  BY <1>1, <1>2 DEF LInv, Known, AtMessage, copies
<1>6. imp'.state = "complete" => imp.state = "complete" /\ \A m \in Msg : rec'[m] \in Settled \cup {"absent"}
  BY <1>1 DEF LInv, Finished, copies
<1>. QED
  BY <1>1, <1>2, <1>3, <1>4, <1>5, <1>6, RunKeeps DEF Outside

\* The advisory lock lets one run in.
LEMMA LockKeeps ==
    ASSUME LInv, NEW w \in Worker, Lock(w)
    PROVE  LInv'
<1>1. /\ pc[w] = "lock" /\ UNCHANGED <<imp, skip, prep, copies>>
      /\ imp.state \notin {"none", "preview"}
  BY RunsAreStarted DEF Lock, intake
<1>2. CASE Error(w)
  BY <1>1, <1>2, EndKeeps
<1>3. CASE lock = NoWorker /\ lock' = w /\ Goto(w, "job") /\ UNCHANGED <<queue, job, scan, todo>>
  <2>1. DOMAIN queue' = Rev /\ DOMAIN pc' = Worker /\ pc'[w] = "job" /\ \A v \in Worker \ {w} : pc'[v] = pc[v]
    BY <1>3 DEF Goto, LInv, LType
  <2>2. Own(w) /\ todo'[w] \subseteq Msg
    BY <1>1, <1>3, <2>1 DEF Own, LInv, LType
  <2>3. Grows /\ NoMessageTwice' /\ Ledger'
    BY <1>1, SameCopies
  <2>4. Known(w)'
    BY <1>1, <1>3, <2>1 DEF LInv, Known, AtMessage, copies
  <2>5. imp'.state = "complete" => imp.state = "complete" /\ \A m \in Msg : rec'[m] \in Settled \cup {"absent"}
    BY <1>1 DEF LInv, Finished, copies
  <2>. QED
    BY <1>1, <2>1, <2>2, <2>3, <2>4, <2>5, RunKeeps
<1>. QED
  BY <1>2, <1>3 DEF Lock

\* SetState moves an import that is neither paused nor cancelled, or the run returns.
LEMMA SetStateKeeps ==
    ASSUME LInv, NEW w \in Worker, pc[w] \notin Outside \cup {"job", "retire", "cleanup"},
           NEW state \in {"discovering", "copying", "verifying"}, NEW label, NEW left, left \subseteq Msg,
           SetState(w, state, label, left),
           Goto(w, label) /\ todo' = [todo EXCEPT ![w] = left] => Known(w)'
    PROVE  LInv'
<1>1. UNCHANGED <<skip, prep, copies>> /\ pc[w] # "idle"
  BY DEF SetState, intake, Outside
<1>2. CASE Error(w) /\ UNCHANGED imp
  BY <1>1, <1>2, EndKeeps
<1>3. CASE MaySet(w, state) /\ imp' = [imp EXCEPT !.state = state] /\ Goto(w, label)
           /\ todo' = [todo EXCEPT ![w] = left] /\ UNCHANGED <<queue, lock, job, scan>>
  <2>1. DOMAIN todo' = Worker /\ todo'[w] \subseteq Msg /\ \A v \in Worker \ {w} : todo'[v] = todo[v]
    BY <1>3 DEF LInv, LType
  <2>2. imp.state # "cancelled" /\ imp.state # "complete"
    BY <1>3, NotComplete DEF MaySet
  <2>. QED
    BY <1>1, <1>3, <2>1, <2>2, GotoKeeps
<1>. QED
  BY <1>2, <1>3 DEF SetState

\* SetState before the discovery, before the copies and before a message is read back.
LEMMA SetStatesKeep ==
    ASSUME LInv, NEW w \in Worker, SetDiscovering(w) \/ SetCopying(w) \/ SetVerifying(w)
    PROVE  LInv'
<1>1. DOMAIN pc = Worker /\ DOMAIN todo = Worker /\ todo[w] \subseteq Msg /\ UNCHANGED <<copies, skip>>
  BY DEF LInv, LType, SetDiscovering, SetCopying, SetVerifying, SetState, intake
<1>2. PICK left : left = todo[w]
  OBVIOUS
<1>3. CASE SetDiscovering(w)
  <2>1. Goto(w, "discover") /\ todo' = [todo EXCEPT ![w] = left] => Known(w)'
    BY <1>1, <1>2 DEF LInv, Known, AtMessage, Goto, copies
  <2>. QED
    BY <1>1, <1>2, <1>3, <2>1, SetStateKeeps DEF SetDiscovering, Outside
<1>4. CASE SetCopying(w)
  <2>1. PICK all : all = {m \in Msg : rec[m] # "absent"}
    OBVIOUS
  <2>2. Goto(w, "record") /\ todo' = [todo EXCEPT ![w] = all] => Known(w)'
    BY <1>1, <2>1, SMT DEF Known, AtMessage, Goto, copies
  <2>. QED
    BY <1>4, <2>1, <2>2, SetStateKeeps, SMT DEF SetCopying, Outside
<1>5. CASE SetVerifying(w)
  <2>1. Goto(w, "read") /\ todo' = [todo EXCEPT ![w] = left] => Known(w)'
    <3>. SUFFICES ASSUME Goto(w, "read"), todo' = [todo EXCEPT ![w] = left] PROVE Known(w)'
      OBVIOUS
    <3>1. pc'[w] = "read" /\ todo'[w] = todo[w] /\ Here(w)' = Here(w) /\ rec' = rec /\ box' = box /\ skip' = skip
      BY <1>1, <1>2 DEF Goto, Here, copies
    <3>2. pc[w] = "verifying" /\ Known(w)
      BY <1>5 DEF SetVerifying, LInv
    <3>. QED
      BY <3>1, <3>2 DEF Known, AtMessage
  <2>. QED
    BY <1>1, <1>2, <1>5, <2>1, SetStateKeeps DEF SetVerifying, Outside
<1>. QED
  BY <1>3, <1>4, <1>5

\* An import becomes complete when every record is settled.
LEMMA CompleteKeeps ==
    ASSUME LInv, NEW w \in Worker, Complete(w)
    PROVE  LInv'
<1>1. pc[w] = "complete" /\ pc[w] \notin Outside /\ UNCHANGED <<skip, prep, copies>>
  BY DEF Complete, SetState, intake, Outside
<1>2. CASE Error(w) /\ UNCHANGED imp
  BY <1>1, <1>2, EndKeeps
<1>3. CASE MaySet(w, "complete") /\ imp' = [imp EXCEPT !.state = "complete"] /\ Goto(w, "retire")
           /\ todo' = [todo EXCEPT ![w] = todo[w]] /\ UNCHANGED <<queue, lock, job, scan>>
  <2>1. /\ DOMAIN todo' = Worker /\ todo'[w] \subseteq Msg /\ todo'[w] = todo[w]
        /\ \A v \in Worker \ {w} : todo'[v] = todo[v]
    BY <1>3 DEF LInv, LType
  <2>2. Own(w) /\ pc'[w] = "retire"
    BY <1>1, <1>3, <2>1, GotoIsOwn
  <2>3. Grows /\ NoMessageTwice' /\ Ledger'
    BY <1>1, SameCopies
  <2>4. Known(w)'
    BY <1>1, <2>1, <2>2 DEF LInv, Known, AtMessage, copies
  <2>5. (\A m \in Msg : rec'[m] \in Settled \cup {"absent"}) /\ imp.state \notin {"none", "preview", "cancelled"}
    BY <1>1, <1>3, RunsAreStarted DEF MaySet, copies
  <2>. QED
    BY <1>1, <2>1, <2>2, <2>3, <2>4, <2>5, RunKeeps
<1>. QED
  BY <1>2, <1>3 DEF Complete, SetState

-----------------------------------------------------------------------------
(* Steps that write to the ledger or the mailbox.                          *)

\* Discovery keeps the ledger, inside Run and in the request that prepares.
LEMMA LedgerGrows ==
    ASSUME LInv, rec' = Discovered, UNCHANGED <<box, flying, skip>>
    PROVE  Grows /\ NoMessageTwice' /\ Ledger' /\ \A v \in Worker : UNCHANGED <<pc, todo>> => Known(v)'
<1>1. Grows /\ NoMessageTwice'
  BY DiscoveredKeeps DEF LInv, LType, Grows, NoMessageTwice
<1>2. Ledger'
  BY DiscoveredKeeps DEF LInv, Ledger, Unsent
<1>3. ASSUME NEW v \in Worker, UNCHANGED <<pc, todo>> PROVE Known(v)'
  <2>1. Known(v) /\ todo[v] \subseteq Msg /\ Here(v)' = Here(v)
    BY <1>3 DEF LInv, LType, Here
  <2>2. \A m \in todo[v] : rec'[m] = rec[m]
    BY <2>1, DiscoveredKeeps DEF Known, LInv
  <2>3. pc[v] \in AtMessage => Here(v) \in todo[v]
    BY <2>1, HereIsLeft DEF Known, LInv
  <2>. QED
    BY <1>3, <2>1, <2>2, <2>3 DEF Known, Unsent, AtMessage
<1>. QED
  BY <1>1, <1>2, <1>3

\* The discovery of a run.
LEMMA DiscoverKeeps ==
    ASSUME LInv, NEW w \in Worker, Discover(w)
    PROVE  LInv'
<1>1. pc[w] = "discover" /\ pc[w] \notin Outside /\ UNCHANGED <<imp, skip, prep, box, flying, queue, lock, todo>>
  BY DEF Discover, OrAttention, intake, Outside
<1>2. CASE Goto(w, "attention") /\ rec' = rec
  BY <1>1, <1>2, NotComplete, FreeGotoKeeps DEF AtMessage, Outside, copies
<1>3. CASE Goto(w, "copying") /\ rec' = Discovered
  <2>1. Own(w) /\ pc'[w] = "copying" /\ todo'[w] = todo[w] /\ todo[w] \subseteq Msg
    BY <1>1, <1>3, GotoIsOwn DEF LInv, LType
  <2>2. Grows /\ NoMessageTwice' /\ Ledger'
    BY <1>1, <1>3, LedgerGrows
  <2>3. Known(w)'
    BY <2>1, <2>2 DEF LInv, Known, Grows, AtMessage
  <2>4. imp.state \notin {"none", "preview", "complete"}
    BY <1>1, RunsAreStarted, NotComplete DEF Outside
  <2>. QED
    BY <1>1, <2>1, <2>2, <2>3, <2>4, RunKeeps
<1>4. DOMAIN pc = Worker
  BY DEF LInv, LType
<1>. QED
  BY <1>2, <1>3, <1>4 DEF Discover, OrAttention, Goto

\* A step that writes to the message the run is at, and to no other.
LEMMA MessageKeeps ==
    ASSUME LInv, NEW w \in Worker, pc[w] \in AtMessage, NEW label, Goto(w, label),
           UNCHANGED <<imp, skip, prep, lock, queue>>,
           DOMAIN todo' = Worker, \A v \in Worker \ {w} : todo'[v] = todo[v], todo'[w] \subseteq Msg,
           rec' \in [Msg -> RecState], box' \in [Msg -> Nat],
           NEW h, h = Here(w),
           \A m \in Msg \ {h} : rec'[m] = rec[m] /\ box'[m] = box[m] /\ (m \in flying' <=> m \in flying),
           rec'[h] \notin {"absent", "excluded"},
           box'[h] + (IF h \in flying' THEN 1 ELSE 0) <= 1,
           rec'[h] \in {"pending", "failed"} => box'[h] = 0 /\ h \notin flying',
           rec'[h] \in {"copied", "verified"} => box'[h] = 1,
           Known(w)'
    PROVE  LInv'
<1>1. pc[w] \notin Outside /\ imp.state \notin {"none", "preview", "complete"}
  BY RunsAreStarted, NotComplete DEF AtMessage, Outside
<1>2. Own(w) /\ pc'[w] = label
  BY <1>1, GotoIsOwn
<1>3. h \in Msg /\ FolderOf[h] \notin skip
  BY HereIsLeft DEF LInv, Known
<1>4. Grows
  BY <1>3 DEF Grows
<1>5. NoMessageTwice'
  BY <1>3 DEF NoMessageTwice, LInv
<1>6. Ledger'
  <2>. SUFFICES ASSUME NEW m \in Msg
                PROVE  /\ rec'[m] \in {"absent", "pending", "failed", "excluded"} => box'[m] = 0 /\ m \notin flying'
                       /\ rec'[m] \in {"copied", "verified"} => box'[m] = 1
                       /\ rec'[m] # "absent" => (rec'[m] = "excluded" <=> FolderOf[m] \in skip')
    BY DEF Ledger, Unsent
  <2>1. CASE m = h
    BY <1>3, <2>1
  <2>2. CASE m # h
    BY <2>2 DEF LInv, Ledger, Unsent
  <2>. QED
    BY <2>1, <2>2
<1>. QED
  BY <1>1, <1>2, <1>4, <1>5, <1>6, RunKeeps

\* What is known inside the loop, in one place.
LEMMA AtHand ==
    ASSUME LInv, NEW w \in Worker, todo[w] # {}, NEW h, h = Here(w)
    PROVE  /\ h \in Msg /\ h \in todo[w] /\ rec[h] # "absent" /\ rec[h] \in RecState /\ box[h] \in Nat
           /\ box[h] + (IF h \in flying THEN 1 ELSE 0) <= 1
           /\ rec[h] \in {"pending", "failed", "excluded"} => Unsent(h)
           /\ rec[h] \in {"copied", "verified"} => box[h] = 1
           /\ DOMAIN rec = Msg /\ DOMAIN box = Msg /\ DOMAIN pc = Worker /\ DOMAIN todo = Worker
<1>1. h \in Msg /\ h \in todo[w]
  BY HereIsLeft DEF LInv
<1>. QED
  BY <1>1 DEF LInv, LType, Ledger, Known, NoMessageTwice

\* The top of the loop: the message at hand decides the label.
LEMMA RecordKeeps ==
    ASSUME LInv, NEW w \in Worker, Record(w)
    PROVE  LInv'
<1>1. pc[w] = "record" /\ pc[w] \notin Outside /\ todo[w] # {} /\ UNCHANGED <<imp, skip, prep, copies>>
  BY DEF Record, OrAttention, intake, Outside, copies
<1>2. PICK h : h = Here(w)
  OBVIOUS
<1>3. imp.state # "complete"
  BY <1>1, NotComplete DEF Outside
<1>4. CASE Done(w)
  BY <1>1, <1>4, EndKeeps
<1>5. CASE todo' = [todo EXCEPT ![w] = @ \ {Here(w)}] /\ UNCHANGED <<queue, lock, pc, job, scan, faults>>
  <2>1. /\ DOMAIN todo' = Worker /\ todo'[w] \subseteq todo[w] /\ todo[w] \subseteq Msg
        /\ \A v \in Worker \ {w} : todo'[v] = todo[v]
    BY <1>5 DEF LInv, LType
  <2>2. imp.state \notin {"none", "preview"} /\ DOMAIN queue = Rev /\ DOMAIN pc = Worker /\ lock = w
    BY <1>1, RunsAreStarted DEF LInv, LType, Alone
  <2>3. Own(w)
    BY <1>1, <1>5, <2>1, <2>2 DEF Own, LInv, LType
  <2>4. Grows /\ NoMessageTwice' /\ Ledger'
    BY <1>1, SameCopies
  <2>5. Known(w)'
    BY <1>1, <1>5, <2>1 DEF LInv, Known, AtMessage, copies
  <2>. QED
    BY <1>1, <1>3, <2>1, <2>2, <2>3, <2>4, <2>5, RunKeeps
<1>6. CASE /\ OrAttention(w, TRUE, StepOf(Here(w))) /\ UNCHANGED <<rec, scan, todo>>
           /\ rec[Here(w)] \notin Settled /\ FolderOf[Here(w)] \notin skip
  <2>1. UNCHANGED <<queue, lock, todo>>
    BY <1>6 DEF OrAttention
  <2>2. CASE Goto(w, "attention")
    BY <1>1, <1>3, <2>1, <2>2, FreeGotoKeeps DEF AtMessage
  <2>3. CASE Goto(w, StepOf(h))
    <3>1. PICK label : label = StepOf(h)
      OBVIOUS
    <3>2. \/ label = "find" /\ rec[h] \in {"appending", "uncertain"}
          \/ label = "mark" /\ rec[h] \in {"pending", "failed"}
          \/ label = "verifying" /\ box[h] = 1
      BY <1>1, <1>2, <1>6, <3>1, AtHand DEF StepOf, Settled, RecState
    <3>3. pc'[w] = label /\ Here(w)' = h /\ todo' = todo /\ todo[w] \subseteq Msg /\ DOMAIN todo = Worker
      BY <1>2, <2>1, <2>3, <3>1 DEF Goto, Here, LInv, LType
    <3>4. Known(w)'
      BY <1>1, <1>2, <1>6, <3>2, <3>3 DEF LInv, Known, copies
    <3>. QED
      BY <1>1, <1>3, <2>1, <2>3, <3>1, <3>3, <3>4, GotoKeeps
  <2>. QED
    BY <1>2, <1>6, <2>2, <2>3 DEF OrAttention
<1>. QED
  BY <1>4, <1>5, <1>6 DEF Record

\* The check between the checkpoint and the append.
LEMMA RecheckKeeps ==
    ASSUME LInv, NEW w \in Worker, Recheck(w)
    PROVE  LInv'
<1>1. pc[w] = "recheck" /\ pc[w] \notin Outside /\ UNCHANGED <<imp, skip, prep, copies>>
  BY DEF Recheck, IfCurrent, intake, Outside
<1>2. CASE Done(w)
  BY <1>1, <1>2, EndKeeps
<1>3. CASE Goto(w, "append") /\ UNCHANGED <<queue, lock, job, scan, todo>>
  <2>1. pc'[w] = "append" /\ Here(w)' = Here(w) /\ todo[w] \subseteq Msg /\ DOMAIN todo = Worker
    BY <1>3 DEF Goto, Here, LInv, LType
  <2>2. Known(w)'
    BY <1>1, <1>3, <2>1 DEF LInv, Known, Unsent, AtMessage, copies
  <2>3. imp.state # "complete"
    BY <1>1, NotComplete DEF Outside
  <2>. QED
    BY <1>1, <1>3, <2>1, <2>2, <2>3, GotoKeeps
<1>. QED
  BY <1>2, <1>3 DEF Recheck, IfCurrent

\* The checkpoint before the append.
LEMMA MarkAppendingKeeps ==
    ASSUME LInv, NEW w \in Worker, MarkAppending(w)
    PROVE  LInv'
<1>1. /\ pc[w] = "mark" /\ pc[w] \in AtMessage /\ Goto(w, "recheck")
      /\ UNCHANGED <<imp, skip, prep, box, flying, queue, lock, todo>>
  BY DEF MarkAppending, AtMessage, intake
<1>2. PICK h : h = Here(w)
  OBVIOUS
<1>3. todo[w] # {} /\ rec[h] \in {"pending", "failed"} /\ FolderOf[h] \notin skip
  BY <1>1, <1>2 DEF LInv, Known
<1>4. h \in Msg /\ Unsent(h) /\ DOMAIN todo = Worker /\ todo[w] \subseteq Msg
  BY <1>2, <1>3, AtHand DEF LInv, LType
<1>5. rec' = [rec EXCEPT ![h] = "appending"]
  BY <1>2 DEF MarkAppending, Checkpoint
<1>6. rec' \in [Msg -> RecState] /\ rec'[h] = "appending" /\ \A m \in Msg \ {h} : rec'[m] = rec[m]
  BY <1>4, <1>5 DEF LInv, LType, RecState
<1>7. pc'[w] = "recheck" /\ Here(w)' = h
  BY <1>1, <1>2 DEF Goto, Here, LInv, LType
<1>8. Known(w)'
  BY <1>1, <1>3, <1>4, <1>6, <1>7, SMT DEF LInv, Known, Unsent, AtMessage
<1>. QED
  BY <1>1, <1>2, <1>4, <1>6, <1>8, MessageKeeps, SMT DEF Unsent, LInv, LType

\* The append is the first one of its message.
LEMMA AppendKeeps ==
    ASSUME LInv, NEW w \in Worker, Append(w)
    PROVE  LInv'
<1>1. /\ pc[w] = "append" /\ pc[w] \in AtMessage
      /\ UNCHANGED <<imp, skip, prep, rec, queue, lock, todo>>
  BY DEF Append, AtMessage, intake
<1>2. PICK h : h = Here(w)
  OBVIOUS
<1>3. todo[w] # {} /\ rec[h] = "appending" /\ Unsent(h) /\ FolderOf[h] \notin skip
  BY <1>1, <1>2 DEF LInv, Known
<1>4. h \in Msg /\ DOMAIN todo = Worker /\ todo[w] \subseteq Msg /\ rec \in [Msg -> RecState] /\ box \in [Msg -> Nat]
  BY <1>2, <1>3, AtHand DEF LInv, LType
<1>5. PICK label \in {"copied", "failed", "uncertain"} :
         /\ Goto(w, label)
         /\ label = "copied" => box' = [box EXCEPT ![h] = @ + 1] /\ flying' = flying
         /\ label = "failed" => box' = box /\ flying' = flying
         /\ label = "uncertain" => box' = box /\ flying' = flying \cup {h}
  BY <1>2 DEF Append
<1>6. /\ box' \in [Msg -> Nat]
      /\ \A m \in Msg \ {h} : box'[m] = box[m] /\ (m \in flying' <=> m \in flying)
      /\ box'[h] + (IF h \in flying' THEN 1 ELSE 0) <= 1
      /\ label = "copied" => box'[h] = 1
      /\ label = "failed" => box'[h] = 0 /\ h \notin flying'
  BY <1>3, <1>4, <1>5, SMT DEF Unsent
<1>7. pc'[w] = label /\ Here(w)' = h
  BY <1>1, <1>2, <1>5 DEF Goto, Here, LInv, LType
<1>8. Known(w)'
  BY <1>1, <1>3, <1>6, <1>7 DEF LInv, Known, Unsent, AtMessage
<1>. QED
  BY <1>1, <1>2, <1>3, <1>4, <1>5, <1>6, <1>8, MessageKeeps

\* A checkpoint on the message at hand that what the run knows allows.
Writes(w, label, state) ==
    /\ pc[w] \in AtMessage /\ Goto(w, label) /\ Checkpoint(w, state)
    /\ state \in {"copied", "verified", "failed", "uncertain"}
    /\ UNCHANGED <<imp, skip, prep, box, flying, queue, lock>>
    /\ DOMAIN todo' = Worker /\ (\A v \in Worker \ {w} : todo'[v] = todo[v]) /\ todo'[w] \subseteq todo[w]
    /\ state = "failed" => Unsent(Here(w))
    /\ state \in {"copied", "verified"} => box[Here(w)] = 1
    /\ label \in {"attention", "record"} \/ (label = "verifying" /\ todo' = todo /\ box[Here(w)] = 1)

\* Such a checkpoint keeps the invariant.
LEMMA CheckpointKeeps ==
    ASSUME LInv, NEW w \in Worker, NEW label, NEW state, Writes(w, label, state)
    PROVE  LInv'
<1>. USE DEF Writes
<1>1. PICK h : h = Here(w)
  OBVIOUS
<1>2. todo[w] # {} /\ FolderOf[h] \notin skip
  BY <1>1 DEF LInv, Known
<1>3. /\ h \in Msg /\ todo[w] \subseteq Msg /\ rec \in [Msg -> RecState] /\ box \in [Msg -> Nat]
      /\ box[h] + (IF h \in flying THEN 1 ELSE 0) <= 1
  BY <1>1, <1>2, AtHand DEF LInv, LType
<1>4. rec' = [rec EXCEPT ![h] = state]
  BY <1>1 DEF Checkpoint
<1>5. rec' \in [Msg -> RecState] /\ rec'[h] = state /\ \A m \in Msg \ {h} : rec'[m] = rec[m]
  BY <1>3, <1>4 DEF RecState
<1>6. pc'[w] = label /\ (todo' = todo => Here(w)' = h)
  BY <1>1 DEF Goto, Here, LInv, LType
<1>7. \A m \in todo'[w] : rec'[m] # "absent"
  BY <1>3, <1>5, SMT DEF LInv, Known
<1>8. Known(w)'
  BY <1>1, <1>2, <1>6, <1>7 DEF Known, AtMessage
<1>. QED
  BY <1>1, <1>3, <1>5, <1>8, MessageKeeps DEF Unsent

\* The checkpoint after the append.
LEMMA RecordAppendKeeps ==
    ASSUME LInv, NEW w \in Worker, RecordAppend(w)
    PROVE  LInv'
<1>1. /\ pc[w] \in {"copied", "failed", "uncertain"} /\ pc[w] \in AtMessage
      /\ UNCHANGED <<imp, skip, prep, box, flying, queue, lock, todo>>
  BY DEF RecordAppend, AtMessage, intake
<1>2. PICK label \in {"copied", "failed", "uncertain"} : label = pc[w]
  BY <1>1
<1>3. Checkpoint(w, label) /\ Goto(w, IF label = "copied" THEN "verifying" ELSE "attention")
  BY <1>2 DEF RecordAppend
<1>4. /\ label = "failed" => Unsent(Here(w))
      /\ label = "copied" => box[Here(w)] = 1
      /\ DOMAIN todo = Worker
  BY <1>2 DEF LInv, LType, Known
<1>5. Writes(w, IF label = "copied" THEN "verifying" ELSE "attention", label)
  BY <1>1, <1>2, <1>3, <1>4 DEF Writes
<1>. QED
  BY <1>5, CheckpointKeeps

\* A receipt settles an append in doubt.
LEMMA FindReceiptKeeps ==
    ASSUME LInv, NEW w \in Worker, FindReceipt(w)
    PROVE  LInv'
<1>1. /\ pc[w] = "find" /\ pc[w] \in AtMessage /\ pc[w] \notin Outside
      /\ UNCHANGED <<imp, skip, prep, box, flying, queue, lock, todo>>
  BY DEF FindReceipt, OrAttention, AtMessage, Outside, intake
<1>2. DOMAIN todo = Worker /\ DOMAIN pc = Worker /\ todo[w] \subseteq Msg
  BY DEF LInv, LType
<1>3. CASE Goto(w, "attention")
  <2>1. Checkpoint(w, "uncertain")
    BY <1>2, <1>3 DEF FindReceipt, Goto
  <2>2. Writes(w, "attention", "uncertain")
    BY <1>1, <1>2, <1>3, <2>1 DEF Writes
  <2>. QED
    BY <2>2, CheckpointKeeps
<1>4. CASE Goto(w, "verifying") /\ box[Here(w)] = 1
  <2>1. rec' = rec /\ pc'[w] = "verifying" /\ Here(w)' = Here(w)
    BY <1>1, <1>2, <1>4 DEF FindReceipt, Goto, Here
  <2>2. Known(w)'
    BY <1>1, <1>4, <2>1 DEF LInv, Known, AtMessage
  <2>3. imp.state # "complete"
    BY <1>1, NotComplete DEF Outside
  <2>. QED
    BY <1>1, <1>2, <1>4, <2>1, <2>2, <2>3, GotoKeeps DEF copies
<1>. QED
  BY <1>3, <1>4 DEF FindReceipt, OrAttention

\* The message is read back.
LEMMA VerifyKeeps ==
    ASSUME LInv, NEW w \in Worker, Verify(w)
    PROVE  LInv'
<1>1. /\ pc[w] = "read" /\ pc[w] \in AtMessage
      /\ UNCHANGED <<imp, skip, prep, box, flying, queue, lock>>
  BY DEF Verify, OrAttention, AtMessage, intake
<1>2. DOMAIN todo = Worker /\ DOMAIN pc = Worker /\ box[Here(w)] = 1
  BY <1>1 DEF LInv, LType, Known
<1>3. CASE Goto(w, "attention")
  <2>1. Checkpoint(w, "copied") /\ todo' = todo
    BY <1>2, <1>3 DEF Verify, Goto
  <2>2. Writes(w, "attention", "copied")
    BY <1>1, <1>2, <1>3, <2>1 DEF Writes
  <2>. QED
    BY <2>2, CheckpointKeeps
<1>4. CASE Goto(w, "record")
  <2>1. Checkpoint(w, "verified") /\ todo' = [todo EXCEPT ![w] = @ \ {Here(w)}]
    BY <1>2, <1>4 DEF Verify, Goto
  <2>2. DOMAIN todo' = Worker /\ todo'[w] \subseteq todo[w] /\ \A v \in Worker \ {w} : todo'[v] = todo[v]
    BY <1>2, <2>1
  <2>3. Writes(w, "record", "verified")
    BY <1>1, <1>2, <1>4, <2>1, <2>2 DEF Writes
  <2>. QED
    BY <2>3, CheckpointKeeps
<1>. QED
  BY <1>3, <1>4 DEF Verify, OrAttention

-----------------------------------------------------------------------------
(* Faults.                                                                 *)

\* A run that is cut off leaves at most the one append it was about to make.
LEMMA CutOffKeeps ==
    ASSUME LInv, NEW w \in Worker, pc[w] # "idle", CutOff(w), Release(w), DOMAIN queue' = Rev,
           UNCHANGED <<imp, skip, prep, rec, box>>
    PROVE  LInv'
<1>1. Own(w) /\ pc'[w] = "idle" /\ todo'[w] = {}
  BY ReleaseIsOwn
<1>2. Grows
  BY DEF Grows, LInv, LType
<1>3. PICK h : h = Here(w)
  OBVIOUS
<1>4. \/ flying' = flying
      \/ pc[w] = "append" /\ flying' = flying \cup {h} /\ rec[h] = "appending" /\ box[h] = 0
  BY <1>3 DEF CutOff, LInv, Known, Unsent
<1>5. NoMessageTwice'
  BY <1>4, SMT DEF LInv, NoMessageTwice
<1>6. Ledger'
  BY <1>4 DEF LInv, Ledger, Unsent
<1>7. Known(w)'
  BY <1>1 DEF Known, AtMessage
<1>8. pc[w] \in Outside => UNCHANGED copies
  BY <1>4 DEF Outside, copies
<1>9. /\ imp'.state = "complete" => imp.state = "complete" /\ \A m \in Msg : rec'[m] \in Settled \cup {"absent"}
      /\ imp.state \notin {"none", "preview"}
  BY RunsAreStarted DEF LInv, Finished
<1>. QED
  BY <1>1, <1>2, <1>5, <1>6, <1>7, <1>8, <1>9, RunKeeps DEF Outside

\* A database error, the time limit of the job, or the death of the process.
LEMMA FaultsKeep ==
    ASSUME LInv, NEW w \in Worker, RunFails(w) \/ Crash(w)
    PROVE  LInv'
<1>1. /\ pc[w] # "idle" /\ CutOff(w) /\ Release(w) /\ UNCHANGED <<imp, skip, prep, rec, box>>
      /\ DOMAIN queue' = DOMAIN queue
  BY DEF RunFails, Crash, Error, intake
<1>. QED
  BY <1>1, CutOffKeeps DEF LInv, LType

\* A step outside the runs that leaves the ledger alone.
LEMMA OutsideKeeps ==
    ASSUME LInv, UNCHANGED <<copies, skip, lock, pc, todo>>, DOMAIN queue' = Rev,
           imp' \in [state : ImportState, rev : Nat, prepared : BOOLEAN],
           NotStarted', Finished'
    PROVE  LInv'
<1>1. NoMessageTwice' /\ Ledger'
  BY SameCopies
<1>2. LType' /\ Alone'
  BY DEF LInv, LType, Alone, copies
<1>3. ASSUME NEW v \in Worker PROVE Known(v)'
  BY DEF LInv, Known, Unsent, Here, copies
<1>. QED
  BY <1>1, <1>2, <1>3 DEF LInv

\* Rescue of an abandoned job.
LEMMA RescueKeeps ==
    ASSUME LInv, NEW r \in Rev, Rescue(r)
    PROVE  LInv'
<1>1. /\ UNCHANGED <<imp, skip, prep, copies, lock, pc, todo>> /\ DOMAIN queue' = Rev
      /\ queue[r].state = "running"
  BY DEF Rescue, intake, run, LInv, LType
<1>2. NotStarted'
  BY <1>1 DEF LInv, NotStarted
<1>3. Finished' /\ imp' \in [state : ImportState, rev : Nat, prepared : BOOLEAN]
  BY <1>1 DEF LInv, LType, Finished, copies
<1>. QED
  BY <1>1, <1>2, <1>3, OutsideKeeps

\* An append without an answer arrives late: nobody else has sent its message.
LEMMA ArrivesKeeps ==
    ASSUME LInv, NEW m \in Msg, Arrives(m)
    PROVE  LInv'
<1>1. /\ m \in flying /\ flying' = flying \ {m} /\ UNCHANGED <<imp, skip, prep, rec, queue, lock, pc, todo>>
      /\ box' = box \/ box' = [box EXCEPT ![m] = @ + 1]
  BY DEF Arrives, intake, run
<1>2. box \in [Msg -> Nat] /\ box[m] = 0 /\ rec[m] \notin {"absent", "pending", "failed", "excluded", "copied", "verified"}
  BY <1>1, SMT DEF LInv, LType, NoMessageTwice, Ledger, Unsent
<1>3. box' \in [Msg -> Nat] /\ box'[m] \in {0, 1} /\ \A k \in Msg \ {m} : box'[k] = box[k]
  BY <1>1, <1>2, SMT
<1>4. LType' /\ Alone'
  BY <1>1, <1>3 DEF LInv, LType, Alone
<1>5. NoMessageTwice'
  BY <1>1, <1>3, SMT DEF LInv, NoMessageTwice
<1>6. Ledger'
  BY <1>1, <1>2, <1>3 DEF LInv, Ledger, Unsent
<1>7. NotStarted' /\ Finished'
  BY <1>1 DEF LInv, NotStarted, Finished
<1>8. ASSUME NEW v \in Worker PROVE Known(v)'
  <2>1. Here(v)' = Here(v) /\ (pc[v] \in AtMessage => Here(v) \in Msg)
    BY <1>1, HereIsLeft DEF Here, LInv, Known
  <2>2. pc[v] \in {"recheck", "append", "failed", "copied", "verifying", "read"} => Here(v) # m
    BY <1>1, <1>2, SMT DEF LInv, Known, Unsent
  <2>. QED
    BY <1>1, <1>3, <2>1, <2>2, SMT DEF LInv, Known, Unsent, AtMessage
<1>. QED
  BY <1>4, <1>5, <1>6, <1>7, <1>8 DEF LInv

-----------------------------------------------------------------------------
(* The operator.                                                           *)

\* Preview, the steps of the preparation that write no record, and Start.
LEMMA IntakeKeeps ==
    ASSUME LInv, Preview \/ PrepareOpen \/ Prepared \/ Start
    PROVE  LInv'
<1>. imp \in [state : ImportState, rev : Nat, prepared : BOOLEAN] /\ DOMAIN queue = Rev
  BY DEF LInv, LType
<1>1. UNCHANGED <<copies, skip, lock, pc, todo>>
  BY DEF Preview, PrepareOpen, Prepared, Start, opFrame, run, intake
<1>2. CASE Preview
  <2>1. imp.state = "none" /\ imp' = [imp EXCEPT !.state = "preview"] /\ queue' = queue /\ ~imp.prepared
    BY <1>2 DEF Preview, LInv, Finished
  <2>2. NotStarted'
    BY <1>1, <2>1 DEF LInv, NotStarted, copies
  <2>3. Finished' /\ imp' \in [state : ImportState, rev : Nat, prepared : BOOLEAN]
    BY <2>1 DEF Finished, ImportState
  <2>. QED
    BY <1>1, <2>1, <2>2, <2>3, OutsideKeeps
<1>3. CASE PrepareOpen
  <2>1. prep = "open" /\ UNCHANGED <<imp, queue>> /\ ~imp.prepared
    BY <1>3 DEF PrepareOpen, LInv, Finished
  <2>2. NotStarted' /\ Finished'
    BY <1>1, <2>1 DEF LInv, NotStarted, Finished, copies
  <2>. QED
    BY <1>1, <2>1, <2>2, OutsideKeeps
<1>4. CASE Prepared
  <2>1. /\ imp' = [imp EXCEPT !.prepared = imp.prepared \/ imp.state = "preview"]
        /\ prep' = "done" /\ queue' = queue
    BY <1>4 DEF Prepared
  <2>2. /\ imp'.state = imp.state /\ imp'.prepared = (imp.prepared \/ imp.state = "preview")
        /\ imp' \in [state : ImportState, rev : Nat, prepared : BOOLEAN]
    BY <2>1
  <2>3. NotStarted'
    BY <1>1, <2>1, <2>2 DEF LInv, NotStarted, copies
  <2>4. Finished'
    BY <1>1, <2>1, <2>2 DEF LInv, Finished, copies
  <2>. QED
    BY <1>1, <2>1, <2>2, <2>3, <2>4, OutsideKeeps
<1>5. CASE Start
  <2>1. imp' = [imp EXCEPT !.state = "queued"] /\ imp.prepared /\ prep' = prep /\ DOMAIN queue' = Rev
    BY <1>5 DEF Start, Insert, intake
  <2>2. NotStarted' /\ Finished' /\ imp' \in [state : ImportState, rev : Nat, prepared : BOOLEAN]
    BY <2>1 DEF LInv, NotStarted, Finished, ImportState, RunningState
  <2>. QED
    BY <1>1, <2>1, <2>2, OutsideKeeps
<1>. QED
  BY <1>2, <1>3, <1>4, <1>5

\* The transitions, each of which starts a revision.
LEMMA TransitionsKeep ==
    ASSUME LInv, Pause \/ Resume \/ Cancel \/ ExpirePreviews
    PROVE  LInv'
<1>. imp \in [state : ImportState, rev : Nat, prepared : BOOLEAN] /\ DOMAIN queue = Rev
  BY DEF LInv, LType
<1>1. UNCHANGED <<copies, skip, lock, pc, todo, prep>> /\ DOMAIN queue' = Rev
  BY DEF Pause, Resume, Cancel, ExpirePreviews, opFrame, run, intake, Insert
<1>2. PICK state \in {"paused", "queued", "cancelled"} :
        /\ imp' = [imp EXCEPT !.state = state, !.rev = imp.rev + 1]
        /\ state # "cancelled" => imp.state \in RunningState \cup {"paused", "attention_required"}
  BY DEF Pause, Resume, Cancel, ExpirePreviews, Move
<1>3. /\ imp'.state = state /\ imp'.prepared = imp.prepared
      /\ imp' \in [state : ImportState, rev : Nat, prepared : BOOLEAN]
  <2>1. state \in ImportState
    BY DEF ImportState, RunningState, Terminal
  <2>2. imp' = [state |-> state, rev |-> imp.rev + 1, prepared |-> imp.prepared]
    BY <1>2
  <2>3. imp.rev + 1 \in Nat /\ imp.prepared \in BOOLEAN
    BY SMT
  <2>. QED
    BY <2>1, <2>2, <2>3
<1>4. NotStarted' /\ Finished'
  BY <1>1, <1>2, <1>3 DEF LInv, NotStarted, Finished, RunningState
<1>. QED
  BY <1>1, <1>3, <1>4, OutsideKeeps

\* What happens around the import.
LEMMA EnvironmentKeeps ==
    ASSUME LInv, Elapse \/ Arrive \/ Disable \/ Enable \/ UNCHANGED ivars
    PROVE  LInv'
<1>1. UNCHANGED <<imp, copies, skip, lock, pc, todo, prep, queue>>
  BY DEF Elapse, Arrive, Disable, Enable, opFrame, run, intake, ivars
<1>2. NotStarted' /\ Finished' /\ DOMAIN queue' = Rev /\ imp' \in [state : ImportState, rev : Nat, prepared : BOOLEAN]
  BY <1>1 DEF LInv, LType, NotStarted, Finished, copies
<1>. QED
  BY <1>1, <1>2, OutsideKeeps

\* The discovery of the preview comes before the first job.
LEMMA PrepareDiscoverKeeps ==
    ASSUME LInv, PrepareDiscover
    PROVE  LInv'
<1>1. /\ prep = "discover" /\ prep' = "mark" /\ rec' = Discovered /\ ~imp.prepared
      /\ UNCHANGED <<imp, box, flying, skip, queue, lock, pc, todo>>
  BY DEF PrepareDiscover, run, LInv, Finished
<1>2. Grows /\ NoMessageTwice' /\ Ledger' /\ \A v \in Worker : Known(v)'
  BY <1>1, LedgerGrows
<1>3. LType' /\ Alone'
  BY <1>1, <1>2 DEF LInv, LType, Alone, Grows
<1>4. NotStarted'
  BY <1>1, DiscoveredKeeps DEF LInv, NotStarted
<1>5. Finished'
  BY <1>1 DEF LInv, Finished
<1>. QED
  BY <1>2, <1>3, <1>4, <1>5 DEF LInv

\* Folders are left out, or taken in again, before anything was copied.
LEMMA MapFoldersKeeps ==
    ASSUME LInv, MapFolders
    PROVE  LInv'
<1>1. imp.state = "preview" /\ UNCHANGED <<imp, box, flying, prep, queue, lock, pc, todo>>
  BY DEF MapFolders, run
<1>2. /\ \A m \in Msg : rec'[m] = IF rec[m] = "absent" THEN "absent"
                                  ELSE IF FolderOf[m] \in skip' THEN "excluded" ELSE "pending"
      /\ rec' \in [Msg -> RecState]
  BY DEF MapFolders, RecState
<1>3. /\ \A m \in Msg : Unsent(m)
      /\ \A w \in Worker : pc[w] = "idle"
  BY <1>1 DEF LInv, NotStarted, Ledger
<1>4. LType' /\ Alone' /\ NoMessageTwice'
  BY <1>1, <1>2 DEF LInv, LType, Alone, NoMessageTwice
<1>5. Ledger'
  BY <1>1, <1>2, <1>3 DEF Ledger, Unsent
<1>6. NotStarted' /\ Finished'
  BY <1>1, <1>2 DEF LInv, NotStarted, Finished
<1>7. ASSUME NEW v \in Worker PROVE Known(v)'
  BY <1>1, <1>2, <1>3 DEF LInv, LType, Known, AtMessage
<1>. QED
  BY <1>4, <1>5, <1>6, <1>7 DEF LInv

-----------------------------------------------------------------------------
(* The theorems.                                                           *)

\* Before the preview there is nothing.
LEMMA InitIsLedgered == IInit => LInv
<1>. SUFFICES ASSUME IInit PROVE LInv
  OBVIOUS
<1>1. LType /\ NoMessageTwice /\ Alone
  BY ImportAssumption, SMT DEF IInit, LType, RecState, ImportState, NoMessageTwice, Alone, Outside, Rev
<1>2. NotStarted /\ Ledger /\ Finished
  BY DEF IInit, NotStarted, Ledger, Unsent, Finished
<1>3. \A w \in Worker : Known(w)
  BY DEF IInit, Known, AtMessage
<1>. QED
  BY <1>1, <1>2, <1>3 DEF LInv

\* Every step keeps the invariant.
LEMMA StepKeeps == LInv /\ [INext]_ivars => LInv'
<1>. SUFFICES ASSUME LInv, [INext]_ivars PROVE LInv'
  OBVIOUS
<1>1. CASE Operator
  BY <1>1, IntakeKeeps, PrepareDiscoverKeeps, MapFoldersKeeps, TransitionsKeep, EnvironmentKeeps DEF Operator
<1>2. ASSUME NEW w \in Worker, RunStep(w) PROVE LInv'
  BY <1>2, LockKeeps, LoadJobKeeps, ChecksKeep, OpenKeeps, SetStatesKeep, DiscoverKeeps, RecordKeeps,
     FindReceiptKeeps, MarkAppendingKeeps, RecheckKeeps, AppendKeeps, RecordAppendKeeps, VerifyKeeps,
     EndScanKeeps, VerifyFreshKeeps, CompleteKeeps, AttentionKeeps, DisposalKeeps DEF RunStep
<1>3. ASSUME NEW w \in Worker, RunFails(w) \/ Crash(w) \/ \E r \in Rev : Fetch(w, r) PROVE LInv'
  BY <1>3, FaultsKeep, FetchKeeps
<1>4. CASE (\E r \in Rev : Rescue(r)) \/ \E m \in Msg : Arrives(m)
  BY <1>4, RescueKeeps, ArrivesKeeps
<1>5. CASE UNCHANGED ivars
  BY <1>5, EnvironmentKeeps
<1>. QED
  BY <1>1, <1>2, <1>3, <1>4, <1>5 DEF INext

\* The invariant of the import.
LEMMA LedgerInvariant == ISpec => []LInv
BY InitIsLedgered, StepKeeps, PTL DEF ISpec

\* Whatever jobs overlap, are retried or cut off, and whatever append arrives
\* late, no message reaches the destination twice (Engine.Run: the checkpoint
\* before Append, FindReceipt after a doubt).
THEOREM NothingIsCopiedTwice == ISpec => []NoMessageTwice
<1>1. LInv => NoMessageTwice
  BY DEF LInv
<1>. QED
  BY LedgerInvariant, <1>1, PTL

\* A record that says copied or verified is about a message that arrived
\* (Checkpoint).
THEOREM LedgerStaysTrue == ISpec => []LedgerIsTrue
<1>1. LInv => LedgerIsTrue
  BY DEF LInv, Ledger, LedgerIsTrue
<1>. QED
  BY LedgerInvariant, <1>1, PTL

\* A complete import holds each message it discovered exactly once, or its
\* folder was left out and it holds none of it (Run, SetState).
THEOREM CompletionIsExact == ISpec => []CompleteIsExact
<1>1. LInv => CompleteIsExact
  BY SMT DEF LInv, Ledger, Finished, Settled, Unsent, CompleteIsExact
<1>. QED
  BY LedgerInvariant, <1>1, PTL
-----------------------------------------------------------------------------
(* Jobs and verdicts.                                                      *)

JobState == {"absent", "available", "running", "completed", "discarded"}
Job == [state : JobState, tries : 0..MaxAttempts]

JType == imp.rev \in Rev /\ queue \in [Rev -> Job] /\ job \in [Worker -> 0..MaxRev]

\* A job at work is running in the queue, so that no worker has the job of
\* another one and a verdict leaves nobody at work for its revision.
Queued ==
    /\ \A w \in Worker : (pc[w] = "idle" <=> job[w] = 0) /\ (job[w] # 0 => queue[job[w]].state = "running")
    /\ \A v, w \in Worker : job[v] = job[w] /\ job[v] # 0 => v = w
    /\ \A r \in Rev : r > imp.rev => queue[r].state = "absent"
    /\ \A r \in Rev : queue[r].state = "available" => queue[r].tries < MaxAttempts
    /\ imp.state = "attention_required" => queue[imp.rev].state \notin {"available", "running"}

JInv == JType /\ Queued

\* One step of StoppedStaysStopped.
Stops ==
    /\ imp.state \in Terminal => imp'.state = imp.state
    /\ imp.state \in {"paused", "attention_required"} /\ imp'.state # imp.state => imp'.rev > imp.rev

\* What a step of a run does to the jobs: it goes on with its own, or ends it.
Goes(w) ==
    UNCHANGED <<queue, job>> /\ pc'[w] # "idle" /\ \A v \in Worker \ {w} : pc'[v] = pc[v]

Ends(w) ==
    /\ job' = [job EXCEPT ![w] = 0]
    /\ pc'[w] = "idle" /\ \A v \in Worker \ {w} : pc'[v] = pc[v]
    /\ \E j \in Job : /\ queue' = [queue EXCEPT ![job[w]] = j]
                      /\ j.state = "available" => j.tries < MaxAttempts

\* What it does to the import.
Verdict(w) ==
    \/ imp' = imp
    \/ /\ MaySet(w, "attention_required") /\ pc[w] = "attention"
       /\ imp' = [imp EXCEPT !.state = "attention_required"]
       /\ queue'[job[w]].state = "completed"
    \/ /\ pc[w] \in {"discovering", "copying", "verifying", "complete"}
       /\ MaySet(w, pc[w]) /\ imp' = [imp EXCEPT !.state = pc[w]]

\* The queue and the job of a worker that has one.
LEMMA AtJob ==
    ASSUME LInv, JInv, NEW w \in Worker, pc[w] # "idle"
    PROVE  /\ job[w] \in Rev /\ job[w] <= imp.rev /\ queue[job[w]] \in Job
           /\ queue[job[w]].state = "running"
<1>1. job[w] \in 0..MaxRev /\ job[w] # 0 /\ queue[job[w]].state = "running"
  BY DEF JInv, JType, Queued
<1>2. job[w] \in Rev
  BY <1>1, ImportAssumption, SMT DEF Rev
<1>3. queue[job[w]] \in Job
  BY <1>2 DEF JInv, JType
<1>4. ~(job[w] > imp.rev)
  BY <1>1, <1>2 DEF JInv, Queued
<1>5. imp.rev \in Nat /\ job[w] \in Nat
  BY <1>2, ImportAssumption, SMT DEF JInv, JType, Rev
<1>6. job[w] <= imp.rev
  BY <1>4, <1>5, SMT
<1>. QED
  BY <1>1, <1>2, <1>3, <1>6

LEMMA EndsItsJob ==
    ASSUME LInv, JInv, NEW w \in Worker, pc[w] # "idle", Done(w) \/ Error(w)
    PROVE  Ends(w) /\ (Done(w) => queue'[job[w]].state = "completed")
<1>1. PICK r \in Rev : r = job[w]
  BY AtJob
<1>2. PICK j \in Job : j = queue[r]
  BY <1>1, AtJob
<1>3. queue \in [Rev -> Job] /\ DOMAIN pc = Worker
  BY DEF JInv, JType, LInv, LType
<1>4. /\ job' = [job EXCEPT ![w] = 0]
      /\ pc'[w] = "idle" /\ \A v \in Worker \ {w} : pc'[v] = pc[v]
  BY <1>3 DEF Done, Error, Release
<1>5. CASE Done(w)
  <2>1. queue' = [queue EXCEPT ![r].state = "completed"]
    BY <1>1, <1>5 DEF Done
  <2>2. PICK i : i = [j EXCEPT !.state = "completed"]
    OBVIOUS
  <2>3. i \in Job /\ i.state = "completed"
    BY <2>2, SMT DEF Job, JobState
  <2>4. queue' = [queue EXCEPT ![r] = i] /\ queue'[r] = i
    BY <1>2, <1>3, <2>1, <2>2, SMT
  <2>. QED
    BY <1>1, <1>4, <2>3, <2>4 DEF Ends
<1>6. CASE Error(w)
  <2>1. queue' = [queue EXCEPT ![r] = AfterError(j)]
    BY <1>1, <1>2, <1>6 DEF Error
  <2>2. AfterError(j) \in Job /\ (AfterError(j).state = "available" => AfterError(j).tries < MaxAttempts)
    BY SMT DEF AfterError, Job, JobState
  <2>3. Ends(w)
    BY <1>1, <1>4, <2>1, <2>2 DEF Ends
  <2>4. ASSUME Done(w) PROVE queue'[job[w]].state = "completed"
    <3>1. queue' = [queue EXCEPT ![r].state = "completed"]
      BY <1>1, <2>4 DEF Done
    <3>. QED
      BY <1>1, <1>2, <1>3, <3>1, SMT DEF Job
  <2>. QED
    BY <2>3, <2>4
<1>. QED
  BY <1>5, <1>6

LEMMA GotoGoes ==
    ASSUME LInv, NEW w \in Worker, NEW label, label # "idle", Goto(w, label), UNCHANGED <<queue, job>>
    PROVE  Goes(w)
BY DEF Goes, Goto, LInv, LType

\* SetState moves the import or ends the job.
LEMMA SetStateShape ==
    ASSUME LInv, JInv, NEW w \in Worker, pc[w] \in {"discovering", "copying", "verifying", "complete"},
           NEW label, label # "idle", NEW left, SetState(w, pc[w], label, left)
    PROVE  (Goes(w) \/ Ends(w)) /\ Verdict(w)
<1>1. CASE Error(w) /\ imp' = imp
  BY <1>1, EndsItsJob DEF Verdict
<1>2. CASE /\ MaySet(w, pc[w]) /\ imp' = [imp EXCEPT !.state = pc[w]]
           /\ Goto(w, label) /\ UNCHANGED <<queue, job>>
  BY <1>2, GotoGoes DEF Verdict
<1>. QED
  BY <1>1, <1>2 DEF SetState

\* The shape of every step of a run.
LEMMA RunShape ==
    ASSUME LInv, JInv, NEW w \in Worker, RunStep(w)
    PROVE  (Goes(w) \/ Ends(w)) /\ Verdict(w)
<1>1. CASE Lock(w) \/ LoadJob(w) \/ Open(w) \/ Discover(w) \/ MarkAppending(w) \/ Append(w)
           \/ RecordAppend(w) \/ EndScan(w) \/ Retire(w) \/ FindReceipt(w) \/ Verify(w)
  <2>1. imp' = imp /\ pc[w] # "idle"
    BY <1>1 DEF Lock, LoadJob, Open, Discover, MarkAppending, Append, RecordAppend, EndScan, Retire,
                FindReceipt, Verify, OrAttention
  <2>2. CASE Error(w)
    BY <2>1, <2>2, EndsItsJob DEF Verdict
  <2>3. CASE /\ UNCHANGED <<queue, job>>
             /\ \E label \in {"job", "retire", "current", "scan", "attention", "copying", "recheck", "copied", "failed",
                              "uncertain", "verifying", "final", "cleanup", "record"} : Goto(w, label)
    BY <2>1, <2>3, GotoGoes DEF Verdict
  <2>. QED
    BY <1>1, <2>2, <2>3 DEF Lock, LoadJob, Open, Discover, MarkAppending, Append, RecordAppend, EndScan, Retire,
                FindReceipt, Verify, OrAttention
<1>2. CASE CheckCurrent(w) \/ Scan(w) \/ Recheck(w) \/ CheckFinal(w)
  <2>1. imp' = imp /\ pc[w] # "idle"
    BY <1>2 DEF CheckCurrent, Scan, Recheck, CheckFinal, IfCurrent
  <2>2. \/ Done(w)
        \/ UNCHANGED <<queue, job>> /\ \E label \in {"open", "discovering", "append", "fresh"} : Goto(w, label)
    BY <1>2 DEF CheckCurrent, Scan, Recheck, CheckFinal, IfCurrent
  <2>. QED
    BY <2>1, <2>2, EndsItsJob, GotoGoes DEF Verdict
<1>3. CASE SetDiscovering(w) \/ SetCopying(w) \/ SetVerifying(w) \/ Complete(w)
  <2>1. PICK label \in {"discover", "record", "read", "retire"} : \E left : SetState(w, pc[w], label, left)
    BY <1>3 DEF SetDiscovering, SetCopying, SetVerifying, Complete
  <2>2. pc[w] \in {"discovering", "copying", "verifying", "complete"}
    BY <1>3 DEF SetDiscovering, SetCopying, SetVerifying, Complete
  <2>3. PICK left : SetState(w, pc[w], label, left)
    BY <2>1
  <2>. QED
    BY <2>2, <2>3, SetStateShape
<1>4. CASE Record(w)
  <2>1. imp' = imp /\ pc[w] = "record"
    BY <1>4 DEF Record, OrAttention
  <2>2. CASE Done(w)
    BY <2>1, <2>2, EndsItsJob DEF Verdict
  <2>3. CASE UNCHANGED <<queue, job, pc>>
    BY <2>1, <2>3 DEF Verdict, Goes
  <2>4. CASE UNCHANGED <<queue, job>> /\ (Goto(w, StepOf(Here(w))) \/ Goto(w, "attention"))
    <3>1. StepOf(Here(w)) \in {"find", "mark", "verifying"}
      BY SMT DEF StepOf
    <3>. QED
      BY <2>1, <2>4, <3>1, GotoGoes DEF Verdict
  <2>. QED
    BY <1>4, <2>2, <2>3, <2>4 DEF Record, OrAttention
<1>5. CASE VerifyFresh(w)
  <2>1. imp' = imp /\ pc[w] # "idle"
    BY <1>5 DEF VerifyFresh, OrAttention
  <2>2. \/ Done(w)
        \/ UNCHANGED <<queue, job>> /\ \E label \in {"complete", "attention"} : Goto(w, label)
    BY <1>5 DEF VerifyFresh, OrAttention
  <2>. QED
    BY <2>1, <2>2, EndsItsJob, GotoGoes DEF Verdict
<1>6. CASE Attention(w)
  BY <1>6, EndsItsJob DEF Attention, Verdict
<1>7. CASE Cleanup(w)
  BY <1>7, EndsItsJob DEF Cleanup, Verdict
<1>. QED
  BY <1>1, <1>2, <1>3, <1>4, <1>5, <1>6, <1>7 DEF RunStep

\* So are the failures of a run.
LEMMA FailureShape ==
    ASSUME LInv, JInv, NEW w \in Worker, RunFails(w) \/ Crash(w)
    PROVE  Ends(w) /\ imp' = imp
<1>1. pc[w] # "idle" /\ imp' = imp
  BY DEF RunFails, Crash
<1>2. CASE RunFails(w)
  BY <1>1, <1>2, EndsItsJob DEF RunFails
<1>3. CASE Crash(w)
  <2>1. PICK r \in Rev : r = job[w] /\ queue[r] \in Job /\ queue[r].state = "running"
    BY <1>1, AtJob
  <2>2. queue' = [queue EXCEPT ![r] = queue[r]]
    BY <1>3, SMT DEF Crash, JInv, JType
  <2>3. /\ job' = [job EXCEPT ![w] = 0]
        /\ pc'[w] = "idle" /\ \A v \in Worker \ {w} : pc'[v] = pc[v]
    BY <1>3 DEF Crash, Release, LInv, LType
  <2>. QED
    BY <1>1, <2>1, <2>2, <2>3 DEF Ends
<1>. QED
  BY <1>2, <1>3

\* A run moves a stopped import nowhere: it is not the run of its revision.
LEMMA VerdictStops ==
    ASSUME LInv, JInv, NEW w \in Worker, pc[w] # "idle", Verdict(w)
    PROVE  /\ Stops /\ imp'.rev = imp.rev
           /\ imp'.state = "attention_required" => imp.state = "attention_required" \/
                 (job[w] = imp.rev /\ queue'[job[w]].state = "completed")
<1>1. CASE imp' = imp
  BY <1>1 DEF Stops
<1>2. CASE imp' # imp
  <2>1. /\ imp.rev = job[w] /\ imp.state \notin {"paused", "cancelled"}
        /\ pc[w] \in {"attention", "discovering", "copying", "verifying", "complete"}
    BY <1>2 DEF Verdict, MaySet
  <2>2. imp.state # "complete"
    BY <2>1 DEF LInv, Finished, Outside
  <2>3. imp.state # "attention_required"
    BY <2>1, AtJob DEF JInv, Queued
  <2>4. Stops
    BY <2>1, <2>2, <2>3 DEF Stops, Terminal
  <2>5. imp'.rev = imp.rev /\ (imp'.state = "attention_required" => queue'[job[w]].state = "completed")
    <3>1. imp \in [state : ImportState, rev : Nat, prepared : BOOLEAN]
      BY DEF LInv, LType
    <3>. QED
      BY <1>2, <3>1 DEF Verdict
  <2>. QED
    BY <2>1, <2>4, <2>5
<1>. QED
  BY <1>1, <1>2

\* One record of the queue changes.
LEMMA QueueSet ==
    ASSUME JType, NEW r \in Rev, NEW j \in Job, queue' = [queue EXCEPT ![r] = j]
    PROVE  queue' \in [Rev -> Job] /\ queue'[r] = j /\ \A q \in Rev \ {r} : queue'[q] = queue[q]
BY DEF JType

\* The steps of a run keep the jobs in order.
LEMMA RunJobs ==
    ASSUME LInv, JInv, NEW w \in Worker, pc[w] # "idle", Goes(w) \/ Ends(w), Verdict(w)
    PROVE  JInv'
<1>1. /\ imp'.rev = imp.rev
      /\ imp'.state = "attention_required" => imp.state = "attention_required" \/
            (job[w] = imp.rev /\ queue'[job[w]].state = "completed")
  BY VerdictStops
<1>2. job[w] \in Rev /\ queue[job[w]].state = "running" /\ job[w] <= imp.rev
  BY AtJob
<1>3. CASE Goes(w)
  <2>1. JType'
    BY <1>1, <1>3 DEF JInv, JType, Goes
  <2>2. Queued'
    BY <1>1, <1>2, <1>3 DEF JInv, Queued, Goes
  <2>. QED
    BY <2>1, <2>2 DEF JInv
<1>4. CASE Ends(w)
  <2>1. PICK r \in Rev : r = job[w]
    BY <1>2
  <2>2. PICK j \in Job : queue' = [queue EXCEPT ![r] = j] /\ (j.state = "available" => j.tries < MaxAttempts)
    BY <1>4, <2>1 DEF Ends
  <2>3. queue' \in [Rev -> Job] /\ queue'[r] = j /\ \A q \in Rev \ {r} : queue'[q] = queue[q]
    BY <2>2, QueueSet DEF JInv
  <2>4. job' \in [Worker -> 0..MaxRev] /\ job'[w] = 0 /\ \A v \in Worker \ {w} : job'[v] = job[v]
    BY <1>4, ImportAssumption, SMT DEF Ends, JInv, JType
  <2>5. JType'
    BY <1>1, <2>3, <2>4 DEF JInv, JType
  <2>6. \A v \in Worker \ {w} : job[v] # 0 => job[v] # r /\ job[v] \in Rev
    <3>1. \A v \in Worker \ {w} : job[v] # 0 => pc[v] # "idle"
      BY DEF JInv, Queued
    <3>2. \A v \in Worker \ {w} : job[v] # 0 => job[v] \in Rev
      BY <3>1, AtJob
    <3>3. job[w] # 0
      BY DEF JInv, Queued
    <3>. QED
      BY <2>1, <3>2, <3>3 DEF JInv, Queued
  <2>7. \A v \in Worker : (pc'[v] = "idle" <=> job'[v] = 0) /\ (job'[v] # 0 => queue'[job'[v]].state = "running")
    BY <1>4, <2>3, <2>4, <2>6, SMT DEF JInv, Queued, Ends
  <2>8. \A u, v \in Worker : job'[u] = job'[v] /\ job'[u] # 0 => u = v
    BY <2>4, SMT DEF JInv, Queued
  <2>9. \A q \in Rev : q > imp'.rev => queue'[q].state = "absent"
    <3>1. \A q \in Rev : q > imp.rev => q # r
      BY <1>2, <2>1, ImportAssumption, SMT DEF Rev, JInv, JType
    <3>. QED
      BY <1>1, <2>3, <3>1 DEF JInv, Queued
  <2>10. \A q \in Rev : queue'[q].state = "available" => queue'[q].tries < MaxAttempts
    BY <2>2, <2>3 DEF JInv, Queued
  <2>11. imp'.state = "attention_required" => queue'[imp'.rev].state \notin {"available", "running"}
    <3>1. imp.state = "attention_required" => imp.rev # r /\ imp.rev \in Rev
      BY <1>2, <2>1 DEF JInv, JType, Queued
    <3>. QED
      BY <1>1, <2>3, <3>1, SMT DEF JInv, Queued
  <2>. QED
    BY <2>5, <2>7, <2>8, <2>9, <2>10, <2>11 DEF JInv, Queued
<1>. QED
  BY <1>3, <1>4
\* A job is handed out once.
LEMMA FetchJobs ==
    ASSUME LInv, JInv, NEW w \in Worker, NEW r \in Rev, Fetch(w, r)
    PROVE  JInv' /\ Stops
<1>1. /\ pc[w] = "idle" /\ queue[r].state = "available" /\ imp' = imp
      /\ job' = [job EXCEPT ![w] = r]
      /\ queue' = [queue EXCEPT ![r] = [state |-> "running", tries |-> @.tries + 1]]
      /\ Goto(w, "lock")
  BY DEF Fetch
<1>2. PICK j : j = [state |-> "running", tries |-> queue[r].tries + 1]
  OBVIOUS
<1>3. j \in Job /\ j.state = "running"
  <2>1. queue[r] \in Job /\ queue[r].tries < MaxAttempts
    BY <1>1 DEF JInv, JType, Queued
  <2>. QED
    BY <1>2, <2>1, SMT DEF Job, JobState, MaxAttempts
<1>4. queue' = [queue EXCEPT ![r] = j]
  BY <1>1, <1>2
<1>5. queue' \in [Rev -> Job] /\ queue'[r] = j /\ \A q \in Rev \ {r} : queue'[q] = queue[q]
  BY <1>3, <1>4, QueueSet DEF JInv
<1>6. /\ r # 0 /\ job' \in [Worker -> 0..MaxRev] /\ job'[w] = r
      /\ \A v \in Worker \ {w} : job'[v] = job[v]
  BY <1>1, ImportAssumption, SMT DEF JInv, JType, Rev
<1>7. pc'[w] = "lock" /\ \A v \in Worker \ {w} : pc'[v] = pc[v]
  BY <1>1 DEF Goto, LInv, LType
<1>8. \A v \in Worker : job[v] # 0 => job[v] # r /\ job[v] \in Rev
  <2>1. \A v \in Worker : job[v] # 0 => pc[v] # "idle" /\ queue[job[v]].state = "running"
    BY DEF JInv, Queued
  <2>2. \A v \in Worker : job[v] # 0 => job[v] \in Rev
    BY <2>1, AtJob
  <2>. QED
    BY <1>1, <2>1, <2>2
<1>9. JType'
  BY <1>1, <1>5, <1>6 DEF JInv, JType
<1>10. \A v \in Worker : (pc'[v] = "idle" <=> job'[v] = 0) /\ (job'[v] # 0 => queue'[job'[v]].state = "running")
  BY <1>3, <1>5, <1>6, <1>7, <1>8, SMT DEF JInv, Queued
<1>11. \A u, v \in Worker : job'[u] = job'[v] /\ job'[u] # 0 => u = v
  BY <1>6, <1>8, SMT DEF JInv, Queued
<1>12. /\ \A q \in Rev : q > imp'.rev => queue'[q].state = "absent"
       /\ \A q \in Rev : queue'[q].state = "available" => queue'[q].tries < MaxAttempts
       /\ imp'.state = "attention_required" => queue'[imp'.rev].state \notin {"available", "running"}
  <2>1. ~(r > imp.rev) /\ (imp.state = "attention_required" => r # imp.rev)
    BY <1>1 DEF JInv, Queued
  <2>. QED
    BY <1>1, <1>3, <1>5, <2>1 DEF JInv, JType, Queued
<1>13. Stops
  BY <1>1 DEF Stops
<1>. QED
  BY <1>9, <1>10, <1>11, <1>12, <1>13 DEF JInv, Queued

\* A job nobody works on is taken back.
LEMMA RescueJobs ==
    ASSUME LInv, JInv, NEW r \in Rev, Rescue(r)
    PROVE  JInv' /\ Stops
<1>1. /\ queue[r].state = "running" /\ (\A w \in Worker : job[w] # r)
      /\ UNCHANGED <<imp, job, pc>> /\ queue' = [queue EXCEPT ![r] = AfterError(queue[r])]
  BY DEF Rescue, run
<1>2. PICK i \in Job : i = queue[r]
  BY DEF JInv, JType
<1>3. PICK j : j = AfterError(i)
  OBVIOUS
<1>4. j \in Job /\ (j.state = "available" => j.tries < MaxAttempts)
  BY <1>3, SMT DEF AfterError, Job, JobState
<1>5. queue' \in [Rev -> Job] /\ queue'[r] = j /\ \A q \in Rev \ {r} : queue'[q] = queue[q]
  BY <1>1, <1>2, <1>3, <1>4, QueueSet DEF JInv
<1>6. JType'
  BY <1>1, <1>5 DEF JInv, JType
<1>7. \A v \in Worker : job[v] # 0 => job[v] # r /\ job[v] \in Rev
  BY <1>1, AtJob DEF JInv, Queued
<1>8. \A v \in Worker : (pc'[v] = "idle" <=> job'[v] = 0) /\ (job'[v] # 0 => queue'[job'[v]].state = "running")
  BY <1>1, <1>5, <1>7 DEF JInv, Queued
<1>9. /\ \A q \in Rev : q > imp'.rev => queue'[q].state = "absent"
      /\ \A q \in Rev : queue'[q].state = "available" => queue'[q].tries < MaxAttempts
      /\ imp'.state = "attention_required" => queue'[imp'.rev].state \notin {"available", "running"}
  <2>1. ~(r > imp.rev) /\ (imp.state = "attention_required" => r # imp.rev)
    BY <1>1 DEF JInv, Queued
  <2>. QED
    BY <1>1, <1>4, <1>5, <2>1 DEF JInv, JType, Queued
<1>10. Stops /\ \A u, v \in Worker : job'[u] = job'[v] /\ job'[u] # 0 => u = v
  BY <1>1 DEF Stops, JInv, Queued
<1>. QED
  BY <1>6, <1>8, <1>9, <1>10 DEF JInv, Queued

\* A step that leaves the jobs and the revision alone.
LEMMA SameJobs ==
    ASSUME JInv, UNCHANGED <<queue, job, pc>>, imp'.rev = imp.rev,
           imp'.state = imp.state \/ imp'.state # "attention_required"
    PROVE  JInv'
BY DEF JInv, JType, Queued

\* A job is inserted for a revision that has no worker.
LEMMA InsertJobs ==
    ASSUME JInv, LInv, UNCHANGED <<job, pc>>, imp'.rev \in Rev, imp'.rev = imp.rev \/ imp'.rev = imp.rev + 1,
           Insert(imp'.rev), imp'.state # "attention_required",
           \A w \in Worker : job[w] # imp'.rev
    PROVE  JInv'
<1>1. PICK r \in Rev : r = imp'.rev
  OBVIOUS
<1>2. PICK j : j = [state |-> "available", tries |-> 0]
  OBVIOUS
<1>3. j \in Job /\ j.tries < MaxAttempts
  BY <1>2, SMT DEF Job, JobState, MaxAttempts
<1>4. queue' = [queue EXCEPT ![r] = j]
  BY <1>1, <1>2 DEF Insert
<1>5. queue' \in [Rev -> Job] /\ queue'[r] = j /\ \A q \in Rev \ {r} : queue'[q] = queue[q]
  BY <1>3, <1>4, QueueSet DEF JInv
<1>6. JType'
  BY <1>5 DEF JInv, JType
<1>7. \A v \in Worker : job[v] # 0 => job[v] # r /\ job[v] \in Rev
  BY <1>1, AtJob DEF JInv, Queued
<1>8. \A v \in Worker : (pc'[v] = "idle" <=> job'[v] = 0) /\ (job'[v] # 0 => queue'[job'[v]].state = "running")
  BY <1>5, <1>7 DEF JInv, Queued
<1>9. \A q \in Rev : q > imp'.rev => q # r /\ q > imp.rev
  BY <1>1, ImportAssumption, SMT DEF JInv, JType, Rev
<1>10. /\ \A q \in Rev : q > imp'.rev => queue'[q].state = "absent"
       /\ \A q \in Rev : queue'[q].state = "available" => queue'[q].tries < MaxAttempts
       /\ \A u, v \in Worker : job'[u] = job'[v] /\ job'[u] # 0 => u = v
  BY <1>3, <1>5, <1>9 DEF JInv, Queued
<1>. QED
  BY <1>6, <1>8, <1>10 DEF JInv, Queued

\* The operator and the environment.
LEMMA OperatorJobs ==
    ASSUME LInv, JInv, Operator
    PROVE  JInv' /\ Stops
<1>. imp \in [state : ImportState, rev : Nat, prepared : BOOLEAN] /\ imp.rev \in Rev
  BY DEF LInv, LType, JInv, JType
<1>1. CASE PrepareOpen \/ PrepareDiscover \/ MapFolders \/ Elapse \/ Arrive \/ Disable \/ Enable
  <2>1. UNCHANGED <<queue, job, pc, imp>>
    BY <1>1 DEF PrepareOpen, PrepareDiscover, MapFolders, Elapse, Arrive, Disable, Enable, opFrame, run
  <2>. QED
    BY <2>1, SameJobs DEF Stops
<1>2. CASE Preview
  <2>1. UNCHANGED <<queue, job, pc>> /\ imp.state = "none" /\ imp' = [imp EXCEPT !.state = "preview"]
    BY <1>2 DEF Preview, opFrame, run
  <2>2. imp'.rev = imp.rev /\ imp'.state = "preview"
    BY <2>1
  <2>. QED
    BY <2>1, <2>2, SameJobs DEF Stops, Terminal
<1>3. CASE Prepared
  <2>1. UNCHANGED <<queue, job, pc>> /\ imp' = [imp EXCEPT !.prepared = imp.prepared \/ imp.state = "preview"]
    BY <1>3 DEF Prepared, opFrame, run
  <2>2. imp'.rev = imp.rev /\ imp'.state = imp.state
    BY <2>1
  <2>. QED
    BY <2>1, <2>2, SameJobs DEF Stops
<1>4. CASE Start
  <2>1. /\ UNCHANGED <<job, pc>> /\ imp.state = "preview" /\ imp' = [imp EXCEPT !.state = "queued"]
        /\ Insert(imp.rev)
    BY <1>4 DEF Start, opFrame, run
  <2>2. imp'.rev = imp.rev /\ imp'.state = "queued"
    BY <2>1
  <2>3. \A w \in Worker : job[w] = 0
    BY <2>1 DEF LInv, NotStarted, JInv, Queued
  <2>4. imp.rev # 0
    BY ImportAssumption, SMT DEF Rev
  <2>5. Insert(imp'.rev)
    BY <2>1, <2>2
  <2>. QED
    BY <2>1, <2>2, <2>3, <2>4, <2>5, InsertJobs DEF Stops, Terminal
<1>5. ASSUME NEW state \in {"paused", "queued", "cancelled"}, Move(state), imp.rev < MaxRev
      PROVE  /\ imp'.rev = imp.rev + 1 /\ imp'.rev \in Rev /\ imp'.rev > imp.rev /\ imp'.state = state
             /\ \A w \in Worker : job[w] # imp'.rev
  <2>1. imp'.rev = imp.rev + 1 /\ imp'.state = state
    BY <1>5 DEF Move
  <2>2. imp'.rev \in Rev /\ imp'.rev > imp.rev /\ imp'.rev # 0
    BY <1>5, <2>1, ImportAssumption, SMT DEF Rev
  <2>3. queue[imp'.rev].state = "absent"
    BY <2>2 DEF JInv, Queued
  <2>4. \A w \in Worker : job[w] # imp'.rev
    BY <2>2, <2>3 DEF JInv, Queued
  <2>. QED
    BY <2>1, <2>2, <2>4
<1>6. CASE Pause
  <2>1. UNCHANGED <<queue, job, pc>> /\ Move("paused") /\ imp.rev < MaxRev /\ imp.state \in RunningState
    BY <1>6 DEF Pause, opFrame, run
  <2>2. imp'.rev \in Rev /\ imp'.rev > imp.rev /\ imp'.state = "paused" /\ imp'.rev = imp.rev + 1
    BY <1>5, <2>1
  <2>3. \A q \in Rev : q > imp'.rev => q > imp.rev
    BY <2>2, ImportAssumption, SMT DEF Rev
  <2>4. JInv'
    BY <2>1, <2>2, <2>3 DEF JInv, JType, Queued
  <2>. QED
    BY <2>1, <2>2, <2>4 DEF Stops, Terminal, RunningState
<1>7. CASE Resume \/ Cancel \/ ExpirePreviews
  <2>1. PICK state \in {"queued", "cancelled"} : Move(state)
    BY <1>7 DEF Resume, Cancel, ExpirePreviews
  <2>2. /\ UNCHANGED <<job, pc>> /\ imp.rev < MaxRev /\ Insert(imp.rev + 1)
        /\ imp.state \notin Terminal
    BY <1>7 DEF Resume, Cancel, ExpirePreviews, opFrame, run, Terminal
  <2>3. /\ imp'.rev = imp.rev + 1 /\ imp'.rev \in Rev /\ imp'.rev > imp.rev /\ imp'.state = state
        /\ \A w \in Worker : job[w] # imp'.rev
    BY <1>5, <2>1, <2>2
  <2>4. Insert(imp'.rev)
    BY <2>2, <2>3
  <2>. QED
    BY <2>2, <2>3, <2>4, InsertJobs DEF Stops
<1>. QED
  BY <1>1, <1>2, <1>3, <1>4, <1>6, <1>7 DEF Operator

LEMMA InitHasNoJobs == IInit => JInv
<1>. SUFFICES ASSUME IInit PROVE JInv
  OBVIOUS
<1>1. JType
  BY ImportAssumption, SMT DEF IInit, JType, Job, JobState, Rev, MaxAttempts
<1>2. Queued
  BY DEF IInit, Queued
<1>. QED
  BY <1>1, <1>2 DEF JInv

LEMMA StepJobs == LInv /\ JInv /\ [INext]_ivars => JInv' /\ Stops
<1>. SUFFICES ASSUME LInv, JInv, [INext]_ivars PROVE JInv' /\ Stops
  OBVIOUS
<1>1. ASSUME NEW w \in Worker, RunStep(w) PROVE JInv' /\ Stops
  <2>1. pc[w] # "idle"
    BY <1>1 DEF RunStep, Lock, LoadJob, CheckCurrent, Open, Scan, SetDiscovering, Discover, SetCopying, Record,
                FindReceipt, MarkAppending, Recheck, Append, RecordAppend, SetVerifying, Verify, EndScan, CheckFinal,
                VerifyFresh, Complete, Attention, Retire, Cleanup
  <2>. QED
    BY <1>1, <2>1, RunShape, RunJobs, VerdictStops
<1>2. ASSUME NEW w \in Worker, RunFails(w) \/ Crash(w) PROVE JInv' /\ Stops
  <2>1. pc[w] # "idle" /\ Ends(w) /\ Verdict(w)
    BY <1>2, FailureShape DEF RunFails, Crash, Verdict
  <2>. QED
    BY <2>1, RunJobs, VerdictStops
<1>3. ASSUME NEW m \in Msg, Arrives(m) PROVE JInv' /\ Stops
  <2>1. UNCHANGED <<queue, job, pc, imp>>
    BY <1>3 DEF Arrives, run
  <2>. QED
    BY <2>1, SameJobs DEF Stops
<1>4. CASE UNCHANGED ivars
  <2>1. UNCHANGED <<queue, job, pc, imp>>
    BY <1>4 DEF ivars, run
  <2>. QED
    BY <2>1, SameJobs DEF Stops
<1>. QED
  BY <1>1, <1>2, <1>3, <1>4, OperatorJobs, FetchJobs, RescueJobs DEF INext

\* A finished import is moved by nothing, a stopped one only by a new revision:
\* no run of it, retried or late, revives it (SetState, Transition).
THEOREM StoppedImportsStay == ISpec => StoppedStaysStopped
<1>1. LInv /\ JInv /\ [INext]_ivars => [Stops]_ivars
  BY StepJobs
<1>2. LInv /\ JInv /\ [INext]_ivars => JInv'
  BY StepJobs
<1>. QED
  BY InitIsLedgered, StepKeeps, InitHasNoJobs, <1>1, <1>2, PTL DEF ISpec, StoppedStaysStopped, Stops
-----------------------------------------------------------------------------
(* Credentials.                                                            *)

\* No step takes the credentials of an import that goes on, and the import that
\* begins has them.
LEMMA StepCredentials ==
    ASSUME LInv, CredentialsOutliveTheImport, [INext]_ivars, Stops
    PROVE  CredentialsOutliveTheImport'
<1>. imp \in [state : ImportState, rev : Nat, prepared : BOOLEAN]
  BY DEF LInv, LType
<1>1. CASE imp.state \in Terminal
  BY <1>1 DEF Stops, CredentialsOutliveTheImport
<1>2. CASE secrets' = secrets /\ (imp.state = "none" => imp'.state = "none")
  BY <1>1, <1>2 DEF CredentialsOutliveTheImport
<1>3. CASE Operator
  <2>1. CASE Preview
    BY <2>1 DEF Preview, CredentialsOutliveTheImport
  <2>2. CASE Cancel \/ ExpirePreviews
    <3>1. imp' = [imp EXCEPT !.state = "cancelled", !.rev = imp.rev + 1]
      BY <2>2 DEF Cancel, ExpirePreviews, Move
    <3>2. imp'.state = "cancelled"
      BY <3>1
    <3>. QED
      BY <3>2 DEF CredentialsOutliveTheImport, Terminal
  <2>3. CASE PrepareOpen \/ PrepareDiscover \/ MapFolders \/ Elapse \/ Arrive \/ Disable \/ Enable
    BY <1>2, <2>3 DEF PrepareOpen, PrepareDiscover, MapFolders, Elapse, Arrive, Disable, Enable, opFrame
  <2>4. CASE Prepared
    BY <1>2, <2>4 DEF Prepared
  <2>5. CASE Start \/ Pause \/ Resume
    BY <1>2, <2>5 DEF Start, Pause, Resume, intake, RunningState
  <2>. QED
    BY <1>3, <2>1, <2>2, <2>3, <2>4, <2>5 DEF Operator
<1>4. ASSUME NEW w \in Worker, RunStep(w) PROVE CredentialsOutliveTheImport'
  <2>1. pc[w] # "idle"
    BY <1>4 DEF RunStep, Lock, LoadJob, CheckCurrent, Open, Scan, SetDiscovering, Discover, SetCopying, Record,
                FindReceipt, MarkAppending, Recheck, Append, RecordAppend, SetVerifying, Verify, EndScan, CheckFinal,
                VerifyFresh, Complete, Attention, Retire, Cleanup
  <2>2. imp.state # "none"
    BY <2>1, RunsAreStarted
  <2>3. CASE Retire(w)
    BY <1>1, <1>2, <2>2, <2>3 DEF Retire, CredentialsOutliveTheImport
  <2>4. CASE ~Retire(w)
    <3>1. secrets' = secrets
      BY <1>4, <2>4 DEF RunStep, Lock, LoadJob, CheckCurrent, Open, Scan, SetDiscovering, Discover, SetCopying, Record,
                FindReceipt, MarkAppending, Recheck, Append, RecordAppend, SetVerifying, Verify, EndScan, CheckFinal,
                VerifyFresh, Complete, Attention, Cleanup, IfCurrent, OrAttention, SetState, intake
    <3>. QED
      BY <1>2, <2>2, <3>1
  <2>. QED
    BY <2>3, <2>4
<1>5. ASSUME NEW w \in Worker, RunFails(w) \/ Crash(w) \/ \E r \in Rev : Fetch(w, r)
      PROVE  CredentialsOutliveTheImport'
  BY <1>2, <1>5 DEF RunFails, Crash, Fetch, intake
<1>6. CASE (\E r \in Rev : Rescue(r)) \/ (\E m \in Msg : Arrives(m)) \/ UNCHANGED ivars
  BY <1>2, <1>6 DEF Rescue, Arrives, ivars, intake
<1>. QED
  BY <1>3, <1>4, <1>5, <1>6 DEF INext

\* An import that may still run has its credentials: neither an expiry nor a
\* retry of a superseded job takes them (ExpirePreviews, Cancel, Retire).
THEOREM CredentialsLast == ISpec => []CredentialsOutliveTheImport
<1>1. IInit => CredentialsOutliveTheImport
  <2>1. IInit => imp.state = "none"
    BY SMT DEF IInit
  <2>. QED
    BY <2>1 DEF CredentialsOutliveTheImport
<1>2. LInv /\ JInv /\ CredentialsOutliveTheImport /\ [INext]_ivars => CredentialsOutliveTheImport'
  BY StepCredentials, StepJobs
<1>3. LInv /\ JInv /\ [INext]_ivars => JInv'
  BY StepJobs
<1>. QED
  BY InitIsLedgered, StepKeeps, InitHasNoJobs, <1>1, <1>2, <1>3, PTL DEF ISpec
-----------------------------------------------------------------------------
(* Types.                                                                  *)

\* Messages reach the source in the order of their numbers.
IntakeOK ==
    /\ expired \in BOOLEAN /\ usable \in BOOLEAN /\ secrets \in BOOLEAN /\ staged \in BOOLEAN
    /\ \E k \in 1..N : source = 1..k
    /\ skip \subseteq Folder
    /\ prep \in {"none", "open", "discover", "mark", "done", "fail"}

RunOK ==
    /\ lock \in Worker \cup {NoWorker} /\ flying \subseteq Msg
    /\ scan \in [Worker -> {1, 2}] /\ todo \in [Worker -> SUBSET Msg]

TInv == IntakeOK /\ RunOK /\ faults \in 0..MaxFaults

LEMMA TypedFrame ==
    /\ IntakeOK /\ UNCHANGED intake => IntakeOK'
    /\ RunOK /\ UNCHANGED <<lock, flying, scan, todo>> => RunOK'
    /\ faults \in 0..MaxFaults /\ (UNCHANGED faults \/ Fault) => faults' \in 0..MaxFaults
<1>1. IntakeOK /\ UNCHANGED intake => IntakeOK'
  BY DEF IntakeOK, intake
<1>2. RunOK /\ UNCHANGED <<lock, flying, scan, todo>> => RunOK'
  BY DEF RunOK
<1>3. faults \in 0..MaxFaults /\ (UNCHANGED faults \/ Fault) => faults' \in 0..MaxFaults
  BY ImportAssumption, SMT DEF Fault
<1>. QED
  BY <1>1, <1>2, <1>3

LEMMA InitIsTyped == IInit => TInv
<1>. SUFFICES ASSUME IInit PROVE TInv
  OBVIOUS
<1>1. IntakeOK
  BY DEF IInit, IntakeOK
<1>2. RunOK
  BY SMT DEF IInit, RunOK
<1>3. faults \in 0..MaxFaults
  BY ImportAssumption, SMT DEF IInit
<1>. QED
  BY <1>1, <1>2, <1>3 DEF TInv

\* The source grows by the next message.
LEMMA ArriveTyped ==
    ASSUME IntakeOK, Arrive
    PROVE  IntakeOK'
<1>1. PICK k \in 1..N : source = 1..k
  BY DEF IntakeOK
<1>2. N \in Nat /\ k \in Nat /\ k <= N /\ 1 \in Int /\ k \in Int
  BY ImportAssumption, SMT
<1>3. Cardinality(1..k) = IF 1 > k THEN 0 ELSE k - 1 + 1
  BY <1>2, FS_Interval
<1>4. Cardinality(source) = k
  BY <1>1, <1>2, <1>3, SMT
<1>5. source # 1..N /\ source' = source \cup {k + 1}
  BY <1>4 DEF Arrive, Msg
<1>6. k + 1 \in 1..N /\ source' = 1..(k + 1)
  BY <1>1, <1>2, <1>5, SMT
<1>7. UNCHANGED <<expired, usable, secrets, staged, skip, prep>>
  BY DEF Arrive
<1>. QED
  BY <1>6, <1>7 DEF IntakeOK

LEMMA OperatorTyped ==
    ASSUME TInv, Operator
    PROVE  TInv'
<1>1. UNCHANGED <<lock, flying, scan, todo>> /\ (UNCHANGED faults \/ Fault)
  BY DEF Operator, Preview, PrepareOpen, PrepareDiscover, Prepared, MapFolders, Start, Pause, Resume, Cancel,
         ExpirePreviews, Elapse, Arrive, Disable, Enable, opFrame, copies, run
<1>2. RunOK' /\ faults' \in 0..MaxFaults
  BY <1>1, TypedFrame DEF TInv
<1>3. CASE Arrive
  BY <1>2, <1>3, ArriveTyped DEF TInv
<1>4. CASE MapFolders
  <2>1. FolderOf \in [Msg -> Folder]
    BY ImportAssumption DEF Msg
  <2>2. skip' \subseteq Folder
    BY <1>4, <2>1, SMT DEF MapFolders
  <2>3. UNCHANGED <<expired, usable, source, prep, secrets, staged>>
    BY <1>4 DEF MapFolders
  <2>. QED
    BY <1>2, <2>2, <2>3 DEF TInv, IntakeOK
<1>5. CASE Start \/ Pause \/ Resume
  BY <1>2, <1>5, TypedFrame DEF Start, Pause, Resume, TInv
<1>6. CASE Preview \/ PrepareOpen \/ PrepareDiscover \/ Prepared \/ Cancel \/ ExpirePreviews \/ Elapse \/ Disable \/ Enable
  <2>1. UNCHANGED <<source, skip>>
    BY <1>6 DEF Preview, PrepareOpen, PrepareDiscover, Prepared, Cancel, ExpirePreviews, Elapse, Disable, Enable
  <2>2. /\ expired' = expired \/ expired' = TRUE
        /\ usable' = usable \/ usable' \in {TRUE, FALSE}
        /\ secrets' = secrets \/ secrets' \in {TRUE, FALSE}
        /\ staged' = staged \/ staged' \in {TRUE, FALSE}
        /\ prep' = prep \/ prep' \in {"open", "discover", "fail", "mark", "done"}
    BY <1>6 DEF Preview, PrepareOpen, PrepareDiscover, Prepared, Cancel, ExpirePreviews, Elapse, Disable, Enable
  <2>. QED
    <3>1. expired' \in BOOLEAN /\ usable' \in BOOLEAN /\ secrets' \in BOOLEAN /\ staged' \in BOOLEAN
      BY <2>2 DEF TInv, IntakeOK
    <3>2. prep' \in {"none", "open", "discover", "mark", "done", "fail"}
      BY <2>2 DEF TInv, IntakeOK
    <3>. QED
      BY <1>2, <2>1, <3>1, <3>2 DEF TInv, IntakeOK
<1>. QED
  BY <1>2, <1>3, <1>4, <1>5, <1>6 DEF Operator, TInv

LEMMA ReleaseTyped ==
    ASSUME RunOK, NEW w \in Worker, Release(w), flying' \subseteq Msg
    PROVE  RunOK'
<1>1. scan' \in [Worker -> {1, 2}] /\ todo' \in [Worker -> SUBSET Msg]
  BY SMT DEF RunOK, Release
<1>2. lock' \in Worker \cup {NoWorker}
  BY DEF RunOK, Release
<1>. QED
  BY <1>1, <1>2 DEF RunOK

LEMMA TodoTyped ==
    ASSUME RunOK, NEW w \in Worker, NEW left, left \subseteq Msg, todo' = [todo EXCEPT ![w] = left],
           UNCHANGED <<lock, flying, scan>>
    PROVE  RunOK'
<1>1. todo' \in [Worker -> SUBSET Msg]
  BY SMT DEF RunOK
<1>. QED
  BY <1>1 DEF RunOK

LEMMA RunTyped ==
    ASSUME LInv, TInv, NEW w \in Worker, RunStep(w)
    PROVE  TInv'
<1>. RunOK /\ IntakeOK /\ todo[w] \subseteq Msg
  BY DEF TInv, LInv, LType
<1>1. UNCHANGED faults \/ Fault
  BY DEF RunStep, Lock, LoadJob, CheckCurrent, Open, Scan, SetDiscovering, Discover, SetCopying, Record,
         FindReceipt, MarkAppending, Recheck, Append, RecordAppend, SetVerifying, Verify, EndScan, CheckFinal,
         VerifyFresh, Complete, Attention, Retire, Cleanup, IfCurrent, OrAttention, SetState
<1>2. faults' \in 0..MaxFaults
  BY <1>1, TypedFrame DEF TInv
<1>3. IntakeOK'
  <2>1. CASE Retire(w)
    <3>1. UNCHANGED <<expired, usable, source, skip, prep, staged>> /\ secrets' \in BOOLEAN
      BY <2>1 DEF Retire, IntakeOK
    <3>. QED
      BY <3>1 DEF IntakeOK
  <2>2. CASE Cleanup(w)
    <3>1. UNCHANGED <<expired, usable, source, skip, prep, secrets>> /\ staged' = FALSE
      BY <2>2 DEF Cleanup
    <3>. QED
      BY <3>1 DEF IntakeOK
  <2>3. CASE ~Retire(w) /\ ~Cleanup(w)
    <3>1. UNCHANGED intake
      BY <2>3 DEF RunStep, Lock, LoadJob, CheckCurrent, Open, Scan, SetDiscovering, Discover, SetCopying, Record,
         FindReceipt, MarkAppending, Recheck, Append, RecordAppend, SetVerifying, Verify, EndScan, CheckFinal,
         VerifyFresh, Complete, Attention, IfCurrent, OrAttention, SetState
    <3>. QED
      BY <3>1, TypedFrame
  <2>. QED
    BY <2>1, <2>2, <2>3
<1>4. RunOK'
  <2>1. CASE (Done(w) \/ Error(w)) /\ UNCHANGED flying
    <3>1. Release(w) /\ flying' \subseteq Msg
      BY <2>1 DEF Done, Error, RunOK
    <3>. QED
      BY <3>1, ReleaseTyped
  <2>2. CASE UNCHANGED <<lock, flying, scan, todo>>
    BY <2>2, TypedFrame
  <2>3. CASE Lock(w)
    <3>1. CASE lock' = w /\ UNCHANGED <<scan, todo, flying>>
      BY <3>1 DEF RunOK
    <3>. QED
      BY <2>1, <2>3, <3>1 DEF Lock, copies
  <2>4. CASE EndScan(w)
    <3>1. scan' = [scan EXCEPT ![w] = 2] /\ UNCHANGED <<lock, flying, todo>>
      BY <2>4 DEF EndScan, copies
    <3>2. scan' \in [Worker -> {1, 2}]
      BY <3>1, SMT DEF RunOK
    <3>. QED
      BY <3>1, <3>2 DEF RunOK
  <2>5. ASSUME NEW left, left \subseteq Msg, NEW state, NEW label, SetState(w, state, label, left) PROVE RunOK'
    <3>1. CASE Error(w)
      BY <2>1, <2>5, <3>1 DEF SetState, copies
    <3>2. CASE todo' = [todo EXCEPT ![w] = left] /\ UNCHANGED <<lock, scan>>
      BY <2>5, <3>2, TodoTyped DEF SetState, copies
    <3>. QED
      BY <2>5, <3>1, <3>2 DEF SetState
  <2>6. CASE SetDiscovering(w) \/ SetCopying(w) \/ SetVerifying(w) \/ Complete(w)
    <3>1. {m \in Msg : rec[m] # "absent"} \subseteq Msg
      OBVIOUS
    <3>2. PICK left : left \subseteq Msg /\ \E state, label : SetState(w, state, label, left)
      BY <2>6, <3>1 DEF SetDiscovering, SetCopying, SetVerifying, Complete
    <3>3. PICK state, label : SetState(w, state, label, left)
      BY <3>2
    <3>. QED
      BY <2>5, <3>2, <3>3
  <2>7. CASE Record(w) \/ Verify(w)
    <3>1. PICK left : left = todo[w] \ {Here(w)}
      OBVIOUS
    <3>2. left \subseteq Msg
      BY <3>1
    <3>3. CASE todo' = [todo EXCEPT ![w] = left] /\ UNCHANGED <<lock, flying, scan>>
      BY <3>2, <3>3, TodoTyped
    <3>. QED
      BY <2>1, <2>2, <2>7, <3>1, <3>3 DEF Record, Verify, OrAttention, copies
  <2>8. CASE Append(w)
    <3>1. Here(w) \in Msg
      BY <2>8, HereIsLeft DEF Append, LInv, Known, AtMessage
    <3>2. UNCHANGED <<lock, scan, todo>> /\ flying' \in {flying, flying \cup {Here(w)}}
      BY <2>8 DEF Append
    <3>. QED
      BY <3>1, <3>2 DEF RunOK
  <2>9. CASE CheckCurrent(w) \/ Scan(w) \/ Recheck(w) \/ CheckFinal(w) \/ VerifyFresh(w) \/ Attention(w) \/ Cleanup(w)
    BY <2>1, <2>2, <2>9 DEF CheckCurrent, Scan, Recheck, CheckFinal, VerifyFresh, Attention, Cleanup, IfCurrent,
       OrAttention, copies
  <2>10. CASE LoadJob(w) \/ Open(w) \/ Discover(w) \/ FindReceipt(w) \/ MarkAppending(w) \/ RecordAppend(w) \/ Retire(w)
    BY <2>2, <2>10 DEF LoadJob, Open, Discover, FindReceipt, MarkAppending, RecordAppend, Retire, OrAttention, copies
  <2>. QED
    BY <2>3, <2>4, <2>6, <2>7, <2>8, <2>9, <2>10 DEF RunStep
<1>. QED
  BY <1>2, <1>3, <1>4 DEF TInv

LEMMA StepTyped == LInv /\ TInv /\ [INext]_ivars => TInv'
<1>. SUFFICES ASSUME LInv, TInv, [INext]_ivars PROVE TInv'
  OBVIOUS
<1>1. ASSUME NEW w \in Worker, RunFails(w) \/ Crash(w) PROVE TInv'
  <2>1. UNCHANGED intake /\ Fault /\ Release(w) /\ CutOff(w)
    BY <1>1 DEF RunFails, Crash, Error
  <2>2. flying' \subseteq Msg
    <3>1. CASE pc[w] = "append"
      BY <2>1, <3>1, HereIsLeft DEF CutOff, LInv, Known, AtMessage, TInv, RunOK
    <3>2. CASE pc[w] # "append"
      BY <2>1, <3>2 DEF CutOff, TInv, RunOK
    <3>. QED
      BY <3>1, <3>2
  <2>. QED
    BY <2>1, <2>2, ReleaseTyped, TypedFrame DEF TInv
<1>2. ASSUME NEW w \in Worker, NEW r \in Rev, Fetch(w, r) PROVE TInv'
  BY <1>2, TypedFrame DEF Fetch, copies, TInv
<1>3. ASSUME NEW r \in Rev, Rescue(r) PROVE TInv'
  BY <1>3, TypedFrame DEF Rescue, copies, run, TInv
<1>4. ASSUME NEW m \in Msg, Arrives(m) PROVE TInv'
  <2>1. UNCHANGED <<intake, lock, scan, todo, faults>> /\ flying' = flying \ {m}
    BY <1>4 DEF Arrives, run
  <2>. QED
    BY <2>1, TypedFrame DEF TInv, RunOK
<1>5. CASE UNCHANGED ivars
  BY <1>5, TypedFrame DEF ivars, copies, run, TInv
<1>. QED
  BY <1>1, <1>2, <1>3, <1>4, <1>5, OperatorTyped, RunTyped DEF INext

\* The import, its ledger, its jobs and its runs keep their types and limits for
\* any messages, folders, workers, revisions and faults (Run, Store and River's
\* queue as the engine uses it).
THEOREM ImportIsTyped == ISpec => []ITypeOK
<1>1. LInv /\ JInv /\ TInv => ITypeOK
  <2>. SUFFICES ASSUME LInv, JInv, TInv PROVE ITypeOK
    OBVIOUS
  <2>1. imp \in [state : ImportState, rev : Rev, prepared : BOOLEAN]
    BY DEF LInv, LType, JInv, JType
  <2>2. source \subseteq Msg
    BY SMT, ImportAssumption DEF TInv, IntakeOK, Msg
  <2>3. flying \subseteq Msg
    BY DEF TInv, RunOK
  <2>. QED
    BY <2>1, <2>2, <2>3 DEF LInv, LType, RecState, JInv, JType, Job, JobState, TInv, IntakeOK, RunOK, ITypeOK
<1>2. LInv /\ JInv /\ [INext]_ivars => JInv'
  BY StepJobs
<1>. QED
  BY InitIsLedgered, StepKeeps, InitHasNoJobs, InitIsTyped, StepTyped, <1>1, <1>2, PTL DEF ISpec
=============================================================================
