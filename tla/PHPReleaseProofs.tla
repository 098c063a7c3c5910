-------------------------- MODULE PHPReleaseProofs --------------------------
(* For every retention and any number of requests, attempts and faults:    *)
(* the release that is served and the one the marker names are on disk,    *)
(* the active deployment is the only healthy one, only the newest intent   *)
(* replaces it, and rows, jobs, calls and markers keep their types.        *)
(*                                                                         *)
(* ServedIsInstalled alone is not inductive: a failed deployment deletes its   *)
(* directory, and a prune deletes what it does not protect.  HInv follows  *)
(* the holder of the agent's mutex: until the marker is written, the       *)
(* release to fall back to and the marker's release are other directories  *)
(* than the new one, and from then on both are the new one.                *)
EXTENDS PHPRelease, TLAPS, FiniteSetTheorems

Shape(a) == a = [pc |-> a.pc, req |-> a.req, lost |-> a.lost, was |-> a.was]

Elsewhere == (releases \ {agent.req.id}) \cup {0}

HInv ==
    /\ ServedIsInstalled
    /\ Shape(agent)
    /\ agent.was \in releases \cup {0}
    /\ agent.pc \in {"activate", "marker", "undo", "workers", "prune"} => agent.req.id \in releases
    /\ agent.pc \in {"activate", "marker", "undo"} /\ agent.req.kind = "deploy"
          => agent.was \in Elsewhere /\ marker.active \in Elsewhere
    /\ agent.pc \in {"build", "activate"} => live = agent.was
    /\ agent.pc = "marker" => live = agent.req.id
    /\ agent.pc \in {"workers", "prune"} => live = agent.req.id /\ marker.active = agent.req.id

\* The agent is idle again, on directories that hold what is served and marked.
LEMMA IdleIsWhole ==
    ASSUME agent' = NoCall, ServedIsInstalled'
    PROVE  HInv'
BY DEF HInv, NoCall, NoRequest, Shape

\* What a caller that gives up changes in the agent is of no account.
LEMMA OrphanedIsWhole ==
    ASSUME HInv, agent' = Orphaned, UNCHANGED host
    PROVE  HInv'
<1>1. /\ agent'.pc = agent.pc /\ agent'.req = agent.req /\ agent'.was = agent.was
      /\ Shape(agent')
  BY DEF HInv, Shape, Orphaned
<1>. QED
  BY <1>1 DEF HInv, Elsewhere, ServedIsInstalled, host

\* A step of the agent that only moves on.
LEMMA GotoFacts ==
    ASSUME HInv, NEW pc, Goto(pc)
    PROVE  /\ agent'.pc = pc /\ agent'.req = agent.req /\ agent'.was = agent.was
           /\ Shape(agent')
BY DEF HInv, Shape, Goto

\* The initial states: everything that was deployed is on disk.
LEMMA InitIsWhole == PInit => HInv
<1>. SUFFICES ASSUME PInit PROVE HInv
  OBVIOUS
<1>1. PICK n \in 0..Settled : releases = 1..n /\ marker.active = n /\ live = n
  BY DEF PInit
<1>2. n \in releases \cup {0}
  BY <1>1 DEF Settled
<1>. QED
  BY <1>1, <1>2 DEF PInit, HInv, ServedIsInstalled, NoCall, NoRequest, Shape

\* Requests, jobs and callers that give up leave the host alone.
LEMMA PanelIsWhole ==
    ASSUME HInv, RequestStep \/ Sweep \/ WorkerStep \/ GiveUp \/ PanelCrash \/ UNCHANGED vars
    PROVE  HInv'
<1>1. CASE RequestStep \/ Sweep \/ WorkerStep \/ UNCHANGED vars
  <2>1. UNCHANGED <<agent, host>>
    BY <1>1 DEF RequestStep, Configure, QueueDeployment, QueueRollback, Advance, Sweep, WorkerStep, End, Begin, vars, host
  <2>. QED
    BY <2>1 DEF HInv, Elsewhere, ServedIsInstalled, host, Shape
<1>2. CASE GiveUp \/ PanelCrash
  BY <1>2, OrphanedIsWhole DEF GiveUp, PanelCrash, host
<1>. QED
  BY <1>1, <1>2

\* The call that gets the mutex finds a whole host.
LEMMA ServeIsWhole ==
    ASSUME HInv, NEW c \in calls, Serve(c)
    PROVE  HInv'
<1>1. UNCHANGED host
  BY DEF Serve
<1>2. CASE agent' = NoCall
  BY <1>1, <1>2, IdleIsWhole DEF HInv, ServedIsInstalled, host
<1>3. CASE Enter(c, "build")
  BY <1>1, <1>3 DEF HInv, ServedIsInstalled, host, Enter, Shape
<1>4. CASE Enter(c, "activate") /\ c.req.kind # "deploy" /\ c.req.id \in releases
  BY <1>1, <1>4 DEF HInv, ServedIsInstalled, host, Enter, Shape
<1>. QED
  BY <1>2, <1>3, <1>4 DEF Serve, Observe, Reply

\* A new directory is neither served nor marked when it appears.
LEMMA BuildIsWhole ==
    ASSUME HInv, Build
    PROVE  HInv'
<1>1. CASE agent' = NoCall /\ UNCHANGED releases
  BY <1>1, IdleIsWhole DEF HInv, ServedIsInstalled, Build
<1>2. CASE agent.req.id \notin releases /\ releases' = releases \cup {agent.req.id} /\ Goto("activate")
  <2>1. UNCHANGED <<marker, live>>
    BY DEF Build
  <2>2. live = agent.was
    BY DEF HInv, Build, At
  <2>. QED
    BY <1>2, <2>1, <2>2, GotoFacts DEF HInv, ServedIsInstalled, Elsewhere
<1>. QED
  BY <1>1, <1>2 DEF Build, Answer, AnswerError, Reply

\* The web server is pointed at a release that exists.
LEMMA ActivateIsWhole ==
    ASSUME HInv, Activate
    PROVE  HInv'
<1>1. agent.pc = "activate" /\ agent.req.id \in releases /\ UNCHANGED <<releases, marker>>
  BY DEF HInv, Activate, At
<1>2. CASE live' = agent.req.id /\ Goto("marker")
  BY <1>1, <1>2, GotoFacts DEF HInv, ServedIsInstalled, Elsewhere
<1>3. CASE live' \in {live, agent.req.id} /\ Goto("undo")
  BY <1>1, <1>3, GotoFacts DEF HInv, ServedIsInstalled, Elsewhere
<1>. QED
  BY <1>2, <1>3 DEF Activate

\* The marker names the release that is served.
LEMMA WriteMarkerIsWhole ==
    ASSUME HInv, WriteMarker
    PROVE  HInv'
<1>1. agent.pc = "marker" /\ agent.req.id \in releases /\ live = agent.req.id /\ UNCHANGED <<releases, live>>
  BY DEF HInv, WriteMarker, At
<1>2. CASE marker'.active = agent.req.id /\ Goto("workers")
  BY <1>1, <1>2, GotoFacts DEF HInv, ServedIsInstalled, Elsewhere
<1>3. CASE marker' = marker /\ Goto("undo")
  BY <1>1, <1>3, GotoFacts DEF HInv, ServedIsInstalled, Elsewhere
<1>. QED
  BY <1>2, <1>3 DEF WriteMarker

\* What a failed activation falls back to is another directory than the one it deletes.
LEMMA UndoIsWhole ==
    ASSUME HInv, Undo
    PROVE  HInv'
<1>1. agent.pc = "undo" /\ agent' = NoCall /\ UNCHANGED marker
  BY DEF Undo, At, AnswerError, Answer, Reply
<1>2. agent.was \in releases' \cup {0} /\ marker.active \in releases' \cup {0}
  BY <1>1 DEF HInv, ServedIsInstalled, Elsewhere, Undo, Discard
<1>3. live' \in releases' \cup {0}
  BY <1>2 DEF Undo
<1>. QED
  BY <1>1, <1>2, <1>3, IdleIsWhole DEF ServedIsInstalled

\* Failing workers leave the release where it is.
LEMMA RunWorkersIsWhole ==
    ASSUME HInv, RunWorkers
    PROVE  HInv'
<1>1. agent.pc = "workers" /\ UNCHANGED host
  BY DEF RunWorkers, At
<1>2. CASE agent' = NoCall
  BY <1>1, <1>2, IdleIsWhole DEF HInv, ServedIsInstalled, host
<1>3. CASE Goto("prune")
  BY <1>1, <1>3, GotoFacts DEF HInv, ServedIsInstalled, host
<1>. QED
  BY <1>2, <1>3 DEF RunWorkers, Answer, AnswerError, Reply

\* Pruning protects the release that was just activated.
LEMMA PruneIsWhole ==
    ASSUME HInv, Prune
    PROVE  HInv'
<1>1. /\ agent.pc = "prune" /\ agent' = NoCall /\ UNCHANGED <<marker, live>>
      /\ releases' = releases \/ releases' = Kept({agent.req.id, agent.req.prev})
  BY DEF Prune, At, Answer, AnswerError, Reply
<1>2. live = agent.req.id /\ marker.active = agent.req.id /\ agent.req.id \in releases
  BY <1>1 DEF HInv
<1>3. agent.req.id \in releases' \cup {0}
  BY <1>1, <1>2 DEF Kept
<1>. QED
  BY <1>1, <1>2, <1>3, IdleIsWhole DEF ServedIsInstalled

\* An agent that dies leaves its directories, its marker and the web server as they are.
LEMMA AgentCrashIsWhole ==
    ASSUME HInv, AgentCrash
    PROVE  HInv'
BY IdleIsWhole DEF HInv, ServedIsInstalled, AgentCrash, host

\* Whatever is deployed, given up, cut short or pruned, the agent serves and
\* marks a release that is on disk, or none (DeployPHPRelease,
\* RollbackPHPRelease, ReconcilePHPApplication and pruneReleases).
THEOREM ServedReleaseExists == PSpec => []ServedIsInstalled
<1>1. HInv /\ [PNext]_vars => HInv'
  <2>. SUFFICES ASSUME HInv, [PNext]_vars PROVE HInv'
    OBVIOUS
  <2>1. CASE RequestStep \/ Sweep \/ WorkerStep \/ GiveUp \/ PanelCrash \/ UNCHANGED vars
    BY <2>1, PanelIsWhole
  <2>2. CASE AgentStep
    BY <2>2, ServeIsWhole, BuildIsWhole, ActivateIsWhole, WriteMarkerIsWhole, UndoIsWhole,
       RunWorkersIsWhole, PruneIsWhole DEF AgentStep
  <2>3. CASE AgentCrash
    BY <2>3, AgentCrashIsWhole
  <2>. QED
    BY <2>1, <2>2, <2>3 DEF PNext
<1>2. HInv => ServedIsInstalled
  BY DEF HInv
<1>. QED
  BY InitIsWhole, <1>1, <1>2, PTL DEF PSpec

-----------------------------------------------------------------------------
(* The panel: the active deployment is the only healthy one, and only the  *)
(* newest intent replaces it.                                              *)
(*                                                                         *)
(* A worker decides with what it read before the call.  OInv says why that *)
(* still holds afterwards: an answer reaches a worker only from the call   *)
(* it waits for (Attended), a revision has at most one intent and the      *)
(* worker that claimed it is the only one to settle it (Sound, Claimed).   *)

Deployed == {d \in Id : dep[d].status # "none"}

RowShape(r) == r = [rev |-> r.rev, applied |-> r.applied, active |-> r.active, prev |-> r.prev, conv |-> r.conv]
DepShape(t) == t = [d \in Id |-> [status |-> t[d].status, prev |-> t[d].prev]]
WorkerShape(w) == w = [pc |-> w.pc, job |-> w.job, out |-> w.out, active |-> w.active, prev |-> w.prev]

Shapes ==
    /\ RowShape(row) /\ DepShape(dep) /\ WorkerShape(worker) /\ Shape(agent)
    /\ row.rev \in Nat /\ faults \in Nat

\* Deployments are numbered in order, one for a revision at most.
Numbered == Newest \in Nat /\ Newest < Settled + row.rev /\ Deployed = 1..Newest

\* What a job knows of its intent.
Sound(j) ==
    /\ j = [kind |-> j.kind, dep |-> j.dep, target |-> j.target, rev |-> j.rev, attempt |-> j.attempt]
    /\ j.rev \in Nat /\ j.rev <= row.rev
    /\ j.kind = "reconcile" => j.dep = 0
    /\ j.kind # "reconcile" => j.dep \in Deployed /\ (j.rev = row.rev => j.dep = Newest)
    /\ j.kind = "rollback" => j.target \in Deployed

Claimed ==
    worker.pc # "idle" /\ worker.job.kind # "reconcile" /\ worker.job.rev = row.rev =>
        dep[Newest].status = "preparing"

Asked(r) == r.kind = "deploy" => r.id \in Deployed

\* Who waits for which call.
Attended ==
    /\ \A c \in calls : /\ c = [req |-> c.req, lost |-> c.lost] /\ Asked(c.req)
                        /\ c.lost = 0 => /\ worker.pc = "waiting"
                                         /\ c.req.kind = "reconcile" /\ c.req.id = 0 => row.active = 0
                                         /\ \A e \in calls : e.lost = 0 => e = c
    /\ agent.pc # "idle" => Asked(agent.req)
    /\ agent.pc # "idle" /\ agent.lost = 0 => worker.pc = "waiting" /\ \A c \in calls : c.lost # 0
    /\ agent.pc = "build" => agent.req.kind = "deploy"

Adopting == worker.pc = "answered" /\ worker.out = "adopt" => row.active = 0 /\ worker.active \in Deployed

OInv ==
    /\ OneIsHealthy /\ Shapes /\ Numbered /\ Claimed /\ Attended /\ Adopting
    /\ releases \subseteq Deployed
    /\ Sound(worker.job) /\ \A j \in jobs : Sound(j)

\* What a step that starts no revision does to the records of the panel.
Recorded ==
    /\ RowShape(row') /\ row'.rev = row.rev
    /\ DepShape(dep') /\ \A d \in Id : dep'[d].status = "none" <=> dep[d].status = "none"
    /\ OneIsHealthy'
    /\ \A j \in jobs' : Sound(j)

\* Such a step creates no deployment, so that everyone knows what they knew.
LEMMA RecordedKeeps ==
    ASSUME OInv, Recorded
    PROVE  /\ Deployed' = Deployed /\ Newest' = Newest /\ Numbered'
           /\ \A j : Sound(j) => Sound(j)'
           /\ \A r : Asked(r) => Asked(r)'
<1>1. Deployed' = Deployed
  BY DEF Recorded, Deployed
<1>2. Newest' = Newest
  BY <1>1 DEF Newest, Deployed
<1>3. Numbered'
  BY <1>1, <1>2 DEF OInv, Numbered, Recorded
<1>4. ASSUME NEW j, Sound(j) PROVE Sound(j)'
  BY <1>1, <1>2, <1>4 DEF Sound, Recorded
<1>5. ASSUME NEW r, Asked(r) PROVE Asked(r)'
  BY <1>1, <1>5 DEF Asked
<1>. QED
  BY <1>1, <1>2, <1>3, <1>4, <1>5

\* The records are kept by a step that leaves the other conjuncts.
LEMMA RecordedIsEnough ==
    ASSUME OInv, Recorded, WorkerShape(worker'), Shape(agent'), faults' \in Nat, Claimed', Attended', Adopting',
           releases' \subseteq Deployed, worker'.job \in {worker.job, NoJob} \cup jobs'
    PROVE  OInv'
<1>1. Shapes'
  BY DEF OInv, Shapes, Recorded
<1>2. PICK j : j = worker'.job
  OBVIOUS
<1>3. Sound(NoJob)
  BY DEF Sound, NoJob, OInv, Shapes
<1>4. Sound(j)
  BY <1>2, <1>3 DEF OInv, Recorded
<1>5. Sound(j)'
  BY <1>4, RecordedKeeps
<1>6. \A i \in jobs' : Sound(i)'
  BY RecordedKeeps DEF Recorded
<1>. QED
  BY <1>1, <1>2, <1>5, <1>6, RecordedKeeps DEF OInv, Recorded

\* A step that leaves the rows alone.
LEMMA SameRows ==
    ASSUME OInv, UNCHANGED <<row, dep>>, \A j \in jobs' : Sound(j)
    PROVE  Recorded
BY DEF OInv, Shapes, Recorded, OneIsHealthy

\* What River keeps of a job that failed.
LEMMA RetriedAreSound ==
    ASSUME OInv, NEW j, Sound(j)
    PROVE  /\ \A i \in Retried(j) : Sound(i)
           /\ \A i \in Insert(Retried(j), "reconcile", 0, 0, row.rev) : Sound(i)
<1>1. ASSUME NEW i, i = [j EXCEPT !.attempt = @ + 1] PROVE Sound(i)
  <2>1. i = [kind |-> j.kind, dep |-> j.dep, target |-> j.target, rev |-> j.rev, attempt |-> j.attempt + 1]
    BY <1>1 DEF Sound
  <2>. QED
    BY <2>1 DEF Sound
<1>2. \A i \in Retried(j) : Sound(i)
  BY <1>1 DEF Retried, OInv
<1>3. ASSUME NEW i, i = [kind |-> "reconcile", dep |-> 0, target |-> 0, rev |-> row.rev, attempt |-> 1] PROVE Sound(i)
  BY <1>3 DEF Sound, OInv, Shapes
<1>. QED
  BY <1>2, <1>3 DEF Insert

\* A row of a deployment with another status.
LEMMA StatusSet ==
    ASSUME NEW r, r = [status |-> r.status, prev |-> r.prev], NEW t, NEW n, n = [r EXCEPT !.status = t]
    PROVE  n.status = t /\ n = [status |-> n.status, prev |-> n.prev]
OBVIOUS

\* A table whose entries are rows.
LEMMA TableOfRows ==
    ASSUME NEW t, t = [d \in Id |-> t[d]], \A d \in Id : t[d] = [status |-> t[d].status, prev |-> t[d].prev]
    PROVE  DepShape(t)
BY Zenon DEF DepShape

\* A verdict on the intent of a job, which is an intent that exists.
LEMMA FailedIsRecorded ==
    ASSUME OInv, NEW j, Sound(j), NEW terminal \in BOOLEAN, Failed(j, terminal)
    PROVE  Recorded /\ row'.active = row.active
<1>1. \A i \in jobs' : Sound(i)
  BY RetriedAreSound DEF Failed, OInv
<1>2. CASE j.rev # row.rev
  BY <1>1, <1>2, SameRows DEF Failed
<1>3. CASE j.rev = row.rev
  <2>1. PICK verdict \in {"failed", "pending"} :
          /\ dep' = [d \in Id |-> [dep[d] EXCEPT !.status = IF d = j.dep /\ @ # "healthy" THEN verdict ELSE @]]
          /\ row' = [row EXCEPT !.conv = verdict]
    BY <1>3 DEF Failed
  <2>2. RowShape(row') /\ row'.rev = row.rev /\ row'.active = row.active
    BY <2>1 DEF OInv, Shapes, RowShape
  <2>3. ASSUME NEW d \in Id
        PROVE  /\ dep'[d] = [status |-> dep'[d].status, prev |-> dep'[d].prev]
               /\ dep'[d].status = IF d = j.dep /\ dep[d].status # "healthy" THEN verdict ELSE dep[d].status
    <3>1. PICK r : r = dep[d]
      OBVIOUS
    <3>2. r = [status |-> r.status, prev |-> r.prev]
      BY <3>1 DEF OInv, Shapes, DepShape
    <3>3. PICK t : t = IF d = j.dep /\ r.status # "healthy" THEN verdict ELSE r.status
      OBVIOUS
    <3>4. PICK n : n = dep'[d]
      OBVIOUS
    <3>5. n = [r EXCEPT !.status = t]
      BY <2>1, <3>1, <3>3, <3>4, Zenon
    <3>. QED
      BY <3>1, <3>2, <3>3, <3>4, <3>5, StatusSet, Zenon
  <2>4. DepShape(dep')
    BY <2>1, <2>3, TableOfRows, Zenon
  <2>5. ASSUME NEW d \in Id
        PROVE  (dep'[d].status = "none" <=> dep[d].status = "none") /\ (dep'[d].status = "healthy" <=> dep[d].status = "healthy")
    <3>1. d = j.dep => d \in Deployed
      BY ConstantsAssumption DEF Sound, Id
    <3>. QED
      BY <2>3, <3>1, Zenon DEF Deployed
  <2>6. OneIsHealthy'
    BY <2>2, <2>5 DEF OInv, OneIsHealthy
  <2>. QED
    BY <1>1, <2>2, <2>4, <2>5, <2>6 DEF Recorded
<1>. QED
  BY <1>2, <1>3

\* Marking open intents with another status than healthy.
LEMMA MarkIsRecorded ==
    ASSUME OInv, NEW j, NEW status \in {"failed", "preparing"}, dep' = Mark(Claimable(j), status), row' = row,
           \A i \in jobs' : Sound(i)
    PROVE  Recorded /\ \A d \in Claimable(j) : dep'[d].status = status
<1>1. ASSUME NEW d \in Id
      PROVE  /\ dep'[d] = [status |-> dep'[d].status, prev |-> dep'[d].prev]
             /\ dep'[d].status = IF d \in Claimable(j) THEN status ELSE dep[d].status
  <2>1. PICK r : r = dep[d]
    OBVIOUS
  <2>2. r = [status |-> r.status, prev |-> r.prev]
    BY <2>1 DEF OInv, Shapes, DepShape
  <2>3. PICK n : n = dep'[d]
    OBVIOUS
  <2>4. n = IF d \in Claimable(j) THEN [r EXCEPT !.status = status] ELSE r
    BY <2>1, <2>3, Zenon DEF Mark
  <2>5. CASE d \in Claimable(j)
    <3>1. n.status = status /\ n = [status |-> n.status, prev |-> n.prev]
      BY <2>2, <2>4, <2>5, StatusSet, Zenon
    <3>. QED
      BY <2>3, <2>5, <3>1, Zenon
  <2>6. CASE d \notin Claimable(j)
    BY <2>1, <2>2, <2>3, <2>4, <2>6, Zenon
  <2>. QED
    BY <2>5, <2>6
<1>2. DepShape(dep')
  BY <1>1, TableOfRows, Zenon DEF Mark
<1>3. \A d \in Claimable(j) : dep[d].status \in OpenStatus
  BY DEF Claimable
<1>4. ASSUME NEW d \in Id
      PROVE  (dep'[d].status = "none" <=> dep[d].status = "none") /\ (dep'[d].status = "healthy" <=> dep[d].status = "healthy")
  BY <1>1, <1>3, Zenon DEF OpenStatus
<1>5. OneIsHealthy'
  BY <1>4 DEF OInv, OneIsHealthy
<1>6. Recorded
  BY <1>2, <1>4, <1>5 DEF OInv, Shapes, Recorded
<1>. QED
  BY <1>1, <1>6, Zenon DEF Claimable

\* Calls for which nobody waits.
Unattended(cs, a) ==
    /\ \A c \in cs : c = [req |-> c.req, lost |-> c.lost] /\ Asked(c.req) /\ c.lost # 0
    /\ Shape(a) /\ a.pc = agent.pc /\ a.req = agent.req /\ (a.pc # "idle" => a.lost # 0)

\* Nobody waits unless the worker does.
LEMMA NobodyWaits ==
    ASSUME OInv, worker.pc # "waiting"
    PROVE  Unattended(calls, agent)
BY Zenon DEF OInv, Attended, Unattended, Shapes

\* A caller that gives up or dies leaves its call unattended.
LEMMA CallerLeaves ==
    ASSUME OInv, Fault
    PROVE  /\ faults' \in Nat
           /\ Unattended(Abandoned, Orphaned)
           /\ Unattended({c \in calls : c.lost # 0}, Orphaned)
<1>1. faults' \in Nat /\ faults' # 0
  BY DEF Fault, OInv, Shapes
<1>2. ASSUME NEW c \in calls, NEW e, e = [c EXCEPT !.lost = IF @ = 0 THEN faults' ELSE @]
      PROVE  e = [req |-> e.req, lost |-> e.lost] /\ Asked(e.req) /\ e.lost # 0
  <2>1. c = [req |-> c.req, lost |-> c.lost] /\ Asked(c.req)
    BY DEF OInv, Attended
  <2>2. e = [req |-> c.req, lost |-> IF c.lost = 0 THEN faults' ELSE c.lost]
    BY <1>2, <2>1
  <2>3. e.req = c.req /\ e.lost = IF c.lost = 0 THEN faults' ELSE c.lost
    BY <2>2
  <2>. QED
    BY <1>1, <2>1, <2>2, <2>3, Zenon
<1>3. PICK a : a = Orphaned
  OBVIOUS
<1>4. Shape(a) /\ a.pc = agent.pc /\ a.req = agent.req /\ (a.pc # "idle" => a.lost # 0)
  BY <1>1, <1>3 DEF Orphaned, OInv, Shapes, Shape
<1>5. \A e \in Abandoned : e = [req |-> e.req, lost |-> e.lost] /\ Asked(e.req) /\ e.lost # 0
  BY <1>2, Zenon DEF Abandoned
<1>6. \A c \in calls : c = [req |-> c.req, lost |-> c.lost] /\ Asked(c.req)
  BY DEF OInv, Attended
<1>. QED
  BY <1>1, <1>3, <1>4, <1>5, <1>6, Zenon DEF Unattended

\* Unattended calls are no concern of the workers.
LEMMA UnattendedKeeps ==
    ASSUME OInv, Recorded, Unattended(calls', agent')
    PROVE  Attended'
<1>1. \A c \in calls' : c = [req |-> c.req, lost |-> c.lost] /\ Asked(c.req)' /\ c.lost # 0
  BY RecordedKeeps, Zenon DEF Unattended
<1>2. agent.pc # "idle" => Asked(agent.req)'
  <2>1. PICK r : r = agent.req
    OBVIOUS
  <2>2. agent.pc # "idle" => Asked(r)
    BY <2>1 DEF OInv, Attended
  <2>3. agent.pc # "idle" => Asked(r)'
    BY <2>2, RecordedKeeps, Zenon
  <2>4. r = agent'.req
    BY <2>1 DEF Unattended
  <2>. QED
    BY <2>3, <2>4 DEF Asked, Unattended
<1>3. agent.pc = "build" => agent.req.kind = "deploy"
  BY DEF OInv, Attended
<1>. QED
  BY <1>1, <1>2, <1>3, Zenon DEF Attended, Unattended, Asked

\* A job that ends before it calls the agent.
LEMMA BeginEndsKeeps ==
    ASSUME OInv, worker.pc = "idle", Recorded, UNCHANGED <<worker, calls, agent, host>>, faults' \in Nat
    PROVE  OInv'
<1>1. Attended'
  BY NobodyWaits, UnattendedKeeps
<1>2. Claimed' /\ Adopting'
  BY DEF Claimed, Adopting
<1>. QED
  BY <1>1, <1>2, RecordedIsEnough DEF OInv, Shapes, host

\* The call of a worker is the only one that somebody waits for.
LEMMA BeginCallKeeps ==
    ASSUME OInv, worker.pc = "idle", NEW j \in jobs, BeginCall(j), UNCHANGED <<agent, host>>
    PROVE  OInv'
<1>1. /\ j.rev = row.rev /\ Sound(j)
      /\ dep' = Mark(Claimable(j), "preparing") /\ UNCHANGED <<row, jobs, faults>>
      /\ j.kind # "reconcile" => Claimable(j) # {}
  BY DEF BeginCall, OInv
<1>2. Recorded /\ \A d \in Claimable(j) : dep'[d].status = "preparing"
  BY <1>1, MarkIsRecorded DEF OInv
<1>3. worker' = [pc |-> "waiting", job |-> j, out |-> "ok", active |-> 0, prev |-> 0]
  BY Zenon DEF BeginCall, NoWorker
<1>4. PICK r : r = RequestOf(j)
  OBVIOUS
<1>5. PICK e : e = [req |-> r, lost |-> 0]
  BY Zenon
<1>6. calls' = calls \cup {e} /\ e.req = r /\ e.lost = 0
  BY <1>4, <1>5 DEF BeginCall
<1>7. Asked(r) /\ (r.kind = "reconcile" /\ r.id = 0 => row.active = 0)
  <2>1. r.kind = j.kind /\ (j.kind = "deploy" => r.id = j.dep) /\ (j.kind = "reconcile" => r.id = row.active)
    BY <1>4 DEF RequestOf
  <2>. QED
    BY <1>1, <2>1 DEF Asked, Sound
<1>8. Unattended(calls, agent) /\ \A q : Asked(q) => Asked(q)'
  BY <1>2, NobodyWaits, RecordedKeeps
<1>9. Attended'
  <2>1. agent.pc # "idle" => Asked(agent.req)'
    <3>1. PICK q : q = agent.req
      OBVIOUS
    <3>2. agent.pc # "idle" => Asked(q)'
      BY <1>8, <3>1, Zenon DEF OInv, Attended
    <3>. QED
      BY <3>1, <3>2 DEF Asked
  <2>2. \A c \in calls' : c = [req |-> c.req, lost |-> c.lost] /\ Asked(c.req)' /\ (c.lost = 0 => c = e)
    BY <1>5, <1>6, <1>7, <1>8, Zenon DEF Unattended
  <2>3. worker'.pc = "waiting"
    BY <1>3
  <2>4. (agent.pc # "idle" => agent.lost # 0) /\ (agent.pc = "build" => agent.req.kind = "deploy")
    BY <1>8 DEF Unattended, OInv, Attended
  <2>. QED
    BY <1>1, <1>6, <1>7, <2>1, <2>2, <2>3, <2>4, Zenon DEF Attended
<1>10. Claimed'
  <2>1. j.kind # "reconcile" => dep'[Newest].status = "preparing"
    BY <1>1, <1>2, Zenon DEF Sound, Claimable
  <2>2. Newest' = Newest /\ worker'.job = j
    BY <1>2, <1>3, RecordedKeeps
  <2>. QED
    BY <2>1, <2>2, Zenon DEF Claimed
<1>11. Adopting' /\ WorkerShape(worker') /\ worker'.job \in jobs'
  BY <1>1, <1>3 DEF Adopting, WorkerShape
<1>. QED
  BY <1>1, <1>2, <1>9, <1>10, <1>11, RecordedIsEnough DEF OInv, Shapes, host

\* A worker takes up a job.
LEMMA BeginKeeps ==
    ASSUME OInv, NEW j \in jobs, Begin(j)
    PROVE  OInv'
<1>1. worker.pc = "idle" /\ Sound(j) /\ UNCHANGED <<agent, host>> /\ \A i \in jobs \ {j} : Sound(i)
  BY DEF Begin, OInv
<1>2. CASE BeginStale(j)
  <2>1. Recorded
    BY <1>1, <1>2, MarkIsRecorded DEF BeginStale
  <2>. QED
    BY <1>1, <1>2, <2>1, BeginEndsKeeps DEF BeginStale, OInv, Shapes
<1>3. CASE BeginSettled(j)
  <2>1. UNCHANGED <<worker, calls, faults>>
    BY <1>3 DEF BeginSettled
  <2>2. CASE Failed(j, FALSE)
    BY <1>1, <2>1, <2>2, FailedIsRecorded, BeginEndsKeeps, Zenon DEF OInv, Shapes
  <2>3. CASE jobs' = jobs \ {j} /\ UNCHANGED <<row, dep>>
    BY <1>1, <2>1, <2>3, SameRows, BeginEndsKeeps DEF OInv, Shapes
  <2>. QED
    BY <1>3, <2>2, <2>3, Zenon DEF BeginSettled
<1>4. CASE BeginCall(j)
  BY <1>1, <1>4, BeginCallKeeps
<1>5. CASE BeginFails(j)
  <2>1. Recorded /\ UNCHANGED <<worker, calls>>
    BY <1>1, <1>5, FailedIsRecorded DEF BeginFails
  <2>2. faults' \in Nat
    BY <1>5, CallerLeaves DEF BeginFails
  <2>. QED
    BY <1>1, <2>1, <2>2, BeginEndsKeeps
<1>. QED
  BY <1>2, <1>3, <1>4, <1>5 DEF Begin

\* The release that takes over is healthy, and the one before it is retired.
LEMMA TakeOverIsRecorded ==
    ASSUME OInv, NEW d \in Deployed, NEW others \in SUBSET Deployed, TakeOver(d, others), \A i \in jobs' : Sound(i)
    PROVE  Recorded
<1>1. /\ RowShape(row') /\ row'.rev = row.rev /\ row'.active = d
  BY Zenon DEF TakeOver, OInv, Shapes, RowShape
<1>2. ASSUME NEW e \in Id
      PROVE  /\ dep'[e] = [status |-> dep'[e].status, prev |-> dep'[e].prev]
             /\ dep'[e].status = IF e = d THEN "healthy"
                                 ELSE IF e \in others THEN "rolled_back"
                                 ELSE IF e = row.active /\ dep[e].status = "healthy" THEN "retired" ELSE dep[e].status
  <2>1. PICK r : r = dep[e]
    OBVIOUS
  <2>2. r = [status |-> r.status, prev |-> r.prev]
    BY <2>1 DEF OInv, Shapes, DepShape
  <2>3. PICK t : t = IF e = d THEN "healthy"
                     ELSE IF e \in others THEN "rolled_back"
                     ELSE IF e = row.active /\ r.status = "healthy" THEN "retired" ELSE r.status
    OBVIOUS
  <2>4. PICK n : n = dep'[e]
    OBVIOUS
  <2>5. n = [r EXCEPT !.status = t]
    BY <2>1, <2>3, <2>4, Zenon DEF TakeOver
  <2>6. n.status = t /\ n = [status |-> n.status, prev |-> n.prev]
    BY <2>2, <2>5, StatusSet, Zenon
  <2>. QED
    BY <2>1, <2>3, <2>4, <2>6, Zenon
<1>3. DepShape(dep')
  BY <1>2, TableOfRows, Zenon DEF TakeOver
<1>4. \A e \in Id : dep'[e].status = "none" <=> dep[e].status = "none"
  BY <1>2, Zenon DEF Deployed
<1>5. d \in Id /\ d # 0
  BY ConstantsAssumption DEF Deployed, Id
<1>6. \A e \in Id : dep[e].status = "healthy" => e = row.active
  BY Zenon DEF OInv, OneIsHealthy
<1>7. \A e \in Id : dep'[e].status = "healthy" <=> e = d
  BY <1>2, <1>6, Zenon
<1>8. OneIsHealthy'
  BY <1>1, <1>5, <1>7, Zenon DEF OneIsHealthy
<1>. QED
  BY <1>1, <1>3, <1>4, <1>8, Zenon DEF Recorded

\* The release of the marker is adopted when the row has none.
LEMMA AdoptionIsRecorded ==
    ASSUME OInv, NEW d \in Deployed, row.active = 0, dep' = Mark({d}, "healthy"),
           RowShape(row'), row'.rev = row.rev, row'.active = d, \A i \in jobs' : Sound(i)
    PROVE  Recorded
<1>1. ASSUME NEW e \in Id
      PROVE  /\ dep'[e] = [status |-> dep'[e].status, prev |-> dep'[e].prev]
             /\ dep'[e].status = IF e = d THEN "healthy" ELSE dep[e].status
  <2>1. PICK r : r = dep[e]
    OBVIOUS
  <2>2. r = [status |-> r.status, prev |-> r.prev]
    BY <2>1 DEF OInv, Shapes, DepShape
  <2>3. PICK n : n = dep'[e]
    OBVIOUS
  <2>4. n = IF e = d THEN [r EXCEPT !.status = "healthy"] ELSE r
    BY <2>1, <2>3, Zenon DEF Mark
  <2>5. CASE e = d
    <3>1. n.status = "healthy" /\ n = [status |-> n.status, prev |-> n.prev]
      BY <2>2, <2>4, <2>5, StatusSet, Zenon
    <3>. QED
      BY <2>3, <2>5, <3>1, Zenon
  <2>6. CASE e # d
    BY <2>1, <2>2, <2>3, <2>4, <2>6, Zenon
  <2>. QED
    BY <2>5, <2>6
<1>2. DepShape(dep')
  BY <1>1, TableOfRows, Zenon DEF Mark
<1>3. \A e \in Id : dep'[e].status = "none" <=> dep[e].status = "none"
  BY <1>1, Zenon DEF Deployed
<1>4. d \in Id /\ d # 0
  BY ConstantsAssumption DEF Deployed, Id
<1>5. \A e \in Id : dep[e].status # "healthy"
  BY Zenon DEF OInv, OneIsHealthy
<1>6. \A e \in Id : dep'[e].status = "healthy" <=> e = d
  BY <1>1, <1>5, Zenon
<1>7. OneIsHealthy'
  BY <1>4, <1>6, Zenon DEF OneIsHealthy
<1>. QED
  BY <1>2, <1>3, <1>7, Zenon DEF Recorded

\* What the last transaction of a job records.
LEMMA CompleteIsRecorded ==
    ASSUME OInv, NEW j, j = worker.job, worker.pc = "answered", Complete(j)
    PROVE  Recorded /\ faults' \in Nat
<1>1. Sound(j) /\ \A i \in jobs \ {j} : Sound(i)
  BY DEF OInv
<1>2. Done(j) => faults' \in Nat /\ \A i \in jobs' : Sound(i)
  BY <1>1, RetriedAreSound, CallerLeaves DEF Done, NoFault, OInv, Shapes
<1>3. Conflict(j) /\ NoFault => Recorded /\ faults' \in Nat
  <2>. SUFFICES ASSUME Conflict(j), NoFault PROVE Recorded /\ faults' \in Nat
    OBVIOUS
  <2>1. \A i \in jobs' : Sound(i)
    BY <1>1, RetriedAreSound DEF Conflict
  <2>2. Recorded
    BY <2>1, MarkIsRecorded DEF Conflict
  <2>. QED
    BY <2>2 DEF NoFault, OInv, Shapes
<1>4. CASE j.kind = "deploy"
  <2>1. j.dep \in Deployed
    BY <1>1, <1>4 DEF Sound
  <2>. QED
    BY <1>2, <1>3, <1>4, <2>1, TakeOverIsRecorded DEF Complete, CompleteDeployment
<1>5. CASE j.kind = "rollback"
  <2>1. j.target \in Deployed /\ {j.dep} \in SUBSET Deployed
    BY <1>1, <1>5 DEF Sound
  <2>. QED
    BY <1>2, <1>3, <1>5, <2>1, TakeOverIsRecorded DEF Complete, CompleteRollback
<1>6. CASE j.kind \notin {"deploy", "rollback"}
  <2>1. CompleteReconcile(j) /\ Done(j)
    BY <1>6, Zenon DEF Complete, CompleteReconcile
  <2>2. CASE UNCHANGED <<row, dep>>
    BY <1>2, <2>1, <2>2, SameRows
  <2>3. CASE worker.out = "adopt" /\ dep' = Mark({worker.active}, "healthy")
             /\ row' = [row EXCEPT !.active = worker.active, !.prev = worker.prev, !.conv = "pending"]
    <3>1. RowShape(row') /\ row'.rev = row.rev /\ row'.active = worker.active
      BY <2>3, Zenon DEF OInv, Shapes, RowShape
    <3>2. row.active = 0 /\ worker.active \in Deployed
      BY <2>3 DEF OInv, Adopting
    <3>. QED
      BY <1>2, <2>1, <2>3, <3>1, <3>2, AdoptionIsRecorded
  <2>4. CASE /\ dep' = dep
             /\ \/ row' = [row EXCEPT !.conv = "pending"]
                \/ row' = [row EXCEPT !.applied = row.rev, !.conv = "in_sync"]
    <3>1. RowShape(row') /\ row'.rev = row.rev /\ row'.active = row.active
      BY <2>4, Zenon DEF OInv, Shapes, RowShape
    <3>. QED
      BY <1>2, <2>1, <2>4, <3>1 DEF Recorded, OneIsHealthy, OInv, Shapes
  <2>. QED
    BY <2>1, <2>2, <2>3, <2>4, Zenon DEF CompleteReconcile
<1>. QED
  BY <1>4, <1>5, <1>6

\* A worker that is done waits for nothing.
LEMMA IdleKeeps ==
    ASSUME OInv, Recorded, worker' = NoWorker, Unattended(calls', agent'), UNCHANGED host, faults' \in Nat
    PROVE  OInv'
<1>1. worker'.pc = "idle" /\ worker'.job = NoJob /\ WorkerShape(worker')
  BY DEF NoWorker, WorkerShape
<1>2. Claimed' /\ Adopting'
  BY <1>1 DEF Claimed, Adopting
<1>3. Attended'
  BY UnattendedKeeps
<1>4. Shape(agent') /\ releases' \subseteq Deployed
  BY DEF Unattended, OInv, host
<1>. QED
  BY <1>1, <1>2, <1>3, <1>4, RecordedIsEnough

\* A worker has its answer.
LEMMA EndKeeps ==
    ASSUME OInv, End
    PROVE  OInv'
<1>1. worker.pc = "answered" /\ worker' = NoWorker /\ UNCHANGED <<calls, agent, host>>
  BY DEF End
<1>2. PICK j : j = worker.job
  OBVIOUS
<1>3. Sound(j)
  BY <1>2 DEF OInv
<1>4. Recorded /\ faults' \in Nat
  <2>1. CASE jobs' = Retried(j) /\ UNCHANGED <<row, dep>> /\ NoFault
    BY <1>3, <2>1, RetriedAreSound, SameRows DEF NoFault, OInv, Shapes
  <2>2. CASE (\E terminal \in BOOLEAN : Failed(j, terminal)) /\ NoFault
    BY <1>3, <2>2, FailedIsRecorded DEF NoFault, OInv, Shapes
  <2>3. CASE Complete(j)
    BY <1>1, <1>2, <2>3, CompleteIsRecorded
  <2>. QED
    BY <1>2, <2>1, <2>2, <2>3, Zenon DEF End
<1>5. Unattended(calls', agent')
  BY <1>1, NobodyWaits
<1>. QED
  BY <1>1, <1>4, <1>5, IdleKeeps

\* The panel dies.
LEMMA PanelCrashKeeps ==
    ASSUME OInv, PanelCrash
    PROVE  OInv'
<1>1. Fault /\ UNCHANGED <<row, dep, host>> /\ worker' = NoWorker /\ calls' = Abandoned /\ agent' = Orphaned
  BY DEF PanelCrash
<1>2. PICK j : j = worker.job
  OBVIOUS
<1>3. Recorded
  BY <1>1, <1>2, RetriedAreSound, SameRows DEF PanelCrash, OInv
<1>4. faults' \in Nat /\ Unattended(calls', agent')
  BY <1>1, CallerLeaves
<1>. QED
  BY <1>1, <1>3, <1>4, IdleKeeps

\* A step that leaves the records of the panel and the job of the worker alone.
LEMMA HostStepKeeps ==
    ASSUME OInv, UNCHANGED intents, WorkerShape(worker'), worker'.job = worker.job,
           worker.pc = "idle" => worker'.pc = "idle", Shape(agent'), faults' \in Nat,
           Attended', Adopting', releases' \subseteq Deployed
    PROVE  OInv'
<1>1. Recorded
  BY SameRows DEF intents, OInv
<1>2. Claimed'
  BY <1>1, RecordedKeeps DEF OInv, Claimed, intents
<1>. QED
  BY <1>1, <1>2, RecordedIsEnough

\* A worker gives up on its call.
LEMMA GiveUpKeeps ==
    ASSUME OInv, GiveUp
    PROVE  OInv'
<1>1. Fault /\ UNCHANGED <<intents, host>> /\ worker.pc = "waiting"
  BY DEF GiveUp
<1>2. PICK o \in {"error", "expired"} : worker' = [worker EXCEPT !.pc = "answered", !.out = o]
  BY DEF GiveUp
<1>3. WorkerShape(worker') /\ worker'.job = worker.job /\ worker'.pc = "answered" /\ worker'.out = o
  BY <1>2, Zenon DEF OInv, Shapes, WorkerShape
<1>4. faults' \in Nat /\ Unattended(calls', agent')
  BY <1>1, CallerLeaves DEF GiveUp
<1>5. Recorded
  BY <1>1, SameRows DEF intents, OInv
<1>6. Attended' /\ Shape(agent')
  BY <1>4, <1>5, UnattendedKeeps DEF Unattended
<1>7. Adopting' /\ releases' \subseteq Deployed
  BY <1>1, <1>3 DEF Adopting, OInv, host
<1>. QED
  BY <1>1, <1>3, <1>4, <1>6, <1>7, HostStepKeeps

\* The agent dies, and with it every call.
LEMMA AgentCrashKeeps ==
    ASSUME OInv, AgentCrash
    PROVE  OInv'
<1>1. Fault /\ UNCHANGED <<intents, host>> /\ calls' = {} /\ agent' = NoCall
  BY DEF AgentCrash
<1>2. faults' \in Nat
  BY <1>1, CallerLeaves
<1>3. /\ WorkerShape(worker') /\ worker'.job = worker.job
      /\ worker' = worker \/ (worker.pc = "waiting" /\ worker'.out = "error")
  BY Zenon DEF AgentCrash, OInv, Shapes, WorkerShape
<1>4. Adopting' /\ releases' \subseteq Deployed
  BY <1>1, <1>3 DEF Adopting, OInv, host, intents, Deployed
<1>5. agent'.pc = "idle" /\ Shape(agent') /\ Attended'
  BY <1>1 DEF NoCall, Shape, Attended
<1>6. worker.pc = "idle" => worker'.pc = "idle"
  BY <1>3
<1>. QED
  BY <1>1, <1>2, <1>3, <1>4, <1>5, <1>6, HostStepKeeps

\* The calls that wait when another one is at hand or has just been answered.
LEMMA OthersWait ==
    ASSUME OInv, NEW cs \in SUBSET calls, UNCHANGED intents, calls' = cs,
           worker' = worker \/ \A c \in cs : c.lost # 0,
           agent'.pc # "idle" => /\ Asked(agent'.req)
                                 /\ agent'.lost = 0 => worker'.pc = "waiting" /\ \A c \in cs : c.lost # 0
                                 /\ agent'.pc = "build" => agent'.req.kind = "deploy"
    PROVE  Attended'
<1>1. Recorded
  BY SameRows DEF intents, OInv
<1>2. \A r : Asked(r) => Asked(r)'
  BY <1>1, RecordedKeeps
<1>3. agent'.pc # "idle" => Asked(agent.req)'
  <2>1. PICK r : r = agent'.req
    OBVIOUS
  <2>2. agent'.pc # "idle" => Asked(r)'
    BY <1>2, <2>1
  <2>. QED
    BY <2>1, <2>2 DEF Asked
<1>4. \A c \in cs : c = [req |-> c.req, lost |-> c.lost] /\ Asked(c.req)'
  BY <1>2, Zenon DEF OInv, Attended
<1>5. \A c \in cs : c.lost = 0 => /\ worker'.pc = "waiting"
                                  /\ c.req.kind = "reconcile" /\ c.req.id = 0 => row'.active = 0
                                  /\ \A e \in cs : e.lost = 0 => e = c
  BY Zenon DEF OInv, Attended, intents
<1>. QED
  BY <1>3, <1>4, <1>5, Zenon DEF Attended

\* The agent answers, and only a worker that waits for this call hears it.
LEMMA ReplyKeeps ==
    ASSUME OInv, NEW lost, NEW out, NEW active, NEW prev, Reply(lost, out, active, prev),
           NEW cs \in SUBSET calls, calls' = cs, UNCHANGED intents, faults' \in Nat, releases' \subseteq Deployed,
           lost = 0 => worker.pc = "waiting" /\ \A c \in cs : c.lost # 0,
           lost = 0 /\ out = "adopt" => row.active = 0 /\ active \in Deployed
    PROVE  OInv'
<1>1. agent' = NoCall /\ agent'.pc = "idle" /\ Shape(agent')
  BY DEF Reply, NoCall, Shape
<1>2. CASE lost = 0
  <2>1. worker' = [worker EXCEPT !.pc = "answered", !.out = out, !.active = active, !.prev = prev]
    BY <1>2 DEF Reply
  <2>2. /\ WorkerShape(worker') /\ worker'.job = worker.job
        /\ worker'.out = out /\ worker'.active = active
    BY <2>1, Zenon DEF OInv, Shapes, WorkerShape
  <2>3. Attended'
    BY <1>1, <1>2, OthersWait
  <2>4. Adopting'
    BY <1>2, <2>2, Zenon DEF Adopting, intents, Deployed
  <2>. QED
    BY <1>1, <1>2, <2>2, <2>3, <2>4, HostStepKeeps
<1>3. CASE lost # 0
  <2>1. worker' = worker
    BY <1>3 DEF Reply
  <2>2. Attended'
    BY <1>1, <2>1, OthersWait
  <2>3. Adopting' /\ WorkerShape(worker')
    BY <2>1 DEF OInv, Shapes, Adopting, intents, Deployed
  <2>. QED
    BY <1>1, <2>1, <2>2, <2>3, HostStepKeeps
<1>. QED
  BY <1>2, <1>3

\* The agent takes up a call, or goes on with one.
LEMMA GoOnKeeps ==
    ASSUME OInv, UNCHANGED <<worker, intents>>, Shape(agent'), NEW cs \in SUBSET calls, calls' = cs,
           Asked(agent'.req), agent'.lost = 0 => worker.pc = "waiting" /\ \A c \in cs : c.lost # 0,
           agent'.pc = "build" => agent'.req.kind = "deploy", faults' \in Nat, releases' \subseteq Deployed
    PROVE  OInv'
<1>1. Attended'
  BY OthersWait
<1>2. Adopting' /\ WorkerShape(worker')
  BY DEF OInv, Shapes, Adopting, intents, Deployed
<1>. QED
  BY <1>1, <1>2, HostStepKeeps

\* The call that gets the mutex.
LEMMA ServeKeeps ==
    ASSUME OInv, NEW c \in calls, Serve(c)
    PROVE  OInv'
<1>1. PICK cs \in SUBSET calls : cs = calls \ {c}
  BY Zenon
<1>2. calls' = cs /\ UNCHANGED <<intents, host, faults>> /\ faults' \in Nat /\ releases' \subseteq Deployed
  BY <1>1 DEF Serve, OInv, Shapes, host
<1>3. /\ c.lost = 0 => worker.pc = "waiting" /\ \A e \in cs : e.lost # 0
      /\ c.lost = 0 /\ c.req.kind = "reconcile" /\ c.req.id = 0 => row.active = 0
      /\ Asked(c.req)
  BY <1>1, Zenon DEF OInv, Attended
<1>4. CASE \E out \in {"ok", "error", "terminal", "waiting"} : Reply(c.lost, out, 0, 0)
  BY <1>2, <1>3, <1>4, ReplyKeeps
<1>5. CASE /\ Reply(c.lost, "adopt", marker.active, marker.prev) /\ marker.active \in releases
           /\ c.req.kind = "reconcile" /\ c.req.id = 0
  BY <1>2, <1>3, <1>5, ReplyKeeps DEF OInv
<1>6. CASE \E pc \in {"build", "activate"} : Enter(c, pc) /\ (pc = "build" => c.req.kind = "deploy")
  <2>1. /\ Shape(agent') /\ agent'.req = c.req /\ agent'.lost = c.lost /\ worker' = worker
        /\ agent'.pc = "build" => c.req.kind = "deploy"
    BY <1>6 DEF Enter, Shape
  <2>. QED
    BY <1>2, <1>3, <2>1, GoOnKeeps
<1>. QED
  BY <1>4, <1>5, <1>6, Zenon DEF Serve, Observe

\* The steps under the mutex.
LEMMA AgentStepKeeps ==
    ASSUME OInv, Build \/ Activate \/ WriteMarker \/ Undo \/ RunWorkers \/ Prune
    PROVE  OInv'
<1>1. agent.pc # "idle" /\ UNCHANGED <<intents, calls>> /\ calls \in SUBSET calls
  BY DEF Build, Activate, WriteMarker, Undo, RunWorkers, Prune, At
<1>2. faults' \in Nat
  BY CallerLeaves DEF Build, Activate, WriteMarker, Undo, RunWorkers, Prune, NoFault, OInv, Shapes
<1>3. /\ agent.lost = 0 => worker.pc = "waiting" /\ \A c \in calls : c.lost # 0
      /\ Asked(agent.req)
      /\ agent.pc = "build" => agent.req.id \in Deployed
  BY <1>1, Zenon DEF OInv, Attended, Asked
<1>4. releases' \subseteq Deployed
  BY <1>3, Zenon DEF Build, Activate, WriteMarker, Undo, Discard, RunWorkers, Prune, Kept, At, OInv, host
<1>5. CASE \E out \in {"ok", "error", "terminal"} : Answer(out)
  BY <1>1, <1>2, <1>3, <1>4, <1>5, ReplyKeeps DEF Answer
<1>6. CASE \E pc \in {"activate", "marker", "undo", "workers", "prune"} : Goto(pc)
  <2>1. /\ Shape(agent') /\ agent'.req = agent.req /\ agent'.lost = agent.lost /\ worker' = worker
        /\ agent'.pc # "build"
    BY <1>6 DEF Goto, OInv, Shapes, Shape
  <2>. QED
    BY <1>1, <1>2, <1>3, <1>4, <2>1, GoOnKeeps
<1>. QED
  BY <1>5, <1>6, Zenon DEF Build, Activate, WriteMarker, Undo, RunWorkers, Prune, AnswerError

\* A request starts a revision, with one new intent or none.
LEMMA RevisionKeeps ==
    ASSUME OInv, Advance, NEW k \in {Newest, Newest + 1}, Deployed' = 1..k, DepShape(dep'),
           \A d \in Id : dep'[d].status = "healthy" <=> dep[d].status = "healthy",
           \A j \in jobs' : j \in jobs \/ Sound(j)'
    PROVE  OInv'
<1>. UNCHANGED <<worker, calls, agent, host, faults>>
  BY DEF Advance
<1>1. RowShape(row') /\ row'.rev = row.rev + 1 /\ row'.active = row.active
  BY Zenon DEF Advance, OInv, Shapes, RowShape
<1>2. Newest \in Nat /\ row.rev \in Nat /\ Newest < Settled + row.rev /\ Deployed = 1..Newest
  BY DEF OInv, Shapes, Numbered
<1>3. Newest' = k
  <2>1. Cardinality(1..k) = k
    BY <1>2, FS_Interval
  <2>2. Newest' = Cardinality(Deployed')
    BY Zenon DEF Newest, Deployed
  <2>. QED
    BY <2>1, <2>2
<1>4. Numbered' /\ Deployed \subseteq Deployed'
  BY <1>1, <1>2, <1>3 DEF Numbered, Settled
<1>5. OneIsHealthy'
  BY <1>1, Zenon DEF OInv, OneIsHealthy
<1>6. Shapes'
  BY <1>1, <1>2 DEF OInv, Shapes
<1>7. ASSUME NEW j, Sound(j) PROVE Sound(j)' /\ j.rev # row'.rev
  <2>1. j.rev \in Nat /\ j.rev <= row.rev /\ row'.rev \in Nat
    BY <1>1, <1>2, <1>7 DEF Sound
  <2>2. j.rev <= row'.rev /\ j.rev # row'.rev
    BY <1>1, <1>2, <2>1
  <2>. QED
    BY <1>4, <1>7, <2>1, <2>2, Zenon DEF Sound
<1>8. PICK j : j = worker.job
  OBVIOUS
<1>9. Sound(j)' /\ j.rev # row'.rev /\ j = worker'.job
  BY <1>7, <1>8 DEF OInv
<1>10. Claimed' /\ Adopting'
  BY <1>1, <1>4, <1>9, Zenon DEF OInv, Claimed, Adopting
<1>11. ASSUME NEW r, Asked(r) PROVE Asked(r)'
  BY <1>4, <1>11, Zenon DEF Asked
<1>12. Attended'
  <2>1. agent.pc # "idle" => Asked(agent.req)'
    <3>1. PICK r : r = agent.req
      OBVIOUS
    <3>2. agent.pc # "idle" => Asked(r)'
      BY <1>11, <3>1, Zenon DEF OInv, Attended
    <3>. QED
      BY <3>1, <3>2, Zenon DEF Asked
  <2>. QED
    BY <1>1, <1>11, <2>1, Zenon DEF OInv, Attended
<1>13. releases' \subseteq Deployed'
  BY <1>4 DEF OInv, host
<1>14. \A i \in jobs' : Sound(i)'
  BY <1>7, Zenon DEF OInv
<1>. QED
  BY <1>4, <1>5, <1>6, <1>9, <1>10, <1>12, <1>13, <1>14, Zenon DEF OInv

\* A superseded intent has failed, and was not healthy.
LEMMA SupersededRows ==
    ASSUME OInv, NEW s, s = Superseded
    PROVE  /\ DepShape(s)
           /\ \A d \in Id : /\ s[d].status = "none" <=> dep[d].status = "none"
                            /\ s[d].status = "healthy" <=> dep[d].status = "healthy"
<1>1. ASSUME NEW d \in Id
      PROVE  /\ s[d] = [status |-> s[d].status, prev |-> s[d].prev]
             /\ s[d].status = IF dep[d].status \in OpenStatus THEN "failed" ELSE dep[d].status
  <2>1. PICK r : r = dep[d]
    OBVIOUS
  <2>2. r = [status |-> r.status, prev |-> r.prev]
    BY <2>1 DEF OInv, Shapes, DepShape
  <2>3. PICK t : t = IF r.status \in OpenStatus THEN "failed" ELSE r.status
    OBVIOUS
  <2>4. PICK n : n = s[d]
    OBVIOUS
  <2>5. n = [r EXCEPT !.status = t]
    BY <2>1, <2>3, <2>4, Zenon DEF Superseded
  <2>6. n.status = t /\ n = [status |-> n.status, prev |-> n.prev]
    BY <2>2, <2>5, StatusSet, Zenon
  <2>. QED
    BY <2>1, <2>3, <2>4, <2>6, Zenon
<1>2. s = [d \in Id |-> s[d]]
  BY Zenon DEF Superseded
<1>3. DepShape(s)
  BY <1>1, <1>2, TableOfRows, Zenon
<1>. QED
  BY <1>1, <1>3, Zenon DEF OpenStatus

\* Configuration, deployment and rollback.
LEMMA RequestKeeps ==
    ASSUME OInv, RequestStep
    PROVE  OInv'
<1>. PICK s : s = Superseded
  OBVIOUS
<1>1. Advance
  BY DEF RequestStep, Configure, QueueDeployment, QueueRollback
<1>2. /\ Newest \in Nat /\ row.rev \in Nat /\ Newest < Settled + row.rev /\ row.rev <= MaxRequests
      /\ Deployed = 1..Newest /\ row'.rev = row.rev + 1
  BY <1>1, Zenon DEF OInv, Shapes, Numbered, Advance, RowShape
<1>3. Newest + 1 \in Id /\ Newest + 1 \notin Deployed
  BY <1>2, ConstantsAssumption DEF Id, Settled
<1>4. ASSUME Configure PROVE OInv'
  <2>1. dep' = s /\ jobs' = Insert(jobs, "reconcile", 0, 0, row.rev + 1)
    BY <1>4 DEF Configure
  <2>2. Deployed' = 1..Newest
    BY <1>2, <2>1, SupersededRows, Zenon DEF Deployed
  <2>3. ASSUME NEW j, j = [kind |-> "reconcile", dep |-> 0, target |-> 0, rev |-> row.rev + 1, attempt |-> 1]
        PROVE  Sound(j)'
    BY <1>2, <2>3 DEF Sound
  <2>4. \A j \in jobs' : j \in jobs \/ Sound(j)'
    BY <2>1, <2>3, Zenon DEF Insert
  <2>. QED
    BY <1>1, <2>1, <2>2, <2>4, SupersededRows, RevisionKeeps
<1>5. ASSUME NEW t, NEW kind \in {"deploy", "rollback"}, kind = "rollback" => t \in Deployed,
             dep' = Intent, jobs' = Insert(jobs, kind, Newest + 1, t, row.rev + 1)
      PROVE  OInv'
  <2>1. PICK n : n = [status |-> "pending", prev |-> row.active]
    BY Zenon
  <2>2. n.status = "pending" /\ n = [status |-> n.status, prev |-> n.prev]
    BY <2>1
  <2>3. ASSUME NEW d \in Id PROVE dep'[d] = IF d = Newest + 1 THEN n ELSE s[d]
    BY <1>3, <1>5, <2>1, SupersededRows, Zenon DEF Intent, DepShape
  <2>4. dep' = [d \in Id |-> dep'[d]]
    BY <1>5, SupersededRows, Zenon DEF Intent, DepShape
  <2>5. \A d \in Id : s[d] = [status |-> s[d].status, prev |-> s[d].prev]
    BY SupersededRows DEF DepShape
  <2>6. DepShape(dep')
    BY <2>2, <2>3, <2>4, <2>5, TableOfRows, Zenon
  <2>7. ASSUME NEW d \in Id
        PROVE  /\ dep'[d].status # "none" <=> d \in Deployed \/ d = Newest + 1
               /\ dep'[d].status = "healthy" <=> dep[d].status = "healthy"
    <3>1. CASE d = Newest + 1
      <4>1. dep'[d].status = "pending" /\ dep[d].status = "none"
        BY <1>3, <2>2, <2>3, <3>1, Zenon DEF Deployed
      <4>. QED
        BY <3>1, <4>1, Zenon
    <3>2. CASE d # Newest + 1
      <4>1. dep'[d] = s[d]
        BY <2>3, <3>2, Zenon
      <4>. QED
        BY <3>2, <4>1, SupersededRows, Zenon DEF Deployed
    <3>. QED
      BY <3>1, <3>2
  <2>8. Deployed' = Deployed \cup {Newest + 1}
    BY <1>3, <2>7, Zenon DEF Deployed
  <2>9. Deployed' = 1..(Newest + 1)
    BY <1>2, <2>8
  <2>10. Newest' = Newest + 1
    <3>1. Cardinality(1..(Newest + 1)) = Newest + 1
      BY <1>2, FS_Interval
    <3>2. Newest' = Cardinality(Deployed')
      BY Zenon DEF Newest, Deployed
    <3>. QED
      BY <2>9, <3>1, <3>2
  <2>11. ASSUME NEW j, j = [kind |-> kind, dep |-> Newest + 1, target |-> t, rev |-> row.rev + 1, attempt |-> 1]
         PROVE  Sound(j)'
    <3>1. j.kind = kind /\ j.dep = Newest + 1 /\ j.target = t /\ j.rev = row'.rev /\ j.rev \in Nat
      BY <1>2, <2>11
    <3>2. j = [kind |-> j.kind, dep |-> j.dep, target |-> j.target, rev |-> j.rev, attempt |-> j.attempt]
      BY <2>11
    <3>3. j.rev <= row'.rev
      BY <3>1
    <3>4. j.kind # "reconcile" /\ (j.kind = "rollback" => j.target \in Deployed')
      BY <1>5, <2>8, <3>1, Zenon
    <3>5. j.dep \in Deployed' /\ j.dep = Newest'
      BY <2>8, <2>10, <3>1, Zenon
    <3>. QED
      BY <3>1, <3>2, <3>3, <3>4, <3>5, Zenon DEF Sound
  <2>12. \A j \in jobs' : j \in jobs \/ Sound(j)'
    BY <1>5, <2>11, Zenon DEF Insert
  <2>. QED
    BY <1>1, <2>6, <2>7, <2>9, <2>12, RevisionKeeps
<1>6. CASE QueueDeployment
  BY <1>5, <1>6 DEF QueueDeployment
<1>7. ASSUME NEW t \in Id, QueueRollback(t) PROVE OInv'
  BY <1>5, <1>7 DEF QueueRollback, ValidTarget, Deployed
<1>. QED
  BY <1>4, <1>6, <1>7 DEF RequestStep

\* The sweep queues a reconciliation.
LEMMA SweepKeeps ==
    ASSUME OInv, Sweep \/ UNCHANGED vars
    PROVE  OInv'
<1>1. UNCHANGED <<row, dep, worker, calls, agent, host, faults>>
  BY DEF Sweep, vars, host
<1>2. ASSUME NEW j, j = [kind |-> "reconcile", dep |-> 0, target |-> 0, rev |-> row.rev, attempt |-> 1] PROVE Sound(j)
  BY <1>2 DEF Sound, OInv, Shapes
<1>3. Recorded
  BY <1>1, <1>2, SameRows, Zenon DEF Sweep, Insert, vars, OInv
<1>4. Deployed' = Deployed /\ Newest' = Newest /\ \A r : Asked(r) => Asked(r)'
  BY <1>3, RecordedKeeps
<1>5. Attended' /\ Adopting' /\ Claimed'
  BY <1>1, <1>4 DEF OInv, Attended, Adopting, Claimed, Asked
<1>. QED
  BY <1>1, <1>3, <1>5, RecordedIsEnough DEF OInv, Shapes, host

\* The initial states.
LEMMA InitIsOrderly == PInit => OInv
<1>. SUFFICES ASSUME PInit PROVE OInv
  OBVIOUS
<1>1. PICK n \in 0..Settled :
        /\ row = [rev |-> 1, applied |-> IF n = 0 THEN 0 ELSE 1, active |-> n,
                  prev |-> IF n = 0 THEN 0 ELSE n - 1, conv |-> IF n = 0 THEN "pending" ELSE "in_sync"]
        /\ dep = [d \in Id |-> [status |-> IF d > n THEN "none" ELSE IF d = n THEN "healthy" ELSE "retired",
                                prev |-> IF d > n THEN 0 ELSE d - 1]]
        /\ jobs = IF n = 0 THEN Insert({}, "reconcile", 0, 0, 1) ELSE {}
        /\ releases = 1..n
  BY Zenon DEF PInit
<1>2. n \in Nat /\ n <= Settled /\ 1..n \subseteq Id
  BY ConstantsAssumption DEF Settled, Id
<1>3. row.rev = 1 /\ row.active = n /\ RowShape(row)
  BY <1>1, Zenon DEF RowShape
<1>4. ASSUME NEW d \in Id
      PROVE  /\ dep[d] = [status |-> dep[d].status, prev |-> dep[d].prev]
             /\ dep[d].status = IF d > n THEN "none" ELSE IF d = n THEN "healthy" ELSE "retired"
  <2>1. PICK r : r = dep[d]
    OBVIOUS
  <2>2. PICK status, prev : /\ status = IF d > n THEN "none" ELSE IF d = n THEN "healthy" ELSE "retired"
                            /\ r = [status |-> status, prev |-> prev]
    BY <1>1, <2>1, Zenon
  <2>3. r = [status |-> r.status, prev |-> r.prev] /\ r.status = status
    BY <2>2
  <2>. QED
    BY <2>1, <2>2, <2>3, Zenon
<1>5. DepShape(dep)
  BY <1>1, <1>4, TableOfRows, Zenon
<1>6. Deployed = 1..n
  <2>1. ASSUME NEW d \in Id PROVE dep[d].status # "none" <=> ~(d > n)
    BY <1>4, Zenon
  <2>2. \A d \in Id : d \in Nat \ {0}
    BY ConstantsAssumption DEF Id
  <2>. QED
    BY <1>2, <2>1, <2>2 DEF Deployed
<1>7. Newest = n
  <2>1. Cardinality(1..n) = n
    BY <1>2, FS_Interval
  <2>. QED
    BY <1>6, <2>1, Zenon DEF Newest, Deployed
<1>8. Numbered
  BY <1>2, <1>3, <1>6, <1>7 DEF Numbered, Settled
<1>9. OneIsHealthy
  <2>1. ASSUME NEW d \in Id PROVE dep[d].status = "healthy" <=> ~(d > n) /\ d = n
    BY <1>4, Zenon
  <2>2. n # 0 => n \in Id
    BY <1>2
  <2>3. \A d \in Id : d \in Nat \ {0}
    BY ConstantsAssumption DEF Id
  <2>. QED
    BY <1>2, <1>3, <2>1, <2>2, <2>3 DEF OneIsHealthy
<1>10. /\ worker.pc = "idle" /\ worker.job = NoJob /\ WorkerShape(worker) /\ agent.pc = "idle" /\ Shape(agent)
       /\ calls = {} /\ faults = 0
  BY DEF PInit, NoWorker, NoCall, WorkerShape, Shape
<1>11. Shapes /\ Claimed /\ Attended /\ Adopting
  BY <1>3, <1>5, <1>10 DEF Shapes, Claimed, Attended, Adopting
<1>12. ASSUME NEW j \in jobs \cup {NoJob} PROVE Sound(j)
  <2>1. \/ j = NoJob
        \/ j = [kind |-> "reconcile", dep |-> 0, target |-> 0, rev |-> 1, attempt |-> 1]
    BY <1>1, Zenon DEF Insert
  <2>. QED
    BY <1>3, <2>1 DEF Sound, NoJob
<1>. QED
  BY <1>1, <1>6, <1>8, <1>9, <1>10, <1>11, <1>12, Zenon DEF OInv

\* Every step keeps OInv.
LEMMA PanelStepKeeps == OInv /\ [PNext]_vars => OInv'
<1>. SUFFICES ASSUME OInv, [PNext]_vars PROVE OInv'
  OBVIOUS
<1>1. CASE RequestStep \/ Sweep \/ UNCHANGED vars
  BY <1>1, RequestKeeps, SweepKeeps
<1>2. CASE WorkerStep
  BY <1>2, BeginKeeps, EndKeeps DEF WorkerStep
<1>3. CASE AgentStep
  BY <1>3, ServeKeeps, AgentStepKeeps DEF AgentStep
<1>4. CASE GiveUp \/ PanelCrash \/ AgentCrash
  BY <1>4, GiveUpKeeps, PanelCrashKeeps, AgentCrashKeeps
<1>. QED
  BY <1>1, <1>2, <1>3, <1>4 DEF PNext

\* The invariant of the panel.
LEMMA PanelInvariant == PSpec => []OInv
BY InitIsOrderly, PanelStepKeeps, PTL DEF PSpec

\* For any number of requests, attempts and faults, no completion, adoption or
\* failure leaves a second healthy deployment or an active one that is not
\* healthy (completeDeployment, completeRollback, completeReconcile, fail).
THEOREM ActiveIsTheHealthyOne == PSpec => []OneIsHealthy
<1>1. OInv => OneIsHealthy
  BY DEF OInv
<1>. QED
  BY PanelInvariant, <1>1, PTL

\* Only the newest intent, claimed by the worker that completes it, replaces
\* the active release (completeDeployment and completeRollback).
THEOREM NewestIntentReplaces == PSpec => NewestIntentWins
<1>. DEFINE A == row.active \notin {0, row'.active} =>
                    /\ worker.job.dep = Newest /\ dep[Newest].status = "preparing"
                    /\ row'.active \in {Newest, worker.job.target}
<1>1. OInv /\ [PNext]_vars => [A]_vars
  <2>. SUFFICES ASSUME OInv, PNext, row.active \notin {0, row'.active}
                PROVE  /\ worker.job.dep = Newest /\ dep[Newest].status = "preparing"
                       /\ row'.active \in {Newest, worker.job.target}
    BY DEF A
  <2>1. PICK j : j = worker.job
    OBVIOUS
  <2>2. End
    <3>1. RequestStep => row'.active = row.active
      BY Zenon DEF RequestStep, Configure, QueueDeployment, QueueRollback, Advance, OInv, Shapes, RowShape
    <3>2. Sweep \/ AgentStep \/ GiveUp \/ PanelCrash \/ AgentCrash => row' = row
      BY Zenon DEF Sweep, AgentStep, Serve, Build, Activate, WriteMarker, Undo, RunWorkers, Prune, GiveUp,
                   PanelCrash, AgentCrash, intents
    <3>3. ASSUME NEW i \in jobs, Begin(i) PROVE row'.active = row.active
      BY <3>3, FailedIsRecorded DEF Begin, BeginStale, BeginSettled, BeginCall, BeginFails, OInv
    <3>. QED
      BY <3>1, <3>2, <3>3 DEF PNext, WorkerStep
  <2>3. Sound(j) /\ worker.pc = "answered"
    BY <2>1, <2>2 DEF OInv, End
  <2>4. Complete(j)
    <3>1. ASSUME NEW terminal \in BOOLEAN, Failed(j, terminal) PROVE FALSE
      BY <2>3, <3>1, FailedIsRecorded
    <3>. QED
      BY <2>1, <2>2, <3>1, Zenon DEF End
  <2>5. j.kind \in {"deploy", "rollback"}
    <3>1. CompleteReconcile(j) => row'.active = row.active \/ row.active = 0
      BY <2>3, Zenon DEF CompleteReconcile, OInv, Adopting, Shapes, RowShape
    <3>. QED
      BY <2>4, <3>1, Zenon DEF Complete
  <2>6. j.rev = row.rev /\ row'.active \in {j.dep, j.target}
    BY <2>4, <2>5, Zenon DEF Complete, CompleteDeployment, CompleteRollback, Conflict, TakeOver, OInv, Shapes, RowShape
  <2>7. j.dep = Newest /\ dep[Newest].status = "preparing"
    BY <2>1, <2>3, <2>5, <2>6, Zenon DEF Sound, OInv, Claimed
  <2>. QED
    BY <2>1, <2>6, <2>7
<1>. QED
  BY PanelInvariant, <1>1, PTL DEF PSpec, NewestIntentWins
-----------------------------------------------------------------------------
(* Types.  That a new deployment, a job's target and a directory have a    *)
(* number within the bounds is OInv's doing.                               *)

DepRow == [status : Status, prev : Ref]
WorkerOK ==
    worker \in [pc : {"idle", "waiting", "answered"}, job : Job, out : Outcome, active : Ref, prev : Ref]
AgentOK ==
    agent \in [pc : {"idle", "build", "activate", "marker", "undo", "workers", "prune"},
               req : Request, lost : 0..MaxFaults, was : Ref]
CallsOK == calls \subseteq [req : Request, lost : 0..MaxFaults]
RowOK == row \in [rev : Rev, applied : Rev, active : Ref, prev : Ref, conv : Convergence]
PanelOK == RowOK /\ dep \in [Id -> DepRow] /\ jobs \subseteq Job
HostOK == marker \in Marker /\ live \in Ref

TInv == PanelOK /\ WorkerOK /\ CallsOK /\ AgentOK /\ HostOK /\ faults \in 0..MaxFaults

LEMMA FaultTyped ==
    ASSUME faults \in 0..MaxFaults, Fault \/ NoFault
    PROVE  faults' \in 0..MaxFaults
BY ConstantsAssumption DEF Fault, NoFault

LEMMA IdleTyped ==
    /\ NoJob \in Job /\ NoRequest \in Request /\ 0 \in Ref /\ 0 \in 0..MaxFaults
    /\ NoWorker \in [pc : {"idle", "waiting", "answered"}, job : Job, out : Outcome, active : Ref, prev : Ref]
    /\ NoCall \in [pc : {"idle", "build", "activate", "marker", "undo", "workers", "prune"},
                   req : Request, lost : 0..MaxFaults, was : Ref]
<1>1. 0 \in Ref /\ 0 \in 0..MaxFaults /\ 0 \in Rev /\ 1 \in 1..MaxAttempts
  BY ConstantsAssumption DEF Ref, Rev
<1>2. NoJob \in Job /\ NoRequest \in Request
  BY <1>1 DEF NoJob, Job, NoRequest, Request, Kind
<1>. QED
  BY <1>1, <1>2 DEF NoWorker, NoCall, Outcome

LEMMA InsertTyped ==
    ASSUME NEW js, js \subseteq Job, NEW kind \in Kind, NEW d \in Ref, NEW target \in Ref, NEW rev \in Rev
    PROVE  Insert(js, kind, d, target, rev) \subseteq Job
<1>1. 1 \in 1..MaxAttempts
  BY ConstantsAssumption
<1>2. [kind |-> kind, dep |-> d, target |-> target, rev |-> rev, attempt |-> 1] \in Job
  BY <1>1 DEF Job
<1>. QED
  BY <1>2, Zenon DEF Insert

LEMMA RetriedTyped ==
    ASSUME jobs \subseteq Job, NEW j \in Job
    PROVE  Retried(j) \subseteq Job
<1>1. j.attempt # MaxAttempts => [j EXCEPT !.attempt = @ + 1] \in Job
  BY ConstantsAssumption DEF Job
<1>. QED
  BY <1>1, Zenon DEF Retried

LEMMA RowTyped ==
    ASSUME RowOK, NEW conv \in Convergence
    PROVE  [row EXCEPT !.conv = conv] \in [rev : Rev, applied : Rev, active : Ref, prev : Ref, conv : Convergence]
BY DEF RowOK

LEMMA StatusTyped ==
    ASSUME NEW r \in DepRow, NEW status \in Status
    PROVE  [r EXCEPT !.status = status] \in DepRow
BY DEF DepRow

LEMMA MarkTyped ==
    ASSUME dep \in [Id -> DepRow], NEW ds, NEW status \in Status
    PROVE  Mark(ds, status) \in [Id -> DepRow]
<1>1. \A d \in Id : (IF d \in ds THEN [dep[d] EXCEPT !.status = status] ELSE dep[d]) \in DepRow
  BY StatusTyped
<1>. QED
  BY <1>1, Zenon DEF Mark

LEMMA FailedTyped ==
    ASSUME PanelOK, NEW j \in Job, NEW terminal \in BOOLEAN, Failed(j, terminal)
    PROVE  PanelOK'
<1>1. PICK verdict : /\ verdict \in {"failed", "pending"}
                     /\ \/ UNCHANGED <<row, dep>>
                        \/ /\ dep' = [d \in Id |-> [dep[d] EXCEPT !.status =
                                         IF d = j.dep /\ @ # "healthy" THEN verdict ELSE @]]
                           /\ row' = [row EXCEPT !.conv = verdict]
  BY Zenon DEF Failed
<1>2. jobs' \subseteq Job
  BY RetriedTyped, Zenon DEF Failed, PanelOK
<1>3. CASE UNCHANGED <<row, dep>>
  BY <1>2, <1>3 DEF PanelOK, RowOK
<1>4. CASE /\ dep' = [d \in Id |-> [dep[d] EXCEPT !.status =
                         IF d = j.dep /\ @ # "healthy" THEN verdict ELSE @]]
           /\ row' = [row EXCEPT !.conv = verdict]
  <2>1. verdict \in Status /\ verdict \in Convergence
    BY <1>1 DEF Status, OpenStatus, Convergence
  <2>2. \A d \in Id : dep[d] \in DepRow /\ dep[d].status \in Status
    BY DEF PanelOK, DepRow
  <2>3. \A d \in Id : [dep[d] EXCEPT !.status = IF d = j.dep /\ @ # "healthy" THEN verdict ELSE @] \in DepRow
    BY <2>1, <2>2, StatusTyped
  <2>4. dep' \in [Id -> DepRow]
    BY <1>4, <2>3, Zenon
  <2>5. RowOK'
    BY <1>4, <2>1, RowTyped DEF RowOK, PanelOK
  <2>. QED
    BY <1>2, <2>4, <2>5 DEF PanelOK
<1>. QED
  BY <1>1, <1>3, <1>4

\* A request to the agent names deployments that the panel has.
LEMMA RequestTyped ==
    ASSUME OInv, PanelOK, NEW j \in jobs
    PROVE  RequestOf(j) \in Request
<1>1. j \in Job /\ Sound(j)
  BY DEF OInv, PanelOK
<1>2. j.kind = "deploy" => dep[j.dep].prev \in Ref
  <2>1. j.kind = "deploy" => j.dep \in Id
    BY <1>1 DEF Sound, Deployed
  <2>. QED
    BY <2>1 DEF PanelOK, DepRow
<1>3. j.kind \in Kind /\ j.rev \in Rev /\ j.dep \in Ref /\ j.target \in Ref
  BY <1>1 DEF Job
<1>4. row.active \in Ref /\ row.prev \in Ref /\ 0 \in Ref
  BY IdleTyped DEF PanelOK, RowOK
<1>5. PICK id, prev : RequestOf(j) = [kind |-> j.kind, rev |-> j.rev, id |-> id, prev |-> prev] /\ id \in Ref /\ prev \in Ref
  BY <1>2, <1>3, <1>4, Zenon DEF RequestOf
<1>. QED
  BY <1>3, <1>5 DEF Request

LEMMA BeginTyped ==
    ASSUME OInv, TInv, NEW j \in jobs, Begin(j)
    PROVE  TInv'
<1>. PanelOK /\ j \in Job
  BY DEF TInv, PanelOK
<1>1. AgentOK' /\ HostOK'
  BY DEF Begin, TInv, AgentOK, HostOK, host
<1>2. faults' \in 0..MaxFaults
  BY FaultTyped, Zenon DEF Begin, BeginStale, BeginSettled, BeginCall, BeginFails, NoFault, TInv
<1>3. dep \in [Id -> DepRow] /\ {"failed", "preparing"} \subseteq Status
  BY DEF PanelOK, Status, OpenStatus
<1>4. CASE BeginCall(j)
  <2>1. dep' \in [Id -> DepRow]
    BY <1>3, <1>4, MarkTyped, Zenon DEF BeginCall
  <2>2. PanelOK'
    BY <1>4, <2>1, Zenon DEF BeginCall, PanelOK, RowOK
  <2>3. WorkerOK'
    BY <1>4, IdleTyped DEF BeginCall, NoWorker, WorkerOK
  <2>4. [req |-> RequestOf(j), lost |-> 0] \in [req : Request, lost : 0..MaxFaults]
    BY RequestTyped, IdleTyped
  <2>5. CallsOK'
    BY <1>4, <2>4, Zenon DEF BeginCall, CallsOK, TInv
  <2>. QED
    BY <1>1, <1>2, <2>2, <2>3, <2>5 DEF TInv
<1>5. CASE BeginStale(j) \/ BeginSettled(j) \/ BeginFails(j)
  <2>1. WorkerOK' /\ CallsOK'
    BY <1>5, Zenon DEF BeginStale, BeginSettled, BeginFails, TInv, WorkerOK, CallsOK
  <2>2. CASE BeginStale(j)
    <3>1. dep' \in [Id -> DepRow]
      BY <1>3, <2>2, MarkTyped, Zenon DEF BeginStale
    <3>. QED
      BY <1>1, <1>2, <2>1, <2>2, <3>1, Zenon DEF BeginStale, PanelOK, RowOK, TInv
  <2>3. CASE \E terminal \in BOOLEAN : Failed(j, terminal)
    BY <1>1, <1>2, <2>1, <2>3, FailedTyped, Zenon DEF TInv
  <2>4. CASE jobs' = jobs \ {j} /\ UNCHANGED <<row, dep>>
    BY <1>1, <1>2, <2>1, <2>4, Zenon DEF PanelOK, RowOK, TInv
  <2>. QED
    BY <1>5, <2>2, <2>3, <2>4, Zenon DEF BeginSettled, BeginFails
<1>. QED
  BY <1>4, <1>5 DEF Begin
LEMMA TakeOverTyped ==
    ASSUME PanelOK, NEW d \in Ref, NEW others, TakeOver(d, others)
    PROVE  RowOK' /\ dep' \in [Id -> DepRow]
<1>1. \A e \in Id : dep[e] \in DepRow /\ dep[e].status \in Status
  BY DEF PanelOK, DepRow
<1>2. {"healthy", "rolled_back", "retired"} \subseteq Status
  BY DEF Status
<1>3. \A e \in Id : [dep[e] EXCEPT !.status =
                        IF e = d THEN "healthy"
                        ELSE IF e \in others THEN "rolled_back"
                        ELSE IF e = row.active /\ @ = "healthy" THEN "retired" ELSE @] \in DepRow
  BY <1>1, <1>2, StatusTyped
<1>4. dep' \in [Id -> DepRow]
  BY <1>3, Zenon DEF TakeOver
<1>5. RowOK'
  BY Zenon DEF TakeOver, PanelOK, RowOK, Convergence
<1>. QED
  BY <1>4, <1>5

LEMMA CompleteTyped ==
    ASSUME OInv, TInv, worker.pc = "answered", Complete(worker.job)
    PROVE  PanelOK' /\ faults' \in 0..MaxFaults
<1>. PICK j : j = worker.job
  OBVIOUS
<1>. PanelOK /\ j \in Job /\ worker.active \in Ref /\ worker.prev \in Ref
  BY DEF TInv, WorkerOK
<1>1. j.dep \in Ref /\ j.target \in Ref
  BY DEF Job
<1>2. CASE Done(j) /\ RowOK' /\ dep' \in [Id -> DepRow]
  <2>1. jobs' \subseteq Job
    BY <1>2, RetriedTyped, Zenon DEF Done, PanelOK
  <2>2. faults' \in 0..MaxFaults
    BY <1>2, FaultTyped, Zenon DEF Done, TInv
  <2>. QED
    BY <1>2, <2>1, <2>2 DEF PanelOK
<1>3. CASE Conflict(j) /\ NoFault
  <2>1. "reconcile" \in Kind /\ 0 \in Ref /\ row.rev \in Rev /\ "failed" \in Status
    BY IdleTyped DEF Kind, PanelOK, RowOK, Status
  <2>2. Retried(j) \subseteq Job
    BY RetriedTyped, Zenon DEF PanelOK
  <2>3. jobs' \subseteq Job
    BY <1>3, <2>1, <2>2, InsertTyped, Zenon DEF Conflict
  <2>4. dep' \in [Id -> DepRow]
    BY <1>3, <2>1, MarkTyped, Zenon DEF Conflict, PanelOK
  <2>5. RowOK'
    BY <1>3, Zenon DEF Conflict, PanelOK, RowOK
  <2>6. faults' \in 0..MaxFaults
    BY <1>3, FaultTyped, Zenon DEF TInv
  <2>. QED
    BY <2>3, <2>4, <2>5, <2>6 DEF PanelOK
<1>4. CASE CompleteReconcile(j)
  <2>1. dep \in [Id -> DepRow] /\ "healthy" \in Status
    BY DEF PanelOK, Status
  <2>2. dep' \in [Id -> DepRow]
    <3>1. Mark({worker.active}, "healthy") \in [Id -> DepRow]
      BY <2>1, MarkTyped, Zenon
    <3>2. dep' = dep \/ dep' = Mark({worker.active}, "healthy")
      BY <1>4, Zenon DEF CompleteReconcile
    <3>. QED
      BY <2>1, <3>1, <3>2, Zenon
  <2>3. RowOK'
    <3>1. [row EXCEPT !.active = worker.active, !.prev = worker.prev, !.conv = "pending"] \in
              [rev : Rev, applied : Rev, active : Ref, prev : Ref, conv : Convergence]
      BY Zenon DEF PanelOK, RowOK, Convergence
    <3>2. [row EXCEPT !.applied = row.rev, !.conv = "in_sync"] \in
              [rev : Rev, applied : Rev, active : Ref, prev : Ref, conv : Convergence]
      BY Zenon DEF PanelOK, RowOK, Convergence
    <3>3. [row EXCEPT !.conv = "pending"] \in
              [rev : Rev, applied : Rev, active : Ref, prev : Ref, conv : Convergence]
      BY DEF PanelOK, RowOK, Convergence
    <3>. QED
      BY <1>4, <3>1, <3>2, <3>3, Zenon DEF CompleteReconcile, PanelOK, RowOK
  <2>. QED
    BY <1>2, <1>4, <2>2, <2>3 DEF CompleteReconcile
<1>5. CASE CompleteDeployment(j)
  BY <1>1, <1>2, <1>3, <1>5, TakeOverTyped, Zenon DEF CompleteDeployment
<1>6. CASE CompleteRollback(j)
  BY <1>1, <1>2, <1>3, <1>6, TakeOverTyped, Zenon DEF CompleteRollback
<1>. QED
  BY <1>4, <1>5, <1>6, Zenon DEF Complete

LEMMA EndTyped ==
    ASSUME OInv, TInv, End
    PROVE  TInv'
<1>. PICK j : j = worker.job
  OBVIOUS
<1>. PanelOK /\ j \in Job
  BY DEF TInv, WorkerOK
<1>1. CallsOK' /\ AgentOK' /\ HostOK'
  BY DEF End, TInv, CallsOK, AgentOK, HostOK, host
<1>2. WorkerOK'
  BY IdleTyped DEF End, WorkerOK
<1>3. CASE jobs' = Retried(j) /\ UNCHANGED <<row, dep>> /\ NoFault
  <2>1. PanelOK'
    BY <1>3, RetriedTyped, Zenon DEF PanelOK, RowOK
  <2>. QED
    BY <1>1, <1>2, <1>3, <2>1, FaultTyped DEF TInv
<1>4. CASE Failed(j, worker.out = "terminal") /\ NoFault
  <2>1. PICK terminal \in BOOLEAN : terminal = (worker.out = "terminal")
    BY Zenon
  <2>2. PanelOK'
    BY <1>4, <2>1, FailedTyped, Zenon
  <2>. QED
    BY <1>1, <1>2, <1>4, <2>2, FaultTyped, Zenon DEF TInv
<1>5. CASE Complete(j)
  <2>1. worker.pc = "answered"
    BY DEF End
  <2>. QED
    BY <1>1, <1>2, <1>5, <2>1, CompleteTyped, Zenon DEF TInv
<1>. QED
  BY <1>3, <1>4, <1>5, Zenon DEF End

\* Nobody waits for the answers any more; what is lost keeps its type.
LEMMA LostTyped ==
    ASSUME CallsOK, AgentOK, faults' \in 0..MaxFaults
    PROVE  /\ Abandoned \subseteq [req : Request, lost : 0..MaxFaults]
           /\ agent' = Orphaned => AgentOK'
<1>1. \A c \in calls : [c EXCEPT !.lost = IF @ = 0 THEN faults' ELSE @] \in [req : Request, lost : 0..MaxFaults]
  BY DEF CallsOK
<1>2. agent' = Orphaned => AgentOK'
  BY DEF Orphaned, AgentOK
<1>. QED
  BY <1>1, <1>2, Zenon DEF Abandoned

LEMMA FaultStepTyped ==
    ASSUME TInv, GiveUp \/ PanelCrash \/ AgentCrash
    PROVE  TInv'
<1>1. faults' \in 0..MaxFaults
  BY FaultTyped, Zenon DEF GiveUp, PanelCrash, AgentCrash, TInv
<1>2. HostOK'
  BY DEF GiveUp, PanelCrash, AgentCrash, TInv, HostOK, host
<1>3. CallsOK'
  <2>1. calls' = Abandoned \/ calls' \subseteq calls
    BY Zenon DEF GiveUp, PanelCrash, AgentCrash
  <2>. QED
    BY <1>1, <2>1, LostTyped, Zenon DEF TInv, CallsOK
<1>4. AgentOK'
  BY <1>1, LostTyped, IdleTyped, Zenon DEF GiveUp, PanelCrash, AgentCrash, TInv, AgentOK
<1>5. WorkerOK'
  <2>1. \A o \in {"error", "expired"} : [worker EXCEPT !.pc = "answered", !.out = o] \in
            [pc : {"idle", "waiting", "answered"}, job : Job, out : Outcome, active : Ref, prev : Ref]
    BY Zenon DEF TInv, WorkerOK, Outcome
  <2>. QED
    BY <2>1, IdleTyped, Zenon DEF GiveUp, PanelCrash, AgentCrash, WorkerOK, TInv
<1>6. PanelOK'
  <2>1. CASE GiveUp \/ AgentCrash
    BY <2>1, Zenon DEF GiveUp, AgentCrash, intents, TInv, PanelOK, RowOK
  <2>2. CASE PanelCrash
    <3>1. worker.job \in Job
      BY DEF TInv, WorkerOK
    <3>. QED
      BY <2>2, <3>1, RetriedTyped, Zenon DEF PanelCrash, TInv, PanelOK, RowOK
  <2>. QED
    BY <2>1, <2>2
<1>. QED
  BY <1>1, <1>2, <1>3, <1>4, <1>5, <1>6 DEF TInv
LEMMA ReplyTyped ==
    ASSUME WorkerOK, NEW lost, NEW out \in Outcome, NEW active \in Ref, NEW prev \in Ref,
           Reply(lost, out, active, prev)
    PROVE  WorkerOK' /\ AgentOK'
<1>1. [worker EXCEPT !.pc = "answered", !.out = out, !.active = active, !.prev = prev] \in
          [pc : {"idle", "waiting", "answered"}, job : Job, out : Outcome, active : Ref, prev : Ref]
  BY Zenon DEF WorkerOK
<1>. QED
  BY <1>1, IdleTyped, Zenon DEF Reply, WorkerOK, AgentOK

LEMMA AnswerTyped ==
    ASSUME WorkerOK, AnswerError \/ Answer("ok") \/ Answer("error")
    PROVE  WorkerOK' /\ AgentOK'
<1>1. PICK out \in {"ok", "error", "terminal"} : Reply(agent.lost, out, 0, 0)
  BY Zenon DEF AnswerError, Answer
<1>2. out \in Outcome /\ 0 \in Ref
  BY IdleTyped DEF Outcome
<1>. QED
  BY <1>1, <1>2, ReplyTyped, Zenon

LEMMA GotoTyped ==
    ASSUME WorkerOK, AgentOK, NEW pc \in {"activate", "marker", "undo", "workers", "prune"}, Goto(pc)
    PROVE  WorkerOK' /\ AgentOK'
<1>1. AgentOK'
  BY DEF Goto, AgentOK
<1>2. WorkerOK'
  BY Zenon DEF Goto, WorkerOK
<1>. QED
  BY <1>1, <1>2

LEMMA ServeTyped ==
    ASSUME TInv, NEW c \in calls, Serve(c)
    PROVE  TInv'
<1>. WorkerOK
  BY DEF TInv
<1>. PICK r : r = c.req
  OBVIOUS
<1>1. r \in Request /\ c.lost \in 0..MaxFaults
  BY DEF TInv, CallsOK
<1>2. PanelOK' /\ CallsOK' /\ HostOK' /\ faults' \in 0..MaxFaults
  BY Zenon DEF Serve, TInv, PanelOK, RowOK, CallsOK, HostOK, intents, host
<1>3. ASSUME NEW out \in {"ok", "waiting", "adopt", "error", "terminal"}, NEW active \in {0, marker.active},
             NEW prev \in {0, marker.prev}, Reply(c.lost, out, active, prev)
      PROVE  WorkerOK' /\ AgentOK'
  <2>1. out \in Outcome /\ active \in Ref /\ prev \in Ref
    BY IdleTyped DEF Outcome, TInv, HostOK, Marker
  <2>. QED
    BY <1>3, <2>1, ReplyTyped, Zenon
<1>4. ASSUME NEW pc \in {"build", "activate"}, Enter(c, pc) PROVE WorkerOK' /\ AgentOK'
  <2>1. live \in Ref
    BY DEF TInv, HostOK
  <2>2. AgentOK'
    BY <1>1, <1>4, <2>1 DEF Enter, AgentOK
  <2>. QED
    BY <1>4, <2>2, Zenon DEF Enter, WorkerOK
<1>5. Observe(c.lost) => WorkerOK' /\ AgentOK'
  BY <1>3, Zenon DEF Observe
<1>6. \/ Observe(c.lost)
      \/ Reply(c.lost, "terminal", 0, 0) \/ Reply(c.lost, "error", 0, 0) \/ Reply(c.lost, "ok", 0, 0)
      \/ Enter(c, "build") \/ Enter(c, "activate")
  BY Zenon DEF Serve
<1>7. WorkerOK' /\ AgentOK'
  BY <1>3, <1>4, <1>5, <1>6, Zenon
<1>. QED
  BY <1>2, <1>7 DEF TInv

LEMMA AgentStepTyped ==
    ASSUME TInv, Build \/ Activate \/ WriteMarker \/ Undo \/ RunWorkers \/ Prune
    PROVE  TInv'
<1>. WorkerOK /\ AgentOK
  BY DEF TInv
<1>1. PanelOK' /\ CallsOK'
  BY Zenon DEF Build, Activate, WriteMarker, Undo, RunWorkers, Prune, TInv, PanelOK, RowOK, CallsOK, intents
<1>2. faults' \in 0..MaxFaults
  BY FaultTyped, Zenon DEF Build, Activate, WriteMarker, Undo, RunWorkers, Prune, NoFault, TInv
<1>3. WorkerOK' /\ AgentOK'
  <2>1. \/ AnswerError \/ Answer("ok") \/ Answer("error")
        \/ \E pc \in {"activate", "marker", "undo", "workers", "prune"} : Goto(pc)
    BY Zenon DEF Build, Activate, WriteMarker, Undo, RunWorkers, Prune
  <2>. QED
    BY <2>1, AnswerTyped, GotoTyped, Zenon
<1>4. agent.req.id \in Ref /\ agent.req.prev \in Ref /\ agent.req.rev \in Rev /\ agent.was \in Ref
  BY DEF AgentOK, Request
<1>5. live' \in Ref
  <2>1. live' \in {live, agent.req.id, agent.was, 0}
    BY Zenon DEF Build, Activate, WriteMarker, Undo, RunWorkers, Prune, host
  <2>. QED
    BY <1>4, <2>1, IdleTyped, Zenon DEF TInv, HostOK
<1>6. marker' \in Marker
  <2>1. CASE WriteMarker
    <3>1. marker.active \in Ref
      BY DEF TInv, HostOK, Marker
    <3>2. PICK prev \in Ref : marker' = [active |-> agent.req.id, rev |-> agent.req.rev, prev |-> prev] \/ marker' = marker
      BY <1>4, <2>1, <3>1, Zenon DEF WriteMarker
    <3>. QED
      BY <1>4, <3>2 DEF Marker, TInv, HostOK
  <2>2. CASE ~WriteMarker
    BY <2>2, Zenon DEF Build, Activate, Undo, RunWorkers, Prune, host, TInv, HostOK
  <2>. QED
    BY <2>1, <2>2
<1>. QED
  BY <1>1, <1>2, <1>3, <1>5, <1>6 DEF TInv, HostOK

LEMMA RequestStepTyped ==
    ASSUME OInv, TInv, RequestStep
    PROVE  TInv'
<1>. RowOK /\ dep \in [Id -> DepRow] /\ jobs \subseteq Job
  BY DEF TInv, PanelOK
<1>1. /\ Advance
      /\ \/ dep' = Superseded /\ jobs' = Insert(jobs, "reconcile", 0, 0, row.rev + 1)
         \/ /\ dep' = Intent
            /\ \E kind \in {"deploy", "rollback"}, t \in Id \cup {0} :
                  jobs' = Insert(jobs, kind, Newest + 1, t, row.rev + 1)
  BY Zenon DEF RequestStep, Configure, QueueDeployment, QueueRollback
<1>2. row.rev \in Nat /\ row.rev <= MaxRequests /\ row.rev + 1 \in Rev /\ Newest + 1 \in Id
  <2>1. row.rev \in Nat /\ Newest \in Nat /\ Newest < Settled + row.rev
    BY Zenon DEF OInv, Shapes, Numbered
  <2>2. row.rev <= MaxRequests
    BY <1>1 DEF Advance
  <2>. QED
    BY <2>1, <2>2, ConstantsAssumption DEF Settled, Rev, Id
<1>3. RowOK'
  BY Zenon, <1>1, <1>2 DEF Advance, RowOK, Convergence
<1>4. Superseded \in [Id -> DepRow]
  <2>1. \A d \in Id : dep[d] \in DepRow /\ dep[d].status \in Status /\ "failed" \in Status
    BY DEF DepRow, Status
  <2>2. \A d \in Id : [dep[d] EXCEPT !.status = IF @ \in OpenStatus THEN "failed" ELSE @] \in DepRow
    BY <2>1, StatusTyped
  <2>. QED
    BY <2>2, Zenon DEF Superseded
<1>5. Intent \in [Id -> DepRow]
  <2>1. [status |-> "pending", prev |-> row.active] \in DepRow
    BY DEF DepRow, RowOK, Status, OpenStatus
  <2>2. PICK new \in DepRow : new = [status |-> "pending", prev |-> row.active]
    BY <2>1
  <2>3. Intent = [Superseded EXCEPT ![Newest + 1] = new]
    BY <2>2, Zenon DEF Intent
  <2>. QED
    BY Zenon, <1>4, <2>3
<1>6. dep' \in [Id -> DepRow]
  BY <1>1, <1>4, <1>5, Zenon
<1>7. jobs' \subseteq Job
  <2>1. Kind = {"deploy", "rollback", "reconcile"} /\ Ref = Id \cup {0}
    BY DEF Kind, Ref
  <2>2. PICK kind \in Kind, d \in Ref, t \in Ref : jobs' = Insert(jobs, kind, d, t, row.rev + 1)
    BY <1>1, <1>2, <2>1, Zenon
  <2>. QED
    BY <1>2, <2>2, InsertTyped, Zenon
<1>8. WorkerOK' /\ CallsOK' /\ AgentOK' /\ HostOK' /\ faults' \in 0..MaxFaults
  BY <1>1, Zenon DEF Advance, TInv, WorkerOK, CallsOK, AgentOK, HostOK, host
<1>. QED
  BY <1>3, <1>6, <1>7, <1>8 DEF TInv, PanelOK

LEMMA SweepTyped ==
    ASSUME TInv, Sweep
    PROVE  TInv'
<1>1. row.rev \in Rev /\ "reconcile" \in Kind /\ 0 \in Ref /\ jobs \subseteq Job
  BY IdleTyped DEF TInv, PanelOK, RowOK, Kind
<1>2. jobs' \subseteq Job
  BY <1>1, InsertTyped, Zenon DEF Sweep
<1>. QED
  BY <1>2, Zenon DEF Sweep, TInv, PanelOK, RowOK, WorkerOK, CallsOK, AgentOK, HostOK, host

LEMMA InitTyped == PInit => TInv
<1>. SUFFICES ASSUME PInit PROVE TInv
  OBVIOUS
<1>1. PICK n \in 0..Settled :
        /\ row = [rev |-> 1, applied |-> IF n = 0 THEN 0 ELSE 1, active |-> n,
                  prev |-> IF n = 0 THEN 0 ELSE n - 1, conv |-> IF n = 0 THEN "pending" ELSE "in_sync"]
        /\ dep = [d \in Id |-> [status |-> IF d > n THEN "none" ELSE IF d = n THEN "healthy" ELSE "retired",
                                prev |-> IF d > n THEN 0 ELSE d - 1]]
        /\ jobs = IF n = 0 THEN Insert({}, "reconcile", 0, 0, 1) ELSE {}
        /\ marker = [active |-> n, prev |-> IF n = 0 THEN 0 ELSE n - 1, rev |-> IF n = 0 THEN 0 ELSE 1]
        /\ live = n
  BY Zenon DEF PInit
<1>2. n \in Ref /\ (IF n = 0 THEN 0 ELSE n - 1) \in Ref /\ 0 \in Rev /\ 1 \in Rev /\ 0 \in Ref
  BY ConstantsAssumption DEF Settled, Ref, Id, Rev
<1>3. RowOK
  BY <1>1, <1>2 DEF RowOK, Convergence
<1>4. dep \in [Id -> DepRow]
  <2>1. \A d \in Id : (IF d > n THEN 0 ELSE d - 1) \in Ref
    BY <1>2, ConstantsAssumption DEF Settled, Ref, Id
  <2>2. {"none", "healthy", "retired"} \subseteq Status
    BY DEF Status
  <2>3. \A d \in Id : [status |-> IF d > n THEN "none" ELSE IF d = n THEN "healthy" ELSE "retired",
                       prev |-> IF d > n THEN 0 ELSE d - 1] \in DepRow
    BY <2>1, <2>2 DEF DepRow
  <2>. QED
    BY <1>1, <2>3, Zenon
<1>5. jobs \subseteq Job
  <2>1. "reconcile" \in Kind /\ {} \subseteq Job
    BY DEF Kind
  <2>. QED
    BY <1>1, <1>2, <2>1, InsertTyped, Zenon
<1>6. HostOK
  BY <1>1, <1>2 DEF HostOK, Marker
<1>7. WorkerOK /\ CallsOK /\ AgentOK /\ faults \in 0..MaxFaults
  BY IdleTyped, Zenon DEF PInit, WorkerOK, CallsOK, AgentOK
<1>. QED
  BY <1>3, <1>4, <1>5, <1>6, <1>7 DEF TInv, PanelOK

\* The rows, jobs, calls, directories and markers keep their types and limits for
\* any retention and any number of requests, attempts and faults: no request
\* runs past the revisions, and no job asks for a deployment that is not there
\* (QueueDeployment, QueueRollback and the workers).
THEOREM ReleasesAreTyped == PSpec => []PTypeOK
<1>1. OInv /\ TInv /\ [PNext]_vars => TInv'
  <2>. SUFFICES ASSUME OInv, TInv, [PNext]_vars PROVE TInv'
    OBVIOUS
  <2>1. CASE UNCHANGED vars
    BY <2>1, Zenon DEF vars, TInv, PanelOK, RowOK, WorkerOK, CallsOK, AgentOK, HostOK
  <2>. QED
    BY <2>1, RequestStepTyped, SweepTyped, EndTyped, BeginTyped, ServeTyped, AgentStepTyped, FaultStepTyped, Zenon
       DEF PNext, WorkerStep, AgentStep
<1>2. OInv /\ TInv => PTypeOK
  <2>1. OInv => releases \subseteq Id
    BY Zenon DEF OInv, Deployed
  <2>. QED
    BY <2>1, Zenon DEF TInv, PanelOK, RowOK, DepRow, WorkerOK, CallsOK, AgentOK, HostOK, PTypeOK
<1>. QED
  BY PanelInvariant, InitTyped, <1>1, <1>2, PTL DEF PSpec
=============================================================================
