---------------------------- MODULE SiteTeardown ----------------------------
(***************************************************************************)
(* Removal of websites by the root agent                                   *)
(* (internal/agent/ops/teardown_site*.go), over the identity registry.     *)
(*                                                                         *)
(* The control plane sends one request per stage; requests are repeated,   *)
(* overlap and arrive late.  The agent keeps a journal per operation: each *)
(* finished item and each finished stage is a checkpoint, and a complete   *)
(* journal answers every later request without looking at the host.  What  *)
(* is removed is found by HOSTNAME, which a replacement website may have   *)
(* taken over, so a stage must never run once the hostname was released.   *)
(***************************************************************************)
EXTENDS SiteIdentityRegistry

CONSTANTS
    Op,        \* operation ids of website removals
    Provided   \* the kinds of content that ordinary operations leave on the host

VARIABLES
    journal,   \* removal-<operation>.json
    stage,     \* the stage a removal request asks for
    copy,      \* the journal as the request has read and extended it
    at,        \* where the request is inside the work of its stage
    host       \* what exists on the host: <<hostname, website, item>>

tvars   == <<journal, stage, copy, at, host>>
allVars == <<vars, tvars>>

Stage == {"stop_services", "hosting", "shared", "finalize"}

\* The work of a stage, one checkpoint each.
Item == {"services", "database", "files", "mail"}

StageItems(st) ==
    CASE st = "stop_services" -> <<"services">>
      [] st = "hosting"       -> <<"database", "files">>
      [] st = "shared"        -> <<"mail">>
      [] OTHER                -> << >>

Journal == [rev: Nat, done: SUBSET (Item \cup Stage), complete: BOOLEAN]

\* Every request of one operation carries the snapshot of websites it was
\* approved for.
ASSUME TeardownAssumption ==
    /\ Provided \subseteq Item /\ NoFile \notin Journal
    /\ \A r \in Request : r.mode = "remove" => r.op \in Op
    /\ \A q, r \in Request : q.mode = "remove" /\ r.mode = "remove" /\ q.op = r.op => q.ids = r.ids

NoJournal == [rev |-> 0, done |-> {}, complete |-> FALSE]

TInit ==
    /\ Init
    /\ journal = [o \in Op |-> NoFile]
    /\ stage = [p \in Proc |-> "none"]
    /\ copy = [p \in Proc |-> NoJournal]
    /\ at = [p \in Proc |-> "begin"]
    /\ host = {}

Removing(p) == call[p].mode = "remove"

\* Mutant of ReadJournal: the fresh journal starts below the first revision.
ReadJournalBelow(op, rev) ==
    IF journal[op] = NoFile THEN [rev |-> rev - 2, done |-> {}, complete |-> FALSE] ELSE journal[op]

\* readRemovalJournal: a missing file is a fresh journal of the request's
\* revision; a journal of a later revision refuses the request.
ReadJournal(op, rev) ==
    IF journal[op] = NoFile THEN [rev |-> rev, done |-> {}, complete |-> FALSE] ELSE journal[op]

Accepts(op, rev) == ReadJournal(op, rev).rev <= rev

WriteJournal(p, j) ==
    /\ copy' = [copy EXCEPT ![p] = j]
    /\ journal' = [journal EXCEPT ![call[p].op] = j]

-----------------------------------------------------------------------------
(* TeardownSite up to the work of its stage.                               *)

\* Mutant of StartTeardown: a removal takes itself for nested in a lease.
StartTeardownNested(p, r, st) ==
    /\ r.mode = "remove" /\ pc[p] = "idle"
    /\ call' = [call EXCEPT ![p] = r]
    /\ values' = [values EXCEPT ![p] = r.ids]
    /\ Goto(p, "lease")
    /\ stage' = [stage EXCEPT ![p] = st]
    /\ UNCHANGED <<siteRec, domRec, lock, idx, journal, copy, at, host>>

\* The first read of the journal holds no lock and is repeated under the lease.
\* A complete journal answers at once: the request changes nothing and is not
\* started here.
StartTeardown(p, r, st) ==
    /\ r.mode = "remove"
    /\ Accepts(r.op, r.rev) /\ ~ReadJournal(r.op, r.rev).complete
    /\ Start(p, r)
    /\ stage' = [stage EXCEPT ![p] = st]
    /\ UNCHANGED <<journal, copy, at, host>>

StartOther(p, r) ==
    /\ r.mode # "remove"
    /\ Start(p, r)
    /\ UNCHANGED tvars

\* The journal as read again under the lease.
Reread(p) == ReadJournal(call[p].op, call[p].rev)

\* Mutant of InOrder: finalize does not wait for the shared services.
InOrderFinalizeAny(st, done) ==
    /\ st = "hosting" => "stop_services" \in done
    /\ st = "shared" => "hosting" \in done

\* The stages before this one have their checkpoint.
InOrder(st, done) ==
    /\ st = "hosting" => "stop_services" \in done
    /\ st = "shared" => "hosting" \in done
    /\ st = "finalize" => "shared" \in done

AlreadyDone(p) ==
    /\ pc[p] = "lease" /\ Removing(p)
    /\ Accepts(call[p].op, call[p].rev)
    /\ Reread(p).complete \/ stage[p] \in Reread(p).done
    /\ Finish(p)
    /\ stage' = [stage EXCEPT ![p] = "none"]
    /\ copy' = [copy EXCEPT ![p] = NoJournal]
    /\ UNCHANGED <<journal, at, host>>

\* Mutant of Proceeds: only the order of the stages is tested.
ProceedsAgain(p) ==
    /\ Accepts(call[p].op, call[p].rev)
    /\ InOrder(stage[p], Reread(p).done)

\* The decisions between the second read and MarkRemoved or CompleteRemoval.
Proceeds(p) ==
    /\ Accepts(call[p].op, call[p].rev)
    /\ ~Reread(p).complete
    /\ stage[p] \notin Reread(p).done
    /\ InOrder(stage[p], Reread(p).done)

BeginStage(p) ==
    /\ Removing(p) /\ Proceeds(p)
    /\ \/ stage[p] = "finalize" /\ BeginComplete(p)
       \/ stage[p] # "finalize" /\ BeginMark(p)
    /\ copy' = [copy EXCEPT ![p] = Reread(p)]
    /\ UNCHANGED <<journal, stage, at, host>>

-----------------------------------------------------------------------------
(* The work of a stage, after MarkRemoved.                                 *)

WriteRevision(p) ==
    /\ pc[p] = "work" /\ Removing(p) /\ at[p] = "begin"
    /\ WriteJournal(p, [rev |-> call[p].rev, done |-> copy[p].done, complete |-> FALSE])
    /\ at' = [at EXCEPT ![p] = "items"]
    /\ UNCHANGED <<vars, stage, host>>

\* The items of the stage are done in order; removalCheckpoint skips the ones
\* an earlier attempt has recorded.
NextItem(p, item) ==
    \E i \in DOMAIN StageItems(stage[p]) :
        /\ StageItems(stage[p])[i] = item /\ item \notin copy[p].done
        /\ \A j \in 1..(i - 1) : StageItems(stage[p])[j] \in copy[p].done

Hostnames(p) == {call[p].ids[i].domain : i \in DOMAIN call[p].ids}

\* Mutant of RemoveItem: an item that could not be removed is recorded as removed.
RemoveItemLeaves(p) ==
    /\ pc[p] = "work" /\ Removing(p) /\ at[p] = "items"
    /\ \E item \in Item : NextItem(p, item)
    /\ at' = [at EXCEPT ![p] = "removed"]
    /\ UNCHANGED <<vars, journal, stage, copy, host>>

\* Removal goes by hostname and does not see whose content it finds there.
RemoveItem(p) ==
    /\ pc[p] = "work" /\ Removing(p) /\ at[p] = "items"
    /\ \E item \in Item :
         /\ NextItem(p, item)
         /\ host' = {h \in host : ~(h[1] \in Hostnames(p) /\ h[3] = item)}
    /\ at' = [at EXCEPT ![p] = "removed"]
    /\ UNCHANGED <<vars, journal, stage, copy>>

CheckpointItem(p) ==
    /\ pc[p] = "work" /\ Removing(p) /\ at[p] = "removed"
    /\ \E item \in Item :
         /\ NextItem(p, item)
         /\ WriteJournal(p, [rev |-> copy[p].rev, done |-> copy[p].done \cup {item}, complete |-> FALSE])
    /\ at' = [at EXCEPT ![p] = "items"]
    /\ UNCHANGED <<vars, stage, host>>

CheckpointStage(p) ==
    /\ pc[p] = "work" /\ Removing(p) /\ at[p] = "items"
    /\ \A item \in Item : ~NextItem(p, item)
    /\ WriteJournal(p, [rev |-> copy[p].rev, done |-> copy[p].done \cup {stage[p]}, complete |-> FALSE])
    /\ at' = [at EXCEPT ![p] = "end"]
    /\ UNCHANGED <<vars, stage, host>>

\* Finalize: CompleteRemoval has freed the hostnames, and only then the journal
\* becomes complete.
CompleteJournal(p) ==
    /\ pc[p] = "done" /\ Removing(p) /\ at[p] = "begin"
    /\ WriteJournal(p, [rev |-> call[p].rev, done |-> copy[p].done \cup {"finalize"}, complete |-> TRUE])
    /\ at' = [at EXCEPT ![p] = "end"]
    /\ UNCHANGED <<vars, stage, host>>

-----------------------------------------------------------------------------
(* The other requests.                                                     *)

\* An ordinary operation leaves something of the website on the host; a legacy
\* request works for whoever owns the hostname.
Provision(p) ==
    /\ pc[p] = "work" /\ call[p].mode \in {"existing", "create"}
    /\ \E i \in DOMAIN values[p], item \in Provided :
         LET id == values[p][i]
             owner == IF id.site # 0 THEN id.site ELSE Binding(id.domain).active
         IN  host' = host \cup {<<id.domain, owner, item>>}
    /\ UNCHANGED <<vars, journal, stage, copy, at>>

\* teardownSubscription removes the account's databases, services and files, of
\* every hostname it names; it has returned when nothing of them is left.
AccountItem == {"services", "database", "files"}

RemoveAccountItem(p) ==
    /\ pc[p] = "work" /\ call[p].mode = "account-remove"
    /\ \E d \in Hostnames(p), item \in AccountItem :
         host' = {h \in host : ~(h[1] = d /\ h[3] = item)}
    /\ UNCHANGED <<vars, journal, stage, copy, at>>

AccountRemoved(p) ==
    /\ \A h \in host : h[1] \in Hostnames(p) => h[3] \notin AccountItem
    /\ AccountTornDown(p)
    /\ UNCHANGED tvars

\* The registry's own steps.
RegistryStep(p) ==
    /\ \/ Resolve(p) \/ Acquire(p) \/ Locked(p) \/ Validate(p) \/ Register(p) \/ Bind(p)
       \/ Work(p) \/ BeginAccountRemoval(p) \/ SkipMark(p) \/ MarkSite(p) \/ MarkDomain(p)
       \/ CompleteSite(p) \/ ReleaseBinding(p)
    /\ UNCHANGED tvars

Forget(p) ==
    /\ stage' = [stage EXCEPT ![p] = "none"]
    /\ copy' = [copy EXCEPT ![p] = NoJournal]
    /\ at' = [at EXCEPT ![p] = "begin"]
    /\ UNCHANGED <<journal, host>>

FinishRequest(p) == Finish(p) /\ (Removing(p) => at[p] = "end") /\ Forget(p)

AbortRequest(p) == Abort(p) /\ Forget(p)

TStep(p) ==
    \/ RegistryStep(p) \/ AlreadyDone(p) \/ BeginStage(p)
    \/ WriteRevision(p) \/ RemoveItem(p) \/ CheckpointItem(p) \/ CheckpointStage(p)
    \/ CompleteJournal(p) \/ Provision(p) \/ RemoveAccountItem(p) \/ AccountRemoved(p)
    \/ FinishRequest(p) \/ AbortRequest(p)

TNext ==
    \E p \in Proc :
        \/ TStep(p)
        \/ \E r \in Request : StartOther(p, r) \/ \E st \in Stage : StartTeardown(p, r, st)

TSpec == TInit /\ [][TNext]_allVars

-----------------------------------------------------------------------------
(* Properties.                                                             *)

\* Type invariant of the journals, the requests at work on them and the host.
TTypeOK ==
    /\ journal \in [Op -> Journal \cup {NoFile}]
    /\ stage \in [Proc -> Stage \cup {"none"}]
    /\ copy \in [Proc -> Journal]
    /\ at \in [Proc -> {"begin", "items", "removed", "end"}]
    /\ host \subseteq Domain \X (Site \cup {0}) \X Item

\* A stage works on a hostname only while it belongs to the website being
\* removed: the journal's order of stages keeps a late or repeated request away
\* from a hostname that was released (TeardownSite: "Completed operations never
\* look up filesystem paths, including reused names").
StageOwnsHostnames ==
    \A p \in Proc : pc[p] = "work" /\ Removing(p) =>
        \A i \in DOMAIN call[p].ids :
            /\ Binding(call[p].ids[i].domain).active = call[p].ids[i].site
            /\ siteRec[call[p].ids[i].site].state = "removing"

\* Removal and account teardown, which both find content by hostname, never
\* take away what belongs to a website the request does not name.
OnlyTargetsAreRemoved ==
    [][\A h \in host \ host' :
         \E p \in Proc : \E i \in DOMAIN call[p].ids :
            /\ call[p].mode \in {"remove", "account-remove"}
            /\ h[1] = call[p].ids[i].domain /\ h[2] \in {0, call[p].ids[i].site}]_allVars

\* When a removal is final nothing of the website is left on the host, although
\* each item is removed once and skipped by every later attempt.
FinishedRemovalIsClean ==
    \A h \in host : h[2] # 0 =>
        ~(siteRec[h[2]].state = "removed" /\ siteRec[h[2]].kind = "site")

\* Every step of a removal is a step of the registry or leaves the registry
\* alone: TeardownSite only uses the registry's operations, under its leases.
RegistrySpec == Spec

\* The journal of an operation without the checkpoints of single items.
StagesOf(o) ==
    IF journal[o] = NoFile
    THEN [rev |-> 0, done |-> {}, complete |-> FALSE]
    ELSE [rev |-> journal[o].rev, done |-> journal[o].done \cap Stage, complete |-> journal[o].complete]

Agent(o) == INSTANCE RemovalAgent WITH agent <- StagesOf(o)

\* Concurrent, repeated and interrupted requests together behave like the agent
\* the control plane relies on: stages finish once and in order, revisions only
\* rise, and nothing follows completion.
AgentSpec ==
    /\ \A o \in Op : Agent(o)!AgentInit
    /\ [][\A o \in Op : Agent(o)!AgentNext \/ UNCHANGED StagesOf(o)]_journal
=============================================================================
