------------------------- MODULE SiteTeardownProofs -------------------------
(***************************************************************************)
(* Removal implements the registry, so what is proved of the registry      *)
(* holds of every removal (internal/agent/ops/teardown_site.go); and the   *)
(* journal, the leases and the tombstones together keep its cleanup on the *)
(* website that is being removed.                                          *)
(***************************************************************************)
EXTENDS SiteTeardown, SiteIdentityRegistryProofs

\* Every step of a request in the middle of a removal is a registry step of
\* the same request or does not touch the registry.
LEMMA StepRefines ==
    ASSUME NEW p \in Proc, TStep(p)
    PROVE  Step(p) \/ UNCHANGED vars
<1>1. CASE RegistryStep(p)
    BY Zenon, <1>1 DEF RegistryStep, Step
<1>2. CASE AlreadyDone(p)
    BY Zenon, <1>2 DEF AlreadyDone, Step
<1>3. CASE BeginStage(p)
    BY Zenon, <1>3 DEF BeginStage, Step
<1>4. CASE WriteRevision(p) \/ RemoveItem(p) \/ CheckpointItem(p) \/ CheckpointStage(p) \/ CompleteJournal(p)
    BY Zenon, <1>4 DEF WriteRevision, RemoveItem, CheckpointItem, CheckpointStage, CompleteJournal
<1>5. CASE Provision(p) \/ RemoveAccountItem(p)
    BY Zenon, <1>5 DEF Provision, RemoveAccountItem
<1>6. CASE AccountRemoved(p)
    BY Zenon, <1>6 DEF AccountRemoved, Step
<1>7. CASE FinishRequest(p) \/ AbortRequest(p)
    BY Zenon, <1>7 DEF FinishRequest, AbortRequest, Step
<1>8. QED
    BY Zenon, <1>1, <1>2, <1>3, <1>4, <1>5, <1>6, <1>7 DEF TStep

\* Every step of the teardown handler is a step of the registry or leaves it
\* unchanged (TeardownSite runs under the registry's removal lease).
LEMMA NextRefines == [TNext]_allVars => [Next]_vars
<1>1. ASSUME NEW p \in Proc, TStep(p) PROVE [Next]_vars
    BY Zenon, <1>1, StepRefines DEF Next
<1>2. ASSUME NEW p \in Proc, NEW r \in Request, StartOther(p, r) PROVE [Next]_vars
    BY Zenon, <1>2 DEF StartOther, Next
<1>3. ASSUME NEW p \in Proc, NEW r \in Request, NEW st \in Stage, StartTeardown(p, r, st)
      PROVE [Next]_vars
    BY Zenon, <1>3 DEF StartTeardown, Next
<1>4. CASE UNCHANGED allVars
    BY Zenon, <1>4 DEF allVars
<1>5. QED
    BY Zenon, <1>1, <1>2, <1>3, <1>4 DEF TNext

\* A removal, whatever stage it is in and wherever it is interrupted, is a
\* client of the registry: TeardownSite behaves as the registry allows.
THEOREM TeardownImplementsRegistry == TSpec => RegistrySpec
<1>1. TInit => Init
    BY Zenon DEF TInit
<1>2. QED
    BY <1>1, NextRefines, PTL DEF TSpec, RegistrySpec, Spec

\* While any stage of any removal runs, no other request holds a lease on its
\* websites or hostnames.
THEOREM TeardownIsExclusive == TSpec => []LeaseExclusion
    BY TeardownImplementsRegistry, LeasesExclude, PTL DEF RegistrySpec

\* Whatever the stages, retries and crashes of removals, a website removed
\* stays removed.
THEOREM TeardownIsFinal == TSpec => TombstonesAreFinal
    BY TeardownImplementsRegistry, TombstonesStayFinal, PTL DEF RegistrySpec
-----------------------------------------------------------------------------
(* What a record says of the removal that made it a tombstone.             *)

Websites(r) == {r.ids[i].site : i \in DOMAIN r.ids}

OwnsHostname(s) == Binding(siteRec[s].identity.domain).active = s

\* A record is written by a registration, by the beginning of a removal or by
\* its completion.
LEMMA RecordMoves ==
    ASSUME IndInv, [Next]_vars, NEW s \in Site
    PROVE  \/ siteRec'[s] = siteRec[s]
           \/ \E p \in Proc : Register(p) /\ s = Current(p).site
           \/ \E p \in Proc : MarkSite(p) /\ s = Id(p).site
           \/ \E p \in Proc : CompleteSite(p) /\ s = Id(p).site
<1> SUFFICES ASSUME siteRec'[s] # siteRec[s]
             PROVE  \E p \in Proc : \/ Register(p) /\ s = Current(p).site
                                    \/ MarkSite(p) /\ s = Id(p).site
                                    \/ CompleteSite(p) /\ s = Id(p).site
    BY Zenon
<1>1. \E p \in Proc : Register(p) \/ MarkSite(p) \/ CompleteSite(p)
    BY FileSteps, Zenon DEF Bind, MarkDomain, ReleaseBinding
<1>2. PICK p \in Proc : Register(p) \/ MarkSite(p) \/ CompleteSite(p)
    BY Zenon, <1>1
<1>3. Register(p) => s = Current(p).site
    BY RegisterEffect, Zenon
<1>4. MarkSite(p) => s = Id(p).site
    <2>1. MarkSite(p) => \A t \in Site : t # Id(p).site => siteRec'[t] = siteRec[t]
        BY MarkSiteEffect
    <2>2. QED
        BY Zenon, <2>1
<1>5. CompleteSite(p) => s = Id(p).site
    <2>1. CompleteSite(p) => \A t \in Site : t # Id(p).site => siteRec'[t] = siteRec[t]
        BY CompleteSiteEffect
    <2>2. QED
        BY Zenon, <2>1
<1>6. QED
    BY <1>2, <1>3, <1>4, <1>5, Zenon

\* A hostname's owner changes only where a free hostname is claimed, or where
\* the completion of a removal frees it.
LEMMA OwnerMoves ==
    ASSUME IndInv, [Next]_vars, NEW d \in Domain
    PROVE  \/ Binding(d)'.active = Binding(d).active
           \/ Binding(d).active = 0
           \/ \E p \in Proc : ReleaseBinding(p) /\ d = Id(p).domain /\ Binding(d).active = Id(p).site
<1> SUFFICES ASSUME Binding(d)'.active # Binding(d).active, Binding(d).active # 0
             PROVE  \E p \in Proc : ReleaseBinding(p) /\ d = Id(p).domain /\ Binding(d).active = Id(p).site
    BY Zenon
<1>1. domRec' # domRec
    BY Zenon, BindingFrame
<1>2. \E p \in Proc : Bind(p) \/ MarkDomain(p) \/ ReleaseBinding(p)
    BY <1>1, FileSteps, Zenon DEF Register, MarkSite, CompleteSite
<1>3. PICK p \in Proc : Bind(p) \/ MarkDomain(p) \/ ReleaseBinding(p)
    BY Zenon, <1>2
<1>4. ~Bind(p)
    BY Zenon, BindEffect
<1>5. ~MarkDomain(p)
    BY Zenon, MarkDomainEffect
<1>6. ReleaseBinding(p)
    BY Zenon, <1>3, <1>4, <1>5
<1>7. d = Id(p).domain /\ Binding(d).active = Id(p).site
    BY Zenon, <1>6, ReleaseEffect
<1>8. QED
    BY Zenon, <1>6, <1>7

\* What a removal knows of the website its loop is at: it holds the website's
\* lease, and a tombstone there is its own.
LEMMA RemovalAt ==
    ASSUME IndInv, NEW p \in Proc, pc[p] \in {"mark", "markDomain", "complete", "release"},
           NEW s, s = Id(p).site
    PROVE  /\ s \in Site /\ s # 0 /\ siteRec[s] # NoFile
           /\ siteRec[s].identity.domain = Id(p).domain /\ Id(p).domain \in Domain
           /\ s \in Websites(call[p]) /\ call[p] \in Request
           /\ call[p].mode \in {"remove", "account-remove"}
           /\ siteRec[s].state = "active" => OwnsHostname(s)
           /\ siteRec[s].state # "active" => ResumesRemoval(p, siteRec[s])
           /\ pc[p] = "release" => siteRec[s].state = "removed"
<1>1. /\ call[p] \in Request /\ call[p].mode \in {"remove", "account-remove"}
      /\ idx[p] \in DOMAIN values[p] /\ s \in Site /\ Id(p).domain \in Domain
      /\ values[p][idx[p]].site = s /\ values[p][idx[p]].domain = Id(p).domain
    BY Zenon, RemovalIdTyped DEF IndInv
<1>2. s # 0
    BY Zenon, <1>1, ConstantsAssumption
<1>3. pc[p] \in Leased
    BY Zenon DEF Leased
<1>4. Established(p, values[p][idx[p]])
    BY Zenon, <1>1, <1>3 DEF IndInv, ValidatedInv, ValidatedAt
<1>5. /\ siteRec[s] # NoFile /\ siteRec[s].identity.domain = Id(p).domain
      /\ siteRec[s].state = "active" => Binding(Id(p).domain).active = s
      /\ siteRec[s].state # "active" => ResumesRemoval(p, siteRec[s])
    BY Zenon, <1>1, <1>2, <1>4 DEF Established
<1>6. idx[p] \in DOMAIN call[p].ids
    BY <1>1, IdTyped DEF IndInv, Looping
<1>7. s \in Websites(call[p])
    BY Zenon, <1>6 DEF Websites, Id
<1>8. pc[p] = "release" => siteRec[s].state = "removed"
    BY Zenon, <1>1 DEF IndInv, CompletedInv, CompletedAt
<1>9. QED
    BY Zenon, <1>1, <1>2, <1>5, <1>7, <1>8 DEF OwnsHostname

\* Only a tombstone is completed.
LEMMA CompletesTombstone ==
    ASSUME IndInv, NEW p \in Proc, CompleteSite(p)
    PROVE  siteRec[Id(p).site].state # "active"
<1>1. pc[p] = "complete" /\ (call[p].mode = "remove" => siteRec[Id(p).site].state # "active")
    BY Zenon DEF CompleteSite
<1>2. /\ call[p].mode \in {"remove", "account-remove"} /\ idx[p] \in DOMAIN values[p]
      /\ values[p][idx[p]].site = Id(p).site
    BY Zenon, <1>1, RemovalIdTyped DEF IndInv
<1>3. QED
    BY Zenon, <1>1, <1>2 DEF IndInv, MarkedInv, MarkedAt
\* A tombstone was requested: by a removal of the website, or by a removal of
\* its account, whose operation it carries.  An active record carries none.
RemovalsAreRequested ==
    \A s \in Site : siteRec[s] # NoFile =>
        /\ siteRec[s].state = "active" => siteRec[s].kind = "site"
        /\ siteRec[s].state # "active" =>
             \E r \in Request :
                /\ r.mode = IF siteRec[s].kind = "site" THEN "remove" ELSE "account-remove"
                /\ r.op = siteRec[s].op /\ s \in Websites(r)

LEMMA RequestedStep ==
    IndInv /\ RemovalsAreRequested /\ [Next]_vars => RemovalsAreRequested'
<1> SUFFICES ASSUME IndInv, RemovalsAreRequested, [Next]_vars,
                    NEW s \in Site, siteRec'[s] # NoFile
             PROVE  /\ siteRec'[s].state = "active" => siteRec'[s].kind = "site"
                    /\ siteRec'[s].state # "active" =>
                         \E r \in Request :
                            /\ r.mode = IF siteRec'[s].kind = "site" THEN "remove" ELSE "account-remove"
                            /\ r.op = siteRec'[s].op /\ s \in Websites(r)
    BY Zenon DEF RemovalsAreRequested, Websites
<1>1. CASE siteRec'[s] = siteRec[s]
    BY <1>1, Zenon DEF RemovalsAreRequested
<1>2. ASSUME NEW p \in Proc, Register(p), s = Current(p).site
      PROVE  siteRec'[s].state = "active" /\ siteRec'[s].kind = "site"
    BY Zenon, <1>2 DEF Register, IndInv, TypeOK
<1>3. ASSUME NEW p \in Proc, MarkSite(p), s = Id(p).site
      PROVE  /\ siteRec'[s].state = "removing" /\ siteRec'[s].op = call[p].op
             /\ call[p].mode = IF siteRec'[s].kind = "site" THEN "remove" ELSE "account-remove"
             /\ s \in Websites(call[p]) /\ call[p] \in Request
    <2>1. siteRec'[s].state = "removing" /\ siteRec'[s].op = call[p].op /\ siteRec'[s].kind = RemovalKind(p)
        BY Zenon, <1>3, MarkSiteEffect
    <2>2. pc[p] = "mark"
        BY Zenon, <1>3 DEF MarkSite
    <2>3. s \in Websites(call[p]) /\ call[p] \in Request /\ call[p].mode \in {"remove", "account-remove"}
        BY Zenon, <1>3, <2>2, RemovalAt
    <2>4. QED
        BY Zenon, <2>1, <2>3 DEF RemovalKind
<1>4. ASSUME NEW p \in Proc, CompleteSite(p), s = Id(p).site
      PROVE  /\ siteRec[s] # NoFile /\ siteRec[s].state # "active" /\ siteRec'[s].state = "removed"
             /\ siteRec'[s].op = siteRec[s].op /\ siteRec'[s].kind = siteRec[s].kind
    BY Zenon, <1>4, CompleteSiteEffect, CompletesTombstone
<1>5. QED
    <2>1. CASE \E p \in Proc : Register(p) /\ s = Current(p).site
        BY Zenon, <1>2, <2>1
    <2>2. CASE \E p \in Proc : MarkSite(p) /\ s = Id(p).site
        BY <1>3, <2>2, Zenon
    <2>3. CASE \E p \in Proc : CompleteSite(p) /\ s = Id(p).site
        <3>1. /\ siteRec[s] # NoFile /\ siteRec[s].state # "active" /\ siteRec'[s].state = "removed"
              /\ siteRec'[s].op = siteRec[s].op /\ siteRec'[s].kind = siteRec[s].kind
            BY Zenon, <1>4, <2>3
        <3>2. siteRec'[s].state # "active"
            BY Zenon, <3>1
        <3>3. QED
            BY <3>1, <3>2, Zenon DEF RemovalsAreRequested
    <2>4. QED
        BY <1>1, <2>1, <2>2, <2>3, RecordMoves, Zenon

\* A website being removed on its own keeps its hostname until its record is
\* final.
RemovedWebsitesOwn ==
    \A s \in Site : siteRec[s] # NoFile /\ siteRec[s].kind = "site" /\ siteRec[s].state = "removing" =>
        OwnsHostname(s)

\* A hostname is not freed before the record of its owner is final.
LEMMA OwnerKept ==
    ASSUME IndInv, [Next]_vars, NEW s \in Site, siteRec[s] # NoFile, OwnsHostname(s),
           siteRec[s].state # "removed", NEW d, d = siteRec[s].identity.domain
    PROVE  Binding(d)'.active = s
<1>2. d \in Domain
    BY Zenon DEF IndInv, TypeOK, SiteRecord, Identity
<1>3. Binding(d).active = s /\ s # 0
    BY Zenon, ConstantsAssumption DEF OwnsHostname
<1>4. ASSUME NEW p \in Proc, ReleaseBinding(p), Id(p).site = s PROVE FALSE
    BY Zenon, <1>4, RemovalAt DEF ReleaseBinding
<1>5. QED
    BY Zenon, <1>2, <1>3, <1>4, OwnerMoves

LEMMA RemovedWebsitesStep ==
    IndInv /\ RemovedWebsitesOwn /\ [Next]_vars => RemovedWebsitesOwn'
<1> SUFFICES ASSUME IndInv, RemovedWebsitesOwn, [Next]_vars, NEW s \in Site,
                    siteRec'[s] # NoFile, siteRec'[s].kind = "site", siteRec'[s].state = "removing"
             PROVE  OwnsHostname(s)'
    BY Zenon DEF RemovedWebsitesOwn, OwnsHostname, Binding
<1>1. SUFFICES /\ siteRec[s] # NoFile /\ siteRec[s].state # "removed" /\ OwnsHostname(s)
               /\ siteRec'[s].identity = siteRec[s].identity
    <2>1. PICK d : d = siteRec[s].identity.domain
        BY Zenon
    <2>2. Binding(d)'.active = s /\ d = siteRec'[s].identity.domain
        BY Zenon, <1>1, <2>1, OwnerKept
    <2>3. QED
        BY Zenon, <2>2 DEF OwnsHostname, Binding
<1>2. CASE siteRec'[s] = siteRec[s]
    BY Zenon, <1>2 DEF RemovedWebsitesOwn
<1>3. ASSUME NEW p \in Proc, Register(p), s = Current(p).site PROVE FALSE
    BY Zenon, <1>3 DEF Register, IndInv, TypeOK
<1>4. ASSUME NEW p \in Proc, CompleteSite(p), s = Id(p).site PROVE FALSE
    BY Zenon, <1>4, CompleteSiteEffect
<1>5. ASSUME NEW p \in Proc, MarkSite(p), s = Id(p).site
      PROVE  /\ siteRec[s] # NoFile /\ siteRec[s].state # "removed" /\ OwnsHostname(s)
             /\ siteRec'[s].identity = siteRec[s].identity
    <2>1. siteRec'[s].identity = siteRec[s].identity /\ siteRec'[s].kind = RemovalKind(p)
        BY Zenon, <1>5, MarkSiteEffect
    <2>2. /\ siteRec[s] # NoFile /\ call[p].mode \in {"remove", "account-remove"}
          /\ siteRec[s].state = "active" => OwnsHostname(s)
          /\ siteRec[s].state # "active" => ResumesRemoval(p, siteRec[s])
        BY Zenon, <1>5, RemovalAt DEF MarkSite
    <2>3. call[p].mode = "remove"
        BY Zenon, <2>1, <2>2 DEF RemovalKind
    <2>4. siteRec[s].state \in {"active", "removing"}
        BY Zenon, <1>5, <2>3 DEF MarkSite
    <2>5. siteRec[s].state = "removing" => siteRec[s].kind = "site"
        BY Zenon, <2>2, <2>3 DEF ResumesRemoval, RemovalKind
    <2>6. QED
        BY Zenon, <2>1, <2>2, <2>4, <2>5 DEF RemovedWebsitesOwn
<1>6. QED
    BY Zenon, <1>2, <1>3, <1>4, <1>5, RecordMoves

\* Both hold of the registry whatever it is asked.
LEMMA RemovalRecords == Spec => [](RemovalsAreRequested /\ RemovedWebsitesOwn)
<1>1. Init => RemovalsAreRequested /\ RemovedWebsitesOwn
    BY Zenon DEF Init, RemovalsAreRequested, RemovedWebsitesOwn
<1>2. QED
    BY <1>1, RequestedStep, RemovedWebsitesStep, Inductive, PTL DEF Spec
-----------------------------------------------------------------------------
(* Who writes what.                                                        *)

TMoves(p) ==
    \/ TStep(p)
    \/ \E r \in Request : StartOther(p, r) \/ \E st \in Stage : StartTeardown(p, r, st)

\* A step of one request leaves alone what another one keeps.
LEMMA OtherTeardowns ==
    ASSUME TypeOK, TTypeOK, NEW p \in Proc, NEW q \in Proc, q # p, TMoves(q)
    PROVE  /\ pc'[p] = pc[p] /\ idx'[p] = idx[p] /\ values'[p] = values[p] /\ call'[p] = call[p]
           /\ stage'[p] = stage[p] /\ copy'[p] = copy[p] /\ at'[p] = at[p]
<1>1. Moves(q) \/ UNCHANGED vars
    BY Zenon, StepRefines DEF TMoves, Moves, StartOther, StartTeardown
<1>2. pc'[p] = pc[p] /\ idx'[p] = idx[p] /\ values'[p] = values[p] /\ call'[p] = call[p]
    <2>1. CASE Moves(q)
        BY Zenon, <2>1, OtherUnmoved
    <2>2. CASE UNCHANGED vars
        BY Zenon, <2>2 DEF vars
    <2>3. QED
        BY Zenon, <1>1, <2>1, <2>2
<1>3. CASE UNCHANGED tvars
    BY Zenon, <1>2, <1>3 DEF tvars
<1>4. CASE AlreadyDone(q) \/ BeginStage(q) \/ FinishRequest(q) \/ AbortRequest(q)
    BY Zenon, <1>2, <1>4 DEF AlreadyDone, BeginStage, FinishRequest, AbortRequest, Forget, TTypeOK
<1>5. CASE WriteRevision(q) \/ CheckpointItem(q) \/ CheckpointStage(q) \/ CompleteJournal(q)
    BY <1>2, <1>5, Zenon DEF WriteRevision, CheckpointItem, CheckpointStage, CompleteJournal, WriteJournal, TTypeOK
<1>6. CASE RemoveItem(q) \/ Provision(q) \/ RemoveAccountItem(q)
    BY Zenon, <1>2, <1>6 DEF RemoveItem, Provision, RemoveAccountItem, TTypeOK
<1>7. CASE \E r \in Request : \E st \in Stage : StartTeardown(q, r, st)
    BY Zenon, <1>2, <1>7 DEF StartTeardown, TTypeOK
<1>8. QED
    BY Zenon, <1>3, <1>4, <1>5, <1>6, <1>7 DEF TMoves, TStep, RegistryStep, StartOther, AccountRemoved

\* The journal is written by the checkpoints of a stage and by the completion.
Writes(p) == WriteRevision(p) \/ CheckpointItem(p) \/ CheckpointStage(p) \/ CompleteJournal(p)

LEMMA JournalMoves ==
    ASSUME NEW p \in Proc, TMoves(p)
    PROVE  journal' = journal \/ Writes(p)
BY Zenon DEF TMoves, TStep, Writes, RegistryStep, AlreadyDone, BeginStage, RemoveItem, Provision, RemoveAccountItem,
       AccountRemoved, FinishRequest, AbortRequest, Forget, StartOther, StartTeardown, tvars

\* Content appears on the host only by an ordinary operation.
LEMMA HostMoves ==
    ASSUME NEW p \in Proc, TMoves(p)
    PROVE  host' \subseteq host \/ Provision(p)
<1>1. CASE RemoveItem(p) \/ RemoveAccountItem(p)
    BY Zenon, <1>1 DEF RemoveItem, RemoveAccountItem
<1>2. CASE ~(RemoveItem(p) \/ RemoveAccountItem(p) \/ Provision(p))
    <2>1. host' = host
        BY <1>2, Zenon DEF TMoves, TStep, RegistryStep, AlreadyDone, BeginStage, WriteRevision, CheckpointItem,
               CheckpointStage, CompleteJournal, AccountRemoved, FinishRequest, AbortRequest, Forget,
               StartOther, StartTeardown, tvars
    <2>2. QED
        BY Zenon, <2>1
<1>3. QED
    BY Zenon, <1>1, <1>2

\* A removal request is one the control plane may send.
LEMMA RemovingTyped ==
    ASSUME TypeOK, NEW p \in Proc, Removing(p)
    PROVE  call[p] \in Request /\ call[p].op \in Op /\ call[p].rev \in Nat
<1>1. call[p] \in Request
    BY DEF TypeOK, Removing, NoRequest
<1>2. QED
    BY Zenon, <1>1, TeardownAssumption, RequestAssumption DEF Removing
\* Where a request is inside the work of its stage.
StageAt(p) ==
    /\ Removing(p) => stage[p] \in Stage
    /\ Removing(p) /\ pc[p] \in {"mark", "markDomain", "work"} => stage[p] # "finalize"
    /\ Removing(p) /\ pc[p] \in {"complete", "release", "done"} => stage[p] = "finalize"
    /\ at[p] # "begin" => Removing(p) /\ pc[p] \in {"work", "done"}

StagePhase == \A p \in Proc : StageAt(p)

\* Journals, requests and the host stay well formed.
LEMMA TeardownTypeStep ==
    ASSUME IndInv, TTypeOK, StagePhase, NEW p \in Proc, TMoves(p)
    PROVE  TTypeOK'
<1> USE DEF TTypeOK
<1>1. CASE UNCHANGED tvars
    BY Zenon, <1>1 DEF tvars
<1>2. CASE AlreadyDone(p) \/ FinishRequest(p) \/ AbortRequest(p)
    <2>1. NoJournal \in Journal
        BY Zenon DEF NoJournal, Journal
    <2>2. /\ stage' = [stage EXCEPT ![p] = "none"] /\ copy' = [copy EXCEPT ![p] = NoJournal]
          /\ journal' = journal /\ host' = host
          /\ at' = at \/ at' = [at EXCEPT ![p] = "begin"]
        BY <1>2, Zenon DEF AlreadyDone, FinishRequest, AbortRequest, Forget
    <2>3. QED
        BY Zenon, <2>1, <2>2
<1>3. CASE BeginStage(p)
    <2>1. call[p].op \in Op /\ call[p].rev \in Nat
        BY Zenon, <1>3, RemovingTyped DEF IndInv, BeginStage
    <2>2. Reread(p) \in Journal
        BY Zenon, <2>1 DEF Reread, ReadJournal, Journal
    <2>3. QED
        BY Zenon, <1>3, <2>2 DEF BeginStage
<1>4. CASE Writes(p)
    <2>1. Removing(p)
        BY Zenon, <1>4 DEF Writes, WriteRevision, CheckpointItem, CheckpointStage, CompleteJournal
    <2>2. call[p].op \in Op /\ call[p].rev \in Nat /\ copy[p] \in Journal
        BY Zenon, <2>1, RemovingTyped DEF IndInv
    <2>3. copy[p].rev \in Nat /\ copy[p].done \subseteq Item \cup Stage
        BY Zenon, <2>2 DEF Journal
    <2>4. stage[p] \in Stage
        BY Zenon, <2>1 DEF StagePhase, StageAt
    <2>5. PICK j \in Journal : WriteJournal(p, j)
        <3>1. CASE WriteRevision(p)
            BY <2>2, <2>3, <3>1, Zenon DEF WriteRevision, Journal
        <3>2. CASE CheckpointItem(p)
            BY <2>2, <2>3, <3>2, Zenon DEF CheckpointItem, Journal
        <3>3. CASE CheckpointStage(p)
            BY <2>2, <2>3, <2>4, <3>3, Zenon DEF CheckpointStage, Journal
        <3>4. CASE CompleteJournal(p)
            BY <2>2, <2>3, <3>4, Zenon DEF CompleteJournal, Journal, Stage
        <3>5. QED
            BY Zenon, <1>4, <3>1, <3>2, <3>3, <3>4 DEF Writes
    <2>6. copy' \in [Proc -> Journal] /\ journal' \in [Op -> Journal \cup {NoFile}]
        BY Zenon, <2>2, <2>5 DEF WriteJournal
    <2>7. /\ stage' = stage /\ host' = host
          /\ \E l \in {"items", "end"} : at' = [at EXCEPT ![p] = l]
        BY <1>4, Zenon DEF Writes, WriteRevision, CheckpointItem, CheckpointStage, CompleteJournal
    <2>8. QED
        BY Zenon, <2>6, <2>7
<1>5. CASE RemoveItem(p) \/ RemoveAccountItem(p)
    BY Zenon, <1>5 DEF RemoveItem, RemoveAccountItem
<1>6. CASE Provision(p)
    <2>1. PICK i \in DOMAIN values[p], item \in Provided :
              host' = host \cup {<<values[p][i].domain,
                                   IF values[p][i].site # 0 THEN values[p][i].site
                                   ELSE Binding(values[p][i].domain).active, item>>}
        BY Zenon, <1>6 DEF Provision
    <2>2. values[p][i] \in Identity
        BY DEF IndInv, TypeOK
    <2>3. values[p][i].domain \in Domain /\ values[p][i].site \in Site \cup {0} /\ item \in Item
        BY Zenon, <2>2, TeardownAssumption DEF Identity
    <2>4. Binding(values[p][i].domain).active \in Site \cup {0}
        BY Zenon, <2>3, BindingTyped DEF IndInv, DomainRecord
    <2>5. QED
        BY <1>6, <2>1, <2>3, <2>4 DEF Provision
<1>7. CASE \E r \in Request : \E st \in Stage : StartTeardown(p, r, st)
    BY Zenon, <1>7 DEF StartTeardown
<1>8. QED
    BY <1>1, <1>2, <1>3, <1>4, <1>5, <1>6, <1>7, Zenon
       DEF TMoves, TStep, Writes, RegistryStep, StartOther, AccountRemoved
\* The labels a registry step of a removal leads to.
LEMMA RegistryLabels ==
    ASSUME IndInv, NEW p \in Proc, RegistryStep(p)
    PROVE  /\ call' = call /\ journal' = journal /\ stage' = stage /\ copy' = copy /\ at' = at /\ host' = host
           /\ \/ pc[p] \in {"resolve", "lock", "validate"} /\ pc'[p] \in {"resolve", "lock", "validate", "lease"}
              \/ ~Removing(p) /\ pc[p] = "lease"
              \/ pc[p] \in {"mark", "markDomain"} /\ pc'[p] \in {"mark", "markDomain", "work"}
              \/ pc[p] \in {"complete", "release"} /\ pc'[p] \in {"complete", "release", "done"}
<1>1. journal' = journal /\ stage' = stage /\ copy' = copy /\ at' = at /\ host' = host
    BY Zenon DEF RegistryStep, tvars
<1>2. CASE Resolve(p) \/ Validate(p) \/ Bind(p)
    <2>1. call' = call /\ pc[p] \in {"resolve", "validate"}
        BY Zenon, <1>2 DEF Resolve, Validate, Bind
    <2>2. pc'[p] \in {"resolve", "lock", "validate", "lease"}
        BY Zenon, <1>2, NextIdentityEffect, Labels DEF Resolve, Validate, Bind, IndInv
    <2>3. QED
        BY Zenon, <1>1, <2>1, <2>2
<1>3. CASE Acquire(p) \/ Locked(p) \/ Register(p)
    BY Zenon, <1>1, <1>3 DEF Acquire, Locked, Register, Goto, IndInv, TypeOK
<1>4. CASE Work(p) \/ BeginAccountRemoval(p)
    BY Zenon, <1>1, <1>4 DEF Work, BeginAccountRemoval, Removing
<1>5. CASE SkipMark(p) \/ MarkDomain(p) \/ CompleteSite(p) \/ ReleaseBinding(p)
    <2>1. call' = call
        BY Zenon, <1>5 DEF SkipMark, MarkDomain, CompleteSite, ReleaseBinding
    <2>2. CASE SkipMark(p) \/ MarkDomain(p)
        <3>1. pc[p] \in {"mark", "markDomain"} /\ pc'[p] \in {"mark", "work"}
            BY <2>2, NextIdentityEffect, Labels DEF SkipMark, MarkDomain, IndInv
        <3>2. QED
            BY Zenon, <1>1, <2>1, <3>1
    <2>3. CASE CompleteSite(p) \/ ReleaseBinding(p)
        <3>1. pc[p] \in {"complete", "release"} /\ pc'[p] \in {"complete", "release", "done"}
            BY <2>3, NextIdentityEffect, Labels DEF CompleteSite, ReleaseBinding, IndInv
        <3>2. QED
            BY Zenon, <1>1, <2>1, <3>1
    <2>4. QED
        BY Zenon, <1>5, <2>2, <2>3
<1>6. CASE MarkSite(p)
    BY Zenon, <1>1, <1>6 DEF MarkSite, Goto, IndInv, TypeOK
<1>7. QED
    BY <1>2, <1>3, <1>4, <1>5, <1>6, Zenon DEF RegistryStep

\* A request that returns forgets its stage.
LEMMA Returned ==
    ASSUME IndInv, TTypeOK, StagePhase, NEW p \in Proc,
           AlreadyDone(p) \/ FinishRequest(p) \/ AbortRequest(p)
    PROVE  ~Removing(p)' /\ pc'[p] = "idle" /\ at'[p] = "begin" /\ journal' = journal
<1>1. Return(p)
    BY Zenon DEF AlreadyDone, FinishRequest, AbortRequest, Finish, Abort
<1>2. pc'[p] = "idle" /\ call'[p] = NoRequest
    BY Zenon, <1>1 DEF Return, Goto, IndInv, TypeOK
<1>3. at'[p] = "begin" /\ journal' = journal
    <2>1. CASE AlreadyDone(p)
        BY Zenon, <2>1 DEF AlreadyDone, StagePhase, StageAt
    <2>2. CASE FinishRequest(p) \/ AbortRequest(p)
        BY Zenon, <2>2 DEF FinishRequest, AbortRequest, Forget, TTypeOK
    <2>3. QED
        BY Zenon, <2>1, <2>2
<1>4. QED
    BY <1>2, <1>3 DEF Removing, NoRequest

LEMMA StageStep ==
    ASSUME IndInv, TTypeOK, StagePhase, NEW p \in Proc, TMoves(p)
    PROVE  StagePhase'
<1> SUFFICES ASSUME NEW q \in Proc PROVE StageAt(q)'
    BY Zenon DEF StagePhase
<1>0. StageAt(q) /\ StageAt(p)
    BY Zenon DEF StagePhase
<1>1. CASE q # p
    <2>1. /\ pc'[q] = pc[q] /\ call'[q] = call[q] /\ stage'[q] = stage[q] /\ at'[q] = at[q]
        BY Zenon, <1>1, OtherTeardowns DEF IndInv
    <2>2. QED
        BY Zenon, <1>0, <2>1 DEF StageAt, Removing
<1>2. ASSUME RegistryStep(p) PROVE StageAt(p)'
    <2>1. /\ call' = call /\ stage' = stage /\ at' = at
          /\ \/ pc[p] \in {"resolve", "lock", "validate"} /\ pc'[p] \in {"resolve", "lock", "validate", "lease"}
             \/ ~Removing(p) /\ pc[p] = "lease"
             \/ pc[p] \in {"mark", "markDomain"} /\ pc'[p] \in {"mark", "markDomain", "work"}
             \/ pc[p] \in {"complete", "release"} /\ pc'[p] \in {"complete", "release", "done"}
        BY Zenon, <1>2, RegistryLabels
    <2>2. QED
        BY Zenon, <1>0, <2>1 DEF StageAt, Removing
<1>3. ASSUME AlreadyDone(p) \/ FinishRequest(p) \/ AbortRequest(p) PROVE StageAt(p)'
    BY Zenon, <1>3, Returned DEF StageAt
<1>4. ASSUME BeginStage(p) PROVE StageAt(p)'
    <2>1. /\ pc[p] = "lease" /\ call' = call /\ stage' = stage /\ at' = at /\ Removing(p)
          /\ pc'[p] = IF stage[p] = "finalize" THEN "complete" ELSE "mark"
        BY Zenon, <1>4 DEF BeginStage, BeginComplete, BeginMark, Goto, IndInv, TypeOK
    <2>2. QED
        BY Zenon, <1>0, <2>1 DEF StageAt, Removing
<1>5. ASSUME Writes(p) \/ RemoveItem(p) PROVE StageAt(p)'
    <2>1. /\ pc[p] \in {"work", "done"} /\ Removing(p) /\ pc' = pc /\ call' = call /\ stage' = stage
        BY <1>5, Zenon DEF Writes, WriteRevision, CheckpointItem, CheckpointStage, CompleteJournal, RemoveItem, vars
    <2>2. QED
        BY Zenon, <1>0, <2>1 DEF StageAt, Removing
<1>6. ASSUME Provision(p) \/ RemoveAccountItem(p) PROVE StageAt(p)'
    <2>1. pc' = pc /\ call' = call /\ stage' = stage /\ at' = at
        BY <1>6, Zenon DEF Provision, RemoveAccountItem, vars
    <2>2. QED
        BY Zenon, <1>0, <2>1 DEF StageAt, Removing
<1>7. ASSUME AccountRemoved(p) PROVE StageAt(p)'
    <2>1. call' = call /\ stage' = stage /\ at' = at /\ ~Removing(p)
        BY <1>7, Zenon DEF AccountRemoved, AccountTornDown, Removing, tvars
    <2>2. QED
        BY Zenon, <1>0, <2>1 DEF StageAt, Removing
<1>8. ASSUME NEW r \in Request, StartOther(p, r) PROVE StageAt(p)'
    <2>1. pc[p] = "idle" /\ call'[p] = r /\ at' = at /\ r.mode # "remove"
        BY Zenon, <1>8 DEF StartOther, Start, tvars, IndInv, TypeOK
    <2>2. QED
        BY Zenon, <1>0, <2>1 DEF StageAt, Removing
<1>9. ASSUME NEW r \in Request, NEW st \in Stage, StartTeardown(p, r, st) PROVE StageAt(p)'
    <2>1. /\ pc[p] = "idle" /\ at' = at /\ stage'[p] = st
          /\ pc'[p] \in {"lock", "resolve"}
        BY Zenon, <1>9 DEF StartTeardown, Start, Goto, IndInv, TypeOK, TTypeOK
    <2>2. QED
        BY Zenon, <1>0, <2>1 DEF StageAt
<1>10. QED
    BY <1>1, <1>2, <1>3, <1>4, <1>5, <1>6, <1>7, <1>8, <1>9, Zenon DEF TMoves, TStep, Writes
-----------------------------------------------------------------------------
(* The journal.  A request reads it under its lease and writes it back from *)
(* memory: no other request of the operation may write it in between.       *)

Begun == {"mark", "markDomain", "work", "complete", "release", "done"}

\* What a request holds in memory is the journal, up to the revision it has
\* still to write, and it has the checkpoints that its stage waits for.
CopyAt(p) ==
    Removing(p) /\ pc[p] \in Begun =>
        /\ at[p] = "begin" => copy[p] = Reread(p)
        /\ at[p] # "begin" => journal[call[p].op] = copy[p] /\ copy[p].rev = call[p].rev
        /\ at[p] # "end" =>
             /\ copy[p].rev <= call[p].rev /\ copy[p].complete = FALSE
             /\ stage[p] \notin copy[p].done /\ InOrder(stage[p], copy[p].done)

CopyInv == \A p \in Proc : CopyAt(p)

\* A finished stage has the checkpoints of its items and of the stages before
\* it, and only the last stage completes the journal.
Closed(j) ==
    /\ "stop_services" \in j.done => "services" \in j.done
    /\ "hosting" \in j.done => {"stop_services", "database", "files"} \subseteq j.done
    /\ "shared" \in j.done => {"hosting", "mail"} \subseteq j.done
    /\ "finalize" \in j.done => "shared" \in j.done
    /\ j.complete <=> "finalize" \in j.done

JournalsAreClosed == \A o \in Op : journal[o] # NoFile => Closed(journal[o])

\* Requests of one operation name the same websites, so that one of them works
\* at a time.
LEMMA OneAtWork ==
    ASSUME IndInv, NEW p \in Proc, NEW q \in Proc, Removing(p), Removing(q),
           pc[p] \in Working, pc[q] \in Working, call[p].op = call[q].op
    PROVE  p = q
<1>1. call[p] \in Request /\ call[q] \in Request
    BY Zenon, RemovingTyped DEF IndInv
<1>2. call[p].ids = call[q].ids /\ call[p].ids # << >> /\ call[p].ids \in Seq(Identity)
    BY Zenon, <1>1, TeardownAssumption, RequestAssumption DEF Removing
<1>3. /\ Len(values[p]) = Len(call[p].ids) /\ Len(values[q]) = Len(call[q].ids)
      /\ values[p] \in Seq(Identity) /\ values[q] \in Seq(Identity)
    BY Zenon DEF IndInv, TypeOK, PhaseInv, Phase
<1>4. 1 \in DOMAIN values[p] /\ 1 \in DOMAIN values[q]
    BY <1>2, <1>3
<1>5. values[p][1].domain = values[q][1].domain
    BY <1>2, <1>4 DEF IndInv, PhaseInv, Phase
<1>6. QED
    BY Zenon, <1>4, <1>5, Exclusion DEF IndInv

\* Writing the journal of an operation changes that journal only.
LEMMA WriteOne ==
    ASSUME TypeOK, TTypeOK, NEW p \in Proc, Removing(p), NEW j, WriteJournal(p, j), NEW o, o = call[p].op
    PROVE  /\ o \in Op /\ copy'[p] = j /\ journal'[o] = j
           /\ \A c \in Op : c # o => journal'[c] = journal[c]
<1>1. o \in Op
    BY Zenon, RemovingTyped
<1>2. QED
    BY Zenon, <1>1 DEF WriteJournal, TTypeOK

\* What a request writes: the four steps differ in the checkpoint they add.
LEMMA WriteEffect ==
    ASSUME IndInv, TTypeOK, NEW p \in Proc, Writes(p), NEW o, o = call[p].op
    PROVE  /\ Removing(p) /\ o \in Op /\ UNCHANGED vars /\ stage' = stage /\ host' = host
           /\ journal'[o] = copy'[p] /\ \A c \in Op : c # o => journal'[c] = journal[c]
           /\ \/ /\ pc[p] = "work" /\ at[p] = "begin" /\ at'[p] = "items"
                 /\ copy'[p] = [rev |-> call[p].rev, done |-> copy[p].done, complete |-> FALSE]
              \/ /\ pc[p] = "work" /\ at[p] = "removed" /\ at'[p] = "items"
                 /\ \E item \in Item :
                      /\ NextItem(p, item)
                      /\ copy'[p] = [rev |-> copy[p].rev, done |-> copy[p].done \cup {item}, complete |-> FALSE]
              \/ /\ pc[p] = "work" /\ at[p] = "items" /\ at'[p] = "end"
                 /\ \A item \in Item : ~NextItem(p, item)
                 /\ copy'[p] = [rev |-> copy[p].rev, done |-> copy[p].done \cup {stage[p]}, complete |-> FALSE]
              \/ /\ pc[p] = "done" /\ at[p] = "begin" /\ at'[p] = "end"
                 /\ copy'[p] = [rev |-> call[p].rev, done |-> copy[p].done \cup {"finalize"}, complete |-> TRUE]
<1>1. /\ Removing(p) /\ UNCHANGED vars /\ stage' = stage /\ host' = host
      /\ \E j : WriteJournal(p, j)
    BY Zenon DEF Writes, WriteRevision, CheckpointItem, CheckpointStage, CompleteJournal
<1>2. \A j : WriteJournal(p, j) => copy'[p] = j
    BY Zenon, <1>1, WriteOne DEF IndInv
<1>3. o \in Op /\ journal'[o] = copy'[p] /\ \A c \in Op : c # o => journal'[c] = journal[c]
    BY <1>1, WriteOne DEF IndInv
<1>4. \A l \in {"items", "end"} : at' = [at EXCEPT ![p] = l] => at'[p] = l
    BY Zenon DEF TTypeOK
<1>5. CASE WriteRevision(p)
    BY <1>1, <1>2, <1>3, <1>4, <1>5, Zenon DEF WriteRevision
<1>6. CASE CheckpointItem(p)
    BY <1>1, <1>2, <1>3, <1>4, <1>6, Zenon DEF CheckpointItem
<1>7. CASE CheckpointStage(p)
    BY <1>1, <1>2, <1>3, <1>4, <1>7, Zenon DEF CheckpointStage
<1>8. CASE CompleteJournal(p)
    BY <1>1, <1>2, <1>3, <1>4, <1>8, Zenon DEF CompleteJournal
<1>9. QED
    BY <1>5, <1>6, <1>7, <1>8, Zenon DEF Writes
LEMMA WriteFrame ==
    ASSUME IndInv, TTypeOK, NEW p \in Proc, Writes(p), NEW o, o = call[p].op
    PROVE  /\ Removing(p) /\ o \in Op /\ pc[p] \in {"work", "done"} /\ journal'[o] = copy'[p]
           /\ \A c \in Op : c # o => journal'[c] = journal[c]
           /\ copy[p].done \subseteq copy'[p].done
<1>1. Removing(p) /\ pc[p] \in {"work", "done"} /\ \E j : WriteJournal(p, j)
    BY Zenon DEF Writes, WriteRevision, CheckpointItem, CheckpointStage, CompleteJournal
<1>2. o \in Op /\ journal'[o] = copy'[p] /\ \A c \in Op : c # o => journal'[c] = journal[c]
    BY <1>1, WriteOne DEF IndInv
<1>3. \E S : copy'[p].done = copy[p].done \cup S
    <2>1. CASE copy'[p] = [rev |-> call[p].rev, done |-> copy[p].done, complete |-> FALSE]
        BY <2>1
    <2>2. CASE \E item \in Item :
                 copy'[p] = [rev |-> copy[p].rev, done |-> copy[p].done \cup {item}, complete |-> FALSE]
        BY <2>2
    <2>3. CASE copy'[p] = [rev |-> copy[p].rev, done |-> copy[p].done \cup {stage[p]}, complete |-> FALSE]
        BY <2>3
    <2>4. CASE copy'[p] = [rev |-> call[p].rev, done |-> copy[p].done \cup {"finalize"}, complete |-> TRUE]
        BY <2>4
    <2>5. QED
        BY <2>1, <2>2, <2>3, <2>4, WriteEffect, Zenon
<1>4. QED
    BY Zenon, <1>1, <1>2, <1>3

LEMMA CopyFrame ==
    ASSUME NEW p \in Proc, CopyAt(p), pc'[p] \in Begun /\ Removing(p) => pc[p] \in Begun,
           call'[p] = call[p], stage'[p] = stage[p], copy'[p] = copy[p], at'[p] = at[p],
           Removing(p) /\ pc[p] \in Begun => journal'[call[p].op] = journal[call[p].op]
    PROVE  CopyAt(p)'
BY Zenon DEF CopyAt, Removing, Reread, ReadJournal, InOrder

\* The write of a request is of the journal that it has in memory.
LEMMA CopyWritten ==
    ASSUME IndInv, TTypeOK, StagePhase, CopyInv, NEW p \in Proc, Writes(p)
    PROVE  CopyAt(p)'
<1>1. PICK o : o = call[p].op
    BY Zenon
<1>2. /\ Removing(p) /\ UNCHANGED vars /\ stage' = stage /\ journal'[o] = copy'[p]
      /\ pc[p] \in {"work", "done"}
    BY <1>1, WriteEffect, Zenon
<1>3. pc' = pc /\ call' = call /\ pc[p] \in Begun
    BY <1>2, SMTT(30) DEF vars, Begun
<1>4. /\ at[p] # "begin" => copy[p].rev = call[p].rev
      /\ at[p] # "end" =>
           /\ copy[p].rev <= call[p].rev /\ copy[p].complete = FALSE
           /\ stage[p] \notin copy[p].done /\ InOrder(stage[p], copy[p].done)
    BY Zenon, <1>2, <1>3 DEF CopyInv, CopyAt
<1>5. stage[p] \in Stage
    BY Zenon, <1>2 DEF StagePhase, StageAt
<1>6. call[p].rev \in Nat
    BY Zenon, <1>2, RemovingTyped DEF IndInv
<1> DEFINE Kept == /\ at'[p] # "begin" /\ copy'[p].rev = call[p].rev
                   /\ at'[p] # "end" =>
                        /\ copy'[p].complete = FALSE
                        /\ stage[p] \notin copy'[p].done /\ InOrder(stage[p], copy'[p].done)
<1>7. Kept
    <2>1. CASE /\ at[p] = "begin" /\ at'[p] = "items"
               /\ copy'[p] = [rev |-> call[p].rev, done |-> copy[p].done, complete |-> FALSE]
        BY <1>4, <2>1
    <2>2. CASE /\ at[p] = "removed" /\ at'[p] = "items"
               /\ \E item \in Item :
                    copy'[p] = [rev |-> copy[p].rev, done |-> copy[p].done \cup {item}, complete |-> FALSE]
        BY <1>4, <1>5, <2>2 DEF InOrder, Item, Stage
    <2>3. CASE /\ at[p] = "items" /\ at'[p] = "end"
               /\ copy'[p] = [rev |-> copy[p].rev, done |-> copy[p].done \cup {stage[p]}, complete |-> FALSE]
        BY <1>4, <2>3
    <2>4. CASE /\ at[p] = "begin" /\ at'[p] = "end"
               /\ copy'[p] = [rev |-> call[p].rev, done |-> copy[p].done \cup {"finalize"}, complete |-> TRUE]
        BY <1>4, <2>4
    <2>5. QED
        BY <1>1, <2>1, <2>2, <2>3, <2>4, WriteEffect, Zenon
<1>8. call'[p] = call[p] /\ stage'[p] = stage[p] /\ journal'[call[p].op] = copy'[p]
    BY Zenon, <1>1, <1>2, <1>3
<1>9. QED
    BY <1>6, <1>7, <1>8 DEF CopyAt, InOrder

LEMMA CopyStep ==
    ASSUME IndInv, TTypeOK, StagePhase, CopyInv, NEW p \in Proc, TMoves(p)
    PROVE  CopyInv'
<1> SUFFICES ASSUME NEW q \in Proc PROVE CopyAt(q)'
    BY Zenon DEF CopyInv
<1>0. CopyAt(q) /\ CopyAt(p) /\ StageAt(p)
    BY Zenon DEF CopyInv, StagePhase
<1>1. CASE q # p
    <2>1. /\ pc'[q] = pc[q] /\ call'[q] = call[q] /\ stage'[q] = stage[q]
          /\ copy'[q] = copy[q] /\ at'[q] = at[q]
        BY Zenon, <1>1, OtherTeardowns DEF IndInv
    <2>2. Removing(q) /\ pc[q] \in Begun => journal'[call[q].op] = journal[call[q].op]
        <3> SUFFICES ASSUME Removing(q), pc[q] \in Begun PROVE journal'[call[q].op] = journal[call[q].op]
            BY Zenon
        <3>1. CASE journal' = journal
            BY Zenon, <3>1
        <3>2. CASE Writes(p)
            <4>0. PICK k : k = call[p].op
                BY Zenon
            <4>a. /\ Removing(p) /\ pc[p] \in {"work", "done"}
                  /\ \A c \in Op : c # k => journal'[c] = journal[c]
                BY <3>2, <4>0, WriteFrame, SMTT(20)
            <4>1. /\ Removing(p) /\ pc[p] \in {"work", "done"}
                  /\ \A c \in Op : c # call[p].op => journal'[c] = journal[c]
                BY Zenon, <4>0, <4>a
            <4>2. pc[p] \in Working /\ pc[q] \in Working
                BY Zenon, <4>1 DEF Working, Leased, Begun
            <4>3. call[p].op # call[q].op
                BY Zenon, <1>1, <4>1, <4>2, OneAtWork
            <4>4. call[q].op \in Op
                BY Zenon, RemovingTyped DEF IndInv
            <4>5. QED
                BY Zenon, <4>1, <4>3, <4>4
        <3>3. QED
            BY Zenon, <3>1, <3>2, JournalMoves
    <2>3. QED
        BY Zenon, <1>0, <2>1, <2>2, CopyFrame
<1>2. ASSUME RegistryStep(p) PROVE CopyAt(p)'
    <2>1. call' = call /\ stage' = stage /\ copy' = copy /\ at' = at /\ journal' = journal
        BY Zenon, <1>2, RegistryLabels
    <2>2. pc'[p] \in Begun /\ Removing(p) => pc[p] \in Begun
        BY Zenon, <1>2, RegistryLabels DEF Begun
    <2>3. QED
        BY <1>0, <2>1, <2>2, CopyFrame, SMTT(30)
<1>3. ASSUME AlreadyDone(p) \/ FinishRequest(p) \/ AbortRequest(p) PROVE CopyAt(p)'
    BY <1>3, Returned, SMTT(30) DEF CopyAt
<1>4. ASSUME BeginStage(p) PROVE CopyAt(p)'
    <2>1. /\ pc[p] = "lease" /\ call' = call /\ stage' = stage /\ at' = at /\ journal' = journal
          /\ copy'[p] = Reread(p)
        BY Zenon, <1>4 DEF BeginStage, BeginComplete, BeginMark, TTypeOK
    <2>2. at'[p] = "begin"
        BY Zenon, <1>0, <2>1 DEF StageAt
    <2>3. Reread(p)' = Reread(p)
        BY <2>1, SMTT(30) DEF Reread, ReadJournal
    <2>4. /\ Reread(p).rev <= call[p].rev /\ ~Reread(p).complete
          /\ stage[p] \notin Reread(p).done /\ InOrder(stage[p], Reread(p).done)
        BY Zenon, <1>4 DEF BeginStage, Proceeds, Accepts, Reread
    <2>5. Reread(p) \in Journal
        <3>1. call[p].op \in Op /\ call[p].rev \in Nat
            BY <1>4, RemovingTyped, SMTT(30) DEF IndInv, BeginStage
        <3>2. QED
            BY Zenon, <3>1 DEF Reread, ReadJournal, Journal, TTypeOK
    <2>6. Reread(p).complete = FALSE
        BY <2>4, <2>5, SMTT(30) DEF Journal
    <2>7. QED
        BY Zenon, <2>1, <2>2, <2>3, <2>4, <2>6 DEF CopyAt, InOrder
<1>5. ASSUME RemoveItem(p) PROVE CopyAt(p)'
    <2>1. /\ pc' = pc /\ call' = call /\ stage' = stage /\ copy' = copy /\ journal' = journal
          /\ at[p] = "items" /\ at' = [at EXCEPT ![p] = "removed"]
        BY <1>5, Zenon DEF RemoveItem, vars
    <2>2. at'[p] = "removed"
        BY <2>1, SMTT(30) DEF TTypeOK
    <2>3. QED
        BY Zenon, <1>0, <2>1, <2>2 DEF CopyAt, Removing, InOrder
<1>6. ASSUME Provision(p) \/ RemoveAccountItem(p) PROVE CopyAt(p)'
    <2>1. pc' = pc /\ call' = call /\ stage' = stage /\ copy' = copy /\ at' = at /\ journal' = journal
        BY <1>6, Zenon DEF Provision, RemoveAccountItem, vars
    <2>2. QED
        BY Zenon, <1>0, <2>1, CopyFrame
<1>7. ASSUME AccountRemoved(p) PROVE CopyAt(p)'
    <2>1. call' = call /\ ~Removing(p)
        BY <1>7, ZenonT(30) DEF AccountRemoved, AccountTornDown, Removing, tvars
    <2>2. QED
        BY Zenon, <2>1 DEF CopyAt, Removing
<1>8. ASSUME NEW r \in Request, Start(p, r) PROVE CopyAt(p)'
    <2>1. pc'[p] \in {"lock", "resolve"}
        BY <1>8, ZenonT(30) DEF Start, Goto, IndInv, TypeOK
    <2>2. QED
        BY <2>1, ZenonT(30) DEF CopyAt, Begun
<1>9. QED
    BY <1>1, <1>2, <1>3, <1>4, <1>5, <1>6, <1>7, <1>8, CopyWritten, Zenon
       DEF TMoves, TStep, Writes, StartOther, StartTeardown
\* What a request has in memory is what the journal file says.
LEMMA RereadFile ==
    ASSUME NEW p
    PROVE  /\ journal[call[p].op] = NoFile => Reread(p).done = {}
           /\ journal[call[p].op] # NoFile => Reread(p) = journal[call[p].op]
BY Zenon DEF Reread, ReadJournal

LEMMA CopyRead ==
    ASSUME NEW p, CopyAt(p), Removing(p), pc[p] \in Begun, copy[p] \in Journal
    PROVE  /\ journal[call[p].op] = NoFile => at[p] = "begin" /\ copy[p].done = {}
           /\ journal[call[p].op] # NoFile => copy[p] = journal[call[p].op]
<1>1. copy[p] # NoFile
    BY Zenon, TeardownAssumption
<1>2. CASE at[p] = "begin"
    BY <1>2, RereadFile, Zenon DEF CopyAt
<1>3. CASE at[p] # "begin"
    BY <1>1, <1>3, Zenon DEF CopyAt
<1>4. QED
    BY <1>2, <1>3, ZenonT(30)

\* What the request has in memory is closed as well.
LEMMA CopyClosed ==
    ASSUME IndInv, TTypeOK, JournalsAreClosed, CopyInv, NEW p \in Proc, Removing(p), pc[p] \in Begun
    PROVE  Closed(copy[p])
<1>1. CopyAt(p) /\ call[p].op \in Op /\ copy[p] \in Journal
    BY Zenon, RemovingTyped DEF CopyInv, IndInv, TTypeOK
<1>2. CASE journal[call[p].op] = NoFile
    <2>1. copy[p].done = {}
        BY <1>1, <1>2, CopyRead, Zenon
    <2>2. copy[p].complete = FALSE
        BY <1>1, <1>2, CopyRead, Zenon DEF CopyAt
    <2>3. QED
        BY Zenon, <2>1, <2>2 DEF Closed
<1>3. CASE journal[call[p].op] # NoFile
    <2>1. copy[p] = journal[call[p].op]
        BY <1>1, <1>3, CopyRead, Zenon
    <2>2. QED
        BY Zenon, <1>1, <1>3, <2>1 DEF JournalsAreClosed
<1>4. QED
    BY Zenon, <1>2, <1>3

\* A stage gets its checkpoint when all its items have theirs.
LEMMA StageItemsDone ==
    ASSUME NEW p \in Proc, \A item \in Item : ~NextItem(p, item)
    PROVE  /\ stage[p] = "stop_services" => "services" \in copy[p].done
           /\ stage[p] = "hosting" => {"database", "files"} \subseteq copy[p].done
           /\ stage[p] = "shared" => "mail" \in copy[p].done
<1>1. ASSUME stage[p] = "stop_services" PROVE "services" \in copy[p].done
    <2>1. StageItems(stage[p]) = <<"services">>
        BY Zenon, <1>1 DEF StageItems
    <2>2. ~NextItem(p, "services")
        BY Zenon DEF Item
    <2>3. QED
        BY <2>1, <2>2 DEF NextItem
<1>2. ASSUME stage[p] = "hosting" PROVE {"database", "files"} \subseteq copy[p].done
    <2>1. StageItems(stage[p]) = <<"database", "files">>
        BY Zenon, <1>2 DEF StageItems
    <2>2. ~NextItem(p, "database") /\ ~NextItem(p, "files")
        BY Zenon DEF Item
    <2>3. "database" \in copy[p].done
        BY <2>1, <2>2 DEF NextItem
    <2>4. "files" \in copy[p].done
        BY <2>1, <2>2, <2>3 DEF NextItem
    <2>5. QED
        BY Zenon, <2>3, <2>4
<1>3. ASSUME stage[p] = "shared" PROVE "mail" \in copy[p].done
    <2>1. StageItems(stage[p]) = <<"mail">>
        BY Zenon, <1>3 DEF StageItems
    <2>2. ~NextItem(p, "mail")
        BY Zenon DEF Item
    <2>3. QED
        BY <2>1, <2>2 DEF NextItem
<1>4. QED
    BY Zenon, <1>1, <1>2, <1>3

LEMMA JournalsClosedStep ==
    ASSUME IndInv, TTypeOK, StagePhase, CopyInv, JournalsAreClosed, NEW p \in Proc, TMoves(p)
    PROVE  JournalsAreClosed'
<1>1. CASE journal' = journal
    BY Zenon, <1>1 DEF JournalsAreClosed, Closed
<1>2. CASE Writes(p)
    <2>0. PICK k : k = call[p].op
        BY Zenon
    <2>1. /\ Removing(p) /\ k \in Op /\ journal'[k] = copy'[p]
          /\ \A c \in Op : c # k => journal'[c] = journal[c]
          /\ pc[p] \in {"work", "done"}
        BY <1>2, <2>0, WriteFrame, SMTT(20)
    <2>2. Closed(copy[p])
        BY <2>1, CopyClosed, SMTT(30) DEF Begun
    <2>3. at[p] # "end" => /\ copy[p].complete = FALSE
                           /\ stage[p] \notin copy[p].done /\ InOrder(stage[p], copy[p].done)
        BY Zenon, <2>1 DEF CopyInv, CopyAt, Begun
    <2>4. /\ pc[p] = "work" => stage[p] \in {"stop_services", "hosting", "shared"}
          /\ pc[p] = "done" => stage[p] = "finalize"
        BY Zenon, <2>1 DEF StagePhase, StageAt, Stage
    <2>5. Closed(copy'[p])
        <3>1. CASE copy'[p] = [rev |-> call[p].rev, done |-> copy[p].done, complete |-> FALSE] /\ at[p] = "begin"
            BY <2>2, <2>3, <3>1, SMTT(30) DEF Closed
        <3>2. CASE /\ at[p] = "removed"
                   /\ \E item \in Item :
                        copy'[p] = [rev |-> copy[p].rev, done |-> copy[p].done \cup {item}, complete |-> FALSE]
            BY <2>2, <2>3, <3>2, SMTT(30) DEF Closed, Item
        <3>3. CASE /\ pc[p] = "work" /\ at[p] = "items"
                   /\ \A item \in Item : ~NextItem(p, item)
                   /\ copy'[p] = [rev |-> copy[p].rev, done |-> copy[p].done \cup {stage[p]}, complete |-> FALSE]
            <4>1. /\ stage[p] = "stop_services" => "services" \in copy[p].done
                  /\ stage[p] = "hosting" => {"database", "files"} \subseteq copy[p].done
                  /\ stage[p] = "shared" => "mail" \in copy[p].done
                BY <3>3, StageItemsDone, SMTT(30)
            <4>2. QED
                BY <2>2, <2>3, <2>4, <3>3, <4>1, SMTT(30) DEF Closed, InOrder
        <3>4. CASE /\ pc[p] = "done" /\ at[p] = "begin"
                   /\ copy'[p] = [rev |-> call[p].rev, done |-> copy[p].done \cup {"finalize"}, complete |-> TRUE]
            BY <2>2, <2>3, <2>4, <3>4 DEF Closed, InOrder
        <3>5. QED
            BY <1>2, <2>0, <3>1, <3>2, <3>3, <3>4, WriteEffect, Zenon
    <2>6. QED
        BY Zenon, <2>1, <2>5 DEF JournalsAreClosed, Closed
<1>3. QED
    BY Zenon, <1>1, <1>2, JournalMoves

\* Checkpoints are never taken back.
JournalsGrow == \A o \in Op : journal[o] # NoFile => journal'[o] # NoFile /\ journal[o].done \subseteq journal'[o].done

LEMMA JournalGrows ==
    ASSUME IndInv, TTypeOK, StagePhase, CopyInv, NEW p \in Proc, TMoves(p), TTypeOK'
    PROVE  JournalsGrow
<1>1. CASE journal' = journal
    BY Zenon, <1>1 DEF JournalsGrow
<1>2. CASE Writes(p)
    <2>0. PICK k : k = call[p].op
        BY Zenon
    <2>1. /\ Removing(p) /\ k \in Op /\ journal'[k] = copy'[p]
          /\ \A c \in Op : c # k => journal'[c] = journal[c]
          /\ pc[p] \in {"work", "done"} /\ copy[p].done \subseteq copy'[p].done
        BY <1>2, <2>0, WriteFrame
    <2>2. copy'[p] \in Journal /\ NoFile \notin Journal
        BY Zenon, TeardownAssumption DEF TTypeOK
    <2>3. journal[k] # NoFile => journal[k] = copy[p]
        BY <2>0, <2>1, Zenon DEF CopyInv, CopyAt, Reread, ReadJournal, Begun
    <2>4. QED
        BY Zenon, <2>1, <2>2, <2>3 DEF JournalsGrow
<1>3. QED
    BY Zenon, <1>1, <1>2, JournalMoves
-----------------------------------------------------------------------------
(* The journal and the registry.  The websites of a removal become final   *)
(* tombstones only when the journal has the checkpoint of every stage that *)
(* works on the host, so a stage that works finds them "removing".         *)

RemovedIsJournaled ==
    \A s \in Site : siteRec[s] # NoFile /\ siteRec[s].kind = "site" /\ siteRec[s].state = "removed" =>
        /\ siteRec[s].op \in Op /\ journal[siteRec[s].op] # NoFile
        /\ "shared" \in journal[siteRec[s].op].done

LEMMA RemovedStep ==
    ASSUME IndInv, TTypeOK, StagePhase, CopyInv, RemovedIsJournaled, JournalsGrow, [Next]_vars
    PROVE  RemovedIsJournaled'
<1> SUFFICES ASSUME NEW s \in Site, siteRec'[s] # NoFile, siteRec'[s].kind = "site",
                    siteRec'[s].state = "removed"
             PROVE  /\ siteRec'[s].op \in Op /\ journal'[siteRec'[s].op] # NoFile
                    /\ "shared" \in journal'[siteRec'[s].op].done
    BY Zenon DEF RemovedIsJournaled
<1>1. CASE siteRec'[s] = siteRec[s]
    BY <1>1, SMTT(30) DEF RemovedIsJournaled, JournalsGrow
<1>2. ASSUME NEW q \in Proc, Register(q), s = Current(q).site PROVE FALSE
    BY Zenon, <1>2 DEF Register, IndInv, TypeOK
<1>3. ASSUME NEW q \in Proc, MarkSite(q), s = Id(q).site PROVE FALSE
    BY Zenon, <1>3, MarkSiteEffect
<1>4. ASSUME NEW q \in Proc, CompleteSite(q), s = Id(q).site
      PROVE  /\ siteRec'[s].op \in Op /\ journal'[siteRec'[s].op] # NoFile
             /\ "shared" \in journal'[siteRec'[s].op].done
    <2>1. siteRec'[s].kind = siteRec[s].kind /\ siteRec'[s].op = siteRec[s].op
        BY Zenon, <1>4, CompleteSiteEffect
    <2>2. siteRec[s].state # "active" /\ pc[q] = "complete"
        BY <1>4, CompletesTombstone, Zenon DEF CompleteSite
    <2>3. ResumesRemoval(q, siteRec[s])
        BY <1>4, <2>2, RemovalAt, SMTT(30)
    <2>4. Removing(q) /\ siteRec[s].op = call[q].op
        BY <2>1, <2>3, SMTT(30) DEF ResumesRemoval, RemovalKind, Removing
    <2>5. call[q].op \in Op
        BY Zenon, <2>4, RemovingTyped DEF IndInv
    <2>6. stage[q] = "finalize" /\ at[q] = "begin"
        BY Zenon, <2>2, <2>4 DEF StagePhase, StageAt
    <2>7. copy[q] = Reread(q) /\ "shared" \in copy[q].done
        BY Zenon, <2>2, <2>4, <2>6 DEF CopyInv, CopyAt, Begun, InOrder
    <2>8. journal[call[q].op] # NoFile /\ "shared" \in journal[call[q].op].done
        BY <2>7 DEF Reread, ReadJournal
    <2>9. QED
        BY <2>1, <2>4, <2>5, <2>8, SMTT(30) DEF JournalsGrow
<1>5. QED
    BY Zenon, <1>1, <1>2, <1>3, <1>4, RecordMoves

\* Each record that a stage of a removal has passed is "removing".
StageMarked ==
    \A p \in Proc : Removing(p) =>
        \A i \in DOMAIN values[p] : MarkedAt(p, i) => siteRec[values[p][i].site].state = "removing"

\* A request is the same from its start to its return.
LEMMA CallKept ==
    ASSUME IndInv, [Next]_vars, NEW p \in Proc, pc[p] # "idle", pc'[p] # "idle"
    PROVE  call'[p] = call[p]
<1>1. ASSUME Moves(p) PROVE call'[p] = call[p]
    <2>1. ~Finish(p) /\ ~Abort(p)
        BY Zenon DEF Finish, Abort, Return, Goto, IndInv, TypeOK
    <2>2. call' = call
        BY <1>1, <2>1, Zenon DEF Moves, Step, Start, Resolve, Acquire, Locked, Validate, Register, Bind, Work,
               BeginMark, BeginComplete, BeginAccountRemoval, SkipMark, MarkSite, MarkDomain, AccountTornDown,
               CompleteSite, ReleaseBinding
    <2>3. QED
        BY Zenon, <2>2
<1>2. ASSUME NEW q \in Proc, q # p, Moves(q) PROVE call'[p] = call[p]
    BY <1>2, OtherUnmoved, Zenon DEF IndInv
<1>3. CASE UNCHANGED vars
    BY <1>3, SMTT(30) DEF vars
<1>4. QED
    BY Zenon, <1>1, <1>2, <1>3 DEF Next, Moves

LEMMA StageMarkedStep ==
    ASSUME IndInv, TTypeOK, StagePhase, CopyInv, JournalsAreClosed, RemovedIsJournaled, StageMarked, [Next]_vars
    PROVE  StageMarked'
<1> SUFFICES ASSUME NEW p \in Proc, Removing(p)', NEW i \in DOMAIN values'[p], MarkedAt(p, i)',
                    NEW s, s = values'[p][i].site
             PROVE  siteRec'[s].state = "removing"
    BY Zenon DEF StageMarked
<1>1. /\ i \in DOMAIN values[p] /\ s = values[p][i].site
      /\ \/ MarkedAt(p, i)
         \/ (MarkSite(p) \/ SkipMark(p)) /\ i = idx[p]
    BY Zenon, MarkedReach
<1>2. pc'[p] # "idle" /\ pc[p] \in {"mark", "markDomain", "work", "complete"}
    BY <1>1, Zenon DEF MarkedAt, MarkSite, SkipMark
<1>3. Removing(p)
    BY <1>2, CallKept, SMTT(30) DEF Removing
<1>4. call[p] \in Request /\ s \in Site
    BY <1>1, <1>3, RemovingTyped, RemovalSites, SMTT(30) DEF IndInv, Removing
<1>5. s # 0 /\ pc[p] \in Working
    BY Zenon, <1>2, <1>4, ConstantsAssumption DEF Working, Leased
<1>6. CASE MarkedAt(p, i)
    <2>1. siteRec[s] # NoFile /\ siteRec[s].state = "removing" /\ pc[p] # "complete"
        BY <1>1, <1>3, <1>6, Zenon DEF StageMarked, IndInv, MarkedInv, MarkedAt, Removing
    <2>2. ASSUME NEW q \in Proc, CompleteSite(q), s = Id(q).site PROVE FALSE
        <3>1. pc[q] = "complete" /\ q # p
            BY <2>1, <2>2, SMTT(30) DEF CompleteSite
        <3>2. idx[q] \in DOMAIN values[q] /\ values[q][idx[q]].site = s
            BY Zenon, <2>2, <3>1, RemovalIdTyped DEF IndInv
        <3>3. pc[q] \in Working
            BY Zenon, <3>1 DEF Working, Leased
        <3>4. QED
            BY <1>1, <1>5, <3>1, <3>2, <3>3, Exclusion, Zenon DEF IndInv
    <2>3. ASSUME NEW q \in Proc, Register(q), s = Current(q).site PROVE FALSE
        BY Zenon, <2>1, <2>3, RegisterEffect
    <2>4. ASSUME NEW q \in Proc, MarkSite(q), s = Id(q).site PROVE siteRec'[s].state = "removing"
        BY Zenon, <2>4, MarkSiteEffect
    <2>5. QED
        BY <1>4, <2>1, <2>2, <2>3, <2>4, RecordMoves, Zenon
<1>7. CASE MarkSite(p) /\ i = idx[p]
    <2>1. s = Id(p).site
        BY Zenon, <1>1, <1>7, RemovalIdTyped DEF MarkSite, IndInv
    <2>2. QED
        BY <1>7, <2>1, MarkSiteEffect, SMTT(30)
<1>8. CASE SkipMark(p) /\ i = idx[p]
    <2>1. pc[p] = "mark" /\ s = Id(p).site
        BY <1>1, <1>8, RemovalIdTyped, Zenon DEF SkipMark, IndInv
    <2>2. /\ siteRec[s] # NoFile /\ siteRec[s].state = "removed"
          /\ siteRec[s].op = call[p].op /\ siteRec[s].kind = "site"
        BY <1>3, <1>8, <2>1, Zenon DEF SkipMark, ResumesRemoval, RemovalKind, Removing
    <2>3. call[p].op \in Op /\ journal[call[p].op] # NoFile /\ "shared" \in journal[call[p].op].done
        BY <1>4, <2>2, ZenonT(30) DEF RemovedIsJournaled
    <2>4. at[p] = "begin" /\ stage[p] \in {"stop_services", "hosting", "shared"}
        BY Zenon, <1>3, <2>1 DEF StagePhase, StageAt, Stage
    <2>5. copy[p] = journal[call[p].op] /\ stage[p] \notin copy[p].done
        BY <1>3, <2>1, <2>3, <2>4, Zenon DEF CopyInv, CopyAt, Begun, Reread, ReadJournal
    <2>6. Closed(journal[call[p].op])
        BY Zenon, <2>3 DEF JournalsAreClosed
    <2>7. QED
        BY <2>3, <2>4, <2>5, <2>6, Zenon DEF Closed
<1>9. QED
    BY Zenon, <1>1, <1>6, <1>7, <1>8
\* The inductive invariant of removals, next to the registry's: where each
\* request is in its stage, what it holds of its journal, and how the journals
\* agree with the records.
TeardownInv ==
    TTypeOK /\ StagePhase /\ CopyInv /\ JournalsAreClosed /\ RemovedIsJournaled /\ StageMarked

LEMMA TeardownInitially == TInit => TeardownInv
<1> SUFFICES ASSUME TInit PROVE TeardownInv
    BY Zenon
<1>1. Init
    BY Zenon DEF TInit
<1>2. \A p \in Proc : ~Removing(p)
    BY Zenon, <1>1 DEF Init, Removing, NoRequest
<1>3. TTypeOK
    BY SMTT(30) DEF TInit, TTypeOK, NoJournal, Journal
<1>4. StagePhase /\ CopyInv /\ StageMarked
    BY <1>2, SMTT(30) DEF TInit, StagePhase, StageAt, CopyInv, CopyAt, StageMarked
<1>5. JournalsAreClosed /\ RemovedIsJournaled
    BY Zenon, <1>1 DEF TInit, Init, JournalsAreClosed, RemovedIsJournaled
<1>6. QED
    BY Zenon, <1>3, <1>4, <1>5 DEF TeardownInv

LEMMA TeardownStep ==
    IndInv /\ TeardownInv /\ [TNext]_allVars => TeardownInv'
<1>1. ASSUME IndInv, TeardownInv, NEW p \in Proc, TMoves(p) PROVE TeardownInv'
    <2>0. TTypeOK /\ StagePhase /\ CopyInv /\ JournalsAreClosed /\ RemovedIsJournaled /\ StageMarked
        BY Zenon, <1>1 DEF TeardownInv
    <2>1. [Next]_vars
        BY Zenon, <1>1, NextRefines DEF TMoves, TNext
    <2>2. TTypeOK'
        BY Zenon, <1>1, <2>0, TeardownTypeStep
    <2>3. StagePhase' /\ CopyInv'
        BY Zenon, <1>1, <2>0, StageStep, CopyStep
    <2>4. JournalsAreClosed' /\ JournalsGrow
        BY Zenon, <1>1, <2>0, <2>2, JournalsClosedStep, JournalGrows
    <2>5. RemovedIsJournaled' /\ StageMarked'
        BY Zenon, <1>1, <2>0, <2>1, <2>4, RemovedStep, StageMarkedStep
    <2>6. QED
        BY Zenon, <2>2, <2>3, <2>4, <2>5 DEF TeardownInv
<1>2. ASSUME TeardownInv, UNCHANGED allVars PROVE TeardownInv'
    <2>1. /\ journal' = journal /\ stage' = stage /\ copy' = copy /\ at' = at /\ host' = host
          /\ siteRec' = siteRec /\ pc' = pc /\ idx' = idx /\ call' = call /\ values' = values
        BY Zenon, <1>2 DEF allVars, vars, tvars
    <2>2. TTypeOK' /\ StagePhase'
        BY <1>2, <2>1, SMTT(30) DEF TeardownInv, TTypeOK, StagePhase, StageAt, Removing
    <2>3. CopyInv'
        BY <1>2, <2>1, CopyFrame, SMTT(30) DEF TeardownInv, CopyInv
    <2>4. JournalsAreClosed'
        BY Zenon, <1>2, <2>1 DEF TeardownInv, JournalsAreClosed, Closed
    <2>5. RemovedIsJournaled'
        BY Zenon, <1>2, <2>1 DEF TeardownInv, RemovedIsJournaled
    <2>6. StageMarked'
        BY Zenon, <1>2, <2>1 DEF TeardownInv, StageMarked, MarkedAt, Removing
    <2>7. QED
        BY Zenon, <2>2, <2>3, <2>4, <2>5, <2>6 DEF TeardownInv
<1>3. QED
    BY Zenon, <1>1, <1>2 DEF TNext, TMoves

\* What every phase of a removal relies on holds whatever the other requests do.
THEOREM TeardownInductive ==
    TSpec => [](IndInv /\ RemovalsAreRequested /\ RemovedWebsitesOwn /\ TeardownInv)
<1>1. TSpec => [](IndInv /\ RemovalsAreRequested /\ RemovedWebsitesOwn)
    BY TeardownImplementsRegistry, Inductive, RemovalRecords, PTL DEF RegistrySpec
<1>2. QED
    BY <1>1, TeardownInitially, TeardownStep, PTL DEF TSpec

\* Journals, requests and the host stay well formed.
THEOREM TeardownIsTyped == TSpec => []TTypeOK
<1>1. TeardownInv => TTypeOK
    BY Zenon DEF TeardownInv
<1>2. QED
    BY <1>1, TeardownInductive, PTL

\* A stage works on a hostname only while it belongs to the website that is
\* being removed, however late the request and whatever replaced the website
\* (TeardownSite reads its journal again under the lease).
THEOREM StagesOwnTheirHostnames == TSpec => []StageOwnsHostnames
<1>1. ASSUME IndInv, RemovedWebsitesOwn, TeardownInv PROVE StageOwnsHostnames
    <2> SUFFICES ASSUME NEW p \in Proc, pc[p] = "work", Removing(p), NEW i \in DOMAIN call[p].ids,
                        NEW s, s = call[p].ids[i].site
                 PROVE  Binding(call[p].ids[i].domain).active = s /\ siteRec[s].state = "removing"
        BY DEF StageOwnsHostnames
    <2>1. pc[p] \in Leased /\ call[p] \in Request
        BY <1>1, RemovingTyped, SMTT(30) DEF Leased, IndInv
    <2>2. /\ i \in DOMAIN values[p] /\ values[p][i].domain = call[p].ids[i].domain
          /\ values[p][i].site = s
        <3>1. /\ Len(values[p]) = Len(call[p].ids) /\ values[p] \in Seq(Identity)
              /\ call[p].ids \in Seq(Identity)
            BY <1>1, <2>1, RequestAssumption, SMTT(20) DEF IndInv, TypeOK, PhaseInv, Phase, Working
        <3>2. QED
            BY <1>1, <3>1, SMTT(30) DEF IndInv, PhaseInv, Phase
    <2>3. s \in Site /\ s # 0
        BY <1>1, <2>1, <2>2, RemovalSites, ConstantsAssumption, SMTT(30) DEF IndInv, Removing
    <2>4. siteRec[s].state = "removing"
        BY Zenon, <1>1, <2>2 DEF TeardownInv, StageMarked, MarkedAt, Removing
    <2>5. Established(p, values[p][i])
        BY <1>1, <2>1, <2>2, Zenon DEF IndInv, ValidatedInv, ValidatedAt
    <2>6. /\ siteRec[s] # NoFile /\ siteRec[s].identity.domain = call[p].ids[i].domain
          /\ siteRec[s].kind = "site"
        BY <2>2, <2>3, <2>4, <2>5, Zenon DEF Established, ResumesRemoval, RemovalKind, Removing
    <2>7. QED
        BY <1>1, <2>3, <2>4, <2>6, Zenon DEF RemovedWebsitesOwn, OwnsHostname
<1>2. QED
    BY <1>1, TeardownInductive, PTL
-----------------------------------------------------------------------------
(* The agent of the control plane: the journals without the checkpoints of  *)
(* single items.                                                            *)

\* The ways in which what the control plane sees moves.
LEMMA AgentBegins ==
    ASSUME NEW o, NEW n \in Nat, NEW r \in Nat, n <= r, NEW D, NEW c, ~c,
           StagesOf(o) = [rev |-> n, done |-> D, complete |-> c],
           StagesOf(o)' = [rev |-> r, done |-> D, complete |-> c]
    PROVE  Agent(o)!AgentNext
<1>1. StagesOf(o).rev = n /\ ~StagesOf(o).complete /\ StagesOf(o)'.rev = r
    OBVIOUS
<1>2. StagesOf(o)' = [StagesOf(o) EXCEPT !.rev = r]
    OBVIOUS
<1>3. Agent(o)!Begin(r)
    BY <1>1, <1>2, Zenon DEF Agent!Begin
<1>4. QED
    BY <1>1, <1>3, Zenon DEF Agent!AgentNext

LEMMA AgentPerforms ==
    ASSUME NEW o, NEW n \in Nat, NEW r \in Nat, n <= r, NEW D,
           NEW st \in Stage, st # "finalize", st \notin D, InOrder(st, D),
           StagesOf(o) = [rev |-> n, done |-> D, complete |-> FALSE],
           StagesOf(o)' = [rev |-> r, done |-> D \cup {st}, complete |-> FALSE]
    PROVE  Agent(o)!AgentNext
<1>1. /\ StagesOf(o).rev = n /\ StagesOf(o).complete = FALSE /\ StagesOf(o).done = D
      /\ StagesOf(o)'.rev = r /\ (st = "finalize") = FALSE
    OBVIOUS
<1>2. Agent(o)!Perform(st, r)
    BY <1>1, Zenon DEF Agent!Perform, Agent!StageInOrder, InOrder
<1>3. QED
    BY <1>1, <1>2, Zenon DEF Agent!AgentNext, Agent!Stage, Stage

LEMMA AgentFinishes ==
    ASSUME NEW o, NEW n \in Nat, NEW r \in Nat, n <= r, NEW D,
           "finalize" \notin D, "shared" \in D,
           StagesOf(o) = [rev |-> n, done |-> D, complete |-> FALSE],
           StagesOf(o)' = [rev |-> r, done |-> D \cup {"finalize"}, complete |-> TRUE]
    PROVE  Agent(o)!AgentNext
<1>1. /\ StagesOf(o).rev = n /\ StagesOf(o).complete = FALSE /\ StagesOf(o).done = D
      /\ StagesOf(o)'.rev = r
    OBVIOUS
<1>2. Agent(o)!Perform("finalize", r)
    BY <1>1, ZenonT(30) DEF Agent!Perform, Agent!StageInOrder
<1>3. QED
    BY Zenon, <1>1, <1>2 DEF Agent!AgentNext, Agent!Stage

\* What the control plane sees of an operation whose request may write.
LEMMA StagesSeen ==
    ASSUME IndInv, TeardownInv, NEW p \in Proc, Removing(p), pc[p] \in Begun, at[p] # "end",
           NEW o, o = call[p].op
    PROVE  \E n \in Nat :
             /\ StagesOf(o) = [rev |-> n, done |-> copy[p].done \cap Stage, complete |-> FALSE]
             /\ n <= call[p].rev /\ (at[p] # "begin" => n = copy[p].rev)
<1>1. CopyAt(p) /\ copy[p] \in Journal
    BY SMTT(30) DEF TeardownInv, CopyInv, TTypeOK
<1>2. call[p].rev \in Nat
    BY Zenon, RemovingTyped DEF IndInv
<1>3. CASE journal[o] = NoFile
    <2>1. at[p] = "begin" /\ copy[p].done = {}
        BY <1>1, <1>3, CopyRead, Zenon
    <2>2. copy[p].done \cap Stage = {}
        BY Zenon, <2>1
    <2>3. StagesOf(o) = [rev |-> 0, done |-> copy[p].done \cap Stage, complete |-> FALSE]
        BY <1>3, <2>2, Zenon DEF StagesOf
    <2>4. 0 \in Nat /\ 0 <= call[p].rev
        BY <1>2
    <2>5. QED
        BY <2>1, <2>3, <2>4, Zenon
<1>4. CASE journal[o] # NoFile
    <2>1. journal[o] = copy[p]
        BY <1>1, <1>4, CopyRead, Zenon
    <2>2. copy[p].rev <= call[p].rev /\ copy[p].complete = FALSE
        BY Zenon, <1>1 DEF CopyAt
    <2>3. StagesOf(o) = [rev |-> copy[p].rev, done |-> copy[p].done \cap Stage, complete |-> FALSE]
        BY <1>4, <2>1, <2>2, Zenon DEF StagesOf
    <2>4. copy[p].rev \in Nat
        BY Zenon, <1>1 DEF Journal
    <2>5. QED
        BY <2>2, <2>3, <2>4, Zenon
<1>5. QED
    BY <1>3, <1>4, ZenonT(30)

\* A write of the journal begins a revision, adds a checkpoint that the control
\* plane does not see, or finishes a stage.
LEMMA WritesAreSteps ==
    ASSUME IndInv, TeardownInv, TTypeOK', NEW p \in Proc, Writes(p), NEW o, o = call[p].op
    PROVE  Agent(o)!AgentNext \/ StagesOf(o)' = StagesOf(o)
<1>0. TTypeOK /\ StageAt(p) /\ CopyAt(p)
    BY SMTT(30) DEF TeardownInv, StagePhase, CopyInv
<1>1. /\ Removing(p) /\ o \in Op /\ pc[p] \in {"work", "done"} /\ journal'[o] = copy'[p]
    BY Zenon, <1>0, WriteFrame
<1>2. PICK r, R, D : r = call[p].rev /\ R = copy[p].rev /\ D = copy[p].done
    BY Zenon
<1>3. r \in Nat /\ D \subseteq Item \cup Stage
    BY <1>0, <1>1, <1>2, RemovingTyped, Zenon DEF IndInv, TTypeOK, Journal
<1>4. at[p] # "end" =>
        /\ at[p] # "begin" => R = r
        /\ stage[p] \notin D /\ InOrder(stage[p], D)
    BY <1>0, <1>1, <1>2, Zenon DEF Begun, CopyAt
<1>5. at[p] # "end" =>
        \E n \in Nat : /\ StagesOf(o) = [rev |-> n, done |-> D \cap Stage, complete |-> FALSE]
                       /\ n <= r /\ (at[p] # "begin" => n = R)
    BY <1>1, <1>2, StagesSeen, ZenonT(30) DEF Begun
<1>6. ASSUME NEW q, NEW E, NEW c, copy'[p] = [rev |-> q, done |-> E, complete |-> c]
      PROVE  StagesOf(o)' = [rev |-> q, done |-> E \cap Stage, complete |-> c]
    <2>1. journal'[o] # NoFile
        BY <1>1, TeardownAssumption DEF TTypeOK
    <2>2. StagesOf(o)' = [rev |-> journal'[o].rev, done |-> journal'[o].done \cap Stage,
                          complete |-> journal'[o].complete]
        BY <2>1, Zenon DEF StagesOf
    <2>3. journal'[o].rev = q /\ journal'[o].done = E /\ journal'[o].complete = c
        BY <1>1, <1>6
    <2>4. QED
        BY <2>2, <2>3, Zenon
<1>7. CASE at[p] = "begin" /\ copy'[p] = [rev |-> r, done |-> D, complete |-> FALSE]
    <2>1. StagesOf(o)' = [rev |-> r, done |-> D \cap Stage, complete |-> FALSE]
        BY <1>6, <1>7, Zenon
    <2>2. QED
        BY <1>3, <1>5, <1>7, <2>1, AgentBegins, Zenon
<1>8. CASE /\ at[p] = "removed"
           /\ \E item \in Item : copy'[p] = [rev |-> R, done |-> D \cup {item}, complete |-> FALSE]
    <2>1. PICK item \in Item : copy'[p] = [rev |-> R, done |-> D \cup {item}, complete |-> FALSE]
        BY <1>8, Zenon
    <2>2. (D \cup {item}) \cap Stage = D \cap Stage
        BY Zenon DEF Item, Stage
    <2>3. StagesOf(o)' = [rev |-> R, done |-> D \cap Stage, complete |-> FALSE]
        BY <1>6, <2>1, <2>2, Zenon
    <2>4. QED
        BY <1>5, <1>8, <2>3, Zenon
<1>9. CASE /\ pc[p] = "work" /\ at[p] = "items"
           /\ copy'[p] = [rev |-> R, done |-> D \cup {stage[p]}, complete |-> FALSE]
    <2>1. PICK st : st = stage[p]
        BY Zenon
    <2>2. st \in Stage /\ st # "finalize"
        BY <1>0, <1>1, <1>9, <2>1, SMTT(30) DEF StageAt
    <2>3. st \notin D \cap Stage /\ InOrder(st, D \cap Stage) /\ R = r
        BY Zenon, <1>4, <1>9, <2>1 DEF InOrder, Stage
    <2>4. (D \cup {st}) \cap Stage = (D \cap Stage) \cup {st}
        BY Zenon, <2>2
    <2>5. StagesOf(o)' = [rev |-> r, done |-> (D \cap Stage) \cup {st}, complete |-> FALSE]
        BY <1>6, <1>9, <2>1, <2>3, <2>4, Zenon
    <2>6. QED
        BY <1>3, <1>5, <1>9, <2>2, <2>3, <2>5, AgentPerforms, Zenon
<1>10. CASE /\ pc[p] = "done" /\ at[p] = "begin"
            /\ copy'[p] = [rev |-> r, done |-> D \cup {"finalize"}, complete |-> TRUE]
    <2>1. stage[p] = "finalize"
        BY <1>0, <1>1, <1>10, ZenonT(30) DEF StageAt
    <2>2. "finalize" \notin D \cap Stage /\ "shared" \in D \cap Stage
        BY Zenon, <1>4, <1>10, <2>1 DEF InOrder, Stage
    <2>3. (D \cup {"finalize"}) \cap Stage = (D \cap Stage) \cup {"finalize"}
        BY Zenon DEF Stage
    <2>4. StagesOf(o)' = [rev |-> r, done |-> (D \cap Stage) \cup {"finalize"}, complete |-> TRUE]
        BY <1>6, <1>10, <2>3, Zenon
    <2>5. QED
        BY <1>3, <1>5, <1>10, <2>2, <2>4, AgentFinishes, ZenonT(30)
<1>11. QED
    BY <1>0, <1>2, <1>7, <1>8, <1>9, <1>10, WriteEffect, Zenon

\* Concurrent, repeated and interrupted requests of an operation together behave
\* like the agent the control plane relies on.
THEOREM TeardownImplementsAgent == TSpec => AgentSpec
<1>1. TInit => \A o \in Op : Agent(o)!AgentInit
    BY Zenon DEF TInit, Agent!AgentInit, StagesOf
<1>2. ASSUME IndInv, TeardownInv, TeardownInv', NEW p \in Proc, TMoves(p), NEW o \in Op
      PROVE  Agent(o)!AgentNext \/ UNCHANGED StagesOf(o)
    <2>0. TTypeOK /\ TTypeOK'
        BY Zenon, <1>2 DEF TeardownInv
    <2>1. CASE journal'[o] = journal[o]
        BY Zenon, <2>1 DEF StagesOf
    <2>2. CASE Writes(p) /\ o = call[p].op
        BY <1>2, <2>0, <2>2, WritesAreSteps, SMTT(30)
    <2>3. CASE Writes(p) /\ o # call[p].op
        <3>1. PICK k : k = call[p].op
            BY Zenon
        <3>2. \A c \in Op : c # k => journal'[c] = journal[c]
            BY <1>2, <2>0, <2>3, <3>1, WriteFrame, SMTT(30)
        <3>3. QED
            BY <2>1, <2>3, <3>1, <3>2, Zenon
    <2>4. QED
        BY Zenon, <1>2, <2>1, <2>2, <2>3, JournalMoves
<1>3. IndInv /\ TeardownInv /\ TeardownInv' /\ [TNext]_allVars
        => [\A o \in Op : Agent(o)!AgentNext \/ UNCHANGED StagesOf(o)]_journal
    <2>1. UNCHANGED allVars => journal' = journal
        BY Zenon DEF allVars, tvars
    <2>2. QED
        BY Zenon, <1>2, <2>1 DEF TNext, TMoves
<1>4. QED
    BY <1>1, <1>3, TeardownInductive, PTL DEF TSpec, AgentSpec
=============================================================================
