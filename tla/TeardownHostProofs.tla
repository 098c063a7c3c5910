------------------------ MODULE TeardownHostProofs -------------------------
(***************************************************************************)
(* Removals of websites and of accounts find what they take from the host  *)
(* by hostname.  Proofs that the hostnames of an account removal are its   *)
(* own, and, from the invariants of the registry and of the journal, what  *)
(* removals take and what they leave.                                      *)
(***************************************************************************)
EXTENDS SiteTeardownProofs

-----------------------------------------------------------------------------
(* The removal of an account.  Unlike the removal of a website it reopens   *)
(* final tombstones, as long as some website of its list is not final.      *)

\* The requests of an account's removal name the websites of that account: a
\* website belongs to one subscription, and a repeated request names the same
\* ones (the list is read from the rows of an account that is terminating, and
\* those go only after the agent has answered).
AccountListsAgree ==
    \A q, r \in Request :
        q.mode = "account-remove" /\ r.mode = "account-remove" =>
            /\ q.op = r.op => Websites(q) = Websites(r)
            /\ q.op # r.op => Websites(q) \cap Websites(r) = {}

\* The hostnames of an account are freed only when all its websites are final.
ReleasedTogether ==
    \A s \in Site :
        siteRec[s] # NoFile /\ siteRec[s].state # "active" /\ siteRec[s].kind = "account"
          /\ ~OwnsHostname(s) =>
            \A r \in Request : r.mode = "account-remove" /\ r.op = siteRec[s].op =>
                \A t \in Websites(r) : siteRec[t] # NoFile /\ siteRec[t].state = "removed"

Reopening == {"mark", "markDomain", "work", "complete"}

\* So an account removal that has more to do than free hostnames finds none of
\* its hostnames given to another website.
AccountOwns ==
    \A p \in Proc : call[p].mode = "account-remove" /\ pc[p] \in Reopening =>
        \A s \in Websites(call[p]) : OwnsHostname(s)

\* Until its websites are torn down each record it has passed is "removing".
AccountMarked ==
    \A p \in Proc : call[p].mode = "account-remove" /\ pc[p] # "complete" =>
        \A i \in DOMAIN values[p] : MarkedAt(p, i) => siteRec[values[p][i].site].state = "removing"

\* What a request under lease knows of each website of an account removal.
LEMMA AccountAt ==
    ASSUME IndInv, NEW p \in Proc, call[p].mode = "account-remove", pc[p] \in Leased,
           NEW i \in DOMAIN values[p], NEW s, s = values[p][i].site
    PROVE  /\ call[p] \in Request /\ s \in Site /\ s # 0 /\ s \in Websites(call[p])
           /\ siteRec[s] # NoFile /\ siteRec[s].identity.domain = values[p][i].domain
           /\ siteRec[s].state = "active" => OwnsHostname(s)
           /\ siteRec[s].state # "active" => siteRec[s].kind = "account" /\ siteRec[s].op = call[p].op
<1>1. call[p] \in Request
    BY Zenon DEF IndInv, PhaseInv, Phase, Leased
<1>2. s \in Site /\ s # 0
    BY Zenon, <1>1, RemovalSites, ConstantsAssumption DEF IndInv
<1>3. Established(p, values[p][i])
    BY Zenon DEF IndInv, ValidatedInv, ValidatedAt
<1>4. i \in DOMAIN call[p].ids /\ s = call[p].ids[i].site
    <2>1. call[p].ids \in Seq(Identity) /\ values[p] \in Seq(Identity)
        BY Zenon, <1>1, RequestAssumption DEF IndInv, TypeOK
    <2>2. i \in Nat /\ i >= 1 /\ i <= Len(call[p].ids) /\ s = call[p].ids[i].site
        BY <2>1 DEF IndInv, PhaseInv, Phase
    <2>3. QED
        BY <2>1, <2>2
<1>5. s \in Websites(call[p])
    BY Zenon, <1>4 DEF Websites
<1>6. QED
    BY Zenon, <1>1, <1>2, <1>3, <1>5 DEF Established, ResumesRemoval, RemovalKind, OwnsHostname

\* Every website an account removal names is one it holds the lease of.
LEMMA AccountHolds ==
    ASSUME IndInv, NEW p \in Proc, pc[p] \in Leased, NEW s \in Websites(call[p])
    PROVE  \E i \in DOMAIN values[p] : s = values[p][i].site
<1>1. call[p] \in Request
    BY Zenon DEF IndInv, PhaseInv, Phase, Leased
<1>2. call[p].ids \in Seq(Identity) /\ values[p] \in Seq(Identity)
    BY Zenon, <1>1, RequestAssumption DEF IndInv, TypeOK
<1>3. PICK i \in DOMAIN call[p].ids : s = call[p].ids[i].site
    BY Zenon DEF Websites
<1>4. Len(values[p]) = Len(call[p].ids)
    BY Zenon DEF IndInv, PhaseInv, Phase, Working
<1>5. i \in DOMAIN values[p]
    BY <1>2, <1>3, <1>4
<1>6. s = values[p][i].site
    BY Zenon, <1>3, <1>5 DEF IndInv, PhaseInv, Phase
<1>7. QED
    BY Zenon, <1>5, <1>6

\* An account removal comes to have more to do than free hostnames only where
\* it finds a website that is not final.
LEMMA ReopeningReach ==
    ASSUME IndInv, [Next]_vars, NEW p \in Proc, call'[p].mode = "account-remove", pc'[p] \in Reopening
    PROVE  /\ values'[p] = values[p] /\ call'[p] = call[p]
           /\ \/ pc[p] \in Reopening
              \/ BeginAccountRemoval(p) /\ ~AccountComplete(p)
<1> DEFINE Goal == /\ values'[p] = values[p] /\ call'[p] = call[p]
                   /\ \/ pc[p] \in Reopening
                      \/ BeginAccountRemoval(p) /\ ~AccountComplete(p)
<1>1. CASE UNCHANGED vars
    BY Zenon, <1>1 DEF vars
<1>2. ASSUME NEW q \in Proc, q # p, Moves(q)
      PROVE  Goal
    BY Zenon, <1>2, OtherUnmoved DEF IndInv
<1>3. CASE MarkDomain(p) \/ CompleteSite(p) \/ MarkSite(p) \/ SkipMark(p)
    BY Zenon, <1>3 DEF MarkDomain, CompleteSite, MarkSite, SkipMark, Reopening
<1>4. CASE BeginAccountRemoval(p)
    BY Zenon, <1>4 DEF BeginAccountRemoval, Goto, Reopening, IndInv, TypeOK
<1>5. CASE Work(p) \/ BeginMark(p) \/ BeginComplete(p)
    BY Zenon, <1>5 DEF Work, BeginMark, BeginComplete
<1>6. CASE AccountTornDown(p)
    BY Zenon, <1>6 DEF AccountTornDown, Reopening
<1>7. CASE Validate(p) \/ Bind(p) \/ Resolve(p) \/ ReleaseBinding(p)
    <2>1. pc'[p] \in {"resolve", "lock", "validate", "lease", "release", "done"}
        BY <1>7, NextIdentityEffect, Labels DEF Validate, Bind, Resolve, ReleaseBinding, IndInv
    <2>2. QED
        BY Zenon, <2>1 DEF Reopening
<1>8. CASE Acquire(p) \/ Locked(p) \/ Register(p) \/ Finish(p) \/ Abort(p) \/ \E r \in Request : Start(p, r)
    <2>1. pc'[p] \in {"idle", "resolve", "lock", "validate", "lease"}
        BY Zenon, <1>8 DEF Acquire, Locked, Register, Finish, Abort, Start, Return, Goto, IndInv, TypeOK
    <2>2. QED
        BY Zenon, <2>1 DEF Reopening
<1>9. QED
    BY Zenon, <1>1, <1>2, <1>3, <1>4, <1>5, <1>6, <1>7, <1>8 DEF Next, Moves, Step
LEMMA AccountOwnsStep ==
    IndInv /\ ReleasedTogether /\ AccountOwns /\ [Next]_vars => AccountOwns'
<1> SUFFICES ASSUME IndInv, ReleasedTogether, AccountOwns, [Next]_vars, NEW p \in Proc,
                    call'[p].mode = "account-remove", pc'[p] \in Reopening,
                    NEW s \in Websites(call'[p])
             PROVE  OwnsHostname(s)'
    BY Zenon DEF AccountOwns, Websites
<1>1. /\ s \in Websites(call[p]) /\ call'[p] = call[p]
      /\ pc[p] \in Reopening \/ (BeginAccountRemoval(p) /\ ~AccountComplete(p))
    BY Zenon, ReopeningReach
<1>2. pc[p] \in Leased /\ pc[p] # "release" /\ call[p].mode = "account-remove"
    BY Zenon, <1>1 DEF Reopening, BeginAccountRemoval, Leased
<1> PICK i \in DOMAIN values[p] : s = values[p][i].site
    BY Zenon, <1>1, <1>2, AccountHolds
<1>3. /\ call[p] \in Request /\ s \in Site /\ s # 0 /\ siteRec[s] # NoFile
      /\ siteRec[s].state = "active" => OwnsHostname(s)
      /\ siteRec[s].state # "active" => siteRec[s].kind = "account" /\ siteRec[s].op = call[p].op
    BY Zenon, <1>1, <1>2, AccountAt
<1>4. OwnsHostname(s)
    <2>1. CASE pc[p] \in Reopening
        BY Zenon, <1>1, <1>2, <2>1 DEF AccountOwns
    <2>2. CASE ~AccountComplete(p)
        <3>1. call[p].ids # << >>
            <4>1. DOMAIN call[p].ids # {}
                BY <1>1, Zenon DEF Websites
            <4>2. QED
                BY <4>1
        <3>2. PICK j \in DOMAIN call[p].ids :
                  ~(siteRec[call[p].ids[j].site] # NoFile /\ siteRec[call[p].ids[j].site].state = "removed")
            BY <2>2, <3>1, Zenon DEF AccountComplete
        <3>3. call[p].ids[j].site \in Websites(call[p])
            BY Zenon DEF Websites
        <3>4. QED
            BY Zenon, <1>2, <1>3, <3>2, <3>3 DEF ReleasedTogether
    <2>3. QED
        BY Zenon, <1>1, <2>1, <2>2
<1>5. PICK d : d = siteRec[s].identity.domain
    BY Zenon
<1>6. d \in Domain
    BY Zenon, <1>3, <1>5 DEF IndInv, TypeOK, SiteRecord, Identity
<1>7. ASSUME NEW q \in Proc, ReleaseBinding(q), Id(q).site = s PROVE FALSE
    <2>1. pc[q] = "release" /\ q # p
        BY Zenon, <1>2, <1>7 DEF ReleaseBinding
    <2>2. idx[q] \in DOMAIN values[q] /\ values[q][idx[q]].site = s
        BY Zenon, <1>7, <2>1, RemovalIdTyped DEF IndInv
    <2>3. pc[p] \in Working /\ pc[q] \in Working
        BY Zenon, <1>2, <2>1 DEF Working, Leased
    <2>4. QED
        BY Zenon, <1>1, <1>3, <2>1, <2>2, <2>3, Exclusion DEF IndInv
<1>8. Binding(d).active = s
    BY Zenon, <1>4, <1>5 DEF OwnsHostname
<1>9. Binding(d)'.active = s
    BY Zenon, <1>3, <1>6, <1>7, <1>8, OwnerMoves
<1>10. siteRec'[s].identity = siteRec[s].identity
    BY Zenon, <1>3, RecordsStep
<1>11. QED
    BY Zenon, <1>5, <1>9, <1>10 DEF OwnsHostname, Binding

LEMMA AccountMarkedStep ==
    IndInv /\ AccountMarked /\ [Next]_vars => AccountMarked'
<1> SUFFICES ASSUME IndInv, AccountMarked, [Next]_vars, NEW p \in Proc,
                    call'[p].mode = "account-remove", pc'[p] # "complete",
                    NEW i \in DOMAIN values'[p], MarkedAt(p, i)', NEW s, s = values'[p][i].site
             PROVE  siteRec'[s].state = "removing"
    BY Zenon DEF AccountMarked
<1>1. /\ i \in DOMAIN values[p] /\ s = values[p][i].site
      /\ \/ MarkedAt(p, i)
         \/ (MarkSite(p) \/ SkipMark(p)) /\ i = idx[p]
    BY Zenon, MarkedReach
<1>2. pc'[p] \in {"mark", "markDomain", "work"}
    BY Zenon DEF MarkedAt
<1>3. call'[p] = call[p] /\ (pc[p] \in Reopening \/ pc[p] = "lease")
    BY Zenon, <1>2, ReopeningReach DEF Reopening, BeginAccountRemoval
<1>4. pc[p] # "complete"
    <2> SUFFICES ASSUME pc[p] = "complete" PROVE FALSE
        BY Zenon
    <2>1. ASSUME NEW q \in Proc, Moves(q) PROVE q = p
        BY Zenon, <1>2, <2>1, OtherUnmoved DEF IndInv
    <2>2. Moves(p)
        BY Zenon, <1>2, <2>1 DEF Next, Moves, vars
    <2>3. CompleteSite(p) \/ Abort(p)
        BY Zenon, <2>2 DEF Moves, Step, Start, Resolve, Acquire, Locked, Validate, Register, Bind, Work, BeginMark,
               BeginComplete, BeginAccountRemoval, SkipMark, MarkSite, MarkDomain, AccountTornDown,
               ReleaseBinding, Finish
    <2>4. pc'[p] \in {"complete", "release", "idle"}
        BY Zenon, <2>3, NextIdentityEffect, Labels DEF CompleteSite, Abort, Return, Goto, IndInv, TypeOK
    <2>5. QED
        BY Zenon, <1>2, <2>4
<1>5. pc[p] \in Leased /\ call[p].mode = "account-remove"
    BY Zenon, <1>3 DEF Reopening, Leased
<1>6. s \in Site /\ s # 0 /\ siteRec[s] # NoFile
    BY Zenon, <1>1, <1>5, AccountAt
<1>7. CASE MarkedAt(p, i)
    <2>1. siteRec[s].state = "removing"
        BY Zenon, <1>1, <1>4, <1>5, <1>7 DEF AccountMarked
    <2>2. ASSUME NEW q \in Proc, CompleteSite(q), s = Id(q).site PROVE FALSE
        <3>1. pc[q] = "complete" /\ q # p
            BY Zenon, <1>4, <2>2 DEF CompleteSite
        <3>2. idx[q] \in DOMAIN values[q] /\ values[q][idx[q]].site = s
            BY Zenon, <2>2, <3>1, RemovalIdTyped DEF IndInv
        <3>3. pc[p] \in Working /\ pc[q] \in Working
            BY Zenon, <1>5, <3>1 DEF Working, Leased
        <3>4. QED
            BY Zenon, <1>1, <1>6, <3>1, <3>2, <3>3, Exclusion DEF IndInv
    <2>3. ASSUME NEW q \in Proc, Register(q), s = Current(q).site PROVE FALSE
        BY Zenon, <1>6, <2>3, RegisterEffect
    <2>4. ASSUME NEW q \in Proc, MarkSite(q), s = Id(q).site PROVE siteRec'[s].state = "removing"
        BY Zenon, <2>4, MarkSiteEffect
    <2>5. QED
        BY Zenon, <1>6, <2>1, <2>2, <2>3, <2>4, RecordMoves
<1>8. CASE MarkSite(p) /\ i = idx[p]
    <2>1. s = Id(p).site
        BY Zenon, <1>1, <1>8, RemovalIdTyped DEF MarkSite, IndInv
    <2>2. QED
        BY Zenon, <1>8, <2>1, MarkSiteEffect
<1>9. CASE SkipMark(p)
    BY Zenon, <1>5, <1>9 DEF SkipMark
<1>10. QED
    BY Zenon, <1>1, <1>7, <1>8, <1>9
\* A step of an account removal that reopens a final tombstone belongs to an
\* account none of whose hostnames was freed.
LEMMA ReopensItsOwn ==
    ASSUME IndInv, RemovalsAreRequested, AccountOwns, AccountListsAgree,
           NEW p \in Proc, MarkSite(p), NEW t, t = Id(p).site, siteRec[t].state = "removed",
           NEW s \in Site, siteRec[s] # NoFile, siteRec[s].state # "active", siteRec[s].kind = "account",
           NEW r \in Request, r.mode = "account-remove", r.op = siteRec[s].op, t \in Websites(r)
    PROVE  OwnsHostname(s)
<1>1. pc[p] = "mark" /\ call[p].mode # "remove"
    BY Zenon DEF MarkSite
<1>2. /\ call[p] \in Request /\ t \in Websites(call[p])
      /\ call[p].mode \in {"remove", "account-remove"}
    BY Zenon, <1>1, RemovalAt
<1>3. call[p].op = r.op /\ Websites(call[p]) = Websites(r)
    BY Zenon, <1>1, <1>2 DEF AccountListsAgree
<1>4. PICK q \in Request : q.mode = "account-remove" /\ q.op = siteRec[s].op /\ s \in Websites(q)
    BY Zenon DEF RemovalsAreRequested
<1>5. s \in Websites(call[p])
    BY Zenon, <1>3, <1>4 DEF AccountListsAgree
<1>6. QED
    BY Zenon, <1>1, <1>2, <1>5 DEF AccountOwns, Reopening

LEMMA ReleasedTogetherStep ==
    IndInv /\ RemovalsAreRequested /\ ReleasedTogether /\ AccountOwns /\ AccountListsAgree
      /\ [Next]_vars => ReleasedTogether'
<1> SUFFICES ASSUME IndInv, RemovalsAreRequested, ReleasedTogether, AccountOwns, AccountListsAgree,
                    [Next]_vars, NEW s \in Site, siteRec'[s] # NoFile,
                    siteRec'[s].state # "active", siteRec'[s].kind = "account", ~OwnsHostname(s)',
                    NEW r \in Request, r.mode = "account-remove", r.op = siteRec'[s].op,
                    NEW t \in Websites(r)
             PROVE  siteRec'[t] # NoFile /\ siteRec'[t].state = "removed"
    BY Zenon DEF ReleasedTogether, Websites
<1> DEFINE Was == /\ siteRec[s] # NoFile /\ siteRec[s].state # "active" /\ siteRec[s].kind = "account"
                  /\ siteRec[s].op = siteRec'[s].op /\ siteRec[s].identity = siteRec'[s].identity
<1>1. t \in Site
    BY Zenon, RequestAssumption DEF Websites
<1>2. Was
    <2>1. ASSUME NEW p \in Proc, Register(p), s = Current(p).site PROVE FALSE
        BY Zenon, <2>1 DEF Register, IndInv, TypeOK
    <2>2. ASSUME NEW p \in Proc, CompleteSite(p), s = Id(p).site PROVE Was
        BY Zenon, <2>2, CompleteSiteEffect, CompletesTombstone
    <2>3. ASSUME NEW p \in Proc, MarkSite(p), s = Id(p).site PROVE FALSE
        <3>1. /\ siteRec'[s].kind = RemovalKind(p) /\ siteRec'[s].identity = siteRec[s].identity
              /\ domRec' = domRec
            BY Zenon, <2>3, MarkSiteEffect
        <3>2. call[p].mode = "account-remove" /\ pc[p] = "mark"
            BY <2>3, <3>1 DEF RemovalKind, MarkSite
        <3>3. s \in Websites(call[p])
            BY Zenon, <2>3, <3>2, RemovalAt
        <3>4. OwnsHostname(s)
            BY Zenon, <3>2, <3>3 DEF AccountOwns, Reopening
        <3>5. OwnsHostname(s)'
            BY Zenon, <3>1, <3>4 DEF OwnsHostname, Binding
        <3>6. QED
            BY Zenon, <3>5
    <2>4. QED
        BY Zenon, <2>1, <2>2, <2>3, RecordMoves
<1>3. CASE OwnsHostname(s)
    <2>1. PICK d : d = siteRec[s].identity.domain
        BY Zenon
    <2>2. d \in Domain
        BY Zenon, <1>2, <2>1 DEF IndInv, TypeOK, SiteRecord, Identity
    <2>3. Binding(d).active = s /\ s # 0
        BY Zenon, <1>3, <2>1, ConstantsAssumption DEF OwnsHostname
    <2>4. Binding(d)'.active # s
        BY Zenon, <1>2, <2>1 DEF OwnsHostname, Binding
    <2>5. PICK p \in Proc : ReleaseBinding(p) /\ Id(p).site = s
        BY Zenon, <2>2, <2>3, <2>4, OwnerMoves
    <2>6. pc[p] = "release" /\ siteRec' = siteRec
        BY Zenon, <2>5 DEF ReleaseBinding
    <2>7. call[p] \in Request /\ ResumesRemoval(p, siteRec[s])
        BY Zenon, <1>2, <2>5, <2>6, RemovalAt
    <2>8. call[p].mode = "account-remove" /\ call[p].op = r.op
        BY Zenon, <1>2, <2>7 DEF ResumesRemoval, RemovalKind
    <2>9. t \in Websites(call[p]) /\ pc[p] \in Leased
        BY Zenon, <2>6, <2>7, <2>8 DEF AccountListsAgree, Leased
    <2>10. PICK i \in DOMAIN values[p] : t = values[p][i].site
        BY Zenon, <2>9, AccountHolds
    <2>11. QED
        BY Zenon, <2>6, <2>10 DEF IndInv, CompletedInv, CompletedAt
<1>4. CASE ~OwnsHostname(s)
    <2>1. siteRec[t] # NoFile /\ siteRec[t].state = "removed"
        BY Zenon, <1>2, <1>4 DEF ReleasedTogether
    <2>2. ASSUME NEW p \in Proc, Register(p), t = Current(p).site PROVE FALSE
        BY Zenon, <2>1, <2>2, RegisterEffect
    <2>3. ASSUME NEW p \in Proc, CompleteSite(p), t = Id(p).site
          PROVE  siteRec'[t] # NoFile /\ siteRec'[t].state = "removed"
        BY Zenon, <2>3, CompleteSiteEffect
    <2>4. ASSUME NEW p \in Proc, MarkSite(p), t = Id(p).site PROVE FALSE
        BY Zenon, <1>2, <1>4, <2>1, <2>4, ReopensItsOwn
    <2>5. QED
        BY Zenon, <1>1, <2>1, <2>2, <2>3, <2>4, RecordMoves
<1>5. QED
    BY Zenon, <1>3, <1>4

\* While the teardown of an account runs, its hostnames still belong to the
\* websites it removes, although the removal of an account may be repeated and
\* reopens final tombstones (WithAccountRemoval).
THEOREM AccountCleanupIsOnItsOwn ==
    AccountListsAgree /\ Spec => []AccountCleanupOwnsHostnames
<1> SUFFICES ASSUME AccountListsAgree PROVE Spec => []AccountCleanupOwnsHostnames
    BY Zenon
<1> DEFINE AccountInv == ReleasedTogether /\ AccountOwns /\ AccountMarked
<1>1. Init => AccountInv
    BY Zenon DEF Init, ReleasedTogether, AccountOwns, AccountMarked, Reopening, MarkedAt
<1>2. IndInv /\ RemovalsAreRequested /\ AccountInv /\ [Next]_vars => AccountInv'
    BY Zenon, ReleasedTogetherStep, AccountOwnsStep, AccountMarkedStep
<1>3. IndInv /\ AccountInv => AccountCleanupOwnsHostnames
    <2> SUFFICES ASSUME IndInv, AccountInv, NEW p \in Proc, pc[p] = "work",
                        call[p].mode = "account-remove", NEW i \in DOMAIN call[p].ids,
                        NEW id, id = call[p].ids[i]
                 PROVE  /\ siteRec[id.site].state = "removing"
                        /\ Binding(id.domain).active = id.site
        BY Zenon DEF AccountCleanupOwnsHostnames
    <2>1. pc[p] \in Leased /\ pc[p] \in Reopening
        BY Zenon DEF Leased, Reopening
    <2>2. call[p].ids \in Seq(Identity) /\ values[p] \in Seq(Identity) /\ Len(values[p]) = Len(call[p].ids)
        BY <2>1, RequestAssumption, SMTT(30) DEF IndInv, TypeOK, PhaseInv, Phase, Working
    <2>3. /\ i \in DOMAIN values[p] /\ values[p][i].site = id.site
          /\ values[p][i].domain = id.domain
        BY <2>2, SMTT(30) DEF IndInv, PhaseInv, Phase
    <2>4. MarkedAt(p, i)
        BY Zenon DEF MarkedAt
    <2>5. siteRec[id.site].state = "removing"
        BY Zenon, <2>3, <2>4 DEF AccountMarked
    <2>6. siteRec[id.site].identity.domain = id.domain /\ id.site \in Websites(call[p])
        BY Zenon, <2>1, <2>3, AccountAt
    <2>7. OwnsHostname(id.site)
        BY Zenon, <2>1, <2>6 DEF AccountOwns
    <2>8. QED
        BY Zenon, <2>5, <2>6, <2>7 DEF OwnsHostname
<1>4. QED
    BY <1>1, <1>2, <1>3, Inductive, RemovalRecords, PTL DEF Spec
-----------------------------------------------------------------------------
(* The host.  What is on the host must belong to the website that owns the   *)
(* hostname.                                                                *)

\* What an ordinary operation leaves belongs to an active website, which owns
\* its hostname, or to no website.
LEMMA ProvisionEffect ==
    ASSUME IndInv, NEW p \in Proc, Provision(p), NEW h \in host', h \notin host
    PROVE  /\ UNCHANGED vars /\ pc[p] = "work" /\ call[p].mode \in {"existing", "create"} /\ h[3] \in Provided
           /\ \E i \in DOMAIN values[p] : h[1] = values[p][i].domain
           /\ h[2] # 0 => /\ h[2] \in Site /\ siteRec[h[2]] # NoFile
                          /\ siteRec[h[2]].identity.domain = h[1]
                          /\ siteRec[h[2]].state = "active" /\ Binding(h[1]).active = h[2]
<1>1. UNCHANGED vars /\ pc[p] = "work" /\ call[p].mode \in {"existing", "create"}
    BY Zenon DEF Provision
<1>2. PICK i \in DOMAIN values[p], item \in Provided :
          host' = host \cup {<<values[p][i].domain,
                               IF values[p][i].site # 0 THEN values[p][i].site
                               ELSE Binding(values[p][i].domain).active, item>>}
    BY Zenon DEF Provision
<1>3. PICK d, s, b : d = values[p][i].domain /\ s = values[p][i].site /\ b = Binding(d).active
    BY Zenon
<1>4. values[p][i] \in Identity
    BY DEF IndInv, TypeOK
<1>5. d \in Domain /\ s \in Site \cup {0}
    BY Zenon, <1>3, <1>4 DEF Identity
<1>6. b \in Site \cup {0}
    BY Zenon, <1>3, <1>5, BindingTyped DEF IndInv, DomainRecord
<1>7. h = <<d, IF s # 0 THEN s ELSE b, item>>
    BY Zenon, <1>2, <1>3
<1>8. h[1] = d /\ h[2] = (IF s # 0 THEN s ELSE b) /\ h[3] = item
    BY Zenon, <1>7
<1>9. Established(p, values[p][i])
    BY Zenon, <1>1 DEF IndInv, ValidatedInv, ValidatedAt, Leased
<1>10. s # 0 => /\ siteRec[s] # NoFile /\ siteRec[s].identity.domain = d
                /\ siteRec[s].state = "active" /\ b = s
    BY <1>1, <1>3, <1>9, Zenon DEF Established, ResumesRemoval
<1>11. s = 0 /\ b # 0 => siteRec[b] # NoFile /\ siteRec[b].identity.domain = d /\ siteRec[b].state = "active"
    <2>1. s = 0 => HostnameLive(d)
        BY <1>3, <1>9, Zenon DEF Established
    <2>2. b # 0 => siteRec[b].identity.domain = d
        BY Zenon, <1>3, <1>5 DEF IndInv, BindingsAreOwned
    <2>3. QED
        BY <1>3, <2>1, <2>2, Zenon DEF HostnameLive
<1>12. QED
    BY <1>1, <1>3, <1>5, <1>6, <1>8, <1>10, <1>11, Zenon

\* The content of a website is under its hostname.
HostNamed ==
    \A h \in host : h[2] # 0 => h[2] \in Site /\ siteRec[h[2]] # NoFile /\ siteRec[h[2]].identity.domain = h[1]

LEMMA HostNamedStep ==
    ASSUME IndInv, HostNamed, NEW p \in Proc, TMoves(p), [Next]_vars
    PROVE  HostNamed'
<1> SUFFICES ASSUME NEW h \in host', h[2] # 0
             PROVE  h[2] \in Site /\ siteRec'[h[2]] # NoFile /\ siteRec'[h[2]].identity.domain = h[1]
    BY Zenon DEF HostNamed
<1>1. h[2] \in Site /\ siteRec[h[2]] # NoFile /\ siteRec[h[2]].identity.domain = h[1]
    BY Zenon, HostMoves, ProvisionEffect DEF HostNamed
<1>2. QED
    BY Zenon, <1>1, RecordsStep

\* Under its lease a request has resolved all the identities it names.
LEMMA LeasedIds ==
    ASSUME IndInv, NEW p \in Proc, pc[p] \in Leased
    PROVE  /\ DOMAIN values[p] = DOMAIN call[p].ids
           /\ \A i \in DOMAIN values[p] :
                values[p][i].domain = call[p].ids[i].domain /\ values[p][i].site = call[p].ids[i].site
<1>1. Phase(p) /\ values[p] \in Seq(Identity) /\ pc[p] # "idle" /\ pc[p] \in Working
    BY Zenon DEF IndInv, PhaseInv, TypeOK, Leased, Working
<1>2. call[p].ids \in Seq(Identity) /\ Len(values[p]) = Len(call[p].ids)
    BY Zenon, <1>1, RequestAssumption DEF Phase
<1>3. QED
    BY <1>1, <1>2 DEF Phase

\* A registry step leads to the completion loop from that loop only.
LEMMA StaysComplete ==
    ASSUME IndInv, NEW p \in Proc, RegistryStep(p), pc'[p] = "complete"
    PROVE  pc[p] = "complete"
<1>1. CASE Resolve(p) \/ Validate(p) \/ Bind(p)
    BY <1>1, NextIdentityEffect, Labels, Zenon DEF Resolve, Validate, Bind, IndInv
<1>2. CASE SkipMark(p) \/ MarkDomain(p) \/ ReleaseBinding(p)
    BY <1>2, NextIdentityEffect, Labels DEF SkipMark, MarkDomain, ReleaseBinding, IndInv
<1>3. CASE Acquire(p) \/ Locked(p) \/ Register(p) \/ Work(p)
    BY Zenon, <1>3 DEF Acquire, Locked, Register, Work, Goto, IndInv, TypeOK
<1>4. CASE MarkSite(p) \/ BeginAccountRemoval(p)
    BY Zenon, <1>4 DEF MarkSite, BeginAccountRemoval, Goto, IndInv, TypeOK
<1>5. CASE CompleteSite(p)
    BY Zenon, <1>5 DEF CompleteSite
<1>6. QED
    BY <1>1, <1>2, <1>3, <1>4, <1>5, Zenon DEF RegistryStep

\* An account removal comes to the completion loop when its teardown is over.
LEMMA CompleteReach ==
    ASSUME IndInv, TTypeOK, StagePhase, NEW p \in Proc, TMoves(p), NEW q \in Proc,
           call'[q].mode = "account-remove", pc'[q] = "complete"
    PROVE  call'[q] = call[q] /\ (pc[q] = "complete" \/ (AccountRemoved(p) /\ q = p))
<1>1. CASE q # p
    BY Zenon, <1>1, OtherTeardowns DEF IndInv
<1>2. ASSUME q = p, RegistryStep(p) PROVE call'[p] = call[p] /\ pc[p] = "complete"
    BY Zenon, <1>2, RegistryLabels, StaysComplete
<1>3. ASSUME q = p, AlreadyDone(p) \/ FinishRequest(p) \/ AbortRequest(p) PROVE FALSE
    BY Zenon, <1>3, Returned
<1>4. ASSUME q = p, BeginStage(p) PROVE FALSE
    <2>1. call' = call /\ Removing(p)
        BY Zenon, <1>4 DEF BeginStage, BeginComplete, BeginMark
    <2>2. QED
        BY Zenon, <1>4, <2>1 DEF Removing
<1>5. ASSUME q = p, Writes(p) \/ RemoveItem(p) \/ Provision(p) \/ RemoveAccountItem(p)
      PROVE  call'[p] = call[p] /\ pc[p] = "complete"
    <2>1. UNCHANGED vars
        BY <1>5, Zenon DEF Writes, WriteRevision, CheckpointItem, CheckpointStage, CompleteJournal, RemoveItem,
               Provision, RemoveAccountItem
    <2>2. QED
        BY <1>5, <2>1, Zenon DEF vars
<1>6. ASSUME AccountRemoved(p) PROVE call'[p] = call[p]
    BY Zenon, <1>6 DEF AccountRemoved, AccountTornDown
<1>7. ASSUME q = p, NEW r \in Request, Start(p, r) PROVE FALSE
    BY Zenon, <1>7 DEF Start, Goto, IndInv, TypeOK
<1>8. QED
    BY <1>1, <1>2, <1>3, <1>4, <1>5, <1>6, <1>7, Zenon DEF TMoves, TStep, Writes, StartOther, StartTeardown

\* An account removal frees hostnames only when the content of its websites is
\* gone, and nobody else works under its hostnames meanwhile.
AccountGone ==
    \A p \in Proc : call[p].mode = "account-remove" /\ pc[p] = "complete" =>
        \A h \in host : h[1] \in Hostnames(p) => h[3] \notin AccountItem

LEMMA AccountGoneStep ==
    ASSUME IndInv, TTypeOK, StagePhase, AccountGone, NEW p \in Proc, TMoves(p), [Next]_vars
    PROVE  AccountGone'
<1> SUFFICES ASSUME NEW q \in Proc, call'[q].mode = "account-remove", pc'[q] = "complete",
                    NEW h \in host', h[1] \in Hostnames(q)'
             PROVE  h[3] \notin AccountItem
    BY Zenon DEF AccountGone
<1>1. call'[q] = call[q] /\ (pc[q] = "complete" \/ (AccountRemoved(p) /\ q = p))
    BY Zenon, CompleteReach
<1>2. h[1] \in Hostnames(q)
    BY Zenon, <1>1 DEF Hostnames
<1>3. CASE AccountRemoved(p) /\ q = p
    BY Zenon, <1>2, <1>3 DEF AccountRemoved, tvars
<1>4. CASE pc[q] = "complete" /\ h \in host
    BY Zenon, <1>1, <1>2, <1>4 DEF AccountGone
<1>5. CASE pc[q] = "complete" /\ h \notin host
    <2>1. PICK i \in DOMAIN values[p] : pc[p] = "work" /\ h[1] = values[p][i].domain
        BY <1>5, HostMoves, ProvisionEffect, Zenon
    <2>2. PICK j \in DOMAIN call[q].ids : h[1] = call[q].ids[j].domain
        BY <1>2, Zenon DEF Hostnames
    <2>3. j \in DOMAIN values[q] /\ h[1] = values[q][j].domain
        BY <1>5, <2>2, LeasedIds, Zenon DEF Leased
    <2>4. pc[p] \in Working /\ pc[q] \in Working /\ p # q
        BY Zenon, <1>5, <2>1 DEF Working, Leased
    <2>5. QED
        BY <2>1, <2>3, <2>4, Exclusion, Zenon DEF IndInv
<1>6. QED
    BY Zenon, <1>1, <1>3, <1>4, <1>5
\* What a stage that works on the host knows of the websites it removes.
LEMMA WorkAt ==
    ASSUME IndInv, StageMarked, NEW p \in Proc, Removing(p), pc[p] = "work", NEW s \in Websites(call[p])
    PROVE  /\ s \in Site /\ s # 0 /\ siteRec[s] # NoFile /\ siteRec[s].state = "removing"
           /\ siteRec[s].identity.domain \in Hostnames(p)
<1>1. PICK i \in DOMAIN call[p].ids : s = call[p].ids[i].site
    BY Zenon DEF Websites
<1>2. i \in DOMAIN values[p] /\ s = values[p][i].site /\ values[p][i].domain = call[p].ids[i].domain
    BY Zenon, <1>1, LeasedIds DEF Leased
<1>3. s \in Site
    BY Zenon, <1>2, RemovingTyped, RemovalSites DEF IndInv, Removing
<1>4. s # 0
    BY Zenon, <1>3, ConstantsAssumption
<1>5. siteRec[s].state = "removing"
    BY <1>2, Zenon DEF StageMarked, MarkedAt, Removing
<1>6. Established(p, values[p][i])
    BY Zenon, <1>2 DEF IndInv, ValidatedInv, ValidatedAt, Leased
<1>7. siteRec[s] # NoFile /\ siteRec[s].identity.domain = call[p].ids[i].domain
    BY <1>2, <1>4, <1>6, Zenon DEF Established
<1>8. QED
    BY <1>1, <1>3, <1>4, <1>5, <1>7, Zenon DEF Hostnames

\* The items of a stage are done one by one.
LEMMA OneNextItem ==
    ASSUME NEW p \in Proc, NEW x, NEW y, NextItem(p, x), NextItem(p, y)
    PROVE  x = y
<1>1. PICK i \in DOMAIN StageItems(stage[p]) :
          /\ StageItems(stage[p])[i] = x /\ x \notin copy[p].done
          /\ \A k \in 1..(i - 1) : StageItems(stage[p])[k] \in copy[p].done
    BY Zenon DEF NextItem
<1>2. PICK j \in DOMAIN StageItems(stage[p]) :
          /\ StageItems(stage[p])[j] = y /\ y \notin copy[p].done
          /\ \A k \in 1..(j - 1) : StageItems(stage[p])[k] \in copy[p].done
    BY Zenon DEF NextItem
<1>3. DOMAIN StageItems(stage[p]) \subseteq 1..2
    BY DEF StageItems
<1>4. i = j
    BY <1>1, <1>2, <1>3
<1>5. QED
    BY Zenon, <1>1, <1>2, <1>4

\* Between the removal of an item and its checkpoint nothing of the item comes
\* back: no ordinary operation works for a website that is being removed.
ItemAt(p) ==
    Removing(p) /\ pc[p] = "work" /\ at[p] = "removed" =>
        \A item \in Item : NextItem(p, item) =>
            \A h \in host : ~(h[2] \in Websites(call[p]) /\ h[3] = item)

ItemGone == \A p \in Proc : ItemAt(p)

LEMMA ItemGoneStep ==
    ASSUME IndInv, TTypeOK, StagePhase, StageMarked, HostNamed, ItemGone, NEW p \in Proc, TMoves(p)
    PROVE  ItemGone'
<1> SUFFICES ASSUME NEW q \in Proc, Removing(q)', pc'[q] = "work", at'[q] = "removed",
                    NEW item \in Item, NextItem(q, item)',
                    NEW h \in host', h[2] \in Websites(call'[q]), h[3] = item
             PROVE  FALSE
    BY Zenon DEF ItemGone, ItemAt
<1>1. ASSUME RemoveItem(p), q = p PROVE FALSE
    <2>1. /\ call' = call /\ stage' = stage /\ copy' = copy /\ pc' = pc
        BY <1>1, Zenon DEF RemoveItem, vars
    <2>2. PICK x \in Item : /\ NextItem(p, x)
                            /\ host' = {g \in host : ~(g[1] \in Hostnames(p) /\ g[3] = x)}
        BY Zenon, <1>1 DEF RemoveItem
    <2>3. NextItem(p, item)
        BY Zenon, <1>1, <2>1 DEF NextItem
    <2>4. x = item
        BY Zenon, <2>2, <2>3, OneNextItem
    <2>5. h \in host /\ h[1] \notin Hostnames(p)
        BY Zenon, <2>2, <2>4
    <2>6. Removing(p) /\ pc[p] = "work" /\ h[2] \in Websites(call[p])
        BY <1>1, <2>1, Zenon DEF RemoveItem
    <2>7. h[2] # 0 /\ siteRec[h[2]].identity.domain \in Hostnames(p)
        BY <2>6, WorkAt, Zenon
    <2>8. QED
        BY Zenon, <2>5, <2>7 DEF HostNamed
<1>2. ASSUME /\ call'[q] = call[q] /\ pc[q] = "work" /\ at[q] = "removed"
             /\ stage'[q] = stage[q] /\ copy'[q] = copy[q] PROVE FALSE
    <2>1. Removing(q) /\ h[2] \in Websites(call[q]) /\ NextItem(q, item)
        BY <1>2, Zenon DEF Removing, NextItem
    <2>2. h \notin host
        BY <1>2, <2>1, Zenon DEF ItemGone, ItemAt
    <2>3. Provision(p)
        BY <2>2, HostMoves, Zenon
    <2>4. h[2] # 0 /\ siteRec[h[2]].state = "removing"
        BY Zenon, <1>2, <2>1, WorkAt
    <2>5. QED
        BY <2>2, <2>3, <2>4, ProvisionEffect, Zenon
<1>3. CASE q # p
    <2>1. /\ call'[q] = call[q] /\ pc[q] = "work" /\ at[q] = "removed"
          /\ stage'[q] = stage[q] /\ copy'[q] = copy[q]
        BY Zenon, <1>3, OtherTeardowns DEF IndInv
    <2>2. QED
        BY Zenon, <1>2, <2>1
<1>4. CASE q = p /\ ~RemoveItem(p)
    <2>1. at' = at => at[p] = "removed" /\ Removing(p) /\ pc[p] \in {"work", "done"}
        BY <1>4, Zenon DEF StagePhase, StageAt
    <2>2. ASSUME RegistryStep(p) PROVE FALSE
        BY <2>1, <2>2, RegistryLabels, Zenon
    <2>3. ASSUME AlreadyDone(p) \/ FinishRequest(p) \/ AbortRequest(p) PROVE FALSE
        BY <1>4, <2>3, Returned, Zenon
    <2>4. ASSUME BeginStage(p) PROVE FALSE
        BY <2>1, <2>4, Zenon DEF BeginStage, BeginMark, BeginComplete
    <2>5. ASSUME Writes(p) PROVE FALSE
        <3>1. at' = [at EXCEPT ![p] = "items"] \/ at' = [at EXCEPT ![p] = "end"]
            BY <2>5, Zenon DEF Writes, WriteRevision, CheckpointItem, CheckpointStage, CompleteJournal
        <3>2. QED
            BY Zenon, <1>4, <3>1 DEF TTypeOK
    <2>6. ASSUME Provision(p) \/ RemoveAccountItem(p) \/ AccountRemoved(p) PROVE FALSE
        <3>1. at' = at /\ call[p].mode # "remove"
            BY <2>6, Zenon DEF Provision, RemoveAccountItem, AccountRemoved, AccountTornDown, tvars
        <3>2. QED
            BY <2>1, <3>1, Zenon DEF Removing
    <2>7. ASSUME NEW r \in Request, Start(p, r) PROVE FALSE
        BY <1>4, <2>7, Zenon DEF Start, Goto, IndInv, TypeOK
    <2>8. QED
        BY <1>4, <2>2, <2>3, <2>4, <2>5, <2>6, <2>7, Zenon DEF TMoves, TStep, Writes, StartOther, StartTeardown
<1>5. QED
    BY Zenon, <1>1, <1>3, <1>4
\* An item with a checkpoint is gone for good: the websites of the operation are
\* no longer active, so that nothing of theirs comes back.
ItemsGone ==
    \A o \in Op : journal[o] # NoFile =>
        \A item \in journal[o].done \cap Item : \A r \in Request : r.mode = "remove" /\ r.op = o =>
            \A s \in Websites(r) :
                /\ s \in Site /\ s # 0 /\ siteRec[s] # NoFile /\ siteRec[s].state # "active"
                /\ \A h \in host : ~(h[2] = s /\ h[3] = item)

LEMMA ItemsGoneStep ==
    ASSUME IndInv, TTypeOK, TTypeOK', StagePhase, CopyInv, StageMarked, ItemGone, ItemsGone,
           NEW p \in Proc, TMoves(p), [Next]_vars
    PROVE  ItemsGone'
<1> SUFFICES ASSUME NEW o \in Op, journal'[o] # NoFile, NEW item \in journal'[o].done \cap Item,
                    NEW r \in Request, r.mode = "remove", r.op = o, NEW s \in Websites(r)
             PROVE  /\ s \in Site /\ s # 0 /\ siteRec'[s] # NoFile /\ siteRec'[s].state # "active"
                    /\ \A h \in host' : ~(h[2] = s /\ h[3] = item)
    BY Zenon DEF ItemsGone
<1>1. SUFFICES /\ s \in Site /\ s # 0 /\ siteRec[s] # NoFile /\ siteRec[s].state # "active"
               /\ \A h \in host : ~(h[2] = s /\ h[3] = item)
    <2>1. siteRec'[s] # NoFile /\ siteRec'[s].state # "active"
        BY Zenon, <1>1, RecordsStep
    <2>2. ASSUME NEW h \in host', h[2] = s, h[3] = item PROVE FALSE
        <3>1. h \notin host
            BY <1>1, <2>2, Zenon
        <3>2. Provision(p)
            BY Zenon, <3>1, HostMoves
        <3>3. QED
            BY <1>1, <2>2, <3>1, <3>2, ProvisionEffect, Zenon
    <2>3. QED
        BY Zenon, <1>1, <2>1, <2>2
<1>2. CASE journal[o] # NoFile /\ item \in journal[o].done
    BY Zenon, <1>2 DEF ItemsGone
<1>3. CASE ~(journal[o] # NoFile /\ item \in journal[o].done)
    <2>1. Writes(p)
        BY Zenon, <1>3, JournalMoves
    <2>2. PICK k : k = call[p].op
        BY Zenon
    <2>3. /\ Removing(p) /\ pc[p] \in {"work", "done"} /\ journal'[k] = copy'[p]
          /\ \A c \in Op : c # k => journal'[c] = journal[c]
        BY <2>1, <2>2, WriteFrame
    <2>4. k = o /\ item \in copy'[p].done
        BY Zenon, <1>3, <2>3
    <2>5. item \notin copy[p].done
        <3>1. CopyAt(p) /\ pc[p] \in Begun /\ copy[p] \in Journal
            BY Zenon, <2>3 DEF CopyInv, Begun, TTypeOK
        <3>2. /\ journal[call[p].op] = NoFile => copy[p].done = {}
              /\ journal[call[p].op] # NoFile => copy[p] = journal[call[p].op]
            BY <2>3, <3>1, CopyRead, Zenon
        <3>3. call[p].op = o
            BY Zenon, <2>2, <2>4
        <3>4. QED
            BY Zenon, <1>3, <3>2, <3>3
    <2>6. pc[p] = "work" /\ at[p] = "removed" /\ NextItem(p, item)
        <3>1. stage[p] \notin Item /\ "finalize" \notin Item
            BY <2>3, Zenon DEF StagePhase, StageAt, Stage, Item
        <3>2. CASE copy'[p] = [rev |-> call[p].rev, done |-> copy[p].done, complete |-> FALSE]
            BY <2>4, <2>5, <3>2
        <3>3. CASE copy'[p] = [rev |-> copy[p].rev, done |-> copy[p].done \cup {stage[p]}, complete |-> FALSE]
            BY <2>4, <2>5, <3>1, <3>3
        <3>4. CASE copy'[p] = [rev |-> call[p].rev, done |-> copy[p].done \cup {"finalize"}, complete |-> TRUE]
            BY <2>4, <2>5, <3>1, <3>4
        <3>5. CASE /\ pc[p] = "work" /\ at[p] = "removed"
                   /\ \E x \in Item :
                        /\ NextItem(p, x)
                        /\ copy'[p] = [rev |-> copy[p].rev, done |-> copy[p].done \cup {x}, complete |-> FALSE]
            <4>1. PICK x \in Item :
                      /\ NextItem(p, x)
                      /\ copy'[p] = [rev |-> copy[p].rev, done |-> copy[p].done \cup {x}, complete |-> FALSE]
                BY <3>5, Zenon
            <4>2. item = x
                BY <2>4, <2>5, <4>1
            <4>3. QED
                BY <3>5, <4>1, <4>2, Zenon
        <3>6. QED
            BY <2>1, <2>2, <3>2, <3>3, <3>4, <3>5, WriteEffect, Zenon
    <2>7. s \in Websites(call[p])
        <3>1. call[p] \in Request /\ call[p].mode = "remove" /\ call[p].op = r.op
            BY <2>2, <2>3, <2>4, RemovingTyped, Zenon DEF IndInv, Removing
        <3>2. call[p].ids = r.ids
            BY Zenon, <3>1, TeardownAssumption
        <3>3. QED
            BY Zenon, <3>2 DEF Websites
    <2>8. s \in Site /\ s # 0 /\ siteRec[s] # NoFile /\ siteRec[s].state = "removing"
        BY <2>3, <2>6, <2>7, WorkAt, Zenon
    <2>9. \A h \in host : ~(h[2] = s /\ h[3] = item)
        BY <2>3, <2>6, <2>7, Zenon DEF ItemGone, ItemAt
    <2>10. QED
        BY Zenon, <2>8, <2>9
<1>4. QED
    BY Zenon, <1>2, <1>3
\* What is on the host, except what the removal of an account leaves, belongs to
\* the website that owns the hostname, until its record is final.
HostOwned ==
    \A h \in host : h[2] # 0 /\ (siteRec[h[2]].kind = "site" \/ h[3] \in AccountItem) =>
        siteRec[h[2]].state # "removed" /\ Binding(h[1]).active = h[2]

\* The completion of a removal finds nothing of the website left.
LEMMA CompletesClean ==
    ASSUME IndInv, TTypeOK, StagePhase, CopyInv, JournalsAreClosed, ItemsGone, AccountGone, HostNamed,
           NEW q \in Proc, CompleteSite(q), NEW h \in host, h[2] = Id(q).site, h[2] # 0,
           siteRec[h[2]].kind = "site" \/ h[3] \in AccountItem
    PROVE  FALSE
<1>1. pc[q] = "complete"
    BY Zenon DEF CompleteSite
<1>2. PICK s : s = Id(q).site
    BY Zenon
<1>3. /\ s \in Websites(call[q]) /\ call[q] \in Request /\ call[q].mode \in {"remove", "account-remove"}
      /\ siteRec[s].identity.domain = Id(q).domain
      /\ siteRec[s].state # "active" => ResumesRemoval(q, siteRec[s])
    BY <1>1, <1>2, RemovalAt, Zenon
<1>4. siteRec[s].kind = RemovalKind(q)
    BY <1>2, <1>3, CompletesTombstone, Zenon DEF ResumesRemoval
<1>5. CASE Removing(q)
    <2>1. call[q].op \in Op
        BY Zenon, <1>5, RemovingTyped DEF IndInv
    <2>2. stage[q] = "finalize" /\ at[q] = "begin"
        BY Zenon, <1>1, <1>5 DEF StagePhase, StageAt
    <2>3. copy[q] = Reread(q) /\ "shared" \in copy[q].done
        BY Zenon, <1>1, <1>5, <2>2 DEF CopyInv, CopyAt, Begun, InOrder
    <2>4. journal[call[q].op] # NoFile /\ "shared" \in journal[call[q].op].done
        BY <2>3, RereadFile, Zenon
    <2>5. Closed(journal[call[q].op])
        BY <2>1, <2>4, Zenon DEF JournalsAreClosed
    <2>6. Item \subseteq journal[call[q].op].done
        BY Zenon, <2>4, <2>5 DEF Closed, Item
    <2>7. h[3] \in Item
        BY Zenon DEF TTypeOK
    <2>8. QED
        BY <1>2, <1>3, <1>5, <2>1, <2>4, <2>6, <2>7, Zenon DEF ItemsGone, Removing
<1>6. CASE call[q].mode = "account-remove"
    <2>1. h[3] \in AccountItem
        BY Zenon, <1>2, <1>4, <1>6 DEF RemovalKind
    <2>2. h[1] = Id(q).domain
        BY <1>2, <1>3, ZenonT(30) DEF HostNamed
    <2>3. h[1] \in Hostnames(q)
        <3>1. idx[q] \in DOMAIN call[q].ids
            BY <1>1, IdTyped DEF IndInv, Looping
        <3>2. QED
            BY Zenon, <2>2, <3>1 DEF Hostnames, Id
    <2>4. QED
        BY <1>1, <1>6, <2>1, <2>3, SMTT(30) DEF AccountGone
<1>7. QED
    BY Zenon, <1>3, <1>5, <1>6 DEF Removing

LEMMA HostOwnedStep ==
    ASSUME IndInv, RemovalsAreRequested, TTypeOK, StagePhase, CopyInv, JournalsAreClosed, ItemsGone, AccountGone,
           HostNamed, HostOwned, NEW p \in Proc, TMoves(p), [Next]_vars
    PROVE  HostOwned'
<1> SUFFICES ASSUME NEW h \in host', h[2] # 0, siteRec'[h[2]].kind = "site" \/ h[3] \in AccountItem
             PROVE  siteRec'[h[2]].state # "removed" /\ Binding(h[1])'.active = h[2]
    BY Zenon DEF HostOwned
<1>1. CASE h \notin host
    <2>1. Provision(p)
        BY Zenon, <1>1, HostMoves
    <2>2. /\ siteRec[h[2]].state = "active" /\ Binding(h[1]).active = h[2]
          /\ siteRec' = siteRec /\ domRec' = domRec
        BY Zenon, <1>1, <2>1, ProvisionEffect DEF vars
    <2>3. QED
        BY Zenon, <2>2 DEF Binding
<1>2. CASE h \in host
    <2>1. PICK s : s = h[2]
        BY Zenon
    <2>2. s \in Site /\ s # 0 /\ siteRec[s] # NoFile /\ siteRec[s].identity.domain = h[1]
        BY Zenon, <1>2, <2>1 DEF HostNamed
    <2>3. siteRec[s].kind = "site" \/ h[3] \in AccountItem
        <3>1. siteRec[s].state # "active" => siteRec'[s].kind = siteRec[s].kind
            BY Zenon, <2>2, RecordsStep
        <3>2. siteRec[s].state = "active" => siteRec[s].kind = "site"
            BY Zenon, <2>2 DEF RemovalsAreRequested
        <3>3. QED
            BY Zenon, <2>1, <3>1, <3>2
    <2>4. siteRec[s].state # "removed" /\ Binding(h[1]).active = s
        BY <1>2, <2>1, <2>2, <2>3, Zenon DEF HostOwned
    <2>5. OwnsHostname(s)
        BY Zenon, <2>2, <2>4 DEF OwnsHostname
    <2>6. Binding(h[1])'.active = s
        BY Zenon, <2>2, <2>4, <2>5, OwnerKept
    <2>7. siteRec'[s].state # "removed"
        <3>1. CASE siteRec'[s] = siteRec[s]
            BY Zenon, <2>4, <3>1
        <3>2. ASSUME NEW q \in Proc, Register(q), s = Current(q).site PROVE FALSE
            BY <2>2, <3>2, RegisterEffect, Zenon
        <3>3. ASSUME NEW q \in Proc, MarkSite(q), s = Id(q).site PROVE siteRec'[s].state # "removed"
            BY <3>3, MarkSiteEffect, Zenon
        <3>4. ASSUME NEW q \in Proc, CompleteSite(q), s = Id(q).site PROVE FALSE
            BY <1>2, <2>1, <2>3, <3>4, CompletesClean, Zenon
        <3>5. QED
            BY <2>2, <3>1, <3>2, <3>3, <3>4, RecordMoves, Zenon
    <2>8. QED
        BY Zenon, <2>1, <2>6, <2>7
<1>3. QED
    BY Zenon, <1>1, <1>2
\* Ordinary operations leave what they provide.
HostProvided == \A h \in host : h[3] \in Provided

HostInv == HostNamed /\ AccountGone /\ ItemGone /\ ItemsGone /\ HostOwned /\ HostProvided

LEMMA HostStep ==
    IndInv /\ RemovalsAreRequested /\ TeardownInv /\ TeardownInv' /\ HostInv /\ [TNext]_allVars => HostInv'
<1>1. ASSUME IndInv, RemovalsAreRequested, TeardownInv, TeardownInv', HostInv, NEW p \in Proc, TMoves(p)
      PROVE  HostInv'
    <2>0. /\ TTypeOK /\ StagePhase /\ CopyInv /\ JournalsAreClosed /\ StageMarked /\ TTypeOK'
          /\ HostNamed /\ AccountGone /\ ItemGone /\ ItemsGone /\ HostOwned /\ HostProvided
        BY Zenon, <1>1 DEF TeardownInv, HostInv
    <2>1. [Next]_vars
        BY Zenon, <1>1, NextRefines DEF TMoves, TNext
    <2>2. HostNamed' /\ AccountGone'
        BY Zenon, <1>1, <2>0, <2>1, HostNamedStep, AccountGoneStep
    <2>3. ItemGone' /\ ItemsGone'
        BY Zenon, <1>1, <2>0, <2>1, ItemGoneStep, ItemsGoneStep
    <2>4. HostOwned'
        BY Zenon, <1>1, <2>0, <2>1, HostOwnedStep
    <2>5. HostProvided'
        BY Zenon, <1>1, <2>0, HostMoves, ProvisionEffect DEF HostProvided
    <2>6. QED
        BY Zenon, <2>2, <2>3, <2>4, <2>5 DEF HostInv
<1>2. ASSUME HostInv, UNCHANGED allVars PROVE HostInv'
    <2>1. /\ journal' = journal /\ stage' = stage /\ copy' = copy /\ at' = at /\ host' = host
          /\ siteRec' = siteRec /\ domRec' = domRec /\ pc' = pc /\ call' = call
        BY Zenon, <1>2 DEF allVars, vars, tvars
    <2>2. HostNamed' /\ AccountGone' /\ HostProvided'
        BY Zenon, <1>2, <2>1 DEF HostInv, HostNamed, AccountGone, HostProvided, Hostnames
    <2>3. ItemGone'
        BY Zenon, <1>2, <2>1 DEF HostInv, ItemGone, ItemAt, Removing, NextItem
    <2>4. ItemsGone'
        BY <1>2, <2>1 DEF HostInv, ItemsGone
    <2>5. HostOwned'
        BY Zenon, <1>2, <2>1 DEF HostInv, HostOwned, Binding
    <2>6. QED
        BY Zenon, <2>2, <2>3, <2>4, <2>5 DEF HostInv
<1>3. QED
    BY Zenon, <1>1, <1>2 DEF TNext, TMoves

\* What is on the host stays with the website that owns the hostname.
LEMMA HostInductive == TSpec => []HostInv
<1>1. TInit => HostInv
    <2> SUFFICES ASSUME TInit PROVE HostInv
        BY Zenon
    <2>1. host = {} /\ (\A p \in Proc : ~Removing(p)) /\ \A o \in Op : journal[o] = NoFile
        BY Zenon DEF TInit, Init, Removing, NoRequest
    <2>2. HostNamed /\ AccountGone /\ ItemGone /\ HostOwned /\ HostProvided
        BY <2>1, Zenon DEF HostNamed, AccountGone, ItemGone, ItemAt, HostOwned, HostProvided
    <2>3. ItemsGone
        BY Zenon, <2>1 DEF ItemsGone
    <2>4. QED
        BY Zenon, <2>2, <2>3 DEF HostInv
<1>2. QED
    BY <1>1, HostStep, TeardownInductive, PTL DEF TSpec

\* When the removal of a website is final, nothing of it is left on the host,
\* however often its stages were repeated or interrupted (removalCheckpoint).
THEOREM FinishedRemovalsAreClean == TSpec => []FinishedRemovalIsClean
<1>1. HostInv => FinishedRemovalIsClean
    BY Zenon DEF HostInv, HostOwned, FinishedRemovalIsClean
<1>2. QED
    BY <1>1, HostInductive, PTL

\* Cleanup by hostname takes away only what belongs to the websites the request
\* names, as far as the removal of an account takes away all that operations
\* leave (teardownSubscription does not touch mail) and its
\* requests name the websites of one account.
THEOREM CleanupHitsItsTargets ==
    Provided \subseteq AccountItem /\ AccountListsAgree /\ TSpec => OnlyTargetsAreRemoved
<1> SUFFICES ASSUME Provided \subseteq AccountItem PROVE AccountListsAgree /\ TSpec => OnlyTargetsAreRemoved
    BY Zenon
<1> DEFINE Hit(h) ==
        \E p \in Proc : \E i \in DOMAIN call[p].ids :
            /\ call[p].mode \in {"remove", "account-remove"}
            /\ h[1] = call[p].ids[i].domain /\ h[2] \in {0, call[p].ids[i].site}
<1>1. ASSUME HostInv, StageOwnsHostnames, AccountCleanupOwnsHostnames,
             NEW p \in Proc, TMoves(p), NEW h \in host \ host'
      PROVE  Hit(h)
    <2>1. /\ pc[p] = "work" /\ call[p].mode \in {"remove", "account-remove"} /\ h[1] \in Hostnames(p)
        <3>1. CASE RemoveItem(p)
            BY Zenon, <1>1, <3>1 DEF RemoveItem, Removing
        <3>2. CASE RemoveAccountItem(p)
            BY Zenon, <1>1, <3>2 DEF RemoveAccountItem
        <3>3. CASE Provision(p)
            BY Zenon, <1>1, <3>3 DEF Provision
        <3>4. CASE ~(RemoveItem(p) \/ RemoveAccountItem(p) \/ Provision(p))
            <4>1. host' = host
                BY <1>1, <3>4, Zenon DEF TMoves, TStep, RegistryStep, AlreadyDone, BeginStage, WriteRevision,
                       CheckpointItem, CheckpointStage, CompleteJournal, AccountRemoved, FinishRequest,
                       AbortRequest, Forget, StartOther, StartTeardown, tvars
            <4>2. QED
                BY Zenon, <1>1, <4>1
        <3>5. QED
            BY <3>1, <3>2, <3>3, <3>4, Zenon
    <2>2. PICK i \in DOMAIN call[p].ids : h[1] = call[p].ids[i].domain
        BY Zenon, <2>1 DEF Hostnames
    <2>3. Binding(h[1]).active = call[p].ids[i].site
        BY <1>1, <2>1, <2>2, Zenon DEF StageOwnsHostnames, AccountCleanupOwnsHostnames, Removing
    <2>4. h[2] # 0 => Binding(h[1]).active = h[2]
        BY Zenon, <1>1 DEF HostInv, HostOwned, HostProvided
    <2>5. QED
        BY Zenon, <2>1, <2>2, <2>3, <2>4
<1>2. HostInv /\ StageOwnsHostnames /\ AccountCleanupOwnsHostnames
        /\ [TNext]_allVars => [\A h \in host \ host' : Hit(h)]_allVars
    BY <1>1, Zenon DEF TNext, TMoves
<1>3. AccountListsAgree /\ TSpec => []AccountCleanupOwnsHostnames
    BY TeardownImplementsRegistry, AccountCleanupIsOnItsOwn, PTL DEF RegistrySpec
<1>4. QED
    BY <1>2, <1>3, HostInductive, StagesOwnTheirHostnames, PTL DEF TSpec, OnlyTargetsAreRemoved
=============================================================================
