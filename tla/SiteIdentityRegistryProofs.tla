--------------------- MODULE SiteIdentityRegistryProofs ---------------------
(***************************************************************************)
(* Proofs about SiteIdentityRegistry, for any websites, hostnames,         *)
(* subscriptions, requests and number of goroutines: first that every step *)
(* keeps the state well typed, the phases a request goes through and the   *)
(* lock files it holds in them; then the inductive invariant of the        *)
(* registry and the theorems it gives; last, that waiting for lock files   *)
(* never becomes circular.                                                 *)
(***************************************************************************)
EXTENDS SiteIdentityRegistry, TLAPS, WellFoundedInduction

Looping == {"resolve", "mark", "markDomain", "complete", "release"}

\* A step of request p.
Moves(p) == Step(p) \/ \E r \in Request : Start(p, r)

\* The identity a loop is at is an identity of the request.
LEMMA IdTyped ==
    ASSUME TypeOK, PhaseInv, NEW p \in Proc, pc[p] \in Looping
    PROVE  /\ call[p] \in Request /\ idx[p] \in 1..Len(call[p].ids)
           /\ call[p].ids \in Seq(Identity) /\ Id(p) \in Identity
BY RequestAssumption DEF TypeOK, PhaseInv, Phase, Looping, Id

\* A removal's loop is at a website with an id, whose resolved identity has the
\* same id and hostname.
LEMMA RemovalIdTyped ==
    ASSUME TypeOK, PhaseInv, NEW p \in Proc,
           pc[p] \in {"mark", "markDomain", "complete", "release"}
    PROVE  /\ call[p] \in Request /\ call[p].mode \in {"remove", "account-remove"}
           /\ idx[p] \in DOMAIN values[p]
           /\ Id(p).site \in Site /\ Id(p).domain \in Domain
           /\ values[p][idx[p]].site = Id(p).site /\ values[p][idx[p]].domain = Id(p).domain
<1>1. /\ call[p] \in Request /\ idx[p] \in 1..Len(call[p].ids)
      /\ call[p].ids \in Seq(Identity) /\ Id(p) \in Identity
    BY Zenon, IdTyped DEF Looping
<1>2. call[p].mode \in {"remove", "account-remove"} /\ Len(values[p]) = Len(call[p].ids)
    BY Zenon DEF PhaseInv, Phase, Working, Leased
<1>3. idx[p] \in DOMAIN values[p]
    BY <1>1, <1>2 DEF TypeOK
<1>4. Id(p).site \in Site /\ Id(p).domain \in Domain
    BY <1>1, <1>2, RequestAssumption DEF Id, Identity
<1>5. values[p][idx[p]].site = Id(p).site /\ values[p][idx[p]].domain = Id(p).domain
    BY Zenon, <1>3 DEF PhaseInv, Phase, Id
<1>6. QED
    BY Zenon, <1>1, <1>2, <1>3, <1>4, <1>5

\* All identities of a removal name a website.
LEMMA RemovalSites ==
    ASSUME TypeOK, PhaseInv, NEW p \in Proc, NEW i \in DOMAIN values[p],
           call[p] \in Request, call[p].mode \in {"remove", "account-remove"}
    PROVE  values[p][i].site \in Site
<1>1. call[p].ids \in Seq(Identity) /\ values[p] \in Seq(Identity)
    BY Zenon, RequestAssumption DEF TypeOK
<1>2. i \in Nat /\ i >= 1 /\ i <= Len(call[p].ids) /\ values[p][i].site = call[p].ids[i].site
    BY <1>1 DEF PhaseInv, Phase
<1>3. i \in DOMAIN call[p].ids
    BY <1>1, <1>2
<1>4. QED
    BY Zenon, <1>2, <1>3, RequestAssumption

\* So is the resolved identity that validation is at.
LEMMA CurrentTyped ==
    ASSUME TypeOK, PhaseInv, NEW p \in Proc, pc[p] = "validate"
    PROVE  /\ call[p] \in Request /\ idx[p] \in DOMAIN values[p]
           /\ Current(p) \in Identity
BY DEF TypeOK, PhaseInv, Phase, Current, Working

\* Resolving an identity keeps its hostname and its website.
LEMMA ResolvedTyped ==
    ASSUME TypeOK, RecordsAreNamed, NEW id \in Identity,
           id.site # 0 /\ siteRec[id.site] # NoFile =>
               compatibleIdentity(siteRec[id.site].identity, id)
    PROVE  /\ Resolved(id) \in Identity
           /\ Resolved(id).domain = id.domain /\ Resolved(id).site = id.site
BY Zenon DEF TypeOK, RecordsAreNamed, Resolved, compatibleIdentity, Identity, SiteRecord

\* A hostname's binding is a record even where its file is missing.
LEMMA BindingTyped ==
    ASSUME TypeOK, NEW d \in Domain
    PROVE  Binding(d) \in DomainRecord
BY Zenon DEF TypeOK, Binding, DomainRecord

\* The labels of the loops and of what follows them are phases.
LEMMA Labels ==
    /\ "resolve" \in PC /\ "lock" \in PC /\ "validate" \in PC /\ "lease" \in PC /\ "mark" \in PC
    /\ "work" \in PC /\ "complete" \in PC /\ "release" \in PC /\ "done" \in PC
BY Zenon DEF PC

\* Advancing a loop moves one request only: to its next identity, or past the
\* last one to the phase that follows.
LEMMA NextIdentityEffect ==
    ASSUME TypeOK, NEW p \in Proc, NEW again \in PC, NEW after \in PC,
           NextIdentity(p, again, after)
    PROVE  /\ pc' \in [Proc -> PC] /\ idx' \in [Proc -> Nat \ {0}]
           /\ \A q \in Proc : q # p => pc'[q] = pc[q] /\ idx'[q] = idx[q]
           /\ \/ /\ idx[p] < Len(call[p].ids)
                 /\ pc'[p] = again /\ idx'[p] = idx[p] + 1
              \/ /\ ~(idx[p] < Len(call[p].ids))
                 /\ pc'[p] = after /\ idx'[p] = 1
<1>1. CASE idx[p] < Len(call[p].ids)
    <2>1. idx' = [idx EXCEPT ![p] = idx[p] + 1] /\ pc' = [pc EXCEPT ![p] = again]
        BY Zenon, <1>1 DEF NextIdentity, Goto
    <2>2. QED
        BY <1>1, <2>1 DEF TypeOK
<1>2. CASE ~(idx[p] < Len(call[p].ids))
    <2>1. idx' = [idx EXCEPT ![p] = 1] /\ pc' = [pc EXCEPT ![p] = after]
        BY Zenon, <1>2 DEF NextIdentity, Goto
    <2>2. QED
        BY <1>2, <2>1 DEF TypeOK
<1>3. QED
    BY Zenon, <1>1, <1>2

\* Writing one record keeps the files well typed.
LEMMA SiteWrite ==
    ASSUME siteRec \in [Site -> SiteRecord \cup {NoFile}], NEW s \in Site, NEW rec \in SiteRecord,
           siteRec' = [siteRec EXCEPT ![s] = rec]
    PROVE  siteRec' \in [Site -> SiteRecord \cup {NoFile}]
BY Zenon

\* Writing one well-typed hostname record keeps the records well-typed.
LEMMA DomainWrite ==
    ASSUME domRec \in [Domain -> DomainRecord \cup {NoFile}], NEW d \in Domain,
           NEW rec \in DomainRecord, domRec' = [domRec EXCEPT ![d] = rec]
    PROVE  domRec' \in [Domain -> DomainRecord \cup {NoFile}]
BY Zenon

\* A step that writes no file, takes no lock and starts or ends no request
\* only has to move within the phases to stay well typed.
LEMMA ControlTyped ==
    ASSUME TypeOK, pc' \in [Proc -> PC], idx' \in [Proc -> Nat \ {0}],
           siteRec' \in [Site -> SiteRecord \cup {NoFile}],
           domRec' \in [Domain -> DomainRecord \cup {NoFile}],
           values' \in [Proc -> Seq(Identity)],
           lock' = lock, call' = call
    PROVE  TypeOK'
BY Zenon DEF TypeOK

\* Every step keeps the state well typed.
LEMMA TypeStep ==
    ASSUME TypeOK, RecordsAreNamed, PhaseInv, NEW p \in Proc, Moves(p)
    PROVE  TypeOK'
<1>1. CASE \E r \in Request : Start(p, r)
    BY <1>1 DEF Start, Goto, TypeOK, PC
<1>2. CASE Resolve(p)
    <2>1. Resolved(Id(p)) \in Identity
        BY Zenon, <1>2, IdTyped, ResolvedTyped DEF Resolve, Resolvable, Looping
    <2>2. values' \in [Proc -> Seq(Identity)]
        BY <1>2, <2>1 DEF Resolve, TypeOK
    <2>3. pc' \in [Proc -> PC] /\ idx' \in [Proc -> Nat \ {0}]
        BY Zenon, <1>2, NextIdentityEffect, Labels DEF Resolve
    <2>4. QED
        BY Zenon, <1>2, <2>1, <2>2, <2>3, ControlTyped DEF Resolve, TypeOK
<1>3. CASE Acquire(p)
    BY Zenon, <1>3 DEF Acquire, TypeOK
<1>4. CASE Locked(p)
    BY Zenon, <1>4 DEF Locked, Goto, TypeOK, PC
<1>5. CASE Validate(p)
    <2>1. pc' \in [Proc -> PC] /\ idx' \in [Proc -> Nat \ {0}]
        BY Zenon, <1>5, NextIdentityEffect, Labels DEF Validate
    <2>2. QED
        BY Zenon, <1>5, <2>1, ControlTyped DEF Validate, TypeOK
<1>6. CASE Register(p)
    <2>1. Current(p) \in Identity /\ Current(p).site \in Site
        BY Zenon, <1>6, CurrentTyped DEF Register, CanRegister, Identity
    <2>2. [identity |-> Current(p), state |-> "active", op |-> 0, rev |-> 0, kind |-> "site"]
              \in SiteRecord
        BY Zenon, <2>1 DEF SiteRecord, RecordState
    <2>3. siteRec' \in [Site -> SiteRecord \cup {NoFile}]
        BY Zenon, <1>6, <2>1, <2>2, SiteWrite DEF Register, TypeOK
    <2>4. QED
        BY Zenon, <1>6, <2>3, ControlTyped DEF Register, TypeOK
<1>7. CASE Bind(p)
    <2>1. /\ Current(p).domain \in Domain /\ Current(p).site \in Site \cup {0}
          /\ Binding(Current(p).domain) \in DomainRecord
        BY Zenon, <1>7, CurrentTyped, BindingTyped DEF Bind, Identity
    <2>2. [active |-> Current(p).site, history |-> Binding(Current(p).domain).history]
              \in DomainRecord
        BY Zenon, <2>1 DEF DomainRecord
    <2>3. domRec' \in [Domain -> DomainRecord \cup {NoFile}]
        BY Zenon, <1>7, <2>1, <2>2, DomainWrite DEF Bind, TypeOK
    <2>4. pc' \in [Proc -> PC] /\ idx' \in [Proc -> Nat \ {0}]
        BY Zenon, <1>7, NextIdentityEffect, Labels DEF Bind
    <2>5. QED
        BY Zenon, <1>7, <2>1, <2>2, <2>3, <2>4, ControlTyped DEF Bind, TypeOK
<1>8. CASE Work(p)
    BY Zenon, <1>8 DEF Work, Goto, TypeOK, PC
<1>9. CASE BeginMark(p)
    BY Zenon, <1>9 DEF BeginMark, Goto, TypeOK, PC
<1>10. CASE BeginComplete(p)
    BY Zenon, <1>10 DEF BeginComplete, Goto, TypeOK, PC
<1>11. CASE BeginAccountRemoval(p)
    BY Zenon, <1>11 DEF BeginAccountRemoval, Goto, TypeOK, PC
<1>12. CASE SkipMark(p)
    <2>1. pc' \in [Proc -> PC] /\ idx' \in [Proc -> Nat \ {0}]
        BY Zenon, <1>12, NextIdentityEffect, Labels DEF SkipMark
    <2>2. QED
        BY Zenon, <1>12, <2>1, ControlTyped DEF SkipMark, TypeOK
<1>13. CASE MarkSite(p)
    <2>1. Id(p).site \in Site /\ call[p].op \in Nat /\ call[p].rev \in Nat
        BY Zenon, <1>13, RemovalIdTyped, RequestAssumption DEF MarkSite
    <2>2. siteRec[Id(p).site] \in SiteRecord
        BY Zenon, <1>13, <2>1 DEF MarkSite, TypeOK
    <2>3. [identity |-> siteRec[Id(p).site].identity, state |-> "removing",
           op |-> call[p].op, rev |-> call[p].rev, kind |-> RemovalKind(p)] \in SiteRecord
        BY Zenon, <2>1, <2>2 DEF SiteRecord, RecordState, RemovalKind
    <2>4. siteRec' \in [Site -> SiteRecord \cup {NoFile}]
        BY Zenon, <1>13, <2>1, <2>3, SiteWrite DEF MarkSite, TypeOK
    <2>5. pc' \in [Proc -> PC]
        BY Zenon, <1>13 DEF MarkSite, Goto, TypeOK, PC
    <2>6. QED
        BY Zenon, <1>13, <2>4, <2>5, ControlTyped DEF MarkSite, TypeOK
<1>14. CASE MarkDomain(p)
    <2>1. Id(p).domain \in Domain /\ domRec[Id(p).domain] \in DomainRecord
        BY Zenon, <1>14, RemovalIdTyped DEF MarkDomain, TypeOK
    <2>2. [active |-> domRec[Id(p).domain].active, history |-> TRUE] \in DomainRecord
        BY Zenon, <2>1 DEF DomainRecord
    <2>3. domRec' \in [Domain -> DomainRecord \cup {NoFile}]
        BY Zenon, <1>14, <2>1, <2>2, DomainWrite DEF MarkDomain, TypeOK
    <2>4. pc' \in [Proc -> PC] /\ idx' \in [Proc -> Nat \ {0}]
        BY Zenon, <1>14, NextIdentityEffect, Labels DEF MarkDomain
    <2>5. QED
        BY Zenon, <1>14, <2>1, <2>2, <2>3, <2>4, ControlTyped DEF MarkDomain, TypeOK
<1>15. CASE AccountTornDown(p)
    BY Zenon, <1>15 DEF AccountTornDown, Goto, TypeOK, PC
<1>16. CASE CompleteSite(p)
    <2>1. Id(p).site \in Site /\ siteRec[Id(p).site] \in SiteRecord
        BY Zenon, <1>16, RemovalIdTyped DEF CompleteSite, TypeOK
    <2>2. [identity |-> siteRec[Id(p).site].identity, state |-> "removed",
           op |-> siteRec[Id(p).site].op, rev |-> siteRec[Id(p).site].rev,
           kind |-> siteRec[Id(p).site].kind] \in SiteRecord
        BY Zenon, <2>1 DEF SiteRecord, RecordState
    <2>3. siteRec' \in [Site -> SiteRecord \cup {NoFile}]
        BY Zenon, <1>16, <2>1, <2>2, SiteWrite DEF CompleteSite, TypeOK
    <2>4. pc' \in [Proc -> PC] /\ idx' \in [Proc -> Nat \ {0}]
        BY Zenon, <1>16, NextIdentityEffect, Labels DEF CompleteSite
    <2>5. QED
        BY Zenon, <1>16, <2>1, <2>2, <2>3, <2>4, ControlTyped DEF CompleteSite, TypeOK
<1>17. CASE ReleaseBinding(p)
    <2>1. /\ Id(p).site \in Site /\ Id(p).domain \in Domain
          /\ domRec[Id(p).domain] \in DomainRecord
        BY Zenon, <1>17, RemovalIdTyped DEF ReleaseBinding, TypeOK
    <2>2. [active |-> IF domRec[Id(p).domain].active = Id(p).site THEN 0
                      ELSE domRec[Id(p).domain].active, history |-> TRUE] \in DomainRecord
        BY Zenon, <2>1 DEF DomainRecord
    <2>3. domRec' \in [Domain -> DomainRecord \cup {NoFile}]
        BY Zenon, <1>17, <2>1, <2>2, DomainWrite DEF ReleaseBinding, TypeOK
    <2>4. pc' \in [Proc -> PC] /\ idx' \in [Proc -> Nat \ {0}]
        BY Zenon, <1>17, NextIdentityEffect, Labels DEF ReleaseBinding
    <2>5. QED
        BY Zenon, <1>17, <2>1, <2>2, <2>3, <2>4, ControlTyped DEF ReleaseBinding, TypeOK
<1>18. CASE Finish(p) \/ Abort(p)
    <2>1. Return(p) /\ siteRec' = siteRec /\ domRec' = domRec
        BY Zenon, <1>18 DEF Finish, Abort, files
    <2>2. lock' \in [Key -> Proc \cup {NoProc}]
        BY Zenon, <2>1 DEF Return, TypeOK
    <2>3. pc' \in [Proc -> PC] /\ idx' \in [Proc -> Nat \ {0}]
        BY <2>1 DEF Return, Goto, TypeOK, PC
    <2>4. call' \in [Proc -> Request \cup {NoRequest}] /\ values' \in [Proc -> Seq(Identity)]
        BY <2>1 DEF Return, TypeOK
    <2>5. QED
        BY Zenon, <2>1, <2>2, <2>3, <2>4 DEF TypeOK
<1>19. QED
    BY Zenon, <1>1, <1>2, <1>3, <1>4, <1>5, <1>6, <1>7, <1>8, <1>9, <1>10, <1>11, <1>12, <1>13, <1>14, <1>15, <1>16, <1>17, <1>18
       DEF Moves, Step

\* A record stays under the website id it names.
LEMMA NamedStep ==
    ASSUME TypeOK, RecordsAreNamed, PhaseInv, NEW p \in Proc, Moves(p)
    PROVE  RecordsAreNamed'
<1>1. CASE Register(p)
    <2>1. Current(p).site \in Site
        BY Zenon, <1>1, CurrentTyped DEF Register, CanRegister, Identity
    <2>2. siteRec' = [siteRec EXCEPT ![Current(p).site] =
             [identity |-> Current(p), state |-> "active", op |-> 0, rev |-> 0, kind |-> "site"]]
        BY Zenon, <1>1 DEF Register
    <2>3. QED
        BY Zenon, <2>1, <2>2 DEF RecordsAreNamed, TypeOK
<1>2. CASE MarkSite(p)
    <2>1. Id(p).site \in Site /\ siteRec[Id(p).site] # NoFile
        BY Zenon, <1>2, RemovalIdTyped DEF MarkSite
    <2>2. siteRec' = [siteRec EXCEPT ![Id(p).site] =
             [identity |-> siteRec[Id(p).site].identity, state |-> "removing",
              op |-> call[p].op, rev |-> call[p].rev, kind |-> RemovalKind(p)]]
        BY Zenon, <1>2 DEF MarkSite
    <2>3. QED
        BY Zenon, <2>1, <2>2 DEF RecordsAreNamed, TypeOK
<1>3. CASE CompleteSite(p)
    <2>1. Id(p).site \in Site /\ siteRec[Id(p).site] # NoFile
        BY Zenon, <1>3, RemovalIdTyped DEF CompleteSite
    <2>2. siteRec' = [siteRec EXCEPT ![Id(p).site] =
             [identity |-> siteRec[Id(p).site].identity, state |-> "removed",
              op |-> siteRec[Id(p).site].op, rev |-> siteRec[Id(p).site].rev,
              kind |-> siteRec[Id(p).site].kind]]
        BY Zenon, <1>3 DEF CompleteSite
    <2>3. QED
        BY Zenon, <2>1, <2>2 DEF RecordsAreNamed, TypeOK
<1>4. CASE siteRec' = siteRec
    BY Zenon, <1>4 DEF RecordsAreNamed
<1>5. QED
    BY Zenon, <1>1, <1>2, <1>3, <1>4
       DEF Moves, Step, files, Start, Resolve, Acquire, Locked, Validate, Bind, Work, BeginMark,
           BeginComplete, BeginAccountRemoval, SkipMark, MarkDomain, AccountTornDown,
           ReleaseBinding, Finish, Abort

-----------------------------------------------------------------------------
(* Phases and locks.                                                       *)

\* A step of one request leaves every other request where it is.
LEMMA OtherUnmoved ==
    ASSUME TypeOK, NEW p \in Proc, NEW q \in Proc, q # p, Moves(q)
    PROVE  pc'[p] = pc[p] /\ idx'[p] = idx[p] /\ values'[p] = values[p] /\ call'[p] = call[p]
<1>1. CASE \E r \in Request : Start(q, r)
    BY Zenon, <1>1 DEF Start, Goto, TypeOK
<1>2. CASE Resolve(q) \/ Validate(q) \/ Bind(q) \/ SkipMark(q) \/ MarkDomain(q)
           \/ CompleteSite(q) \/ ReleaseBinding(q)
    <2>1. \E again, after \in PC : NextIdentity(q, again, after)
        BY Zenon, <1>2 DEF Resolve, Validate, Bind, SkipMark, MarkDomain, CompleteSite, ReleaseBinding, PC
    <2>2. pc'[p] = pc[p] /\ idx'[p] = idx[p]
        BY Zenon, <2>1, NextIdentityEffect
    <2>3. CASE Resolve(q)
        <3>1. values' = [values EXCEPT ![q] = Append(values[q], Resolved(Id(q)))] /\ call' = call
            BY Zenon, <2>3 DEF Resolve
        <3>2. QED
            BY Zenon, <2>2, <3>1 DEF TypeOK
    <2>4. CASE ~Resolve(q)
        <3>1. values' = values /\ call' = call
            BY Zenon, <1>2, <2>4 DEF Validate, Bind, SkipMark, MarkDomain, CompleteSite, ReleaseBinding
        <3>2. QED
            BY Zenon, <2>2, <3>1
    <2>5. QED
        BY Zenon, <2>3, <2>4
<1>3. CASE Acquire(q) \/ Locked(q) \/ Register(q) \/ Work(q) \/ BeginMark(q) \/ BeginComplete(q)
           \/ BeginAccountRemoval(q) \/ MarkSite(q) \/ AccountTornDown(q)
    <2>1. pc' = pc \/ \E label \in PC : pc' = [pc EXCEPT ![q] = label]
        BY Zenon, <1>3 DEF Acquire, Locked, Register, Work, BeginMark, BeginComplete,
                    BeginAccountRemoval, MarkSite, AccountTornDown, Goto, PC
    <2>2. idx' = idx /\ values' = values /\ call' = call
        BY Zenon, <1>3 DEF Acquire, Locked, Register, Work, BeginMark, BeginComplete,
                    BeginAccountRemoval, MarkSite, AccountTornDown
    <2>3. QED
        BY Zenon, <2>1, <2>2 DEF TypeOK
<1>4. CASE Finish(q) \/ Abort(q)
    BY Zenon, <1>4 DEF Finish, Abort, Return, Goto, TypeOK
<1>5. QED
    BY Zenon, <1>1, <1>2, <1>3, <1>4 DEF Moves, Step

\* A request that does not move stays in its phase.
LEMMA PhaseFrame ==
    ASSUME NEW p \in Proc, Phase(p),
           pc'[p] = pc[p], idx'[p] = idx[p], call'[p] = call[p], values'[p] = values[p]
    PROVE  Phase(p)'
BY Zenon DEF Phase

\* Nor does a request leave its phases by advancing a loop after the first one.
LEMMA PhaseAdvance ==
    ASSUME TypeOK, PhaseInv, NEW p \in Proc, NEW again \in PC, NEW after \in PC,
           \/ again = "validate" /\ after = "lease" /\ pc[p] = "validate"
           \/ again = "mark" /\ after = "work" /\ pc[p] \in {"mark", "markDomain"}
           \/ again = "complete" /\ after = "release" /\ pc[p] = "complete"
           \/ again = "release" /\ after = "done" /\ pc[p] = "release",
           NextIdentity(p, again, after), call' = call, values' = values
    PROVE  Phase(p)'
<1>1. /\ call[p] \in Request /\ Len(values[p]) = Len(call[p].ids)
      /\ idx[p] \in Nat /\ idx[p] >= 1 /\ idx[p] <= Len(call[p].ids)
      /\ Len(call[p].ids) \in Nat
      /\ again # "validate" => call[p].mode \in {"remove", "account-remove"}
    BY DEF PhaseInv, Phase, Working, Leased, TypeOK
<1>2. \A i \in DOMAIN values[p] :
         /\ i <= Len(call[p].ids)
         /\ values[p][i].domain = call[p].ids[i].domain
         /\ values[p][i].site = call[p].ids[i].site
    BY Zenon DEF PhaseInv, Phase
<1>3. CASE idx[p] < Len(call[p].ids)
    <2>1. pc'[p] = again /\ idx'[p] = idx[p] + 1
        BY Zenon, <1>3, NextIdentityEffect
    <2>2. QED
        BY <1>1, <1>2, <1>3, <2>1 DEF Phase, Working, Leased
<1>4. CASE ~(idx[p] < Len(call[p].ids))
    <2>1. pc'[p] = after /\ idx'[p] = 1
        BY Zenon, <1>4, NextIdentityEffect
    <2>2. QED
        BY <1>1, <1>2, <2>1 DEF Phase, Working, Leased
<1>5. QED
    BY Zenon, <1>3, <1>4

\* The loops stay inside the request, whichever request moves.
LEMMA PhaseStep ==
    ASSUME TypeOK, RecordsAreNamed, PhaseInv, NEW p \in Proc, Moves(p)
    PROVE  PhaseInv'
<1> SUFFICES Phase(p)'
    BY Zenon, OtherUnmoved, PhaseFrame DEF PhaseInv
<1>1. CASE \E r \in Request : Start(p, r)
    BY <1>1, RequestAssumption DEF Start, Goto, PhaseInv, Phase, Working, Leased, TypeOK
<1>2. CASE Resolve(p)
    <2> DEFINE id == Resolved(Id(p))
    <2>1. /\ call[p] \in Request /\ idx[p] \in 1..Len(call[p].ids)
          /\ call[p].ids \in Seq(Identity) /\ Len(values[p]) = idx[p] - 1
          /\ values[p] \in Seq(Identity) /\ call'[p] = call[p]
        BY Zenon, <1>2, IdTyped DEF Resolve, Looping, PhaseInv, Phase, TypeOK
    <2>2. id \in Identity /\ id.domain = Id(p).domain /\ id.site = Id(p).site
        BY Zenon, <1>2, IdTyped, ResolvedTyped DEF Resolve, Resolvable, Looping
    <2>3. values'[p] = Append(values[p], id)
        BY Zenon, <1>2 DEF Resolve, TypeOK
    <2> HIDE DEF id
    <2>4. Len(values'[p]) = idx[p] /\ DOMAIN values'[p] = 1..idx[p]
        BY <2>1, <2>2, <2>3
    <2>5. \A i \in 1..idx[p] :
             /\ i <= Len(call[p].ids)
             /\ values'[p][i].domain = call[p].ids[i].domain
             /\ values'[p][i].site = call[p].ids[i].site
        <3> SUFFICES ASSUME NEW i \in 1..idx[p]
                     PROVE  /\ i <= Len(call[p].ids)
                            /\ values'[p][i].domain = call[p].ids[i].domain
                            /\ values'[p][i].site = call[p].ids[i].site
            BY Zenon
        <3>1. CASE i = idx[p]
            BY <2>1, <2>2, <2>3, <3>1 DEF Id
        <3>2. CASE i # idx[p]
            <4>1. i \in DOMAIN values[p] /\ values'[p][i] = values[p][i]
                BY <2>1, <2>2, <2>3, <3>2
            <4>2. QED
                BY Zenon, <4>1 DEF PhaseInv, Phase
        <3>3. QED
            BY Zenon, <3>1, <3>2
    <2>6. /\ call'[p] \in Request /\ call'[p] = call[p]
          /\ idx[p] \in Nat /\ Len(call[p].ids) \in Nat /\ idx[p] <= Len(call[p].ids)
        BY <2>1
    <2>7. QED
        <3>1. CASE idx[p] < Len(call[p].ids)
            <4>1. pc'[p] = "resolve" /\ idx'[p] = idx[p] + 1
                BY Zenon, <1>2, <3>1, NextIdentityEffect, Labels DEF Resolve
            <4>2. QED
                BY <2>4, <2>5, <2>6, <3>1, <4>1 DEF Phase, Working, Leased
        <3>2. CASE ~(idx[p] < Len(call[p].ids))
            <4>1. pc'[p] = "lock" /\ idx'[p] = 1
                BY Zenon, <1>2, <3>2, NextIdentityEffect, Labels DEF Resolve
            <4>2. idx[p] = Len(call[p].ids)
                BY <2>6, <3>2
            <4>3. QED
                BY Zenon, <2>4, <2>5, <2>6, <4>1, <4>2 DEF Phase, Working, Leased
        <3>3. QED
            BY Zenon, <3>1, <3>2
<1>3. CASE Acquire(p)
    BY Zenon, <1>3, PhaseFrame DEF Acquire, PhaseInv
<1>4. CASE Locked(p)
    <2>1. /\ pc[p] = "lock" /\ pc'[p] = IF values[p] = << >> THEN "lease" ELSE "validate"
          /\ idx' = idx /\ call' = call /\ values' = values
        BY Zenon, <1>4 DEF Locked, Goto, TypeOK
    <2>2. /\ idx[p] = 1 /\ Len(values[p]) = Len(call[p].ids) /\ values[p] \in Seq(Identity)
        BY Zenon, <2>1 DEF PhaseInv, Phase, TypeOK
    <2>3. values[p] # << >> => 1 <= Len(call[p].ids)
        BY <2>2
    <2>4. QED
        BY Zenon, <2>1, <2>2, <2>3 DEF PhaseInv, Phase, Working, Leased
<1>5. CASE Validate(p)
    BY Zenon, <1>5, PhaseAdvance, Labels DEF Validate
<1>6. CASE Register(p)
    BY Zenon, <1>6, PhaseFrame DEF Register, PhaseInv
<1>7. CASE Bind(p)
    BY Zenon, <1>7, PhaseAdvance, Labels DEF Bind
<1>8. CASE Work(p)
    BY Zenon, <1>8 DEF Work, Goto, PhaseInv, Phase, Working, Leased, TypeOK
<1>9. CASE BeginMark(p) \/ BeginComplete(p)
    <2>1. /\ pc[p] = "lease" /\ pc'[p] \in {"mark", "complete"} /\ call[p].mode = "remove"
          /\ idx' = idx /\ call' = call /\ values' = values
        BY Zenon, <1>9 DEF BeginMark, BeginComplete, Goto, TypeOK
    <2>2. call[p] \in Request /\ idx[p] = 1
        BY Zenon, <2>1 DEF PhaseInv, Phase
    <2>3. call[p].ids \in Seq(Identity) /\ call[p].ids # << >>
        BY Zenon, <2>1, <2>2, RequestAssumption
    <2>4. 1 <= Len(call[p].ids)
        BY <2>3
    <2>5. QED
        BY Zenon, <2>1, <2>2, <2>4 DEF PhaseInv, Phase, Working, Leased
<1>10. CASE BeginAccountRemoval(p)
    <2>1. /\ pc[p] = "lease" /\ pc'[p] \in {"release", "mark", "work"}
          /\ pc'[p] # "work" => call[p].ids # << >>
          /\ call[p].mode = "account-remove"
          /\ idx' = idx /\ call' = call /\ values' = values
        BY Zenon, <1>10 DEF BeginAccountRemoval, Goto, AccountComplete, TypeOK
    <2>2. call[p] \in Request /\ idx[p] = 1
        BY Zenon, <2>1 DEF PhaseInv, Phase
    <2>3. call[p].ids \in Seq(Identity)
        BY Zenon, <2>2, RequestAssumption
    <2>4. pc'[p] # "work" => 1 <= Len(call[p].ids)
        BY <2>1, <2>3
    <2>5. QED
        BY Zenon, <2>1, <2>2, <2>4 DEF PhaseInv, Phase, Working, Leased
<1>11. CASE SkipMark(p)
    BY Zenon, <1>11, PhaseAdvance, Labels DEF SkipMark
<1>12. CASE MarkSite(p)
    <2>1. /\ pc[p] = "mark" /\ pc'[p] = "markDomain"
          /\ idx' = idx /\ call' = call /\ values' = values
        BY Zenon, <1>12 DEF MarkSite, Goto, TypeOK
    <2>2. QED
        BY Zenon, <2>1 DEF PhaseInv, Phase, Working, Leased
<1>13. CASE MarkDomain(p)
    BY Zenon, <1>13, PhaseAdvance, Labels DEF MarkDomain
<1>14. CASE AccountTornDown(p)
    <2>1. /\ pc[p] = "work" /\ pc'[p] = IF call[p].ids = << >> THEN "done" ELSE "complete"
          /\ call[p].mode = "account-remove"
          /\ idx' = idx /\ call' = call /\ values' = values
        BY Zenon, <1>14 DEF AccountTornDown, Goto, TypeOK
    <2>2. call[p] \in Request /\ idx[p] = 1
        BY Zenon, <2>1 DEF PhaseInv, Phase
    <2>3. call[p].ids \in Seq(Identity)
        BY Zenon, <2>2, RequestAssumption
    <2>4. call[p].ids # << >> => 1 <= Len(call[p].ids)
        BY <2>3
    <2>5. QED
        BY Zenon, <2>1, <2>2, <2>4 DEF PhaseInv, Phase, Working, Leased
<1>15. CASE CompleteSite(p)
    BY Zenon, <1>15, PhaseAdvance, Labels DEF CompleteSite
<1>16. CASE ReleaseBinding(p)
    BY Zenon, <1>16, PhaseAdvance, Labels DEF ReleaseBinding
<1>17. CASE Finish(p) \/ Abort(p)
    <2>1. pc'[p] = "idle" /\ values'[p] = << >> /\ idx'[p] = 1
        BY Zenon, <1>17 DEF Finish, Abort, Return, Goto, TypeOK
    <2>2. QED
        BY <2>1 DEF Phase, Working, Leased
<1>18. QED
    BY Zenon, <1>1, <1>2, <1>3, <1>4, <1>5, <1>6, <1>7, <1>8, <1>9, <1>10, <1>11, <1>12, <1>13, <1>14,
       <1>15, <1>16, <1>17 DEF Moves, Step

\* The lock files of an identity exist.
LEMMA KeysTyped ==
    ASSUME NEW id \in Identity
    PROVE  IdentityKeys(id) \subseteq Key
BY DEF Identity, IdentityKeys, Key

\* A request that does not move keeps its lock files, if nobody takes them.
LEMMA LocksFrame ==
    ASSUME LocksAreHeld, NEW p \in Proc, pc'[p] \in Working, pc[p] \in Working,
           values'[p] = values[p], \A k \in Key : lock[k] = p => lock'[k] = p,
           values[p] \in Seq(Identity)
    PROVE  \A i \in DOMAIN values'[p] : \A k \in IdentityKeys(values'[p][i]) : lock'[k] = p
<1> SUFFICES ASSUME NEW i \in DOMAIN values[p], NEW k \in IdentityKeys(values[p][i])
             PROVE  lock'[k] = p
    BY Zenon
<1>1. lock[k] = p
    BY Zenon DEF LocksAreHeld
<1>2. k \in Key
    BY KeysTyped
<1>3. QED
    BY Zenon, <1>1, <1>2

\* No step takes a lock file from another request.
LEMMA LocksKept ==
    ASSUME TypeOK, NEW p \in Proc, NEW q \in Proc, q # p, Moves(q),
           NEW k \in Key, lock[k] = p
    PROVE  lock'[k] = p
<1>1. CASE Acquire(q)
    <2>1. PICK j \in Key : lock[j] = NoProc /\ lock' = [lock EXCEPT ![j] = q]
        BY Zenon, <1>1 DEF Acquire
    <2>2. QED
        BY Zenon, <2>1, ConstantsAssumption DEF TypeOK
<1>2. CASE Finish(q) \/ Abort(q)
    BY Zenon, <1>2 DEF Finish, Abort, Return
<1>3. CASE lock' = lock
    BY Zenon, <1>3
<1>4. QED
    BY Zenon, <1>1, <1>2, <1>3
       DEF Moves, Step, Start, Resolve, Locked, Validate, Register, Bind, Work, BeginMark,
           BeginComplete, BeginAccountRemoval, SkipMark, MarkSite, MarkDomain, AccountTornDown,
           CompleteSite, ReleaseBinding

\* A request enters the leased phases only through Locked, with all its locks.
LEMMA WorkingReach ==
    ASSUME TypeOK, NEW p \in Proc, Moves(p), pc'[p] \in Working
    PROVE  /\ values' = values /\ lock' = lock
           /\ pc[p] \in Working \/ Locked(p)
<1>1. CASE Locked(p)
    BY Zenon, <1>1 DEF Locked
<1>2. CASE Resolve(p)
    <2>1. pc'[p] \in {"resolve", "lock"}
        BY Zenon, <1>2, NextIdentityEffect, Labels DEF Resolve
    <2>2. QED
        BY Zenon, <2>1 DEF Working, Leased
<1>3. CASE Acquire(p) \/ Finish(p) \/ Abort(p) \/ \E r \in Request : Start(p, r)
    <2>1. pc'[p] \in {"idle", "resolve", "lock"}
        BY Zenon, <1>3 DEF Acquire, Finish, Abort, Start, Return, Goto, TypeOK
    <2>2. QED
        BY Zenon, <2>1 DEF Working, Leased
<1>4. CASE Validate(p) \/ Register(p) \/ Bind(p) \/ Work(p) \/ BeginMark(p) \/ BeginComplete(p)
           \/ BeginAccountRemoval(p) \/ SkipMark(p) \/ MarkSite(p) \/ MarkDomain(p)
           \/ AccountTornDown(p) \/ CompleteSite(p) \/ ReleaseBinding(p)
    BY Zenon, <1>4 DEF Validate, Register, Bind, Work, BeginMark, BeginComplete, BeginAccountRemoval,
                SkipMark, MarkSite, MarkDomain, AccountTornDown, CompleteSite, ReleaseBinding,
                Working, Leased
<1>5. QED
    BY Zenon, <1>1, <1>2, <1>3, <1>4 DEF Moves, Step

\* From validation to the return, no step of another request takes a lock file
\* that the request holds.
LEMMA LocksStep ==
    ASSUME TypeOK, LocksAreHeld, NEW p \in Proc, Moves(p)
    PROVE  LocksAreHeld'
<1> SUFFICES ASSUME NEW q \in Proc, pc'[q] \in Working
             PROVE  \A i \in DOMAIN values'[q] : \A k \in IdentityKeys(values'[q][i]) : lock'[k] = q
    BY Zenon DEF LocksAreHeld
<1>1. CASE q # p
    <2>1. pc'[q] = pc[q] /\ values'[q] = values[q]
        BY Zenon, <1>1, OtherUnmoved
    <2>2. \A k \in Key : lock[k] = q => lock'[k] = q
        BY Zenon, <1>1, LocksKept
    <2>3. QED
        BY Zenon, <2>1, <2>2, LocksFrame DEF TypeOK
<1>2. CASE q = p
    <2>1. /\ values' = values /\ lock' = lock
          /\ pc[p] \in Working \/ Locked(p)
        BY Zenon, <1>2, WorkingReach
    <2>2. CASE pc[p] \in Working
        BY Zenon, <1>2, <2>1, <2>2, LocksFrame DEF TypeOK
    <2>3. CASE Locked(p)
        BY Zenon, <1>2, <2>1, <2>3 DEF Locked, Needed, Held
    <2>4. QED
        BY Zenon, <2>1, <2>2, <2>3
<1>3. QED
    BY Zenon, <1>1, <1>2

\* Two leased identities with a website or a hostname in common belong to one
\* request: both requests would hold its lock file.
LEMMA Exclusion ==
    ASSUME TypeOK, LocksAreHeld, NEW p \in Proc, NEW q \in Proc,
           pc[p] \in Working, pc[q] \in Working,
           NEW i \in DOMAIN values[p], NEW j \in DOMAIN values[q],
           \/ values[p][i].domain = values[q][j].domain
           \/ values[p][i].site # 0 /\ values[p][i].site = values[q][j].site
    PROVE  p = q
<1>1. CASE values[p][i].domain = values[q][j].domain
    <2>1. /\ lock[<<1, values[p][i].domain>>] = p
          /\ lock[<<1, values[q][j].domain>>] = q
        BY DEF LocksAreHeld, IdentityKeys
    <2>2. QED
        BY Zenon, <1>1, <2>1
<1>2. CASE values[p][i].site # 0 /\ values[p][i].site = values[q][j].site
    <2>1. /\ lock[<<2, values[p][i].site>>] = p
          /\ lock[<<2, values[q][j].site>>] = q
        BY <1>2 DEF LocksAreHeld, IdentityKeys
    <2>2. QED
        BY Zenon, <1>2, <2>1
<1>3. QED
    BY Zenon, <1>1, <1>2

-----------------------------------------------------------------------------
(* What the writes of a record file do to the records, the bindings and what *)
(* other requests have established about them.                             *)

\* Only six steps write a record file.
LEMMA FileSteps ==
    ASSUME [Next]_vars
    PROVE  \/ siteRec' = siteRec /\ domRec' = domRec
           \/ \E p \in Proc : \/ Register(p) \/ Bind(p) \/ MarkSite(p) \/ MarkDomain(p)
                              \/ CompleteSite(p) \/ ReleaseBinding(p)
BY Zenon DEF Next, Step, vars, files, Start, Resolve, Acquire, Locked, Validate, Work, BeginMark,
       BeginComplete, BeginAccountRemoval, SkipMark, AccountTornDown, Finish, Abort

\* A step that leaves the hostname's file alone leaves its binding alone.
LEMMA BindingFrame ==
    ASSUME NEW d, domRec'[d] = domRec[d]
    PROVE  Binding(d)' = Binding(d)
BY Zenon DEF Binding

\* The three writes of a hostname's file change that hostname's binding only.
LEMMA BindEffect ==
    ASSUME IndInv, NEW p \in Proc, Bind(p), NEW d, d = Current(p).domain
    PROVE  /\ d \in Domain /\ Current(p).site \in Site /\ Binding(d).active = 0
           /\ Binding(d)' = [active |-> Current(p).site, history |-> Binding(d).history]
           /\ \A e \in Domain : e # d => Binding(e)' = Binding(e)
<1>1. d \in Domain /\ Current(p).site \in Site /\ Binding(d).active = 0
    BY Zenon, CurrentTyped DEF Bind, CanBind, IndInv, Identity
<1>2. Binding(d) \in DomainRecord
    BY Zenon, <1>1, BindingTyped DEF IndInv
<1>3. [active |-> Current(p).site, history |-> Binding(d).history] \in DomainRecord
    BY Zenon, <1>1, <1>2 DEF DomainRecord
<1>4. domRec' = [domRec EXCEPT ![d] = [active |-> Current(p).site, history |-> Binding(d).history]]
    BY Zenon DEF Bind
<1>5. domRec'[d] = [active |-> Current(p).site, history |-> Binding(d).history]
    BY Zenon, <1>1, <1>4 DEF IndInv, TypeOK
<1>6. \A e \in Domain : e # d => Binding(e)' = Binding(e)
    BY Zenon, <1>4, BindingFrame DEF IndInv, TypeOK
<1>7. domRec'[d] # NoFile
    BY Zenon, <1>3, <1>5, ConstantsAssumption
<1>8. QED
    BY Zenon, <1>1, <1>5, <1>6, <1>7 DEF Binding

\* Writing the removal history of a hostname (beginRemoval) keeps its active
\* binding and touches no other hostname.
LEMMA MarkDomainEffect ==
    ASSUME IndInv, NEW p \in Proc, MarkDomain(p), NEW d, d = Id(p).domain
    PROVE  /\ d \in Domain /\ Binding(d)'.active = Binding(d).active
           /\ Binding(d)'.history
           /\ \A e \in Domain : e # d => Binding(e)' = Binding(e)
<1>1. d \in Domain /\ domRec[d] \in DomainRecord
    BY Zenon, RemovalIdTyped DEF MarkDomain, IndInv, TypeOK
<1>2. domRec' = [domRec EXCEPT ![d] = [active |-> domRec[d].active, history |-> TRUE]]
    BY Zenon DEF MarkDomain
<1>3. domRec'[d] = [active |-> domRec[d].active, history |-> TRUE]
    BY Zenon, <1>1, <1>2 DEF IndInv, TypeOK
<1>4. domRec'[d] \in DomainRecord
    BY <1>1, <1>3 DEF DomainRecord
<1>5. \A e \in Domain : e # d => Binding(e)' = Binding(e)
    BY Zenon, <1>2, BindingFrame DEF IndInv, TypeOK
<1>6. domRec[d] # NoFile /\ domRec'[d] # NoFile
    BY Zenon, <1>1, <1>4, ConstantsAssumption
<1>7. Binding(d) = domRec[d] /\ Binding(d)' = domRec'[d]
    BY Zenon, <1>6 DEF Binding
<1>8. QED
    BY <1>1, <1>3, <1>5, <1>7

\* Completing a removal frees the hostname only if it is still bound to the
\* removed website, and touches no other hostname.
LEMMA ReleaseEffect ==
    ASSUME IndInv, NEW p \in Proc, ReleaseBinding(p), NEW d, d = Id(p).domain
    PROVE  /\ d \in Domain
           /\ Binding(d)'.active = IF Binding(d).active = Id(p).site THEN 0 ELSE Binding(d).active
           /\ \A e \in Domain : e # d => Binding(e)' = Binding(e)
<1>1. d \in Domain /\ domRec[d] \in DomainRecord /\ Id(p).site \in Site
    BY Zenon, RemovalIdTyped DEF ReleaseBinding, IndInv, TypeOK
<1> DEFINE new == IF domRec[d].active = Id(p).site THEN 0 ELSE domRec[d].active
<1>2. domRec' = [domRec EXCEPT ![d] = [active |-> new, history |-> TRUE]]
    BY Zenon DEF ReleaseBinding
<1>3. domRec'[d] = [active |-> new, history |-> TRUE]
    BY Zenon, <1>1, <1>2 DEF IndInv, TypeOK
<1>4. domRec'[d] \in DomainRecord
    BY <1>1, <1>3 DEF DomainRecord
<1>5. \A e \in Domain : e # d => Binding(e)' = Binding(e)
    BY Zenon, <1>2, BindingFrame DEF IndInv, TypeOK
<1>6. domRec[d] # NoFile /\ domRec'[d] # NoFile
    BY Zenon, <1>1, <1>4, ConstantsAssumption
<1>7. Binding(d) = domRec[d] /\ Binding(d)' = domRec'[d]
    BY Zenon, <1>6 DEF Binding
<1>8. QED
    BY <1>1, <1>3, <1>5, <1>7

\* The three writes of a website's file change that website's record only, and
\* keep its identity once it has one.
LEMMA RegisterEffect ==
    ASSUME IndInv, NEW p \in Proc, Register(p), NEW s, s = Current(p).site
    PROVE  /\ s \in Site /\ siteRec[s] = NoFile /\ siteRec'[s] # NoFile
           /\ \A t \in Site : t # s => siteRec'[t] = siteRec[t]
           /\ domRec' = domRec
<1>1. Current(p) \in Identity /\ s \in Site /\ siteRec[s] = NoFile
    BY Zenon, CurrentTyped DEF Register, CanRegister, IndInv, Identity
<1>2. siteRec' = [siteRec EXCEPT ![s] =
         [identity |-> Current(p), state |-> "active", op |-> 0, rev |-> 0, kind |-> "site"]]
    BY Zenon DEF Register
<1>3. siteRec'[s] = [identity |-> Current(p), state |-> "active", op |-> 0, rev |-> 0, kind |-> "site"]
    BY Zenon, <1>1, <1>2 DEF IndInv, TypeOK
<1>4. siteRec'[s] \in SiteRecord
    BY <1>1, <1>3 DEF SiteRecord, RecordState
<1>5. \A t \in Site : t # s => siteRec'[t] = siteRec[t]
    BY Zenon, <1>2 DEF IndInv, TypeOK
<1>6. domRec' = domRec
    BY Zenon DEF Register
<1>7. QED
    BY Zenon, <1>1, <1>4, <1>5, <1>6, ConstantsAssumption

\* Beginning a removal marks the record of the website with the operation and
\* revision of the request, keeps its identity and touches no other record.
LEMMA MarkSiteEffect ==
    ASSUME IndInv, NEW p \in Proc, MarkSite(p), NEW s, s = Id(p).site
    PROVE  /\ s \in Site /\ siteRec[s] # NoFile /\ siteRec'[s] # NoFile
           /\ siteRec'[s].identity = siteRec[s].identity /\ siteRec'[s].state = "removing"
           /\ siteRec'[s].op = call[p].op /\ siteRec'[s].rev = call[p].rev
           /\ siteRec'[s].kind = RemovalKind(p)
           /\ \A t \in Site : t # s => siteRec'[t] = siteRec[t]
           /\ domRec' = domRec
<1>1. s \in Site /\ siteRec[s] # NoFile /\ call[p] \in Request
    BY Zenon, RemovalIdTyped DEF MarkSite, IndInv
<1>2. siteRec[s] \in SiteRecord
    BY Zenon, <1>1 DEF IndInv, TypeOK
<1> DEFINE new == [identity |-> siteRec[s].identity, state |-> "removing",
                   op |-> call[p].op, rev |-> call[p].rev, kind |-> RemovalKind(p)]
<1>3. new \in SiteRecord
    BY Zenon, <1>1, <1>2, RequestAssumption DEF SiteRecord, RecordState, RemovalKind
<1>4. siteRec' = [siteRec EXCEPT ![s] = new]
    BY Zenon DEF MarkSite
<1> HIDE DEF new
<1>5. siteRec'[s] = new
    BY Zenon, <1>1, <1>4 DEF IndInv, TypeOK
<1>6. \A t \in Site : t # s => siteRec'[t] = siteRec[t]
    BY Zenon, <1>4 DEF IndInv, TypeOK
<1>7. new # NoFile
    BY Zenon, <1>3, ConstantsAssumption
<1>8. domRec' = domRec
    BY Zenon DEF MarkSite
<1>9. QED
    BY <1>1, <1>5, <1>6, <1>7, <1>8 DEF new

\* Completing a removal turns the record into a tombstone of the same identity
\* and operation and touches no other record.
LEMMA CompleteSiteEffect ==
    ASSUME IndInv, NEW p \in Proc, CompleteSite(p), NEW s, s = Id(p).site
    PROVE  /\ s \in Site /\ siteRec[s] # NoFile /\ siteRec'[s] # NoFile
           /\ siteRec'[s].identity = siteRec[s].identity /\ siteRec'[s].state = "removed"
           /\ siteRec'[s].op = siteRec[s].op /\ siteRec'[s].rev = siteRec[s].rev
           /\ siteRec'[s].kind = siteRec[s].kind
           /\ \A t \in Site : t # s => siteRec'[t] = siteRec[t]
           /\ domRec' = domRec
<1>1. s \in Site /\ siteRec[s] # NoFile
    BY Zenon, RemovalIdTyped DEF CompleteSite, IndInv
<1>2. siteRec[s] \in SiteRecord
    BY Zenon, <1>1 DEF IndInv, TypeOK
<1> DEFINE new == [identity |-> siteRec[s].identity, state |-> "removed",
                   op |-> siteRec[s].op, rev |-> siteRec[s].rev, kind |-> siteRec[s].kind]
<1>3. new \in SiteRecord
    BY Zenon, <1>2 DEF SiteRecord, RecordState
<1>4. siteRec' = [siteRec EXCEPT ![s] = new]
    BY Zenon DEF CompleteSite
<1> HIDE DEF new
<1>5. siteRec'[s] = new
    BY Zenon, <1>1, <1>4 DEF IndInv, TypeOK
<1>6. \A t \in Site : t # s => siteRec'[t] = siteRec[t]
    BY Zenon, <1>4 DEF IndInv, TypeOK
<1>7. new # NoFile
    BY Zenon, <1>3, ConstantsAssumption
<1>8. domRec' = domRec
    BY Zenon DEF CompleteSite
<1>9. QED
    BY <1>1, <1>5, <1>6, <1>7, <1>8 DEF new

\* A hostname stays bound to a registered website of that hostname.
LEMMA BindingsStep ==
    IndInv /\ [Next]_vars => BindingsAreOwned'
<1> SUFFICES ASSUME IndInv, [Next]_vars, NEW d \in Domain, Binding(d)'.active # 0
             PROVE  /\ siteRec'[Binding(d)'.active] # NoFile
                    /\ siteRec'[Binding(d)'.active].identity.domain = d
    BY Zenon DEF BindingsAreOwned
<1>1. Binding(d).active # 0 => /\ Binding(d).active \in Site
                               /\ siteRec[Binding(d).active] # NoFile
                               /\ siteRec[Binding(d).active].identity.domain = d
    BY Zenon, BindingTyped DEF IndInv, BindingsAreOwned, DomainRecord
<1>2. CASE siteRec' = siteRec /\ domRec' = domRec
    BY Zenon, <1>1, <1>2, BindingFrame
<1>3. ASSUME NEW p \in Proc, Register(p)
      PROVE  /\ siteRec'[Binding(d)'.active] # NoFile
             /\ siteRec'[Binding(d)'.active].identity.domain = d
    BY Zenon, <1>1, <1>3, RegisterEffect, BindingFrame
<1>4. ASSUME NEW p \in Proc, MarkSite(p)
      PROVE  /\ siteRec'[Binding(d)'.active] # NoFile
             /\ siteRec'[Binding(d)'.active].identity.domain = d
    <2>1. PICK s : s = Id(p).site
        BY Zenon
    <2>2. /\ siteRec'[s] # NoFile /\ siteRec'[s].identity = siteRec[s].identity
          /\ \A t \in Site : t # s => siteRec'[t] = siteRec[t]
          /\ domRec' = domRec
        BY <1>4, <2>1, MarkSiteEffect
    <2>3. Binding(d)' = Binding(d)
        BY Zenon, <2>2, BindingFrame
    <2>4. QED
        BY Zenon, <1>1, <2>2, <2>3
<1>5. ASSUME NEW p \in Proc, CompleteSite(p)
      PROVE  /\ siteRec'[Binding(d)'.active] # NoFile
             /\ siteRec'[Binding(d)'.active].identity.domain = d
    <2>1. PICK s : s = Id(p).site
        BY Zenon
    <2>2. /\ siteRec'[s] # NoFile /\ siteRec'[s].identity = siteRec[s].identity
          /\ \A t \in Site : t # s => siteRec'[t] = siteRec[t]
          /\ domRec' = domRec
        BY <1>5, <2>1, CompleteSiteEffect
    <2>3. Binding(d)' = Binding(d)
        BY Zenon, <2>2, BindingFrame
    <2>4. QED
        BY Zenon, <1>1, <2>2, <2>3
<1>6. ASSUME NEW p \in Proc, Bind(p)
      PROVE  /\ siteRec'[Binding(d)'.active] # NoFile
             /\ siteRec'[Binding(d)'.active].identity.domain = d
    <2>1. PICK e : e = Current(p).domain
        BY Zenon
    <2>2. /\ Binding(e)' = [active |-> Current(p).site, history |-> Binding(e).history]
          /\ \A f \in Domain : f # e => Binding(f)' = Binding(f)
        BY Zenon, <1>6, <2>1, BindEffect
    <2>3. /\ siteRec' = siteRec /\ siteRec[Current(p).site] # NoFile
          /\ siteRec[Current(p).site].identity.domain = e
        BY Zenon, <1>6, <2>1 DEF Bind, CanBind, compatibleIdentity
    <2>4. CASE d = e
        BY <2>2, <2>3, <2>4
    <2>5. CASE d # e
        BY Zenon, <1>1, <2>2, <2>3, <2>5
    <2>6. QED
        BY Zenon, <2>4, <2>5
<1>7. ASSUME NEW p \in Proc, MarkDomain(p)
      PROVE  /\ siteRec'[Binding(d)'.active] # NoFile
             /\ siteRec'[Binding(d)'.active].identity.domain = d
    BY Zenon, <1>1, <1>7, MarkDomainEffect DEF MarkDomain
<1>8. ASSUME NEW p \in Proc, ReleaseBinding(p)
      PROVE  /\ siteRec'[Binding(d)'.active] # NoFile
             /\ siteRec'[Binding(d)'.active].identity.domain = d
    BY Zenon, <1>1, <1>8, ReleaseEffect DEF ReleaseBinding
<1>9. QED
    BY Zenon, <1>2, <1>3, <1>4, <1>5, <1>6, <1>7, <1>8, FileSteps

\* Records only grow: a website keeps its identity, and a tombstone keeps its
\* operation and kind, does not lose a revision and does not come alive again.
LEMMA RecordsStep ==
    ASSUME IndInv, [Next]_vars, NEW s \in Site, siteRec[s] # NoFile
    PROVE  /\ siteRec'[s] # NoFile /\ siteRec'[s].identity = siteRec[s].identity
           /\ siteRec[s].state # "active" =>
                /\ siteRec'[s].state # "active"
                /\ siteRec'[s].op = siteRec[s].op /\ siteRec'[s].kind = siteRec[s].kind
                /\ siteRec'[s].rev >= siteRec[s].rev
<1> DEFINE Kept ==
      /\ siteRec'[s] # NoFile /\ siteRec'[s].identity = siteRec[s].identity
      /\ siteRec[s].state # "active" =>
           /\ siteRec'[s].state # "active"
           /\ siteRec'[s].op = siteRec[s].op /\ siteRec'[s].kind = siteRec[s].kind
           /\ siteRec'[s].rev >= siteRec[s].rev
<1>1. siteRec[s].rev \in Nat
    BY Zenon DEF IndInv, TypeOK, SiteRecord
<1>2. CASE siteRec'[s] = siteRec[s]
    BY <1>1, <1>2
<1>3. ASSUME NEW p \in Proc, MarkSite(p), s = Id(p).site PROVE Kept
    <2>1. /\ idx[p] \in DOMAIN values[p] /\ values[p][idx[p]].site = s
          /\ call[p] \in Request
        BY Zenon, <1>3, RemovalIdTyped DEF MarkSite, IndInv
    <2>2. values[p][idx[p]].site # 0
        BY Zenon, <2>1, ConstantsAssumption
    <2>3. Established(p, values[p][idx[p]])
        BY Zenon, <1>3, <2>1 DEF IndInv, ValidatedInv, ValidatedAt, MarkSite, Leased
    <2>4. siteRec[s].state # "active" => ResumesRemoval(p, siteRec[s])
        BY Zenon, <2>1, <2>2, <2>3 DEF Established
    <2>5. /\ siteRec'[s].identity = siteRec[s].identity /\ siteRec'[s].state = "removing"
          /\ siteRec'[s].op = call[p].op /\ siteRec'[s].rev = call[p].rev
          /\ siteRec'[s].kind = RemovalKind(p)
        BY Zenon, <1>3, MarkSiteEffect
    <2>6. siteRec'[s] # NoFile
        BY Zenon, <1>3, MarkSiteEffect
    <2>7. QED
        BY Zenon, <2>4, <2>5, <2>6 DEF ResumesRemoval
<1>4. ASSUME NEW p \in Proc, CompleteSite(p), s = Id(p).site PROVE Kept
    BY <1>1, <1>4, CompleteSiteEffect
<1>5. QED
    <2>1. CASE siteRec' = siteRec
        BY Zenon, <1>2, <2>1
    <2>2. ASSUME NEW p \in Proc, Register(p) PROVE Kept
        BY Zenon, <1>2, <2>2, RegisterEffect
    <2>3. ASSUME NEW p \in Proc, MarkSite(p) PROVE Kept
        <3>1. CASE s = Id(p).site
            BY Zenon, <1>3, <2>3, <3>1
        <3>2. CASE s # Id(p).site
            <4>1. PICK t : t = Id(p).site
                BY Zenon
            <4>2. \A u \in Site : u # t => siteRec'[u] = siteRec[u]
                BY <2>3, <4>1, MarkSiteEffect
            <4>3. QED
                BY Zenon, <1>2, <3>2, <4>1, <4>2
        <3>3. QED
            BY Zenon, <3>1, <3>2
    <2>4. ASSUME NEW p \in Proc, CompleteSite(p) PROVE Kept
        BY Zenon, <1>2, <1>4, <2>4, CompleteSiteEffect
    <2>5. QED
        BY Zenon, <2>1, <2>2, <2>3, <2>4, FileSteps DEF Bind, MarkDomain, ReleaseBinding

\* What was established stays so while the hostname's binding, the website's
\* record and, for a hostname without an id, its owner's record stay.
LEMMA EstablishedFrame ==
    ASSUME NEW p, NEW id, Established(p, id), call'[p] = call[p],
           Binding(id.domain)' = Binding(id.domain),
           id.site # 0 => siteRec'[id.site] = siteRec[id.site],
           id.site = 0 /\ Binding(id.domain).active # 0 =>
               siteRec'[Binding(id.domain).active] = siteRec[Binding(id.domain).active]
    PROVE  Established(p, id)'
<1>1. call[p].mode = call'[p].mode /\ call[p].op = call'[p].op /\ call[p].rev = call'[p].rev
    BY Zenon
<1>2. CASE id.site = 0
    BY Zenon, <1>2 DEF Established, HostnameLive
<1>3. CASE id.site # 0
    BY Zenon, <1>1, <1>3 DEF Established, ResumesRemoval, RemovalKind
<1>4. QED
    BY Zenon, <1>2, <1>3

\* A website record is written only for a website of the writer's lease, so
\* what another request has established survives; the writer's own identities
\* become tombstones of its own removal.
LEMMA EstablishedUnderSiteWrite ==
    ASSUME IndInv, NEW p \in Proc, MarkSite(p) \/ CompleteSite(p),
           NEW q \in Proc, NEW i \in DOMAIN values[q], ValidatedAt(q, i), call'[q] = call[q],
           NEW id, id = values[q][i]
    PROVE  Established(q, id)'
<1>1. PICK s : s = Id(p).site
    BY Zenon
<1>2. id = values[q][i]
    BY Zenon
<1>3. Established(q, id) /\ id \in Identity
    BY <1>2 DEF IndInv, ValidatedInv, TypeOK
<1>4. /\ idx[p] \in DOMAIN values[p] /\ values[p][idx[p]].site = s /\ s \in Site /\ s # 0
      /\ values[p][idx[p]].domain = Id(p).domain /\ pc[p] \in Leased
      /\ call[p].mode \in {"remove", "account-remove"} /\ call[p] \in Request
    BY Zenon, <1>1, RemovalIdTyped, ConstantsAssumption DEF MarkSite, CompleteSite, IndInv, Leased
<1>5. /\ siteRec[s] # NoFile /\ siteRec'[s] # NoFile
      /\ siteRec'[s].identity = siteRec[s].identity /\ siteRec'[s].state # "active"
      /\ \A t \in Site : t # s => siteRec'[t] = siteRec[t]
      /\ domRec' = domRec
    <2>1. CASE MarkSite(p)
        BY <1>1, <2>1, MarkSiteEffect
    <2>2. CASE CompleteSite(p)
        BY <1>1, <2>2, CompleteSiteEffect
    <2>3. QED
        BY Zenon, <2>1, <2>2
<1>6. Binding(id.domain)' = Binding(id.domain)
    BY Zenon, <1>5 DEF Binding
<1>7. Established(p, values[p][idx[p]])
    BY Zenon, <1>4 DEF IndInv, ValidatedInv, ValidatedAt
<1>8. siteRec[s].identity.domain = values[p][idx[p]].domain
    BY Zenon, <1>4, <1>7 DEF Established
<1>9. Binding(id.domain).active # 0 => /\ Binding(id.domain).active \in Site
                                       /\ siteRec[Binding(id.domain).active].identity.domain = id.domain
    BY Zenon, <1>3, BindingTyped DEF IndInv, BindingsAreOwned, Identity, DomainRecord
<1>10. CASE q # p
    <2>1. pc[q] \in Working /\ pc[p] \in Working
        BY Zenon, <1>4 DEF ValidatedAt, Working
    <2>2. id.domain # values[p][idx[p]].domain /\ id.site # s
        BY <1>2, <1>4, <1>10, <2>1, Exclusion DEF IndInv
    <2>3. Binding(id.domain).active # 0 => Binding(id.domain).active # s
        BY Zenon, <1>8, <1>9, <2>2
    <2>4. id.site # 0 => id.site \in Site
        BY Zenon, <1>3 DEF Identity
    <2>5. QED
        BY Zenon, <1>3, <1>5, <1>6, <1>9, <2>2, <2>3, <2>4, EstablishedFrame
<1>11. CASE q = p
    <2>1. id.site \in Site /\ id.site # 0
        BY Zenon, <1>2, <1>4, <1>11, RemovalSites, ConstantsAssumption DEF IndInv
    <2>2. CASE id.site # s
        <3>1. id.site # 0 /\ siteRec'[id.site] = siteRec[id.site]
            BY Zenon, <1>5, <2>1, <2>2
        <3>2. QED
            BY Zenon, <1>3, <1>6, <3>1, EstablishedFrame
    <2>3. CASE id.site = s
        <3>1. ResumesRemoval(p, siteRec'[s]) /\ call'[p] = call[p]
            <4>1. CASE MarkSite(p)
                <5>1. /\ siteRec'[s].op = call[p].op /\ siteRec'[s].rev = call[p].rev
                      /\ siteRec'[s].kind = RemovalKind(p)
                    BY Zenon, <1>1, <4>1, MarkSiteEffect
                <5>2. QED
                    BY <1>4, <1>11, <5>1, RequestAssumption DEF ResumesRemoval
            <4>2. CASE CompleteSite(p)
                <5>1. siteRec[s].state # "active"
                    <6>1. CASE call[p].mode = "remove"
                        BY Zenon, <1>1, <4>2, <6>1 DEF CompleteSite
                    <6>2. CASE call[p].mode = "account-remove"
                        BY Zenon, <1>4, <4>2, <6>2 DEF CompleteSite, IndInv, MarkedInv, MarkedAt
                    <6>3. QED
                        BY Zenon, <1>4, <6>1, <6>2
                <5>2. ResumesRemoval(p, siteRec[s])
                    BY Zenon, <1>4, <1>7, <5>1 DEF Established
                <5>3. /\ siteRec'[s].op = siteRec[s].op /\ siteRec'[s].rev = siteRec[s].rev
                      /\ siteRec'[s].kind = siteRec[s].kind
                    BY Zenon, <1>1, <4>2, CompleteSiteEffect
                <5>4. QED
                    BY Zenon, <1>11, <5>2, <5>3 DEF ResumesRemoval
            <4>3. QED
                BY Zenon, <4>1, <4>2
        <3>2. ResumesRemoval(p, siteRec[s])'
            BY Zenon, <3>1 DEF ResumesRemoval, RemovalKind
        <3>3. siteRec'[s].identity.domain = id.domain
            BY Zenon, <1>3, <1>5, <2>1, <2>3 DEF Established
        <3>4. QED
            BY Zenon, <1>5, <1>11, <2>1, <2>3, <3>2, <3>3 DEF Established
    <2>4. QED
        BY Zenon, <2>2, <2>3
<1>12. QED
    BY Zenon, <1>10, <1>11

\* So is a hostname's file.  A hostname that a request claims had no owner; one
\* that it marks or frees belongs to a removal, whose identities are tombstones.
LEMMA EstablishedUnderDomainWrite ==
    ASSUME IndInv, NEW p \in Proc, Bind(p) \/ MarkDomain(p) \/ ReleaseBinding(p),
           NEW q \in Proc, NEW i \in DOMAIN values[q], ValidatedAt(q, i), call'[q] = call[q],
           NEW id, id = values[q][i]
    PROVE  Established(q, id)'
<1>1. Established(q, id) /\ id \in Identity /\ id.domain \in Domain /\ id.site \in Site \cup {0}
    <2>1. Established(q, id)
        BY Zenon DEF IndInv, ValidatedInv
    <2>2. id \in Identity
        BY DEF IndInv, TypeOK
    <2>3. QED
        BY Zenon, <2>1, <2>2 DEF Identity
<1>2. siteRec' = siteRec
    BY Zenon DEF Bind, MarkDomain, ReleaseBinding
<1>3. PICK d : d = IF Bind(p) THEN Current(p).domain ELSE Id(p).domain
    BY Zenon
<1>4. \E j \in DOMAIN values[p] : values[p][j].domain = d
    <2>1. CASE Bind(p)
        BY Zenon, <1>3, <2>1, CurrentTyped DEF Bind, IndInv, Current
    <2>2. CASE ~Bind(p)
        BY Zenon, <1>3, <2>2, RemovalIdTyped DEF MarkDomain, ReleaseBinding, IndInv
    <2>3. QED
        BY Zenon, <2>1, <2>2
<1>5. \A e \in Domain : e # d => Binding(e)' = Binding(e)
    <2>1. CASE Bind(p)
        BY Zenon, <1>3, <2>1, BindEffect
    <2>2. CASE ~Bind(p) /\ MarkDomain(p)
        BY Zenon, <1>3, <2>2, MarkDomainEffect
    <2>3. CASE ~Bind(p) /\ ReleaseBinding(p)
        BY Zenon, <1>3, <2>3, ReleaseEffect
    <2>4. QED
        BY Zenon, <2>1, <2>2, <2>3
<1>6. CASE id.domain # d
    <2>1. Binding(id.domain)' = Binding(id.domain)
        BY Zenon, <1>1, <1>5, <1>6
    <2>2. QED
        BY Zenon, <1>1, <1>2, <2>1, EstablishedFrame
<1>7. CASE id.domain = d
    <2>1. pc[p] \in Working /\ pc[q] \in Working
        BY Zenon DEF Bind, MarkDomain, ReleaseBinding, ValidatedAt, Working, Leased
    <2>2. q = p
        BY Zenon, <1>4, <1>7, <2>1, Exclusion DEF IndInv
    <2>3. CASE Bind(p)
        <3>1. /\ Binding(d).active = 0 /\ Current(p).site \in Site
              /\ Binding(d)' = [active |-> Current(p).site, history |-> Binding(d).history]
            BY Zenon, <1>3, <2>3, BindEffect
        <3>2. Binding(d)'.active = Current(p).site /\ Binding(d)'.history = Binding(d).history
            BY <3>1
        <3>3. siteRec[Current(p).site] # NoFile /\ siteRec[Current(p).site].state = "active"
            BY Zenon, <2>3 DEF Bind, CanBind
        <3>4. CASE id.site = 0
            <4>1. HostnameLive(d)
                BY Zenon, <1>1, <1>7, <3>4 DEF Established
            <4>2. HostnameLive(d)'
                BY Zenon, <1>2, <3>2, <3>3, <4>1 DEF HostnameLive
            <4>3. QED
                BY Zenon, <1>7, <3>4, <4>2 DEF Established
        <3>5. CASE id.site # 0
            <4>1. siteRec[id.site] # NoFile /\ siteRec[id.site].state # "active"
                BY Zenon, <1>1, <1>7, <3>1, <3>5 DEF Established
            <4>2. ResumesRemoval(q, siteRec[id.site]) /\ siteRec[id.site].identity.domain = id.domain
                BY Zenon, <1>1, <3>5, <4>1 DEF Established
            <4>3. ResumesRemoval(q, siteRec[id.site])'
                BY Zenon, <1>2, <4>2 DEF ResumesRemoval, RemovalKind
            <4>4. QED
                BY Zenon, <1>2, <3>5, <4>1, <4>2, <4>3 DEF Established
        <3>6. QED
            BY Zenon, <3>4, <3>5
    <2>4. CASE ~Bind(p)
        <3>1. /\ call[q] \in Request /\ call[q].mode \in {"remove", "account-remove"}
            BY Zenon, <2>2, <2>4, RemovalIdTyped DEF MarkDomain, ReleaseBinding, IndInv
        <3>2. id.site \in Site /\ id.site # 0
            BY Zenon, <3>1, RemovalSites, ConstantsAssumption DEF IndInv
        <3>3. siteRec[id.site].state = "active" => Binding(d)'.active = id.site
            <4>1. CASE MarkDomain(p)
                <5>1. Binding(d)'.active = Binding(d).active
                    BY Zenon, <1>3, <2>4, <4>1, MarkDomainEffect
                <5>2. QED
                    BY Zenon, <1>1, <1>7, <3>2, <5>1 DEF Established
            <4>2. CASE ReleaseBinding(p)
                BY Zenon, <2>2, <4>2 DEF ReleaseBinding, IndInv, CompletedInv, CompletedAt
            <4>3. QED
                BY Zenon, <2>4, <4>1, <4>2
        <3>4. siteRec[id.site].state # "active" => ResumesRemoval(q, siteRec[id.site])'
            <4>1. siteRec[id.site].state # "active" => ResumesRemoval(q, siteRec[id.site])
                BY Zenon, <1>1, <3>2 DEF Established
            <4>2. QED
                BY Zenon, <1>2, <4>1 DEF ResumesRemoval, RemovalKind
        <3>5. siteRec[id.site] # NoFile /\ siteRec[id.site].identity.domain = id.domain
            BY Zenon, <1>1, <3>2 DEF Established
        <3>6. QED
            BY Zenon, <1>2, <1>7, <3>2, <3>3, <3>4, <3>5 DEF Established
    <2>5. QED
        BY Zenon, <2>3, <2>4
<1>8. QED
    BY Zenon, <1>6, <1>7

\* Registering a website disturbs no identity that is already established: each
\* of those rests on records that exist.
LEMMA EstablishedUnderRegister ==
    ASSUME IndInv, NEW p \in Proc, Register(p),
           NEW q \in Proc, NEW i \in DOMAIN values[q], ValidatedAt(q, i), call'[q] = call[q],
           NEW id, id = values[q][i]
    PROVE  Established(q, id)'
<1>1. Established(q, id) /\ id.domain \in Domain /\ id.site \in Site \cup {0}
    <2>1. Established(q, id)
        BY Zenon DEF IndInv, ValidatedInv
    <2>2. id \in Identity
        BY DEF IndInv, TypeOK
    <2>3. QED
        BY Zenon, <2>1, <2>2 DEF Identity
<1>2. PICK s : s = Current(p).site
    BY Zenon
<1>3. /\ siteRec[s] = NoFile /\ \A t \in Site : t # s => siteRec'[t] = siteRec[t]
      /\ domRec' = domRec
    BY Zenon, <1>2, RegisterEffect
<1>4. Binding(id.domain)' = Binding(id.domain)
    BY Zenon, <1>3 DEF Binding
<1>5. Binding(id.domain).active # 0 => /\ Binding(id.domain).active \in Site
                                       /\ siteRec[Binding(id.domain).active] # NoFile
    BY Zenon, <1>1, BindingTyped DEF IndInv, BindingsAreOwned, DomainRecord
<1>6. Binding(id.domain).active # 0 =>
          siteRec'[Binding(id.domain).active] = siteRec[Binding(id.domain).active]
    BY Zenon, <1>3, <1>5
<1>7. id.site # 0 => siteRec'[id.site] = siteRec[id.site]
    BY Zenon, <1>1, <1>3 DEF Established
<1>8. QED
    BY Zenon, <1>1, <1>4, <1>6, <1>7, EstablishedFrame

\* What validateLease establishes for the identity it is at.
LEMMA EstablishedNow ==
    ASSUME IndInv, NEW p \in Proc, Validate(p) \/ Bind(p), NEW id, id = Current(p)
    PROVE  Established(p, id)'
<1>1. call' = call /\ siteRec' = siteRec
    BY Zenon DEF Validate, Bind
<1>2. id \in Identity
    BY Zenon, CurrentTyped DEF IndInv, Validate, Bind
<1>3. CASE Validate(p)
    <2>1. Established(p, id)
        BY Zenon, <1>3 DEF Validate, ValidAsIs, Established, LegacyValid, HostnameLive, compatibleIdentity
    <2>2. Binding(id.domain)' = Binding(id.domain)
        BY Zenon, <1>3 DEF Validate, Binding
    <2>3. QED
        BY Zenon, <1>1, <2>1, <2>2, EstablishedFrame
<1>4. CASE Bind(p)
    <2>1. PICK d : d = Current(p).domain
        BY Zenon
    <2>2. Binding(d)'.active = id.site /\ id.site # 0
        BY <1>4, <2>1, BindEffect, ConstantsAssumption
    <2>3. /\ siteRec[id.site] # NoFile /\ siteRec[id.site].identity.domain = id.domain
          /\ siteRec[id.site].state = "active"
        BY Zenon, <1>4 DEF Bind, CanBind, compatibleIdentity
    <2>4. QED
        BY Zenon, <1>1, <2>1, <2>2, <2>3 DEF Established
<1>5. QED
    BY Zenon, <1>3, <1>4

-----------------------------------------------------------------------------
(* What a request has established when it reaches a label.                 *)

\* An identity comes to be validated only by its own Validate or Bind step.
LEMMA ValidatedReach ==
    ASSUME IndInv, [Next]_vars, NEW p \in Proc, NEW i \in DOMAIN values'[p], ValidatedAt(p, i)'
    PROVE  /\ values'[p] = values[p] /\ call'[p] = call[p]
           /\ \/ ValidatedAt(p, i)
              \/ (Validate(p) \/ Bind(p)) /\ i = idx[p]
<1> DEFINE Goal == /\ values'[p] = values[p] /\ call'[p] = call[p]
                   /\ \/ ValidatedAt(p, i)
                      \/ (Validate(p) \/ Bind(p)) /\ i = idx[p]
<1> USE DEF ValidatedAt, Leased
<1>1. CASE UNCHANGED vars
    BY Zenon, <1>1 DEF vars
<1>2. ASSUME NEW q \in Proc, q # p, Moves(q)
      PROVE  Goal
    <2>1. pc'[p] = pc[p] /\ idx'[p] = idx[p] /\ values'[p] = values[p] /\ call'[p] = call[p]
        BY Zenon, <1>2, OtherUnmoved DEF IndInv
    <2>2. QED
        BY Zenon, <2>1
<1>3. CASE Validate(p) \/ Bind(p)
    <2>1. pc[p] = "validate" /\ values' = values /\ call' = call
        BY Zenon, <1>3 DEF Validate, Bind
    <2>2. /\ idx[p] \in Nat /\ idx[p] <= Len(call[p].ids) /\ Len(values[p]) = Len(call[p].ids)
          /\ values[p] \in Seq(Identity)
        BY Zenon, <2>1 DEF IndInv, TypeOK, PhaseInv, Phase, Working
    <2>3. i \in Nat /\ i <= Len(values[p])
        BY <2>1, <2>2
    <2>4. \/ idx[p] < Len(call[p].ids) /\ pc'[p] = "validate" /\ idx'[p] = idx[p] + 1
          \/ ~(idx[p] < Len(call[p].ids)) /\ pc'[p] = "lease" /\ idx'[p] = 1
        BY <1>3, NextIdentityEffect, Labels DEF Validate, Bind, IndInv
    <2>5. i <= idx[p]
        BY <2>2, <2>3, <2>4
    <2>6. i < idx[p] \/ i = idx[p]
        BY <2>2, <2>3, <2>5
    <2>7. QED
        BY Zenon, <1>3, <2>1, <2>6
<1>4. CASE Locked(p)
    <2>1. /\ pc[p] = "lock" /\ values' = values /\ idx' = idx
          /\ pc'[p] = IF values[p] = << >> THEN "lease" ELSE "validate"
        BY Zenon, <1>4 DEF Locked, Goto, IndInv, TypeOK
    <2>2. idx[p] = 1 /\ values[p] \in Seq(Identity)
        BY Zenon, <2>1 DEF IndInv, TypeOK, PhaseInv, Phase
    <2>3. values[p] # << >> /\ i \in Nat /\ i >= 1
        BY <2>1, <2>2
    <2>4. QED
        BY <2>1, <2>2, <2>3
<1>5. CASE Register(p) \/ Work(p) \/ BeginMark(p) \/ BeginComplete(p) \/ AccountTornDown(p)
           \/ BeginAccountRemoval(p) \/ MarkSite(p)
    BY Zenon, <1>5 DEF Register, Work, BeginMark, BeginComplete, AccountTornDown, BeginAccountRemoval,
                MarkSite, Goto, IndInv, TypeOK
<1>6. CASE SkipMark(p) \/ MarkDomain(p) \/ CompleteSite(p) \/ ReleaseBinding(p)
    <2>1. pc[p] \in Leased /\ values' = values /\ call' = call
        BY Zenon, <1>6 DEF SkipMark, MarkDomain, CompleteSite, ReleaseBinding
    <2>2. QED
        BY Zenon, <2>1
<1>7. CASE Resolve(p)
    <2>1. pc'[p] \in {"resolve", "lock"}
        BY Zenon, <1>7, NextIdentityEffect, Labels DEF Resolve, IndInv
    <2>2. QED
        BY Zenon, <2>1
<1>8. CASE Acquire(p) \/ Finish(p) \/ Abort(p) \/ \E r \in Request : Start(p, r)
    <2>1. pc'[p] \in {"idle", "resolve", "lock"}
        BY Zenon, <1>8 DEF Acquire, Finish, Abort, Start, Return, Goto, IndInv, TypeOK
    <2>2. QED
        BY Zenon, <2>1
<1>9. QED
    BY Zenon, <1>1, <1>2, <1>3, <1>4, <1>5, <1>6, <1>7, <1>8 DEF Next, Moves, Step

\* No step of any request undoes what validation has established.
LEMMA ValidatedStep ==
    IndInv /\ [Next]_vars => ValidatedInv'
<1> SUFFICES ASSUME IndInv, [Next]_vars,
                    NEW q \in Proc, NEW i \in DOMAIN values'[q], ValidatedAt(q, i)'
             PROVE  Established(q, values[q][i])'
    BY Zenon DEF ValidatedInv
<1>1. PICK id : id = values[q][i]
    BY Zenon
<1>2. /\ values'[q] = values[q] /\ call'[q] = call[q] /\ i \in DOMAIN values[q]
      /\ \/ ValidatedAt(q, i)
         \/ (Validate(q) \/ Bind(q)) /\ i = idx[q]
    BY Zenon, ValidatedReach
<1>3. SUFFICES Established(q, id)'
    <2>1. values'[q][i] = id
        BY Zenon, <1>1, <1>2
    <2>2. QED
        BY Zenon, <2>1 DEF Established, ResumesRemoval, RemovalKind
<1>4. CASE (Validate(q) \/ Bind(q)) /\ i = idx[q]
    BY Zenon, <1>1, <1>4, EstablishedNow DEF Current
<1>5. CASE ValidatedAt(q, i)
    <2>1. CASE siteRec' = siteRec /\ domRec' = domRec
        <3>1. Binding(id.domain)' = Binding(id.domain)
            BY Zenon, <2>1 DEF Binding
        <3>2. Established(q, id)
            BY Zenon, <1>1, <1>2, <1>5 DEF IndInv, ValidatedInv
        <3>3. QED
            BY Zenon, <1>2, <2>1, <3>1, <3>2, EstablishedFrame
    <2>2. ASSUME NEW p \in Proc, Register(p) PROVE Established(q, id)'
        BY Zenon, <1>1, <1>2, <1>5, <2>2, EstablishedUnderRegister
    <2>3. ASSUME NEW p \in Proc, MarkSite(p) \/ CompleteSite(p) PROVE Established(q, id)'
        BY Zenon, <1>1, <1>2, <1>5, <2>3, EstablishedUnderSiteWrite
    <2>4. ASSUME NEW p \in Proc, Bind(p) \/ MarkDomain(p) \/ ReleaseBinding(p)
          PROVE  Established(q, id)'
        BY Zenon, <1>1, <1>2, <1>5, <2>4, EstablishedUnderDomainWrite
    <2>5. QED
        BY Zenon, <2>1, <2>2, <2>3, <2>4, FileSteps
<1>6. QED
    BY Zenon, <1>2, <1>4, <1>5

\* An identity comes to be tombstoned only by its own MarkSite or SkipMark step.
LEMMA MarkedReach ==
    ASSUME IndInv, [Next]_vars, NEW p \in Proc, NEW i \in DOMAIN values'[p], MarkedAt(p, i)'
    PROVE  /\ values'[p] = values[p]
           /\ \/ MarkedAt(p, i)
              \/ (MarkSite(p) \/ SkipMark(p)) /\ i = idx[p]
<1> DEFINE Goal == /\ values'[p] = values[p]
                   /\ \/ MarkedAt(p, i)
                      \/ (MarkSite(p) \/ SkipMark(p)) /\ i = idx[p]
<1> USE DEF MarkedAt
<1>1. CASE UNCHANGED vars
    BY Zenon, <1>1 DEF vars
<1>2. ASSUME NEW q \in Proc, q # p, Moves(q)
      PROVE  Goal
    <2>1. pc'[p] = pc[p] /\ idx'[p] = idx[p] /\ values'[p] = values[p] /\ call'[p] = call[p]
        BY Zenon, <1>2, OtherUnmoved DEF IndInv
    <2>2. QED
        BY Zenon, <2>1
<1>3. CASE SkipMark(p) \/ MarkDomain(p)
    <2>1. pc[p] \in {"mark", "markDomain"} /\ values' = values /\ call' = call
        BY Zenon, <1>3 DEF SkipMark, MarkDomain
    <2>2. /\ idx[p] \in Nat /\ idx[p] <= Len(call[p].ids) /\ Len(values[p]) = Len(call[p].ids)
          /\ values[p] \in Seq(Identity)
        BY Zenon, <2>1 DEF IndInv, TypeOK, PhaseInv, Phase, Working, Leased
    <2>3. i \in Nat /\ i <= Len(values[p])
        BY <2>1, <2>2
    <2>4. \/ idx[p] < Len(call[p].ids) /\ pc'[p] = "mark" /\ idx'[p] = idx[p] + 1
          \/ ~(idx[p] < Len(call[p].ids)) /\ pc'[p] = "work" /\ idx'[p] = 1
        BY <1>3, NextIdentityEffect, Labels DEF SkipMark, MarkDomain, IndInv
    <2>5. i <= idx[p]
        BY <2>2, <2>3, <2>4
    <2>6. i < idx[p] \/ i = idx[p]
        BY <2>2, <2>3, <2>5
    <2>7. SkipMark(p) \/ pc[p] = "markDomain"
        BY Zenon, <1>3 DEF MarkDomain
    <2>8. QED
        BY Zenon, <2>1, <2>6, <2>7
<1>4. CASE MarkSite(p)
    BY Zenon, <1>4 DEF MarkSite, Goto, IndInv, TypeOK
<1>5. CASE BeginMark(p) \/ BeginAccountRemoval(p)
    <2>1. pc[p] = "lease" /\ values' = values /\ idx' = idx /\ call' = call
        BY Zenon, <1>5 DEF BeginMark, BeginAccountRemoval
    <2>2. idx[p] = 1 /\ values[p] \in Seq(Identity) /\ Len(values[p]) = Len(call[p].ids)
        BY Zenon, <2>1 DEF IndInv, TypeOK, PhaseInv, Phase, Working, Leased
    <2>3. pc'[p] \in {"mark", "release"} \/ call[p].ids = << >>
        BY Zenon, <1>5 DEF BeginMark, BeginAccountRemoval, Goto, IndInv, TypeOK
    <2>4. i \in Nat /\ i >= 1 /\ i <= Len(call[p].ids)
        BY <2>1, <2>2
    <2>5. call[p].ids # << >>
        BY <2>4
    <2>6. QED
        BY <2>1, <2>2, <2>3, <2>4, <2>5
<1>6. CASE CompleteSite(p) \/ ReleaseBinding(p)
    <2>1. /\ pc'[p] \in {"complete", "release", "done"} /\ values' = values /\ call' = call
          /\ pc'[p] = "complete" => pc[p] = "complete"
        BY <1>6, NextIdentityEffect, Labels DEF CompleteSite, ReleaseBinding, IndInv
    <2>2. QED
        BY Zenon, <2>1
<1>7. CASE Validate(p) \/ Bind(p) \/ Resolve(p)
    <2>1. pc'[p] \in {"resolve", "lock", "validate", "lease"}
        BY Zenon, <1>7, NextIdentityEffect, Labels DEF Validate, Bind, Resolve, IndInv
    <2>2. QED
        BY Zenon, <2>1
<1>8. CASE Register(p) \/ Work(p) \/ BeginComplete(p) \/ AccountTornDown(p)
    BY Zenon, <1>8 DEF Register, Work, BeginComplete, AccountTornDown, Goto, IndInv, TypeOK
<1>9. CASE Acquire(p) \/ Locked(p) \/ Finish(p) \/ Abort(p) \/ \E r \in Request : Start(p, r)
    <2>1. pc'[p] \in {"idle", "resolve", "lock", "validate", "lease"}
        BY Zenon, <1>9 DEF Acquire, Locked, Finish, Abort, Start, Return, Goto, IndInv, TypeOK
    <2>2. QED
        BY Zenon, <2>1
<1>10. QED
    BY Zenon, <1>1, <1>2, <1>3, <1>4, <1>5, <1>6, <1>7, <1>8, <1>9 DEF Next, Moves, Step

\* What a removal has tombstoned stays a tombstone.
LEMMA MarkedStep ==
    IndInv /\ [Next]_vars => MarkedInv'
<1> SUFFICES ASSUME IndInv, [Next]_vars,
                    NEW q \in Proc, NEW i \in DOMAIN values'[q], MarkedAt(q, i)',
                    NEW s, s = values'[q][i].site
             PROVE  siteRec'[s] # NoFile /\ siteRec'[s].state # "active"
    BY Zenon DEF MarkedInv
<1>1. /\ values'[q] = values[q] /\ i \in DOMAIN values[q] /\ s = values[q][i].site
      /\ \/ MarkedAt(q, i)
         \/ (MarkSite(q) \/ SkipMark(q)) /\ i = idx[q]
    BY Zenon, MarkedReach
<1>2. CASE MarkedAt(q, i)
    <2>1. siteRec[s] # NoFile /\ siteRec[s].state # "active"
        BY Zenon, <1>1, <1>2 DEF IndInv, MarkedInv
    <2>2. call[q] \in Request /\ call[q].mode \in {"remove", "account-remove"}
        BY Zenon, <1>2 DEF MarkedAt, IndInv, PhaseInv, Phase
    <2>3. s \in Site
        BY Zenon, <1>1, <2>2, RemovalSites DEF IndInv
    <2>4. QED
        BY Zenon, <2>1, <2>3, RecordsStep
<1>3. CASE MarkSite(q) /\ i = idx[q]
    <2>1. s = Id(q).site
        BY Zenon, <1>1, <1>3, RemovalIdTyped DEF MarkSite, IndInv
    <2>2. QED
        BY <1>3, <2>1, MarkSiteEffect
<1>4. CASE SkipMark(q) /\ i = idx[q]
    <2>1. s = Id(q).site
        BY Zenon, <1>1, <1>4, RemovalIdTyped DEF SkipMark, IndInv
    <2>2. QED
        BY Zenon, <1>4, <2>1 DEF SkipMark
<1>5. QED
    BY Zenon, <1>1, <1>2, <1>3, <1>4

\* An identity comes to be finally removed only by its own CompleteSite step, or
\* was found so by the replay of an account removal.
LEMMA CompletedReach ==
    ASSUME IndInv, [Next]_vars, NEW p \in Proc, NEW i \in DOMAIN values'[p], CompletedAt(p, i)'
    PROVE  /\ values'[p] = values[p]
           /\ \/ CompletedAt(p, i)
              \/ CompleteSite(p) /\ i = idx[p]
              \/ BeginAccountRemoval(p) /\ AccountComplete(p)
<1> DEFINE Goal == /\ values'[p] = values[p]
                   /\ \/ CompletedAt(p, i)
                      \/ CompleteSite(p) /\ i = idx[p]
                      \/ BeginAccountRemoval(p) /\ AccountComplete(p)
<1> USE DEF CompletedAt
<1>1. CASE UNCHANGED vars
    BY Zenon, <1>1 DEF vars
<1>2. ASSUME NEW q \in Proc, q # p, Moves(q)
      PROVE  Goal
    <2>1. pc'[p] = pc[p] /\ idx'[p] = idx[p] /\ values'[p] = values[p]
        BY Zenon, <1>2, OtherUnmoved DEF IndInv
    <2>2. QED
        BY Zenon, <2>1
<1>3. CASE CompleteSite(p)
    <2>1. pc[p] = "complete" /\ values' = values
        BY Zenon, <1>3 DEF CompleteSite
    <2>2. /\ idx[p] \in Nat /\ idx[p] <= Len(call[p].ids) /\ Len(values[p]) = Len(call[p].ids)
          /\ values[p] \in Seq(Identity)
        BY Zenon, <2>1 DEF IndInv, TypeOK, PhaseInv, Phase, Working, Leased
    <2>3. i \in Nat /\ i <= Len(values[p])
        BY <2>1, <2>2
    <2>4. \/ idx[p] < Len(call[p].ids) /\ pc'[p] = "complete" /\ idx'[p] = idx[p] + 1
          \/ ~(idx[p] < Len(call[p].ids)) /\ pc'[p] = "release" /\ idx'[p] = 1
        BY <1>3, NextIdentityEffect, Labels DEF CompleteSite, IndInv
    <2>5. i <= idx[p]
        BY <2>2, <2>3, <2>4
    <2>6. i < idx[p] \/ i = idx[p]
        BY <2>2, <2>3, <2>5
    <2>7. QED
        BY Zenon, <1>3, <2>1, <2>6
<1>4. CASE BeginComplete(p) \/ AccountTornDown(p)
    <2>1. pc[p] \in {"lease", "work"} /\ values' = values /\ idx' = idx
        BY Zenon, <1>4 DEF BeginComplete, AccountTornDown
    <2>2. idx[p] = 1 /\ values[p] \in Seq(Identity) /\ Len(values[p]) = Len(call[p].ids)
        BY Zenon, <2>1 DEF IndInv, TypeOK, PhaseInv, Phase, Working, Leased
    <2>3. pc'[p] = "complete" \/ call[p].ids = << >>
        BY Zenon, <1>4 DEF BeginComplete, AccountTornDown, Goto, IndInv, TypeOK
    <2>4. i \in Nat /\ i >= 1 /\ i <= Len(call[p].ids)
        BY <2>1, <2>2, SMTT(30)
    <2>5. call[p].ids # << >>
        BY <2>4, SMTT(30)
    <2>6. QED
        BY <2>1, <2>2, <2>3, <2>4, <2>5
<1>5. CASE BeginAccountRemoval(p)
    BY Zenon, <1>5 DEF BeginAccountRemoval, Goto, IndInv, TypeOK
<1>6. CASE ReleaseBinding(p)
    BY Zenon, <1>6 DEF ReleaseBinding
<1>7. CASE Validate(p) \/ Bind(p) \/ Resolve(p) \/ SkipMark(p) \/ MarkDomain(p)
    <2>1. pc'[p] \in {"resolve", "lock", "validate", "lease", "mark", "work"}
        BY Zenon, <1>7, NextIdentityEffect, Labels DEF Validate, Bind, Resolve, SkipMark, MarkDomain, IndInv
    <2>2. QED
        BY Zenon, <2>1
<1>8. CASE Register(p) \/ Work(p) \/ BeginMark(p) \/ MarkSite(p)
    BY Zenon, <1>8 DEF Register, Work, BeginMark, MarkSite, Goto, IndInv, TypeOK
<1>9. CASE Acquire(p) \/ Locked(p) \/ Finish(p) \/ Abort(p) \/ \E r \in Request : Start(p, r)
    <2>1. pc'[p] \in {"idle", "resolve", "lock", "validate", "lease"}
        BY Zenon, <1>9 DEF Acquire, Locked, Finish, Abort, Start, Return, Goto, IndInv, TypeOK
    <2>2. QED
        BY Zenon, <2>1
<1>10. QED
    BY Zenon, <1>1, <1>2, <1>3, <1>4, <1>5, <1>6, <1>7, <1>8, <1>9 DEF Next, Moves, Step

\* While a removal frees its hostnames, no other removal reopens its records.
LEMMA CompletedStep ==
    IndInv /\ [Next]_vars => CompletedInv'
<1> SUFFICES ASSUME IndInv, [Next]_vars,
                    NEW q \in Proc, NEW i \in DOMAIN values'[q], CompletedAt(q, i)',
                    NEW s, s = values'[q][i].site
             PROVE  siteRec'[s] # NoFile /\ siteRec'[s].state = "removed"
    BY Zenon DEF CompletedInv
<1>1. /\ values'[q] = values[q] /\ i \in DOMAIN values[q] /\ s = values[q][i].site
      /\ \/ CompletedAt(q, i)
         \/ CompleteSite(q) /\ i = idx[q]
         \/ BeginAccountRemoval(q) /\ AccountComplete(q)
    BY Zenon, CompletedReach
<1>2. CASE CompletedAt(q, i)
    <2>1. siteRec[s] # NoFile /\ siteRec[s].state = "removed"
        BY Zenon, <1>1, <1>2 DEF IndInv, CompletedInv
    <2>2. call[q] \in Request /\ call[q].mode \in {"remove", "account-remove"}
        BY Zenon, <1>2 DEF CompletedAt, IndInv, PhaseInv, Phase
    <2>3. s \in Site /\ s # 0
        BY Zenon, <1>1, <2>2, RemovalSites, ConstantsAssumption DEF IndInv
    <2>4. CASE siteRec'[s] = siteRec[s]
        BY Zenon, <2>1, <2>4
    <2>5. ASSUME NEW p \in Proc, MarkSite(p) PROVE siteRec'[s] = siteRec[s]
        <3>1. PICK t : t = Id(p).site
            BY Zenon
        <3>2. /\ idx[p] \in DOMAIN values[p] /\ values[p][idx[p]].site = t /\ pc[p] = "mark"
            BY Zenon, <2>5, <3>1, RemovalIdTyped DEF MarkSite, IndInv
        <3>3. p # q
            BY Zenon, <1>2, <3>2 DEF CompletedAt
        <3>4. pc[p] \in Working /\ pc[q] \in Working
            BY Zenon, <1>2, <3>2 DEF CompletedAt, Working, Leased
        <3>5. t # s
            BY Zenon, <1>1, <2>3, <3>2, <3>3, <3>4, Exclusion DEF IndInv
        <3>6. QED
            BY <2>3, <2>5, <3>1, <3>5, MarkSiteEffect
    <2>6. ASSUME NEW p \in Proc, Register(p) PROVE siteRec'[s] = siteRec[s]
        BY Zenon, <2>1, <2>3, <2>6, RegisterEffect
    <2>7. ASSUME NEW p \in Proc, CompleteSite(p)
          PROVE  siteRec'[s] # NoFile /\ siteRec'[s].state = "removed"
        <3>1. PICK t : t = Id(p).site
            BY Zenon
        <3>2. /\ siteRec'[t] # NoFile /\ siteRec'[t].state = "removed"
              /\ \A u \in Site : u # t => siteRec'[u] = siteRec[u]
            BY <2>7, <3>1, CompleteSiteEffect
        <3>3. QED
            BY Zenon, <2>1, <2>3, <3>2
    <2>8. QED
        BY Zenon, <2>4, <2>5, <2>6, <2>7, FileSteps DEF Bind, MarkDomain, ReleaseBinding
<1>3. CASE CompleteSite(q) /\ i = idx[q]
    <2>1. s = Id(q).site
        BY Zenon, <1>1, <1>3, RemovalIdTyped DEF CompleteSite, IndInv
    <2>2. QED
        BY <1>3, <2>1, CompleteSiteEffect
<1>4. CASE BeginAccountRemoval(q) /\ AccountComplete(q)
    <2>1. i \in DOMAIN call[q].ids /\ s = call[q].ids[i].site
        <3>1. call[q] \in Request
            BY Zenon, <1>4 DEF BeginAccountRemoval, IndInv, PhaseInv, Phase
        <3>2. call[q].ids \in Seq(Identity) /\ values[q] \in Seq(Identity)
            BY Zenon, <3>1, RequestAssumption DEF IndInv, TypeOK
        <3>3. i \in Nat /\ i >= 1 /\ i <= Len(call[q].ids) /\ s = call[q].ids[i].site
            BY <1>1, <3>2 DEF IndInv, PhaseInv, Phase
        <3>4. QED
            BY <3>2, <3>3
    <2>2. QED
        BY Zenon, <1>4, <2>1 DEF BeginAccountRemoval, AccountComplete
<1>5. QED
    BY Zenon, <1>1, <1>2, <1>3, <1>4

-----------------------------------------------------------------------------
\* The inductive invariant: what each phase of a request (withSites,
\* validateLease, MarkRemoved, CompleteRemoval, WithAccountRemoval) relies on
\* holds whatever the other requests of the agent do.
THEOREM Inductive == Spec => []IndInv
<1>1. Init => IndInv
    <2> SUFFICES ASSUME Init PROVE IndInv
        BY Zenon
    <2>1. TypeOK
        BY DEF Init, TypeOK, PC
    <2>2. RecordsAreNamed /\ BindingsAreOwned
        BY Zenon DEF Init, RecordsAreNamed, BindingsAreOwned, Binding
    <2>3. \A p \in Proc : pc[p] = "idle" /\ values[p] = << >> /\ idx[p] = 1
        BY Zenon DEF Init
    <2>4. PhaseInv /\ LocksAreHeld
        BY <2>3 DEF PhaseInv, Phase, LocksAreHeld, Working, Leased
    <2>5. ValidatedInv /\ MarkedInv /\ CompletedInv
        BY Zenon, <2>3 DEF ValidatedInv, MarkedInv, CompletedInv, ValidatedAt, MarkedAt, CompletedAt, Leased
    <2>6. QED
        BY Zenon, <2>1, <2>2, <2>4, <2>5 DEF IndInv
<1>2. IndInv /\ [Next]_vars => IndInv'
    <2> SUFFICES ASSUME IndInv, [Next]_vars PROVE IndInv'
        BY Zenon
    <2>1. CASE UNCHANGED vars
        <3>1. TypeOK' /\ RecordsAreNamed'
            BY Zenon, <2>1 DEF vars, IndInv, TypeOK, RecordsAreNamed
        <3>2. PhaseInv'
            BY Zenon, <2>1, PhaseFrame DEF vars, IndInv, PhaseInv
        <3>3. LocksAreHeld'
            BY Zenon, <2>1, LocksFrame DEF vars, IndInv, TypeOK, LocksAreHeld
        <3>4. QED
            BY Zenon, <3>1, <3>2, <3>3, BindingsStep, ValidatedStep, MarkedStep, CompletedStep DEF IndInv
    <2>2. ASSUME NEW p \in Proc, Moves(p) PROVE IndInv'
        BY Zenon, <2>2, TypeStep, NamedStep, PhaseStep, LocksStep, BindingsStep, ValidatedStep,
           MarkedStep, CompletedStep DEF IndInv
    <2>3. QED
        BY Zenon, <2>1, <2>2 DEF Next, Moves
<1>3. QED
    BY <1>1, <1>2, PTL DEF Spec

\* Records, locks and requests stay well formed.
THEOREM TypeCorrect == Spec => []TypeOK
<1>1. IndInv => TypeOK
    BY Zenon DEF IndInv
<1>2. QED
    BY <1>1, Inductive, PTL

\* However many requests the agent serves, no two hold a lease on the same
\* website or hostname (withSites' sorted lock files).
THEOREM LeasesExclude == Spec => []LeaseExclusion
<1>1. IndInv => LeaseExclusion
    BY Zenon, Exclusion DEF IndInv, LeaseExclusion
<1>2. QED
    BY <1>1, Inductive, PTL

\* An ordinary operation works on active websites that own their hostnames,
\* from the end of validateLease to its own end.
THEOREM WorkIsOnLiveIdentities == Spec => []WorkOnLiveIdentity
<1>1. IndInv => WorkOnLiveIdentity
    <2> SUFFICES ASSUME IndInv, NEW p \in Proc, pc[p] \in {"lease", "work"},
                        call[p].mode \in {"existing", "create"},
                        NEW i \in DOMAIN values[p], NEW id, id = values[p][i]
                 PROVE  IF id.site = 0 THEN HostnameLive(id.domain)
                        ELSE /\ siteRec[id.site] # NoFile /\ siteRec[id.site].state = "active"
                             /\ Binding(id.domain).active = id.site
        BY Zenon DEF WorkOnLiveIdentity
    <2>1. Established(p, id)
        BY Zenon DEF IndInv, ValidatedInv, ValidatedAt, Leased
    <2>2. ~ResumesRemoval(p, siteRec[id.site])
        BY Zenon DEF ResumesRemoval
    <2>3. QED
        BY Zenon, <2>1, <2>2 DEF Established
<1>2. QED
    BY <1>1, Inductive, PTL

\* A hostname is only ever bound to a registered website of that hostname.
THEOREM BindingsStayOwned == Spec => []BindingsAreOwned
<1>1. IndInv => BindingsAreOwned
    BY Zenon DEF IndInv
<1>2. QED
    BY <1>1, Inductive, PTL

\* A tombstone never comes alive, changes its removal or loses a revision.
THEOREM TombstonesStayFinal == Spec => TombstonesAreFinal
<1> DEFINE Keep ==
      \A s \in Site : siteRec[s] # NoFile =>
          /\ siteRec'[s] # NoFile /\ siteRec'[s].identity = siteRec[s].identity
          /\ siteRec[s].state # "active" =>
               /\ siteRec'[s].state # "active"
               /\ siteRec'[s].op = siteRec[s].op /\ siteRec'[s].kind = siteRec[s].kind
               /\ siteRec'[s].rev >= siteRec[s].rev
<1>1. IndInv /\ [Next]_vars => [Keep]_vars
    BY Zenon, RecordsStep
<1>2. QED
    BY <1>1, Inductive, PTL DEF Spec, TombstonesAreFinal

\* A hostname changes hands only by being freed first, and only after the
\* cleanup of its website is complete (releaseRemovedBindings).
THEOREM HostnamesAreHandedOver == Spec => HostnameHandover
<1> DEFINE Handover ==
      \A d \in Domain : LET s == Binding(d).active IN
          s # 0 /\ Binding(d)'.active # s =>
             Binding(d)'.active = 0 /\ siteRec[s].state = "removed"
<1>1. IndInv /\ [Next]_vars => [Handover]_vars
    <2> SUFFICES ASSUME IndInv, [Next]_vars, NEW d \in Domain, Binding(d).active # 0,
                        Binding(d)'.active # Binding(d).active
                 PROVE  Binding(d)'.active = 0 /\ siteRec[Binding(d).active].state = "removed"
        BY Zenon
    <2>1. CASE domRec' = domRec
        BY Zenon, <2>1, BindingFrame
    <2>2. ASSUME NEW p \in Proc, Bind(p) PROVE FALSE
        BY Zenon, <2>2, BindEffect
    <2>3. ASSUME NEW p \in Proc, MarkDomain(p) PROVE FALSE
        BY Zenon, <2>3, MarkDomainEffect
    <2>4. ASSUME NEW p \in Proc, ReleaseBinding(p)
          PROVE  Binding(d)'.active = 0 /\ siteRec[Binding(d).active].state = "removed"
        <3>1. Binding(d).active = Id(p).site /\ Binding(d)'.active = 0
            BY Zenon, <2>4, ReleaseEffect
        <3>2. idx[p] \in DOMAIN values[p] /\ values[p][idx[p]].site = Id(p).site
            BY Zenon, <2>4, RemovalIdTyped DEF ReleaseBinding, IndInv
        <3>3. siteRec[values[p][idx[p]].site].state = "removed"
            BY Zenon, <2>4, <3>2 DEF ReleaseBinding, IndInv, CompletedInv, CompletedAt
        <3>4. QED
            BY Zenon, <3>1, <3>2, <3>3
    <2>5. QED
        BY Zenon, <2>1, <2>2, <2>3, <2>4, FileSteps DEF Register, MarkSite, CompleteSite
<1>2. QED
    BY <1>1, Inductive, PTL DEF Spec, HostnameHandover
-----------------------------------------------------------------------------
(* Waiting for lock files.  A request that waits holds only lock files that *)
(* come before the ones it misses (OrderInv), so that whoever holds the     *)
(* last lock file taken waits for a free one, or for none.                  *)

\* A set of numbers has a least one.
LEMMA LeastNumber ==
    ASSUME NEW T, T \subseteq Nat, T # {}
    PROVE  \E x \in T : \A y \in T : x <= y
<1> DEFINE Less == {ss \in Nat \X Nat : ss[1] < ss[2]}
<1>1. \E x \in T : \A y \in T : <<y, x>> \notin Less
    <2>1. IsWellFoundedOn(Less, Nat)
        BY NatLessThanWellFounded, Zenon DEF OpToRel
    <2> HIDE DEF Less
    <2>2. QED
        BY <2>1, WFMin, Zenon
<1>2. PICK x \in T : \A y \in T : <<y, x>> \notin Less
    BY <1>1, Zenon
<1>3. ASSUME NEW y \in T PROVE x <= y
    <2>1. x \in Nat /\ y \in Nat
        OBVIOUS
    <2>2. <<y, x>> \in Less <=> y < x
        BY <2>1, Zenon
    <2>3. QED
        BY <1>2, <2>1, <2>2, SMT
<1>4. QED
    BY <1>3, Zenon

\* The numbers that name a lock file.
LEMMA KeyNumbers ==
    ASSUME NEW k \in Key
    PROVE  k = <<k[1], k[2]>> /\ k[1] \in 0..2 /\ k[2] \in Nat
<1>1. k \in {0} \X Sub \/ k \in {1} \X Domain \/ k \in {2} \X Site
    BY Zenon DEF Key
<1>2. k = <<k[1], k[2]>> /\ k[1] \in {0, 1, 2} /\ k[2] \in Sub \cup Domain \cup Site
    BY ONLY <1>1, SMT
<1>3. Sub \cup Domain \cup Site \subseteq Nat
    BY Zenon, ConstantsAssumption
<1>4. QED
    BY ONLY <1>2, <1>3, SMT

\* The lock files of a set have a first one.
LEMMA FirstKey ==
    ASSUME NEW K, K \subseteq Key, K # {}
    PROVE  \E k \in K : \A j \in K : j # k => Before(k, j)
<1> DEFINE A == {k[1] : k \in K}
<1>1. A \subseteq Nat /\ A # {}
    BY KeyNumbers
<1>2. PICK a \in A : \A x \in A : a <= x
    BY Zenon, <1>1, LeastNumber
<1> DEFINE L == {k \in K : k[1] = a}
           B == {k[2] : k \in L}
<1>3. B \subseteq Nat /\ B # {}
    BY KeyNumbers
<1>4. PICK b \in B : \A x \in B : b <= x
    BY Zenon, <1>3, LeastNumber
<1>5. PICK k \in K : k[1] = a /\ k[2] = b
    OBVIOUS
<1>6. ASSUME NEW j \in K, j # k PROVE Before(k, j)
    <2>1. k = <<a, b>> /\ j = <<j[1], j[2]>> /\ j[1] \in Nat /\ j[2] \in Nat /\ a \in Nat /\ b \in Nat
        BY <1>5, KeyNumbers
    <2>2. a <= j[1] /\ (j[1] = a => b <= j[2])
        BY <1>2, <1>4
    <2>3. j[1] = a => j[2] # b
        BY <1>6, <2>1, Zenon
    <2>4. QED
        BY <1>5, <2>1, <2>2, <2>3 DEF Before
<1>7. QED
    BY <1>6

\* The lock files of a set without large numbers have a last one.
LEMMA LastKey ==
    ASSUME NEW K, K \subseteq Key, K # {}, NEW b \in Nat, \A k \in K : k[2] <= b
    PROVE  \E k \in K : \A j \in K : ~Before(k, j)
<1> DEFINE A == {2 - k[1] : k \in K}
<1>1. A \subseteq Nat /\ A # {}
    BY KeyNumbers
<1>2. PICK a \in A : \A x \in A : a <= x
    BY Zenon, <1>1, LeastNumber
<1> DEFINE L == {k \in K : 2 - k[1] = a}
           B == {b - k[2] : k \in L}
<1>3. B \subseteq Nat /\ B # {}
    BY KeyNumbers
<1>4. PICK c \in B : \A x \in B : c <= x
    BY Zenon, <1>3, LeastNumber
<1>5. PICK k \in K : 2 - k[1] = a /\ b - k[2] = c
    OBVIOUS
<1>6. ASSUME NEW j \in K PROVE ~Before(k, j)
    <2>1. /\ j[1] \in Nat /\ j[2] \in Nat /\ k[1] \in Nat /\ k[2] \in Nat
        BY KeyNumbers
    <2>2. a <= 2 - j[1] /\ (2 - j[1] = a => c <= b - j[2])
        BY <1>2, <1>4
    <2>3. QED
        BY <1>5, <2>1, <2>2 DEF Before
<1>7. QED
    BY <1>6

OrderInv ==
    \A p \in Proc :
        /\ pc[p] \in {"idle", "resolve"} => Held(p) = {}
        /\ pc[p] = "lock" => \A h \in Held(p), m \in Needed(p) \ Held(p) : Before(h, m)

\* Only so many lock files have been taken.
HeldBound == \E b \in Nat : \A k \in Key : lock[k] # NoProc => k[2] <= b

\* A step gives no lock file to another request, and takes none from it.
LEMMA OthersHold ==
    ASSUME TypeOK, NEW p \in Proc, NEW q \in Proc, q # p, Moves(q)
    PROVE  Held(p)' = Held(p)
<1>1. \A k \in Key : lock[k] = p => lock'[k] = p
    BY Zenon, LocksKept
<1>2. ASSUME NEW k \in Key, lock'[k] = p PROVE lock[k] = p
    <2>1. CASE Acquire(q)
        BY Zenon, <1>2, <2>1 DEF Acquire, TypeOK
    <2>2. CASE Finish(q) \/ Abort(q)
        BY Zenon, <1>2, <2>2, ConstantsAssumption DEF Finish, Abort, Return
    <2>3. CASE lock' = lock
        BY Zenon, <1>2, <2>3
    <2>4. QED
        BY Zenon, <2>1, <2>2, <2>3
           DEF Moves, Step, Start, Resolve, Locked, Validate, Register, Bind, Work, BeginMark,
               BeginComplete, BeginAccountRemoval, SkipMark, MarkSite, MarkDomain, AccountTornDown,
               CompleteSite, ReleaseBinding
<1>3. QED
    BY Zenon, <1>1, <1>2 DEF Held

\* After the locks are taken, a request never waits for one again.
LEMMA NoLabelBehind ==
    ASSUME TypeOK, NEW p \in Proc, Moves(p),
           ~Acquire(p), ~Finish(p), ~Abort(p), ~Resolve(p), ~\E r \in Request : Start(p, r)
    PROVE  pc'[p] \notin {"idle", "resolve", "lock"}
<1>1. CASE Validate(p) \/ Bind(p) \/ SkipMark(p) \/ MarkDomain(p) \/ CompleteSite(p) \/ ReleaseBinding(p)
    <2>1. PICK again \in PC \ {"idle", "resolve", "lock"}, after \in PC \ {"idle", "resolve", "lock"} :
              NextIdentity(p, again, after)
        BY Zenon, <1>1 DEF Validate, Bind, SkipMark, MarkDomain, CompleteSite, ReleaseBinding, PC
    <2>2. QED
        BY Zenon, <2>1, NextIdentityEffect
<1>2. CASE Locked(p) \/ Register(p) \/ Work(p) \/ BeginMark(p) \/ BeginComplete(p)
           \/ BeginAccountRemoval(p) \/ MarkSite(p) \/ AccountTornDown(p)
    BY Zenon, <1>2 DEF Locked, Register, Work, BeginMark, BeginComplete, BeginAccountRemoval, MarkSite,
                       AccountTornDown, Goto, TypeOK
<1>3. QED
    BY Zenon, <1>1, <1>2 DEF Moves, Step
\* The next lock file is missing and the first one missing.
LEMMA AcquireOrder ==
    ASSUME TypeOK, OrderInv, NEW p \in Proc, Acquire(p)
    PROVE  \A h \in Held(p)', m \in (Needed(p) \ Held(p))' : Before(h, m)
<1>1. PICK k \in Key : NextKey(p, k) /\ lock[k] = NoProc /\ lock' = [lock EXCEPT ![k] = p]
    BY Zenon DEF Acquire
<1>2. pc[p] = "lock" /\ values' = values
    BY Zenon DEF Acquire
<1>3. Needed(p)' = Needed(p)
    BY Zenon, <1>2 DEF Needed
<1>4. Held(p)' = Held(p) \cup {k}
    BY Zenon, <1>1 DEF Held, TypeOK
<1>5. QED
    BY Zenon, <1>1, <1>2, <1>3, <1>4 DEF OrderInv, NextKey

LEMMA OrderStep ==
    ASSUME TypeOK, OrderInv, NEW p \in Proc, Moves(p)
    PROVE  OrderInv'
<1> SUFFICES ASSUME NEW q \in Proc
             PROVE  /\ pc'[q] \in {"idle", "resolve"} => Held(q)' = {}
                    /\ pc'[q] = "lock" =>
                          \A h \in Held(q)', m \in (Needed(q) \ Held(q))' : Before(h, m)
    BY Zenon DEF OrderInv
<1>1. CASE q # p
    <2>1. pc'[q] = pc[q] /\ values'[q] = values[q]
        BY Zenon, <1>1, OtherUnmoved
    <2>2. Held(q)' = Held(q) /\ Needed(q)' = Needed(q)
        BY Zenon, <1>1, <2>1, OthersHold DEF Needed
    <2>3. QED
        BY Zenon, <2>1, <2>2 DEF OrderInv
<1>2. CASE q = p
    <2>1. CASE Acquire(p)
        <3>1. pc'[p] = "lock"
            BY Zenon, <2>1 DEF Acquire
        <3>2. QED
            BY Zenon, <1>2, <2>1, <3>1, AcquireOrder
    <2>2. CASE Finish(p) \/ Abort(p)
        <3>1. pc'[p] = "idle"
            BY Zenon, <2>2 DEF Finish, Abort, Return, Goto, TypeOK
        <3>2. Held(p)' = {}
            BY Zenon, <2>2, ConstantsAssumption DEF Finish, Abort, Return, Held
        <3>3. QED
            BY Zenon, <1>2, <3>1, <3>2
    <2>3. CASE Resolve(p) \/ \E r \in Request : Start(p, r)
        <3>1. pc[p] \in {"idle", "resolve"} /\ lock' = lock
            BY Zenon, <2>3 DEF Resolve, Start
        <3>2. Held(p)' = {}
            BY Zenon, <3>1 DEF OrderInv, Held
        <3>3. QED
            BY Zenon, <1>2, <3>2
    <2>4. QED
        BY Zenon, <1>2, <2>1, <2>2, <2>3, NoLabelBehind
<1>3. QED
    BY Zenon, <1>1, <1>2

LEMMA BoundStep ==
    ASSUME TypeOK, HeldBound, NEW p \in Proc, Moves(p)
    PROVE  HeldBound'
<1>1. PICK b \in Nat : \A k \in Key : lock[k] # NoProc => k[2] <= b
    BY Zenon DEF HeldBound
<1>2. CASE Acquire(p)
    <2>1. PICK k \in Key : lock' = [lock EXCEPT ![k] = p]
        BY Zenon, <1>2 DEF Acquire
    <2>2. \A j \in Key : lock'[j] # NoProc => j = k \/ lock[j] # NoProc
        BY Zenon, <2>1 DEF TypeOK
    <2>3. k[2] \in Nat
        BY KeyNumbers
    <2>4. PICK n \in Nat : k[2] <= n /\ b <= n
        BY <2>3
    <2>5. ASSUME NEW j \in Key, lock'[j] # NoProc PROVE j[2] <= n
        <3>1. j[2] \in Nat /\ (j = k \/ j[2] <= b)
            BY Zenon, <1>1, <2>2, <2>5, KeyNumbers
        <3>2. QED
            BY <2>4, <3>1
    <2>6. QED
        BY Zenon, <2>5 DEF HeldBound
<1>3. CASE Finish(p) \/ Abort(p)
    <2>1. \A j \in Key : lock'[j] # NoProc => lock[j] # NoProc
        BY Zenon, <1>3 DEF Finish, Abort, Return
    <2>2. QED
        BY Zenon, <1>1, <2>1 DEF HeldBound
<1>4. CASE lock' = lock
    BY Zenon, <1>1, <1>4 DEF HeldBound
<1>5. QED
    BY Zenon, <1>2, <1>3, <1>4
       DEF Moves, Step, Start, Resolve, Locked, Validate, Register, Bind, Work, BeginMark,
           BeginComplete, BeginAccountRemoval, SkipMark, MarkSite, MarkDomain, AccountTornDown,
           CompleteSite, ReleaseBinding

\* The argument: the holder of the last lock file that is taken cannot wait for
\* another one that is taken.
LEMMA LastHolderGoesOn ==
    ASSUME TypeOK, OrderInv, HeldBound
    PROVE  NoLockCycle
<1> SUFFICES ASSUME NEW p \in Proc, pc[p] = "lock",
                    \A q \in Proc : /\ pc[q] \in {"idle", "lock"}
                                    /\ pc[q] = "lock" => ~(Needed(q) \subseteq Held(q))
                                    /\ pc[q] = "lock" => \A k \in Key : ~(NextKey(q, k) /\ lock[k] = NoProc)
             PROVE  FALSE
    BY Zenon DEF NoLockCycle
<1>1. ASSUME NEW q \in Proc, pc[q] = "lock" PROVE \E k \in Key : NextKey(q, k) /\ lock[k] # NoProc
    <2>1. \A i \in DOMAIN values[q] : values[q][i] \in Identity
        <3>1. PICK s \in Seq(Identity) : s = values[q]
            BY Zenon DEF TypeOK
        <3>2. \A i \in DOMAIN s : s[i] \in Identity
            OBVIOUS
        <3>3. QED
            BY Zenon, <3>1, <3>2
    <2>2. Needed(q) \subseteq Key
        BY Zenon, <2>1, KeysTyped DEF Needed
    <2>3. PICK K : K = Needed(q) \ Held(q)
        BY Zenon
    <2>4. K \subseteq Key /\ K # {}
        BY Zenon, <1>1, <2>2, <2>3
    <2>5. PICK k \in K : \A j \in K : j # k => Before(k, j)
        BY Zenon, <2>4, FirstKey
    <2>6. NextKey(q, k) /\ k \in Key
        BY Zenon, <2>3, <2>4, <2>5 DEF NextKey
    <2>7. QED
        BY Zenon, <1>1, <2>6
<1>2. PICK H : H = {k \in Key : lock[k] # NoProc}
    BY Zenon
<1>3. H \subseteq Key /\ H # {}
    BY Zenon, <1>1, <1>2
<1>4. PICK b \in Nat : \A k \in H : k[2] <= b
    BY Zenon, <1>2 DEF HeldBound
<1>5. PICK h \in H : \A j \in H : ~Before(h, j)
    BY Zenon, <1>3, <1>4, LastKey
<1>6. PICK q \in Proc : lock[h] = q
    BY Zenon, <1>2 DEF TypeOK
<1>7. h \in Held(q)
    BY Zenon, <1>2, <1>6 DEF Held
<1>8. pc[q] = "lock"
    BY Zenon, <1>7 DEF OrderInv
<1>9. PICK k \in Key : NextKey(q, k) /\ lock[k] # NoProc
    BY Zenon, <1>1, <1>8
<1>10. Before(h, k)
    BY Zenon, <1>7, <1>8, <1>9 DEF OrderInv, NextKey
<1>11. QED
    BY Zenon, <1>2, <1>5, <1>9, <1>10

\* Requests that name websites in opposite orders never wait for each other in
\* a circle, however many there are: the lock files are taken in sorted order
\* (withSites).
THEOREM LocksNeverCycle == Spec => []NoLockCycle
<1>1. Init => OrderInv /\ HeldBound
    <2> SUFFICES ASSUME Init PROVE OrderInv /\ HeldBound
        BY Zenon
    <2>1. \A k \in Key : lock[k] = NoProc
        BY Zenon DEF Init
    <2>2. \A p \in Proc : Held(p) = {}
        BY Zenon, <2>1, ConstantsAssumption DEF Held
    <2>3. 0 \in Nat
        OBVIOUS
    <2>4. QED
        BY Zenon, <2>1, <2>2, <2>3 DEF OrderInv, HeldBound
<1>2. IndInv /\ OrderInv /\ HeldBound /\ [Next]_vars => OrderInv' /\ HeldBound'
    <2> SUFFICES ASSUME TypeOK, OrderInv, HeldBound, [Next]_vars PROVE OrderInv' /\ HeldBound'
        BY Zenon DEF IndInv
    <2>1. CASE UNCHANGED vars
        <3>1. pc' = pc /\ lock' = lock /\ values' = values
            BY Zenon, <2>1 DEF vars
        <3>2. \A p \in Proc : Held(p)' = Held(p) /\ Needed(p)' = Needed(p)
            BY Zenon, <3>1 DEF Held, Needed
        <3>3. HeldBound'
            BY Zenon, <3>1 DEF HeldBound
        <3>4. QED
            BY Zenon, <3>1, <3>2, <3>3 DEF OrderInv
    <2>2. QED
        BY Zenon, <2>1, OrderStep, BoundStep DEF Next, Moves
<1>3. IndInv /\ OrderInv /\ HeldBound => NoLockCycle
    BY Zenon, LastHolderGoesOn DEF IndInv
<1>4. QED
    BY <1>1, <1>2, <1>3, Inductive, PTL DEF Spec
=============================================================================
