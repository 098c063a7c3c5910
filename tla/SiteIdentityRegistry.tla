------------------------ MODULE SiteIdentityRegistry ------------------------
(***************************************************************************)
(* The root agent's registry of website identities                         *)
(* (internal/agent/ops/site_identity.go).                                  *)
(*                                                                         *)
(* Every agent operation that touches a website runs under a lease: the    *)
(* registry resolves the identities named by the request from their        *)
(* records WITHOUT locks, takes one file lock per subscription, hostname   *)
(* and website in a fixed order, validates each identity against the       *)
(* records (registering it where the mode allows that), and only then runs *)
(* the operation.  Removal turns a record into a tombstone and, when the   *)
(* cleanup is complete, gives the hostname free for another website.       *)
(*                                                                         *)
(* Records live in one file per website and one per hostname.  Each write  *)
(* is atomic, but two writes are two steps: the agent may fail or crash    *)
(* between them.                                                           *)
(***************************************************************************)
EXTENDS Integers, Sequences, FiniteSets

CONSTANTS
    Site,      \* website ids (positive); 0 stands for "not supplied"
    Sub,       \* subscription ids (positive); 0 stands for "not supplied"
    Domain,    \* hostnames, numbered in the order of their lock-file keys
    User,      \* system account names
    NoUser,    \* the empty account name
    Request,   \* the calls the registry may receive
    Proc,      \* the agent's request goroutines
    NoProc,    \* the holder of a free lock
    NoFile     \* what reading a record that does not exist returns

Mode == {"existing", "create", "remove", "account-remove"}

Identity == [site: Site \cup {0}, sub: Sub \cup {0}, user: User \cup {NoUser}, domain: Domain]

RecordState == {"active", "removing", "removed"}

SiteRecord == [identity: Identity, state: RecordState, op: Nat, rev: Nat, kind: {"site", "account"}]

DomainRecord == [active: Site \cup {0}, history: BOOLEAN]

\* A removal names its operation and revision, both positive; an account
\* removal is operation <subscription id>, revision 1, and names only
\* websites of that subscription.
ASSUME ConstantsAssumption ==
    /\ Site \subseteq Nat \ {0} /\ Sub \subseteq Nat \ {0} /\ Domain \subseteq Nat
    /\ NoUser \notin User /\ NoProc \notin Proc /\ NoFile \notin SiteRecord \cup DomainRecord
ASSUME RequestAssumption ==
    /\ Request \subseteq [mode: Mode, ids: Seq(Identity), op: Nat, rev: Nat]
    /\ \A r \in Request :
         /\ r.mode = "remove" => /\ r.op > 0 /\ r.rev > 0 /\ r.ids # << >>
                                 /\ \A i \in DOMAIN r.ids : r.ids[i].site \in Site
         /\ r.mode = "account-remove" =>
              /\ r.op \in Sub /\ r.rev = 1
              /\ \A i \in DOMAIN r.ids : r.ids[i].site \in Site /\ r.ids[i].sub = r.op

VARIABLES
    siteRec,   \* site-<id>.json
    domRec,    \* domain-<hash>.json
    lock,      \* who holds each lock file
    pc,        \* where each goroutine is
    call,      \* the request it serves
    values,    \* the identities as resolved so far
    idx        \* the loop index of the phase it is in

files == <<siteRec, domRec>>
vars  == <<siteRec, domRec, lock, pc, call, values, idx>>

Key == ({0} \X Sub) \cup ({1} \X Domain) \cup ({2} \X Site)

Before(j, k) == j[1] < k[1] \/ (j[1] = k[1] /\ j[2] < k[2])

NoRequest == [mode |-> "existing", ids |-> << >>, op |-> 0, rev |-> 0]

PC == {"idle", "resolve", "lock", "validate", "lease", "mark", "markDomain",
       "work", "complete", "release", "done"}

-----------------------------------------------------------------------------
(* Identities and the locks they need.                                     *)

compatibleIdentity(stored, supplied) ==
    /\ stored.domain = supplied.domain
    /\ supplied.site # 0 => stored.site = supplied.site
    /\ supplied.sub # 0 => stored.sub = supplied.sub
    /\ supplied.user # NoUser => stored.user = supplied.user

\* Two identities of one request name one hostname but different owners.
Conflicting(a, b) ==
    /\ a.domain = b.domain
    /\ \/ a.site # 0 /\ b.site # 0 /\ a.site # b.site
       \/ a.sub # 0 /\ b.sub # 0 /\ a.sub # b.sub
       \/ a.user # NoUser /\ b.user # NoUser /\ a.user # b.user

\* Mutant of IdentityKeys: the hostname's lock file is left out.
IdentityKeysNoHostname(id) ==
    (IF id.sub # 0 THEN {<<0, id.sub>>} ELSE {})
      \cup (IF id.site # 0 THEN {<<2, id.site>>} ELSE {})

IdentityKeys(id) ==
    {<<1, id.domain>>}
      \cup (IF id.sub # 0 THEN {<<0, id.sub>>} ELSE {})
      \cup (IF id.site # 0 THEN {<<2, id.site>>} ELSE {})

Needed(p) == UNION {IdentityKeys(values[p][i]) : i \in DOMAIN values[p]}

Held(p) == {k \in Key : lock[k] = p}

\* Mutant of NextKey: the lock files are taken in any order.
NextKeyUnsorted(p, k) == k \in Needed(p) \ Held(p)

\* The lock files are taken in sorted order: the next one is the least missing.
NextKey(p, k) ==
    /\ k \in Needed(p) \ Held(p)
    /\ \A j \in Needed(p) \ Held(p) : j # k => Before(k, j)

-----------------------------------------------------------------------------
Init ==
    /\ siteRec = [s \in Site |-> NoFile]
    /\ domRec = [d \in Domain |-> NoFile]
    /\ lock = [k \in Key |-> NoProc]
    /\ pc = [p \in Proc |-> "idle"]
    /\ call = [p \in Proc |-> NoRequest]
    /\ values = [p \in Proc |-> << >>]
    /\ idx = [p \in Proc |-> 1]

Goto(p, label) == pc' = [pc EXCEPT ![p] = label]

\* Return from withSites: the deferred unlocks release every lock file.
Return(p) ==
    /\ Goto(p, "idle")
    /\ lock' = [k \in Key |-> IF lock[k] = p THEN NoProc ELSE lock[k]]
    /\ values' = [values EXCEPT ![p] = << >>]
    /\ idx' = [idx EXCEPT ![p] = 1]
    /\ call' = [call EXCEPT ![p] = NoRequest]

\* Mutant of NextIdentity: the next phase starts one identity too early.
NextIdentityFromZero(p, again, after) ==
    IF idx[p] < Len(call[p].ids)
    THEN idx' = [idx EXCEPT ![p] = @ + 1] /\ Goto(p, again)
    ELSE idx' = [idx EXCEPT ![p] = 0] /\ Goto(p, after)

\* Advance the loop over the request's identities, which starts at phase
\* `again`; after the last one go on to phase `after`.
NextIdentity(p, again, after) ==
    IF idx[p] < Len(call[p].ids)
    THEN idx' = [idx EXCEPT ![p] = @ + 1] /\ Goto(p, again)
    ELSE idx' = [idx EXCEPT ![p] = 1] /\ Goto(p, after)

Id(p) == call[p].ids[idx[p]]

Current(p) == values[p][idx[p]]

-----------------------------------------------------------------------------
(* withSites: resolve, lock, validate.                                     *)

Start(p, r) ==
    /\ pc[p] = "idle"
    /\ call' = [call EXCEPT ![p] = r]
    /\ Goto(p, IF r.ids = << >> THEN "lock" ELSE "resolve")
    /\ UNCHANGED <<siteRec, domRec, lock, values, idx>>

\* The identity of a registered website replaces what the request supplied.
Resolved(id) ==
    IF id.site # 0 /\ siteRec[id.site] # NoFile THEN siteRec[id.site].identity ELSE id

Resolvable(p) ==
    /\ Id(p).site # 0 /\ siteRec[Id(p).site] # NoFile
          => compatibleIdentity(siteRec[Id(p).site].identity, Id(p))
    /\ \A i \in DOMAIN values[p] : ~Conflicting(values[p][i], Resolved(Id(p)))

\* The record is read before any lock is held.
Resolve(p) ==
    /\ pc[p] = "resolve"
    /\ Resolvable(p)
    /\ values' = [values EXCEPT ![p] = Append(@, Resolved(Id(p)))]
    /\ NextIdentity(p, "resolve", "lock")
    /\ UNCHANGED <<siteRec, domRec, lock, call>>

Acquire(p) ==
    /\ pc[p] = "lock"
    /\ \E k \in Key :
         /\ NextKey(p, k)
         /\ lock[k] = NoProc
         /\ lock' = [lock EXCEPT ![k] = p]
    /\ UNCHANGED <<siteRec, domRec, pc, call, values, idx>>

Locked(p) ==
    /\ pc[p] = "lock"
    /\ Needed(p) \subseteq Held(p)
    /\ Goto(p, IF values[p] = << >> THEN "lease" ELSE "validate")
    /\ UNCHANGED <<siteRec, domRec, lock, call, values, idx>>

\* readDomain, a missing file standing for the zero binding.
Binding(d) == IF domRec[d] = NoFile THEN [active |-> 0, history |-> FALSE] ELSE domRec[d]

MayRegister(p) == call[p].mode \in {"create", "remove", "account-remove"}

RemovalKind(p) == IF call[p].mode = "account-remove" THEN "account" ELSE "site"

\* Mutant of ResumesRemoval: the revision of the retry is not compared.
ResumesAnyRevision(p, rec) ==
    /\ call[p].mode \in {"remove", "account-remove"}
    /\ rec.op = call[p].op /\ rec.kind = RemovalKind(p)

\* A tombstone only answers to the removal that made it.
ResumesRemoval(p, rec) ==
    /\ call[p].mode \in {"remove", "account-remove"}
    /\ rec.op = call[p].op /\ call[p].rev >= rec.rev /\ rec.kind = RemovalKind(p)

\* Mutant of LegacyValid: the state of the hostname's owner is not read.
LegacyValidAnyOwner(id) ==
    /\ ~Binding(id.domain).history
    /\ LET owner == Binding(id.domain).active IN
         owner # 0 => /\ siteRec[owner] # NoFile
                      /\ compatibleIdentity(siteRec[owner].identity, id)

\* A request that knows only the hostname, from before websites had ids.
LegacyValid(id) ==
    /\ ~Binding(id.domain).history
    /\ LET owner == Binding(id.domain).active IN
         owner # 0 => /\ siteRec[owner] # NoFile
                      /\ siteRec[owner].state = "active"
                      /\ compatibleIdentity(siteRec[owner].identity, id)

\* Mutant of ValidAsIs: a creation is accepted although its website does not
\* own the hostname.
ValidAsIsUnbound(p, id) ==
    \/ id.site = 0 /\ LegacyValid(id)
    \/ /\ id.site # 0 /\ siteRec[id.site] # NoFile
       /\ compatibleIdentity(siteRec[id.site].identity, id)
       /\ IF siteRec[id.site].state = "active"
          THEN call[p].mode = "create" \/ Binding(id.domain).active = id.site
          ELSE ResumesRemoval(p, siteRec[id.site])

\* The conditions under which validateLease accepts an identity as it stands,
\* without a write.
ValidAsIs(p, id) ==
    \/ id.site = 0 /\ LegacyValid(id)
    \/ /\ id.site # 0 /\ siteRec[id.site] # NoFile
       /\ compatibleIdentity(siteRec[id.site].identity, id)
       /\ IF siteRec[id.site].state = "active"
          THEN Binding(id.domain).active = id.site
          ELSE ResumesRemoval(p, siteRec[id.site])

CanRegister(p, id) ==
    /\ id.site # 0 /\ siteRec[id.site] = NoFile /\ MayRegister(p)
    /\ id.sub # 0 /\ id.user # NoUser
    /\ Binding(id.domain).active \in {0, id.site}

CanBind(p, id) ==
    /\ id.site # 0 /\ siteRec[id.site] # NoFile /\ MayRegister(p)
    /\ compatibleIdentity(siteRec[id.site].identity, id)
    /\ siteRec[id.site].state = "active"
    /\ Binding(id.domain).active = 0

Validate(p) ==
    /\ pc[p] = "validate"
    /\ ValidAsIs(p, Current(p))
    /\ NextIdentity(p, "validate", "lease")
    /\ UNCHANGED <<siteRec, domRec, lock, call, values>>

\* First of validateLease's two writes: the new website's record.
Register(p) ==
    /\ pc[p] = "validate"
    /\ CanRegister(p, Current(p))
    /\ siteRec' = [siteRec EXCEPT ![Current(p).site] =
                     [identity |-> Current(p), state |-> "active", op |-> 0, rev |-> 0, kind |-> "site"]]
    /\ UNCHANGED <<domRec, lock, pc, call, values, idx>>

\* The second: the hostname is bound to it.
Bind(p) ==
    /\ pc[p] = "validate"
    /\ CanBind(p, Current(p))
    /\ domRec' = [domRec EXCEPT ![Current(p).domain] =
                    [active |-> Current(p).site, history |-> Binding(Current(p).domain).history]]
    /\ NextIdentity(p, "validate", "lease")
    /\ UNCHANGED <<siteRec, lock, call, values>>

-----------------------------------------------------------------------------
(* What runs under the lease.                                              *)

\* WithSites and WithCreation run the operation.
Work(p) ==
    /\ pc[p] = "lease"
    /\ call[p].mode \in {"existing", "create"}
    /\ Goto(p, "work")
    /\ UNCHANGED <<siteRec, domRec, lock, call, values, idx>>

\* A nested lease only narrows the outer one, so a removal calls MarkRemoved
\* and CompleteRemoval under the locks it already holds.
BeginMark(p) ==
    /\ pc[p] = "lease"
    /\ call[p].mode = "remove"
    /\ Goto(p, "mark")
    /\ UNCHANGED <<siteRec, domRec, lock, call, values, idx>>

BeginComplete(p) ==
    /\ pc[p] = "lease"
    /\ call[p].mode = "remove"
    /\ Goto(p, "complete")
    /\ UNCHANGED <<siteRec, domRec, lock, call, values, idx>>

\* An account removal whose websites are all tombstones only frees hostnames.
AccountComplete(p) ==
    /\ call[p].ids # << >>
    /\ \A i \in DOMAIN call[p].ids :
         LET s == call[p].ids[i].site IN siteRec[s] # NoFile /\ siteRec[s].state = "removed"

\* Mutant of BeginAccountRemoval: a finished removal repeats the cleanup.
BeginAccountRemovalRepeats(p) ==
    /\ pc[p] = "lease"
    /\ call[p].mode = "account-remove"
    /\ Goto(p, IF AccountComplete(p) \/ call[p].ids = << >> THEN "work" ELSE "mark")
    /\ UNCHANGED <<siteRec, domRec, lock, call, values, idx>>

BeginAccountRemoval(p) ==
    /\ pc[p] = "lease"
    /\ call[p].mode = "account-remove"
    /\ Goto(p, IF AccountComplete(p) THEN "release"
               ELSE IF call[p].ids = << >> THEN "work" ELSE "mark")
    /\ UNCHANGED <<siteRec, domRec, lock, call, values, idx>>

\* MarkRemoved leaves a finished tombstone alone; WithAccountRemoval does not.
SkipMark(p) ==
    /\ pc[p] = "mark" /\ call[p].mode = "remove"
    /\ siteRec[Id(p).site] # NoFile
    /\ siteRec[Id(p).site].state = "removed" /\ ResumesRemoval(p, siteRec[Id(p).site])
    /\ NextIdentity(p, "mark", "work")
    /\ UNCHANGED <<siteRec, domRec, lock, call, values>>

MarkSite(p) ==
    LET rec == siteRec[Id(p).site] IN
    /\ pc[p] = "mark"
    /\ rec # NoFile
    /\ call[p].mode = "remove" =>
         rec.state = "active" \/ (rec.state = "removing" /\ ResumesRemoval(p, rec))
    /\ siteRec' = [siteRec EXCEPT ![Id(p).site] =
                     [identity |-> rec.identity, state |-> "removing",
                      op |-> call[p].op, rev |-> call[p].rev, kind |-> RemovalKind(p)]]
    /\ Goto(p, "markDomain")
    /\ UNCHANGED <<domRec, lock, call, values, idx>>

MarkDomain(p) ==
    /\ pc[p] = "markDomain"
    /\ domRec[Id(p).domain] # NoFile
    /\ domRec' = [domRec EXCEPT ![Id(p).domain] = [active |-> @.active, history |-> TRUE]]
    /\ NextIdentity(p, "mark", "work")
    /\ UNCHANGED <<siteRec, lock, call, values>>

\* teardownSubscription has returned; the records become final tombstones.
AccountTornDown(p) ==
    /\ pc[p] = "work"
    /\ call[p].mode = "account-remove"
    /\ Goto(p, IF call[p].ids = << >> THEN "done" ELSE "complete")
    /\ UNCHANGED <<siteRec, domRec, lock, call, values, idx>>

CompleteSite(p) ==
    LET rec == siteRec[Id(p).site] IN
    /\ pc[p] = "complete"
    /\ rec # NoFile
    /\ call[p].mode = "remove" => rec.op = call[p].op /\ rec.state # "active"
    /\ siteRec' = [siteRec EXCEPT ![Id(p).site] =
                     [identity |-> rec.identity, state |-> "removed",
                      op |-> rec.op, rev |-> rec.rev, kind |-> rec.kind]]
    /\ NextIdentity(p, "complete", "release")
    /\ UNCHANGED <<domRec, lock, call, values>>

\* Mutant of ReleaseBinding: the hostname is freed whoever owns it.
ReleaseAnyBinding(p) ==
    /\ pc[p] = "release"
    /\ domRec[Id(p).domain] # NoFile
    /\ domRec' = [domRec EXCEPT ![Id(p).domain] = [active |-> 0, history |-> TRUE]]
    /\ NextIdentity(p, "release", "done")
    /\ UNCHANGED <<siteRec, lock, call, values>>

\* releaseRemovedBindings frees the hostname only where it is still this
\* website's: a replacement may have claimed it since.
ReleaseBinding(p) ==
    /\ pc[p] = "release"
    /\ domRec[Id(p).domain] # NoFile
    /\ domRec' = [domRec EXCEPT ![Id(p).domain] =
                    [active |-> IF @.active = Id(p).site THEN 0 ELSE @.active, history |-> TRUE]]
    /\ NextIdentity(p, "release", "done")
    /\ UNCHANGED <<siteRec, lock, call, values>>

Finish(p) ==
    /\ \/ pc[p] = "work" /\ call[p].mode # "account-remove"
       \/ pc[p] = "done"
       \/ pc[p] = "lease" /\ call[p].mode = "remove"
    /\ Return(p)
    /\ UNCHANGED files

\* An invalid identity, an I/O error, the caller's cancellation or a crash of
\* the agent: the locks are released wherever the request had got to.
Abort(p) ==
    /\ pc[p] # "idle"
    /\ Return(p)
    /\ UNCHANGED files

Step(p) ==
    \/ Resolve(p) \/ Acquire(p) \/ Locked(p) \/ Validate(p) \/ Register(p) \/ Bind(p)
    \/ Work(p) \/ BeginMark(p) \/ BeginComplete(p) \/ BeginAccountRemoval(p)
    \/ SkipMark(p) \/ MarkSite(p) \/ MarkDomain(p) \/ AccountTornDown(p)
    \/ CompleteSite(p) \/ ReleaseBinding(p) \/ Finish(p) \/ Abort(p)

Next == \E p \in Proc : Step(p) \/ \E r \in Request : Start(p, r)

Spec == Init /\ [][Next]_vars

-----------------------------------------------------------------------------
(* Properties.                                                             *)

\* Type invariant of the record files, the lock files and the requests.
TypeOK ==
    /\ siteRec \in [Site -> SiteRecord \cup {NoFile}]
    /\ domRec \in [Domain -> DomainRecord \cup {NoFile}]
    /\ lock \in [Key -> Proc \cup {NoProc}]
    /\ pc \in [Proc -> PC]
    /\ call \in [Proc -> Request \cup {NoRequest}]
    /\ values \in [Proc -> Seq(Identity)]
    /\ idx \in [Proc -> Nat \ {0}]

Leased == {"lease", "mark", "markDomain", "work", "complete", "release", "done"}

Working == {"validate"} \cup Leased

\* Two requests never hold a lease on the same website or the same hostname,
\* although both read the records that name their locks before locking
\* (withSites: unlocked readSite, then the sorted lock files).
LeaseExclusion ==
    \A p, q \in Proc : p # q /\ pc[p] \in Working /\ pc[q] \in Working =>
        \A i \in DOMAIN values[p], j \in DOMAIN values[q] :
            /\ values[p][i].domain # values[q][j].domain
            /\ values[p][i].site # 0 => values[p][i].site # values[q][j].site

\* The hostname was never given up by a removal, and its owner is active.
HostnameLive(d) ==
    /\ ~Binding(d).history
    /\ LET owner == Binding(d).active IN
         owner # 0 => siteRec[owner] # NoFile /\ siteRec[owner].state = "active"

\* While an ordinary operation runs, every website it names is active and owns
\* its hostname, and a hostname it names without an id was never removed and
\* belongs to no inactive website: no removal passes between validateLease and
\* the end of the work.
WorkOnLiveIdentity ==
    \A p \in Proc : pc[p] \in {"lease", "work"} /\ call[p].mode \in {"existing", "create"} =>
        \A i \in DOMAIN values[p] :
            LET id == values[p][i] IN
            IF id.site = 0 THEN HostnameLive(id.domain)
            ELSE /\ siteRec[id.site] # NoFile /\ siteRec[id.site].state = "active"
                 /\ Binding(id.domain).active = id.site

\* A hostname is only ever bound to a registered website of that hostname.
BindingsAreOwned ==
    \A d \in Domain : LET s == Binding(d).active IN
        s # 0 => siteRec[s] # NoFile /\ siteRec[s].identity.domain = d

\* While the teardown of an account runs, every hostname it cleans up is still
\* bound to the website it removes, never to a replacement (WithAccountRemoval:
\* "Its replay cannot repeat hostname-based cleanup").
AccountCleanupOwnsHostnames ==
    \A p \in Proc : pc[p] = "work" /\ call[p].mode = "account-remove" =>
        \A i \in DOMAIN call[p].ids :
            /\ siteRec[call[p].ids[i].site].state = "removing"
            /\ Binding(call[p].ids[i].domain).active = call[p].ids[i].site

\* Waiting for lock files never becomes circular: when a request waits, some
\* request can take its next lock file or has all it needs.
NoLockCycle ==
    (\E p \in Proc : pc[p] = "lock") =>
        \E q \in Proc :
            \/ pc[q] \notin {"idle", "lock"}
            \/ pc[q] = "lock" /\ Needed(q) \subseteq Held(q)
            \/ pc[q] = "lock" /\ \E k \in Key : NextKey(q, k) /\ lock[k] = NoProc

\* A tombstone is final: it never becomes an active website again, never moves
\* to another removal and never loses a revision.
TombstonesAreFinal ==
    [][\A s \in Site : siteRec[s] # NoFile =>
          /\ siteRec'[s] # NoFile /\ siteRec'[s].identity = siteRec[s].identity
          /\ siteRec[s].state # "active" =>
               /\ siteRec'[s].state # "active"
               /\ siteRec'[s].op = siteRec[s].op /\ siteRec'[s].kind = siteRec[s].kind
               /\ siteRec'[s].rev >= siteRec[s].rev]_vars

\* A hostname passes from one website to another only through being free, and
\* is freed only when its website is completely removed.
HostnameHandover ==
    [][\A d \in Domain : LET s == Binding(d).active IN
          s # 0 /\ Binding(d)'.active # s =>
             Binding(d)'.active = 0 /\ siteRec[s].state = "removed"]_vars

-----------------------------------------------------------------------------
(* The inductive invariant behind the safety properties: what each phase   *)
(* of a request knows about its locks, its identities and their records.   *)

RecordsAreNamed ==
    \A s \in Site : siteRec[s] # NoFile => siteRec[s].identity.site = s

\* The loops stay inside the request, and resolving an identity changes
\* neither its hostname nor the website it names.
Phase(p) ==
    /\ pc[p] = "idle" => values[p] = << >>
    /\ pc[p] = "resolve" => Len(values[p]) = idx[p] - 1
    /\ pc[p] \in {"idle", "lock", "lease", "work", "done"} => idx[p] = 1
    /\ pc[p] \in {"lock"} \cup Working => Len(values[p]) = Len(call[p].ids)
    /\ pc[p] \in {"resolve", "validate", "mark", "markDomain", "complete", "release"} =>
         idx[p] <= Len(call[p].ids)
    /\ pc[p] \in {"mark", "markDomain", "complete", "release", "done"} =>
         call[p].mode \in {"remove", "account-remove"}
    /\ pc[p] # "idle" => call[p] \in Request
    /\ \A i \in DOMAIN values[p] :
         /\ i <= Len(call[p].ids)
         /\ values[p][i].domain = call[p].ids[i].domain
         /\ values[p][i].site = call[p].ids[i].site

PhaseInv == \A p \in Proc : Phase(p)

\* From validation on a request holds the locks of all its identities.
LocksAreHeld ==
    \A p \in Proc : pc[p] \in Working =>
        \A i \in DOMAIN values[p] : \A k \in IdentityKeys(values[p][i]) : lock[k] = p

\* What validateLease has established for one identity of a request.
Established(p, id) ==
    /\ id.site = 0 => HostnameLive(id.domain)
    /\ id.site # 0 =>
         /\ siteRec[id.site] # NoFile
         /\ siteRec[id.site].identity.domain = id.domain
         /\ siteRec[id.site].state = "active" => Binding(id.domain).active = id.site
         /\ siteRec[id.site].state # "active" => ResumesRemoval(p, siteRec[id.site])

ValidatedAt(p, i) == pc[p] \in Leased \/ (pc[p] = "validate" /\ i < idx[p])

ValidatedInv ==
    \A p \in Proc : \A i \in DOMAIN values[p] :
        ValidatedAt(p, i) => Established(p, values[p][i])

\* A removal works only after every record it names has left "active".
MarkedAt(p, i) ==
    /\ call[p].mode \in {"remove", "account-remove"}
    /\ \/ pc[p] \in {"mark", "markDomain"} /\ i < idx[p]
       \/ pc[p] = "markDomain" /\ i = idx[p]
       \/ pc[p] = "work"
       \/ pc[p] = "complete" /\ call[p].mode = "account-remove"

MarkedInv ==
    \A p \in Proc : \A i \in DOMAIN values[p] :
        MarkedAt(p, i) =>
            siteRec[values[p][i].site] # NoFile /\ siteRec[values[p][i].site].state # "active"

\* Hostnames are freed only after every record of the removal is final.
CompletedAt(p, i) == pc[p] \in {"release", "done"} \/ (pc[p] = "complete" /\ i < idx[p])

CompletedInv ==
    \A p \in Proc : \A i \in DOMAIN values[p] :
        CompletedAt(p, i) =>
            siteRec[values[p][i].site] # NoFile /\ siteRec[values[p][i].site].state = "removed"

IndInv ==
    /\ TypeOK /\ RecordsAreNamed /\ PhaseInv /\ LocksAreHeld
    /\ BindingsAreOwned /\ ValidatedInv /\ MarkedInv /\ CompletedInv
=============================================================================
