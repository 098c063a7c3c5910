# TLA+ models of nakpanel

nakpanel is a hosting control panel in two processes. The **control plane** is
unprivileged: a web interface, a provisioning API and a durable job queue
(River) over PostgreSQL. The **root agent** owns the host and serves requests over
a local socket. Desired state is written to PostgreSQL in a transaction that also
queues a job; the job reads the desired state, calls the agent and records what
happened. Jobs run at least once, overlap, die with their process and are
rescued; agent calls fail, lose their answer or are served after their caller has
gone. The models are about what has to stay true in spite of that.

Paths below are relative to the repository. `PROJECT.json` maps each
definition to the lines it models and lists every run, mutant, hazard and theorem.

## Parts of the system

| Part | State | Operations | Module |
| --- | --- | --- | --- |
| Website identity registry (agent), `internal/agent/ops/site_identity.go` | one record file per website and per hostname, lock files | lease, register, bind, mark for removal, complete, release | `SiteIdentityRegistry` |
| Website removal (agent), `internal/agent/ops/teardown_site*.go` | journal per operation, the host | four stages, checkpoints, finalization | `SiteTeardown` |
| Website removal (control plane), `internal/control/provision/site_removal_*.go`, `site_job_fence.go` | operation row, removal state of the website, jobs | approve, retry, drain, fence, drive stages, converge, finalize, sweep | `SiteRemoval` |
| What the agent promises about a removal | revision, finished stages | begin, perform a stage | `RemovalAgent` (abstract) |
| Mail import, `internal/control/mailimport` | import row, ledger of messages, credentials, archive, jobs | preview, prepare, start, pause, resume, cancel, expire, copy, verify | `MailImport` |
| Account convergence and purge, `internal/control/quota`, `internal/control/provisioningapi` | subscription, customer, billing account, desired and applied revision, runtime generations, jobs | status and plan changes, converge, acknowledge, sweep, purge | `AccountConvergence` |
| Staged firewall changes, `internal/control/serveradmin`, `internal/agent/ops/security_stage_phase26.go`, `server_security_phase26.go` | operation rows and jobs, stage records, the managed file, the table in the kernel | stage, apply, confirm, revert, recover when due | `FirewallStage` |
| Releases of managed PHP applications, `internal/control/phpapp`, `internal/agent/ops/php_application.go` | application and deployment rows, jobs, release directories, marker, what the web server runs | configure, deploy, roll back, reconcile, sweep, build, activate, undo, prune | `PHPRelease` |

How they interact: `SiteTeardown` extends `SiteIdentityRegistry`, because every
stage runs under a lease of the registry, and implements both it (`RegistrySpec`)
and `RemovalAgent` (`AgentSpec`). `SiteRemoval` extends `RemovalAgent`: the
control plane is checked against the promise, the agent against keeping it.

## Conventions

- A worker, request or job has a program counter `pc`; one action is one step that
  other processes can observe in part: one transaction, one file write, one agent
  call. `Abort`, `Crash`, `...Fails` are the error paths.
- Counters are capped by named constants (`MaxRev`, `MaxRequests`, `MaxFaults`,
  `MaxCleans`, `MaxLate`, `MaxAdmins`). `MaxFaults` bounds how often something fails in one behaviour; a
  run whose question depends on exhausted attempts has at least as many faults
  as a job has attempts.
- Attempts: `mail_import` jobs have the three the code gives them; two stand for
  the three of `remove_site` and the five of the PHP jobs, one or two for River's
  default of 25 in `AccountConvergence` and the ten of the purge. The code tests
  only whether attempts are left.
- Every property has a mutant: a changed guard or assignment, defined next to the
  original and marked "Mutant of", under which TLC finds that property violated.

## SiteIdentityRegistry

Every agent operation on a website runs under a lease (`withSites`). A request
resolves its identities from the record files **without locks** (`Resolve`), takes
the lock files of subscription, hostname and website in sorted order (`Acquire`,
`Locked`), and validates each identity against the records it can now trust
(`Validate`, with `Register` and `Bind` for creations and removals). A removal
makes tombstones first (`MarkSite`, `MarkDomain`), works, makes them final
(`CompleteSite`) and frees the hostnames (`ReleaseBinding`). `siteRec` and `domRec`
are the record files, `lock` the lock files, `pc`, `call`, `values`, `idx` the local
state of a goroutine. Each file write is a step, and `Abort` may fall between
any two. A record file is a record or missing: decoding and permissions are
abstracted.

| Run | Instance | Shows |
| --- | --- | --- |
| `registry` | 3 websites, 2 hostnames, 3 requests at once: two revisions of a removal, an account removal, a legacy request without id, opposite lock orders (582,591 states) | `LeaseExclusion`, `WorkOnLiveIdentity`, `AccountCleanupOwnsHostnames`, `NoLockCycle`, `TombstonesAreFinal`, `HostnameHandover` |

One hostname is where websites collide; the second is needed for lock order.
Three goroutines let a third request pass between two that wait. Goroutines are
interchangeable, so the run uses symmetry.

## SiteTeardown

`TeardownSite` serves one stage of a removal: it looks at the journal without a
lease (`StartTeardown`), leases the websites, reads the journal again
(`BeginStage`, `AlreadyDone`), raises its revision, removes the items of the stage
one by one with a checkpoint after each, and records the stage. `finalize`
makes the tombstones final, frees the hostnames and completes the journal. What
is removed is found by *hostname*, which may belong to a replacement by the time
a late request arrives; the model keeps what lies on the host as
`<<hostname, website, item>>` to tell the two apart.

| Run | Instance | Shows |
| --- | --- | --- |
| `teardown` | any stage of two revisions, 2 requests at once, creation, use by a certificate request, replacement, an account removal (257,444 states) | `StageOwnsHostnames`, `FinishedRemovalIsClean`, `OnlyTargetsAreRemoved`; refinement of the registry (`RegistrySpec`) and of `RemovalAgent` (`AgentSpec`) |

Content is four kinds of item, one per checkpointed group; ordinary operations
leave only files in the run, since a removal treats all items alike (the removal of an
account leaves mail to a later job, see "What is proved"). Path checks,
archive verification and service discovery are preconditions that may fail.

## SiteRemoval

`Request` approves a removal, `Retry` starts a new revision of a failed one. A
`remove_site` job takes the operation's advisory lock (`TryLock`), reads the
operation, cancels and counts the website's other jobs (`CancelTasks`,
`CountTasks`, `Wait`), drives the four stages (`EnterStage`, `CallAgent`,
`RecordStage`), converges the shared services before finalization (`PrepareDNS`,
`Converge`, `RecordConverged`) and deletes the rows (`Finalize`). Other jobs pass a
fence that reads the removal state (`FenceTask`). The sweep reads operations, looks
for a live job, looks at the latest one, and fails or queues (`SweepRead` to
`SweepInsert`), each a query of its own. `ServeLate` is an agent request nobody
waits for.

| Run | Instance | Shows |
| --- | --- | --- |
| `removal` | 2 workers, another job, 2 sweeps at once, 1 retry, 2 attempts, 2 faults (1,478,211 states) | `TeardownIsAlone`, `RowsOutliveTheHost`, `FailedUntilRetried`, `StaleVerdictsAreHarmless` |
| `removal_completes` | 1 worker, another job, a sweep, 3 revisions, 2 attempts, 2 faults, fair, operator retries (423,801 states) | `RemovalCompletes` |

The faults of both runs use up the attempts of a job. Fairness (`RFairness`): started steps
end because calls and statements have deadlines; River's rescuer and the minute
sweep are periodic; fetching is strongly fair because a job waits while all
slots are busy and River takes the oldest first. `RetriedSpec` adds an
operator who retries, for `removal_completes` only.

The tree of websites of one operation is one row: they change in the same
transactions. River deletes finished jobs a day or more after their end, so `Clean`
does not fall between two queries of one sweep; if it did, two overlapping
sweeps could move a failed operation to `waiting` (`site_removal_jobs.go:79`).

## MailImport

The intake: `Preview`, `PrepareOpen`, `PrepareDiscover`, `MapFolders`, `Start`,
`Pause`, `Resume`, `Cancel`, `ExpirePreviews`, each with the revision it moves. The
run (`Engine.Run`): the job takes the import's advisory lock, checks again and
again that its revision is current, scans the source twice, and settles the
messages one by one. A message is marked `appending` before it is sent
(`MarkAppending`), the state is checked once more (`Recheck`), then it is sent
(`Append`). A message found `appending` is looked up by the receipt it carries
(`FindReceipt`) and never sent again. `flying` holds appends whose answer was lost
and which may still arrive (`Arrives`).

| Run | Instance | Shows |
| --- | --- | --- |
| `import` | 2 messages in 2 folders, 2 jobs, 3 revisions, 1 fault, fair (286,644 states) | `NoMessageTwice`, `LedgerIsTrue`, `CompleteIsExact`, `CredentialsOutliveTheImport`, `StoppedStaysStopped`, `RunsEnd`, `FinishedIsDisposed` |
| `import_pause` | 1 message, no faults | violates `PauseLeavesNoDoubt` (finding 1) |

One fault is a lost answer, a refused append, a crash or a failing server at any
step, and three revisions are a pause and a resume; the same instance with two
faults passes as well (971,611 states). Fairness (`IFairness`) is that of the
queue and of a running job; nothing is assumed of the operator, of the expiry
sweep, of an unanswered append or of the policy that allows the import (`RunsEnd`
is about imports that stay allowed). Both liveness properties except a job that used up its attempts: then the operator has
to act. Message content is compared by an outcome; TLS and Maildir parsing are
left out.

## AccountConvergence

One subscription. Each change of the intent (`PanelStatus`, `LifecycleApply`,
`SetCustomer`, `ChangePlan`) raises `desired_revision` and queues a
`converge_subscription` job in its transaction (`Enqueue`). A job takes the
subscription's in-process mutex (`Lock`), reads revision and state in one
statement and the rest in later ones (`LoadAccount`, `LoadContent`), stops the cache
of a suspended account, records candidate generations (`Prepare`), calls the agent
(`Ensure`), activates the generations, sets up the services and acknowledges what
it read if that is still the desired revision (`Mark`). The minute sweep queues
pending accounts again (`SweepRead`, `SweepInsert`). A purge cancels the
subscription and queues a teardown job, which refuses while other jobs run,
cancels the queued ones, checks again, calls the agent and deletes the rows
(`Purge`, `TdStart` to `TdFinish`). The agent calls after `Ensure` are one step.

| Run | Instance | Shows |
| --- | --- | --- |
| `account_convergence` | 2 plans, 3 revisions, 1 fault, an abandoned call (3,054,201 states) | `AckedIsApplied`, `PurgeIsFinal` |
| `account_settles` | 2 revisions, 2 attempts of each job, 2 faults, an abandoned call, fair (968,255 states) | `ConvergenceSettles` |
| `account_purge` | 2 revisions, no faults | violates `PurgedStaysPurged` (finding 2) |

Three revisions are needed for an old job to run between the reading and the
acknowledgement of a newer one. Plans are interchangeable: a symmetry for
`account_convergence`, while the liveness run, where TLC's symmetry is not sound,
names the plan the account starts with (`FirstPlanSpec`). With two attempts of the
purge `account_convergence` passes as well (5,165,073 states).
Fairness (`AFairness`): River starts, retries and rescues jobs, and the sweep is a periodic job; operators, requests and faults are free.

Limits of these results:

- One panel process: the mutex is in its memory. Two processes would need another
  argument.
- `AckedIsApplied` has an exception. The agent does not compare revisions, so a call
  that outlives its job (`EnsureAbandoned`, `ServeLate`) can put an older intent on the
  host while or after a newer one is acknowledged, and nothing corrects it before the
  next change. The history field `host.stray` marks a host in this state, until a job sets
  the website up again; without the exception TLC finds the counterexample. A late
  teardown call is no exception: nothing is acknowledged by then.
- `ConvergenceSettles` is about accounts that are not being purged. During a purge
  the mutation gate may refuse the job's writes; the job then leaves `pending`, the
  sweep queues it again, and whether one of the ten attempts of the teardown finds
  no job running is a matter of time, which the model does not have.
- The initial state is a provisioned, migrated account. The creation of accounts,
  its finalizer and other subscriptions of the customer are not modelled.

## FirewallStage

A change of the managed nftables table is an operation. The panel's worker sends
it to the agent (`BeginWork`, `EndWork`); an administrator confirms or reverts it
with calls that do not pass through the queue (`Send`, `Receive`). The agent works
under one mutex: it writes a stage directory and then its record (`MakeDirectory`,
`WriteRecord`), keeps the file it found, checks, installs and loads the candidate
(`Check`, `Install`, `Activate`, `Health`), undoes a failed activation (`Undo`), and
rolls back a stage that failed, that was reverted, or whose deadline has passed
(`BeginRollback`, `RestorePrevious`, `CompleteRollback`; `Recover` is the timer). A
configuration is named by the operation that staged it. `late` holds calls whose
caller has gone and which the agent still serves.

The file that `RenderNftablesPolicy` writes is a bare `table inet nakpanel { ... }`
block (`security_policy_phase26.go:113-152`), and both the applier and `restore` load it
with `nft -f` and nothing before it (`server_security_phase26.go:339`, `:363`). Such a
load sets the policy of the chains that exist and **adds** the rules of the file to
theirs; only the removal of a first configuration deletes the table. So the kernel is
modelled by `policy`, the configuration loaded last, and `rules`, the set of those whose
rules are in the table (`Load`, `RestoreTable`).

| Run | Instance | Shows |
| --- | --- | --- |
| `firewall` | 2 operations, 1 administrator at a time, 1 fault of any kind, fair (894,542 states) | `VerdictsAreTrue`, `UnconfirmedIsUndone`, `StagesSettle` |

Two operations are needed for one to snapshot the candidate of the other, one
fault for each way to cut a stage, an apply or a rollback short. Fairness
(`FFairness`): started agent steps end, deadlines pass, and the recovery timer is
strongly fair, because Go's mutex hands itself to a waiter that has waited for a
millisecond, so requests that keep coming cannot keep the timer out. Nothing is
assumed of the panel and its administrators.

`UnconfirmedIsUndone` is about the file, the policy and the rules. Three exceptions
are written into it, and without any of them TLC finds a counterexample:

- a second stage that takes the unconfirmed candidate of the first for its previous
  file puts it back when it is rolled back (`server_security_phase26.go:89`);
- `restore` takes any failing `nft list` for a missing table (`:371`); the history
  variable `unlisted` marks this;
- the rules of a candidate that was staged over another configuration stay in the kernel
  after its rollback: `restore` loads the previous file on top (`:363`). TLC needs 16
  states and no fault: stage a candidate over an installed configuration and revert it.
  The comment on `NftablesPolicy` says "The applier owns table replacement"
  (`security_policy_phase26.go:52`), but no caller of `nft -f` replaces the table. What the
  rollback does restore is the file, and with it the rules after the next boot, and the
  policy of the input chain.

The same instance with two faults satisfies it as well (5,815,956 states).

`StagesSettle` assumes that no directory without a record
stays behind: `RollbacksDue` fails on one and then rolls nothing back
(`security_stage_phase26.go:369`). `VerdictsAreTrue` says nothing of `failed`: the
panel writes it when it does not know. A row whose job died with its process
stays `running` until an administrator acts (`security_mutations.go:272`).

## PHPRelease

One managed PHP application. Every request (`Configure`, `QueueDeployment`,
`QueueRollback`) takes the row's lock, raises the revision, settles open intents and
inserts a job. A worker holds the application's mutex for the length of its job,
compares the revision, claims the intent (`Begin`) and sends one call; when it has
the answer, a second transaction compares the revision again and makes the release
the active one, or settles the intent and queues a reconciliation (`End`). The
agent serves the calls one after the other: `Serve`, `Build`, `Activate`,
`WriteMarker`, `RunWorkers`, `Prune`, and `Undo` when an activation fails. A call
can outlive its caller (`GiveUp`, `PanelCrash`): `lost` tells such calls apart.
Deployments are named by their release number.

| Run | Instance | Shows |
| --- | --- | --- |
| `php` | 0, 1 or 2 earlier releases (`Settled`), retention 2, 2 requests, 2 attempts, 1 fault, fair (309,020 states) | `ServedIsInstalled`, `OneIsHealthy`, `NewestIntentWins`, `HostFollowsPanel` |
| `php_retention` | the same without faults | violates `ActiveAndPreviousRetained` (finding 3) |

Two earlier releases with retention 2 make the next deployment prune; two
requests let one supersede the other in the middle of its call. The same
instance with two faults passes as well (5,003,079 states). Fairness
(`PFairness`): River runs jobs and rescues them, the agent goes on, and the sweep
is periodic.

`HostFollowsPanel` is about applications whose active release stays on disk: a
late call protects itself and the release that was active when it was queued, and
can prune a release that became active in the meantime. A deployment whose agent
died between the rename and the marker fails on every retry because its
directory exists (`php_application.go:759`); nothing says that it succeeds.

The build with its archive, Composer, scan and candidate probes is one step that
works or fails. The workers of the application, its environment, suspension,
Classic Hosting and a branch that moves between two attempts are left out.

## What is proved

The theorems hold for every value of the constants that satisfies the named
assumptions: any set of websites, hostnames, requests and goroutines
(`ConstantsAssumption`, `RequestAssumption`), any plans and bounds. Leaves that are
pure first-order reasoning name the `Zenon` backend: tlapm slows down with every leaf it
encodes for SMT, and the larger modules would take too long without.

**Registry** (`SiteIdentityRegistryProofs`): `TypeCorrect`, `LeasesExclude`,
`WorkIsOnLiveIdentities`, `BindingsStayOwned`, `TombstonesStayFinal`,
`HostnamesAreHandedOver` and `LocksNeverCycle`. `RequestAssumption` says what the callers build: a removal
names websites with ids, an operation and a revision; an account removal names
websites of its own subscription.

None of these is inductive alone, because a request acts on what it validated
several steps earlier. The invariant `IndInv` says what each phase of a request
knows:

1. `PhaseInv`: the loops stay inside the request, and resolution changes neither
   the hostname nor the website an identity names, so the locks taken are those of
   the identities of the request.
2. `LocksAreHeld`: from validation on, a request holds the locks of all its
   identities. With 1 this gives `LeaseExclusion`.
3. `ValidatedInv`, `MarkedInv`, `CompletedInv`: what validation, marking and
   completion established still holds. Every writer of a website's record holds
   the website's lock and every writer of a binding the hostname's, so by 2 nobody
   else can have written them.
4. `RecordsAreNamed` and `BindingsAreOwned` tie the two kinds of record together.

`Inductive` is `Spec => []IndInv`; the action properties follow from it by
looking at the six steps that write a record.

`LocksNeverCycle` (`Spec => []NoLockCycle`) is the argument behind the sorted lock
files. `OrderInv` says that a request which waits holds only lock files that come
before the ones it misses, and that a request which has not begun to lock holds
none. `HeldBound` says that the lock files taken so far have a last one. Its holder
waits for a lock file after it, which is therefore free. No set is assumed to be
finite.

`AccountCleanupIsOnItsOwn` (`AccountListsAgree /\ Spec => []AccountCleanupOwnsHostnames`, in
`TeardownHostProofs`) is about the removal of an account, which works by hostname.
`AccountListsAgree` says that requests for one account name the same websites and
requests for two accounts different ones: a website has one `subscription_id`, the
list is read by that column (`provisioningapi/jobs.go:204`) while the account is
terminating, and the rows go only after the agent has answered. Both runs with
account removals satisfy it. A repeated removal can find its hostnames given away,
so the argument is about the order of the first one: hostnames are freed only when
all websites of the account are final (`ReleasedTogether`), and before that its
records are "removing" (`AccountMarked`), so that a request with more to do than free
hostnames finds them all its own (`AccountOwns`).

**Removal, agent** (`SiteTeardownProofs`): `TeardownImplementsRegistry` shows step by
step that a removal is a client of the registry; `TeardownIsExclusive` and
`TeardownIsFinal` carry results about the registry over to removals.
`TeardownIsTyped`, `StagesOwnTheirHostnames` (`TSpec => []StageOwnsHostnames`) and
`TeardownImplementsAgent` (`TSpec => AgentSpec`, the promise `SiteRemoval` is built
on) come from one inductive invariant, `TeardownInductive`, for any operations,
revisions, requests and goroutines. `TeardownAssumption` says that the requests of
one operation carry the same websites (each is built from the snapshot in the
operation row, and the journal refuses another digest). The invariant adds to
`IndInv`:

1. `StagePhase`: where a request stands in the registry fixes where it stands in its
   stage.
2. `CopyInv`: the copy of the journal a request has in memory is the file, because
   it was read under the lease and only a holder of the lease writes it. The guard of
   the stage (revision, order, not done yet) therefore still holds at the write,
   which is what makes every write a step of the abstract agent.
3. `JournalsAreClosed`: a finished stage has the checkpoints of its items and of the
   stages before it.
4. `RemovedIsJournaled`: a website whose record is final has a journal past the
   shared stage, so a late request for it finds its stage done.
5. `StageMarked`: while a stage works, the records of its websites are "removing".
   With `RemovedWebsitesOwn`, a website that is not final still owns its hostname.

`TeardownHostProofs` is about the host. `FinishedRemovalsAreClean`
(`TSpec => []FinishedRemovalIsClean`) and `CleanupHitsItsTargets`
(`TSpec => OnlyTargetsAreRemoved`) need to know whose content is under a hostname.
`HostNamed` and `HostOwned`: content belongs to a website of that hostname, which
owns it as long as its record is not final. `ItemGone` and `ItemsGone`: an item that
was removed does not come back before its checkpoint, nor after it, because ordinary
operations work only for active websites. `AccountGone` says the same of an account
removal. `CleanupHitsItsTargets` has two hypotheses: `AccountListsAgree`, and that
what ordinary operations leave is covered by account removal
(`Provided \subseteq AccountItem`). The second is the limit of the result:
`teardownSubscription` leaves mail to the `configure_mail` job that is queued after it
(`provisioningapi/jobs.go:336`), which is not in the model, and until that job has run
mail of a website that went with its account is still under the hostname when a later
website of that name is removed. The run `teardown` satisfies both.

**Removal, control plane** (`SiteRemovalProofs`): `RemovalIsTyped`,
`TeardownStaysAlone` (`RSpec => []TeardownIsAlone`), `RowsAlwaysOutliveTheHost`
(`RSpec => []RowsOutliveTheHost`) and `VerdictsAreCurrent`
(`RSpec => StaleVerdictsAreHarmless`), for any workers, tasks, sweeps, retries,
attempts and faults. `AInv` adds that nothing of a removal exists before the website
leaves "none" (`Untouched`) and that a task at work is shown as running (`Shown`):
then the drain counts it, or it meets the fence. `HInv` adds that the checkpoints of
the operation agree with the agent (`Echoed`) and that whoever asks for `finalize`,
a late request included, asks after the surviving services were converged
(`Ordered`).

`FailureWaitsForTheRetry` is `RSpec => FailedUntilRetried`. Its
invariant `LInv` says that an operation under way has a job that is queued, running
or discarded (`Live`), that a sweep which found none is about to fail it (`Swept`), and
that a worker past its reading works on the operation as it is (`Held`). `Live` is lost
when the queue deletes the job of an operation that is still under way:
one sweep may have found that job discarded, a second sweep then finds none and
inserts another, the first one fails the operation, and the new job's update to
`waiting` (`site_removal_jobs.go:79`, which does not test for `failed`) revives it. River
keeps discarded jobs for days and the sweep is queued every minute
(`cmd/panel/main.go:382`), so the deletion needs a sweep that stands still that long. The
history field `cleans.early` records it, `FailedUntilRetried` is about behaviours in which
it has not happened, and the invariant is `LInv` until then. TLC finds the behaviour
with one attempt, two faults and one deletion when the property drops that condition.

**Mail import** (`MailImportProofs`): `NothingIsCopiedTwice`, `LedgerStaysTrue` and
`CompletionIsExact`, for any messages, folders, workers, revisions and faults, from
`ImportAssumption`. A run acts on a message that it looked at several steps earlier,
so the three are not inductive. `LInv` adds:

1. `Known`: what each label of the run knows of the message it is at. Up to the
   append nothing of it was sent; after an append in doubt its record says
   `appending` until a receipt is found.
2. `Alone`: every run past `Lock` holds the advisory lock, so that no other run has
   changed what `Known` says (`OthersKnow`).
3. `NotStarted`: the requests that rewrite the ledger without the lock
   (`PrepareDiscover`, `MapFolders`) come before the first job, when nothing is sent.
4. `Ledger` and `Finished`: what each record says of the mailbox, and that nobody
   writes a record of a complete import.

`RunKeeps` is the one argument all steps of a run share: a step that touches only
its own label and list, and writes records only under the lock, leaves what the
others know alone.

`StoppedImportsStay` (`ISpec => StoppedStaysStopped`) is about runs that outlive what
the administrator asked for. A run checks the revision when it writes a state, but
the revision of an import that needs attention is still the one of its runs. `JInv`
adds what River contributes: a job at work is running in the queue, a revision is at
work in one worker at most, revisions to come have no job, and an import that needs
attention has no job left that could run. `CredentialsLast`
(`ISpec => []CredentialsOutliveTheImport`) follows from it: only a step that ends the
import, or finds it ended, takes the credentials. `ImportIsTyped`
(`ISpec => []ITypeOK`) takes the types of the ledger from `LInv`, those of the jobs
from `JInv` and the rest from `TInv`, which also says that messages reach the source
in the order of their numbers.

**Accounts** (`AccountConvergenceProofs`): `PurgesAreFinal` (`ASpec => PurgeIsFinal`).
The invariant `PurgeInv` adds that the subscription of an account being purged is
cancelled, without which the first step after the purge says nothing.
`AccountsAreTyped` (`ASpec => []ATypeOK`) holds for any revisions, plans, attempts,
faults and abandoned calls. `AcknowledgedIsApplied` is
`ASpec => []AckedIsApplied`: a job acknowledges what it read and
applied several steps before, while requests change the intent. `CInv` says

1. `Mutual`: one job at a time is past the lock of the account;
2. `Seen`: while the revision a job read is the desired one, its snapshot is the
   intent; a job with an older snapshot runs only while the account is pending,
   because the job of the new revision waits for the lock;
3. `Applied`: what the job has done so far is on the host and in the generations;
4. `NoTeardown`: before a purge every abandoned call carries an intent, so that a late
   call either leaves a mark on the host (`stray`) or finds the account being purged.

**Firewall** (`FirewallStageProofs`): `PanelTellsTheTruth`
(`FSpec => []VerdictsAreTrue`), for any operations, administrators and faults. The
panel decides on an answer that the agent gave earlier, so `VInv` adds
`AnswersAreTrue` (an answer that nobody has read is still true), `InProtocol`
(where the agent stands fixes the status of the stage it works on) and the shape
of the state. Each step of the agent is shown `Lasting`: a settled stage keeps its
status and no stage loses its record, which carries old answers and old verdicts
over the step. `InProtocol` is what makes the end of a rollback `Lasting`.

`UnconfirmedIsAlwaysUndone` (`FSpec => []UnconfirmedIsUndone`) and `FirewallIsTyped`
(`FSpec => []FTypeOK`, for a finite set of operations: the number of records is
compared with it) come from `UInv` on top of `VInv`. `Held` is the property for the
states in between: a candidate in the file or in the kernel belongs to a stage that is
armed, confirmed or being rolled back, or falls under one of the three exceptions.
`Restored` says that the file, then also the table, are back when the rollback is
recorded, so that the stage may stop excusing its candidate. That an exception lasts
is `Keeping`: a stage that keeps a previous file never loses it, since only stages
without a record are removed (`StoreOK`).

**PHP releases** (`PHPReleaseProofs`): `ServedReleaseExists`
(`PSpec => []ServedIsInstalled`), for every retention and any number of requests,
attempts and faults. `HInv` follows the holder of the agent's mutex: until the
marker is written, the release to fall back to and the one the marker names are
other directories than the new one, so that a failed deployment may delete it;
from then on both are the new one, which pruning protects. `ActiveIsTheHealthyOne`
(`PSpec => []OneIsHealthy`) and `NewestIntentReplaces` (`PSpec => NewestIntentWins`)
need the panel's side as well, from `ConstantsAssumption`. `OInv` says that the
deployments are numbered without gaps, that a job of the current revision is about the
newest one (`Sound`) and that its worker has claimed it (`Claimed`), and which caller
waits for which call (`Attended`). An adoption by a reconcile is the delicate case:
it has no intent of its own, and `Adopting` says that it happens only while nothing
is active. `ReleasesAreTyped` (`PSpec => []PTypeOK`) rests on the same invariant: that a
new deployment has a number within the bound, and that a request to the agent names a
deployment the panel has, is `Numbered` and `Sound`.

Every invariant, action property and refinement that a passing run checks is proved,
some under the hypotheses named above (`AccountListsAgree`, `Provided \subseteq
AccountItem`, finitely many firewall operations). Only model-checked are the liveness properties under
fairness (`RemovalCompletes`, `RunsEnd`, `FinishedIsDisposed`, `ConvergenceSettles`,
`StagesSettle`, `HostFollowsPanel`): fairness and `ENABLED` are out of the prover's
reach. The properties of the three runs that end in a violation have no theorem, as
the code does not satisfy them.

## Findings

1. **A pause can leave an import that never completes** (`import_pause`,
   `internal/control/mailimport/worker.go:255`). A pause between the checkpoint
   `appending` and the append returns without sending. After the resume the message
   has no receipt, becomes `uncertain`, and every run ends in `attention_required`.
   No server or process has failed. `TestPauseResume` (`worker_test.go:46`) expects a
   paused and resumed import to complete, but pauses before the run has reached a
   message; `docs/MAIL_IMPORT.md:26` reserves doubt for a lost acknowledgement.
   `TestImportStateLookupFailuresRemainRetryable` accepts `attention_required` after
   a *database failure* at the same check, which the finding does not dispute.
2. **A purged account can come back** (`account_purge`,
   `internal/control/quota/account_lifecycle.go:788`). The sweep of pending accounts
   does not look at the billing account. It reads a pending account, the teardown
   cancels the queued jobs, the sweep inserts a new one, and after the teardown's
   second check the job runs: the Linux account is created again on the host and
   the row of a terminated account says `suspended`. The migration that added the
   mutation gate and `customers.go:248` say that this window is closed. It is
   for the transactions that change the intent (`PurgeIsFinal`, proved), and open
   for the sweep.
3. **The previous release is pruned for a deployment that is then discarded**
   (`php_retention`, `internal/agent/ops/php_application.go:784`).
   `DeployPHPRelease` prunes as soon as the new release is active on the host. If a
   newer request has moved the revision on meanwhile, `completeDeployment`
   (`internal/control/phpapp/workers.go:676`) discards the deployment and the panel
   keeps showing the old active and previous release, but with a retention of 1 or
   2 the directory of the previous one is gone. It is still listed and accepted for
   a rollback, which then fails. `workspace.templ:1056` says "Active and previous
   healthy releases are retained even when the plan limit is lower."

## Not modelled

The repository is large and most of it is not protocol code: handlers, templates,
validation, rendering of configuration files and typed calls to the host, whose
effect the models represent by the resource they leave behind. The models cover
the parts in which several actors share state across crashes and lost calls, one
part at a time and each down to its steps. What is left, in the order in which it
would be worth modelling:

1. *Hosting state jobs and certificates* (`quota/lifecycle.go`, `provision/jobs.go`):
   two `set_hosting_state` jobs with different settings, and a certificate
   installed between the capture and the use of a runtime request.
2. *Webhook outbox* (`provisioningapi/webhooks.go`): the `delivering` row left by
   a dead delivery, dedupe keys, the hundred-row window of the sweep.
3. *Site guard* (`internal/agent/rpc/site_guard.go`) and *database ownership*
   (`internal/agent/ops/database_ownership.go`): who may act on which resource.
4. *Operations Center*: issue verification and notification delivery.
5. *WordPress Toolkit*: staged operations with a recovery point.
6. *DNS template synchronisation*, *backup schedule and retention*, *quotas under
   concurrent creation*.

Left out for good: authentication and policy (sequential comparisons and
library cryptography), HTTP handlers and templates, command-line tools, parsing of
certificates and archives, and the file and service configuration the agent
writes.
