# Ballot Clarity: formal models

TLA+ models of the parts of Ballot Clarity whose correctness depends on the order
in which requests, transactions and files are handled; TLC runs that check them on
small instances; and theorems about them that TLAPS proves for every instance.
Source paths are relative to `src/back-end/src/` unless they start with `src/`.

    tlasany AdminAccounts.tla                       # parse
    tlc -config MCAuditTrail.cfg MCAuditTrail       # model-check (PROJECT.json lists the runs)
    tlapm AuditTrailProofs.tla                      # prove

## 1. The system and its components

Ballot Clarity is an Express API (`server.ts`) over three kinds of state: an admin
store (Postgres in production, SQLite for development), a coverage snapshot in the
file system, and answers of civic data providers that are cached in memory. A Nuxt
front end holds the administrators' browser sessions and calls the API with a
delegated session token. Any number of requests run interleaved in one process, and
more than one process may use the same database and the same coverage directory.

| Component | State | Operations | What is hard |
|---|---|---|---|
| **Audit trail** (`postgres-admin-store.ts` 379-398, 744-851) | `admin_audit_events`, hash-chained | append (several in one transaction), verify | concurrent transactions, rollback |
| **Administrator accounts and sessions** (`postgres-admin-store.ts` 977-1679, `server.ts` 4805-5205, 6272-6335) | `admin_users`; tokens kept by clients | login, password, MFA on/off, create, disable, restore, resets | reads before awaits, lock order, tokens outliving their row |
| **Content publication** (`server.ts` 5879-5958, `postgres-admin-store.ts` 1684-1870) | `admin_content`, `admin_content_history` | PATCH, rollback | a decision on a row that changes before it is locked |
| **Guide packages** (`server.ts` 5970-6240, `postgres-admin-store.ts` 1456-2031, `guide-packages.ts`) | `admin_guide_packages` | create, review, publish, unpublish | as above, and a checklist computed from other records |
| **Coverage snapshot promotion** (`coverage-snapshot-integrity.ts`, `coverage-repository.ts`, `manage-live-coverage.ts`, `import-live-coverage.ts`) | snapshot, metadata, journal, transaction directories, backups | promote, rollback, import, startup | crashes between file operations, recovery of a recovery, overlap |
| Corrections and monitored sources | `admin_corrections`, `admin_source_monitors` | PATCH | as content |
| SQLite admin store (`admin-store.ts`) | the same tables | the same | none: every operation is synchronous |
| Seeding and bootstrap | schema, seeds, first administrator | startup | two processes on an empty database |
| Tokens, codes, envelopes (`admin-session-token.ts`, `admin-mfa*.ts`, `secret-envelope.ts`) | none | sign, verify, seal, open | cryptography |
| **Login throttle** (`admin-login-throttle.ts`, `server.ts` 3179-3197, 4836-4886, 5187-5196) | buckets per account and address | check, record a failure, clear | check before an await, window edges, capacity |
| **Private release handoff** (`private-handoff-*.ts`) | inbox with its lock; request and receipt files of the sender | send, retry, receive | lost and late answers, two runs at once, kills, loss of power |
| **Officeholder and court directories** (`collect-fulton-*.ts`, `collect-magistrate-court.ts`, `collect-court-directory.ts`, `*-storage.ts`) | accepted envelope, its predecessor, receipt of the last run, lock file | collect, import | kills between replacements, locks left behind, slow collections |
| **Promise cache** (`bounded-promise-cache.ts`) and **public throttle** (`public-request-throttle.ts`) on `GET /api/representatives/:slug` | in-flight and recent lookups; buckets per client | getOrCreate; attempt | a late rejection, eviction, expiry, the edge of a window, capacity |
| Rate limit store (`bounded-rate-limit-store.ts`) | the same table, for express-rate-limit | increment, reset | capacity, expiry |
| **State ballots** (`state-ballot-repository.ts`, `state-ballot-storage.ts`, `state-ballot-automation.ts`, `manage-state-ballot-automation.ts`) | one file per source, pending reports, caches, the worker's receipt and lock | look up, fetch, store, watch | the API and a worker write the same files, failures are cached, kills |
| ZIP log, address cache | a rotated file; a trimmed table | append; put | two processes |
| Coverage data, collectors, provider clients | none, or single files written by hand-run tools | parse, fetch, merge | data formats |
| Public API, pages, front-end server, scripts, CI | none of their own | read | none |

How they interact: the handlers of `server.ts` call the admin store; every mutation of
the store is one transaction (`runTransaction`) that ends with zero or more
`appendAuditEvent`. The gate of `/api/admin` re-reads the user row on every request
and compares it with the token. Guide diagnostics read the content records and the
coverage snapshot. The commands that replace the snapshot run in processes of their
own and meet the API only in the coverage directory. So do the commands that collect and
import directories, one at a time under a lock file, and the automation worker of the state ballots, whose
lock keeps out other workers and not the API, which fetches and stores the same sources. The handoff is a protocol of its own between a sender's
machine and a receiver process with an inbox. The throttles and the cache live in the memory of one API process.

What makes each component correct:

- *Audit trail*: what readers load verifies; it is a ledger to which a transaction
  adds all of its events, adjacent, or none.
- *Accounts*: an active administrator remains; no write from a stale copy; a token dies
  with the next credential change; it stands for credentials its client proved; the
  trail explains the table; every request is answered, deadlocks included.
- *Content*: the history is one chain; what is public was approved by somebody who may;
  the trail tells what is public.
- *Guide packages*: what is live is signed off; the trail has one event for each change;
  only an unpublish request takes a guide down.
- *Coverage*: the pair of snapshot and metadata is replaced as a whole; recovery always
  finds what it needs; what a promotion or rollback replaces was backed up as a whole; a startup
  serves the pair in effect.
- *Login throttle*: an account or an address gets a bounded number of wrong answers in any stretch
  of a window, also when verifications run in parallel; a lock lasts; the table is bounded.
- *Private handoff*: a delivery that is reported is a packet in custody for good, under its
  identity; one delivery works on the inbox at a time; the inbox stays within its capacity.
- *Directories*: the publisher is asked once in an interval; accepted evidence never goes back;
  a success is about stored records; the exact predecessor is kept.
- *Representatives*: a lookup in flight is shared, a fresh answer is used again and an old one is not,
  the least recently used makes room, and the throttle bounds what gets through.
- *State ballots*: an empty report never stands for records that were accepted; the publisher is spared between lookups;
  a process never replaces its own evidence by older; the import clock tells of an import that was stored.

## 2. Modules

| Module | Role |
|---|---|
| `AuditLedger` | abstract: one ledger, transactions contribute whole |
| `AuditTrail` | the audit table, its lock and the transactions that append to it |
| `AdminAccounts` | user rows, sessions, the requests that read and change them |
| `ContentPublication` | one content record, its history, PATCH and rollback |
| `GuidePackages` | one guide package, its four requests and a changing checklist |
| `ActiveCoverage` | abstract: one pair, replaced as a whole, served as it is |
| `CoveragePromotion` | the files of the coverage directory and the processes on them |
| `HandoffCustody` | abstract: packets in custody for good, deliveries reported |
| `PrivateHandoff` | runs of the sender, their requests, the receiver and its inbox, the disks of both |
| `LoginThrottle` | the throttle's table, the clock and the verifications under way |
| `DirectoryCollection` | the lock, the files and the commands of one directory |
| `RepresentativeLookups` | the public throttle and the promise cache on the route they share |
| `StateBallots` | the stored records of one source, the API's lookups and the automation worker |
| `MC*` | TLC instances: accounts, patches, versions, symmetry |
| `*Proofs` | the theorems of a module, with their inductive invariant |

`AuditTrail`, `CoveragePromotion` and `PrivateHandoff` each instantiate the abstract module they implement.
`AdminAccounts` uses what `AuditTrail` shows: it keeps the audit trail as a sequence
extended at COMMIT and represents the audit lock by the requests between their first
append and their end. `ContentPublication` and `GuidePackages` extend the trail at the
write of the transaction, and their row lock from read to write is the only one that
orders two requests for one record.

Conventions shared by the modules of the admin store. A request is a process with a
program counter that names the *next await*: everything between two awaits runs without
interruption in the event loop, so it is one action. A transaction runs at READ
COMMITTED; who owns which lock is a function of the program counters (`LockOwners`,
`TableOwners`, `RowOwners`, `AuditOwners`), because locks are released at its end only.
Its effect shows at COMMIT; where nothing can tell the write from the COMMIT
(`ContentPublication`, `GuidePackages`, whose only readers outside a lock read committed
rows), the two are one action. `Abort`, `Fail` and `Rollback` stand for an error of the database, a lost connection
and a stopped server: the transaction leaves nothing behind.

### AuditTrail
`rows` is the committed table, `pending[t]` the rows transaction `t` has inserted.
`LockAuditTable`, `SelectLast` and `InsertEvent` are the three statements of
`appendAuditEvent`; `BeginTransaction`, `Commit` and `Rollback` those of `runTransaction`.
A digest is the identifier of the row it was computed from: rows never change (the
triggers refuse UPDATE and DELETE) and digests do not collide. `VerifyAuditChain` is
`verifyAuditChain` on the sorted table.

### AdminAccounts
`users` is `admin_users`; `sessions` all tokens ever issued (a client may use any of
them at any time); `audit` the committed events. `Start*` are the handlers up to their
first await, the gate's comparison (`Accepts`) and role checks included; `VerifyPassword`,
`StampLogin` and `VerifyCode` are `authenticateUser` and `verifyUserMfaCode`;
`LockUsersTable`, `LockUserRow`, `WriteUser`, `AppendAudit`, `CommitUser` are the statements of
`updateUser`, `enableMfa`, `disableMfa` and `createUser`; `Reload` is the `listUsers` from
which a password change builds its answer. `Blockers(r)` is the set of requests whose
locks conflict with the next statement of `r`; `BreakDeadlock` is Postgres ending one of
two transactions that block each other. A timestamp of credentials is a revision number:
`nextAdminCredentialTimestamp` makes it strictly larger. The other timestamps a token
carries are compared for presence: they change only together with the revision.
Expiry of tokens, display names and the login throttle are left out; a token that never
expires only adds behaviours.

### ContentPublication
`PatchContent` is the handler up to `updateContent`: it reads the record (unlocked), decides
(`Permits`) and fixes the approver. `LockContentRow` is the SELECT ... FOR UPDATE, `WriteContent` the
merge (`Patched`), the validation (`Valid`), the UPDATE, the history row and the audit
event. `RollbackContent` restores the snapshot of a history row. The statuses
`needs-sources` and `ready-to-publish` behave like `draft`; texts other than the public
summary are left out; `published_at` follows `published`.

### GuidePackages
A handler's first await reads the row (`Submit`), its second the content (`Decide`), then
`LockPackageRow` and `WritePackage` are `updateGuidePackage`. `createGuidePackage` reads the row once
more (`RecheckPackage`) and inserts. The checklist, some 500 lines over coverage and content, is one
bit, `checksPass`, that `ContentChanges` may flip between any two steps: the workflow
reads nothing else of it. `publish_with_warnings` behaves like `publish`, `do_not_publish`
like `needs_revision`.

### CoveragePromotion
A snapshot is its digest; metadata is the digest it is bound to. `active` is the target
and its sidecar, `journal` the promotion journal, `dirs[p]` the transaction directory of
process `p`. Every change of a file is an action; `Crash` may come before any of them.
`ReadJournal` to `RemoveDirectory` are `recoverPendingCoveragePromotion`, which every reader and writer of
the pair calls first; `local[p].resume` is where it returns to. `Backup` to `ConfirmNew` are
`backupSnapshot` and `replaceCoverageSnapshotPair`; its catch block is `AbandonReplacement` and `FailToSync` (journal not
known to be published) and `FailReplacement` (published: recover and rethrow).
`Load` to `Verify` are `createCoverageRepository` at startup.
A restored pair is copied, not moved, so that a recovery can be repeated (`AfterRestore`).
The abstract `ActiveCoverage` says what an import may show in between (`importing`): it replaces the snapshot first and
binds the metadata to it afterwards.
Abstractions: a crash stops the process and keeps what it wrote (the code calls `fsync`
at each step; a power loss that undoes unsynced writes is not modelled); comparing the
digests of a pair is one step; the copy of a snapshot whose backup was cut short before its metadata is left out of
`backups`, as nothing is rolled back to it; an I/O error
inside a recovery or of a read, as of a file that another process removed, is a crash; a write of one file is whole; metadata without a digest
(written before digests were introduced) and `LIVE_COVERAGE_REQUIRED` are left out.

### PrivateHandoff
A run of the sender is `deliverHandoff`, with an identity of the caller's (`StartDirect`), or
`deliverHandoffWithReceipt`, which retains the identity in a request file before it sends and the receipt once it
has its answer (`StartRun` to `SyncRequest`, `FindReceipt`, `CreateReceipt` to `SyncReceipt`). Each attempt of a run is a request
of its own: `Timeout` gives it up, the receiver may handle it later all the same. `Admit` is the receiver's limit of active
requests, `Lock` to `Unlock` are `accept`; the `finally` block is `Discard` and `Unlock`, or `FailToDiscard` when the removal of the
temporary directory throws. A directory is seen at once and on the disk after a synchronisation: `past` and `retained` hold what
it has been since, and a loss of power brings any of them back. A kill loses nothing that was written, but may leave a file
empty (`Torn`). Left out: signatures and their expiry, the quota in bytes (it is checked beside the quota of entries),
packets that are damaged after they were stored, answers to malformed requests.

### LoginThrottle
`Begin` is `check`, which prunes first; `Fail`, `Succeed` and `Leave` are what the handlers do once the store has answered.
`pair[q]` is the account and address of a verification under way. `Record` charges the account, then the address,
against the table as it is by then. The clock is a number of ticks. `failed` and `uncounted` are histories of the model.
Left out: the wait that is answered (`Retry-After`), which no code reads again, and the normalisation of names.

### DirectoryCollection
One directory: the county offices, whose lines the map names. The county commission, the magistrate
court and the court directory have the same steps; the county commission alone accepts older evidence and waits after
a failed run only, not after an interrupted one, which is the constant `Guarded`. A command is a collection or an import;
`Lock` and `Unlock` are `withFultonCountyOfficeholderLock`, `ReadCurrent` to `ReportFailure` the collection, `Check` to `Replace` the
storage that both use. `Kill` leaves lock and receipt as they are; `OwnerRecovers` is the operator who removes the lock of a
command that does not run any more. A file is replaced as a whole (written beside and renamed). A scope stands for the schema
version of an inventory. Left out: what the publisher's pages say; the pauses between the requests of one collection, which
are one step; a clock that goes backward; a loss of power (these directories are not synchronised).

### RepresentativeLookups
`Admit` and `Refuse` are `attempt`, on behalf of the route or of the saved lookup it tries first; a request that is counted twice
is two requests here, of which one leaves by `FindElsewhere`. `Share` and `Create` are `getOrCreate` up to its return:
a lookup is in the table from its start. `Settle` is the answer of the provider or an error; `Drop` the callback that removes a
failed lookup, which may run after others that share the failure. `entries` keeps the order of the `Map`.

### StateBallots
One automatic source that a publisher may still have no records for. `Lookup` is `getSnapshot` of the API, which answers from
`cached`, shares the load of `loading` (`pending` in the code) or starts one; `Load` is that load, which `Read`s the stored snapshot, `ReadReceipt`s the
pending evidence, `Fetch`es and then either `Save`s records or `Check`s and `Hold`s the evidence that there are none. A worker runs the same load
inside a pass: `Start` and `Unlock` are its lock, `ReadPrevious`, `Begin`, `Collect`, `Inspect` and `Report` are
`refreshApprovedCandidateData`, `Wake` and `Stop` the loop of `--watch`. The API and the worker have caches of their own and meet in the
files. `by`, `accepted`, `saved` and `spared` are histories of the model; of the receipt it keeps `lastImportAt`, to which
`lastSuccessAt` is always equal. Each way a file or a fetch can fail is an action (`FailTo*`); the format of the source decides whether the
API collects at all (`bulk`) and what becomes of records that cannot be stored (`retains`).
Left out: reviewed snapshots and their import, sources that were reviewed once, cycle families with their collection indexes, the choice among the sources of a
state, the content of records, clocks that go backward, an error after the rename of a file. The refresh command does what the lookup of
a pass does, in a process of its own without lock or receipt.

## 3. What the runs check

All passing runs explore their whole state space.

| Run | Instance | States | Shows |
|---|---|---|---|
| `audit_trail` | 3 transactions, up to 3 events each | 8,019 | `IntegrityVerified`, `AppendsNeverCollide`, refinement `ImplementsLedger` |
| `accounts_all` | 2 requests of any of 6 kinds; 2 administrators, an editor, a free name; 2 passwords | 82,502 | `LastActiveAdmin`, `NoLostUpdate`, `SessionsSawEveryChange`, `SessionsAreProved`, `AuditExplainsAccounts`, `EveryRequestReturns` under `FairSpec` |
| `content` | 4 requests, 3 actors, 6 patches | 798,001 | `HistoryIsConnected`, `PublicContentIsApproved`, `AuditExplainsPublication` |
| `guide` | 4 requests, 2 actors, 5 reviews, absent or ready package | 567,688 | `LiveIsSignedOff`, `AuditRecordsPublication`, `LeavesLiveByUnpublish` |
| `coverage` | 3 processes in turn: promote, rollback, import, startup; 3 snapshots; failed syncs | 566,564 | `JournalIsBacked`, `RefusesOnlyUnsynced`, `ReplacedPairsAreBackedUp`, refinement `ReplacesWholePairs` |
| `handoff` | 2 runs of 2 attempts, 2 packets, 2 identities, room for 2, 1 fault | 1,785,213 | `LockHasOneOwner`, `WithinCapacity`, refinement `ImplementsCustody` |
| `login_throttle` | 2 verifications at a time, 2 accounts, 1 address, 2 buckets, 6 ticks | 1,121,218 | `OvershootBounded`, `GuessRate`, `LocksHold`, `WithinBuckets` |
| `directory` | 4 collections or imports, 2 scopes, 5 ticks, interval 2 | 209,769 | `PublisherIsSpared`, `NeverGoesBack`, `SuccessIsStored`, `PredecessorIsKept` |
| `representatives` | 5 requests of 2 clients, 3 representatives, 2 entries, 1 bucket, 4 ticks | 384,712 | `LookupsAreShared`, `LeastRecentlyUsedGoes`, `AnswersAreFresh`, `VolumeIsLimited` |
| `state_ballots` | 2 lookups at a time, 1 worker, 3 formats, 4 ticks, election on tick 3 | 1,591,264 | `EmptyNeverReplaces`, `FetchesAreSpared`, `OlderOnlyFromElsewhere`, `ImportClockIsBacked` |
| `content_live`, `coverage_sync` | two to three requests or processes | | the two disagreements of section 6 that have a run |

The type invariants are proved (section 4) and have no run, but for those of `RepresentativeLookups` and `StateBallots`,
whose runs check them; the one of `StateBallots` says as well that pending evidence holds until the election at most. Every property of a passing run has a mutant in the module (a definition preceded by
"Mutant:") that TLC rejects.

**Bounds and why they are enough.** `Request`, `Process` and `Transaction` are the requests of a
behaviour, so a bound on them also bounds retries. The hazards of the accounts need two requests
that overlap, over a table and sessions that earlier ones left (every account that may has a session at
the start); the content run has four because a rollback needs a
history of which one entry is public and a later retraction, and the guide run because a stale request needs a
publication and an unpublication around it. Two administrators are what
`LastActiveAdmin` is about; a free username is needed for creation. `Operations` and
`Patches` only choose which requests a run may make. In the coverage runs three
processes allow a crash, a crash of its recovery and one more startup; three
snapshots tell the prior one from two candidates. `MaxRunning` is 1: the code relies on the
operator running one command at a time (promotion and import take no lock); that journals are backed
under any overlap is proved. `SyncFails` lets the one `fsync` fail that the code mistakes for a failed publication (section 6).
`MaxEvents` is three, so that a transaction appends after its own uncommitted rows twice.
The handoff needs two runs for one payload, a second attempt that overtakes the first, an identity that is
used again with another payload (two of each) and one fault: a second fault would find what the first one left,
as it was or cleaned by the owner. The limits of the login throttle differ (2 and 3), so that an account locks before its
address; the lockout outlasts the window, as the defaults do, and two buckets are full when one account and
the address have failed. `MaxAttempts` lets three locks come about. Four commands and five ticks allow a
killed collection, the recovery of its lock, an import and one more collection an interval later. A cache of two entries
and three representatives evicts lookups in flight; five requests over windows of two ticks cross their edge, and
a lookup expires while it is pending. In the run of the state ballots a time to live of two ticks and a retry after one tell
a cached collection from a cached failure; four ticks let a snapshot of the first become old and be collected again on the third, the day of the
election, and the fourth is after the election. Lookups and workers that have ended may come again, so two and one are bounds on what happens at a
time only; a second worker could do nothing while the first has the lock, and once that one was killed its name is free for the next.

**Symmetry** is used in runs without liveness only, for constants no definition distinguishes: requests, processes,
candidates, commands, packets, identities, accounts, representatives, clients and runs of the sender.

**Deadlock** checking is off where a behaviour ends when all its requests or processes have ended
or its clock has run out (`CHECK_DEADLOCK FALSE` in all configurations but two); `AuditTrail` has an explicit
`Done` step and `GuidePackages` a checklist that never stops changing, so they
are checked for deadlock, and `AdminAccounts` has a liveness property that a deadlock would break.

**Fairness.** `FairSpec` of `AdminAccounts` assumes weak fairness of each request's next step and of
`BreakDeadlock`. The event loop runs every callback that is ready, the database
answers every statement whose locks are free, and Postgres looks for deadlocks after
`deadlock_timeout`. Nothing is assumed about `Submit` (no request need come) or `Abort`. Under it
`EveryRequestReturns` says that an MFA change (row lock, then table lock for its UPDATE) and
`updateUser` (table lock, then row lock) do not wait for each other for ever. The other modules claim no
liveness.

## 4. What is proved

TLAPS checks the following for every value of the constants that satisfies the named
assumptions of the modules (non-overlapping nulls; the initial table holds an active
administrator; the initial record, package or pair is one the program accepts; bounds are natural numbers and the
sets that are counted are finite). Theorems about directories assume `Guarded` where the table says so, and three about the
coverage files that one process works on them at a time (`MaxRunning = 1`): promotion and import take no lock, the operator runs one command
at a time, and two of them may mix a pair, or replace one that neither backed up. The number of processes, one after the other, and of their crashes is not bounded.

| Module | Theorems |
|---|---|
| `AuditTrailProofs` | `AuditTrailTyped`, `AuditTrailIntact`, `AuditAppendsNeverCollide`, `AuditTrailImplementsLedger`; of `StateBallots`: `BallotsTyped`, `EmptyReportsNeverReplace`, `LookupsSparePublisher`, `OwnEvidenceNeverOlder`, `ImportClocksAreBacked` |
| `AdminAccountsProofs` | `AccountsTyped`, `AnAdminRemains`, `UpdatesAreFresh`, `StaleSessionsAreRefused`, `AcceptedSessionsAreProved`, `AuditTrailExplainsAccounts` |
| `ContentPublicationProofs` | `ContentTyped`, `HistoryConnected`, `PublicContentApproved`, `AuditTrailExplainsPublication` |
| `GuidePackagesProofs` | `PackagesTyped`, `LiveSignedOff`, `PublicationRecorded`, `LeavesByUnpublish` |
| `CoveragePromotionProofs` | `CoverageTyped`, `JournalBacked`; with `MaxRunning = 1`: `OnlyUnsyncedRefused`, `CoverageReplacesWholePairs`, `ReplacedPairsBackedUp` |
| `PrivateHandoffProofs` | `HandoffTyped`, `LockExclusive`, `HandoffImplementsCustody`, `InboxWithinCapacity` |
| `LoginThrottleProofs` | `ThrottleTyped`, `TableBounded`, `OvershootIsBounded`, `LocksLast`, `GuessRateHolds`; of `RepresentativeLookups`: `SharedLookups`, `LeastRecentlyUsedMakesRoom`, `SharedAnswersAreFresh`, `LookupVolume`, `LookupsTyped` |
| `DirectoryCollectionProofs` | `DirectoryTyped`, `PredecessorKept`; with `Guarded`: `SuccessStored`, `DirectoryNeverGoesBack`, `PublisherSpared` |

Each module defines an inductive invariant `IInv` (`CacheInv` and `BallotInv` for the two models that share a module with another one), proves that the
initial states satisfy it and that every action keeps it, and derives the theorems.

- **Audit trail.** `IntegrityVerified` alone is not inductive: what an INSERT adds depends on
  what the transaction read. `IInv` adds that at most one transaction owns the lock, that the
  others have no uncommitted rows, and that what the owner read is still the last of the rows it
  sees. `ExtendedChain` is the lemma that a row chained to the last row makes a chain again. For the refinement `LInv` adds that
  committed sequence numbers have no gap (`Numbered`) and that the uncommitted rows of a transaction are its events in order, right
  after the committed ones; `CommitRecords` then shows that a COMMIT appends them to the ledger, and no other step changes it.
- **Accounts.** `LastActiveAdmin` needs to know why a transaction that is about to disable an
  administrator may: `AnotherAdmin` says that another active administrator exists from its count to its
  COMMIT, which holds because of `TableMutex` (its table lock excludes every other write
  of the table) and `NoLostUpdate` (the row it changes is the one it read), which rests on `RowMutex`.
  `AbsentIsInitial` and `ReadAllowed` cover creation, whose lock is the unique key. Sessions rest on revisions: every write that has an event
  carries the next revision (`NextRowRotates`), so a row that a request has read, and a session built from it, either has an older revision or is the
  account as it is (`Snapshot`, `SessionCurrent`). The accounts as the trail tells them follow from one lemma on replaying a sequence of events
  (`ReplayEvents`) and from `AfterIsNextRow`: the events of a write, replayed, give the row that is written, field by field.
- **Content.** A rollback may restore any version, so `VersionsApproved` extends the approval to the
  whole history; `JobsPermitted` keeps what a handler established about its request until the
  store uses it: an actor without the rights can never carry the patch that publishes. `Explained` adds to `AuditExplainsPublication`
  that the version a rollback event names stays in the history, which only grows.
- **Guide packages.** `RowValid` (the stored row passes the store's validation) together with `JobsWellFormed`
  (only unpublish clears `published_at`) shows that a merge into a live row leaves it live.
  The two action properties follow from `IInv` of the state before the step.
- **Coverage.** The invariant follows who may still publish a journal: a process publishes at most one, after which its
  directory is never staged again (`JournalsPublished`), whoever removes a directory has seen its journal removed
  (`RemovedInOrder`), and a journal whose process does not know it published it is one that process gave up on (`UnknownGivenUp`): only
  a failed synchronisation leaves such a journal, and `JournalIsBacked` is about the others. The proof places no bound on the
  number of overlapping processes and crashes. For one process at a time `AInv` says what it knows of the files at each of its steps: which journal it
  holds (`Holds`), how far replacement or restoration got (`Replaces`), what its directory holds (`Stages`), what it has read (`Loads`), and that
  a journal on disk always finds the pair in one of three states (`Files`), whoever crashed before. So every step is one of `ActiveCoverage` or a stutter.
  `BInv` adds that the pair a command is about to replace, and the one a journal names as the prior one, are in the backups: recoveries and crashes
  only go back to the latter, so that whatever a rename puts into effect replaces a pair that was copied whole (`ReplacedIsBackedUp`).
- **Handoff.** In layers. `TInv` holds the types, the one owner of the lock and the attempts that are not sent yet. `CInv` says what each
  step knows of the disk: a packet is *durable* when every directory that a loss of power may bring back has it; a delivery
  that has seen its packet (`PacketSeen`) makes it durable by its synchronisation, also when it found a duplicate; answers, retained
  receipts and reporting runs are for durable packets (`AnswersKept`, `ReceiptsKept`, `ReportsKept`). Durable packets stay, because packets
  are never changed or removed (`InboxStep`). So every step is a step of `HandoffCustody` or a stutter (`CustodyStep`). The capacity needs `RoomFound`:
  what a delivery counted is still true when it stages, because it has the lock.
- **Login throttle.** `LockedWell` says that a bucket that has reached its limit is locked beyond its window, provided that the lockout is
  longer than the window. So no verification begins for a key at its limit, and what overshoots was under way before: `OvershootBounded` is then
  inductive. `LocksHold` is a case split over the steps that touch a locked bucket. `GuessRate` sums the history of failures, so its proof begins with
  lemmas on sums over finite sets, proved from the definition of the fold by induction over the *set* of the parts for which they hold (`AllSubsets`,
  from the library's theorem on least elements). `Recent` then relates the sums to the bucket: no failures after its first tick but the ones it
  counts (`InBucket`), at most one bucket before it in a stretch that reaches it (`AcrossTwo`), none after the last one of a locked bucket
  (`BehindLock`), and the same for a key whose bucket is gone (`WithoutBucket`).
- **Lookups.** The same module extends `RepresentativeLookups`, whose volume is counted with the same sums. For the cache, `CacheInv` says that
  an entry carries the time of its lookup (`Fits`), that a lookup that is of use is in the cache or had to make room (`Found`), and that the
  order of the `Map` is the order of use: whoever stands behind an entry was asked for since it was (`Proper`). `OnlyAtIsPart` shows that deleting entries
  keeps the order of the others. For the throttle, `Counted` bounds what a client was let through by its bucket, or by one
  bucket less its first request and the next. That does not add up for all clients, as a bucket may go to another one; `Budget` does: what was
  let through since a tick, and what the windows open at that tick still leave, is at most what they left then and what later windows count.
  A stretch that is over stays as it is (`NextKeepsRates`).
- **Directories.** `Owned`: who runs has the lock. From that, what a command has read of the files is still so when it acts on
  it (`Waited`, `Stores`), although the lock may have been removed under commands that were killed. `PublisherIsSpared` needs the link between the last
  visit and the receipt: `visited <= run.started`, and the receipt is one that makes the next collection wait, or the evidence is recent.
- **State ballots** (second part of `AuditTrailProofs`, which extends both models). `OneLoad`: the API has one load at a time, and `Sparing`: the
  cache holds for as long as the publisher is to be spared, or has run out when a load begins, so that a load under way may change neither. `Captures` says what the
  load of a process has fetched: nothing older than the process stored itself, and once the check of `writePending` has found no snapshot, nothing younger than
  records that are accepted later; the check itself and the rename after it are two steps. `Clocks`: whoever runs has the lock, so the receipt is what
  its owner read or wrote last, and a pass has a later clock only between its `Save` and its report. All loads, of the API and of workers, go
  through two lemmas, `LoadGoesOn` and `LoadEnds`. The theorems hold for any number of requests, workers and ticks and for any election day.

**Model-checked only.** Liveness (`EveryRequestReturns`), which the prover cannot reach, as it cannot ENABLED. The two properties of
the runs that expect a violation are false. Every other property of a run is the subject of a theorem.

## 5. Not modelled, and why

- *Corrections and monitored sources*: the same pattern as content, without history and approval (section 7).
- *State ballots*: reviewed imports, cycle families and the choice among sources; the parsers of some 200 official formats are data.
- *Rate limit store*: the windows and the bound of the public throttle once more, behind express-rate-limit.
- *ZIP log and address cache*: their loss affects no other component.
- *SQLite store*: better-sqlite3 is synchronous and the store has one process, so its operations are
  atomic; its validation functions are modelled where the Postgres store calls them.
- *Seeding and bootstrap*: the models start after it.
- *Cryptography and encodings*: a token is its claims, a password is a value, a code is correct or not, a digest
  names what it was computed from.
- *Coverage validation, collectors, provider clients, public pages, front end, scripts*: pure functions,
  data formats and read-only views.

## 6. Where the code and its documents disagree

1. **`coverage_sync`** (`coverage-snapshot-integrity.ts` 229). `publishJournal` links the journal and then
   synchronises the directory. If that fails, the caller believes that no journal was published and removes the
   transaction directory. The journal stays and every later startup or command is refused, although the
   active pair was not touched. `src/README.md` line 485 promises that the next startup keeps or restores a complete pair.
   `RefusesOnlyUnsynced` says that this is the only way there.
2. **`content_live`** (`server.ts` 5905). An editor's PATCH that was allowed on a draft is merged into the record after an
   administrator published it. `src/docs/security-audit.md` lines 12 and 23 deny editors changes of live content.

The same pattern, a decision on one read and a write after another, has more consequences, which were met while modelling and
have no run:

- A startup of the API reads the snapshot, then the metadata, then the snapshot file again for its digest
  (`coverage-repository.ts` 378): a promotion in between makes it serve the prior snapshot with the new approval. The
  promotion takes no lock, so nothing prevents it but an operator who starts the API after the promotion; the runs and the
  theorems on what is served have one process at a time. `src/deploy/runtime-artifact-contract.json` line 83 asks that the pair be promoted atomically.
- A publish request that found the package ready is merged into a row that was sent back to review in the meantime (`server.ts` 6118);
  `security-audit.md` line 23 asks for explicit promotion from `ready_to_publish`. `LiveIsSignedOff` holds all the same. A PATCH of a review record
  accepted before the publication changes the record of the live package (6029), and a checklist may change after it was computed (6116).
- A self-service password change whose current password was reset after it was checked still commits (5069), and the session it
  returns may carry the revision of a later reset (5085), which is why `SessionsAreProved` is stated for the sessions of logins and MFA
  changes. A request that was authorised before its actor was disabled runs to its end (5008).
- Two instances that start on an empty database both insert the first administrator; the unique name makes one fail to start
  (`postgres-admin-store.ts` 691).

Consequences of crashes and of files:

- `docs/private-release-handoff.md` line 134 says "Finalization persists the packet identity before transmission". A second run for the same payload reads the request file that
  the first one has written and not synchronised yet (`private-handoff-client.ts` 229-240) and transmits; a loss of power may then take the
  identity away. `ImplementsCustody` holds: a later run delivers under a new identity.
- A sender that is killed while it writes its request or receipt file leaves one that does not parse, and every later run for the
  payload throws (235, 258-264) until somebody removes it; the same holds of a receiver's lock, which the document leaves to its owner.
- The county commission (`collect-fulton-officeholders.ts` 34) waits only after a failed collection, not after one that was killed, although
  `docs/fulton-officeholders.md` line 26 says "A six-hour minimum interval applies to refresh and failed retries."; and an import may replace its records by older ones
  (`fulton-officeholder-storage.ts` 128-137). With `Guarded = FALSE`, TLC finds `PublisherIsSpared`, `NeverGoesBack` and `SuccessIsStored` violated.
- A command that cannot write its token leaves a lock that no command removes (`fulton-county-officeholder-storage.ts` 115-121). A replacement that is cut between the backup and
  the rename leaves the accepted envelope as its own predecessor, which is why `PredecessorIsKept` allows it.
- The state ballots' worker leaves its lock when its last receipt cannot be written (`manage-state-ballot-automation.ts` 52). The API and a
  worker that fetch at the same time may store the older evidence last (`state-ballot-storage.ts` 146): `OlderOnlyFromElsewhere` is what remains. A
  collection is cached from the moment it was stored, so it is used for longer than four hours after it was fetched, by the time storing took
  (`state-ballot-repository.ts` 282); and when pending evidence, or a collection that must be stored, could not be, nothing is cached
  and the next lookup fetches again (293-297, 279), which is why `FetchesAreSpared` counts from failed fetches and collections in use. Two processes that rotate the ZIP log remove each other's backup (`zip-lookup-logger.ts` 88). An import that is
  killed inside one write leaves a snapshot that does not parse, and the startup refuses it (`coverage-repository.ts` 385).

Edges of the login throttle, all of them in the model: a limit of one acts as a limit of two, because the first failure never locks
(`admin-login-throttle.ts` 136-145; `Limit`); a failure that arrives after the window of a locked bucket starts it again and lifts the lock
(`LocksHold` names it); failures that find the table full are not counted (137; `uncounted`). The state is one process's and is lost with it.

## 7. Plan

Done, in this order, the most important behaviour first: `AuditTrail` with `AuditLedger`, since every mutation rests on it;
`AdminAccounts`; `CoveragePromotion` with `ActiveCoverage`; `ContentPublication`; `GuidePackages`; `PrivateHandoff` with `HandoffCustody`;
`LoginThrottle`; `DirectoryCollection`; `RepresentativeLookups`; `StateBallots`; proofs of every safety property and refinement of these runs.

What is left:

1. In `StateBallots`: reviewed imports beside automatic collections, cycle families, several sources of a state.
2. `Corrections`: `updateCorrection` and `updateSource`, the public flags editors may not change, their events.
3. Startup of the store on an empty database by two instances; the rate limit store; the rotation of the ZIP log.
4. Proofs about the extensions of `StateBallots` and about `Corrections`, once they are modelled.
