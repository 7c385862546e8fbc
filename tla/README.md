# A verification project for Midden

Midden is a self-hosted file and paste service: a Rust server (axum, tokio, sqlx) over SQLite or
PostgreSQL, with the bytes of files in an object store (local directory or S3) under their SHA-256.
This directory holds TLA+ models of its core, TLC configurations that check them on small
instances, and proofs, checked by TLAPS, of what holds for every instance.

Run a model with `tlc -config MCBlobStoreFaults.cfg MCBlobStore.tla`, the proofs with
`tlapm BlobStoreProofs.tla`. `PROJECT.json` lists every run with what it shows, every definition with
the lines of the code it models, and a mutation of the code that each property catches.

## 1. The system

### Components, their state and their operations

| component | state | operations | source (`src/src/`) |
|---|---|---|---|
| blob store | tables `blobs` (hash, ref_count) and `files`; the objects; the lock of each hash; `upload_quota_lock` | upload, delete, moderate, expire, attach a thumbnail, collect garbage, import, export, verify | `db/blob_mutations.rs`, `db/mutations.rs`, `db/items.rs`, `storage.rs`, `commands.rs`, `jobs.rs`, `web/upload.rs`, `main.rs` |
| request limits | a map per process, or table `rate_limit_buckets` | check, sweep, clean up | `rate_limit.rs`, `db.rs`, `db/auth.rs` |
| moderation | `state` of files and pastes, `reports`, `moderation_notes`, `scanner_results` | report, decide reports in bulk, set a state, retry scans | `db/moderation.rs`, `db/mutations.rs`, `scanner.rs`, `jobs.rs` |
| pastes | `pastes`, `paste_revisions` | create, edit, delete by hand, in bulk or with a token, expire, claim | `db/items.rs`, `web/pastes.rs`, `web/items.rs` |
| quotas | none of its own: sums over `files` | check before an upload | `quota.rs`, `web/upload.rs` |
| accounts | `users`, `sessions`, `api_tokens`, one-time tokens, `invite_tokens`, OIDC identities | register, log in, reset, disable, change role, deactivate | `db/auth.rs`, `web/auth.rs`, `web/account.rs`, `web/admin.rs`, `web/oidc.rs` |
| settings | table `settings` over the configuration file | load, save a document, append a blocked hash | `db/settings.rs`, `web/admin.rs` |
| background job | the time of the last storage verification | one pass after another, every `interval_seconds` | `jobs.rs` |
| scratch files | files in the temp directory | create, remove, reclaim by age | `web/upload.rs`, `scanner.rs`, `jobs.rs` |
| delivery | none of its own; shared caches and signed URLs outlive a request | build links; serve a file, a range, a thumbnail, a preview | `web/files.rs`, `web/support.rs`, `web.rs` |
| migrations | table of versions | apply what is missing, under a lock | `db/migrations.rs`, `db/schema.rs` |
| processing | none | strip metadata, measure, make thumbnails | `processing.rs`, `util.rs`, `web/upload.rs` |
| browse | none; the cursors are in the links | list a page of files and pastes | `web/browse.rs`, `db/search.rs` |
| templates, metrics, mail, configuration files | none, or counters | read and render | the rest |

### How they interact

Every request is a tokio task; the background job is one more task in each server process; the CLI
(`midden storage gc`, `import`, ...) is a process of its own on the same database and object store.
They share the database (through a connection pool), the object store, and, within one process,
`upload_quota_lock`. Uploads and everything that may remove an object take `upload_quota_lock`
first, then the lock of the hash: an advisory lock in PostgreSQL, SQLite's one write lock
otherwise, held by a transaction that stays open across calls to the object store
(`BlobMutation`). Generated thumbnails are blobs too, found by the hash of their own bytes, and are
attached by a job pass that takes only the lock of the hash. The job, and `storage gc`, read a list
of files and work through it.

### What is hard

- Content addressing: one user's deletion and another's upload of the same bytes meet at one object.
- Two stores without a common transaction: objects are put before the row commits and removed
  before the row goes; calls fail, futures are dropped when a client goes away, processes die.
- Lists read first and worked through later: expiry, garbage, thumbnails, scanner retries.
- A reference count kept with a floor at zero, where a mistake stays hidden.
- Counters that must forget finished windows and only those.
- Checks in one statement and changes in another: last owner, quotas over several processes,
  paste revisions, passwords and the rows they sweep, OIDC identities, settings forms.
- Layers: settings come from a file, a table and the environment; a form writes back what it was
  shown, and a process with another environment may be the one that reads it.
- A job in which the first error ends the pass, and whose selections start with the oldest rows.
- Files that nobody owns: scratch files of a request that was dropped or a process that died.
- Links built by one part of the code and answered by another, on two origins.

### What makes each component correct

- Blob store: the count of a blob is the number of files that need it; a live file's object and
  thumbnail exist; a retired file never returns; nothing leaks while nothing crashes; rows nobody
  needs go in the end; every task ends. In one sentence, `FileService`: what is published stays
  readable until it is retired.
- Request limits: no window lets more than its limit through; nothing still counting is forgotten
  (in memory this is kept only for as long as the shortest of all windows: finding 3).
- Moderation: reports are decided once and all or nothing; a retired file is not revived; a
  decision is overwritten only by a later one.
- Pastes: every edit keeps what it replaced; what a moderator withheld stays so; an owner stays.
  Quotas: an upload is admitted against all usage.
- Accounts: an enabled owner remains; an owner is not demoted by a login; an invite or one-time
  token is used once, and never after it was revoked; an identity never changes hands; a changed
  password ends what older ones opened; an address counts as verified for a reason.
- Settings: what is in effect is valid; an environment never becomes permanent; a blocked hash stays.
- Job and scratch files: each kind of work is reached in the end; what is abandoned is reclaimed.
- Processing: an image loses its metadata and not a byte more, and its size is known.
- Migrations: a recorded version is applied; nobody is verified by an upgrade who should not be.
- Browse: a reader is shown nothing twice and misses nothing. Delivery: links lead to the file, and
  bytes go only to those who may view it.

## 2. The modules

| module | what it is |
|---|---|
| `FileService` | the abstract promise of the blob store: what is published stays readable until it is retired |
| `BlobStore`, `MCBlobStore`, `BlobStoreProofs` | the detailed blob store, which implements `FileService`; its instances; its theorems |
| `RateLimit` | the request limits, both back ends |
| `Moderation`, `MCModeration`, `ModerationProofs` | who decides about items: report batches, moderators, owners, scanner retries, expiry |
| `Accounts`, `AccountsProofs` | roles, disabling, and the last owner |
| `Invites`, `InvitesProofs` | invitations and registrations; the theorems of this row and the next |
| `Identities`, `MCAccounts` | OIDC identities, composed with `Invites`; the instance of these three rows |
| `Credentials`, `MCCredentials`, `CredentialsProofs` | passwords, sessions, API tokens, one-time tokens |
| `Pastes`, `Quotas` | pastes and revisions; how much an owner may upload |
| `Stripping`, `MCContent` | the metadata of images, and their size; the instance of the last two rows and of `RateLimit` |
| `ContentProofs` | the theorems of `Pastes`, `Quotas` and `RateLimit` |
| `Jobs`, `Scratch`, `Housekeeping` | the passes of the job; scratch files; a server that has both |
| `Settings`, `MCSettings` | the layers of the runtime settings and their two writers |
| `Migrations` | ledger, adoption and backfill, when processes start |
| `Browse`, `Delivery` | the public listing; links, routes, caches and ranges |
| `MCOperations` | the instance of the four rows above, but `MCSettings` is one of its own |
| `OperationsProofs`, `ServingProofs` | the theorems of `Scratch`, `Housekeeping`, `Settings` and `Migrations`; of `Browse`, `Delivery` and `Stripping` |

Every specification declares its parameters as CONSTANTS with one named assumption. The `MC`
modules hold only what an instance needs: orders, symmetries, constant functions. Right before some
actions stands a second form of them, marked "Mutant": the action with a plausible mistake in it.
No next-state relation uses these; they are there to show that the properties notice the mistake
(`PROJECT.json`, "mutants").

### BlobStore

| in the model | in the code |
|---|---|
| `state`, `blobOf`, `thumbOf`, `due` | columns of `files`; `due` is "`expires_at` is not after now" |
| `rows`, `refCount`, `objects` | the rows of `blobs`, `ref_count`, what the object store holds |
| `lock[h]` | the advisory lock of `begin_blob_mutation`; with `SingleWriter` one open mutation stops all writers, as SQLite does |
| `quotaLock[p]` | `upload_quota_lock` of process `p` |
| `pc`, `hash`, `item`, `existed`, `todo`, `expiring` | where a task stands, and its local variables |
| `lateDeletes` | deletes the object store accepted from a caller that has gone |

A transaction that awaits nothing but the database is one step. A `BlobMutation` is several:
begin, ask the store, put or delete, commit; what it wrote is seen from its commit step on.
Takedown and legal hold are one state, `withheld`, for no blob operation tells them apart.
Errors are steps of their own (`UploadFail`, `UploadCommitUnknown`, `CleanupFail`); `Drop` is any
other way a task ends early: an error that leaves the handler, a dropped future, a dead process.
`DropDelete` and `LateDelete` are the case in which the object store finishes a delete after that.

### RateLimit

`CheckMemory` is `RateLimiter::check`, one step under its mutex; `CheckDatabase` is the one
statement of `Database::check_rate_limit`; `Cleanup` is the job's `DELETE`; `Restart` empties the
map of a process. A check works with a time it read up to `Lag` seconds ago, for it waits for the
mutex or a connection after reading the clock. `admitted` is a history variable that only the
properties read. Every action has a window of its own. `Spans` says how long a count lasts at least:
in memory as long as the shortest of all windows, since a check of any action sweeps the buckets of
all by its own window; with the database as long as its own window or the retention of the job,
whichever is shorter. What the limiter promises is stated in these, without a condition on the
configuration; that it is less than the comment in the code says is finding 3. Limits and windows stay
as they are configured while the model runs.

### Moderation

| in the model | in the code |
|---|---|
| `state`, `due` | `state` and `expires_at` of files and pastes |
| `report`, `about` | `reports.state`, and the item a report names |
| `failed` | files with a failed verdict in `scanner_results` that no success has replaced |
| `rowLock[x]` | the transaction that holds row `x` after `SELECT ... FOR UPDATE` |
| `pc`, `plan`, `target`, `seen` | where a request or a pass stands; what a batch will write and has still to lock; the item a deletion has read; the files a retry pass has listed, with the states it listed them in |

A moderator's transaction (`ModerateReports` or `ModerateItem`, `LockRow`*, `Commit`) locks one row
per step, reports before items and both in the order of their ids, and checks each as soon as it
holds it. Its updates and its commit are one step: until then nobody else sees them. A single `UPDATE`
is one step that waits until the row is free and reads its condition then. A bulk deletion is one
step, for it is one transaction that does not stop in between. A retry pass is a list
(`RetryList`), then for each file a scan and, if the verdict differs from the state it listed, a
write; the scan takes minutes, so anything may happen before the write.

### Accounts

| in the model | in the code |
|---|---|
| `role`, `enabled` | `users.role`, `users.is_disabled` |
| `pc`, `req` | where a request stands; what it asks for, about whom, and whether its actor is an owner |
| `req.found` | history: the enabled owners when a request that may remove one last looked |

None of these handlers opens a transaction. An admin's request reads its actor, then its target
(`ReadTarget`), then counts the enabled owners if it would remove one (`CountOwners`), and then
writes (`SetRole`, `SetDisabled`), four statements with anything in between. An OIDC login reads the
account, decides, and writes the role of its claims with the same unconditional `UPDATE`. Deactivating
oneself and the operator's commands do not look at the owners at all. No decision here tells a
moderator from a user, so `Roles` has three values; and the accounts are called `Person`, as `User` is
those of `Invites`, of whom other columns are modelled.

### Invites

`account`, `invite`, `usedBy`, `revoked` and `expired` are columns of `users` and `invite_tokens`;
`account` is the role an account was created with (what becomes of roles later is `Accounts`).
A registration is one transaction in two steps: `SelectInvite` takes the row lock, and
`CommitRegistration` inserts the account, claims the invite and commits, or `Rollback` undoes it.
On SQLite there are no row locks, but of two transactions that both read an invite only one can write;
its behaviours are among those of the model. `origin` is a history variable: the invite an account
came from.

### Identities

Extends `Invites` with `identity` (`oidc_identities`), `hasPassword` and `linking`, where a callback
stands. A callback reads who the identity belongs to (`LinkRead` from the account page; `Adopt` or
`ProvisionRead` at a login), perhaps creates an account (`ProvisionWrite`), and links by an upsert
that leaves the row of another account alone (`Link`); no transaction holds these together, and
registrations, resets and another callback come in between. So does `DisableOrEnable`: the look-up of an
identity (`Found`) does not see those of disabled accounts, the look-up of an address does, so a callback
for the identity of a disabled account may adopt or create another and fails only at its upsert.

### Credentials

| in the model | in the code |
|---|---|
| `password[u]` | how often the password has been written: 0 is never, then 1, 2, ... |
| `flags` | the account exists, it has a password, `email_verified_at`, `two_factor_enabled` |
| `session`, `api`, `mailed` | rows of `sessions`, `api_tokens` and the three tables of one-time tokens |
| `pc`, `req` | the statement a request is about to execute, and what it carries from earlier ones |
| `via`, `over` | history: the password that a row's holder knew; that a sweep came while the row was under way |
| `cut`, `proved`, `vouched`, `cutOff` | history: what was swept; whose address a token or an identity proved; whom an invite let in, an administrator made or an operator took for an owner; whose registration was cut short |

Every handler is a sequence of single statements: a reset consumes its token (`Consume`, `MarkUsed`),
sets the password, marks the address verified, drops sessions, revokes tokens, signs in. `Drop`
ends any request anywhere. Accounts come into being in five ways. `SignUp` is `register` while sign-up is
open: `create_user` makes an account that counts as verified, and where mail is configured
(`MailEnabled`, fixed for a behaviour) a second statement takes that back. `SignUpInvited` is `register`
under `invite_only`, which asks for no verification, and `AdminCreateUser` neither does; the invite
itself is in `Invites`. `UpsertOwner` is `owner create` and `owner reset-password`, which makes an account or
takes the one with the address, verifies it, and writes its password over without sweeping sessions or
tokens. `OidcSignUp` is an account from an identity. A login that checked the old password, or a second-factor code sent for
it, can still create its session after the sweep; `over` marks exactly these.

### Pastes and Quotas

`Pastes`: `paste` and `revisions` are the two tables; a text is a number. An edit is `EditStart` (the
handler's look-up and permission check), `EditRead`, `EditInsert`, `EditWrite`, without a transaction.
A deletion looks up and checks, and writes later. A moderator's decision is one step. `had` and
`blind` say which texts a paste has lost, and which of them an edit overwrote without having read
them. `late` marks a deletion that had looked before the moderator decided.

`Quotas`: `EnforceQuota` takes `upload_quota_lock` of a process and compares `Usage`, the sums of
`file_usage_for_user`, with the limits; `Publish` inserts the file and releases the lock. Claims,
moderators, deletions and time (`Age`) take no lock. `came` says how a file came to count.

### Jobs, Scratch and Housekeeping

`Jobs`: `job[r]` is how far a pass has come (`sweep`, `retry`, `process`) and the rows it has
selected; `row` the files, with what decides whether they are selected: verdict, metadata, thumbnail,
object. `StartPass` to `FinishPass` are `run_pass`; an object that cannot be read ends the pass.
`due` is the loop's memory of the last verification, lost with the process. Expiry and blobs are in
`BlobStore`, retries against moderators in `Moderation`; here it is their order and limits.

`Scratch`: `holds[u]` is what an upload is at, and the two files it may have: its upload and what it
is writing. A field of the form becomes the request's when it was read (`FieldRead`); until then
nothing removes it when the request is dropped (`FieldCut`), nor what a stripper writes (`StripCut`).
The file of a fetched URL is guarded all the time. `left` says how a file came to be nobody's.
`SweepScratch` is the job's `cleanup_temp_files`, by age.

`Housekeeping` composes them: the sweep step of a pass is `SweepDone /\ SweepScratch`, and `Kill` ends
passes and uploads together.

### Stripping

`image` is a file of bytes, put together segment by segment, beside what is to be left of it (`kept`).
Its history `trail` says for every segment where it begins, and what is to be written by then.
`JpegTurn` and `PngTurn` are one turn of the loops of `strip_jpeg_metadata_file` and
`strip_png_metadata_file` over any bytes, and `StripJpeg` and `StripPng` take one over the image; the
phase `done` with the bytes of the upload is `Ok(None)`, which leaves the file alone. `Dimensions` of `PreviewOf` is what `image_dimensions` reads when the file is published.

### Settings

`stored` are the fields with a value in the table, `env` what the environment of the process owns,
`FileSettings` the rest; `Effective` is their overlay. `OpenForm`, `SaveRead` and `SaveWrite` are the
settings form: the page, the handler's reading and checking, and the transaction. `BlockStart` and
`BlockWrite` are a moderator's `block_hash`. `RestartWith` starts the process with another environment;
forms stay open in browsers. `since` of a form are the hashes that others blocked while it was open
(`Meanwhile`), which the properties read. Two groups stand for fourteen and `default <= max` for all validation.

### Migrations

`db` is the committed schema, as sets of column groups, with its ledger; `work` the transaction of the
process that holds the lock. `Deployed` are the databases one may find: fresh, of a release without
a ledger (with any subset of the later columns), with a ledger of this, an older or a newer binary or
a fork. `StartMigration` adopts or refuses, `ApplyMigration` applies the least version that is missing,
`CommitMigration` publishes all of it, `CrashServer` loses it.

### Browse and Delivery

`Browse`: `walk`, `cursor` and `page` are a reader who follows the links to older items; `ReadFiles` and
`ReadPastes` are the two queries of a page, with publications, withdrawals and ticks of the clock
in between. `shown`, `again` and `whole` are history.

`Delivery`: `mode` are the settings that matter, `entry` the file. `LinkTo` builds a link as
`web/support.rs` does; `Slug`, `Raw`, `Thumbnail`, `Internal` answer it as `web/files.rs` and the
middlewares do, for each visitor on each host. `Fetch` sends a response through a shared cache.
`Served` are the byte ranges that `serve_file` can send.

## 3. What the runs check

| run | instance | shows |
|---|---|---|
| `blobs_faults` | PostgreSQL, 2 hashes, 2 files, 2 tasks in 2 processes, import, all faults | `StoreInvariant` (the inductive invariant of the proofs), `NoDanglingReference`, `ExpiryReadAgain`, `RetiredForever`, `ImplementsService` |
| `blobs_sqlite` | the single writer, 2 processes, all faults, late deletes | `RefCountExact`: the database stays right whatever the object store does |
| `blobs_live` | no faults, the job and the requests of one process, fairness | `OrphanHasOwner`, `OneStorageTaskPerProcess`, `GarbageReclaimed`, `TasksEnd` |
| `blobs_late_dangling` | SQLite, 2 processes, late deletes | **violated**: `NoDanglingReference` (finding 1) |
| `moderation_batches` | 2 moderators, 2 reports, a file, a paste | `ModerationInvariant` (inductive), `NoStandstill`, `RetiredFilesStay` |
| `moderation_retries` | a retry pass, a moderator, a deleter, 2 files of which one is hopeless, a paste, fairness | `WithheldKept`, `RetiredFilesStay`, `VerdictsResolved` |
| `accounts` | 3 accounts, 2 requests of admins; 2 registrations, 2 invites, 3 addresses, an identity and 2 callbacks, accounts disabled and enabled | `AccountsInvariant` (inductive), `LastOwnerKept`; `IdentitiesInvariant` (with `InvitesInvariant`; inductive), `AdmitsExactlyOne`, `RevokedAdmitsNobody`, `IdentityStays` |
| `credentials` | 1 account, made in each of its ways, 2 requests, 2 sessions, an API token, a one-time token | `CredentialsInvariant` (inductive), `VerifiedForAReason` |
| `content` | a paste, 2 requests, 3 texts; 3 files, 2 processes; 2 limited actions, one with a longer window, both back ends, clocks a second old; images of up to 2 segments and an end | `PastesInvariant`, `HistoryKept`, `OwnerStays`; `QuotasInvariant`; `LimitsInvariant`, `CountsLast`; `StrippingInvariant` |
| `content_sweep` | the same, in memory only | **violated**: `NoCountLost` (finding 3) |
| `operations` | the server's own work (below; settings with one form and one moderator), fairness | `ScratchInvariant`, `ScratchReclaimed`, `ImageProcessed`, `VerifyRuns`, `SettingsInvariant`, `HashesKept`, `MigrationsInvariant`, `BrowseInvariant`, `DeliveryInvariant` |
| `settings_env` | one environment from start to end | **violated**: `EnvNeverStored` (finding 2) |

`accounts`, `content` and `operations` hold components that share no state. The variable `part`, chosen
at the start, says which of them moves; the behaviours of each are those it has alone, and a run remains
one question: who gets in and in which role, is what users put in kept and counted right, does a server
keep going. In `accounts` the names of requests, registrations and callbacks are the same, and those of
accounts, so that one set of permutations does for all. In `operations` the
passes are tried twice, once beside uploads that leave scratch files, with a file whose object was
lost long ago so that every pass ends at it, and once beside files that come, go and lose objects.

**Bounds.** The sizes of the constant sets, and these:

| bound | of | why it is enough |
|---|---|---|
| `Eternity` = 6, windows of 3 and 4, `Retention` = 3 | `RateLimit`, the clock | the end of one window and the beginning of the next, a sweep by the shorter window and a clean-up while the longer one lasts, and a second of lag: with `u + Lag <= s + w` in `Stretch`, a second more than is claimed, the run finds a violation |
| limits of 1 and 2 | `RateLimit` | a window that its first request fills, and one that it does not |
| `MayExpire` | `BlobStore`, `Moderation` | items whose expiry can come; fewer than all in `blobs_live`, where one that expires meets one that does not, and none in `moderation_retries`: expiry meets the moderators in `moderation_batches` |
| `RetryLimit` = 2 | `moderation_retries` | the hopeless file takes one of two places in every pass, the other file must get the other |
| `MaxPassword` = 2 | `Credentials` | an old password and a new one |
| `MaxText` = 3 | `Pastes` | a first text and two edits, which overlap or do not |
| `MaxUpload` = 2, `MaxLost` = 1, `RetryLimit` = `MetadataLimit` = 1 | `Jobs` | an older file that fills a selection of one, and a younger that waits for it; an object that is gone, or none |
| `MaxSegments` = 2, `PreviewBytes` = 24 | `Stripping` | 24 bytes (256 KiB in the code) are just what the size of a PNG is read from, so that one more segment pushes a size out of the preview |
| 1 upload, 3 scratch names | `Scratch` | its upload, what replaces it, and one that was abandoned or belongs to a scan |
| 3 environments, 2 hashes, a form, a block | `Settings` | the environment owns nothing, a valid field, a field that is valid only for some tables; two hashes are blocked around one form |
| binaries that know 5 and 6, of versions to 7 | `Migrations` | an older and a newer binary on a database of either, and a database newer than both |
| `LastSecond` = 2, 2 ids, `MaxItems` = 3, `PageSize` = 1 | `Browse` | ties within a second, a listing longer than the other, three pages |
| every mode, 5 visitors, `MaxSize` = 2, `MaxCached` = 1 | `Delivery` | all combinations of settings and roles; ranges below, at and past the end |

- Blob store: two hashes and two files are the least at which an upload, a thumbnail and a deletion
  can meet at one object while another is unaffected, and at which one file's thumbnail is another's
  bytes. Two tasks make every pair of operations interleave.
- Moderation: two batches over two reports about the same item, or about a file and a paste each, are
  every way in which two transactions can wait for each other.
- Accounts: two owners are needed for each to be the other's target, the third account is for those
  who are made owners meanwhile. Two requests are enough for one to go by what another changes.
- Images: a payload is empty, looks like a marker, or fills a preview; two segments and an end put
  metadata before, between and after what is kept, and the frame header inside the preview or past it. An
  image is cut at every byte of its last segment.
- Invites: three addresses and two registrations let one invite try to admit two, and another go on;
  two callbacks of one identity are the race its link can lose. Only an account to which the identity
  leads is disabled (`SomeDisabled`): of the others a callback asks it only if it comes from one, and
  ends there.
- Credentials: rows of different accounts never meet, so one account is enough; one request sweeps
  while the other is between its check and the row it creates.
- Quotas: limits that one more file of a byte breaks, and an upload in each process.

Each of these invariants is the inductive one that its proof uses. The proofs have none of these bounds.

**Deadlock** is checked but in `content`, `content_sweep`, `moderation_retries`, `accounts`, `operations` and
`settings_env`. In these all seconds, files, addresses, invites, scratch names or items are used up in
the end, or nothing is left to change. A deployment just has more of them.

**Fairness.** Clients are never required to do anything.

- `BlobStore`: `WF(TaskStep(t))`, a started task keeps being polled. `SF(MutationBegin(t))`, the
  waiters of a PostgreSQL advisory lock are served in turn (`blobs_live` uses PostgreSQL; SQLite
  retries within `busy_timeout` and gives no such promise). `SF(JobStart(t))`: the timer of the job
  keeps firing, and tokio's mutex, which `upload_quota_lock` is, queues its waiters first come, first
  served. This run has no faults: a clean-up that failed is retried by the next pass, but one that
  fails for ever reclaims nothing.
- `Moderation`: `WF(ModeratorStep(m))`, a transaction that was begun goes on or is dropped by the
  database, and holds no row for ever. `WF(ScannerStep(s))`, the timer again. `SF` of the write of a
  retry, which waits for a row. `SF` of a scan without failure of each file that is not hopeless:
  this says no more than that a scanner that is asked again and again answers some time, and it is
  the premise of the property.
- `Housekeeping`: `WF` of the steps of the loop's passes, which are one task that is polled and a
  timer that fires; `WF` of each scratch file's growing old, which is time passing (a file that is
  written on becomes fresh again). Nothing is assumed of the server staying up: the properties end
  where it goes down. The code gives liveness only under conditions, and the properties say which:
  `Stuck`, a file the passes look at has lost its object, and `CrowdedOut`, older images that can never
  have a thumbnail fill the selection. That scratch files are reclaimed has neither, since the sweep
  comes first.

## 4. What is proved

All theorems hold for any value of the constants under the named assumption of the module, which
says which sets are finite or disjoint and nothing about their sizes. Where a theorem needs more, it
says so in its statement, and the reason is given here. Each follows from an inductive invariant:
the lemmas `...Start` and `...Step` (or one per action) say that it holds at first and is kept.

**`BlobStoreProofs`**

- `TypeCorrect`: `Spec => []TypeOK`.
- `RefCountsExact`: `Spec => []RefCountExact`, with faults and late deletes. The count alone is not
  inductive: an upload that commits adds one to the count *and* one file, which needs that its row
  was not there before and that no other upload inserts the same. That is `CountInvariant`: types,
  `NamesOK`, `FreshItems` and the count itself.
- `StoreConsistent`, `NothingDangles`: `Spec => []StoreInvariant` and, from it, `Spec =>
  []NoDanglingReference`, if `~LateDeletes`. The inductive invariant is `StoreInvariant`: the lock
  of a hash is held by exactly the task inside its mutation (`LockHeld`), so the answer of the
  existence check (`ObjectReady`) and of the reference check (`StillUnreferenced`) stay true while
  they are relied upon. Uploads and thumbnails keep the latter because a new reference to a hash
  needs its lock. The assumption `~LateDeletes` is necessary: `blobs_late_dangling` shows what
  happens without it.
- `NothingComesBack`, `ExpiriesReadAgain`: the action properties `RetiredForever` and
  `ExpiryReadAgain`.
- `StoreImplementsService`: `Spec => ImplementsService` if `~LateDeletes`: every step is a step of
  `FileService` or changes nothing it can see.
- `StorageTasksTakeTurns`: `OneStorageTaskPerProcess`, from `QuotaLockHeld`: whoever is in the steps
  that need the quota lock of its process holds it, and a lock has one holder.
- `OrphansAreOwned`: `OrphanHasOwner`, from `StoreInvariant /\ OrphansHandled`, if `~Faults`,
  `~LateDeletes` and nothing is imported: each of the three leaves objects without a row and without
  anybody to remove them (a death between the put and the commit is the hazard of
  `web/upload.rs:953`; an import puts before it has a task that would clean up). The clean-up has
  removed the object when it removes the row, and an upload that finds the object and no row adopts
  it.

**`ModerationProofs`**, all from the inductive `ModerationInvariant`: a transaction has locked, or
will lock, what it is going to write (`PlanLocked`, `ItemsLocked`), holds only rows that come before
those it still needs (`LocksInOrder`), and what it found out about a row it holds is still true
(`ChecksHold`), because nobody else writes a locked row.

- `DecisionsNotStale`: `Spec => []ModerationInvariant`.
- `RetiredStay`, `WithheldStays`, `ReportsDecidedOnce`: the action properties `RetiredFilesStay`,
  `WithheldKept` and `DecidedOnce`.
- `NoMutualWait`: no two transactions wait for each other. `ModeratorsGoOn`: nor does any longer
  ring (`NoStandstill`), if the tables are finite: of all rows that are held take the last; who
  holds it waits for none, for what it needs comes later. That a finite set has a last row is the
  lemma `FirstAndLast`.

**`AccountsProofs`**, from `AccountsInvariant`: a request about to remove an owner has found more
than one (`CheckedOwners`).

- `OwnersCounted`: `AccountsSpec => []AccountsInvariant`.
- `LastOwnerStays`: `AccountsSpec => LastOwnerKept`. The exceptions that `LastOwnerKept` names are real: the
  code counts in one statement and writes in another, so two requests in which two owners demote
  each other can leave nobody (`found` is then not `EnabledOwners`, and only a request that may remove
  an owner is excused by that); deactivating oneself and the
  operator's `user set-role` count nothing. The theorem says that there are no others; in particular
  one request at a time never removes the last owner.

**`InvitesProofs`**, from `InvitesInvariant`: a registration holds the row of what it has read
(`InviteHeld`), so it is still unused and not revoked when it is claimed.

- `InvitesHeld`, `OneAccountPerInvite`, `RevocationsHold`: `InvitesInvariant` and the two others.
- `IdentitiesImplementInvites`: a behaviour with callbacks is one of `Invites`: a callback creates
  an account by its `CreateUser`, and does nothing else to its state. So the three hold there too.
- `IdentitiesLead`, `IdentitiesStay`: `IdentitiesInvariant`, and from it `IdentityStays`. Neither of
  the two reads of a callback is locked; what saves the link is the condition of its upsert.

**`CredentialsProofs`**

- `SweepsAreComplete`: `Spec => []CredentialsInvariant`. It is about two sweeps: of sessions, by a reset
  or a change of password, and of API tokens, by a reset. It says that a row which knew an older
  password than the sweep was for is gone (or revoked), *or* was made by a request or a code under way
  when it swept (`over`); such rows do outlive it. It says nothing of disabling an account, of one-time
  links, or of the owner command, which sweep nothing. That (`SweptSessionsGone`,
  `SweptTokensRevoked`) is a statement about rows; what keeps it is about the requests that will write them: a request is about an account that is there
  (`RequestsHaveAccounts`), it knows at most the present password, and sweeps are of past ones
  (`PasswordsWereSet`), and one that was overtaken by a sweep is marked, also when a mailed code
  carried it from one request to the next (`OvertakenMarked`).
- `VerifiedIsProved`: `VerifiedForAReason`. Only open sign-up asks for a proof of the address
  (`docs/src/operator/authentication.md:31`); for accounts that came by an invite, an administrator or the owner
  command somebody stands (`vouched`).

**`ContentProofs`**

- `QuotasHold`: `QuotasInvariant`. A check says that there is room *now*; it must say so until the
  file is there, although files move between owners meanwhile (`RoomForUpload`). Usage is a sum over
  a set, which the library folds with a recursive function. The proof says what such a sum is
  without it: the number of dots, if each row has as many as its size (`Dots`), and so a
  `Cardinality`. Sums then grow and shrink by the theorems on finite sets. The induction this takes
  once, over the subsets of a finite set, is `SubsetInduction`, from the theorem on least elements
  of a well-founded relation, which needs no operator as a parameter.
- `NoBucketOverflows`: a key has one bucket, which never counts past its limit.
- `CountsSurvive`, `LimitsHold`: `CountsLast` and `LimitsInvariant`, for any limits, windows and
  retention. `LimitHolds` says nothing of buckets. `CountsAccount` joins the two: what a bucket counts
  bounds what was let through since it was made, and with the limit added, what was let through
  since any second in which the one before it could not yet have ended (`BeganAt`). A check that
  works with an old time can make a bucket that began before the sweep that made room for it, which is
  why the lag is taken off the stretch.
- `VerdictsAreKept`: `PastesInvariant`; `RequestReady` is what a request still knows of a paste
  although nothing is locked. `EditsKeepHistory` and `OwnersStay`: `HistoryKept` and `OwnerStays`.

**`OperationsProofs`**

- `ScratchHeld`: `ScratchInvariant`. `NamesApart` is the part without which a request that is
  dropped could take another's file with it.
- `ServerHoldsScratch`: the same of `Housekeeping`, since each of its steps is one of `Scratch` or
  leaves it alone.
- `SettingsHold`: `SettingsInvariant`, that only two ways lead from the environment into the table;
  a form that is about to be saved was checked with the environment of this process and has from an
  environment only what it was shown (`FormsInPlace`), and a block falls back to what the file and the
  environment say while its group has no row (`BlocksInPlace`). `BlockedHashesStay`: `HashesKept`.
- `MigrationsHold`: `MigrationsInvariant`. A transaction has what its database had when it began,
  and more (`TransactionInPlace`): nobody else may write meanwhile. And a ledger that is not empty
  has versions 1 to 4, so only a database without one can get the backfill of version 2.

**`ServingProofs`**

- `WalksAreWhole`: `BrowseInvariant`, for pages of any size. A reader's cursor walks down the order
  of the listing, what was shown is at or before it, and what was not shown is behind it
  (`WalksDown`).
- `FilesForViewers`: `DeliveryInvariant`; of ranges this is arithmetic for sizes up to any
  `MaxSize`.
- `ImagesFollowed`, `MetadataStripped`: `Followed` and its part `StrippedExactly`, for images of any
  number of segments and a preview of 24 to 200 bytes (a payload as long as it still has a length of
  one byte). The invariant is about positions: from the first segment of the image each turn leads
  to the next one, with what is to be left so far, and from the last to the end (`TrailLeads`); and
  the rewriting is at one of them (`OnTrail`). A turn looks at nothing behind the segment it passes
  (`TurnReads`), so what is appended to an image, or cut off its last segment, leaves the turns
  before alone; where the cut is, the turn finds the segment torn (`TurnTorn`); and a turn leads to
  one place (`TurnIsOne`). That each thing written is a segment to the turn that meets it
  (`JpegSegment`, `PngChunk`, `JpegEnds`, `PngEnds`) is arithmetic on where its marker, its length
  and its end come to lie.
- `DimensionsRead`: `StrippingInvariant`, with `DimensionsKnown`. `jpeg_dimensions` is a second walk
  over the bytes, a recursive function, which first has to be shown defined (`SizeFromIs`): what it
  finds at a position depends only on those behind it, so there is no greatest position without a
  value, by the theorem on least elements. The invariant then says what is readable from the part
  written so far and from whatever begins like it, as a preview does: before the frame, that the walk
  is at the end of that part or ends without a size (`NoFrame`); behind it, the size (`Readable`).
  Endings add nothing to it (`EndingUnread`).

**Only model-checked.** Liveness, which the prover cannot express:
`GarbageReclaimed`, `TasksEnd`, `VerdictsResolved`, `ScratchReclaimed`, `ImageProcessed`,
`VerifyRuns`; with them `Jobs`, all of whose properties are of that kind.

**What the proofs found.** Some attempts failed for good reasons, and changed the model or a
property:

- `HashesKept` said that a form loses only hashes that it showed, or that a moderator blocked while
  it was open. With two administrators, and the run has one, this is false: the form that is sent
  last wins over the other form too (`web/admin.rs:896`). `since` records what either adds.
- `LimitHolds` was stated for a stretch as long as a window, with checks that lag by a second. That
  is false: a sweep drops a bucket, a lagging check opens the next one with an old time, and the
  requests of three buckets meet in one stretch. It takes a clock of five seconds with windows of
  three, and the run had four; it has six now.
- A session remembers the password that it last showed (`via`). Of two changes of password in one
  session the earlier one may be the last to write; the session then seemed older than it is, which
  takes a third password and so was beyond `MaxPassword` = 2. It remembers the newer one now.
- `NoStandstill` needs that the items of a decision, not only its reports, are locked in order or
  all at once (`ItemsLocked`); `Migrations` needs that `NoMember` is no account.

## 5. Findings

1. `commands.rs:256`: a clean-up whose future is dropped while it awaits the object store releases
   the guard of the hash; the delete may still happen, after an upload of the same bytes relied on
   the object (`blobs_late_dangling`). `db/blob_mutations.rs:8-10` promises that it cannot.
2. `commands.rs:39`: the first `block_hash` inserts the row of the scanning group as the settings are
   in effect, with what the environment overrides (`settings_env`); the values stay when the
   variable is removed. `docs/src/contributor/runtime-settings.md:14` says that an override never
   becomes permanent as a side effect of another edit.
3. `rate_limit.rs:38`: the sweep of the limiter in memory drops the buckets of all actions by the window
   of the action at hand (`content_sweep`). With `upload_file` at 3600 seconds and `login` at 300,
   as `midden.example.toml:195-203` has them, a login of anybody forgets what was uploaded more than 300
   seconds ago, and the limit of an hour becomes one per five minutes. The comment at `rate_limit.rs:35`
   speaks of finished windows, `docs/src/operator/security-policy.md:112` of the configured limit, and
   `config/validation.rs:127` asks only that windows are positive. What is left of the promise, the
   shortest of all windows, is what `content` checks and `LimitsHold` proves.

### Observations

Met while modelling; what the models say about them is in the properties named, where there is one.

- A form opened under one environment and sent to a process started with another persists the values
  it was shown (`leaked` in `SettingsInvariant`). A changed environment can also make settings
  that were valid when saved invalid, and every request then fails (`moved`).
- `db/auth.rs:3` says that the job never drops a row that is still counting; it does if a window is
  longer than its day, which nothing rules out (`Retention` in `Spans`).
- A second by which a check lags behind its clock costs the limiter one of the stretch for which it keeps
  its promise (`Stretch`): a lagging check can open a bucket that seems to have begun before the sweep
  that removed the one before it.
- `owner reset-password` writes a password over and leaves sessions and API tokens as they are (`UpsertOwner`);
  the documentation promises a sweep only of a reset by mail. The second statement of an open
  registration takes the verification back even if an operator has made the account an owner in between.
- `web/admin.rs:896` replaces the whole table with the form that was sent, so hashes that somebody else,
  another administrator included, added while it was open are gone (`since` in `HashesKept`).
- `web/oidc.rs:256`: a login decides on the role it read and writes without looking again, so an account
  that became an owner in between is demoted (`docs/src/operator/authentication.md:68` says never).
- A login, a second-factor code or a token request under way when a reset sweeps creates its row
  afterwards (`over` in `CredentialsInvariant`). A registration cut short between its two statements
  leaves an account verified that proved nothing (`cutOff` in `VerifiedForAReason`).
- Two edits of a paste that read the same text: one loses its text without a revision (`blind` in
  `HistoryKept`; `docs/src/user/pastes.md` says that each edit creates a revision record). An edit
  writes whatever the state has become, and a deletion that had looked before a takedown overrides
  it (`late`; `db/mutations.rs:28`).
- Claims do not look at expiry or at the quota, keep the delete token, and free the allowance of the
  anonymous; a second process does not wait for the first one's quota lock (`came` in `QuotaHolds`).
- `docs/src/contributor/uploads-and-processing.md:27` says that scratch files are guarded; those of a
  form field being read and of a rewrite being written are not (`ScratchInvariant`). The sweep gets them.
- Images that can never have a thumbnail stay selected, the oldest first, and with `metadata_limit` of
  them no younger one is reached (`CrowdedOut`). `verify_storage` comes last and does not run while a
  pass ends at a missing object, which is what it would report (`Stuck`).
- The backfill of version 2 verifies every account of a pre-ledger database that lacks any of the
  later columns (`complete` in `MigrationsInvariant`).
- A JPEG or PNG that ends inside a segment is stored as it came, metadata included, and so are metadata
  after the first scan of a JPEG (`web/upload.rs:723`). `jpeg_dimensions` reads restart markers,
  which have no length, as if they had one, unlike the walk that strips (`util.rs:179`,
  `web/upload.rs:686`); the format has them in scans only.
- A range past the end, or a header whose first range is not satisfiable, gets a 416
  (`web/files.rs:492`). A shared cache, or a signed URL, may serve a file that has become private until
  its time is over (`CachedForAnyone` says what was so when it was sent).

## 6. What is not modelled, and the plan

Left out of the modules above: visibility (but in `Delivery`), notes and audit events, which no other
decision reads; `export`, the report of `verify_storage` and the searches of accounts and
administrators, which only read; an unexpected column type, with which a migration fails; the
exchange with an OIDC provider before its callback; content types and headers other than
`Cache-Control`; GIF dimensions, the sniffing of content types, decoding and scaling of images, and
`processing.rs:121`, a walk in memory that only tests call. Parsing and defaults of the configuration,
templates, routing, OpenAPI and mail have no state, or their state is text. Four hazards have no property, and `PROJECT.json` says
why: an object put by a process that dies before the commit, which nothing reclaims; verdicts matched
by their wording and by the adapter's name; a crash between the results of a retry and the state they
call for; two bulk deletions that lock blobs in different orders.

Next, in this order:

1. The crash between a verdict and its consequence, as one more step in `Moderation`.
2. What `Jobs` promises within a pass: which rows a selection may leave out, as an invariant beside
   the liveness that is checked now.
3. The parsing of expiries, as a function against a definition over bounded inputs.
