# Formal model of the blog backend

This directory holds TLA+ specifications of the blog backend under `src/`, the
TLC configurations that check them on small instances, and proofs of their main
properties for every instance. The Go code is the reference: a definition names
what it translates in the `map` of `PROJECT.json`.

## 1. The system

A Go HTTP service (gin, GORM over MySQL, Redis, an S3-like object store, SMTP).
Several processes may run it; inside one, every HTTP request is a goroutine and a
handful of workers run on tickers. All shared state is in MySQL (REPEATABLE READ
transactions), Redis and the object store.

| Part | State it keeps | Operations | Interacts with |
|---|---|---|---|
| Moderation state machine (`service/moderation/transition.go`) | none, a pure function | `Transition`, `CanInteract` | called with what a request read |
| Moderated content (`service/moderation`, `repository/moderation`) | `moderation_item`, `moderation_revision`, `moderation_attempt`, the business rows of moments, comments, replies, messages; violation counters of the profile | `Submit`, `Edit`, `Approve`, `Correct`, `Reject`, `Delete`, `HideItem`, `RestoreItem`, `HideUserContent`, `RestoreUserContent` | appends notification events, review email tasks; after the commit publishes images |
| Policy and classifier | rule snapshot in memory | `Decide`, `Classify` | reads profile and site control |
| Governance and control | `user_moderation_profile`, `moderation_control` | trust evaluation, sanctions, modes | scored by reviews and blocks, read by every write |
| Moment images (`moderationmedia`, `media_publish.go`, recovery worker) | staging, public and audit objects, `moment_media`, image keys of revisions | `Publish`, `RevertPublicProjection`, `RecoverOnce` | runs after a commit, writes `public_state` |
| Rule sets (`moderationrule`) | draft, candidate and published rule sets, imports, index objects, snapshot | import, build, publish, cancel | replaces the classifier's snapshot |
| Notification (`service/notification`, workers) | `notification_event`, inbox, email tasks, batches, quota | dispatch, plan, send | fed by the commits of content and reviews |
| Review digest (`moderationemail`) | review email tasks, batches, cooldown | plan, send | fed by submissions that wait for review |
| Legacy migration (`moderation-migrate`, `repository/moderation/migration.go`) | a cursor on the command line; items, profiles and control it creates | migrate, `--verify-only`, resume from a cursor | reads all content; its results are what `Moderation` starts from |
| Migration runner | `schema_migrations`, advisory lock | `dbsetup`, `Adopt`, `Up` | run by the deployment before the service starts |
| Accounts and OAuth | users, third-party identities and their bindings; codes, mail quotas and login states in Redis | register, login, reset, bind, unbind | registration mode of the control |
| Sessions | `user.status`, the cached profile of a user in Redis; signed tokens that are kept nowhere | serve, refresh, disable, enable | in front of every handler |
| Analytics | channel and buffer of each process, `analytics_events`, four permanent tables, a lease in Redis | collect, flush, drain, roll up, clean up, backfill | its ingestor drains after HTTP has ended and its context is cancelled |
| Rate limits | counters and bans in Redis | count, ban, escalate | in front of the handlers |
| Articles | the row, which names pictures by key; uploads, the article's and the deleted objects in the object store | upload, save, delete, delete for good | nobody else's objects |
| Avatars | `user.avatar_url`; objects named by the hash of their content, which users share | register, change, clear, normalise | rows of all users |
| Categories, tags, music, friend links, handlers, bootstrap | rows and objects | CRUD | none beyond single transactions |

What is hard here:

* **Plans on stale reads.** Every moderation operation reads an item outside any
  transaction, plans on it with `Transition`, and commits the plan later. Only
  `lock_version`, the expected pending revision and row locks stand between a
  stale plan and a wrong commit.
* **Retries.** A client repeats a submission with the same `Idempotency-Key`,
  possibly while the first is running and with another policy verdict.
* **Trees.** A deletion takes everything below it, while others write there.
* **Two records of one fact.** Pointers of an item and statuses of its revisions;
  `materialized_revision_id` and the text in the business row; the item and its row.
* **Work after a commit.** Images are copied and events dispatched after the
  transaction, by processes that may stop in between and workers whose leases expire; a call that
  fails after the commit is answered like one that failed before it.
* **Shutdown.** A cancelled context reaches the loops and their statements at once, and a `select` with
  several ready cases takes any of them.
* **Two stores without a transaction.** Pictures (of moments, articles, users) live in the object store and their keys
  in MySQL; what is moved or deleted there was decided on a row read earlier; a rule set is published in MySQL and installed in memory; a view waits in
  memory before it is an event; a migration changes tables and ledger in separate statements.
* **Checks that are old when used.** Trust, sanction and control are read before the
  transaction that relies on them, and the trust level is computed outside of any. Third-party identities
  are bound and unbound, and administrators disabled, by a query that checks and another that writes.
* **Keys that expire.** A profile is cached for days and deleted after a change; a ban is
  decided under a claim of two seconds.

The full list, each entry at its line, is under `hazards` in `PROJECT.json`.

What makes each part correct:

| Part | Correct when |
|---|---|
| Moderated content | no stored state blocks its own future; the queue holds exactly what waits for review; the page shows only what was let through; a key has one outcome; a violation is scored once; recipients are told once; a decision is final; a deletion takes the whole tree |
| Governance | restriction follows the score whatever the order of changes; manual locks win; a closure or sanction that covers a whole request stops it; no administrator overwrites what he has not seen |
| Moment images | only approved pictures become public; pending ones are kept; a moment that was taken back becomes visible again; nothing is left behind in the store |
| Notification | each eligible recipient is told at least once and mailed at most once per event; quota is never exceeded; nothing waits for ever |
| Review digest | one open digest; nothing is reported twice or given up undecided; every task is reported or given up |
| Rule sets | one published set; memory matches the version it says; a publication is its own change only; every candidate is built or given up |
| Accounts, OAuth | nobody loses the last way into an account; an identity leads to one account; a code is used once |
| Sessions | who is disabled is refused; the site keeps an administrator |
| Rate limits | an excess is punished once, whatever the number of requests and routes |
| Migration runner | each migration once, in order; a half-applied one stays marked; what serves finds its schema |
| Analytics | no view is forgotten; the permanent numbers are those of the events |
| Articles | the pictures an article names can be fetched; none is lost, however a save or deletion ends |
| Legacy migration | what moderation is switched on over has an item that says what the row says; no repetition overwrites a decision |
| Avatars | an avatar in use is there, though others share and give up its object; a user shows the avatar chosen last |

## 2. What is modelled

| Module | Models |
|---|---|
| `ModerationTransition` | the pure state machine: the snapshot matrix, the verdict on an event, the planned item, what is materialized and what is superseded |
| `Moderation` | the database and the requests in flight; one action per read, plan and commit of every operation |
| `PublicView` | abstract: what a reader of the site is promised about each item |
| `MCModeration` | the instances TLC checks |
| `ModerationInvariants` | typing of the helpers and of every step, the inductive invariant and the safety theorems |
| `ModerationOutcomes` | idempotency and finality of decisions, scores, announcements, and the proof that `PublicView` is implemented |
| `NotificationDispatch` | events, inbox and mail tasks, with the dispatcher loop of every process |
| `NotificationDispatchProofs` | its inductive invariant and safety theorems |
| `EmailBatches` | mail tasks, batches, quota and SMTP, with the planner and sender loops |
| `MailPromise` | abstract: what the mail queue promises the reader of the mails |
| `EmailBatchesProofs` | its inductive invariants, safety theorems and the refinement of `MailPromise` |
| `MCEmailBatches`, `MCMailing` | the instances of `EmailBatches` TLC checks |
| `MomentImages` | the pictures of a moment between database and object store: save, commit, publication, reversal, recovery, cleanup; the item moves by `ModerationTransition` |
| `Governance` | trust, sanctions and control, and the writes and reviews that read and score them |
| `RuleSets` | rule set versions: candidates, imports, the worker, publication, snapshot |
| `ReviewDigest` | the digest of waiting reviews: planner and sender loops |
| `WorkerProofs` | the inductive invariants and safety theorems of `ReviewDigest` and `RuleSets` |
| `SchemaMigrations` | dbsetup, adopt, up and the start of the service, in overlapping deployments |
| `LegacyMigration` | old content brought under moderation: the command with its batches and cursor, the verification, the switch, and what is written around them |
| `Analytics` | page views from the request to the permanent daily numbers |
| `MomentImagesProofs` | the inductive invariant and safety theorems of `MomentImages` |
| `MCMomentImages`, `MCPublishing` | the instances of `MomentImages` TLC checks, the second side by side with `NotificationDispatch` |
| `LoginMethods` | the ways into an account: password, address, identities; registration, third-party login, binding, unbinding |
| `Sessions` | whom the middleware lets in by the cached profile, and the disabling of accounts |
| `RateLimits` | counters, claim, bans and their levels for one caller and tier |
| `ArticleAssets` | the pictures of an article between its row and the object store: upload, save, deletion, final deletion |
| `Avatars` | the avatars of users who share objects: registration, change, clearing, normalisation |
| `ServiceProofs` | the inductive invariants and safety theorems of `SchemaMigrations`, `LegacyMigration`, `Governance`, `Avatars` and `Analytics` |
| `AccessProofs` | the inductive invariants and safety theorems of `LoginMethods`, `Sessions`, `RateLimits` and `ArticleAssets` |
| `MCAccess` | instances of `Moderation` (the tree) and of `LoginMethods`, `Sessions`, `RateLimits` and `ArticleAssets`, side by side |
| `MCServices`, `MCWorkers` | instances of `Governance`, `SchemaMigrations`, `Analytics`, `Avatars` and `LegacyMigration`, and of `RuleSets` and `ReviewDigest`, side by side |

The content part (`Moderation`) and the notification part meet in the event table: what
`announced` counts there is published here (`Publish`). The dispatcher's
`CreateEmailTask` is the only source of what `EmailBatches` plans. `MomentImages` uses the same
state machine (`ModerationTransition`) as the content part and adds what the publication
writes without it. `Governance` computes the verdict that `Moderation` takes as any of its
values. A pending revision of `Moderation` is what `SubmitForReview` and `DecideRevision` of
`ReviewDigest` stand for. What `LegacyMigration` leaves behind when moderation is switched on is an initial
state of `Moderation`.

### State of the content

| Variable | Code |
|---|---|
| `item[i]` | row of `moderation_item`: `lifecycle_state`, `public_state`, the three revision pointers, `state_before_emergency`; `absent` is "no row" |
| `lock[i]` | `lock_version` (0 without a row) |
| `row[i]` | the business row: is it there (not soft-deleted), and the revision whose text it holds |
| `rev[r]` | row of `moderation_revision`: status, item, key, policy action, decision |
| `attempt` | keys in `moderation_attempt` |
| `profile` | `corrected_count`, `rejected_count`, `high_risk_count`, summed over users |
| `announced[i]` | interaction events appended for `i` |
| `req[c]` | a request: where it is, and everything it read |

### Steps of the content

A request advances through `idle`, `checked` (an edit has looked up its key), `blocked` or
`planned`, then one committing transaction. A transaction that locks what it
decides on is one step. Two are not, because they decide on a snapshot that
other commits may outdate before they write:

* creating an item below a parent (`BeginCreate`, `CommitCreate`): the parent is
  read without a lock in the transaction's snapshot;
* deleting a tree (`BeginDelete`, `CommitDelete`): `Descendants` is a snapshot
  read; the descendants are locked one after the other afterwards.

While such a transaction is open, it holds what the code locks: the profile row of
the submitter (`KeyFree`) or the row of the root (`RowFree`). Guards are the checks
of `validateLockedItem`, `adapter.Lock`, `validateRevisionOwnership`,
`supersedeRevision` and `reviewRevision`. `Abandon` lets any request end at any
point without a commit: a replayed key, a conflict, an error, a cancelled context,
a crash. Nothing is ever half-committed, since every commit is one transaction.

A batch hide assigns its columns in the order in which GORM writes a map and MySQL
evaluates `SET`, and fails if the check constraint refuses the result.

### Abstractions of the content

* Texts, images, reasons and times are left out; a revision stands for its
  content, also when a reviewer corrects it.
* The policy verdict of a submission is any of its four values: every combination of
  trust, risk and control is covered, and no property may depend on them.
* A key stands for a pair of submitter and `Idempotency-Key`. The profile lock
  serializes only requests with the same key; the code serializes more (all
  requests of one submitter, and reviews of one author), so the model has more behaviours.
* `isExactSubmissionReplay` compares pointers with `newRevisionSentinel`, which no
  stored pointer equals; it never answers and is left out.
* A request with several unmet conditions fails at one of them; the model only says it fails.
* Every live business row has a moderation item (the site migrates old content
  before moderation is on), so the branch for a descendant without one is not modelled.
* Action logs, review notifications, image rows and review email tasks are
  appended by the commits and read by no guard here.
* Articles and the guestbook page itself are never moderated: a comment on one
  is an item without parent.

### Notification: state and steps

| Variable | Code |
|---|---|
| `event[e]` | row of `notification_event`: `dispatch_status`, and whether `lease_until` is still to come |
| `rootAlive[e]` | is the article, moment or guestbook there that `OwnerOf` looks up |
| `inbox[<<e, u>>]` | row of `notification_inbox`, soft deletion included |
| `task` (dispatch) | the idempotency keys with a row in `notification_email_task` |
| `dispatcher[w]` | an iteration of `DispatchOnce`: claimed events, event in hand, next recipient |
| `task[t]`, `batch[b]`, `items` (mail) | rows of tasks, batches and batch items |
| `usage` | `email_quota_usage`, one count per layer, scope and window |
| `planner[p]`, `sender[s]` | iterations of `PlanOnce` and `SendOnce` with what they hold |
| `sendLog`, `calls` | successes in `email_send_log`; the SMTP calls and their answers |

Every database call of a loop is a step. `LeasePendingEvents`, `MarkEventDone`,
`MarkEventRetry`, `CreateEmailTask`, `LeaseEmailTasks`, `DeferEmailTasks`,
`CreateEmailBatchWithItems`, `LeaseEmailBatches`, `MarkBatchSent` and `MarkBatchRetry` are
the repository's methods; `BeginEvent`, `DeliverNotice`, `TakeGroup`, `EvaluateTask`,
`SendBatch`, `ReserveQuota` and `SendHTML` the steps of the services between them.
None of the marks looks at the lease, so that a loop that outlived its own still writes.
An iteration ends early by an error or a stop (`Abandon`, `PlannerAborts`, `SenderAborts`)
and leaves its leases behind.

Abstractions:

* A lease runs out at any time, and the back-off of an event is "any later time". The
  lease of a batch has no effect in the code (a pending batch has none) and is not there.
* A mail task is due as soon as it is inserted, and a deferred one is never leased, so
  `available_at` and `next_attempt_at` of tasks are left out. `scheduled_at` of a batch is kept.
* The clock counts the shortest quota window and advances while a batch is scheduled
  later. Past the bound `MaxTime` it stands still otherwise.
* A quota layer is data: scope, period, limit. The site's and the purpose's layers, the
  actor's and the recipient's are all members of one sequence in the order the
  code asks them. `Reserve` leaves some out: the sender names no actor, and the shorter windows of a
  purpose are asked by `Evaluate` only (`Reserved`). `Evaluate` reads layer
  after layer; in one window usage only grows, so its answer is that of one moment.
* Preferences, addresses, roles and quota policies do not change during a run, and all users
  have the same roles.
* The call that marks an event for retry may fail too; its error is dropped, as in the code.
* Mail is handed to SMTP when SMTP says so. A call that fails after the server took the
  mail is repeated under the same `Message-ID`; the promise counts accepted calls.
* `RetryBatch` asks for batches in `failed` or `deferred`, which no code writes: no action.

### Pictures of a moment

| Variable | Code |
|---|---|
| `item`, `lockVersion` | the `moderation_item` row and its `lock_version` |
| `revisions` | status and `moderation_revision_image` rows of each revision |
| `media` | the urls in `moment_media` |
| `objects` | the keys in the object store: staging (per save), public, audit |
| `doomed` | what the cleanup worker has listed and not deleted yet |
| `proc[p]` | a request or recovery worker: where it is, and the rows it read |

A save is `Prepare`, `LoadItem`, `CommitSave`, a review `LoadReview`, `CommitReview`; if the
revision is approved both go on with `LoadImages` (the save reads the rows after its commit, the
review before), `Copy` per object, `Apply`, `Clean`. A failure goes to `Revert`, and a save
from there to `Rollback`. The recovery worker enters at `Copy` (`Recover`) and does not
revert. `Apply` and `Revert` write `public_state` without `lock_version`, as the code does.

Abstractions: `ObjectExists` and `CopyObject` are one step, and so are the deletions of one
compensation; every save uses a staging directory of its own (a repeated key would share it,
and is answered before it publishes); one picture does not appear twice in a moment; the
cleanup worker lists only when no request is at work, which stands for the age of 24 hours an
object must have, and then deletes the listed ones in any order while others work.

### Governance

| Variable | Code |
|---|---|
| `profile` | the row of `user_moderation_profile` of one user |
| `siteControl`, `page[o]` | the row of `moderation_control`, and the one on an administrator's page |
| `caller[c]` | a request: what it computed from an earlier read, the action decided |
| `clock` | time, in units of the shortest deadline |
| `disturbed`, `barred` | history: requests during which others changed the row; requests that could not publish since they began |

A write is `BeginWrite` (load, lazy release and `EvaluateTrust`), `StoreTrust` when the level
changed, `ReadPolicy` (`LoadPolicyContext`, `Decide`), then `SaveContent` or `RecordBlocked`. Reviews
(`CommitReviewOf`) score in their transaction and refresh after it, at the time taken
before, or not at all (`RefreshFails`). The content of a submission is any of its risks and signals.
One user stands for all: no rule relates two profiles. Administrators' own writes are always
approved and left out; so are reasons and the action log.

### Rule sets

`rulesets`, `rules` and `imports` are the tables, an index the set of its rules;
`worker` is the position of the only worker; `installing` the holder of `publishMu`;
`snapshot` what the classifier uses. A rule is its dedupe hash; type, effect and the text are left
out, and so is the check that an enabled rule really was disabled (`ChangeRules` allows more). The
page's base version is the current one: an older one is refused at once. Row locks make
each repository call one step.

### Review digest

`reviewTask` and `digest` are the tables, `loop` the iteration of each process (planner, then
sender). Times are flags that a step of the clock sets: a task's `available_at` (`due`), the cooldown
after the last mail (`cooling`), a batch's lease and `next_attempt_at`, the planner's private
`retryAt` (`deferred`). Leases of minutes outlast an iteration unless it is slow, which
counts as a fault (`SlowLoop`). One open batch is the most there is, so that the loop over the leased batches
has one round; `OneOpenDigest`, part of `DigestSound`, is checked and proved of a model that can have more. Every mail is
counted once SMTP accepts it; a repetition of the same batch has the same `Message-ID`.

### Migrations

`schema[v]` is what the SQL of a migration did to the tables, `ledger[v]` its row; `run[r]` a
run of dbsetup or of a deployment (`adopt`, `up`, start). MySQL commits at each DDL statement, so a
file that fails may be partly done. Checksums never differ (a published file is not edited); a
catalog is a prefix of the versions; the repair is what the operator's guide says
(`src/docs/development.md:69`). An image is never started when `adopt` or `up` failed.

### Legacy migration

| Variable | Code |
|---|---|
| `legacyRow`, `legacyPicture` | the business rows (moments in phase 1, the six other types in phase 2), and whether what they refer to is in the object store |
| `legacyItem`, `legacyProfile`, `legacyControl` | what moderation holds: an item with what its pointers refer to, the profile of a user, the singleton of the site |
| `command` | the run of the command: phase and cursor, the batch in hand, what it has read of the rows (`seen`) and of the pictures (`found`) |
| `verified`, `enabled` | the last `--verify-only` found nothing missing; `moderation.enabled` |
| `strayed` | history: what was written without moderation after the migration or the verification had dealt with it |

A run is `StartRun` at any cursor, then per batch `ListBatch`, `PrepareRecords`, `PersistBatch` (one transaction, which leaves
everything alone that is there), and at the end `EnsureLegacyControl`; `StopCommand` ends it anywhere. The verification is one query
per phase (`VerifyNext`), in no common transaction. That moderation is switched on after a verification alone (`Enable`) is the runbook's rule
(`src/docs/moderation-rollout.md`); that nothing is written meanwhile is its rule too, and is not assumed: `PlainCreate`, `PlainChange` and
`RegisterUser` come at any time. Texts and their classification are left out. The six types of phase 2 follow the same
rules and are one.

### Analytics

`server[s]` holds the channel, the ingestor's buffer and the scheduler's `lastRolled` of a
process and the stage it is in; `events` and `table` are the raw and the four permanent tables; `lease` is the key
in Redis for yesterday; `roll` a roll-up in progress, the administrator's backfill included.
Views are sets: the order within a day plays no role, and so do sessions, unique visitors and
the realtime counters. `gone` and `spoilt` record what a full channel, a failed insert, a
crash, a failed or missed roll-up, or a backfill after the retention took away. A shutdown is `Stop`, which cancels
the context of the ingestor; from then on its `select` may take a further event or the ticker (stage `stopping`) until it
takes `ctx.Done` (`Drain`), and what it flushes in between it flushes with the cancelled context: `InsertEvents` then
fails and the views are in `cut`. A statement the cancellation interrupts is taken for one that begins after it. The drain
has a context of its own and fails by a fault only. `AnalyticsSound` says nothing but `gone` and `cut` is lost, `ViewsAccountedFor` that nothing but `gone` is, which the
code does not keep (see the findings). Timing the code relies on is in the guards: a batch
is written within seconds, so it is there at 00:30; a scheduler ticks before the next midnight; a
roll-up ends within the two hours of its lease.

### Login methods

| Variable | Code |
|---|---|
| `account[u]` | the row of `user`: `password_set`, and the address with `email_verified_at` |
| `socialUser`, `socialUserAuth[u, i]` | `social_user` and `social_user_auth`, soft deletion included |
| `flow[f]` | a browser in a third-party login, or an unbinding request: what it has read |
| `crossed`, `released` | history: accounts with overlapping unbinds, identities that were unbound |

A login is `CallbackToLogin`, `CreateUserWithSocialAuth`; a binding `CallbackToBind`, `FindBindingBySource`,
`BindExistingUser`; an unbinding `StartUnbind`, `CountBindings`, `Unbind`: one query of the code each, with what
others do in between. The state of a flow in Redis is consumed by `GETDEL` and is the start of the flow. A user
stands for a mailbox, a code for the right to it.

### Sessions

`enabled` is `user.status`, `cached` the copy in Redis, `call[c]` a request: a miss is `GetCached`,
`FindDetailByID`, `FillCache`; an administrator's request goes on to `SetStatus` and `Invalidate`. `TouchActiveAt`
and `Login` delete the copy without having changed it. `overtaken` and `ousted` record the two
overlaps the properties except. The role is not changed by any request here; it would be read from the same copy.

### Rate limits

Every Redis call is a step; `Incr` and `Expire` are sent together. Times are lives in ticks, of which a tick may come at
any moment; it ends a claim, so that a claim of two seconds may be over before any other step of its holder. The soft
limit changes nothing that is kept. A read that fails counts as zero, as in the code.

### Pictures of an article

| Variable | Code |
|---|---|
| `article` | the row, from its insertion in an open transaction to its end (`row`), and the pictures its content and covers name |
| `objects` | of which picture there is an object below `temp/`, at the article's key, below `deleted/` |
| `edit[r]` | a request: the content it read before (`old`), the one it writes (`uploads`, `kept`), and how far it is |
| `withdrawn` | history: pictures whose copy a save took back after its commit, until a later save names them again |
| `tangled` | history: pictures two requests dealt with at the same time |

A save is `SaveExisting` or `SaveNew`, then per picture `FindImage` and, if the article has no object of it,
`CopyImage`; `CommitArticle`; `FindSaved`, the read after the commit, which finds a trashed article too; `DeleteUpload` per upload; `CopyToDeleted` and `DeleteMoved` per picture no longer
named. `CommitFails` and `DeleteCopy` are the compensation; `FindSavedFails` starts the same compensation when the commit stands
and the read after it, or the answer, fails. The final deletion is `FindDeleted`, the same moves,
`PermanentDelete`. `StopEdit` ends a request anywhere: an error, a picture that is not there, a stop of the process. A picture stands for the
hash in its file name; the content is the set of pictures it names; the three directories of an article
follow the same rules and are one. One author writes an article, so the operator's check against `user_id` is left out.

### Avatars

| Variable | Code |
|---|---|
| `avatar[u]` | `user.avatar_url` |
| `object[k]` | what the store has at a key: nothing, a picture as it should be, one to recompress, no picture |
| `change[r]` | a registration, a change or the clearing of one avatar |
| `tidy` | the normalisation an administrator starts: phase, listed users or objects, the one in hand, processed keys |
| `choice`, `contested`, `overtaken` | history: the avatar chosen last; keys two actors dealt with at once or that a failure put at risk; users who chose while listed |

A change is `ChangeAvatar`, `SaveAvatar`, `PutAvatar` if the object is not there, `UpdateAvatar`, `CountByAvatarURL`, `DeleteUnused`, or
`UpdateFails` and `DeleteCreated`. The normalisation takes the listed users one by one (`InspectStoredAvatar`, `ReprocessStoredAvatar`,
`PersistKey`, or `ClearAvatar`; then `CheckReferenced`, `DeleteUnreferenced`), then the objects in use no user's
turn has met (`SweepStorage`), then what nobody uses (`PurgeReferences`, `PurgeList`, `PurgeUnreferenced`). One normalisation runs at a time. Whether a picture
can be compressed is left to chance. Rows hold keys: an older version stored URLs, which the count of `CountByAvatarURL`
compares as text and would miss.

## 3. What is checked

Run with `tlc -config X.cfg M`, `M` being the module of the run.

| Run | Instance | Shows |
|---|---|---|
| `item` | 1 comment, 2 requests, 3 keys, 3 revisions, `lock_version` up to 5 | `TypeOK`, `StateMatrix`, `PointersMatchRevisions`, `OnlyReleasedContentShown`, `OneOutcomePerKey`, `ViolationsScoredOnce`, `AnnouncedWithFirstApproval`, `DecisionsAreFinal`, and that the system implements `PublicView` (`ReaderView`) |
| `access` | a moment and a comment below it, 2 requests, 2 keys, 2 revisions, `lock_version` up to 4; 2 users, an identity on each of 2 platforms, 2 flows; 2 administrators, 2 requests; 2 requests on 2 routes, hard limit 1, bans of 1, 2 and 3 ticks, 1 fault; an article, 2 pictures, 2 requests | `PlansAreCurrent`, `RowsFollowLifecycle` with creation below a parent against deletion of the tree; `LoginMethodsSound`; `SessionsSound`; `OneLevelPerExcess`; `PicturesKept` |
| `batch_hide` | 1 comment, 1 request | violation: see findings |
| `orphan` | a moment and a comment below it, 2 requests, 2 keys, 2 revisions, `lock_version` up to 4 | violation: see findings |
| `mailing` | 2 users and 4 layers of quota, of two kinds of behaviour: 2 tasks of one user, room for one in a mail, 2 planners, 1 sender, 1 abort of a planner; or a task of each user, 1 planner, 2 senders, 1 failed call, 1 abort of a sender | `OneBatchPerTask`, `OneMailPerNotice`, `EveryTaskPlanned`; `SentIsDelivered`, `QuotaHolds`, `EveryBatchSent` |
| `takeover` | 1 task, 1 planner, 2 senders, 1 abort | violation: see findings |
| `publishing` | 2 pictures, 2 requests, 1 recovery worker, 2 saves, `lock_version` up to 3, 1 fault; 2 events (one for the owner of its root, one that names two users, one of them its actor), 2 users, 2 dispatchers, 1 fault | `AwaitingIsRecoverable`, `PendingPicturesKept`, `OnlyApprovedPicturesPublic`, `RecoveredUnlessLost`, `StoreIsCleaned`; `DoneMeansDelivered`, `NoticesNeverReturn`, `EveryEventDispatched` |
| `lost_pictures` | 1 picture, 1 request, 1 save, 1 fault | violation: see findings |
| `services` | 2 requests, 2 administrators, time up to 2, 2 scoring or administrative acts; 4 migrations, 2 deployments of different images, dbsetup; 2 processes, 2 views, 3 days, 1 fault; 2 users who share an avatar, 3 keys, 2 requests and a normalisation, 2 of these 3 at a time; 2 moments, a comment and a user of before, batches of 2 | `GovernanceSound`, `LockedTrustKept`; `ServedSchemaIsComplete`; `AnalyticsSound`; `AvatarsSound`; `LegacyComplete` |
| `workers` | 2 hashes, 2 candidates, 1 import, 1 fault; 2 review tasks, 2 loops, 1 fault | `SnapshotIsItsVersion`, `PublicationIsItsChange`, `CandidatesAreBuilt`; `DigestSound`, `EveryTaskReported` |
| `shutdown` | 1 process, 2 views, a batch of two, 1 stop | violation: see findings |
| `failed_read` | 1 picture, 1 request | violation: see findings |

Bounds. Two concurrent requests are what every conflict of the code needs: one that
planned and one that commits in between. Three revisions with `lock_version` 5
reach a first publication, an edit of each kind on top of it, its replacement or
review, and isolation or deletion after that. Three keys allow a key to be reused, a
key to be answered by a block, and a free one. Two levels of tree are enough for
each relation the code has (root, descendant); a deeper tree repeats the same
steps per descendant. Keys and clients are interchangeable (symmetry);
every property is a safety property that names none of them. The runs end when keys or bounds are used up,
hence `CHECK_DEADLOCK FALSE`: the program simply receives no further request there.

For the notification part: two loops of a kind are what an expired lease needs, the one
that outlived it and the one that took over. One fault of the dispatchers separates the two
(a second repeats the retry); of the two notices, which the dispatchers do not relate, one is read and deleted. In `mailing` each behaviour
has two loops of one kind and one of the other (`Planning`, `Sending`), and the abort is one of those that
compete; leases run out where there are two planners. Where the planners compete,
`MaxItems = 1` makes two tasks of a user overflow, the day's quota of one makes the second a
deferral or, if it was weighed before the first was sent, a refused reservation.
Where the senders do, the site's two layers and the recipient's have different
windows, so that a reservation fails at each of the later ones after counting in the earlier; two
batches are enough to compete for one place. The runs end when all is
handled or the bounds are used up, hence `CHECK_DEADLOCK FALSE`: idle loops tick without changing anything.

`access`, `publishing`, `services` and `workers` check components that share no state. Their first choice is
which of them runs; the others stay in their initial state. A step of one cannot enable, disable or
change anything of another, so that each behaviour of a component alone is one of the run, and no
property relates two of them: nothing is lost, and the product of their state spaces is not built.

For the pictures: two saves are what a replaced, a dropped and a kept picture need, a third
commit is the review or the deletion of one of them while the other is being published, and the
fault hits any call or stops any process. A second recovery worker repeats the copies
of the first and adds states, no new kind of step: a save, a review and a worker already
publish the same moment at once. Handlers and pictures are alike, which symmetry cannot exploit beside
liveness properties: a request takes the first handler that is free, and if the first save uploads
one picture, it is the first (`InTurn`). An idle handler remembers nothing, so that each behaviour has
one such counterpart. For the governance: one request that computed a level
and another that stores, scores or corrects in between; two scoring acts reach the
threshold, which is 2, and the clock passes each deadline. For the migrations: an image older than the
other, two versions beyond the baseline, so that a gap and a dirty version before another one
can happen. For the analytics: the day, its roll-up and the retention of two days; a
channel of one and batches of two make both limits bite. For the rule sets:
two candidates on one base, and one of them from an import. For the digest: two loops and one
fault are a lease that ends under a loop at work, with a second batch after it.
For the old content: two moments and a batch of two are a full batch and, with one more, a next one; a comment is the type
whose pictures may be missing; a cursor may be set to any id. The rows and the moderated writes have every combination a
verification can meet; a third batch repeats the second. For the login methods: two flows are a check and the write that outdates it, two
identities are one to remove and one to spare, two users compete for an identity. For the sessions: two
administrators, who may disable each other; what a plain member's request does is part of what theirs do. For the rate limit: two requests
beyond the limit at once, on one route or two; the ban count is remembered as long as the longest ban
lasts, as in the code.
For the articles: two requests are a save or a deletion that outdates what another has read, two pictures one that stays
and one that goes, is replaced or fails; what a request does with further pictures is a repetition. Once two requests have met on a
picture, those under way finish and none begins, and nothing is uploaded or put into the trash; one save is taken back after its commit, and until its copies are back requests begin one after the
other (`ArticleNextBounded`). For the avatars: two users share
the object of an avatar that recompression moves to another key, where one of them may already be; a third key is
chosen anew. Two actors at a time, of whichever kind, are what a count and a deletion by another need; once a key
is contested or a user overtaken, the requests at work end and no new one begins: the properties except what
follows, and the histories never shrink.
Requests, administrators and processes of `services` are interchangeable (symmetry), and so are the
requests, keys, pictures, users, flows, administrators and routes of `access`; their
properties name none of them. `RetryDue` under a loop at work needs two faults, one that puts the batch back and a slow loop, and
does not happen in `workers`; the proofs cover it.

Fairness. None is assumed of the content: a request may be abandoned at any point and
no one has to review anything, so no liveness is claimed of it. Of the workers,
weak fairness is: `runLoop` (`src/internal/worker/notification/worker.go:87`) ticks and runs
an iteration for as long as the process lives, swallowing its errors, and a stopped process
is started again; an iteration has no unbounded wait; leases are times that pass, and so
are the windows of the quota. Users, failures and stops are not fair. Faults are bounded: a
service whose database fails for ever delivers nothing.

The new workers are fair for the same reason: the recovery and the cleanup worker
(`src/internal/worker/moderation/publish_recovery.go:37`), the digest loop
(`src/internal/worker/moderationemail/worker.go:41`) and the rule worker
(`src/internal/service/moderationrule/worker.go:16`) tick for as long as the process lives. A
handler that was entered runs to its end or is stopped, which is a fault. `CleanupList` is strongly fair: its guard
`AllIdle` stands for the age of the objects, which every object reaches, while the guard comes and goes with the requests.
That an administrator's address is repaired is assumed of `EveryTaskReported` alone.

What the liveness properties do not promise. `RecoveredUnlessLost` leaves out moments whose
sources are gone (the finding below) and `StoreIsCleaned` the time while one is stuck. `EveryTaskPlanned` counts deferral as an end and
`EveryBatchSent` leaves abandoned batches out: see the findings and the known differences, so that no more holds.

Each property of a passing run has a mutant in `PROJECT.json`: a plausible bug of
a mapped definition with which TLC finds the property violated.

`OneMailPerNotice` relies on the gap of `takeover`: a batch in `sending` is taken by nobody else, so
that a sender which stops between the SMTP call and the mark cannot have its mail repeated. A repair of that finding
has to deal with this.

### Findings

* **Hiding a user's content fails** (`batch_hide`). `updateEmergencyCandidates`
  (`src/internal/repository/moderation/operations.go:83-104`) sets
  `state_before_emergency = public_state` after `public_state = 'emergency_hidden'` in
  the same statement; MySQL uses the new value and the check constraint
  `chk_moderation_item_previous_state` refuses it. In the model `BatchHide` therefore
  never changes an item; the restore of a batch works on items hidden one by one.
* **A comment survives its moment** (`orphan`). Created between the listing of
  the descendants and the commit of the deletion, against
  `src/docs/superpowers/specs/2026-06-27-content-moderation-design.md:332`.
* **A batch whose sender stops is never sent** (`takeover`). `LeaseEmailBatches`
  (`src/internal/repository/notification/email_batch.go:52`) only looks for `pending`, and any
  error of a sender's iteration, not only a stop, leaves the rest of its batches in `sending`.
  The design (`src/docs/superpowers/specs/2026-06-23-notification-system-design.md:451`)
  says others take over.
* **A failed publication destroys its own pictures** (`lost_pictures`). `Save`
  (`src/internal/service/moment/service.go:111`) deletes the staging objects it uploaded whenever it returns an
  error, also when the error comes from the publication after the commit. The approved revision then names
  objects that are gone; the recovery worker fails for ever, and the placeholder refuses every
  edit and deletion. `src/docs/superpowers/specs/2026-06-30-moderation-hardening-design.md:73` asks
  for a check of the references before a deletion.
* **A shutdown forgets a batch of views** (`shutdown`). After the cancellation the `select` of `Run`
  (`src/internal/worker/analytics/ingest.go:76`) may take an event or the ticker (lines 94 and 99) although `ctx.Done` is ready. `flush`
  then runs with the cancelled context, the insert fails (`src/internal/repository/analytics/repository.go:70`) and line 73 empties the
  buffer all the same. Line 65 says "关闭路径用脱离取消的短超时 ctx，避免最后一批因 ctx 取消而丢失。"
* **A failed read breaks a committed article** (`failed_read`). The repository reads the article back after its transaction
  (`src/internal/repository/article/mutation.go:59`). When that read fails, the save counts as failed and `src/internal/service/article/article.go:268`
  deletes the copies the committed row names, although
  `src/docs/superpowers/specs/2026-06-24-article-assets-design.md:136` says "但不会造成文章图片坏链". The uploads are still below `temp/`,
  so that a later save that names the uploads again repairs it.

### Known differences without a run

* **The business row keeps refused text.** `materialize`
  (`src/internal/repository/moderation/transition.go:500`) does not touch the row when a plan names no
  revision. Lines 109 ("`materialized_revision_id`：当前物化到业务表的版本，可为空。") and 365
  ("首次发布：改为 `hidden`，清空业务正文和可见图片。") of
  `src/docs/superpowers/specs/2026-06-27-content-moderation-design.md` say otherwise. Readers are not
  shown the text while the item is hidden. The model's `row` has it.
* **A deferred mail is never sent.** `DeferEmailTasks`
  (`src/internal/repository/notification/email_task.go:65`) sets `deferred` and a time for the next attempt;
  `LeaseEmailTasks` (line 30) asks for `pending`. `src/internal/repository/notification/notification.go:116` says
  "DeferEmailTasks 将任务标记为 deferred 并设置下次处理时间，同时释放租约。" In the model, deferral is an end.
* **A stop after the commit is not recovered.** A process that stops between the commit and the copies leaves
  the moment visible with staging keys; the candidates of the recovery are placeholders
  (`src/internal/repository/moderation/publish_recovery.go:41`), while
  `src/internal/worker/moderation/publish_recovery.go:17` speaks of everything committed and not finished.
* **A backfill may erase history.** `Backfill` accepts 92 days, the events are kept for 90: a day that was
  purged is replaced by zeros in the tables that
  `src/docs/superpowers/specs/2026-06-25-self-hosted-analytics-design.md:25` calls permanent (`spoilt`).
* **The cooldown is checked once.** `CreateBatch` looks for open batches again under its locks and not at the last
  mail, so that a planner that was slow may follow a mail at once, against
  `src/docs/superpowers/specs/2026-07-01-moderation-notification-design.md:112`.
* **An import may be published unseen.** When `UpdateImportValidation` fails after the candidate exists
  (`LinkFails`), no import refers to it and the worker publishes it; the import stays `validating`, since nothing calls
  `ResetInterrupted`. `Duplicate` also counts rules of candidates that failed.
* **A restriction may be lost.** When the refresh after a review fails, a restriction whose deadline passes
  before the next write is released with its score set to zero, however high it has become. A restricted level that was
  unlocked without a deadline is never released.
* **The last way in may be unbound.** `Unbind` (`src/internal/service/oauth/oauth.go:156`) reads the
  password, counts the bindings and deletes one by a query each: two that overlap leave an account without
  any, against `ErrLastLoginMethod`, "至少保留一种可用登录方式" (line 26). Likewise two accounts may bind
  an identity at once that was unbound before; a new one is kept apart by its unique index. (`crossed`, `released`.)
* **No administrator may be left.** `DisableAccount` (`src/internal/service/user/admin.go:95`) counts
  the accounts with the role, disabled ones included: two administrators that disable each other leave none,
  against "禁止禁用" of `ErrLastAdminAccount` (line 18). (`ousted`.)
* **A wrong profile stays.** A request that loaded the row before it was disabled may store it after the copy was deleted, or the deletion
  fails and its error is dropped. The copy lives for seven days and each request renews it (`GETEX`), until the next login, visit
  or edit of the same user deletes it. (`overtaken`.)
* **One excess, two levels.** "高并发下只有第一个请求负责升级计数与落键封禁" (`src/docs/runtime-operations.md:42`) holds only
  while no request is under way when the claim of two seconds runs out, and while Redis answers: `OneLevelPerExcess`.
* **After the longest ban the first level comes again.** The count of bans is kept for 24 hours (public: 7 days)
  after the last one, which is as long as that ban lasts, so that "第 4 次+：24 小时"
  (`src/internal/middleware/ratelimit.go:17`) is not reached twice in a row. An error of `Incr` places the shortest ban, over a longer one
  if there is one.
* **Codes are read, compared and deleted by separate calls** (`src/internal/service/auth/auth.go:271`, and the resets): two requests at once
  may both be accepted, against "确保一次性语义". A stop between `Incr` and `Expire` of the quota of codes (line 143) keeps the counter for ever.
  Addresses are looked up before they are written and have no unique index.
* **Two saves of one article lose a picture.** `Save` (`src/internal/service/article/article.go:279`) moves away what the
  content it read before its transaction named and its own does not; another save may have put such a picture back
  meanwhile. Nothing locks the article (`tangled`).
* **A deletion that stopped is never completed.** `moveDeletedArticleAssets` (`src/internal/service/article/assets.go:33`) ends at the
  first error, and moving an object that an earlier attempt has moved is one: after a partial failure the article can be deleted for
  good no more. Likewise a picture whose move failed after a save stays at the article's key, since the next save does not know it.
* **A shared avatar may be deleted.** A count or listing finds no user of an object, another request finds the object in place
  (`src/internal/service/avatar/service.go:126`) and names it, and the deletion follows. The same happens when an error of
  `ObjectExists` or a recompression counts an object as created by the request (line 150) and its update then fails (`contested`).
* **The normalisation overwrites a choice.** It lists the users once and writes the key of the recompressed avatar, or none, by user id
  (`src/internal/service/user/avatar_normalize.go:257`), whatever the user has chosen since (`overtaken`). With `clear_invalid` an
  avatar the store could not deliver at that moment is cleared too.
* **The rollback cannot be verified.** After a rollback the rollout guide says "修复后重新执行 `--verify-only`，再按上线步骤启用。"
  (`src/docs/moderation-rollout.md:74`). `VerifyLegacy` (`src/internal/repository/moderation/migration.go:353`) counts every item whose approved
  revision is not one of the migration and every item with a pending revision as missing, and every user who has no trusted profile:
  once moderation has decided on anything or a user has registered with it, no verification finds nothing missing again.
* **The verification compares no contents.** It looks at the pointers of an item, not at its lifecycle or its text. A row that was
  written without moderation after its batch was read, or after a rollback, has an item that says something else, and neither a repetition of
  the migration nor the verification notices; a row written between the verification and the switch has none (`strayed`).
* **Cleanup checks before it deletes.** A key that is referenced again between the listing and the deletion is
  deleted (`src/internal/worker/moderation/cleanup.go:169`); a save that keeps a public picture can do that.

## 4. Abstract specifications

### The reader's promise

`PublicView` has three variables per item: the phase a reader can tell, the content
on the page and the content last endorsed. It promises that content once endorsed
stays on the page until something newer is published or endorsed, that
unreviewed content that is refused or replaced falls back to it, that a withheld page returns unchanged and that a
removed one never returns. It knows no locks, plans, revisions' statuses or
keys. The mapping in `Moderation` (`PhaseOf`, `ShownOf`) is:
`placeholder` is waiting, `hidden` is refused, `emergency_hidden` is withheld,
and `visible` is reviewed or unreviewed depending on whether the approved
revision is the materialized one; endorsed is `approved_revision_id`. The implementation is checked
in the `item` run and proved for every value of the constants (`ReaderPromiseKept`).

### The mail queue's promise

`MailPromise` has one variable, how often each notice has been mailed, and one action: mail some
notices of one user that have not been mailed, no more than fit. `EmailBatches`
implements it (`OneMailPerNotice`) under the mapping that counts the accepted SMTP calls
of batches that hold the task. It knows no leases, batches, quota or retries.

## 5. What is proved

For all items, parents, keys, clients and bounds, under the named assumptions
of `Moderation` (`NoItem` and `NoKey` are outside their sets, `Parent` is a function on the
items, bounds are positive):

| Theorem | Statement |
|---|---|
| `TypeCorrect` | `Spec => []TypeOK` |
| `Invariance` | `Spec => []IInv` |
| `StateMatrixHolds`, `PointersHold`, `RowsHold`, `PlansStayCurrent`, `OnlyReleasedShown` | the invariants of the same meaning |
| `OneOutcome` | `Spec => []OneOutcomePerKey` |
| `DecisionsStayFinal` | `Spec => DecisionsAreFinal` |
| `ViolationsScored` | `Spec => []ViolationsScoredOnce` |
| `AnnouncedOnce` | `Spec => []AnnouncedWithFirstApproval` |
| `ReaderPromiseKept` | `Spec => ReaderView`: `Moderation` implements `PublicView` |

The argument. None of the invariants is inductive alone. A commit writes what was
planned on an old read, so that it is right only because the read is
still true; `PlanHolds` says so for every request in flight: its version
is not above the stored one, an equal version means an equal item, and `Transition`
accepted the event on what was read. That is kept because every writer moves
`lock_version`. The write itself keeps `StateMatrix` because `Transition` validates its
result, up to the sentinel that stands for the revision not yet
created: the lemmas `SubmissionEffect`, `ReviewEffect` and `TombstoneEffect`
say what the accepted plan is with the real id. `PointersMatchRevisions` needs that a new id is
owned by no one (`RevisionsOwned`) and `OnlyReleasedContentShown` that a pending revision on
the page was let through (`PendingShownByPolicy`). A deletion in progress needs
the root's row to be its own (`DeletionsHold`). For the keys, a creation in progress
holds the profile lock of a key nobody has answered (`KeysHeld`).

The scores are cardinalities, and a commit moves them by one with the set they count: the revision a review decides carried
no decision before (`OpenUndecided`, kept because `StillPending` is checked under the locks), and the key of a block that scores
was no attempt before. For announcements and for the reader, `StepEffect` first says of every step
of every request that it does one of five things to the items, whatever was planned and when: write a new revision, decide the pending one,
bury items, hide one, or bring items back (`KnownEffect`). An approved item stays approved under all five, so that
`app = NoRev` holds until the one commit that announces. Each of the five is then matched with an action of `PublicView`. The hard
part is that endorsed or published content is fresh, shown or endorsed nowhere else: a revision that is new or
pending is on no page but that of the item it is pending of (`NobodyShows`, from `PointersMatchRevisions` and
`StateMatrix`), and on that page only under post review.

For the dispatcher, for any events, users, recipients, dispatchers and bounds, under
`RecipientsAssumption` and `DispatchBoundsAssumption`:

| Theorem | Statement |
|---|---|
| `DispatchTypes` | `DispatchSpec => []DispatchTypeOK` |
| `DispatchInvariance` | `DispatchSpec => []DispatchInv` |
| `DoneEventsDelivered` | `DispatchSpec => []DoneMeansDelivered` |
| `NoticesStayHandled` | `DispatchSpec => NoticesNeverReturn` |

The argument: a dispatcher at position n of an event has the rows of every
recipient before n behind it (`Holds`), unless the root of the event is gone. Rows of notices and tasks never go
away and roots never come back (`RowsKept`), so this stays true whatever others write and
whoever owns the lease by now; the lease appears nowhere in the invariant. When
`MarkEventDone` is reached the position is past the last recipient.

For the mail queue, for any tasks, recipients, layers, planners, bounds and finitely many
senders, under `RecipientAssumption`, `LayersAssumption`, `MailBoundsAssumption` and
`LoopsAssumption`:

| Theorem | Statement |
|---|---|
| `MailTypes` | `Spec => []TypeOK` |
| `MailInvariance` | `Spec => []MailInv` |
| `TasksBatchedOnce`, `SentWasAccepted`, `QuotaKept` | the invariants `OneBatchPerTask`, `SentIsDelivered`, `QuotaHolds` |
| `PromiseKept` | `Spec => OneMailPerNotice` |

The argument. `SentIsDelivered` is not inductive: it needs that whoever marks a batch is
the only one to hold it. `MailInv` says so: the claim takes a batch out of `pending`, so that what
a sender holds is in `sending` and no other sender holds it, and a batch has its items from its creation on.
The planner's lease appears nowhere: two planners may weigh the same task, and the unique key on the task of a batch item
decides. For the refinement, an accepted `SendHTML` mails the contents of its batch and every other
step stutters: the batch is held by one sender, has not been accepted before, and shares no task with another.
For the quota, `used_count` of a reserved layer covers the calls made in the window and the
senders that have counted there and not called yet (`Covered`). It may be more, since a
reservation refused at a later layer leaves the earlier ones counted. The limit of a count
is what `Reserve` itself guards; the rest is a transfer from one side of the sum to the other.

For the review digest, for any tasks, loops and number of faults:

| Theorem | Statement |
|---|---|
| `DigestsAreSound` | `DigestSpec => []DigestSound`: `OneOpenDigest` and `ReportedOnce` |

The argument. `CreateBatch` alone keeps one digest open: its look under the locks. `ReportedOnce` needs
what a loop knows of the batch it holds, although the batch may have been closed, put back or leased by another since
(`LoopKnows`): a batch's tasks are fixed when it is inserted and can only stop waiting afterwards, so the
list a loop has loaded still holds every task of the batch that waits. Hence it does not matter for the
report who marks the batch sent, and the lease appears nowhere. `BatchesHold` says that a batch that
is closed has no task left in `batched`.

For the migrations, for any number of versions, any baseline, deployments and catalogs, under
`MigrationsAssumption`:

| Theorem | Statement |
|---|---|
| `LedgerFaithful` | `MigrationSpec => []LedgerTellsTheSchema` |
| `ServiceComplete` | `MigrationSpec => []ServedSchemaIsComplete` |

The argument (`MigrationInv`). A runner between its checks and the end holds the lock, and what it has read of
the ledger stays true: the versions it calls missing are those without a row, and the ones before are clean. `dbsetup` works alone, so
that all it registers is there; the baseline a deployment registers is there since the database was created.
The first missing version is marked before its SQL runs, so that a partial change is under a dirty mark and the
next runner stops. A version that was served is clean, and no step changes a clean version again.

For the rule sets, for any hashes, numbers of candidates, imports and faults, under `RuleSetsAssumption`:

| Theorem | Statement |
|---|---|
| `RuleTypesHold` | `RuleSpec => []RuleTypeOK` |
| `SnapshotsAreTheirVersion` | `RuleSpec => []SnapshotIsItsVersion` |
| `PublicationsAreTheirChange` | `RuleSpec => PublicationIsItsChange` |

The argument (`RuleInv`). An index is built long before it is published, by queries over rules that others go on changing, and
nothing compares the two at the publication. It is right because a candidate is published on its own base only: `VersionsHold` says that one set is
published, that it is the highest that ever was in force, that every candidate stands on one that was, and removes
older rules only. So a build sees the rules of the base as they are for as long as the base is the published one, and a ready index
on the published base is what a build would give now (`IndexesHold`); a base that is not published any more never is again, and its index is worth
nothing and never used. `WorkerKnows` says the same of the index the worker holds between building and saving it. A publication makes the
new version's rules those of the old one without the removals and with its own (`PublishedRules`); whoever installs holds
`publishMu`, so that the set it loads is still the published one.

For the migration of old content, for any rows, users and batch size, any cursors and number of runs, under `LegacyAssumption`:

| Theorem | Statement |
|---|---|
| `OldContentIsModerated` | `LegacySpec => []LegacyComplete` |
| `MigrationKeepsDecisions` | `LegacySpec => [][LegacyKept]_legacyVars` |

The argument (`LegacyInv`). What is recorded fits, whether moderation is on or not (`RecordedFit`): with moderation, row and item are written
together; without, whoever writes a recorded row strays. The batch in hand still knows its rows (`BatchKnows`), since a
row that is written meanwhile has strayed, or has been recorded by moderation and is left alone. What the verification has passed is
recorded (`PassedRecorded`): nothing deletes an item, and a row that appears behind the query has strayed. The cursor appears nowhere: what is
skipped is found by the verification.

For governance, for every policy, weight, threshold, decay and duration, any numbers of requests, administrators and acts, under
`ScoreAssumption` and the other named assumptions of `Governance`:

| Theorem | Statement |
|---|---|
| `GovernanceTypesHold` | `GovernanceSpec => []GovernanceTypeOK` |
| `GovernanceIsSound` | `GovernanceSpec => []GovernanceSound` |
| `LockedTrustIsKept` | `GovernanceSpec => LockedTrustKept` |

The argument (`GovernanceInv`). Between the evaluation and the decision a request that nobody has disturbed carries the restriction the
score calls for: in its hand, then in the row, then in its action (`UndisturbedCarry`); the lazy release does not take it away because a score at the
threshold is evaluated again in the same breath. Whoever saves could publish at some moment since it began. A deadline is
set only where it means something (`WaitingLevels`), so that no level is released that was not to be.

For the avatars, for any users, keys and requests, any pictures at the start and any choice of recompressed keys, under the
assumptions of `Avatars`:

| Theorem | Statement |
|---|---|
| `AvatarsAreSound` | `AvatarSpec => []AvatarsSound` |

The argument (`AvatarInv`). Two actors who deal with one key make it contested, at once and for good (`Contest`); of a key that is not,
one actor's knowledge stays true: what a request is about to show is there, what it is about to delete, as unused or as created by itself, no
row names (`ChangeSafe`), and so for each phase of the normalisation (`TidySafe`). That a user has the avatar chosen last needs that what the
normalisation has listed is still the choice of whoever has not overtaken it, or the recompressed key of it (`ChoicesKept`).

For the analytics, for any processes, views, days and tables, any buffers and batches, a retention of two days or more and any number of upsets,
under the assumptions of `Analytics`:

| Theorem | Statement |
|---|---|
| `AnalyticsTypesHold` | `AnalyticsSpec => []AnalyticsTypeOK` |
| `AnalyticsAreSound` | `AnalyticsSpec => []AnalyticsSound` |

The argument (`AnalyticsInv`). A view is in one place: a channel, a buffer, the events, or it is lost, in `gone` or in `cut` (`ViewsApart`, `AllAccounted`): no
step of a shutdown but the insert with the cancelled context adds to `cut`. From 00:30
on no view of an earlier day waits anywhere (`PendingRecent`), so that what a roll-up reads of a settled day is all there is
(`RollupsRight`). The hard part is that a lease or a process's `lastRolled` stops everybody else from rolling yesterday up:
`YesterdayRolled` says that each table then has it, or is about to be written by a process at work; the failures that break this are
exactly those that put the day into `spoilt`. A retention of one day would let the cleanup take a day before its roll-up has read it.

For the pictures of a moment, for any pictures, requests, recovery workers and numbers of saves, commits and faults, under `ImageConstants`:

| Theorem | Statement |
|---|---|
| `MomentsAreRecoverable` | `Spec => []AwaitingIsRecoverable` |
| `PendingPicturesStay` | `Spec => []PendingPicturesKept` |
| `OnlyApprovedReachPublic` | `Spec => OnlyApprovedPicturesPublic` |

The argument (`ImageInv`). None of the three is inductive, and each needs what a process knows while others commit. A staging object belongs
to one save and so to one revision: what two revisions name is disjoint, what a save holds before its commit
nobody else names, holds or has listed for deletion (`KeysHold`, `UploadsHold`), and every key a process will delete
is its own upload, that of a revision it publishes, or a listed one that nothing named. So no deletion reaches a picture that waits: what waits is
another revision's, or the request's own and committed, in which case `uploaded` and the pending rows no longer meet. A commit writes an
item planned on an old read; it is right because the pointers read are the stored ones as long as the version is (`ReadHolds`), although `public_state`
is written without it. A revision once approved stays so while a process publishes it, or `app` points to it, and an
approved pointer is never taken back (`PublishHolds`, `PointersHold`): so a publication copies approved pictures only, to the keys its target set
lists, and what `Revert` makes of a row is valid again as soon as it is visible (`ItemHolds`), which is what the recovery worker
looks for and `Apply` brings about. `Apply` is the one writer that leaves the version alone and changes rows: it renames keys to public and audit ones and keeps the
pictures of every revision (`PublishedAre`), so that whoever has read rows before still knows which pictures they are.

For the login methods, the sessions, the rate limit and the articles, for any users, identities, platforms, flows, members,
administrators, requests, routes, lengths of bans, pictures and bounds, under `LoginMethodsAssumption`, `SessionsAssumption` and `RateLimitsAssumption`:

| Theorem | Statement |
|---|---|
| `LoginTypesHold`, `LoginInvariant` | `LoginSpec => []LoginTypeOK`, and the inductive invariant |
| `LoginMethodsAreSound` | `LoginSpec => []LoginMethodsSound` |
| `SessionTypesHold`, `SessionInvariant` | the same of the sessions |
| `SessionsAreSound` | `SessionSpec => []SessionsSound` |
| `ExcessRaisesOnce` | `LimitSpec => []OneLevelPerExcess` |
| `ArticlePicturesKept` | `ArticleSpec => []PicturesKept` |

The argument. For the login methods, an identity that has a row and was never unbound is bound to somebody (`RowsBound`):
hence a new one is nobody's, and a login or a binding that wants to create its row is refused when another was first. What a
flow still relies on is told by its position (`FlowsKnow`): a binding that found the row of an unbound identity
writes only to one that was released, and an unbinding that passed the check has counted two identities or seen a password, which nobody
takes away again. If the count is still right when it deletes, one is left; if not, the account is in `crossed`.

For the sessions, whoever changes a row is about to delete the copy, or the history says why it will not be. A request that may
still disable somebody is one that `DisableAccount` lets through (`StatusIsAllowed`): not for its own account. So the one who
disables is left enabled, or has been disabled before and the history says so.

For the rate limit, as long as no claim has run out under a request and Redis has answered, one request at most counts and places a ban, and
it holds the claim (`ClaimHeldAlone`). A level has been counted only with a ban in force or about to be placed, and who is
beyond the check for a ban without a claim has found none (`RaisedOnce`).

For the articles, `ArticleInv` says per picture that is not tangled what each request may rely on (`EditKnows`). A copy a save has
made is of a picture the row does not need (`Spared`), since the target was missing while the row was sound: so the compensation may
delete it, and the upload is still there. After the commit the row may need it: what the same compensation deletes then is in `withdrawn`
first, and the upload is still there too, since uploads are deleted only after the read that did not fail. What was looked up is in place at the commit, and what a committed save dropped is named by no row. A step of
another request either leaves the picture alone (`Undisturbed`), and the facts survive (`UndisturbedKnown`), or it concerns the same picture, which
is then tangled.

The proofs of the content are layered: `ModerationInvariants` (types, then one lemma
per kind of write, then `CommitStep` and `QuietStep` over all actions) and
`ModerationOutcomes`. The other modules have one lemma per action, or per kind of action, and one that
combines them. Check them with `tlapm ModerationOutcomes.tla` and so on.

Every invariant and every action property of the passing runs is proved. Only model-checked are the liveness properties,
`EveryEventDispatched`, `EveryTaskPlanned`, `EveryBatchSent`, `RecoveredUnlessLost`, `StoreIsCleaned`, `CandidatesAreBuilt` and `EveryTaskReported`:
liveness under fairness is out of the prover's reach. `LegacyKept` and the type theorems of the parts whose runs do not list a
type invariant are only proved. The type invariants `TypeOK` of `MomentImages` and `LimitTypeOK` state the types for the
reader; what the proofs need of them is part of the inductive invariants (`ImageTypes` bounds no version and no number of revisions: the
theorems do not depend on it).

## 6. Plan

Done: the moderated content, the dispatcher, the mail queue, the publication of pictures, governance, rule
sets, review digest, migrations, the migration of old content, analytics, login methods, sessions, rate limits, the pictures of articles, avatars,
and the proofs of their safety properties. What would come next, in order of what the site depends on:

1. Proofs: the bounds of `TypeOK` in `MomentImages` (a count of the saves under way against the revisions), and abstract
   specifications for the publication of pictures and for the rule sets, with their refinement.
2. The codes sent by mail with their quotas, and the captcha.
3. Several moments that share an author's objects, to follow `ReferencedObjectKeys` across items.

Induction over data, liveness and `ENABLED` stay with TLC.

## 7. Not modelled

`PROJECT.json` lists every part with its status. Left out for good: decoding and
resizing images, previews and fingerprints, text normalisation and rule matching (data over strings), HTTP and DTO
code, generated API documentation, wiring, clients of external services, single-row CRUD of music, friend links and articles beyond their pictures,
comments and the guestbook beyond their moderation. Of notification: the lists and counters of the
inbox, the online push (SSE, told to be unreliable by its design), the rendering of mails and
the administrator's edits of quota policies. Of analytics: sessions, realtime counters, deduplication. Of the
rule sets: test matching and its cache.

* **Codes, mail quotas and the captcha** are single Redis keys; what can go wrong between their calls is
  among the known differences. A captcha and the state of a third-party login are consumed by one `GETDEL`.
