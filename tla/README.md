# Yallego in TLA+

Yallego captures payment notifications of wallets (Yape, Plin, ...) on an Android phone, turns them
into transactions of a tenant, counts them against the tenant's plan, and announces them to a
dashboard and to webhooks. This directory holds TLA+ models of that system, the TLC configurations
that check them, and TLAPS proofs about them. Everything is translated from the source under `src/`;
`PROJECT.json` maps each definition to the lines it stands for.

    tlc -workers 2 -config Pipeline.cfg MCIngestPipeline    # one run
    tlapm MembershipProofs.tla                              # one proof module

## 1. The system

### Components

| Component | Where (`src/apps/api/src/modules` unless said) | State it keeps | Operations | Modelled in |
|---|---|---|---|---|
| Ingest | `ingest/` | rows of `raw_notifications` | `POST /internal/v1/ingest` | `IngestPipeline` |
| Parsing queue | `infrastructure/queue` | BullMQ jobs in Redis | add, take, fail, stall | `IngestPipeline` (external) |
| Parsing | `parsing/` | `parse_status`, `transactions` | one run per job | `IngestPipeline` |
| Trial quota | `plans/entitlement.service.ts` | `usage_buckets`, the subscription | evaluate, reserve, commit, release | `IngestPipeline`, `QuotaPromise`, `DayWindow` |
| Platform reprocessing | `platform-admin/` | - | UNMATCHED back to PENDING, new jobs | `IngestPipeline` |
| Subscription lifecycle | `plans/` | the subscription row, usage counters | plan changes, rollover, trial expiry, counting | `Subscriptions` |
| Plan limits | `plans/plan-limits.service.ts` | - | count, compare, create | `DevicePairing`, `DevicePresence`, `Membership`, `Caches` |
| Webhooks | `webhooks/` | endpoints, deliveries, BullMQ jobs | dispatch, attempt, retry by hand, edit | `WebhookDelivery`, `DeliveryPromise`, `Panel` |
| Android capture and sync | `src/apps/android` | a Room table, a WorkManager chain | capture, sync, defer, expire | `AndroidSyncQueue` |
| Devices, trial identity | `devices/` | devices, codes, claims | pair, heartbeat, revoke, mark offline | `DevicePairing`, `DevicePresence` |
| Members | `members/` | memberships, invitations | invite, accept, roles, ownership | `Membership` |
| Sessions | `auth/`, the dashboard's `auth-session.tsx` | refresh tokens, a cookie, tabs | login, refresh, logout, new password | `Sessions` |
| Ways in | `auth/`, `platform-auth/`, the forms | accounts, mailed links, lockout | register, verify, reset, login | `Access` |
| API keys, pattern catalogue | `api-keys/`, `parsing/adapters` | rows and Redis entries | create, verify, revoke; activate, read | `Caches` |
| Transactions, realtime | `transactions/`, `realtime/` | `transactions.status`, sockets | confirm, dispute, list, summary | `TransactionDesk` |
| Dashboard | `src/apps/dashboard` | query cache, dialogs, the active tenant | the pages of a tenant | `TransactionDesk`, `Panel`, `Access`, `Dashboard` |
| Parsers, retention, audit, metrics, mail, infrastructure | | | | no, see section 6 |

### How they interact

A notification's way through the system crosses five processes, and no two steps are in one
transaction unless the code says so:

1. The phone stores the notification in Room and schedules a WorkManager run, which sends batches to
   the API and deletes what the answer confirms (`accepted`, duplicates included).
2. The ingest handler checks the subscription, and then in one transaction inserts the rows
   (`ON CONFLICT DO NOTHING`), reserves quota for the new ones, and deletes those that got none. After
   the commit it adds one BullMQ job per row, one at a time, and answers.
3. A parsing worker takes the job, reads the row, and unless it is still PENDING stops. A text that no
   parser matches is marked UNMATCHED in one transaction and its unit is released in a second one. A
   match is written in one transaction: the Transaction row, PARSED, and the quota. It then emits
   `TransactionCreated` in memory.
4. The event reaches the realtime gateway and the webhook listener. That one writes a delivery row and
   adds a job per endpoint; the webhook worker makes one attempt per job and queues the next attempt
   itself. A dashboard that hears of it loads its list again.
5. Beside all this: the schedulers (the trial's end, the period's end, devices that fell silent), plan
   changes, the platform's administrators, and the people who pair phones, invite members, confirm and
   dispute payments, edit endpoints, revoke keys, log in and out.

### What is hard, and what must hold

- *Ingest and parsing*: at-least-once delivery at both ends (phone to API, BullMQ to worker) with
  side effects that must happen once. An acknowledged item is stored; a stored item is interpreted; a
  payment is recorded, charged and announced at most once.
- *Quota*: concurrent batches reserve unit by unit over two buckets, settlement happens later and maybe
  on another day, release is not atomic with the status. The limits are never passed, a unit is held
  until it is settled, the trial is closed when its total is used up.
- *Subscriptions*: three writers (an administrator's change, the rollover, the closing of trials) that
  read first and write by id. Periods follow each other, the trial's end is mailed at most once and only
  after its close, a worker does not tell of a threshold again.
- *Webhooks*: each attempt queues the next, attempt numbers become job ids, several workers count the
  failures of one endpoint. Deliveries settle, requests are on record, a dead endpoint is turned off.
- *Phone*: a persistent queue and a persistent chain of works that are updated separately. Nothing
  leaves the phone unless stored or refused a whole window ago; everything leaves at last.
- *Devices, members, sessions*: one-time things (pairing codes, invitations, refresh tokens, trials)
  used by two requests at once, on rows read before they changed.
- *Caches*: an invalidation that crosses a reader which fills the cache with what it read before.
- *Dashboard*: lists that are loaded while messages arrive, answers that cross with loads, a session
  that is renewed or switched to another tenant, roles and tenants that change, in between.

`PROJECT.json` lists the hazards at their lines with the properties that would notice them.

## 2. The modules

| Module | What it is |
|---|---|
| `IngestPipeline` | steps 1-3 above for one tenant that starts in the trial |
| `QuotaPromise` | the abstract specification of the trial quota: units held, charged, given back |
| `DayWindow` | the limits of a local day in UTC, around a transition of the clock |
| `WebhookDelivery` | step 4: dispatch, attempts, retries, disabling |
| `DeliveryPromise` | the abstract specification of a delivery: announced, requested, on record |
| `AndroidSyncQueue` | step 1 in detail: the Room table and the WorkManager chain |
| `Subscriptions` | the subscription row: plan changes, rollover, trial's end, usage counter |
| `DevicePairing` | codes, the device limit, pairing, the claims of trial identity |
| `DevicePresence` | heartbeats, the offline check, the phone's list of packages |
| `Membership` | invitations, roles, removal, the transfer of ownership |
| `Sessions` | refresh tokens and the tabs that share their cookie |
| `Caches` | the cached parser rules; API keys, their limit and their cache |
| `TransactionDesk`, `Panel`, `Access` | the pages of the dashboard with the handlers behind them |
| `Dashboard` | the three of them as one specification |
| `IngestInvariants`, `...Proofs` | inductive invariants and theorems |
| `MC...` | symmetries and small instances used by the runs |

A definition whose comment begins with "Mutant" or "A mutant" is not part of the specification: it is a
plausible bug, used to see that a property notices it.

One rule for the grain of the actions holds throughout. A handler runs at READ COMMITTED. What it does
in one statement is one step; a row that it reads and later writes by id alone is read in one step and
written in another, and anything may commit in between. An UPDATE with a condition re-evaluates it when
it gets the row, so the condition is the guard of the write. Unique indexes and triggers are conditions
of the commit. What follows a commit (a job, a mail, an event, the deletion of a cache entry) is a step
of its own, and the process may end before it.

### IngestPipeline

A notification stands for one (device, `dedupe_hash`) pair: sending it again is sending the same
element. `parseStatus`, `quotaWindow`, `transactions`, the four bucket variables and `subscription` are
the database; `jobs` is Redis; `request`, `worker` and `admin` hold the local variables of a handler
between two of its steps. `createTransaction` reads the subscription with a plain SELECT and writes with
later statements; it is split into `BeginCommit` (the read) and `CommitTransaction` (the writes, which
take row locks). `InsertRows` is one action although `reserveQuota` is a loop of UPDATEs: the locks of
the first unit are kept until the commit, so the other requests wait. `Granted(c)` is what that loop
grants.

Which outcome a text has (`StartJob` chooses `matched` or `unmatched`) is a free choice at every run,
since wallets and patterns can change between two runs. Time is `today` and `trialClock`; the monthly
gate of a paid plan counts the payments posted after the upgrade.

BullMQ is modelled from how the code uses it: a job id that is still kept makes `add` a no-op, an attempt
that throws is repeated up to `MaxAttempts`, a job whose lock expired is given to another worker up to
`MaxJobStalls` times. `LoseLock` leaves the first worker running, so a job can run twice at once. A
completed job is kept for ever, where the code keeps it for an hour; delays are left out, so a waiting job
may start at any time.

### DayWindow

`resolveDayWindow` finds the start of the tenant's local day by two passes of `offsetMsAt`, and the end
by probing 25 hours later. That start names the row of `usage_buckets`, so `IngestPipeline` may count
days only if all instants of one day come to one start. The module says how both are computed, in
milliseconds, for a zone seen around one of its transitions: an instant and the offsets before and after
it. It has no state: TLC evaluates its facts as the ASSUMEs of `MCIngestPipeline`, on half hours around a
midnight, and two theorems say them of every instant and every transition.

### WebhookDelivery

`delivery` and `endpoint` are rows, `jobs` the queue, `dispatcher`, `worker` and `retrier` the local state
of `enqueueForEvent`, `doProcess` and `retryDelivery`. A worker's `at` is the step it will do next, so a
crash can fall between the request and the outcome, between the outcome and the next job, and between
giving up and counting the failure. `sent` and `streak` are history variables: the requests that left, and
the deliveries of an endpoint that were given up in a row.

`DeliveryPromise` is what the owner of an endpoint is promised, without jobs or workers: a delivery is on
record as made only if the endpoint answered 2xx, and, as long as nothing failed and nobody retried by
hand, requests of it follow one another, each only when those before it are on record, and none comes
after that answer. `KeepsDeliveryPromise` is the refinement: `Statuses` and `Attempts` are the columns of
the row, `Accepted` the deliveries whose worker holds an answer that is not stored yet.

### AndroidSyncQueue

`queue` and `row` are the Room table, `works` the unique WorkManager chain `yallego_notification_sync` as
the list of its works' delays, `sync` the local state of `doWork`. `DeleteConfirmed` and `Defer` are two
actions because `handleIngestResponse` makes two DAO calls, `ScheduleRecheck` is a third one. Time is in
hours, relative to the row or work that waits. The server is what an answer shows of it: open, out of
daily quota, limited for another reason, without subscription. `refused`, `refusedFor` and `unnoted` are
histories of what the server said, kept apart from the columns of the row: the items it last refused for
want of a subscription, for how long, and those whose later answer a stopped run did not note. A paired device and a fixed list of
watched packages are assumed. An hour passes only between two runs, which WorkManager ends after ten
minutes; after a death of the process the listener is bound again by the start of the service.

### Subscriptions

`subscription` is the row, `usage` the rows of `usage_periods` by their first day, `admin`, `rollover`,
`closer` and `counter` the local state of an administrator's `applyConfirmedChange`, of an instance of
the rollover, of one of the closing of trials, and of the usage counter. Days are numbers of a calendar
without leap years; `AddBillingCycle` runs over into the next month as `setUTCMonth` does. Only the days
in `Days` happen. `closer` has a step after the close, in which the recipients are read and mailed: an instance
that stops there (`TrialMailLost`) never mails. `trialMails`, `told` and `undone` are histories: the
mails of a trial's end, the thresholds each worker mailed, and those of which a mail or a mark failed.

### DevicePairing, DevicePresence, Membership

`DevicePairing`: `code`, `device` and `claim` are tables, `pair` the local state of `pairDevice`. The
INSERT of a claim waits for an uncommitted one with the same key: `claim[s].by` is the request that
holds it uncommitted. `RefuseSignature` is a phone that signed other signals than it sends. A phone's two signals (the Android id and a key) are values that two phones may
share in part. `DevicePresence`: `row` is the device's row, `wallet` the enabled wallets, `phone` the
list of packages it has, `call` its heartbeat or configuration request with its answer on the way,
`checker` an instance of the scheduler. `Membership`: `role` is the table of memberships, `invitation`
that of invitations, `req` the local state of a handler: `inviteMember` looks for a member, then for an
open invitation, and then writes. The trigger and the partial index that keep one owner are guards of the
commit.

### Sessions, Caches

`Sessions`: `token` is the table of refresh tokens, `cookie` what the browser holds, `tab`
the state of `AuthSessionProvider`, `call` a request on its way. An UPDATE of all of a family's or a
user's tokens is two steps: the rows it sees, and its write. `Caches`: two independent halves. A parse
reads the cache, then the database, then fills the cache; an activation commits and deletes the entry
afterwards. An API key is created after a count of those in force, its revocation deletes
its entry before the commit, and a request with the key reads the cache, then the row, then fills the
cache. `late` marks a request that came after the revocation, `stale` one that was let in by an entry
filled behind the deletion, `overtaken` counts the creations that were counted while another was under
way. Redis may fail a deletion, and entries expire.

### TransactionDesk, Panel, Access, Dashboard

`TransactionDesk` is the page of transactions: `feed` and `load` are the list and the load of it under
way, as TanStack Query keeps them, `socket` the connection with the messages on their way, `call` a
request to confirm or dispute, `member` the role of who has the page open, the role the session knows,
and whether the person still is a member of an active tenant. Each request passes `Guard`, which is
`PublicApiAuthGuard`'s second look at the membership and `AccessPolicyGuard`'s at the role, and only then
reads its row. Owners and admins may do on this page what an operator may, so two roles are enough. `Panel` is the seven pages on which rows are administered; they are
built alike, so they are one module with a table of buttons per page (`DeviceOps`, `WalletOps`, ...)
that says which role and status a button is offered at, which role the controller asks for, which
statuses the handler refuses and what it writes. `session`, `renewal` and `switching` are the tenant
the browser works for, `suspended` the tenants that are not ACTIVE: `Admitted` is `TenantGuard`, which
refuses their members. A success loads the list again; if the query is still at its first load, as after
a change of tenant, the library goes on with that one (`Invalidated`), and `joined` notes that it was
already answered. `Access` is registration, the mailed links, the login with its lockout, and the
forms. `Dashboard` has one of the three open in each behaviour: they share no state but the session,
and what another window does is among the requests of others in each. The rules of the query library
are external and modelled from how the pages use it.

## 3. The runs

Every property has a mutant of the code that breaks it in its run. Symmetry over model values is used in
the runs without liveness properties. `CHECK_DEADLOCK FALSE` is set where the system may really stop:
nothing more to capture, all jobs done, the bounds on requests used up.

| Run | Question | Why these bounds |
|---|---|---|
| `Pipeline` | do batches stay within the limits, keep each accepted notification's unit, close the trial at its total, and implement `QuotaPromise`, under crashes, failed attempts and lost replies? | 3 notifications for 2 units a day and in total, so that two are held while a third is refused; 2 workers, 2 days: a unit reserved on one day is settled on the other; one fault at each end; the trial's clock |
| `Pipeline_reruns` | can overlapping runs charge or record twice? | 2 notifications, one lost lock, one reprocessing call, one upgrade: up to three runs of one notification |
| `Pipeline_live` | is every stored notification interpreted? | one worker fault, fewer than the attempts; no request cut short (see `Pipeline_payment_lost`) |
| `Webhook` | do deliveries settle as `DeliveryPromise` says; do chains not multiply; is a failing endpoint turned off? | 2 events to 1 endpoint with `DisableAfter = 2`: two workers count the deciding failures at once; 2 attempts; one crash, retry or edit |
| `Android_sync` | does a row leave only when it is stored or was refused a whole window ago, and does each leave? | 2 notifications in one batch, so that a batch is confirmed in part; retention longer than the recheck; one change of mind of the server |
| `Subscriptions` | do periods follow each other, is the trial's end mailed once and only once closed, does a worker tell of a threshold again, does a downgrade take effect? | 2 administrators, 2 instances of each scheduler, 2 counters that both cross a threshold, one failed mail, one instance that stops before its mail, days 30 and 122: registration, and a day on which the trial is over, several periods are due and one ends; a free and a paid plan |
| `DevicePairing` | does a code pair one device, a phone give one trial, is the limit kept by pairings that do not cross? | 2 tenants, 3 codes, 3 requests, signals shared in part, limit 1 |
| `DevicePresence` | is each silence mailed once, is a phone that beats online in the end, does it end with the current list? | 2 calls that overtake each other, 2 instances of the check, 2 wallets with a limit of 1, 2 ticks |
| `Membership` | does ownership pass only from who holds it; does an invitation let one person in once? | 3 people, 2 invitations, 2 requests at once, limit 2, 9 steps |
| `Sessions` | one live token per family; sessions end with the password; an honest browser is not thrown out; loading ends | 2 tabs, 3 calls, 5 tokens, 1 link, 5 requests |
| `Caches` | is a request with a revoked key let in only by an entry that crossed; does all that is stale end? | 2 versions, 2 administrators, 2 parses; 2 keys for a limit of 1, so that two creations cross; 2 users, 1 check; 2 changes |
| `Dashboard` | do lists and buttons agree with the database but for what crossed; do links and lockout do what they say; does the desk catch up? | pages of one row so that a cursor is used, 2 transactions of one second, the later of which comes while the page is open, one trouble, which may be a change of the operator's role or of the tenant's status; one row per panel page, 1 change, none on the page of webhooks, whose crossings need none, and on the page of wallets 2 changes and a second tenant, to switch away and back; 3 requests, 3 links, lockout after 2 |

Bounds that end time or count requests (`MaxTime`, `MaxAsks`, `MaxChanges`, ...) are guards in the modules
and are named there.

Further configurations are kept for the disagreements between the code and what its documents,
comments or messages say. TLC finds each property in them violated, and each is a finding in
`PROJECT.json` with both sides quoted: `Pipeline_payment_lost`, `Pipeline_reprocess_exceeds`,
`Pipeline_paid_downgraded`, `Webhook_retry_strands`, `Membership_revoked`, `Caches_revoked`, and
`Android_findings`, `DevicePairing_findings`, `Subscriptions_findings` and `Dashboard_findings`, which
name two, two, three and five properties to be checked one at a time. One finding needs no behaviour: where the clock is
put back to the midnight it has just passed, as in Havana and the Azores, one local day has two windows
and so the daily quota twice (`OneWindowPerDay`; no tenant is in such a zone as long as nothing writes
`tenants.timezone`). `Webhook_retries` is a
larger passing instance of the webhooks: 3 attempts, one retry, one crash, one error.

Four more things the models show, which no document denies. `markUnmatched` and `releaseQuota` are two
transactions. If the worker dies in between, the retry finds the row UNMATCHED, stops at the PENDING
guard, and the reserved unit is never given back. So `reserved` can stay above what is held: quota is
lost to the tenant, never gained. This is why `ReservedCoversHeld` is an inequality and why
`QuotaPromise` is about held and charged notifications rather than about the buckets. And with a lost
lock beside a reprocessing call, `EveryPendingIsParsed` fails: one run's UNMATCHED overwrites the other's
PARSED, the row is reset to PENDING, and every later commit is refused by the unique index.
`Pipeline_live` has neither. A success on a page of the panel that joins a first load already answered,
after a switch to another tenant and back, may be missing from the list until it loads again;
`OwnActionsAreShown` excuses it by name. And when a threshold mail of 100 % is followed by a count while
80 % is unmarked, as when one transaction crosses both, the next transaction mails 80 % after it.

### Fairness

- *Pipeline*: weak fairness of `EnqueueParse`, of a worker's steps, of BullMQ handing jobs to idle
  workers, and of an administrator's call that has begun. The code runs each to its end without
  waiting for anything else. The phone, the clock, the user and the faults are under no obligation.
- *Webhooks*: the same, for dispatchers, attempts and retries. A delayed job starts at last, since
  delays are finite.
- *Phone*: time passes, WorkManager runs a work whose delay is over, the service comes back after
  a death of the process (`START_STICKY`, the boot receiver). `EveryItemLeaves` also assumes that the
  server settles on open or on blocked: with a server refusing for ever, rows wait for ever. It exempts
  behaviours with a run cut short, for which `Android_findings` (`QueuedHasWork`) shows it to fail.
- *Subscriptions*: days pass, a change that has begun commits, the rollover runs daily and finishes; the
  closing of trials is under no obligation. Safety needs a
  part of it too: a rollover writes before the next day's reads (`PeriodIsWritten`). One that stood still
  for a day while another instance opened the next period would set the period back, and TLC shows it.
- *Presence*: what is sent is served, the check runs, a wallet under activation is written, and the
  phone starts heartbeats again and again (strong fairness: WorkManager repeats them every few minutes,
  though another call may be under way at each single one).
- *Sessions*: each call that was sent is served or lost, and its answer or its loss is received.
- *Caches*: steps that have begun end, and entries expire (Redis' TTL).
- *Desk*: the API serves what was sent, the network delivers, the socket library connects again. Nobody
  has to press anything.

## 4. The proofs

TLC checks the instances above. TLAPS proves what follows for every value of the constants that the
named ASSUMEs allow: any number of people, phones, workers or calls, any limits, any bound on faults.
Each proof module extends its component (`PhoneProofs` extends `DevicePairing` and has `DevicePresence`
and `AndroidSyncQueue` as the instances `Presence` and `Queue`) and leads to one lemma `Init => Inv` and one
`Inv /\ [Next]_vars => Inv'`, with a step per action; what only one theorem needs is proved on top of it.

| Module | Theorem | Says |
|---|---|---|
| `IngestPipelineProofs` | `TypeCorrect` | `Spec => []TypeOK` |
| | `AcknowledgedIsStored` | the phone deletes only what the server has stored |
| | `UsedIsExact` | used units = recorded payments, in total and per day, as long as the trial lasts |
| | `TrialIsClosed` | a trial whose total is used up is closed |
| | `PublishedAtMostOnce` | a payment is announced at most once, after its commit |
| | `QuotaRespected` | under `NoReruns`: limits respected, payments stay PARSED |
| | `HeldIsReserved` | under `NoReruns`: each notification that holds a unit is counted as reserved |
| | `PromiseKept` | under `NoReruns`: `IngestPipeline` implements `QuotaPromise` |
| | `OneWindowUnlessRepeated` | a local day has one quota window exactly when its midnight comes once |
| | `DaysFollowEachOther` | then, with shifts of an hour at most, a day's window ends where the next begins |
| `MembershipProofs` | `TypeCorrect` | types |
| | `SpentAdmitsNobody` | an invitation that was used or revoked makes no member |
| | `OwnershipPasses` | ownership moves only by a transfer of who owns the tenant then |
| | `OneWayInAlways` | one open invitation per person, none for a member, unless they crossed |
| `SessionsProofs` | `TypeCorrect`, `OneTokenWorks` | types; one live token per family |
| | `ReuseEnds` | after a reuse only a rotation that crossed the revocation left a live token |
| | `PasswordEndsSessions` | a live token is of the current password, or crossed its change |
| | `BrowserStaysIn` | a browser with one call at a time and no lost answer keeps its session |
| `CachesProofs` | `TypeCorrect`, `ServedRulesAreActive` | types; the cached rules are the active ones but for what crossed |
| | `RevokedKeysLeaveTheCache` | a revoked key is cached only by a check that crossed |
| | `LateRequestsAreRefused` | a request that comes after the revocation is let in only by such an entry |
| | `KeysKeepTheLimit` | keys pass the plan's limit by no more than the creations that crossed (`KeysWithinLimit`) |
| `PhoneProofs` | `TypeCorrect`, `OneDevicePerCode` | types; a code pairs one device |
| | `OneTrial` | no two tenants hold devices with a common signal, where it is enforced |
| | `NeverInPart` | a committed claim belongs to a device with all of its signals |
| | `LimitHolds` | only pairings that cross pass the limit of devices |
| | `QueueTypeCorrect`, `CapturedIsKept` | types of `AndroidSyncQueue`; what is captured leaves the phone stored, or refused a whole window ago (`DiscardedWasRefused`) |
| | `PresenceTypeCorrect`, `MailsFollowMarks` | types of `DevicePresence`; at most one mail per mark and check (`MailsPerMark`) |
| `WebhookDeliveryProofs` | `TypeCorrect`, `OneChainEach` | types; a delivery is attempted by one job at a time, and one more per manual retry or crash |
| | `SendsAreRecorded` | requests are on record and at most the maximum, without faults and retries |
| | `DeliveriesAsPromised` | `WebhookDelivery` implements `DeliveryPromise` |
| | `FailingIsOff` | an endpoint that fails too often in a row is off, without faults |
| `SubscriptionsProofs` | `TypeCorrect`, `PeriodsFollow` | types; billing periods leave no day out |
| | `TrialEndMailed` | the trial's end is mailed at most once, after its close; only a stop between the two loses the mail |
| | `ThresholdsTold` | a worker tells of a threshold again only if a mail of it or its mark failed |
| `DashboardProofs` | `RefusalsAreEarned` | what a page offers is refused only if the row or the role changed, or the person is out or the tenant suspended |
| | `NothingForeignNorTwice` | no row of another tenant on a panel, none twice on the desk |
| | `OwnIsShown` | a list at rest shows what its own requests did, unless a success joined an answered first load |
| | `DisputesHold` | only a request that crossed a dispute takes it back |
| | `LinksWorkOnce`, `UnverifiedHasAWay` | a link works once; who is not verified has one |
| | `LockIsEarned` | a lock stands on enough wrong passwords of one window |

`PublishedOnce`, `TransactionIsParsed`, `ReuseEndsFamily`, `RulesAreActive`, `RevokedHasNoEntry`,
`KeysWithinLimit`, `SendsOnRecord` and `NoPartialOwnership` are proved and not part of a run.

### Assumptions

The named ASSUMEs of the modules: sets are finite where something counts their elements, bounds are
natural numbers, limits positive, and values like `None` are not among the elements they stand beside.
Three theorems of the pipeline also assume `NoReruns == MaxReprocess = 0 /\ MaxLockLosses = 0`. That
hypothesis cannot be dropped: `Pipeline_reprocess_exceeds` is the counterexample with one reprocessing
call, and a lost lock lets two runs settle the same unit.

### The pipeline

The inductive invariants are in `IngestInvariants`, and each conjunct is there because a step needs it:

- `OnlyStoredRows` strengthens `AckedIsStored`. An answer acknowledges what the handler noted earlier,
  so the note has to be about stored rows at every moment in between; likewise for workers and calls of
  an administrator, since nothing deletes a committed row.
- `UsedInv` = types + `OnlyStoredRows` + `TrialRowsReserved` + the property. `commitQuota` charges the
  bucket of `quota_window_start`; used per day is exact only if each row stored during the trial carries
  a day, and if a commit under way during the trial has read the trial.
- `ClosedInv` adds `EndReadIsThere`: a commit that read an end of the trial, and so does not set one,
  relies on its still being there. Nothing takes it back.
- `PublishInv`: the worker at `publish` is the only one for its payment. The unique index on
  `raw_notification_id` makes the second commit fail, so no PENDING guard is needed here, which is why
  this theorem holds with lost locks.
- `QuotaInv` adds `OneRunPerRow` (a busy worker holds the only lock on its job, hence two busy workers
  work on different rows), `StatusFollowsRun` (a run past its guard sees the status it read),
  `AbsentUnreserved`, `TrialCommitReserved`, and `UnitsHeld`: `reserved` covers the rows still to be
  settled. Without `UnitsHeld`, the `GREATEST(reserved - 1, 0)` of a settlement might be a no-op and
  `used + reserved` would grow. `UnitsHeld` is about all rows, whatever the plan is by now; the property
  `ReservedCoversHeld` is what it says of the trial.

`PromiseKept` goes step by step: an insertion is `Accept`, a commit is `Charge`, a mark as UNMATCHED is
`GiveBack`, and every other step leaves `held` and `charged` alone. The bound in `Accept` comes from
`QuotaWithinLimits`, `UnitsHeld` and `UsedMatchesTransactions` together.

The two theorems on `DayWindow` need no invariant. `OffsetIsExact` says that truncating to seconds loses
nothing, `StartIs` and `DayOfIs` reduce both functions to inequalities. If the midnight of a day comes
before the transition for instants on both sides of it, both passes end on the offset before it; the
clock showing that midnight again afterwards (`RepeatsMidnight`) is the only way for this to fail, and
then it does fail, for the instant before the transition and that second midnight. Each hypothesis is
needed, which TLC confirms (`DaysMayNotFollow`). A zone with two transitions within two days is outside
the model.

### Members, sessions, caches, devices

- *Membership*: `Inv = TypeOK /\ Consistent /\ OneOwner`. `Consistent` links rows to the invitations
  that made them, so that an accepted one is never used again. `OneOwner` is what the trigger and the index
  ask of every commit, no achievement of the handlers, so it is no theorem of its own; with it, `TransferOwnership`
  cannot commit unless the row it demotes is the owner's at that moment. `Ways` is about people who were not `crossed`: their
  open invitation is the only one, expired or not, and a request about to create one is alone and has
  found it.
- *Sessions*: `Inv = TypeOK /\ Referring /\ CallInv /\ Safe`. A call that will give a token was crossed
  by every revocation that runs (`CrossedIfGiving`), and a running revocation holds every token it must
  revoke but the crossed ones (`HasItsRows`): the two halves of the race between the rows an UPDATE sees
  and its write. `Safe` is the three properties together, as each needs the others. `BrowserInv` is about
  a browser that is still honest: at most one call of it is in flight, that call presents the cookie or
  carries the next one, and it is answered with a reuse only for a cookie that works no more anyway.
- *Caches*: `RulesInv` and `KeysInv`, one for each half, are the properties, types, that a key under
  revocation is in the cache again only if a check crossed (`RefilledIsStale`), and what a late request
  can know at each of its steps (`LateIsKnown`). `CountedWithinLimit` counts the creations that passed the
  comparison and have not inserted yet beside the keys in force; each of those but one has overtaken
  another's count.
- *Devices*: `Inv` says what a pairing between two of its steps has inserted and not committed
  (`PairInv`), that every uncommitted claim belongs to such a pairing (`ClaimInv`), that a device keeps
  its claims (`EnforcedInv`), and the stronger `OwnedInFull`. `LimitInv` adds that in a tenant without a
  race one pairing at most is between its count and its commit, and that the place it found is free.
- *The phone's queue*: `QueueInv` adds to the types that a worker that runs is the head of the chain,
  that what the worker notes as confirmed is stored, and that the `age` of a row that waits for a
  subscription is at most the time for which the server has refused it, unless an answer in between was not
  noted (`BlockedSince`). The expiry looks at the row, the property at the server's answers: they part
  when a run is stopped between the answer and `Defer`, and `Deferred`, which starts `blocked_at` again on
  another reason, is what keeps them together otherwise.
  `RowsWithout` says that deleting and choosing rows keeps the others, each once and in order of rank.
- *Presence*: `MailsInv` counts the mails with the checkers that hold one or are about to mark, against
  the checkers times the marks: as long as the device is marked no checker but those can mail again, and
  a mark that nothing has cleared yet has not been mailed as recovered.
- *Webhooks*: `JobsInv` says that a busy worker's job is active and nobody else's. `ChainsInv` counts,
  for each delivery, the jobs and workers at it together with what may still start a chain: a first job
  that was never queued, a retry under way (`Within`). The attempt that queues the next one leaves as
  it does, a job that is taken goes on as its worker. From the one chain follows `RecordInv`: as long
  as an attempt is under way nobody else writes the row, so its number is one above those on record
  until the outcome is stored. `DisableInv` adds `Counted`: deliveries given up in a row are in the
  endpoint's row or about to be counted, so the increment that returns the deciding value is among them.
  `DeliveriesAsPromised` adds `RowsInv`, that jobs, workers and retries are about announced rows and that
  a dispatcher has announced just those it is past, and `OpenInv`, that without disturbance a delivery
  with anything left to do is PENDING: from it follows that the row a request or an outcome is about
  was not settled. Each step of a worker is then a `Request`, a `Record` or a stutter; a fault is `Disturb`.
- *Subscriptions*: `Inv = TypeOK /\ Tables /\ Periods /\ TrialEndMailedOnce /\ Marks`. `Periods` says that
  whoever is about to roll over has read the period the row has or one that ended no later. `Marks` says
  that a threshold a worker told of is marked in its period's row, or about to be by that worker, or its
  mail or mark failed; nothing takes a mark back. `MonthStart` is recursive; it is shown equal to the days
  before a month by the least argument at which the two would differ.
- *Dashboard*: one invariant for each of the three pages, since a behaviour has one of them open.
  `PanelInv` says that a request on its way was offered for the row and the role it names
  (`CallOffered`), that the list and its load are of the active tenant, and of each row an own request
  wrote last that the list at rest shows it, and so does an answer under way (`OwnIsCurrent`): whatever
  the success cancelled or replaced, a later answer read the row after the write, unless it joined a
  load whose answer was there before (`load.joined`). `OpsAgree` goes
  through the table of buttons and says that what a page offers, no handler refuses, and
  `CanIsAdmitted` that whom the page lets ask, the controller admits while the tenant is active. `DeskInv` says that what is
  loaded is sorted strictly, that the cursor is the last of it, and that an answer under way goes on
  after its cursor, although rows arrive before and behind it; `SortedIsSorted` is the lemma on the
  operator that sorts. `FormsInv` says what each request knows of its link, that a live link is sent or
  its mail failed (`LinksInv`), and that each read of the account found no more failures counted than
  wrong passwords recorded in the window (`LockInv`).

### Only model-checked

Liveness (`EveryPendingIsParsed`, `EveryDeliverySettles`, `EveryItemLeaves`, `PendingTakesEffect`,
`BeatingIsOnline`, `ConfigConverges`, `LoadingEnds`, `CachesCatchUp`, `DeskCatchesUp`): fairness and ENABLED are out of the
prover's reach.
`MailsPerMark` and `DiscardedWasRefused` are proved of the instances in `PhoneProofs`, under the same
conditions on the constants as the ASSUMEs of their modules.

## 5. The plan

The system's parts are modelled as far as section 6 says. What is left:

- The signatures of `WebhookDelivery`'s requests and the secret's rotation in one specification: `Panel` has
  the rotation, `WebhookDelivery` the attempts.
- The phone's registration (`DeviceCredentialsStore`, the pairing screen), which ends where
  `AndroidSyncQueue` begins.

The number of runs is kept small: a new property joins the run of its module, or takes the place of one
that a theorem covers.

## 6. What is not modelled

- Texts: what a notification says and how the parsers read it, the wording of mails, payloads and
  pages. A run of the parser ends in one of two ways, which is a free choice.
- Data that no property tells apart: amounts, names, signatures, hashes, how a TOTP code is computed.
- Pages that only show what a query returns: the landing page, the start page, plans, reports, audit,
  the profile, the platform's pages. So do the queries themselves: lists, filters, exports, metrics.
- Leap years; in `IngestPipeline` a day is a number.
- Delays and back-off (except the phone's recheck), rate limits, the removal of old jobs, the retention
  job.
- Row-level security and the number of tenants, where one tenant is modelled: all rows carry theirs.
- The tenant's status while a phone is paired (`Membership`, `Panel` and `TransactionDesk` have it);
  several devices in the pipeline, where a notification
  already stands for a (device, hash) pair.
- Infrastructure: configuration, containers, logs, health checks, DTO validation, the mail server.
- The composition of the modules. They meet in few places: the phone (a set of items in
  `IngestPipeline`, a table in `AndroidSyncQueue`), the announcement of a payment (an event in
  `WebhookDelivery`, a message in `TransactionDesk`), the server's answers, the rows that `Panel` and
  the modules of their handlers share. Each is a free choice in the other module, which allows at least
  what its counterpart does.
