# Focusly backend: specifications and proofs

TLA+ models of the backend in `src/app` (FastAPI, Strawberry GraphQL, Socket.IO,
SQLAlchemy on Postgres, Redis), TLC configurations that check them on small
instances, and TLAPS proofs of what matters most for every value of the constants.

Run from this directory:

    tlc -workers 2 -config BillingSerial.cfg MCBilling
    tlapm BillingProofs.tla

## 1. Inventory

Several worker processes serve requests with asyncio. Each request has one
SQLAlchemy session (`database.py`, `expire_on_commit=False`), Redis is optional and
every call to it may fail (`redis.py`), and background loops run in the web service
or in `worker.py`.

| Part | State it keeps | Operations | Talks to | Hard behaviour | What makes it correct |
|---|---|---|---|---|---|
| Billing (`modules/billing`) | plan columns of the user, Stripe's subscriptions, the trial key in Redis | checkout, status refresh, cancel, webhook, undoing duplicates | Stripe, Postgres row lock, Redis, browser | webhooks late, repeated and out of order; two workers; a lagging listing; failures between calls | the plan is Stripe's; one open checkout; duplicates end and are refunded, others never |
| AI metering (`usage_service.py`) | month and day counters on the user row | take, give back, add a cost | chat, planner, insights | single-statement UPDATEs with keys computed before; failure after the count; midnight | limits hold; counters are exact |
| Accounts (`modules/user`, `database.py`) | user row, `user:id:`/`user:email:` copies in Redis | read through, create, save (merge of a detached copy), delete | auth, billing, calendar | cache set before the commit; stale copies merged; savepoints instead of transactions | no column is undone by a stale copy; confirmed changes are stored |
| Auth (`modules/auth`) | cookies, links, tokens, Google access tokens in Redis | Google sign-in, magic link, refresh, log-out | accounts, rate limits, Google | sign-up in a savepoint; two requests waiting for Google at once; Redis away | sessions end; a kept token still works and is of this connection |
| Redis locks and rate limits | lock keys, counters | `acquire_lock`, `count_in_window` | sweeps, sign-in | Redis down answers None; a lease that is not renewed | one sweep per minute; nobody is locked out by trying |
| Tasks (`modules/task`) | tasks, copies in Redis, Google events | create, update, delete, list | Google Calendar, scheduler, workspaces | copies set before the commit; external call around a transaction and its compensation | the copy is the row; task and event go together; nothing returns |
| Scheduler (`services/scheduler`) | time blocks, dates of tasks | pipeline: read, place, replace | tasks | plans on what was read before; two pipelines at once | blocks in work time, on nothing; dates span them; dates set by hand stay |
| Google Calendar | sync token and channel on the user, linked tasks | sync, watch, webhook, edits | Google, tasks, accounts | 410; overlapping syncs; edits pushed before their commit | no change is skipped; an unpushed date stays |
| Notifications | notifications, flags on tasks, push subscriptions, locks | minute sweep, smart sweep, morning push, register | Redis lock, sockets, web push | processes sweeping at once; emit, commit, push; lock shorter than a sweep | a reminder once; none missed; what was pushed is listed |
| AI chat | conversations, messages, memories | stream, persist, remember, summarise, delete | Gemini, metering | the client goes away in a stream; a summary replaces messages | what was said is stored or summarised |
| Automation, canvases, workspaces, groups | documents, drawings, log of TODOs | create, save, remove, scan | tasks, plans, Redis copies | check and insert apart; copies before the commit | one task per TODO; the plan's limits; links to what exists |
| Tags, focus sessions | rows | create, list | smart checks | | |
| Insights, storage, media, GraphQL types | none of their own | queries, uploads | | | |

The hazards, each at its line, are in `PROJECT.json` with the properties that would
show them; a hazard without a property says why.

## 2. Modules and how they correspond to the code

### Billing.tla - `billing/services/stripe_service.py`, `billing/routes.py`, `billing/plans.py`

One user, one Stripe customer. *Stripe's* state is `subs` (status, card, trial, plan
of each subscription, numbered in order of creation), `charged`, `refunded` and
`events` (subscriptions with a webhook to deliver; a subscription's events are
interchangeable because the handler fetches the subscription anew). *Postgres* is
`row` and `rowLock` (`SELECT ... FOR UPDATE`, held until the commit), each worker has
its `_checkout_locks` entry in `hostLock`, Redis has `trialCache`, the browsers the
secrets they were handed in `shown`.

A request (`req[p]`) is at a location between two awaits, with its own copy of the
row (`row` as loaded, `mem` as changed: only changed columns are written, `Written`)
and the subscription it retrieved (`snap`), which may be stale when used.

| Actions | Code |
|---|---|
| `StartCheckout` ... `Respond` | `create_subscription`, `_lock_user`, `trial_days_for`, `_start_checkout`, `_adopt_trial_card`, `_checkout_response` |
| `StartStatus` | `get_status`, refreshing from Stripe or not |
| `StartCancel`, `CancelAtStripe` | `cancel_subscription` |
| `Deliver`, `LoadUser` | `handle_event`: retrieve first, then load the user; a failure leaves the event to be delivered again |
| `ApplySubscription`, `KeepOne`, `CancelExtra`, `RefundExtra`, `Commit` | `sync_subscription`, `_keep_one_subscription`, `_undo_duplicate`, `_refund` |
| `RequestFails`, `RefreshFails`, `TrialLookupFails`, `CancelStaleFails`, `AdoptRefused`, `CreateRefused` | the error paths |
| `FirstPayment` ... `StopsPaying`, `CacheExpires` | Stripe, the browser and Redis: what the code must cope with |

Left out: promotion codes (a plan with its code is one value of `Plans`), the creation
of the Stripe customer (idempotent, never changes), prices, invoices and wording.

### UsageMeter.tla - `billing/services/usage_service.py` and its callers

The month's and the day's counters of one user and the requests that use them.
`Admit` reads the plan, `Stamp` computes the key of the statement about to run,
`ConsumeMessage`, `ConsumeDaily`, `RefundMessage`, `RefundDaily` and `AddCost` are the
five UPDATEs, each atomic; `Reply` and `Reject` are the callers' outcomes and `Die`
the death of a handler anywhere. `takenIn`, `takenOn` and `spentIn` are history: what
really was used in each month and on each day. `Allowance` is the promise: an allowance
for the month and one for the day, of which a request takes one at one moment and then
keeps it, spends what its reply cost or gives it back. `MeterIsAllowance` is the
refinement; its mapping is the code's own reading of the counters (a count from another
month or day is zero) and, for what each request has in hand, the location it is at.

### Accounts.tla - `user/repository.py`, `database.py`, `auth_service.py`, `user/routes.py`, `account_deletion_service.py`

The account of one email. `rows` is Postgres as committed, `byId` and `byEmail` the
copies in Redis; a request has a session (`inTx`, `scope`, `loaded` - the identity
map's row -, `dirty`) and a `User` object at hand (`mem`), detached when it came from
Redis. `Get`/`FillCache` are the read-through; `Merge`, `Flush`, `Refresh`,
`UpdateCache` are `create`/`save`; `ListIds`, `Erase` the deletion; `ExitScope` the end
of `transaction_scope`, which commits only when it began the transaction; `End` is
`get_db` closing the session, which rolls back what was not committed.
`BillingChanges` is another session's `sync_subscription`; `Expires` Redis' expiry or
eviction.

Abstracted: columns are grouped into `plan` (billing's) and `details` (the requests');
Google's and the magic link's sign-in differ only in what they save; the two reads of
the user in a deletion and in stopping the channel are one; both `cache.set` calls of a
save are one step in which each may fail. Admins editing others' accounts are left
out, so only billing may change a plan.

### Tasks.tla - `task/services/tasks`, `task/infrastructure/persistence/repository.py`, `graphql/extensions.py`

A user's tasks: `rows` in Postgres, `copies` and `list` in Redis (`task:id:`,
`tasks:active:user:`), `events` in Google, `linked` (the workspaces' `taskId`). A
request (`req[p]`) is one GraphQL mutation in the extension's transaction: its
`writes` are flushed and not committed and lock their rows; `sess` is SQLAlchemy's
identity map, `copy` the object at hand, `base` what the session believes is stored
(only columns that differ are written: `Updated`).

| Actions | Code |
|---|---|
| `Start`, `CreateEvent`, `Insert` | `create`: the event first, then the row |
| `Read`, `Google`, `Flush` | `find_one`, `update`, `delete`: read through the copies, patch or delete the event, merge and flush, refresh the copies |
| `Plan`, `SavePlanned`, `MergePlanned` | `run_scheduling_pipeline` inside the mutation: the tasks it saves |
| `Commit`, `Abort`, `Fail`, `Undo` | the end of the transaction, refusals and deadlocks of Postgres, failures, `create`'s compensation |
| `Expire` | Redis' expiry |

### Planner.tla and Placement.tla - `scheduler_service.py`, `scheduling_algorithm.py`, `migration_service.py`

`Planner` is the pipeline of each request at the level of its awaits: `ReadTasks`,
`ReadBlocks` (classification and what is taken), `Next_` (the order and the window),
`Place` (one slot), `Settle`, `Replace`, `Commit`. Time is discrete; `Slots` are the free
starts fifteen minutes apart, `Piece` how much of a task a slot takes. `Placement` is
the promise: a plan's blocks lie in work time and on nothing the planner knew to be
taken, one at a time; `PlansArePlacements` is the refinement, under the mapping
`taken` = what each pipeline read, `plan` = the blocks it chose so far. Its steps are
not the code's: only `ReadBlocks`, `Place` and the end of a request are visible.
`SwitchHours` is the user's setting (`enabled`), which each pipeline reads again; while it
is off `Disabled` answers an edit without planning, and `unplanned` names the tasks whose
blocks are left from before such an edit. The hours themselves are constants.

### Reminders.tla - `task_notifier_service.py`, `sweep_lock.py`, `push_service.py`

Every process sleeps a minute, tries the lock (`Skip`, `Wake`), reads a window
(`Query`), emits and marks (`Remind`), commits, pushes. `Restart`, `Fail`, `RedisDown` and a
slow sweep (in `Tick`) are the failures; a sweep that is not slow ends within
`SweepSpan`. `Move` is an edit of a task's start or, with the start it has, of its
deadline: both take the marks back. `MergeCopy` is an edit that saves an older copy of the
task, and with it that copy's marks. `calm` says that nothing failed, that no such copy was
saved and that no task was moved between being read and being marked. `sent` counts what
was emitted for a task since its dates were last set. Notifications that users delete are
not followed here, since a sweep does not read them.

### SmartNotifier.tla - `smart_notifier_service.py`, `morning_push_service.py`

The ten checks of a sweep as the sets of notes they owe (`Owed`), `AlreadyNotified` as
the look at what is committed or flushed, the morning push with its key per local
day, one commit. `Delete` is the user deleting one notification or all of them, which
also deletes what the checks remember.

### CalendarSync.tla - `google_calendar_service.py`, `google_calendar/routes.py`

Google's calendar as events with versions (`g`), a token as the version it has seen,
tokens below `floor` answered 410. A sync is `Begin`, `Link`, `Fetch` or `Gone`, `Apply`
for each event, `Commit`; it starts from `PageLoad` (throttled), `Webhook` and `Route`,
and two overlap. `EditRead`, `EditPush` or `PushFails`, `EditCommit` are an edit of a
linked task meanwhile: dragged to estimated dates ("move"), given another deadline
("due"), changed otherwise or removed. `Preserved` is the comparison of etags; it keeps
estimated dates (`est`) and never a deadline (`Stays`). A full listing lists every event:
its limit of 30 days back is not followed.

### TaskQuery.tla - `query_tasks_by_user`

A row has what filters and orders tell apart; a text is the set of its words. `InSql`,
`HasTag` and `Before` are the conditions and the order; a client opens a list and reads
its pages while tasks change, and rows that the order leaves tied come in any order
(`Answers`). A page is cut from the list in SQL (`ItemsOfSql`, after `Count`), or, with
tags, from the candidates that match, which keep their order (`ItemsWithTags`).

### Chat.tla - `ai/routes/ai.py`, `ai/repository.py`, `summarizer.py`, `memory.py`

One conversation: `conv` is the set of messages its summary covers, `msgs` the stored
ones, both with copies in Redis. A message is stored and committed before its answer
streams; the answer, the memories and the summary are saved after it by a task that
outlives the client. A request (`task[p]`) works with the conversation it read, from the
copy (`detached`) or the table (`base`); `raced` says that a summary was committed meanwhile.

### Content.tla - `modules/workspace`, `modules/canvas`, `modules/automation`

Documents, canvases and folders under mutations in one transaction each, copies of
documents in Redis set before the commit, and the automation that scans a saved
document in a session of its own: how often each line is still to be looked up (`rest`)
and to become a task (`new`). `slips` are the histories the properties name: two creates at
the limit ("count"), one task taken twice ("take"), automations that overlap ("scan"), a
request that works with what another has just changed ("stale"), an update whose commit
failed and whose copy stays ("failed").

### SignIn.tla - `modules/auth`, `routes/rate_limit.py`, `routes/common.py`

Browsers with cookies (`jar`), links, the limiter's windows (`hits`), and Google's access
tokens in Redis (`kept`), which two requests of one user may fetch at once. A token is
its type, its user and its end; old tokens have no type. `passed` is the limiter's history:
when each key was let through, and as which hit of its window. Google's sign-in saves the
user it found whether or not it brings a new refresh token ("match", `SaveGrant`).

### MC modules

`MCBilling`, `MCUsageMeter`, `MCAccounts` and `MCTasks` extend the specifications with
symmetry sets and the functions a configuration cannot write (`HostOf`, `MonthOf`).
`MCServices` extends `Planner` and instantiates the seven other services over variables of
its own: `scene` says which of the eight moves, and the others rest. The constants of every
service are constants of `MCServices`, each with an `ASSUME` and with values in
`Services.cfg`, so that theorems can be about all of them. The services are separate
in the code too: what one service reads of another's state is a parameter or an action
of the environment in its own module (the planner's writes in `Tasks`, the plan's
changes in `Content`, a task's moves in `Reminders`). No definition of a specification is
replaced.

The operators marked "Slip" are plausible mistakes, not code: `PROJECT.json` names
the definition each one would replace and the property that then fails.

## 3. What is checked

| Run | Instance | Shows |
|---|---|---|
| `billing_serial` | one request at a time, all kinds, 2 plans, a trial, 2 subscriptions, 1 failure | `InStep`, `ProWasEarned`; `DuplicatesEnd` under fairness |
| `billing_concurrent` | 2 requests in 2 workers, checkouts and webhooks, lagging listing, 2 subscriptions | `RefundOnlyDuplicates`, `DuplicatesRefunded` |
| `billing_checkouts` | 2 checkouts in 2 workers, 2 plans, a trial, 2 subscriptions | `OneOpenCheckout`; `RowIsReleased` under fairness |
| `usage` | 2 requests, limits of 2, two months of two days | `Limits` (`MonthlyLimit`, `DailyLimit`), `MeterIsExact`; `MeterIsAllowance`, the refinement of `Allowance` |
| `accounts` | 2 requests of any kind but `calendar`, 1 id, with and without Redis | `PlanIsNeverInvented`, `PlanIsStripesUncached`, `AcceptedIsStored` |
| `tasks` | 3 mutations, 2 at once, 2 tasks, 2 titles, 1 failure, with and without Redis | `CopiesAreRows`, `NoOrphans`, `SyncedIsTrue`, `LinksAreLive`, `CompletedIsKept`, `RemovedStaysRemoved`, `TitleByItsEdit` |
| `services`, planner | 2 requests, 3 edits, 2 tasks, a horizon of 3 days, 2 of them working | `NoDoubleBooking`, `DatesCoverBlocks`, `HandPlacedStays`, `PlansArePlacements` |
| `services`, reminders | 2 processes, 1 task, 2 starts, a minute of 3 instants, a lock of 2, sweeps of less than 2 | `RemindedOnce`, `RemindedInTime`, `PushedIsStored` |
| `services`, smart | 2 processes, 2 tasks, 1 session, 2 days | `ToldOnce` (with `OneMorning`) |
| `services`, calendar | 2 syncs and an edit, 1 event, 2 changes, 1 failure | `TokenIsHonest`, `UnpushedStays` |
| `services`, query | 3 tasks of 5 kinds, 5 filters, 3 orders, pages of 2, 1 change | `PagesShowEverything` |
| `services`, chat | 2 processes, 3 exchanges, a summary beyond 2 messages, 1 failure | `NothingForgotten` |
| `services`, content | 2 processes, 2 documents, 2 canvases, 4 requests, 1 failure | `OneTaskPerTodo`, `DocumentsHold` |
| `services`, signin | 2 browsers of 1 email, 3 requests, 1 failure or outage | `SignInHolds` (limits, sessions, Google's tokens) |

**Bounds and why they are enough.** Two subscriptions make a duplicate, and let one of two
overlapping checkouts replace what the other made; two plans make it refuse to reuse
it. One failure (`MaxFailures`) covers every single point of failure, since failing requests
end and leave everything else to run. Two requests give every pairwise overlap.
`LastDay = 3` with `TwoDayMonths` has a midnight inside a month and one between
months; `FreeLimit = ProLimit = 2` lets two requests meet at the limit. `Details` has
two values, which is what "changed" and "unchanged" need. `accounts` has one id: with
a new id per sign-up two ids do not finish in reasonable time, and its three
properties are proved for any number of ids (section 5); the calendar's write, which
commits at once, is there as the first half of a deletion, and the proofs cover the
kind of its own.

In `tasks` no mutation starts once two have overlapped: what those two leave behind is
what the properties are about. In `services` the lengths keep
the code's proportions where they matter: a slot (4) is two strides (2) and shorter than
`MaxBlock`, an estimate (6) is one slot and a half, so that a task is split; the lock (2) is
shorter than the minute (3) and the windows are counted in minutes; three tasks and
pages of two make a tie cross a page; Chat's `Threshold` and `Keep` are passed by
three exchanges; sign-in's windows and lives differ, so that each ends alone. The constraint
`Bounds` of `MCServices` names what is cut: a sweep meets an act of the user or a failure,
a failure counts as one (or two) of the requests, and calendars are not followed past what
the properties excuse. `services` is the longest run: 1.2 million distinct states, about
three minutes.

**What the properties leave out.** Several hold only while nobody overlaps in a way the
code does not guard: `raced`, `overlapped`, `calm`, `excused` and `slips` are histories that
say so, each set at the one step that matters, and each such exception is a
disagreement of section 4 or a limit the comment of the property names. TLC finds a
counterexample when the exception is dropped.

**Fairness.** Only `FairSpec` of Billing has any: a request that started goes on
(`WF` of `Proceed`: the event loop keeps running it, a lock's queue moves) and a pending
webhook is delivered again until it is handled (`SF` of `Deliver`: Stripe retries for
days, and a busy process gets free again and again). Payments, new requests, changes
at Stripe and failures have none.

Deadlock is checked in every run but `services`: a calendar, a conversation or a document
may be left as it is.

## 4. Disagreements between the code and what it says

The first five are runs that TLC finds violated by the model of the code; `PROJECT.json`
quotes the lines.

1. `billing_late_event` (`InStep`): `handle_event` reads the subscription before it
   loads the user and locks nothing, so the older of two snapshots can be committed
   last, with no event left to correct it. One at a time (`billing_serial`) the
   property holds.
2. `billing_lost_refund` (`DuplicatesRefunded`): a duplicate is cancelled, the refund
   fails, and the retry no longer finds two paying subscriptions.
3. `usage_midnight` (`MonthlyLimit`): a message taken before the month ends and given
   back after it is taken off the new month's counter.
4. `accounts_deletion` (`DeletionIsPermanent`): the queries before `transaction_scope`
   begin a transaction, the scope is then a savepoint, and nobody commits. The answer
   is `{"success": true}` and the row is still there. Sign-ups with a cold cache are
   lost the same way; the acceptance of the terms, which opens its scope first, stores
   them after all (`AcceptedIsStored`).
5. `accounts_plan` (`PlanIsStripes`): `save` merges a copy that Redis kept from before
   billing changed the plan. Without Redis it cannot happen
   (`PlanIsStripesUncached`).

Further disagreements met while modelling, without a run of their own; each is quoted in
`PROJECT.json`, and each is visible in the models as an exception of a passing property
or as an action the code does not have:

6. An edit that holds a cached copy of a task somebody else removed inserts it again; a
   stale copy writes an old title back (`Tasks`: `Alone`).
7. `create`'s compensation does not see a commit that fails after it, since its
   transaction is a savepoint of the mutation's; its socket event is out by then (`NoOrphans`).
8. The planner reads a priority that is never passed, so only deadlines order tasks
   (`Planner`: `Key`).
9. `POST /time-blocks` answers with an id and stores nothing (`Planner`: `blocks`).
10. The smart checks do not know the status "Done" (`SmartNotifier`: `Completed`, `Pending`).
11. A request that read a conversation before a summary was committed writes the old
    summary back while the messages are deleted, or fills the copy with it, from which a
    later request does (`Chat`: `raced`).
12. Identical TODO lines in one save, and overlapping saves, become several tasks
    (`Content`: `most`, "scan").
13. A document created with a task does not release it from the others ("take"); two
    canvases created at the limit both pass ("count").
14. A task moved between a sweep's read and its mark gets no reminder for its new start
    (`Reminders`: `calm`). Nor does a task whose last window falls between two sweeps that
    both take longer than half a minute, which the lock of 55 seconds allows: with
    `Period = 6`, `Ttl = 5`, `SweepSpan = 5` TLC finds `RemindedInTime` violated, and with
    `SweepSpan = 4` not (section 5).
15. A removal that read a task before another mutation completed it erases the completed
    row, although completed tasks are to be kept (`Tasks`: `CompletedIsKept`, `raced`).
16. A new deadline takes back the marks of reminders that announced the start, which it
    does not change: they go out again, and nothing has failed (`Reminders`: `sent`). So
    they do when an edit saves a copy from before the marks (`calm`).
17. A deadline that never reached Google is overwritten by the next sync, whose
    preservation covers the estimated dates only (`CalendarSync`: `UnpushedStays`, `est`).
18. A document whose update failed at its commit keeps the copy of what it was to be; its
    next update merges that copy, and the task it takes is released by no other document.
    One request at a time is enough (`Content`: "failed").
19. The smart checks remember what they told by the notifications in the list: what a
    user deletes is told again while it is due (`SmartNotifier`: `Delete`, `ToldOnce`).

Of 15 to 18 TLC finds a counterexample as soon as the named exception is dropped from the
property.

Not a disagreement, since nothing says otherwise, but worth knowing: while the work hours
are switched off nothing is planned, so a task dragged then keeps its old blocks outside its
dates until the next plan (`Planner`: `unplanned`).

## 5. What is proved

All for any number of requests, ids, subscriptions, days and limits, from the named
`ASSUME`s of each specification, which TLC evaluates in every run.

**BillingProofs.** Six results, on invariants that build on each other.

- `TypeCorrect` and `RefundsAreJustified` (`RefundOnlyDuplicates`). A refund is
  decided on a snapshot and a listing that are stale by the time it is made, so the
  property is not inductive: `IInv` adds that the snapshot of a request gives access
  only if its subscription once did, that every subscription in `extras` has an older
  one in `everGranted` (`HasElder`), and where a request must have which of these
  (`WellPlaced`). `everGranted` only grows, so what was true when read stays true;
  `KeepOne` picks the least element of the paying ones, which is why the others have
  an elder (`HasLeast`, `OldestIsLeast`). The other proofs use the same idea for all of
  Stripe: `Lives` says what every step leaves of a subscription's past - what ended stays
  ended, what gains or loses access has a webhook - and is proved once per action.
- `DuplicatesAreRefunded` (`DuplicatesRefunded`) as long as no call failed, whatever
  overlaps or lags: what was undone and had charged is refunded or is `Owed`, the first
  of the `extras` of a request at "refund". Finding 2 shows why the hypothesis is
  needed.
- `OneCheckoutOpen` (`OneOpenCheckout`) under `OnlyCheckouts`, for any number of
  checkouts, workers, plans and trials: a checkout between the row lock and its commit
  still has the row it read (`CheckoutOK`), what that row pointed to is closed before
  another is made (`OverAt`), and whatever is `Handed` to a browser and still open is the
  one the row names. Other requests are left out because it is false with them: the
  hazard at `stripe_service.py:428`, a late webhook that clears the newer id.
- `ProIsEarned` (`ProWasEarned`) and `PlanFollowsStripe` (`InStep`) under `Serial`, one
  request at a time, with any failures: `PlanInv` says that every access Stripe gives is in
  the row or `Pending`, a webhook to deliver or being handled, and `StepOK` where a
  request in the middle of `_keep_one_subscription` stands to it. Finding 1 is why
  `Serial` is needed; `~ListingLags` because what a listing misses nobody tells
  `_keep_one_subscription` about.

**UsageProofs.** `TypeCorrect`; `UsesAreLimited` (`Limits`, of months and of
days) and `CountsAreExact` (`MeterIsExact`) under `QuietMidnight` (finding 3 shows that the
assumption is needed). The hard step is the
refund, which must not take a counter below what is in use: `Covered` says that the
requests that may still give a use back are no more than the uses counted, a
statement about cardinalities; `OfToday` that what is under way belongs to today;
`Untouched` that nothing was counted for days to come. `MeterImplementsAllowance`
(`MeterIsAllowance`), under the same assumption: each of the five updates is one step of
`Allowance` or a stutter. `Stamped` says that the key of a statement about to run is
today's, so that the counts read back change as the statement says, and
`Covered` that a refund finds something to give back.

**AccountsProofs.** `TypeCorrect`, `PlanIsEarned`, `TermsAreStored`, `PlanIsKept`. One
invariant carries the three: every copy of a row that says Pro - in Postgres, in Redis,
in a session, in hand - is of an id billing made Pro (`Earned`); what a request knows
at each location (`Sane`); that the terms commit, a deletion never does, and what a
session loaded is still stored (`Scoped`); that only one request has uncommitted
writes (`LockInv`); and, without Redis, that the object at hand has the plan its
session loaded and, once flushed, the plan of the row (`Own`), which needs that nobody
else knows a new id (`FreshInv`).

**PlannerProofs.** `TypeCorrect`, `Apartness` (`NoDoubleBooking`), `Spanning`
(`DatesCoverBlocks`), `HandPlaced` (`HandPlacedStays`) and `Placements`: the planner
implements `Placement`, for any calendar, work hours, estimates and number of requests.
`IInv` is: `Tidy` (a request plans only tasks it read and may plan, and the
blocks of the task at hand end before the slots still to come), `Apart` (nothing chosen
twice), `Hands` (no plan writes a task read with both dates), `Known`. Until two requests
overlap, `OneAtATime` adds what makes the next plan right: what was read is still stored
(`ReadStored`), what is deleted is all that is stored, and the dates to be written span the
blocks (`Ready`) - of every task but the `unplanned`, which were edited while the work hours
were off and whose blocks the next plan replaces. `HandPlaced` and `Placements` do not need `OneAtATime`: they hold whatever
overlaps. The last block of a task is the last to end because its blocks do not
overlap (`ScheduledOK`). Assumed: `PausesAssumption`, that work hours do not pause for
less than a slot - `find_available_slots` looks at a slot's two ends only, so it
holds for hours that leave a night of half an hour - and `RowAssumption`, that the null
is not a row.

**TasksProofs.** Every property of `Tasks`, from one invariant. Whatever overlaps: the
types (`Typed`), uncommitted writes exclude each other (`LockInv`), a session has what
it wrote and else tasks not removed, and so have the copies in Redis (`SessInv`,
`CacheInv`), nobody else knows an id before its task is there (`BirthInv`), and a
linked task is live (`LinkInv`). `NoOrphans` needs to know that who holds
a task with an event knows the event and that its creator will undo it (`EventInv`). Until two
mutations overlap, `SingleInv` makes the rest local to the one that runs: nothing of a
removed task is found (`GoneInv`; `UncachedInv` without Redis), a completed task is
completed wherever it is kept (`DoneInv`, which gives `CompletedIsKept`; disagreement 15 is
why it needs this hypothesis), titles are those of edits
(`TitleInv`), and copies, list, session and events are exact in the view the mutation has of
the database, its writes over what is committed (`ExactInv`). That one gives `CopiesAreRows`
and `SyncedIsTrue`, which say nothing of the middle of a mutation.

**JobsProofs.** What runs behind the requests: reminders, smart notifications and the
calendar. The module extends `MCServices`, so that its theorems are about the properties the
run checks (`ServicesSpec => []RemindedOnce`), for any value of the constants.

- `OneReminder` (`RemindedOnce`): while nothing fails and no older copy's marks are saved the lock outlives the sweep that
  took it, so one process is awake (`AloneInv`); what was emitted is marked, or is in the
  `writes` of the sweep that emitted it (`OnceInv`); so nothing found again was
  emitted. An edit of the start or the deadline puts the marks and the count back together.
- `PushesAreStored` (`PushedIsStored`), whatever fails: a push is drawn from what is committed
  (`StoredInv`).
- `NobodyMissesIt` (`RemindedInTime`), a bounded response, as an invariant: `TimelyInv`
  says that a process that sleeps wakes within the interval and a sweep is not too long
  (`PhaseInv`), that one is under way or wakes to a free lock (`GoesOnInv`), that
  what is marked was emitted (`MarksInv`), and, while the last reminder of a task is owed, that
  a sweep which started early enough has not passed the task by, or a process wakes early enough
  and finds the lock free (`InTimeInv`). The hypothesis is `Timely`: somebody sweeps, the
  lock is not longer than the interval, and `2 * SweepSpan <= Period + 3`; with one instant
  more TLC finds a reminder missed. In the code's seconds: while sweeps take half a
  minute at most.
- `EverythingToldOnce` (`ToldOnce`, with `OneMorning`). What a sweep is about to store is new
  in its period as far as the user's list goes (`NewInv`), which needs that no instant passes under a sweep and that the look
  at what is committed sees every note of the same local day or week
  (`SamePeriodIsSeen`); the morning push is counted by a key that outlives its day
  (`MorningInv`), and this half holds even when sweeps overlap.

- `TokensAreHonest` (`TokenIsHonest`) and `UnpushedDatesStay` (`UnpushedStays`), for any
  number of events, syncs, changes and failures.

For those two, `CalendarInv` says,
until one of the cases that `excused` names: a task at Google's version of its event has
Google's date or one that is still to be pushed (`Shown`), a date whose push failed, while the row has estimated dates, is at the
version it failed at (`Stays`), and what a token has seen is at Google's version
(`ShownAt`). A sync applies what it loaded and fetched before, so the same must be known of
its `snap`, its `items` and its `writes`, relative to the token it will store (`SnapOK`,
`ItemOK`), and of the edit that is being pushed (`EditOK`); that dates, versions and tokens
are of the past (`EventBound`, `TokenBound`) makes the versions comparable. A sync that
another's commit overtook is `late`: nothing is known of it, because its commit is one of the
cases excused.

**ServicesProofs.** The services whose state nobody else touches, each with its own
invariant, from `ChatAssumption`, `QueryAssumption`, `SignInAssumption` and `ContentAssumption`
(sizes are numbers, lives and limits are positive, the null is not a value).

- `NothingIsForgotten` (`NothingForgotten`). Who has written the conversation's row holds it
  (`OneWriter`); until a summary is committed over what another has read, every summary that is
  copied, held or written covers what the stored one covers (`StoredOK`, `ChatRunOK`), so a
  fold deletes messages that its own summary has. `Room` is the bound of the model made
  inductive: the requests that will still write a message have numbers left for it.
- `AllPagesShown` (`PagesShowEverything`). The order is total, since the id ends it
  (`OrderIsTotal`); two answers that differ would differ somewhere first, and there neither row
  could come before the other, so a query has one answer (`OneAnswer`). What was read is
  the beginning of it (`PagesOK`), and the whole when the total is reached.
- `SigningInHolds` (`SignInHolds`). `Limited` is the fixed window in terms of the requests
  themselves: the counter began with one let through, counts those since, up to the limit, and
  those before it that are not yet a window old were fewer than the limit. Hence a key is
  refused only after its limit, and gets less than twice that in any window. A browser's
  tokens are the ones it was given when it was last `seen` (`JarOK`); what Google's were is
  kept from when they are given out.
- `DocumentsStayLinked` (`DocumentsHold`). `ContentInv`: uncommitted rows exclude each other
  and a new document's id is its creator's (`Locks`, `KnownOK`). Unless one request works with
  what another has changed ("stale"), what was found is still there, a copy is of
  a document that is, or of an update under way (`ReadFresh`, `CopyFresh`), and who removes a
  document has all its canvases: these hold whatever fails, and so no canvas outlives its
  document. Until an update has failed at its commit ("failed") the task read of a document is
  committed or waits to be (`Believed`), and, unless two take one task ("take"), who takes
  it has written every other document that had it (`TakeFresh`); unless two draw at the
  limit ("count"), who draws on Free has counted fewer (`FewOK`).
- `TodosBecomeOneTask` (`OneTaskPerTodo`). `AutoInv`: what an automation has still to look up
  or to make of a line is no more than the line was in one saved document, and what it is to
  make is not logged.

**TypesProofs.** `EverythingIsTyped` (`TypesOK`): the eight services of `MCServices` at once,
which is why the module extends the three above. For seven of them the types follow from the
invariants of their own proofs (`TypesOfPlanner` ... `TypesOfContent`; `Slips` adds the
histories of the documents). Signing in has its own, `SignTyped`: a token that is in a
browser is an account's and has not ended, the links and the rows are those of known
accounts, and a request past its first step has a name.

Every safety invariant and every action property of the passing runs is stated by a theorem,
and so are both refinements. Only model-checked are the two liveness properties
(`DuplicatesEnd`, `RowIsReleased`): liveness under fairness is out of the prover's reach, as
are ENABLED and induction over data. What the theorems under `Serial`, `OnlyCheckouts`,
`QuietMidnight` and `Timely` assume holds in the instance of the run that
checks the property.

## 6. Not modelled

Insights and context building (read-only, one snapshot), storage, media, images and
previews (calls to an object store), GraphQL types and dataloaders, sockets (they carry
no state a later step reads), prompts and the model's answers, start-up, configuration
and migrations. Inside modelled components: billing's promotion codes and invoices;
`delete_many` and `delete_workspace_tasks`; the filters in memory that nobody calls; the pages
of one calendar fetch; the GraphQL login; titles and looks of documents. `PROJECT.json`
says so for each component.

Three hazards have no property: they need a third request in Billing or a promise the
repository does not make, as each says.

## 7. Plan

1. **Billing**: a count of trials.
2. **Abstract specifications** of what exists: `Accounts` without Redis a row with atomic
   edits; the sweeps a mutual exclusion with a lease while Redis answers.

Runs stay few: one per component and question, and the services that do not touch each
other share one.
