# TLA+ models of jullius-scan

jullius-scan lets the members of a household ("house") scan the QR code of a
Brazilian fiscal receipt. A Go API stores a scraping job and pushes it on a
Redis list; a Go worker pops it, drives a headless browser through the two pages
of the receipt, parses them and stores the receipt in PostgreSQL. When the site
shows a captcha, the job is paused, the user solves the captcha in a WebView on
the phone, and the phone posts cookies and page back to the API, which pushes
the job on a second, preferred list.

This directory holds the models of that system, the TLC configurations that
check them on small instances, and proofs about them for instances of any size.
All paths below are under `src/`.

## 1. Components

| Component | State | Operations | Interaction |
|---|---|---|---|
| Job table (`backend/internal/database/queries.go`, migrations) | rows of `scraping_jobs`, `receipts`, `items` | CreateJob, UpdateJobStatus, PauseJobForCaptcha, ResumeJobFromCaptcha, ExpireAwaitingCaptchaJobs, CreateReceipt, CreateItems, DeleteByIDAndHouse, the two idempotency lookups | each statement is atomic; several processes share the tables |
| Job queues (`backend/internal/queue/client.go`) | two Redis lists | Enqueue, EnqueueResume (LPUSH), Dequeue (BRPOP, resume list first) | API and worker push, workers pop |
| Scraping worker (`backend/internal/scraper/worker.go`) | the message at hand, what it parsed so far | Run, processJob, processResume, resumeDetailPhase, handleCaptchaPause, persistReceipt, handleFailure, handleParsingFailure | one job at a time per process; talks to Redis, PostgreSQL and the browser |
| Receipt and captcha API (`backend/internal/api/handlers.go`) | per-request locals | SubmitReceipt, ResumeCaptcha, DeleteReceipt; GetJob, GetCaptchaContext, ListReceipts, GetReceipt only read | concurrent requests; the request's context is cancelled when the client goes away |
| Captcha expiry ticker (`backend/cmd/api/main.go`) | none | one UPDATE per minute | races with resumes |
| Browser executor (`backend/internal/scraper/executor.go`) | a chromedp session | FetchWithDetailPhase, FetchPageWithCookies, readCurrentPage, captureSessionState, transitionToDetailByPostback, DetectCaptcha | called by the worker, bounded by SCRAPE_TIMEOUT_SECONDS; the page changes while it is read |
| Parser, barcode merge (`backend/internal/scraper/parser.go`) | none | ParseSEFAZHTML, ParseDetailPage, MergeBarcodes | pure |
| Item search (`backend/internal/api/items.go`, `queries.go`) | none | SearchItemsByHouse | reads receipts and items |
| Authentication, house resolution (`backend/internal/api/middleware`) | none | token to user, user to house | before every handler |
| Provisioning command (`backend/cmd/provision-user`), seed script (`backend/scripts/seed_mvp.sql`) | Firebase accounts; users, houses, memberships | find the house, find or create the account, insert both rows in one transaction | run by an operator, again when it fails |
| Phone: job tracking, captcha screen, home and search, scanner, submission (`mobile/lib`) | widget state, timers, futures in flight | poll, resume, search, scan | HTTP calls to the API; callbacks may find the screen gone |

What makes each of them correct:

* **Job table, queues, worker, API (the pipeline).** A submitted job is carried
  by exactly one message, worker or request until it is paused or settled; it is
  never lost and never run twice; a verdict is final; a completed job points to
  a receipt with all its items; retries and captcha rounds are bounded; every
  job gets a verdict.
* **Executor.** A session ends in time and releases its browser; whatever happens
  to the detail page, the summary page that was read is stored or kept for the
  resume; what is read while the page renders misleads no barcode.
* **Parser and merge.** A barcode ends up on the item it was printed for.
* **Search.** A house finds its own purchases only; a wider search loses nothing
  without saying that its answer is truncated; a deletion brings back the purchase
  before.
* **Provisioning.** Nobody is provisioned by halves; a success that was reported
  means access, to a house an operator chose; running the command again gets there.
* **Phone.** A resume is submitted once per solved captcha, an old answer never
  replaces a newer one, tracking ends when the job does.

The behaviours that are hard to test are listed, each at its line, under
"hazards" in `PROJECT.json`.

## 2. Modules

| Module | Models | Kind |
|---|---|---|
| `JobTable` | rows, enumerations and the UPDATE statements as operators from old row to new row | data, no state |
| `JobPipeline` | API handlers, worker, queues and ticker; one action per call to PostgreSQL, Redis or the browser; faults; the properties | detailed specification |
| `JobCustody` | who keeps a job and how it may change hands | abstract specification |
| `MCJobPipeline` | model values, symmetry, the resume bodies | TLC instance |
| `JobPipelineProofs` | theorems about `JobPipeline` | TLAPS proofs |
| `JobTracking` | the phone's tracking screen, its polls, the captcha screens, their coroutines and dialogs, the Navigator; the properties | detailed specification, its own TLC instance |
| `JobTrackingProofs` | theorems about `JobTracking` | TLAPS proofs |
| `HomeScreen` | the phone's list of receipts, the search, the detail screen and its deletion, with their requests in flight; the properties | detailed specification, its own TLC instance |
| `HomeScreenProofs` | theorems about `HomeScreen` | TLAPS proofs |
| `BrowserSession` | the browser sessions of one job: the executor's calls, the page they read and how it changes meanwhile, and what the worker makes of the outcome; the properties | detailed specification |
| `ReceiptPromise` | what scraping one receipt promises: what is learnt of it and not lost | abstract specification |
| `MCBrowserSession` | three papers | TLC instance |
| `BrowserSessionProofs` | theorems about `BrowserSession` | TLAPS proofs |
| `Provisioning` | accounts and the tables of users, houses and members; runs of provision-user, the seed script, requests on their way through the middleware; the properties | detailed specification |
| `MCProvisioning` | what the operators ask for | TLC instance |
| `ProvisioningProofs` | theorems about `Provisioning` | TLAPS proofs |
| `DetailBarcodes` | the items and barcodes the parser makes of the two pages of a receipt, as operators; what the receipt says, for the properties | data, no state |
| `DetailBarcodesProofs` | theorems about `DetailBarcodes` | TLAPS proofs |
| `ItemSearch` | the tables of receipts and items as they are written and deleted, and SearchItemsByHouse over them; the properties | detailed specification |
| `MCItemSearch` | four papers, descriptions, texts, symmetry | TLC instance |
| `ItemSearchProofs` | theorems about `ItemSearch` | TLAPS proofs |

Definitions introduced by the comment "Wrong:" are not part of the models. Each
is the definition that follows it with a mistake the code could have made;
`PROJECT.json` says which property each must break.

### How JobPipeline corresponds to the code

State: `jobs` and `receipts` are the tables, `jobQueue` and `resumeQueue` the
Redis lists with the oldest message first, `worker[w]` the local variables of
`processJob` with `pc` naming its next call, `request[c]` those of a handler.

An action is one call to the outside and the local code after it, up to the next
call; every other process may run between two actions. The early returns of the
code are the branches on the reply of the call.

| Code | Actions |
|---|---|
| `Run` | `Dequeue` |
| `processJob` | `Begin`, `Fetch`, `LoadOwner` |
| `processResume`, `resumeDetailPhase`, `completeDetailPhaseFromSubmittedHTML` | `Load`, `ResumeBadCookies`, `ResumeSummary`, `ResumeDetail` |
| `handleCaptchaPause` | `Pause` |
| `persistReceipt` | `CreateReceipt`, `CreateItems`, `Complete` |
| `handleFailure`, `handleParsingFailure` | `Requeue`, `Enqueue`, `Fail` |
| `SubmitReceipt` | `SubmitCheckReceipt`, `SubmitCheckActive`, `SubmitCreate`, `SubmitPublish`, `SubmitMarkFailed` |
| `ResumeCaptcha` | `ResumeRead`, `ResumeUpdate`, `ResumePublish` |
| `DeleteReceipt` | `DeleteReceipt` |
| ticker of `cmd/api/main.go` | `Expire` |
| SIGTERM, crash; client gone | `Crash`; `Disconnect` |

Abstractions:

* The browser and the parser are nondeterministic here (`BrowserSession` models
  them): a fetch may time out, fail to
  navigate, show a challenge, be unparsable, or yield a summary with items
  ("lines") or without ("empty", which ParseSEFAZHTML accepts). A detail page,
  whether fetched or merged or missing, only adds barcodes, so all its outcomes
  other than a challenge are one.
* `UpsertStore` and `CreateReceipt` are one action: the store row is shared by
  all houses and nothing depends on it, and both errors lead to the same branch.
* A message keeps the job id, the attempt and the resume flag; its URL and house
  equal the job's columns, which no statement changes.
* A resume posts a usable page, an unusable one or none; a missing or empty list
  of cookies is read like any list, other JSON is rejected by the worker.
* Captcha timeouts have no clock: the ticker may expire any paused job at any
  time. This allows more than the code does, so safety results carry over.
* Lines that only log, format or answer the client are left out, and so are
  requests that are refused before they change anything.

### Faults

`FaultKinds` selects what may go wrong, `MaxFaults` how often:

* `db_error`, `redis_error`: the call fails and has no effect;
* `db_reply_lost`, `redis_reply_lost`: the call takes effect, its caller sees an
  error (for BRPOP: the message is gone);
* `redis_resent`: the Redis client repeats a push after a network error;
* `worker_crash`: the process dies or is stopped (the message at hand is lost);
* `disconnect`: the request's context is cancelled between two calls.

### How JobTracking corresponds to the code

State: `stack` is the Navigator's routes; `tracking` the fields of
`_JobTrackingScreenState` and the answer it was popped with; `poller[k]` the
call of `pollJobUntilTerminal` started by initState (0) or after captcha screen
k; `screen[s]` the fields of the s-th `_CaptchaWebViewScreenState`; `call[s]`
what its coroutines await: the content loop, `_onPageFinished`, and the
submission a button started. `job` is the row as the API shows it; it moves as
`JobPipeline` lets it (queued and processing are one to the phone).

Dart runs one event at a time, so an action is the code between two awaits.

| Code | Actions |
|---|---|
| `pollJobUntilTerminal`, `GetJob` | `PollAnswered`, `PollPending`, `PollAgain` |
| `_pollUntilTerminal` | `PollSettled`, `PollAwaiting`, `PollTimesOut`, `PollFails` |
| `_openCaptchaWebView` | `Push` (in `PollAwaiting`, `TapResolve`), and in `Pop` what follows its await |
| buttons of the tracking screen, back | `TapResolve`, `LeaveTracking` |
| `_loadContext`, `GetCaptchaContext` | `LoadContext` |
| `_onPageFinished`, `_startContentCheckLoop`, `_checkForResolvedContent` | `PageFinished`, `LoopWakes`, `Checked` |
| `_extractAndSubmitCookies`, `ResumeCaptcha` | `Submit` (in three actions), `Extracted`, `ServerResumes`, `Accepted`, `Refused` |
| `_buildBody`, `_cancel`, back | `TapContinue`, `CancelCaptcha` |
| `_showResumeError` | `Refused`, `DialogRetry`, `DialogCancel` |
| `dispose` | `DisposeTracking`, `DisposeScreen`, some time after the route was popped |

Abstractions:

* The page is nondeterministic: each content check may find the receipt or not,
  and each script may fail. The script awaited before the content check (the
  observer's installation, the changed flag) decides nothing and is left out,
  as the flags are read again after it.
* `_onPageFinished` runs for one page at a time; a page that finishes during the
  content check of another is the same race as a page and the loop.
* A `setState` on a disposed screen raises, as it does in both build modes; in
  release mode the flag is set before it raises, which no live screen sees.
* Reading URL, cookies, user agent and page is one await; only the cookies can
  raise there.
* A request gets its answer, is lost, or takes effect although its answer is
  lost (which is also what the phone sees when the push of a resume fails).
* `MaxPolls` stands for the requests that fit into the 120 s of `pollTimeout`;
  the deadline may also come earlier.
* Telemetry, labels and the `_isLoading` spinner are left out.

### How HomeScreen corresponds to the code

State: `list` and `search` are the fields of `_HomeScreenState`, `loads` and
`searches` the calls of `_loadReceipts` and `_runSearch` in flight, `detail` the
fields of the detail screen and how far its `_confirmDelete` is, `stored` the
receipts on the server, `top` the route on top.

| Code | Actions |
|---|---|
| `_loadReceipts`, `ListReceipts` | `LoadReceipts` (in `Refresh`, `ScanDone`, `CloseDetail`), `ListReceipts`, `LoadDone` |
| `_onQueryChanged`, `_onScanBarcode` | `QueryChanged`, `TimerFires` |
| `_onPeriodChanged`, `_runSearch` | `RunSearch` (in `TimerFires`, `PeriodChanged`, `RetrySearch`), `SearchDone` |
| `_navigateToScan` | `OpenScan`, `ScanDone` |
| `_navigateToDetail`, `_navigateToReceiptById` | `TapReceipt`, `TapResult`; `CloseDetail` is what follows their await |
| `_loadReceipt` | `DetailLoaded`, `ReloadDetail` |
| `_confirmDelete`, `_deleteReceipt`, `DeleteReceipt` | `TapDelete`, `AnswerDialog`, `DeleteReceipt`, `DeletionDone` |
| back, `dispose` | `LeaveDetail`, `DisposeDetail`, `Dispose` |
| the worker, other members | `OthersChange` |

Abstractions:

* A text is what is left of it after trimming; all that are too short to search
  for are one. A scanned barcode is a text like any other.
* `_searchRequestId` only grows and is only compared with the number of a call,
  so `latest` names the call that got the current number. The place of an
  answered call is used again.
* The answer of a search is what was asked for. Prices and the truncated flag,
  which is set with the results, are left out; whether the answer is empty too.
* Scanner, submission and tracking are one route, which ends with or without a
  completed job; the last two are `JobPipeline` and `JobTracking`.
* The next receipt is opened once the last detail screen is disposed and no
  deletion of it is under way; the scan, once it is disposed.
* `_receipts` before the first answer shows like an empty list.

### How BrowserSession corresponds to the code

State: `site` is how the site presents the receipt, `page` what the browser
shows, `session` the locals of `FetchWithDetailPhase` or `fetchPage` with `pc`
naming the next call, `job` the columns the worker reads and writes, `clock` the
time since the session began. An action is one call to the browser or the local
code between two calls; between any two of them the page may go on changing.

| Code | Definitions |
|---|---|
| `chromedp.Navigate`, `WaitVisible`, `Sleep` of both fetches | `Navigate` |
| `readCurrentPage` | `ReadTitle`, `ReadLocation`, `ReadHtml` |
| `captureSessionState`, `ExtractCurrentState` | `CaptureState` |
| `detectCaptchaIndicator`, `DetectCaptcha` | `Challenge` |
| `transitionToDetailByPostback` | `Trigger`, `Sleep`, `Arrived`, `JudgePostback` |
| the rest of `FetchWithDetailPhase` | `JudgeSummary`, `JudgeLink`, `SkipDetail` |
| errors of calls, the expired context | `CallFails`, `Alive` |
| `processJob`, `processResume` after the fetch | `EndWith`, `Challenged`, `StoreDetail` |
| `resumeDetailPhase` | `JudgeResume` |
| `handleCaptchaPause`, `handleFailure` | `Paused`; `Retry` |
| messages of a resume, of a retry | `Resume`, `Retry` |
| the site, the browser, the clock | `Answer`, `Render`, `ChallengePasses`, `Tick` |

Abstractions:

* A session and the worker's reading of its outcome are one: what is done with a
  pause or a receipt in the tables is `JobPipeline`'s matter, and so is a resume
  with a page the user submitted, which opens no browser.
* The page is an address and a kind of document; the detail page also has a number
  of products rendered so far, whole products in their order. A challenge shows in
  the title and in the document. A page other than the expected ones has neither
  items nor barcodes.
* After a form was posted the browser turns to the answer, whose address may be the
  old one, and its products follow one by one.
* Cookies and the user agent are left out: they decide whether the site shows a
  challenge, which it may always do.
* A tick is the 250 ms between two polls; `Navigate` includes its two seconds of
  sleep, which the context cuts short like any call.

### How Provisioning corresponds to the code

State: `accounts` is Firebase, `houses`, `users` and `members` the tables,
`command[c]` the locals of a run of provision-user with `pc` naming its next
call, `request[r]` how far a request is in the middleware. An account keeps its
UID and its email, so an email stands for the account and its users row.

| Code | Actions |
|---|---|
| `run`, `resolveHouse`, the prompt | `Run`, `ResolveHouse`, `Confirm` |
| `ensureFirebaseUser` | `Lookup`, `Create` |
| `upsertMembership`, success | `Upsert` |
| errors, a killed process, answers that are lost | `Fails`, `ReplyLost` |
| the operator follows the advice of main.go:172 | `Rerun` |
| `seed_mvp.sql` | `Seed` |
| `Authenticate`; `ResolveHouse` of the middleware, `FindByFirebaseID`, `FindActiveHouseForUser` | `Authenticate`; `FindUser`, `FindHouse`, `QueryFails` |

Abstractions: the transaction is one step, by PostgreSQL's atomicity; display
names and roles are left out (see known weaknesses for what happens to them); no
code removes a member, a user or a house, and accounts are not deleted. The
script runs with an owner whose account exists, as its instructions say.

### How DetailBarcodes and ItemSearch correspond to the code

A paper is what the site knows of a receipt: its products in order, each with a
description and the two EAN fields of the detail page, and how that page is laid
out. `SummaryItems` and `ParseDetailPage` are what the parser makes of the two
pages, `StoredItems` what `enrichWithBarcodes` makes of both. State: `receipts`
and `items` are the tables, `lastId` and `lastItem` their sequences, `now` is
`NOW()`.

| Code | Definitions |
|---|---|
| `extractItems`, `extractItemsDivBased` | `SummaryItems` |
| `ParseDetailPage`, `extractDetailBlockEAN` | `ParseDetailPage`, `ExtractDetailBlockEAN`, `DocumentBarcodes` |
| `MergeBarcodes`, `enrichWithBarcodes` | `MergeBarcodes`, `StoredItems` |
| `CreateReceipt`, `CreateItems`, `DeleteByIDAndHouse` | actions of the same names |
| `SearchItemsByHouse`: `eligible`, `ranked`, `prev_purchase` | `Eligible`, `Group` and `RowNumber`, `Previous` |
| its `aggregates` and `last_purchase` | `Aggregate`, `AggregatesOf`, `Aggregates` |
| its ORDER BY, LIMIT and the truncated flag | `Ahead`, `Firsts`, `AnswersOf`, `Answers` |

Abstractions:

* Both pages list the products in one order; the merge has nothing else to go by.
  The text of the pages is not modelled: a block that the expression for blocks
  cuts short reads as a field that is not printed. An error of `ParseDetailPage`
  leaves the items as no barcodes do.
* A paper has at least one product with a description, else nothing is stored.
  A paper that is stored twice has another URL: which receipts are stored is the
  matter of `JobPipeline`, and here any paper at any time. `CreateItems` is one
  batch, which PostgreSQL runs as one transaction, and may never happen.
* `Containing` says which descriptions contain a text, for the ILIKE without
  accents and case. Time and periods are in one unit, and receipts are issued
  before they are scanned.
* Stores, totals and average prices are left out, and a purchase stands for its
  price. The order of the groups within an answer is left out too; which groups an
  answer may have is not: ORDER BY does not tell groups apart that were last bought
  on one receipt, so there may be several answers.

## 3. Runs

| Run | Instance | Shows |
|---|---|---|
| `PipelineRace` | 2 jobs, 2 workers, 2 requests on one URL, MAX_RETRIES 2, no faults | types, custody, final verdicts, and that every step is a step of `JobCustody` |
| `PipelineFaults` | 1 job, 2 workers, 1 request, MAX_RETRIES 3, every resume body, any one fault of any kind | with two workers on one job too, what the row says of captchas, summary and page, and the receipt it links to, stays consistent |
| `PipelineFair` | 2 jobs, 1 worker, 1 request, MAX_RETRIES 3, fairness | every job gets a verdict and is started a bounded number of times; nobody keeps a job for ever |
| `BrowserSession` | 3 papers, 3 sessions, a timeout of 4 ticks and a wait of 2, fairness | sessions end in time, barcodes are the products' own, calm sessions with a link store them all, and every step is a step of `ReceiptPromise` |
| `PhoneTracking` | 1 pause, 2 captcha screens, 1 error dialog, 2 requests per poll, any one lost request or answer, fairness | one poll and one submission at a time, no screen from the grave, true verdicts, polls end, pauses reach the user |
| `HomeScreen` | 1 text, 2 periods, 1 receipt, 2 searches and 2 loads in flight, fairness | results belong to the text and period shown, spinners end, a receipt deleted here leaves the list |
| `ItemSearch` | 3 receipts in 2 houses, 4 papers, 3 descriptions, 2 barcodes, 2 texts, 1 period, limit 2 | a wider search finds what a narrower one did, unless its answer is truncated; houses are apart; a deletion brings back the purchase before |
| `Provisioning` | 2 commands, 1 request, 2 users, 2 houses of one name, any 2 faults, fairness | nobody is provisioned by halves, success means access, commands get there when run again |
| `DoubleSubmit` | 2 requests, no faults | *violated*: two jobs for one URL |
| `ThirdCaptcha` | 1 job, no faults | *violated*: a third captcha for one job |
| `HalfReceipt` | 1 job, one failed statement | *violated*: a receipt that will never have items |
| `DialogVanishes` | the phone as above | *violated*: a submission behind the error dialog closes the dialog and not the screen |

Bounds, and why they suffice. Two jobs, workers and requests are what it takes
for two actors to meet on one job, one URL or one receipt. Receipt ids are one
or two more than the jobs, so that a receipt can be deleted while its successor
is stored; the id of a deleted receipt nobody remembers is used again. MAX_RETRIES
3 is the configured default and leaves room for a resume between two retries;
with 2 every branch of handleFailure is still taken. A submission starts only
while an id is left for it (`RoomForJob`), so that the bound on ids never stops
a handler half-way. One fault per behaviour is enough to lose, repeat or fail
any single call; it leaves out what two unrelated faults could do together.
Starvation by the resume list, which Dequeue prefers, cannot show with two jobs whose
resumes are bounded; it would take jobs that keep coming.
Custody and final verdicts are not checked with faults: `JobPipelineProofs` proves
them for any number of errors, crashes and disconnects.
Deadlock is not checked: with all ids used and all jobs settled the instance has
nothing left to do.

Three sessions are what it takes to get from the first challenge to the verdict
captcha_expired, or from a failed resume to the retry after it. The papers take
each mode of the detail page and a product the summary page does not name. A
timeout of four ticks lets a session reach every call before it expires; a wait of
two lets the loop after the postback poll, sleep and poll a last time, inside the
timeout and past it. Deadlock is not checked: a settled job stops.

Two commands are what it takes to race for one account, to name one house by id
and by name, or to give one user two houses; two houses of one name make a name
ambiguous. Two faults lose the answer of Firebase and then of PostgreSQL. Deadlock
is not checked: commands end.

On the phone, two captcha screens are what it takes for a screen that is being
disposed to meet its successor; the second is kept for a pause to come, so no
poll is held up by the bound. One dialog and one fault suffice for a loop to
submit behind the dialog. Two requests per poll take every way around the loop.
Deadlock is not checked: once the user has left, nothing happens.

On the home screen two searches and two loads in flight are what it takes for
answers to overtake each other. One text beside the short ones and two periods
make two different questions; that a text is replaced by another is like a
period replaced by another, with the debounce in between. Properties about
receipts speak of one receipt. Deadlock is not checked: a disposed screen with
nothing in flight stops.

For the search three receipts make a product with a last, a previous and an older
purchase, which is what the ranks tell apart, or two houses with one product. Two
is a limit that three groups exceed, as 51 exceed 50. A period of no length cuts off
what was bought at an earlier time. The papers take each mode of the detail page,
the fallback to the second field, a page that cannot be matched and a product under
two descriptions. Houses are interchangeable (`HouseSymmetry`; there is no liveness
property). Deadlock is not checked: with all ids used nothing more is stored.

Fairness. `Run` loops until the process is stopped, a handler runs to its end
and the ticker fires every minute: weak fairness of each worker's steps, of each
request's steps after its first, and of the expiry of each job. Nothing is
assumed of users, who may never submit, solve or delete anything. No faults
occur in `PipelineFair`: after a lost message no job settles.

In `PhoneTracking` the steps of each poll are weakly fair: its timer fires, and
each of its requests is answered or fails (`package:http` sets no timeout of its
own, so this is the network stack's promise; without it polling may hang).
Nothing is assumed of the user, the worker, the page or the captcha screens.

In `BrowserSession` time passes, an expired context fails the call under way
(chromedp.Run returns when its context does), and local code and pauses run on.
Nothing is assumed of the browser or the site: a call may never be answered.

In `Provisioning` a command that was started runs on, and the operator runs a
failed one again ("re-run the same command to retry (idempotent)", main.go:172).
Faults are bounded, so some run is left in peace. Nothing is assumed of requests.

In `HomeScreen` the debounce timer, the steps of each load, the answer of each
search, the deletion on the server and the code after it are weakly fair:
timers fire and requests are answered or fail, with the same promise of the
network stack. Nothing is assumed of the user: `ScreenSettles` speaks of one who
leaves the screen alone from some time on.

## 4. Proofs

`JobPipelineProofs` proves, for any number of houses, URLs, jobs, receipts,
workers, requests, retries and faults:

* `TypeCorrect`: `Spec => []TypeOK`. The inductive invariant is `TypeInv`, which
  adds `Shape`: a busy worker has a message, one that inserts items or completes
  has a receipt id, a request past its first call knows its URL or job.
* `OneHolderAlways`, `RestingJobsAreSafe`, `VerdictsAreFinal`: `OneHolder`,
  `RestingJobsAreNotHeld` and `SettledIsFinal` hold as long as no call loses its
  reply and no push is repeated (`NoLostCalls`); errors, crashes and disconnects
  are allowed. Without that assumption they are false, see below.

The argument of the second group: `OneHolder` is not inductive, because a pop
must find the popped job nowhere else and a resume must find its job with nobody.
The invariant `CInv` says that messages, busy workers and publishing requests
hold pairwise different jobs (`HeldApart`) and that a held job is queued or
processing (`HeldActive`). A created job was absent and a resumed one paused, so
by `HeldActive` nobody holds it; a push moves a job from its holder to a list, a
pop from a list to a worker; and a worker that takes its job out of
queued/processing lets go of it in the same step (`Moves`). The last is what a
lost reply breaks: the row is settled and the worker goes on.

* `NobodyStranded`, `JobsArePassedOn`: `NoStrandedJob`, and `PassesOnJobs`, the
  refinement of `JobCustody`, hold as long as no call goes wrong at all (`NoFaults`);
  a crash of a worker, for one, leaves its job to nobody.

PauseJobForCaptcha leaves a job alone that is not processing, and the worker drops
its message all the same. So `NoStrandedJob` needs `RowsBegun`: the row of a job a
worker has begun says processing until that worker changes it, as `CInv` keeps
everybody else away from it. Both invariants together make a held job active and an
active job held, once (`KeepersRight`), so the keeper of a job can be read from its
status and its holder. A step then concerns one job, which is passed on (`PassedOn`)
or closed (`ClosedOnce`), while the others keep holders and status (`Alike`); the
ticker alone closes several at once (`ExpirePasses`).

* `DetailPausesKeepSummary`, `SubmittedPagesAreDropped`, `ExpiryIsEarned`:
  `DetailPauseHasSummary`, `PageHtmlOnlyInFlight` and `ExpiredOnlyAfterTwoSolutions`
  hold whatever calls go wrong, lost replies and repeated pushes included. A worker
  acts on a row it read before the browser ran. What saves it (`RInv`) is that rows
  only grow: no statement drops a stored summary or takes back a counted solution, so
  what the worker saw of both is still there when it writes.
* `CompletedReceiptsAreWhole`: `CompletedReceiptIsWhole`, whatever calls go wrong.
  Between creating a receipt and linking it to the job the worker makes two more
  calls, in which a user may delete the receipt. `LInv` says that the id a worker
  holds is absent or still the receipt of its job's house and URL, and whole once the
  items are in; and that a job somebody refers to exists, so its URL stays.
* `StartsStayBounded`: `StartsAreBounded`, whatever errors, crashes and disconnects
  there are, as long as no call loses its reply or is repeated (`NoLostCalls`) and, as
  the property itself says, requests follow one another. `Tries` is how often a job is
  started without captchas: MAX_RETRIES times, and once when that is 0.

Two counters go into the last: the attempts of a message, which decide on a retry, and
the starts of the row. `AInv` keeps them together. A row that was started n times has
counted at least n - `Tries` solutions, and a row that pauses after `Tries` + 2 starts
does so on the detail page, where the next resume is the last (`RowBudget`). A message
carries the starts of its row and leaves room for one more (`Room`): a retry below
`Tries`, a resume below `Tries` and the solutions counted. What a worker past its first
statement may still decide follows from how the start was counted (`Booked`); a request
that resumes knows the starts of the row, because nobody holds a paused job and no
other request resumes it in between (`Asked`). `CInv` keeps everybody but the holder
away from the row, so a step spends the budget of one job (`BudgetsKept`).

`JobTrackingProofs` proves, for any number of pauses, screens, dialogs, polls and
lost requests:

* `TrackingTypes`: `Spec => []TypeOK`, which bounds the requests of a poll;
* `OneSubmissionAlways`, `AcceptedIsLastAlways`: `OneSubmission` and
  `AcceptedIsLast`. Neither mentions `_isSubmitting`, on which both rest. The
  inductive invariant `SubmitInv` says of each screen that a coroutine past the
  first await of a submission finds the flag set and `_captchaResolved` not, that
  there is one such coroutine, that a resolved screen keeps the flag, and that a
  screen without a context has no coroutines (`Sound`); and of the stack that an
  error dialog belongs to a screen with a context (`DialogsOfReadyScreens`),
  without which its retry button could start a submission on a screen that is
  still loading;
* `OnePollAlways`, `OneCaptchaOpenAlways`, `DisposedOpenNothing`: `OnePoll`,
  `OneCaptchaOpen` and `DisposedScreensOpenNothing`. The first two hold each other up
  (`OneAtATime`): a captcha screen that is popped starts a poll, and the poll ends in
  the step that pushes one. `TrackingBelow` adds that the tracking screen lies below
  every captcha screen, so its button is only there when none is open, and that it is
  disposed only after it left the stack;
* `VerdictShownIsTrueAlways`: `VerdictShownIsTrue`. An answer that is read late is
  still true because a settled job does not move (`VerdictInv`).

`HomeScreenProofs` proves, for any texts, periods and receipts and any number of
searches and loads in flight:

* `HomeTypes`: `Spec => []TypeOK`;
* `SpinnersWaitAlways`: `SpinnersWait`, one half for each spinner;
* `QuietResultsMatchAlways`: `QuietResultsMatch`. It says nothing of answers in
  flight, which is where it could break; the inductive invariant `SearchInv` adds
  that the latest call, if still in flight, asks for the text and the period
  shown unless a debounce is pending. `SearchSteps` reduces a step to the few ways
  in which it can touch the search.

`BrowserSessionProofs` proves, for any receipts, timeout, wait and number of
sessions:

* `Released`: `BrowserReleased`. The invariant `InTime` says why: before the form is
  posted the clock stands within the timeout, a poll that is not the last starts
  before its deadline or within the timeout, and the deadline is at most the wait
  away from the timeout; so the one pause that nothing cuts short cannot be followed
  by another.
* `PromiseKept`: `Spec => KeepsPromise`, the refinement of `ReceiptPromise`. A session that
  fetches the summary page, or resumes, has not read a summary page of its own
  (`Course`), so an error ends it before anything is lost; from then on every way
  out stores the items or pauses the job with them. `KnownAtTheEnd` says what each
  outcome leaves known, and one step per outcome maps it to `Pause`, `Store`,
  `Fail`, `Expire` or `Unreadable`.
* `SessionTypes`: `Spec => []TypeOK`, on what `DetailBarcodesProofs` says of the items.
  That a pause names a page needs `Seen`: once a page was navigated to, the browser has
  an address, and what was read of it is a copy.
* `BarcodesStayOwn`, `LinkedDetailsAreWhole`: `BarcodesAreOwn` and
  `LinkedDetailIsWhole`. A detail page is read after any number of products (`Seen`),
  and what the merge makes of that many is the lemma `StoredAfterOwn`. The second needs
  to know that nothing cut the page off: `Calm` says that a session on a site with a
  link, as long as nothing goes wrong, never posts the form, shows the page it asked
  for to its end, and reads no challenge.

`DetailBarcodesProofs` proves, for receipts of any length:

* `NoForeignBarcode`, `NoBarcodeLost`: of a readable receipt whose detail page was read
  as a whole an item has its own barcode or none; and all that are printed are stored
  when the summary page names every product.

Both follow from what `Kept`, the loop that skips elements, returns (`KeptProperties`):
as many elements as positions are kept, in order, and all of them when none is skipped.
So a skipped row makes the two lists differ in length, which is when the merge leaves
the items alone. `Kept` is a recursive function. The library's induction takes a
predicate, which the provers cannot instantiate; `UpTo` is induction over the set of
prefixes for which a fact holds, and follows from a smallest counterexample.

`ProvisioningProofs` proves, for any number of commands, requests, users, houses
and faults:

* `TypeCorrect`, `NobodyByHalves`, `AccessAsProvisioned`: the three invariants of the
  run. They hold together: a user row is only committed with a membership, and only
  for an account (`TypeOK`); a membership is granted, or of a house a command
  resolved to (`MembersChosen`); a request knows what was granted when it came, which
  no step takes back (`RequestsSound`). What makes it inductive over repeated runs is
  `HouseKept`: a command past the prompt holds the house that was found, so a lost
  answer of the transaction leaves a membership of that house.

`ItemSearchProofs` proves, for any houses, papers, texts, periods and limit:

* `HousesAreApart`: `OtherHousesUnmoved`. The invariant `TablesInv` says that an
  item belongs to a stored receipt and that the next id is unused: otherwise a new
  receipt could adopt the rows of a deleted one, of another house. A step of one
  house then leaves the rows of the others, with their receipts, alone
  (`OtherRows`); the groups of a search depend on the eligible rows and their dates
  only (`AggregatesRead`), and an answer on the groups only.
* `SearchTypes`: `Spec => []TypeOK`, inductive as it stands: items that are inserted
  get the next ids, which no item has.
* `WideningAgrees`: `WiderSearchAgrees`. It follows from `TypeOK` in every state. The
  rows of the wider search include those of the narrower one (`WiderFindsMore`), and a
  group, being finite and without ties (`ItemsAreOrdered`), has a last row
  (`FirstExists`); an answer that is not truncated has all groups (`AnswerProperties`).
  A period cuts off older rows only (`WiderFindsOlder`), so with the same text the first
  two rows of a group are the same (`OlderGroup`) and its groups come ahead of all
  others: if they fit into one answer, they are in every answer to the wider search,
  also in one that is cut off (`OlderIsBehind`).
* `DeletionReveals`: `DeletionRevealsPrevious`. A deletion takes the rows of one receipt
  out of the groups and leaves the order of the others: a group without such rows stays
  as it is (`Untouched`), and a row before which only they came is the first
  (`Revealed`).

The proofs rest on the assumptions about the constants in `JobTable`,
`JobPipeline`, `JobTracking`, `HomeScreen`, `DetailBarcodes`, `BrowserSession`,
`Provisioning` and `ItemSearch`, which the runs evaluate.

Every invariant and every action property the passing runs check is proved, under
the assumptions named with each, and so are both refinements. Only model-checked are
the liveness properties: `JobsSettle` and `NobodyKeepsJobs` of the pipeline,
`SessionsEnd` of the browser, `PollsEnd`, `PauseReachesUser`, `ScreenSettles` and
`DeletedLeavesList` of the phone and `CommandsConverge` of the provisioning. They
rest on fairness, and its ENABLED is out of the prover's reach. The violations of
the last four runs are TLC's as well.

## 5. Known weaknesses the models show

Four disagreements with what the repository says of itself are findings in
`PROJECT.json`, with their runs. Others seen while modelling:

* `NoStrandedJob` holds without faults only. It is violated when the push of a
  resume fails: the row is processing already (handlers.go:542), and where
  SubmitReceipt fails the job, ResumeCaptcha leaves it, although
  openspec/specs/async-receipt-scraping/spec.md:61 promises "without leaving jobs in
  an indeterminate state". It is also violated by one crash of a worker after
  BRPOP, by a client that disconnects between CreateJob and Enqueue, and by one
  failed statement in Begin or Load. No code looks for such jobs, and a new submission
  of the URL is answered with the stranded one.
* `SettledIsFinal` is violated when the reply of a push is lost: SubmitReceipt
  fails the job, a worker then runs it.
* The attempts in a resume message are read before the update (handlers.go:540), so
  a slow resume of an earlier pause can carry an old number, and the job is retried
  as if the starts since had not been. `StartsAreBounded` therefore speaks of requests
  that follow one another; with two requests, one job and MAX_RETRIES 3 TLC finds a
  seventh start.
* With MAX_RETRIES 0 a job is started once all the same, as with 1: the limit is read
  after a failure only (worker.go:437).
* A job can be created for a URL whose receipt is already stored, when a worker
  completes between the two checks; it ends as failed/unknown on the unique
  constraint.
* A retry is a fresh message (worker.go:437): when the resume of a detail page fails,
  the summary page the row keeps is not used, and a challenge on the summary page then
  pauses the job in the other phase. This is why `Fail` of `ReceiptPromise` forgets.
* The loop after a postback returns as soon as the address differs (executor.go:255),
  before the page has loaded: the barcodes that are not yet rendered are lost without
  a retry. Where the summary page skips a product, a page cut off at the right place
  has as many barcodes as there are items, shifted by one; `BarcodesAreOwn` therefore
  speaks of receipts whose products all have a description, or of whole pages.
* A challenge may pass by itself between the read of the title and that of the
  document, or before the state is captured: the job is paused all the same, and the
  address kept for the user may be that of the summary page.
* A timeout on the way to the detail page is swallowed like any error
  (executor.go:424): the receipt is stored without barcodes and never retried.
* A session may outlive SCRAPE_TIMEOUT_SECONDS by the ten seconds of the postback
  loop, which sleeps and polls on when the context has expired (executor.go:252).
* Users may belong to several houses, and the resolver takes any (queries.go:60,
  "In MVP, a user belongs to exactly one house", queries.go:52): provision-user adds
  a membership without looking for others, so which purchases a user sees may change
  from request to request. `SuccessMeansAccess` asks for one of the chosen houses.
* Nothing makes the name of a house unique, so ON CONFLICT DO NOTHING
  (seed_mvp.sql:20) never applies: the script run twice makes a second house of the
  name, joins the owner to both, and makes `--house-name` ambiguous; run for a second
  owner with the name as it is, it joins them to the first owner's house too.
* A command run again reports the role it was given although the membership keeps its
  old one (main.go:310), and replaces the display name by the part of the email before
  the @ when none is given (main.go:299).
* An error of the database in the middleware is answered like a user who was never
  provisioned (house_resolver.go:31, :44).
* A submission accepted while its screen's exit animation runs pops the route
  below: the tracking screen closes with `true`, as if the job had completed, or
  the home screen is popped.
* Cancelling the captcha screen while its POST is in flight resumes the job while
  the tracking screen says that it awaits a captcha and does not poll
  (job_tracking_screen.dart:149 assumes the job still waits).
* One lost GET ends tracking with an error for good, though the job goes on.
* Job id 0, answered for a stored receipt without a job, is polled and ends in
  that error.
* After a refusal the loop submits again every two seconds, and each refusal
  puts another dialog on top of the last.
* Loads of the list carry no number (home_screen.dart:90): when a load that
  was answered by the server before a deletion arrives after the reload, the
  deleted receipt is on the list again, until the next reload. `DeletedLeavesList`
  therefore asks that the receipt leaves the list, not that it stays away.
* A user who leaves the detail screen while its deletion is under way keeps the
  deleted receipt on the list, when the screen was opened from there: nothing
  reloads it (home_screen.dart:277).
* A deletion answered while the exit animation of that screen runs pops the home
  screen (receipt_detail_screen.dart:91).
* While a debounce is pending the results of an earlier question may be shown
  under the new text, also after the text was cleared meanwhile.
* Without blocks, an EAN field that is missing for some products only shifts the
  ones after it: the i-th Comercial is paired with the i-th Tributavel of the page.
  When the longer list is as long as the list of items the merge accepts it, and an
  item gets the barcode of another; "same position = same item as summary"
  (parser.go:493) is then false. `BarcodesAreOwn` is therefore checked for
  `Readable` papers only; without that guard TLC finds the fourth paper of
  `MCPapers`.
* A search by description groups by barcode, but only the rows whose description
  matches (queries.go:617): the last purchase it shows need not be the product's
  last when that was sold under another description. This is why
  `WiderSearchAgrees` asks for the same last and previous purchase only when the
  period is widened. openspec/specs/item-search-history/spec.md:24 groups the lines
  of a barcode "independentemente de variações na descrição livre".
* The count and the previous purchase of a product are those of lines: one receipt
  with the product on two lines is its own previous purchase.
* A wider text may lose a product: at most 50 groups are shown, those last bought most
  recently, so the products of a shorter text can push one out that a longer text
  found (openspec/specs/item-search-history/spec.md:20 promises no more, and
  `truncated` is set). `WiderSearchAgrees` therefore asks for every product of a wider
  answer only if it is not truncated, or if only the period was widened and the
  narrower answer was complete. With both cut off, groups last bought on one receipt
  may be chosen differently.
* Groups last bought on one receipt are not ordered (queries.go:657): at the limit
  the database decides which are shown.

## 6. Plan

In this order; each module with its runs, mutants and, where it says so, proofs.

1. `JobTable`, `JobPipeline`, `JobCustody`, `JobPipelineProofs` - done as above.
2. `JobTracking`, `JobTrackingProofs` - done as above.
3. `HomeScreen`, `HomeScreenProofs` - done as above. Still to state: which of the
   lists the server held is shown when loads overtake each other.
4. `DetailBarcodes`, `DetailBarcodesProofs` - done as above.
5. `ItemSearch`, `ItemSearchProofs` - done as above.
6. `BrowserSession`, `ReceiptPromise`, `BrowserSessionProofs` - done as above.
7. `Provisioning`, `ProvisioningProofs` - done as above.

## 7. Not modelled

ParseSEFAZHTML beyond its outcome and its items is text extraction by regular
expressions that keep no state. The verification of tokens is Firebase's. The
scanner and the form of the phone only start submissions, which `JobPipeline` may
receive at any time; login is Firebase's. Routing, logging, configuration,
deployment and layout have no state of their own. The handlers that only read
(ListReceipts, GetReceipt) answer what the tables say.
