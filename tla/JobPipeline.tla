---------------------------- MODULE JobPipeline ----------------------------
(***************************************************************************)
(* The scraping pipeline: API handlers that write the job table and push   *)
(* messages on two Redis lists, and workers that pop a message and drive   *)
(* the job through fetching, captcha pauses, retries and persistence.      *)
(*                                                                         *)
(* One action is one call to PostgreSQL, Redis or the browser, with the    *)
(* local code that follows it: between two calls every other process may   *)
(* run.  FaultKinds selects which calls can go wrong; a run with           *)
(* FaultKinds = {} shows what the code does when its infrastructure works. *)
(*                                                                         *)
(* As in JobTable, a definition introduced by "Wrong:" is the next action  *)
(* with a mistake, and no part of the model.                               *)
(***************************************************************************)
EXTENDS JobTable, Sequences, FiniteSets

CONSTANTS
  Workers,      \* worker processes (each runs one loop)
  Requests,     \* concurrent HTTP requests
  HouseOf,      \* the house the middleware resolves for each request
  MaxRetries,   \* config.MaxRetries
  FetchErrors,  \* failure reasons a browser error is classified as
  Bodies,       \* captcha resume bodies the phones send
  FaultKinds,   \* which calls can fail
  MaxFaults     \* how many do (bounds the model)

DbFaults    == {"db_error", "db_reply_lost"}
RedisFaults == {"redis_error", "redis_reply_lost", "redis_resent"}

ASSUME HouseAssumption      == HouseOf \in [Requests -> Houses]
ASSUME RetryAssumption      == MaxRetries \in Nat
ASSUME FetchErrorAssumption == FetchErrors \subseteq {"timeout", "navigation"}
ASSUME BodyAssumption       == Bodies \subseteq ResumeBody
ASSUME FaultAssumption      ==
  /\ FaultKinds \subseteq DbFaults \cup RedisFaults \cup {"worker_crash", "disconnect"}
  /\ MaxFaults \in Nat

\* The limit both resume paths compare captcha_retry_count with.
CaptchaRetryLimit == 2

VARIABLES
  jobs,         \* table scraping_jobs
  receipts,     \* table receipts, with its items
  jobQueue,     \* Redis list jullius:scraping:jobs, oldest message first
  resumeQueue,  \* Redis list jullius:scraping:resume
  worker,       \* what each worker is doing
  request,      \* what each HTTP request is doing
  faults        \* calls that went wrong so far

vars  == <<jobs, receipts, jobQueue, resumeQueue, worker, request, faults>>
redis == <<jobQueue, resumeQueue>>

(***************************************************************************)
(* Messages, workers and requests                                          *)
(***************************************************************************)

\* fiscal_url and house_id of a message are columns of its job that no
\* statement changes, so the message keeps the id only.
Message   == [job: JobIds, attempt: Nat, resume: BOOLEAN]
NoMessage == [job |-> NULL, attempt |-> 0, resume |-> FALSE]

\* pc names the next call of processJob.
WorkerPc == {"idle", "begin", "fetch", "load", "resume", "load_owner", "pause",
             "receipt", "items", "complete", "requeue", "enqueue", "fail"}

\* seen: the row processResume loaded; phase and parsed: what is about to be
\* paused or persisted; reason: why the job is about to fail; receipt: the
\* id CreateReceipt returned.
Worker == [pc      : WorkerPc,
           msg     : Message \cup {NoMessage},
           seen    : Job,
           phase   : {"none", "summary", "detail"},
           parsed  : Pages \cup {"none"},
           reason  : FailureReason \cup {"none"},
           receipt : ReceiptIds \cup {NULL}]

At(pc, m) == [pc |-> pc, msg |-> m, seen |-> NoJob, phase |-> "none",
              parsed |-> "none", reason |-> "none", receipt |-> NULL]

IdleWorker == At("idle", NoMessage)

RequestPc == {"idle", "check_active", "create", "publish", "mark_failed",
              "resume", "publish_resume"}

Request == [pc       : RequestPc,
            url      : Urls \cup {NULL},
            job      : JobIds \cup {NULL},
            attempts : Nat]

IdleRequest == [pc |-> "idle", url |-> NULL, job |-> NULL, attempts |-> 0]

(***************************************************************************)
(* Calls that can go wrong.  A lost reply is a call that took effect while *)
(* its caller saw an error; a resent push is one the Redis client repeated *)
(* after a network error, so that it took effect twice.                    *)
(***************************************************************************)
ReadReply  == {"ok"} \cup (FaultKinds \cap {"db_error"})
WriteReply == {"ok"} \cup (FaultKinds \cap DbFaults)
PushReply  == {"ok"} \cup (FaultKinds \cap RedisFaults)
PopReply   == {"ok"} \cup (FaultKinds \cap {"redis_reply_lost"})

Succeeds(reply) == reply \in {"ok", "redis_resent"}

Charge(reply) ==
  /\ reply # "ok" => faults < MaxFaults
  /\ faults' = IF reply = "ok" THEN faults ELSE faults + 1

Write(j, row, reply) ==
  jobs' = IF reply = "db_error" THEN jobs ELSE [jobs EXCEPT ![j] = row]

Pushed(q, m, reply) ==
  CASE reply = "redis_error"  -> q
    [] reply = "redis_resent" -> Append(Append(q, m), m)
    [] OTHER                  -> Append(q, m)

(***************************************************************************)
(* What the tables hold                                                    *)
(***************************************************************************)
Stored(h, u) == {r \in ReceiptIds : /\ receipts[r].state # "absent"
                                    /\ receipts[r].house = h
                                    /\ receipts[r].url = u}

\* FindActiveJobByURL
ActiveJobs(h, u) == {j \in JobIds : /\ jobs[j].status \in ActiveStatus \cup {"awaiting_captcha"}
                                    /\ jobs[j].house = h
                                    /\ jobs[j].url = u}

\* An id BIGSERIAL may hand out: no row and no worker refers to it.  Reusing
\* the id of a deleted receipt nobody remembers loses nothing.
FreshReceipt == {r \in ReceiptIds : /\ receipts[r].state = "absent"
                                    /\ \A w \in Workers : worker[w].receipt # r}

Init ==
  /\ jobs        = [j \in JobIds |-> NoJob]
  /\ receipts    = [r \in ReceiptIds |-> NoReceipt]
  /\ jobQueue    = <<>>
  /\ resumeQueue = <<>>
  /\ worker      = [w \in Workers |-> IdleWorker]
  /\ request     = [c \in Requests |-> IdleRequest]
  /\ faults      = 0

-----------------------------------------------------------------------------
(***************************************************************************)
(* Worker: backend/internal/scraper/worker.go                              *)
(***************************************************************************)
MsgOf(w) == worker[w].msg
RowOf(w) == jobs[MsgOf(w).job]

\* A step that only decides: w goes on as described by the record next.
Decide(w, next) ==
  /\ worker' = [worker EXCEPT ![w] = next]
  /\ UNCHANGED <<jobs, receipts, redis, request, faults>>

Failing(w, reason) == [At("fail", MsgOf(w)) EXCEPT !.reason = reason]
Pausing(w, phase, parsed) ==
  [At("pause", MsgOf(w)) EXCEPT !.phase = phase, !.parsed = parsed]
Persisting(w, parsed) == [At("receipt", MsgOf(w)) EXCEPT !.parsed = parsed]

\* handleFailure up to its first call: a browser error is retried while the
\* message's attempt allows it.
Failed(w, reason) ==
  IF MsgOf(w).attempt + 1 < MaxRetries
  THEN [At("requeue", MsgOf(w)) EXCEPT !.reason = reason]
  ELSE Failing(w, reason)

\* Wrong: the message is read and stays in Redis.
DequeuePeeks(w) ==
  /\ worker[w].pc = "idle"
  /\ \E q \in {resumeQueue, jobQueue} :
       q # <<>> /\ Decide(w, At("begin", Head(q)))

\* Run: BRPop takes the oldest resume message, or the oldest job message when
\* there is none.  The message leaves Redis before any work is done.
Dequeue(w) ==
  /\ worker[w].pc = "idle"
  /\ \E reply \in PopReply :
       LET received(m) == IF reply = "ok" THEN At("begin", m) ELSE IdleWorker
       IN /\ Charge(reply)
          /\ \/ /\ resumeQueue # <<>>
                /\ resumeQueue' = Tail(resumeQueue)
                /\ worker' = [worker EXCEPT ![w] = received(Head(resumeQueue))]
                /\ UNCHANGED jobQueue
             \/ /\ resumeQueue = <<>>
                /\ jobQueue # <<>>
                /\ jobQueue' = Tail(jobQueue)
                /\ worker' = [worker EXCEPT ![w] = received(Head(jobQueue))]
                /\ UNCHANGED resumeQueue
  /\ UNCHANGED <<jobs, receipts, request>>

\* processJob marks the job processing; on an error it drops the message.
Begin(w) ==
  /\ worker[w].pc = "begin"
  /\ \E reply \in WriteReply :
       /\ Charge(reply)
       /\ Write(MsgOf(w).job, UpdateStatus(RowOf(w), "processing", "none", NULL), reply)
       /\ worker' = [worker EXCEPT ![w] =
                       IF reply = "ok"
                       THEN At(IF MsgOf(w).resume THEN "load" ELSE "fetch", MsgOf(w))
                       ELSE IdleWorker]
  /\ UNCHANGED <<receipts, redis, request>>

\* processJob, a job that is not a resume: FetchWithDetailPhase and the
\* branches on its result.
Fetch(w) ==
  /\ worker[w].pc = "fetch"
  /\ \/ \E e \in FetchErrors : Decide(w, Failed(w, e))
     \/ Decide(w, Pausing(w, "summary", "none"))
     \/ Decide(w, Failing(w, "parsing"))
     \/ \E p \in Pages : Decide(w, Pausing(w, "detail", p))
     \/ \E p \in Pages :
          Decide(w, [At("load_owner", MsgOf(w)) EXCEPT !.parsed = p])

\* processJob loads the job to learn who submitted it.
LoadOwner(w) ==
  /\ worker[w].pc = "load_owner"
  /\ \E reply \in ReadReply :
       /\ Charge(reply)
       /\ worker' = [worker EXCEPT ![w] =
                       IF reply = "ok" THEN Persisting(w, @.parsed)
                                       ELSE Failing(w, "unknown")]
  /\ UNCHANGED <<jobs, receipts, redis, request>>

\* processResume loads the job; on an error it drops the message.
Load(w) ==
  /\ worker[w].pc = "load"
  /\ \E reply \in ReadReply :
       /\ Charge(reply)
       /\ worker' = [worker EXCEPT ![w] =
                       IF reply = "ok"
                       THEN [At("resume", MsgOf(w)) EXCEPT !.seen = RowOf(w)]
                       ELSE IdleWorker]
  /\ UNCHANGED <<jobs, receipts, redis, request>>

\* Wrong: one solution is enough to give up.
ChallengedAgainEarly(w, phase) ==
  IF worker[w].seen.retries + 1 >= CaptchaRetryLimit
  THEN Failing(w, "captcha_expired")
  ELSE Pausing(w, phase, "none")

\* A challenge met again after a human solved one.
ChallengedAgain(w, phase) ==
  IF worker[w].seen.retries >= CaptchaRetryLimit
  THEN Failing(w, "captcha_expired")
  ELSE Pausing(w, phase, "none")

\* processResume rejects cookies that are not a list.
ResumeBadCookies(w) ==
  /\ worker[w].pc = "resume"
  /\ worker[w].seen.cookies = "other"
  /\ Decide(w, Failed(w, "navigation"))

\* processResume of a summary-phase pause.
ResumeSummary(w) ==
  /\ worker[w].pc = "resume"
  /\ worker[w].seen.cookies = "list"
  /\ worker[w].seen.phase # "detail"
  /\ \/ \E e \in FetchErrors : Decide(w, Failed(w, e))
     \/ Decide(w, ChallengedAgain(w, "summary"))
     \/ Decide(w, Failing(w, "parsing"))
     \/ \E p \in Pages : Decide(w, Pausing(w, "detail", p))
     \/ \E p \in Pages : Decide(w, Persisting(w, p))

\* The persisted summary, or a failure when there is none.
FromSummary(w) ==
  IF worker[w].seen.summary = "none"
  THEN Failed(w, "navigation")
  ELSE Persisting(w, worker[w].seen.summary)

\* resumeDetailPhase: the submitted page is tried first, the browser only
\* when no usable page was submitted.
ResumeDetail(w) ==
  /\ worker[w].pc = "resume"
  /\ worker[w].seen.cookies = "list"
  /\ worker[w].seen.phase = "detail"
  /\ \/ worker[w].seen.html = "usable" /\ Decide(w, FromSummary(w))
     \/ /\ worker[w].seen.html # "usable"
        /\ \/ \E e \in FetchErrors : Decide(w, Failed(w, e))
           \/ Decide(w, ChallengedAgain(w, "detail"))
           \/ Decide(w, FromSummary(w))

\* handleCaptchaPause
Pause(w) ==
  /\ worker[w].pc = "pause"
  /\ \E reply \in WriteReply :
       /\ Charge(reply)
       /\ Write(MsgOf(w).job, Paused(RowOf(w), worker[w].phase, worker[w].parsed), reply)
       /\ worker' = [worker EXCEPT ![w] =
                       IF reply = "ok" THEN IdleWorker ELSE Failing(w, "captcha")]
  /\ UNCHANGED <<receipts, redis, request>>

\* Wrong: the job is completed before its items are inserted.
CreateReceiptThenComplete(w) ==
  LET row == RowOf(w) IN
  /\ worker[w].pc = "receipt"
  /\ Stored(row.house, row.url) = {}
  /\ \E r \in FreshReceipt :
       /\ receipts' = [receipts EXCEPT ![r] = [state |-> "header", house |-> row.house, url |-> row.url]]
       /\ worker' = [worker EXCEPT ![w] = [At("complete", MsgOf(w)) EXCEPT !.receipt = r]]
  /\ UNCHANGED <<jobs, redis, request, faults>>

\* persistReceipt: UpsertStore and CreateReceipt.  A receipt of the same house
\* and URL makes the INSERT fail.
CreateReceipt(w) ==
  LET row == RowOf(w) IN
  /\ worker[w].pc = "receipt"
  /\ \/ /\ Stored(row.house, row.url) # {}
        /\ Decide(w, Failing(w, "unknown"))
     \/ /\ Stored(row.house, row.url) = {}
        /\ \E reply \in WriteReply, r \in FreshReceipt :
             /\ Charge(reply)
             /\ receipts' = IF reply = "db_error" THEN receipts
                            ELSE [receipts EXCEPT ![r] =
                                    [state |-> IF worker[w].parsed = "empty" THEN "whole"
                                                                             ELSE "header",
                                     house |-> row.house, url |-> row.url]]
             /\ worker' = [worker EXCEPT ![w] =
                             IF reply # "ok" THEN Failing(w, "unknown")
                             ELSE [At(IF @.parsed = "empty" THEN "complete" ELSE "items",
                                      MsgOf(w)) EXCEPT !.receipt = r]]
        /\ UNCHANGED <<jobs, redis, request>>

\* persistReceipt: CreateItems, one batch.  It fails when the receipt was
\* deleted in the meantime.
CreateItems(w) ==
  LET r == worker[w].receipt IN
  /\ worker[w].pc = "items"
  /\ \/ receipts[r].state = "absent" /\ Decide(w, Failing(w, "unknown"))
     \/ /\ receipts[r].state # "absent"
        /\ \E reply \in WriteReply :
             /\ Charge(reply)
             /\ receipts' = IF reply = "db_error" THEN receipts
                            ELSE [receipts EXCEPT ![r].state = "whole"]
             /\ worker' = [worker EXCEPT ![w] =
                             IF reply = "ok" THEN [@ EXCEPT !.pc = "complete"]
                                             ELSE Failing(w, "unknown")]
        /\ UNCHANGED <<jobs, redis, request>>

\* persistReceipt: UpdateJobStatus(completed).  It fails when the receipt was
\* deleted in the meantime.
Complete(w) ==
  LET r == worker[w].receipt IN
  /\ worker[w].pc = "complete"
  /\ \/ receipts[r].state = "absent" /\ Decide(w, Failing(w, "unknown"))
     \/ /\ receipts[r].state # "absent"
        /\ \E reply \in WriteReply :
             /\ Charge(reply)
             /\ Write(MsgOf(w).job, UpdateStatus(RowOf(w), "completed", "none", r), reply)
             /\ worker' = [worker EXCEPT ![w] =
                             IF reply = "ok" THEN IdleWorker ELSE Failing(w, "unknown")]
        /\ UNCHANGED <<receipts, redis, request>>

\* Wrong: the job is queued in the table only.
RequeueForgetsPush(w) ==
  /\ worker[w].pc = "requeue"
  /\ jobs' = [jobs EXCEPT ![MsgOf(w).job] = UpdateStatus(RowOf(w), "queued", "none", NULL)]
  /\ worker' = [worker EXCEPT ![w] = IdleWorker]
  /\ UNCHANGED <<receipts, redis, request, faults>>

\* handleFailure: UpdateJobStatus(queued), its error ignored.
Requeue(w) ==
  /\ worker[w].pc = "requeue"
  /\ \E reply \in WriteReply :
       /\ Charge(reply)
       /\ Write(MsgOf(w).job, UpdateStatus(RowOf(w), "queued", "none", NULL), reply)
  /\ worker' = [worker EXCEPT ![w].pc = "enqueue"]
  /\ UNCHANGED <<receipts, redis, request>>

\* Wrong: the retry does not count as an attempt.
EnqueueSameAttempt(w) ==
  /\ worker[w].pc = "enqueue"
  /\ jobQueue' = Append(jobQueue, [MsgOf(w) EXCEPT !.resume = FALSE])
  /\ worker' = [worker EXCEPT ![w] = IdleWorker]
  /\ UNCHANGED <<jobs, receipts, resumeQueue, request, faults>>

\* Wrong: the return after a successful push is missing.
EnqueueThenFails(w) ==
  LET retry == [job |-> MsgOf(w).job, attempt |-> MsgOf(w).attempt + 1, resume |-> FALSE] IN
  /\ worker[w].pc = "enqueue"
  /\ jobQueue' = Append(jobQueue, retry)
  /\ worker' = [worker EXCEPT ![w] = Failing(w, @.reason)]
  /\ UNCHANGED <<jobs, receipts, resumeQueue, request, faults>>

\* handleFailure: the retry goes to the normal list, as a fresh job.
Enqueue(w) ==
  LET retry == [job |-> MsgOf(w).job, attempt |-> MsgOf(w).attempt + 1, resume |-> FALSE] IN
  /\ worker[w].pc = "enqueue"
  /\ \E reply \in PushReply :
       /\ Charge(reply)
       /\ jobQueue' = Pushed(jobQueue, retry, reply)
       /\ worker' = [worker EXCEPT ![w] =
                       IF Succeeds(reply) THEN IdleWorker ELSE Failing(w, @.reason)]
  /\ UNCHANGED <<jobs, receipts, resumeQueue, request>>

\* Every UpdateJobStatus(failed) of the worker; its error is ignored.
Fail(w) ==
  /\ worker[w].pc = "fail"
  /\ \E reply \in WriteReply :
       /\ Charge(reply)
       /\ Write(MsgOf(w).job, UpdateStatus(RowOf(w), "failed", worker[w].reason, NULL), reply)
  /\ worker' = [worker EXCEPT ![w] = IdleWorker]
  /\ UNCHANGED <<receipts, redis, request>>

\* The process dies and is started again, or is asked to stop: its context is
\* cancelled and every later call of the job at hand fails.
Crash(w) ==
  /\ "worker_crash" \in FaultKinds
  /\ faults < MaxFaults
  /\ worker[w].pc # "idle"
  /\ worker' = [worker EXCEPT ![w] = IdleWorker]
  /\ faults' = faults + 1
  /\ UNCHANGED <<jobs, receipts, redis, request>>

WorkerStep(w) ==
  \/ Dequeue(w) \/ Begin(w) \/ Fetch(w) \/ LoadOwner(w) \/ Load(w)
  \/ ResumeBadCookies(w) \/ ResumeSummary(w) \/ ResumeDetail(w) \/ Pause(w)
  \/ CreateReceipt(w) \/ CreateItems(w) \/ Complete(w)
  \/ Requeue(w) \/ Enqueue(w) \/ Fail(w)

-----------------------------------------------------------------------------
(***************************************************************************)
(* API: backend/internal/api/handlers.go                                   *)
(***************************************************************************)

\* Bound: as many submissions are past the first check as there are ids left.
RoomForJob ==
  Cardinality({c \in Requests : request[c].pc \in {"check_active", "create"}})
    < Cardinality({j \in JobIds : jobs[j].status = "absent"})

\* SubmitReceipt, first check: a stored receipt ends the request.  A failed
\* query counts as no receipt.
SubmitCheckReceipt(c, u) ==
  /\ request[c].pc = "idle"
  /\ RoomForJob
  /\ \E reply \in ReadReply :
       /\ Charge(reply)
       /\ reply = "ok" => Stored(HouseOf[c], u) = {}
  /\ request' = [request EXCEPT ![c] = [IdleRequest EXCEPT !.pc = "check_active", !.url = u]]
  /\ UNCHANGED <<jobs, receipts, redis, worker>>

\* SubmitReceipt, second check: an active job ends the request.  A failed
\* query counts as no job.
SubmitCheckActive(c) ==
  /\ request[c].pc = "check_active"
  /\ \E reply \in ReadReply :
       /\ Charge(reply)
       /\ request' = [request EXCEPT ![c] =
                        IF reply = "ok" /\ ActiveJobs(HouseOf[c], @.url) # {}
                        THEN IdleRequest
                        ELSE [@ EXCEPT !.pc = "create"]]
  /\ UNCHANGED <<jobs, receipts, redis, worker>>

\* SubmitReceipt: CreateJob.
SubmitCreate(c) ==
  /\ request[c].pc = "create"
  /\ \E reply \in WriteReply, j \in JobIds :
       /\ jobs[j].status = "absent"
       /\ Charge(reply)
       /\ Write(j, Created(HouseOf[c], request[c].url), reply)
       /\ request' = [request EXCEPT ![c] =
                        IF reply = "ok" THEN [IdleRequest EXCEPT !.pc = "publish", !.job = j]
                                        ELSE IdleRequest]
  /\ UNCHANGED <<receipts, redis, worker>>

\* SubmitReceipt: Enqueue.
SubmitPublish(c) ==
  LET fresh == [job |-> request[c].job, attempt |-> 0, resume |-> FALSE] IN
  /\ request[c].pc = "publish"
  /\ \E reply \in PushReply :
       /\ Charge(reply)
       /\ jobQueue' = Pushed(jobQueue, fresh, reply)
       /\ request' = [request EXCEPT ![c] =
                        IF Succeeds(reply) THEN IdleRequest ELSE [@ EXCEPT !.pc = "mark_failed"]]
  /\ UNCHANGED <<jobs, receipts, resumeQueue, worker>>

\* SubmitReceipt: a job that could not be enqueued is failed; the error of
\* this update is ignored.
SubmitMarkFailed(c) ==
  /\ request[c].pc = "mark_failed"
  /\ \E reply \in WriteReply :
       /\ Charge(reply)
       /\ Write(request[c].job, UpdateStatus(jobs[request[c].job], "failed", "unknown", NULL), reply)
  /\ request' = [request EXCEPT ![c] = IdleRequest]
  /\ UNCHANGED <<receipts, redis, worker>>

\* ResumeCaptcha reads the job and checks its house and status.
ResumeRead(c, j) ==
  /\ request[c].pc = "idle"
  /\ jobs[j].house = HouseOf[c]
  /\ jobs[j].status = "awaiting_captcha"
  /\ request' = [request EXCEPT ![c] =
                   [IdleRequest EXCEPT !.pc = "resume", !.job = j, !.attempts = jobs[j].attempts]]
  /\ UNCHANGED <<jobs, receipts, redis, worker, faults>>

\* Wrong: the UPDATE does not look at the status again.
ResumeUpdateUnguarded(c) ==
  /\ request[c].pc = "resume"
  /\ \E body \in Bodies :
       jobs' = [jobs EXCEPT ![request[c].job] = Resumed(@, body)]
  /\ request' = [request EXCEPT ![c].pc = "publish_resume"]
  /\ UNCHANGED <<receipts, redis, worker, faults>>

\* ResumeCaptcha: ResumeJobFromCaptcha, which selects the row only while it is
\* still awaiting_captcha and errs otherwise.
ResumeUpdate(c) ==
  LET j == request[c].job IN
  /\ request[c].pc = "resume"
  /\ \/ /\ jobs[j].status # "awaiting_captcha"
        /\ request' = [request EXCEPT ![c] = IdleRequest]
        /\ UNCHANGED <<jobs, faults>>
     \/ /\ jobs[j].status = "awaiting_captcha"
        /\ \E reply \in WriteReply, body \in Bodies :
             /\ Charge(reply)
             /\ Write(j, Resumed(jobs[j], body), reply)
             /\ request' = [request EXCEPT ![c] =
                              IF reply = "ok" THEN [@ EXCEPT !.pc = "publish_resume"]
                                              ELSE IdleRequest]
  /\ UNCHANGED <<receipts, redis, worker>>

\* ResumeCaptcha: EnqueueResume, with the attempts read before the update.
\* An error ends the request and nothing else.
ResumePublish(c) ==
  LET resume == [job |-> request[c].job, attempt |-> request[c].attempts, resume |-> TRUE] IN
  /\ request[c].pc = "publish_resume"
  /\ \E reply \in PushReply :
       /\ Charge(reply)
       /\ resumeQueue' = Pushed(resumeQueue, resume, reply)
  /\ request' = [request EXCEPT ![c] = IdleRequest]
  /\ UNCHANGED <<jobs, receipts, jobQueue, worker>>

\* DeleteReceipt: items go with the receipt, jobs lose their link to it.
DeleteReceipt(c, r) ==
  /\ request[c].pc = "idle"
  /\ receipts[r].state # "absent"
  /\ receipts[r].house = HouseOf[c]
  /\ receipts' = [receipts EXCEPT ![r] = NoReceipt]
  /\ jobs' = [j \in JobIds |-> Unlinked(jobs[j], r)]
  /\ UNCHANGED <<redis, worker, request, faults>>

\* The client goes away or the API stops: the request's context is cancelled
\* and every later call of the handler fails.
Disconnect(c) ==
  /\ "disconnect" \in FaultKinds
  /\ faults < MaxFaults
  /\ request[c].pc # "idle"
  /\ request' = [request EXCEPT ![c] = IdleRequest]
  /\ faults' = faults + 1
  /\ UNCHANGED <<jobs, receipts, redis, worker>>

RequestStep(c) ==
  \/ SubmitCheckActive(c) \/ SubmitCreate(c) \/ SubmitPublish(c) \/ SubmitMarkFailed(c)
  \/ ResumeUpdate(c) \/ ResumePublish(c)

\* Wrong: jobs that are being worked on expire too.
ExpireUnsettled(S) ==
  /\ S # {}
  /\ \A j \in S : jobs[j].status \in {"processing", "awaiting_captcha"}
  /\ jobs' = [j \in JobIds |-> IF j \in S THEN Expired(jobs[j]) ELSE jobs[j]]
  /\ UNCHANGED <<receipts, redis, worker, request, faults>>

\* Wrong: only pauses on the summary page expire.
ExpireSummaries(S) ==
  /\ S # {}
  /\ \A j \in S : jobs[j].status = "awaiting_captcha" /\ jobs[j].phase = "summary"
  /\ jobs' = [j \in JobIds |-> IF j \in S THEN Expired(jobs[j]) ELSE jobs[j]]
  /\ UNCHANGED <<receipts, redis, worker, request, faults>>

\* The API's ticker: one UPDATE fails every job whose pause is old enough.
Expire(S) ==
  /\ S # {}
  /\ \A j \in S : jobs[j].status = "awaiting_captcha"
  /\ jobs' = [j \in JobIds |-> IF j \in S THEN Expired(jobs[j]) ELSE jobs[j]]
  /\ UNCHANGED <<receipts, redis, worker, request, faults>>

-----------------------------------------------------------------------------
Next ==
  \/ \E w \in Workers : WorkerStep(w) \/ Crash(w)
  \/ \E c \in Requests :
       \/ RequestStep(c)
       \/ Disconnect(c)
       \/ \E u \in Urls : SubmitCheckReceipt(c, u)
       \/ \E j \in JobIds : ResumeRead(c, j)
       \/ \E r \in ReceiptIds : DeleteReceipt(c, r)
  \/ \E S \in SUBSET JobIds : Expire(S)

Spec == Init /\ [][Next]_vars

\* Workers loop for ever, a handler runs to its end, the ticker keeps ticking.
\* Users need not do anything.
Fairness ==
  /\ \A w \in Workers : WF_vars(WorkerStep(w))
  /\ \A c \in Requests : WF_vars(RequestStep(c))
  /\ \A j \in JobIds : WF_vars(\E S \in SUBSET JobIds : j \in S /\ Expire(S))

FairSpec == Spec /\ Fairness
-----------------------------------------------------------------------------
(***************************************************************************)
(* Custody: who holds a job.  A job is carried by a message, by the worker *)
(* that popped it, or by the request that is about to push it.             *)
(***************************************************************************)
JobsIn(q) == {q[i].job : i \in DOMAIN q}

HeldByWorker(j)  == \E w \in Workers : worker[w].pc # "idle" /\ MsgOf(w).job = j
HeldByRequest(j) == \E c \in Requests :
                      /\ request[c].pc \in {"publish", "mark_failed", "publish_resume"}
                      /\ request[c].job = j
HeldInQueue(j)   == j \in JobsIn(jobQueue) \cup JobsIn(resumeQueue)

Held(j) == HeldByWorker(j) \/ HeldByRequest(j) \/ HeldInQueue(j)

Holders(j) ==
  {<<"worker", w>> : w \in {x \in Workers : worker[x].pc # "idle" /\ MsgOf(x).job = j}}
  \cup {<<"request", c>> : c \in {x \in Requests :
          /\ request[x].pc \in {"publish", "mark_failed", "publish_resume"}
          /\ request[x].job = j}}
  \cup {<<"jobs", i>> : i \in {k \in DOMAIN jobQueue : jobQueue[k].job = j}}
  \cup {<<"resume", i>> : i \in {k \in DOMAIN resumeQueue : resumeQueue[k].job = j}}

-----------------------------------------------------------------------------
(***************************************************************************)
(* Properties                                                              *)
(***************************************************************************)

\* Rows, messages, workers and requests hold values of their types.
TypeOK ==
  /\ jobs \in [JobIds -> Job]
  /\ receipts \in [ReceiptIds -> Receipt]
  /\ jobQueue \in Seq(Message)
  /\ resumeQueue \in Seq(Message)
  /\ worker \in [Workers -> Worker]
  /\ request \in [Requests -> Request]
  /\ faults \in Nat

\* A job is held at most once.  Nothing in the tables or in Redis prevents two
\* workers from running the same job (UpdateJobStatus does not look at the old
\* status): only the discipline of popping before working, of pushing a retry
\* last, and of the status check in ResumeJobFromCaptcha does.
OneHolder == \A j \in JobIds : \A a, b \in Holders(j) : a = b

\* A job that is paused or settled is held by nobody: no message for it is on
\* its way, so no worker will pick it up and overwrite its status.
RestingJobsAreNotHeld ==
  \A j \in JobIds :
    jobs[j].status \notin ActiveStatus => ~Held(j)

\* A queued or processing job is held by somebody.  No code looks for jobs
\* without a message, and SubmitReceipt answers with the active job of a URL:
\* a job that is not held blocks its URL for ever.
NoStrandedJob ==
  \A j \in JobIds : jobs[j].status \in ActiveStatus => Held(j)

\* A verdict is final: no later message, retry or ticker changes the status or
\* the failure reason of a completed or failed job.
SettledIsFinal ==
  [][\A j \in JobIds :
       jobs[j].status \in SettledStatus =>
         jobs'[j].status = jobs[j].status /\ jobs'[j].reason = jobs[j].reason]_vars

\* A job paused on the detail page has the summary resumeDetailPhase needs:
\* the pause that found the challenge stored it, or a later pause kept it.
DetailPauseHasSummary ==
  /\ \A j \in JobIds :
       jobs[j].status = "awaiting_captcha" /\ jobs[j].phase = "detail"
         => jobs[j].summary # "none"
  /\ \A w \in Workers :
       worker[w].pc = "resume" /\ worker[w].seen.phase = "detail"
         => worker[w].seen.summary # "none"

\* The page a user submitted is kept only while its job is under way: every
\* path out of a resume (pause again, retry, expiry, verdict) drops it.
PageHtmlOnlyInFlight ==
  \A j \in JobIds : jobs[j].html # "none" => jobs[j].status \in ActiveStatus

\* The receipt a job points to exists, belongs to the job's house and URL, and
\* has all its items: what GET /receipts/{id} shows after a completed job.
CompletedReceiptIsWhole ==
  \A j \in JobIds :
    LET r == jobs[j].receipt IN
    r # NULL => /\ jobs[j].status = "completed"
                /\ receipts[r].state = "whole"
                /\ receipts[r].house = jobs[j].house
                /\ receipts[r].url = jobs[j].url

\* A receipt without its items has a worker about to insert them.
HeaderHasWriter ==
  \A r \in ReceiptIds :
    receipts[r].state = "header" =>
      \E w \in Workers : worker[w].pc = "items" /\ worker[w].receipt = r

\* captcha_expired is told only to users who solved the captcha twice; the
\* worker decides it from a row it read before the browser ran.
ExpiredOnlyAfterTwoSolutions ==
  \A j \in JobIds :
    jobs[j].reason = "captcha_expired" => jobs[j].retries >= CaptchaRetryLimit

\* A user solves at most CaptchaRetryLimit captchas for one job: after the
\* second solution a further challenge fails the job.
CaptchaLimit ==
  \A j \in JobIds :
    jobs[j].status = "awaiting_captcha" => jobs[j].retries < CaptchaRetryLimit

\* A job is created only for a URL that has neither a receipt nor a job under
\* way: what the two checks of SubmitReceipt are for.
CreatesOnlyWhenNew ==
  [][\A j \in JobIds :
       jobs[j].status = "absent" /\ jobs'[j].status # "absent" =>
         LET h == jobs'[j].house
             u == jobs'[j].url
         IN Stored(h, u) = {} /\ ActiveJobs(h, u) = {}]_vars

\* Every submitted job gets a verdict, whatever the pages show and whether or
\* not anybody solves its captchas.
JobsSettle ==
  \A j \in JobIds :
    jobs[j].status # "absent" ~> jobs[j].status \in SettledStatus

\* How often a job is started unless captchas interrupt it: once, and again for
\* each retry.  With MAX_RETRIES = 0 it is still started once.
Tries == IF MaxRetries = 0 THEN 1 ELSE MaxRetries

\* However its pages, captchas and retries turn out, a job is started at most
\* this often, each start being one browser session of up to ScrapeTimeout, as
\* long as requests follow one another: of two resumes that overlap, the later
\* one may push an attempt it read before the earlier one was run.
StartsAreBounded ==
  (\A c, d \in Requests : c = d) =>
    \A j \in JobIds : jobs[j].attempts <= Tries + CaptchaRetryLimit + 1

-----------------------------------------------------------------------------
(***************************************************************************)
(* The pipeline keeps the promise of JobCustody.                           *)
(***************************************************************************)
KeeperOf(j) ==
  CASE HeldInQueue(j)                        -> "queue"
    [] HeldByWorker(j)                       -> "worker"
    [] HeldByRequest(j)                      -> "request"
    [] jobs[j].status = "absent"             -> "nobody"
    [] jobs[j].status = "awaiting_captcha"   -> "user"
    [] jobs[j].status \in SettledStatus      -> "closed"
    [] OTHER                                 -> "lost"

VerdictOf(j) ==
  IF jobs[j].status \in SettledStatus THEN jobs[j].status ELSE "open"

Custody == INSTANCE JobCustody WITH
             keeper  <- [j \in JobIds |-> KeeperOf(j)],
             verdict <- [j \in JobIds |-> VerdictOf(j)]

\* Every step of the pipeline passes a job on as JobCustody allows, or not at
\* all: two holders, a lost message or a second verdict would be a step
\* JobCustody does not have.
PassesOnJobs == Custody!Spec

\* A job does not stay with a request, in a queue, with a worker or with a
\* user for ever, whatever other jobs do.
NobodyKeepsJobs == Custody!NobodyKeepsForEver

=============================================================================
