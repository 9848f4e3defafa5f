------------------------- MODULE JobPipelineProofs -------------------------
(***************************************************************************)
(* Theorems about JobPipeline and their proofs, for any number of houses,  *)
(* URLs, jobs, receipts, workers and requests.                             *)
(*                                                                         *)
(*   1. queues:  what a push and a pop do to the jobs on a Redis list;     *)
(*   2. types:   Spec => []TypeOK, whatever calls go wrong;                *)
(*   3. custody: Spec => []OneHolder, []RestingJobsAreNotHeld and          *)
(*               SettledIsFinal as long as no call loses its reply;        *)
(*   4. Spec => []NoStrandedJob as long as every call works;               *)
(*   5. rows:    what a row remembers, whatever calls go wrong;            *)
(*   6. Spec => []CompletedReceiptIsWhole, whatever calls go wrong;        *)
(*   7. Spec => PassesOnJobs, the refinement of JobCustody, as long as     *)
(*      every call works;                                                  *)
(*   8. starts:  Spec => []StartsAreBounded as long as no call loses its   *)
(*               reply, whatever else goes wrong.                          *)
(***************************************************************************)
EXTENDS JobPipeline, TLAPS

-----------------------------------------------------------------------------
(***************************************************************************)
(* 1. Queues                                                               *)
(***************************************************************************)

\* No two messages of a list are about the same job.
OneMessagePerJob(q) == \A a, b \in DOMAIN q : q[a].job = q[b].job => a = b

\* LPUSH adds the job of its message to the jobs of the list.
LEMMA PushAddsOneJob ==
  ASSUME NEW q \in Seq(Message), NEW m \in Message
  PROVE  /\ Append(q, m) \in Seq(Message)
         /\ JobsIn(Append(q, m)) = JobsIn(q) \cup {m.job}
<1> DEFINE p == Append(q, m)
<1>1. /\ p \in Seq(Message)
      /\ DOMAIN q = 1 .. Len(q)
      /\ DOMAIN p = 1 .. Len(q) + 1
      /\ Len(q) \in Nat
  OBVIOUS
<1>2. \A i \in DOMAIN q : p[i] = q[i]
  OBVIOUS
<1>3. p[Len(q) + 1] = m
  OBVIOUS
<1>4. ASSUME NEW x \in JobsIn(p) PROVE x \in JobsIn(q) \cup {m.job}
  <2>1. PICK i \in DOMAIN p : x = p[i].job
    BY <1>4 DEF JobsIn
  <2>2. CASE i = Len(q) + 1
    BY <2>1, <2>2, <1>3
  <2>3. CASE i # Len(q) + 1
    <3>1. i \in DOMAIN q
      BY <2>3, <1>1
    <3>2. QED
      BY <3>1, <2>1, <1>2 DEF JobsIn
  <2>4. QED
    BY <2>2, <2>3
<1>5. ASSUME NEW x \in JobsIn(q) \cup {m.job} PROVE x \in JobsIn(p)
  <2>1. CASE x = m.job
    BY <2>1, <1>1, <1>3 DEF JobsIn
  <2>2. CASE x \in JobsIn(q)
    <3>1. PICK i \in DOMAIN q : x = q[i].job
      BY <2>2 DEF JobsIn
    <3>2. i \in DOMAIN p
      BY <1>1
    <3>3. QED
      BY <3>1, <3>2, <1>2 DEF JobsIn
  <2>3. QED
    BY <1>5, <2>1, <2>2
<1>6. QED
  BY <1>1, <1>4, <1>5

\* Pushing a job the list does not have keeps one message per job.
LEMMA PushKeepsOneMessagePerJob ==
  ASSUME NEW q \in Seq(Message), NEW m \in Message,
         OneMessagePerJob(q), m.job \notin JobsIn(q)
  PROVE  OneMessagePerJob(Append(q, m))
<1> DEFINE p == Append(q, m)
<1>1. /\ DOMAIN q = 1 .. Len(q)
      /\ DOMAIN p = 1 .. Len(q) + 1
      /\ Len(q) \in Nat
  OBVIOUS
<1>2. \A i \in DOMAIN q : p[i] = q[i] /\ q[i].job # m.job
  BY DEF JobsIn
<1>3. p[Len(q) + 1] = m
  OBVIOUS
<1>4. ASSUME NEW a \in DOMAIN p, NEW b \in DOMAIN p, p[a].job = p[b].job
      PROVE  a = b
  <2>1. CASE a \in DOMAIN q /\ b \in DOMAIN q
    BY <2>1, <1>2, <1>4 DEF OneMessagePerJob
  <2>2. CASE a = Len(q) + 1 \/ b = Len(q) + 1
    BY <2>2, <1>1, <1>2, <1>3, <1>4
  <2>3. QED
    BY <2>1, <2>2, <1>1
<1>5. QED
  BY <1>4 DEF OneMessagePerJob

\* BRPOP hands out a job of the list and leaves the others.
LEMMA PopRemovesOneJob ==
  ASSUME NEW q \in Seq(Message), q # <<>>
  PROVE  /\ Head(q) \in Message
         /\ Tail(q) \in Seq(Message)
         /\ JobsIn(q) = JobsIn(Tail(q)) \cup {Head(q).job}
<1> DEFINE p == Tail(q)
<1>1. /\ p \in Seq(Message)
      /\ Head(q) \in Message
      /\ Head(q) = q[1]
      /\ Len(q) \in Nat
      /\ Len(q) >= 1
      /\ DOMAIN q = 1 .. Len(q)
      /\ DOMAIN p = 1 .. Len(q) - 1
  OBVIOUS
<1>2. \A i \in DOMAIN p : p[i] = q[i + 1]
  OBVIOUS
<1>3. ASSUME NEW x \in JobsIn(p) PROVE x \in JobsIn(q)
  <2>1. PICK i \in DOMAIN p : x = p[i].job
    BY <1>3 DEF JobsIn
  <2>2. i + 1 \in DOMAIN q
    BY <1>1
  <2>3. QED
    BY <2>1, <2>2, <1>2 DEF JobsIn
<1>4. Head(q).job \in JobsIn(q)
  BY <1>1 DEF JobsIn
<1>5. ASSUME NEW x \in JobsIn(q), x # Head(q).job PROVE x \in JobsIn(p)
  <2>1. PICK i \in DOMAIN q : x = q[i].job
    BY <1>5 DEF JobsIn
  <2>2. i # 1
    BY <2>1, <1>5, <1>1
  <2>3. i - 1 \in DOMAIN p /\ p[i - 1] = q[i]
    BY <2>2, <1>1, <1>2
  <2>4. QED
    BY <2>1, <2>3 DEF JobsIn
<1>6. QED
  BY <1>1, <1>3, <1>4, <1>5

\* Where a job has one message, popping it leaves none.
LEMMA PopKeepsOneMessagePerJob ==
  ASSUME NEW q \in Seq(Message), q # <<>>, OneMessagePerJob(q)
  PROVE  /\ OneMessagePerJob(Tail(q))
         /\ Head(q).job \notin JobsIn(Tail(q))
<1> DEFINE p == Tail(q)
<1>1. /\ Head(q) = q[1]
      /\ Len(q) \in Nat
      /\ Len(q) >= 1
      /\ DOMAIN q = 1 .. Len(q)
      /\ DOMAIN p = 1 .. Len(q) - 1
  OBVIOUS
<1>2. \A i \in DOMAIN p : p[i] = q[i + 1] /\ i + 1 \in DOMAIN q
  BY <1>1
<1>3. OneMessagePerJob(p)
  <2>1. ASSUME NEW a \in DOMAIN p, NEW b \in DOMAIN p, p[a].job = p[b].job
        PROVE  a = b
    <3>1. a + 1 = b + 1
      BY <2>1, <1>2 DEF OneMessagePerJob
    <3>2. QED
      BY <3>1, <1>1
  <2>2. QED
    BY <2>1 DEF OneMessagePerJob
<1>4. Head(q).job \notin JobsIn(p)
  <2>1. SUFFICES ASSUME NEW i \in DOMAIN p, p[i].job = Head(q).job PROVE FALSE
    BY DEF JobsIn
  <2>2. i + 1 = 1
    BY <2>1, <1>1, <1>2 DEF OneMessagePerJob
  <2>3. QED
    BY <2>2, <1>1
<1>5. QED
  BY <1>3, <1>4

-----------------------------------------------------------------------------
(***************************************************************************)
(* 2. Types                                                                *)
(***************************************************************************)

\* What a worker of a type-correct state may become while it keeps the message
\* it has: pc and receipt stay consistent.
Carrying(m) == {x \in Worker : /\ x.pc # "idle"
                               /\ x.msg = m
                               /\ x.pc \in {"items", "complete"} => x.receipt \in ReceiptIds}

\* A busy worker has a message, one that persists items has a receipt, and a
\* request that goes on knows the job or the URL it is about.
Shape ==
  /\ \A w \in Workers : worker[w].pc # "idle" =>
       MsgOf(w) \in Message /\ worker[w] \in Carrying(MsgOf(w))
  /\ \A c \in Requests :
       /\ request[c].pc \in {"check_active", "create"} => request[c].url \in Urls
       /\ request[c].pc \in {"publish", "mark_failed", "resume", "publish_resume"}
            => request[c].job \in JobIds

TypeInv == TypeOK /\ Shape

\* The statements turn rows into rows, and set the status they are named for.
LEMMA UpdateStatusType ==
  ASSUME NEW row \in Job, NEW s \in JobStatus, NEW e \in FailureReason \cup {"none"},
         NEW r \in ReceiptIds \cup {NULL}
  PROVE  UpdateStatus(row, s, e, r) \in Job /\ UpdateStatus(row, s, e, r).status = s
<1> DEFINE html     == IF s \in SettledStatus THEN "none" ELSE row.html
           attempts == IF s = "processing" THEN row.attempts + 1 ELSE row.attempts
<1>1. html \in PageHtml
  BY DEF Job, PageHtml
<1>2. attempts \in Nat
  BY DEF Job
<1>3. UpdateStatus(row, s, e, r) =
        [row EXCEPT !.status = s, !.reason = e, !.receipt = r,
                    !.html = html, !.attempts = attempts]
  BY DEF UpdateStatus, Job
<1> HIDE DEF html, attempts
<1>4. QED
  BY <1>1, <1>2, <1>3, ZenonT(60) DEF Job

LEMMA PausedType ==
  ASSUME NEW row \in Job, NEW phase \in {"none", "summary", "detail"}, NEW parsed \in Pages \cup {"none"}
  PROVE  Paused(row, phase, parsed) \in Job
<1> DEFINE summary == IF parsed = "none" THEN row.summary ELSE parsed
<1>1. summary \in Pages \cup {"none"}
  BY DEF Job
<1>2. Paused(row, phase, parsed) =
        IF row.status # "processing" THEN row
        ELSE [row EXCEPT !.status = "awaiting_captcha", !.phase = phase,
                         !.summary = summary, !.html = "none", !.cookies = "list"]
  BY DEF Paused, Job
<1> HIDE DEF summary
<1>3. "awaiting_captcha" \in JobStatus /\ "none" \in PageHtml /\ "list" \in Cookies
  BY DEF JobStatus, PageHtml, Cookies
<1>4. CASE row.status = "processing"
  BY <1>1, <1>2, <1>3, <1>4, ZenonT(60) DEF Job
<1>5. CASE row.status # "processing"
  BY <1>2, <1>5
<1>6. QED
  BY <1>4, <1>5

LEMMA ResumedType ==
  ASSUME NEW row \in Job, NEW body \in ResumeBody
  PROVE  Resumed(row, body) \in Job /\ Resumed(row, body).status = "processing"
<1>1. Resumed(row, body) =
        [row EXCEPT !.status = "processing", !.html = body.html,
                    !.cookies = body.cookies, !.retries = row.retries + 1]
  BY DEF Resumed, Job
<1>2. body.html \in PageHtml /\ body.cookies \in Cookies
  BY DEF ResumeBody
<1>3. row.retries + 1 \in Nat
  BY DEF Job
<1>4. QED
  BY <1>1, <1>2, <1>3 DEF Job, JobStatus, ActiveStatus

LEMMA OtherStatementTypes ==
  /\ NoJob \in Job
  /\ \A h \in Houses, u \in Urls :
       Created(h, u) \in Job /\ Created(h, u).status = "queued"
  /\ \A row \in Job :
       /\ Expired(row) \in Job
       /\ Expired(row).status = "failed"
       /\ \A r \in ReceiptIds :
            /\ Unlinked(row, r) \in Job
            /\ Unlinked(row, r).status = row.status
            /\ Unlinked(row, r).reason = row.reason
<1>1. NoJob \in Job
  BY DEF NoJob, Job, JobStatus, ActiveStatus, SettledStatus, PageHtml, Cookies
<1>2. ASSUME NEW h \in Houses, NEW u \in Urls
      PROVE  Created(h, u) \in Job /\ Created(h, u).status = "queued"
  BY <1>1 DEF Created, NoJob, Job, JobStatus, ActiveStatus, SettledStatus, PageHtml, Cookies
<1>3. ASSUME NEW row \in Job
      PROVE  Expired(row) \in Job /\ Expired(row).status = "failed"
  BY DEF Expired, Job, JobStatus, SettledStatus, FailureReason
<1>4. ASSUME NEW row \in Job, NEW r \in ReceiptIds
      PROVE  /\ Unlinked(row, r) \in Job
             /\ Unlinked(row, r).status = row.status
             /\ Unlinked(row, r).reason = row.reason
  BY DEF Unlinked, Job
<1>5. QED
  BY <1>1, <1>2, <1>3, <1>4

\* The records the helpers of the worker build keep its message.
LEMMA WorkerRecords ==
  ASSUME NEW w \in Workers, MsgOf(w) \in Message
  PROVE  /\ \A pc \in WorkerPc \ {"idle", "items", "complete"} :
              At(pc, MsgOf(w)) \in Carrying(MsgOf(w))
         /\ \A e \in FailureReason : /\ Failing(w, e) \in Carrying(MsgOf(w))
                                     /\ Failed(w, e) \in Carrying(MsgOf(w))
         /\ \A phase \in {"summary", "detail"}, p \in Pages \cup {"none"} :
              Pausing(w, phase, p) \in Carrying(MsgOf(w))
         /\ \A p \in Pages \cup {"none"} : Persisting(w, p) \in Carrying(MsgOf(w))
<1> DEFINE m == MsgOf(w)
<1>1. ASSUME NEW pc \in WorkerPc \ {"idle", "items", "complete"}
      PROVE  At(pc, m) \in Carrying(m) /\ At(pc, m).pc = pc
  BY OtherStatementTypes DEF At, Carrying, Worker
<1>2. "requeue" \in WorkerPc /\ "fail" \in WorkerPc /\ "pause" \in WorkerPc /\ "receipt" \in WorkerPc
  BY DEF WorkerPc
<1>3. ASSUME NEW pc \in WorkerPc \ {"idle", "items", "complete"}, NEW e \in FailureReason
      PROVE  [At(pc, m) EXCEPT !.reason = e] \in Carrying(m)
  BY <1>1 DEF Carrying, Worker
<1>4. ASSUME NEW e \in FailureReason
      PROVE  Failing(w, e) \in Carrying(m) /\ Failed(w, e) \in Carrying(m)
  BY <1>2, <1>3 DEF Failing, Failed
<1>5. ASSUME NEW phase \in {"summary", "detail"}, NEW p \in Pages \cup {"none"}
      PROVE  Pausing(w, phase, p) \in Carrying(m)
  <2> DEFINE x == [At("pause", m) EXCEPT !.phase = phase]
  <2>1. x \in Carrying(m)
    BY <1>1, <1>2 DEF Carrying, Worker
  <2> HIDE DEF x
  <2>2. [x EXCEPT !.parsed = p] \in Carrying(m)
    BY <2>1 DEF Carrying, Worker
  <2>3. QED
    BY <2>2 DEF Pausing, x
<1>6. ASSUME NEW p \in Pages \cup {"none"}
      PROVE  Persisting(w, p) \in Carrying(m)
  BY <1>1, <1>2 DEF Persisting, Carrying, Worker
<1>7. QED
  BY <1>1, <1>4, <1>5, <1>6

\* No call takes effect while its caller sees an error, and none takes effect
\* twice.
NoLostCalls == FaultKinds \cap {"db_reply_lost", "redis_reply_lost", "redis_resent"} = {}

\* What every step of a worker that leaves Redis alone does: it changes the row
\* of its own job and goes on with its message or drops it.  Where no reply is
\* lost, a row that it takes out of work is one it lets go.
Moves(w, next, row) ==
  /\ next \in Carrying(MsgOf(w)) \cup {IdleWorker}
  /\ row \in Job
  /\ worker' = [worker EXCEPT ![w] = next]
  /\ jobs' = [jobs EXCEPT ![MsgOf(w).job] = row]
  /\ receipts' \in [ReceiptIds -> Receipt]
  /\ faults' \in Nat
  /\ UNCHANGED <<redis, request>>
  /\ NoLostCalls => \/ next = IdleWorker
                    \/ row = RowOf(w)
                    \/ row.status \in ActiveStatus

Moving(w) ==
  \E next \in Carrying(MsgOf(w)) \cup {IdleWorker}, row \in Job : Moves(w, next, row)

\* A call that succeeded or failed is charged in the type of faults.
LEMMA ChargeType ==
  ASSUME TypeOK, NEW reply, Charge(reply)
  PROVE  faults' \in Nat
  BY DEF TypeOK, Charge

\* A busy worker's row is a row.
LEMMA BusyRow ==
  ASSUME TypeInv, NEW w \in Workers, worker[w].pc # "idle"
  PROVE  /\ MsgOf(w) \in Message
         /\ MsgOf(w).job \in JobIds
         /\ RowOf(w) \in Job
         /\ worker[w] \in Carrying(MsgOf(w))
         /\ jobs = [jobs EXCEPT ![MsgOf(w).job] = RowOf(w)]
<1>1. MsgOf(w) \in Message /\ worker[w] \in Carrying(MsgOf(w))
  BY DEF TypeInv, Shape
<1>2. MsgOf(w).job \in JobIds
  BY <1>1 DEF Message
<1>3. QED
  BY <1>1, <1>2 DEF TypeInv, TypeOK, RowOf

\* A decision is a move that leaves the tables alone.
LEMMA DecideMoves ==
  ASSUME TypeInv, NEW w \in Workers, worker[w].pc # "idle",
         NEW next \in Carrying(MsgOf(w)) \cup {IdleWorker}, Decide(w, next)
  PROVE  Moves(w, next, RowOf(w))
  BY BusyRow DEF Decide, Moves, TypeInv, TypeOK

\* A statement on the job's row, with the decision that follows its reply.
LEMMA WriteMoves ==
  ASSUME TypeInv, NEW w \in Workers, worker[w].pc # "idle",
         NEW next \in Carrying(MsgOf(w)) \cup {IdleWorker}, NEW row \in Job,
         NEW reply \in WriteReply, Charge(reply), Write(MsgOf(w).job, row, reply),
         worker' = [worker EXCEPT ![w] = next],
         UNCHANGED <<receipts, redis, request>>,
         reply = "ok" => next = IdleWorker \/ row = RowOf(w) \/ row.status \in ActiveStatus
  PROVE  \E r \in Job : Moves(w, next, r)
<1>1. /\ faults' \in Nat
      /\ receipts' \in [ReceiptIds -> Receipt]
  BY ChargeType DEF TypeInv, TypeOK
<1>2. CASE reply = "db_error"
  <2>1. jobs' = [jobs EXCEPT ![MsgOf(w).job] = RowOf(w)] /\ RowOf(w) \in Job
    BY <1>2, BusyRow DEF Write
  <2>2. Moves(w, next, RowOf(w))
    BY <1>1, <2>1 DEF Moves
  <2>3. QED
    BY <2>1, <2>2
<1>3. CASE reply # "db_error"
  <2>1. jobs' = [jobs EXCEPT ![MsgOf(w).job] = row]
    BY <1>3 DEF Write
  <2>2. NoLostCalls => reply = "ok"
    BY <1>3 DEF NoLostCalls, WriteReply, DbFaults
  <2>3. Moves(w, next, row)
    BY <1>1, <2>1, <2>2 DEF Moves
  <2>4. QED
    BY <2>3
<1>4. QED
  BY <1>2, <1>3

\* The steps of a worker that leave Redis alone.
Local(w) ==
  \/ Begin(w) \/ Fetch(w) \/ LoadOwner(w) \/ Load(w)
  \/ ResumeBadCookies(w) \/ ResumeSummary(w) \/ ResumeDetail(w) \/ Pause(w)
  \/ CreateReceipt(w) \/ CreateItems(w) \/ Complete(w)
  \/ Requeue(w) \/ Fail(w) \/ Crash(w)

\* Every one of them is a move.
LEMMA LocalMoves ==
  ASSUME TypeInv, NEW w \in Workers, Local(w)
  PROVE  Moving(w)
<1> DEFINE m == MsgOf(w)
<1>1. worker[w].pc # "idle"
  BY DEF Local, Begin, Fetch, LoadOwner, Load, ResumeBadCookies, ResumeSummary, ResumeDetail,
         Pause, CreateReceipt, CreateItems, Complete, Requeue, Fail, Crash
<1>2. /\ m \in Message
      /\ m.job \in JobIds
      /\ RowOf(w) \in Job
      /\ worker[w] \in Carrying(m)
      /\ worker[w] \in Worker
      /\ jobs = [jobs EXCEPT ![m.job] = RowOf(w)]
  BY <1>1, BusyRow DEF Carrying
<1>3. /\ \A pc \in WorkerPc \ {"idle", "items", "complete"} : At(pc, m) \in Carrying(m)
      /\ \A e \in FailureReason : Failing(w, e) \in Carrying(m) /\ Failed(w, e) \in Carrying(m)
      /\ \A phase \in {"summary", "detail"}, p \in Pages \cup {"none"} :
           Pausing(w, phase, p) \in Carrying(m)
      /\ \A p \in Pages \cup {"none"} : Persisting(w, p) \in Carrying(m)
  BY <1>2, WorkerRecords
<1>4. /\ {"unknown", "parsing", "captcha", "captcha_expired", "navigation"} \subseteq FailureReason
      /\ FetchErrors \subseteq FailureReason
  BY FetchErrorAssumption DEF FailureReason
<1>5. /\ worker[w].reason \in FailureReason \cup {"none"}
      /\ worker[w].parsed \in Pages \cup {"none"}
      /\ worker[w].phase \in {"none", "summary", "detail"}
      /\ worker[w].seen.summary \in Pages \cup {"none"}
      /\ receipts \in [ReceiptIds -> Receipt]
  BY <1>2 DEF Worker, Job, TypeInv, TypeOK
<1>6. ASSUME NEW next \in Carrying(m) \cup {IdleWorker}, Decide(w, next) PROVE Moving(w)
  BY <1>1, <1>2, <1>6, DecideMoves DEF Moving
<1>7. ASSUME NEW next \in Carrying(m) \cup {IdleWorker}, NEW row \in Job,
             NEW reply \in WriteReply, Charge(reply), Write(m.job, row, reply),
             worker' = [worker EXCEPT ![w] = next],
             UNCHANGED <<receipts, redis, request>>,
             reply = "ok" => next = IdleWorker \/ row = RowOf(w) \/ row.status \in ActiveStatus
      PROVE  Moving(w)
  BY <1>1, <1>7, WriteMoves DEF Moving
<1>8. ASSUME NEW next \in Carrying(m) \cup {IdleWorker}, NEW reply, Charge(reply),
             worker' = [worker EXCEPT ![w] = next],
             receipts' \in [ReceiptIds -> Receipt],
             UNCHANGED <<jobs, redis, request>>
      PROVE  Moving(w)
  <2>1. Moves(w, next, RowOf(w))
    BY <1>2, <1>8, ChargeType DEF Moves, TypeInv
  <2>2. QED
    BY <2>1, <1>2, <1>8 DEF Moving
<1> HIDE DEF m
<1>9. CASE Begin(w)
  <2>1. PICK reply \in WriteReply :
          /\ Charge(reply)
          /\ Write(m.job, UpdateStatus(RowOf(w), "processing", "none", NULL), reply)
          /\ worker' = [worker EXCEPT ![w] =
                          IF reply = "ok" THEN At(IF m.resume THEN "load" ELSE "fetch", m)
                                          ELSE IdleWorker]
    BY <1>9 DEF Begin, m
  <2> DEFINE next == IF reply = "ok" THEN At(IF m.resume THEN "load" ELSE "fetch", m)
                                     ELSE IdleWorker
             row  == UpdateStatus(RowOf(w), "processing", "none", NULL)
  <2>2. At("load", m) \in Carrying(m) /\ At("fetch", m) \in Carrying(m)
    BY <1>3 DEF WorkerPc
  <2>3. next \in Carrying(m) \cup {IdleWorker}
    BY <2>2
  <2>4. row \in Job /\ row.status \in ActiveStatus
    BY <1>2, UpdateStatusType DEF JobStatus, ActiveStatus
  <2> HIDE DEF next, row
  <2>5. UNCHANGED <<receipts, redis, request>>
    BY <1>9 DEF Begin
  <2>6. worker' = [worker EXCEPT ![w] = next] /\ Write(m.job, row, reply)
    BY <2>1 DEF next, row
  <2>7. QED
    BY <2>1, <2>3, <2>4, <2>5, <2>6, <1>7
<1>10. CASE Fetch(w)
  <2>1. CASE \E e \in FetchErrors : Decide(w, Failed(w, e))
    BY <2>1, <1>3, <1>4, <1>6
  <2>2. CASE Decide(w, Pausing(w, "summary", "none"))
    BY <2>2, <1>3, <1>6
  <2>3. CASE Decide(w, Failing(w, "parsing"))
    BY <2>3, <1>3, <1>4, <1>6
  <2>4. CASE \E p \in Pages : Decide(w, Pausing(w, "detail", p))
    BY <2>4, <1>3, <1>6
  <2>5. ASSUME NEW p \in Pages, Decide(w, [At("load_owner", m) EXCEPT !.parsed = p])
        PROVE  Moving(w)
    <3>1. At("load_owner", m) \in Carrying(m)
      BY <1>3 DEF WorkerPc
    <3>2. [At("load_owner", m) EXCEPT !.parsed = p] \in Carrying(m)
      BY <3>1 DEF Carrying, Worker
    <3>3. QED
      BY <2>5, <3>2, <1>6
  <2>6. QED
    BY <1>10, <2>1, <2>2, <2>3, <2>4, <2>5 DEF Fetch, m
<1>11. CASE LoadOwner(w)
  <2>1. PICK reply \in ReadReply :
          /\ Charge(reply)
          /\ worker' = [worker EXCEPT ![w] = IF reply = "ok" THEN Persisting(w, worker[w].parsed)
                                                             ELSE Failing(w, "unknown")]
    BY <1>11 DEF LoadOwner
  <2>2. Persisting(w, worker[w].parsed) \in Carrying(m) /\ Failing(w, "unknown") \in Carrying(m)
    BY <1>3, <1>4, <1>5
  <2>3. UNCHANGED <<jobs, receipts, redis, request>>
    BY <1>11 DEF LoadOwner
  <2>4. QED
    BY <2>1, <2>2, <2>3, <1>5, <1>8
<1>12. CASE Load(w)
  <2> DEFINE loaded == [At("resume", m) EXCEPT !.seen = RowOf(w)]
  <2>1. PICK reply \in ReadReply :
          /\ Charge(reply)
          /\ worker' = [worker EXCEPT ![w] = IF reply = "ok" THEN loaded ELSE IdleWorker]
    BY <1>12 DEF Load, m
  <2>2. At("resume", m) \in Carrying(m)
    BY <1>3 DEF WorkerPc
  <2>3. loaded \in Carrying(m)
    BY <2>2, <1>2 DEF Carrying, Worker
  <2> HIDE DEF loaded
  <2>4. UNCHANGED <<jobs, receipts, redis, request>>
    BY <1>12 DEF Load
  <2>5. QED
    BY <2>1, <2>3, <2>4, <1>5, <1>8
<1>13. CASE ResumeBadCookies(w)
  BY <1>13, <1>3, <1>4, <1>6 DEF ResumeBadCookies
<1>14. \A phase \in {"summary", "detail"} : ChallengedAgain(w, phase) \in Carrying(m)
  BY <1>3, <1>4 DEF ChallengedAgain
<1>15. CASE ResumeSummary(w)
  <2>1. CASE \E e \in FetchErrors : Decide(w, Failed(w, e))
    BY <2>1, <1>3, <1>4, <1>6
  <2>2. CASE Decide(w, ChallengedAgain(w, "summary"))
    BY <2>2, <1>14, <1>6
  <2>3. CASE Decide(w, Failing(w, "parsing"))
    BY <2>3, <1>3, <1>4, <1>6
  <2>4. CASE \E p \in Pages : Decide(w, Pausing(w, "detail", p))
    BY <2>4, <1>3, <1>6
  <2>5. CASE \E p \in Pages : Decide(w, Persisting(w, p))
    BY <2>5, <1>3, <1>6
  <2>6. QED
    BY <1>15, <2>1, <2>2, <2>3, <2>4, <2>5 DEF ResumeSummary
<1>16. CASE ResumeDetail(w)
  <2>1. FromSummary(w) \in Carrying(m)
    BY <1>3, <1>4, <1>5 DEF FromSummary
  <2>2. CASE \E e \in FetchErrors : Decide(w, Failed(w, e))
    BY <2>2, <1>3, <1>4, <1>6
  <2>3. CASE Decide(w, ChallengedAgain(w, "detail"))
    BY <2>3, <1>14, <1>6
  <2>4. CASE Decide(w, FromSummary(w))
    BY <2>1, <2>4, <1>6
  <2>5. QED
    BY <1>16, <2>2, <2>3, <2>4 DEF ResumeDetail
<1>17. CASE Pause(w)
  <2> DEFINE row == Paused(RowOf(w), worker[w].phase, worker[w].parsed)
  <2>1. PICK reply \in WriteReply :
          /\ Charge(reply)
          /\ Write(m.job, row, reply)
          /\ worker' = [worker EXCEPT ![w] = IF reply = "ok" THEN IdleWorker
                                                             ELSE Failing(w, "captcha")]
    BY <1>17 DEF Pause, m
  <2>2. row \in Job
    BY <1>2, <1>5, PausedType
  <2> HIDE DEF row
  <2>3. Failing(w, "captcha") \in Carrying(m)
    BY <1>3, <1>4
  <2>4. UNCHANGED <<receipts, redis, request>>
    BY <1>17 DEF Pause
  <2>5. CASE reply = "ok"
    BY <2>1, <2>2, <2>4, <2>5, <1>7
  <2>6. CASE reply = "db_error"
    <3>1. Write(m.job, RowOf(w), reply)
      BY <2>1, <2>6 DEF Write
    <3>2. QED
      BY <2>1, <2>3, <2>4, <2>6, <3>1, <1>2, <1>7
  <2>7. CASE reply \notin {"ok", "db_error"}
    BY <2>1, <2>2, <2>3, <2>4, <2>7, <1>7
  <2>8. QED
    BY <2>5, <2>6, <2>7
<1>18. CASE CreateReceipt(w)
  <2>1. CASE Decide(w, Failing(w, "unknown"))
    BY <2>1, <1>3, <1>4, <1>6
  <2>2. ASSUME NEW reply \in WriteReply, NEW r \in FreshReceipt, Charge(reply),
               receipts' = IF reply = "db_error" THEN receipts
                           ELSE [receipts EXCEPT ![r] =
                                   [state |-> IF worker[w].parsed = "empty" THEN "whole"
                                                                            ELSE "header",
                                    house |-> RowOf(w).house, url |-> RowOf(w).url]],
               worker' = [worker EXCEPT ![w] =
                            IF reply # "ok" THEN Failing(w, "unknown")
                            ELSE [At(IF worker[w].parsed = "empty" THEN "complete" ELSE "items",
                                     m) EXCEPT !.receipt = r]],
               UNCHANGED <<jobs, redis, request>>
        PROVE  Moving(w)
    <3> DEFINE pc   == IF worker[w].parsed = "empty" THEN "complete" ELSE "items"
               next == [At(pc, m) EXCEPT !.receipt = r]
    <3>1. pc \in WorkerPc /\ pc # "idle" /\ r \in ReceiptIds
      BY DEF WorkerPc, FreshReceipt
    <3> HIDE DEF pc
    <3>2. next \in Carrying(m)
      BY <3>1, <1>2, OtherStatementTypes DEF At, Carrying, Worker
    <3>3. Failing(w, "unknown") \in Carrying(m)
      BY <1>3, <1>4
    <3>4. receipts' \in [ReceiptIds -> Receipt]
      BY <2>2, <1>2, <1>5 DEF Receipt, Job
    <3>5. worker' = [worker EXCEPT ![w] = IF reply # "ok" THEN Failing(w, "unknown") ELSE next]
      BY <2>2 DEF pc
    <3> HIDE DEF next
    <3>6. QED
      BY <2>2, <3>2, <3>3, <3>4, <3>5, <1>8
  <2>3. QED
    BY <1>18, <2>1, <2>2 DEF CreateReceipt, m
<1>19. CASE CreateItems(w)
  <2>1. CASE Decide(w, Failing(w, "unknown"))
    BY <2>1, <1>3, <1>4, <1>6
  <2>2. ASSUME NEW reply \in WriteReply, Charge(reply),
               receipts' = IF reply = "db_error" THEN receipts
                           ELSE [receipts EXCEPT ![worker[w].receipt].state = "whole"],
               worker' = [worker EXCEPT ![w] =
                            IF reply = "ok" THEN [worker[w] EXCEPT !.pc = "complete"]
                                            ELSE Failing(w, "unknown")],
               UNCHANGED <<jobs, redis, request>>
        PROVE  Moving(w)
    <3> DEFINE next == [worker[w] EXCEPT !.pc = "complete"]
    <3>1. worker[w].receipt \in ReceiptIds
      BY <1>19, <1>2 DEF CreateItems, Carrying
    <3>2. next \in Carrying(m)
      BY <3>1, <1>2 DEF Carrying, Worker, WorkerPc
    <3>3. Failing(w, "unknown") \in Carrying(m)
      BY <1>3, <1>4
    <3>4. receipts' \in [ReceiptIds -> Receipt]
      BY <2>2, <3>1, <1>5 DEF Receipt
    <3> HIDE DEF next
    <3>5. worker' = [worker EXCEPT ![w] = IF reply = "ok" THEN next ELSE Failing(w, "unknown")]
      BY <2>2 DEF next
    <3>6. QED
      BY <2>2, <3>2, <3>3, <3>4, <3>5, <1>8
  <2>3. QED
    BY <1>19, <2>1, <2>2 DEF CreateItems
<1>20. CASE Complete(w)
  <2>1. CASE Decide(w, Failing(w, "unknown"))
    BY <2>1, <1>3, <1>4, <1>6
  <2> DEFINE row == UpdateStatus(RowOf(w), "completed", "none", worker[w].receipt)
  <2>2. ASSUME NEW reply \in WriteReply, Charge(reply), Write(m.job, row, reply),
               worker' = [worker EXCEPT ![w] = IF reply = "ok" THEN IdleWorker
                                                               ELSE Failing(w, "unknown")],
               UNCHANGED <<receipts, redis, request>>
        PROVE  Moving(w)
    <3>1. worker[w].receipt \in ReceiptIds
      BY <1>20, <1>2 DEF Complete, Carrying
    <3>2. row \in Job
      BY <3>1, <1>2, UpdateStatusType DEF JobStatus, SettledStatus
    <3>3. Failing(w, "unknown") \in Carrying(m)
      BY <1>3, <1>4
    <3> HIDE DEF row
    <3>4. CASE reply = "ok"
      BY <2>2, <3>2, <3>4, <1>7
    <3>5. CASE reply = "db_error"
      <4>1. Write(m.job, RowOf(w), reply)
        BY <2>2, <3>5 DEF Write
      <4>2. QED
        BY <2>2, <3>3, <3>5, <4>1, <1>2, <1>7
    <3>6. CASE reply \notin {"ok", "db_error"}
      BY <2>2, <3>2, <3>3, <3>6, <1>7
    <3>7. QED
      BY <3>4, <3>5, <3>6
  <2>3. QED
    BY <1>20, <2>1, <2>2 DEF Complete, m
<1>21. CASE Requeue(w)
  <2> DEFINE row  == UpdateStatus(RowOf(w), "queued", "none", NULL)
             next == [worker[w] EXCEPT !.pc = "enqueue"]
  <2>1. PICK reply \in WriteReply : Charge(reply) /\ Write(m.job, row, reply)
    BY <1>21 DEF Requeue, m
  <2>2. row \in Job /\ row.status \in ActiveStatus
    BY <1>2, UpdateStatusType DEF JobStatus, ActiveStatus
  <2>3. next \in Carrying(m)
    BY <1>2 DEF Carrying, Worker, WorkerPc
  <2>4. worker' = [worker EXCEPT ![w] = next] /\ UNCHANGED <<receipts, redis, request>>
    BY <1>21 DEF Requeue
  <2> HIDE DEF row, next
  <2>5. QED
    BY <2>1, <2>2, <2>3, <2>4, <1>7
<1>22. CASE Fail(w)
  <2> DEFINE row == UpdateStatus(RowOf(w), "failed", worker[w].reason, NULL)
  <2>1. PICK reply \in WriteReply : Charge(reply) /\ Write(m.job, row, reply)
    BY <1>22 DEF Fail, m
  <2>2. row \in Job
    BY <1>2, <1>5, UpdateStatusType DEF JobStatus, SettledStatus
  <2>3. worker' = [worker EXCEPT ![w] = IdleWorker] /\ UNCHANGED <<receipts, redis, request>>
    BY <1>22 DEF Fail
  <2> HIDE DEF row
  <2>4. QED
    BY <2>1, <2>2, <2>3, <1>7
<1>23. CASE Crash(w)
  <2>1. /\ worker' = [worker EXCEPT ![w] = IdleWorker]
        /\ faults' \in Nat
        /\ UNCHANGED <<jobs, receipts, redis, request>>
    BY <1>23 DEF Crash, TypeInv, TypeOK
  <2>2. Moves(w, IdleWorker, RowOf(w))
    BY <2>1, <1>2, <1>5 DEF Moves, m
  <2>3. QED
    BY <2>2, <1>2 DEF Moving, m
<1>24. QED
  BY <1>9, <1>10, <1>11, <1>12, <1>13, <1>15, <1>16, <1>17, <1>18, <1>19, <1>20, <1>21,
     <1>22, <1>23 DEF Local

\* A push leaves a list of messages.
LEMMA PushedType ==
  ASSUME NEW q \in Seq(Message), NEW m \in Message, NEW reply
  PROVE  Pushed(q, m, reply) \in Seq(Message)
<1>1. Append(q, m) \in Seq(Message) /\ Append(Append(q, m), m) \in Seq(Message)
  OBVIOUS
<1>2. QED
  BY <1>1 DEF Pushed

\* What a pop hands to a worker.
Received(m, reply) == IF reply = "ok" THEN At("begin", m) ELSE IdleWorker

LEMMA ReceivedType ==
  ASSUME NEW m \in Message, NEW reply
  PROVE  Received(m, reply) \in Carrying(m) \cup {IdleWorker}
  BY OtherStatementTypes DEF Received, At, Carrying, Worker, WorkerPc

\* A worker that is idle, or carries a message, is well-typed and well-shaped.
LEMMA WorkerTurns ==
  ASSUME TypeInv, NEW w \in Workers, NEW m \in Message,
         NEW next \in Carrying(m) \cup {IdleWorker}, worker' = [worker EXCEPT ![w] = next]
  PROVE  /\ worker' \in [Workers -> Worker]
         /\ \A v \in Workers : worker'[v].pc # "idle" =>
              /\ worker'[v].msg \in Message
              /\ worker'[v] \in Carrying(worker'[v].msg)
<1>1. IdleWorker \in Worker /\ IdleWorker.pc = "idle"
  BY OtherStatementTypes DEF IdleWorker, At, Worker, WorkerPc, NoMessage
<1>2. /\ worker \in [Workers -> Worker]
      /\ \A v \in Workers : worker[v].pc # "idle" =>
           worker[v].msg \in Message /\ worker[v] \in Carrying(worker[v].msg)
  BY DEF TypeInv, TypeOK, Shape, MsgOf
<1>3. next \in Worker /\ (next.pc # "idle" => next.msg = m /\ next \in Carrying(m))
  BY <1>1 DEF Carrying
<1>4. QED
  BY <1>2, <1>3

\* A request that turns to a well-shaped state.
RequestShape(x) ==
  /\ x \in Request
  /\ x.pc \in {"check_active", "create"} => x.url \in Urls
  /\ x.pc \in {"publish", "mark_failed", "resume", "publish_resume"} => x.job \in JobIds

LEMMA IdleRequestShape == RequestShape(IdleRequest) /\ IdleRequest.pc = "idle"
  BY DEF RequestShape, IdleRequest, Request, RequestPc

\* Type correctness of each step.
LEMMA StepType ==
  ASSUME TypeInv, Next
  PROVE  TypeInv'
<1> USE DEF MsgOf
<1>1. /\ jobs \in [JobIds -> Job]
      /\ receipts \in [ReceiptIds -> Receipt]
      /\ jobQueue \in Seq(Message)
      /\ resumeQueue \in Seq(Message)
      /\ worker \in [Workers -> Worker]
      /\ request \in [Requests -> Request]
      /\ faults \in Nat
      /\ \A w \in Workers : worker[w].pc # "idle" =>
           worker[w].msg \in Message /\ worker[w] \in Carrying(worker[w].msg)
      /\ \A c \in Requests : RequestShape(request[c])
  BY DEF TypeInv, TypeOK, Shape, RequestShape
<1>2. ASSUME jobs' \in [JobIds -> Job],
             receipts' \in [ReceiptIds -> Receipt],
             jobQueue' \in Seq(Message),
             resumeQueue' \in Seq(Message),
             worker' \in [Workers -> Worker],
             faults' \in Nat,
             \A w \in Workers : worker'[w].pc # "idle" =>
               worker'[w].msg \in Message /\ worker'[w] \in Carrying(worker'[w].msg),
             request' \in [Requests -> Request],
             \A c \in Requests : RequestShape(request'[c])
      PROVE  TypeInv'
  BY <1>2 DEF TypeInv, TypeOK, Shape, RequestShape, Carrying
<1>3. ASSUME NEW c \in Requests, NEW x, RequestShape(x), request' = [request EXCEPT ![c] = x]
      PROVE  request' \in [Requests -> Request] /\ \A d \in Requests : RequestShape(request'[d])
  BY <1>1, <1>3 DEF RequestShape
<1>4. ASSUME NEW j \in JobIds, NEW row \in Job, NEW reply, Write(j, row, reply)
      PROVE  jobs' \in [JobIds -> Job]
  BY <1>1, <1>4 DEF Write
<1>5. ASSUME NEW w \in Workers, Dequeue(w) PROVE TypeInv'
  <2>1. PICK reply \in PopReply :
          /\ Charge(reply)
          /\ \/ /\ resumeQueue # <<>>
                /\ resumeQueue' = Tail(resumeQueue)
                /\ worker' = [worker EXCEPT ![w] = Received(Head(resumeQueue), reply)]
                /\ UNCHANGED jobQueue
             \/ /\ resumeQueue = <<>>
                /\ jobQueue # <<>>
                /\ jobQueue' = Tail(jobQueue)
                /\ worker' = [worker EXCEPT ![w] = Received(Head(jobQueue), reply)]
                /\ UNCHANGED resumeQueue
    BY <1>5 DEF Dequeue, Received
  <2>2. UNCHANGED <<jobs, receipts, request>>
    BY <1>5 DEF Dequeue
  <2>3. faults' \in Nat
    BY <2>1, ChargeType DEF TypeInv
  <2>4. CASE resumeQueue # <<>>
    <3>1. Head(resumeQueue) \in Message /\ resumeQueue' \in Seq(Message)
      BY <1>1, <2>1, <2>4, PopRemovesOneJob
    <3>2. worker' = [worker EXCEPT ![w] = Received(Head(resumeQueue), reply)] /\ UNCHANGED jobQueue
      BY <2>1, <2>4
    <3>3. /\ worker' \in [Workers -> Worker]
          /\ \A v \in Workers : worker'[v].pc # "idle" =>
               worker'[v].msg \in Message /\ worker'[v] \in Carrying(worker'[v].msg)
      BY <3>1, <3>2, ReceivedType, WorkerTurns
    <3>4. QED
      BY <1>1, <1>2, <2>2, <2>3, <3>1, <3>2, <3>3
  <2>5. CASE resumeQueue = <<>>
    <3>1. Head(jobQueue) \in Message /\ jobQueue' \in Seq(Message)
      BY <1>1, <2>1, <2>5, PopRemovesOneJob
    <3>2. worker' = [worker EXCEPT ![w] = Received(Head(jobQueue), reply)] /\ UNCHANGED resumeQueue
      BY <2>1, <2>5
    <3>3. /\ worker' \in [Workers -> Worker]
          /\ \A v \in Workers : worker'[v].pc # "idle" =>
               worker'[v].msg \in Message /\ worker'[v] \in Carrying(worker'[v].msg)
      BY <3>1, <3>2, ReceivedType, WorkerTurns
    <3>4. QED
      BY <1>1, <1>2, <2>2, <2>3, <3>1, <3>2, <3>3
  <2>6. QED
    BY <2>4, <2>5
<1>6. ASSUME NEW w \in Workers, Local(w) PROVE TypeInv'
  <2>1. worker[w].pc # "idle"
    BY <1>6 DEF Local, Begin, Fetch, LoadOwner, Load, ResumeBadCookies, ResumeSummary,
           ResumeDetail, Pause, CreateReceipt, CreateItems, Complete, Requeue, Fail, Crash
  <2>2. PICK next \in Carrying(worker[w].msg) \cup {IdleWorker}, row \in Job : Moves(w, next, row)
    BY <1>6, LocalMoves DEF Moving
  <2>3. worker[w].msg \in Message /\ worker[w].msg.job \in JobIds
    BY <2>1, BusyRow
  <2>4. /\ jobs' \in [JobIds -> Job]
        /\ receipts' \in [ReceiptIds -> Receipt]
        /\ faults' \in Nat
        /\ UNCHANGED <<jobQueue, resumeQueue, request>>
    BY <1>1, <2>2, <2>3 DEF Moves, redis
  <2>5. /\ worker' \in [Workers -> Worker]
        /\ \A v \in Workers : worker'[v].pc # "idle" =>
             worker'[v].msg \in Message /\ worker'[v] \in Carrying(worker'[v].msg)
    BY <2>2, <2>3, WorkerTurns DEF Moves
  <2>6. QED
    BY <1>1, <1>2, <2>4, <2>5
<1>7. ASSUME NEW w \in Workers, Enqueue(w) PROVE TypeInv'
  <2> DEFINE retry == [job |-> worker[w].msg.job, attempt |-> worker[w].msg.attempt + 1,
                       resume |-> FALSE]
             next(reply) == IF Succeeds(reply) THEN IdleWorker ELSE Failing(w, worker[w].reason)
  <2>1. worker[w].msg \in Message /\ retry \in Message
    BY <1>7, <1>1 DEF Enqueue, Message
  <2> HIDE DEF retry
  <2>2. PICK reply \in PushReply :
          /\ Charge(reply)
          /\ jobQueue' = Pushed(jobQueue, retry, reply)
          /\ worker' = [worker EXCEPT ![w] = next(reply)]
    BY <1>7 DEF Enqueue, retry
  <2>3. next(reply) \in Carrying(worker[w].msg) \cup {IdleWorker}
    <3>1. /\ At("fail", worker[w].msg) \in Carrying(worker[w].msg)
          /\ worker[w].reason \in FailureReason \cup {"none"}
      BY <1>1, <2>1, WorkerRecords DEF WorkerPc, Worker
    <3>2. Failing(w, worker[w].reason) \in Carrying(worker[w].msg)
      BY <3>1 DEF Failing, Carrying, Worker
    <3>3. QED
      BY <3>2
  <2> HIDE DEF next
  <2>4. /\ worker' \in [Workers -> Worker]
        /\ \A v \in Workers : worker'[v].pc # "idle" =>
             worker'[v].msg \in Message /\ worker'[v] \in Carrying(worker'[v].msg)
    BY <2>1, <2>2, <2>3, WorkerTurns
  <2>5. jobQueue' \in Seq(Message) /\ faults' \in Nat
    BY <1>1, <2>1, <2>2, PushedType, ChargeType DEF TypeInv
  <2>6. UNCHANGED <<jobs, receipts, resumeQueue, request>>
    BY <1>7 DEF Enqueue
  <2>7. QED
    BY <1>1, <1>2, <2>4, <2>5, <2>6
<1>8. ASSUME NEW c \in Requests, NEW u \in Urls, SubmitCheckReceipt(c, u) PROVE TypeInv'
  <2> DEFINE x == [IdleRequest EXCEPT !.pc = "check_active", !.url = u]
  <2>1. RequestShape(x)
    BY DEF RequestShape, IdleRequest, Request, RequestPc
  <2>2. /\ request' = [request EXCEPT ![c] = x]
        /\ faults' \in Nat
        /\ UNCHANGED <<jobs, receipts, jobQueue, resumeQueue, worker>>
    BY <1>8, ChargeType DEF SubmitCheckReceipt, TypeInv, redis
  <2> HIDE DEF x
  <2>3. QED
    BY <1>1, <1>2, <1>3, <2>1, <2>2
<1>9. ASSUME NEW c \in Requests, SubmitCheckActive(c) PROVE TypeInv'
  <2> DEFINE x == [request[c] EXCEPT !.pc = "create"]
  <2>1. RequestShape(x)
    BY <1>9, <1>1 DEF SubmitCheckActive, RequestShape, Request, RequestPc
  <2>2. /\ request' = [request EXCEPT ![c] = x] \/ request' = [request EXCEPT ![c] = IdleRequest]
        /\ faults' \in Nat
        /\ UNCHANGED <<jobs, receipts, jobQueue, resumeQueue, worker>>
    BY <1>9, ChargeType DEF SubmitCheckActive, TypeInv, redis
  <2> HIDE DEF x
  <2>3. QED
    BY <1>1, <1>2, <1>3, <2>1, <2>2, IdleRequestShape
<1>10. ASSUME NEW c \in Requests, SubmitCreate(c) PROVE TypeInv'
  <2>1. PICK reply \in WriteReply, j \in JobIds :
          /\ Charge(reply)
          /\ Write(j, Created(HouseOf[c], request[c].url), reply)
          /\ request' = [request EXCEPT ![c] =
                           IF reply = "ok" THEN [IdleRequest EXCEPT !.pc = "publish", !.job = j]
                                           ELSE IdleRequest]
    BY <1>10 DEF SubmitCreate
  <2> DEFINE x == [IdleRequest EXCEPT !.pc = "publish", !.job = j]
  <2>2. RequestShape(x)
    BY DEF RequestShape, IdleRequest, Request, RequestPc
  <2>3. Created(HouseOf[c], request[c].url) \in Job
    BY <1>10, <1>1, HouseAssumption, OtherStatementTypes DEF SubmitCreate, RequestShape
  <2>4. jobs' \in [JobIds -> Job] /\ faults' \in Nat
    BY <1>4, <2>1, <2>3, ChargeType DEF TypeInv
  <2>5. /\ request' = [request EXCEPT ![c] = x] \/ request' = [request EXCEPT ![c] = IdleRequest]
        /\ UNCHANGED <<receipts, jobQueue, resumeQueue, worker>>
    BY <1>10, <2>1 DEF SubmitCreate, redis
  <2> HIDE DEF x
  <2>6. QED
    BY <1>1, <1>2, <1>3, <2>2, <2>4, <2>5, IdleRequestShape
<1>11. ASSUME NEW c \in Requests, SubmitPublish(c) PROVE TypeInv'
  <2> DEFINE x     == [request[c] EXCEPT !.pc = "mark_failed"]
             fresh == [job |-> request[c].job, attempt |-> 0, resume |-> FALSE]
  <2>1. RequestShape(x) /\ fresh \in Message
    BY <1>11, <1>1 DEF SubmitPublish, RequestShape, Request, RequestPc, Message
  <2>2. PICK reply \in PushReply : Charge(reply) /\ jobQueue' = Pushed(jobQueue, fresh, reply)
    BY <1>11 DEF SubmitPublish
  <2>3. jobQueue' \in Seq(Message) /\ faults' \in Nat
    BY <1>1, <2>1, <2>2, PushedType, ChargeType DEF TypeInv
  <2>4. /\ request' = [request EXCEPT ![c] = x] \/ request' = [request EXCEPT ![c] = IdleRequest]
        /\ UNCHANGED <<jobs, receipts, resumeQueue, worker>>
    BY <1>11 DEF SubmitPublish
  <2> HIDE DEF x, fresh
  <2>5. QED
    BY <1>1, <1>2, <1>3, <2>1, <2>3, <2>4, IdleRequestShape
<1>12. ASSUME NEW c \in Requests, SubmitMarkFailed(c) PROVE TypeInv'
  <2> DEFINE row == UpdateStatus(jobs[request[c].job], "failed", "unknown", NULL)
  <2>1. PICK reply \in WriteReply : Charge(reply) /\ Write(request[c].job, row, reply)
    BY <1>12 DEF SubmitMarkFailed
  <2>2. request[c].job \in JobIds /\ jobs[request[c].job] \in Job
    BY <1>12, <1>1 DEF SubmitMarkFailed, RequestShape
  <2>3. row \in Job
    BY <2>2, UpdateStatusType DEF JobStatus, SettledStatus, FailureReason
  <2> HIDE DEF row
  <2>4. jobs' \in [JobIds -> Job] /\ faults' \in Nat
    BY <1>4, <2>1, <2>2, <2>3, ChargeType DEF TypeInv
  <2>5. /\ request' = [request EXCEPT ![c] = IdleRequest]
        /\ UNCHANGED <<receipts, jobQueue, resumeQueue, worker>>
    BY <1>12 DEF SubmitMarkFailed, redis
  <2>6. QED
    BY <1>1, <1>2, <1>3, <2>4, <2>5, IdleRequestShape
<1>13. ASSUME NEW c \in Requests, NEW j \in JobIds, ResumeRead(c, j) PROVE TypeInv'
  <2> DEFINE x == [IdleRequest EXCEPT !.pc = "resume", !.job = j, !.attempts = jobs[j].attempts]
  <2>1. RequestShape(x)
    BY <1>1 DEF RequestShape, IdleRequest, Request, RequestPc, Job
  <2>2. /\ request' = [request EXCEPT ![c] = x]
        /\ UNCHANGED <<jobs, receipts, jobQueue, resumeQueue, worker, faults>>
    BY <1>13 DEF ResumeRead, redis
  <2> HIDE DEF x
  <2>3. QED
    BY <1>1, <1>2, <1>3, <2>1, <2>2
<1>14. ASSUME NEW c \in Requests, ResumeUpdate(c) PROVE TypeInv'
  <2> DEFINE x == [request[c] EXCEPT !.pc = "publish_resume"]
  <2>1. /\ RequestShape(x)
        /\ request[c].job \in JobIds
        /\ jobs[request[c].job] \in Job
    BY <1>14, <1>1 DEF ResumeUpdate, RequestShape, Request, RequestPc
  <2>2. /\ request' = [request EXCEPT ![c] = x] \/ request' = [request EXCEPT ![c] = IdleRequest]
        /\ UNCHANGED <<receipts, jobQueue, resumeQueue, worker>>
    BY <1>14 DEF ResumeUpdate, redis
  <2> HIDE DEF x
  <2>3. CASE UNCHANGED <<jobs, faults>>
    BY <1>1, <1>2, <1>3, <2>1, <2>2, <2>3, IdleRequestShape
  <2>4. ASSUME NEW reply \in WriteReply, NEW body \in Bodies, Charge(reply),
               Write(request[c].job, Resumed(jobs[request[c].job], body), reply)
        PROVE  TypeInv'
    <3>1. Resumed(jobs[request[c].job], body) \in Job
      BY <2>1, BodyAssumption, ResumedType
    <3>2. jobs' \in [JobIds -> Job] /\ faults' \in Nat
      BY <1>4, <2>1, <2>4, <3>1, ChargeType DEF TypeInv
    <3>3. QED
      BY <1>1, <1>2, <1>3, <2>1, <2>2, <3>2, IdleRequestShape
  <2>5. QED
    BY <1>14, <2>3, <2>4 DEF ResumeUpdate
<1>15. ASSUME NEW c \in Requests, ResumePublish(c) PROVE TypeInv'
  <2> DEFINE resume == [job |-> request[c].job, attempt |-> request[c].attempts, resume |-> TRUE]
  <2>1. resume \in Message
    BY <1>15, <1>1 DEF ResumePublish, RequestShape, Request, Message
  <2>2. PICK reply \in PushReply : Charge(reply) /\ resumeQueue' = Pushed(resumeQueue, resume, reply)
    BY <1>15 DEF ResumePublish
  <2>3. resumeQueue' \in Seq(Message) /\ faults' \in Nat
    BY <1>1, <2>1, <2>2, PushedType, ChargeType DEF TypeInv
  <2>4. /\ request' = [request EXCEPT ![c] = IdleRequest]
        /\ UNCHANGED <<jobs, receipts, jobQueue, worker>>
    BY <1>15 DEF ResumePublish
  <2> HIDE DEF resume
  <2>5. QED
    BY <1>1, <1>2, <1>3, <2>3, <2>4, IdleRequestShape
<1>16. ASSUME NEW c \in Requests, NEW r \in ReceiptIds, DeleteReceipt(c, r) PROVE TypeInv'
  <2>1. /\ receipts' = [receipts EXCEPT ![r] = NoReceipt]
        /\ jobs' = [j \in JobIds |-> Unlinked(jobs[j], r)]
        /\ UNCHANGED <<jobQueue, resumeQueue, worker, request, faults>>
    BY <1>16 DEF DeleteReceipt, redis
  <2>2. NoReceipt \in Receipt
    BY DEF NoReceipt, Receipt
  <2>3. receipts' \in [ReceiptIds -> Receipt] /\ jobs' \in [JobIds -> Job]
    BY <1>1, <2>1, <2>2, OtherStatementTypes
  <2>4. QED
    BY <1>1, <1>2, <2>1, <2>3
<1>17. ASSUME NEW c \in Requests, Disconnect(c) PROVE TypeInv'
  <2>1. /\ request' = [request EXCEPT ![c] = IdleRequest]
        /\ faults' \in Nat
        /\ UNCHANGED <<jobs, receipts, jobQueue, resumeQueue, worker>>
    BY <1>17, <1>1 DEF Disconnect, redis
  <2>2. QED
    BY <1>1, <1>2, <1>3, <2>1, IdleRequestShape
<1>18. ASSUME NEW S \in SUBSET JobIds, Expire(S) PROVE TypeInv'
  <2>1. /\ jobs' = [j \in JobIds |-> IF j \in S THEN Expired(jobs[j]) ELSE jobs[j]]
        /\ UNCHANGED <<receipts, jobQueue, resumeQueue, worker, request, faults>>
    BY <1>18 DEF Expire, redis
  <2>2. jobs' \in [JobIds -> Job]
    BY <1>1, <2>1, OtherStatementTypes
  <2>3. QED
    BY <1>1, <1>2, <2>1, <2>2
<1>19. QED
  BY <1>5, <1>6, <1>7, <1>8, <1>9, <1>10, <1>11, <1>12, <1>13, <1>14, <1>15, <1>16, <1>17,
     <1>18 DEF Next, WorkerStep, RequestStep, Local

\* The initial state is type-correct.
LEMMA InitType ==
  ASSUME Init PROVE TypeInv
<1>1. IdleWorker \in Worker /\ IdleWorker.pc = "idle"
  BY OtherStatementTypes DEF IdleWorker, At, Worker, WorkerPc, NoMessage
<1>2. NoReceipt \in Receipt
  BY DEF NoReceipt, Receipt
<1>3. IdleRequest \in Request /\ IdleRequest.pc = "idle"
  BY DEF IdleRequest, Request, RequestPc
<1>4. QED
  BY <1>1, <1>2, <1>3, OtherStatementTypes DEF Init, TypeInv, TypeOK, Shape

\* Stuttering changes nothing.
LEMMA StutterType ==
  ASSUME TypeInv, UNCHANGED vars PROVE TypeInv'
  BY DEF vars, TypeInv, TypeOK, Shape, MsgOf, Carrying

\* Whatever calls fail or lose their reply, tables, lists, workers and requests
\* hold values of their types.
THEOREM TypeCorrect == Spec => []TypeOK
<1>1. Init => TypeInv
  BY InitType
<1>2. TypeInv /\ [Next]_vars => TypeInv'
  BY StepType, StutterType
<1>3. TypeInv => TypeOK
  BY DEF TypeInv
<1>4. QED
  BY <1>1, <1>2, <1>3, PTL DEF Spec

-----------------------------------------------------------------------------
(***************************************************************************)
(* 3. Custody                                                              *)
(*                                                                         *)
(* OneHolder alone is not inductive: a pop must find the popped job        *)
(* nowhere else, a resume must find a paused job with nobody.  CInv says   *)
(* that messages, busy workers and publishing requests hold pairwise       *)
(* different jobs and that a job somebody holds is queued or processing;   *)
(* a job a request creates or resumes is neither, so nobody holds it.      *)
(***************************************************************************)
Queued     == JobsIn(jobQueue) \cup JobsIn(resumeQueue)
Busy(w)    == worker[w].pc # "idle"
Holding(c) == request[c].pc \in {"publish", "mark_failed", "publish_resume"}
Active(j)  == jobs[j].status \in ActiveStatus

HeldApart ==
  /\ OneMessagePerJob(jobQueue)
  /\ OneMessagePerJob(resumeQueue)
  /\ JobsIn(jobQueue) \cap JobsIn(resumeQueue) = {}
  /\ \A w \in Workers : Busy(w) => MsgOf(w).job \notin Queued
  /\ \A c \in Requests : Holding(c) => request[c].job \notin Queued
  /\ \A v, w \in Workers : Busy(v) /\ Busy(w) /\ MsgOf(v).job = MsgOf(w).job => v = w
  /\ \A c, d \in Requests : Holding(c) /\ Holding(d) /\ request[c].job = request[d].job => c = d
  /\ \A w \in Workers, c \in Requests : Busy(w) /\ Holding(c) => MsgOf(w).job # request[c].job

HeldActive ==
  /\ \A j \in Queued : Active(j)
  /\ \A w \in Workers : Busy(w) => Active(MsgOf(w).job)
  /\ \A c \in Requests : Holding(c) => Active(request[c].job)

CInv == HeldApart /\ HeldActive

\* No step changes the verdict of a settled job.
VerdictsKept ==
  \A j \in JobIds :
    jobs[j].status \in SettledStatus =>
      jobs'[j].status = jobs[j].status /\ jobs'[j].reason = jobs[j].reason

\* Lists hold ids of jobs.
LEMMA QueuedIds ==
  ASSUME TypeOK PROVE Queued \subseteq JobIds
<1>1. ASSUME NEW q \in Seq(Message) PROVE JobsIn(q) \subseteq JobIds
  <2>1. \A i \in DOMAIN q : q[i] \in Message
    OBVIOUS
  <2>2. QED
    BY <2>1 DEF JobsIn, Message
<1>2. QED
  BY <1>1 DEF TypeOK, Queued

\* What busy workers and holding requests hold are ids of jobs.
LEMMA HolderIds ==
  ASSUME TypeInv
  PROVE  /\ jobs \in [JobIds -> Job]
         /\ worker \in [Workers -> Worker]
         /\ request \in [Requests -> Request]
         /\ \A w \in Workers : Busy(w) => MsgOf(w).job \in JobIds
         /\ \A c \in Requests : Holding(c) => request[c].job \in JobIds
         /\ Queued \subseteq JobIds
  BY QueuedIds DEF TypeInv, TypeOK, Shape, Busy, Holding, Message, MsgOf

\* A worker's move that leaves Redis alone.
LEMMA LocalCustody ==
  ASSUME NoLostCalls, TypeInv, CInv, NEW w \in Workers, Local(w)
  PROVE  CInv' /\ VerdictsKept
<1>1. Busy(w)
  BY DEF Busy, Local, Begin, Fetch, LoadOwner, Load, ResumeBadCookies, ResumeSummary,
         ResumeDetail, Pause, CreateReceipt, CreateItems, Complete, Requeue, Fail, Crash
<1>2. PICK next \in Carrying(MsgOf(w)) \cup {IdleWorker}, row \in Job : Moves(w, next, row)
  BY LocalMoves DEF Moving
<1>3. /\ worker' = [worker EXCEPT ![w] = next]
      /\ jobs' = [jobs EXCEPT ![MsgOf(w).job] = row]
      /\ UNCHANGED <<jobQueue, resumeQueue, request>>
      /\ next = IdleWorker \/ row = RowOf(w) \/ row.status \in ActiveStatus
  BY <1>2 DEF Moves, redis
<1>4. next.pc = "idle" \/ next.msg = MsgOf(w)
  BY DEF Carrying, IdleWorker, At
<1>5. IdleWorker.pc = "idle"
  BY DEF IdleWorker, At
<1>6. \A v \in Workers : Busy(v)' => Busy(v) /\ MsgOf(v)' = MsgOf(v)
  BY <1>1, <1>3, <1>4, HolderIds DEF Busy, MsgOf
<1>7. \A c \in Requests : Holding(c)' <=> Holding(c)
  BY <1>3 DEF Holding
<1>8. Queued' = Queued
  BY <1>3 DEF Queued, JobsIn
<1>9. HeldApart'
  BY <1>3, <1>6, <1>7, <1>8 DEF CInv, HeldApart, OneMessagePerJob, JobsIn
<1>10. \A j \in JobIds : j # MsgOf(w).job => jobs'[j] = jobs[j]
  BY <1>3, HolderIds
<1>11. Busy(w)' => Active(MsgOf(w).job)'
  <2>1. Busy(w)' => next # IdleWorker /\ MsgOf(w)' = MsgOf(w)
    BY <1>3, <1>5, <1>6, HolderIds DEF Busy
  <2>2. jobs'[MsgOf(w).job] = row
    BY <1>1, <1>3, HolderIds
  <2>3. RowOf(w).status \in ActiveStatus
    BY <1>1 DEF CInv, HeldActive, Active, RowOf
  <2>4. QED
    BY <1>3, <2>1, <2>2, <2>3 DEF Active
<1>12. HeldActive'
  <2>1. \A j \in Queued' : Active(j)'
    BY <1>1, <1>8, <1>10, HolderIds DEF CInv, HeldApart, HeldActive, Active
  <2>2. \A v \in Workers : Busy(v)' => Active(MsgOf(v).job)'
    BY <1>1, <1>6, <1>10, <1>11, HolderIds DEF CInv, HeldApart, HeldActive, Active
  <2>3. \A c \in Requests : Holding(c)' => Active(request[c].job)'
    BY <1>1, <1>3, <1>7, <1>10, HolderIds DEF CInv, HeldApart, HeldActive, Active
  <2>4. QED
    BY <2>1, <2>2, <2>3 DEF HeldActive
<1>13. VerdictsKept
  BY <1>1, <1>10 DEF VerdictsKept, CInv, HeldActive, Active, ActiveStatus, SettledStatus
<1>14. QED
  BY <1>9, <1>12, <1>13 DEF CInv

\* Where no reply is lost, a push adds its message once or fails.
LEMMA PushedOnce ==
  ASSUME NoLostCalls, NEW reply \in PushReply, NEW q, NEW m
  PROVE  \/ Succeeds(reply) /\ Pushed(q, m, reply) = Append(q, m)
         \/ ~Succeeds(reply) /\ Pushed(q, m, reply) = q
  BY DEF NoLostCalls, PushReply, RedisFaults, Succeeds, Pushed

\* A worker pops a message.
LEMMA DequeueCustody ==
  ASSUME NoLostCalls, TypeInv, CInv, NEW w \in Workers, Dequeue(w)
  PROVE  CInv' /\ VerdictsKept
<1>1. ~Busy(w) /\ UNCHANGED <<jobs, request>>
  BY DEF Dequeue, Busy
<1> SUFFICES CInv'
  BY <1>1 DEF VerdictsKept
<1>2. \A j : Active(j)' <=> Active(j)
  BY <1>1 DEF Active
<1>3. \A c \in Requests : Holding(c)' <=> Holding(c)
  BY <1>1 DEF Holding
<1>4. ASSUME NEW m \in Message, worker' = [worker EXCEPT ![w] = At("begin", m)],
             Queued = Queued' \cup {m.job}, m.job \notin Queued',
             OneMessagePerJob(jobQueue)', OneMessagePerJob(resumeQueue)',
             (JobsIn(jobQueue) \cap JobsIn(resumeQueue))' = {}
      PROVE  CInv'
  <2>1. Busy(w)' /\ MsgOf(w)' = m
    BY <1>4, HolderIds DEF Busy, MsgOf, At
  <2>2. \A v \in Workers : v # w => (Busy(v)' <=> Busy(v)) /\ MsgOf(v)' = MsgOf(v)
    BY <1>4, HolderIds DEF Busy, MsgOf
  <2>3. HeldApart'
    BY <1>1, <1>3, <1>4, <2>1, <2>2 DEF CInv, HeldApart
  <2>4. HeldActive'
    BY <1>1, <1>2, <1>3, <1>4, <2>1, <2>2 DEF CInv, HeldActive
  <2>5. QED
    BY <2>3, <2>4 DEF CInv
<1>5. PopReply = {"ok"}
  BY DEF NoLostCalls, PopReply
<1>6. jobQueue \in Seq(Message) /\ resumeQueue \in Seq(Message)
  BY DEF TypeInv, TypeOK
<1>7. CASE /\ resumeQueue # <<>>
           /\ resumeQueue' = Tail(resumeQueue)
           /\ worker' = [worker EXCEPT ![w] = At("begin", Head(resumeQueue))]
           /\ UNCHANGED jobQueue
  <2>1. /\ Head(resumeQueue) \in Message
        /\ JobsIn(resumeQueue) = JobsIn(resumeQueue') \cup {Head(resumeQueue).job}
        /\ OneMessagePerJob(resumeQueue')
        /\ Head(resumeQueue).job \notin JobsIn(resumeQueue')
    BY <1>6, <1>7, PopRemovesOneJob, PopKeepsOneMessagePerJob DEF CInv, HeldApart
  <2>2. OneMessagePerJob(jobQueue)' /\ JobsIn(jobQueue)' = JobsIn(jobQueue)
    BY <1>7 DEF CInv, HeldApart, OneMessagePerJob, JobsIn
  <2>3. OneMessagePerJob(resumeQueue)' /\ JobsIn(resumeQueue)' = JobsIn(resumeQueue')
    BY <2>1 DEF OneMessagePerJob, JobsIn
  <2>4. /\ Queued = Queued' \cup {Head(resumeQueue).job}
        /\ Head(resumeQueue).job \notin Queued'
        /\ (JobsIn(jobQueue) \cap JobsIn(resumeQueue))' = {}
    BY <2>1, <2>2, <2>3 DEF Queued, CInv, HeldApart
  <2>5. QED
    BY <1>4, <1>7, <2>1, <2>2, <2>3, <2>4
<1>8. CASE /\ jobQueue # <<>>
           /\ jobQueue' = Tail(jobQueue)
           /\ worker' = [worker EXCEPT ![w] = At("begin", Head(jobQueue))]
           /\ UNCHANGED resumeQueue
  <2>1. /\ Head(jobQueue) \in Message
        /\ JobsIn(jobQueue) = JobsIn(jobQueue') \cup {Head(jobQueue).job}
        /\ OneMessagePerJob(jobQueue')
        /\ Head(jobQueue).job \notin JobsIn(jobQueue')
    BY <1>6, <1>8, PopRemovesOneJob, PopKeepsOneMessagePerJob DEF CInv, HeldApart
  <2>2. OneMessagePerJob(resumeQueue)' /\ JobsIn(resumeQueue)' = JobsIn(resumeQueue)
    BY <1>8 DEF CInv, HeldApart, OneMessagePerJob, JobsIn
  <2>3. OneMessagePerJob(jobQueue)' /\ JobsIn(jobQueue)' = JobsIn(jobQueue')
    BY <2>1 DEF OneMessagePerJob, JobsIn
  <2>4. /\ Queued = Queued' \cup {Head(jobQueue).job}
        /\ Head(jobQueue).job \notin Queued'
        /\ (JobsIn(jobQueue) \cap JobsIn(resumeQueue))' = {}
    BY <2>1, <2>2, <2>3 DEF Queued, CInv, HeldApart
  <2>5. QED
    BY <1>4, <1>8, <2>1, <2>2, <2>3, <2>4
<1>9. QED
  BY <1>5, <1>7, <1>8 DEF Dequeue

\* A worker pushes a retry, and drops its message if the push succeeds.
LEMMA EnqueueCustody ==
  ASSUME NoLostCalls, TypeInv, CInv, NEW w \in Workers, Enqueue(w)
  PROVE  CInv' /\ VerdictsKept
<1> DEFINE retry == [job |-> MsgOf(w).job, attempt |-> MsgOf(w).attempt + 1, resume |-> FALSE]
<1>1. Busy(w) /\ UNCHANGED <<jobs, request, resumeQueue>>
  BY DEF Enqueue, Busy
<1> SUFFICES CInv'
  BY <1>1 DEF VerdictsKept
<1>2. /\ \A j : Active(j)' <=> Active(j)
      /\ \A c \in Requests : Holding(c)' <=> Holding(c)
      /\ JobsIn(resumeQueue)' = JobsIn(resumeQueue)
      /\ OneMessagePerJob(resumeQueue)'
  BY <1>1 DEF Active, Holding, JobsIn, OneMessagePerJob, CInv, HeldApart
<1>3. /\ retry \in Message
      /\ retry.job = MsgOf(w).job
      /\ jobQueue \in Seq(Message)
  BY <1>1 DEF TypeInv, TypeOK, Shape, Busy, Message
<1>4. retry.job \notin JobsIn(jobQueue) /\ retry.job \notin JobsIn(resumeQueue)
  BY <1>1, <1>3 DEF CInv, HeldApart, Queued
<1> HIDE DEF retry
<1>5. PICK reply \in PushReply :
        /\ jobQueue' = Pushed(jobQueue, retry, reply)
        /\ worker' = [worker EXCEPT ![w] = IF Succeeds(reply) THEN IdleWorker
                                                              ELSE Failing(w, worker[w].reason)]
  BY DEF Enqueue, retry
<1>6. CASE Succeeds(reply) /\ jobQueue' = Append(jobQueue, retry)
  <2>1. /\ JobsIn(jobQueue') = JobsIn(jobQueue) \cup {retry.job}
        /\ OneMessagePerJob(jobQueue')
    BY <1>3, <1>4, <1>6, PushAddsOneJob, PushKeepsOneMessagePerJob DEF CInv, HeldApart
  <2>2. JobsIn(jobQueue)' = JobsIn(jobQueue') /\ OneMessagePerJob(jobQueue)'
    BY <2>1 DEF JobsIn, OneMessagePerJob
  <2>3. ~Busy(w)' /\ \A v \in Workers : v # w => (Busy(v)' <=> Busy(v)) /\ MsgOf(v)' = MsgOf(v)
    BY <1>5, <1>6, HolderIds DEF Busy, MsgOf, IdleWorker, At
  <2>4. /\ Queued' = Queued \cup {retry.job}
        /\ JobsIn(jobQueue)' \cap JobsIn(resumeQueue)' = {}
    BY <1>2, <1>4, <2>1, <2>2 DEF Queued, CInv, HeldApart
  <2>5. HeldApart'
    BY <1>1, <1>2, <1>3, <2>2, <2>3, <2>4 DEF CInv, HeldApart
  <2>6. HeldActive'
    BY <1>1, <1>2, <1>3, <2>3, <2>4 DEF CInv, HeldActive
  <2>7. QED
    BY <2>5, <2>6 DEF CInv
<1>7. CASE ~Succeeds(reply) /\ jobQueue' = jobQueue
  <2>1. \A v \in Workers : (Busy(v)' <=> Busy(v)) /\ MsgOf(v)' = MsgOf(v)
    BY <1>1, <1>5, <1>7, HolderIds DEF Busy, MsgOf, Failing, At
  <2>2. JobsIn(jobQueue)' = JobsIn(jobQueue)
    BY <1>7 DEF JobsIn
  <2>3. Queued' = Queued
    BY <1>2, <2>2 DEF Queued
  <2>4. OneMessagePerJob(jobQueue)'
    BY <1>7 DEF OneMessagePerJob, CInv, HeldApart
  <2>5. HeldApart' /\ HeldActive'
    BY <1>1, <1>2, <2>1, <2>2, <2>3, <2>4 DEF CInv, HeldApart, HeldActive
  <2>6. QED
    BY <2>5 DEF CInv
<1>8. QED
  BY <1>5, <1>6, <1>7, PushedOnce

\* Steps of requests and of the ticker that start to hold nothing: a job may
\* leave work only if nobody holds it afterwards.
LEMMA QuietCustody ==
  ASSUME TypeInv, CInv, UNCHANGED <<worker, jobQueue, resumeQueue>>,
         \A c \in Requests : Holding(c)' => Holding(c) /\ request'[c].job = request[c].job,
         \A j \in JobIds : Active(j) =>
           Active(j)' \/ \E c \in Requests : Holding(c) /\ request[c].job = j /\ ~Holding(c)'
  PROVE  CInv'
<1>1. \A w \in Workers : (Busy(w)' <=> Busy(w)) /\ MsgOf(w)' = MsgOf(w)
  BY DEF Busy, MsgOf
<1>2. /\ Queued' = Queued
      /\ JobsIn(jobQueue)' = JobsIn(jobQueue)
      /\ JobsIn(resumeQueue)' = JobsIn(resumeQueue)
      /\ OneMessagePerJob(jobQueue)'
      /\ OneMessagePerJob(resumeQueue)'
  BY DEF Queued, JobsIn, OneMessagePerJob, CInv, HeldApart
<1>3. HeldApart'
  BY <1>1, <1>2 DEF CInv, HeldApart
<1>4. \A j \in Queued' : Active(j)'
  BY <1>2, HolderIds DEF CInv, HeldApart, HeldActive
<1>5. \A w \in Workers : Busy(w)' => Active(MsgOf(w).job)'
  <2>1. SUFFICES ASSUME NEW w \in Workers, Busy(w) PROVE Active(MsgOf(w).job)'
    BY <1>1
  <2>2. Active(MsgOf(w).job) /\ MsgOf(w).job \in JobIds
    BY <2>1, HolderIds DEF CInv, HeldActive
  <2>3. \A i : i = MsgOf(w).job /\ Active(i)' => Active(MsgOf(w).job)'
    BY <1>1 DEF Active
  <2>4. QED
    BY <2>1, <2>2, <2>3, HolderIds DEF CInv, HeldApart
<1>6. \A c \in Requests : Holding(c)' => Active(request[c].job)'
  <2>1. SUFFICES ASSUME NEW c \in Requests, Holding(c)' PROVE Active(request[c].job)'
    OBVIOUS
  <2>2. Holding(c) /\ request'[c].job = request[c].job /\ request[c].job \in JobIds
    BY <2>1, HolderIds
  <2>3. \A i : i = request'[c].job /\ Active(i)' => Active(request[c].job)'
    BY DEF Active
  <2>4. QED
    BY <2>1, <2>2, <2>3 DEF CInv, HeldApart, HeldActive
<1>7. QED
  BY <1>3, <1>4, <1>5, <1>6 DEF CInv, HeldActive

\* A request takes a job that nobody can hold, for it is not queued or
\* processing, and puts it to work.
LEMMA TakeCustody ==
  ASSUME TypeInv, CInv, UNCHANGED <<worker, jobQueue, resumeQueue>>,
         NEW c \in Requests, NEW j \in JobIds, NEW x,
         ~Active(j), Active(j)', \A i \in JobIds : Active(i) => Active(i)',
         request' = [request EXCEPT ![c] = x], x.job = j
  PROVE  CInv'
<1>1. \A w \in Workers : (Busy(w)' <=> Busy(w)) /\ MsgOf(w)' = MsgOf(w)
  BY DEF Busy, MsgOf
<1>2. /\ Queued' = Queued
      /\ JobsIn(jobQueue)' = JobsIn(jobQueue)
      /\ JobsIn(resumeQueue)' = JobsIn(resumeQueue)
      /\ OneMessagePerJob(jobQueue)'
      /\ OneMessagePerJob(resumeQueue)'
  BY DEF Queued, JobsIn, OneMessagePerJob, CInv, HeldApart
<1>3. \A d \in Requests : d # c => (Holding(d)' <=> Holding(d)) /\ request'[d] = request[d]
  BY HolderIds DEF Holding
<1>4. request'[c].job = j
  BY HolderIds
<1>5. /\ j \notin Queued
      /\ \A w \in Workers : Busy(w) => MsgOf(w).job # j
      /\ \A d \in Requests : Holding(d) => request[d].job # j
  BY DEF CInv, HeldActive
<1>6. HeldApart'
  BY <1>1, <1>2, <1>3, <1>4, <1>5 DEF CInv, HeldApart
<1>7. \A i \in Queued' : Active(i)'
  BY <1>2, HolderIds DEF CInv, HeldActive
<1>8. \A w \in Workers : Busy(w)' => Active(MsgOf(w).job)'
  <2>1. SUFFICES ASSUME NEW w \in Workers, Busy(w) PROVE Active(MsgOf(w).job)'
    BY <1>1
  <2>2. Active(MsgOf(w).job) /\ MsgOf(w).job \in JobIds
    BY <2>1, HolderIds DEF CInv, HeldActive
  <2>3. \A i : i = MsgOf(w).job /\ Active(i)' => Active(MsgOf(w).job)'
    BY <1>1 DEF Active
  <2>4. QED
    BY <2>2, <2>3
<1>9. \A d \in Requests : Holding(d)' => Active(request[d].job)'
  <2>1. SUFFICES ASSUME NEW d \in Requests, Holding(d)' PROVE Active(request[d].job)'
    OBVIOUS
  <2>2. \A i : i = request'[d].job /\ Active(i)' => Active(request[d].job)'
    BY DEF Active
  <2>3. CASE d = c
    BY <2>2, <2>3, <1>4
  <2>4. CASE d # c
    BY <2>1, <2>2, <2>4, <1>3, HolderIds DEF CInv, HeldActive
  <2>5. QED
    BY <2>3, <2>4
<1>10. QED
  BY <1>6, <1>7, <1>8, <1>9 DEF CInv, HeldActive

\* A request puts its job on a list and lets it go.
LEMMA GiveCustody ==
  ASSUME TypeInv, CInv, UNCHANGED <<worker, jobs>>,
         NEW c \in Requests, Holding(c), NEW m \in Message, m.job = request[c].job,
         request' = [request EXCEPT ![c] = IdleRequest],
         \/ jobQueue' = Append(jobQueue, m) /\ UNCHANGED resumeQueue
         \/ resumeQueue' = Append(resumeQueue, m) /\ UNCHANGED jobQueue
  PROVE  CInv'
<1>1. \A w \in Workers : (Busy(w)' <=> Busy(w)) /\ MsgOf(w)' = MsgOf(w)
  BY DEF Busy, MsgOf
<1>2. \A j : Active(j)' <=> Active(j)
  BY DEF Active
<1>3. /\ ~Holding(c)'
      /\ \A d \in Requests : d # c => (Holding(d)' <=> Holding(d)) /\ request'[d] = request[d]
  BY IdleRequestShape, HolderIds DEF Holding
<1>4. m.job \notin JobsIn(jobQueue) /\ m.job \notin JobsIn(resumeQueue)
  BY DEF CInv, HeldApart, Queued
<1>5. jobQueue \in Seq(Message) /\ resumeQueue \in Seq(Message)
  BY DEF TypeInv, TypeOK
<1>6. /\ Queued' = Queued \cup {m.job}
      /\ JobsIn(jobQueue)' \cap JobsIn(resumeQueue)' = {}
      /\ OneMessagePerJob(jobQueue)'
      /\ OneMessagePerJob(resumeQueue)'
  <2>1. CASE jobQueue' = Append(jobQueue, m) /\ UNCHANGED resumeQueue
    <3>1. /\ JobsIn(jobQueue') = JobsIn(jobQueue) \cup {m.job}
          /\ OneMessagePerJob(jobQueue')
      BY <1>4, <1>5, <2>1, PushAddsOneJob, PushKeepsOneMessagePerJob DEF CInv, HeldApart
    <3>2. /\ JobsIn(jobQueue)' = JobsIn(jobQueue')
          /\ OneMessagePerJob(jobQueue)'
          /\ JobsIn(resumeQueue)' = JobsIn(resumeQueue)
          /\ OneMessagePerJob(resumeQueue)'
      BY <2>1, <3>1 DEF JobsIn, OneMessagePerJob, CInv, HeldApart
    <3>3. QED
      BY <1>4, <3>1, <3>2 DEF Queued, CInv, HeldApart
  <2>2. CASE resumeQueue' = Append(resumeQueue, m) /\ UNCHANGED jobQueue
    <3>1. /\ JobsIn(resumeQueue') = JobsIn(resumeQueue) \cup {m.job}
          /\ OneMessagePerJob(resumeQueue')
      BY <1>4, <1>5, <2>2, PushAddsOneJob, PushKeepsOneMessagePerJob DEF CInv, HeldApart
    <3>2. /\ JobsIn(resumeQueue)' = JobsIn(resumeQueue')
          /\ OneMessagePerJob(resumeQueue)'
          /\ JobsIn(jobQueue)' = JobsIn(jobQueue)
          /\ OneMessagePerJob(jobQueue)'
      BY <2>2, <3>1 DEF JobsIn, OneMessagePerJob, CInv, HeldApart
    <3>3. QED
      BY <1>4, <3>1, <3>2 DEF Queued, CInv, HeldApart
  <2>3. QED
    BY <2>1, <2>2
<1>7. HeldApart'
  BY <1>1, <1>3, <1>6 DEF CInv, HeldApart
<1>8. HeldActive'
  <2>1. \A d \in Requests : Holding(d)' => Active(request[d].job)'
    BY <1>2, <1>3 DEF CInv, HeldActive, Active
  <2>2. QED
    BY <1>1, <1>2, <1>6, <2>1 DEF CInv, HeldActive
<1>9. QED
  BY <1>7, <1>8 DEF CInv

\* The steps of requests and of the ticker keep custody and verdicts.
LEMMA RequestCustody ==
  ASSUME NoLostCalls, TypeInv, CInv, NEW c \in Requests,
         \/ RequestStep(c)
         \/ Disconnect(c)
         \/ \E u \in Urls : SubmitCheckReceipt(c, u)
         \/ \E j \in JobIds : ResumeRead(c, j)
         \/ \E r \in ReceiptIds : DeleteReceipt(c, r)
  PROVE  CInv' /\ VerdictsKept
<1>1. /\ "absent" \notin ActiveStatus
      /\ "awaiting_captcha" \notin ActiveStatus \cup SettledStatus
      /\ "absent" \notin SettledStatus
      /\ ActiveStatus \cap SettledStatus = {}
      /\ {"queued", "processing"} = ActiveStatus
  BY DEF ActiveStatus, SettledStatus
<1>2. \A d \in Requests : Holding(d) => RequestShape(request[d]) /\ Active(request[d].job)
  BY DEF CInv, HeldActive, TypeInv, TypeOK, Shape, RequestShape, Holding
<1>3. ASSUME UNCHANGED <<jobs, worker, jobQueue, resumeQueue>>, NEW x,
             request' = [request EXCEPT ![c] = x],
             x.pc \in {"publish", "mark_failed", "publish_resume"} => Holding(c) /\ x.job = request[c].job
      PROVE  CInv' /\ VerdictsKept
  <2>1. \A d \in Requests : Holding(d)' => Holding(d) /\ request'[d].job = request[d].job
    BY <1>3, HolderIds DEF Holding
  <2>2. \A j \in JobIds : Active(j) => Active(j)'
    BY <1>3 DEF Active
  <2>3. QED
    BY <1>3, <2>1, <2>2, QuietCustody DEF VerdictsKept
<1>4. IdleRequest.pc = "idle"
  BY IdleRequestShape
<1>5. CASE \E u \in Urls : SubmitCheckReceipt(c, u)
  <2>1. PICK u \in Urls : SubmitCheckReceipt(c, u)
    BY <1>5
  <2> DEFINE x == [IdleRequest EXCEPT !.pc = "check_active", !.url = u]
  <2>2. x.pc = "check_active"
    BY DEF IdleRequest
  <2>3. request' = [request EXCEPT ![c] = x] /\ UNCHANGED <<jobs, worker, jobQueue, resumeQueue>>
    BY <2>1 DEF SubmitCheckReceipt, redis
  <2> HIDE DEF x
  <2>4. QED
    BY <1>3, <2>2, <2>3
<1>6. CASE SubmitCheckActive(c)
  <2> DEFINE x == [request[c] EXCEPT !.pc = "create"]
  <2>1. x.pc = "create"
    BY HolderIds DEF Request
  <2>2. /\ request' = [request EXCEPT ![c] = x] \/ request' = [request EXCEPT ![c] = IdleRequest]
        /\ UNCHANGED <<jobs, worker, jobQueue, resumeQueue>>
    BY <1>6 DEF SubmitCheckActive, redis
  <2> HIDE DEF x
  <2>3. QED
    BY <1>3, <1>4, <2>1, <2>2
<1>7. CASE SubmitCreate(c)
  <2>1. PICK reply \in WriteReply, j \in JobIds :
          /\ jobs[j].status = "absent"
          /\ Write(j, Created(HouseOf[c], request[c].url), reply)
          /\ request' = [request EXCEPT ![c] =
                           IF reply = "ok" THEN [IdleRequest EXCEPT !.pc = "publish", !.job = j]
                                           ELSE IdleRequest]
    BY <1>7 DEF SubmitCreate
  <2> DEFINE x   == [IdleRequest EXCEPT !.pc = "publish", !.job = j]
             row == Created(HouseOf[c], request[c].url)
  <2>2. x.job = j
    BY DEF IdleRequest
  <2>3. UNCHANGED <<worker, jobQueue, resumeQueue>>
    BY <1>7 DEF SubmitCreate, redis
  <2>4. row.status = "queued"
    BY <1>7, HouseAssumption, OtherStatementTypes DEF SubmitCreate, TypeInv, Shape
  <2>5. ~Active(j)
    BY <1>1, <2>1 DEF Active
  <2> HIDE DEF x, row
  <2>6. CASE reply = "ok"
    <3>1. jobs' = [jobs EXCEPT ![j] = row] /\ request' = [request EXCEPT ![c] = x]
      BY <2>1, <2>6 DEF Write, x, row
    <3>2. Active(j)' /\ \A i \in JobIds : Active(i) => Active(i)'
      BY <1>1, <2>4, <3>1, HolderIds DEF Active
    <3>3. VerdictsKept
      BY <1>1, <2>1, <3>1, HolderIds DEF VerdictsKept
    <3>4. QED
      BY <2>2, <2>3, <2>5, <3>1, <3>2, <3>3, TakeCustody
  <2>7. CASE reply = "db_error"
    <3>1. UNCHANGED jobs /\ request' = [request EXCEPT ![c] = IdleRequest]
      BY <2>1, <2>7 DEF Write
    <3>2. QED
      BY <1>3, <1>4, <2>3, <3>1
  <2>8. QED
    BY <2>6, <2>7 DEF NoLostCalls, WriteReply, DbFaults
<1>8. CASE SubmitPublish(c)
  <2> DEFINE x     == [request[c] EXCEPT !.pc = "mark_failed"]
             fresh == [job |-> request[c].job, attempt |-> 0, resume |-> FALSE]
  <2>1. Holding(c) /\ x.job = request[c].job
    BY <1>8, HolderIds DEF SubmitPublish, Holding, Request
  <2>2. fresh \in Message /\ fresh.job = request[c].job
    BY <2>1, HolderIds DEF Message
  <2> HIDE DEF x, fresh
  <2>3. PICK reply \in PushReply :
          /\ jobQueue' = Pushed(jobQueue, fresh, reply)
          /\ request' = [request EXCEPT ![c] = IF Succeeds(reply) THEN IdleRequest ELSE x]
    BY <1>8 DEF SubmitPublish, x, fresh
  <2>4. UNCHANGED <<jobs, worker, resumeQueue>>
    BY <1>8 DEF SubmitPublish
  <2>5. CASE Succeeds(reply) /\ jobQueue' = Append(jobQueue, fresh)
    BY <2>1, <2>2, <2>3, <2>4, <2>5, GiveCustody DEF VerdictsKept
  <2>6. CASE ~Succeeds(reply) /\ jobQueue' = jobQueue
    BY <1>3, <2>1, <2>3, <2>4, <2>6
  <2>7. QED
    BY <2>3, <2>5, <2>6, PushedOnce
<1>9. CASE SubmitMarkFailed(c)
  <2> DEFINE row == UpdateStatus(jobs[request[c].job], "failed", "unknown", NULL)
             j   == request[c].job
  <2>1. Holding(c) /\ Active(j) /\ j \in JobIds
    BY <1>2, <1>9, HolderIds DEF SubmitMarkFailed, Holding
  <2>2. /\ jobs' = jobs \/ jobs' = [jobs EXCEPT ![j] = row]
        /\ request' = [request EXCEPT ![c] = IdleRequest]
        /\ UNCHANGED <<worker, jobQueue, resumeQueue>>
    BY <1>9 DEF SubmitMarkFailed, Write, redis
  <2> HIDE DEF row, j
  <2>3. \A d \in Requests : Holding(d)' => Holding(d) /\ request'[d].job = request[d].job
    BY <1>4, <2>2, HolderIds DEF Holding
  <2>4. ~Holding(c)'
    BY <1>4, <2>2, HolderIds DEF Holding
  <2>5. \A i \in JobIds : i # j => jobs'[i] = jobs[i]
    BY <2>2, HolderIds
  <2>6. CInv'
    BY <2>1, <2>2, <2>3, <2>4, <2>5, QuietCustody DEF Active, j
  <2>7. VerdictsKept
    BY <1>1, <2>1, <2>5 DEF VerdictsKept, Active
  <2>8. QED
    BY <2>6, <2>7
<1>10. CASE \E j \in JobIds : ResumeRead(c, j)
  <2>1. PICK j \in JobIds : ResumeRead(c, j)
    BY <1>10
  <2> DEFINE x == [IdleRequest EXCEPT !.pc = "resume", !.job = j, !.attempts = jobs[j].attempts]
  <2>2. x.pc = "resume"
    BY DEF IdleRequest
  <2>3. request' = [request EXCEPT ![c] = x] /\ UNCHANGED <<jobs, worker, jobQueue, resumeQueue>>
    BY <2>1 DEF ResumeRead, redis
  <2> HIDE DEF x
  <2>4. QED
    BY <1>3, <2>2, <2>3
<1>11. CASE ResumeUpdate(c)
  <2>0. PICK j \in JobIds : j = request[c].job
    BY <1>11 DEF ResumeUpdate, TypeInv, Shape
  <2> DEFINE x == [request[c] EXCEPT !.pc = "publish_resume"]
  <2>1. x.job = j
    BY <2>0, HolderIds DEF Request
  <2>2. UNCHANGED <<worker, jobQueue, resumeQueue>>
    BY <1>11 DEF ResumeUpdate, redis
  <2>3. CASE request' = [request EXCEPT ![c] = IdleRequest] /\ UNCHANGED jobs
    BY <1>3, <1>4, <2>2, <2>3
  <2>4. ASSUME NEW body \in Bodies, jobs[j].status = "awaiting_captcha",
               jobs' = [jobs EXCEPT ![j] = Resumed(jobs[j], body)],
               request' = [request EXCEPT ![c] = x]
        PROVE  CInv' /\ VerdictsKept
    <3>1. Resumed(jobs[j], body).status = "processing"
      BY <2>1, BodyAssumption, ResumedType, HolderIds
    <3>2. ~Active(j) /\ Active(j)' /\ \A i \in JobIds : Active(i) => Active(i)'
      BY <1>1, <2>1, <2>4, <3>1, HolderIds DEF Active
    <3>3. VerdictsKept
      BY <1>1, <2>1, <2>4, HolderIds DEF VerdictsKept
    <3> HIDE DEF x
    <3>4. QED
      BY <2>1, <2>2, <2>4, <3>2, <3>3, TakeCustody
  <2>5. ASSUME NEW reply \in WriteReply, NEW body \in Bodies, jobs[j].status = "awaiting_captcha",
               Write(j, Resumed(jobs[j], body), reply),
               request' = [request EXCEPT ![c] = IF reply = "ok" THEN x ELSE IdleRequest]
        PROVE  CInv' /\ VerdictsKept
    <3>1. reply = "ok" \/ reply = "db_error"
      BY DEF NoLostCalls, WriteReply, DbFaults
    <3>2. CASE reply = "ok"
      BY <2>4, <2>5, <3>2 DEF Write
    <3>3. CASE reply = "db_error"
      BY <2>3, <2>5, <3>3 DEF Write
    <3>4. QED
      BY <3>1, <3>2, <3>3
  <2>6. QED
    BY <1>11, <2>0, <2>3, <2>5 DEF ResumeUpdate
<1>12. CASE ResumePublish(c)
  <2> DEFINE resume == [job |-> request[c].job, attempt |-> request[c].attempts, resume |-> TRUE]
  <2>1. Holding(c)
    BY <1>12 DEF ResumePublish, Holding
  <2>2. resume \in Message /\ resume.job = request[c].job
    BY <2>1, HolderIds DEF Message, Request
  <2> HIDE DEF resume
  <2>3. PICK reply \in PushReply : resumeQueue' = Pushed(resumeQueue, resume, reply)
    BY <1>12 DEF ResumePublish, resume
  <2>4. request' = [request EXCEPT ![c] = IdleRequest] /\ UNCHANGED <<jobs, worker, jobQueue>>
    BY <1>12 DEF ResumePublish
  <2>5. CASE resumeQueue' = Append(resumeQueue, resume)
    BY <2>1, <2>2, <2>4, <2>5, GiveCustody DEF VerdictsKept
  <2>6. CASE resumeQueue' = resumeQueue
    BY <1>3, <1>4, <2>4, <2>6
  <2>7. QED
    BY <2>3, <2>5, <2>6, PushedOnce
<1>13. CASE \E r \in ReceiptIds : DeleteReceipt(c, r)
  <2>1. PICK r \in ReceiptIds : DeleteReceipt(c, r)
    BY <1>13
  <2>2. /\ jobs' = [j \in JobIds |-> Unlinked(jobs[j], r)]
        /\ UNCHANGED <<jobQueue, resumeQueue, worker, request>>
    BY <2>1 DEF DeleteReceipt, redis
  <2>3. \A j \in JobIds : jobs'[j].status = jobs[j].status /\ jobs'[j].reason = jobs[j].reason
    BY <2>2, HolderIds, OtherStatementTypes
  <2>4. \A d \in Requests : Holding(d)' => Holding(d) /\ request'[d].job = request[d].job
    BY <2>2 DEF Holding
  <2>5. QED
    BY <2>2, <2>3, <2>4, QuietCustody DEF Active, VerdictsKept
<1>14. CASE Disconnect(c)
  <2>1. request' = [request EXCEPT ![c] = IdleRequest] /\ UNCHANGED <<jobs, worker, jobQueue, resumeQueue>>
    BY <1>14 DEF Disconnect, redis
  <2>2. QED
    BY <1>3, <1>4, <2>1
<1>15. QED
  BY <1>5, <1>6, <1>7, <1>8, <1>9, <1>10, <1>11, <1>12, <1>13, <1>14 DEF RequestStep

LEMMA ExpireCustody ==
  ASSUME TypeInv, CInv, NEW S \in SUBSET JobIds, Expire(S)
  PROVE  CInv' /\ VerdictsKept
<1>1. /\ \A j \in S : jobs[j].status = "awaiting_captcha"
      /\ jobs' = [j \in JobIds |-> IF j \in S THEN Expired(jobs[j]) ELSE jobs[j]]
      /\ UNCHANGED <<jobQueue, resumeQueue, worker, request>>
  BY DEF Expire, redis
<1>2. \A j \in JobIds : Active(j) => Active(j)'
  BY <1>1 DEF Active, ActiveStatus
<1>3. \A c \in Requests : Holding(c)' => Holding(c) /\ request'[c].job = request[c].job
  BY <1>1 DEF Holding
<1>4. VerdictsKept
  BY <1>1 DEF VerdictsKept, SettledStatus
<1>5. QED
  BY <1>1, <1>2, <1>3, <1>4, QuietCustody

\* Every step keeps custody and verdicts.
LEMMA StepCustody ==
  ASSUME NoLostCalls, TypeInv, CInv, [Next]_vars
  PROVE  CInv' /\ VerdictsKept
<1>1. CASE UNCHANGED vars
  BY <1>1 DEF vars, VerdictsKept, CInv, HeldApart, HeldActive, Queued, Busy, Holding, Active,
              OneMessagePerJob, JobsIn, MsgOf
<1>2. ASSUME NEW w \in Workers, WorkerStep(w) \/ Crash(w) PROVE CInv' /\ VerdictsKept
  BY <1>2, LocalCustody, DequeueCustody, EnqueueCustody DEF WorkerStep, Local
<1>3. QED
  BY <1>1, <1>2, RequestCustody, ExpireCustody DEF Next

LEMMA InitCustody ==
  ASSUME Init PROVE CInv
  BY DEF Init, CInv, HeldApart, HeldActive, Queued, Busy, Holding, OneMessagePerJob, JobsIn,
         IdleWorker, IdleRequest, At

LEMMA CustodyOneHolder ==
  ASSUME CInv PROVE OneHolder
  BY DEF CInv, HeldApart, OneMessagePerJob, OneHolder, Holders, Queued, Busy, Holding, JobsIn

LEMMA CustodyResting ==
  ASSUME CInv PROVE RestingJobsAreNotHeld
  BY DEF CInv, HeldActive, RestingJobsAreNotHeld, Held, HeldByWorker, HeldByRequest, HeldInQueue,
         Queued, Busy, Holding, Active

\* Init => IInv and IInv /\ [Next]_vars => IInv' for both strengthenings at once.
LEMMA CustodyInvariant ==
  ASSUME NoLostCalls PROVE Spec => [](TypeInv /\ CInv)
<1>1. Init => TypeInv /\ CInv
  BY InitType, InitCustody
<1>2. TypeInv /\ CInv /\ [Next]_vars => (TypeInv /\ CInv)'
  BY StepType, StutterType, StepCustody
<1>3. QED
  BY <1>1, <1>2, PTL DEF Spec

\* As long as no call loses its reply and none is repeated, two workers never
\* run the same job and no job waits twice in Redis: errors, crashes and
\* disconnects do not break that.
THEOREM OneHolderAlways ==
  ASSUME NoLostCalls PROVE Spec => []OneHolder
<1>1. TypeInv /\ CInv => OneHolder
  BY CustodyOneHolder
<1>2. QED
  BY <1>1, CustodyInvariant, PTL

\* Under the same assumption nobody can touch a job that is paused or settled.
THEOREM RestingJobsAreSafe ==
  ASSUME NoLostCalls PROVE Spec => []RestingJobsAreNotHeld
<1>1. TypeInv /\ CInv => RestingJobsAreNotHeld
  BY CustodyResting
<1>2. QED
  BY <1>1, CustodyInvariant, PTL

\* Under the same assumption a verdict is final.
THEOREM VerdictsAreFinal ==
  ASSUME NoLostCalls PROVE Spec => SettledIsFinal
<1>1. TypeInv /\ CInv /\ [Next]_vars => [VerdictsKept]_vars
  BY StepCustody
<1>2. Spec => [][VerdictsKept]_vars
  BY <1>1, CustodyInvariant, PTL DEF Spec
<1>3. SettledIsFinal <=> [][VerdictsKept]_vars
  BY DEF SettledIsFinal, VerdictsKept
<1>4. QED
  BY <1>2, <1>3

-----------------------------------------------------------------------------
(***************************************************************************)
(* 4. No stranded job                                                      *)
(*                                                                         *)
(* PauseJobForCaptcha leaves a job alone that is not processing, and the   *)
(* worker drops its message all the same.  So NoStrandedJob needs to know  *)
(* that the row of a worker that has begun says processing until the       *)
(* worker itself changes it; CInv keeps everybody else away from the row.  *)
(***************************************************************************)
NoFaults == FaultKinds = {}

Begun(w) == Busy(w) /\ worker[w].pc \notin {"begin", "enqueue", "fail"}

RowsBegun == \A w \in Workers : Begun(w) => RowOf(w).status = "processing"

SInv == NoStrandedJob /\ RowsBegun

\* What a step of a busy worker that leaves Redis alone owes its own row.
Accounts(w) ==
  /\ ~Busy(w)' => jobs'[MsgOf(w).job].status \notin ActiveStatus
  /\ Begun(w)' => jobs'[MsgOf(w).job].status = "processing"

LEMMA NoFaultReplies ==
  ASSUME NoFaults
  PROVE  /\ NoLostCalls
         /\ ReadReply = {"ok"} /\ WriteReply = {"ok"} /\ PushReply = {"ok"} /\ PopReply = {"ok"}
         /\ "worker_crash" \notin FaultKinds /\ "disconnect" \notin FaultKinds
  BY DEF NoFaults, NoLostCalls, ReadReply, WriteReply, PushReply, PopReply

LEMMA LocalAccounts ==
  ASSUME NoFaults, TypeInv, CInv, SInv, NEW w \in Workers, Local(w)
  PROVE  Accounts(w)
<1>1. Busy(w)
  BY DEF Busy, Local, Begin, Fetch, LoadOwner, Load, ResumeBadCookies, ResumeSummary,
         ResumeDetail, Pause, CreateReceipt, CreateItems, Complete, Requeue, Fail, Crash
<1>2. /\ MsgOf(w).job \in JobIds
      /\ jobs \in [JobIds -> Job]
      /\ worker \in [Workers -> Worker]
      /\ RowOf(w) = jobs[MsgOf(w).job]
      /\ RowOf(w) \in Job
  BY <1>1, HolderIds DEF RowOf
<1>3. /\ ReadReply = {"ok"}
      /\ WriteReply = {"ok"}
      /\ "worker_crash" \notin FaultKinds
  BY NoFaultReplies
\* Going on with a begun job.
<1>4. ASSUME NEW next, next.pc # "idle", Begun(w),
             worker' = [worker EXCEPT ![w] = next], UNCHANGED jobs
      PROVE  Accounts(w)
  BY <1>2, <1>4 DEF Accounts, Begun, Busy, SInv, RowsBegun
\* Dropping a job whose row leaves work.
<1>5. ASSUME NEW row, row.status \notin ActiveStatus,
             worker' = [worker EXCEPT ![w] = IdleWorker],
             jobs' = [jobs EXCEPT ![MsgOf(w).job] = row]
      PROVE  Accounts(w)
  <2>1. ~Busy(w)' /\ ~Begun(w)'
    BY <1>2, <1>5 DEF Busy, Begun, IdleWorker, At
  <2>2. jobs'[MsgOf(w).job] = row
    BY <1>2, <1>5
  <2>3. QED
    BY <2>1, <2>2, <1>5 DEF Accounts
<1>6. /\ \A pc, m : At(pc, m).pc = pc
      /\ \A e : Failing(w, e).pc = "fail" /\ Failed(w, e).pc \in {"requeue", "fail"}
      /\ \A phase, p : Pausing(w, phase, p).pc = "pause"
      /\ \A p : Persisting(w, p).pc = "receipt"
  BY DEF At, Failing, Failed, Pausing, Persisting
<1>7. ASSUME NEW next, next.pc # "idle", Begun(w), Decide(w, next) PROVE Accounts(w)
  BY <1>4, <1>7 DEF Decide
<1>8. CASE Begin(w)
  <2> DEFINE row == UpdateStatus(RowOf(w), "processing", "none", NULL)
  <2>1. /\ jobs' = [jobs EXCEPT ![MsgOf(w).job] = row]
        /\ \/ worker' = [worker EXCEPT ![w] = At("load", MsgOf(w))]
           \/ worker' = [worker EXCEPT ![w] = At("fetch", MsgOf(w))]
    BY <1>3, <1>8 DEF Begin, Write
  <2>2. row.status = "processing"
    BY <1>2 DEF UpdateStatus, Job
  <2> HIDE DEF row
  <2>3. jobs'[MsgOf(w).job].status = "processing" /\ Busy(w)'
    BY <1>2, <1>6, <2>1, <2>2 DEF Busy
  <2>4. QED
    BY <2>3 DEF Accounts
<1>9. CASE Fetch(w)
  <2>1. Begun(w)
    BY <1>1, <1>9 DEF Begun, Fetch
  <2>2. \A p : [At("load_owner", MsgOf(w)) EXCEPT !.parsed = p].pc = "load_owner"
    BY DEF At
  <2>3. QED
    BY <1>6, <1>7, <1>9, <2>1, <2>2 DEF Fetch
<1>10. CASE LoadOwner(w)
  <2>1. Begun(w) /\ UNCHANGED jobs
    BY <1>1, <1>10 DEF Begun, LoadOwner
  <2>2. worker' = [worker EXCEPT ![w] = Persisting(w, worker[w].parsed)]
    BY <1>3, <1>10 DEF LoadOwner
  <2>3. QED
    BY <1>4, <1>6, <2>1, <2>2
<1>11. CASE Load(w)
  <2> DEFINE loaded == [At("resume", MsgOf(w)) EXCEPT !.seen = RowOf(w)]
  <2>1. Begun(w) /\ UNCHANGED jobs
    BY <1>1, <1>11 DEF Begun, Load
  <2>2. worker' = [worker EXCEPT ![w] = loaded]
    BY <1>3, <1>11 DEF Load
  <2>3. loaded.pc = "resume"
    BY DEF At
  <2> HIDE DEF loaded
  <2>4. QED
    BY <1>4, <2>1, <2>2, <2>3
<1>12. /\ \A phase : ChallengedAgain(w, phase).pc \in {"fail", "pause"}
       /\ FromSummary(w).pc \in {"requeue", "fail", "receipt"}
  BY <1>6 DEF ChallengedAgain, FromSummary
<1>13. CASE ResumeBadCookies(w) \/ ResumeSummary(w) \/ ResumeDetail(w)
  <2>1. Begun(w)
    BY <1>1, <1>13 DEF Begun, ResumeBadCookies, ResumeSummary, ResumeDetail
  <2>2. QED
    BY <1>6, <1>7, <1>12, <1>13, <2>1 DEF ResumeBadCookies, ResumeSummary, ResumeDetail
<1>14. CASE Pause(w)
  <2> DEFINE row == Paused(RowOf(w), worker[w].phase, worker[w].parsed)
  <2>1. /\ jobs' = [jobs EXCEPT ![MsgOf(w).job] = row]
        /\ worker' = [worker EXCEPT ![w] = IdleWorker]
    BY <1>3, <1>14 DEF Pause, Write
  <2>2. RowOf(w).status = "processing"
    BY <1>1, <1>14 DEF Pause, Begun, SInv, RowsBegun
  <2>3. row.status = "awaiting_captcha"
    BY <1>2, <2>2 DEF Paused, Job
  <2>4. row.status \notin ActiveStatus
    BY <2>3 DEF ActiveStatus
  <2> HIDE DEF row
  <2>5. QED
    BY <1>5, <2>1, <2>4
<1>15. CASE CreateReceipt(w)
  <2>1. Begun(w)
    BY <1>1, <1>15 DEF Begun, CreateReceipt
  <2>2. CASE Decide(w, Failing(w, "unknown"))
    BY <1>6, <1>7, <2>1, <2>2
  <2>3. ASSUME NEW r, NEW pc \in {"complete", "items"},
               worker' = [worker EXCEPT ![w] = [At(pc, MsgOf(w)) EXCEPT !.receipt = r]],
               UNCHANGED jobs
        PROVE  Accounts(w)
    <3>1. [At(pc, MsgOf(w)) EXCEPT !.receipt = r].pc # "idle"
      BY <2>3 DEF At
    <3>2. QED
      BY <1>4, <2>1, <2>3, <3>1
  <2>4. QED
    BY <1>3, <1>15, <2>2, <2>3 DEF CreateReceipt
<1>16. CASE CreateItems(w)
  <2> DEFINE next == [worker[w] EXCEPT !.pc = "complete"]
  <2>1. Begun(w)
    BY <1>1, <1>16 DEF Begun, CreateItems
  <2>2. CASE Decide(w, Failing(w, "unknown"))
    BY <1>6, <1>7, <2>1, <2>2
  <2>3. next.pc = "complete"
    BY <1>2 DEF Worker
  <2> HIDE DEF next
  <2>4. CASE worker' = [worker EXCEPT ![w] = next] /\ UNCHANGED jobs
    BY <1>4, <2>1, <2>3, <2>4
  <2>5. QED
    BY <1>3, <1>16, <2>2, <2>4 DEF CreateItems, next
<1>17. CASE Complete(w)
  <2> DEFINE row == UpdateStatus(RowOf(w), "completed", "none", worker[w].receipt)
  <2>1. Begun(w)
    BY <1>1, <1>17 DEF Begun, Complete
  <2>2. CASE Decide(w, Failing(w, "unknown"))
    BY <1>6, <1>7, <2>1, <2>2
  <2>3. row.status = "completed"
    BY <1>2 DEF UpdateStatus, Job
  <2>4. row.status \notin ActiveStatus
    BY <2>3 DEF ActiveStatus
  <2> HIDE DEF row
  <2>5. CASE /\ jobs' = [jobs EXCEPT ![MsgOf(w).job] = row]
             /\ worker' = [worker EXCEPT ![w] = IdleWorker]
    BY <1>5, <2>4, <2>5
  <2>6. QED
    BY <1>3, <1>17, <2>2, <2>5 DEF Complete, Write, row
<1>18. CASE Requeue(w)
  <2>1. Busy(w)' /\ ~Begun(w)'
    BY <1>2, <1>18 DEF Requeue, Busy, Begun, Worker
  <2>2. QED
    BY <2>1 DEF Accounts
<1>19. CASE Fail(w)
  <2> DEFINE row == UpdateStatus(RowOf(w), "failed", worker[w].reason, NULL)
  <2>1. /\ jobs' = [jobs EXCEPT ![MsgOf(w).job] = row]
        /\ worker' = [worker EXCEPT ![w] = IdleWorker]
    BY <1>3, <1>19 DEF Fail, Write
  <2>2. row.status = "failed"
    BY <1>2 DEF UpdateStatus, Job
  <2>3. row.status \notin ActiveStatus
    BY <2>2 DEF ActiveStatus
  <2> HIDE DEF row
  <2>4. QED
    BY <1>5, <2>1, <2>3
<1>20. ~Crash(w)
  BY <1>3 DEF Crash
<1>21. QED
  BY <1>8, <1>9, <1>10, <1>11, <1>13, <1>14, <1>15, <1>16, <1>17, <1>18, <1>19, <1>20 DEF Local

\* Held, in the words of CInv.
LEMMA HeldMeans ==
  ASSUME NEW j
  PROVE  Held(j) <=> \/ \E w \in Workers : Busy(w) /\ MsgOf(w).job = j
                     \/ \E c \in Requests : Holding(c) /\ request[c].job = j
                     \/ j \in Queued
  BY DEF Held, HeldByWorker, HeldByRequest, HeldInQueue, Busy, Holding, Queued

\* The worker's own step.
LEMMA LocalStranded ==
  ASSUME NoFaults, TypeInv, CInv, SInv, NEW w \in Workers, Local(w)
  PROVE  SInv'
<1>1. Accounts(w)
  BY LocalAccounts
<1>2. Busy(w)
  BY DEF Busy, Local, Begin, Fetch, LoadOwner, Load, ResumeBadCookies, ResumeSummary,
         ResumeDetail, Pause, CreateReceipt, CreateItems, Complete, Requeue, Fail, Crash
<1>3. PICK next \in Carrying(MsgOf(w)) \cup {IdleWorker}, row \in Job : Moves(w, next, row)
  BY LocalMoves DEF Moving
<1>4. /\ worker' = [worker EXCEPT ![w] = next]
      /\ jobs' = [jobs EXCEPT ![MsgOf(w).job] = row]
      /\ UNCHANGED <<jobQueue, resumeQueue, request>>
  BY <1>3 DEF Moves, redis
<1>5. \A v \in Workers : v # w => worker'[v] = worker[v]
  BY <1>4, HolderIds
<1>6. Busy(w)' => MsgOf(w)' = MsgOf(w)
  BY <1>4, HolderIds DEF Busy, MsgOf, Carrying, IdleWorker, At
<1>7. \A j \in JobIds : j # MsgOf(w).job => jobs'[j] = jobs[j]
  BY <1>4, HolderIds
<1>8. NoStrandedJob'
  <2>1. SUFFICES ASSUME NEW j \in JobIds, jobs'[j].status \in ActiveStatus PROVE Held(j)'
    BY DEF NoStrandedJob
  <2>2. CASE j = MsgOf(w).job
    <3>1. Busy(w)' /\ MsgOf(w)'.job = j
      BY <1>1, <1>6, <2>1, <2>2 DEF Accounts
    <3>2. QED
      BY <3>1 DEF Held, HeldByWorker, Busy
  <2>3. CASE j # MsgOf(w).job
    <3>1. Held(j)
      BY <1>7, <2>1, <2>3 DEF SInv, NoStrandedJob
    <3>2. \A v \in Workers : Busy(v) /\ MsgOf(v).job = j => Busy(v)' /\ MsgOf(v)'.job = j
      BY <1>5, <2>3 DEF Busy, MsgOf
    <3>3. QED
      BY <1>4, <3>1, <3>2 DEF Held, HeldByWorker, HeldByRequest, HeldInQueue, JobsIn, Busy
  <2>4. QED
    BY <2>2, <2>3
<1>9. RowsBegun'
  <2>1. SUFFICES ASSUME NEW v \in Workers, Begun(v)' PROVE jobs'[MsgOf(v)'.job].status = "processing"
    BY DEF RowsBegun, RowOf
  <2>2. CASE v = w
    BY <1>1, <1>6, <2>1, <2>2 DEF Accounts, Begun
  <2>3. CASE v # w
    <3>1. Begun(v) /\ MsgOf(v)' = MsgOf(v)
      BY <1>5, <2>1, <2>3 DEF Begun, Busy, MsgOf
    <3>2. MsgOf(v).job # MsgOf(w).job /\ MsgOf(v).job \in JobIds
      BY <1>2, <2>3, <3>1, HolderIds DEF CInv, HeldApart, Begun
    <3>3. QED
      BY <1>7, <3>1, <3>2 DEF SInv, RowsBegun, RowOf
  <2>4. QED
    BY <2>2, <2>3
<1>10. QED
  BY <1>8, <1>9 DEF SInv

\* Steps that hand jobs on: what was held, or is new to work, is held after the
\* step; no begun worker's row changes its status.
LEMMA HandOver ==
  ASSUME TypeInv, SInv,
         \A j \in JobIds : Active(j)' => Active(j) \/ Held(j)',
         \A j \in JobIds : Active(j)' /\ Held(j) => Held(j)',
         \A w \in Workers : Begun(w)' =>
           /\ Begun(w)
           /\ MsgOf(w)' = MsgOf(w)
           /\ jobs'[MsgOf(w).job].status = jobs[MsgOf(w).job].status
  PROVE  SInv'
<1>1. NoStrandedJob'
  BY DEF SInv, NoStrandedJob, Active
<1>2. RowsBegun'
  <2>1. SUFFICES ASSUME NEW w \in Workers, Begun(w)' PROVE jobs'[MsgOf(w)'.job].status = "processing"
    BY DEF RowsBegun, RowOf
  <2>2. QED
    BY <2>1 DEF SInv, RowsBegun, RowOf
<1>3. QED
  BY <1>1, <1>2 DEF SInv

\* A pop takes a message from the lists.
LEMMA DequeueTakes ==
  ASSUME NoFaults, TypeInv, NEW w \in Workers, Dequeue(w)
  PROVE  \E m \in Message :
           /\ worker' = [worker EXCEPT ![w] = At("begin", m)]
           /\ Queued = Queued' \cup {m.job}
<1>1. /\ PopReply = {"ok"}
      /\ jobQueue \in Seq(Message)
      /\ resumeQueue \in Seq(Message)
  BY NoFaultReplies DEF TypeInv, TypeOK
<1>2. CASE /\ resumeQueue # <<>>
           /\ resumeQueue' = Tail(resumeQueue)
           /\ worker' = [worker EXCEPT ![w] = At("begin", Head(resumeQueue))]
           /\ UNCHANGED jobQueue
  <2>1. /\ Head(resumeQueue) \in Message
        /\ JobsIn(resumeQueue) = JobsIn(resumeQueue') \cup {Head(resumeQueue).job}
    BY <1>1, <1>2, PopRemovesOneJob
  <2>2. Queued = Queued' \cup {Head(resumeQueue).job}
    BY <1>2, <2>1 DEF Queued, JobsIn
  <2>3. QED
    BY <1>2, <2>1, <2>2
<1>3. CASE /\ jobQueue # <<>>
           /\ jobQueue' = Tail(jobQueue)
           /\ worker' = [worker EXCEPT ![w] = At("begin", Head(jobQueue))]
           /\ UNCHANGED resumeQueue
  <2>1. /\ Head(jobQueue) \in Message
        /\ JobsIn(jobQueue) = JobsIn(jobQueue') \cup {Head(jobQueue).job}
    BY <1>1, <1>3, PopRemovesOneJob
  <2>2. Queued = Queued' \cup {Head(jobQueue).job}
    BY <1>3, <2>1 DEF Queued, JobsIn
  <2>3. QED
    BY <1>3, <2>1, <2>2
<1>4. QED
  BY <1>1, <1>2, <1>3 DEF Dequeue

LEMMA DequeueStranded ==
  ASSUME NoFaults, TypeInv, CInv, SInv, NEW w \in Workers, Dequeue(w)
  PROVE  SInv'
<1>1. ~Busy(w) /\ UNCHANGED <<jobs, request>>
  BY DEF Dequeue, Busy
<1>2. PICK m \in Message :
        /\ worker' = [worker EXCEPT ![w] = At("begin", m)]
        /\ Queued = Queued' \cup {m.job}
  BY DequeueTakes
<1>3. Busy(w)' /\ MsgOf(w)' = m /\ ~Begun(w)'
  BY <1>2, HolderIds DEF Busy, MsgOf, At, Begun
<1>4. \A v \in Workers : v # w => worker'[v] = worker[v]
  BY <1>2, HolderIds
<1>5. ASSUME NEW j \in JobIds, Held(j) PROVE Held(j)'
  <2>1. CASE j = m.job
    BY <1>3, <2>1 DEF Held, HeldByWorker, Busy
  <2>2. CASE j \in Queued'
    BY <2>2 DEF Held, HeldInQueue, Queued
  <2>3. CASE \E v \in Workers : Busy(v) /\ MsgOf(v).job = j
    <3>1. PICK v \in Workers : Busy(v) /\ MsgOf(v).job = j
      BY <2>3
    <3>2. Busy(v)' /\ MsgOf(v)'.job = j
      BY <1>1, <1>4, <3>1 DEF Busy, MsgOf
    <3>3. QED
      BY <3>2 DEF Held, HeldByWorker, Busy
  <2>4. CASE \E c \in Requests : Holding(c) /\ request[c].job = j
    BY <1>1, <2>4 DEF Held, HeldByRequest, Holding
  <2>5. QED
    BY <1>2, <1>5, <2>1, <2>2, <2>3, <2>4, HeldMeans
<1>6. \A v \in Workers : Begun(v)' => Begun(v) /\ MsgOf(v)' = MsgOf(v)
  BY <1>3, <1>4 DEF Begun, Busy, MsgOf
<1>7. \A j \in JobIds : Active(j)' => Active(j)
  BY <1>1 DEF Active
<1>8. QED
  BY <1>1, <1>5, <1>6, <1>7, HandOver

\* A retry puts a message back.
LEMMA EnqueueGives ==
  ASSUME NoFaults, TypeInv, NEW w \in Workers, Enqueue(w)
  PROVE  /\ worker' = [worker EXCEPT ![w] = IdleWorker]
         /\ Queued' = Queued \cup {MsgOf(w).job}
<1> DEFINE retry == [job |-> MsgOf(w).job, attempt |-> MsgOf(w).attempt + 1, resume |-> FALSE]
<1>1. Busy(w) /\ UNCHANGED <<jobs, request, resumeQueue>>
  BY DEF Enqueue, Busy
<1>2. /\ retry \in Message
      /\ retry.job = MsgOf(w).job
      /\ jobQueue \in Seq(Message)
  BY <1>1 DEF TypeInv, TypeOK, Shape, Busy, Message
<1> HIDE DEF retry
<1>3. /\ jobQueue' = Append(jobQueue, retry)
      /\ worker' = [worker EXCEPT ![w] = IdleWorker]
  BY NoFaultReplies DEF Enqueue, Pushed, Succeeds, retry
<1>4. JobsIn(jobQueue') = JobsIn(jobQueue) \cup {MsgOf(w).job}
  BY <1>2, <1>3, PushAddsOneJob
<1>5. Queued' = Queued \cup {MsgOf(w).job}
  BY <1>1, <1>4 DEF Queued, JobsIn
<1>6. QED
  BY <1>3, <1>5

LEMMA EnqueueStranded ==
  ASSUME NoFaults, TypeInv, CInv, SInv, NEW w \in Workers, Enqueue(w)
  PROVE  SInv'
<1>1. Busy(w) /\ UNCHANGED <<jobs, request, resumeQueue>>
  BY DEF Enqueue, Busy
<1>2. worker' = [worker EXCEPT ![w] = IdleWorker]
  BY EnqueueGives
<1>3. Queued' = Queued \cup {MsgOf(w).job}
  BY EnqueueGives
<1>4. \A v \in Workers : v # w => worker'[v] = worker[v]
  BY <1>2, HolderIds
<1>5. ASSUME NEW j \in JobIds, Held(j) PROVE Held(j)'
  <2>1. CASE j \in Queued'
    BY <2>1 DEF Held, HeldInQueue, Queued
  <2>2. CASE \E v \in Workers : v # w /\ Busy(v) /\ MsgOf(v).job = j
    <3>1. PICK v \in Workers : v # w /\ Busy(v) /\ MsgOf(v).job = j
      BY <2>2
    <3>2. Busy(v)' /\ MsgOf(v)'.job = j
      BY <1>4, <3>1 DEF Busy, MsgOf
    <3>3. QED
      BY <3>2 DEF Held, HeldByWorker, Busy
  <2>3. CASE \E c \in Requests : Holding(c) /\ request[c].job = j
    BY <1>1, <2>3 DEF Held, HeldByRequest, Holding
  <2>4. QED
    BY <1>3, <1>5, <2>1, <2>2, <2>3, HeldMeans
<1>6. \A v \in Workers : Begun(v)' => Begun(v) /\ MsgOf(v)' = MsgOf(v)
  BY <1>2, <1>4, HolderIds DEF Begun, Busy, MsgOf, IdleWorker, At
<1>7. \A j \in JobIds : Active(j)' => Active(j)
  BY <1>1 DEF Active
<1>8. QED
  BY <1>1, <1>5, <1>6, <1>7, HandOver

\* A step of request c: what c held is in a list or out of work afterwards, and
\* what c takes out of nobody's hands it holds.
LEMMA RequestHandOver ==
  ASSUME TypeInv, CInv, SInv, NEW c \in Requests, UNCHANGED worker,
         \A d \in Requests : d # c => request'[d] = request[d],
         Queued \subseteq Queued',
         Holding(c) => \/ request[c].job \in Queued'
                       \/ jobs'[request[c].job].status \notin ActiveStatus
                       \/ Holding(c)' /\ request'[c].job = request[c].job,
         \A j \in JobIds : \/ jobs'[j].status = jobs[j].status
                           \/ ~Active(j) /\ Holding(c)' /\ request'[c].job = j
                           \/ ~Active(j) /\ jobs'[j].status \notin ActiveStatus
                           \/ Holding(c) /\ request[c].job = j /\ jobs'[j].status \notin ActiveStatus
  PROVE  SInv'
<1>1. \A w \in Workers : (Busy(w)' <=> Busy(w)) /\ MsgOf(w)' = MsgOf(w) /\ (Begun(w)' <=> Begun(w))
  BY DEF Busy, MsgOf, Begun
<1>2. ASSUME NEW j \in JobIds, Active(j)', Held(j) PROVE Held(j)'
  <2>1. CASE j \in Queued
    BY <2>1 DEF Held, HeldInQueue, Queued
  <2>2. CASE \E w \in Workers : Busy(w) /\ MsgOf(w).job = j
    BY <1>1, <2>2 DEF Held, HeldByWorker, Busy
  <2>3. ASSUME NEW d \in Requests, Holding(d), request[d].job = j PROVE Held(j)'
    <3>1. CASE d # c
      BY <2>3, <3>1 DEF Held, HeldByRequest, Holding
    <3>2. CASE d = c
      BY <1>2, <2>3, <3>2 DEF Held, HeldByRequest, HeldInQueue, Queued, Holding, Active
    <3>3. QED
      BY <3>1, <3>2
  <2>4. QED
    BY <1>2, <2>1, <2>2, <2>3, HeldMeans
<1>3. ASSUME NEW j \in JobIds, Active(j)' PROVE Active(j) \/ Held(j)'
  BY <1>3 DEF Active, Held, HeldByRequest, Holding
<1>4. ASSUME NEW w \in Workers, Begun(w) PROVE jobs'[MsgOf(w).job].status = jobs[MsgOf(w).job].status
  <2>1. Active(MsgOf(w).job) /\ MsgOf(w).job \in JobIds /\ Busy(w)
    BY <1>4, HolderIds DEF CInv, HeldActive, Begun
  <2>2. ~(Holding(c) /\ request[c].job = MsgOf(w).job)
    BY <2>1 DEF CInv, HeldApart
  <2>3. QED
    BY <2>1, <2>2
<1>5. QED
  BY <1>1, <1>2, <1>3, <1>4, HandOver

LEMMA RequestStranded ==
  ASSUME NoFaults, TypeInv, CInv, SInv, NEW c \in Requests,
         \/ RequestStep(c)
         \/ Disconnect(c)
         \/ \E u \in Urls : SubmitCheckReceipt(c, u)
         \/ \E j \in JobIds : ResumeRead(c, j)
         \/ \E r \in ReceiptIds : DeleteReceipt(c, r)
  PROVE  SInv'
<1>1. /\ jobs \in [JobIds -> Job]
      /\ request \in [Requests -> Request]
      /\ jobQueue \in Seq(Message)
      /\ resumeQueue \in Seq(Message)
  BY DEF TypeInv, TypeOK
<1>2. /\ ReadReply = {"ok"}
      /\ WriteReply = {"ok"}
      /\ PushReply = {"ok"}
      /\ "disconnect" \notin FaultKinds
  BY NoFaultReplies
<1>3. ASSUME NEW x, request' = [request EXCEPT ![c] = x]
      PROVE  request'[c] = x /\ \A d \in Requests : d # c => request'[d] = request[d]
  BY <1>1, <1>3
\* A request that holds nothing, before and after.
<1>4. ASSUME ~Holding(c), UNCHANGED <<worker, jobQueue, resumeQueue, jobs>>,
             \A d \in Requests : d # c => request'[d] = request[d]
      PROVE  SInv'
  <2>1. Queued' = Queued
    BY <1>4 DEF Queued, JobsIn
  <2>2. QED
    BY <1>4, <2>1, RequestHandOver
<1>5. CASE \E u \in Urls : SubmitCheckReceipt(c, u)
  BY <1>3, <1>4, <1>5 DEF SubmitCheckReceipt, Holding, redis
<1>6. CASE SubmitCheckActive(c)
  BY <1>3, <1>4, <1>6 DEF SubmitCheckActive, Holding, redis
<1>7. CASE \E j \in JobIds : ResumeRead(c, j)
  BY <1>3, <1>4, <1>7 DEF ResumeRead, Holding, redis
<1>8. CASE SubmitCreate(c)
  <2>1. PICK j \in JobIds :
          /\ jobs[j].status = "absent"
          /\ jobs' = [jobs EXCEPT ![j] = Created(HouseOf[c], request[c].url)]
          /\ request' = [request EXCEPT ![c] = [IdleRequest EXCEPT !.pc = "publish", !.job = j]]
    BY <1>2, <1>8 DEF SubmitCreate, Write
  <2>2. ~Holding(c) /\ UNCHANGED worker /\ Queued' = Queued
    BY <1>8 DEF SubmitCreate, Holding, redis, Queued, JobsIn
  <2>3. ~Active(j) /\ \A i \in JobIds : i # j => jobs'[i] = jobs[i]
    BY <1>1, <2>1 DEF Active, ActiveStatus
  <2>4. Holding(c)' /\ request'[c].job = j
    BY <1>3, <2>1 DEF Holding, IdleRequest
  <2>5. QED
    BY <1>3, <2>1, <2>2, <2>3, <2>4, RequestHandOver
<1>9. CASE SubmitPublish(c)
  <2> DEFINE fresh == [job |-> request[c].job, attempt |-> 0, resume |-> FALSE]
  <2>1. fresh \in Message /\ fresh.job = request[c].job
    BY <1>9, HolderIds DEF Message, SubmitPublish, Holding
  <2> HIDE DEF fresh
  <2>2. /\ jobQueue' = Append(jobQueue, fresh)
        /\ request' = [request EXCEPT ![c] = IdleRequest]
        /\ UNCHANGED <<jobs, resumeQueue, worker>>
    BY <1>2, <1>9 DEF SubmitPublish, Pushed, Succeeds, fresh
  <2>3. JobsIn(jobQueue') = JobsIn(jobQueue) \cup {request[c].job}
    BY <1>1, <2>1, <2>2, PushAddsOneJob
  <2>4. Queued' = Queued \cup {request[c].job}
    BY <2>2, <2>3 DEF Queued, JobsIn
  <2>5. QED
    BY <1>3, <2>2, <2>4, RequestHandOver
<1>10. CASE SubmitMarkFailed(c)
  <2> DEFINE row == UpdateStatus(jobs[request[c].job], "failed", "unknown", NULL)
  <2>1. /\ jobs' = [jobs EXCEPT ![request[c].job] = row]
        /\ request' = [request EXCEPT ![c] = IdleRequest]
        /\ UNCHANGED worker
        /\ Queued' = Queued
    BY <1>2, <1>10 DEF SubmitMarkFailed, Write, redis, Queued, JobsIn
  <2>2. Holding(c) /\ request[c].job \in JobIds
    BY <1>10, HolderIds DEF SubmitMarkFailed, Holding
  <2>3. row.status \notin ActiveStatus
    BY <1>1, <2>2 DEF UpdateStatus, Job, ActiveStatus
  <2> HIDE DEF row
  <2>4. /\ jobs'[request[c].job].status \notin ActiveStatus
        /\ \A i \in JobIds : i # request[c].job => jobs'[i] = jobs[i]
    BY <1>1, <2>1, <2>2, <2>3
  <2>5. QED
    BY <1>3, <2>1, <2>2, <2>4, RequestHandOver
<1>11. CASE ResumeUpdate(c)
  <2> DEFINE j == request[c].job
  <2>1. ~Holding(c) /\ j \in JobIds /\ UNCHANGED <<worker, jobQueue, resumeQueue>>
    BY <1>11 DEF ResumeUpdate, Holding, redis, TypeInv, Shape
  <2>2. CASE request' = [request EXCEPT ![c] = IdleRequest] /\ UNCHANGED jobs
    BY <1>3, <1>4, <2>1, <2>2
  <2>3. ASSUME NEW body \in Bodies, jobs[j].status = "awaiting_captcha",
               jobs' = [jobs EXCEPT ![j] = Resumed(jobs[j], body)],
               request' = [request EXCEPT ![c] = [request[c] EXCEPT !.pc = "publish_resume"]]
        PROVE  SInv'
    <3>1. ~Active(j) /\ \A i \in JobIds : i # j => jobs'[i] = jobs[i]
      BY <1>1, <2>1, <2>3 DEF Active, ActiveStatus
    <3>2. Holding(c)' /\ request'[c].job = j
      BY <1>1, <1>3, <2>3 DEF Holding, Request
    <3>3. Queued' = Queued
      BY <2>1 DEF Queued, JobsIn
    <3> HIDE DEF j
    <3>4. QED
      BY <1>3, <2>1, <2>3, <3>1, <3>2, <3>3, RequestHandOver
  <2>4. QED
    BY <1>2, <1>11, <2>2, <2>3 DEF ResumeUpdate, Write
<1>12. CASE ResumePublish(c)
  <2> DEFINE resume == [job |-> request[c].job, attempt |-> request[c].attempts, resume |-> TRUE]
  <2>1. resume \in Message /\ resume.job = request[c].job
    BY <1>1, <1>12, HolderIds DEF Message, Request, ResumePublish, Holding
  <2> HIDE DEF resume
  <2>2. /\ resumeQueue' = Append(resumeQueue, resume)
        /\ request' = [request EXCEPT ![c] = IdleRequest]
        /\ UNCHANGED <<jobs, jobQueue, worker>>
    BY <1>2, <1>12 DEF ResumePublish, Pushed, resume
  <2>3. JobsIn(resumeQueue') = JobsIn(resumeQueue) \cup {request[c].job}
    BY <1>1, <2>1, <2>2, PushAddsOneJob
  <2>4. Queued' = Queued \cup {request[c].job}
    BY <2>2, <2>3 DEF Queued, JobsIn
  <2>5. QED
    BY <1>3, <2>2, <2>4, RequestHandOver
<1>13. CASE \E r \in ReceiptIds : DeleteReceipt(c, r)
  <2>1. PICK r \in ReceiptIds : DeleteReceipt(c, r)
    BY <1>13
  <2>2. /\ jobs' = [j \in JobIds |-> Unlinked(jobs[j], r)]
        /\ ~Holding(c)
        /\ UNCHANGED <<worker, request>>
        /\ Queued' = Queued
    BY <2>1 DEF DeleteReceipt, Holding, redis, Queued, JobsIn
  <2>3. \A j \in JobIds : jobs'[j].status = jobs[j].status
    BY <1>1, <2>2, OtherStatementTypes
  <2>4. QED
    BY <2>2, <2>3, RequestHandOver
<1>14. ~Disconnect(c)
  BY <1>2 DEF Disconnect
<1>15. QED
  BY <1>5, <1>6, <1>7, <1>8, <1>9, <1>10, <1>11, <1>12, <1>13, <1>14 DEF RequestStep

LEMMA ExpireStranded ==
  ASSUME TypeInv, CInv, SInv, NEW S \in SUBSET JobIds, Expire(S)
  PROVE  SInv'
<1>1. /\ \A j \in S : jobs[j].status = "awaiting_captcha"
      /\ jobs' = [j \in JobIds |-> IF j \in S THEN Expired(jobs[j]) ELSE jobs[j]]
      /\ UNCHANGED <<jobQueue, resumeQueue, worker, request>>
  BY DEF Expire, redis
<1>2. \A j \in S : ~Active(j) /\ jobs'[j].status = "failed"
  BY <1>1, HolderIds, OtherStatementTypes DEF Active, ActiveStatus
<1>3. \A j \in JobIds : Active(j)' => Active(j)
  BY <1>1, <1>2 DEF Active, ActiveStatus
<1>4. \A j \in JobIds : Held(j) => Held(j)'
  BY <1>1 DEF Held, HeldByWorker, HeldByRequest, HeldInQueue, JobsIn, MsgOf
<1>5. ASSUME NEW w \in Workers, Begun(w)'
      PROVE  /\ Begun(w)
             /\ MsgOf(w)' = MsgOf(w)
             /\ jobs'[MsgOf(w).job].status = jobs[MsgOf(w).job].status
  <2>1. Begun(w) /\ MsgOf(w)' = MsgOf(w)
    BY <1>1, <1>5 DEF Begun, Busy, MsgOf
  <2>2. Active(MsgOf(w).job) /\ MsgOf(w).job \in JobIds
    BY <2>1, HolderIds DEF Begun, CInv, HeldActive
  <2>3. QED
    BY <1>1, <1>2, <2>1, <2>2
<1>6. QED
  BY <1>3, <1>4, <1>5, HandOver

LEMMA StepStranded ==
  ASSUME NoFaults, TypeInv, CInv, SInv, [Next]_vars
  PROVE  SInv'
<1>1. CASE UNCHANGED vars
  BY <1>1 DEF vars, SInv, NoStrandedJob, RowsBegun, Held, HeldByWorker, HeldByRequest, HeldInQueue,
              JobsIn, MsgOf, RowOf, Begun, Busy
<1>2. ASSUME NEW w \in Workers, WorkerStep(w) \/ Crash(w) PROVE SInv'
  BY <1>2, LocalStranded, DequeueStranded, EnqueueStranded DEF WorkerStep, Local
<1>3. QED
  BY <1>1, <1>2, RequestStranded, ExpireStranded DEF Next

\* TypeInv, CInv and SInv together are inductive when no call goes wrong.
LEMMA StrandedInvariant ==
  ASSUME NoFaults PROVE Spec => []SInv
<1>1. Init => SInv
  BY DEF Init, SInv, NoStrandedJob, RowsBegun, Begun, Busy, NoJob, IdleWorker, At, ActiveStatus
<1>2. TypeInv /\ CInv /\ SInv /\ [Next]_vars => SInv'
  BY StepStranded
<1>3. Spec => [](TypeInv /\ CInv)
  BY CustodyInvariant, NoFaultReplies
<1>4. QED
  BY <1>1, <1>2, <1>3, PTL DEF Spec

\* As long as every call works, a queued or processing job is never left with
\* neither a message nor a worker nor a request to carry it on.
THEOREM NobodyStranded ==
  ASSUME NoFaults PROVE Spec => []NoStrandedJob
<1>1. SInv => NoStrandedJob
  BY DEF SInv
<1>2. QED
  BY <1>1, StrandedInvariant, PTL

-----------------------------------------------------------------------------
(***************************************************************************)
(* 5. What rows remember                                                   *)
(*                                                                         *)
(* These facts hold whatever calls fail, lose their reply or are repeated. *)
(* A worker decides from the row it loaded, or from what its browser saw,  *)
(* and writes later, when others may have changed the row.  What saves it  *)
(* is that rows only grow: no statement drops a summary or takes back a    *)
(* counted solution.                                                       *)
(***************************************************************************)
RowOK(row) ==
  /\ row.html # "none" => row.status \in ActiveStatus
  /\ row.phase = "detail" => row.summary # "none"
  /\ row.reason = "captcha_expired" => row.retries >= CaptchaRetryLimit
  /\ row.status = "absent" => row.summary = "none" /\ row.retries = 0

Grows(row, new) ==
  /\ row.summary # "none" => new.summary # "none"
  /\ new.retries >= row.retries

Sound(row, new) == RowOK(new) /\ Grows(row, new)

\* What worker x is about to do is right for the row of its job.
Fits(x, row) ==
  /\ x.pc = "resume" =>
       /\ x.seen.phase = "detail" => x.seen.summary # "none"
       /\ Grows(x.seen, row)
  /\ x.pc = "pause" /\ x.phase = "detail" => x.parsed # "none" \/ row.summary # "none"
  /\ x.reason = "captcha_expired" => row.retries >= CaptchaRetryLimit

RInv ==
  /\ \A j \in JobIds : RowOK(jobs[j])
  /\ \A w \in Workers : Busy(w) => Fits(worker[w], RowOf(w))

LEMMA StatementsSound ==
  ASSUME NEW row \in Job, RowOK(row)
  PROVE  /\ Sound(row, row)
         /\ \A s \in ActiveStatus \cup SettledStatus, e \in FailureReason \cup {"none"}, r \in ReceiptIds \cup {NULL} :
              (e = "captcha_expired" => row.retries >= CaptchaRetryLimit) =>
                Sound(row, UpdateStatus(row, s, e, r))
         /\ \A phase \in {"none", "summary", "detail"}, parsed \in Pages \cup {"none"} :
              (phase = "detail" => parsed # "none" \/ row.summary # "none") =>
                Sound(row, Paused(row, phase, parsed))
         /\ row.status = "awaiting_captcha" =>
              /\ Sound(row, Expired(row))
              /\ \A body \in ResumeBody : Sound(row, Resumed(row, body))
         /\ row.status = "absent" =>
              \A h \in Houses, u \in Urls : Sound(row, Created(h, u))
         /\ \A r \in ReceiptIds : Sound(row, Unlinked(row, r))
<1> USE DEF Sound, RowOK, Grows, CaptchaRetryLimit
<1>1. row.retries \in Nat
  BY DEF Job
<1>2. Sound(row, row)
  BY <1>1
<1>3. ASSUME NEW s \in ActiveStatus \cup SettledStatus, NEW e, NEW r,
             e = "captcha_expired" => row.retries >= CaptchaRetryLimit
      PROVE  Sound(row, UpdateStatus(row, s, e, r))
  <2> DEFINE new == UpdateStatus(row, s, e, r)
  <2>1. /\ new.status = s
        /\ new.reason = e
        /\ new.html = IF s \in SettledStatus THEN "none" ELSE row.html
        /\ new.phase = row.phase
        /\ new.summary = row.summary
        /\ new.retries = row.retries
    BY DEF UpdateStatus, Job
  <2>2. s # "absent"
    BY DEF ActiveStatus, SettledStatus
  <2> HIDE DEF new
  <2>3. QED
    BY <1>1, <1>3, <2>1, <2>2 DEF new
<1>4. ASSUME NEW phase, NEW parsed \in Pages \cup {"none"},
             phase = "detail" => parsed # "none" \/ row.summary # "none"
      PROVE  Sound(row, Paused(row, phase, parsed))
  <2> DEFINE new == Paused(row, phase, parsed)
  <2>1. CASE row.status # "processing"
    BY <1>2, <2>1 DEF Paused
  <2>2. CASE row.status = "processing"
    <3>1. /\ new.status = "awaiting_captcha"
          /\ new.phase = phase
          /\ new.summary = IF parsed = "none" THEN row.summary ELSE parsed
          /\ new.html = "none"
          /\ new.reason = row.reason
          /\ new.retries = row.retries
      BY <2>2 DEF Paused, Job
    <3> HIDE DEF new
    <3>2. QED
      BY <1>1, <1>4, <3>1 DEF new
  <2>3. QED
    BY <2>1, <2>2
<1>5. ASSUME row.status = "awaiting_captcha"
      PROVE  Sound(row, Expired(row)) /\ \A body \in ResumeBody : Sound(row, Resumed(row, body))
  <2>1. row.html = "none"
    BY <1>5 DEF ActiveStatus
  <2>2. Sound(row, Expired(row))
    BY <1>1, <2>1 DEF Expired, Job
  <2>3. ASSUME NEW body \in ResumeBody PROVE Sound(row, Resumed(row, body))
    <3> DEFINE new == Resumed(row, body)
    <3>1. /\ new.status = "processing"
          /\ new.phase = row.phase
          /\ new.summary = row.summary
          /\ new.reason = row.reason
          /\ new.retries = row.retries + 1
      BY DEF Resumed, Job
    <3> HIDE DEF new
    <3>2. QED
      BY <1>1, <3>1 DEF ActiveStatus, new
  <2>4. QED
    BY <2>2, <2>3
<1>6. ASSUME row.status = "absent", NEW h \in Houses, NEW u \in Urls
      PROVE  Sound(row, Created(h, u))
  BY <1>6 DEF Created, NoJob
<1>7. ASSUME NEW r \in ReceiptIds PROVE Sound(row, Unlinked(row, r))
  BY <1>1 DEF Unlinked, Job
<1>8. QED
  BY <1>2, <1>3, <1>4, <1>5, <1>6, <1>7

\* Growth is what a decision made from an older row survives.
LEMMA FitsGrown ==
  ASSUME NEW x, NEW row \in Job, NEW new \in Job, Fits(x, row), Grows(row, new),
         x.seen \in Job
  PROVE  Fits(x, new)
<1>1. row.retries \in Nat /\ new.retries \in Nat /\ x.seen.retries \in Nat
  BY DEF Job
<1>2. QED
  BY <1>1 DEF Fits, Grows, CaptchaRetryLimit

\* A worker that neither resumes nor pauses and blames no captcha fits any row.
Plain(x) == x.pc \notin {"resume", "pause"} /\ x.reason # "captcha_expired"

LEMMA PlainFits ==
  ASSUME NEW x, Plain(x), NEW row PROVE Fits(x, row)
  BY DEF Plain, Fits

\* A step of worker w on the row of its own job.
Keeps(w) ==
  \E row \in Job :
    /\ jobs' = [jobs EXCEPT ![MsgOf(w).job] = row]
    /\ Sound(RowOf(w), row)
    /\ Fits(worker'[w], row)

LEMMA LocalKeeps ==
  ASSUME TypeInv, RInv, NEW w \in Workers, Local(w)
  PROVE  Keeps(w)
<1>1. Busy(w)
  BY DEF Busy, Local, Begin, Fetch, LoadOwner, Load, ResumeBadCookies, ResumeSummary,
         ResumeDetail, Pause, CreateReceipt, CreateItems, Complete, Requeue, Fail, Crash
<1>2. /\ MsgOf(w).job \in JobIds
      /\ RowOf(w) \in Job
      /\ worker \in [Workers -> Worker]
      /\ worker[w] \in Worker
      /\ jobs = [jobs EXCEPT ![MsgOf(w).job] = RowOf(w)]
      /\ RowOK(RowOf(w))
      /\ Fits(worker[w], RowOf(w))
  BY <1>1, BusyRow, HolderIds DEF Busy, RInv, RowOf
<1>3. Sound(RowOf(w), RowOf(w))
  BY <1>2, StatementsSound
\* A decision that leaves the tables alone.
<1>4. ASSUME NEW next, Fits(next, RowOf(w)),
             worker' = [worker EXCEPT ![w] = next], UNCHANGED jobs
      PROVE  Keeps(w)
  <2>1. worker'[w] = next
    BY <1>2, <1>4
  <2>2. QED
    BY <1>2, <1>3, <1>4, <2>1 DEF Keeps
\* A statement followed by a decision that fits any row.
<1>5. ASSUME NEW next, Plain(next), NEW row \in Job, Sound(RowOf(w), row),
             NEW reply, Write(MsgOf(w).job, row, reply),
             worker' = [worker EXCEPT ![w] = next]
      PROVE  Keeps(w)
  <2>1. worker'[w] = next /\ Fits(next, row) /\ Fits(next, RowOf(w))
    BY <1>2, <1>5, PlainFits
  <2>2. CASE UNCHANGED jobs
    BY <1>4, <1>5, <2>1, <2>2
  <2>3. CASE jobs' = [jobs EXCEPT ![MsgOf(w).job] = row]
    BY <1>5, <2>1, <2>3 DEF Keeps
  <2>4. QED
    BY <1>5, <2>2, <2>3 DEF Write
<1>6. ASSUME NEW next, Plain(next), Decide(w, next) PROVE Keeps(w)
  BY <1>4, <1>6, PlainFits DEF Decide
<1>7. /\ Plain(IdleWorker)
      /\ \A pc \in WorkerPc \ {"resume", "pause"} : \A m : Plain(At(pc, m))
      /\ \A e : e # "captcha_expired" => Plain(Failing(w, e)) /\ Plain(Failed(w, e))
      /\ \A p : Plain(Persisting(w, p))
  BY DEF Plain, IdleWorker, At, Failing, Failed, Persisting
<1>8. \A e \in FetchErrors : e # "captcha_expired"
  BY FetchErrorAssumption
<1>9. /\ \A p : Fits(Pausing(w, "summary", p), RowOf(w))
      /\ \A p \in Pages : Fits(Pausing(w, "detail", p), RowOf(w))
  BY PagesAreParses DEF Fits, Pausing, At
<1>10. CASE Begin(w)
  <2> DEFINE row == UpdateStatus(RowOf(w), "processing", "none", NULL)
  <2>1. PICK reply \in WriteReply :
          /\ Write(MsgOf(w).job, row, reply)
          /\ \/ worker' = [worker EXCEPT ![w] = IdleWorker]
             \/ worker' = [worker EXCEPT ![w] = At("load", MsgOf(w))]
             \/ worker' = [worker EXCEPT ![w] = At("fetch", MsgOf(w))]
    BY <1>10 DEF Begin
  <2>2. row \in Job /\ Sound(RowOf(w), row)
    BY <1>2, StatementsSound, UpdateStatusType DEF JobStatus, ActiveStatus
  <2> HIDE DEF row
  <2>3. Plain(IdleWorker) /\ Plain(At("load", MsgOf(w))) /\ Plain(At("fetch", MsgOf(w)))
    BY <1>7 DEF WorkerPc
  <2>4. QED
    BY <1>5, <2>1, <2>2, <2>3
<1>11. CASE Fetch(w)
  <2>1. CASE \E e \in FetchErrors : Decide(w, Failed(w, e))
    BY <1>6, <1>7, <1>8, <2>1
  <2>2. CASE Decide(w, Pausing(w, "summary", "none"))
    BY <1>4, <1>9, <2>2 DEF Decide
  <2>3. CASE Decide(w, Failing(w, "parsing"))
    BY <1>6, <1>7, <2>3
  <2>4. CASE \E p \in Pages : Decide(w, Pausing(w, "detail", p))
    BY <1>4, <1>9, <2>4 DEF Decide
  <2>5. CASE \E p \in Pages : Decide(w, [At("load_owner", MsgOf(w)) EXCEPT !.parsed = p])
    <3>1. \A p : Plain([At("load_owner", MsgOf(w)) EXCEPT !.parsed = p])
      BY DEF Plain, At
    <3>2. QED
      BY <1>6, <2>5, <3>1
  <2>6. QED
    BY <1>11, <2>1, <2>2, <2>3, <2>4, <2>5 DEF Fetch
<1>12. CASE LoadOwner(w)
  <2>1. /\ UNCHANGED jobs
        /\ \/ worker' = [worker EXCEPT ![w] = Persisting(w, worker[w].parsed)]
           \/ worker' = [worker EXCEPT ![w] = Failing(w, "unknown")]
    BY <1>12 DEF LoadOwner
  <2>2. QED
    BY <1>4, <1>7, <2>1, PlainFits
<1>13. CASE Load(w)
  <2> DEFINE loaded == [At("resume", MsgOf(w)) EXCEPT !.seen = RowOf(w)]
  <2>1. /\ UNCHANGED jobs
        /\ \/ worker' = [worker EXCEPT ![w] = loaded]
           \/ worker' = [worker EXCEPT ![w] = IdleWorker]
    BY <1>13 DEF Load
  <2>2. loaded.pc = "resume" /\ loaded.seen = RowOf(w) /\ loaded.reason = "none"
    BY DEF At
  <2> HIDE DEF loaded
  <2>3. Fits(loaded, RowOf(w))
    BY <1>2, <1>3, <2>2 DEF Fits, RowOK, Sound
  <2>4. QED
    BY <1>4, <1>7, <2>1, <2>3, PlainFits
<1>14. CASE ResumeBadCookies(w)
  BY <1>6, <1>7, <1>14 DEF ResumeBadCookies
<1>15. ASSUME worker[w].pc = "resume", NEW phase \in {"summary", "detail"},
              phase = "detail" => worker[w].seen.phase = "detail",
              Decide(w, ChallengedAgain(w, phase))
       PROVE  Keeps(w)
  <2>1. /\ worker[w].seen.retries \in Nat
        /\ RowOf(w).retries \in Nat
        /\ RowOf(w).retries >= worker[w].seen.retries
        /\ worker[w].seen.phase = "detail" => RowOf(w).summary # "none"
    BY <1>2, <1>15 DEF Worker, Job, Fits, Grows
  <2>2. CASE worker[w].seen.retries >= CaptchaRetryLimit
    <3>1. Fits(Failing(w, "captcha_expired"), RowOf(w))
      BY <2>1, <2>2 DEF Fits, Failing, At, CaptchaRetryLimit
    <3>2. QED
      BY <1>4, <1>15, <2>2, <3>1 DEF Decide, ChallengedAgain
  <2>3. CASE ~(worker[w].seen.retries >= CaptchaRetryLimit)
    <3>1. Fits(Pausing(w, phase, "none"), RowOf(w))
      BY <1>15, <2>1 DEF Fits, Pausing, At
    <3>2. QED
      BY <1>4, <1>15, <2>3, <3>1 DEF Decide, ChallengedAgain
  <2>4. QED
    BY <2>2, <2>3
<1>16. CASE ResumeSummary(w)
  <2>1. CASE \E e \in FetchErrors : Decide(w, Failed(w, e))
    BY <1>6, <1>7, <1>8, <2>1
  <2>2. CASE Decide(w, ChallengedAgain(w, "summary"))
    BY <1>15, <1>16, <2>2 DEF ResumeSummary
  <2>3. CASE Decide(w, Failing(w, "parsing"))
    BY <1>6, <1>7, <2>3
  <2>4. CASE \E p \in Pages : Decide(w, Pausing(w, "detail", p))
    BY <1>4, <1>9, <2>4 DEF Decide
  <2>5. CASE \E p \in Pages : Decide(w, Persisting(w, p))
    BY <1>6, <1>7, <2>5
  <2>6. QED
    BY <1>16, <2>1, <2>2, <2>3, <2>4, <2>5 DEF ResumeSummary
<1>17. CASE ResumeDetail(w)
  <2>1. CASE \E e \in FetchErrors : Decide(w, Failed(w, e))
    BY <1>6, <1>7, <1>8, <2>1
  <2>2. CASE Decide(w, ChallengedAgain(w, "detail"))
    BY <1>15, <1>17, <2>2 DEF ResumeDetail
  <2>3. CASE Decide(w, FromSummary(w))
    BY <1>6, <1>7, <2>3 DEF FromSummary
  <2>4. QED
    BY <1>17, <2>1, <2>2, <2>3 DEF ResumeDetail
<1>18. CASE Pause(w)
  <2> DEFINE row == Paused(RowOf(w), worker[w].phase, worker[w].parsed)
  <2>1. PICK reply \in WriteReply :
          /\ Write(MsgOf(w).job, row, reply)
          /\ \/ worker' = [worker EXCEPT ![w] = IdleWorker]
             \/ worker' = [worker EXCEPT ![w] = Failing(w, "captcha")]
    BY <1>18 DEF Pause
  <2>2. /\ worker[w].phase \in {"none", "summary", "detail"}
        /\ worker[w].parsed \in Pages \cup {"none"}
        /\ worker[w].phase = "detail" => worker[w].parsed # "none" \/ RowOf(w).summary # "none"
    BY <1>2, <1>18 DEF Worker, Fits, Pause
  <2>3. row \in Job /\ Sound(RowOf(w), row)
    BY <1>2, <2>2, PausedType, StatementsSound
  <2> HIDE DEF row
  <2>4. QED
    BY <1>5, <1>7, <2>1, <2>3
<1>19. CASE CreateReceipt(w)
  <2>1. CASE Decide(w, Failing(w, "unknown"))
    BY <1>6, <1>7, <2>1
  <2>2. ASSUME NEW r, NEW pc \in {"complete", "items"}, UNCHANGED jobs,
               worker' = [worker EXCEPT ![w] = [At(pc, MsgOf(w)) EXCEPT !.receipt = r]]
        PROVE  Keeps(w)
    <3>1. Plain([At(pc, MsgOf(w)) EXCEPT !.receipt = r])
      BY <2>2 DEF Plain, At
    <3>2. QED
      BY <1>4, <2>2, <3>1, PlainFits
  <2>3. CASE worker' = [worker EXCEPT ![w] = Failing(w, "unknown")] /\ UNCHANGED jobs
    BY <1>4, <1>7, <2>3, PlainFits
  <2>4. QED
    BY <1>19, <2>1, <2>2, <2>3 DEF CreateReceipt
<1>20. CASE CreateItems(w)
  <2> DEFINE next == [worker[w] EXCEPT !.pc = "complete"]
  <2>1. CASE Decide(w, Failing(w, "unknown"))
    BY <1>6, <1>7, <2>1
  <2>2. next.pc = "complete" /\ next.reason = worker[w].reason
    BY <1>2 DEF Worker
  <2> HIDE DEF next
  <2>3. Fits(next, RowOf(w))
    BY <1>2, <2>2 DEF Fits
  <2>4. CASE worker' = [worker EXCEPT ![w] = next] /\ UNCHANGED jobs
    BY <1>4, <2>3, <2>4
  <2>5. CASE worker' = [worker EXCEPT ![w] = Failing(w, "unknown")] /\ UNCHANGED jobs
    BY <1>4, <1>7, <2>5, PlainFits
  <2>6. QED
    BY <1>20, <2>1, <2>4, <2>5 DEF CreateItems, next
<1>21. CASE Complete(w)
  <2> DEFINE row == UpdateStatus(RowOf(w), "completed", "none", worker[w].receipt)
  <2>1. CASE Decide(w, Failing(w, "unknown"))
    BY <1>6, <1>7, <2>1
  <2>2. ASSUME NEW reply \in WriteReply, Write(MsgOf(w).job, row, reply),
               worker' = [worker EXCEPT ![w] = IF reply = "ok" THEN IdleWorker
                                                               ELSE Failing(w, "unknown")]
        PROVE  Keeps(w)
    <3>1. worker[w].receipt \in ReceiptIds \cup {NULL}
      BY <1>2 DEF Worker
    <3>2. row \in Job /\ Sound(RowOf(w), row)
      BY <1>2, <3>1, StatementsSound, UpdateStatusType DEF JobStatus, SettledStatus
    <3> HIDE DEF row
    <3>3. QED
      BY <1>5, <1>7, <2>2, <3>2
  <2>3. QED
    BY <1>21, <2>1, <2>2 DEF Complete
<1>22. CASE Requeue(w)
  <2> DEFINE row  == UpdateStatus(RowOf(w), "queued", "none", NULL)
             next == [worker[w] EXCEPT !.pc = "enqueue"]
  <2>1. PICK reply \in WriteReply : Write(MsgOf(w).job, row, reply)
    BY <1>22 DEF Requeue
  <2>2. row \in Job /\ Sound(RowOf(w), row)
    BY <1>2, StatementsSound, UpdateStatusType DEF JobStatus, ActiveStatus
  <2>3. worker'[w] = next /\ next.pc = "enqueue" /\ next.reason = worker[w].reason
    BY <1>2, <1>22 DEF Requeue, Worker
  <2> HIDE DEF row, next
  <2>4. Fits(next, RowOf(w)) /\ Fits(next, row)
    BY <1>2, <2>2, <2>3 DEF Fits, Sound, Grows, Job, CaptchaRetryLimit
  <2>5. QED
    BY <1>2, <1>3, <2>1, <2>2, <2>3, <2>4 DEF Write, Keeps
<1>23. CASE Fail(w)
  <2> DEFINE row == UpdateStatus(RowOf(w), "failed", worker[w].reason, NULL)
  <2>1. PICK reply \in WriteReply : Write(MsgOf(w).job, row, reply)
    BY <1>23 DEF Fail
  <2>2. /\ worker[w].reason \in FailureReason \cup {"none"}
        /\ worker[w].reason = "captcha_expired" => RowOf(w).retries >= CaptchaRetryLimit
    BY <1>2 DEF Worker, Fits
  <2>3. row \in Job /\ Sound(RowOf(w), row)
    BY <1>2, <2>2, StatementsSound, UpdateStatusType DEF JobStatus, SettledStatus
  <2> HIDE DEF row
  <2>4. QED
    BY <1>5, <1>7, <1>23, <2>1, <2>3 DEF Fail
<1>24. CASE Crash(w)
  BY <1>4, <1>7, <1>24, PlainFits DEF Crash
<1>25. QED
  BY <1>10, <1>11, <1>12, <1>13, <1>14, <1>16, <1>17, <1>18, <1>19, <1>20, <1>21, <1>22,
     <1>23, <1>24 DEF Local

\* The rows of a step are rows of statements; workers that take part in it fit
\* afterwards.
LEMMA RowsAndWorkers ==
  ASSUME TypeInv, TypeInv', RInv,
         \A j \in JobIds : Sound(jobs[j], jobs'[j]),
         \A w \in Workers : Busy(w)' =>
           \/ Fits(worker'[w], jobs'[MsgOf(w)'.job])
           \/ worker'[w] = worker[w]
  PROVE  RInv'
<1>1. \A j \in JobIds : RowOK(jobs[j])'
  BY DEF Sound, RowOK
<1>2. ASSUME NEW w \in Workers, Busy(w)', worker'[w] = worker[w]
      PROVE  Fits(worker'[w], jobs'[MsgOf(w)'.job])
  <2>1. Busy(w) /\ MsgOf(w)' = MsgOf(w)
    BY <1>2 DEF Busy, MsgOf
  <2>2. /\ MsgOf(w).job \in JobIds
        /\ jobs[MsgOf(w).job] \in Job
        /\ jobs'[MsgOf(w).job] \in Job
        /\ worker[w].seen \in Job
    BY <2>1, HolderIds DEF TypeInv, TypeOK, Worker
  <2>3. Fits(worker[w], jobs[MsgOf(w).job]) /\ Grows(jobs[MsgOf(w).job], jobs'[MsgOf(w).job])
    BY <2>1, <2>2 DEF RInv, RowOf, Sound
  <2>4. Fits(worker[w], jobs'[MsgOf(w).job])
    BY <2>2, <2>3, FitsGrown
  <2>5. QED
    BY <1>2, <2>1, <2>4
<1>3. \A w \in Workers : Busy(w)' => Fits(worker[w], RowOf(w))'
  BY <1>2 DEF RowOf, Fits, Grows
<1>4. QED
  BY <1>1, <1>3 DEF RInv

\* Every step.
LEMMA StepRows ==
  ASSUME TypeInv, RInv, [Next]_vars
  PROVE  RInv'
<1>1. TypeInv'
  BY StepType, StutterType
<1>2. /\ jobs \in [JobIds -> Job]
      /\ worker \in [Workers -> Worker]
      /\ \A j \in JobIds : RowOK(jobs[j]) /\ Sound(jobs[j], jobs[j])
  BY StatementsSound DEF TypeInv, TypeOK, RInv
<1>3. ASSUME UNCHANGED <<jobs, worker>> PROVE RInv'
  BY <1>1, <1>2, <1>3, RowsAndWorkers
<1>4. ASSUME NEW w \in Workers, NEW next, Plain(next), UNCHANGED jobs,
             worker' = [worker EXCEPT ![w] = next]
      PROVE  RInv'
  <2>1. worker'[w] = next /\ \A v \in Workers : v # w => worker'[v] = worker[v]
    BY <1>2, <1>4
  <2>2. QED
    BY <1>1, <1>2, <1>4, <2>1, PlainFits, RowsAndWorkers
<1>5. ASSUME NEW j \in JobIds, NEW row, Sound(jobs[j], row), NEW reply,
             Write(j, row, reply), UNCHANGED worker
      PROVE  RInv'
  <2>1. \A i \in JobIds : Sound(jobs[i], jobs'[i])
    BY <1>2, <1>5 DEF Write
  <2>2. QED
    BY <1>1, <1>5, <2>1, RowsAndWorkers
<1>6. ASSUME NEW w \in Workers, Local(w) PROVE RInv'
  <2>1. Keeps(w)
    BY <1>6, LocalKeeps
  <2>2. PICK row \in Job : /\ jobs' = [jobs EXCEPT ![MsgOf(w).job] = row]
                           /\ Sound(RowOf(w), row)
                           /\ Fits(worker'[w], row)
    BY <2>1 DEF Keeps
  <2>3. Busy(w)
    BY <1>6 DEF Busy, Local, Begin, Fetch, LoadOwner, Load, ResumeBadCookies, ResumeSummary,
           ResumeDetail, Pause, CreateReceipt, CreateItems, Complete, Requeue, Fail, Crash
  <2>4. PICK next \in Carrying(MsgOf(w)) \cup {IdleWorker} : worker' = [worker EXCEPT ![w] = next]
    BY <1>6, LocalMoves DEF Moving, Moves
  <2>5. MsgOf(w).job \in JobIds /\ \A v \in Workers : v # w => worker'[v] = worker[v]
    BY <1>2, <2>3, <2>4, HolderIds
  <2>6. Busy(w)' => MsgOf(w)' = MsgOf(w)
    BY <1>2, <2>4 DEF Busy, MsgOf, Carrying, IdleWorker, At
  <2>7. jobs'[MsgOf(w).job] = row
    BY <1>2, <2>2, <2>5
  <2>8. \A j \in JobIds : Sound(jobs[j], jobs'[j])
    BY <1>2, <2>2, <2>5 DEF RowOf
  <2>9. \A v \in Workers : Busy(v)' =>
          Fits(worker'[v], jobs'[MsgOf(v)'.job]) \/ worker'[v] = worker[v]
    BY <2>2, <2>5, <2>6, <2>7
  <2>10. QED
    BY <1>1, <2>8, <2>9, RowsAndWorkers
<1>7. ASSUME NEW w \in Workers, Dequeue(w) PROVE RInv'
  <2>1. /\ UNCHANGED jobs
        /\ \E next : Plain(next) /\ worker' = [worker EXCEPT ![w] = next]
    BY <1>7 DEF Dequeue, Plain, IdleWorker, At
  <2>2. QED
    BY <1>4, <2>1
<1>8. ASSUME NEW w \in Workers, Enqueue(w) PROVE RInv'
  <2> DEFINE failing == Failing(w, worker[w].reason)
  <2>1. /\ UNCHANGED jobs
        /\ \/ worker' = [worker EXCEPT ![w] = IdleWorker]
           \/ worker' = [worker EXCEPT ![w] = failing]
    BY <1>8 DEF Enqueue
  <2>2. /\ failing.pc = "fail"
        /\ failing.msg = MsgOf(w)
        /\ failing.reason = worker[w].reason
    BY DEF Failing, At
  <2> HIDE DEF failing
  <2>3. Fits(worker[w], RowOf(w))
    BY <1>8 DEF RInv, Busy, Enqueue
  <2>4. Fits(failing, RowOf(w))
    BY <2>2, <2>3 DEF Fits
  <2>5. CASE worker' = [worker EXCEPT ![w] = IdleWorker]
    BY <1>4, <2>1, <2>5 DEF Plain, IdleWorker, At
  <2>6. CASE worker' = [worker EXCEPT ![w] = failing]
    <3>1. worker'[w] = failing /\ \A v \in Workers : v # w => worker'[v] = worker[v]
      BY <1>2, <2>6
    <3>2. MsgOf(w)' = MsgOf(w)
      BY <2>2, <3>1 DEF MsgOf
    <3>3. Fits(worker'[w], jobs'[MsgOf(w)'.job])
      BY <2>1, <2>4, <3>1, <3>2 DEF RowOf
    <3>4. QED
      BY <1>1, <1>2, <2>1, <3>1, <3>3, RowsAndWorkers
  <2>7. QED
    BY <2>1, <2>5, <2>6
<1>9. ASSUME NEW c \in Requests, SubmitCreate(c) PROVE RInv'
  <2>1. HouseOf[c] \in Houses /\ request[c].url \in Urls
    BY <1>9, HouseAssumption DEF SubmitCreate, TypeInv, Shape
  <2>2. PICK reply \in WriteReply, j \in JobIds :
          jobs[j].status = "absent" /\ Write(j, Created(HouseOf[c], request[c].url), reply)
    BY <1>9 DEF SubmitCreate
  <2>3. Sound(jobs[j], Created(HouseOf[c], request[c].url))
    BY <1>2, <2>1, <2>2, StatementsSound
  <2>4. QED
    BY <1>5, <1>9, <2>2, <2>3 DEF SubmitCreate
<1>10. ASSUME NEW c \in Requests, SubmitMarkFailed(c) PROVE RInv'
  <2> DEFINE row == UpdateStatus(jobs[request[c].job], "failed", "unknown", NULL)
  <2>1. request[c].job \in JobIds
    BY <1>10, HolderIds DEF SubmitMarkFailed, Holding
  <2>2. Sound(jobs[request[c].job], row)
    BY <1>2, <2>1, StatementsSound DEF SettledStatus, FailureReason
  <2> HIDE DEF row
  <2>3. PICK reply \in WriteReply : Write(request[c].job, row, reply)
    BY <1>10 DEF SubmitMarkFailed, row
  <2>4. QED
    BY <1>5, <1>10, <2>1, <2>2, <2>3 DEF SubmitMarkFailed
<1>11. ASSUME NEW c \in Requests, ResumeUpdate(c) PROVE RInv'
  <2> DEFINE j == request[c].job
  <2>1. j \in JobIds /\ UNCHANGED worker
    BY <1>11 DEF ResumeUpdate, TypeInv, Shape
  <2>2. CASE UNCHANGED jobs
    BY <1>3, <2>1, <2>2
  <2>3. ASSUME NEW reply \in WriteReply, NEW body \in Bodies, jobs[j].status = "awaiting_captcha",
               Write(j, Resumed(jobs[j], body), reply)
        PROVE  RInv'
    <3>1. Sound(jobs[j], Resumed(jobs[j], body))
      BY <1>2, <2>1, <2>3, BodyAssumption, StatementsSound
    <3>2. QED
      BY <1>5, <2>1, <2>3, <3>1
  <2>4. QED
    BY <1>11, <2>2, <2>3 DEF ResumeUpdate
<1>12. ASSUME NEW c \in Requests, NEW r \in ReceiptIds, DeleteReceipt(c, r) PROVE RInv'
  <2>1. jobs' = [j \in JobIds |-> Unlinked(jobs[j], r)] /\ UNCHANGED worker
    BY <1>12 DEF DeleteReceipt
  <2>2. \A j \in JobIds : Sound(jobs[j], jobs'[j])
    BY <1>2, <2>1, StatementsSound
  <2>3. QED
    BY <1>1, <2>1, <2>2, RowsAndWorkers
<1>13. ASSUME NEW S \in SUBSET JobIds, Expire(S) PROVE RInv'
  <2>1. /\ \A j \in S : jobs[j].status = "awaiting_captcha"
        /\ jobs' = [j \in JobIds |-> IF j \in S THEN Expired(jobs[j]) ELSE jobs[j]]
        /\ UNCHANGED worker
    BY <1>13 DEF Expire
  <2>2. \A j \in JobIds : Sound(jobs[j], jobs'[j])
    BY <1>2, <2>1, StatementsSound
  <2>3. QED
    BY <1>1, <2>1, <2>2, RowsAndWorkers
\* The remaining steps of requests touch neither rows nor workers.
<1>14. ASSUME NEW c \in Requests,
              \/ SubmitCheckActive(c) \/ SubmitPublish(c) \/ ResumePublish(c) \/ Disconnect(c)
              \/ \E u \in Urls : SubmitCheckReceipt(c, u)
              \/ \E j \in JobIds : ResumeRead(c, j)
       PROVE  RInv'
  BY <1>3, <1>14 DEF SubmitCheckActive, SubmitPublish, ResumePublish, Disconnect,
                     SubmitCheckReceipt, ResumeRead
<1>15. CASE UNCHANGED vars
  BY <1>3, <1>15 DEF vars
<1>16. QED
  BY <1>6, <1>7, <1>8, <1>9, <1>10, <1>11, <1>12, <1>13, <1>14, <1>15
     DEF Next, WorkerStep, RequestStep, Local

LEMMA RowsInvariant == Spec => []RInv
<1>1. Init => TypeInv /\ RInv
  <2> SUFFICES ASSUME Init PROVE TypeInv /\ RInv
    OBVIOUS
  <2>1. TypeInv
    BY InitType
  <2>2. RInv
    BY DEF Init, RInv, RowOK, NoJob, Busy, IdleWorker, At
  <2>3. QED
    BY <2>1, <2>2
<1>2. TypeInv /\ RInv /\ [Next]_vars => (TypeInv /\ RInv)'
  BY StepType, StutterType, StepRows
<1>3. QED
  BY <1>1, <1>2, PTL DEF Spec

\* Whatever calls fail, a job paused on the detail page has the summary its
\* resume needs, and the worker that resumes it has read one.
THEOREM DetailPausesKeepSummary == Spec => []DetailPauseHasSummary
<1>1. RInv => DetailPauseHasSummary
  BY DEF RInv, RowOK, Fits, Busy, DetailPauseHasSummary
<1>2. QED
  BY <1>1, RowsInvariant, PTL

\* Whatever calls fail, the page a user submitted is gone once its job rests.
THEOREM SubmittedPagesAreDropped == Spec => []PageHtmlOnlyInFlight
<1>1. RInv => PageHtmlOnlyInFlight
  BY DEF RInv, RowOK, PageHtmlOnlyInFlight
<1>2. QED
  BY <1>1, RowsInvariant, PTL

\* Whatever calls fail, captcha_expired is the verdict only of jobs for which
\* the limit of solutions was counted.
THEOREM ExpiryIsEarned == Spec => []ExpiredOnlyAfterTwoSolutions
<1>1. RInv => ExpiredOnlyAfterTwoSolutions
  BY DEF RInv, RowOK, ExpiredOnlyAfterTwoSolutions
<1>2. QED
  BY <1>1, RowsInvariant, PTL

-----------------------------------------------------------------------------
(***************************************************************************)
(* 6. Completed receipts are whole                                         *)
(*                                                                         *)
(* These facts, too, hold whatever calls go wrong.  The worker completes a *)
(* job some calls after it created the receipt; in between the receipt may *)
(* be deleted, and its id must not come back as another receipt.           *)
(***************************************************************************)
HasJob(c) == request[c].pc \in {"publish", "mark_failed", "resume", "publish_resume"}

\* Whoever refers to a job refers to one that was created.
KnownJobs ==
  /\ \A j \in Queued : jobs[j].status # "absent"
  /\ \A w \in Workers : Busy(w) => jobs[MsgOf(w).job].status # "absent"
  /\ \A c \in Requests : HasJob(c) => jobs[request[c].job].status # "absent"

Linked(row) ==
  row.receipt # NULL => /\ row.status = "completed"
                        /\ receipts[row.receipt].state = "whole"
                        /\ receipts[row.receipt].house = row.house
                        /\ receipts[row.receipt].url = row.url

\* The receipt a worker is about to fill or to link is the one it created for
\* its job, or nothing any more.
OwnReceipt(w) ==
  LET r == worker[w].receipt IN
  worker[w].pc \in {"items", "complete"} =>
    \/ receipts[r].state = "absent"
    \/ /\ receipts[r].house = RowOf(w).house
       /\ receipts[r].url = RowOf(w).url
       /\ worker[w].pc = "complete" => receipts[r].state = "whole"

LInv ==
  /\ KnownJobs
  /\ \A j \in JobIds : Linked(jobs[j])
  /\ \A w \in Workers : OwnReceipt(w)

\* What every statement does to house, URL and receipt of a row ...
Stays(row, new) ==
  row.status # "absent" => new.status # "absent" /\ new.house = row.house /\ new.url = row.url

\* ... and all but UpdateJobStatus(completed).
LinksNothing(row, new) ==
  new.receipt # NULL => new.status = "completed" /\ row.status = "completed" /\ new.receipt = row.receipt

Follows(row, new) == Stays(row, new) /\ LinksNothing(row, new)

\* What may happen to a receipt.
Changes(r) ==
  \/ receipts'[r] = receipts[r]
  \/ receipts[r].state = "absent" /\ \A w \in Workers : worker[w].receipt # r
  \/ /\ receipts'[r].state = "whole"
     /\ receipts'[r].house = receipts[r].house
     /\ receipts'[r].url = receipts[r].url
     /\ receipts[r].state # "absent"
  \/ receipts'[r].state = "absent" /\ \A j \in JobIds : jobs'[j].receipt # r

LEMMA StatementsFollow ==
  ASSUME NEW row \in Job, row.receipt # NULL => row.status = "completed"
  PROVE  /\ Follows(row, row)
         /\ \A s \in JobStatus : \A e : Follows(row, UpdateStatus(row, s, e, NULL))
         /\ \A s \in JobStatus : \A e, r : Stays(row, UpdateStatus(row, s, e, r))
         /\ \A phase, parsed : Follows(row, Paused(row, phase, parsed))
         /\ row.status = "awaiting_captcha" =>
              Follows(row, Expired(row)) /\ \A body : Follows(row, Resumed(row, body))
         /\ row.status = "absent" => \A h, u : Follows(row, Created(h, u))
         /\ \A r \in ReceiptIds : Follows(row, Unlinked(row, r))
<1> USE DEF Follows, Stays, LinksNothing
<1>1. ASSUME NEW s \in JobStatus, NEW e, NEW r
      PROVE  /\ Stays(row, UpdateStatus(row, s, e, r))
             /\ UpdateStatus(row, s, e, r).receipt = r
  BY DEF UpdateStatus, Job, JobStatus, ActiveStatus, SettledStatus
<1>2. ASSUME NEW phase, NEW parsed PROVE Follows(row, Paused(row, phase, parsed))
  BY DEF Paused, Job
<1>3. ASSUME row.status = "awaiting_captcha"
      PROVE  Follows(row, Expired(row)) /\ \A body : Follows(row, Resumed(row, body))
  BY <1>3 DEF Expired, Resumed, Job
<1>4. ASSUME row.status = "absent", NEW h, NEW u PROVE Follows(row, Created(h, u))
  BY <1>4 DEF Created, NoJob
<1>5. ASSUME NEW r \in ReceiptIds PROVE Follows(row, Unlinked(row, r))
  BY DEF Unlinked, Job
<1>6. QED
  BY <1>1, <1>2, <1>3, <1>4, <1>5

\* Links survive a step that treats rows and receipts so.
LEMMA LinksKept ==
  ASSUME TypeInv, TypeInv', LInv,
         \A j \in JobIds : Stays(jobs[j], jobs'[j]),
         \A j \in JobIds : Linked(jobs[j])' \/ LinksNothing(jobs[j], jobs'[j]),
         \A r \in ReceiptIds : Changes(r),
         \A w \in Workers : OwnReceipt(w)' \/ worker'[w] = worker[w]
  PROVE  (\A j \in JobIds : Linked(jobs[j]))' /\ (\A w \in Workers : OwnReceipt(w))'
<1>1. /\ jobs \in [JobIds -> Job]
      /\ jobs' \in [JobIds -> Job]
      /\ receipts \in [ReceiptIds -> Receipt]
      /\ receipts' \in [ReceiptIds -> Receipt]
  BY DEF TypeInv, TypeOK
<1>2. ASSUME NEW j \in JobIds, LinksNothing(jobs[j], jobs'[j]) PROVE Linked(jobs[j])'
  <2>1. SUFFICES ASSUME jobs'[j].receipt # NULL
                 PROVE  /\ jobs'[j].status = "completed"
                        /\ receipts'[jobs'[j].receipt].state = "whole"
                        /\ receipts'[jobs'[j].receipt].house = jobs'[j].house
                        /\ receipts'[jobs'[j].receipt].url = jobs'[j].url
    BY DEF Linked
  <2> DEFINE r == jobs'[j].receipt
  <2>2. r \in ReceiptIds /\ r = jobs[j].receipt /\ jobs[j].status = "completed" /\ jobs'[j].status = "completed"
    BY <1>1, <1>2, <2>1 DEF LinksNothing, Job
  <2>3. /\ receipts[r].state = "whole"
        /\ receipts[r].house = jobs'[j].house
        /\ receipts[r].url = jobs'[j].url
    BY <2>1, <2>2 DEF LInv, Linked, Stays
  <2>4. Changes(r) /\ \E i \in JobIds : jobs'[i].receipt = r
    BY <2>2
  <2> HIDE DEF r
  <2>5. receipts'[r].state = "whole" /\ receipts'[r].house = receipts[r].house /\ receipts'[r].url = receipts[r].url
    BY <2>2, <2>3, <2>4 DEF Changes
  <2>6. QED
    BY <2>2, <2>3, <2>5 DEF r
<1>3. ASSUME NEW w \in Workers, worker'[w] = worker[w] PROVE OwnReceipt(w)'
  <2> DEFINE r == worker[w].receipt
             j == MsgOf(w).job
  <2>1. SUFFICES ASSUME worker[w].pc \in {"items", "complete"}
                 PROVE  \/ receipts'[r].state = "absent"
                        \/ /\ receipts'[r].house = jobs'[j].house
                           /\ receipts'[r].url = jobs'[j].url
                           /\ worker[w].pc = "complete" => receipts'[r].state = "whole"
    BY <1>3 DEF OwnReceipt, RowOf, MsgOf
  <2>2. Busy(w) /\ j \in JobIds /\ r \in ReceiptIds
    BY <2>1, HolderIds, BusyRow DEF Busy, Carrying
  <2>3. jobs'[j].house = jobs[j].house /\ jobs'[j].url = jobs[j].url
    BY <2>2 DEF LInv, KnownJobs, Stays
  <2>4. \/ receipts[r].state = "absent"
        \/ /\ receipts[r].house = jobs[j].house
           /\ receipts[r].url = jobs[j].url
           /\ worker[w].pc = "complete" => receipts[r].state = "whole"
    BY <2>1 DEF LInv, OwnReceipt, RowOf
  <2>5. Changes(r) /\ ~ \A v \in Workers : worker[v].receipt # r
    BY <2>2
  <2> HIDE DEF r, j
  <2>6. \/ receipts'[r] = receipts[r]
        \/ receipts'[r].state = "absent"
        \/ /\ receipts[r].state # "absent"
           /\ receipts'[r].state = "whole"
           /\ receipts'[r].house = receipts[r].house
           /\ receipts'[r].url = receipts[r].url
    BY <2>2, <2>5 DEF Changes
  <2>7. QED
    BY <2>3, <2>4, <2>6
<1>4. QED
  BY <1>2, <1>3

\* So does what is known of jobs.
LEMMA KnownKept ==
  ASSUME TypeInv, TypeInv', LInv,
         \A j \in JobIds : Stays(jobs[j], jobs'[j]),
         \A j \in Queued' : jobs[j].status # "absent",
         \A w \in Workers : Busy(w)' => jobs[MsgOf(w)'.job].status # "absent",
         \A c \in Requests : HasJob(c)' =>
           jobs[request'[c].job].status # "absent" \/ jobs'[request'[c].job].status # "absent"
  PROVE  KnownJobs'
<1>1. \A j \in Queued' : j \in JobIds
  <2>1. ASSUME TypeOK' PROVE (Queued \subseteq JobIds)'
    <3>1. ASSUME NEW q \in Seq(Message) PROVE \A i \in DOMAIN q : q[i].job \in JobIds
      <4>1. \A i \in DOMAIN q : q[i] \in Message
        OBVIOUS
      <4>2. QED
        BY <4>1 DEF Message
    <3>2. jobQueue' \in Seq(Message) /\ resumeQueue' \in Seq(Message)
      BY <2>1 DEF TypeOK
    <3>3. QED
      BY <3>1, <3>2 DEF Queued, JobsIn
  <2>2. QED
    BY <2>1 DEF TypeInv
<1>2. \A w \in Workers : Busy(w)' => MsgOf(w)'.job \in JobIds
  BY DEF TypeInv, Shape, Busy, Message, MsgOf
<1>3. \A c \in Requests : HasJob(c)' => request'[c].job \in JobIds
  BY DEF TypeInv, Shape, HasJob
<1>4. \A j \in Queued' : jobs'[j].status # "absent"
  BY <1>1 DEF Stays
<1>5. \A w \in Workers : Busy(w)' => jobs'[MsgOf(w)'.job].status # "absent"
  BY <1>2 DEF Stays
<1>6. \A c \in Requests : HasJob(c)' => jobs'[request'[c].job].status # "absent"
  BY <1>3 DEF Stays
<1>7. QED
  BY <1>4, <1>5, <1>6 DEF KnownJobs, MsgOf

\* What a step of worker w that leaves Redis alone does to links.
LinksOf(w) ==
  /\ \A j \in JobIds : Stays(jobs[j], jobs'[j])
  /\ \A j \in JobIds : Linked(jobs[j])' \/ LinksNothing(jobs[j], jobs'[j])
  /\ \A r \in ReceiptIds : Changes(r)
  /\ OwnReceipt(w)'

LEMMA LocalLinks ==
  ASSUME TypeInv, LInv, NEW w \in Workers, Local(w)
  PROVE  LinksOf(w)
<1>1. Busy(w)
  BY DEF Busy, Local, Begin, Fetch, LoadOwner, Load, ResumeBadCookies, ResumeSummary,
         ResumeDetail, Pause, CreateReceipt, CreateItems, Complete, Requeue, Fail, Crash
<1>2. /\ MsgOf(w).job \in JobIds
      /\ MsgOf(w) \in Message
      /\ RowOf(w) = jobs[MsgOf(w).job]
      /\ RowOf(w) \in Job
      /\ jobs \in [JobIds -> Job]
      /\ receipts \in [ReceiptIds -> Receipt]
      /\ worker \in [Workers -> Worker]
      /\ worker[w] \in Worker
  BY <1>1, BusyRow, HolderIds DEF Busy, RowOf, TypeInv, TypeOK
<1>3. \A j \in JobIds : jobs[j].receipt # NULL => jobs[j].status = "completed"
  BY DEF LInv, Linked
<1>4. \A j \in JobIds : Follows(jobs[j], jobs[j])
  BY <1>2, <1>3, StatementsFollow
<1>5. ASSUME UNCHANGED receipts PROVE \A r \in ReceiptIds : Changes(r)
  BY <1>5 DEF Changes
<1>6. ASSUME NEW next, next.pc \notin {"items", "complete"}, worker' = [worker EXCEPT ![w] = next]
      PROVE  OwnReceipt(w)'
  BY <1>2, <1>6 DEF OwnReceipt
\* A decision that leaves the tables alone.
<1>7. ASSUME NEW next, next.pc \notin {"items", "complete"}, worker' = [worker EXCEPT ![w] = next],
             UNCHANGED <<jobs, receipts>>
      PROVE  LinksOf(w)
  BY <1>4, <1>5, <1>6, <1>7 DEF LinksOf, Follows
\* A statement that links nothing.
<1>8. ASSUME NEW next, next.pc \notin {"items", "complete"}, worker' = [worker EXCEPT ![w] = next],
             NEW row, Follows(RowOf(w), row), NEW reply, Write(MsgOf(w).job, row, reply),
             UNCHANGED receipts
      PROVE  LinksOf(w)
  <2>1. \A j \in JobIds : Follows(jobs[j], jobs'[j])
    BY <1>2, <1>4, <1>8 DEF Write
  <2>2. QED
    BY <1>5, <1>6, <1>8, <2>1 DEF LinksOf, Follows
<1>9. /\ \A pc, m : At(pc, m).pc = pc
      /\ IdleWorker.pc = "idle"
      /\ \A e : Failing(w, e).pc = "fail" /\ Failed(w, e).pc \in {"requeue", "fail"}
      /\ \A phase, p : Pausing(w, phase, p).pc = "pause"
      /\ \A p : Persisting(w, p).pc = "receipt"
      /\ \A phase : ChallengedAgain(w, phase).pc \in {"fail", "pause"}
      /\ FromSummary(w).pc \in {"requeue", "fail", "receipt"}
  BY DEF At, IdleWorker, Failing, Failed, Pausing, Persisting, ChallengedAgain, FromSummary
<1>10. ASSUME NEW next, next.pc \notin {"items", "complete"}, Decide(w, next) PROVE LinksOf(w)
  BY <1>7, <1>10 DEF Decide
<1>11. \A s \in JobStatus : \A e : Follows(RowOf(w), UpdateStatus(RowOf(w), s, e, NULL))
  BY <1>2, <1>3, StatementsFollow
<1>12. CASE Begin(w)
  <2> DEFINE row == UpdateStatus(RowOf(w), "processing", "none", NULL)
  <2>1. PICK reply \in WriteReply :
          /\ Write(MsgOf(w).job, row, reply)
          /\ \/ worker' = [worker EXCEPT ![w] = IdleWorker]
             \/ worker' = [worker EXCEPT ![w] = At("load", MsgOf(w))]
             \/ worker' = [worker EXCEPT ![w] = At("fetch", MsgOf(w))]
    BY <1>12 DEF Begin
  <2>2. Follows(RowOf(w), row)
    BY <1>11 DEF JobStatus, ActiveStatus
  <2> HIDE DEF row
  <2>3. At("load", MsgOf(w)).pc = "load" /\ At("fetch", MsgOf(w)).pc = "fetch"
    BY DEF At
  <2>4. UNCHANGED receipts
    BY <1>12 DEF Begin
  <2>5. PICK next : next.pc \notin {"items", "complete"} /\ worker' = [worker EXCEPT ![w] = next]
    BY <1>9, <2>1, <2>3
  <2>6. QED
    BY <1>8, <2>1, <2>2, <2>4, <2>5
<1>13. CASE Fetch(w)
  <2>1. \A p : [At("load_owner", MsgOf(w)) EXCEPT !.parsed = p].pc = "load_owner"
    BY DEF At
  <2>2. QED
    BY <1>9, <1>10, <1>13, <2>1 DEF Fetch
<1>14. CASE LoadOwner(w)
  <2>1. /\ UNCHANGED <<jobs, receipts>>
        /\ \/ worker' = [worker EXCEPT ![w] = Persisting(w, worker[w].parsed)]
           \/ worker' = [worker EXCEPT ![w] = Failing(w, "unknown")]
    BY <1>14 DEF LoadOwner
  <2>2. QED
    BY <1>7, <1>9, <2>1
<1>15. CASE Load(w)
  <2> DEFINE loaded == [At("resume", MsgOf(w)) EXCEPT !.seen = RowOf(w)]
  <2>1. /\ UNCHANGED <<jobs, receipts>>
        /\ \/ worker' = [worker EXCEPT ![w] = loaded]
           \/ worker' = [worker EXCEPT ![w] = IdleWorker]
    BY <1>15 DEF Load
  <2>2. loaded.pc = "resume"
    BY DEF At
  <2> HIDE DEF loaded
  <2>3. QED
    BY <1>7, <1>9, <2>1, <2>2
<1>16. CASE ResumeBadCookies(w) \/ ResumeSummary(w) \/ ResumeDetail(w)
  BY <1>9, <1>10, <1>16 DEF ResumeBadCookies, ResumeSummary, ResumeDetail
<1>17. CASE Pause(w)
  <2> DEFINE row == Paused(RowOf(w), worker[w].phase, worker[w].parsed)
  <2>1. PICK reply \in WriteReply :
          /\ Write(MsgOf(w).job, row, reply)
          /\ \/ worker' = [worker EXCEPT ![w] = IdleWorker]
             \/ worker' = [worker EXCEPT ![w] = Failing(w, "captcha")]
    BY <1>17 DEF Pause
  <2>2. Follows(RowOf(w), row)
    BY <1>2, <1>3, StatementsFollow
  <2> HIDE DEF row
  <2>3. QED
    BY <1>8, <1>9, <1>17, <2>1, <2>2 DEF Pause
<1>18. CASE CreateReceipt(w)
  <2>1. CASE Decide(w, Failing(w, "unknown"))
    BY <1>9, <1>10, <2>1
  <2>2. CASE worker' = [worker EXCEPT ![w] = Failing(w, "unknown")] /\ UNCHANGED <<jobs, receipts>>
    BY <1>7, <1>9, <2>2
  <2>3. ASSUME NEW r \in FreshReceipt, UNCHANGED jobs,
               NEW state,
               receipts' = [receipts EXCEPT ![r] = [state |-> state, house |-> RowOf(w).house,
                                                    url |-> RowOf(w).url]],
               \/ worker' = [worker EXCEPT ![w] = Failing(w, "unknown")]
               \/ /\ state = "whole"
                  /\ worker' = [worker EXCEPT ![w] = [At("complete", MsgOf(w)) EXCEPT !.receipt = r]]
               \/ /\ worker' = [worker EXCEPT ![w] = [At("items", MsgOf(w)) EXCEPT !.receipt = r]]
        PROVE  LinksOf(w)
    <3>1. /\ r \in ReceiptIds
          /\ receipts[r].state = "absent"
          /\ \A v \in Workers : worker[v].receipt # r
      BY <2>3 DEF FreshReceipt
    <3>2. \A q \in ReceiptIds : Changes(q)
      BY <1>2, <2>3, <3>1 DEF Changes
    <3>3. OwnReceipt(w)'
      <4>1. CASE worker' = [worker EXCEPT ![w] = Failing(w, "unknown")]
        BY <1>6, <1>9, <4>1
      <4>2. ASSUME NEW pc, pc = "complete" => state = "whole",
                   worker' = [worker EXCEPT ![w] = [At(pc, MsgOf(w)) EXCEPT !.receipt = r]]
            PROVE  OwnReceipt(w)'
        <5>1. /\ worker'[w].pc = pc
              /\ worker'[w].receipt = r
              /\ worker'[w].msg = MsgOf(w)
          BY <1>2, <4>2 DEF At
        <5>2. /\ receipts'[r].state = state
              /\ receipts'[r].house = RowOf(w).house
              /\ receipts'[r].url = RowOf(w).url
          BY <1>2, <2>3, <3>1
        <5>3. RowOf(w)' = RowOf(w)
          BY <1>2, <2>3, <5>1 DEF RowOf, MsgOf
        <5>4. QED
          BY <4>2, <5>1, <5>2, <5>3 DEF OwnReceipt
      <4>3. QED
        BY <2>3, <4>1, <4>2
    <3>4. QED
      BY <1>4, <2>3, <3>2, <3>3 DEF LinksOf, Follows
  <2>4. CASE UNCHANGED jobs /\ \E reply \in WriteReply, r \in FreshReceipt :
             /\ receipts' = IF reply = "db_error" THEN receipts
                            ELSE [receipts EXCEPT ![r] =
                                    [state |-> IF worker[w].parsed = "empty" THEN "whole"
                                                                             ELSE "header",
                                     house |-> RowOf(w).house, url |-> RowOf(w).url]]
             /\ worker' = [worker EXCEPT ![w] =
                             IF reply # "ok" THEN Failing(w, "unknown")
                             ELSE [At(IF worker[w].parsed = "empty" THEN "complete" ELSE "items",
                                      MsgOf(w)) EXCEPT !.receipt = r]]
    <3>1. PICK reply \in WriteReply, r \in FreshReceipt :
             /\ receipts' = IF reply = "db_error" THEN receipts
                            ELSE [receipts EXCEPT ![r] =
                                    [state |-> IF worker[w].parsed = "empty" THEN "whole"
                                                                             ELSE "header",
                                     house |-> RowOf(w).house, url |-> RowOf(w).url]]
             /\ worker' = [worker EXCEPT ![w] =
                             IF reply # "ok" THEN Failing(w, "unknown")
                             ELSE [At(IF worker[w].parsed = "empty" THEN "complete" ELSE "items",
                                      MsgOf(w)) EXCEPT !.receipt = r]]
      BY <2>4
    <3>2. CASE reply = "db_error"
      BY <2>2, <2>4, <3>1, <3>2
    <3>3. CASE reply # "db_error" /\ worker[w].parsed = "empty"
      BY <2>3, <2>4, <3>1, <3>3
    <3>4. CASE reply # "db_error" /\ worker[w].parsed # "empty"
      BY <2>3, <2>4, <3>1, <3>4
    <3>5. QED
      BY <3>2, <3>3, <3>4
  <2>5. QED
    BY <1>18, <2>1, <2>4 DEF CreateReceipt
<1>19. worker[w].pc \in {"items", "complete"} =>
         /\ worker[w].receipt \in ReceiptIds
         /\ receipts[worker[w].receipt].state # "absent" =>
              /\ receipts[worker[w].receipt].house = RowOf(w).house
              /\ receipts[worker[w].receipt].url = RowOf(w).url
              /\ worker[w].pc = "complete" => receipts[worker[w].receipt].state = "whole"
  BY <1>1, BusyRow DEF LInv, OwnReceipt, Busy, Carrying
<1>20. CASE CreateItems(w)
  <2> DEFINE next == [worker[w] EXCEPT !.pc = "complete"]
             r    == worker[w].receipt
  <2>1. CASE Decide(w, Failing(w, "unknown"))
    BY <1>9, <1>10, <2>1
  <2>2. CASE worker' = [worker EXCEPT ![w] = Failing(w, "unknown")] /\ UNCHANGED <<jobs, receipts>>
    BY <1>7, <1>9, <2>2
  <2>3. ASSUME receipts[r].state # "absent", UNCHANGED jobs,
               receipts' = [receipts EXCEPT ![r].state = "whole"],
               \/ worker' = [worker EXCEPT ![w] = Failing(w, "unknown")]
               \/ worker' = [worker EXCEPT ![w] = next]
        PROVE  LinksOf(w)
    <3>1. /\ r \in ReceiptIds
          /\ receipts[r].house = RowOf(w).house
          /\ receipts[r].url = RowOf(w).url
      BY <1>19, <1>20, <2>3 DEF CreateItems
    <3>2. /\ receipts'[r].state = "whole"
          /\ receipts'[r].house = receipts[r].house
          /\ receipts'[r].url = receipts[r].url
          /\ \A q \in ReceiptIds : q # r => receipts'[q] = receipts[q]
      BY <1>2, <2>3, <3>1 DEF Receipt
    <3>3. \A q \in ReceiptIds : Changes(q)
      BY <2>3, <3>2 DEF Changes
    <3>4. OwnReceipt(w)'
      <4>1. CASE worker' = [worker EXCEPT ![w] = Failing(w, "unknown")]
        BY <1>6, <1>9, <4>1
      <4>2. CASE worker' = [worker EXCEPT ![w] = next]
        <5>1. worker'[w].receipt = r /\ worker'[w].msg = MsgOf(w)
          BY <1>2, <4>2 DEF MsgOf, Worker
        <5>2. RowOf(w)' = RowOf(w)
          BY <1>2, <2>3, <5>1 DEF RowOf, MsgOf
        <5> HIDE DEF r
        <5>3. QED
          BY <3>1, <3>2, <5>1, <5>2 DEF OwnReceipt
      <4>3. QED
        BY <2>3, <4>1, <4>2
    <3>5. QED
      BY <1>4, <2>3, <3>3, <3>4 DEF LinksOf, Follows
  <2>4. PICK reply :
          \/ Decide(w, Failing(w, "unknown"))
          \/ /\ receipts[r].state # "absent"
             /\ UNCHANGED jobs
             /\ receipts' = IF reply = "db_error" THEN receipts ELSE [receipts EXCEPT ![r].state = "whole"]
             /\ worker' = [worker EXCEPT ![w] = IF reply = "ok" THEN next ELSE Failing(w, "unknown")]
    BY <1>20 DEF CreateItems
  <2> HIDE DEF next, r
  <2>5. CASE reply = "db_error"
    BY <2>1, <2>2, <2>4, <2>5
  <2>6. CASE reply = "ok"
    BY <2>1, <2>3, <2>4, <2>6
  <2>7. CASE reply \notin {"ok", "db_error"}
    BY <2>1, <2>3, <2>4, <2>7
  <2>8. QED
    BY <2>5, <2>6, <2>7
<1>21. CASE Complete(w)
  <2> DEFINE r   == worker[w].receipt
             row == UpdateStatus(RowOf(w), "completed", "none", r)
  <2>1. CASE Decide(w, Failing(w, "unknown"))
    BY <1>9, <1>10, <2>1
  <2>2. ASSUME receipts[r].state # "absent", UNCHANGED receipts,
               NEW next, next.pc \notin {"items", "complete"}, worker' = [worker EXCEPT ![w] = next],
               NEW reply, Write(MsgOf(w).job, row, reply)
        PROVE  LinksOf(w)
    <3>1. /\ receipts[r].state = "whole"
          /\ receipts[r].house = RowOf(w).house
          /\ receipts[r].url = RowOf(w).url
      BY <1>19, <1>21, <2>2 DEF Complete
    <3>2. /\ row.status = "completed"
          /\ row.receipt = r
          /\ row.house = RowOf(w).house
          /\ row.url = RowOf(w).url
      BY <1>2 DEF UpdateStatus, Job
    <3>3. Stays(RowOf(w), row)
      BY <3>2 DEF Stays
    <3> HIDE DEF row, r
    <3>4. CASE UNCHANGED jobs
      BY <1>7, <2>2, <3>4
    <3>5. CASE jobs' = [jobs EXCEPT ![MsgOf(w).job] = row]
      <4>1. jobs'[MsgOf(w).job] = row /\ \A j \in JobIds : j # MsgOf(w).job => jobs'[j] = jobs[j]
        BY <1>2, <3>5
      <4>2. Linked(jobs[MsgOf(w).job]) \in BOOLEAN /\ receipts' = receipts
        BY <2>2 DEF Linked
      <4>3. \A j \in JobIds : j = MsgOf(w).job => Linked(jobs[j])'
        BY <3>1, <3>2, <4>1, <4>2 DEF Linked
      <4>4. \A j \in JobIds : Linked(jobs[j])' \/ LinksNothing(jobs[j], jobs'[j])
        BY <1>4, <4>1, <4>3 DEF Follows
      <4>5. \A j \in JobIds : Stays(jobs[j], jobs'[j])
        BY <1>2, <1>4, <3>3, <4>1 DEF Follows
      <4>6. QED
        BY <1>5, <1>6, <2>2, <4>4, <4>5 DEF LinksOf
    <3>6. QED
      BY <2>2, <3>4, <3>5 DEF Write, row
  <2>3. PICK reply :
          \/ Decide(w, Failing(w, "unknown"))
          \/ /\ receipts[r].state # "absent"
             /\ UNCHANGED receipts
             /\ Write(MsgOf(w).job, row, reply)
             /\ worker' = [worker EXCEPT ![w] = IF reply = "ok" THEN IdleWorker
                                                                ELSE Failing(w, "unknown")]
    BY <1>21 DEF Complete
  <2> HIDE DEF row, r
  <2>4. CASE reply = "ok"
    BY <1>9, <2>1, <2>2, <2>3, <2>4
  <2>5. CASE reply # "ok"
    BY <1>9, <2>1, <2>2, <2>3, <2>5
  <2>6. QED
    BY <2>4, <2>5
<1>22. CASE Requeue(w)
  <2> DEFINE row  == UpdateStatus(RowOf(w), "queued", "none", NULL)
             next == [worker[w] EXCEPT !.pc = "enqueue"]
  <2>1. PICK reply \in WriteReply : Write(MsgOf(w).job, row, reply)
    BY <1>22 DEF Requeue
  <2>2. Follows(RowOf(w), row)
    BY <1>11 DEF JobStatus, ActiveStatus
  <2>3. next.pc = "enqueue"
    BY <1>2 DEF Worker
  <2>4. worker' = [worker EXCEPT ![w] = next] /\ UNCHANGED receipts
    BY <1>22 DEF Requeue
  <2> HIDE DEF row, next
  <2>5. QED
    BY <1>8, <2>1, <2>2, <2>3, <2>4
<1>23. CASE Fail(w)
  <2> DEFINE row == UpdateStatus(RowOf(w), "failed", worker[w].reason, NULL)
  <2>1. PICK reply \in WriteReply : Write(MsgOf(w).job, row, reply)
    BY <1>23 DEF Fail
  <2>2. Follows(RowOf(w), row)
    BY <1>11 DEF JobStatus, SettledStatus
  <2> HIDE DEF row
  <2>3. QED
    BY <1>8, <1>9, <1>23, <2>1, <2>2 DEF Fail
<1>24. CASE Crash(w)
  BY <1>7, <1>9, <1>24 DEF Crash
<1>25. QED
  BY <1>12, <1>13, <1>14, <1>15, <1>16, <1>17, <1>18, <1>20, <1>21, <1>22, <1>23, <1>24 DEF Local

LEMMA PushedJobs ==
  ASSUME NEW q \in Seq(Message), NEW m \in Message, NEW reply
  PROVE  JobsIn(Pushed(q, m, reply)) \subseteq JobsIn(q) \cup {m.job}
<1> DEFINE once == Append(q, m)
<1>1. once \in Seq(Message) /\ JobsIn(once) = JobsIn(q) \cup {m.job}
  BY PushAddsOneJob
<1> HIDE DEF once
<1>2. JobsIn(Append(once, m)) = JobsIn(once) \cup {m.job}
  BY <1>1, PushAddsOneJob
<1>3. QED
  BY <1>1, <1>2 DEF Pushed, once

\* Every step.
LEMMA StepLinks ==
  ASSUME TypeInv, LInv, [Next]_vars
  PROVE  LInv'
<1>1. TypeInv'
  BY StepType, StutterType
<1>2. /\ jobs \in [JobIds -> Job]
      /\ receipts \in [ReceiptIds -> Receipt]
      /\ worker \in [Workers -> Worker]
      /\ request \in [Requests -> Request]
      /\ jobQueue \in Seq(Message)
      /\ resumeQueue \in Seq(Message)
  BY DEF TypeInv, TypeOK
<1>3. \A j \in JobIds : jobs[j].receipt # NULL => jobs[j].status = "completed"
  BY DEF LInv, Linked
<1>4. \A j \in JobIds : Follows(jobs[j], jobs[j])
  BY <1>2, <1>3, StatementsFollow
<1>5. /\ \A j \in Queued : jobs[j].status # "absent"
      /\ \A w \in Workers : Busy(w) => jobs[MsgOf(w).job].status # "absent"
      /\ \A c \in Requests : HasJob(c) => jobs[request[c].job].status # "absent"
  BY DEF LInv, KnownJobs
\* A step of workers, or of lists, that leaves the tables and requests alone.
<1>6. ASSUME UNCHANGED <<jobs, receipts, request>>,
             \A j \in Queued' : jobs[j].status # "absent",
             \A w \in Workers : \/ worker'[w] = worker[w]
                                \/ /\ worker'[w].pc \notin {"items", "complete"}
                                   /\ Busy(w)' => jobs[MsgOf(w)'.job].status # "absent"
      PROVE  LInv'
  <2>1. \A w \in Workers : OwnReceipt(w)' \/ worker'[w] = worker[w]
    BY <1>6 DEF OwnReceipt
  <2>2. \A w \in Workers : Busy(w)' => jobs[MsgOf(w)'.job].status # "absent"
    BY <1>5, <1>6 DEF Busy, MsgOf
  <2>3. \A c \in Requests : HasJob(c)' => jobs[request'[c].job].status # "absent"
    BY <1>5, <1>6 DEF HasJob
  <2>4. (\A r \in ReceiptIds : Changes(r)) /\ \A j \in JobIds : Follows(jobs[j], jobs'[j])
    BY <1>4, <1>6 DEF Changes
  <2>5. (\A j \in JobIds : Linked(jobs[j]))' /\ (\A w \in Workers : OwnReceipt(w))'
    BY <1>1, <2>1, <2>4, LinksKept DEF Follows
  <2>6. KnownJobs'
    BY <1>1, <1>6, <2>2, <2>3, <2>4, KnownKept DEF Follows
  <2>7. QED
    BY <2>5, <2>6 DEF LInv
\* A step of a request or of the ticker on rows and receipts.
<1>7. ASSUME UNCHANGED worker,
             \A j \in JobIds : Follows(jobs[j], jobs'[j]),
             \A r \in ReceiptIds : Changes(r),
             \A j \in Queued' : jobs[j].status # "absent",
             \A c \in Requests : HasJob(c)' =>
               jobs[request'[c].job].status # "absent" \/ jobs'[request'[c].job].status # "absent"
      PROVE  LInv'
  <2>1. \A w \in Workers : Busy(w)' => jobs[MsgOf(w)'.job].status # "absent"
    BY <1>5, <1>7 DEF Busy, MsgOf
  <2>2. (\A j \in JobIds : Linked(jobs[j]))' /\ (\A w \in Workers : OwnReceipt(w))'
    BY <1>1, <1>7, LinksKept DEF Follows
  <2>3. KnownJobs'
    BY <1>1, <1>7, <2>1, KnownKept DEF Follows
  <2>4. QED
    BY <2>2, <2>3 DEF LInv
<1>8. ASSUME UNCHANGED <<jobQueue, resumeQueue>> PROVE \A j \in Queued' : jobs[j].status # "absent"
  BY <1>5, <1>8 DEF Queued, JobsIn
<1>9. ASSUME UNCHANGED receipts PROVE \A r \in ReceiptIds : Changes(r)
  BY <1>9 DEF Changes
<1>10. ASSUME NEW j \in JobIds, NEW row, Follows(jobs[j], row), NEW reply, Write(j, row, reply)
       PROVE  \A i \in JobIds : Follows(jobs[i], jobs'[i])
  BY <1>2, <1>4, <1>10 DEF Write
\* A request that turns to x: it refers to no job, or to a known one.
<1>11. ASSUME NEW c \in Requests, NEW x, request' = [request EXCEPT ![c] = x],
              x.pc \in {"publish", "mark_failed", "resume", "publish_resume"} =>
                jobs[x.job].status # "absent" \/ jobs'[x.job].status # "absent"
       PROVE  \A d \in Requests : HasJob(d)' =>
                jobs[request'[d].job].status # "absent" \/ jobs'[request'[d].job].status # "absent"
  BY <1>2, <1>5, <1>11 DEF HasJob
<1>12. IdleRequest.pc = "idle"
  BY IdleRequestShape
<1>13. ASSUME NEW w \in Workers, Local(w) PROVE LInv'
  <2>1. LinksOf(w)
    BY <1>13, LocalLinks
  <2>2. Busy(w)
    BY <1>13 DEF Busy, Local, Begin, Fetch, LoadOwner, Load, ResumeBadCookies, ResumeSummary,
           ResumeDetail, Pause, CreateReceipt, CreateItems, Complete, Requeue, Fail, Crash
  <2>3. PICK next \in Carrying(MsgOf(w)) \cup {IdleWorker}, row \in Job : Moves(w, next, row)
    BY <1>13, LocalMoves DEF Moving
  <2>4. /\ worker' = [worker EXCEPT ![w] = next]
        /\ UNCHANGED <<jobQueue, resumeQueue, request>>
    BY <2>3 DEF Moves, redis
  <2>5. \A v \in Workers : v # w => worker'[v] = worker[v]
    BY <1>2, <2>4
  <2>6. Busy(w)' => MsgOf(w)' = MsgOf(w)
    BY <1>2, <2>4 DEF Busy, MsgOf, Carrying, IdleWorker, At
  <2>7. \A v \in Workers : Busy(v)' => jobs[MsgOf(v)'.job].status # "absent"
    BY <1>5, <2>2, <2>5, <2>6 DEF Busy, MsgOf
  <2>8. \A c \in Requests : HasJob(c)' => jobs[request'[c].job].status # "absent"
    BY <1>5, <2>4 DEF HasJob
  <2>9. KnownJobs'
    BY <1>1, <1>8, <2>1, <2>4, <2>7, <2>8, KnownKept DEF LinksOf
  <2>10. (\A j \in JobIds : Linked(jobs[j]))' /\ (\A v \in Workers : OwnReceipt(v))'
    BY <1>1, <2>1, <2>5, LinksKept DEF LinksOf
  <2>11. QED
    BY <2>9, <2>10 DEF LInv
<1>14. ASSUME NEW w \in Workers, Dequeue(w) PROVE LInv'
  <2>1. PICK m \in Message :
          /\ m.job \in Queued
          /\ Queued' \subseteq Queued
          /\ \/ worker' = [worker EXCEPT ![w] = At("begin", m)]
             \/ worker' = [worker EXCEPT ![w] = IdleWorker]
    <3>1. CASE /\ resumeQueue # <<>>
               /\ resumeQueue' = Tail(resumeQueue)
               /\ UNCHANGED jobQueue
               /\ \/ worker' = [worker EXCEPT ![w] = At("begin", Head(resumeQueue))]
                  \/ worker' = [worker EXCEPT ![w] = IdleWorker]
      <4>1. /\ Head(resumeQueue) \in Message
            /\ JobsIn(resumeQueue) = JobsIn(resumeQueue') \cup {Head(resumeQueue).job}
        BY <1>2, <3>1, PopRemovesOneJob
      <4>2. QED
        BY <3>1, <4>1 DEF Queued, JobsIn
    <3>2. CASE /\ jobQueue # <<>>
               /\ jobQueue' = Tail(jobQueue)
               /\ UNCHANGED resumeQueue
               /\ \/ worker' = [worker EXCEPT ![w] = At("begin", Head(jobQueue))]
                  \/ worker' = [worker EXCEPT ![w] = IdleWorker]
      <4>1. /\ Head(jobQueue) \in Message
            /\ JobsIn(jobQueue) = JobsIn(jobQueue') \cup {Head(jobQueue).job}
        BY <1>2, <3>2, PopRemovesOneJob
      <4>2. QED
        BY <3>2, <4>1 DEF Queued, JobsIn
    <3>3. QED
      BY <1>14, <3>1, <3>2 DEF Dequeue
  <2>2. UNCHANGED <<jobs, receipts, request>>
    BY <1>14 DEF Dequeue
  <2>3. \A v \in Workers : v # w => worker'[v] = worker[v]
    BY <1>2, <2>1
  <2>4. /\ worker'[w].pc \notin {"items", "complete"}
        /\ Busy(w)' => MsgOf(w)'.job = m.job
    BY <1>2, <2>1 DEF Busy, MsgOf, IdleWorker, At
  <2>5. jobs[m.job].status # "absent"
    BY <1>5, <2>1
  <2>6. QED
    BY <1>5, <1>6, <2>1, <2>2, <2>3, <2>4, <2>5
<1>15. ASSUME NEW w \in Workers, Enqueue(w) PROVE LInv'
  <2> DEFINE retry == [job |-> MsgOf(w).job, attempt |-> MsgOf(w).attempt + 1, resume |-> FALSE]
  <2>1. Busy(w) /\ UNCHANGED <<jobs, receipts, resumeQueue, request>>
    BY <1>15 DEF Enqueue, Busy
  <2>2. retry \in Message /\ retry.job = MsgOf(w).job
    BY <2>1 DEF TypeInv, Shape, Busy, Message
  <2> HIDE DEF retry
  <2>3. PICK reply \in PushReply :
          /\ jobQueue' = Pushed(jobQueue, retry, reply)
          /\ \/ worker' = [worker EXCEPT ![w] = IdleWorker]
             \/ worker' = [worker EXCEPT ![w] = Failing(w, worker[w].reason)]
    BY <1>15 DEF Enqueue, retry
  <2>4. JobsIn(jobQueue') \subseteq JobsIn(jobQueue) \cup {MsgOf(w).job}
    BY <1>2, <2>2, <2>3, PushedJobs
  <2>5. Queued' \subseteq Queued \cup {MsgOf(w).job}
    BY <2>1, <2>4 DEF Queued, JobsIn
  <2>6. \A v \in Workers : v # w => worker'[v] = worker[v]
    BY <1>2, <2>3
  <2>7. /\ worker'[w].pc \notin {"items", "complete"}
        /\ Busy(w)' => MsgOf(w)'.job = MsgOf(w).job
    BY <1>2, <2>3 DEF Busy, MsgOf, IdleWorker, At, Failing
  <2>8. QED
    BY <1>5, <1>6, <2>1, <2>5, <2>6, <2>7
<1>16. ASSUME NEW c \in Requests, NEW u \in Urls, SubmitCheckReceipt(c, u) PROVE LInv'
  <2> DEFINE x == [IdleRequest EXCEPT !.pc = "check_active", !.url = u]
  <2>1. x.pc = "check_active"
    BY DEF IdleRequest
  <2>2. /\ request' = [request EXCEPT ![c] = x]
        /\ UNCHANGED <<jobs, receipts, jobQueue, resumeQueue, worker>>
    BY <1>16 DEF SubmitCheckReceipt, redis
  <2> HIDE DEF x
  <2>3. QED
    BY <1>4, <1>7, <1>8, <1>9, <1>11, <2>1, <2>2
<1>17. ASSUME NEW c \in Requests, SubmitCheckActive(c) PROVE LInv'
  <2> DEFINE x == [request[c] EXCEPT !.pc = "create"]
  <2>1. x.pc = "create"
    BY <1>2 DEF Request
  <2>2. /\ request' = [request EXCEPT ![c] = x] \/ request' = [request EXCEPT ![c] = IdleRequest]
        /\ UNCHANGED <<jobs, receipts, jobQueue, resumeQueue, worker>>
    BY <1>17 DEF SubmitCheckActive, redis
  <2> HIDE DEF x
  <2>3. QED
    BY <1>4, <1>7, <1>8, <1>9, <1>11, <1>12, <2>1, <2>2
<1>18. ASSUME NEW c \in Requests, SubmitCreate(c) PROVE LInv'
  <2> DEFINE row == Created(HouseOf[c], request[c].url)
  <2>1. PICK reply \in WriteReply, j \in JobIds :
          /\ jobs[j].status = "absent"
          /\ Write(j, row, reply)
          /\ request' = [request EXCEPT ![c] =
                           IF reply = "ok" THEN [IdleRequest EXCEPT !.pc = "publish", !.job = j]
                                           ELSE IdleRequest]
    BY <1>18 DEF SubmitCreate
  <2> DEFINE x == [IdleRequest EXCEPT !.pc = "publish", !.job = j]
  <2>2. Follows(jobs[j], row)
    BY <1>2, <1>3, <2>1, StatementsFollow
  <2>3. row.status = "queued" /\ x.job = j
    BY DEF Created, NoJob, IdleRequest
  <2>4. UNCHANGED <<receipts, jobQueue, resumeQueue, worker>>
    BY <1>18 DEF SubmitCreate, redis
  <2> HIDE DEF row
  <2>5. \A i \in JobIds : Follows(jobs[i], jobs'[i])
    BY <1>10, <2>1, <2>2
  <2> HIDE DEF x
  <2>6. CASE reply = "ok"
    <3>1. request' = [request EXCEPT ![c] = x] /\ jobs'[x.job].status # "absent"
      BY <1>2, <2>1, <2>3, <2>6 DEF Write, x
    <3>2. QED
      BY <1>7, <1>8, <1>9, <1>11, <2>4, <2>5, <3>1
  <2>7. CASE reply # "ok"
    BY <1>7, <1>8, <1>9, <1>11, <1>12, <2>1, <2>4, <2>5, <2>7
  <2>8. QED
    BY <2>6, <2>7
<1>19. ASSUME NEW c \in Requests, SubmitPublish(c) PROVE LInv'
  <2> DEFINE x     == [request[c] EXCEPT !.pc = "mark_failed"]
             fresh == [job |-> request[c].job, attempt |-> 0, resume |-> FALSE]
  <2>1. /\ HasJob(c)
        /\ x.job = request[c].job
        /\ fresh \in Message
        /\ fresh.job = request[c].job
    BY <1>2, <1>19, HolderIds DEF SubmitPublish, HasJob, Holding, Request, Message
  <2>2. jobs[x.job].status # "absent" /\ jobs[request[c].job].status # "absent"
    BY <1>5, <2>1
  <2> HIDE DEF x, fresh
  <2>3. PICK reply \in PushReply :
          /\ jobQueue' = Pushed(jobQueue, fresh, reply)
          /\ request' = [request EXCEPT ![c] = x] \/ request' = [request EXCEPT ![c] = IdleRequest]
    BY <1>19 DEF SubmitPublish, x, fresh
  <2>4. UNCHANGED <<jobs, receipts, resumeQueue, worker>>
    BY <1>19 DEF SubmitPublish
  <2>5. JobsIn(jobQueue') \subseteq JobsIn(jobQueue) \cup {request[c].job}
    BY <1>2, <2>1, <2>3, PushedJobs
  <2>6. \A j \in Queued' : jobs[j].status # "absent"
    BY <1>5, <2>2, <2>4, <2>5 DEF Queued, JobsIn
  <2>7. QED
    BY <1>4, <1>7, <1>9, <1>11, <1>12, <2>2, <2>3, <2>4, <2>6
<1>20. ASSUME NEW c \in Requests, SubmitMarkFailed(c) PROVE LInv'
  <2> DEFINE row == UpdateStatus(jobs[request[c].job], "failed", "unknown", NULL)
  <2>1. request[c].job \in JobIds
    BY <1>20, HolderIds DEF SubmitMarkFailed, Holding
  <2>2. Follows(jobs[request[c].job], row)
    BY <1>2, <1>3, <2>1, StatementsFollow DEF JobStatus, SettledStatus
  <2> HIDE DEF row
  <2>3. PICK reply \in WriteReply : Write(request[c].job, row, reply)
    BY <1>20 DEF SubmitMarkFailed, row
  <2>4. /\ request' = [request EXCEPT ![c] = IdleRequest]
        /\ UNCHANGED <<receipts, jobQueue, resumeQueue, worker>>
    BY <1>20 DEF SubmitMarkFailed, redis
  <2>5. \A i \in JobIds : Follows(jobs[i], jobs'[i])
    BY <1>10, <2>1, <2>2, <2>3
  <2>6. QED
    BY <1>7, <1>8, <1>9, <1>11, <1>12, <2>4, <2>5
<1>21. ASSUME NEW c \in Requests, NEW j \in JobIds, ResumeRead(c, j) PROVE LInv'
  <2> DEFINE x == [IdleRequest EXCEPT !.pc = "resume", !.job = j, !.attempts = jobs[j].attempts]
  <2>1. x.job = j /\ jobs[j].status # "absent"
    BY <1>21 DEF ResumeRead, IdleRequest
  <2>2. /\ request' = [request EXCEPT ![c] = x]
        /\ UNCHANGED <<jobs, receipts, jobQueue, resumeQueue, worker>>
    BY <1>21 DEF ResumeRead, redis
  <2> HIDE DEF x
  <2>3. QED
    BY <1>4, <1>7, <1>8, <1>9, <1>11, <2>1, <2>2
<1>22. ASSUME NEW c \in Requests, ResumeUpdate(c) PROVE LInv'
  <2> DEFINE j == request[c].job
             x == [request[c] EXCEPT !.pc = "publish_resume"]
  <2>1. /\ j \in JobIds
        /\ x.job = j
        /\ HasJob(c)
        /\ UNCHANGED <<receipts, jobQueue, resumeQueue, worker>>
    BY <1>2, <1>22 DEF ResumeUpdate, TypeInv, Shape, HasJob, redis, Request
  <2>2. jobs[x.job].status # "absent"
    BY <1>5, <2>1
  <2>3. request' = [request EXCEPT ![c] = x] \/ request' = [request EXCEPT ![c] = IdleRequest]
    BY <1>22 DEF ResumeUpdate
  <2> HIDE DEF x
  <2>4. \A d \in Requests : HasJob(d)' =>
          jobs[request'[d].job].status # "absent" \/ jobs'[request'[d].job].status # "absent"
    BY <1>11, <1>12, <2>2, <2>3
  <2>5. CASE UNCHANGED jobs
    BY <1>4, <1>7, <1>8, <1>9, <2>1, <2>4, <2>5
  <2>6. ASSUME NEW reply \in WriteReply, NEW body \in Bodies, jobs[j].status = "awaiting_captcha",
               Write(j, Resumed(jobs[j], body), reply)
        PROVE  LInv'
    <3>1. Follows(jobs[j], Resumed(jobs[j], body))
      BY <1>2, <1>3, <2>1, <2>6, StatementsFollow
    <3>2. \A i \in JobIds : Follows(jobs[i], jobs'[i])
      BY <1>10, <2>1, <2>6, <3>1
    <3>3. QED
      BY <1>7, <1>8, <1>9, <2>1, <2>4, <3>2
  <2>7. QED
    BY <1>22, <2>5, <2>6 DEF ResumeUpdate
<1>23. ASSUME NEW c \in Requests, ResumePublish(c) PROVE LInv'
  <2> DEFINE resume == [job |-> request[c].job, attempt |-> request[c].attempts, resume |-> TRUE]
  <2>1. HasJob(c) /\ resume \in Message /\ resume.job = request[c].job
    BY <1>2, <1>23, HolderIds DEF ResumePublish, HasJob, Holding, Request, Message
  <2> HIDE DEF resume
  <2>2. PICK reply \in PushReply : resumeQueue' = Pushed(resumeQueue, resume, reply)
    BY <1>23 DEF ResumePublish, resume
  <2>3. /\ request' = [request EXCEPT ![c] = IdleRequest]
        /\ UNCHANGED <<jobs, receipts, jobQueue, worker>>
    BY <1>23 DEF ResumePublish
  <2>4. JobsIn(resumeQueue') \subseteq JobsIn(resumeQueue) \cup {request[c].job}
    BY <1>2, <2>1, <2>2, PushedJobs
  <2>5. \A j \in Queued' : jobs[j].status # "absent"
    BY <1>5, <2>1, <2>3, <2>4 DEF Queued, JobsIn
  <2>6. QED
    BY <1>4, <1>7, <1>9, <1>11, <1>12, <2>3, <2>5
<1>24. ASSUME NEW c \in Requests, NEW r \in ReceiptIds, DeleteReceipt(c, r) PROVE LInv'
  <2>1. /\ receipts' = [receipts EXCEPT ![r] = NoReceipt]
        /\ jobs' = [j \in JobIds |-> Unlinked(jobs[j], r)]
        /\ UNCHANGED <<jobQueue, resumeQueue, worker, request>>
    BY <1>24 DEF DeleteReceipt, redis
  <2>2. \A j \in JobIds : Follows(jobs[j], jobs'[j])
    BY <1>2, <1>3, <2>1, StatementsFollow
  <2>3. \A j \in JobIds : jobs'[j].receipt # r
    BY <1>2, <2>1, NullIsNoValue DEF Unlinked, Job
  <2>4. \A q \in ReceiptIds : Changes(q)
    BY <1>2, <2>1, <2>3 DEF Changes, NoReceipt
  <2>5. \A c1 \in Requests : HasJob(c1)' => jobs[request'[c1].job].status # "absent"
    BY <1>5, <2>1 DEF HasJob
  <2>6. QED
    BY <1>7, <1>8, <2>1, <2>2, <2>4, <2>5
<1>25. ASSUME NEW S \in SUBSET JobIds, Expire(S) PROVE LInv'
  <2>1. /\ \A j \in S : jobs[j].status = "awaiting_captcha"
        /\ jobs' = [j \in JobIds |-> IF j \in S THEN Expired(jobs[j]) ELSE jobs[j]]
        /\ UNCHANGED <<receipts, jobQueue, resumeQueue, worker, request>>
    BY <1>25 DEF Expire, redis
  <2>2. \A j \in JobIds : Follows(jobs[j], jobs'[j])
    BY <1>2, <1>3, <1>4, <2>1, StatementsFollow
  <2>3. \A c \in Requests : HasJob(c)' => jobs[request'[c].job].status # "absent"
    BY <1>5, <2>1 DEF HasJob
  <2>4. QED
    BY <1>7, <1>8, <1>9, <2>1, <2>2, <2>3
<1>26. ASSUME NEW c \in Requests, Disconnect(c) PROVE LInv'
  <2>1. /\ request' = [request EXCEPT ![c] = IdleRequest]
        /\ UNCHANGED <<jobs, receipts, jobQueue, resumeQueue, worker>>
    BY <1>26 DEF Disconnect, redis
  <2>2. QED
    BY <1>4, <1>7, <1>8, <1>9, <1>11, <1>12, <2>1
<1>27. CASE UNCHANGED vars
  BY <1>5, <1>6, <1>27 DEF vars, Queued, JobsIn
<1>28. QED
  BY <1>13, <1>14, <1>15, <1>16, <1>17, <1>18, <1>19, <1>20, <1>21, <1>22, <1>23, <1>24, <1>25,
     <1>26, <1>27 DEF Next, WorkerStep, RequestStep, Local

\* LInv is inductive, given TypeInv.
LEMMA LinksInvariant == Spec => []LInv
<1>1. Init => TypeInv /\ LInv
  <2> SUFFICES ASSUME Init PROVE TypeInv /\ LInv
    OBVIOUS
  <2>1. TypeInv
    BY InitType
  <2>2. LInv
    BY DEF Init, LInv, KnownJobs, Queued, JobsIn, Busy, HasJob, Linked, OwnReceipt, NoJob,
           IdleWorker, IdleRequest, At
  <2>3. QED
    BY <2>1, <2>2
<1>2. TypeInv /\ LInv /\ [Next]_vars => (TypeInv /\ LInv)'
  BY StepType, StutterType, StepLinks
<1>3. QED
  BY <1>1, <1>2, PTL DEF Spec

\* Whatever calls go wrong, and whatever is deleted meanwhile, the receipt a job
\* points to is whole and the job's own, and the job is completed.
THEOREM CompletedReceiptsAreWhole == Spec => []CompletedReceiptIsWhole
<1>1. LInv => CompletedReceiptIsWhole
  BY DEF LInv, Linked, CompletedReceiptIsWhole
<1>2. QED
  BY <1>1, LinksInvariant, PTL

-----------------------------------------------------------------------------
(***************************************************************************)
(* 7. The promise of JobCustody                                            *)
(*                                                                         *)
(* A job has a keeper in the mapping of JobPipeline.  CInv and SInv make   *)
(* it the one expected: a held job is queued or processing and the other   *)
(* way round, and it is held once.  A step concerns one job, which is      *)
(* passed on or closed as JobCustody allows; the others keep their keepers *)
(* and their verdicts.  The ticker alone closes several at once.           *)
(***************************************************************************)
KeeperRight(j) ==
  /\ Held(j) <=> Active(j)
  /\ HeldInQueue(j)  => KeeperOf(j) = "queue"
  /\ HeldByWorker(j) => KeeperOf(j) = "worker"
  /\ HeldByRequest(j) => KeeperOf(j) = "request"
  /\ jobs[j].status = "absent" => KeeperOf(j) = "nobody"
  /\ jobs[j].status = "awaiting_captcha" => KeeperOf(j) = "user"
  /\ jobs[j].status \in SettledStatus => KeeperOf(j) = "closed"

KeepersRight == \A j \in JobIds : KeeperRight(j)

\* The invariants make every keeper right.
LEMMA CustodyKeepers == TypeInv /\ CInv /\ SInv => KeepersRight
<1> SUFFICES ASSUME TypeInv, CInv, SInv, NEW j \in JobIds PROVE KeeperRight(j)
  BY DEF KeepersRight
<1>1. Held(j) <=> Active(j)
  BY HeldMeans DEF CInv, HeldActive, SInv, NoStrandedJob, Active
<1>2. /\ ~(HeldByWorker(j) /\ HeldInQueue(j))
      /\ ~(HeldByRequest(j) /\ HeldInQueue(j))
      /\ ~(HeldByRequest(j) /\ HeldByWorker(j))
  BY DEF CInv, HeldApart, HeldByWorker, HeldByRequest, HeldInQueue, Queued, Busy, Holding
<1>3. /\ jobs[j].status = "absent" => ~Active(j)
      /\ jobs[j].status = "awaiting_captcha" => ~Active(j)
      /\ jobs[j].status \in SettledStatus =>
           ~Active(j) /\ jobs[j].status # "absent" /\ jobs[j].status # "awaiting_captcha"
  BY DEF Active, ActiveStatus, SettledStatus
<1>4. HeldInQueue(j) \/ HeldByWorker(j) \/ HeldByRequest(j) <=> Active(j)
  BY <1>1 DEF Held
<1>5. HeldInQueue(j) => KeeperOf(j) = "queue"
  BY <1>2, <1>3, <1>4, Zenon DEF KeeperOf
<1>6. HeldByWorker(j) => KeeperOf(j) = "worker"
  BY <1>2, <1>3, <1>4, Zenon DEF KeeperOf
<1>7. HeldByRequest(j) => KeeperOf(j) = "request"
  BY <1>2, <1>3, <1>4, Zenon DEF KeeperOf
<1>8. /\ jobs[j].status = "absent" => KeeperOf(j) = "nobody"
      /\ jobs[j].status = "awaiting_captcha" => KeeperOf(j) = "user"
      /\ jobs[j].status \in SettledStatus => KeeperOf(j) = "closed"
  <2>1. CASE jobs[j].status = "absent"
    BY <1>3, <1>4, <2>1 DEF KeeperOf
  <2>2. CASE jobs[j].status = "awaiting_captcha"
    BY <1>3, <1>4, <2>2 DEF KeeperOf
  <2>3. CASE jobs[j].status \in SettledStatus
    BY <1>3, <1>4, <2>3, Zenon DEF KeeperOf
  <2>4. QED
    BY <1>3, <2>1, <2>2, <2>3
<1>9. QED
  BY <1>1, <1>5, <1>6, <1>7, <1>8 DEF KeeperRight

\* Verdicts are statuses.
LEMMA Verdicts ==
  ASSUME NEW j
  PROVE  /\ jobs[j].status \notin SettledStatus => VerdictOf(j) = "open"
         /\ jobs[j].status \in SettledStatus => VerdictOf(j) = jobs[j].status
         /\ Active(j) => VerdictOf(j) = "open"
  BY DEF VerdictOf, Active, ActiveStatus, SettledStatus

\* A job whose holders and status a step leaves alone.
Alike(j) ==
  /\ HeldInQueue(j)' <=> HeldInQueue(j)
  /\ HeldByWorker(j)' <=> HeldByWorker(j)
  /\ HeldByRequest(j)' <=> HeldByRequest(j)
  /\ jobs'[j].status = jobs[j].status

Kept(j) == KeeperOf(j)' = KeeperOf(j) /\ VerdictOf(j)' = VerdictOf(j)

\* Such a job keeps its keeper and its verdict.
LEMMA AlikeIsKept ==
  ASSUME NEW j, Alike(j) PROVE Kept(j)
<1>1. VerdictOf(j)' = VerdictOf(j)
  BY DEF Alike, VerdictOf
<1>2. KeeperOf(j)' = KeeperOf(j)
  BY DEF Alike, KeeperOf
<1>3. QED
  BY <1>1, <1>2 DEF Kept

CustodyStep == [Custody!Next]_(Custody!vars)

\* A step that leaves all jobs alone, or all but one that stays with its keeper.
LEMMA AllKept ==
  ASSUME \A j \in JobIds : Alike(j)
  PROVE  CustodyStep
<1>1. \A j \in JobIds : KeeperOf(j)' = KeeperOf(j) /\ VerdictOf(j)' = VerdictOf(j)
  BY AlikeIsKept DEF Kept
<1>2. UNCHANGED Custody!vars
  BY <1>1 DEF Custody!vars
<1>3. QED
  BY <1>2 DEF CustodyStep

LEMMA KeptByAll ==
  ASSUME NEW i \in JobIds, \A j \in JobIds : j # i => Alike(j),
         KeeperOf(i)' = KeeperOf(i), VerdictOf(i)' = VerdictOf(i)
  PROVE  CustodyStep
<1>1. \A j \in JobIds : KeeperOf(j)' = KeeperOf(j) /\ VerdictOf(j)' = VerdictOf(j)
  BY AlikeIsKept DEF Kept
<1>2. UNCHANGED Custody!vars
  BY <1>1 DEF Custody!vars
<1>3. QED
  BY <1>2 DEF CustodyStep

\* Job i is passed on ...
LEMMA PassedOn ==
  ASSUME NEW i \in JobIds, \A j \in JobIds : j # i => Alike(j),
         VerdictOf(i)' = VerdictOf(i),
         \/ KeeperOf(i) = "nobody"  /\ KeeperOf(i)' = "request"
         \/ KeeperOf(i) = "request" /\ KeeperOf(i)' = "queue"
         \/ KeeperOf(i) = "queue"   /\ KeeperOf(i)' = "worker"
         \/ KeeperOf(i) = "worker"  /\ KeeperOf(i)' = "queue"
         \/ KeeperOf(i) = "worker"  /\ KeeperOf(i)' = "user"
         \/ KeeperOf(i) = "user"    /\ KeeperOf(i)' = "request"
  PROVE  CustodyStep
<1> DEFINE keeper == [j \in JobIds |-> KeeperOf(j)]
           verdict == [j \in JobIds |-> VerdictOf(j)]
<1>1. \A j \in JobIds : j # i => Kept(j)
  BY AlikeIsKept
<1>2. keeper' = [keeper EXCEPT ![i] = KeeperOf(i)']
  BY <1>1 DEF Kept
<1>3. verdict' = verdict
  BY <1>1 DEF Kept
<1>4. keeper[i] = KeeperOf(i)
  OBVIOUS
<1>5. \/ Custody!Submit(i) \/ Custody!Publish(i) \/ Custody!Take(i)
      \/ Custody!Retry(i) \/ Custody!Park(i) \/ Custody!Solve(i)
  BY <1>2, <1>3, <1>4
  DEF Custody!Submit, Custody!Publish, Custody!Take, Custody!Retry, Custody!Park,
      Custody!Solve, Custody!Pass
<1>6. QED
  BY <1>5 DEF CustodyStep, Custody!Next

\* ... or closed.
LEMMA ClosedOnce ==
  ASSUME NEW i \in JobIds, \A j \in JobIds : j # i => Alike(j),
         KeeperOf(i)' = "closed",
         \/ KeeperOf(i) = "worker"  /\ VerdictOf(i)' \in {"completed", "failed"}
         \/ KeeperOf(i) = "request" /\ VerdictOf(i)' = "failed"
  PROVE  CustodyStep
<1> DEFINE keeper == [j \in JobIds |-> KeeperOf(j)]
           verdict == [j \in JobIds |-> VerdictOf(j)]
<1>1. \A j \in JobIds : j # i => Kept(j)
  BY AlikeIsKept
<1>2. keeper' = [keeper EXCEPT ![i] = "closed"]
  BY <1>1 DEF Kept
<1>3. verdict' = [verdict EXCEPT ![i] = VerdictOf(i)']
  BY <1>1 DEF Kept
<1>4. keeper[i] = KeeperOf(i)
  OBVIOUS
<1>5. Custody!GiveUp(i) \/ Custody!Finish(i)
  BY <1>2, <1>3, <1>4 DEF Custody!GiveUp, Custody!Finish, Custody!Close
<1>6. QED
  BY <1>5 DEF CustodyStep, Custody!Next

\* The worker's own step: it goes on, parks its job or finishes it.
LEMMA LocalPasses ==
  ASSUME NoFaults, TypeInv, TypeInv', CInv, SInv, LInv, KeepersRight, KeepersRight',
         NEW w \in Workers, Local(w)
  PROVE  CustodyStep
<1>1. Busy(w)
  BY DEF Busy, Local, Begin, Fetch, LoadOwner, Load, ResumeBadCookies, ResumeSummary,
         ResumeDetail, Pause, CreateReceipt, CreateItems, Complete, Requeue, Fail, Crash
<1>2. PICK i \in JobIds : i = MsgOf(w).job /\ HeldByWorker(i) /\ Active(i)
  BY <1>1, HolderIds DEF HeldByWorker, Busy, CInv, HeldActive
<1>3. PICK next \in Carrying(MsgOf(w)) \cup {IdleWorker}, row \in Job : Moves(w, next, row)
  BY LocalMoves DEF Moving
<1>4. /\ worker' = [worker EXCEPT ![w] = next]
      /\ jobs' = [jobs EXCEPT ![MsgOf(w).job] = row]
      /\ UNCHANGED <<jobQueue, resumeQueue, request>>
  BY <1>3 DEF Moves, redis
<1>5. \A v \in Workers : v # w => worker'[v] = worker[v]
  BY <1>4, HolderIds
<1>6. Busy(w)' => MsgOf(w)' = MsgOf(w)
  BY <1>4, HolderIds DEF Busy, MsgOf, Carrying, IdleWorker, At
<1>7. \A j \in JobIds : j # i => jobs'[j] = jobs[j]
  BY <1>2, <1>4, HolderIds
<1>8. ASSUME NEW j \in JobIds, j # i PROVE Alike(j)
  <2>1. HeldByWorker(j)' <=> HeldByWorker(j)
    <3>1. \A v \in Workers : Busy(v)' /\ MsgOf(v)'.job = j <=> Busy(v) /\ MsgOf(v).job = j
      BY <1>2, <1>5, <1>6, <1>8 DEF Busy, MsgOf
    <3>2. QED
      BY <3>1 DEF HeldByWorker, Busy
  <2>2. HeldInQueue(j)' <=> HeldInQueue(j)
    BY <1>4 DEF HeldInQueue, JobsIn
  <2>3. HeldByRequest(j)' <=> HeldByRequest(j)
    BY <1>4 DEF HeldByRequest
  <2>4. QED
    BY <1>7, <1>8, <2>1, <2>2, <2>3 DEF Alike
<1>9. KeeperOf(i) = "worker" /\ VerdictOf(i) = "open"
  BY <1>2, Verdicts DEF KeepersRight, KeeperRight
<1>10. CASE Busy(w)'
  <2>1. HeldByWorker(i)'
    BY <1>2, <1>6, <1>10 DEF HeldByWorker, Busy
  <2>2. Held(i)'
    BY <2>1 DEF Held
  <2>3. KeeperOf(i)' = "worker" /\ Active(i)'
    BY <1>2, <2>1, <2>2 DEF KeepersRight, KeeperRight
  <2>4. VerdictOf(i)' = "open"
    BY <2>3 DEF Active, VerdictOf, ActiveStatus, SettledStatus
  <2>5. QED
    BY <1>2, <1>8, <1>9, <2>3, <2>4, KeptByAll
<1>11. CASE ~Busy(w)'
  <2>1. jobs'[i].status \notin ActiveStatus
    BY <1>2, <1>11, LocalAccounts DEF Accounts
  <2>2. jobs'[i].status # "absent"
    BY <1>1, <1>2, LocalLinks DEF LInv, KnownJobs, LinksOf, Stays
  <2>3. jobs'[i].status \in {"awaiting_captcha"} \cup SettledStatus
    BY <1>2, <2>1, <2>2 DEF TypeInv, TypeOK, Job, JobStatus
  <2>4. CASE jobs'[i].status = "awaiting_captcha"
    <3>1. KeeperOf(i)' = "user"
      BY <1>2, <2>4 DEF KeepersRight, KeeperRight
    <3>2. VerdictOf(i)' = "open"
      BY <2>4 DEF VerdictOf, SettledStatus
    <3>3. QED
      BY <1>2, <1>8, <1>9, <3>1, <3>2, PassedOn
  <2>5. CASE jobs'[i].status \in SettledStatus
    <3>1. KeeperOf(i)' = "closed"
      BY <1>2, <2>5 DEF KeepersRight, KeeperRight
    <3>2. VerdictOf(i)' \in {"completed", "failed"}
      BY <2>5 DEF VerdictOf, SettledStatus
    <3>3. QED
      BY <1>2, <1>8, <1>9, <3>1, <3>2, ClosedOnce
  <2>6. QED
    BY <2>3, <2>4, <2>5
<1>12. QED
  BY <1>10, <1>11

\* A message goes from a list to a worker.
LEMMA DequeuePasses ==
  ASSUME NoFaults, TypeInv, CInv, CInv', KeepersRight, KeepersRight',
         NEW w \in Workers, Dequeue(w)
  PROVE  CustodyStep
<1>1. ~Busy(w) /\ UNCHANGED <<jobs, request>>
  BY DEF Dequeue, Busy
<1>2. PICK m \in Message :
        /\ worker' = [worker EXCEPT ![w] = At("begin", m)]
        /\ Queued = Queued' \cup {m.job}
  BY DequeueTakes
<1>3. Busy(w)' /\ MsgOf(w)' = m
  BY <1>2, HolderIds DEF Busy, MsgOf, At
<1>4. \A v \in Workers : v # w => worker'[v] = worker[v]
  BY <1>2, HolderIds
<1>5. ASSUME NEW j \in JobIds, j # m.job PROVE Alike(j)
  <2>1. HeldByWorker(j)' <=> HeldByWorker(j)
    <3>1. \A v \in Workers : Busy(v)' /\ MsgOf(v)'.job = j <=> Busy(v) /\ MsgOf(v).job = j
      BY <1>1, <1>3, <1>4, <1>5 DEF Busy, MsgOf
    <3>2. QED
      BY <3>1 DEF HeldByWorker, Busy
  <2>2. HeldInQueue(j)' <=> HeldInQueue(j)
    BY <1>2, <1>5 DEF HeldInQueue, Queued
  <2>3. HeldByRequest(j)' <=> HeldByRequest(j)
    BY <1>1 DEF HeldByRequest
  <2>4. QED
    BY <1>1, <2>1, <2>2, <2>3 DEF Alike
<1>6. m.job \in JobIds /\ HeldInQueue(m.job)
  BY <1>2, HolderIds DEF HeldInQueue, Queued
<1>7. HeldByWorker(m.job)'
  BY <1>3 DEF HeldByWorker, Busy
<1>8. KeeperOf(m.job) = "queue" /\ KeeperOf(m.job)' = "worker"
  BY <1>6, <1>7 DEF KeepersRight, KeeperRight
<1>9. VerdictOf(m.job)' = VerdictOf(m.job)
  BY <1>1 DEF VerdictOf
<1>10. QED
  BY <1>5, <1>6, <1>8, <1>9, PassedOn

\* A retry goes back to a list.
LEMMA EnqueuePasses ==
  ASSUME NoFaults, TypeInv, CInv, CInv', KeepersRight, KeepersRight',
         NEW w \in Workers, Enqueue(w)
  PROVE  CustodyStep
<1>1. Busy(w) /\ UNCHANGED <<jobs, request, resumeQueue>>
  BY DEF Enqueue, Busy
<1>2. PICK i \in JobIds : i = MsgOf(w).job /\ HeldByWorker(i)
  BY <1>1, HolderIds DEF HeldByWorker, Busy
<1>3. worker' = [worker EXCEPT ![w] = IdleWorker] /\ Queued' = Queued \cup {i}
  BY <1>2, EnqueueGives
<1>4. ~Busy(w)' /\ \A v \in Workers : v # w => worker'[v] = worker[v]
  BY <1>3, HolderIds DEF Busy, IdleWorker, At
<1>5. ASSUME NEW j \in JobIds, j # i PROVE Alike(j)
  <2>1. HeldByWorker(j)' <=> HeldByWorker(j)
    <3>1. \A v \in Workers : Busy(v)' /\ MsgOf(v)'.job = j <=> Busy(v) /\ MsgOf(v).job = j
      BY <1>2, <1>4, <1>5 DEF Busy, MsgOf
    <3>2. QED
      BY <3>1 DEF HeldByWorker, Busy
  <2>2. HeldInQueue(j)' <=> HeldInQueue(j)
    BY <1>3, <1>5 DEF HeldInQueue, Queued
  <2>3. HeldByRequest(j)' <=> HeldByRequest(j)
    BY <1>1 DEF HeldByRequest
  <2>4. QED
    BY <1>1, <2>1, <2>2, <2>3 DEF Alike
<1>6. HeldInQueue(i)'
  <2>1. i \in Queued'
    BY <1>3
  <2>2. QED
    BY <2>1 DEF HeldInQueue, Queued
<1>7. KeeperOf(i) = "worker" /\ KeeperOf(i)' = "queue"
  BY <1>2, <1>6 DEF KeepersRight, KeeperRight
<1>8. VerdictOf(i)' = VerdictOf(i)
  BY <1>1 DEF VerdictOf
<1>9. QED
  BY <1>2, <1>5, <1>7, <1>8, PassedOn

\* A request's step leaves alone a job it holds neither before nor after.
LEMMA RequestOthersAlike ==
  ASSUME NEW c \in Requests, NEW j \in JobIds, UNCHANGED worker,
         \A d \in Requests : d # c => request'[d] = request[d],
         ~(Holding(c) /\ request[c].job = j),
         ~(Holding(c)' /\ request'[c].job = j),
         j \in Queued' <=> j \in Queued,
         jobs'[j].status = jobs[j].status
  PROVE  Alike(j)
<1>1. HeldByWorker(j)' <=> HeldByWorker(j)
  BY DEF HeldByWorker, MsgOf
<1>2. HeldInQueue(j)' <=> HeldInQueue(j)
  BY DEF HeldInQueue, Queued
<1>3. HeldByRequest(j)' <=> HeldByRequest(j)
  <2>1. \A d \in Requests :
          Holding(d)' /\ request'[d].job = j <=> Holding(d) /\ request[d].job = j
    BY DEF Holding
  <2>2. QED
    BY <2>1 DEF HeldByRequest, Holding
<1>4. QED
  BY <1>1, <1>2, <1>3 DEF Alike

\* A request that holds nothing, before and after, and changes no status.
LEMMA RequestRests ==
  ASSUME NEW c \in Requests, UNCHANGED <<worker, jobQueue, resumeQueue>>,
         \A d \in Requests : d # c => request'[d] = request[d],
         ~Holding(c), ~Holding(c)',
         \A j \in JobIds : jobs'[j].status = jobs[j].status
  PROVE  CustodyStep
<1>1. Queued' = Queued
  BY DEF Queued, JobsIn
<1>2. QED
  BY <1>1, RequestOthersAlike, AllKept

\* A request that takes job i up, or hands it to a list.
LEMMA RequestPasses ==
  ASSUME KeepersRight, KeepersRight', NEW c \in Requests, NEW i \in JobIds, UNCHANGED worker,
         \A d \in Requests : d # c => request'[d] = request[d],
         Holding(c) => request[c].job = i,
         Holding(c)' => request'[c].job = i,
         \A j \in JobIds : j # i => jobs'[j].status = jobs[j].status,
         \/ /\ ~Holding(c) /\ Holding(c)' /\ Queued' = Queued
            /\ jobs[i].status \in {"absent", "awaiting_captcha"}
         \/ /\ Holding(c) /\ ~Holding(c)' /\ Queued' = Queued \cup {i}
            /\ jobs'[i].status = jobs[i].status
  PROVE  CustodyStep
<1>1. \A j \in JobIds : j # i => Alike(j)
  BY RequestOthersAlike
<1>2. CASE Holding(c)'
  <2>1. HeldByRequest(i)'
    BY <1>2 DEF HeldByRequest, Holding
  <2>2. KeeperOf(i) \in {"nobody", "user"} /\ KeeperOf(i)' = "request" /\ Active(i)'
    BY <1>2, <2>1 DEF KeepersRight, KeeperRight, Held
  <2>3. VerdictOf(i) = "open" /\ VerdictOf(i)' = "open"
    BY <1>2, <2>2 DEF VerdictOf, Active, ActiveStatus, SettledStatus
  <2>4. QED
    BY <1>1, <2>2, <2>3, PassedOn
<1>3. CASE Holding(c)
  <2>1. HeldByRequest(i) /\ HeldInQueue(i)'
    BY <1>3 DEF HeldByRequest, HeldInQueue, Holding, Queued
  <2>2. KeeperOf(i) = "request" /\ KeeperOf(i)' = "queue"
    BY <2>1 DEF KeepersRight, KeeperRight
  <2>3. VerdictOf(i)' = VerdictOf(i)
    BY <1>3 DEF VerdictOf
  <2>4. QED
    BY <1>1, <2>2, <2>3, PassedOn
<1>4. QED
  BY <1>2, <1>3

\* A request takes a job up, hands it to a list, gives it up, or does neither.
LEMMA RequestStepPasses ==
  ASSUME NoFaults, TypeInv, KeepersRight, KeepersRight', NEW c \in Requests,
         \/ RequestStep(c)
         \/ Disconnect(c)
         \/ \E u \in Urls : SubmitCheckReceipt(c, u)
         \/ \E j \in JobIds : ResumeRead(c, j)
         \/ \E r \in ReceiptIds : DeleteReceipt(c, r)
  PROVE  CustodyStep
<1>1. /\ jobs \in [JobIds -> Job]
      /\ request \in [Requests -> Request]
      /\ jobQueue \in Seq(Message)
      /\ resumeQueue \in Seq(Message)
  BY DEF TypeInv, TypeOK
<1>2. /\ ReadReply = {"ok"}
      /\ WriteReply = {"ok"}
      /\ PushReply = {"ok"}
      /\ "disconnect" \notin FaultKinds
  BY NoFaultReplies
<1>3. ASSUME NEW x, request' = [request EXCEPT ![c] = x]
      PROVE  request'[c] = x /\ \A d \in Requests : d # c => request'[d] = request[d]
  BY <1>1, <1>3
<1>a. ASSUME request' = [request EXCEPT ![c] = IdleRequest] PROVE ~Holding(c)'
  <2>1. request'[c] = IdleRequest
    BY <1>3, <1>a
  <2>2. request'[c].pc = "idle"
    BY <2>1, IdleRequestShape
  <2>3. QED
    BY <2>2 DEF Holding
\* A step that holds nothing and leaves the tables alone.
<1>4. ASSUME NEW x, request' = [request EXCEPT ![c] = x], ~Holding(c),
             x.pc \notin {"publish", "mark_failed", "publish_resume"},
             UNCHANGED <<worker, jobQueue, resumeQueue, jobs>>
      PROVE  CustodyStep
  BY <1>3, <1>4, RequestRests DEF Holding
<1>5. CASE \E u \in Urls : SubmitCheckReceipt(c, u)
  <2>1. PICK u \in Urls : SubmitCheckReceipt(c, u)
    BY <1>5
  <2>2. [IdleRequest EXCEPT !.pc = "check_active", !.url = u].pc = "check_active"
    BY DEF IdleRequest
  <2>3. QED
    BY <1>4, <2>1, <2>2 DEF SubmitCheckReceipt, Holding, redis
<1>6. CASE SubmitCheckActive(c)
  <2>1. PICK x \in {IdleRequest, [request[c] EXCEPT !.pc = "create"]} :
          request' = [request EXCEPT ![c] = x]
    BY <1>6 DEF SubmitCheckActive
  <2>2. x.pc \in {"idle", "create"}
    BY <1>1 DEF IdleRequest, Request
  <2>3. QED
    BY <1>4, <1>6, <2>1, <2>2 DEF SubmitCheckActive, Holding, redis
<1>7. CASE \E j \in JobIds : ResumeRead(c, j)
  <2>1. PICK j \in JobIds : ResumeRead(c, j)
    BY <1>7
  <2>2. [IdleRequest EXCEPT !.pc = "resume", !.job = j, !.attempts = jobs[j].attempts].pc = "resume"
    BY DEF IdleRequest
  <2>3. QED
    BY <1>4, <2>1, <2>2 DEF ResumeRead, Holding, redis
<1>8. CASE SubmitCreate(c)
  <2>1. PICK j \in JobIds :
          /\ jobs[j].status = "absent"
          /\ jobs' = [jobs EXCEPT ![j] = Created(HouseOf[c], request[c].url)]
          /\ request' = [request EXCEPT ![c] = [IdleRequest EXCEPT !.pc = "publish", !.job = j]]
    BY <1>2, <1>8 DEF SubmitCreate, Write
  <2>2. ~Holding(c) /\ UNCHANGED worker /\ Queued' = Queued
    BY <1>8 DEF SubmitCreate, Holding, redis, Queued, JobsIn
  <2>3. \A i \in JobIds : i # j => jobs'[i] = jobs[i]
    BY <1>1, <2>1
  <2>4. Holding(c)' /\ request'[c].job = j
    BY <1>3, <2>1 DEF Holding, IdleRequest
  <2>5. QED
    BY <1>3, <2>1, <2>2, <2>3, <2>4, RequestPasses
<1>9. CASE SubmitPublish(c)
  <2>1. PICK i \in JobIds : i = request[c].job /\ Holding(c)
    BY <1>9, HolderIds DEF SubmitPublish, Holding
  <2> DEFINE fresh == [job |-> i, attempt |-> 0, resume |-> FALSE]
  <2>2. fresh \in Message /\ fresh.job = i
    BY DEF Message
  <2> HIDE DEF fresh
  <2>3. /\ jobQueue' = Append(jobQueue, fresh)
        /\ request' = [request EXCEPT ![c] = IdleRequest]
        /\ UNCHANGED <<jobs, resumeQueue, worker>>
    BY <1>2, <1>9, <2>1 DEF SubmitPublish, Pushed, Succeeds, fresh
  <2>4. JobsIn(jobQueue') = JobsIn(jobQueue) \cup {i}
    BY <1>1, <2>2, <2>3, PushAddsOneJob
  <2>5. Queued' = Queued \cup {i}
    BY <2>3, <2>4 DEF Queued, JobsIn
  <2>6. ~Holding(c)'
    BY <1>a, <2>3
  <2>7. QED
    BY <1>3, <2>1, <2>3, <2>5, <2>6, RequestPasses
<1>10. CASE SubmitMarkFailed(c)
  <2>1. PICK i \in JobIds : i = request[c].job /\ Holding(c) /\ HeldByRequest(i)
    BY <1>10, HolderIds DEF SubmitMarkFailed, Holding, HeldByRequest
  <2> DEFINE row == UpdateStatus(jobs[i], "failed", "unknown", NULL)
  <2>2. /\ jobs' = [jobs EXCEPT ![i] = row]
        /\ request' = [request EXCEPT ![c] = IdleRequest]
        /\ UNCHANGED worker
        /\ Queued' = Queued
    BY <1>2, <1>10, <2>1 DEF SubmitMarkFailed, Write, redis, Queued, JobsIn
  <2>3. row.status = "failed"
    BY <1>1, <2>1 DEF UpdateStatus, Job
  <2> HIDE DEF row
  <2>4. jobs'[i].status = "failed" /\ \A j \in JobIds : j # i => jobs'[j] = jobs[j]
    BY <1>1, <2>2, <2>3
  <2>5. ~Holding(c)'
    BY <1>a, <2>2
  <2>6. \A j \in JobIds : j # i => Alike(j)
    BY <1>3, <2>1, <2>2, <2>4, <2>5, RequestOthersAlike
  <2>7. KeeperOf(i) = "request" /\ KeeperOf(i)' = "closed" /\ VerdictOf(i)' = "failed"
    BY <2>1, <2>4 DEF KeepersRight, KeeperRight, VerdictOf, SettledStatus
  <2>8. QED
    BY <2>6, <2>7, ClosedOnce
<1>11. CASE ResumeUpdate(c)
  <2>1. PICK i \in JobIds : i = request[c].job /\ ~Holding(c)
    BY <1>11 DEF ResumeUpdate, Holding, TypeInv, Shape
  <2>2. UNCHANGED <<worker, jobQueue, resumeQueue>>
    BY <1>11 DEF ResumeUpdate, redis
  <2>3. CASE request' = [request EXCEPT ![c] = IdleRequest] /\ UNCHANGED jobs
    BY <1>4, <2>1, <2>2, <2>3 DEF IdleRequest
  <2>4. ASSUME NEW body \in Bodies, jobs[i].status = "awaiting_captcha",
               jobs' = [jobs EXCEPT ![i] = Resumed(jobs[i], body)],
               request' = [request EXCEPT ![c] = [request[c] EXCEPT !.pc = "publish_resume"]]
        PROVE  CustodyStep
    <3>1. \A j \in JobIds : j # i => jobs'[j] = jobs[j]
      BY <1>1, <2>4
    <3>2. Holding(c)' /\ request'[c].job = i
      BY <1>1, <1>3, <2>1, <2>4 DEF Holding, Request
    <3>3. Queued' = Queued
      BY <2>2 DEF Queued, JobsIn
    <3>4. QED
      BY <1>3, <2>1, <2>2, <2>4, <3>1, <3>2, <3>3, RequestPasses
  <2>5. QED
    BY <1>2, <1>11, <2>1, <2>3, <2>4 DEF ResumeUpdate, Write
<1>12. CASE ResumePublish(c)
  <2>1. PICK i \in JobIds : i = request[c].job /\ Holding(c)
    BY <1>12, HolderIds DEF ResumePublish, Holding
  <2> DEFINE resume == [job |-> i, attempt |-> request[c].attempts, resume |-> TRUE]
  <2>2. resume \in Message /\ resume.job = i
    BY <1>1 DEF Message, Request
  <2> HIDE DEF resume
  <2>3. /\ resumeQueue' = Append(resumeQueue, resume)
        /\ request' = [request EXCEPT ![c] = IdleRequest]
        /\ UNCHANGED <<jobs, jobQueue, worker>>
    BY <1>2, <1>12, <2>1 DEF ResumePublish, Pushed, resume
  <2>4. JobsIn(resumeQueue') = JobsIn(resumeQueue) \cup {i}
    BY <1>1, <2>2, <2>3, PushAddsOneJob
  <2>5. Queued' = Queued \cup {i}
    BY <2>3, <2>4 DEF Queued, JobsIn
  <2>6. ~Holding(c)'
    BY <1>a, <2>3
  <2>7. QED
    BY <1>3, <2>1, <2>3, <2>5, <2>6, RequestPasses
<1>13. CASE \E r \in ReceiptIds : DeleteReceipt(c, r)
  <2>1. PICK r \in ReceiptIds : DeleteReceipt(c, r)
    BY <1>13
  <2>2. /\ jobs' = [j \in JobIds |-> Unlinked(jobs[j], r)]
        /\ ~Holding(c) /\ ~Holding(c)'
        /\ UNCHANGED <<worker, jobQueue, resumeQueue, request>>
    BY <2>1 DEF DeleteReceipt, Holding, redis
  <2>3. \A j \in JobIds : jobs'[j].status = jobs[j].status
    BY <1>1, <2>2, OtherStatementTypes
  <2>4. QED
    BY <2>2, <2>3, RequestRests
<1>14. ~Disconnect(c)
  BY <1>2 DEF Disconnect
<1>15. QED
  BY <1>5, <1>6, <1>7, <1>8, <1>9, <1>10, <1>11, <1>12, <1>13, <1>14 DEF RequestStep

\* The ticker closes the pauses it finds too old.
LEMMA ExpirePasses ==
  ASSUME TypeInv, KeepersRight, KeepersRight', NEW S \in SUBSET JobIds, Expire(S)
  PROVE  CustodyStep
<1> DEFINE keeper == [j \in JobIds |-> KeeperOf(j)]
           verdict == [j \in JobIds |-> VerdictOf(j)]
<1>1. /\ S # {}
      /\ \A j \in S : jobs[j].status = "awaiting_captcha"
      /\ jobs' = [j \in JobIds |-> IF j \in S THEN Expired(jobs[j]) ELSE jobs[j]]
      /\ UNCHANGED <<jobQueue, resumeQueue, worker, request>>
  BY DEF Expire, redis
<1>2. \A j \in S : jobs'[j].status = "failed"
  BY <1>1, HolderIds, OtherStatementTypes
<1>3. ASSUME NEW j \in JobIds \ S PROVE Kept(j)
  <2>1. Alike(j)
    BY <1>1, <1>3 DEF Alike, HeldByWorker, HeldByRequest, HeldInQueue, JobsIn, MsgOf
  <2>2. QED
    BY <2>1, AlikeIsKept
<1>4. ASSUME NEW j \in S
      PROVE  KeeperOf(j) = "user" /\ KeeperOf(j)' = "closed" /\ VerdictOf(j)' = "failed"
  BY <1>1, <1>2, <1>4 DEF KeepersRight, KeeperRight, VerdictOf, SettledStatus
<1>5. keeper' = [j \in JobIds |-> IF j \in S THEN "closed" ELSE keeper[j]]
  BY <1>3, <1>4 DEF Kept
<1>6. verdict' = [j \in JobIds |-> IF j \in S THEN "failed" ELSE verdict[j]]
  BY <1>3, <1>4 DEF Kept
<1>7. \A j \in S : keeper[j] = "user"
  BY <1>4
<1>8. Custody!Expire(S)
  BY <1>1, <1>5, <1>6, <1>7 DEF Custody!Expire
<1>9. QED
  BY <1>8 DEF CustodyStep, Custody!Next

\* Every step of the pipeline is one of JobCustody, or none.
LEMMA StepPasses ==
  ASSUME NoFaults, TypeInv, TypeInv', CInv, CInv', SInv, LInv, KeepersRight, KeepersRight',
         [Next]_vars
  PROVE  CustodyStep
<1>1. CASE UNCHANGED vars
  <2>1. \A j \in JobIds : Alike(j)
    BY <1>1 DEF vars, Alike, HeldByWorker, HeldByRequest, HeldInQueue, JobsIn, MsgOf
  <2>2. QED
    BY <2>1, AllKept
<1>2. ASSUME NEW w \in Workers, WorkerStep(w) \/ Crash(w) PROVE CustodyStep
  BY <1>2, LocalPasses, DequeuePasses, EnqueuePasses DEF WorkerStep, Local
<1>3. QED
  BY <1>1, <1>2, RequestStepPasses, ExpirePasses DEF Next

\* As long as every call works the pipeline implements JobCustody: a job is
\* passed from hand to hand, is never lost or held twice, and gets one verdict.
THEOREM JobsArePassedOn ==
  ASSUME NoFaults PROVE Spec => PassesOnJobs
<1>1. Init => Custody!Init
  <2> SUFFICES ASSUME Init PROVE Custody!Init
    OBVIOUS
  <2>1. \A j \in JobIds :
          /\ ~HeldInQueue(j) /\ ~HeldByWorker(j) /\ ~HeldByRequest(j)
          /\ jobs[j].status = "absent"
    BY DEF Init, HeldInQueue, HeldByWorker, HeldByRequest, JobsIn, NoJob, IdleWorker,
           IdleRequest, At
  <2>2. \A j \in JobIds : KeeperOf(j) = "nobody" /\ VerdictOf(j) = "open"
    BY <2>1 DEF KeeperOf, VerdictOf, SettledStatus
  <2>3. QED
    BY <2>2 DEF Custody!Init
<1>2. TypeInv /\ CInv /\ SInv /\ LInv /\ KeepersRight /\
      (TypeInv /\ CInv /\ SInv /\ LInv /\ KeepersRight)' /\ [Next]_vars => CustodyStep
  <2> SUFFICES ASSUME TypeInv, CInv, SInv, LInv, KeepersRight,
                      (TypeInv /\ CInv /\ SInv /\ LInv /\ KeepersRight)', [Next]_vars
               PROVE  CustodyStep
    OBVIOUS
  <2>1. TypeInv' /\ CInv' /\ KeepersRight'
    OBVIOUS
  <2>2. QED
    BY <2>1, StepPasses
<1>3. Spec => [](TypeInv /\ CInv)
  BY CustodyInvariant, NoFaultReplies
<1>4. Spec => []SInv
  BY StrandedInvariant
<1>5. Spec => []LInv
  BY LinksInvariant
<1>6. QED
  BY <1>1, <1>2, <1>3, <1>4, <1>5, CustodyKeepers, PTL
  DEF Spec, PassesOnJobs, Custody!Spec, CustodyStep

-----------------------------------------------------------------------------
(***************************************************************************)
(* 8. How often a job is started                                           *)
(*                                                                         *)
(* Two counters grow with every start, the column attempts and the attempt *)
(* of the message that is being worked on, and three places compare them:  *)
(* handleFailure with MAX_RETRIES, both resume paths with the number of    *)
(* solutions.  The argument is a budget.  A job started afresh has been    *)
(* started less than Tries times; one that is resumed may have used one    *)
(* start more for each solution, but a worker pauses again after the       *)
(* second solution only on the detail page, and never after the third.     *)
(* Whoever holds the job knows the count: that a resume publishes the      *)
(* attempts it read before its UPDATE is harmless only because no other    *)
(* request resumed the job in between.                                     *)
(***************************************************************************)

\* The start a message stands for is still to be counted.
Afresh(row) == row.attempts < Tries

Again(row) ==
  /\ row.attempts < Tries + row.retries
  /\ row.attempts <= Tries + 2
  /\ row.attempts = Tries + 2 => row.phase = "detail"

Room(m, row) ==
  /\ m.attempt = row.attempts
  /\ IF m.resume THEN Again(row) ELSE Afresh(row)

\* What a row has used of its budget.
RowBudget(row) ==
  /\ row.attempts <= Tries + row.retries
  /\ row.attempts <= Tries + 3
  /\ row.status = "awaiting_captcha" =>
       /\ row.attempts <= Tries + 2
       /\ row.attempts = Tries + 2 => row.phase = "detail"

\* What worker x, which counted its start, may still decide.
Spent(x, row) ==
  /\ x.msg.attempt + 1 = row.attempts
  /\ x.pc = "fetch" => row.attempts <= Tries
  /\ x.pc \in {"requeue", "enqueue"} => row.attempts < Tries
  /\ x.pc = "load" /\ row.attempts = Tries + 3 => row.phase = "detail"
  /\ x.pc = "resume" =>
       /\ x.seen.retries = row.retries
       /\ row.attempts = Tries + 3 => x.seen.phase = "detail"
  /\ x.pc = "pause" =>
       /\ row.attempts <= Tries + 2
       /\ row.attempts = Tries + 2 => x.phase = "detail"

Booked(x, row) == IF x.pc = "begin" THEN Room(x.msg, row) ELSE Spent(x, row)

\* What request x knows of the job it is about.
Asked(x, row) ==
  /\ x.pc = "publish" => row.attempts = 0
  /\ x.pc = "publish_resume" => x.attempts = row.attempts /\ Again(row)
  /\ x.pc = "resume" =>
       /\ row.status \notin ActiveStatus
       /\ row.status = "awaiting_captcha" => x.attempts = row.attempts

RoomFor(q) == \A i \in DOMAIN q : Room(q[i], jobs[q[i].job])

AInv ==
  /\ \A j \in JobIds : RowBudget(jobs[j])
  /\ RoomFor(jobQueue)
  /\ RoomFor(resumeQueue)
  /\ \A w \in Workers : Busy(w) => Booked(worker[w], RowOf(w))
  /\ \A c \in Requests : HasJob(c) => Asked(request[c], jobs[request[c].job])

LEMMA TriesPositive ==
  Tries \in Nat /\ Tries >= 1 /\ MaxRetries \in Nat /\ MaxRetries <= Tries
  BY RetryAssumption DEF Tries

\* A statement that counts nothing.
SameCount(row, new) ==
  /\ new.attempts = row.attempts
  /\ new.retries = row.retries
  /\ new.phase = row.phase

LEMMA SameCountKeeps ==
  ASSUME NEW row, NEW new, SameCount(row, new)
  PROVE  /\ \A m : Room(m, row) => Room(m, new)
         /\ \A x : Booked(x, row) => Booked(x, new)
         /\ RowBudget(row) /\ new.status # "awaiting_captcha" => RowBudget(new)
         /\ RowBudget(row) /\ new.status = row.status => RowBudget(new)
  BY DEF SameCount, Room, Afresh, Again, Booked, Spent, RowBudget

\* What the statements do to the counters.
LEMMA StatementsCount ==
  ASSUME NEW row \in Job
  PROVE  /\ \A s, e, r :
              LET new == UpdateStatus(row, s, e, r) IN
              /\ new.status = s
              /\ new.retries = row.retries
              /\ new.phase = row.phase
              /\ new.attempts = IF s = "processing" THEN row.attempts + 1 ELSE row.attempts
         /\ \A phase, parsed :
              LET new == Paused(row, phase, parsed) IN
              \/ new = row
              \/ /\ new.status = "awaiting_captcha"
                 /\ new.retries = row.retries
                 /\ new.phase = phase
                 /\ new.attempts = row.attempts
         /\ SameCount(row, Expired(row))
         /\ \A body :
              LET new == Resumed(row, body) IN
              /\ new.status = "processing"
              /\ new.retries = row.retries + 1
              /\ new.phase = row.phase
              /\ new.attempts = row.attempts
         /\ \A r : SameCount(row, Unlinked(row, r)) /\ Unlinked(row, r).status = row.status
<1>1. ASSUME NEW s, NEW e, NEW r
      PROVE  LET new == UpdateStatus(row, s, e, r) IN
              /\ new.status = s
              /\ new.retries = row.retries
              /\ new.phase = row.phase
              /\ new.attempts = IF s = "processing" THEN row.attempts + 1 ELSE row.attempts
  BY DEF UpdateStatus, Job
<1>2. ASSUME NEW phase, NEW parsed
      PROVE  LET new == Paused(row, phase, parsed) IN
              \/ new = row
              \/ /\ new.status = "awaiting_captcha"
                 /\ new.retries = row.retries
                 /\ new.phase = phase
                 /\ new.attempts = row.attempts
  BY DEF Paused, Job
<1>3. SameCount(row, Expired(row))
  BY DEF SameCount, Expired, Job
<1>4. ASSUME NEW body
      PROVE  LET new == Resumed(row, body) IN
              /\ new.status = "processing"
              /\ new.retries = row.retries + 1
              /\ new.phase = row.phase
              /\ new.attempts = row.attempts
  BY DEF Resumed, Job
<1>5. ASSUME NEW r
      PROVE  SameCount(row, Unlinked(row, r)) /\ Unlinked(row, r).status = row.status
  BY DEF SameCount, Unlinked, Job
<1>6. QED
  BY <1>1, <1>2, <1>3, <1>4, <1>5

\* A step of worker w on the row of its own job.
Spends(w) ==
  \E row \in Job :
    /\ jobs' = [jobs EXCEPT ![MsgOf(w).job] = row]
    /\ RowBudget(row)
    /\ worker'[w].pc # "idle" => Booked(worker'[w], row)

\* A worker that persists or fails does not start or pause the job any more.
Closing(w, x) ==
  \/ x.pc = "idle"
  \/ x.msg = MsgOf(w) /\ x.pc \in {"load_owner", "receipt", "items", "complete", "fail"}

LEMMA ClosingBooked ==
  ASSUME NEW w, NEW x, Closing(w, x), x.pc # "idle",
         NEW row, MsgOf(w).attempt + 1 = row.attempts
  PROVE  Booked(x, row)
  BY DEF Closing, Booked, Spent

LEMMA LocalSpends ==
  ASSUME TypeInv, AInv, NEW w \in Workers, Local(w)
  PROVE  Spends(w)
<1>1. Busy(w)
  BY DEF Busy, Local, Begin, Fetch, LoadOwner, Load, ResumeBadCookies, ResumeSummary,
         ResumeDetail, Pause, CreateReceipt, CreateItems, Complete, Requeue, Fail, Crash
<1>2. /\ MsgOf(w) \in Message
      /\ MsgOf(w).job \in JobIds
      /\ RowOf(w) \in Job
      /\ worker \in [Workers -> Worker]
      /\ worker[w] \in Worker
      /\ worker[w].msg = MsgOf(w)
      /\ jobs = [jobs EXCEPT ![MsgOf(w).job] = RowOf(w)]
      /\ RowBudget(RowOf(w))
      /\ Booked(worker[w], RowOf(w))
  BY <1>1, BusyRow, HolderIds DEF Busy, AInv, RowOf, MsgOf
<1>3. /\ MsgOf(w).attempt \in Nat
      /\ RowOf(w).attempts \in Nat
      /\ RowOf(w).retries \in Nat
  BY <1>2 DEF Message, Job
<1>4. worker[w].pc # "begin" =>
        Spent(worker[w], RowOf(w)) /\ MsgOf(w).attempt + 1 = RowOf(w).attempts
  BY <1>2 DEF Booked, Spent
\* A decision that leaves the tables alone.
<1>5. ASSUME NEW next, next.pc # "idle" => Booked(next, RowOf(w)),
             worker' = [worker EXCEPT ![w] = next], UNCHANGED jobs
      PROVE  Spends(w)
  <2>1. worker'[w] = next
    BY <1>2, <1>5
  <2>2. QED
    BY <1>2, <1>5, <2>1 DEF Spends
\* A decision that ends the worker's starts of the job.
<1>6. ASSUME NEW next, Closing(w, next), worker[w].pc # "begin",
             worker' = [worker EXCEPT ![w] = next], UNCHANGED jobs
      PROVE  Spends(w)
  BY <1>2, <1>4, <1>5, <1>6, ClosingBooked
\* A statement that starts nothing, before the worker closes the job.
<1>7. ASSUME NEW next, Closing(w, next), worker[w].pc # "begin", NEW row \in Job,
             RowBudget(row), row.attempts = RowOf(w).attempts,
             NEW reply, Write(MsgOf(w).job, row, reply),
             worker' = [worker EXCEPT ![w] = next]
      PROVE  Spends(w)
  <2>1. worker'[w] = next /\ (next.pc # "idle" => Booked(next, row))
    BY <1>2, <1>4, <1>7, ClosingBooked
  <2>2. CASE UNCHANGED jobs
    BY <1>6, <1>7, <2>2
  <2>3. CASE jobs' = [jobs EXCEPT ![MsgOf(w).job] = row]
    BY <1>7, <2>1, <2>3 DEF Spends
  <2>4. QED
    BY <1>7, <2>2, <2>3 DEF Write
<1>8. /\ Closing(w, IdleWorker)
      /\ Closing(w, [worker[w] EXCEPT !.pc = "complete"])
      /\ \A e : Closing(w, Failing(w, e))
      /\ \A p : Closing(w, Persisting(w, p))
      /\ \A p : Closing(w, [At("load_owner", MsgOf(w)) EXCEPT !.parsed = p])
      /\ \A pc \in {"items", "complete"} : \A r : Closing(w, [At(pc, MsgOf(w)) EXCEPT !.receipt = r])
  BY <1>2 DEF Closing, IdleWorker, At, Failing, Persisting, Worker
\* A retry is pushed only while attempts are left.
<1>9. ASSUME NEW e, Decide(w, Failed(w, e)), worker[w].pc # "begin" PROVE Spends(w)
  <2>1. CASE MsgOf(w).attempt + 1 < MaxRetries
    <3> DEFINE next == [At("requeue", MsgOf(w)) EXCEPT !.reason = e]
    <3>1. next.pc = "requeue" /\ next.msg = MsgOf(w)
      BY DEF At
    <3>2. Failed(w, e) = next
      BY <2>1 DEF Failed
    <3> HIDE DEF next
    <3>3. RowOf(w).attempts < Tries
      BY <1>3, <1>4, <1>9, <2>1, TriesPositive
    <3>4. Booked(next, RowOf(w))
      BY <1>4, <1>9, <3>1, <3>3 DEF Booked, Spent
    <3>5. QED
      BY <1>5, <1>9, <3>2, <3>4 DEF Decide
  <2>2. CASE ~(MsgOf(w).attempt + 1 < MaxRetries)
    BY <1>6, <1>8, <1>9, <2>2 DEF Decide, Failed
  <2>3. QED
    BY <2>1, <2>2
\* A pause leaves room for the resume that follows it.
<1>10. ASSUME NEW phase, NEW p, Decide(w, Pausing(w, phase, p)), worker[w].pc # "begin",
              RowOf(w).attempts <= Tries + 2,
              RowOf(w).attempts = Tries + 2 => phase = "detail"
       PROVE  Spends(w)
  <2> DEFINE next == Pausing(w, phase, p)
  <2>1. next.pc = "pause" /\ next.msg = MsgOf(w) /\ next.phase = phase
    BY DEF Pausing, At
  <2> HIDE DEF next
  <2>2. Booked(next, RowOf(w))
    BY <1>4, <1>10, <2>1 DEF Booked, Spent
  <2>3. QED
    BY <1>5, <1>10, <2>2 DEF Decide, next
\* After two solutions nobody pauses for the same challenge again.
<1>11. ASSUME NEW phase, Decide(w, ChallengedAgain(w, phase)), worker[w].pc = "resume"
       PROVE  Spends(w)
  <2>1. CASE worker[w].seen.retries >= CaptchaRetryLimit
    BY <1>6, <1>8, <1>11, <2>1 DEF Decide, ChallengedAgain
  <2>2. CASE ~(worker[w].seen.retries >= CaptchaRetryLimit)
    <3>1. RowOf(w).retries <= 1
      BY <1>3, <1>4, <1>11, <2>2 DEF Spent, CaptchaRetryLimit
    <3>2. RowOf(w).attempts <= Tries + 1
      BY <1>2, <1>3, <3>1, TriesPositive DEF RowBudget
    <3>3. RowOf(w).attempts <= Tries + 2 /\ RowOf(w).attempts # Tries + 2
      BY <1>3, <3>2, TriesPositive
    <3>4. QED
      BY <1>10, <1>11, <2>2, <3>3 DEF ChallengedAgain
  <2>3. QED
    BY <2>1, <2>2
<1>12. CASE Begin(w)
  <2> DEFINE row == UpdateStatus(RowOf(w), "processing", "none", NULL)
  <2>1. worker[w].pc = "begin" /\ Room(MsgOf(w), RowOf(w))
    BY <1>2, <1>12 DEF Begin, Booked
  <2>2. PICK reply \in WriteReply :
          /\ Write(MsgOf(w).job, row, reply)
          /\ worker' = [worker EXCEPT ![w] =
                          IF reply = "ok"
                          THEN At(IF MsgOf(w).resume THEN "load" ELSE "fetch", MsgOf(w))
                          ELSE IdleWorker]
    BY <1>12 DEF Begin
  <2>3. /\ row \in Job
        /\ row.status = "processing"
        /\ row.attempts = RowOf(w).attempts + 1
        /\ row.retries = RowOf(w).retries
        /\ row.phase = RowOf(w).phase
    BY <1>2, UpdateStatusType, StatementsCount DEF JobStatus, ActiveStatus
  <2> HIDE DEF row
  <2>4. RowBudget(row)
    BY <1>2, <1>3, <2>1, <2>3, TriesPositive DEF RowBudget, Room, Afresh, Again
  <2>5. CASE worker' = [worker EXCEPT ![w] = IdleWorker]
    <3>1. worker'[w].pc = "idle"
      BY <1>2, <2>5 DEF IdleWorker, At
    <3>2. CASE UNCHANGED jobs
      BY <1>5, <2>5, <3>2 DEF IdleWorker, At
    <3>3. CASE jobs' = [jobs EXCEPT ![MsgOf(w).job] = row]
      BY <2>3, <2>4, <3>1, <3>3 DEF Spends
    <3>4. QED
      BY <2>2, <3>2, <3>3 DEF Write
  <2>6. ASSUME reply = "ok", NEW pc, worker' = [worker EXCEPT ![w] = At(pc, MsgOf(w))],
               \/ pc = "load" /\ MsgOf(w).resume
               \/ pc = "fetch" /\ ~MsgOf(w).resume
        PROVE  Spends(w)
    <3>1. jobs' = [jobs EXCEPT ![MsgOf(w).job] = row]
      BY <2>2, <2>6 DEF Write
    <3>2. worker'[w].pc = pc /\ worker'[w].msg = MsgOf(w)
      BY <1>2, <2>6 DEF At
    <3>3. Booked(worker'[w], row)
      BY <1>3, <2>1, <2>3, <2>6, <3>2, TriesPositive DEF Booked, Spent, Room, Again, Afresh
    <3>4. QED
      BY <2>3, <2>4, <3>1, <3>3 DEF Spends
  <2>7. CASE reply # "ok"
    BY <2>2, <2>5, <2>7
  <2>8. CASE reply = "ok" /\ MsgOf(w).resume
    BY <2>2, <2>6, <2>8
  <2>9. CASE reply = "ok" /\ ~MsgOf(w).resume
    BY <2>2, <2>6, <2>9
  <2>10. QED
    BY <2>7, <2>8, <2>9
<1>13. CASE Fetch(w)
  <2>1. worker[w].pc # "begin" /\ RowOf(w).attempts <= Tries
    BY <1>4, <1>13 DEF Fetch, Spent
  <2>2. RowOf(w).attempts <= Tries + 2 /\ RowOf(w).attempts # Tries + 2
    BY <1>3, <2>1, TriesPositive
  <2>3. CASE \E e \in FetchErrors : Decide(w, Failed(w, e))
    BY <1>9, <2>1, <2>3
  <2>4. CASE Decide(w, Pausing(w, "summary", "none"))
    BY <1>10, <2>1, <2>2, <2>4
  <2>5. CASE Decide(w, Failing(w, "parsing"))
    BY <1>6, <1>8, <2>1, <2>5 DEF Decide
  <2>6. CASE \E p \in Pages : Decide(w, Pausing(w, "detail", p))
    BY <1>10, <2>1, <2>2, <2>6
  <2>7. CASE \E p \in Pages : Decide(w, [At("load_owner", MsgOf(w)) EXCEPT !.parsed = p])
    BY <1>6, <1>8, <2>1, <2>7 DEF Decide
  <2>8. QED
    BY <1>13, <2>3, <2>4, <2>5, <2>6, <2>7 DEF Fetch
<1>14. CASE LoadOwner(w)
  <2>1. /\ UNCHANGED jobs
        /\ worker[w].pc # "begin"
        /\ \/ worker' = [worker EXCEPT ![w] = Persisting(w, worker[w].parsed)]
           \/ worker' = [worker EXCEPT ![w] = Failing(w, "unknown")]
    BY <1>14 DEF LoadOwner
  <2>2. QED
    BY <1>6, <1>8, <2>1
<1>15. CASE Load(w)
  <2> DEFINE loaded == [At("resume", MsgOf(w)) EXCEPT !.seen = RowOf(w)]
  <2>1. /\ UNCHANGED jobs
        /\ worker[w].pc = "load"
        /\ \/ worker' = [worker EXCEPT ![w] = loaded]
           \/ worker' = [worker EXCEPT ![w] = IdleWorker]
    BY <1>15 DEF Load
  <2>2. loaded.pc = "resume" /\ loaded.seen = RowOf(w) /\ loaded.msg = MsgOf(w)
    BY DEF At
  <2> HIDE DEF loaded
  <2>3. Booked(loaded, RowOf(w))
    BY <1>4, <2>1, <2>2 DEF Booked, Spent
  <2>4. QED
    BY <1>5, <1>6, <1>8, <2>1, <2>3
<1>16. CASE ResumeBadCookies(w)
  BY <1>9, <1>16 DEF ResumeBadCookies
<1>17. CASE ResumeSummary(w)
  <2>1. worker[w].pc = "resume" /\ worker[w].seen.phase # "detail"
    BY <1>17 DEF ResumeSummary
  <2>2. RowOf(w).attempts <= Tries + 2
    BY <1>2, <1>3, <1>4, <2>1, TriesPositive DEF Spent, RowBudget
  <2>3. CASE \E e \in FetchErrors : Decide(w, Failed(w, e))
    BY <1>9, <2>1, <2>3
  <2>4. CASE Decide(w, ChallengedAgain(w, "summary"))
    BY <1>11, <2>1, <2>4
  <2>5. CASE Decide(w, Failing(w, "parsing"))
    BY <1>6, <1>8, <2>1, <2>5 DEF Decide
  <2>6. CASE \E p \in Pages : Decide(w, Pausing(w, "detail", p))
    BY <1>10, <2>1, <2>2, <2>6
  <2>7. CASE \E p \in Pages : Decide(w, Persisting(w, p))
    BY <1>6, <1>8, <2>1, <2>7 DEF Decide
  <2>8. QED
    BY <1>17, <2>3, <2>4, <2>5, <2>6, <2>7 DEF ResumeSummary
<1>18. CASE ResumeDetail(w)
  <2>1. worker[w].pc = "resume"
    BY <1>18 DEF ResumeDetail
  <2>2. CASE \E e \in FetchErrors : Decide(w, Failed(w, e))
    BY <1>9, <2>1, <2>2
  <2>3. CASE Decide(w, ChallengedAgain(w, "detail"))
    BY <1>11, <2>1, <2>3
  <2>4. CASE Decide(w, FromSummary(w))
    <3>1. CASE Decide(w, Failed(w, "navigation"))
      BY <1>9, <2>1, <3>1
    <3>2. CASE Decide(w, Persisting(w, worker[w].seen.summary))
      BY <1>6, <1>8, <2>1, <3>2 DEF Decide
    <3>3. QED
      BY <2>4, <3>1, <3>2 DEF FromSummary
  <2>5. QED
    BY <1>18, <2>2, <2>3, <2>4 DEF ResumeDetail
<1>19. CASE Pause(w)
  <2> DEFINE row == Paused(RowOf(w), worker[w].phase, worker[w].parsed)
  <2>1. PICK reply \in WriteReply :
          /\ Write(MsgOf(w).job, row, reply)
          /\ \/ worker' = [worker EXCEPT ![w] = IdleWorker]
             \/ worker' = [worker EXCEPT ![w] = Failing(w, "captcha")]
    BY <1>19 DEF Pause
  <2>2. /\ worker[w].pc = "pause"
        /\ worker[w].phase \in {"none", "summary", "detail"}
        /\ worker[w].parsed \in Pages \cup {"none"}
    BY <1>2, <1>19 DEF Worker, Pause
  <2>3. /\ row \in Job
        /\ \/ row = RowOf(w)
           \/ /\ row.retries = RowOf(w).retries
              /\ row.phase = worker[w].phase
              /\ row.attempts = RowOf(w).attempts
    BY <1>2, <2>2, PausedType, StatementsCount
  <2> HIDE DEF row
  <2>4. RowBudget(row) /\ row.attempts = RowOf(w).attempts
    BY <1>2, <1>4, <2>2, <2>3 DEF RowBudget, Spent
  <2>5. QED
    BY <1>7, <1>8, <2>1, <2>2, <2>3, <2>4
<1>20. CASE CreateReceipt(w)
  <2>1. worker[w].pc # "begin"
    BY <1>20 DEF CreateReceipt
  <2>2. CASE Decide(w, Failing(w, "unknown"))
    BY <1>6, <1>8, <2>1, <2>2 DEF Decide
  <2>3. ASSUME NEW r, NEW pc \in {"complete", "items"}, UNCHANGED jobs,
               worker' = [worker EXCEPT ![w] = [At(pc, MsgOf(w)) EXCEPT !.receipt = r]]
        PROVE  Spends(w)
    BY <1>6, <1>8, <2>1, <2>3
  <2>4. CASE worker' = [worker EXCEPT ![w] = Failing(w, "unknown")] /\ UNCHANGED jobs
    BY <1>6, <1>8, <2>1, <2>4
  <2>5. QED
    BY <1>20, <2>2, <2>3, <2>4 DEF CreateReceipt
<1>21. CASE CreateItems(w)
  <2>1. worker[w].pc # "begin"
    BY <1>21 DEF CreateItems
  <2>2. CASE Decide(w, Failing(w, "unknown"))
    BY <1>6, <1>8, <2>1, <2>2 DEF Decide
  <2>3. CASE /\ worker' = [worker EXCEPT ![w] = [worker[w] EXCEPT !.pc = "complete"]]
             /\ UNCHANGED jobs
    BY <1>6, <1>8, <2>1, <2>3
  <2>4. CASE worker' = [worker EXCEPT ![w] = Failing(w, "unknown")] /\ UNCHANGED jobs
    BY <1>6, <1>8, <2>1, <2>4
  <2>5. QED
    BY <1>21, <2>2, <2>3, <2>4 DEF CreateItems
<1>22. CASE Complete(w)
  <2> DEFINE row == UpdateStatus(RowOf(w), "completed", "none", worker[w].receipt)
  <2>1. worker[w].pc # "begin"
    BY <1>22 DEF Complete
  <2>2. CASE Decide(w, Failing(w, "unknown"))
    BY <1>6, <1>8, <2>1, <2>2 DEF Decide
  <2>3. ASSUME NEW reply \in WriteReply, Write(MsgOf(w).job, row, reply),
               worker' = [worker EXCEPT ![w] = IF reply = "ok" THEN IdleWorker
                                                               ELSE Failing(w, "unknown")]
        PROVE  Spends(w)
    <3>1. worker[w].receipt \in ReceiptIds \cup {NULL}
      BY <1>2 DEF Worker
    <3>2. row \in Job /\ SameCount(RowOf(w), row) /\ row.status # "awaiting_captcha"
      BY <1>2, <3>1, UpdateStatusType, StatementsCount DEF JobStatus, SettledStatus, SameCount
    <3> HIDE DEF row
    <3>3. RowBudget(row) /\ row.attempts = RowOf(w).attempts
      BY <1>2, <3>2, SameCountKeeps DEF SameCount
    <3>4. QED
      BY <1>7, <1>8, <2>1, <2>3, <3>2, <3>3
  <2>4. QED
    BY <1>22, <2>2, <2>3 DEF Complete
<1>23. CASE Requeue(w)
  <2> DEFINE row  == UpdateStatus(RowOf(w), "queued", "none", NULL)
             next == [worker[w] EXCEPT !.pc = "enqueue"]
  <2>1. PICK reply \in WriteReply : Write(MsgOf(w).job, row, reply)
    BY <1>23 DEF Requeue
  <2>2. row \in Job /\ SameCount(RowOf(w), row) /\ row.status # "awaiting_captcha"
    BY <1>2, UpdateStatusType, StatementsCount DEF JobStatus, ActiveStatus, SameCount
  <2>3. worker' = [worker EXCEPT ![w] = next] /\ next.pc = "enqueue" /\ next.msg = MsgOf(w)
    BY <1>2, <1>23 DEF Requeue, Worker
  <2> HIDE DEF row, next
  <2>4. RowOf(w).attempts < Tries
    BY <1>4, <1>23 DEF Requeue, Spent
  <2>5. Booked(next, RowOf(w))
    BY <1>4, <1>23, <2>3, <2>4 DEF Booked, Spent, Requeue
  <2>6. RowBudget(row) /\ Booked(next, row)
    BY <1>2, <2>2, <2>5, SameCountKeeps
  <2>7. worker'[w] = next
    BY <1>2, <2>3
  <2>8. QED
    BY <1>5, <2>1, <2>2, <2>3, <2>5, <2>6, <2>7 DEF Write, Spends
<1>24. CASE Fail(w)
  <2> DEFINE row == UpdateStatus(RowOf(w), "failed", worker[w].reason, NULL)
  <2>1. PICK reply \in WriteReply : Write(MsgOf(w).job, row, reply)
    BY <1>24 DEF Fail
  <2>2. worker[w].reason \in FailureReason \cup {"none"}
    BY <1>2 DEF Worker
  <2>3. row \in Job /\ SameCount(RowOf(w), row) /\ row.status # "awaiting_captcha"
    BY <1>2, <2>2, UpdateStatusType, StatementsCount DEF JobStatus, SettledStatus, SameCount
  <2> HIDE DEF row
  <2>4. RowBudget(row) /\ row.attempts = RowOf(w).attempts
    BY <1>2, <2>3, SameCountKeeps DEF SameCount
  <2>5. worker[w].pc # "begin" /\ worker' = [worker EXCEPT ![w] = IdleWorker]
    BY <1>24 DEF Fail
  <2>6. QED
    BY <1>7, <1>8, <2>1, <2>3, <2>4, <2>5
<1>25. CASE Crash(w)
  BY <1>5, <1>25 DEF Crash, IdleWorker, At
<1>26. QED
  BY <1>12, <1>13, <1>14, <1>15, <1>16, <1>17, <1>18, <1>19, <1>20, <1>21, <1>22, <1>23,
     <1>24, <1>25 DEF Local

\* A statement that counts nothing and neither pauses the job nor starts it.
Steady(row, new) ==
  /\ SameCount(row, new)
  /\ new.status = row.status \/ new.status \notin ActiveStatus \cup {"awaiting_captcha"}

LEMMA SteadyKeeps ==
  ASSUME NEW row, NEW new, Steady(row, new)
  PROVE  /\ \A m : Room(m, row) => Room(m, new)
         /\ \A x : Booked(x, row) => Booked(x, new)
         /\ \A x : Asked(x, row) => Asked(x, new)
         /\ RowBudget(row) => RowBudget(new)
<1>1. /\ \A m : Room(m, row) => Room(m, new)
      /\ \A x : Booked(x, row) => Booked(x, new)
      /\ RowBudget(row) => RowBudget(new)
  BY SameCountKeeps DEF Steady
<1>2. Again(row) => Again(new)
  BY DEF Steady, SameCount, Again
<1>3. ASSUME NEW x, Asked(x, row) PROVE Asked(x, new)
  BY <1>2, <1>3 DEF Steady, SameCount, Asked
<1>4. QED
  BY <1>1, <1>3

\* A message is about a job of the table.
LEMMA MessagesNameJobs ==
  ASSUME NEW q \in Seq(Message), NEW i \in DOMAIN q
  PROVE  q[i] \in Message /\ q[i].job \in JobIds
<1>1. q[i] \in Message
  OBVIOUS
<1>2. QED
  BY <1>1 DEF Message

\* A list after the step holds old messages about other jobs than k, and new
\* ones there is room for.
RoomLeft(q, new, k) ==
  \A i \in DOMAIN new :
    \/ \E n \in DOMAIN q : new[i] = q[n] /\ q[n].job # k
    \/ Room(new[i], jobs'[new[i].job])

\* A step that counts something for job k only.
LEMMA BudgetsKept ==
  ASSUME TypeInv, AInv, NEW k,
         \A i \in JobIds : i # k => Steady(jobs[i], jobs'[i]),
         k \in JobIds => RowBudget(jobs'[k]),
         RoomLeft(jobQueue, jobQueue', k),
         RoomLeft(resumeQueue, resumeQueue', k),
         \A v \in Workers : worker'[v].pc # "idle" =>
           \/ worker'[v] = worker[v] /\ MsgOf(v).job # k
           \/ Booked(worker'[v], jobs'[worker'[v].msg.job]),
         \A d \in Requests : HasJob(d)' =>
           \/ request'[d] = request[d] /\ request[d].job # k
           \/ Asked(request'[d], jobs'[request'[d].job])
  PROVE  AInv'
<1>1. \A j \in JobIds : RowBudget(jobs'[j])
  BY SteadyKeeps DEF AInv
<1>2. ASSUME NEW q \in Seq(Message), NEW new, RoomFor(q), RoomLeft(q, new, k), NEW i \in DOMAIN new
      PROVE  Room(new[i], jobs'[new[i].job])
  <2>1. CASE \E n \in DOMAIN q : new[i] = q[n] /\ q[n].job # k
    <3>1. PICK n \in DOMAIN q : new[i] = q[n] /\ q[n].job # k
      BY <2>1
    <3>2. q[n].job \in JobIds /\ Room(q[n], jobs[q[n].job])
      BY <1>2, MessagesNameJobs DEF RoomFor
    <3>3. QED
      BY <3>1, <3>2, SteadyKeeps
  <2>2. QED
    BY <1>2, <2>1 DEF RoomLeft
<1>3. RoomFor(jobQueue)' /\ RoomFor(resumeQueue)'
  BY <1>2 DEF AInv, TypeInv, TypeOK, RoomFor
<1>4. ASSUME NEW v \in Workers, Busy(v)'
      PROVE  Booked(worker'[v], jobs'[worker'[v].msg.job])
  <2>1. CASE worker'[v] = worker[v] /\ MsgOf(v).job # k
    <3>1. Busy(v)
      BY <1>4, <2>1 DEF Busy
    <3>2. MsgOf(v).job \in JobIds /\ Booked(worker[v], jobs[MsgOf(v).job])
      BY <3>1, HolderIds DEF AInv, RowOf
    <3>3. QED
      BY <2>1, <3>2, SteadyKeeps DEF MsgOf
  <2>2. QED
    BY <1>4, <2>1 DEF Busy
<1>5. ASSUME NEW d \in Requests, HasJob(d)'
      PROVE  Asked(request'[d], jobs'[request'[d].job])
  <2>1. CASE request'[d] = request[d] /\ request[d].job # k
    <3>1. HasJob(d)
      BY <1>5, <2>1 DEF HasJob
    <3>2. request[d].job \in JobIds /\ Asked(request[d], jobs[request[d].job])
      BY <3>1 DEF AInv, HasJob, TypeInv, Shape
    <3>3. QED
      BY <2>1, <3>2, SteadyKeeps
  <2>2. QED
    BY <1>5, <2>1
<1>6. (\A w \in Workers : Busy(w) => Booked(worker[w], RowOf(w)))'
  BY <1>4 DEF Busy, Booked, RowOf, MsgOf, Room, Spent
<1>7. (\A c \in Requests : HasJob(c) => Asked(request[c], jobs[request[c].job]))'
  BY <1>5 DEF HasJob, Asked
<1>8. (\A j \in JobIds : RowBudget(jobs[j]))'
  BY <1>1 DEF RowBudget
<1>9. QED
  BY <1>3, <1>6, <1>7, <1>8 DEF AInv

\* Rows, lists, workers and requests that a step leaves alone.
LEMMA LeftAlone ==
  ASSUME TypeInv, NEW k
  PROVE  /\ NULL \notin JobIds
         /\ \A row : Steady(row, row)
         /\ \A q \in Seq(Message) : k \notin JobsIn(q) => RoomLeft(q, q, k)
         /\ \A w \in Workers : Busy(w) => MsgOf(w).job # NULL
         /\ \A c \in Requests : HasJob(c) => request[c].job # NULL
         /\ \A q \in Seq(Message) : NULL \notin JobsIn(q)
<1>1. NULL \notin JobIds
  BY NullIsNoValue
<1>2. \A row : Steady(row, row)
  BY DEF Steady, SameCount
<1>3. \A q \in Seq(Message) : k \notin JobsIn(q) => RoomLeft(q, q, k)
  BY DEF RoomLeft, JobsIn
<1>4. \A q \in Seq(Message) : \A i \in DOMAIN q : q[i].job \in JobIds
  BY MessagesNameJobs
<1>5. \A q \in Seq(Message) : NULL \notin JobsIn(q)
  BY <1>1, <1>4 DEF JobsIn
<1>6. \A w \in Workers : Busy(w) => MsgOf(w).job # NULL
  BY <1>1, HolderIds
<1>7. \A c \in Requests : HasJob(c) => request[c].job # NULL
  BY <1>1 DEF HasJob, TypeInv, Shape
<1>8. QED
  BY <1>1, <1>2, <1>3, <1>5, <1>6, <1>7

\* A list after a push or a pop.
LEMMA RoomAfterPush ==
  ASSUME NEW q \in Seq(Message), NEW m \in Message, NEW k, k \notin JobsIn(q),
         Room(m, jobs'[m.job])
  PROVE  RoomLeft(q, Append(q, m), k)
<1> DEFINE p == Append(q, m)
<1>1. /\ DOMAIN q = 1 .. Len(q)
      /\ DOMAIN p = 1 .. Len(q) + 1
      /\ Len(q) \in Nat
  OBVIOUS
<1>2. \A i \in DOMAIN q : p[i] = q[i] /\ q[i].job # k
  BY DEF JobsIn
<1>3. p[Len(q) + 1] = m
  OBVIOUS
<1>4. \A i \in DOMAIN p : i \in DOMAIN q \/ i = Len(q) + 1
  BY <1>1
<1> HIDE DEF p
<1>5. RoomLeft(q, p, k)
  BY <1>2, <1>3, <1>4 DEF RoomLeft
<1>6. QED
  BY <1>5 DEF p

LEMMA RoomAfterPop ==
  ASSUME NEW q \in Seq(Message), q # <<>>, NEW k, k \notin JobsIn(q)
  PROVE  RoomLeft(q, Tail(q), k)
<1> DEFINE p == Tail(q)
<1>1. /\ Len(q) \in Nat
      /\ DOMAIN q = 1 .. Len(q)
      /\ DOMAIN p = 1 .. Len(q) - 1
  OBVIOUS
<1>2. \A i \in DOMAIN p : p[i] = q[i + 1]
  OBVIOUS
<1>3. \A i \in DOMAIN p : i + 1 \in DOMAIN q
  BY <1>1
<1>4. \A i \in DOMAIN q : q[i].job # k
  BY DEF JobsIn
<1> HIDE DEF p
<1>5. RoomLeft(q, p, k)
  BY <1>2, <1>3, <1>4 DEF RoomLeft
<1>6. QED
  BY <1>5 DEF p

LEMMA LocalBudgets ==
  ASSUME TypeInv, CInv, AInv, NEW w \in Workers, Local(w)
  PROVE  AInv'
<1> DEFINE k == MsgOf(w).job
<1>1. Busy(w)
  BY DEF Busy, Local, Begin, Fetch, LoadOwner, Load, ResumeBadCookies, ResumeSummary,
         ResumeDetail, Pause, CreateReceipt, CreateItems, Complete, Requeue, Fail, Crash
<1>2. PICK next \in Carrying(MsgOf(w)) \cup {IdleWorker}, row0 \in Job :
        Moves(w, next, row0)
  BY LocalMoves DEF Moving
<1>3. /\ UNCHANGED <<jobQueue, resumeQueue, request>>
      /\ worker' = [worker EXCEPT ![w] = next]
      /\ next \in Carrying(MsgOf(w)) \cup {IdleWorker}
  BY <1>2 DEF Moves, redis
<1>4. PICK row \in Job :
        /\ jobs' = [jobs EXCEPT ![k] = row]
        /\ RowBudget(row)
        /\ worker'[w].pc # "idle" => Booked(worker'[w], row)
  BY LocalSpends DEF Spends
<1>5. k \in JobIds /\ jobs'[k] = row /\ \A i \in JobIds : i # k => jobs'[i] = jobs[i]
  BY <1>1, <1>4, HolderIds
<1>6. \A i \in JobIds : i # k => Steady(jobs[i], jobs'[i])
  BY <1>5, LeftAlone
<1>7. RoomLeft(jobQueue, jobQueue', k) /\ RoomLeft(resumeQueue, resumeQueue', k)
  BY <1>1, <1>3, LeftAlone DEF CInv, HeldApart, Queued, TypeInv, TypeOK
<1>8. ASSUME NEW v \in Workers, worker'[v].pc # "idle"
      PROVE  \/ worker'[v] = worker[v] /\ MsgOf(v).job # k
             \/ Booked(worker'[v], jobs'[worker'[v].msg.job])
  <2>1. CASE v = w
    <3>1. worker'[w] = next /\ next.pc # "idle"
      BY <1>3, <1>8, <2>1, HolderIds
    <3>2. next.msg = MsgOf(w)
      BY <1>3, <3>1 DEF Carrying, IdleWorker, At
    <3>3. QED
      BY <1>4, <1>5, <1>8, <2>1, <3>1, <3>2
  <2>2. CASE v # w
    <3>1. worker'[v] = worker[v]
      BY <1>3, <2>2, HolderIds
    <3>2. Busy(v)
      BY <1>8, <3>1 DEF Busy
    <3>3. QED
      BY <1>1, <2>2, <3>1, <3>2 DEF CInv, HeldApart
  <2>3. QED
    BY <2>1, <2>2
<1>9. ASSUME NEW d \in Requests, HasJob(d)'
      PROVE  request'[d] = request[d] /\ request[d].job # k
  <2>1. HasJob(d) /\ request'[d] = request[d]
    BY <1>3, <1>9 DEF HasJob
  <2>2. Active(k)
    BY <1>1 DEF CInv, HeldActive
  <2>3. CASE Holding(d)
    BY <1>1, <2>1, <2>3 DEF CInv, HeldApart
  <2>4. CASE request[d].pc = "resume"
    BY <2>1, <2>2, <2>4 DEF AInv, Asked, Active
  <2>5. QED
    BY <2>1, <2>3, <2>4 DEF HasJob, Holding
<1> HIDE DEF k
<1>10. QED
  BY <1>4, <1>5, <1>6, <1>7, <1>8, <1>9, BudgetsKept

\* A popped message brings its room with it.
LEMMA DequeueBudgets ==
  ASSUME TypeInv, CInv, AInv, NoLostCalls, NEW w \in Workers, Dequeue(w)
  PROVE  AInv'
<1>1. PopReply = {"ok"}
  BY DEF NoLostCalls, PopReply
<1>2. UNCHANGED <<jobs, request>>
  BY DEF Dequeue
<1>3. jobQueue \in Seq(Message) /\ resumeQueue \in Seq(Message)
  BY DEF TypeInv, TypeOK
<1>4. ASSUME NEW q \in Seq(Message), q # <<>>, RoomFor(q),
             worker' = [worker EXCEPT ![w] = At("begin", Head(q))],
             RoomLeft(jobQueue, jobQueue', NULL), RoomLeft(resumeQueue, resumeQueue', NULL)
      PROVE  AInv'
  <2> DEFINE next == At("begin", Head(q))
  <2>1. next.pc = "begin" /\ next.msg = Head(q)
    BY DEF At
  <2>2. Room(Head(q), jobs[Head(q).job])
    <3>1. 1 \in DOMAIN q /\ Head(q) = q[1]
      BY <1>4
    <3>2. QED
      BY <1>4, <3>1 DEF RoomFor
  <2> HIDE DEF next
  <2>3. Booked(next, jobs[next.msg.job])
    BY <2>1, <2>2 DEF Booked
  <2>4. worker'[w] = next /\ \A v \in Workers : v # w => worker'[v] = worker[v]
    BY <1>4, HolderIds DEF next
  <2>5. \A v \in Workers : worker'[v].pc # "idle" =>
           \/ worker'[v] = worker[v] /\ MsgOf(v).job # NULL
           \/ Booked(worker'[v], jobs'[worker'[v].msg.job])
    BY <1>2, <2>3, <2>4, LeftAlone DEF Busy
  <2>6. \A d \in Requests : HasJob(d)' => request'[d] = request[d] /\ request[d].job # NULL
    BY <1>2, LeftAlone DEF HasJob
  <2>7. \A i \in JobIds : Steady(jobs[i], jobs'[i])
    BY <1>2, LeftAlone
  <2>8. QED
    BY <1>4, <2>5, <2>6, <2>7, LeftAlone, BudgetsKept
<1>5. CASE /\ resumeQueue # <<>>
           /\ resumeQueue' = Tail(resumeQueue)
           /\ worker' = [worker EXCEPT ![w] = At("begin", Head(resumeQueue))]
           /\ UNCHANGED jobQueue
  BY <1>3, <1>4, <1>5, LeftAlone, RoomAfterPop DEF AInv
<1>6. CASE /\ jobQueue # <<>>
           /\ jobQueue' = Tail(jobQueue)
           /\ worker' = [worker EXCEPT ![w] = At("begin", Head(jobQueue))]
           /\ UNCHANGED resumeQueue
  BY <1>3, <1>4, <1>6, LeftAlone, RoomAfterPop DEF AInv
<1>7. QED
  BY <1>1, <1>5, <1>6 DEF Dequeue

\* A retry is pushed with the next attempt, which the job still has.
LEMMA EnqueueBudgets ==
  ASSUME TypeInv, CInv, AInv, NoLostCalls, NEW w \in Workers, Enqueue(w)
  PROVE  AInv'
<1> DEFINE retry == [job |-> MsgOf(w).job, attempt |-> MsgOf(w).attempt + 1, resume |-> FALSE]
<1>1. Busy(w) /\ worker[w].pc = "enqueue" /\ UNCHANGED <<jobs, request, resumeQueue>>
  BY DEF Enqueue, Busy
<1>2. /\ MsgOf(w) \in Message
      /\ retry \in Message
      /\ retry.job = MsgOf(w).job
      /\ retry.attempt = MsgOf(w).attempt + 1
      /\ retry.resume = FALSE
      /\ jobQueue \in Seq(Message)
      /\ resumeQueue \in Seq(Message)
  BY <1>1 DEF TypeInv, TypeOK, Shape, Busy, Message
<1>3. MsgOf(w).attempt + 1 = RowOf(w).attempts /\ RowOf(w).attempts < Tries
  BY <1>1 DEF AInv, Booked, Spent, MsgOf
<1> HIDE DEF retry
<1>4. Room(retry, jobs'[retry.job])
  BY <1>1, <1>2, <1>3 DEF Room, Afresh, RowOf
<1>5. PICK reply \in PushReply :
        /\ jobQueue' = Pushed(jobQueue, retry, reply)
        /\ worker' = [worker EXCEPT ![w] = IF Succeeds(reply) THEN IdleWorker
                                                              ELSE Failing(w, worker[w].reason)]
  BY DEF Enqueue, retry
<1>6. RoomLeft(jobQueue, jobQueue', NULL) /\ RoomLeft(resumeQueue, resumeQueue', NULL)
  <2>1. jobQueue' = jobQueue \/ jobQueue' = Append(jobQueue, retry)
    BY <1>5, PushedOnce
  <2>2. QED
    BY <1>1, <1>2, <1>4, <2>1, LeftAlone, RoomAfterPush
<1>7. \A e : Closing(w, Failing(w, e)) /\ Closing(w, IdleWorker)
  BY DEF Closing, Failing, IdleWorker, At
<1>8. ASSUME NEW v \in Workers, worker'[v].pc # "idle"
      PROVE  \/ worker'[v] = worker[v] /\ MsgOf(v).job # NULL
             \/ Booked(worker'[v], jobs'[worker'[v].msg.job])
  <2>1. CASE v = w
    <3>1. PICK next : worker'[w] = next /\ Closing(w, next)
      BY <1>5, <1>7, HolderIds
    <3>2. next.msg = MsgOf(w) /\ jobs'[next.msg.job] = RowOf(w)
      BY <1>1, <1>8, <2>1, <3>1 DEF Closing, RowOf
    <3>3. Booked(next, RowOf(w))
      BY <1>3, <1>8, <2>1, <3>1, ClosingBooked
    <3>4. QED
      BY <2>1, <3>1, <3>2, <3>3
  <2>2. CASE v # w
    BY <1>5, <1>8, <2>2, LeftAlone, HolderIds DEF Busy
  <2>3. QED
    BY <2>1, <2>2
<1>9. \A d \in Requests : HasJob(d)' => request'[d] = request[d] /\ request[d].job # NULL
  BY <1>1, LeftAlone DEF HasJob
<1>10. \A i \in JobIds : Steady(jobs[i], jobs'[i])
  BY <1>1, LeftAlone
<1>11. QED
  BY <1>6, <1>8, <1>9, <1>10, LeftAlone, BudgetsKept

\* Steps that leave Redis, workers and the other requests alone.
LEMMA RequestBudgeted ==
  ASSUME TypeInv, AInv, UNCHANGED <<worker, jobQueue, resumeQueue>>,
         \A i \in JobIds : Steady(jobs[i], jobs'[i]),
         NEW c \in Requests, NEW x,
         request' = [request EXCEPT ![c] = x] \/ UNCHANGED request,
         x.pc \in {"publish", "mark_failed", "resume", "publish_resume"} =>
           Asked(x, jobs'[x.job])
  PROVE  AInv'
<1>1. ASSUME NEW v \in Workers, worker'[v].pc # "idle"
      PROVE  worker'[v] = worker[v] /\ MsgOf(v).job # NULL
  BY <1>1, LeftAlone DEF Busy
<1>2. ASSUME NEW d \in Requests, HasJob(d)'
      PROVE  \/ request'[d] = request[d] /\ request[d].job # NULL
             \/ Asked(request'[d], jobs'[request'[d].job])
  <2>1. CASE request'[d] = request[d]
    BY <1>2, <2>1, LeftAlone DEF HasJob
  <2>2. CASE request'[d] # request[d]
    <3>1. request'[d] = x
      BY <2>2, HolderIds
    <3>2. QED
      BY <1>2, <3>1 DEF HasJob
  <2>3. QED
    BY <2>1, <2>2
<1>3. RoomLeft(jobQueue, jobQueue', NULL) /\ RoomLeft(resumeQueue, resumeQueue', NULL)
  BY LeftAlone DEF TypeInv, TypeOK
<1>4. QED
  BY <1>1, <1>2, <1>3, LeftAlone, BudgetsKept

\* A statement of the only request on a job that nobody holds.
LEMMA TakenBudgeted ==
  ASSUME TypeInv, CInv, AInv, UNCHANGED <<worker, jobQueue, resumeQueue>>,
         \A a, b \in Requests : a = b,
         NEW c \in Requests, NEW j \in JobIds, NEW row, NEW x,
         ~Active(j), jobs' = [jobs EXCEPT ![j] = row], RowBudget(row),
         request' = [request EXCEPT ![c] = x], x.job = j, Asked(x, row)
  PROVE  AInv'
<1>1. jobs'[j] = row /\ \A i \in JobIds : i # j => Steady(jobs[i], jobs'[i])
  BY HolderIds, LeftAlone
<1>2. RoomLeft(jobQueue, jobQueue', j) /\ RoomLeft(resumeQueue, resumeQueue', j)
  <2>1. j \notin JobsIn(jobQueue) /\ j \notin JobsIn(resumeQueue)
    BY DEF CInv, HeldActive, Queued
  <2>2. QED
    BY <2>1, LeftAlone DEF TypeInv, TypeOK
<1>3. \A v \in Workers : worker'[v].pc # "idle" => worker'[v] = worker[v] /\ MsgOf(v).job # j
  BY DEF CInv, HeldActive, Busy
<1>4. \A d \in Requests : request'[d] = x /\ jobs'[request'[d].job] = row
  BY <1>1, HolderIds
<1>5. \A d \in Requests : HasJob(d)' => Asked(request'[d], jobs'[request'[d].job])
  BY <1>4
<1>6. QED
  BY <1>1, <1>2, <1>3, <1>5, BudgetsKept

\* A request pushes its job with the attempts the job has used.
LEMMA GivenBudgeted ==
  ASSUME TypeInv, AInv, UNCHANGED <<worker, jobs>>,
         NEW c \in Requests, NEW m \in Message, Room(m, jobs[m.job]),
         request' = [request EXCEPT ![c] = IdleRequest],
         \/ jobQueue' = Append(jobQueue, m) /\ UNCHANGED resumeQueue
         \/ resumeQueue' = Append(resumeQueue, m) /\ UNCHANGED jobQueue
  PROVE  AInv'
<1>1. \A i \in JobIds : Steady(jobs[i], jobs'[i])
  BY LeftAlone
<1>2. RoomLeft(jobQueue, jobQueue', NULL) /\ RoomLeft(resumeQueue, resumeQueue', NULL)
  <2>1. jobQueue \in Seq(Message) /\ resumeQueue \in Seq(Message) /\ Room(m, jobs'[m.job])
    BY DEF TypeInv, TypeOK
  <2>2. QED
    BY <2>1, LeftAlone, RoomAfterPush
<1>3. \A v \in Workers : worker'[v].pc # "idle" => worker'[v] = worker[v] /\ MsgOf(v).job # NULL
  BY LeftAlone DEF Busy
<1>4. ASSUME NEW d \in Requests, HasJob(d)'
      PROVE  request'[d] = request[d] /\ request[d].job # NULL
  <2>1. request'[d] = request[d]
    BY <1>4, IdleRequestShape, HolderIds DEF HasJob
  <2>2. QED
    BY <1>4, <2>1, LeftAlone DEF HasJob
<1>5. QED
  BY <1>1, <1>2, <1>3, <1>4, LeftAlone, BudgetsKept

\* The steps of the only request.
LEMMA RequestBudgets ==
  ASSUME TypeInv, CInv, AInv, NoLostCalls, \A a, b \in Requests : a = b,
         NEW c \in Requests,
         \/ RequestStep(c)
         \/ Disconnect(c)
         \/ \E u \in Urls : SubmitCheckReceipt(c, u)
         \/ \E j \in JobIds : ResumeRead(c, j)
         \/ \E r \in ReceiptIds : DeleteReceipt(c, r)
  PROVE  AInv'
<1>1. /\ "absent" \notin ActiveStatus
      /\ "awaiting_captcha" \notin ActiveStatus
      /\ "failed" \notin ActiveStatus
      /\ "processing" \in ActiveStatus
  BY DEF ActiveStatus
<1>2. \A x, row : x.pc \in {"idle", "check_active", "create", "mark_failed"} => Asked(x, row)
  BY DEF Asked
<1>3. ASSUME UNCHANGED <<jobs, worker, jobQueue, resumeQueue>>, NEW x,
             request' = [request EXCEPT ![c] = x],
             x.pc \in {"idle", "check_active", "create", "mark_failed"}
      PROVE  AInv'
  <2>1. \A i \in JobIds : Steady(jobs[i], jobs'[i])
    BY <1>3, LeftAlone
  <2>2. Asked(x, jobs'[x.job])
    BY <1>2, <1>3
  <2>3. QED
    BY <1>3, <2>1, <2>2, RequestBudgeted
<1>4. IdleRequest.pc = "idle"
  BY IdleRequestShape
<1>5. \A j \in JobIds : /\ jobs[j] \in Job
                        /\ jobs[j].attempts \in Nat
                        /\ jobs[j].retries \in Nat
                        /\ RowBudget(jobs[j])
  BY HolderIds DEF AInv, Job
<1>6. CASE \E u \in Urls : SubmitCheckReceipt(c, u)
  <2>1. PICK u \in Urls : SubmitCheckReceipt(c, u)
    BY <1>6
  <2> DEFINE x == [IdleRequest EXCEPT !.pc = "check_active", !.url = u]
  <2>2. x.pc = "check_active"
    BY DEF IdleRequest
  <2>3. request' = [request EXCEPT ![c] = x] /\ UNCHANGED <<jobs, worker, jobQueue, resumeQueue>>
    BY <2>1 DEF SubmitCheckReceipt, redis
  <2> HIDE DEF x
  <2>4. QED
    BY <1>3, <2>2, <2>3
<1>7. CASE SubmitCheckActive(c)
  <2> DEFINE x == [request[c] EXCEPT !.pc = "create"]
  <2>1. x.pc = "create"
    BY HolderIds DEF Request
  <2>2. /\ request' = [request EXCEPT ![c] = x] \/ request' = [request EXCEPT ![c] = IdleRequest]
        /\ UNCHANGED <<jobs, worker, jobQueue, resumeQueue>>
    BY <1>7 DEF SubmitCheckActive, redis
  <2> HIDE DEF x
  <2>3. QED
    BY <1>3, <1>4, <2>1, <2>2
<1>8. CASE SubmitCreate(c)
  <2>1. PICK reply \in WriteReply, j \in JobIds :
          /\ jobs[j].status = "absent"
          /\ Write(j, Created(HouseOf[c], request[c].url), reply)
          /\ request' = [request EXCEPT ![c] =
                           IF reply = "ok" THEN [IdleRequest EXCEPT !.pc = "publish", !.job = j]
                                           ELSE IdleRequest]
    BY <1>8 DEF SubmitCreate
  <2> DEFINE x   == [IdleRequest EXCEPT !.pc = "publish", !.job = j]
             row == Created(HouseOf[c], request[c].url)
  <2>2. x.job = j /\ x.pc = "publish"
    BY DEF IdleRequest
  <2>3. UNCHANGED <<worker, jobQueue, resumeQueue>>
    BY <1>8 DEF SubmitCreate, redis
  <2>4. row.status = "queued" /\ row.attempts = 0 /\ row.retries = 0
    BY DEF Created, NoJob
  <2> HIDE DEF x, row
  <2>5. ~Active(j)
    BY <1>1, <2>1 DEF Active
  <2>6. RowBudget(row) /\ Asked(x, row)
    BY <2>2, <2>4, TriesPositive DEF RowBudget, Asked
  <2>7. CASE reply = "ok"
    <3>1. jobs' = [jobs EXCEPT ![j] = row] /\ request' = [request EXCEPT ![c] = x]
      BY <2>1, <2>7 DEF Write, x, row
    <3>2. QED
      BY <2>2, <2>3, <2>5, <2>6, <3>1, TakenBudgeted
  <2>8. CASE reply = "db_error"
    <3>1. UNCHANGED jobs /\ request' = [request EXCEPT ![c] = IdleRequest]
      BY <2>1, <2>8 DEF Write
    <3>2. QED
      BY <1>3, <1>4, <2>3, <3>1
  <2>9. QED
    BY <2>7, <2>8 DEF NoLostCalls, WriteReply, DbFaults
<1>9. CASE SubmitPublish(c)
  <2> DEFINE x     == [request[c] EXCEPT !.pc = "mark_failed"]
             fresh == [job |-> request[c].job, attempt |-> 0, resume |-> FALSE]
  <2>1. /\ request[c].pc = "publish"
        /\ HasJob(c)
        /\ request[c].job \in JobIds
        /\ x.pc = "mark_failed"
    BY <1>9, HolderIds DEF SubmitPublish, HasJob, Holding, Request
  <2>2. fresh \in Message /\ fresh.job = request[c].job
    BY <2>1 DEF Message
  <2>3. Room(fresh, jobs[request[c].job])
    BY <2>1, TriesPositive DEF AInv, Asked, Room, Afresh
  <2> HIDE DEF x, fresh
  <2>4. PICK reply \in PushReply :
          /\ jobQueue' = Pushed(jobQueue, fresh, reply)
          /\ request' = [request EXCEPT ![c] = IF Succeeds(reply) THEN IdleRequest ELSE x]
    BY <1>9 DEF SubmitPublish, x, fresh
  <2>5. UNCHANGED <<jobs, worker, resumeQueue>>
    BY <1>9 DEF SubmitPublish
  <2>6. CASE Succeeds(reply) /\ jobQueue' = Append(jobQueue, fresh)
    BY <2>2, <2>3, <2>4, <2>5, <2>6, GivenBudgeted
  <2>7. CASE ~Succeeds(reply) /\ jobQueue' = jobQueue
    BY <1>3, <2>1, <2>4, <2>5, <2>7
  <2>8. QED
    BY <2>4, <2>6, <2>7, PushedOnce
<1>10. CASE SubmitMarkFailed(c)
  <2> DEFINE j   == request[c].job
             row == UpdateStatus(jobs[j], "failed", "unknown", NULL)
  <2>1. j \in JobIds
    BY <1>10, HolderIds DEF SubmitMarkFailed, Holding
  <2>2. /\ jobs' = jobs \/ jobs' = [jobs EXCEPT ![j] = row]
        /\ request' = [request EXCEPT ![c] = IdleRequest]
        /\ UNCHANGED <<worker, jobQueue, resumeQueue>>
    BY <1>10 DEF SubmitMarkFailed, Write, redis
  <2>3. Steady(jobs[j], row)
    BY <1>1, <1>5, <2>1, StatementsCount DEF Steady, SameCount
  <2> HIDE DEF row, j
  <2>4. \A i \in JobIds : Steady(jobs[i], jobs'[i])
    BY <2>1, <2>2, <2>3, HolderIds, LeftAlone
  <2>5. QED
    BY <1>2, <1>4, <2>2, <2>4, RequestBudgeted
<1>11. CASE \E j \in JobIds : ResumeRead(c, j)
  <2>1. PICK j \in JobIds : ResumeRead(c, j)
    BY <1>11
  <2> DEFINE x == [IdleRequest EXCEPT !.pc = "resume", !.job = j, !.attempts = jobs[j].attempts]
  <2>2. x.pc = "resume" /\ x.job = j /\ x.attempts = jobs[j].attempts
    BY DEF IdleRequest
  <2>3. /\ request' = [request EXCEPT ![c] = x]
        /\ UNCHANGED <<jobs, worker, jobQueue, resumeQueue>>
        /\ jobs[j].status = "awaiting_captcha"
    BY <2>1 DEF ResumeRead, redis
  <2> HIDE DEF x
  <2>4. Asked(x, jobs'[x.job])
    BY <1>1, <2>2, <2>3 DEF Asked
  <2>5. \A i \in JobIds : Steady(jobs[i], jobs'[i])
    BY <2>3, LeftAlone
  <2>6. QED
    BY <2>3, <2>4, <2>5, RequestBudgeted
<1>12. CASE ResumeUpdate(c)
  <2>1. PICK j \in JobIds : j = request[c].job
    BY <1>12 DEF ResumeUpdate, TypeInv, Shape
  <2> DEFINE x == [request[c] EXCEPT !.pc = "publish_resume"]
  <2>2. x.job = j /\ x.pc = "publish_resume" /\ x.attempts = request[c].attempts
    BY <2>1, HolderIds DEF Request
  <2>3. UNCHANGED <<worker, jobQueue, resumeQueue>> /\ request[c].pc = "resume" /\ HasJob(c)
    BY <1>12 DEF ResumeUpdate, redis, HasJob
  <2>4. CASE request' = [request EXCEPT ![c] = IdleRequest] /\ UNCHANGED jobs
    BY <1>3, <1>4, <2>3, <2>4
  <2>5. ASSUME NEW body \in Bodies, jobs[j].status = "awaiting_captcha",
               jobs' = [jobs EXCEPT ![j] = Resumed(jobs[j], body)],
               request' = [request EXCEPT ![c] = x]
        PROVE  AInv'
    <3> DEFINE row == Resumed(jobs[j], body)
    <3>1. /\ row.status = "processing"
          /\ row.retries = jobs[j].retries + 1
          /\ row.phase = jobs[j].phase
          /\ row.attempts = jobs[j].attempts
      BY <1>5, StatementsCount
    <3>2. jobs' = [jobs EXCEPT ![j] = row]
      BY <2>5
    <3>3. request[c].attempts = jobs[j].attempts
      BY <2>1, <2>3, <2>5 DEF AInv, Asked
    <3> HIDE DEF x, row
    <3>4. RowBudget(row) /\ Asked(x, row)
      BY <1>5, <2>2, <2>5, <3>1, <3>3, TriesPositive DEF RowBudget, Asked, Again
    <3>5. ~Active(j)
      BY <1>1, <2>5 DEF Active
    <3>6. QED
      BY <2>2, <2>3, <2>5, <3>2, <3>4, <3>5, TakenBudgeted
  <2>6. ASSUME NEW reply \in WriteReply, NEW body \in Bodies, jobs[j].status = "awaiting_captcha",
               Write(j, Resumed(jobs[j], body), reply),
               request' = [request EXCEPT ![c] = IF reply = "ok" THEN x ELSE IdleRequest]
        PROVE  AInv'
    <3>1. reply = "ok" \/ reply = "db_error"
      BY DEF NoLostCalls, WriteReply, DbFaults
    <3>2. CASE reply = "ok"
      BY <2>5, <2>6, <3>2 DEF Write
    <3>3. CASE reply = "db_error"
      BY <2>4, <2>6, <3>3 DEF Write
    <3>4. QED
      BY <3>1, <3>2, <3>3
  <2>7. QED
    BY <1>12, <2>1, <2>4, <2>6 DEF ResumeUpdate
<1>13. CASE ResumePublish(c)
  <2> DEFINE resume == [job |-> request[c].job, attempt |-> request[c].attempts, resume |-> TRUE]
  <2>1. Holding(c) /\ HasJob(c) /\ request[c].pc = "publish_resume"
    BY <1>13 DEF ResumePublish, Holding, HasJob
  <2>2. resume \in Message /\ resume.job = request[c].job
    BY <2>1, HolderIds DEF Message, Request
  <2>3. Room(resume, jobs[request[c].job])
    BY <2>1 DEF AInv, Asked, Room
  <2> HIDE DEF resume
  <2>4. PICK reply \in PushReply : resumeQueue' = Pushed(resumeQueue, resume, reply)
    BY <1>13 DEF ResumePublish, resume
  <2>5. request' = [request EXCEPT ![c] = IdleRequest] /\ UNCHANGED <<jobs, worker, jobQueue>>
    BY <1>13 DEF ResumePublish
  <2>6. CASE resumeQueue' = Append(resumeQueue, resume)
    BY <2>2, <2>3, <2>5, <2>6, GivenBudgeted
  <2>7. CASE resumeQueue' = resumeQueue
    BY <1>3, <1>4, <2>5, <2>7
  <2>8. QED
    BY <2>4, <2>6, <2>7, PushedOnce
<1>14. CASE \E r \in ReceiptIds : DeleteReceipt(c, r)
  <2>1. PICK r \in ReceiptIds : DeleteReceipt(c, r)
    BY <1>14
  <2>2. /\ jobs' = [j \in JobIds |-> Unlinked(jobs[j], r)]
        /\ UNCHANGED <<jobQueue, resumeQueue, worker, request>>
    BY <2>1 DEF DeleteReceipt, redis
  <2>3. \A i \in JobIds : Steady(jobs[i], jobs'[i])
    BY <1>5, <2>2, StatementsCount DEF Steady
  <2>4. QED
    BY <1>2, <1>4, <2>2, <2>3, RequestBudgeted
<1>15. CASE Disconnect(c)
  <2>1. request' = [request EXCEPT ![c] = IdleRequest] /\ UNCHANGED <<jobs, worker, jobQueue, resumeQueue>>
    BY <1>15 DEF Disconnect, redis
  <2>2. QED
    BY <1>3, <1>4, <2>1
<1>16. QED
  BY <1>6, <1>7, <1>8, <1>9, <1>10, <1>11, <1>12, <1>13, <1>14, <1>15 DEF RequestStep

\* Every step.
LEMMA StepBudgets ==
  ASSUME TypeInv, CInv, AInv, NoLostCalls, \A a, b \in Requests : a = b, [Next]_vars
  PROVE  AInv'
<1>1. ASSUME UNCHANGED <<worker, jobQueue, resumeQueue, request>>,
             \A i \in JobIds : Steady(jobs[i], jobs'[i])
      PROVE  AInv'
  <2>1. RoomLeft(jobQueue, jobQueue', NULL) /\ RoomLeft(resumeQueue, resumeQueue', NULL)
    BY <1>1, LeftAlone DEF TypeInv, TypeOK
  <2>2. \A v \in Workers : worker'[v].pc # "idle" => worker'[v] = worker[v] /\ MsgOf(v).job # NULL
    BY <1>1, LeftAlone DEF Busy
  <2>3. \A d \in Requests : HasJob(d)' => request'[d] = request[d] /\ request[d].job # NULL
    BY <1>1, LeftAlone DEF HasJob
  <2>4. QED
    BY <1>1, <2>1, <2>2, <2>3, LeftAlone, BudgetsKept
<1>2. CASE UNCHANGED vars
  BY <1>1, <1>2, LeftAlone DEF vars
<1>3. ASSUME NEW w \in Workers, WorkerStep(w) \/ Crash(w) PROVE AInv'
  BY <1>3, LocalBudgets, DequeueBudgets, EnqueueBudgets DEF WorkerStep, Local
<1>4. ASSUME NEW S \in SUBSET JobIds, Expire(S) PROVE AInv'
  <2>1. /\ jobs' = [j \in JobIds |-> IF j \in S THEN Expired(jobs[j]) ELSE jobs[j]]
        /\ UNCHANGED <<worker, jobQueue, resumeQueue, request>>
    BY <1>4 DEF Expire, redis
  <2>2. \A row \in Job : Steady(row, Expired(row))
    BY StatementsCount, OtherStatementTypes DEF Steady, ActiveStatus
  <2>3. \A i \in JobIds : Steady(jobs[i], jobs'[i])
    BY <2>1, <2>2, HolderIds, LeftAlone
  <2>4. QED
    BY <1>1, <2>1, <2>3
<1>5. QED
  BY <1>2, <1>3, <1>4, RequestBudgets DEF Next

LEMMA InitBudgets ==
  ASSUME Init PROVE AInv
<1>1. NoJob.attempts = 0 /\ NoJob.retries = 0 /\ NoJob.status = "absent"
  BY DEF NoJob
<1>2. RowBudget(NoJob)
  BY <1>1, TriesPositive DEF RowBudget
<1>3. QED
  BY <1>2 DEF Init, AInv, RoomFor, Busy, HasJob, IdleWorker, IdleRequest, At

\* As long as no call loses its reply and none is repeated, and requests follow
\* one another, a job is started at most Tries + 3 times, by however many
\* workers and whatever calls fail: once per try, once after each of the two
\* solutions a worker counts, and once more for a challenge it meets on the
\* detail page after the second.
THEOREM StartsStayBounded ==
  ASSUME NoLostCalls PROVE Spec => []StartsAreBounded
<1>1. CASE \A c, d \in Requests : c = d
  <2>1. Init => TypeInv /\ CInv /\ AInv
    BY InitType, InitCustody, InitBudgets
  <2>2. TypeInv /\ CInv /\ AInv /\ [Next]_vars => (TypeInv /\ CInv /\ AInv)'
    BY <1>1, StepType, StutterType, StepCustody, StepBudgets
  <2>3. AInv => StartsAreBounded
    BY TriesPositive DEF AInv, RowBudget, StartsAreBounded, CaptchaRetryLimit
  <2>4. QED
    BY <2>1, <2>2, <2>3, PTL DEF Spec
<1>2. CASE ~(\A c, d \in Requests : c = d)
  <2>1. StartsAreBounded
    BY <1>2 DEF StartsAreBounded
  <2>2. QED
    BY <2>1, PTL
<1>3. QED
  BY <1>1, <1>2
=============================================================================
