------------------------------ MODULE JobTable ------------------------------
(***************************************************************************)
(* The rows of the PostgreSQL tables scraping_jobs and receipts, and the   *)
(* UPDATE statements of backend/internal/database/queries.go as operators  *)
(* from the old row to the new one.  Each statement is atomic: PostgreSQL  *)
(* runs it in a transaction of its own.                                    *)
(*                                                                         *)
(* Columns no statement or handler decides on are left out: timestamps,    *)
(* error_detail, submitted_by, the user agent and the current URL of the   *)
(* captcha (which every pause sets to a non-empty URL).                    *)
(***************************************************************************)
EXTENDS Integers

CONSTANTS
  Houses,      \* tenants; a job and a receipt belong to one house
  Urls,        \* fiscal URLs users submit
  JobIds,      \* ids scraping_jobs can hand out (bounds the model)
  ReceiptIds,  \* ids receipts can hand out (bounds the model)
  Pages,       \* what a parsed summary lists: "empty" or "lines"
  NULL         \* SQL NULL

ASSUME NullIsNoValue ==
  NULL \notin Houses \cup Urls \cup JobIds \cup ReceiptIds

ASSUME PagesAreParses == Pages \subseteq {"empty", "lines"}

(***************************************************************************)
(* Enumerations (backend/internal/domain/models.go)                        *)
(***************************************************************************)
ActiveStatus  == {"queued", "processing"}
SettledStatus == {"completed", "failed"}
JobStatus     == ActiveStatus \cup SettledStatus \cup {"awaiting_captcha"}

FailureReason == {"timeout", "captcha", "navigation", "parsing", "unknown",
                  "captcha_expired", "captcha_timeout"}

\* What the phone posts as page_html: nothing, a page ParseDetailPage accepts,
\* or one it rejects (blank text included).
PageHtml == {"none", "usable", "unusable"}

\* What the phone posts as cookies: a list the worker decodes, or other JSON.
Cookies == {"list", "other"}

ResumeBody == [html: PageHtml, cookies: Cookies]

(***************************************************************************)
(* Rows.  A row with status "absent" has not been inserted.                *)
(***************************************************************************)
Job == [status   : JobStatus \cup {"absent"},
        house    : Houses \cup {NULL},
        url      : Urls \cup {NULL},
        attempts : Nat,
        reason   : FailureReason \cup {"none"},
        receipt  : ReceiptIds \cup {NULL},
        phase    : {"none", "summary", "detail"},
        summary  : Pages \cup {"none"},
        html     : PageHtml,
        cookies  : Cookies,
        retries  : Nat]

NoJob == [status |-> "absent", house |-> NULL, url |-> NULL, attempts |-> 0,
          reason |-> "none", receipt |-> NULL, phase |-> "none",
          summary |-> "none", html |-> "none", cookies |-> "list", retries |-> 0]

\* "header" is a receipt row whose items have not been inserted, "whole" one
\* with every item its page listed.
Receipt == [state : {"absent", "header", "whole"},
            house : Houses \cup {NULL},
            url   : Urls \cup {NULL}]

NoReceipt == [state |-> "absent", house |-> NULL, url |-> NULL]

(***************************************************************************)
(* Statements                                                              *)
(*                                                                         *)
(* A definition introduced by "Wrong:" is no part of the model.  It is the *)
(* next statement with a mistake the code could have made; putting it in   *)
(* the statement's place must break a property, which shows that the       *)
(* property depends on the statement.                                      *)
(***************************************************************************)

\* INSERT of CreateJob: queued, no attempt made.
Created(h, u) == [NoJob EXCEPT !.status = "queued", !.house = h, !.url = u]

\* Wrong: the submitted page outlives the job.
UpdateStatusKeepsPage(row, status, reason, receipt) ==
  [row EXCEPT !.status   = status,
              !.reason   = reason,
              !.receipt  = receipt,
              !.attempts = IF status = "processing" THEN @ + 1 ELSE @]

\* UpdateJobStatus overwrites status, reason and receipt whatever they were,
\* counts a start, and clears the submitted page once the job settles.
UpdateStatus(row, status, reason, receipt) ==
  [row EXCEPT !.status   = status,
              !.reason   = reason,
              !.receipt  = receipt,
              !.html     = IF status \in SettledStatus THEN "none" ELSE @,
              !.attempts = IF status = "processing" THEN @ + 1 ELSE @]

\* Wrong: parsed_summary is overwritten without COALESCE.
PausedDropsSummary(row, phase, parsed) ==
  IF row.status # "processing" THEN row
  ELSE [row EXCEPT !.status  = "awaiting_captcha",
                   !.phase   = phase,
                   !.summary = parsed,
                   !.html    = "none",
                   !.cookies = "list"]

\* PauseJobForCaptcha: a job that is not processing is left alone, and its
\* caller is not told.
Paused(row, phase, parsed) ==
  IF row.status # "processing" THEN row
  ELSE [row EXCEPT !.status  = "awaiting_captcha",
                   !.phase   = phase,
                   !.summary = IF parsed = "none" THEN @ ELSE parsed,
                   !.html    = "none",
                   !.cookies = "list"]

\* ResumeJobFromCaptcha, for the row its WHERE clause selects.
Resumed(row, body) ==
  [row EXCEPT !.status  = "processing",
              !.html    = body.html,
              !.cookies = body.cookies,
              !.retries = @ + 1]

\* Wrong: a reason the column does not know.
ExpiredUnknownReason(row) ==
  [row EXCEPT !.status = "failed", !.reason = "captcha_too_late"]

\* ExpireAwaitingCaptchaJobs, for a row its WHERE clause selects.
Expired(row) ==
  [row EXCEPT !.status = "failed", !.reason = "captcha_timeout"]

\* ON DELETE SET NULL of scraping_jobs.receipt_id.
Unlinked(row, r) == [row EXCEPT !.receipt = IF @ = r THEN NULL ELSE @]
=============================================================================
