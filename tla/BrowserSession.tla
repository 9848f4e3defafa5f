--------------------------- MODULE BrowserSession ---------------------------
(***************************************************************************)
(* The browser sessions of one scraping job: the executor walks from the   *)
(* summary page of a receipt to its detail page and reads what the browser *)
(* shows while the site goes on changing it; the worker decides what       *)
(* becomes of the job.                                                     *)
(*                                                                         *)
(* One action is one call to the browser, or the local code between two    *)
(* calls.  Time passes in ticks of 250 ms, the pause between two polls.    *)
(***************************************************************************)
EXTENDS DetailBarcodes

CONSTANTS
  Papers,        \* receipts the site may show
  ScrapeTimeout, \* of the context a session runs in
  PostbackWait,  \* how long transitionToDetailByPostback polls
  MaxSessions    \* sessions of the job (bounds the model)

ASSUME PapersAssumption  == Papers \subseteq Paper
ASSUME TimeoutAssumption == ScrapeTimeout \in Nat /\ PostbackWait \in Nat \ {0}
ASSUME SessionAssumption == MaxSessions \in Nat

\* The limit both resume paths compare captcha_retry_count with.
CaptchaRetryLimit == 2

VARIABLES
  site,     \* how the site presents the receipt; never changes
  page,     \* what the browser shows
  session,  \* what the executor is doing
  job,      \* what the worker made of it
  clock     \* ticks since the session began

vars == <<site, page, session, job, clock>>

(***************************************************************************)
(* The site.  A summary page has a link to the detail page, or a button    *)
(* that posts a form, or neither; the answer to the form may come under    *)
(* the address of the summary page.                                        *)
(***************************************************************************)
Site == [paper: Papers, link: BOOLEAN, button: BOOLEAN, inPlace: BOOLEAN]

Url  == {"none", "summary", "detail"}
Body == {"none", "challenge", "summary", "detail", "other"}

\* asked: the page the site was asked for; "other" is an error page, or none
\* of the pages expected; shown: products of the detail page in the document;
\* posted: the form is on its way.
Page   == [asked: Url, url: Url, body: Body, shown: Nat, posted: BOOLEAN]
NoPage == [asked |-> "none", url |-> "none", body |-> "none", shown |-> 0, posted |-> FALSE]

Products == Len(site.paper.products)

\* A page the browser has loaded to its end.
Loaded(asked, body) ==
  [NoPage EXCEPT !.asked = asked, !.url = asked, !.body = body,
                 !.shown = IF body = "detail" THEN Products ELSE 0]

(***************************************************************************)
(* The executor.  A capture is an ExecutorResult: three calls read the     *)
(* title, here whether it names a challenge, the URL and the HTML.         *)
(***************************************************************************)
Capture   == [title: BOOLEAN, url: Url, body: Body, shown: Nat]
NoCapture == [title |-> FALSE, url |-> "none", body |-> "none", shown |-> 0]

Calls  == {"navigate", "title", "location", "html", "capture", "trigger"}
Target == {"summary", "link", "postback", "resume"}

\* target: why the page is fetched; first: the summary page as it was read;
\* deadline, last: of the polls after the form was posted.
Session == [pc: Calls \cup {"idle", "judge", "sleep"}, target: Target,
            read: Capture, first: Capture, deadline: Nat, last: BOOLEAN]

Start(target) == [pc |-> "navigate", target |-> target, read |-> NoCapture,
                  first |-> NoCapture, deadline |-> 0, last |-> FALSE]

State == {"running", "paused", "failed", "expired", "unreadable", "stored"}

\* phase, url, retries: captcha_phase, captcha_current_url and
\* captcha_retry_count; resumed: whether the message is a resume.  shown (of
\* the detail page merged) and calm (no call failed, and the site answered
\* with what it was asked for) serve the properties.
Job == [state: State, phase: {"summary", "detail"}, url: Url, retries: Nat,
        resumed: BOOLEAN, sessions: Nat, items: Seq(Item), shown: Nat, calm: BOOLEAN]

Init ==
  /\ site \in Site
  /\ page = NoPage
  /\ session = Start("summary")
  /\ job = [state |-> "running", phase |-> "summary", url |-> "none", retries |-> 0,
            resumed |-> FALSE, sessions |-> 1, items |-> <<>>, shown |-> 0, calm |-> TRUE]
  /\ clock = 0

-----------------------------------------------------------------------------
(***************************************************************************)
(* How a session ends: the browser is closed and the worker goes on.       *)
(***************************************************************************)
End(row) ==
  /\ page' = NoPage
  /\ session' = [session EXCEPT !.pc = "idle"]
  /\ job' = row
  /\ UNCHANGED <<site, clock>>

Goto(next) ==
  /\ session' = next
  /\ UNCHANGED <<site, page, job, clock>>

\* detectCaptchaIndicator
Challenge(capture) == capture.title \/ capture.body = "challenge"

\* ParseDetailPage of the products that were in the document.
BarcodesIn(capture) ==
  ParseDetailPage([site.paper EXCEPT !.products =
                     IF capture.body = "detail" THEN SubSeq(@, 1, capture.shown) ELSE <<>>])

\* The summary page was parsed before anything else is done with the detail.
Parsed == session.target = "resume" \/ session.first.body = "summary"

\* Wrong: a pause is stored with the address of the summary page.
PausedAtSummary(phase) ==
  [job EXCEPT !.state = "paused", !.phase = phase, !.url = session.first.url]

\* handleCaptchaPause
Paused(phase) == [job EXCEPT !.state = "paused", !.phase = phase, !.url = session.read.url]

\* persistReceipt of the summary's items, with barcodes if there are any.
Stored(barcodes, shown) ==
  [job EXCEPT !.state = "stored", !.shown = shown,
              !.items = MergeBarcodes(SummaryItems(site.paper), barcodes)]

EndWith(row) == End(IF Parsed THEN row ELSE [job EXCEPT !.state = "unreadable"])

StoreDetail == EndWith(Stored(BarcodesIn(session.read), session.read.shown))

\* The detail page is not to be had: the summary alone is returned.
SkipDetail == EndWith([job EXCEPT !.state = "stored", !.items = SummaryItems(site.paper),
                                  !.shown = Products, !.calm = FALSE])

\* A challenge met after a human solved one.
Challenged(phase) ==
  End(IF job.resumed /\ job.retries >= CaptchaRetryLimit
      THEN [job EXCEPT !.state = "expired"] ELSE Paused(phase))

-----------------------------------------------------------------------------
(***************************************************************************)
(* Calls to the browser                                                    *)
(***************************************************************************)
Alive == clock < ScrapeTimeout

\* chromedp.Navigate returns when the page is loaded.
Navigate ==
  LET asked == CASE session.target = "summary" -> "summary"
                 [] session.target = "link"    -> "detail"
                 [] OTHER                      -> job.url
  IN /\ session.pc = "navigate" /\ Alive
     /\ \E body \in {asked, "challenge", "other"} :
          /\ page' = Loaded(asked, body)
          /\ job' = [job EXCEPT !.calm = @ /\ body = asked]
     /\ session' = [session EXCEPT !.pc = "title"]
     /\ UNCHANGED <<site, clock>>

\* readCurrentPage
ReadTitle ==
  /\ session.pc = "title" /\ Alive
  /\ Goto([session EXCEPT !.pc = "location", !.read.title = page.body = "challenge"])

ReadLocation ==
  /\ session.pc = "location" /\ Alive
  /\ Goto([session EXCEPT !.pc = "html", !.read.url = page.url])

ReadHtml ==
  LET read == [session.read EXCEPT !.body = page.body, !.shown = page.shown] IN
  /\ session.pc = "html" /\ Alive
  /\ Goto([session EXCEPT !.read = read,
                          !.pc = IF Challenge(read) THEN "capture" ELSE "judge"])

\* captureSessionState reads the URL again.
CaptureState ==
  /\ session.pc = "capture" /\ Alive
  /\ Goto([session EXCEPT !.read.url = page.url, !.pc = "judge"])

\* transitionToDetailByPostback posts the form and starts to poll.
Trigger ==
  /\ session.pc = "trigger" /\ Alive
  /\ IF site.button
     THEN /\ page' = [page EXCEPT !.asked = "detail", !.posted = TRUE]
          /\ session' = [session EXCEPT !.pc = "title", !.deadline = clock + PostbackWait]
          /\ UNCHANGED <<site, job, clock>>
     ELSE SkipDetail

\* Wrong: every poll may wait as long as the first.
SleepRestarts ==
  /\ session.pc = "sleep"
  /\ session' = [session EXCEPT !.pc = "title", !.deadline = clock + PostbackWait]
  /\ clock' = clock + 1
  /\ UNCHANGED <<site, page, job>>

\* The pause between two polls, which no context cuts short.
Sleep ==
  /\ session.pc = "sleep"
  /\ session' = [session EXCEPT !.pc = "title", !.last = clock + 1 >= session.deadline]
  /\ clock' = clock + 1
  /\ UNCHANGED <<site, page, job>>

\* Wrong: an error on the detail page fails the job.
CallFailsTheJob ==
  /\ session.pc \in Calls
  /\ End([job EXCEPT !.state = "failed", !.calm = FALSE])

\* Wrong: the session of a challenge is read until that works.
CallFailsAgain ==
  /\ session.pc \in Calls
  /\ IF session.pc = "capture" THEN Goto(session)
     ELSE End([job EXCEPT !.state = "failed", !.calm = FALSE])

\* The browser fails, or the session's context has expired.
CallFails ==
  /\ session.pc \in Calls
  /\ \/ /\ session.pc = "capture"
        /\ Goto([session EXCEPT !.pc = "judge"])
     \/ /\ session.pc # "capture"
        /\ session.target \in {"summary", "resume"}
        /\ End([job EXCEPT !.state = "failed", !.calm = FALSE])
     \/ /\ session.pc # "capture"
        /\ session.target = "link" \/ session.pc = "trigger" \/ session.last
        /\ SkipDetail
     \/ /\ session.pc \notin {"capture", "trigger"}
        /\ session.target = "postback" /\ ~session.last
        /\ Goto([session EXCEPT !.pc = "sleep"])

-----------------------------------------------------------------------------
(***************************************************************************)
(* What is done with a page that was read                                  *)
(***************************************************************************)
JudgeSummary ==
  /\ session.pc = "judge" /\ session.target = "summary"
  /\ IF Challenge(session.read) THEN Challenged("summary")
     ELSE \* ExtractDetailLink
          LET found == session.read.body = "summary" /\ site.link
          IN Goto([session EXCEPT !.first = session.read,
                     !.target = IF found THEN "link" ELSE "postback",
                     !.pc = IF found THEN "navigate" ELSE "trigger"])

\* A challenge on the way to the detail page pauses the job whatever became of
\* earlier ones; anything else is the detail page.
JudgeLink ==
  /\ session.pc = "judge" /\ session.target = "link"
  /\ IF Challenge(session.read) THEN EndWith(Paused("detail")) ELSE StoreDetail

\* The page after the form: another address, or another document with barcodes.
Arrived ==
  \/ session.read.url # session.first.url
  \/ session.read.body # session.first.body /\ BarcodesIn(session.read) # <<>>

JudgePostback ==
  /\ session.pc = "judge" /\ session.target = "postback"
  /\ IF Challenge(session.read) THEN EndWith(Paused("detail"))
     ELSE IF Arrived THEN StoreDetail
     ELSE IF session.last THEN SkipDetail
     ELSE Goto([session EXCEPT !.pc = "sleep"])

\* resumeDetailPhase with the address the job was paused at.
JudgeResume ==
  /\ session.pc = "judge" /\ session.target = "resume"
  /\ IF Challenge(session.read) THEN Challenged("detail") ELSE StoreDetail

Judge == JudgeSummary \/ JudgeLink \/ JudgePostback \/ JudgeResume

\* A message starts a session.
Begin(target, row) ==
  /\ job.sessions < MaxSessions
  /\ session' = Start(target)
  /\ job' = [row EXCEPT !.state = "running", !.sessions = @ + 1]
  /\ clock' = 0
  /\ UNCHANGED <<site, page>>

\* processResume, once a user solved the captcha.
Resume ==
  /\ job.state = "paused"
  /\ Begin(IF job.phase = "detail" THEN "resume" ELSE "summary",
           [job EXCEPT !.resumed = TRUE, !.retries = @ + 1])

\* handleFailure pushes a fresh message: a retry starts over, also when the
\* row still has the summary page.
Retry ==
  /\ job.state = "failed"
  /\ Begin("summary", [job EXCEPT !.resumed = FALSE])

-----------------------------------------------------------------------------
(***************************************************************************)
(* The site and the clock go on by themselves.                             *)
(***************************************************************************)
Show(next) ==
  /\ page' = next
  /\ job' = [job EXCEPT !.calm = @ /\ next.body = next.asked]
  /\ UNCHANGED <<site, session, clock>>

\* The browser turns to the answer to the form, before it has loaded.
Answer ==
  /\ page.posted
  /\ \E body \in {"detail", "challenge", "other"} :
       Show([page EXCEPT !.posted = FALSE, !.body = body, !.shown = 0,
                         !.url = IF site.inPlace THEN "summary" ELSE "detail"])

Render ==
  /\ page.body = "detail" /\ page.shown < Products
  /\ Show([page EXCEPT !.shown = @ + 1])

\* A challenge that needs no human lets the browser through.
ChallengePasses ==
  /\ page.body = "challenge"
  /\ Show([page EXCEPT !.body = page.asked, !.shown = 0])

\* Only a call takes time, and none outlives the context.
Tick ==
  /\ session.pc \in Calls /\ Alive
  /\ clock' = clock + 1
  /\ UNCHANGED <<site, page, session, job>>

-----------------------------------------------------------------------------
Call == \/ Navigate \/ ReadTitle \/ ReadLocation \/ ReadHtml \/ CaptureState
        \/ Trigger \/ CallFails

Next == \/ Call \/ Judge \/ Sleep \/ Resume \/ Retry
        \/ Answer \/ Render \/ ChallengePasses \/ Tick

Spec == Init /\ [][Next]_vars

\* A browser may never answer.  Time passes, an expired context fails the call
\* under way, and local code runs on.
Fairness ==
  /\ WF_vars(Tick)
  /\ WF_vars(~Alive /\ CallFails)
  /\ WF_vars(Judge)
  /\ WF_vars(Sleep)

FairSpec == Spec /\ Fairness

-----------------------------------------------------------------------------
(***************************************************************************)
(* Properties                                                              *)
(***************************************************************************)

\* The site, the browser, the session and the job keep their types, and a pause
\* names the page the phone has to open.
TypeOK ==
  /\ site \in Site
  /\ page \in Page
  /\ session \in Session
  /\ job \in Job
  /\ job.state = "paused" => job.url # "none"
  /\ clock \in Nat

\* No session holds its browser for longer than its timeout and the wait for
\* the postback, whose loop goes on when the context has expired.
BrowserReleased == session.pc # "idle" => clock <= ScrapeTimeout + PostbackWait

\* A stored item has the barcode printed for its product or none, although the
\* detail page may be read while it renders: only a page that is cut off where
\* a product is missing from the summary as well can mislead the merge.
BarcodesAreOwn ==
  job.state = "stored" /\ Readable(site.paper)
  /\ (Matched(site.paper) \/ job.shown = Products) =>
    \A i \in DOMAIN job.items :
      job.items[i].barcode \in {NoBarcode, OwnBarcode(Described(site.paper)[i])}

\* When the summary page links to the detail page and nothing goes wrong, every
\* barcode printed is stored: a linked page is loaded as a whole before it is
\* read, and parser and merge lose nothing of a page they can match.
LinkedDetailIsWhole ==
  job.state = "stored" /\ job.calm /\ site.link
  /\ Readable(site.paper) /\ Matched(site.paper) =>
    \A i \in DOMAIN job.items : job.items[i].barcode = OwnBarcode(site.paper.products[i])

\* Every session ends, also when the browser never answers.
SessionsEnd == session.pc # "idle" ~> session.pc = "idle"

-----------------------------------------------------------------------------
(***************************************************************************)
(* The sessions keep the promise of ReceiptPromise.                        *)
(***************************************************************************)
Stage == IF job.state = "running" THEN "reading" ELSE job.state

\* The row keeps the summary page for a resume, or gave it to this one.
RowKnows == IF job.state = "paused" THEN job.phase = "detail"
            ELSE job.state # "failed" /\ session.target = "resume"

Knows == CASE RowKnows -> "job"
           [] ~RowKnows /\ session.first.body = "summary"
              /\ job.state \in {"running", "stored"} -> "session"
           [] OTHER -> "no"

Promise == INSTANCE ReceiptPromise WITH
             paper <- site.paper,
             stage <- Stage,
             known <- Knows,
             items <- job.items

\* Once a session has read the summary page, no error, no challenge and no
\* timeout on the way to the detail page loses it, and a pause keeps it for the
\* resume.
KeepsPromise == Promise!Spec
=============================================================================
