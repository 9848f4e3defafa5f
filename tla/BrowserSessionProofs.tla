------------------------ MODULE BrowserSessionProofs ------------------------
(***************************************************************************)
(* Theorems about BrowserSession, for any receipts, timeouts and number of *)
(* sessions: how long a browser is held, and that the sessions keep the    *)
(* promise of ReceiptPromise.                                              *)
(***************************************************************************)
EXTENDS BrowserSession, DetailBarcodesProofs, TLAPS

Columns == {"state", "phase", "url", "retries", "resumed", "sessions", "items",
            "shown", "calm"}

\* The part of TypeOK the proofs need: what the items are is left open.
ControlOK ==
  /\ site \in Site
  /\ page \in Page
  /\ session \in Session
  /\ clock \in Nat
  /\ job = [c \in Columns |-> job[c]]
  /\ job.state \in State /\ job.phase \in {"summary", "detail"} /\ job.url \in Url
  /\ job.retries \in Nat

\* A session is under way exactly while its job runs; it keeps the page it read
\* first once that was the summary page.
Course ==
  /\ session.pc = "idle" <=> job.state # "running"
  /\ session.pc # "idle" /\ session.target \in {"summary", "resume"} =>
       session.first.body = "none"

\* Time: only the polls after a postback outlive the context of the session.
InTime ==
  session.pc # "idle" =>
    /\ clock <= ScrapeTimeout + PostbackWait
    /\ session.deadline <= ScrapeTimeout + PostbackWait
    /\ session.target # "postback" \/ session.pc = "trigger" => clock <= ScrapeTimeout
    /\ session.pc = "sleep" => session.target = "postback" /\ ~session.last
    /\ session.target = "postback" /\ ~session.last =>
         clock < session.deadline \/ clock <= ScrapeTimeout

IInv == ControlOK /\ Course /\ InTime

-----------------------------------------------------------------------------
LEMMA ProductsNat == ASSUME site \in Site PROVE Products \in Nat
  BY PapersAssumption DEF Site, Products, Paper

\* The initial states.
LEMMA InitIInv == Init => IInv
  <1> SUFFICES ASSUME Init PROVE IInv
    OBVIOUS
  <1> USE DEF Init, Start, NoCapture, NoPage
  <1>1. ControlOK
    BY DEF ControlOK, Columns, Page, Url, Body, Session, Capture, Calls, Target, State
  <1>2. Course
    BY DEF Course
  <1>3. InTime
    BY TimeoutAssumption DEF InTime
  <1> QED
    BY <1>1, <1>2, <1>3 DEF IInv

\* The rows a session can end with.
Ended(row) ==
  /\ row = [c \in Columns |-> row[c]]
  /\ row.state \in State \ {"running"} /\ row.phase \in {"summary", "detail"}
  /\ row.url \in Url /\ row.retries \in Nat

\* Ending a session leaves nothing to hold, whatever becomes of the job.
LEMMA EndIInv == ASSUME IInv, NEW row, Ended(row), End(row) PROVE IInv'
  <1> USE DEF IInv, Ended, End, NoPage
  <1>1. ControlOK'
    BY DEF ControlOK, Page, Url, Body, Session, Calls
  <1>2. Course' /\ InTime'
    BY DEF ControlOK, Session, Course, InTime
  <1> QED
    BY <1>1, <1>2

LEMMA Rows ==
  ASSUME ControlOK
  PROVE  /\ \A phase \in {"summary", "detail"} : Ended(Paused(phase))
         /\ \A b, n : Ended(Stored(b, n))
         /\ \A s \in {"unreadable", "expired"} : Ended([job EXCEPT !.state = s])
         /\ Ended([job EXCEPT !.state = "failed", !.calm = FALSE])
         /\ Ended([job EXCEPT !.state = "stored", !.items = SummaryItems(site.paper),
                              !.shown = Products, !.calm = FALSE])
  BY ZenonT(60) DEF ControlOK, Columns, State, Url, Session, Capture, Paused, Stored, Ended

LEMMA EndWithIInv ==
  ASSUME IInv,
         \/ SkipDetail \/ StoreDetail \/ EndWith(Paused("detail"))
         \/ Challenged("summary") \/ Challenged("detail")
         \/ End([job EXCEPT !.state = "failed", !.calm = FALSE])
  PROVE  IInv'
  <1> USE Rows DEF IInv
  <1>1. ASSUME NEW row, Ended(row), EndWith(row) PROVE IInv'
    BY <1>1, EndIInv DEF EndWith
  <1>2. CASE SkipDetail
    BY <1>1, <1>2 DEF SkipDetail
  <1>3. CASE StoreDetail
    BY <1>1, <1>3 DEF StoreDetail
  <1>4. CASE EndWith(Paused("detail"))
    BY <1>1, <1>4
  <1>5. ASSUME NEW phase \in {"summary", "detail"}, Challenged(phase) PROVE IInv'
    BY <1>5, EndIInv DEF Challenged
  <1>6. CASE End([job EXCEPT !.state = "failed", !.calm = FALSE])
    BY <1>6, EndIInv
  <1> QED
    BY <1>2, <1>3, <1>4, <1>5, <1>6

\* Reading on changes nothing else.
LEMMA ReadOnIInv ==
  ASSUME IInv, session.pc \notin {"idle", "navigate", "trigger"},
         NEW pc \in {"title", "location", "html", "capture", "judge"}, NEW read \in Capture,
         Goto([session EXCEPT !.pc = pc, !.read = read])
  PROVE  IInv'
  <1> USE DEF IInv, Goto
  <1>1. session' \in Session
    BY DEF ControlOK, Session, Calls
  <1>2. ControlOK'
    BY <1>1 DEF ControlOK
  <1>3. Course' /\ InTime'
    BY DEF ControlOK, Session, Course, InTime
  <1> QED
    BY <1>2, <1>3

LEMMA CallIInv == ASSUME IInv, Call PROVE IInv'
  <1> USE DEF IInv
  <1>1. CASE Navigate
    <2>1. PICK asked \in Url, body \in Body :
             page' = Loaded(asked, body) /\ job' = [job EXCEPT !.calm = @ /\ body = asked]
      BY <1>1 DEF Navigate, Body, Url, ControlOK
    <2>2. Loaded(asked, body) \in Page
      <3>1. NoPage \in Page
        BY DEF NoPage, Page, Url, Body
      <3>2. CASE body = "detail"
        BY <3>1, <3>2, ProductsNat DEF Loaded, Page, ControlOK
      <3>3. CASE body # "detail"
        BY <3>1, <3>3 DEF Loaded, Page
      <3> QED
        BY <3>2, <3>3
    <2> QED
      BY <1>1, <2>1, <2>2 DEF Navigate, ControlOK, Columns, Session, Calls, Course, InTime
  <1>2. CASE ReadTitle
    BY <1>2, ReadOnIInv DEF ReadTitle, ControlOK, Page, Session, Capture
  <1>3. CASE ReadLocation
    BY <1>3, ReadOnIInv DEF ReadLocation, ControlOK, Page, Session, Capture
  <1>4. CASE ReadHtml
    <2> DEFINE read == [session.read EXCEPT !.body = page.body, !.shown = page.shown]
    <2>1. read \in Capture
      BY DEF ControlOK, Page, Session, Capture
    <2>2. \E pc \in {"capture", "judge"} :
             Goto([session EXCEPT !.pc = pc, !.read = read])
      BY <1>4 DEF ReadHtml, ControlOK, Session
    <2> QED
      BY <1>4, <2>1, <2>2, ReadOnIInv DEF ReadHtml
  <1>5. CASE CaptureState
    <2> DEFINE read == [session.read EXCEPT !.url = page.url]
    <2>1. read \in Capture
      BY DEF ControlOK, Page, Session, Capture
    <2>2. Goto([session EXCEPT !.pc = "judge", !.read = read])
      BY <1>5 DEF CaptureState, ControlOK, Session
    <2> QED
      BY <1>5, <2>1, <2>2, ReadOnIInv DEF CaptureState
  <1>6. CASE Trigger /\ site.button
    <2> DEFINE until == clock + PostbackWait
    <2>1. until \in Nat /\ (clock <= ScrapeTimeout => until <= ScrapeTimeout + PostbackWait)
      BY TimeoutAssumption DEF ControlOK
    <2>2. page' \in Page
      BY <1>6 DEF Trigger, ControlOK, Page, Url
    <2>3. session' = [session EXCEPT !.pc = "title", !.deadline = until]
      BY <1>6 DEF Trigger
    <2>4. session' \in Session
      BY <2>1, <2>3 DEF ControlOK, Session, Calls
    <2>5. UNCHANGED <<site, job, clock>>
      BY <1>6 DEF Trigger
    <2>6. ControlOK'
      BY <2>2, <2>4, <2>5 DEF ControlOK
    <2>7. clock <= ScrapeTimeout /\ session.pc = "trigger"
      BY <1>6, TimeoutAssumption DEF Trigger, Alive, ControlOK
    <2>8. Course' /\ InTime'
      BY <2>1, <2>3, <2>5, <2>7 DEF ControlOK, Session, Course, InTime
    <2> QED
      BY <2>6, <2>8
  <1>7. CASE Trigger /\ ~site.button
    BY <1>7, EndWithIInv DEF Trigger
  <1>8. CASE CallFails
    <2>1. CASE session.pc = "capture" /\ Goto([session EXCEPT !.pc = "judge"])
      <3>1. session.read \in Capture /\ [session EXCEPT !.pc = "judge"] =
              [session EXCEPT !.pc = "judge", !.read = session.read]
        BY DEF ControlOK, Session
      <3> QED
        BY <2>1, <3>1, ReadOnIInv
    <2>2. CASE /\ session.pc \notin {"capture", "trigger", "idle"}
               /\ session.target = "postback" /\ ~session.last
               /\ Goto([session EXCEPT !.pc = "sleep"])
      BY <2>2 DEF Goto, ControlOK, Session, Calls, Course, InTime
    <2> QED
      BY <1>8, <2>1, <2>2, EndWithIInv DEF CallFails, Calls
  <1> QED
    BY <1>1, <1>2, <1>3, <1>4, <1>5, <1>6, <1>7, <1>8 DEF Call

\* The session goes on, with another page to fetch or after a pause.
LEMMA GoOnIInv ==
  ASSUME IInv, session.pc = "judge",
         NEW first \in Capture, NEW target \in Target,
         NEW pc \in {"navigate", "trigger", "sleep"},
         Goto([session EXCEPT !.first = first, !.target = target, !.pc = pc]),
         \/ /\ session.target = "summary" /\ target \in {"link", "postback"}
            /\ pc \in {"navigate", "trigger"}
         \/ /\ session.target = "postback" /\ target = "postback"
            /\ pc = "sleep" /\ ~session.last
  PROVE  IInv'
  <1> USE DEF IInv, Goto
  <1>1. session' \in Session
    BY DEF ControlOK, Session, Calls
  <1>2. ControlOK'
    BY <1>1 DEF ControlOK
  <1>3. Course' /\ InTime'
    BY DEF ControlOK, Session, Course, InTime
  <1> QED
    BY <1>2, <1>3

LEMMA JudgeIInv == ASSUME IInv, Judge PROVE IInv'
  <1>1. CASE JudgeSummary
    <2>1. CASE Challenge(session.read)
      BY <1>1, <2>1, EndWithIInv DEF JudgeSummary
    <2>2. CASE ~Challenge(session.read)
      <3>1. \E target \in {"link", "postback"}, pc \in {"navigate", "trigger"} :
              Goto([session EXCEPT !.first = session.read, !.target = target, !.pc = pc])
        BY <1>1, <2>2 DEF JudgeSummary
      <3>2. session.read \in Capture
        BY DEF IInv, ControlOK, Session
      <3> QED
        BY <1>1, <3>1, <3>2, GoOnIInv DEF JudgeSummary, Target
    <2> QED
      BY <2>1, <2>2
  <1>2. CASE JudgeLink
    BY <1>2, EndWithIInv DEF JudgeLink
  <1>3. CASE JudgePostback
    <2>1. CASE session.last \/ Challenge(session.read) \/ Arrived
      BY <1>3, <2>1, EndWithIInv DEF JudgePostback
    <2>2. CASE ~(session.last \/ Challenge(session.read) \/ Arrived)
      <3>1. session.first \in Capture /\ [session EXCEPT !.pc = "sleep"] =
              [session EXCEPT !.first = session.first, !.target = "postback", !.pc = "sleep"]
        BY <1>3 DEF JudgePostback, IInv, ControlOK, Session
      <3> QED
        BY <1>3, <2>2, <3>1, GoOnIInv DEF JudgePostback, Target
    <2> QED
      BY <2>1, <2>2
  <1>4. CASE JudgeResume
    BY <1>4, EndWithIInv DEF JudgeResume
  <1> QED
    BY <1>1, <1>2, <1>3, <1>4 DEF Judge

\* The last poll is the first one that starts at or after the deadline.
LEMMA SleepIInv == ASSUME IInv, Sleep PROVE IInv'
  <1> USE TimeoutAssumption DEF IInv, Sleep
  <1> DEFINE last == clock + 1 >= session.deadline
  <1>1. last \in BOOLEAN /\ session' = [session EXCEPT !.pc = "title", !.last = last]
    OBVIOUS
  <1>2. ~last => clock + 1 < session.deadline
    BY DEF ControlOK, Session
  <1> HIDE DEF last
  <1>3. session' \in Session /\ clock' = clock + 1
    BY <1>1 DEF ControlOK, Session, Calls
  <1>4. ControlOK'
    BY <1>3 DEF ControlOK
  <1>5. Course'
    BY <1>1 DEF ControlOK, Session, Course
  <1>6. clock' <= ScrapeTimeout + PostbackWait
    BY DEF ControlOK, Session, InTime
  <1>7. /\ session'.pc = "title" /\ session'.target = session.target
        /\ session'.deadline = session.deadline /\ session'.last = last
    BY <1>1 DEF ControlOK, Session
  <1>8. InTime'
    BY <1>2, <1>3, <1>6, <1>7 DEF ControlOK, Session, InTime
  <1> QED
    BY <1>4, <1>5, <1>8

\* The rows a session can begin with.
Begun(row) ==
  /\ row = [c \in Columns |-> row[c]]
  /\ row.phase = job.phase /\ row.url = job.url /\ row.retries \in Nat
  /\ row.items = job.items

LEMMA BeginRows ==
  ASSUME ControlOK
  PROVE  /\ Begun([job EXCEPT !.resumed = TRUE, !.retries = @ + 1])
         /\ Begun([job EXCEPT !.resumed = FALSE])
  <1>1. ASSUME NEW resumed, NEW retries \in Nat
        PROVE  Begun([job EXCEPT !.resumed = resumed, !.retries = retries])
    BY DEF ControlOK, Columns, Begun
  <1>2. job.retries + 1 \in Nat
    BY DEF ControlOK
  <1>3. Begun([job EXCEPT !.resumed = TRUE, !.retries = job.retries + 1])
    BY <1>1, <1>2
  <1>4. Begun([job EXCEPT !.resumed = FALSE])
    BY DEF ControlOK, Columns, Begun
  <1> QED
    BY <1>3, <1>4

LEMMA BeginIInv ==
  ASSUME IInv, NEW target \in {"summary", "resume"}, NEW row, Begun(row), Begin(target, row)
  PROVE  IInv'
  <1> USE DEF IInv, Begun
  <1>1. Start(target) \in Session
    BY DEF Start, NoCapture, Session, Capture, Calls, Url, Body, Target
  <1>2. /\ job' = [c \in Columns |-> job'[c]] /\ job'.state = "running"
        /\ job'.phase = job.phase /\ job'.url = job.url /\ job'.retries \in Nat
    <2> DEFINE count == row.sessions + 1
    <2>1. job' = [row EXCEPT !.state = "running", !.sessions = count]
      BY DEF Begin
    <2> HIDE DEF count
    <2> QED
      BY <2>1 DEF Columns
  <1>3. ControlOK'
    BY <1>1, <1>2 DEF Begin, ControlOK, State
  <1>4. /\ session'.pc = "navigate" /\ session'.first.body = "none"
        /\ session'.target = target /\ session'.deadline = 0 /\ clock' = 0
    BY DEF Begin, Start, NoCapture
  <1>5. Course' /\ InTime'
    BY <1>2, <1>4, TimeoutAssumption DEF ControlOK, Course, InTime
  <1> QED
    BY <1>3, <1>5

LEMMA ResumeIInv == ASSUME IInv, Resume PROVE IInv'
  BY BeginRows, BeginIInv DEF IInv, Resume

LEMMA RetryIInv == ASSUME IInv, Retry PROVE IInv'
  BY BeginRows, BeginIInv DEF IInv, Retry

LEMMA SiteIInv ==
  ASSUME IInv, Answer \/ Render \/ ChallengePasses \/ Tick PROVE IInv'
  <1> USE DEF IInv
  <1>1. ASSUME NEW next \in Page, Show(next) PROVE IInv'
    BY <1>1 DEF Show, ControlOK, Columns, Course, InTime
  <1>2. CASE Answer
    <2>1. \E body \in Body, url \in Url :
            Show([page EXCEPT !.posted = FALSE, !.body = body, !.shown = 0, !.url = url])
      BY <1>2 DEF Answer, Body, Url
    <2> QED
      BY <1>1, <2>1 DEF ControlOK, Page
  <1>3. CASE Render
    BY <1>1, <1>3 DEF Render, ControlOK, Page
  <1>4. CASE ChallengePasses
    BY <1>1, <1>4 DEF ChallengePasses, ControlOK, Page, Url, Body
  <1>5. CASE Tick
    BY <1>5, TimeoutAssumption DEF Tick, Alive, ControlOK, Calls, Course, InTime
  <1> QED
    BY <1>2, <1>3, <1>4, <1>5

LEMMA StepIInv == IInv /\ [Next]_vars => IInv'
  <1>1. CASE UNCHANGED vars
    BY <1>1 DEF vars, IInv, ControlOK, Course, InTime
  <1> QED
    BY <1>1, CallIInv, JudgeIInv, SleepIInv, ResumeIInv, RetryIInv, SiteIInv DEF Next

THEOREM Invariance == Spec => []IInv
  BY InitIInv, StepIInv, PTL DEF Spec

\* No session of any job holds its browser for longer than its timeout and the
\* wait for the postback.
THEOREM Released == Spec => []BrowserReleased
  <1>1. IInv => BrowserReleased
    BY DEF IInv, InTime, BrowserReleased
  <1> QED
    BY <1>1, Invariance, PTL

-----------------------------------------------------------------------------
(***************************************************************************)
(* The sessions keep the promise: what a step does to the four values      *)
(* ReceiptPromise is about.                                                *)
(***************************************************************************)
\* ReceiptPromise reads a paper as BrowserSession does.
LEMMA SameSummary ==
  ASSUME NEW paper PROVE Promise!SummaryItems(paper) = SummaryItems(paper)
  <1>1. Promise!Described(paper) = Described(paper)
    BY Zenon DEF Promise!Described, Described, Promise!Kept, Kept
  <1> QED
    BY <1>1, Zenon DEF Promise!SummaryItems, SummaryItems

\* Barcodes change nothing else about the items.
LEMMA BarcodesOnly ==
  ASSUME NEW paper, NEW barcodes
  PROVE  LET items == SummaryItems(paper)
         IN  /\ Promise!SameItems(items, items)
             /\ Promise!SameItems(items, MergeBarcodes(items, barcodes))
  <1> DEFINE items == SummaryItems(paper)
             q     == Described(paper)
             merged == [i \in DOMAIN items |->
                          IF barcodes[i] # NoBarcode
                          THEN [items[i] EXCEPT !.barcode = barcodes[i]] ELSE items[i]]
  <1>1. items = [i \in DOMAIN q |-> [description |-> q[i].description, price |-> q[i].price,
                                     barcode |-> NoBarcode]]
    BY DEF SummaryItems
  <1>2. Promise!SameItems(items, items)
    BY DEF Promise!SameItems
  <1> HIDE DEF q
  <1>3. Promise!SameItems(items, merged)
    BY <1>1 DEF Promise!SameItems
  <1> QED
    BY <1>2, <1>3 DEF MergeBarcodes

LEMMA KnownWhileRunning ==
  ASSUME IInv, session.pc # "idle"
  PROVE  /\ Stage = "reading"
         /\ session.target = "resume" => Knows = "job"
         /\ session.target # "resume" =>
              Knows = IF session.first.body = "summary" THEN "session" ELSE "no"
         /\ Parsed <=> Knows # "no"
  <1>1. job.state = "running"
    BY DEF IInv, Course
  <1>2. Knows = IF session.target = "resume" THEN "job"
                ELSE IF session.first.body = "summary" THEN "session" ELSE "no"
    BY <1>1 DEF Knows, RowKnows
  <1> QED
    BY <1>1, <1>2 DEF Stage, Parsed

LEMMA KnownAtTheEnd ==
  ASSUME IInv, session.pc # "idle", NEW row, Ended(row), End(row)
  PROVE  /\ Stage' = row.state /\ UNCHANGED site.paper /\ job'.items = row.items
         /\ row.state = "paused" => Knows' = IF row.phase = "detail" THEN "job" ELSE "no"
         /\ row.state = "failed" => Knows' = "no"
         /\ row.state = "stored" => Knows' = Knows
         /\ row.state \in {"expired", "unreadable"} =>
              Knows' = IF session.target = "resume" THEN "job" ELSE "no"
  <1>1. /\ job' = row /\ site' = site /\ row.state # "running"
        /\ session'.first = session.first /\ session'.target = session.target
    BY DEF End, Ended, IInv, ControlOK, Session
  <1>2. Stage' = row.state
    BY <1>1 DEF Stage
  <1>3. RowKnows' = IF row.state = "paused" THEN row.phase = "detail"
                    ELSE row.state # "failed" /\ session.target = "resume"
    BY <1>1 DEF RowKnows
  <1>4. Knows' = IF RowKnows' THEN "job"
                 ELSE IF session.first.body = "summary" /\ row.state = "stored"
                      THEN "session" ELSE "no"
    BY <1>1 DEF Knows
  <1> QED
    BY <1>1, <1>2, <1>3, <1>4, KnownWhileRunning

LEMMA EndWithKeeps ==
  ASSUME IInv, session.pc # "idle",
         \/ SkipDetail \/ StoreDetail \/ EndWith(Paused("detail"))
         \/ session.target = "summary" /\ Challenged("summary")
         \/ session.target = "resume" /\ Challenged("detail")
         \/ /\ session.target \in {"summary", "resume"}
            /\ End([job EXCEPT !.state = "failed", !.calm = FALSE])
  PROVE  Promise!Next
  <1> USE KnownWhileRunning, Rows DEF IInv
  <1>1. CASE ~Parsed /\ End([job EXCEPT !.state = "unreadable"])
    <2> DEFINE row == [job EXCEPT !.state = "unreadable"]
    <2>1. row.state = "unreadable" /\ row.items = job.items
      BY DEF ControlOK, Columns
    <2>2. Knows = "no" /\ Stage = "reading" /\ session.target # "resume"
      BY <1>1 DEF Parsed
    <2>3. Knows' = "no" /\ Stage' = "unreadable" /\ UNCHANGED <<site.paper, job.items>>
      <3>1. Ended(row) /\ End(row)
        BY <1>1
      <3> HIDE DEF row
      <3> QED
        BY <2>1, <2>2, <3>1, KnownAtTheEnd
    <2> QED
      BY <2>2, <2>3 DEF Promise!Unreadable, Promise!Become, Promise!Next
  <1>2. ASSUME Parsed, NEW row, Ended(row), End(row), row.state = "stored",
               Promise!SameItems(SummaryItems(site.paper), row.items)
        PROVE  Promise!Next
    <2>1. job'.items = row.items /\ Stage' = "stored" /\ UNCHANGED site.paper
      BY <1>2, KnownAtTheEnd
    <2>2. Knows' = Knows /\ Knows # "no"
      BY <1>2, KnownAtTheEnd DEF Parsed
    <2>3. Promise!SameItems(SummaryItems(site.paper), job'.items)
      BY <1>2, <2>1
    <2> QED
      BY <2>1, <2>2, <2>3, SameSummary DEF Promise!Store, Promise!Next
  <1>3. ASSUME NEW phase \in {"summary", "detail"}, End(Paused(phase)),
               phase = "detail" <=> Knows # "no"
        PROVE  Promise!Next
    <2>1. Paused(phase).state = "paused" /\ Paused(phase).phase = phase
          /\ Paused(phase).items = job.items
      BY DEF Paused, ControlOK, Columns
    <2>2. /\ Stage' = "paused" /\ UNCHANGED <<site.paper, job.items>>
          /\ Knows' = IF phase = "detail" THEN "job" ELSE "no"
      BY <1>3, <2>1, KnownAtTheEnd
    <2>3. Knows' = IF Knows = "no" THEN "no" ELSE "job"
      BY <1>3, <2>2
    <2> QED
      BY <2>2, <2>3 DEF Promise!Pause, Promise!Become, Promise!Next
  <1>4. ASSUME NEW row, Ended(row), End(row), row.state \in {"failed", "expired"},
               row.items = job.items, session.target \in {"summary", "resume"}
        PROVE  Promise!Next
    <2>1. /\ Stage' = row.state /\ UNCHANGED <<site.paper, job.items>>
          /\ Knows' = IF row.state = "failed" THEN "no" ELSE Knows
          /\ Knows # "session"
      BY <1>4, KnownAtTheEnd DEF Course
    <2> QED
      BY <1>4, <2>1 DEF Promise!Fail, Promise!Expire, Promise!Become, Promise!Next
  <1>5. CASE SkipDetail
    <2> DEFINE row == [job EXCEPT !.state = "stored", !.items = SummaryItems(site.paper),
                                  !.shown = Products, !.calm = FALSE]
    <2>1. row.state = "stored" /\ row.items = SummaryItems(site.paper)
      BY DEF ControlOK, Columns
    <2>2. Ended(row) /\ EndWith(row)
      BY <1>5 DEF SkipDetail
    <2> HIDE DEF row
    <2> QED
      BY <1>1, <1>2, <2>1, <2>2, BarcodesOnly DEF EndWith
  <1>6. CASE StoreDetail
    <2> DEFINE barcodes == BarcodesIn(session.read)
               row      == Stored(barcodes, session.read.shown)
    <2>1. /\ row.state = "stored"
          /\ row.items = MergeBarcodes(SummaryItems(site.paper), barcodes)
      BY DEF Stored, ControlOK, Columns
    <2>2. Ended(row) /\ EndWith(row)
      BY <1>6 DEF StoreDetail
    <2> HIDE DEF row, barcodes
    <2> QED
      BY <1>1, <1>2, <2>1, <2>2, BarcodesOnly DEF EndWith
  <1>7. CASE EndWith(Paused("detail"))
    BY <1>1, <1>3, <1>7 DEF EndWith
  <1>8. ASSUME NEW phase \in {"summary", "detail"}, Challenged(phase),
               phase = "detail" <=> Knows # "no", session.target \in {"summary", "resume"}
        PROVE  Promise!Next
    <2>1. CASE job.resumed /\ job.retries >= CaptchaRetryLimit
      <3> DEFINE row == [job EXCEPT !.state = "expired"]
      <3>1. row.state = "expired" /\ row.items = job.items
        BY DEF ControlOK, Columns
      <3>2. Ended(row) /\ End(row)
        BY <1>8, <2>1 DEF Challenged
      <3> HIDE DEF row
      <3> QED
        BY <1>4, <1>8, <3>1, <3>2
    <2>2. CASE ~(job.resumed /\ job.retries >= CaptchaRetryLimit)
      BY <1>3, <1>8, <2>2 DEF Challenged
    <2> QED
      BY <2>1, <2>2
  <1>9. CASE session.target = "summary" /\ Challenged("summary")
    BY <1>8, <1>9 DEF Course
  <1>10. CASE session.target = "resume" /\ Challenged("detail")
    BY <1>8, <1>10
  <1>11. CASE /\ session.target \in {"summary", "resume"}
              /\ End([job EXCEPT !.state = "failed", !.calm = FALSE])
    <2> DEFINE row == [job EXCEPT !.state = "failed", !.calm = FALSE]
    <2>1. row.state = "failed" /\ row.items = job.items
      BY DEF ControlOK, Columns
    <2>2. Ended(row) /\ End(row)
      BY <1>11
    <2> HIDE DEF row
    <2> QED
      BY <1>4, <1>11, <2>1, <2>2
  <1> QED
    BY <1>5, <1>6, <1>7, <1>9, <1>10, <1>11

\* What leaves the job and the summary that was read alone is a stutter.
LEMMA Quiet ==
  ASSUME IInv, UNCHANGED <<site, job.state, job.phase, job.items>>,
         UNCHANGED <<session.first, session.target>>
  PROVE  UNCHANGED Promise!vars
  BY DEF Promise!vars, Stage, Knows, RowKnows

LEMMA GoOnKeeps ==
  ASSUME IInv, NEW next, Goto(next), next.first = session.first,
         next.target = session.target
  PROVE  UNCHANGED Promise!vars
  BY Quiet DEF Goto

LEMMA CallKeeps == ASSUME IInv, Call PROVE [Promise!Next]_(Promise!vars)
  <1> USE DEF IInv
  <1>1. CASE Navigate
    BY <1>1, Quiet DEF Navigate, ControlOK, Columns, Session
  <1>2. CASE ReadTitle \/ ReadLocation \/ ReadHtml \/ CaptureState
    BY <1>2, GoOnKeeps DEF ReadTitle, ReadLocation, ReadHtml, CaptureState, ControlOK, Session
  <1>3. CASE Trigger /\ site.button
    BY <1>3, Quiet DEF Trigger, ControlOK, Session
  <1>4. CASE Trigger /\ ~site.button
    BY <1>4, EndWithKeeps DEF Trigger
  <1>5. CASE CallFails
    <2>1. session.pc # "idle"
      BY <1>5 DEF CallFails, Calls
    <2>2. \A pc : /\ [session EXCEPT !.pc = pc].first = session.first
                  /\ [session EXCEPT !.pc = pc].target = session.target
      BY DEF ControlOK, Session
    <2> QED
      BY <1>5, <2>1, <2>2, GoOnKeeps, EndWithKeeps DEF CallFails
  <1> QED
    BY <1>1, <1>2, <1>3, <1>4, <1>5 DEF Call

LEMMA JudgeKeeps == ASSUME IInv, Judge PROVE [Promise!Next]_(Promise!vars)
  <1> USE DEF IInv
  <1>1. CASE JudgeSummary
    <2>1. CASE Challenge(session.read)
      BY <1>1, <2>1, EndWithKeeps DEF JudgeSummary
    <2>2. CASE ~Challenge(session.read)
      <3>1. PICK target \in {"link", "postback"}, pc \in {"navigate", "trigger"} :
              Goto([session EXCEPT !.first = session.read, !.target = target, !.pc = pc])
        BY <1>1, <2>2 DEF JudgeSummary
      <3>2. session'.first = session.read /\ session'.target = target /\ UNCHANGED <<site, job>>
        BY <3>1 DEF Goto, ControlOK, Session
      <3>3. Stage = "reading" /\ Knows = "no" /\ Stage' = Stage
            /\ Knows' = IF session.read.body = "summary" THEN "session" ELSE "no"
        BY <1>1, <3>2 DEF JudgeSummary, Course, Stage, Knows, RowKnows
      <3>4. CASE session.read.body = "summary"
        BY <3>2, <3>3, <3>4 DEF Promise!Learn, Promise!Become, Promise!Next
      <3>5. CASE session.read.body # "summary"
        BY <3>2, <3>3, <3>5 DEF Promise!vars
      <3> QED
        BY <3>4, <3>5
    <2> QED
      BY <2>1, <2>2
  <1>2. CASE JudgeLink
    BY <1>2, EndWithKeeps DEF JudgeLink
  <1>3. CASE JudgePostback
    <2>1. /\ [session EXCEPT !.pc = "sleep"].first = session.first
          /\ [session EXCEPT !.pc = "sleep"].target = session.target
      BY DEF ControlOK, Session
    <2> QED
      BY <1>3, <2>1, EndWithKeeps, GoOnKeeps DEF JudgePostback
  <1>4. CASE JudgeResume
    BY <1>4, EndWithKeeps DEF JudgeResume
  <1> QED
    BY <1>1, <1>2, <1>3, <1>4 DEF Judge

LEMMA BeginKeeps ==
  ASSUME NEW target, NEW row, Begun(row), Begin(target, row)
  PROVE  /\ Stage' = "reading" /\ site' = site /\ job'.items = job.items
         /\ Knows' = IF target = "resume" THEN "job" ELSE "no"
  <1>1. job'.state = "running" /\ job'.items = job.items /\ site' = site
    BY DEF Begin, Begun, Columns
  <1>2. session'.first.body = "none" /\ session'.target = target
    BY DEF Begin, Start, NoCapture
  <1> QED
    BY <1>1, <1>2 DEF Stage, Knows, RowKnows

LEMMA ResumeKeeps == ASSUME IInv, Resume PROVE Promise!Next
  <1> DEFINE target == IF job.phase = "detail" THEN "resume" ELSE "summary"
  <1>1. Stage = "paused" /\ Knows = IF target = "resume" THEN "job" ELSE "no"
    BY DEF Resume, Stage, Knows, RowKnows
  <1>2. /\ Stage' = "reading" /\ UNCHANGED <<site.paper, job.items>>
        /\ Knows' = IF target = "resume" THEN "job" ELSE "no"
    BY BeginRows, BeginKeeps DEF IInv, Resume
  <1> QED
    BY <1>1, <1>2 DEF Promise!Again, Promise!Next

LEMMA RetryKeeps == ASSUME IInv, Retry PROVE Promise!Next
  <1>1. Stage = "failed" /\ Knows = "no"
    BY DEF Retry, Stage, Knows, RowKnows
  <1>2. Stage' = "reading" /\ Knows' = "no" /\ UNCHANGED <<site.paper, job.items>>
    BY BeginRows, BeginKeeps DEF IInv, Retry
  <1> QED
    BY <1>1, <1>2 DEF Promise!Again, Promise!Next

LEMMA SiteKeeps ==
  ASSUME IInv, Sleep \/ Answer \/ Render \/ ChallengePasses \/ Tick
  PROVE  UNCHANGED Promise!vars
  <1>1. UNCHANGED <<site, job.state, job.phase, job.items, session.first, session.target>>
    BY DEF Sleep, Answer, Render, ChallengePasses, Show, Tick, IInv, ControlOK, Columns,
           Session
  <1> QED
    BY <1>1, Quiet

\* Whatever the site, the browser and the clock do: what a session read of a
\* receipt is stored or kept for the resume, and what is stored are its items.
THEOREM PromiseKept == Spec => KeepsPromise
  <1>1. Init => Promise!Init
    BY DEF Init, Start, NoCapture, Stage, Knows, RowKnows, Promise!Init
  <1>2. IInv /\ [Next]_vars => [Promise!Next]_(Promise!vars)
    <2>1. CASE UNCHANGED vars
      BY <2>1 DEF vars, Stage, Knows, RowKnows, Promise!vars
    <2> QED
      BY <2>1, CallKeeps, JudgeKeeps, ResumeKeeps, RetryKeeps, SiteKeeps DEF Next
  <1> QED
    BY <1>1, <1>2, Invariance, PTL DEF Spec, KeepsPromise, Promise!Spec

-----------------------------------------------------------------------------
(***************************************************************************)
(* The steps of a session, by what they do to it.                          *)
(***************************************************************************)
SkippedRow == [job EXCEPT !.state = "stored", !.items = SummaryItems(site.paper),
                          !.shown = Products, !.calm = FALSE]

\* How a session ends: only a challenge that was read pauses the job, and the
\* detail page is stored as it was read.
EndsWith(row) ==
  \/ /\ session.pc = "judge" /\ Challenge(session.read)
     /\ \E phase \in {"summary", "detail"} : row = Paused(phase)
  \/ row = [job EXCEPT !.state = "failed", !.calm = FALSE]
  \/ row = [job EXCEPT !.state = "unreadable"] \/ row = [job EXCEPT !.state = "expired"]
  \/ row = SkippedRow
  \/ /\ session.pc = "judge" /\ session.target # "summary"
     /\ row = Stored(BarcodesIn(session.read), session.read.shown)

Ends == session.pc # "idle" /\ \E row : EndsWith(row) /\ End(row)

\* How it goes on otherwise.
CaptureFails == session.pc = "capture" /\ Goto([session EXCEPT !.pc = "judge"])

Waits ==
  /\ session.pc \notin {"idle", "capture", "trigger"}
  /\ session.target = "postback" /\ Goto([session EXCEPT !.pc = "sleep"])

SummaryRead == JudgeSummary /\ ~Challenge(session.read)

GoesOn ==
  \/ Navigate \/ ReadTitle \/ ReadLocation \/ ReadHtml \/ CaptureState
  \/ Trigger /\ site.button
  \/ CaptureFails \/ Waits \/ SummaryRead

-----------------------------------------------------------------------------
(***************************************************************************)
(* Types, and what has been seen of the site.                              *)
(***************************************************************************)
RowOK ==
  /\ job \in Job
  /\ job.state = "paused" => job.url # "none"
  /\ session.pc # "idle" /\ session.target = "resume" => job.url # "none"

Seen ==
  /\ session.pc = "navigate" => session.target # "postback"
  /\ page.shown <= Products /\ session.read.shown <= Products
  /\ session.pc \notin {"idle", "navigate"} => page.url # "none"
  /\ session.pc \in {"html", "capture", "judge"} => session.read.url # "none"

\* As long as nothing goes wrong on a site whose summary page links to the detail
\* page, the browser shows the page it was asked for, to its end.
Wanted == IF session.target = "summary" THEN "summary" ELSE "detail"

CalmSession ==
  /\ session.pc \in {"navigate", "title", "location", "html", "judge"}
  /\ session.target \in {"summary", "link"}
  /\ session.target = "link" => session.first.body = "summary"
  /\ ~page.posted /\ page.body # "challenge"
  /\ page.body = "detail" => page.shown = Products
  /\ session.pc # "navigate" => page.body = Wanted
  /\ session.pc \in {"location", "html", "judge"} => ~session.read.title
  /\ session.pc = "judge" =>
       /\ session.read.body = Wanted
       /\ session.read.body = "detail" => session.read.shown = Products

Calm ==
  job.calm /\ site.link =>
    /\ job.state \notin {"paused", "failed"}
    /\ session.pc # "idle" => CalmSession

TInv == RowOK /\ Seen
BInv == BarcodesAreOwn /\ Calm /\ LinkedDetailIsWhole

-----------------------------------------------------------------------------
LEMMA EndWithEnds ==
  ASSUME session.pc # "idle", NEW row, EndWith(row), EndsWith(row)
  PROVE  Ends
  BY DEF EndWith, Ends, EndsWith

\* Every call and every judgement ends the session or goes on as above.
LEMMA CallOutcome == ASSUME Call PROVE Ends \/ GoesOn
<1>1. CASE Trigger /\ ~site.button
  <2>1. session.pc # "idle" /\ EndWith(SkippedRow)
    BY <1>1 DEF Trigger, SkipDetail, SkippedRow
  <2>2. QED
    BY <2>1, EndWithEnds DEF EndsWith
<1>2. CASE CallFails
  <2>1. session.pc # "idle"
    BY <1>2 DEF CallFails, Calls
  <2>2. CASE End([job EXCEPT !.state = "failed", !.calm = FALSE])
    BY <2>1, <2>2 DEF Ends, EndsWith
  <2>3. CASE SkipDetail
    <3>1. EndWith(SkippedRow)
      BY <2>3 DEF SkipDetail, SkippedRow
    <3>2. QED
      BY <2>1, <3>1, EndWithEnds DEF EndsWith
  <2>4. CASE CaptureFails
    BY <2>4 DEF GoesOn
  <2>5. CASE Waits
    BY <2>5 DEF GoesOn
  <2>6. QED
    BY <1>2, <2>1, <2>2, <2>3, <2>4, <2>5 DEF CallFails, CaptureFails, Waits
<1>3. QED
  BY <1>1, <1>2 DEF Call, GoesOn

LEMMA JudgeOutcome == ASSUME Judge PROVE Ends \/ GoesOn
<1>1. session.pc = "judge"
  BY DEF Judge, JudgeSummary, JudgeLink, JudgePostback, JudgeResume
<1>2. CASE StoreDetail /\ session.target # "summary"
  <2> DEFINE row == Stored(BarcodesIn(session.read), session.read.shown)
  <2>1. EndWith(row) /\ EndsWith(row)
    BY <1>1, <1>2 DEF StoreDetail, EndsWith
  <2>2. QED
    BY <1>1, <2>1, EndWithEnds
<1>3. CASE SkipDetail
  <2>1. EndWith(SkippedRow) /\ EndsWith(SkippedRow)
    BY <1>3 DEF SkipDetail, SkippedRow, EndsWith
  <2>2. QED
    BY <1>1, <2>1, EndWithEnds
<1>4. CASE Challenge(session.read) /\ EndWith(Paused("detail"))
  <2>1. EndsWith(Paused("detail"))
    BY <1>1, <1>4 DEF EndsWith
  <2>2. QED
    BY <1>1, <1>4, <2>1, EndWithEnds
<1>5. ASSUME NEW phase \in {"summary", "detail"}, Challenge(session.read), Challenged(phase)
      PROVE  Ends
  BY <1>1, <1>5 DEF Challenged, Ends, EndsWith
<1>6. CASE JudgeSummary
  BY <1>5, <1>6 DEF JudgeSummary, SummaryRead, GoesOn
<1>7. CASE JudgeLink
  BY <1>2, <1>4, <1>7 DEF JudgeLink
<1>8. CASE JudgePostback
  BY <1>1, <1>2, <1>3, <1>4, <1>8 DEF JudgePostback, Waits, GoesOn
<1>9. CASE JudgeResume
  BY <1>2, <1>5, <1>9 DEF JudgeResume
<1>10. QED
  BY <1>6, <1>7, <1>8, <1>9 DEF Judge

-----------------------------------------------------------------------------
(***************************************************************************)
(* What ends a session keeps the types.                                    *)
(***************************************************************************)

\* The products of the detail page that a capture holds.
InDocument(capture) == IF capture.body = "detail" THEN capture.shown ELSE 0

LEMMA PaperOfSite == ASSUME site \in Site PROVE site.paper \in Paper
  BY PapersAssumption DEF Site

LEMMA ReadBarcodes ==
  ASSUME site \in Site, NEW capture
  PROVE  BarcodesIn(capture) = ParseDetailPage(Prefix(site.paper, InDocument(capture)))
<1>1. SubSeq(site.paper.products, 1, 0) = <<>>
  <2>1. Len(SubSeq(site.paper.products, 1, 0)) = 0
        /\ SubSeq(site.paper.products, 1, 0) \in Seq(Product)
    BY PaperOfSite, ProductsOf, SubSeqProperties
  <2>2. QED
    BY <2>1, EmptySeq
<1>2. QED
  BY <1>1 DEF BarcodesIn, Prefix, InDocument

\* What is stored of a detail page that was read.
LEMMA StoredRow ==
  ASSUME IInv, TInv
  PROVE  /\ Stored(BarcodesIn(session.read), session.read.shown) =
              [job EXCEPT !.state = "stored", !.shown = session.read.shown,
                          !.items = StoredAfter(site.paper, InDocument(session.read))]
         /\ site.paper \in Paper /\ InDocument(session.read) \in 0 .. Products
         /\ session.read.shown \in Nat
<1>1. site \in Site /\ session.read.shown \in Nat
  BY DEF IInv, ControlOK, Session, Capture
<1>2. Products \in Nat /\ session.read.shown <= Products
  BY <1>1, ProductsNat DEF TInv, Seen
<1>3. InDocument(session.read) \in 0 .. Products
  BY <1>1, <1>2 DEF InDocument
<1>4. BarcodesIn(session.read) = ParseDetailPage(Prefix(site.paper, InDocument(session.read)))
  BY <1>1, ReadBarcodes
<1>5. QED
  BY <1>1, <1>3, <1>4, PaperOfSite DEF Stored, StoredAfter

LEMMA RowTypes ==
  ASSUME IInv, TInv, NEW row, EndsWith(row)
  PROVE  row \in Job /\ (row.state = "paused" => row.url # "none")
<1>1. job \in Job /\ session.read \in Capture
  BY DEF TInv, RowOK, IInv, ControlOK, Session
<1>2. \A s \in State, phase \in {"summary", "detail"}, url \in Url, items \in Seq(Item),
         n \in Nat, calm \in BOOLEAN :
        [job EXCEPT !.state = s, !.phase = phase, !.url = url, !.items = items,
                    !.shown = n, !.calm = calm] \in Job
  BY <1>1 DEF Job
<1>3. CASE \E phase \in {"summary", "detail"} :
             session.pc = "judge" /\ row = Paused(phase)
  BY <1>1, <1>3 DEF Paused, TInv, Seen, Job, Capture, State
<1>4. CASE \/ row = [job EXCEPT !.state = "failed", !.calm = FALSE]
           \/ row = [job EXCEPT !.state = "unreadable"]
           \/ row = [job EXCEPT !.state = "expired"]
  BY <1>1, <1>4 DEF Job, State
<1>5. CASE row = SkippedRow
  <2>1. SummaryItems(site.paper) \in Seq(Item) /\ Products \in Nat
    BY PaperOfSite, ProductsNat, SummaryItemsProperties DEF IInv, ControlOK
  <2>2. QED
    BY <1>1, <1>5, <2>1 DEF SkippedRow, Job, State
<1>6. CASE row = Stored(BarcodesIn(session.read), session.read.shown)
  <2> DEFINE items == StoredAfter(site.paper, InDocument(session.read))
  <2>1. /\ row = [job EXCEPT !.state = "stored", !.shown = session.read.shown,
                             !.items = items]
        /\ session.read.shown \in Nat
    BY <1>6, StoredRow
  <2>2. items \in Seq(Item)
    BY StoredRow, StoredAfterType DEF Products
  <2> HIDE DEF items
  <2>3. QED
    BY <1>1, <2>1, <2>2 DEF Job, State
<1>7. QED
  BY <1>3, <1>4, <1>5, <1>6 DEF EndsWith

LEMMA EndTypes == ASSUME IInv, TInv, Ends PROVE TInv'
<1>1. PICK row : EndsWith(row) /\ End(row)
  BY DEF Ends
<1>2. session \in Session /\ site \in Site
  BY DEF IInv, ControlOK
<1>3. session' = [session EXCEPT !.pc = "idle"] /\ session' \in Session
  BY <1>1, <1>2 DEF End, Session
<1>4. RowOK'
  BY <1>1, <1>2, <1>3, RowTypes DEF RowOK, End, Session
<1>5. Seen'
  BY <1>1, <1>2, <1>3, ProductsNat DEF End, NoPage, Seen, TInv, Products, Session
<1>6. QED
  BY <1>4, <1>5 DEF TInv

-----------------------------------------------------------------------------
(***************************************************************************)
(* What goes on: the row stays, and only the site can end a calm.          *)
(***************************************************************************)
RowStays ==
  /\ UNCHANGED site
  /\ \E calm \in BOOLEAN : (calm => job.calm) /\ job' = [job EXCEPT !.calm = calm]

LEMMA GotoStays ==
  ASSUME TInv, UNCHANGED <<site, job>> PROVE RowStays
<1>1. job.calm \in BOOLEAN /\ [job EXCEPT !.calm = job.calm] = job
  BY DEF TInv, RowOK, Job
<1>2. QED
  BY <1>1 DEF RowStays

LEMMA ShowStays ==
  ASSUME TInv, NEW calm \in BOOLEAN, UNCHANGED site, job' = [job EXCEPT !.calm = @ /\ calm]
  PROVE  RowStays
<1>1. job.calm \in BOOLEAN
  BY DEF TInv, RowOK, Job
<1>2. (job.calm /\ calm) \in BOOLEAN
  OBVIOUS
<1>3. QED
  BY <1>1, <1>2 DEF RowStays

LEMMA StaysColumns ==
  ASSUME TInv, RowStays
  PROVE  /\ job' \in Job /\ site' = site /\ (job'.calm => job.calm)
         /\ job'.state = job.state /\ job'.url = job.url /\ job'.items = job.items
         /\ job'.shown = job.shown
<1>1. PICK calm \in BOOLEAN : (calm => job.calm) /\ job' = [job EXCEPT !.calm = calm]
  BY DEF RowStays
<1>2. job \in Job
  BY DEF TInv, RowOK
<1>3. QED
  BY <1>1, <1>2, Zenon DEF Job, RowStays

LEMMA StaysRowOK ==
  ASSUME TInv, RowStays, session'.pc # "idle" => session.pc # "idle",
         session'.target = "resume" => session.target = "resume"
  PROVE  RowOK'
  BY StaysColumns DEF TInv, RowOK

LEMMA NavigateTypes ==
  ASSUME IInv, TInv, Navigate PROVE TInv' /\ RowStays
<1> DEFINE asked == CASE session.target = "summary" -> "summary"
                      [] session.target = "link"    -> "detail"
                      [] OTHER                      -> job.url
<1>1. PICK body : page' = Loaded(asked, body) /\ job' = [job EXCEPT !.calm = @ /\ body = asked]
  BY DEF Navigate
<1>2. session \in Session /\ session.pc = "navigate"
  BY DEF Navigate, IInv, ControlOK
<1>3. session' = [session EXCEPT !.pc = "title"] /\ UNCHANGED site
  BY DEF Navigate
<1>4. RowStays
  BY <1>1, <1>3, ShowStays
<1>5. RowOK'
  BY <1>2, <1>3, <1>4, StaysRowOK DEF Session
<1>6. asked # "none"
  BY <1>2 DEF TInv, RowOK, Seen, Session, Target
<1>7. Products \in Nat /\ Products' = Products
  BY <1>3, ProductsNat DEF IInv, ControlOK, Products
<1> HIDE DEF asked
<1>8. page'.url = asked /\ page'.shown <= Products
  BY <1>1, <1>7 DEF Loaded, NoPage
<1>9. Seen'
  BY <1>2, <1>3, <1>6, <1>7, <1>8 DEF Seen, TInv, Session
<1>10. QED
  BY <1>4, <1>5, <1>9 DEF TInv

LEMMA TriggerTypes ==
  ASSUME IInv, TInv, Trigger, site.button PROVE TInv' /\ RowStays
<1>1. session \in Session /\ page \in Page /\ session.pc = "trigger"
  BY DEF Trigger, IInv, ControlOK
<1>2. /\ page' = [page EXCEPT !.asked = "detail", !.posted = TRUE]
      /\ \E until : session' = [session EXCEPT !.pc = "title", !.deadline = until]
      /\ UNCHANGED <<site, job>>
  BY DEF Trigger
<1>3. RowStays
  BY <1>2, GotoStays
<1>4. RowOK'
  BY <1>1, <1>2, <1>3, StaysRowOK DEF Session
<1>5. Seen'
  BY <1>1, <1>2 DEF Seen, TInv, Session, Page, Products
<1>6. QED
  BY <1>3, <1>4, <1>5 DEF TInv

\* Reading: what is read is what the browser shows.
LEMMA ReadTypes ==
  ASSUME IInv, TInv, ReadTitle \/ ReadLocation \/ ReadHtml \/ CaptureState \/ CaptureFails
  PROVE  TInv' /\ RowStays
<1>1. session \in Session /\ session.read \in Capture /\ page \in Page
  BY DEF IInv, ControlOK, Session
<1>2. UNCHANGED <<site, page, job>>
  BY DEF ReadTitle, ReadLocation, ReadHtml, CaptureState, CaptureFails, Goto
<1>3. RowStays
  BY <1>2, GotoStays
<1>4. /\ session'.target = session.target /\ session'.pc \notin {"idle", "navigate"}
      /\ session.pc \notin {"idle", "navigate"}
      /\ session'.read.shown \in {session.read.shown, page.shown}
      /\ session'.read.url \in {session.read.url, page.url}
      /\ session'.pc \in {"html", "capture", "judge"} /\ session'.read.url = session.read.url =>
           session.pc \in {"html", "capture", "judge"} \/ session'.read.url = page.url
  <2>1. CASE ReadTitle
    BY <1>1, <2>1 DEF ReadTitle, Goto, Session, Capture
  <2>2. CASE ReadLocation
    BY <1>1, <2>2 DEF ReadLocation, Goto, Session, Capture
  <2>3. CASE ReadHtml
    <3>1. PICK pc \in {"capture", "judge"} :
            session' = [session EXCEPT !.read = [session.read EXCEPT !.body = page.body,
                                                                     !.shown = page.shown],
                                       !.pc = pc]
      BY <2>3 DEF ReadHtml, Goto
    <3>2. QED
      BY <1>1, <2>3, <3>1 DEF ReadHtml, Session, Capture
  <2>4. CASE CaptureState
    BY <1>1, <2>4 DEF CaptureState, Goto, Session, Capture
  <2>5. CASE CaptureFails
    BY <1>1, <2>5 DEF CaptureFails, Goto, Session, Capture
  <2>6. QED
    BY <2>1, <2>2, <2>3, <2>4, <2>5
<1>5. RowOK'
  BY <1>3, <1>4, StaysRowOK
<1>6. Seen'
  BY <1>2, <1>4 DEF Seen, TInv, Products
<1>7. QED
  BY <1>3, <1>5, <1>6 DEF TInv

\* The other steps of a session leave what was read alone.
LEMMA OnwardTypes ==
  ASSUME IInv, TInv, Waits \/ SummaryRead \/ Sleep PROVE TInv' /\ RowStays
<1>1. session \in Session
  BY DEF IInv, ControlOK
<1>2. UNCHANGED <<site, page, job>>
  BY DEF Waits, SummaryRead, JudgeSummary, Sleep, Goto
<1>3. RowStays
  BY <1>2, GotoStays
<1>4. /\ session'.read = session.read
      /\ session'.pc \in {"navigate", "trigger", "sleep", "title"}
      /\ session'.pc = "navigate" => session'.target = "link"
      /\ session'.target = "resume" => session.target = "resume"
      /\ session.pc \notin {"idle", "navigate"}
  <2>1. CASE Waits
    <3>1. session' = [session EXCEPT !.pc = "sleep"] /\ session.pc # "idle"
          /\ session.target = "postback"
      BY <2>1 DEF Waits, Goto
    <3>2. session.pc # "navigate"
      BY <3>1 DEF TInv, Seen
    <3>3. QED
      BY <1>1, <3>1, <3>2 DEF Session
  <2>2. CASE SummaryRead
    <3>1. PICK found \in BOOLEAN :
            session' = [session EXCEPT !.first = session.read,
                          !.target = IF found THEN "link" ELSE "postback",
                          !.pc = IF found THEN "navigate" ELSE "trigger"]
      BY <2>2 DEF SummaryRead, JudgeSummary, Goto
    <3>2. session.pc = "judge"
      BY <2>2 DEF SummaryRead, JudgeSummary
    <3>3. QED
      BY <1>1, <3>1, <3>2 DEF Session
  <2>3. CASE Sleep
    <3>1. PICK last : session' = [session EXCEPT !.pc = "title", !.last = last]
      BY <2>3 DEF Sleep
    <3>2. session.pc = "sleep"
      BY <2>3 DEF Sleep
    <3>3. QED
      BY <1>1, <3>1, <3>2 DEF Session
  <2>4. QED
    BY <2>1, <2>2, <2>3
<1>5. RowOK'
  BY <1>3, <1>4, StaysRowOK
<1>6. Seen'
  BY <1>2, <1>4 DEF Seen, TInv, Products
<1>7. QED
  BY <1>3, <1>5, <1>6 DEF TInv

LEMMA SiteTypes ==
  ASSUME IInv, TInv, Answer \/ Render \/ ChallengePasses \/ Tick PROVE TInv' /\ RowStays
<1>1. page \in Page /\ site \in Site /\ Products \in Nat
  BY ProductsNat DEF IInv, ControlOK
<1>2. UNCHANGED <<site, session>>
  BY DEF Answer, Render, ChallengePasses, Tick, Show
<1>3. RowStays
  BY <1>2, GotoStays, ShowStays DEF Answer, Render, ChallengePasses, Tick, Show
<1>4. RowOK'
  BY <1>2, <1>3, StaysRowOK
<1>5. page'.shown <= Products /\ (page.url # "none" => page'.url # "none")
  <2>1. page.shown <= Products
    BY DEF TInv, Seen
  <2>2. CASE Answer
    BY <1>1, <2>2 DEF Answer, Show, Page
  <2>3. CASE Render
    BY <1>1, <2>1, <2>3 DEF Render, Show, Page
  <2>4. CASE ChallengePasses
    BY <1>1, <2>4 DEF ChallengePasses, Show, Page
  <2>5. CASE Tick
    BY <2>1, <2>5 DEF Tick
  <2>6. QED
    BY <2>2, <2>3, <2>4, <2>5
<1>6. Seen'
  BY <1>2, <1>5 DEF Seen, TInv, Products
<1>7. QED
  BY <1>3, <1>4, <1>6 DEF TInv

LEMMA BeginTypes ==
  ASSUME IInv, TInv, Resume \/ Retry
  PROVE  TInv' /\ job'.state = "running" /\ site' = site
         /\ job'.calm = job.calm /\ job.state \in {"paused", "failed"}
<1>1. job \in Job /\ session.pc = "idle"
  BY DEF IInv, Course, TInv, RowOK, Resume, Retry
<1>2. PICK resumed \in BOOLEAN, retries \in Nat, target \in {"summary", "resume"} :
        /\ Begin(target, [job EXCEPT !.resumed = resumed, !.retries = retries])
        /\ target = "resume" => job.state = "paused"
  <2>1. job.retries \in Nat /\ job.retries + 1 \in Nat
    BY <1>1 DEF Job
  <2>2. CASE Resume
    BY <2>1, <2>2 DEF Resume
  <2>3. CASE Retry
    <3>1. [job EXCEPT !.resumed = FALSE] = [job EXCEPT !.resumed = FALSE, !.retries = job.retries]
      BY <1>1 DEF Job
    <3>2. QED
      BY <2>1, <2>3, <3>1 DEF Retry
  <2>4. QED
    BY <2>2, <2>3
<1>3. /\ job' = [job EXCEPT !.resumed = resumed, !.retries = retries, !.state = "running",
                            !.sessions = job.sessions + 1]
      /\ session' = Start(target) /\ UNCHANGED <<site, page>>
  BY <1>1, <1>2 DEF Begin, Job
<1>4. job.sessions + 1 \in Nat
  BY <1>1 DEF Job
<1>5. job' \in Job /\ job'.state = "running" /\ job'.url = job.url /\ job'.calm = job.calm
  BY <1>1, <1>3, <1>4 DEF Job, State
<1>6. RowOK'
  BY <1>2, <1>3, <1>5 DEF RowOK, TInv, Start
<1>7. Products' = Products /\ Products \in Nat
  BY <1>3, ProductsNat DEF Products, IInv, ControlOK
<1>8. Seen'
  BY <1>2, <1>3, <1>7 DEF Seen, TInv, Start, NoCapture
<1>9. QED
  BY <1>3, <1>5, <1>6, <1>8 DEF TInv, Resume, Retry

LEMMA InitTypes == ASSUME Init PROVE TInv
<1>1. site \in Site /\ Products \in Nat
  BY ProductsNat DEF Init
<1>2. RowOK
  BY EmptySeq DEF Init, RowOK, Job, State, Url, Start
<1>3. Seen
  BY <1>1 DEF Init, Seen, NoPage, Start, NoCapture
<1>4. QED
  BY <1>2, <1>3 DEF TInv

LEMMA GoesOnTypes == ASSUME IInv, TInv, GoesOn PROVE TInv' /\ RowStays
  BY NavigateTypes, TriggerTypes, ReadTypes, OnwardTypes DEF GoesOn

LEMMA StepTypes == ASSUME IInv, TInv, [Next]_vars PROVE TInv'
<1>1. CASE UNCHANGED vars
  BY <1>1 DEF vars, TInv, RowOK, Seen, Products
<1>2. CASE Call \/ Judge
  BY <1>2, CallOutcome, JudgeOutcome, EndTypes, GoesOnTypes
<1>3. QED
  BY <1>1, <1>2, OnwardTypes, SiteTypes, BeginTypes DEF Next

\* The site, the browser, the session and the job keep their types, and a pause
\* names the page the phone has to open, for any receipts.
THEOREM SessionTypes == Spec => []TypeOK
<1>1. Spec => []TInv
  BY InitTypes, StepTypes, Invariance, PTL DEF Spec
<1>2. IInv /\ TInv => TypeOK
  BY DEF IInv, ControlOK, TInv, RowOK, TypeOK
<1>3. QED
  BY <1>1, <1>2, Invariance, PTL

-----------------------------------------------------------------------------
(***************************************************************************)
(* The barcodes that are stored.                                           *)
(***************************************************************************)

\* What a session ends with: its own barcodes, and all of them after a calm one.
LEMMA EndBarcodes ==
  ASSUME IInv, TInv, BInv, NEW row, EndsWith(row), End(row) PROVE BInv'
<1>1. job \in Job /\ site \in Site /\ site.paper \in Paper /\ session \in Session
      /\ session' = [session EXCEPT !.pc = "idle"] /\ site' = site /\ job' = row
  BY PaperOfSite DEF TInv, RowOK, IInv, ControlOK, End
<1>2. session'.pc = "idle"
  BY <1>1 DEF Session
<1>3. CASE row.state # "stored"
  <2>1. ASSUME row.calm, site.link PROVE row.state \notin {"paused", "failed"}
    <3>1. CASE \E phase \in {"summary", "detail"} :
                 session.pc = "judge" /\ Challenge(session.read) /\ row = Paused(phase)
      <4>1. job.calm
        BY <1>1, <2>1, <3>1 DEF Paused, Job
      <4>2. CalmSession
        BY <2>1, <3>1, <4>1 DEF BInv, Calm
      <4>3. QED
        BY <3>1, <4>2 DEF CalmSession, Challenge, Wanted
    <3>2. CASE row = [job EXCEPT !.state = "failed", !.calm = FALSE]
      BY <1>1, <2>1, <3>2 DEF Job
    <3>3. CASE \E s \in {"unreadable", "expired"} : row = [job EXCEPT !.state = s]
      BY <1>1, <3>3 DEF Job
    <3>4. CASE row = SkippedRow \/ row = Stored(BarcodesIn(session.read), session.read.shown)
      BY <1>1, <1>3, <3>4 DEF SkippedRow, Stored, Job
    <3>5. QED
      BY <3>1, <3>2, <3>3, <3>4 DEF EndsWith
  <2>2. QED
    BY <1>1, <1>2, <1>3, <2>1 DEF BInv, BarcodesAreOwn, Calm, LinkedDetailIsWhole
<1>4. CASE row = SkippedRow
  <2>1. row.items = SummaryItems(site.paper) /\ ~row.calm
    BY <1>1, <1>4 DEF SkippedRow, Job
  <2>2. \A i \in DOMAIN row.items : row.items[i].barcode = NoBarcode
    BY <1>1, <2>1, SummaryItemsProperties
  <2>3. QED
    BY <1>1, <1>2, <2>1, <2>2 DEF BInv, BarcodesAreOwn, Calm, LinkedDetailIsWhole
<1>5. CASE /\ row = Stored(BarcodesIn(session.read), session.read.shown)
           /\ session.pc = "judge" /\ session.target # "summary"
  <2> DEFINE n == InDocument(session.read)
             q == site.paper.products
  <2>1. /\ row = [job EXCEPT !.state = "stored", !.shown = session.read.shown,
                             !.items = StoredAfter(site.paper, n)]
        /\ n \in 0 .. Len(q) /\ Products = Len(q)
    BY <1>5, StoredRow DEF Products
  <2>2. /\ row.state = "stored" /\ row.items = StoredAfter(site.paper, n)
        /\ row.shown = session.read.shown /\ row.calm = job.calm
    BY <1>1, <2>1 DEF Job
  <2>3. row.shown = Len(q) => n = Len(q) \/ n = 0
    BY <2>2 DEF InDocument
  <2>4. BarcodesAreOwn'
    <3>1. ASSUME Readable(site.paper), Matched(site.paper) \/ row.shown = Len(q),
                 NEW i \in DOMAIN row.items
          PROVE  row.items[i].barcode \in {NoBarcode, OwnBarcode(Described(site.paper)[i])}
      <4>1. Matched(site.paper) \/ n = Len(q) \/ n = 0
        BY <2>3, <3>1
      <4>2. i \in DOMAIN StoredAfter(site.paper, n)
        BY <2>2
      <4> HIDE DEF n
      <4>3. QED
        BY <1>1, <2>1, <2>2, <3>1, <4>1, <4>2, StoredAfterOwn
    <3>2. Products' = Len(q)
      BY <1>1 DEF Products
    <3>3. QED
      BY <1>1, <3>1, <3>2 DEF BarcodesAreOwn
  <2>5. LinkedDetailIsWhole'
    <3> SUFFICES ASSUME row.calm, site.link, Readable(site.paper), Matched(site.paper),
                        NEW i \in DOMAIN row.items
                 PROVE  row.items[i].barcode = OwnBarcode(q[i])
      BY <1>1 DEF LinkedDetailIsWhole
    <3>1. CalmSession
      BY <1>5, <2>2 DEF BInv, Calm
    <3>2. n = Len(q)
      BY <1>5, <2>1, <3>1 DEF CalmSession, Wanted, InDocument
    <3>3. QED
      BY <1>1, <2>2, <3>2, StoredAfterWhole
  <2>6. Calm'
    BY <1>1, <1>2, <2>2 DEF Calm
  <2>7. QED
    BY <2>4, <2>5, <2>6 DEF BInv
<1>6. row.state = "stored" =>
        \/ row = SkippedRow
        \/ /\ row = Stored(BarcodesIn(session.read), session.read.shown)
           /\ session.pc = "judge" /\ session.target # "summary"
  BY <1>1 DEF EndsWith, Paused, Job
<1>7. QED
  BY <1>3, <1>4, <1>5, <1>6

\* A step that leaves the row alone leaves its barcodes alone.
LEMMA StaysBarcodes ==
  ASSUME TInv, BInv, RowStays,
         job'.calm /\ site.link /\ session'.pc # "idle" => CalmSession'
  PROVE  BInv'
<1>1. BarcodesAreOwn' /\ LinkedDetailIsWhole'
  BY StaysColumns DEF BInv, BarcodesAreOwn, LinkedDetailIsWhole, Products
<1>2. Calm'
  BY StaysColumns DEF BInv, Calm
<1>3. QED
  BY <1>1, <1>2 DEF BInv

\* A session that is calm reads the page it asked for, and follows the link.
LEMMA GoesOnBarcodes == ASSUME IInv, TInv, BInv, GoesOn PROVE BInv'
<1>1. session \in Session /\ session.read \in Capture /\ page \in Page /\ job \in Job
      /\ session.pc # "idle"
  BY DEF IInv, ControlOK, Session, TInv, RowOK, GoesOn, Navigate, ReadTitle, ReadLocation,
         ReadHtml, CaptureState, Trigger, CaptureFails, Waits, SummaryRead, JudgeSummary
<1>2. RowStays
  BY GoesOnTypes
<1>3. SUFFICES ASSUME job'.calm, site.link PROVE CalmSession'
  BY <1>2, StaysBarcodes
<1>4. CalmSession /\ job.calm /\ site' = site /\ Products' = Products
  BY <1>1, <1>2, <1>3, StaysColumns DEF BInv, Calm, Products
<1>5. CASE Navigate
  <2> DEFINE asked == CASE session.target = "summary" -> "summary"
                        [] session.target = "link"    -> "detail"
                        [] OTHER                      -> job.url
  <2>1. PICK body : page' = Loaded(asked, body) /\ job' = [job EXCEPT !.calm = @ /\ body = asked]
    BY <1>5 DEF Navigate
  <2>2. session' = [session EXCEPT !.pc = "title"]
    BY <1>5 DEF Navigate
  <2>3. asked = Wanted
    BY <1>4 DEF CalmSession, Wanted
  <2>4. body = Wanted
    BY <1>1, <1>3, <2>1, <2>3 DEF Job
  <2>5. Wanted \in {"summary", "detail"} /\ Wanted' = Wanted
    BY <1>1, <2>2 DEF Wanted, Session
  <2>6. /\ page'.body = Wanted /\ ~page'.posted
        /\ page'.body = "detail" => page'.shown = Products
    BY <2>1, <2>4 DEF Loaded, NoPage
  <2>7. QED
    BY <1>1, <1>4, <2>2, <2>5, <2>6 DEF CalmSession, Session
<1>6. CASE ReadTitle
  <2>1. Wanted' = Wanted /\ session' = [session EXCEPT !.pc = "location",
                                           !.read.title = page.body = "challenge"]
        /\ session.pc = "title" /\ page' = page
    BY <1>1, <1>6 DEF ReadTitle, Goto, Wanted, Session
  <2>2. page.body # "challenge"
    BY <1>4 DEF CalmSession
  <2>3. session' = [session EXCEPT !.pc = "location", !.read.title = FALSE]
    BY <2>1, <2>2
  <2>4. /\ session'.pc = "location" /\ session'.target = session.target
        /\ session'.first = session.first /\ ~session'.read.title
    BY <1>1, <2>3 DEF Session, Capture
  <2>5. QED
    BY <1>4, <2>1, <2>4 DEF CalmSession
<1>7. CASE ReadLocation
  <2>1. Wanted' = Wanted /\ session' = [session EXCEPT !.pc = "html", !.read.url = page.url]
        /\ session.pc = "location" /\ page' = page
    BY <1>1, <1>7 DEF ReadLocation, Goto, Wanted, Session
  <2>2. QED
    BY <1>1, <1>4, <2>1 DEF CalmSession, Session, Capture
<1>8. CASE ReadHtml
  <2> DEFINE read == [session.read EXCEPT !.body = page.body, !.shown = page.shown]
  <2>1. session.pc = "html" /\ page' = page
        /\ session' = [session EXCEPT !.read = read,
                          !.pc = IF Challenge(read) THEN "capture" ELSE "judge"]
    BY <1>8 DEF ReadHtml, Goto
  <2>2. /\ read.title = session.read.title /\ read.body = page.body /\ read.shown = page.shown
        /\ ~Challenge(read)
    BY <1>1, <1>4, <2>1 DEF CalmSession, Capture, Challenge
  <2> HIDE DEF read
  <2>3. session' = [session EXCEPT !.read = read, !.pc = "judge"]
    BY <2>1, <2>2
  <2>4. Wanted' = Wanted
    BY <1>1, <2>3 DEF Wanted, Session
  <2>5. QED
    BY <1>1, <1>4, <2>1, <2>2, <2>3, <2>4 DEF CalmSession, Session
<1>9. CASE SummaryRead
  <2>1. session.read.body = "summary"
    BY <1>4, <1>9 DEF SummaryRead, JudgeSummary, CalmSession, Wanted
  <2>2. session' = [session EXCEPT !.first = session.read, !.target = "link",
                                   !.pc = "navigate"] /\ page' = page
    BY <1>3, <1>9, <2>1 DEF SummaryRead, JudgeSummary, Goto
  <2>3. QED
    BY <1>1, <1>4, <2>1, <2>2 DEF CalmSession, Session
<1>10. session.pc \notin {"trigger", "capture", "sleep"} /\ session.target # "postback"
  BY <1>4 DEF CalmSession
<1>11. QED
  BY <1>5, <1>6, <1>7, <1>8, <1>9, <1>10
     DEF GoesOn, Trigger, CaptureState, CaptureFails, Waits

\* A calm page does not change by itself.
LEMMA SiteBarcodes ==
  ASSUME IInv, TInv, BInv, Sleep \/ Answer \/ Render \/ ChallengePasses \/ Tick PROVE BInv'
<1>1. RowStays
  BY OnwardTypes, SiteTypes
<1>2. SUFFICES ASSUME job'.calm, site.link, session'.pc # "idle" PROVE CalmSession'
  BY <1>1, StaysBarcodes
<1>3. job.calm /\ site' = site /\ Products' = Products
  BY <1>1, <1>2, StaysColumns DEF Products
<1>4. CalmSession
  BY <1>2, <1>3 DEF BInv, Calm, Sleep, Answer, Render, ChallengePasses, Tick, Show
<1>5. page \in Page /\ Products \in Nat
  BY ProductsNat DEF IInv, ControlOK
<1>6. Tick
  BY <1>4, <1>5 DEF CalmSession, Sleep, Answer, Render, ChallengePasses, Wanted
<1>7. QED
  BY <1>3, <1>4, <1>6 DEF Tick, CalmSession, Wanted

LEMMA InitBarcodes == ASSUME Init PROVE BInv
<1>1. Calm
  BY DEF Init, Calm, CalmSession, Start, NoCapture, NoPage
<1>2. QED
  BY <1>1 DEF Init, BInv, BarcodesAreOwn, LinkedDetailIsWhole

LEMMA BeginBarcodes == ASSUME IInv, TInv, BInv, Resume \/ Retry PROVE BInv'
  BY BeginTypes DEF BInv, BarcodesAreOwn, Calm, LinkedDetailIsWhole

LEMMA StepBarcodes == ASSUME IInv, TInv, BInv, [Next]_vars PROVE BInv'
<1>1. CASE UNCHANGED vars
  BY <1>1 DEF vars, BInv, BarcodesAreOwn, Calm, CalmSession, Wanted, LinkedDetailIsWhole,
              Products
<1>2. CASE Call \/ Judge
  BY <1>2, CallOutcome, JudgeOutcome, EndBarcodes, GoesOnBarcodes DEF Ends
<1>3. QED
  BY <1>1, <1>2, SiteBarcodes, BeginBarcodes DEF Next

THEOREM SessionBarcodes == Spec => []BInv
<1>1. Spec => []TInv
  BY InitTypes, StepTypes, Invariance, PTL DEF Spec
<1>2. QED
  BY <1>1, InitBarcodes, StepBarcodes, Invariance, PTL DEF Spec

\* However the site renders, challenges and answers, and whenever a session reads
\* it: a stored item of a readable receipt that names all its products, or whose
\* detail page was read as a whole, has its own barcode or none.
THEOREM BarcodesStayOwn == Spec => []BarcodesAreOwn
  BY SessionBarcodes, PTL DEF BInv

\* When the summary page links to the detail page and nothing goes wrong, every
\* barcode printed is stored of a readable receipt whose summary names all its
\* products.
THEOREM LinkedDetailsAreWhole == Spec => []LinkedDetailIsWhole
  BY SessionBarcodes, PTL DEF BInv
=============================================================================
