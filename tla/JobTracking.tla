---------------------------- MODULE JobTracking ----------------------------
(***************************************************************************)
(* The phone while a receipt is being scraped: JobTrackingScreen, which    *)
(* polls one job, the CaptchaWebViewScreens it opens, their error dialogs, *)
(* and the Navigator that stacks them.                                     *)
(*                                                                         *)
(* Dart runs one event at a time: an action is the code between two        *)
(* awaits.  What makes it hard is that a screen that was popped goes on:   *)
(* it is mounted until its exit animation ends, and its coroutines run on  *)
(* even after that.                                                        *)
(*                                                                         *)
(* The page in the WebView is nondeterministic (solved, not solved, script *)
(* error), the user may tap whatever can be tapped, and the job moves as   *)
(* JobPipeline lets it move.                                               *)
(*                                                                         *)
(* A definition introduced by "Wrong:" is no part of the model: it is the  *)
(* next definition with a mistake the code could have made.                *)
(***************************************************************************)
EXTENDS Integers, Sequences, FiniteSets

CONSTANTS
  MaxPauses,   \* captcha pauses of the job (bounds the model)
  MaxScreens,  \* captcha screens opened one after the other (bounds the model)
  MaxDialogs,  \* error dialogs shown at a time (bounds the model)
  MaxPolls,    \* requests that fit between pollJobUntilTerminal and its deadline
  FaultKinds,  \* what can happen to an HTTP request
  MaxFaults    \* how often it does (bounds the model)

ASSUME BoundsAssumption ==
  /\ MaxPauses \in Nat \ {0} /\ MaxPolls \in Nat \ {0}
  /\ MaxScreens \in Nat /\ MaxDialogs \in Nat
  /\ FaultKinds \subseteq {"request_lost", "reply_lost"}
  /\ MaxFaults \in Nat

Screens == 1 .. MaxScreens

\* pollJobUntilTerminal is called by initState (0) and after a captcha screen
\* said that it was resolved.
Pollers == {0} \cup Screens

VARIABLES
  job,       \* the row of scraping_jobs, as far as the phone can see it
  stack,     \* the Navigator's routes, the top one last
  tracking,  \* state of JobTrackingScreen
  poller,    \* calls of pollJobUntilTerminal
  screen,    \* state of each CaptchaWebViewScreen
  call,      \* what each coroutine of a captcha screen awaits
  faults     \* requests that went wrong so far

vars == <<job, stack, tracking, poller, screen, call, faults>>

(***************************************************************************)
(* The job.  "none" is job id 0, which SubmitReceipt answers for a receipt *)
(* without a linked job; queued and processing look the same to the phone. *)
(***************************************************************************)
Status == {"none", "processing", "awaiting_captcha", "completed", "failed"}
Pending == {"processing"}

Route == [kind: {"home", "tracking", "captcha", "dialog"}, screen: {0} \cup Screens]

Home       == [kind |-> "home",     screen |-> 0]
Tracking   == [kind |-> "tracking", screen |-> 0]
Captcha(s) == [kind |-> "captcha",  screen |-> s]
Dialog(s)  == [kind |-> "dialog",   screen |-> s]

\* view is _state; cause tells apart the three ways into failed; answer is
\* what the screen told HomeScreen when it was popped.
TrackingState == [mounted : BOOLEAN,
                  view    : {"polling", "awaitingCaptcha", "completed", "failed"},
                  cause   : {"none", "job", "timeout", "error"},
                  answer  : {"none", "true", "false"}]

PollerState == [pc    : {"off", "asking", "answered", "sleeping"},
                seen  : Status \cup {"error"},
                count : 0 .. MaxPolls]

IdlePoller   == [pc |-> "off", seen |-> "processing", count |-> 0]
FreshPoller  == [pc |-> "asking", seen |-> "processing", count |-> 1]

\* ctx is the state of _ctx and _loadError; "unused" a screen not yet opened.
ScreenState == [ctx        : {"unused", "loading", "ready", "error"},
                mounted    : BOOLEAN,
                submitting : BOOLEAN,
                resolved   : BOOLEAN]

UnusedScreen == [ctx |-> "unused", mounted |-> FALSE, submitting |-> FALSE, resolved |-> FALSE]
OpenedScreen == [UnusedScreen EXCEPT !.ctx = "loading", !.mounted = TRUE]

\* The coroutines of a screen: the periodic loop, onPageFinished, and the
\* submission a button starts.
Coroutine == {"loop", "page", "button"}

\* What a coroutine awaits; the last four are the awaits of
\* _extractAndSubmitCookies.
Submitting == {"extract", "post", "accepted", "refused"}
Await      == {"off", "sleep", "check"} \cup Submitting

Init ==
  /\ \E s \in {"none", "processing", "awaiting_captcha", "completed"} :
       job = [status |-> s, pauses |-> IF s = "awaiting_captcha" THEN 1 ELSE 0]
  /\ stack    = <<Home, Tracking>>
  /\ tracking = [mounted |-> TRUE, view |-> "polling", cause |-> "none", answer |-> "none"]
  /\ poller   = [k \in Pollers |-> IF k = 0 THEN FreshPoller ELSE IdlePoller]
  /\ screen   = [s \in Screens |-> UnusedScreen]
  /\ call     = [s \in Screens |-> [c \in Coroutine |-> "off"]]
  /\ faults   = 0

(***************************************************************************)
(* The job's own moves, see JobPipeline                                    *)
(***************************************************************************)
JobMoves(status, pauses) ==
  /\ job' = [status |-> status, pauses |-> pauses]
  /\ UNCHANGED <<stack, tracking, poller, screen, call, faults>>

WorkerPauses ==
  /\ job.status = "processing"
  /\ job.pauses < MaxPauses
  /\ JobMoves("awaiting_captcha", job.pauses + 1)

WorkerSettles ==
  /\ job.status = "processing"
  /\ \E s \in {"completed", "failed"} : JobMoves(s, job.pauses)

TickerExpires ==
  /\ job.status = "awaiting_captcha"
  /\ JobMoves("failed", job.pauses)

(***************************************************************************)
(* Requests                                                                *)
(***************************************************************************)
Outcome == {"ok"} \cup FaultKinds

Charge(outcome) ==
  /\ outcome # "ok" => faults < MaxFaults
  /\ faults' = IF outcome = "ok" THEN faults ELSE faults + 1

(***************************************************************************)
(* The Navigator                                                           *)
(***************************************************************************)
Top    == stack[Len(stack)]
Popped == SubSeq(stack, 1, Len(stack) - 1)

OnTop(route) == stack # <<>> /\ Top = route
OnStack(route) == \E i \in 1 .. Len(stack) : stack[i] = route

Unused == {s \in Screens : screen[s].ctx = "unused"}
NextScreen == CHOOSE s \in Unused : TRUE

\* Wrong: a cancelled captcha screen resumes the poll as well.
PopPolls(result) ==
  /\ stack # <<>>
  /\ stack' = Popped
  /\ \/ /\ Top.kind = "captcha" /\ tracking.mounted
        /\ tracking' = [tracking EXCEPT !.view = IF result THEN "polling" ELSE "awaitingCaptcha"]
        /\ poller' = [poller EXCEPT ![Top.screen] = FreshPoller]
     \/ /\ Top.kind # "captcha" \/ ~tracking.mounted
        /\ UNCHANGED <<tracking, poller>>

\* Navigator.pop takes the top route, whoever calls it.  JobTrackingScreen
\* awaits the captcha screens it pushed and goes on in the same event.
Pop(result) ==
  /\ stack # <<>>
  /\ stack' = Popped
  /\ \/ /\ Top.kind = "captcha" /\ tracking.mounted /\ result
        /\ tracking' = [tracking EXCEPT !.view = "polling"]
        /\ poller' = [poller EXCEPT ![Top.screen] = FreshPoller]
     \/ /\ Top.kind = "captcha" /\ tracking.mounted /\ ~result
        /\ tracking' = [tracking EXCEPT !.view = "awaitingCaptcha"]
        /\ UNCHANGED poller
     \/ /\ Top.kind = "tracking"
        /\ tracking' = [tracking EXCEPT !.answer = IF result THEN "true" ELSE "false"]
        /\ UNCHANGED poller
     \/ /\ Top.kind \in {"home", "dialog"} \/ (Top.kind = "captcha" /\ ~tracking.mounted)
        /\ UNCHANGED <<tracking, poller>>

\* A popped route disposes its screen when its exit animation ends.
DisposeTracking ==
  /\ tracking.mounted
  /\ ~OnStack(Tracking)
  /\ tracking' = [tracking EXCEPT !.mounted = FALSE]
  /\ UNCHANGED <<job, stack, poller, screen, call, faults>>

DisposeScreen(s) ==
  /\ screen[s].mounted
  /\ ~OnStack(Captcha(s))
  /\ screen' = [screen EXCEPT ![s].mounted = FALSE]
  /\ UNCHANGED <<job, stack, tracking, poller, call, faults>>

-----------------------------------------------------------------------------
(***************************************************************************)
(* JobTrackingScreen and pollJobUntilTerminal                              *)
(***************************************************************************)

\* _openCaptchaWebView, for a screen that is mounted: s is the screen pushed.
Push(s) ==
  /\ stack' = Append(stack, Captcha(s))
  /\ screen' = [screen EXCEPT ![s] = OpenedScreen]

\* GET /jobs/{id}: the status the server read travels back to the phone.
PollAnswered(k) ==
  /\ poller[k].pc = "asking"
  /\ \E outcome \in Outcome :
       /\ Charge(outcome)
       /\ poller' = [poller EXCEPT ![k].pc   = "answered",
                                   ![k].seen = IF outcome # "ok" \/ job.status = "none"
                                               THEN "error" ELSE job.status]
  /\ UNCHANGED <<job, stack, tracking, screen, call>>

\* A pending job is asked for again in a second.
PollPending(k) ==
  /\ poller[k].pc = "answered"
  /\ poller[k].seen \in Pending
  /\ poller' = [poller EXCEPT ![k].pc = "sleeping"]
  /\ UNCHANGED <<job, stack, tracking, screen, call, faults>>

\* Wrong: the loop counts no time.
PollAgainForEver(k) ==
  /\ poller[k].pc = "sleeping"
  /\ poller' = [poller EXCEPT ![k].pc = "asking"]
  /\ UNCHANGED <<job, stack, tracking, screen, call, faults>>

\* Wrong: the deadline is looked at only after one more request.
PollPastDeadline(k) ==
  /\ poller[k].pc = "sleeping"
  /\ poller' = [poller EXCEPT ![k].pc = "asking", ![k].count = @ + 1]
  /\ UNCHANGED <<job, stack, tracking, screen, call, faults>>

PollAgain(k) ==
  /\ poller[k].pc = "sleeping"
  /\ poller[k].count < MaxPolls
  /\ poller' = [poller EXCEPT ![k].pc = "asking", ![k].count = @ + 1]
  /\ UNCHANGED <<job, stack, tracking, screen, call, faults>>

\* A poll is over: the screen shows what came of it, unless it is disposed.
PollEnds(k, view, cause) ==
  /\ poller' = [poller EXCEPT ![k] = IdlePoller]
  /\ tracking' = IF tracking.mounted
                 THEN [tracking EXCEPT !.view = view, !.cause = cause] ELSE tracking

\* TimeoutException.  Slow answers may bring the deadline before MaxPolls.
PollTimesOut(k) ==
  /\ poller[k].pc = "sleeping"
  /\ PollEnds(k, "failed", "timeout")
  /\ UNCHANGED <<job, stack, screen, call, faults>>

\* Any other exception, such as a single lost request.
PollFails(k) ==
  /\ poller[k].pc = "answered"
  /\ poller[k].seen = "error"
  /\ PollEnds(k, "failed", "error")
  /\ UNCHANGED <<job, stack, screen, call, faults>>

\* Wrong: whatever ended is taken for a success.
PollSettledIsSuccess(k) ==
  /\ poller[k].pc = "answered"
  /\ poller[k].seen \in {"completed", "failed"}
  /\ PollEnds(k, "completed", "none")
  /\ UNCHANGED <<job, stack, screen, call, faults>>

PollSettled(k) ==
  /\ poller[k].pc = "answered"
  /\ \/ poller[k].seen = "completed" /\ PollEnds(k, "completed", "none")
     \/ poller[k].seen = "failed" /\ PollEnds(k, "failed", "job")
  /\ UNCHANGED <<job, stack, screen, call, faults>>

\* Wrong: the poll goes on behind the captcha screen.
PollAwaitingGoesOn(k) ==
  /\ poller[k].pc = "answered"
  /\ poller[k].seen = "awaiting_captcha"
  /\ poller' = [poller EXCEPT ![k].pc = "sleeping"]
  /\ tracking.mounted
  /\ Unused # {}
  /\ Push(NextScreen)
  /\ tracking' = [tracking EXCEPT !.view = "awaitingCaptcha"]
  /\ UNCHANGED <<job, call, faults>>

\* Wrong: the user is told, and has to open the captcha screen.
PollAwaitingWaits(k) ==
  /\ poller[k].pc = "answered"
  /\ poller[k].seen = "awaiting_captcha"
  /\ PollEnds(k, "awaitingCaptcha", "none")
  /\ UNCHANGED <<job, stack, screen, call, faults>>

\* A paused job opens the captcha screen.
PollAwaiting(k) ==
  /\ poller[k].pc = "answered"
  /\ poller[k].seen = "awaiting_captcha"
  /\ PollEnds(k, "awaitingCaptcha", "none")
  /\ \/ /\ tracking.mounted
        /\ Unused # {}
        /\ Push(NextScreen)
     \/ /\ ~tracking.mounted
        /\ UNCHANGED <<stack, screen>>
  /\ UNCHANGED <<job, call, faults>>

\* "Resolver Captcha".  The guard on Unused leaves a screen for every pause to
\* come, so that no poll is held up by the bound.
TapResolve ==
  /\ OnTop(Tracking)
  /\ tracking.view = "awaitingCaptcha"
  /\ Cardinality(Unused) > MaxPauses - job.pauses
  /\ Push(NextScreen)
  /\ UNCHANGED <<job, tracking, poller, call, faults>>

\* "Ver Cupons" answers true; cancelling, sending again and the system's back
\* button do not.
LeaveTracking ==
  /\ OnTop(Tracking)
  /\ \/ tracking.view = "completed" /\ Pop(TRUE)
     \/ Pop(FALSE)
  /\ UNCHANGED <<job, screen, call, faults>>

-----------------------------------------------------------------------------
(***************************************************************************)
(* CaptchaWebViewScreen                                                    *)
(***************************************************************************)

\* Neither the loop nor onPageFinished does anything then.
Busy(s) == screen[s].resolved \/ screen[s].submitting

\* Where coroutine c goes when the call it made returns, given the screen's
\* state: only the loop goes on.
Returned(c, st) ==
  IF c = "loop" /\ st.mounted /\ ~st.resolved THEN "sleep" ELSE "off"

Continue(s, c, await) == call' = [call EXCEPT ![s][c] = await]

\* _loadContext: GET /jobs/{id}/captcha answers for a paused job only.  The
\* setState of a disposed screen raises, and so does the one in the handler.
LoadContext(s) ==
  /\ screen[s].ctx = "loading"
  /\ \E outcome \in Outcome :
       LET ready == outcome = "ok" /\ job.status = "awaiting_captcha" /\ screen[s].mounted
       IN /\ Charge(outcome)
          /\ screen' = [screen EXCEPT ![s].ctx = IF ready THEN "ready" ELSE "error"]
          /\ Continue(s, "loop", IF ready THEN "sleep" ELSE "off")
  /\ UNCHANGED <<job, stack, tracking, poller>>

\* _onPageFinished, one page at a time, and the start of its content check.
\* The script it awaits in between changes nothing the phone decides on, and
\* _checkForResolvedContent asks again after it.
PageFinished(s) ==
  /\ screen[s].ctx = "ready"
  /\ ~Busy(s)
  /\ call[s]["page"] = "off"
  /\ Continue(s, "page", "check")
  /\ UNCHANGED <<job, stack, tracking, poller, screen, faults>>

\* The loop of _startContentCheckLoop after its delay, and the start of its
\* content check; it, too, awaits a script in between and asks again.
LoopWakes(s) ==
  /\ call[s]["loop"] = "sleep"
  /\ \/ /\ ~screen[s].mounted \/ screen[s].resolved
        /\ Continue(s, "loop", "off")
     \/ /\ screen[s].mounted
        /\ ~Busy(s)
        /\ Continue(s, "loop", "check")
  /\ UNCHANGED <<job, stack, tracking, poller, screen, faults>>

\* Wrong: who found the screen idle before the script ran relies on it.
SubmitUnchecked(s, c) ==
  \/ /\ screen[s].mounted
     /\ screen' = [screen EXCEPT ![s].submitting = TRUE]
     /\ Continue(s, c, "extract")
  \/ /\ ~screen[s].mounted
     /\ Continue(s, c, "off")
     /\ UNCHANGED screen

\* _extractAndSubmitCookies up to its first await.  On a disposed screen its
\* setState raises, which ends the coroutine.
Submit(s, c) ==
  \/ /\ screen[s].submitting
     /\ Continue(s, c, Returned(c, screen[s]))
     /\ UNCHANGED screen
  \/ /\ ~screen[s].submitting
     /\ screen[s].mounted
     /\ screen' = [screen EXCEPT ![s].submitting = TRUE]
     /\ Continue(s, c, "extract")
  \/ /\ ~screen[s].submitting
     /\ ~screen[s].mounted
     /\ Continue(s, c, "off")
     /\ UNCHANGED screen

\* The content check found the receipt, or did not.
Checked(s, c) ==
  /\ call[s][c] = "check"
  /\ \/ Submit(s, c)
     \/ Continue(s, c, Returned(c, screen[s])) /\ UNCHANGED screen
  /\ UNCHANGED <<job, stack, tracking, poller, faults>>

\* "Já resolvi, continuar"
TapContinue(s) ==
  /\ OnTop(Captcha(s))
  /\ screen[s].ctx = "ready"
  /\ ~screen[s].submitting
  /\ Submit(s, "button")
  /\ UNCHANGED <<job, stack, tracking, poller, faults>>

\* The URL, the cookies, the user agent and the page are read; only the
\* cookies can raise.
Extracted(s, c) ==
  /\ call[s][c] = "extract"
  /\ \E await \in {"post", "refused"} : Continue(s, c, await)
  /\ UNCHANGED <<job, stack, tracking, poller, screen, faults>>

\* POST /jobs/{id}/captcha/resume: ResumeCaptcha takes a paused job out of its
\* pause before it answers.
ServerResumes(s, c) ==
  /\ call[s][c] = "post"
  /\ \E outcome \in Outcome :
       LET resumes == job.status = "awaiting_captcha" /\ outcome # "request_lost"
       IN /\ Charge(outcome)
          /\ job' = [job EXCEPT !.status = IF resumes THEN "processing" ELSE @]
          /\ Continue(s, c, IF resumes /\ outcome = "ok" THEN "accepted" ELSE "refused")
  /\ UNCHANGED <<stack, tracking, poller, screen>>

\* Wrong: the flag is cleared although the screen is done.
AcceptedClears(s, c) ==
  LET st == [screen[s] EXCEPT !.resolved = TRUE, !.submitting = FALSE] IN
  /\ call[s][c] = "accepted"
  /\ Continue(s, c, Returned(c, st))
  /\ screen[s].mounted
  /\ screen' = [screen EXCEPT ![s] = st]
  /\ Pop(TRUE)
  /\ UNCHANGED <<job, faults>>

\* The server accepted: the screen pops the top route, which need not be its
\* own.  _isSubmitting stays set.
Accepted(s, c) ==
  LET st == [screen[s] EXCEPT !.resolved = TRUE] IN
  /\ call[s][c] = "accepted"
  /\ \/ /\ screen[s].mounted
        /\ screen' = [screen EXCEPT ![s] = st]
        /\ Continue(s, c, Returned(c, st))
        /\ Pop(TRUE)
     \/ /\ ~screen[s].mounted
        /\ Continue(s, c, Returned(c, screen[s]))
        /\ UNCHANGED <<stack, tracking, poller, screen>>
  /\ UNCHANGED <<job, faults>>

Dialogs == {i \in 1 .. Len(stack) : stack[i].kind = "dialog"}

\* Wrong: the error is shown whether the screen is there or not.
RefusedUnmounted(s, c) ==
  /\ call[s][c] = "refused"
  /\ Cardinality(Dialogs) < MaxDialogs
  /\ screen' = [screen EXCEPT ![s].submitting = FALSE]
  /\ stack' = Append(stack, Dialog(s))
  /\ Continue(s, c, Returned(c, screen[s]))
  /\ UNCHANGED <<job, tracking, poller, faults>>

\* The submission failed: an error dialog, and the loop may submit again
\* behind it.
Refused(s, c) ==
  /\ call[s][c] = "refused"
  /\ \/ /\ screen[s].mounted
        /\ Cardinality(Dialogs) < MaxDialogs
        /\ screen' = [screen EXCEPT ![s].submitting = FALSE]
        /\ stack' = Append(stack, Dialog(s))
     \/ /\ ~screen[s].mounted
        /\ UNCHANGED <<screen, stack>>
  /\ Continue(s, c, Returned(c, screen[s]))
  /\ UNCHANGED <<job, tracking, poller, faults>>

\* "Cancelar" of the dialog, and the back button.
DialogCancel(s) ==
  /\ OnTop(Dialog(s))
  /\ Pop(FALSE)
  /\ UNCHANGED <<job, screen, call, faults>>

\* "Tentar novamente" closes the dialog and starts a submission.
DialogRetry(s) ==
  /\ OnTop(Dialog(s))
  /\ Pop(TRUE)
  /\ \/ /\ screen[s].submitting
        /\ UNCHANGED <<screen, call>>
     \/ /\ ~screen[s].submitting
        /\ Submit(s, "button")
  /\ UNCHANGED <<job, faults>>

\* The close button, and the back button.
CancelCaptcha(s) ==
  /\ OnTop(Captcha(s))
  /\ Pop(FALSE)
  /\ UNCHANGED <<job, screen, call, faults>>

-----------------------------------------------------------------------------
JobStep  == WorkerPauses \/ WorkerSettles \/ TickerExpires
PollStep(k) ==
  \/ PollAnswered(k) \/ PollPending(k) \/ PollAgain(k) \/ PollTimesOut(k)
  \/ PollFails(k) \/ PollSettled(k) \/ PollAwaiting(k)
ScreenStep(s) ==
  \/ LoadContext(s) \/ PageFinished(s) \/ LoopWakes(s) \/ DisposeScreen(s)
  \/ \E c \in Coroutine :
       \/ Checked(s, c) \/ Extracted(s, c) \/ ServerResumes(s, c) \/ Accepted(s, c) \/ Refused(s, c)
UserStep ==
  \/ TapResolve \/ LeaveTracking
  \/ \E s \in Screens : TapContinue(s) \/ DialogCancel(s) \/ DialogRetry(s) \/ CancelCaptcha(s)

Next ==
  \/ JobStep \/ UserStep \/ DisposeTracking
  \/ \E k \in Pollers : PollStep(k)
  \/ \E s \in Screens : ScreenStep(s)

Spec == Init /\ [][Next]_vars

\* Timers fire and every request is answered or fails in the end.  Nothing is
\* assumed of the user, the worker, the WebView or a solution of the captcha.
Fairness == \A k \in Pollers : WF_vars(PollStep(k))

FairSpec == Spec /\ Fairness

(***************************************************************************)
(* Properties                                                              *)
(***************************************************************************)

\* Types of the two screens' fields and of what their coroutines await; a poll
\* never asks more often than its deadline allows.
TypeOK ==
  /\ job \in [status: Status, pauses: 0 .. MaxPauses]
  /\ stack \in Seq(Route)
  /\ tracking \in TrackingState
  /\ poller \in [Pollers -> PollerState]
  /\ screen \in [Screens -> ScreenState]
  /\ call \in [Screens -> [Coroutine -> Await]]
  /\ faults \in 0 .. MaxFaults

Submits(s) == {c \in Coroutine : call[s][c] \in Submitting}

\* The loop, a finished page and the user's buttons may all decide to submit,
\* each from what it saw before an await; a screen still never runs
\* _extractAndSubmitCookies twice at a time.
OneSubmission == \A s \in Screens : Cardinality(Submits(s)) <= 1

\* A screen whose submission was accepted never submits again, although its
\* loop and its pages run on for a while.
AcceptedIsLast == \A s \in Screens : screen[s].resolved => Submits(s) = {}

Polling == {k \in Pollers : poller[k].pc # "off"}

\* initState, and each captcha screen that was resolved, start a poll from
\* nested coroutines; two polls of one job never run at a time, and none runs
\* behind an open captcha screen.
OnePoll ==
  /\ Cardinality(Polling) <= 1
  /\ Polling # {} /\ tracking.mounted => tracking.view = "polling"
  /\ \A s \in Screens : OnStack(Captcha(s)) /\ OnStack(Tracking) => Polling = {}

\* However many polls and buttons open captcha screens, there is never more
\* than one of them to solve.
OneCaptchaOpen ==
  Cardinality({i \in 1 .. Len(stack) : stack[i].kind = "captcha"}) <= 1

\* What the user reads about the job is true and stays true, although the
\* status it was taken from was read earlier: a completed or failed job the
\* screen shows has that verdict.
VerdictShownIsTrue ==
  /\ tracking.view = "completed" => job.status = "completed"
  /\ tracking.view = "failed" /\ tracking.cause = "job" => job.status = "failed"

\* A disposed screen opens nothing, whatever its coroutines still learn: a
\* dialog belongs to a mounted captcha screen when it appears, a captcha
\* screen to a mounted tracking screen.
DisposedScreensOpenNothing ==
  [][\A r \in {Dialog(s) : s \in Screens} \cup {Captcha(s) : s \in Screens} :
       Len(stack') > Len(stack) /\ stack'[Len(stack')] = r =>
         IF r.kind = "dialog" THEN screen[r.screen].mounted ELSE tracking.mounted]_vars

\* While the tracking screen waits for the backend it does not wait for ever:
\* every poll ends, with the job, an error or the deadline.
PollsEnd == Polling # {} ~> Polling = {}

\* A pause the phone is polling for reaches the user: a captcha screen opens,
\* unless the pause ends first, the user leaves, or the screen reports an error.
PauseReachesUser ==
  (job.status = "awaiting_captcha" /\ tracking.view = "polling") ~>
    \/ \E s \in Screens : OnStack(Captcha(s))
    \/ job.status # "awaiting_captcha"
    \/ tracking.view = "failed"
    \/ ~OnStack(Tracking)

\* mobile-captcha-webview/spec.md:19-21: after an error the user decides.  No
\* error dialog goes away except by the user's hand.
DialogWaitsForUser ==
  [][\A s \in Screens :
       OnTop(Dialog(s)) /\ Len(stack') < Len(stack) => DialogCancel(s) \/ DialogRetry(s)]_vars
=============================================================================
