------------------------- MODULE JobTrackingProofs -------------------------
(***************************************************************************)
(* Theorems about JobTracking and their proofs, for any number of pauses,  *)
(* captcha screens, dialogs, polls and lost requests.                      *)
(*                                                                         *)
(*   1. types:       Spec => []TypeOK;                                     *)
(*   2. submissions: Spec => []OneSubmission and []AcceptedIsLast;         *)
(*   3. polls:       Spec => []OnePoll, []OneCaptchaOpen and               *)
(*                   DisposedScreensOpenNothing;                           *)
(*   4. verdicts:    Spec => []VerdictShownIsTrue.                         *)
(***************************************************************************)
EXTENDS JobTracking, FiniteSetTheorems, TLAPS

-----------------------------------------------------------------------------
(***************************************************************************)
(* 1. Types                                                                *)
(***************************************************************************)

\* The routes under the top one, and a route put on top.
LEMMA Stacks ==
  ASSUME NEW q \in Seq(Route)
  PROVE  /\ \A r \in Route : Append(q, r) \in Seq(Route)
         /\ q # <<>> => /\ SubSeq(q, 1, Len(q) - 1) \in Seq(Route)
                        /\ q[Len(q)] \in Route
  OBVIOUS

\* Home, Tracking, Captcha(s) and Dialog(s) are routes.
LEMMA RoutesAreRoutes ==
  /\ Home \in Route /\ Tracking \in Route
  /\ \A s \in Screens : Captcha(s) \in Route /\ Dialog(s) \in Route
  BY DEF Route, Home, Tracking, Captcha, Dialog

\* A screen is pushed for one that was not opened before.
LEMMA NextScreenIsUnused ==
  ASSUME Unused # {}
  PROVE  NextScreen \in Screens /\ screen[NextScreen].ctx = "unused"
  BY DEF Unused, NextScreen

\* Pop keeps the types of the variables it changes.
LEMMA PopType ==
  ASSUME TypeOK, NEW result \in BOOLEAN, Pop(result)
  PROVE  /\ stack' \in Seq(Route)
         /\ tracking' \in TrackingState
         /\ poller' \in [Pollers -> PollerState]
<1>1. stack' \in Seq(Route)
  BY Stacks DEF TypeOK, Pop, Popped
<1>2. tracking' \in TrackingState
  BY DEF TypeOK, Pop, TrackingState
<1>3. FreshPoller \in PollerState
  BY BoundsAssumption DEF FreshPoller, PollerState, Status
<1>4. poller' \in [Pollers -> PollerState]
  BY <1>3 DEF TypeOK, Pop
<1>5. QED
  BY <1>1, <1>2, <1>4

\* PollEnds keeps the types of the variables it changes.
LEMMA PollEndsType ==
  ASSUME TypeOK, NEW k \in Pollers,
         NEW view \in {"polling", "awaitingCaptcha", "completed", "failed"},
         NEW cause \in {"none", "job", "timeout", "error"},
         PollEnds(k, view, cause)
  PROVE  /\ tracking' \in TrackingState
         /\ poller' \in [Pollers -> PollerState]
<1>1. IdlePoller \in PollerState
  BY BoundsAssumption DEF IdlePoller, PollerState, Status
<1>2. QED
  BY <1>1 DEF TypeOK, PollEnds, TrackingState

\* Push keeps the types of the variables it changes.
LEMMA PushType ==
  ASSUME TypeOK, NEW s \in Screens, Push(s)
  PROVE  stack' \in Seq(Route) /\ screen' \in [Screens -> ScreenState]
<1>1. OpenedScreen \in ScreenState
  BY DEF OpenedScreen, UnusedScreen, ScreenState
<1>2. QED
  BY <1>1, Stacks, RoutesAreRoutes DEF TypeOK, Push

\* Charge keeps the count of faults within its bound.
LEMMA ChargeType ==
  ASSUME TypeOK, NEW outcome, Charge(outcome)
  PROVE  faults' \in 0 .. MaxFaults
  BY BoundsAssumption DEF TypeOK, Charge

\* A coroutine's next await.
LEMMA ContinueType ==
  ASSUME TypeOK, NEW s \in Screens, NEW c \in Coroutine, NEW await \in Await,
         Continue(s, c, await)
  PROVE  call' \in [Screens -> [Coroutine -> Await]]
  BY DEF TypeOK, Continue

LEMMA ReturnedType ==
  ASSUME NEW c, NEW st
  PROVE  Returned(c, st) \in Await /\ Returned(c, st) \notin Submitting
  BY DEF Returned, Await, Submitting

\* The start of a submission keeps the types of the variables it changes.
LEMMA SubmitType ==
  ASSUME TypeOK, NEW s \in Screens, NEW c \in Coroutine, Submit(s, c)
  PROVE  /\ screen' \in [Screens -> ScreenState]
         /\ call' \in [Screens -> [Coroutine -> Await]]
<1>1. screen' \in [Screens -> ScreenState]
  BY ZenonT(60) DEF TypeOK, Submit, ScreenState
<1>2. PICK await \in Await : Continue(s, c, await)
  BY ReturnedType DEF Submit, Await, Submitting
<1>3. QED
  BY <1>1, <1>2, ContinueType

\* Every action but the ones of the user keeps the types.
LEMMA PollStepType ==
  ASSUME TypeOK, NEW k \in Pollers, PollStep(k)
  PROVE  TypeOK'
<1>1. CASE PollAnswered(k)
  <2>1. PICK outcome \in Outcome :
          /\ Charge(outcome)
          /\ poller' = [poller EXCEPT ![k].pc = "answered",
                          ![k].seen = IF outcome # "ok" \/ job.status = "none"
                                      THEN "error" ELSE job.status]
    BY <1>1 DEF PollAnswered
  <2>2. poller' \in [Pollers -> PollerState]
    BY <2>1, ZenonT(60) DEF TypeOK, PollerState
  <2>3. QED
    BY <1>1, <2>1, <2>2, ChargeType DEF TypeOK, PollAnswered
<1>2. CASE PollPending(k)
  <2>1. poller' \in [Pollers -> PollerState]
    BY <1>2 DEF TypeOK, PollPending, PollerState
  <2>2. QED
    BY <1>2, <2>1 DEF TypeOK, PollPending
<1>3. CASE PollAgain(k)
  <2>1. poller' \in [Pollers -> PollerState]
    BY <1>3, BoundsAssumption, SMTT(30) DEF TypeOK, PollAgain, PollerState
  <2>2. QED
    BY <1>3, <2>1 DEF TypeOK, PollAgain
<1>4. CASE PollTimesOut(k)
  BY <1>4, PollEndsType DEF TypeOK, PollTimesOut
<1>5. CASE PollFails(k)
  BY <1>5, PollEndsType DEF TypeOK, PollFails
<1>6. CASE PollSettled(k)
  BY <1>6, PollEndsType DEF TypeOK, PollSettled
<1>7. CASE PollAwaiting(k)
  BY <1>7, PollEndsType, PushType, NextScreenIsUnused DEF TypeOK, PollAwaiting
<1>8. QED
  BY <1>1, <1>2, <1>3, <1>4, <1>5, <1>6, <1>7 DEF PollStep

\* TapResolve finds an unused screen.
LEMMA TapResolveHasScreen ==
  ASSUME TypeOK, TapResolve
  PROVE  Unused # {}
<1>1. Unused = {} => Cardinality(Unused) = 0
  BY FS_EmptySet
<1>2. PICK n \in Nat : n = MaxPauses - job.pauses
  BY BoundsAssumption DEF TypeOK
<1>3. Cardinality(Unused) > n
  BY <1>2 DEF TapResolve
<1>4. QED
  BY <1>1, <1>3

LEMMA UserStepType ==
  ASSUME TypeOK, UserStep
  PROVE  TypeOK'
<1>1. CASE TapResolve
  <2>1. Unused # {}
    BY <1>1, TapResolveHasScreen
  <2>2. QED
    BY <1>1, <2>1, PushType, NextScreenIsUnused DEF TypeOK, TapResolve
<1>2. CASE LeaveTracking
  BY <1>2, PopType DEF TypeOK, LeaveTracking
<1>3. ASSUME NEW s \in Screens, TapContinue(s) PROVE TypeOK'
  BY <1>3, SubmitType DEF TypeOK, TapContinue, Coroutine
<1>4. ASSUME NEW s \in Screens, DialogCancel(s) PROVE TypeOK'
  BY <1>4, PopType DEF TypeOK, DialogCancel
<1>5. ASSUME NEW s \in Screens, DialogRetry(s) PROVE TypeOK'
  <2>1. /\ screen' \in [Screens -> ScreenState]
        /\ call' \in [Screens -> [Coroutine -> Await]]
    BY <1>5, SubmitType DEF TypeOK, DialogRetry, Coroutine
  <2>2. QED
    BY <1>5, <2>1, PopType DEF TypeOK, DialogRetry
<1>6. ASSUME NEW s \in Screens, CancelCaptcha(s) PROVE TypeOK'
  BY <1>6, PopType DEF TypeOK, CancelCaptcha
<1>7. QED
  BY <1>1, <1>2, <1>3, <1>4, <1>5, <1>6 DEF UserStep

LEMMA ScreenStepType ==
  ASSUME TypeOK, NEW s \in Screens, ScreenStep(s)
  PROVE  TypeOK'
<1> USE DEF Await, Submitting, Coroutine
<1>1. CASE LoadContext(s)
  <2>1. PICK outcome \in Outcome, ready \in BOOLEAN :
          /\ Charge(outcome)
          /\ screen' = [screen EXCEPT ![s].ctx = IF ready THEN "ready" ELSE "error"]
          /\ Continue(s, "loop", IF ready THEN "sleep" ELSE "off")
    BY <1>1 DEF LoadContext
  <2>2. screen' \in [Screens -> ScreenState]
    BY <2>1 DEF TypeOK, ScreenState
  <2>3. call' \in [Screens -> [Coroutine -> Await]]
    BY <2>1 DEF TypeOK, Continue
  <2>4. QED
    BY <1>1, <2>1, <2>2, <2>3, ChargeType DEF TypeOK, LoadContext
<1>2. CASE PageFinished(s)
  BY <1>2, ContinueType DEF TypeOK, PageFinished
<1>3. CASE LoopWakes(s)
  BY <1>3, ContinueType DEF TypeOK, LoopWakes
<1>4. CASE DisposeScreen(s)
  <2>1. screen' \in [Screens -> ScreenState]
    BY <1>4 DEF TypeOK, DisposeScreen, ScreenState
  <2>2. QED
    BY <1>4, <2>1 DEF TypeOK, DisposeScreen
<1>5. ASSUME NEW c \in Coroutine, Checked(s, c) PROVE TypeOK'
  <2>1. CASE Submit(s, c)
    BY <1>5, <2>1, SubmitType DEF TypeOK, Checked
  <2>2. CASE Continue(s, c, Returned(c, screen[s])) /\ UNCHANGED screen
    BY <1>5, <2>2, ContinueType, ReturnedType DEF TypeOK, Checked
  <2>3. QED
    BY <1>5, <2>1, <2>2 DEF Checked
<1>6. ASSUME NEW c \in Coroutine, Extracted(s, c) PROVE TypeOK'
  BY <1>6, ContinueType DEF TypeOK, Extracted
<1>7. ASSUME NEW c \in Coroutine, ServerResumes(s, c) PROVE TypeOK'
  <2>1. PICK outcome \in Outcome, resumes \in BOOLEAN :
          /\ Charge(outcome)
          /\ job' = [job EXCEPT !.status = IF resumes THEN "processing" ELSE @]
          /\ Continue(s, c, IF resumes /\ outcome = "ok" THEN "accepted" ELSE "refused")
    BY <1>7 DEF ServerResumes
  <2>2. job' \in [status: Status, pauses: 0 .. MaxPauses]
    BY <2>1 DEF TypeOK, Status
  <2>3. call' \in [Screens -> [Coroutine -> Await]]
    BY <2>1, ContinueType
  <2>4. QED
    BY <1>7, <2>1, <2>2, <2>3, ChargeType DEF TypeOK, ServerResumes
<1>8. ASSUME NEW c \in Coroutine, Accepted(s, c) PROVE TypeOK'
  <2>1. PICK st : Continue(s, c, Returned(c, st))
    BY <1>8 DEF Accepted
  <2>2. call' \in [Screens -> [Coroutine -> Await]]
    BY <2>1, ContinueType, ReturnedType
  <2>3. screen' \in [Screens -> ScreenState]
    <3>1. [screen[s] EXCEPT !.resolved = TRUE] \in ScreenState
      BY ZenonT(60) DEF TypeOK, ScreenState
    <3>2. QED
      BY <1>8, <3>1 DEF TypeOK, Accepted
  <2>4. QED
    BY <1>8, <2>2, <2>3, PopType DEF TypeOK, Accepted
<1>9. ASSUME NEW c \in Coroutine, Refused(s, c) PROVE TypeOK'
  <2>1. call' \in [Screens -> [Coroutine -> Await]]
    BY <1>9, ContinueType, ReturnedType DEF Refused
  <2>2. CASE stack' = Append(stack, Dialog(s)) /\ screen' = [screen EXCEPT ![s].submitting = FALSE]
    <3>1. screen' \in [Screens -> ScreenState]
      BY <2>2 DEF TypeOK, ScreenState
    <3>2. stack' \in Seq(Route)
      BY <2>2, Stacks, RoutesAreRoutes DEF TypeOK
    <3>3. QED
      BY <1>9, <2>1, <3>1, <3>2 DEF TypeOK, Refused
  <2>3. CASE UNCHANGED <<screen, stack>>
    BY <1>9, <2>1, <2>3 DEF TypeOK, Refused
  <2>4. QED
    BY <1>9, <2>2, <2>3 DEF Refused
<1>10. QED
  BY <1>1, <1>2, <1>3, <1>4, <1>5, <1>6, <1>7, <1>8, <1>9 DEF ScreenStep

LEMMA InitType ==
  ASSUME Init
  PROVE  TypeOK
<1>1. job \in [status: Status, pauses: 0 .. MaxPauses]
  BY BoundsAssumption DEF Init, Status
<1>2. stack \in Seq(Route)
  BY RoutesAreRoutes DEF Init
<1>3. tracking \in TrackingState
  BY DEF Init, TrackingState
<1>4. poller \in [Pollers -> PollerState]
  BY BoundsAssumption DEF Init, PollerState, FreshPoller, IdlePoller, Status
<1>5. screen \in [Screens -> ScreenState]
  BY DEF Init, UnusedScreen, ScreenState
<1>6. call \in [Screens -> [Coroutine -> Await]]
  BY DEF Init, Await
<1>7. faults \in 0 .. MaxFaults
  BY BoundsAssumption DEF Init
<1>8. QED
  BY <1>1, <1>2, <1>3, <1>4, <1>5, <1>6, <1>7 DEF TypeOK

\* The variables of the two screens, of the job and of the requests keep their
\* types, and no poll asks more often than its deadline allows.
THEOREM TrackingTypes == Spec => []TypeOK
<1>1. Init => TypeOK
  BY InitType
<1>2. TypeOK /\ [Next]_vars => TypeOK'
  <2> SUFFICES ASSUME TypeOK, [Next]_vars PROVE TypeOK'
    OBVIOUS
  <2>1. CASE JobStep
    <3>1. PICK s \in Status, n \in 0 .. MaxPauses : JobMoves(s, n)
      BY <2>1, BoundsAssumption
      DEF TypeOK, JobStep, WorkerPauses, WorkerSettles, TickerExpires, Status
    <3>2. QED
      BY <3>1 DEF TypeOK, JobMoves
  <2>2. CASE DisposeTracking
    BY <2>2 DEF TypeOK, DisposeTracking, TrackingState
  <2>3. CASE UNCHANGED vars
    BY <2>3 DEF TypeOK, vars
  <2>4. QED
    BY <2>1, <2>2, <2>3, UserStepType, PollStepType, ScreenStepType DEF Next
<1>3. QED
  BY <1>1, <1>2, PTL DEF Spec

-----------------------------------------------------------------------------
(***************************************************************************)
(* 2. Submissions                                                          *)
(*                                                                         *)
(* OneSubmission says nothing of _isSubmitting, on which it rests: the     *)
(* flag is set before the first await and cleared only by the submission   *)
(* that set it, and an accepted submission leaves it set.                  *)
(***************************************************************************)

\* A screen in state st with coroutines cl.
Sound(st, cl) ==
  /\ st.ctx # "ready" => \A c \in Coroutine : cl[c] = "off"
  /\ st.resolved => st.submitting
  /\ \A c \in Coroutine : cl[c] \in Submitting => st.submitting /\ ~st.resolved
  /\ \A c, d \in Coroutine : cl[c] \in Submitting /\ cl[d] \in Submitting => c = d

\* Only a screen whose page was loaded reports errors.
DialogsOfReadyScreens ==
  \A i \in 1 .. Len(stack) :
    stack[i].kind = "dialog" =>
      stack[i].screen \in Screens /\ screen[stack[i].screen].ctx = "ready"

SubmitInv ==
  /\ TypeOK
  /\ \A s \in Screens : Sound(screen[s], call[s])
  /\ DialogsOfReadyScreens

\* A coroutine starts to submit on an idle screen.
LEMMA StartIsSound ==
  ASSUME NEW st \in ScreenState, NEW cl \in [Coroutine -> Await], NEW c \in Coroutine,
         Sound(st, cl), st.ctx = "ready", ~st.submitting
  PROVE  Sound([st EXCEPT !.submitting = TRUE], [cl EXCEPT ![c] = "extract"])
  BY DEF Sound, ScreenState, Submitting, Await

\* A coroutine goes on without submitting.
LEMMA MoveIsSound ==
  ASSUME NEW st \in ScreenState, NEW cl \in [Coroutine -> Await], NEW c \in Coroutine,
         NEW await \in Await \ Submitting,
         Sound(st, cl), st.ctx = "ready" \/ await = "off"
  PROVE  Sound(st, [cl EXCEPT ![c] = await])
  BY DEF Sound, ScreenState, Submitting, Await

\* A submission goes on, is accepted, or is refused.
LEMMA SubmissionIsSound ==
  ASSUME NEW st \in ScreenState, NEW cl \in [Coroutine -> Await], NEW c \in Coroutine,
         NEW next \in Submitting, NEW await \in Await \ Submitting,
         Sound(st, cl), cl[c] \in Submitting
  PROVE  /\ st.ctx = "ready"
         /\ Sound(st, [cl EXCEPT ![c] = next])
         /\ Sound([st EXCEPT !.resolved = TRUE], [cl EXCEPT ![c] = await])
         /\ Sound([st EXCEPT !.submitting = FALSE], [cl EXCEPT ![c] = await])
<1>1. st.ctx = "ready"
  BY DEF Sound, Submitting
<1>2. Sound(st, [cl EXCEPT ![c] = next])
  BY <1>1 DEF Sound, ScreenState, Submitting, Await
<1>3. Sound([st EXCEPT !.resolved = TRUE], [cl EXCEPT ![c] = await])
  BY <1>1 DEF Sound, ScreenState, Submitting, Await
<1>4. Sound([st EXCEPT !.submitting = FALSE], [cl EXCEPT ![c] = await])
  BY <1>1 DEF Sound, ScreenState, Submitting, Await
<1>5. QED
  BY <1>1, <1>2, <1>3, <1>4

\* Popping a route, or pushing one that is no dialog or one of a ready screen,
\* keeps the dialogs with their screens, as no screen stops being ready.
LEMMA DialogsKeepScreens ==
  ASSUME SubmitInv,
         \A t \in Screens : screen[t].ctx = "ready" => screen'[t].ctx = "ready",
         \/ stack' = stack
         \/ stack # <<>> /\ stack' = Popped
         \/ \E s \in Screens : stack' = Append(stack, Captcha(s))
         \/ \E s \in Screens : stack' = Append(stack, Dialog(s)) /\ screen[s].ctx = "ready"
  PROVE  DialogsOfReadyScreens'
<1> SUFFICES ASSUME NEW i \in 1 .. Len(stack'), stack'[i].kind = "dialog"
             PROVE  stack'[i].screen \in Screens /\ screen'[stack'[i].screen].ctx = "ready"
  BY DEF DialogsOfReadyScreens
<1>1. stack \in Seq(Route) /\ Len(stack) \in Nat
  BY DEF SubmitInv, TypeOK
<1>2. CASE i \in 1 .. Len(stack) /\ stack'[i] = stack[i]
  BY <1>2 DEF SubmitInv, DialogsOfReadyScreens
<1>3. CASE stack' = stack
  BY <1>2, <1>3
<1>4. CASE stack # <<>> /\ stack' = Popped
  <2>1. Len(stack') = Len(stack) - 1 /\ stack'[i] = stack[i]
    BY <1>1, <1>4 DEF Popped
  <2>2. QED
    BY <1>1, <1>2, <2>1
<1>5. ASSUME NEW r \in Route, stack' = Append(stack, r)
      PROVE  \/ i \in 1 .. Len(stack) /\ stack'[i] = stack[i]
             \/ stack'[i] = r
  BY <1>1, <1>5
<1>6. CASE \E s \in Screens : stack' = Append(stack, Captcha(s))
  <2>1. PICK s \in Screens : stack' = Append(stack, Captcha(s))
    BY <1>6
  <2>2. QED
    BY <1>2, <1>5, <2>1, RoutesAreRoutes DEF Captcha
<1>7. CASE \E s \in Screens : stack' = Append(stack, Dialog(s)) /\ screen[s].ctx = "ready"
  <2>1. PICK s \in Screens : stack' = Append(stack, Dialog(s)) /\ screen[s].ctx = "ready"
    BY <1>7
  <2>2. Dialog(s).screen = s
    BY DEF Dialog
  <2>3. QED
    BY <1>2, <1>5, <2>1, <2>2, RoutesAreRoutes
<1>8. QED
  BY <1>3, <1>4, <1>6, <1>7

\* A step that leaves every screen and its coroutines alone.
LEMMA ScreensAtRest ==
  ASSUME SubmitInv, TypeOK', UNCHANGED <<screen, call>>,
         stack' = stack \/ (stack # <<>> /\ stack' = Popped)
  PROVE  SubmitInv'
<1>1. DialogsOfReadyScreens'
  BY DialogsKeepScreens
<1>2. QED
  BY <1>1 DEF SubmitInv

\* A captcha screen is pushed.
LEMMA PushIsSound ==
  ASSUME SubmitInv, TypeOK', Unused # {}, Push(NextScreen), UNCHANGED call
  PROVE  SubmitInv'
<1> DEFINE s == NextScreen
<1>1. s \in Screens /\ screen[s].ctx = "unused"
  BY NextScreenIsUnused
<1>2. OpenedScreen \in ScreenState
  BY DEF OpenedScreen, UnusedScreen, ScreenState
<1>3. Sound(OpenedScreen, call[s])
  <2>1. \A c \in Coroutine : call[s][c] = "off"
    BY <1>1 DEF SubmitInv, Sound
  <2>2. ~OpenedScreen.submitting /\ ~OpenedScreen.resolved
    BY DEF OpenedScreen, UnusedScreen
  <2>3. QED
    BY <2>1, <2>2 DEF Sound, Submitting
<1>4. \A t \in Screens : Sound(screen'[t], call'[t])
  BY <1>1, <1>3 DEF SubmitInv, TypeOK, Push
<1>5. DialogsOfReadyScreens'
  <2>1. \A t \in Screens : screen[t].ctx = "ready" => screen'[t].ctx = "ready"
    BY <1>1 DEF SubmitInv, TypeOK, Push
  <2>2. QED
    BY <1>1, <2>1, DialogsKeepScreens DEF Push
<1>6. QED
  BY <1>4, <1>5 DEF SubmitInv

\* _extractAndSubmitCookies is called by a coroutine that is not submitting.
LEMMA SubmitIsSound ==
  ASSUME SubmitInv, TypeOK', NEW s \in Screens, NEW c \in Coroutine,
         Submit(s, c), screen[s].ctx = "ready",
         call[s][c] \notin Submitting,
         stack' = stack \/ (stack # <<>> /\ stack' = Popped)
  PROVE  SubmitInv'
<1> DEFINE st == screen[s]
           cl == call[s]
<1>1. st \in ScreenState /\ cl \in [Coroutine -> Await] /\ Sound(st, cl)
  BY DEF SubmitInv, TypeOK
<1>2. CASE st.submitting \/ ~st.mounted
  <2>1. PICK await \in Await \ Submitting : Continue(s, c, await) /\ UNCHANGED screen
    BY <1>2, ReturnedType DEF Submit, Await, Submitting
  <2>2. Sound(st, [cl EXCEPT ![c] = await])
    BY <1>1, <2>1, MoveIsSound
  <2>3. \A t \in Screens : Sound(screen'[t], call'[t])
    BY <2>1, <2>2 DEF SubmitInv, TypeOK, Continue
  <2>4. DialogsOfReadyScreens'
    BY <2>1, DialogsKeepScreens
  <2>5. QED
    BY <2>3, <2>4 DEF SubmitInv
<1>3. CASE ~st.submitting /\ st.mounted
  <2>1. screen' = [screen EXCEPT ![s].submitting = TRUE] /\ Continue(s, c, "extract")
    BY <1>3 DEF Submit
  <2>2. Sound([st EXCEPT !.submitting = TRUE], [cl EXCEPT ![c] = "extract"])
    BY <1>1, <1>3, StartIsSound
  <2>3. \A t \in Screens : Sound(screen'[t], call'[t])
    BY <2>1, <2>2 DEF SubmitInv, TypeOK, Continue
  <2>4. \A t \in Screens : screen[t].ctx = "ready" => screen'[t].ctx = "ready"
    BY <2>1 DEF SubmitInv, TypeOK, ScreenState
  <2>5. DialogsOfReadyScreens'
    BY <2>4, DialogsKeepScreens
  <2>6. QED
    BY <2>3, <2>5 DEF SubmitInv
<1>4. QED
  BY <1>2, <1>3

\* A step of coroutine c of screen s, which becomes st.
LEMMA CoroutineMoves ==
  ASSUME SubmitInv, TypeOK', NEW s \in Screens, NEW c \in Coroutine,
         NEW st \in ScreenState, NEW await \in Await,
         screen' = [screen EXCEPT ![s] = st], Continue(s, c, await),
         Sound(st, [call[s] EXCEPT ![c] = await]),
         screen[s].ctx = "ready" => st.ctx = "ready",
         \/ stack' = stack
         \/ stack # <<>> /\ stack' = Popped
         \/ stack' = Append(stack, Dialog(s)) /\ screen[s].ctx = "ready"
  PROVE  SubmitInv'
<1>1. \A t \in Screens : Sound(screen'[t], call'[t])
  BY DEF SubmitInv, TypeOK, Continue
<1>2. \A t \in Screens : screen[t].ctx = "ready" => screen'[t].ctx = "ready"
  BY DEF SubmitInv, TypeOK
<1>3. DialogsOfReadyScreens'
  BY <1>2, DialogsKeepScreens
<1>4. QED
  BY <1>1, <1>3 DEF SubmitInv

LEMMA PollStepSubmits ==
  ASSUME SubmitInv, TypeOK', NEW k \in Pollers, PollStep(k)
  PROVE  SubmitInv'
<1>1. CASE PollAwaiting(k) /\ tracking.mounted
  BY <1>1, PushIsSound DEF PollAwaiting
<1>2. CASE PollAwaiting(k) /\ ~tracking.mounted
  BY <1>2, ScreensAtRest DEF PollAwaiting
<1>3. CASE ~PollAwaiting(k)
  BY <1>3, ScreensAtRest
  DEF PollStep, PollAnswered, PollPending, PollAgain, PollTimesOut, PollFails, PollSettled
<1>4. QED
  BY <1>1, <1>2, <1>3

\* No coroutine of an idle screen submits.
LEMMA IdleScreens ==
  ASSUME SubmitInv, NEW s \in Screens, ~screen[s].submitting, NEW c \in Coroutine
  PROVE  call[s][c] \notin Submitting
  BY DEF SubmitInv, Sound

LEMMA UserStepSubmits ==
  ASSUME SubmitInv, TypeOK', UserStep
  PROVE  SubmitInv'
<1>1. CASE TapResolve
  <2>1. TypeOK
    BY DEF SubmitInv
  <2>2. Unused # {}
    BY <1>1, <2>1, TapResolveHasScreen
  <2>3. QED
    BY <1>1, <2>2, PushIsSound DEF TapResolve
<1>2. CASE LeaveTracking
  BY <1>2, ScreensAtRest DEF LeaveTracking, Pop
<1>3. ASSUME NEW s \in Screens, TapContinue(s) PROVE SubmitInv'
  BY <1>3, IdleScreens, SubmitIsSound DEF TapContinue, Coroutine
<1>4. ASSUME NEW s \in Screens, DialogCancel(s) PROVE SubmitInv'
  BY <1>4, ScreensAtRest DEF DialogCancel, Pop
<1>5. ASSUME NEW s \in Screens, DialogRetry(s) PROVE SubmitInv'
  <2>1. stack # <<>> /\ stack' = Popped
    BY <1>5 DEF DialogRetry, Pop
  <2>2. screen[s].ctx = "ready"
    <3>1. stack \in Seq(Route) /\ stack # <<>> /\ stack[Len(stack)] = Dialog(s)
      BY <1>5 DEF SubmitInv, TypeOK, DialogRetry, OnTop, Top
    <3>2. Len(stack) \in 1 .. Len(stack)
      BY <3>1
    <3>3. Dialog(s).kind = "dialog" /\ Dialog(s).screen = s
      BY DEF Dialog
    <3>4. QED
      BY <3>1, <3>2, <3>3 DEF SubmitInv, DialogsOfReadyScreens
  <2>3. CASE screen[s].submitting
    BY <1>5, <2>1, <2>3, ScreensAtRest DEF DialogRetry
  <2>4. CASE ~screen[s].submitting
    BY <1>5, <2>1, <2>2, <2>4, IdleScreens, SubmitIsSound DEF DialogRetry, Coroutine
  <2>5. QED
    BY <2>3, <2>4
<1>6. ASSUME NEW s \in Screens, CancelCaptcha(s) PROVE SubmitInv'
  BY <1>6, ScreensAtRest DEF CancelCaptcha, Pop
<1>7. QED
  BY <1>1, <1>2, <1>3, <1>4, <1>5, <1>6 DEF UserStep

LEMMA ScreenStepSubmits ==
  ASSUME SubmitInv, TypeOK', NEW s \in Screens, ScreenStep(s)
  PROVE  SubmitInv'
<1> DEFINE st == screen[s]
           cl == call[s]
<1>a. st \in ScreenState /\ cl \in [Coroutine -> Await] /\ Sound(st, cl)
  BY DEF SubmitInv, TypeOK
<1>b. screen = [screen EXCEPT ![s] = st]
  BY DEF SubmitInv, TypeOK
<1>c. "off" \in Await \ Submitting /\ "sleep" \in Await \ Submitting /\ "check" \in Await \ Submitting
  BY DEF Await, Submitting
<1>d. Submitting \subseteq Await /\ Coroutine = {"loop", "page", "button"}
  BY DEF Await, Coroutine
<1>1. CASE LoadContext(s)
  <2>1. PICK ready \in BOOLEAN :
          /\ screen' = [screen EXCEPT ![s].ctx = IF ready THEN "ready" ELSE "error"]
          /\ Continue(s, "loop", IF ready THEN "sleep" ELSE "off")
    BY <1>1 DEF LoadContext
  <2> DEFINE next == [st EXCEPT !.ctx = IF ready THEN "ready" ELSE "error"]
             await == IF ready THEN "sleep" ELSE "off"
  <2>2. st.ctx = "loading" /\ stack' = stack
    BY <1>1 DEF LoadContext
  <2>3. next \in ScreenState /\ screen' = [screen EXCEPT ![s] = next]
    BY <1>a, <2>1 DEF ScreenState
  <2>4. \A c \in Coroutine : cl[c] = "off"
    BY <1>a, <2>2 DEF Sound
  <2>5. Sound(next, [cl EXCEPT !["loop"] = await])
    BY <1>a, <2>2, <2>4 DEF Sound, ScreenState, Submitting
  <2>6. QED
    BY <1>c, <1>d, <2>1, <2>2, <2>3, <2>5, CoroutineMoves
<1>2. CASE PageFinished(s)
  <2>1. Sound(st, [cl EXCEPT !["page"] = "check"])
    BY <1>2, <1>a, <1>c, <1>d, MoveIsSound DEF PageFinished
  <2>2. QED
    BY <1>2, <1>a, <1>b, <1>c, <1>d, <2>1, CoroutineMoves DEF PageFinished
<1>3. CASE LoopWakes(s)
  <2>1. st.ctx = "ready"
    BY <1>3, <1>a, <1>d DEF LoopWakes, Sound
  <2>2. PICK await \in {"off", "check"} : Continue(s, "loop", await)
    BY <1>3 DEF LoopWakes
  <2>3. Sound(st, [cl EXCEPT !["loop"] = await])
    BY <1>a, <1>c, <1>d, <2>1, <2>2, MoveIsSound
  <2>4. QED
    BY <1>3, <1>a, <1>b, <1>c, <1>d, <2>2, <2>3, CoroutineMoves DEF LoopWakes
<1>4. CASE DisposeScreen(s)
  <2>1. screen' = [screen EXCEPT ![s].mounted = FALSE] /\ call' = call /\ stack' = stack
    BY <1>4 DEF DisposeScreen
  <2>2. \A t \in Screens : Sound(screen'[t], call'[t])
    BY <2>1 DEF SubmitInv, TypeOK, ScreenState, Sound
  <2>3. \A t \in Screens : screen'[t].ctx = screen[t].ctx
    BY <2>1 DEF SubmitInv, TypeOK, ScreenState
  <2>4. DialogsOfReadyScreens'
    BY <2>1, <2>3, DialogsKeepScreens
  <2>5. QED
    BY <2>2, <2>4 DEF SubmitInv
<1>5. ASSUME NEW c \in Coroutine, Checked(s, c) PROVE SubmitInv'
  <2>1. cl[c] = "check" /\ st.ctx = "ready" /\ stack' = stack /\ cl[c] \notin Submitting
    BY <1>5, <1>a, <1>c DEF Checked, Sound
  <2>2. CASE Submit(s, c)
    BY <2>1, <2>2, SubmitIsSound
  <2>3. CASE Continue(s, c, Returned(c, st)) /\ UNCHANGED screen
    <3>1. Sound(st, [cl EXCEPT ![c] = Returned(c, st)])
      BY <1>a, <2>1, ReturnedType, MoveIsSound
    <3>2. QED
      BY <1>a, <1>b, <2>1, <2>3, <3>1, ReturnedType, CoroutineMoves
  <2>4. QED
    BY <1>5, <2>2, <2>3 DEF Checked
<1>6. ASSUME NEW c \in Coroutine, cl[c] \in Submitting,
             NEW next \in Submitting, Continue(s, c, next), UNCHANGED <<stack, screen>>
      PROVE  SubmitInv'
  <2>1. Sound(st, [cl EXCEPT ![c] = next])
    BY <1>6, <1>a, <1>c, SubmissionIsSound
  <2>2. QED
    BY <1>6, <1>a, <1>b, <1>d, <2>1, CoroutineMoves
<1>7. ASSUME NEW c \in Coroutine, Extracted(s, c) PROVE SubmitInv'
  BY <1>6, <1>7 DEF Extracted, Submitting
<1>8. ASSUME NEW c \in Coroutine, ServerResumes(s, c) PROVE SubmitInv'
  BY <1>6, <1>8 DEF ServerResumes, Submitting
<1>9. ASSUME NEW c \in Coroutine, cl[c] \in Submitting,
             NEW next, Continue(s, c, Returned(c, next)),
             NEW done \in {st, [st EXCEPT !.resolved = TRUE], [st EXCEPT !.submitting = FALSE]},
             screen' = [screen EXCEPT ![s] = done],
             \/ stack' = stack
             \/ stack # <<>> /\ stack' = Popped
             \/ stack' = Append(stack, Dialog(s))
      PROVE  SubmitInv'
  <2> DEFINE await == Returned(c, next)
  <2>1. await \in Await \ Submitting
    BY ReturnedType
  <2>2. st.ctx = "ready" /\ done \in ScreenState /\ done.ctx = "ready"
    BY <1>9, <1>a DEF Sound, Submitting, ScreenState
  <2>3. Sound(done, [cl EXCEPT ![c] = await])
    <3>1. Sound(st, [cl EXCEPT ![c] = await])
      BY <1>a, <2>1, <2>2, MoveIsSound
    <3>2. "post" \in Submitting
      BY DEF Submitting
    <3> HIDE DEF await
    <3>3. /\ Sound([st EXCEPT !.resolved = TRUE], [cl EXCEPT ![c] = await])
          /\ Sound([st EXCEPT !.submitting = FALSE], [cl EXCEPT ![c] = await])
      BY <1>9, <1>a, <2>1, <3>2, SubmissionIsSound
    <3>4. QED
      BY <1>9, <3>1, <3>3
  <2> HIDE DEF await
  <2>4. Continue(s, c, await)
    BY <1>9 DEF await
  <2>5. QED
    BY <1>9, <2>1, <2>2, <2>3, <2>4, CoroutineMoves
<1>10. ASSUME NEW c \in Coroutine, Accepted(s, c) PROVE SubmitInv'
  <2>1. cl[c] \in Submitting
    BY <1>10 DEF Accepted, Submitting
  <2>2. CASE st.mounted
    BY <1>9, <1>10, <2>1, <2>2 DEF Accepted, Pop
  <2>3. CASE ~st.mounted
    BY <1>9, <1>10, <1>b, <2>1, <2>3 DEF Accepted
  <2>4. QED
    BY <2>2, <2>3
<1>11. ASSUME NEW c \in Coroutine, Refused(s, c) PROVE SubmitInv'
  <2>1. cl[c] \in Submitting
    BY <1>11 DEF Refused, Submitting
  <2>2. CASE st.mounted
    BY <1>9, <1>11, <2>1, <2>2 DEF Refused
  <2>3. CASE ~st.mounted
    BY <1>9, <1>11, <1>b, <2>1, <2>3 DEF Refused
  <2>4. QED
    BY <2>2, <2>3
<1>12. QED
  BY <1>1, <1>2, <1>3, <1>4, <1>5, <1>7, <1>8, <1>10, <1>11 DEF ScreenStep

\* SubmitInv is inductive.
LEMMA SubmitInvAlways == Spec => []SubmitInv
<1>1. Init => SubmitInv
  <2> SUFFICES ASSUME Init PROVE SubmitInv
    OBVIOUS
  <2>1. TypeOK
    BY InitType
  <2>2. \A s \in Screens : Sound(screen[s], call[s])
    BY DEF Init, Sound, UnusedScreen, Submitting
  <2>3. DialogsOfReadyScreens
    BY DEF Init, DialogsOfReadyScreens, Home, Tracking
  <2>4. QED
    BY <2>1, <2>2, <2>3 DEF SubmitInv
<1>2. SubmitInv /\ TypeOK' /\ [Next]_vars => SubmitInv'
  <2> SUFFICES ASSUME SubmitInv, TypeOK', [Next]_vars PROVE SubmitInv'
    OBVIOUS
  <2>1. CASE JobStep \/ DisposeTracking \/ UNCHANGED vars
    BY <2>1, ScreensAtRest
    DEF JobStep, WorkerPauses, WorkerSettles, TickerExpires, JobMoves, DisposeTracking, vars
  <2>2. QED
    BY <2>1, UserStepSubmits, PollStepSubmits, ScreenStepSubmits DEF Next
<1>3. QED
  BY <1>1, <1>2, TrackingTypes, PTL DEF Spec

\* Never two members means at most one.
LEMMA AtMostOne ==
  ASSUME NEW S, \A x, y \in S : x = y
  PROVE  Cardinality(S) <= 1
<1>1. CASE S = {}
  BY <1>1, FS_EmptySet
<1>2. CASE S # {}
  <2>1. PICK x : S = {x}
    BY <1>2
  <2>2. QED
    BY <2>1, FS_Singleton
<1>3. QED
  BY <1>1, <1>2

\* A captcha screen never runs _extractAndSubmitCookies twice at a time,
\* although its loop, its pages and its buttons may all decide to start it.
THEOREM OneSubmissionAlways == Spec => []OneSubmission
<1>1. SubmitInv => OneSubmission
  <2> SUFFICES ASSUME SubmitInv, NEW s \in Screens PROVE Cardinality(Submits(s)) <= 1
    BY DEF OneSubmission
  <2>1. \A c, d \in Submits(s) : c = d
    BY DEF SubmitInv, Sound, Submits
  <2>2. QED
    BY <2>1, AtMostOne
<1>2. QED
  BY <1>1, SubmitInvAlways, PTL

\* A captcha screen whose submission was accepted never submits again,
\* although its coroutines run on.
THEOREM AcceptedIsLastAlways == Spec => []AcceptedIsLast
<1>1. SubmitInv => AcceptedIsLast
  BY DEF SubmitInv, Sound, Submits, AcceptedIsLast
<1>2. QED
  BY <1>1, SubmitInvAlways, PTL

-----------------------------------------------------------------------------
(***************************************************************************)
(* 3. Polls and captcha screens                                            *)
(*                                                                         *)
(* OnePoll and OneCaptchaOpen hold each other up: a poll is started by     *)
(* popping the one captcha screen, and the one poll ends in the step that  *)
(* pushes one.  TapResolve pushes a screen with no poll to end; it finds   *)
(* none open because the tracking screen, once covered, is not on top.     *)
(***************************************************************************)
OpenAt(i) == i \in 1 .. Len(stack) /\ stack[i].kind = "captcha"

\* The poll and the captcha screen exclude each other, and there is one of each.
OneAtATime ==
  /\ \A i, j : OpenAt(i) /\ OpenAt(j) => i = j
  /\ \A i : OpenAt(i) => Polling = {}
  /\ \A k, l \in Polling : k = l

\* The tracking screen is disposed only after it left the stack, and it never
\* covers a captcha screen.
TrackingBelow ==
  \A i \in 1 .. Len(stack) : stack[i] = Tracking =>
    tracking.mounted /\ \A j : OpenAt(j) => j > i

PollInv ==
  /\ TypeOK
  /\ OneAtATime
  /\ TrackingBelow
  /\ Polling # {} /\ tracking.mounted => tracking.view = "polling"

\* Routes taken from the top leave the others where they were.
LEMMA PoppedRoutes ==
  ASSUME TypeOK, stack # <<>>, stack' = Popped
  PROVE  /\ Len(stack) \in 1 .. Len(stack)
         /\ \A i \in 1 .. Len(stack') :
              i \in 1 .. Len(stack) /\ i # Len(stack) /\ stack'[i] = stack[i]
<1>1. stack \in Seq(Route) /\ Len(stack) \in Nat /\ Len(stack) # 0
  BY DEF TypeOK
<1>2. ASSUME NEW i \in 1 .. Len(stack')
      PROVE  Len(stack') = Len(stack) - 1 /\ stack'[i] = stack[i]
  BY <1>1, <1>2 DEF Popped
<1>3. QED
  BY <1>1, <1>2

LEMMA PushedRoutes ==
  ASSUME TypeOK, NEW r \in Route, stack' = Append(stack, r)
  PROVE  /\ Len(stack) \in Nat /\ Len(stack') = Len(stack) + 1
         /\ \A i \in 1 .. Len(stack) : stack'[i] = stack[i]
         /\ stack'[Len(stack) + 1] = r
         /\ 1 .. Len(stack') = (1 .. Len(stack)) \cup {Len(stack) + 1}
  BY DEF TypeOK

\* A pop starts at most one poll, for the captcha screen it takes away.
LEMMA PopKeepsOne ==
  ASSUME PollInv, TypeOK', NEW result \in BOOLEAN, Pop(result)
  PROVE  PollInv'
<1> USE DEF Polling, OpenAt
<1>1. /\ stack # <<>> /\ stack' = Popped /\ TypeOK
      /\ Len(stack) \in 1 .. Len(stack)
      /\ \A i \in 1 .. Len(stack') :
           i \in 1 .. Len(stack) /\ i # Len(stack) /\ stack'[i] = stack[i]
  BY PoppedRoutes DEF PollInv, Pop
<1>2. \A i : OpenAt(i)' => OpenAt(i) /\ i # Len(stack)
  BY <1>1
<1>3. tracking'.mounted = tracking.mounted
  BY DEF PollInv, TypeOK, TrackingState, Pop
<1>4. TrackingBelow'
  BY <1>1, <1>2, <1>3 DEF PollInv, TrackingBelow, Tracking
<1>5. CASE Top.kind = "captcha"
  <2>1. Polling = {} /\ \A i : ~OpenAt(i)'
    BY <1>1, <1>2, <1>5 DEF PollInv, OneAtATime, Top
  <2>2. CASE tracking.mounted /\ result
    <3>1. poller' = [poller EXCEPT ![Top.screen] = FreshPoller] /\ tracking'.view = "polling"
      BY <1>5, <2>2 DEF Pop, PollInv, TypeOK, TrackingState
    <3>2. Polling' \subseteq {Top.screen}
      BY <2>1, <3>1 DEF PollInv, TypeOK
    <3>3. QED
      BY <1>4, <2>1, <3>1, <3>2 DEF PollInv, OneAtATime
  <2>3. CASE ~(tracking.mounted /\ result)
    <3>1. poller' = poller
      BY <1>5, <2>3 DEF Pop
    <3>2. QED
      BY <1>4, <2>1, <3>1 DEF PollInv, OneAtATime
  <2>4. QED
    BY <2>2, <2>3
<1>6. CASE Top.kind # "captcha"
  <2>1. poller' = poller /\ tracking'.view = tracking.view
    BY <1>6 DEF Pop, PollInv, TypeOK, TrackingState
  <2>2. OneAtATime'
    BY <1>2, <2>1 DEF PollInv, OneAtATime
  <2>3. QED
    BY <1>3, <1>4, <2>1, <2>2 DEF PollInv
<1>7. QED
  BY <1>5, <1>6

\* A dialog on top changes nothing the polls depend on.
LEMMA DialogKeepsOne ==
  ASSUME PollInv, TypeOK', NEW s \in Screens, stack' = Append(stack, Dialog(s)),
         UNCHANGED <<tracking, poller>>
  PROVE  PollInv'
<1>1. /\ TypeOK /\ Dialog(s) \in Route /\ Dialog(s).kind = "dialog"
  BY RoutesAreRoutes DEF PollInv, Dialog
<1>2. /\ \A i \in 1 .. Len(stack) : stack'[i] = stack[i]
      /\ stack'[Len(stack) + 1] = Dialog(s)
      /\ 1 .. Len(stack') = (1 .. Len(stack)) \cup {Len(stack) + 1}
  BY <1>1, PushedRoutes
<1>3. \A i : OpenAt(i)' => OpenAt(i)
  BY <1>1, <1>2 DEF OpenAt
<1>4. OneAtATime'
  BY <1>3 DEF PollInv, OneAtATime, Polling
<1>5. TrackingBelow'
  BY <1>1, <1>2, <1>3 DEF PollInv, TrackingBelow, Tracking
<1>6. QED
  BY <1>4, <1>5 DEF PollInv, Polling

\* A captcha screen is pushed where none is open, and no poll is left.
LEMMA CaptchaKeepsOne ==
  ASSUME PollInv, TypeOK', NEW s \in Screens, stack' = Append(stack, Captcha(s)),
         \A i : ~OpenAt(i), Polling' = {}, tracking'.mounted = tracking.mounted
  PROVE  PollInv'
<1>1. /\ TypeOK /\ Captcha(s) \in Route /\ Captcha(s).kind = "captcha"
  BY RoutesAreRoutes DEF PollInv, Captcha
<1>2. /\ Len(stack) \in Nat
      /\ \A i \in 1 .. Len(stack) : stack'[i] = stack[i]
      /\ stack'[Len(stack) + 1] = Captcha(s)
      /\ 1 .. Len(stack') = (1 .. Len(stack)) \cup {Len(stack) + 1}
  BY <1>1, PushedRoutes
<1>3. \A i : OpenAt(i)' => i = Len(stack) + 1
  BY <1>1, <1>2 DEF OpenAt
<1>4. OneAtATime'
  BY <1>3 DEF PollInv, OneAtATime
<1>5. TrackingBelow'
  BY <1>1, <1>2, <1>3 DEF PollInv, TrackingBelow, Tracking
<1>6. QED
  BY <1>4, <1>5 DEF PollInv

\* A poll that was under way and stays so.
LEMMA PollGoesOn ==
  ASSUME PollInv, TypeOK', Polling' \subseteq Polling, UNCHANGED <<stack, tracking>>
  PROVE  PollInv'
  BY DEF PollInv, OneAtATime, TrackingBelow, OpenAt

\* The only poll ends.
LEMMA PollEndsAlone ==
  ASSUME PollInv, NEW k \in Pollers, poller[k].pc # "off", NEW view, NEW cause,
         PollEnds(k, view, cause)
  PROVE  Polling' = {} /\ tracking'.mounted = tracking.mounted
         /\ \A i : ~OpenAt(i)
<1>1. Polling' = {}
  BY DEF PollInv, TypeOK, OneAtATime, Polling, PollEnds, IdlePoller
<1>2. tracking'.mounted = tracking.mounted
  BY DEF PollInv, TypeOK, TrackingState, PollEnds
<1>3. \A i : ~OpenAt(i)
  BY DEF PollInv, OneAtATime, Polling
<1>4. QED
  BY <1>1, <1>2, <1>3

LEMMA PollEndsKeepsOne ==
  ASSUME PollInv, TypeOK', NEW k \in Pollers, poller[k].pc # "off", NEW view, NEW cause,
         PollEnds(k, view, cause), UNCHANGED stack
  PROVE  PollInv'
<1>1. Polling' = {} /\ tracking'.mounted = tracking.mounted
  BY PollEndsAlone
<1>2. QED
  BY <1>1 DEF PollInv, OneAtATime, TrackingBelow, OpenAt

LEMMA PollStepKeepsOne ==
  ASSUME PollInv, TypeOK', NEW k \in Pollers, PollStep(k)
  PROVE  PollInv'
<1>1. CASE PollAnswered(k) \/ PollPending(k) \/ PollAgain(k)
  <2>1. Polling' \subseteq Polling
    BY <1>1 DEF PollInv, TypeOK, Polling, PollAnswered, PollPending, PollAgain
  <2>2. QED
    BY <1>1, <2>1, PollGoesOn DEF PollAnswered, PollPending, PollAgain
<1>2. CASE PollTimesOut(k) \/ PollFails(k) \/ PollSettled(k)
  BY <1>2, PollEndsKeepsOne DEF PollTimesOut, PollFails, PollSettled
<1>3. CASE PollAwaiting(k)
  <2>1. poller[k].pc # "off" /\ PollEnds(k, "awaitingCaptcha", "none")
    BY <1>3 DEF PollAwaiting
  <2>2. CASE tracking.mounted
    <3>1. NextScreen \in Screens /\ stack' = Append(stack, Captcha(NextScreen))
      BY <1>3, <2>2, NextScreenIsUnused DEF PollAwaiting, Push
    <3>2. QED
      BY <2>1, <3>1, PollEndsAlone, CaptchaKeepsOne
  <2>3. CASE ~tracking.mounted
    BY <1>3, <2>1, <2>3, PollEndsKeepsOne DEF PollAwaiting
  <2>4. QED
    BY <2>2, <2>3
<1>4. QED
  BY <1>1, <1>2, <1>3 DEF PollStep

\* The button "Resolver Captcha" is there only when nothing is polled and no
\* captcha screen is open.
LEMMA ResolveFindsNoneOpen ==
  ASSUME PollInv, TapResolve
  PROVE  /\ tracking.mounted /\ Polling = {} /\ \A i : ~OpenAt(i)
         /\ NextScreen \in Screens
<1>1. stack \in Seq(Route) /\ stack # <<>> /\ stack[Len(stack)] = Tracking
  BY DEF PollInv, TypeOK, TapResolve, OnTop, Top
<1>2. Len(stack) \in 1 .. Len(stack)
  BY <1>1
<1>3. tracking.mounted /\ \A i : ~OpenAt(i)
  BY <1>1, <1>2 DEF PollInv, TrackingBelow, OpenAt
<1>4. NextScreen \in Screens
  BY TapResolveHasScreen, NextScreenIsUnused DEF PollInv
<1>5. QED
  BY <1>3, <1>4 DEF PollInv, TapResolve

LEMMA UserStepKeepsOne ==
  ASSUME PollInv, TypeOK', UserStep
  PROVE  PollInv'
<1>1. CASE TapResolve
  <2>1. /\ stack' = Append(stack, Captcha(NextScreen))
        /\ UNCHANGED <<tracking, poller>>
    BY <1>1 DEF TapResolve, Push
  <2>2. Polling' = Polling
    BY <2>1 DEF Polling
  <2>3. QED
    BY <1>1, <2>1, <2>2, ResolveFindsNoneOpen, CaptchaKeepsOne
<1>2. CASE LeaveTracking
  BY <1>2, PopKeepsOne DEF LeaveTracking
<1>3. ASSUME NEW s \in Screens, TapContinue(s) PROVE PollInv'
  BY <1>3, PollGoesOn DEF TapContinue, Polling
<1>4. ASSUME NEW s \in Screens, DialogCancel(s) \/ DialogRetry(s) \/ CancelCaptcha(s)
      PROVE  PollInv'
  BY <1>4, PopKeepsOne DEF DialogCancel, DialogRetry, CancelCaptcha
<1>5. QED
  BY <1>1, <1>2, <1>3, <1>4 DEF UserStep

LEMMA ScreenStepKeepsOne ==
  ASSUME PollInv, TypeOK', NEW s \in Screens, ScreenStep(s)
  PROVE  PollInv'
<1>1. CASE UNCHANGED <<stack, tracking, poller>>
  <2>1. Polling' = Polling
    BY <1>1 DEF Polling
  <2>2. QED
    BY <1>1, <2>1, PollGoesOn
<1>2. ASSUME NEW c \in Coroutine, Accepted(s, c) PROVE PollInv'
  BY <1>1, <1>2, PopKeepsOne DEF Accepted
<1>3. ASSUME NEW c \in Coroutine, Refused(s, c) PROVE PollInv'
  BY <1>1, <1>3, DialogKeepsOne DEF Refused
<1>4. QED
  BY <1>1, <1>2, <1>3
  DEF ScreenStep, LoadContext, PageFinished, LoopWakes, DisposeScreen, Checked, Extracted,
      ServerResumes

\* PollInv is inductive.
LEMMA PollInvAlways == Spec => []PollInv
<1>1. Init => PollInv
  <2> SUFFICES ASSUME Init PROVE PollInv
    OBVIOUS
  <2>1. TypeOK
    BY InitType
  <2>2. \A i : ~OpenAt(i)
    BY DEF Init, OpenAt, Home, Tracking
  <2>3. Polling = {0}
    BY BoundsAssumption DEF Init, Polling, FreshPoller, IdlePoller, Pollers
  <2>4. QED
    BY <2>1, <2>2, <2>3 DEF Init, PollInv, OneAtATime, TrackingBelow
<1>2. PollInv /\ TypeOK' /\ [Next]_vars => PollInv'
  <2> SUFFICES ASSUME PollInv, TypeOK', [Next]_vars PROVE PollInv'
    OBVIOUS
  <2>1. CASE JobStep \/ UNCHANGED vars
    <3>1. UNCHANGED <<stack, tracking, poller>>
      BY <2>1 DEF JobStep, WorkerPauses, WorkerSettles, TickerExpires, JobMoves, vars
    <3>2. QED
      BY <3>1, PollGoesOn DEF Polling
  <2>2. CASE DisposeTracking
    <3>1. /\ tracking' = [tracking EXCEPT !.mounted = FALSE] /\ ~OnStack(Tracking)
          /\ UNCHANGED <<stack, poller>>
      BY <2>2 DEF DisposeTracking
    <3>2. ~tracking'.mounted
      BY <3>1 DEF PollInv, TypeOK, TrackingState
    <3>3. TrackingBelow'
      BY <3>1 DEF OnStack, TrackingBelow
    <3>4. QED
      BY <3>1, <3>2, <3>3 DEF PollInv, OneAtATime, OpenAt, Polling
  <2>3. QED
    BY <2>1, <2>2, UserStepKeepsOne, PollStepKeepsOne, ScreenStepKeepsOne DEF Next
<1>3. QED
  BY <1>1, <1>2, TrackingTypes, PTL DEF Spec

\* Two polls of one job never run at a time, and none behind an open captcha
\* screen, although every captcha screen that is resolved starts one.
THEOREM OnePollAlways == Spec => []OnePoll
<1>1. PollInv => OnePoll
  <2> SUFFICES ASSUME PollInv PROVE OnePoll
    OBVIOUS
  <2>1. Cardinality(Polling) <= 1
    BY AtMostOne DEF PollInv, OneAtATime
  <2>2. \A s \in Screens : OnStack(Captcha(s)) => Polling = {}
    BY DEF PollInv, OneAtATime, OpenAt, OnStack, Captcha
  <2>3. QED
    BY <2>1, <2>2 DEF PollInv, OnePoll
<1>2. QED
  BY <1>1, PollInvAlways, PTL

\* There is never more than one captcha screen to solve, although a poll and
\* a button may both open one.
THEOREM OneCaptchaOpenAlways == Spec => []OneCaptchaOpen
<1>1. PollInv => OneCaptchaOpen
  <2> SUFFICES ASSUME PollInv PROVE OneCaptchaOpen
    OBVIOUS
  <2> DEFINE Open == {i \in 1 .. Len(stack) : stack[i].kind = "captcha"}
  <2>1. \A i, j \in Open : i = j
    BY DEF PollInv, OneAtATime, OpenAt
  <2> HIDE DEF Open
  <2>2. Cardinality(Open) <= 1
    BY <2>1, AtMostOne
  <2>3. QED
    BY <2>2 DEF Open, OneCaptchaOpen
<1>2. QED
  BY <1>1, PollInvAlways, PTL

\* A disposed screen opens nothing: a dialog is pushed by a captcha screen that
\* is mounted, a captcha screen for a tracking screen that is.
THEOREM DisposedOpenNothing == Spec => DisposedScreensOpenNothing
<1> DEFINE Opened == {Dialog(s) : s \in Screens} \cup {Captcha(s) : s \in Screens}
           Opens(r) == Len(stack') > Len(stack) /\ stack'[Len(stack')] = r
           OpensNothing == \A r \in Opened : Opens(r) =>
             IF r.kind = "dialog" THEN screen[r.screen].mounted ELSE tracking.mounted
<1>1. PollInv /\ [Next]_vars => OpensNothing
  <2> SUFFICES ASSUME PollInv, [Next]_vars, NEW r \in Opened, Opens(r)
               PROVE  IF r.kind = "dialog" THEN screen[r.screen].mounted ELSE tracking.mounted
    OBVIOUS
  <2>1. TypeOK /\ Len(stack) \in Nat
    BY DEF PollInv, TypeOK
  <2>2. stack' # stack
    BY <2>1
  <2>3. ASSUME NEW s \in Screens, stack' = Append(stack, Captcha(s)), tracking.mounted
        PROVE  IF r.kind = "dialog" THEN screen[r.screen].mounted ELSE tracking.mounted
    <3>1. r = Captcha(s)
      BY <2>1, <2>3, PushedRoutes, RoutesAreRoutes
    <3>2. QED
      BY <2>3, <3>1 DEF Captcha
  <2>4. ASSUME NEW s \in Screens, stack' = Append(stack, Dialog(s)), screen[s].mounted
        PROVE  IF r.kind = "dialog" THEN screen[r.screen].mounted ELSE tracking.mounted
    <3>1. r = Dialog(s)
      BY <2>1, <2>4, PushedRoutes, RoutesAreRoutes
    <3>2. QED
      BY <2>4, <3>1 DEF Dialog
  <2>5. ~(stack # <<>> /\ stack' = Popped)
    <3> SUFFICES ASSUME stack # <<>>, stack' = Popped PROVE FALSE
      OBVIOUS
    <3>1. \A i \in 1 .. Len(stack') : i \in 1 .. Len(stack) /\ i # Len(stack)
      BY <2>1, PoppedRoutes
    <3>2. Len(stack') \in Nat
      BY <2>1, Stacks DEF TypeOK, Popped
    <3>3. QED
      BY <2>1, <3>1, <3>2
  <2>6. ASSUME NEW result, Pop(result) PROVE FALSE
    BY <2>5, <2>6 DEF Pop
  <2>7. CASE TapResolve
    BY <2>3, <2>7, ResolveFindsNoneOpen DEF TapResolve, Push
  <2>8. ASSUME NEW k \in Pollers, PollStep(k)
        PROVE  IF r.kind = "dialog" THEN screen[r.screen].mounted ELSE tracking.mounted
    <3>1. PollAwaiting(k) /\ tracking.mounted
      BY <2>2, <2>8
      DEF PollStep, PollAnswered, PollPending, PollAgain, PollTimesOut, PollFails, PollSettled,
          PollAwaiting
    <3>2. QED
      BY <2>3, <3>1, NextScreenIsUnused DEF PollAwaiting, Push
  <2>9. ASSUME NEW s \in Screens, ScreenStep(s)
        PROVE  IF r.kind = "dialog" THEN screen[r.screen].mounted ELSE tracking.mounted
    <3>1. PICK c \in Coroutine : Accepted(s, c) \/ Refused(s, c)
      BY <2>2, <2>9
      DEF ScreenStep, LoadContext, PageFinished, LoopWakes, DisposeScreen, Checked, Extracted,
          ServerResumes
    <3>2. ~Accepted(s, c)
      BY <2>2, <2>6 DEF Accepted
    <3>3. QED
      BY <2>2, <2>4, <3>1, <3>2 DEF Refused
  <2>10. ~JobStep /\ ~DisposeTracking /\ ~UNCHANGED vars
    BY <2>2
    DEF JobStep, WorkerPauses, WorkerSettles, TickerExpires, JobMoves, DisposeTracking, vars
  <2>11. UserStep => TapResolve
    BY <2>2, <2>6
    DEF UserStep, LeaveTracking, TapContinue, DialogCancel, DialogRetry, CancelCaptcha
  <2>12. QED
    BY <2>7, <2>8, <2>9, <2>10, <2>11 DEF Next
<1>2. PollInv /\ [Next]_vars => [OpensNothing]_vars
  BY <1>1
<1>3. QED
  BY <1>2, PollInvAlways, PTL DEF Spec, DisposedScreensOpenNothing

-----------------------------------------------------------------------------
(***************************************************************************)
(* 4. Verdicts                                                             *)
(*                                                                         *)
(* An answer that is read late is still true, because a settled job never  *)
(* moves; so is what the screen made of it.                                *)
(***************************************************************************)
VerdictInv ==
  /\ TypeOK
  /\ \A k \in Pollers :
       poller[k].pc = "answered" /\ poller[k].seen \in {"completed", "failed"} =>
         job.status = poller[k].seen
  /\ VerdictShownIsTrue

\* The screen keeps its verdict, or a poll that saw it ends.
LEMMA ShownStaysTrue ==
  ASSUME VerdictInv,
         job.status \in {"completed", "failed"} => job'.status = job.status,
         \/ UNCHANGED <<tracking.view, tracking.cause>>
         \/ tracking'.view \in {"polling", "awaitingCaptcha"}
         \/ tracking'.view = "failed" /\ tracking'.cause \in {"timeout", "error"}
         \/ tracking'.view = "completed" /\ job.status = "completed"
         \/ tracking'.view = "failed" /\ job.status = "failed"
  PROVE  VerdictShownIsTrue'
  BY DEF VerdictInv, VerdictShownIsTrue

\* A poll is started, goes on, ends, or has just read the status.
LEMMA AnswersStayTrue ==
  ASSUME VerdictInv,
         job.status \in {"completed", "failed"} => job'.status = job.status,
         \A k \in Pollers :
           \/ poller'[k] = poller[k]
           \/ poller'[k].pc # "answered"
           \/ poller'[k].seen \in {"error", job.status} /\ job' = job
  PROVE  \A k \in Pollers :
           poller'[k].pc = "answered" /\ poller'[k].seen \in {"completed", "failed"} =>
             job'.status = poller'[k].seen
  BY DEF VerdictInv

LEMMA PopKeepsVerdict ==
  ASSUME VerdictInv, TypeOK', NEW result \in BOOLEAN, Pop(result), UNCHANGED job
  PROVE  VerdictInv'
<1>1. \A k \in Pollers : poller'[k] = poller[k] \/ poller'[k].pc # "answered"
  BY DEF VerdictInv, TypeOK, Pop, FreshPoller
<1>2. \/ UNCHANGED <<tracking.view, tracking.cause>>
      \/ tracking'.view \in {"polling", "awaitingCaptcha"}
  BY DEF VerdictInv, TypeOK, TrackingState, Pop
<1>3. QED
  BY <1>1, <1>2, AnswersStayTrue, ShownStaysTrue DEF VerdictInv

LEMMA PollEndsVerdict ==
  ASSUME VerdictInv, TypeOK', NEW k \in Pollers, NEW view, NEW cause,
         PollEnds(k, view, cause), UNCHANGED job,
         \/ view = "awaitingCaptcha"
         \/ view = "failed" /\ cause \in {"timeout", "error"}
         \/ view \in {"completed", "failed"} /\ job.status = view
  PROVE  VerdictInv'
<1>1. \A l \in Pollers : poller'[l] = poller[l] \/ poller'[l].pc # "answered"
  BY DEF VerdictInv, TypeOK, PollEnds, IdlePoller
<1>2. UNCHANGED tracking \/ (tracking'.view = view /\ tracking'.cause = cause)
  BY DEF VerdictInv, TypeOK, TrackingState, PollEnds
<1>3. VerdictShownIsTrue'
  BY <1>2, ShownStaysTrue
<1>4. QED
  BY <1>1, <1>3, AnswersStayTrue DEF VerdictInv

LEMMA PollStepVerdict ==
  ASSUME VerdictInv, TypeOK', NEW k \in Pollers, PollStep(k)
  PROVE  VerdictInv'
<1>1. CASE PollAnswered(k)
  <2>1. PICK seen \in {"error", job.status} :
          poller' = [poller EXCEPT ![k].pc = "answered", ![k].seen = seen]
    BY <1>1 DEF PollAnswered
  <2>2. \A l \in Pollers : poller'[l] = poller[l] \/ poller'[l].seen = seen
    BY <2>1 DEF VerdictInv, TypeOK, PollerState
  <2>3. UNCHANGED <<job, tracking>>
    BY <1>1 DEF PollAnswered
  <2>4. QED
    BY <2>2, <2>3, AnswersStayTrue, ShownStaysTrue DEF VerdictInv
<1>2. CASE PollPending(k) \/ PollAgain(k)
  <2>1. \A l \in Pollers : poller'[l] = poller[l] \/ poller'[l].pc # "answered"
    BY <1>2 DEF VerdictInv, TypeOK, PollerState, PollPending, PollAgain
  <2>2. UNCHANGED <<job, tracking>>
    BY <1>2 DEF PollPending, PollAgain
  <2>3. QED
    BY <2>1, <2>2, AnswersStayTrue, ShownStaysTrue DEF VerdictInv
<1>3. CASE PollTimesOut(k) \/ PollFails(k)
  BY <1>3, PollEndsVerdict DEF PollTimesOut, PollFails
<1>4. CASE PollSettled(k)
  BY <1>4, PollEndsVerdict DEF VerdictInv, PollSettled
<1>5. CASE PollAwaiting(k)
  BY <1>5, PollEndsVerdict DEF PollAwaiting
<1>6. QED
  BY <1>1, <1>2, <1>3, <1>4, <1>5 DEF PollStep

\* What moves the job alone leaves it where it settled.
LEMMA JobMovesVerdict ==
  ASSUME VerdictInv, TypeOK', UNCHANGED <<tracking, poller>>,
         job.status \in {"completed", "failed"} => job'.status = job.status
  PROVE  VerdictInv'
<1>1. \A k \in Pollers : poller'[k] = poller[k]
  OBVIOUS
<1>2. QED
  BY <1>1, AnswersStayTrue, ShownStaysTrue DEF VerdictInv

LEMMA ScreenStepVerdict ==
  ASSUME VerdictInv, TypeOK', NEW s \in Screens, ScreenStep(s)
  PROVE  VerdictInv'
<1>1. CASE UNCHANGED <<job, tracking, poller>>
  BY <1>1, JobMovesVerdict
<1>2. ASSUME NEW c \in Coroutine, ServerResumes(s, c) PROVE VerdictInv'
  <2>1. UNCHANGED <<tracking, poller>>
    BY <1>2 DEF ServerResumes
  <2>2. job.status \in {"completed", "failed"} => job'.status = job.status
    BY <1>2 DEF ServerResumes, VerdictInv, TypeOK
  <2>3. QED
    BY <2>1, <2>2, JobMovesVerdict
<1>3. ASSUME NEW c \in Coroutine, Accepted(s, c) PROVE VerdictInv'
  BY <1>1, <1>3, PopKeepsVerdict DEF Accepted
<1>4. QED
  BY <1>1, <1>2, <1>3
  DEF ScreenStep, LoadContext, PageFinished, LoopWakes, DisposeScreen, Checked, Extracted,
      Refused

LEMMA UserStepVerdict ==
  ASSUME VerdictInv, TypeOK', UserStep
  PROVE  VerdictInv'
<1>1. CASE UNCHANGED <<job, tracking, poller>>
  BY <1>1, JobMovesVerdict
<1>2. ASSUME NEW result \in BOOLEAN, Pop(result), UNCHANGED job PROVE VerdictInv'
  BY <1>2, PopKeepsVerdict
<1>3. QED
  BY <1>1, <1>2
  DEF UserStep, TapResolve, TapContinue, LeaveTracking, DialogCancel, DialogRetry, CancelCaptcha

\* A verdict the tracking screen shows is the job's, although the status it was
\* taken from was read earlier.
THEOREM VerdictShownIsTrueAlways == Spec => []VerdictShownIsTrue
<1>1. Init => VerdictInv
  <2> SUFFICES ASSUME Init PROVE VerdictInv
    OBVIOUS
  <2>1. \A k \in Pollers : poller[k].pc # "answered"
    BY DEF Init, FreshPoller, IdlePoller
  <2>2. VerdictShownIsTrue
    BY DEF Init, VerdictShownIsTrue
  <2>3. QED
    BY <2>1, <2>2, InitType DEF VerdictInv
<1>2. VerdictInv /\ TypeOK' /\ [Next]_vars => VerdictInv'
  <2> SUFFICES ASSUME VerdictInv, TypeOK', [Next]_vars PROVE VerdictInv'
    OBVIOUS
  <2>1. CASE JobStep
    <3>1. UNCHANGED <<tracking, poller>> /\ job.status \notin {"completed", "failed"}
      BY <2>1 DEF JobStep, WorkerPauses, WorkerSettles, TickerExpires, JobMoves
    <3>2. QED
      BY <3>1, JobMovesVerdict
  <2>2. CASE DisposeTracking
    <3>1. UNCHANGED <<job, poller>>
      BY <2>2 DEF DisposeTracking
    <3>2. UNCHANGED <<tracking.view, tracking.cause>>
      BY <2>2 DEF DisposeTracking, VerdictInv, TypeOK, TrackingState
    <3>3. VerdictShownIsTrue'
      BY <3>1, <3>2, ShownStaysTrue
    <3>4. QED
      BY <3>1, <3>3, AnswersStayTrue DEF VerdictInv
  <2>3. CASE UNCHANGED vars
    BY <2>3, JobMovesVerdict DEF vars
  <2>4. QED
    BY <2>1, <2>2, <2>3, UserStepVerdict, PollStepVerdict, ScreenStepVerdict DEF Next
<1>3. VerdictInv => VerdictShownIsTrue
  BY DEF VerdictInv
<1>4. QED
  BY <1>1, <1>2, <1>3, TrackingTypes, PTL DEF Spec
=============================================================================
