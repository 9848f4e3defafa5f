----------------------------- MODULE HomeScreen -----------------------------
(***************************************************************************)
(* The phone's home screen: the list of receipts, the item search that     *)
(* replaces it while there is a text to search for, and the detail screen  *)
(* from which a receipt is deleted.                                        *)
(*                                                                         *)
(* Loads, searches and the deletion are futures: several run at a time,    *)
(* are answered in any order, and go on whatever the user does meanwhile.  *)
(* An action is the code between two awaits.                               *)
(*                                                                         *)
(* A definition introduced by "Wrong:" is no part of the model: it is the  *)
(* next definition with a mistake the code could have made.                *)
(***************************************************************************)
EXTENDS Naturals

CONSTANTS
  Texts,          \* trimmed texts of at least _minQueryLength characters
  Short,          \* stands for every text too short to search for
  Periods,        \* the periods of the chips
  DefaultPeriod,  \* the one selected at first
  Receipts,       \* ids of receipts of the house
  NoReceipt,      \* no detail screen was opened yet
  NoAnswer,       \* there are no search results
  MaxSearches,    \* searches in flight at a time (bounds the model)
  MaxLoads        \* loads of the list in flight at a time (bounds the model)

ASSUME HomeAssumption ==
  /\ Short \notin Texts
  /\ DefaultPeriod \in Periods
  /\ NoReceipt \notin Receipts
  /\ NoAnswer \notin [text: Texts, period: Periods]
  /\ MaxSearches \in Nat \ {0} /\ MaxLoads \in Nat \ {0}

VARIABLES
  stored,    \* the receipts of the house on the server
  top,       \* the route on top of the Navigator
  mounted,   \* is the home screen's state mounted?
  list,      \* its list of receipts
  loads,     \* calls of _loadReceipts
  search,    \* its search box
  searches,  \* calls of _runSearch
  detail     \* the detail screen

vars == <<stored, top, mounted, list, loads, search, searches, detail>>

SearchIds == 1 .. MaxSearches
LoadIds   == 1 .. MaxLoads

\* What a search asks for.
Answer == [text: Texts, period: Periods]

\* No list shows as an empty one.
ListState == [shown: SUBSET Receipts, loading: BOOLEAN, failed: BOOLEAN]

\* A load knows what the server answered once it did.
Load == [pc: {"off", "asking", "answered"}, answer: SUBSET Receipts]
IdleLoad == [pc |-> "off", answer |-> {}]

\* latest is the call whose number is _searchRequestId (0: none was made).
SearchState == [query   : Texts \cup {Short},
                period  : Periods,
                timer   : BOOLEAN,
                results : Answer \cup {NoAnswer},
                loading : BOOLEAN,
                failed  : BOOLEAN,
                latest  : 0 .. MaxSearches]

\* NoAnswer: the call is not in flight.
Searches == [SearchIds -> Answer \cup {NoAnswer}]

\* view is what the screen shows; deletion the state of _confirmDelete.
DetailState == [receipt  : Receipts \cup {NoReceipt},
                origin   : {"list", "search"},
                mounted  : BOOLEAN,
                view     : {"loading", "shown", "error"},
                deletion : {"off", "confirm", "asking", "deleted", "refused"}]

ClosedDetail == [receipt |-> NoReceipt, origin |-> "list", mounted |-> FALSE,
                 view |-> "loading", deletion |-> "off"]

\* Nothing is left of a disposed screen but a deletion under way.
Settled(d) == IF ~d.mounted /\ d.deletion = "off" THEN ClosedDetail ELSE d

\* initState starts the first load.
Init ==
  /\ stored   \in SUBSET Receipts
  /\ top      = "home"
  /\ mounted  = TRUE
  /\ list     = [shown |-> {}, loading |-> TRUE, failed |-> FALSE]
  /\ loads    = [l \in LoadIds |-> IF l = 1 THEN [IdleLoad EXCEPT !.pc = "asking"] ELSE IdleLoad]
  /\ search   = [query |-> Short, period |-> DefaultPeriod, timer |-> FALSE,
                 results |-> NoAnswer, loading |-> FALSE, failed |-> FALSE, latest |-> 0]
  /\ searches = [i \in SearchIds |-> NoAnswer]
  /\ detail   = ClosedDetail

searchActive == search.query # Short

-----------------------------------------------------------------------------
(***************************************************************************)
(* The list                                                                *)
(***************************************************************************)

FreeLoads    == {l \in LoadIds : loads[l].pc = "off"}
FreeSearches == {i \in SearchIds : searches[i] = NoAnswer}

\* _loadReceipts up to its request.
LoadReceipts ==
  /\ FreeLoads # {}
  /\ list' = [list EXCEPT !.loading = TRUE, !.failed = FALSE]
  /\ loads' = [loads EXCEPT ![CHOOSE l \in FreeLoads : TRUE].pc = "asking"]

\* The server reads the receipts; the answer may take its time.
ListReceipts(l) ==
  /\ loads[l].pc = "asking"
  /\ loads' = [loads EXCEPT ![l] = [pc |-> "answered", answer |-> stored]]
  /\ UNCHANGED <<stored, top, mounted, list, search, searches, detail>>

\* The answer, or an error, arrives: loads do not look at each other.
LoadDone(l) ==
  /\ loads[l].pc = "answered"
  /\ loads' = [loads EXCEPT ![l] = IdleLoad]
  /\ \/ /\ mounted
        /\ list' \in {[list EXCEPT !.shown = loads[l].answer, !.loading = FALSE],
                      [list EXCEPT !.failed = TRUE, !.loading = FALSE]}
     \/ /\ ~mounted
        /\ UNCHANGED list
  /\ UNCHANGED <<stored, top, mounted, search, searches, detail>>

\* Pulled down, or "Tentar novamente": both only where the list is shown.
Refresh ==
  /\ top = "home" /\ ~searchActive /\ ~list.loading
  /\ list.failed \/ list.shown # {}
  /\ LoadReceipts
  /\ UNCHANGED <<stored, top, mounted, search, searches, detail>>

\* _navigateToScan: scanner and tracking screen are somebody else's; tracking
\* answers whether the job completed.
OpenScan ==
  /\ top = "home"
  /\ ~detail.mounted
  /\ top' = "scan"
  /\ UNCHANGED <<stored, mounted, list, loads, search, searches, detail>>

ScanDone ==
  /\ top = "scan"
  /\ top' = "home"
  /\ \/ LoadReceipts
     \/ UNCHANGED <<list, loads>>
  /\ UNCHANGED <<stored, mounted, search, searches, detail>>

\* A worker stores a receipt of the house, or another member deletes one.
OthersChange ==
  /\ \E r \in Receipts : stored' \in {stored \cup {r}, stored \ {r}}
  /\ stored' # stored
  /\ UNCHANGED <<top, mounted, list, loads, search, searches, detail>>

\* Logout, or the home route was popped: the screen is disposed.
Dispose ==
  /\ mounted
  /\ top \in {"home", "none"} /\ ~detail.mounted
  /\ top' = "none"
  /\ mounted' = FALSE
  /\ search' = [search EXCEPT !.timer = FALSE]
  /\ UNCHANGED <<stored, list, loads, searches, detail>>

-----------------------------------------------------------------------------
(***************************************************************************)
(* The search                                                              *)
(***************************************************************************)

\* _onQueryChanged: the user types, clears the text or scans a barcode.
QueryChanged(text) ==
  /\ top = "home"
  /\ \/ /\ text = Short
        /\ search' = [search EXCEPT !.query = text, !.timer = FALSE, !.results = NoAnswer,
                        !.failed = FALSE, !.loading = FALSE]
     \/ /\ text # Short
        /\ search' = [search EXCEPT !.query = text, !.timer = TRUE]
  /\ UNCHANGED <<stored, top, mounted, list, loads, searches, detail>>

\* _runSearch up to its request, for the search box s.
RunSearch(s) ==
  IF s.query = Short
  THEN search' = s /\ UNCHANGED searches
  ELSE \E i \in FreeSearches :
         /\ searches' = [searches EXCEPT ![i] = [text |-> s.query, period |-> s.period]]
         /\ search' = [s EXCEPT !.latest = i, !.loading = TRUE, !.failed = FALSE]

TimerFires ==
  /\ search.timer
  /\ RunSearch([search EXCEPT !.timer = FALSE])
  /\ UNCHANGED <<stored, top, mounted, list, loads, detail>>

\* _onPeriodChanged: the chips are shown during a search only.
PeriodChanged(period) ==
  /\ top = "home" /\ searchActive
  /\ RunSearch([search EXCEPT !.period = period])
  /\ UNCHANGED <<stored, top, mounted, list, loads, detail>>

\* "Tentar novamente"
RetrySearch ==
  /\ top = "home" /\ searchActive /\ search.failed
  /\ ~(search.loading /\ search.results = NoAnswer)
  /\ RunSearch(search)
  /\ UNCHANGED <<stored, top, mounted, list, loads, detail>>

\* Wrong: every answer is shown.
SearchDoneUnchecked(i) ==
  /\ searches[i] # NoAnswer
  /\ searches' = [searches EXCEPT ![i] = NoAnswer]
  /\ search' \in {[search EXCEPT !.results = searches[i], !.loading = FALSE],
                  [search EXCEPT !.failed = TRUE, !.loading = FALSE]}
  /\ UNCHANGED <<stored, top, mounted, list, loads, detail>>

\* Wrong: an error keeps the spinner turning.
SearchDoneKeepsSpinner(i) ==
  /\ searches[i] # NoAnswer
  /\ searches' = [searches EXCEPT ![i] = NoAnswer]
  /\ \/ /\ mounted /\ i = search.latest
        /\ search' \in {[search EXCEPT !.results = searches[i], !.loading = FALSE],
                        [search EXCEPT !.failed = TRUE]}
     \/ /\ ~(mounted /\ i = search.latest)
        /\ UNCHANGED search
  /\ UNCHANGED <<stored, top, mounted, list, loads, detail>>

\* The answer, or an error, arrives; only the latest call shows it.
SearchDone(i) ==
  /\ searches[i] # NoAnswer
  /\ searches' = [searches EXCEPT ![i] = NoAnswer]
  /\ \/ /\ mounted /\ i = search.latest
        /\ search' \in {[search EXCEPT !.results = searches[i], !.loading = FALSE],
                        [search EXCEPT !.failed = TRUE, !.loading = FALSE]}
     \/ /\ ~(mounted /\ i = search.latest)
        /\ UNCHANGED search
  /\ UNCHANGED <<stored, top, mounted, list, loads, detail>>

-----------------------------------------------------------------------------
(***************************************************************************)
(* The detail screen                                                       *)
(***************************************************************************)

Open(r, origin) ==
  /\ top' = "detail"
  /\ detail' = [ClosedDetail EXCEPT !.receipt = r, !.origin = origin, !.mounted = TRUE]
  /\ UNCHANGED <<stored, mounted, list, loads, search, searches>>

\* _navigateToDetail
TapReceipt ==
  /\ top = "home" /\ ~searchActive /\ ~detail.mounted /\ detail.deletion = "off"
  /\ ~list.loading /\ ~list.failed
  /\ \E r \in list.shown : Open(r, "list")

\* _navigateToReceiptById: a result names the receipt of the last purchase,
\* which may have been deleted since.
TapResult ==
  /\ top = "home" /\ searchActive /\ ~detail.mounted /\ detail.deletion = "off"
  /\ search.results # NoAnswer /\ ~search.failed
  /\ \E r \in Receipts : Open(r, "search")

\* Wrong: the list is left as it is.
CloseDetailQuietly(deleted) ==
  /\ top' = "home"
  /\ UNCHANGED <<list, loads>>

\* The detail screen is popped with the given answer, and the home screen
\* goes on in _navigateToDetail or _navigateToReceiptById.
CloseDetail(deleted) ==
  /\ top' = "home"
  /\ \/ /\ detail.origin = "search" \/ deleted
        /\ LoadReceipts
     \/ /\ detail.origin = "list" /\ ~deleted
        /\ UNCHANGED <<list, loads>>

\* _loadReceipt
DetailLoaded ==
  /\ detail.mounted /\ detail.view = "loading"
  /\ \E view \in {"shown", "error"} :
       /\ view = "shown" => detail.receipt \in stored
       /\ detail' = [detail EXCEPT !.view = view]
  /\ UNCHANGED <<stored, top, mounted, list, loads, search, searches>>

\* "Tentar novamente"
ReloadDetail ==
  /\ top = "detail" /\ detail.view = "error"
  /\ detail' = [detail EXCEPT !.view = "loading"]
  /\ UNCHANGED <<stored, top, mounted, list, loads, search, searches>>

\* _confirmDelete up to the dialog.
TapDelete ==
  /\ top = "detail" /\ detail.view = "shown" /\ detail.deletion = "off"
  /\ top' = "dialog"
  /\ detail' = [detail EXCEPT !.deletion = "confirm"]
  /\ UNCHANGED <<stored, mounted, list, loads, search, searches>>

\* Wrong: a cancelled dialog leaves the deletion where it was.
AnswerDialogForgets ==
  /\ top = "dialog"
  /\ top' = "detail"
  /\ detail' \in {[detail EXCEPT !.deletion = "asking"], detail}
  /\ UNCHANGED <<stored, mounted, list, loads, search, searches>>

\* "Remover", "Cancelar", and a tap beside the dialog.
AnswerDialog ==
  /\ top = "dialog"
  /\ top' = "detail"
  /\ detail' \in {[detail EXCEPT !.deletion = "asking"], [detail EXCEPT !.deletion = "off"]}
  /\ UNCHANGED <<stored, mounted, list, loads, search, searches>>

\* DELETE /receipts/{id}: it may be gone already, and request or answer may be
\* lost.
DeleteReceipt ==
  /\ detail.deletion = "asking"
  /\ \/ /\ detail.receipt \in stored
        /\ stored' = stored \ {detail.receipt}
        /\ detail' \in {[detail EXCEPT !.deletion = "deleted"], [detail EXCEPT !.deletion = "refused"]}
     \/ /\ detail' = [detail EXCEPT !.deletion = "refused"]
        /\ UNCHANGED stored
  /\ UNCHANGED <<top, mounted, list, loads, search, searches>>

\* The rest of _deleteReceipt.  Like every pop, this one takes the top route:
\* while the screen the user left is not disposed yet, that is the home screen.
DeletionDone ==
  /\ detail.deletion \in {"deleted", "refused"}
  /\ detail' = Settled([detail EXCEPT !.deletion = "off"])
  /\ \/ /\ detail.deletion = "deleted" /\ top = "detail"
        /\ CloseDetail(TRUE)
     \/ /\ detail.deletion = "deleted" /\ top = "home" /\ detail.mounted
        /\ top' = "none"
        /\ UNCHANGED <<list, loads>>
     \/ /\ detail.deletion = "refused" \/ ~detail.mounted
        /\ UNCHANGED <<top, list, loads>>
  /\ UNCHANGED <<stored, mounted, search, searches>>

\* The back button, also while the deletion is under way.
LeaveDetail ==
  /\ top = "detail"
  /\ CloseDetail(FALSE)
  /\ UNCHANGED <<stored, mounted, search, searches, detail>>

\* The exit animation ends.
DisposeDetail ==
  /\ detail.mounted /\ top \notin {"detail", "dialog"}
  /\ detail' = Settled([detail EXCEPT !.mounted = FALSE])
  /\ UNCHANGED <<stored, top, mounted, list, loads, search, searches>>

-----------------------------------------------------------------------------
UserStep ==
  \/ Refresh \/ OpenScan \/ ScanDone \/ RetrySearch \/ Dispose
  \/ TapReceipt \/ TapResult \/ ReloadDetail \/ TapDelete \/ AnswerDialog \/ LeaveDetail
  \/ \E text \in Texts \cup {Short} : QueryChanged(text)
  \/ \E period \in Periods : PeriodChanged(period)

LoadStep(l) == ListReceipts(l) \/ LoadDone(l)

Next ==
  \/ UserStep \/ OthersChange \/ TimerFires \/ DetailLoaded
  \/ DeleteReceipt \/ DeletionDone \/ DisposeDetail
  \/ \E l \in LoadIds : LoadStep(l)
  \/ \E i \in SearchIds : SearchDone(i)

Spec == Init /\ [][Next]_vars

\* Timers fire, requests are answered or fail, and Dart goes on after them.
Fairness ==
  /\ WF_vars(TimerFires) /\ WF_vars(DeletionDone) /\ WF_vars(DeleteReceipt)
  /\ \A l \in LoadIds : WF_vars(LoadStep(l))
  /\ \A i \in SearchIds : WF_vars(SearchDone(i))

FairSpec == Spec /\ Fairness

(***************************************************************************)
(* Properties                                                              *)
(***************************************************************************)

\* Types of the screens' fields and of the calls in flight; the deletion waits
\* for its dialog exactly while that is on top.
TypeOK ==
  /\ stored \subseteq Receipts
  /\ top \in {"home", "scan", "detail", "dialog", "none"}
  /\ mounted \in BOOLEAN
  /\ list \in ListState
  /\ loads \in [LoadIds -> Load]
  /\ search \in SearchState
  /\ searches \in Searches
  /\ detail \in DetailState
  /\ top = "dialog" <=> detail.deletion = "confirm"

\* Nothing is pending on the search shown.
Quiet == searchActive /\ ~search.timer /\ ~search.loading /\ mounted

\* Answers come in any order, and the text and the period change while they
\* are under way; once nothing is pending, the results shown are the answer to
\* the text and the period shown, or the search shown failed.
QuietResultsMatch ==
  Quiet => \/ search.failed
           \/ search.results = [text |-> search.query, period |-> search.period]

\* A spinner that turns is waiting for something: the search's for the latest
\* call, the list's for a call in flight.
SpinnersWait ==
  mounted => /\ search.loading => search.latest \in SearchIds /\ searches[search.latest] # NoAnswer
             /\ list.loading => \E l \in LoadIds : loads[l].pc # "off"

\* A user who leaves the screen alone finds it settled in the end: the list
\* loaded, and under a text the answer to it.
ScreenSettles ==
  \/ []<><<UserStep>>_vars
  \/ <>[](mounted => ~list.loading /\ (searchActive => Quiet))

\* mobile-receipt-deletion/spec.md: a receipt deleted here is gone from the
\* list in the end, unless the list fails to load, the receipt is stored anew,
\* or the user left the detail screen before the answer.
DeletedLeavesList ==
  \A r \in Receipts :
    (detail.deletion = "deleted" /\ detail.receipt = r /\ top = "detail") ~>
      \/ r \notin list.shown \/ list.failed \/ r \in stored
      \/ detail.deletion = "deleted" /\ top # "detail"
      \/ ~mounted
=============================================================================
