-------------------------- MODULE HomeScreenProofs --------------------------
(***************************************************************************)
(* Theorems about HomeScreen and their proofs, for any texts, periods and  *)
(* receipts and any number of searches and loads in flight.                *)
(*                                                                         *)
(*   1. types:    Spec => []TypeOK;                                        *)
(*   2. spinners: Spec => []SpinnersWait;                                  *)
(*   3. results:  Spec => []QuietResultsMatch.                             *)
(***************************************************************************)
EXTENDS HomeScreen, TLAPS

-----------------------------------------------------------------------------
(***************************************************************************)
(* 1. Types                                                                *)
(***************************************************************************)

\* _loadReceipts keeps the types of the list and of its calls, and turns the
\* spinner for a call in flight.
LEMMA LoadReceiptsType ==
  ASSUME TypeOK, LoadReceipts
  PROVE  /\ list' \in ListState
         /\ loads' \in [LoadIds -> Load]
         /\ \E l \in LoadIds : loads'[l].pc # "off"
<1> DEFINE m == CHOOSE l \in FreeLoads : TRUE
<1>1. m \in LoadIds
  BY DEF LoadReceipts, FreeLoads
<1>2. loads' = [loads EXCEPT ![m].pc = "asking"]
  BY DEF LoadReceipts
<1>3. loads' \in [LoadIds -> Load] /\ loads'[m].pc = "asking"
  BY <1>1, <1>2 DEF TypeOK, Load
<1>4. list' \in ListState
  BY DEF TypeOK, LoadReceipts, ListState
<1>5. QED
  BY <1>1, <1>3, <1>4

\* A call of _runSearch for a text asks for the text and the period of the
\* search box, and is the latest one.
LEMMA RunSearchAsks ==
  ASSUME TypeOK, NEW s \in SearchState, RunSearch(s), s.query # Short
  PROVE  /\ search' \in SearchState /\ searches' \in Searches
         /\ search'.latest \in SearchIds
         /\ searches'[search'.latest] = [text |-> search'.query, period |-> search'.period]
         /\ searches'[search'.latest] # NoAnswer
         /\ search'.loading
<1>1. PICK i \in FreeSearches :
        /\ searches' = [searches EXCEPT ![i] = [text |-> s.query, period |-> s.period]]
        /\ search' = [s EXCEPT !.latest = i, !.loading = TRUE, !.failed = FALSE]
  BY DEF RunSearch
<1>2. i \in SearchIds /\ i \in 0 .. MaxSearches
  BY <1>1, HomeAssumption DEF FreeSearches, SearchIds
<1>3. s.query \in Texts /\ s.period \in Periods
  BY DEF SearchState
<1>4. [text |-> s.query, period |-> s.period] \in Answer
  BY <1>3 DEF Answer
<1>5. [text |-> s.query, period |-> s.period] # NoAnswer
  BY <1>4, HomeAssumption DEF Answer
<1>6. searches' \in Searches
  BY <1>1, <1>2, <1>4 DEF TypeOK, Searches
<1>7. /\ search' \in SearchState
      /\ search'.latest = i /\ search'.loading
      /\ search'.query = s.query /\ search'.period = s.period
  BY <1>1, <1>2 DEF SearchState
<1>8. searches'[i] = [text |-> s.query, period |-> s.period]
  BY <1>1, <1>2 DEF TypeOK, Searches
<1>9. QED
  BY <1>2, <1>5, <1>6, <1>7, <1>8

\* _runSearch keeps the types of the search box and of its calls.
LEMMA RunSearchType ==
  ASSUME TypeOK, NEW s \in SearchState, RunSearch(s)
  PROVE  search' \in SearchState /\ searches' \in Searches
<1>1. CASE s.query = Short
  BY <1>1 DEF RunSearch, TypeOK
<1>2. CASE s.query # Short
  BY <1>2, RunSearchAsks
<1>3. QED
  BY <1>1, <1>2

\* What is left of a detail screen has a detail screen's type.
LEMMA SettledType ==
  ASSUME NEW d \in DetailState
  PROVE  /\ Settled(d) \in DetailState
         /\ Settled(d).deletion = d.deletion
<1>1. ClosedDetail \in DetailState
  BY DEF ClosedDetail, DetailState
<1>2. QED
  BY <1>1 DEF Settled, ClosedDetail

\* The home screen gets a screen's answer with its types kept.
LEMMA CloseDetailType ==
  ASSUME TypeOK, NEW deleted \in BOOLEAN, CloseDetail(deleted)
  PROVE  /\ top' = "home" /\ list' \in ListState /\ loads' \in [LoadIds -> Load]
<1>1. CASE LoadReceipts
  BY <1>1, LoadReceiptsType DEF CloseDetail
<1>2. CASE UNCHANGED <<list, loads>>
  BY <1>2 DEF CloseDetail, TypeOK
<1>3. QED
  BY <1>1, <1>2 DEF CloseDetail

\* A detail screen opens with its type.
LEMMA OpenType ==
  ASSUME TypeOK, top = "home", NEW r \in Receipts, NEW origin \in {"list", "search"},
         Open(r, origin)
  PROVE  TypeOK'
<1>1. detail' \in DetailState /\ detail'.deletion = "off"
  BY DEF Open, ClosedDetail, DetailState
<1>2. QED
  BY <1>1 DEF Open, TypeOK

\* The fields of the screens and the calls in flight keep their types, and a
\* deletion waits for its dialog exactly while that is on top.
THEOREM HomeTypes == Spec => []TypeOK
<1>1. Init => TypeOK
  <2> SUFFICES ASSUME Init PROVE TypeOK
    OBVIOUS
  <2>1. list \in ListState
    BY DEF Init, ListState
  <2>2. loads \in [LoadIds -> Load]
    BY DEF Init, Load, IdleLoad
  <2>3. search \in SearchState /\ searches \in Searches
    BY HomeAssumption DEF Init, SearchState, Searches
  <2>4. detail \in DetailState /\ detail.deletion = "off"
    BY DEF Init, ClosedDetail, DetailState
  <2>5. QED
    BY <2>1, <2>2, <2>3, <2>4 DEF Init, TypeOK
<1>2. TypeOK /\ [Next]_vars => TypeOK'
  <2> SUFFICES ASSUME TypeOK, [Next]_vars PROVE TypeOK'
    OBVIOUS
  <2>1. CASE Refresh
    BY <2>1, LoadReceiptsType DEF Refresh, TypeOK
  <2>2. CASE OpenScan
    BY <2>2 DEF OpenScan, TypeOK
  <2>3. CASE ScanDone
    BY <2>3, LoadReceiptsType DEF ScanDone, TypeOK
  <2>4. CASE Dispose
    <3>1. search' \in SearchState
      BY <2>4 DEF Dispose, TypeOK, SearchState
    <3>2. QED
      BY <2>4, <3>1 DEF Dispose, TypeOK
  <2>5. CASE TapReceipt
    BY <2>5, OpenType DEF TapReceipt, TypeOK, ListState
  <2>6. CASE TapResult
    BY <2>6, OpenType DEF TapResult
  <2>7. CASE ReloadDetail
    BY <2>7 DEF ReloadDetail, TypeOK, DetailState
  <2>8. CASE TapDelete
    BY <2>8 DEF TapDelete, TypeOK, DetailState
  <2>9. CASE AnswerDialog
    BY <2>9 DEF AnswerDialog, TypeOK, DetailState
  <2>10. CASE LeaveDetail
    BY <2>10, CloseDetailType DEF LeaveDetail, TypeOK
  <2>11. ASSUME NEW text \in Texts \cup {Short}, QueryChanged(text)
         PROVE  TypeOK'
    <3>1. search' \in SearchState
      BY <2>11 DEF QueryChanged, TypeOK, SearchState
    <3>2. QED
      BY <2>11, <3>1 DEF QueryChanged, TypeOK
  <2>12. ASSUME NEW period \in Periods, PeriodChanged(period)
         PROVE  TypeOK'
    <3>1. [search EXCEPT !.period = period] \in SearchState
      BY DEF TypeOK, SearchState
    <3>2. QED
      BY <2>12, <3>1, RunSearchType DEF PeriodChanged, TypeOK
  <2>13. CASE RetrySearch
    BY <2>13, RunSearchType DEF RetrySearch, TypeOK
  <2>14. CASE TimerFires
    <3>1. [search EXCEPT !.timer = FALSE] \in SearchState
      BY DEF TypeOK, SearchState
    <3>2. QED
      BY <2>14, <3>1, RunSearchType DEF TimerFires, TypeOK
  <2>15. ASSUME NEW i \in SearchIds, SearchDone(i)
         PROVE  TypeOK'
    <3>1. searches' \in Searches
      BY <2>15 DEF SearchDone, TypeOK, Searches
    <3>2. search' \in SearchState
      BY <2>15 DEF SearchDone, TypeOK, SearchState, Searches
    <3>3. QED
      BY <2>15, <3>1, <3>2 DEF SearchDone, TypeOK
  <2>16. ASSUME NEW l \in LoadIds, ListReceipts(l)
         PROVE  TypeOK'
    BY <2>16 DEF ListReceipts, TypeOK, Load
  <2>17. ASSUME NEW l \in LoadIds, LoadDone(l)
         PROVE  TypeOK'
    <3>1. list' \in ListState
      BY <2>17 DEF LoadDone, TypeOK, ListState, Load
    <3>2. loads' \in [LoadIds -> Load]
      BY <2>17 DEF LoadDone, TypeOK, IdleLoad, Load
    <3>3. QED
      BY <2>17, <3>1, <3>2 DEF LoadDone, TypeOK
  <2>18. CASE OthersChange
    BY <2>18 DEF OthersChange, TypeOK
  <2>19. CASE DetailLoaded
    BY <2>19 DEF DetailLoaded, TypeOK, DetailState
  <2>20. CASE DeleteReceipt
    <3>1. /\ detail' \in DetailState
          /\ detail'.deletion # "confirm" /\ top # "dialog"
      BY <2>20 DEF DeleteReceipt, TypeOK, DetailState
    <3>2. QED
      BY <2>20, <3>1 DEF DeleteReceipt, TypeOK
  <2>21. CASE DeletionDone
    <3>1. [detail EXCEPT !.deletion = "off"] \in DetailState
      BY DEF TypeOK, DetailState
    <3>2. detail' \in DetailState /\ detail'.deletion = "off"
      BY <2>21, <3>1, SettledType DEF DeletionDone, DetailState
    <3>3. top # "dialog"
      BY <2>21 DEF DeletionDone, TypeOK
    <3>4. CASE CloseDetail(TRUE)
      BY <2>21, <3>2, <3>4, CloseDetailType DEF DeletionDone, TypeOK
    <3>5. CASE top' \in {top, "none"} /\ UNCHANGED <<list, loads>>
      BY <2>21, <3>2, <3>3, <3>5 DEF DeletionDone, TypeOK
    <3>6. QED
      BY <2>21, <3>4, <3>5 DEF DeletionDone
  <2>22. CASE DisposeDetail
    <3>1. [detail EXCEPT !.mounted = FALSE] \in DetailState
      BY DEF TypeOK, DetailState
    <3>2. detail' \in DetailState /\ detail'.deletion = detail.deletion
      BY <2>22, <3>1, SettledType DEF DisposeDetail, DetailState
    <3>3. QED
      BY <2>22, <3>2 DEF DisposeDetail, TypeOK
  <2>23. CASE UNCHANGED vars
    BY <2>23 DEF vars, TypeOK
  <2>24. QED
    BY <2>1, <2>2, <2>3, <2>4, <2>5, <2>6, <2>7, <2>8, <2>9, <2>10, <2>11, <2>12,
       <2>13, <2>14, <2>15, <2>16, <2>17, <2>18, <2>19, <2>20, <2>21, <2>22, <2>23
    DEF Next, UserStep, LoadStep
<1>3. QED
  BY <1>1, <1>2, PTL DEF Spec

-----------------------------------------------------------------------------
(***************************************************************************)
(* 2. Spinners                                                             *)
(***************************************************************************)

\* The steps that touch the search box and its calls: one of _runSearch that
\* asks, one that changes the text, an answer, the screen's end.
SearchStep ==
  \/ \E s \in SearchState : RunSearch(s) /\ s.query # Short
  \/ \E text \in Texts \cup {Short} : QueryChanged(text)
  \/ \E i \in SearchIds : SearchDone(i)
  \/ Dispose
  \/ search.query = Short /\ search' = [search EXCEPT !.timer = FALSE] /\ UNCHANGED searches
  \/ UNCHANGED <<search, searches>>

\* The screen is never mounted again.
LEMMA SearchSteps ==
  ASSUME TypeOK, [Next]_vars
  PROVE  SearchStep /\ (mounted' => mounted)
<1>1. CASE Refresh \/ OpenScan \/ ScanDone \/ TapReceipt \/ TapResult \/ ReloadDetail
           \/ TapDelete \/ AnswerDialog \/ LeaveDetail
  <2>1. UNCHANGED <<search, searches, mounted>>
    BY <1>1 DEF Refresh, OpenScan, ScanDone, TapReceipt, TapResult, Open, ReloadDetail, TapDelete,
                AnswerDialog, LeaveDetail
  <2>2. QED
    BY <2>1 DEF SearchStep
<1>2. CASE \/ OthersChange \/ DetailLoaded \/ DeleteReceipt \/ DeletionDone \/ DisposeDetail
           \/ \E l \in LoadIds : LoadStep(l)
  <2>1. ASSUME OthersChange \/ DetailLoaded \/ DeleteReceipt \/ DeletionDone \/ DisposeDetail
        PROVE  UNCHANGED <<search, searches, mounted>>
    BY <2>1 DEF OthersChange, DetailLoaded, DeleteReceipt, DeletionDone, DisposeDetail
  <2>2. ASSUME NEW l \in LoadIds, LoadStep(l)
        PROVE  UNCHANGED <<search, searches, mounted>>
    BY <2>2 DEF LoadStep, ListReceipts, LoadDone
  <2>3. QED
    BY <1>2, <2>1, <2>2 DEF SearchStep
<1>3. CASE Dispose
  BY <1>3 DEF Dispose, SearchStep
<1>4. ASSUME NEW text \in Texts \cup {Short}, QueryChanged(text)
      PROVE  SearchStep /\ (mounted' => mounted)
  <2>1. UNCHANGED mounted
    BY <1>4 DEF QueryChanged
  <2>2. QED
    BY <1>4, <2>1 DEF SearchStep
<1>5. ASSUME NEW period \in Periods, PeriodChanged(period)
      PROVE  SearchStep /\ (mounted' => mounted)
  <2>1. /\ [search EXCEPT !.period = period] \in SearchState
        /\ [search EXCEPT !.period = period].query = search.query
    BY DEF TypeOK, SearchState
  <2>2. RunSearch([search EXCEPT !.period = period]) /\ search.query # Short
    BY <1>5 DEF PeriodChanged, searchActive
  <2>3. UNCHANGED mounted
    BY <1>5 DEF PeriodChanged
  <2>4. QED
    BY <2>1, <2>2, <2>3 DEF SearchStep
<1>6. CASE RetrySearch
  BY <1>6 DEF RetrySearch, searchActive, TypeOK, SearchStep
<1>7. CASE TimerFires
  <2> DEFINE s == [search EXCEPT !.timer = FALSE]
  <2>1. s \in SearchState /\ s.query = search.query
    BY DEF TypeOK, SearchState
  <2>2. RunSearch(s) /\ UNCHANGED mounted
    BY <1>7 DEF TimerFires
  <2> HIDE DEF s
  <2>3. CASE s.query = Short
    <3>1. search' = s /\ UNCHANGED searches
      BY <2>2, <2>3 DEF RunSearch
    <3>2. QED
      BY <2>1, <2>2, <2>3, <3>1 DEF s, SearchStep
  <2>4. CASE s.query # Short
    BY <2>1, <2>2, <2>4 DEF SearchStep
  <2>5. QED
    BY <2>3, <2>4
<1>8. ASSUME NEW i \in SearchIds, SearchDone(i)
      PROVE  SearchStep /\ (mounted' => mounted)
  <2>1. UNCHANGED mounted
    BY <1>8 DEF SearchDone
  <2>2. QED
    BY <1>8, <2>1 DEF SearchStep
<1>9. CASE UNCHANGED vars
  BY <1>9 DEF vars, SearchStep
<1>10. QED
  BY <1>1, <1>2, <1>3, <1>4, <1>5, <1>6, <1>7, <1>8, <1>9 DEF Next, UserStep

\* The search's spinner waits for the latest call; the list's for a load.
SearchSpins == search.loading => search.latest \in SearchIds /\ searches[search.latest] # NoAnswer
ListSpins   == list.loading => \E l \in LoadIds : loads[l].pc # "off"

\* A step of the search keeps what its spinner waits for.
LEMMA SearchSpinsStep ==
  ASSUME TypeOK, SearchStep, mounted' => mounted, mounted => SearchSpins
  PROVE  mounted' => SearchSpins'
<1> SUFFICES ASSUME mounted, mounted' PROVE SearchSpins'
  OBVIOUS
<1>1. ASSUME NEW s \in SearchState, RunSearch(s), s.query # Short
      PROVE  SearchSpins'
  BY <1>1, RunSearchAsks DEF SearchSpins
<1>2. ASSUME NEW text \in Texts \cup {Short}, QueryChanged(text)
      PROVE  SearchSpins'
  BY <1>2 DEF QueryChanged, SearchSpins, TypeOK, SearchState
<1>3. ASSUME NEW i \in SearchIds, SearchDone(i)
      PROVE  SearchSpins'
  <2>1. CASE i = search.latest
    BY <1>3, <2>1 DEF SearchDone, SearchSpins, TypeOK, SearchState
  <2>2. CASE i # search.latest
    BY <1>3, <2>2 DEF SearchDone, SearchSpins, TypeOK, SearchState, Searches
  <2>3. QED
    BY <2>1, <2>2
<1>4. CASE Dispose
  BY <1>4 DEF Dispose
<1>5. CASE search' = [search EXCEPT !.timer = FALSE] /\ UNCHANGED searches
  BY <1>5 DEF SearchSpins, TypeOK, SearchState
<1>6. CASE UNCHANGED <<search, searches>>
  BY <1>6 DEF SearchSpins
<1>7. QED
  BY <1>1, <1>2, <1>3, <1>4, <1>5, <1>6 DEF SearchStep

\* A step of the list, which may be one of another screen that closes, keeps
\* what its spinner waits for.
LEMMA ListSpinsStep ==
  ASSUME TypeOK, [Next]_vars, mounted' => mounted, mounted => ListSpins
  PROVE  mounted' => ListSpins'
<1> SUFFICES ASSUME mounted, mounted' PROVE ListSpins'
  OBVIOUS
<1>1. CASE LoadReceipts
  BY <1>1, LoadReceiptsType DEF ListSpins
<1>2. CASE UNCHANGED <<list, loads>>
  BY <1>2 DEF ListSpins
<1>3. ASSUME NEW l \in LoadIds, ListReceipts(l)
      PROVE  ListSpins'
  BY <1>3 DEF ListReceipts, ListSpins, TypeOK, Load
<1>4. ASSUME NEW l \in LoadIds, LoadDone(l)
      PROVE  ListSpins'
  BY <1>4 DEF LoadDone, ListSpins, TypeOK, ListState
<1>5. LoadReceipts \/ UNCHANGED <<list, loads>> \/ \E l \in LoadIds : LoadStep(l)
  <2>1. CASE Refresh \/ ScanDone \/ LeaveDetail \/ DeletionDone
    BY <2>1 DEF Refresh, ScanDone, LeaveDetail, DeletionDone, CloseDetail
  <2>2. CASE \/ OpenScan \/ RetrySearch \/ Dispose \/ TapReceipt \/ TapResult \/ ReloadDetail
             \/ TapDelete \/ AnswerDialog
    BY <2>2 DEF OpenScan, RetrySearch, Dispose, TapReceipt, TapResult, Open, ReloadDetail,
                TapDelete, AnswerDialog
  <2>3. CASE \/ OthersChange \/ TimerFires \/ DetailLoaded \/ DeleteReceipt \/ DisposeDetail
             \/ UNCHANGED vars
    BY <2>3 DEF OthersChange, TimerFires, DetailLoaded, DeleteReceipt, DisposeDetail, vars
  <2>4. CASE \/ \E text \in Texts \cup {Short} : QueryChanged(text)
             \/ \E period \in Periods : PeriodChanged(period)
             \/ \E i \in SearchIds : SearchDone(i)
    BY <2>4 DEF QueryChanged, PeriodChanged, SearchDone
  <2>5. QED
    BY <2>1, <2>2, <2>3, <2>4 DEF Next, UserStep
<1>6. QED
  BY <1>1, <1>2, <1>3, <1>4, <1>5 DEF LoadStep

\* The spinners of the home screen always wait for something.
THEOREM SpinnersWaitAlways == Spec => []SpinnersWait
<1>1. Init => SpinnersWait
  <2> SUFFICES ASSUME Init PROVE SpinnersWait
    OBVIOUS
  <2>1. 1 \in LoadIds
    BY HomeAssumption DEF LoadIds
  <2>2. loads[1].pc = "asking"
    BY <2>1 DEF Init, IdleLoad
  <2>3. QED
    BY <2>1, <2>2 DEF Init, SpinnersWait
<1>2. TypeOK /\ SpinnersWait /\ [Next]_vars => SpinnersWait'
  <2> SUFFICES ASSUME TypeOK, SpinnersWait, [Next]_vars PROVE SpinnersWait'
    OBVIOUS
  <2>1. (mounted => SearchSpins) /\ (mounted => ListSpins)
    BY DEF SpinnersWait, SearchSpins, ListSpins
  <2>2. (mounted' => SearchSpins') /\ (mounted' => ListSpins')
    BY <2>1, SearchSteps, SearchSpinsStep, ListSpinsStep
  <2>3. QED
    BY <2>2 DEF SpinnersWait, SearchSpins, ListSpins
<1>3. QED
  BY <1>1, <1>2, HomeTypes, PTL DEF Spec

-----------------------------------------------------------------------------
(***************************************************************************)
(* 3. Results                                                              *)
(***************************************************************************)

\* What the search shown asks for.
Asked == [text |-> search.query, period |-> search.period]

\* Once no timer is pending, the latest call asks for what is shown, and when
\* it is not waited for, its answer is there or it failed.
SearchInv ==
  mounted /\ searchActive /\ ~search.timer =>
    /\ search.latest \in SearchIds
    /\ searches[search.latest] # NoAnswer => searches[search.latest] = Asked
    /\ ~search.loading => search.failed \/ search.results = Asked

\* Every step keeps that.
LEMMA SearchInvStep ==
  ASSUME TypeOK, SearchInv, SearchStep, mounted' => mounted
  PROVE  SearchInv'
<1> SUFFICES ASSUME mounted, mounted', search'.query # Short, ~search'.timer
             PROVE  /\ search'.latest \in SearchIds
                    /\ searches'[search'.latest] # NoAnswer => searches'[search'.latest] = Asked'
                    /\ ~search'.loading => search'.failed \/ search'.results = Asked'
  BY DEF SearchInv, searchActive
<1>1. ASSUME NEW s \in SearchState, RunSearch(s), s.query # Short
      PROVE  SearchInv'
  BY <1>1, RunSearchAsks DEF SearchInv, Asked
<1>2. ASSUME NEW text \in Texts \cup {Short}, QueryChanged(text)
      PROVE  FALSE
  BY <1>2 DEF QueryChanged, TypeOK, SearchState
<1>3. ASSUME NEW i \in SearchIds, SearchDone(i)
      PROVE  SearchInv'
  <2>1. CASE i = search.latest
    <3>1. /\ search'.query = search.query /\ search'.period = search.period
          /\ search'.timer = search.timer /\ search'.latest = i
          /\ search'.failed \/ search'.results = searches[i]
      BY <1>3, <2>1 DEF SearchDone, TypeOK, SearchState
    <3>2. searches'[i] = NoAnswer
      BY <1>3 DEF SearchDone, TypeOK, Searches
    <3>3. searches[i] = Asked
      BY <1>3, <2>1, <3>1 DEF SearchInv, searchActive, SearchDone
    <3>4. QED
      BY <3>1, <3>2, <3>3 DEF SearchInv, Asked
  <2>2. CASE i # search.latest
    BY <1>3, <2>2 DEF SearchDone, SearchInv, searchActive, Asked, TypeOK, Searches
  <2>3. QED
    BY <2>1, <2>2
<1>4. CASE Dispose
  BY <1>4 DEF Dispose
<1>5. CASE search.query = Short /\ search' = [search EXCEPT !.timer = FALSE]
  BY <1>5 DEF TypeOK, SearchState
<1>6. CASE UNCHANGED <<search, searches>>
  BY <1>6 DEF SearchInv, searchActive, Asked
<1>7. QED
  BY <1>1, <1>2, <1>3, <1>4, <1>5, <1>6 DEF SearchStep, SearchInv, searchActive

\* The results under a text on which nothing is pending are the answer to it,
\* in whatever order the answers came.
THEOREM QuietResultsMatchAlways == Spec => []QuietResultsMatch
<1>1. Init => SearchInv
  BY DEF Init, SearchInv, searchActive
<1>2. TypeOK /\ SearchInv /\ [Next]_vars => SearchInv'
  BY SearchSteps, SearchInvStep
<1>3. SearchInv => QuietResultsMatch
  BY DEF SearchInv, QuietResultsMatch, Quiet, Asked
<1>4. QED
  BY <1>1, <1>2, <1>3, HomeTypes, PTL DEF Spec
=============================================================================
