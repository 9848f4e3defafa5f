--------------------------- MODULE ReceiptPromise ---------------------------
(***************************************************************************)
(* What scraping one receipt promises, without a browser: a session learns *)
(* the summary page or it does not, and from then on nothing that goes     *)
(* wrong with the detail page loses what was learnt, until a resume fails. *)
(*                                                                         *)
(*   known = "no"       nobody has read the summary page                   *)
(*   known = "session"  this session has                                   *)
(*   known = "job"      the job's row keeps it, for the sessions to come   *)
(***************************************************************************)
EXTENDS DetailBarcodes

VARIABLES
  paper,  \* the receipt
  stage,  \* where the job is
  known,  \* who knows the summary page
  items   \* the items stored

vars == <<paper, stage, known, items>>

Init ==
  /\ stage = "reading"
  /\ known = "no"
  /\ items = <<>>

Become(s, k) ==
  /\ stage = "reading"
  /\ stage' = s
  /\ known' = k
  /\ UNCHANGED <<paper, items>>

Learn == known = "no" /\ Become("reading", "session")

\* A user is asked to solve a challenge; what is known stays with the job.
Pause == Become("paused", IF known = "no" THEN "no" ELSE "job")

\* The site or the browser fails: only a session that learnt nothing new does,
\* and the retry starts over.
Fail == known # "session" /\ Become("failed", "no")

\* The user's solution was refused too often.
Expire == known # "session" /\ Become("expired", known)

Unreadable == known = "no" /\ Become("unreadable", "no")

\* The summary's items, whatever became of their barcodes.
SameItems(a, b) ==
  /\ DOMAIN a = DOMAIN b
  /\ \A i \in DOMAIN a : /\ a[i].description = b[i].description
                         /\ a[i].price = b[i].price

Store ==
  /\ stage = "reading" /\ known # "no"
  /\ stage' = "stored"
  /\ SameItems(SummaryItems(paper), items')
  /\ UNCHANGED <<paper, known>>

Again ==
  /\ stage \in {"paused", "failed"}
  /\ stage' = "reading"
  /\ UNCHANGED <<paper, known, items>>

Next == Learn \/ Pause \/ Fail \/ Expire \/ Unreadable \/ Store \/ Again

Spec == Init /\ [][Next]_vars
=============================================================================
