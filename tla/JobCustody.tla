----------------------------- MODULE JobCustody -----------------------------
(***************************************************************************)
(* What the pipeline promises of each job, without queues, tables or       *)
(* workers: the job is passed from hand to hand until it gets a verdict,   *)
(* and the verdict is given once.                                          *)
(*                                                                         *)
(*   nobody -> request -> queue -> worker -> verdict                       *)
(*                ^         ^        | |                                   *)
(*                |         '--------' |   (retry)                         *)
(*                '------- user <------'   (captcha)                       *)
(*                                                                         *)
(* The request that submits a job may give it up, a user who does not      *)
(* solve a captcha in time loses it.                                       *)
(***************************************************************************)
CONSTANT JobIds

VARIABLES
  keeper,   \* who has the job
  verdict   \* how it ended, "open" before

vars == <<keeper, verdict>>

Keeper  == {"nobody", "request", "queue", "worker", "user", "closed"}
Verdict == {"open", "completed", "failed"}

Init ==
  /\ keeper  = [j \in JobIds |-> "nobody"]
  /\ verdict = [j \in JobIds |-> "open"]

Pass(j, from, to) ==
  /\ keeper[j] = from
  /\ keeper' = [keeper EXCEPT ![j] = to]
  /\ UNCHANGED verdict

Close(j, from, v) ==
  /\ keeper[j] = from
  /\ keeper'  = [keeper EXCEPT ![j] = "closed"]
  /\ verdict' = [verdict EXCEPT ![j] = v]

Submit(j)  == Pass(j, "nobody", "request")
Publish(j) == Pass(j, "request", "queue")
Take(j)    == Pass(j, "queue", "worker")
Retry(j)   == Pass(j, "worker", "queue")
Park(j)    == Pass(j, "worker", "user")
Solve(j)   == Pass(j, "user", "request")

GiveUp(j)    == Close(j, "request", "failed")
Finish(j)    == \E v \in {"completed", "failed"} : Close(j, "worker", v)

\* The ticker closes every pause that is too old, several at once.
Expire(S) ==
  /\ S # {}
  /\ \A j \in S : keeper[j] = "user"
  /\ keeper'  = [j \in JobIds |-> IF j \in S THEN "closed" ELSE keeper[j]]
  /\ verdict' = [j \in JobIds |-> IF j \in S THEN "failed" ELSE verdict[j]]

Next ==
  \/ \E j \in JobIds :
       \/ Submit(j) \/ Publish(j) \/ Take(j) \/ Retry(j) \/ Park(j) \/ Solve(j)
       \/ GiveUp(j) \/ Finish(j)
  \/ \E S \in SUBSET JobIds : Expire(S)

Spec == Init /\ [][Next]_vars

\* Nobody but the user keeps a job for ever, and the ticker takes it from him.
NobodyKeepsForEver ==
  \A j \in JobIds : \A k \in {"request", "queue", "worker", "user"} :
    keeper[j] = k ~> keeper[j] # k
=============================================================================
