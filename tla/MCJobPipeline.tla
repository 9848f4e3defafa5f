--------------------------- MODULE MCJobPipeline ---------------------------
(***************************************************************************)
(* Instances of JobPipeline for TLC.                                       *)
(***************************************************************************)
EXTENDS JobPipeline, TLC

\* Ids, workers and requests of one house are interchangeable.
Symmetry == Permutations(JobIds) \cup Permutations(ReceiptIds)
              \cup Permutations(Workers) \cup Permutations(Requests)

\* One house for every request.
CONSTANT h1
OneHouse == [c \in Requests |-> h1]

\* A page the worker can use, or none at all.
UsableOrNone == {[html |-> "usable", cookies |-> "list"],
                 [html |-> "none",   cookies |-> "list"]}

\* One body for each branch of the resume.
AllBodies == UsableOrNone \cup {[html |-> "unusable", cookies |-> "list"],
                                [html |-> "usable",   cookies |-> "other"]}
=============================================================================
