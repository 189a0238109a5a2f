------------------------- MODULE AnalysisLifecycle -------------------------
(***************************************************************************)
(* What one candidate may rely on, without queues, workers or sessions: an  *)
(* Analysis is submitted, worked on any number of times, and ends; once it  *)
(* is COMPLETED its result is there for good and only a requeue, which may  *)
(* have judged the row before it ended, opens it again.                     *)
(***************************************************************************)
CONSTANT Analyses

VARIABLES
  status,   \* the status the candidate reads
  results   \* Analyses whose result is recorded

vars == <<status, results>>

Open == {"PENDING", "RUNNING_CREW", "AWAITING_RESULT"}

Init ==
  /\ status = [a \in Analyses |-> "ABSENT"]
  /\ results = {}

Change(a, from, to) ==
  /\ status[a] \in from
  /\ status' = [status EXCEPT ![a] = to]

Submit(a) == Change(a, {"ABSENT"}, "PENDING") /\ UNCHANGED results

\* Queued, interrupted or FAILED: a message may have it worked on (again).
Work(a) == Change(a, Open \cup {"FAILED"}, "RUNNING_CREW") /\ UNCHANGED results

HandOver(a) == Change(a, {"RUNNING_CREW", "PENDING"}, "AWAITING_RESULT") /\ UNCHANGED results

Complete(a) ==
  /\ Change(a, {"AWAITING_RESULT", "PENDING"}, "COMPLETED")
  /\ results' = results \cup {a}

Fail(a) == Change(a, Open, "FAILED") /\ UNCHANGED results

Requeue(a) == Change(a, Open \cup {"COMPLETED", "FAILED"}, "PENDING") /\ UNCHANGED results

Next ==
  \E a \in Analyses :
    \/ Submit(a) \/ Work(a) \/ HandOver(a) \/ Complete(a) \/ Fail(a) \/ Requeue(a)

\* Every open Analysis is ended sooner or later.
Spec ==
  /\ Init /\ [][Next]_vars
  /\ \A a \in Analyses : WF_vars(Complete(a) \/ Fail(a))
=============================================================================
