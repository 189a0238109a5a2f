----------------------------- MODULE ScoutPage -----------------------------
(***************************************************************************)
(* The Scouts page (app/(app)/scouts/page.tsx), its panel                  *)
(* (components/scout-panel.tsx) and the Scout form, over the Run state     *)
(* that services/api derives from the pipeline's rows                      *)
(* (packages/py-db/src/py_db/scout_run_state.py).                          *)
(*                                                                         *)
(* The panel's mutations are mounted once for whichever Scout is open, the *)
(* page shows a cached list, and runs also start in another tab.  How a    *)
(* run is scheduled and dispatched in detail is ScoutRuns; here it passes  *)
(* through the stages the Run state tells apart.                           *)
(***************************************************************************)
EXTENDS Naturals, Sequences, FiniteSets, FiniteSetsExt

CONSTANTS
  Scouts,
  Openings,    \* what the page opens on: the Scouts, the one with a blocked Analysis, ?open=
  ActiveCap,   \* Quotakind.ACTIVE_SCOUTS
  MaxRuns,     \* ScoutRuns
  MaxHours,    \* hours that pass
  MaxClicks,   \* what the Candidate does, in this tab and in another one
  MaxFaults    \* lost requests and answers, deaths of a worker

VARIABLES
  status,   \* [Scouts -> Scout.status, or "ABSENT"]
  runs,     \* the ScoutRuns, in the order they were created
  hour,     \* the clock, in hours
  list,     \* [Scouts -> the cached row of GET /scouts]
  stale,    \* the list is being fetched again
  known,    \* [Scouts -> the latest run of the cached history, and whether one is going]
  due,      \* Scouts whose history is fetched again when the panel shows them
  shown,    \* panelId
  screen,   \* the list, the form for a Scout, or another page
  run,      \* the "Run now" mutation, with the latest run the panel knew at the click
  update,   \* the panel's and the form's PATCH or POST
  requeue,  \* the repair: the rows whose request is under way, and those whose failed
  repairFailure,
  undone,   \* [Scouts -> the rows its latest repair was answered nothing but an error for]
  behind,   \* requests of pages that were left: served, and heard by the cache alone
  clicks,
  faults

server == <<status, runs, hour>>
cache == <<list, stale, known, due>>
mutations == <<run, update, requeue, repairFailure, undone, behind>>
vars == <<server, cache, shown, screen, mutations, clicks, faults>>

Nothing == "nothing"
NoRun == 0
Ids == 1..MaxRuns
Screens == {"list", "form", "away"}
ScoutStatus == {"ABSENT", "ACTIVE", "PAUSED", "ARCHIVED"}
\* STALE: left RUNNING by a worker that died, past the staleness bound.
RunStatus == {"PENDING", "RUNNING", "STALE", "COMPLETED", "PARTIALLY_COMPLETED", "FAILED"}
\* A run's IngestionJobs, then its Analyses; "ready" is between the two.
Work == {"none", "jobs", "abandoned", "ready", "analyses", "blocked", "over"}
\* failed: its failedCount is not 0.
Run == [of : Scouts, hour : 0..MaxHours, status : RunStatus, queued : BOOLEAN, work : Work,
        failed : BOOLEAN]
RunState == {"IN_FLIGHT", "BLOCKED", "FAILED", "DEGRADED", "NEVER_RUN", "OK"}

PageAssumption ==
  /\ MaxRuns \in Nat \ {0} /\ MaxHours \in Nat /\ MaxClicks \in Nat /\ MaxFaults \in Nat
  /\ Nothing \notin Scouts /\ ActiveCap \in Nat
  /\ Openings \subseteq [status : [Scouts -> ScoutStatus], blocked : Scouts \cup {Nothing},
                         open : Scouts \cup {Nothing}]

-----------------------------------------------------------------------------
(* What the API reads *)

RunsOf(s) == {i \in DOMAIN runs : runs[i].of = s}
Latest(s) == IF RunsOf(s) = {} THEN NoRun ELSE Max(RunsOf(s))
StatusOfLatest(s) == IF RunsOf(s) = {} THEN "none" ELSE runs[Latest(s)].status
WorkOf(s) == {runs[i].work : i \in RunsOf(s)}
Blocked(s) == {i \in RunsOf(s) : runs[i].work = "blocked"}

\* derive_scout_run_state: the first that holds.
State(s) ==
  CASE StatusOfLatest(s) \in {"PENDING", "RUNNING"} -> "IN_FLIGHT"
    [] OTHER ->
  CASE {"jobs", "analyses"} \cap WorkOf(s) # {} -> "IN_FLIGHT"
    [] OTHER ->
  CASE "blocked" \in WorkOf(s) -> "BLOCKED"
    [] OTHER ->
  CASE "abandoned" \in WorkOf(s) \/ StatusOfLatest(s) \in {"FAILED", "STALE"} -> "FAILED"
    [] OTHER ->
  CASE StatusOfLatest(s) = "PARTIALLY_COMPLETED" \/ (Latest(s) # NoRun /\ runs[Latest(s)].failed)
         -> "DEGRADED"
    [] StatusOfLatest(s) = "none" -> "NEVER_RUN"
    [] OTHER -> "OK"

\* list_scouts.
Row(s) ==
  [status |-> status[s], state |-> State(s),
   blocked |-> IF State(s) = "BLOCKED" THEN Blocked(s) ELSE {}]

\* list_scout_runs, as far as the panel uses it.
History(s) ==
  [latest |-> Latest(s),
   going |-> \E i \in RunsOf(s) : runs[i].status \in {"PENDING", "RUNNING", "STALE"}]

\* run_scout: the hourly limit looks at the latest run, whatever became of it.
TooSoon(s) == Latest(s) # NoRun /\ runs[Latest(s)].hour = hour

ActiveBut(s) == Cardinality({r \in Scouts \ {s} : status[r] = "ACTIVE"})

-----------------------------------------------------------------------------
(* What the panel offers *)

Open == shown # Nothing /\ screen = "list"

\* Mutant: a run that failed does not count.
CoolingDownUnlessFailed(s) ==
  /\ known[s].latest # NoRun
  /\ runs[known[s].latest].hour = hour /\ runs[known[s].latest].status # "FAILED"

\* useCooldownClock over the cached history.
CoolingDown(s) == known[s].latest # NoRun /\ runs[known[s].latest].hour = hour

Running == run.step \in {"sent", "checked", "catching"}
CanRun == /\ Open /\ list[shown].status = "ACTIVE"
          /\ ~Running /\ list[shown].state # "IN_FLIGHT" /\ ~CoolingDown(shown)

Updating == update.of # Nothing

\* The status buttons shown for a Scout.
Offered(st) == CASE st = "ACTIVE" -> {"PAUSED", "ARCHIVED"}
                 [] st = "PAUSED" -> {"ACTIVE", "ARCHIVED"}
                 [] OTHER -> {}

\* Mutant: one failure for the page.
RepairFailureShownAnywhere == Open /\ repairFailure.of # Nothing

RepairFailureShown == Open /\ repairFailure.of = shown

-----------------------------------------------------------------------------

IdleRun == [of |-> Nothing, step |-> "idle", seen |-> NoRun]
\* What is left of a mutation that failed: an alert under the buttons of whichever
\* Scout is open.
RunError == [IdleRun EXCEPT !.step = "error"]
IdleUpdate == [of |-> Nothing, to |-> "none", form |-> FALSE]
UpdateError == [IdleUpdate EXCEPT !.to = "failed"]
IdleRequeue == [of |-> Nothing, waiting |-> {}, failed |-> {}]
NoFailure == [of |-> Nothing, failed |-> {}]
NoHistory == [latest |-> NoRun, going |-> FALSE]

Init ==
  /\ \E o \in Openings :
       /\ status = o.status
       /\ runs = IF o.blocked = Nothing THEN <<>>
                 ELSE <<[of |-> o.blocked, hour |-> 0, status |-> "COMPLETED", queued |-> FALSE,
                         work |-> "blocked", failed |-> FALSE]>>
       /\ shown = o.open
  /\ hour = 0
  /\ list = [s \in Scouts |-> Row(s)]
  /\ stale = FALSE
  /\ known = [s \in Scouts |-> NoHistory]
  /\ due = Scouts
  /\ screen = "list"
  /\ run = IdleRun
  /\ update = IdleUpdate
  /\ requeue = IdleRequeue
  /\ repairFailure = NoFailure
  /\ undone = [s \in Scouts |-> {}]
  /\ behind = {}
  /\ clicks = 0
  /\ faults = 0

Click == clicks < MaxClicks /\ clicks' = clicks + 1
Fault == faults < MaxFaults /\ faults' = faults + 1

\* invalidateQueries(["scouts"]): the list and every history under it.  What is on
\* the screen is fetched now, the rest when it is shown again.
Invalidate == stale' = TRUE /\ due' = Scouts

-----------------------------------------------------------------------------
(* Moving about *)

\* openPanel.  Rows of archived Scouts are there once showArchived is ticked.  A
\* history younger than staleTime is not fetched again.
OpenPanel(s) ==
  /\ screen = "list" /\ list[s].status # "ABSENT" /\ shown # s
  /\ Click
  /\ shown' = s
  /\ due' \in {due, due \cup {s}}
  /\ UNCHANGED <<server, list, stale, known, screen, mutations, faults>>

ClosePanel ==
  /\ Open /\ Click
  /\ shown' = Nothing
  /\ UNCHANGED <<server, cache, screen, mutations, faults>>

\* The page's Refresh button.
Refresh ==
  /\ screen = "list" /\ ~stale /\ Click
  /\ stale' = TRUE
  /\ UNCHANGED <<server, list, known, due, shown, screen, mutations, faults>>

\* The page unmounts: nobody hears what its mutations were waiting for, but the
\* requests that were sent go on.
Unmounted ==
  /\ run' = IdleRun /\ update' = IdleUpdate
  /\ requeue' = IdleRequeue /\ repairFailure' = NoFailure
  /\ behind' = behind
       \cup {[what |-> run.step, of |-> run.of, to |-> "none", row |-> NoRun, since |-> clicks] :
              x \in {run.step} \cap {"sent", "checked"}}
       \cup {[what |-> "update", of |-> update.of, to |-> update.to, row |-> NoRun, since |-> clicks] :
              x \in {update.of} \ {Nothing}}
       \cup {[what |-> "requeue", of |-> requeue.of, to |-> "none", row |-> i, since |-> clicks] :
              i \in requeue.waiting}

\* The panel's Edit link and the page's New link.
OpenForm(s) ==
  /\ screen = "list" /\ Click
  /\ \/ Open /\ s = shown
     \/ list[s].status = "ABSENT" /\ status[s] = "ABSENT"
  /\ screen' = "form"
  /\ shown' = s
  /\ Unmounted
  /\ UNCHANGED <<server, cache, undone, faults>>

Leave ==
  /\ screen # "away" /\ Click
  /\ screen' = "away"
  /\ shown' = Nothing
  /\ Unmounted
  /\ UNCHANGED <<server, cache, undone, faults>>

\* Back, by the menu or by a ?open= link: the list is fetched when it is older than
\* staleTime.
Return(s) ==
  /\ screen # "list" /\ Click
  /\ screen' = "list"
  /\ shown' \in {Nothing} \cup (IF list[s].status = "ABSENT" THEN {} ELSE {s})
  /\ stale' \in {stale, TRUE}
  /\ Unmounted
  /\ UNCHANGED <<server, list, known, due, undone, faults>>

-----------------------------------------------------------------------------
(* Run now *)

RunNow ==
  /\ CanRun /\ Click
  /\ run' = [of |-> shown, step |-> "sent", seen |-> known[shown].latest]
  /\ UNCHANGED <<server, cache, shown, screen, update, requeue, repairFailure, undone, behind, faults>>

\* run_scout, up to its refusals: 409 when archived, 429 within the hour.
RunChecked ==
  /\ run.step = "sent"
  /\ run' = IF status[run.of] = "ARCHIVED" THEN RunError
            ELSE IF TooSoon(run.of) THEN [IdleRun EXCEPT !.step = "too soon"]
            ELSE [run EXCEPT !.step = "checked"]
  /\ UNCHANGED <<server, cache, shown, screen, update, requeue, repairFailure, undone, behind, clicks,
                 faults>>

NewRun(s, queued) ==
  [of |-> s, hour |-> hour, status |-> "PENDING", queued |-> queued, work |-> "none",
   failed |-> FALSE]

Answered(r) ==
  /\ run' = r
  /\ UNCHANGED <<status, hour, list, known, shown, screen, update, requeue,
                 repairFailure, undone, behind, clicks>>

\* The row is committed, then its message is sent, then the answer is awaited.
RunInserted ==
  /\ run.step = "checked" /\ Len(runs) < MaxRuns
  /\ runs' = Append(runs, NewRun(run.of, TRUE))
  /\ Answered([run EXCEPT !.step = "catching"]) /\ Invalidate
  /\ UNCHANGED faults

RunInsertedUnanswered ==
  /\ run.step = "checked" /\ Len(runs) < MaxRuns /\ Fault
  /\ \E queued \in BOOLEAN : runs' = Append(runs, NewRun(run.of, queued))
  /\ Answered(RunError)
  /\ UNCHANGED <<stale, due>>

RunLost ==
  /\ run.step = "sent" /\ Fault
  /\ Answered(RunError)
  /\ UNCHANGED <<runs, stale, due>>

\* useRunScout's onSuccess is awaited: the button stays pending until the list and
\* the history on the screen have been fetched.
CaughtUp ==
  /\ run.step = "catching" /\ ~stale /\ shown \notin due
  /\ run' = IdleRun
  /\ UNCHANGED <<server, cache, shown, screen, update, requeue, repairFailure, undone, behind, clicks,
                 faults>>

-----------------------------------------------------------------------------
(* Pause, Resume, Archive; the form *)

Sent(s, to, form) ==
  /\ ~Updating /\ Click
  /\ update' = [of |-> s, to |-> to, form |-> form]
  /\ UNCHANGED <<server, cache, shown, screen, run, requeue, repairFailure, undone, behind, faults>>

SetStatus(to) == Open /\ to \in Offered(list[shown].status) /\ Sent(shown, to, FALSE)

\* The form, filled in: its button waits for the answer.
CanSubmit == screen = "form" /\ ~Updating

\* onSubmit: a new Scout, or every field of an old one but its status.
Submit ==
  /\ CanSubmit
  /\ Sent(shown, IF list[shown].status = "ABSENT" THEN "new" ELSE "same", TRUE)

\* create_scout and update_scout: an archived Scout is read-only, and one that
\* becomes ACTIVE must fit the cap.
Accepts(s, to) ==
  /\ status[s] # "ARCHIVED"
  /\ to = "new" => status[s] = "ABSENT"
  /\ to \in {"new", "ACTIVE"} /\ status[s] # "ACTIVE" => ActiveBut(s) < ActiveCap

Becomes(s, to) == CASE to = "new" -> "ACTIVE" [] to = "same" -> status[s] [] OTHER -> to

\* On success the form goes back to the list, with the panel open after an edit.
UpdateAnswered ==
  /\ Updating /\ Accepts(update.of, update.to)
  /\ status' = [status EXCEPT ![update.of] = Becomes(update.of, update.to)]
  /\ update' = IdleUpdate
  /\ Invalidate
  /\ screen' = IF update.form THEN "list" ELSE screen
  /\ shown' = IF update.form /\ update.to = "new" THEN Nothing ELSE shown
  /\ UNCHANGED <<runs, hour, list, known, run, requeue, repairFailure, undone, behind, clicks,
                 faults>>

\* Refused, lost, or served with its answer lost: an error under the buttons.
UpdateFails ==
  /\ Updating
  /\ \/ ~Accepts(update.of, update.to) /\ UNCHANGED <<status, faults>>
     \/ Fault /\ UNCHANGED status
     \/ /\ Fault /\ Accepts(update.of, update.to)
        /\ status' = [status EXCEPT ![update.of] = Becomes(update.of, update.to)]
  /\ update' = UpdateError
  /\ UNCHANGED <<runs, hour, cache, shown, screen, run, requeue, repairFailure, undone, behind,
                 clicks>>

-----------------------------------------------------------------------------
(* The repair of blocked Analyses *)

Repair ==
  /\ Open /\ list[shown].state = "BLOCKED" /\ requeue = IdleRequeue /\ Click
  /\ requeue' = [IdleRequeue EXCEPT !.of = shown, !.waiting = list[shown].blocked]
  /\ repairFailure' = NoFailure
  /\ undone' = [undone EXCEPT ![shown] = {}]
  /\ UNCHANGED <<server, cache, shown, screen, run, update, behind, faults>>

Requeued(ids) ==
  [i \in DOMAIN runs |-> IF i \in ids THEN [runs[i] EXCEPT !.work = "analyses"] ELSE runs[i]]

RowAnswered(i, failed) ==
  /\ requeue' = [requeue EXCEPT !.waiting = @ \ {i}, !.failed = @ \cup failed]
  /\ undone' = [undone EXCEPT ![requeue.of] = @ \cup failed]
  /\ UNCHANGED <<status, hour, cache, shown, screen, run, update, repairFailure, behind, clicks>>

\* One request per row: the endpoint checks it again.
RowRequeued(i) ==
  /\ i \in requeue.waiting /\ runs[i].work = "blocked"
  /\ runs' = Requeued({i})
  /\ RowAnswered(i, {}) /\ UNCHANGED faults

RowRefused(i) ==
  /\ i \in requeue.waiting /\ runs[i].work # "blocked"
  /\ RowAnswered(i, {i}) /\ UNCHANGED <<runs, faults>>

\* The request, or its answer.
RowLost(i) ==
  /\ i \in requeue.waiting /\ Fault
  /\ \/ UNCHANGED runs
     \/ runs[i].work = "blocked" /\ runs' = Requeued({i})
  /\ RowAnswered(i, {i})

\* allSettled: waits for them all; the failures are told to the Scout the repair
\* was asked for.
Repaired ==
  /\ requeue.of # Nothing /\ requeue.waiting = {}
  /\ repairFailure' = IF requeue.failed = {} THEN repairFailure
                      ELSE [of |-> requeue.of, failed |-> requeue.failed]
  /\ requeue' = IdleRequeue
  /\ Invalidate
  /\ UNCHANGED <<server, list, known, shown, screen, run, update, undone, behind, clicks, faults>>

-----------------------------------------------------------------------------
(* The requests of pages that were left *)

\* What the server writes for one; a run's message may not be sent.
Serves(b, queued) ==
  \/ /\ b.what = "checked" /\ Len(runs) < MaxRuns
     /\ runs' = Append(runs, NewRun(b.of, queued)) /\ UNCHANGED status
  \/ /\ b.what = "update" /\ Accepts(b.of, b.to)
     /\ status' = [status EXCEPT ![b.of] = Becomes(b.of, b.to)] /\ UNCHANGED runs
  \/ /\ b.what = "requeue" /\ runs[b.row].work = "blocked"
     /\ runs' = Requeued({b.row}) /\ UNCHANGED status

Behind == UNCHANGED <<hour, list, known, shown, screen, run, update, requeue, repairFailure, undone,
                      clicks>>
Gone(b) == behind' = behind \ {b}

\* The hooks' own onSuccess invalidates; the repair's was given to the call, which
\* an unmounted page no longer hears.
BehindServed(b) ==
  /\ Serves(b, TRUE) /\ Gone(b) /\ Behind
  /\ IF b.what = "requeue" THEN UNCHANGED <<stale, due>> ELSE Invalidate
  /\ UNCHANGED faults

BehindChecked(b) ==
  /\ b.what = "sent" /\ status[b.of] # "ARCHIVED" /\ ~TooSoon(b.of)
  /\ behind' = (behind \ {b}) \cup {[b EXCEPT !.what = "checked"]}
  /\ Behind /\ UNCHANGED <<status, runs, stale, due, faults>>

BehindRefused(b) ==
  /\ \/ b.what = "sent" /\ (status[b.of] = "ARCHIVED" \/ TooSoon(b.of))
     \/ b.what = "update" /\ ~Accepts(b.of, b.to)
     \/ b.what = "requeue" /\ runs[b.row].work # "blocked"
  /\ Gone(b) /\ Behind /\ UNCHANGED <<status, runs, stale, due, faults>>

BehindLost(b) ==
  /\ Fault
  /\ (\E queued \in BOOLEAN : Serves(b, queued)) \/ UNCHANGED <<status, runs>>
  /\ Gone(b) /\ Behind /\ UNCHANGED <<stale, due>>

-----------------------------------------------------------------------------
(* The queries *)

\* Mutant: only the open Scout is looked at.
InFlightOpen == Open /\ list[shown].state = "IN_FLIGHT"

InFlightShown == \E s \in Scouts : list[s].state = "IN_FLIGHT"

\* useScouts({pollWhileInFlight}).
ListFetched ==
  /\ stale \/ (screen = "list" /\ InFlightShown)
  /\ list' = [s \in Scouts |-> Row(s)]
  /\ stale' = FALSE
  /\ UNCHANGED <<server, known, due, shown, screen, mutations, clicks, faults>>

ListFails ==
  /\ stale /\ Fault
  /\ stale' = FALSE
  /\ UNCHANGED <<server, list, known, due, shown, screen, mutations, clicks>>

\* useScoutRuns.
HistoryFetched ==
  /\ Open /\ (shown \in due \/ known[shown].going)
  /\ known' = [known EXCEPT ![shown] = History(shown)]
  /\ due' = due \ {shown}
  /\ UNCHANGED <<server, list, stale, shown, screen, mutations, clicks, faults>>

-----------------------------------------------------------------------------
(* The pipeline, and another tab *)

Change(i, r) ==
  /\ runs' = [runs EXCEPT ![i] = r]
  /\ UNCHANGED <<status, hour, cache, shown, screen, mutations, clicks>>

\* dispatch_scout_run closes the stale runs of the Scout; skipped while another one is
\* RUNNING; refused when the Scout is no longer ACTIVE.
Closed(s) ==
  [j \in DOMAIN runs |->
     IF j \in RunsOf(s) /\ runs[j].status = "STALE" THEN [runs[j] EXCEPT !.status = "FAILED"] ELSE runs[j]]
Dispatch(i) ==
  /\ runs[i].status = "PENDING" /\ runs[i].queued
  /\ runs' = [Closed(runs[i].of) EXCEPT ![i].queued = FALSE,
                ![i].status = IF \E j \in RunsOf(runs[i].of) : runs[j].status = "RUNNING" THEN "PENDING"
                              ELSE IF status[runs[i].of] = "ACTIVE" THEN "RUNNING"
                              ELSE "FAILED"]
  /\ UNCHANGED <<status, hour, cache, shown, screen, mutations, clicks, faults>>

\* Its IngestionJobs are there before its last write.
Dispatched(i) ==
  /\ runs[i].status = "RUNNING"
  /\ \/ \E st \in {"COMPLETED", "PARTIALLY_COMPLETED"} :
          Change(i, [runs[i] EXCEPT !.status = st, !.work = "jobs"])
     \/ Change(i, [runs[i] EXCEPT !.status = "FAILED"])
  /\ UNCHANGED faults

DispatchDies(i) ==
  /\ runs[i].status = "RUNNING" /\ Fault
  /\ Change(i, [runs[i] EXCEPT !.status = "STALE"])

Moves(i, from, to) == runs[i].work = from /\ Change(i, [runs[i] EXCEPT !.work = to])

\* It ends, some of it having failed or not: the roll-up counts the failures.
Ends(i, from, to) ==
  /\ runs[i].work = from /\ UNCHANGED faults
  /\ \E failed \in {runs[i].failed, TRUE} : Change(i, [runs[i] EXCEPT !.work = to, !.failed = failed])

\* The jobs end, then the Analyses of their new offers are created, if any.
JobsEnd(i) == Ends(i, "jobs", "ready")
AnalysesCreated(i) == (Moves(i, "ready", "analyses") \/ Moves(i, "ready", "over")) /\ UNCHANGED faults
AnalysesEnd(i) == Ends(i, "analyses", "over") \/ Ends(i, "blocked", "over")
WorkStops(i) == (Moves(i, "jobs", "abandoned") \/ Moves(i, "analyses", "blocked")) /\ Fault

Tick ==
  /\ hour < MaxHours
  /\ hour' = hour + 1
  /\ UNCHANGED <<status, runs, cache, shown, screen, mutations, clicks, faults>>

\* The other tab runs a Scout, sets its status, or repairs it.
Elsewhere(s) ==
  /\ Click
  /\ \/ /\ status[s] \in {"ACTIVE", "PAUSED"} /\ ~TooSoon(s) /\ Len(runs) < MaxRuns
        /\ runs' = Append(runs, NewRun(s, TRUE)) /\ UNCHANGED status
     \/ \E to \in Offered(status[s]) :
          /\ Accepts(s, to)
          /\ status' = [status EXCEPT ![s] = to] /\ UNCHANGED runs
     \/ /\ Blocked(s) # {}
        /\ runs' = Requeued(Blocked(s)) /\ UNCHANGED status
  /\ UNCHANGED <<hour, cache, shown, screen, mutations, faults>>

-----------------------------------------------------------------------------

Pipeline(i) ==
  \/ Dispatch(i) \/ Dispatched(i) \/ DispatchDies(i)
  \/ JobsEnd(i) \/ AnalysesCreated(i) \/ AnalysesEnd(i) \/ WorkStops(i)

Next ==
  \/ \E s \in Scouts : OpenPanel(s) \/ OpenForm(s) \/ Return(s) \/ Elsewhere(s)
  \/ ClosePanel \/ Refresh \/ Leave
  \/ RunNow \/ RunChecked \/ RunInserted \/ RunInsertedUnanswered \/ RunLost \/ CaughtUp
  \/ \E to \in {"ACTIVE", "PAUSED", "ARCHIVED"} : SetStatus(to)
  \/ Submit \/ UpdateAnswered \/ UpdateFails
  \/ Repair \/ Repaired
  \/ \E i \in requeue.waiting : RowRequeued(i) \/ RowRefused(i) \/ RowLost(i)
  \/ \E b \in behind : BehindServed(b) \/ BehindChecked(b) \/ BehindRefused(b) \/ BehindLost(b)
  \/ ListFetched \/ ListFails \/ HistoryFetched
  \/ \E i \in DOMAIN runs : Pipeline(i)
  \/ Tick

Spec == Init /\ [][Next]_vars

\* The query client keeps polling and refetching.
Fairness == WF_vars(ListFetched)
FairSpec == Spec /\ Fairness

-----------------------------------------------------------------------------
(* Properties *)

TypeOK ==
  /\ status \in [Scouts -> ScoutStatus]
  /\ runs \in Seq(Run) /\ Len(runs) <= MaxRuns
  /\ hour \in 0..MaxHours
  /\ list \in [Scouts -> [status : ScoutStatus, state : RunState, blocked : SUBSET Ids]]
  /\ stale \in BOOLEAN
  /\ known \in [Scouts -> [latest : Ids \cup {NoRun}, going : BOOLEAN]]
  /\ due \subseteq Scouts
  /\ shown \in Scouts \cup {Nothing} /\ screen \in Screens
  /\ run.of \in Scouts \cup {Nothing} /\ run.seen \in Ids \cup {NoRun}
  /\ run.step \in {"idle", "sent", "checked", "catching", "error", "too soon"}
  /\ update.of \in Scouts \cup {Nothing} /\ update.form \in BOOLEAN
  /\ update.to \in {"none", "failed", "new", "same"} \cup ScoutStatus
  /\ requeue \in [of : Scouts \cup {Nothing}, waiting : SUBSET Ids, failed : SUBSET Ids]
  /\ repairFailure \in [of : Scouts \cup {Nothing}, failed : SUBSET Ids]
  /\ undone \in [Scouts -> SUBSET Ids]
  /\ behind \subseteq [what : {"sent", "checked", "update", "requeue"}, of : Scouts,
                       to : {"none", "new", "same"} \cup ScoutStatus, row : Ids \cup {NoRun},
                       since : 0..MaxClicks]
  /\ clicks \in 0..MaxClicks /\ faults \in 0..MaxFaults

\* "That count is kept per Scout so another panel never inherits it": the alert of a
\* partial repair counts the rows that the latest repair of the Scout under which it
\* stands was refused or heard nothing of, and there is one, whatever panel was open
\* as the answers came and whatever page was left in between.
RepairFailureIsOwn ==
  RepairFailureShown => repairFailure.failed # {} /\ repairFailure.failed = undone[shown]

\* The countdown and the API agree on the hour: the 429 is the backstop of a screen
\* whose history missed a run at the click, never the answer to one that had them all.
RefusedOnlyWhenStale ==
  [][run.step = "sent" /\ run'.step = "too soon"
       => run.seen # Latest(run.of)]_vars

\* A Scout the page shows as working, and that no longer is, does not stay so: the
\* list is polled for as long as it shows one.
WorkShownEnds ==
  []<>(\A s \in Scouts : screen = "list" /\ list[s].state = "IN_FLIGHT" => State(s) = "IN_FLIGHT")

-----------------------------------------------------------------------------
(* What the code says and does not hold *)

\* scout_run_state.py: "any of three shapes the work passes through, so there is no
\* gap between them where the Scout reads as idle".  The jobs end before their
\* Analyses are created.
NoIdleGap == \A s \in Scouts : "ready" \in WorkOf(s) => State(s) = "IN_FLIGHT"

\* use-scouts.ts: "Rate-limited to once per hour per Scout (429)".  The limit is read
\* and the run inserted later.
OncePerHour ==
  \A i, j \in DOMAIN runs : i # j /\ runs[i].of = runs[j].of => runs[i].hour # runs[j].hour

=============================================================================
