----------------------------- MODULE ScoutRuns -----------------------------
(***************************************************************************)
(* Scouts and their runs.  A ScoutRun is created PENDING by the daily       *)
(* schedule or by "Run now", its id is sent on the scout-intake queue, and  *)
(* dispatch_scout_run, called by a worker, creates and sends one            *)
(* IngestionJob per targeted site and rolls the run up.  At most one run of *)
(* a Scout should be RUNNING: both the tick and the dispatch step aside for *)
(* a RUNNING run that is not stale, and close the stale ones.               *)
(*                                                                          *)
(* A worker sweeps the scout-intake queue and then, when the interval has   *)
(* passed, ticks (local_worker.run_forever).                                *)
(***************************************************************************)
EXTENDS Naturals, FiniteSets

CONSTANTS
  Scouts,
  Sites,      \* site keys every Scout targets
  Runs,       \* bound: the ScoutRun rows that may exist
  Workers,
  Requests,   \* "Run now" requests that may be in progress at the same time
  BatchSize,  \* MaxNumberOfMessages of one receive
  MaxDays,    \* bound: scheduled hours that pass
  MaxLosses,  \* bound: crashes, restarts and failed sends
  Faults,     \* the faults the environment may produce
  Edits       \* bound: the statuses candidates give their Scouts

None == "none"

ASSUME ScoutAssumption ==
  /\ None \notin Scouts \cup Runs
  /\ IsFiniteSet(Scouts) /\ IsFiniteSet(Runs)
  /\ BatchSize \in Nat \ {0}
  /\ MaxDays \in Nat
  /\ MaxLosses \in Nat
  /\ Edits \subseteq {"ACTIVE", "PAUSED", "ARCHIVED"}
  /\ Faults \subseteq {"worker_crash", "broker_restart", "send_failure"}

VARIABLES
  scout,    \* the Scout rows: status, and the day whose hour lastRunAt is past
  run,      \* the ScoutRun rows
  made,     \* IngestionJobs created for a run and a site
  sent,     \* those of them sent on ingestion-intake
  message,  \* the scout-intake message of each run
  worker,
  request,
  clock,    \* the days whose hour has come, and whether this day is not over
  losses

vars == <<scout, run, made, sent, message, worker, request, clock, losses>>

-----------------------------------------------------------------------------
(* Domains *)

ScoutStatus == {"ACTIVE", "PAUSED", "ARCHIVED"}
RunStatus == {"ABSENT", "PENDING", "RUNNING", "FAILED", "PARTIALLY_COMPLETED", "COMPLETED"}
Done == {"PARTIALLY_COMPLETED", "COMPLETED"}

\* old: past the stuck threshold; recent: inside the rate limit of "Run now";
\* day: the scheduled day it was created for, 0 for a manual one.
Run == [status: RunStatus, scout: Scouts \cup {None}, old: BOOLEAN, recent: BOOLEAN,
        day: 0..MaxDays]
NoRun == [status |-> "ABSENT", scout |-> None, old |-> FALSE, recent |-> FALSE, day |-> 0]

WorkerPc == {"poll", "next", "check", "start", "fanout", "send", "finish", "tick", "create", "announce"}
WorkerState ==
  [pc: WorkerPc, batch: SUBSET Runs, todo: SUBSET Runs,
   run: Runs \cup {None}, seen: RunStatus, active: BOOLEAN,   \* dispatch: its run and copies
   sites: SUBSET Sites, tosend: SUBSET Sites,                 \* dispatch: enabled, unsent
   due: SUBSET Scouts, created: SUBSET Runs]                  \* tick: due Scouts, their runs
Resting ==
  [pc |-> "poll", batch |-> {}, todo |-> {}, run |-> None, seen |-> "ABSENT",
   active |-> FALSE, sites |-> {}, tosend |-> {}, due |-> {}, created |-> {}]

RequestState == [pc: {"idle", "commit", "send"}, scout: Scouts \cup {None}, run: Runs \cup {None}]
IdleRequest == [pc |-> "idle", scout |-> None, run |-> None]

TypeOK ==
  /\ scout \in [Scouts -> [status: ScoutStatus, lastRun: 0..MaxDays]]
  /\ run \in [Runs -> Run]
  /\ made \in [Runs -> [Sites -> Nat]]
  /\ sent \in [Runs -> [Sites -> Nat]]
  /\ message \in [Runs -> {"none", "visible", "inflight"}]
  /\ worker \in [Workers -> WorkerState]
  /\ request \in [Requests -> RequestState]
  /\ clock \in [day: 0..MaxDays, open: BOOLEAN]
  /\ losses \in 0..MaxLosses

Init ==
  /\ scout = [s \in Scouts |-> [status |-> "ACTIVE", lastRun |-> 0]]
  /\ run = [r \in Runs |-> NoRun]
  /\ made = [r \in Runs |-> [k \in Sites |-> 0]]
  /\ sent = [r \in Runs |-> [k \in Sites |-> 0]]
  /\ message = [r \in Runs |-> "none"]
  /\ worker = [w \in Workers |-> Resting]
  /\ request = [q \in Requests |-> IdleRequest]
  /\ clock = [day |-> 0, open |-> FALSE]
  /\ losses = 0

-----------------------------------------------------------------------------
(* Time.  Day d opens at its scheduled hour and closes at midnight; lastRunAt
   is kept as the last day whose hour it is past. *)

HourComes ==
  /\ ~clock.open
  /\ clock.day < MaxDays
  /\ clock' = [day |-> clock.day + 1, open |-> TRUE]
  /\ UNCHANGED <<scout, run, made, sent, message, worker, request, losses>>

Midnight ==
  /\ clock.open
  /\ clock.day < MaxDays
  /\ clock' = [clock EXCEPT !.open = FALSE]
  /\ UNCHANGED <<scout, run, made, sent, message, worker, request, losses>>

\* A run's clock, startedAt or else createdAt, passes the stuck threshold.
Age(r) ==
  /\ run[r].status \in {"PENDING", "RUNNING"}
  /\ ~run[r].old
  /\ run' = [run EXCEPT ![r].old = TRUE]
  /\ UNCHANGED <<scout, made, sent, message, worker, request, clock, losses>>

\* An hour has passed since a run was created.
RateLimitPasses(r) ==
  /\ run[r].recent
  /\ run' = [run EXCEPT ![r].recent = FALSE]
  /\ UNCHANGED <<scout, made, sent, message, worker, request, clock, losses>>

IsDue(s) == scout[s].status = "ACTIVE" /\ clock.open /\ scout[s].lastRun < clock.day

\* Mutant: a RUNNING run is honoured however old it is.
IsStaleNever(r) == FALSE

IsStale(r) == run[r].status = "RUNNING" /\ run[r].old

-----------------------------------------------------------------------------
(* The overlap guard: the RUNNING runs of a Scout, and what is left of them
   once the stale ones have been closed. *)

RunningRuns(s) == {r \in Runs : run[r].status = "RUNNING" /\ run[r].scout = s}
LiveRuns(s) == {r \in RunningRuns(s) : ~IsStale(r)}

\* Mutant: stale runs are stepped over but not closed.
ClosedNone(closed) == run

Closed(closed) ==
  [r \in Runs |-> IF r \in closed THEN [run[r] EXCEPT !.status = "FAILED"] ELSE run[r]]

AbsentRuns == {r \in Runs : run[r].status = "ABSENT"}

\* Mutant: a status of the other tables, which a ScoutRun does not have.
NewRunQueued(s, day) == [status |-> "QUEUED", scout |-> s, old |-> FALSE, recent |-> TRUE, day |-> day]

NewRun(s, day) == [status |-> "PENDING", scout |-> s, old |-> FALSE, recent |-> TRUE, day |-> day]

-----------------------------------------------------------------------------
(* The API *)

\* PATCH /scouts/{id}: an ARCHIVED Scout is read-only.
UpdateStatus(s, status) ==
  /\ status \in Edits
  /\ scout[s].status \notin {"ARCHIVED", status}
  /\ scout' = [scout EXCEPT ![s].status = status]
  /\ UNCHANGED <<run, made, sent, message, worker, request, clock, losses>>

\* POST /scouts/{id}/run: not archived, and no run created within the hour.
RunNow(q, s) ==
  /\ request[q].pc = "idle"
  /\ scout[s].status # "ARCHIVED"
  /\ \A r \in Runs : run[r].scout = s => ~run[r].recent
  /\ request' = [request EXCEPT ![q] = [pc |-> "commit", scout |-> s, run |-> None]]
  /\ UNCHANGED <<scout, run, made, sent, message, worker, clock, losses>>

RunNowCommit(q) ==
  /\ request[q].pc = "commit"
  /\ \E r \in AbsentRuns :
       /\ run' = [run EXCEPT ![r] = NewRun(request[q].scout, 0)]
       /\ request' = [request EXCEPT ![q].pc = "send", ![q].run = r]
  /\ UNCHANGED <<scout, made, sent, message, worker, clock, losses>>

RunNowSend(q) ==
  /\ request[q].pc = "send"
  /\ message' = [message EXCEPT ![request[q].run] = "visible"]
  /\ request' = [request EXCEPT ![q] = IdleRequest]
  /\ UNCHANGED <<scout, run, made, sent, worker, clock, losses>>

\* The send raises: the run was committed and stays PENDING.
RunNowSendFails(q) ==
  /\ "send_failure" \in Faults
  /\ losses < MaxLosses
  /\ request[q].pc = "send"
  /\ request' = [request EXCEPT ![q] = IdleRequest]
  /\ losses' = losses + 1
  /\ UNCHANGED <<scout, run, made, sent, message, worker, clock>>

-----------------------------------------------------------------------------
(* The worker: scout-intake, then the tick *)

Visible == {r \in Runs : message[r] = "visible"}

\* ElasticMQ hands over as many messages as it has, up to the batch size.
Receive(w, batch) ==
  /\ worker[w].pc = "poll"
  /\ batch \subseteq Visible
  /\ batch # {}
  /\ Cardinality(batch) = BatchSize \/ batch = Visible
  /\ Cardinality(batch) <= BatchSize
  /\ message' = [r \in Runs |-> IF r \in batch THEN "inflight" ELSE message[r]]
  /\ worker' = [worker EXCEPT ![w] = [Resting EXCEPT !.pc = "next", !.batch = batch, !.todo = batch]]
  /\ UNCHANGED <<scout, run, made, sent, request, clock, losses>>

PollEmpty(w) ==
  /\ worker[w].pc = "poll"
  /\ Visible = {}
  /\ worker' = [worker EXCEPT ![w].pc = "tick"]
  /\ UNCHANGED <<scout, run, made, sent, message, request, clock, losses>>

DeleteBatch(w) ==
  /\ worker[w].pc = "next"
  /\ worker[w].todo = {}
  /\ message' = [r \in Runs |-> IF r \in worker[w].batch THEN "none" ELSE message[r]]
  /\ worker' = [worker EXCEPT ![w] = [Resting EXCEPT !.pc = "tick"]]
  /\ UNCHANGED <<scout, run, made, sent, request, clock, losses>>

-----------------------------------------------------------------------------
(* dispatch_scout_run *)

\* On to the next record: the run and the copies of this one are dropped.
EndRecord(w) ==
  worker' = [worker EXCEPT ![w] =
               [Resting EXCEPT !.pc = "next", !.batch = worker[w].batch, !.todo = worker[w].todo]]

Load(w, r) ==
  /\ worker[w].pc = "next"
  /\ r \in worker[w].todo
  /\ worker' = [worker EXCEPT ![w].pc = "check", ![w].todo = @ \ {r}, ![w].run = r,
                              ![w].seen = run[r].status,
                              ![w].active = scout[run[r].scout].status = "ACTIVE"]
  /\ UNCHANGED <<scout, run, made, sent, message, request, clock, losses>>

\* The overlap guard: the stale runs of the Scout, this one excepted, are
\* closed; the record ends here if another is RUNNING.
Check(w) ==
  LET r == worker[w].run
      s == run[r].scout
  IN
  /\ worker[w].pc = "check"
  /\ run' = Closed({x \in RunningRuns(s) \ {r} : IsStale(x)})
  /\ IF LiveRuns(s) \ {r} # {}
     THEN EndRecord(w)
     ELSE worker' = [worker EXCEPT ![w].pc = "start"]
  /\ UNCHANGED <<scout, made, sent, message, request, clock, losses>>

\* RUNNING with startedAt stamped, or FAILED at once for a Scout that was not
\* ACTIVE.  A status equal to the copy's is not written.
Start(w) ==
  LET r == worker[w].run
      Write(status) == IF worker[w].seen = status THEN run[r].status ELSE status
  IN
  /\ worker[w].pc = "start"
  /\ \/ /\ ~worker[w].active
        /\ run' = [run EXCEPT ![r].status = Write("FAILED")]
        /\ EndRecord(w)
     \/ /\ worker[w].active
        /\ run' = [run EXCEPT ![r].status = Write("RUNNING"), ![r].old = FALSE]
        /\ worker' = [worker EXCEPT ![w].pc = "fanout"]
  /\ UNCHANGED <<scout, made, sent, message, request, clock, losses>>

\* One IngestionJob for each targeted site that is enabled, in one commit.
FanOut(w, enabled) ==
  LET r == worker[w].run IN
  /\ worker[w].pc = "fanout"
  /\ made' = [made EXCEPT ![r] = [k \in Sites |-> @[k] + (IF k \in enabled THEN 1 ELSE 0)]]
  /\ worker' = [worker EXCEPT ![w].pc = "send", ![w].sites = enabled, ![w].tosend = enabled]
  /\ UNCHANGED <<scout, run, sent, message, request, clock, losses>>

SendJob(w, k) ==
  /\ worker[w].pc = "send"
  /\ k \in worker[w].tosend
  /\ sent' = [sent EXCEPT ![worker[w].run][k] = @ + 1]
  /\ worker' = [worker EXCEPT ![w].tosend = @ \ {k}]
  /\ UNCHANGED <<scout, run, made, message, request, clock, losses>>

\* Mutant: a send that raises is skipped, and the run goes on to its roll-up.
SendJobSkipped(w) ==
  /\ "send_failure" \in Faults
  /\ losses < MaxLosses
  /\ worker[w].pc = "send"
  /\ \E k \in worker[w].tosend : worker' = [worker EXCEPT ![w].tosend = @ \ {k}]
  /\ losses' = losses + 1
  /\ UNCHANGED <<scout, run, made, sent, message, request, clock>>

\* A send that raises ends the record: logged and swallowed by the handler.
SendJobFails(w) ==
  /\ "send_failure" \in Faults
  /\ losses < MaxLosses
  /\ worker[w].pc = "send"
  /\ worker[w].tosend # {}
  /\ EndRecord(w)
  /\ losses' = losses + 1
  /\ UNCHANGED <<scout, run, made, sent, message, request, clock>>

\* Mutant: lastRunAt is left to the tick, which does not stamp it either.
FinishUnstamped(w) ==
  /\ worker[w].pc = "send"
  /\ worker[w].tosend = {}
  /\ run' = [run EXCEPT ![worker[w].run].status = "COMPLETED"]
  /\ EndRecord(w)
  /\ UNCHANGED <<scout, made, sent, message, request, clock, losses>>

\* Every job sent: the run is rolled up and lastRunAt stamped.
Finish(w) ==
  LET r == worker[w].run
      status == IF worker[w].sites = {} THEN "FAILED"
                ELSE IF worker[w].sites # Sites THEN "PARTIALLY_COMPLETED" ELSE "COMPLETED"
  IN
  /\ worker[w].pc = "send"
  /\ worker[w].tosend = {}
  /\ run' = [run EXCEPT ![r].status = status]
  /\ scout' = [scout EXCEPT ![run[r].scout].lastRun = clock.day]
  /\ EndRecord(w)
  /\ UNCHANGED <<made, sent, message, request, clock, losses>>

-----------------------------------------------------------------------------
(* run_scheduler_tick *)

\* The interval has not passed yet.
NoTick(w) ==
  /\ worker[w].pc = "tick"
  /\ worker' = [worker EXCEPT ![w] = Resting]
  /\ UNCHANGED <<scout, run, made, sent, message, request, clock, losses>>

\* due_scouts: stale runs of the due Scouts are closed, and a Scout with a run
\* still RUNNING is left out.
TickRead(w) ==
  LET due == {s \in Scouts : IsDue(s)}
  IN
  /\ worker[w].pc = "tick"
  /\ due # {}
  /\ run' = Closed({r \in Runs : run[r].scout \in due /\ IsStale(r)})
  /\ worker' = [worker EXCEPT ![w] =
                  [Resting EXCEPT !.pc = "create", !.due = {s \in due : LiveRuns(s) = {}}]]
  /\ UNCHANGED <<scout, made, sent, message, request, clock, losses>>

\* One PENDING run for each, in one commit.
TickCommit(w) ==
  /\ worker[w].pc = "create"
  /\ \E new \in SUBSET AbsentRuns :
     \E owner \in [new -> worker[w].due] :
       /\ Cardinality(new) = Cardinality(worker[w].due)
       /\ \A s \in worker[w].due : \E r \in new : owner[r] = s
       /\ run' = [r \in Runs |-> IF r \in new THEN NewRun(owner[r], clock.day) ELSE run[r]]
       /\ worker' = [worker EXCEPT ![w].pc = "announce", ![w].created = new]
  /\ UNCHANGED <<scout, made, sent, message, request, clock, losses>>

TickSend(w) ==
  /\ worker[w].pc = "announce"
  /\ \/ /\ worker[w].created = {}
        /\ worker' = [worker EXCEPT ![w] = Resting]
        /\ UNCHANGED message
     \/ \E r \in worker[w].created :
          /\ message' = [message EXCEPT ![r] = "visible"]
          /\ worker' = [worker EXCEPT ![w].created = @ \ {r}]
  /\ UNCHANGED <<scout, run, made, sent, request, clock, losses>>

\* A send that raises ends the tick: the runs not yet sent never will be.
TickSendFails(w) ==
  /\ "send_failure" \in Faults
  /\ losses < MaxLosses
  /\ worker[w].pc = "announce"
  /\ worker[w].created # {}
  /\ worker' = [worker EXCEPT ![w] = Resting]
  /\ losses' = losses + 1
  /\ UNCHANGED <<scout, run, made, sent, message, request, clock>>

-----------------------------------------------------------------------------
(* The queue and the faults *)

Held(r) == \E w \in Workers : r \in worker[w].batch

BecomeVisible(r) ==
  /\ message[r] = "inflight"
  /\ ~Held(r)
  /\ message' = [message EXCEPT ![r] = "visible"]
  /\ UNCHANGED <<scout, run, made, sent, worker, request, clock, losses>>

WorkerCrash(w) ==
  /\ "worker_crash" \in Faults
  /\ losses < MaxLosses
  /\ worker[w] # Resting
  /\ worker' = [worker EXCEPT ![w] = Resting]
  /\ losses' = losses + 1
  /\ UNCHANGED <<scout, run, made, sent, message, request, clock>>

BrokerRestart ==
  /\ "broker_restart" \in Faults
  /\ losses < MaxLosses
  /\ \E r \in Runs : message[r] # "none"
  /\ message' = [r \in Runs |-> "none"]
  /\ losses' = losses + 1
  /\ UNCHANGED <<scout, run, made, sent, worker, request, clock>>

-----------------------------------------------------------------------------

Passing ==
  \/ HourComes \/ Midnight
  \/ \E r \in Runs : Age(r) \/ RateLimitPasses(r)

ApiStep ==
  \/ \E s \in Scouts, status \in ScoutStatus : UpdateStatus(s, status)
  \/ \E q \in Requests :
       \/ \E s \in Scouts : RunNow(q, s)
       \/ RunNowCommit(q) \/ RunNowSend(q) \/ RunNowSendFails(q)

DispatchStep(w) ==
  \/ \E r \in Runs : Load(w, r)
  \/ Check(w) \/ Start(w)
  \/ \E enabled \in SUBSET Sites : FanOut(w, enabled)
  \/ \E k \in Sites : SendJob(w, k)
  \/ Finish(w)
  \/ DeleteBatch(w)

Poll(w) == PollEmpty(w) \/ \E batch \in SUBSET Runs : Receive(w, batch)

TickStep(w) == TickRead(w) \/ TickCommit(w) \/ TickSend(w)

Next ==
  \/ Passing
  \/ ApiStep
  \/ \E w \in Workers :
       Poll(w) \/ DispatchStep(w) \/ TickStep(w) \/ NoTick(w)
       \/ SendJobFails(w) \/ TickSendFails(w) \/ WorkerCrash(w)
  \/ \E r \in Runs : BecomeVisible(r)
  \/ BrokerRestart

Spec == Init /\ [][Next]_vars

-----------------------------------------------------------------------------
(* Fairness: the worker loop takes its steps; the tick interval passes, again
   and again; a visibility timeout expires; a run grows old.  Days, candidates
   and faults are not forced. *)

Fairness ==
  /\ \A w \in Workers :
       /\ WF_vars(Poll(w) \/ DispatchStep(w) \/ TickStep(w) \/ NoTick(w))
       /\ SF_vars(TickRead(w))
  /\ \A r \in Runs : WF_vars(Age(r)) /\ WF_vars(BecomeVisible(r))

FairSpec == Spec /\ Fairness

-----------------------------------------------------------------------------
(* Properties *)

\* "Runs for one Scout never run concurrently": with one worker at most one run
\* of a Scout is RUNNING, abandoned runs and redelivered ones included.
NoOverlap ==
  \A r, x \in Runs :
    run[r].status = "RUNNING" /\ run[x].status = "RUNNING" /\ run[r].scout = run[x].scout
      => r = x

\* "Runs for one Scout never pile up": the schedule leaves at most one run of a
\* Scout waiting for its dispatch.
NoPileUp ==
  \A s \in Scouts :
    Cardinality({r \in Runs : /\ run[r].scout = s /\ run[r].day > 0
                              /\ run[r].status = "PENDING"}) <= 1

\* A Scout is searched once a day: of the runs the schedule made for a day, one
\* at most is not FAILED, whatever is paused, resumed or run by hand.
OneRunPerDay ==
  \A s \in Scouts, d \in 1..MaxDays :
    Cardinality({r \in Runs : /\ run[r].scout = s /\ run[r].day = d
                              /\ run[r].status # "FAILED"}) <= 1

\* A COMPLETED run has had a job sent for every targeted site, through crashes,
\* failed sends and redeliveries that start it over.
CompletedRunIsCovered ==
  \A r \in Runs : run[r].status = "COMPLETED" => \A k \in Sites : sent[r][k] > 0

\* One IngestionJob per targeted site of a run.
OneJobPerSite == \A r \in Runs, k \in Sites : made[r][k] <= 1

\* A Scout that is due runs that day, or stops being ACTIVE, or the day ends: no
\* abandoned run, lost message or failed send silences its schedule.
ScheduleHonoured ==
  \A s \in Scouts, d \in 1..MaxDays :
    (clock = [day |-> d, open |-> TRUE] /\ scout[s].status = "ACTIVE") ~>
      \/ scout[s].lastRun >= d
      \/ scout[s].status # "ACTIVE"
      \/ clock # [day |-> d, open |-> TRUE]

-----------------------------------------------------------------------------
(* Why NoOverlap and CompletedRunIsCovered hold in every deployment *)

Exists(r) == run[r].status # "ABSENT"

\* Whatever a message, a worker or a request refers to has been inserted, so no
\* insertion changes a run somebody has in hand.
ReferencedExist ==
  /\ \A r \in Runs : message[r] # "none" => Exists(r)
  /\ \A w \in Workers :
       /\ \A r \in worker[w].todo \cup worker[w].created : Exists(r)
       /\ worker[w].run # None => Exists(worker[w].run)
  /\ \A q \in Requests : request[q].run # None => Exists(request[q].run)

\* A worker in the steps of the dispatch has a run in hand.
HasRun(w) == worker[w].pc \in {"check", "start", "fanout", "send"} => worker[w].run \in Runs

\* Past the overlap guard a worker's run is the only one of its Scout that may
\* be RUNNING.
StartIsAlone(w) ==
  worker[w].pc = "start" =>
    \A r \in Runs \ {worker[w].run} :
      run[r].scout = run[worker[w].run].scout => run[r].status # "RUNNING"

OverlapInv ==
  TypeOK /\ ReferencedExist /\ NoOverlap /\ \A w \in Workers : HasRun(w) /\ StartIsAlone(w)

\* The enabled sites a worker no longer has to send to have been sent to.
SendingIsBacked(w) ==
  worker[w].pc = "send" =>
    \A k \in worker[w].sites \ worker[w].tosend : sent[worker[w].run][k] > 0

CoveredInv ==
  TypeOK /\ CompletedRunIsCovered /\ \A w \in Workers : HasRun(w) /\ SendingIsBacked(w)
=============================================================================
