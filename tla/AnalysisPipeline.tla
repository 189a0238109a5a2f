-------------------------- MODULE AnalysisPipeline --------------------------
(***************************************************************************)
(* The analysis pipeline as the default deployment runs it                  *)
(* (WORKER_ANALYSIS_MODE=local): the API commits an Analysis row and then   *)
(* sends its id on an in-memory queue; worker processes poll the            *)
(* analysis-intake and cv-conversion queues and run, step by step and with  *)
(* one database commit per step,                                            *)
(*   ensure_cv_converted -> ensure_offer_extracted -> run_crew_task ->      *)
(*   persist_analysis_result,                                               *)
(* with mark_analysis_failed as the catch-all.  A stuck row is re-driven by *)
(* the requeue endpoint, which puts the same row back to PENDING and sends  *)
(* its id again.                                                            *)
(*                                                                          *)
(* Sessions are opened with expire_on_commit=False, so a worker or a        *)
(* request reads an Analysis once and from then on decides on the copy it   *)
(* keeps (field seen); a commit writes only the columns that differ from    *)
(* that copy.  Both are modelled, since a row may change in between.        *)
(***************************************************************************)
EXTENDS Naturals, FiniteSets

CONSTANTS
  Analyses,    \* Analysis rows, identified by their id
  CVs,         \* CVVersions
  Offers,      \* JobOffers (shared between Analyses)
  CvOf,        \* Analysis.cvVersionId
  OfferOf,     \* Analysis.jobOfferId
  Workers,     \* local worker processes
  Requests,    \* API requests that may be in progress at the same time
  MsgIds,      \* bound: messages that may sit on the queues at once
  BatchSize,   \* MaxNumberOfMessages of one receive
  MaxLosses,   \* bound: crashes and restarts in a behaviour
  Faults       \* the faults the environment may produce

NoOne == "none"  \* no subject: the body of a free message slot

ASSUME PipelineAssumption ==
  /\ CvOf \in [Analyses -> CVs]
  /\ OfferOf \in [Analyses -> Offers]
  /\ IsFiniteSet(Analyses)
  /\ BatchSize \in Nat \ {0}
  /\ MaxLosses \in Nat
  /\ Faults \subseteq
       {"worker_crash", "broker_restart", "send_failure", "expiry", "s3", "provider", "reconvert"}
  /\ Analyses \cap CVs = {}
  /\ NoOne \notin Analyses \cup CVs

VARIABLES
  row,      \* the Analysis table
  aged,     \* is max(requestedAt, requeuedAt, startedAt) past the stuck threshold?
  cv,       \* CVVersion.conversionStatus
  offer,    \* JobOffer.extractionStatus
  stored,   \* ids whose result object exists in S3
  queue,    \* message slots of analysis-intake and cv-conversion
  worker,   \* what each worker process is doing
  request,  \* what each API request is doing
  run,      \* ScoutRun counts as the last roll-up wrote them
  losses    \* crashes and restarts so far

vars == <<row, aged, cv, offer, stored, queue, worker, request, run, losses>>

-----------------------------------------------------------------------------
(* Domains *)

Terminal == {"COMPLETED", "FAILED"}                        \* TERMINAL_ANALYSIS_STATUSES
NonTerminal == {"PENDING", "RUNNING_CREW", "AWAITING_RESULT"}
Status == {"ABSENT"} \cup NonTerminal \cup Terminal        \* ABSENT: no such row yet
Reason == {"none", "offer", "cv", "crew", "result", "caught"}  \* errorMessage, by its author
Row == [status: Status, key: BOOLEAN, error: Reason, result: BOOLEAN]
NoRow == [status |-> "ABSENT", key |-> FALSE, error |-> "none", result |-> FALSE]

Conversion == {"PENDING", "CONVERTING", "CONVERTED", "FAILED"}
Extraction == {"PENDING", "SCRAPED", "EXTRACTING", "READY", "FAILED"}

Body == Analyses \cup CVs
Slot == [state: {"free", "visible", "inflight"}, body: Body \cup {NoOne}]
FreeSlot == [state |-> "free", body |-> NoOne]

WorkerPc == {"idle", "next", "convert_message", "cv", "converting", "offer", "extracting",
             "crew", "inputs", "llm", "await", "persist", "rollup", "rollup_failed", "catch"}
WorkerState == [pc: WorkerPc, batch: SUBSET MsgIds, todo: SUBSET MsgIds,
                body: Body \cup {NoOne}, seen: Row]
IdleWorker == [pc |-> "idle", batch |-> {}, todo |-> {}, body |-> NoOne, seen |-> NoRow]

RequestPc == {"idle", "requeue", "convert", "send"}
RequestState == [pc: RequestPc, body: Body \cup {NoOne}, seen: Row]
IdleRequest == [pc |-> "idle", body |-> NoOne, seen |-> NoRow]

TypeOK ==
  /\ row \in [Analyses -> Row]
  /\ aged \in [Analyses -> BOOLEAN]
  /\ cv \in [CVs -> Conversion]
  /\ offer \in [Offers -> Extraction]
  /\ stored \subseteq Analyses
  /\ queue \in [MsgIds -> Slot]
  /\ worker \in [Workers -> WorkerState]
  /\ request \in [Requests -> RequestState]
  /\ run \in [analysed: Nat, failed: Nat]
  /\ losses \in 0..MaxLosses

\* Any CV the candidate may pick, and any offer an ingestion job left behind.
Init ==
  /\ row = [a \in Analyses |-> NoRow]
  /\ aged = [a \in Analyses |-> FALSE]
  /\ cv \in [CVs -> Conversion \ {"CONVERTING"}]
  /\ offer \in [Offers -> Extraction \ {"EXTRACTING"}]
  /\ stored = {}
  /\ queue = [m \in MsgIds |-> FreeSlot]
  /\ worker = [w \in Workers |-> IdleWorker]
  /\ request = [r \in Requests |-> IdleRequest]
  /\ run = [analysed |-> 0, failed |-> 0]
  /\ losses = 0

-----------------------------------------------------------------------------
(* Operators marked Mutant are not part of the model: each is a plausible
   mistake in the definition that follows it, by which the properties are
   shown to depend on the code. *)

(* What a commit writes: the columns whose value differs from the copy the
   session read, leaving whatever the row now holds in the others. *)

\* Mutant: an update that leaves out empty values never clears an error.
FlushOmittingEmpty(now, seen, new) ==
  [status |-> IF new.status # seen.status THEN new.status ELSE now.status,
   key    |-> IF new.key # seen.key THEN new.key ELSE now.key,
   error  |-> IF new.error \notin {seen.error, "none"} THEN new.error ELSE now.error,
   result |-> IF new.result # seen.result THEN new.result ELSE now.result]

Flush(now, seen, new) ==
  [status |-> IF new.status # seen.status THEN new.status ELSE now.status,
   key    |-> IF new.key # seen.key THEN new.key ELSE now.key,
   error  |-> IF new.error # seen.error THEN new.error ELSE now.error,
   result |-> IF new.result # seen.result THEN new.result ELSE now.result]

\* Mutant: the two columns are mixed up.
WithStatusSwapped(r, status, error) == [r EXCEPT !.status = error, !.error = status]

WithStatus(r, status, error) == [r EXCEPT !.status = status, !.error = error]

Nonterminal(a) == row[a].status \in NonTerminal

Held(m) == \E w \in Workers : m \in worker[w].batch

\* Slots a new message may take, and those promised to requests in progress.
FreeSlots == {m \in MsgIds : queue[m].state = "free" /\ ~Held(m)}
BusyRequests == {r \in Requests : request[r].pc # "idle"}
RoomForMessage == Cardinality(BusyRequests) < Cardinality(FreeSlots)

-----------------------------------------------------------------------------
(* The API *)

Accept(r, pc, body, seen) ==
  /\ request[r].pc = "idle"
  /\ RoomForMessage
  /\ request' = [request EXCEPT ![r] = [pc |-> pc, body |-> body, seen |-> seen]]

\* POST /analyses (and the fan-out of an ingestion job): insert and commit the
\* PENDING row; the message is sent afterwards.
CreateAnalysis(r, a) ==
  /\ row[a].status = "ABSENT"
  /\ Accept(r, "send", a, NoRow)
  /\ row' = [row EXCEPT ![a].status = "PENDING"]
  /\ aged' = [aged EXCEPT ![a] = FALSE]
  /\ UNCHANGED <<cv, offer, stored, queue, worker, run, losses>>

\* Mutant: only a row still waiting in the queue counts as stuck.
IsPendingStuck(a) == row[a].status = "PENDING" /\ aged[a]

IsStuck(a) == Nonterminal(a) /\ aged[a]

\* POST /analyses/{id}/requeue, first half: read the row and judge it.
RequeueRead(r, a) ==
  /\ IsStuck(a)
  /\ Accept(r, "requeue", a, row[a])
  /\ UNCHANGED <<row, aged, cv, offer, stored, queue, worker, run, losses>>

\* Mutant: the requeue clears the result key as well.
RequeueClearingKey(r) ==
  LET a == request[r].body
      seen == request[r].seen
  IN
  /\ request[r].pc = "requeue"
  /\ row' = [row EXCEPT ![a] =
               Flush(@, seen, [WithStatus(seen, "PENDING", "none") EXCEPT !.key = FALSE])]
  /\ aged' = [aged EXCEPT ![a] = FALSE]
  /\ request' = [request EXCEPT ![r].pc = "send"]
  /\ UNCHANGED <<cv, offer, stored, queue, worker, run, losses>>

\* Second half: PENDING, errorMessage and startedAt cleared, requeuedAt stamped
\* (which restarts the staleness clock), committed before the send.
RequeueCommit(r) ==
  LET a == request[r].body
      seen == request[r].seen
  IN
  /\ request[r].pc = "requeue"
  /\ row' = [row EXCEPT ![a] = Flush(@, seen, WithStatus(seen, "PENDING", "none"))]
  /\ aged' = [aged EXCEPT ![a] = FALSE]
  /\ request' = [request EXCEPT ![r].pc = "send"]
  /\ UNCHANGED <<cv, offer, stored, queue, worker, run, losses>>

\* POST /cv-versions/{id}/convert, first half: refused while CONVERTING.  A
\* status already PENDING is no change, so nothing will be written for it.
ConvertRead(r, c) ==
  /\ "reconvert" \in Faults
  /\ cv[c] # "CONVERTING"
  /\ Accept(r, IF cv[c] = "PENDING" THEN "send" ELSE "convert", c, NoRow)
  /\ UNCHANGED <<row, aged, cv, offer, stored, queue, worker, run, losses>>

ConvertCommit(r) ==
  /\ request[r].pc = "convert"
  /\ cv' = [cv EXCEPT ![request[r].body] = "PENDING"]
  /\ request' = [request EXCEPT ![r].pc = "send"]
  /\ UNCHANGED <<row, aged, offer, stored, queue, worker, run, losses>>

\* send_message, after the commit: the last thing each of the three does.
Send(r) ==
  /\ request[r].pc = "send"
  /\ \E m \in FreeSlots :
       queue' = [queue EXCEPT ![m] = [state |-> "visible", body |-> request[r].body]]
  /\ request' = [request EXCEPT ![r] = IdleRequest]
  /\ UNCHANGED <<row, aged, cv, offer, stored, worker, run, losses>>

\* The send raises, or the API stops between the commit and the send.
SendFails(r) ==
  /\ "send_failure" \in Faults
  /\ losses < MaxLosses
  /\ request[r].pc = "send"
  /\ request' = [request EXCEPT ![r] = IdleRequest]
  /\ losses' = losses + 1
  /\ UNCHANGED <<row, aged, cv, offer, stored, queue, worker, run>>

\* Time passes: the newest timestamp of a row falls behind the threshold.
Age(a) ==
  /\ row[a].status # "ABSENT"
  /\ ~aged[a]
  /\ aged' = [aged EXCEPT ![a] = TRUE]
  /\ UNCHANGED <<row, cv, offer, stored, queue, worker, request, run, losses>>

-----------------------------------------------------------------------------
(* The worker loop: receive a batch, handle its records one by one, delete it *)

Goto(w, pc) == worker' = [worker EXCEPT ![w].pc = pc]

\* An exception leaves the steps: the session is rolled back, its copies dropped.
Raise(w) == worker' = [worker EXCEPT ![w].pc = "catch", ![w].seen = NoRow]

\* On to the next record of the batch.
EndRecord(w) == worker' = [worker EXCEPT ![w].pc = "next", ![w].body = NoOne, ![w].seen = NoRow]

\* Mutant: a message is deleted when it is received.
ReceiveAndDelete(w, batch) ==
  /\ worker[w].pc = "idle"
  /\ batch # {} /\ Cardinality(batch) <= BatchSize
  /\ \A m \in batch : queue[m].state = "visible"
  /\ queue' = [m \in MsgIds |->
                 IF m \in batch THEN [queue[m] EXCEPT !.state = "free"] ELSE queue[m]]
  /\ worker' = [worker EXCEPT ![w] =
                  [IdleWorker EXCEPT !.pc = "next", !.batch = batch, !.todo = batch]]
  /\ UNCHANGED <<row, aged, cv, offer, stored, request, run, losses>>

\* poll_once on one of the two queues.
Receive(w, batch) ==
  /\ worker[w].pc = "idle"
  /\ batch # {} /\ Cardinality(batch) <= BatchSize
  /\ \A m \in batch : queue[m].state = "visible"
  /\ \/ \A m \in batch : queue[m].body \in Analyses
     \/ \A m \in batch : queue[m].body \in CVs
  /\ queue' = [m \in MsgIds |->
                 IF m \in batch THEN [queue[m] EXCEPT !.state = "inflight"] ELSE queue[m]]
  /\ worker' = [worker EXCEPT ![w] =
                  [IdleWorker EXCEPT !.pc = "next", !.batch = batch, !.todo = batch]]
  /\ UNCHANGED <<row, aged, cv, offer, stored, request, run, losses>>

\* The next record of an analysis-intake batch: run_analysis_pipeline reads the
\* row.  This is the only read of it until the pipeline rolls back.
LoadAnalysis(w, m) ==
  LET a == queue[m].body IN
  /\ worker[w].pc = "next"
  /\ m \in worker[w].todo
  /\ a \in Analyses
  /\ worker' = [worker EXCEPT ![w].pc = "cv", ![w].todo = @ \ {m},
                              ![w].body = a, ![w].seen = row[a]]
  /\ UNCHANGED <<row, aged, cv, offer, stored, queue, request, run, losses>>

\* ensure_cv_converted reads the CV, not the row: it goes on when the CV is
\* CONVERTED, else commits CONVERTING and converts.
EnsureCv(w) ==
  LET c == CvOf[worker[w].body] IN
  /\ worker[w].pc = "cv"
  /\ \/ /\ cv[c] = "CONVERTED"
        /\ Goto(w, "offer")
        /\ UNCHANGED cv
     \/ /\ cv[c] # "CONVERTED"
        /\ cv' = [cv EXCEPT ![c] = "CONVERTING"]
        /\ Goto(w, "converting")
  /\ UNCHANGED <<row, aged, offer, stored, queue, request, run, losses>>

\* How convert_cv ends: CONVERTED, FAILED, or with the file unreadable, which
\* raises and leaves the row CONVERTING.
ConversionEnds(c, status) ==
  /\ status \in {"CONVERTED", "FAILED", "CONVERTING"}
  /\ status = "CONVERTING" => "s3" \in Faults
  /\ cv' = [cv EXCEPT ![c] = IF status = "CONVERTING" THEN @ ELSE status]

Convert(w) ==
  /\ worker[w].pc = "converting"
  /\ \E status \in Conversion :
       /\ ConversionEnds(CvOf[worker[w].body], status)
       /\ IF status = "CONVERTED" THEN Goto(w, "offer") ELSE Raise(w)
  /\ UNCHANGED <<row, aged, offer, stored, queue, request, run, losses>>

\* ensure_offer_extracted: READY goes on; an offer without scraped content
\* raises untouched; any other is committed EXTRACTING and extracted.
EnsureOffer(w) ==
  LET o == OfferOf[worker[w].body] IN
  /\ worker[w].pc = "offer"
  /\ \/ /\ offer[o] = "READY"
        /\ Goto(w, "crew")
        /\ UNCHANGED offer
     \/ /\ offer[o] \in {"PENDING", "FAILED"}
        /\ Raise(w)
        /\ UNCHANGED offer
     \/ /\ offer[o] \in {"SCRAPED", "EXTRACTING", "FAILED"}
        /\ offer' = [offer EXCEPT ![o] = "EXTRACTING"]
        /\ Goto(w, "extracting")
  /\ UNCHANGED <<row, aged, cv, stored, queue, request, run, losses>>

\* extract_job_offer ends READY or FAILED; an unreadable object or a provider
\* error outside the three it retries raises and leaves the row EXTRACTING.
Extract(w) ==
  LET o == OfferOf[worker[w].body] IN
  /\ worker[w].pc = "extracting"
  /\ \E status \in {"READY", "FAILED", "EXTRACTING"} :
       /\ status = "EXTRACTING" => Faults \cap {"s3", "provider"} # {}
       /\ offer' = [offer EXCEPT ![o] = IF status = "EXTRACTING" THEN @ ELSE status]
       /\ IF status = "READY" THEN Goto(w, "crew") ELSE Raise(w)
  /\ UNCHANGED <<row, aged, cv, stored, queue, request, run, losses>>

-----------------------------------------------------------------------------
(* run_crew_task and persist_analysis_result: writers of the row *)

\* Commit new to the row through the copy the session holds, and go on at pc.
Save(w, new, pc) ==
  LET a == worker[w].body IN
  /\ row' = [row EXCEPT ![a] = Flush(@, worker[w].seen, new)]
  /\ worker' = [worker EXCEPT ![w].seen = new, ![w].pc = pc]

\* The duplicate guard: a COMPLETED copy with a result key skips the crew.
SkipCrew(w) ==
  /\ worker[w].pc = "crew"
  /\ worker[w].seen.status = "COMPLETED" /\ worker[w].seen.key
  /\ Goto(w, "persist")
  /\ UNCHANGED <<row, aged, cv, offer, stored, queue, request, run, losses>>

\* Mutant: the crew runs again whatever the copy says.
StartCrewAlways(w) ==
  /\ worker[w].pc = "crew"
  /\ Save(w, [worker[w].seen EXCEPT !.status = "RUNNING_CREW"], "inputs")
  /\ aged' = [aged EXCEPT ![worker[w].body] = FALSE]
  /\ UNCHANGED <<cv, offer, stored, queue, request, run, losses>>

\* RUNNING_CREW, startedAt stamped.
StartCrew(w) ==
  LET seen == worker[w].seen IN
  /\ worker[w].pc = "crew"
  /\ ~(seen.status = "COMPLETED" /\ seen.key)
  /\ Save(w, [seen EXCEPT !.status = "RUNNING_CREW"], "inputs")
  /\ aged' = [aged EXCEPT ![worker[w].body] = FALSE]
  /\ UNCHANGED <<cv, offer, stored, queue, request, run, losses>>

\* _fail: FAILED with the reason, then the error is raised.  No roll-up.
FailCrew(w, reason) ==
  LET a == worker[w].body
      seen == worker[w].seen
  IN
  /\ row' = [row EXCEPT ![a] = Flush(@, seen, WithStatus(seen, "FAILED", reason))]
  /\ Raise(w)

\* The inputs are read again: the offer must be READY, the CV CONVERTED.
ReadInputs(w) ==
  LET a == worker[w].body IN
  /\ worker[w].pc = "inputs"
  /\ \/ offer[OfferOf[a]] # "READY" /\ FailCrew(w, "offer")
     \/ /\ offer[OfferOf[a]] = "READY"
        /\ cv[CvOf[a]] # "CONVERTED"
        /\ FailCrew(w, "cv")
     \/ /\ offer[OfferOf[a]] = "READY"
        /\ cv[CvOf[a]] = "CONVERTED"
        /\ Goto(w, "llm")
        /\ UNCHANGED row
  /\ UNCHANGED <<aged, cv, offer, stored, queue, request, run, losses>>

\* Mutant: the row is handed over without the object having been put.
RunCrewUnstored(w) ==
  /\ worker[w].pc = "llm"
  /\ Goto(w, "await")
  /\ UNCHANGED <<row, aged, cv, offer, stored, queue, request, run, losses>>

\* The two crews run and the result object is put: done, refused by one of the
\* errors the task knows, or interrupted by one it does not.
RunCrew(w) ==
  /\ worker[w].pc = "llm"
  /\ \/ /\ stored' = stored \cup {worker[w].body}
        /\ Goto(w, "await")
        /\ UNCHANGED row
     \/ /\ FailCrew(w, "crew")
        /\ UNCHANGED stored
     \/ /\ Faults \cap {"provider", "s3"} # {}
        /\ Raise(w)
        /\ UNCHANGED <<row, stored>>
  /\ UNCHANGED <<aged, cv, offer, queue, request, run, losses>>

AwaitResult(w) ==
  /\ worker[w].pc = "await"
  /\ Save(w, [worker[w].seen EXCEPT !.status = "AWAITING_RESULT", !.key = TRUE,
                                    !.error = "none"], "persist")
  /\ UNCHANGED <<aged, cv, offer, stored, queue, request, run, losses>>

\* The object is read back and validated; an absent or unreadable one raises.
Persist(w) ==
  LET seen == worker[w].seen IN
  /\ worker[w].pc = "persist"
  /\ \/ /\ worker[w].body \in stored
        /\ Save(w, [WithStatus(seen, "COMPLETED", "none") EXCEPT !.result = TRUE], "rollup")
     \/ /\ "s3" \in Faults
        /\ Save(w, WithStatus(seen, "FAILED", "result"), "rollup_failed")
     \/ /\ worker[w].body \notin stored \/ "s3" \in Faults
        /\ Raise(w)
        /\ UNCHANGED row
  /\ UNCHANGED <<aged, cv, offer, stored, queue, request, run, losses>>

\* The pipeline's except clause: roll back, re-read the row, and unless it is
\* already FAILED mark it so.
MarkFailed(w) ==
  LET a == worker[w].body IN
  /\ worker[w].pc = "catch"
  /\ \/ /\ row[a].status = "FAILED"
        /\ EndRecord(w)
        /\ UNCHANGED row
     \/ /\ row[a].status # "FAILED"
        /\ row' = [row EXCEPT ![a] = WithStatus(@, "FAILED", "caught")]
        /\ Goto(w, "rollup")
  /\ UNCHANGED <<aged, cv, offer, stored, queue, request, run, losses>>

\* roll_up_scout_run: the counts are recomputed from the rows.
CountOf(status) == Cardinality({a \in Analyses : row[a].status = status})

\* Mutant: the roll-up's error is not kept from the pipeline's except clause.
RollUpRaising(w) ==
  /\ worker[w].pc \in {"rollup", "rollup_failed"}
  /\ Raise(w)
  /\ UNCHANGED <<row, aged, cv, offer, stored, queue, request, run, losses>>

RollUp(w) ==
  /\ worker[w].pc \in {"rollup", "rollup_failed"}
  /\ run' = [analysed |-> CountOf("COMPLETED"), failed |-> CountOf("FAILED")]
  /\ IF worker[w].pc = "rollup" THEN EndRecord(w) ELSE Raise(w)
  /\ UNCHANGED <<row, aged, cv, offer, stored, queue, request, losses>>

-----------------------------------------------------------------------------
(* The cv-conversion queue, and the end of a batch *)

LoadConversion(w, m) ==
  LET c == queue[m].body IN
  /\ worker[w].pc = "next"
  /\ m \in worker[w].todo
  /\ c \in CVs
  /\ cv' = [cv EXCEPT ![c] = "CONVERTING"]
  /\ worker' = [worker EXCEPT ![w].pc = "convert_message", ![w].todo = @ \ {m}, ![w].body = c]
  /\ UNCHANGED <<row, aged, offer, stored, queue, request, run, losses>>

\* handle_cv_conversion goes on after a recorded failure; any other error
\* abandons the batch, which stays undeleted.
ConvertMessage(w) ==
  /\ worker[w].pc = "convert_message"
  /\ \E status \in Conversion :
       /\ ConversionEnds(worker[w].body, status)
       /\ IF status = "CONVERTING"
          THEN worker' = [worker EXCEPT ![w] = IdleWorker]
          ELSE EndRecord(w)
  /\ UNCHANGED <<row, aged, offer, stored, queue, request, run, losses>>

HeldByOther(w, m) == \E v \in Workers \ {w} : m \in worker[v].batch

\* Every record handled: the batch is deleted.  (A slot another worker also
\* received keeps its body, which that worker has in hand.)
DeleteBatch(w) ==
  /\ worker[w].pc = "next"
  /\ worker[w].todo = {}
  /\ queue' = [m \in MsgIds |->
                 IF m \notin worker[w].batch THEN queue[m]
                 ELSE IF HeldByOther(w, m) THEN [queue[m] EXCEPT !.state = "free"]
                 ELSE FreeSlot]
  /\ worker' = [worker EXCEPT ![w] = IdleWorker]
  /\ UNCHANGED <<row, aged, cv, offer, stored, request, run, losses>>

-----------------------------------------------------------------------------
(* The queue and the faults *)

\* The visibility timeout of a received message expires.  "expiry": it may do
\* so while its receiver is still at work.
BecomeVisible(m) ==
  /\ queue[m].state = "inflight"
  /\ Held(m) => "expiry" \in Faults
  /\ queue' = [queue EXCEPT ![m].state = "visible"]
  /\ UNCHANGED <<row, aged, cv, offer, stored, worker, request, run, losses>>

\* The worker process dies: its batch was never deleted.
WorkerCrash(w) ==
  /\ "worker_crash" \in Faults
  /\ losses < MaxLosses
  /\ worker[w].pc # "idle"
  /\ worker' = [worker EXCEPT ![w] = IdleWorker]
  /\ losses' = losses + 1
  /\ UNCHANGED <<row, aged, cv, offer, stored, queue, request, run>>

\* The broker keeps messages in memory only: a restart drops every one.
BrokerRestart ==
  /\ "broker_restart" \in Faults
  /\ losses < MaxLosses
  /\ \E m \in MsgIds : queue[m].state # "free"
  /\ queue' = [m \in MsgIds |->
                 IF Held(m) THEN [queue[m] EXCEPT !.state = "free"] ELSE FreeSlot]
  /\ losses' = losses + 1
  /\ UNCHANGED <<row, aged, cv, offer, stored, worker, request, run>>

-----------------------------------------------------------------------------

ApiStep(r) ==
  \/ \E a \in Analyses : CreateAnalysis(r, a) \/ RequeueRead(r, a)
  \/ RequeueCommit(r)
  \/ \E c \in CVs : ConvertRead(r, c)
  \/ ConvertCommit(r)
  \/ Send(r)
  \/ SendFails(r)

\* One record's handling, from its load to the next.
HandlerStep(w) ==
  \/ EnsureCv(w) \/ Convert(w) \/ EnsureOffer(w) \/ Extract(w)
  \/ SkipCrew(w) \/ StartCrew(w) \/ ReadInputs(w) \/ RunCrew(w) \/ AwaitResult(w)
  \/ Persist(w) \/ MarkFailed(w) \/ RollUp(w)
  \/ ConvertMessage(w)

LoadNext(w) == \E m \in MsgIds : LoadAnalysis(w, m) \/ LoadConversion(w, m)

Next ==
  \/ \E r \in Requests : ApiStep(r)
  \/ \E a \in Analyses : Age(a)
  \/ \E w \in Workers :
       \/ \E batch \in SUBSET MsgIds : Receive(w, batch)
       \/ LoadNext(w)
       \/ HandlerStep(w)
       \/ DeleteBatch(w)
       \/ WorkerCrash(w)
  \/ \E m \in MsgIds : BecomeVisible(m)
  \/ BrokerRestart

Spec == Init /\ [][Next]_vars

-----------------------------------------------------------------------------
(* Fairness: a worker that has a step takes it; run_forever polls its queues
   in turn, and the broker hands out every visible message at some poll; a
   visibility timeout expires; a request that has committed goes on to its
   send.  Nobody is forced to create an Analysis or to convert a CV. *)

Fairness ==
  /\ \A w \in Workers : WF_vars(LoadNext(w) \/ HandlerStep(w) \/ DeleteBatch(w))
  /\ \A m \in MsgIds :
       /\ SF_vars(\E w \in Workers, batch \in SUBSET MsgIds : m \in batch /\ Receive(w, batch))
       /\ WF_vars(~Held(m) /\ BecomeVisible(m))
  /\ \A r \in Requests : WF_vars(RequeueCommit(r) \/ ConvertCommit(r) \/ Send(r))

FairSpec == Spec /\ Fairness

\* In addition the candidate uses the button the interface offers on a stuck row.
UserFairness ==
  /\ \A a \in Analyses : WF_vars(Age(a)) /\ SF_vars(\E r \in Requests : RequeueRead(r, a))

RequeueingSpec == FairSpec /\ UserFairness

-----------------------------------------------------------------------------
(* Properties *)

\* What a COMPLETED row shows is there: its result and its object in S3, under
\* every duplicate, crash, stale copy or requeue.
CompletedHasResult ==
  \A a \in Analyses :
    row[a].status = "COMPLETED" => row[a].result /\ row[a].key /\ a \in stored

\* A row that is not finished has somebody who will drive it: a message not yet
\* deleted, or a request about to send one.  A worker's death does not break
\* this: its batch is still on the queue.
NothingStranded ==
  \A a \in Analyses :
    Nonterminal(a) =>
      \/ \E m \in MsgIds : queue[m].state # "free" /\ queue[m].body = a
      \/ \E r \in Requests : request[r].pc = "send" /\ request[r].body = a

\* A COMPLETED row shows no error, whatever earlier attempt had left one.
CompletedHasNoError ==
  \A a \in Analyses : row[a].status = "COMPLETED" => row[a].error = "none"

\* A FAILED row says why.
FailedHasReason ==
  \A a \in Analyses : row[a].status = "FAILED" => row[a].error # "none"

\* A duplicate message is a no-op: no step of a worker takes a row out of
\* COMPLETED.  (A requeue that judged the row before it finished still may.)
CompletedIsKept ==
  [][\A a \in Analyses :
       row[a].status = "COMPLETED" /\ row'[a].status # "COMPLETED" =>
         \E r \in Requests : request[r].pc = "requeue" /\ request[r].body = a]_vars

\* Re-running a finished Analysis is a new row: no worker step takes a FAILED
\* row back to work.
FailedIsKept ==
  [][\A a \in Analyses :
       row[a].status = "FAILED" /\ row'[a].status # "FAILED" =>
         \E r \in Requests : request[r].pc = "requeue" /\ request[r].body = a]_vars

\* A row cannot be requeued twice inside one stuck window: when a requeue
\* stamps a row, the row is past the threshold.
RequeueOncePerWindow ==
  [][\A r \in Requests :
       request[r].pc = "requeue" /\ request'[r].pc = "send" => aged[request[r].body]]_vars

\* The owning ScoutRun's failedCount keeps up with its rows: once every worker
\* is idle it counts exactly the FAILED ones.
FailedCountIsCurrent ==
  (\A w \in Workers : worker[w].pc = "idle") => run.failed = CountOf("FAILED")

\* Every Analysis ends: COMPLETED or FAILED.
EventuallyTerminal == \A a \in Analyses : Nonterminal(a) ~> ~Nonterminal(a)

-----------------------------------------------------------------------------
(* Why CompletedHasResult holds in every deployment: a result, a key and an
   object are never taken away, so what a worker's copy says of them was true
   when it was read and still is. *)

\* A worker in the steps of the pipeline has an Analysis in hand.
InPipeline(w) == worker[w].pc \notin {"idle", "next", "convert_message"}

\* The copy w holds claims no result, key or object the row lacks, and by the
\* time w hands over and persists, the object and the key exist.
WorkerBacked(w) ==
  LET a == worker[w].body
      seen == worker[w].seen
  IN
  /\ InPipeline(w) => a \in Analyses
  /\ a \in Analyses =>
       /\ seen.result => row[a].result
       /\ seen.key => row[a].key
       /\ seen.status = "COMPLETED" => seen.result /\ seen.key /\ a \in stored
  /\ worker[w].pc \in {"await", "persist"} => a \in stored
  /\ worker[w].pc = "persist" => seen.key

CompletedInv == TypeOK /\ CompletedHasResult /\ \A w \in Workers : WorkerBacked(w)

\* The pipeline implements the life cycle the candidate is shown.
Lifecycle ==
  INSTANCE AnalysisLifecycle
    WITH status <- [a \in Analyses |-> row[a].status],
         results <- {a \in Analyses : row[a].result}

ImplementsLifecycle == Lifecycle!Spec
=============================================================================
