---------------------------- MODULE AnalyseOffers ----------------------------
(***************************************************************************)
(* "Analyse one offer" (analyses/new/page.tsx), "Analyse several offers"   *)
(* (analyses/new/several/page.tsx, batch-result-view.tsx) and the scraping *)
(* detail (ingestion-jobs/[id]/page.tsx), over the ingestion worker and    *)
(* the endpoints they call.                                                *)
(*                                                                         *)
(* The candidate submits, waits, retries or leaves; the pages poll an      *)
(* IngestionJob and its Analyses, each at its own pace; one worker takes   *)
(* the jobs from their queue and may die at any point.                     *)
(***************************************************************************)
EXTENDS Naturals, Sequences, SequencesExt, FiniteSets, FiniteSetsExt

CONSTANTS
  Offers,       \* the job offers there are, by their URL
  Quota,        \* Analyses the candidate may still ask for today
  MaxClicks,    \* what the candidate does
  MaxJobs,      \* IngestionJobs
  MaxFaults     \* requests lost, errors and deaths of the worker

ASSUME OffersAssumption ==
  /\ IsFiniteSet(Offers) /\ "none" \notin Offers
  /\ Quota \in Nat /\ MaxClicks \in Nat /\ MaxJobs \in Nat /\ MaxFaults \in Nat

VARIABLES
  offers,    \* extractionStatus of each JobOffer, or "none" before it is known
  jobs,      \* the IngestionJobs, in the order they were created
  analyses,  \* the Analyses, in the order they were created
  intake,    \* ingestion-intake: job numbers
  worker,    \* what the worker is at
  requests,  \* the mutations under way
  page,      \* where the candidate is, and what the page knows
  job,       \* the cached IngestionJob, NotRead before the first answer
  seen,      \* the cached statuses of its Analyses, by their number
  clicks,
  faults

server == <<offers, jobs, analyses, intake, worker>>
browser == <<requests, page, job, seen, clicks>>
vars == <<server, browser, faults>>

Nothing == 0
None == "none"
TerminalJob == {"COMPLETED", "PARTIALLY_COMPLETED", "FAILED"}
TerminalAnalysis == {"COMPLETED", "FAILED"}
NotRead == [status |-> "unread", listing |-> FALSE, skipped |-> 0]
NothingSeen == [i \in {} |-> "PENDING"]
Idle == [job |-> Nothing, stage |-> "idle", unsent |-> {}]

Job == [mode : {"SINGLE_URL", "SITE_SEARCH"}, url : Offers \cup {None}, linked : SUBSET Offers,
        status : {"PENDING", "RUNNING"} \cup TerminalJob, listing : BOOLEAN,
        skipped : Nat]
Analysis == [of : Offers, job : Nat, status : {"PENDING"} \cup TerminalAnalysis, sent : BOOLEAN]
Request == [kind : {"shortcut", "create", "direct"}, here : BOOLEAN, of : Offers \cup {None},
            at : {"asking", "ready", "unknown", "existing", "capped", "done", "failed"}, id : Nat]
Page == [at : {"one", "several", "job", "analysis", "elsewhere"}, job : Nat, submitted : Offers \cup {None},
         known : Nat, capped : BOOLEAN, error : BOOLEAN, opened : Nat]

\* A page as it mounts.
Fresh(at) == [at |-> at, job |-> Nothing, submitted |-> None, known |-> Nothing,
              capped |-> FALSE, error |-> FALSE, opened |-> Nothing]

Init ==
  /\ offers \in [Offers -> {"none", "READY"}]
  /\ jobs = <<>> /\ analyses = <<>> /\ intake = <<>>
  /\ worker = Idle
  /\ requests = <<>>
  /\ page = Fresh("one")
  /\ job = NotRead
  /\ seen = NothingSeen
  /\ clicks = 0
  /\ faults = 0

-----------------------------------------------------------------------------
(* What the pages show *)

Waiting == page.at = "one" /\ page.job # Nothing
FailureShown == Waiting /\ job.status = "FAILED" /\ seen = NothingSeen
\* A page of listings is told apart, and sends the candidate to "several".
RetryShown == FailureShown /\ ~job.listing
Spinning == Waiting /\ ~FailureShown
Batch == page.at = "several" /\ page.job # Nothing
SeveralForm == page.at = "several" /\ page.job = Nothing
OfferForm == page.at = "one" /\ page.job = Nothing /\ page.known = Nothing
AlreadyShown == page.at = "one" /\ page.job = Nothing /\ page.known # Nothing

JobDetail == page.at = "job"

JobOver == job.status \in TerminalJob
\* The rows for the offers that the quota left out.
QuotaSkippedRows == job.skipped
Settled == \A i \in DOMAIN seen : seen[i] \in TerminalAnalysis

\* The refetchInterval of useIngestionJob, and the two of useAnalyses.
JobPolled == (Waiting \/ Batch \/ JobDetail) /\ ~JobOver

\* Mutant: the job ends both polls.
AnalysesPolledWithJob == ((Waiting /\ seen = NothingSeen) \/ Batch) /\ ~JobOver

AnalysesPolled ==
  \/ Waiting /\ seen = NothingSeen
  \/ Batch /\ ~(JobOver /\ Settled)

Pending(kind) == \E n \in DOMAIN requests : requests[n].kind = kind /\ requests[n].here
Busy == Pending("shortcut") \/ Pending("create") \/ Pending("direct")

-----------------------------------------------------------------------------
(* The candidate *)

Click == clicks < MaxClicks /\ clicks' = clicks + 1
Fault == faults < MaxFaults /\ faults' = faults + 1

New(kind, here, of) == [kind |-> kind, here |-> here, of |-> of, at |-> "asking", id |-> Nothing]
Send(r) == requests' = Append(requests, r)
\* A page that goes leaves its requests to whoever comes next.
Left(s) == [k \in DOMAIN s |-> [s[k] EXCEPT !.here = FALSE]]

\* The known-offer shortcut comes first.
SubmitOffer(o) ==
  /\ Click
  /\ OfferForm /\ ~Busy
  /\ Send(New("shortcut", TRUE, o))
  /\ page' = [page EXCEPT !.capped = FALSE, !.error = FALSE]
  /\ UNCHANGED <<server, job, seen, faults>>

Rerun ==
  /\ Click
  /\ AlreadyShown /\ ~Pending("direct")
  /\ Send(New("direct", TRUE, analyses[page.known].of))
  /\ page' = [page EXCEPT !.capped = FALSE, !.error = FALSE]
  /\ UNCHANGED <<server, job, seen, faults>>

Retry ==
  /\ Click
  /\ RetryShown /\ ~Pending("create")
  /\ Send(New("create", TRUE, page.submitted))
  /\ UNCHANGED <<server, page, job, seen, faults>>

SubmitSeveral ==
  /\ Click
  /\ SeveralForm /\ ~Pending("create")
  /\ Send(New("create", TRUE, None))
  /\ page' = [page EXCEPT !.error = FALSE]
  /\ UNCHANGED <<server, job, seen, faults>>

\* A link: the two forms link to each other, the failure of a listing to
\* "several", the note to the known Analysis, and the menu to anywhere.
Leave ==
  /\ Click
  /\ \/ \E at \in {"one", "several", "elsewhere"} : page' = Fresh(at)
     \/ AlreadyShown /\ page' = [Fresh("analysis") EXCEPT !.opened = page.known]
  /\ job' = NotRead
  /\ seen' = NothingSeen
  /\ requests' = Left(requests)
  /\ UNCHANGED <<server, faults>>

\* A row of the batch.
OpenRow(i) ==
  /\ Click
  /\ Batch
  /\ i \in DOMAIN seen
  /\ page' = [Fresh("analysis") EXCEPT !.opened = i]
  /\ job' = NotRead
  /\ seen' = NothingSeen
  /\ requests' = Left(requests)
  /\ UNCHANGED <<server, faults>>

\* The scraping detail reads the same cached job.
OpenDetail ==
  /\ Click
  /\ Batch
  /\ page' = [Fresh("job") EXCEPT !.job = page.job]
  /\ requests' = Left(requests)
  /\ UNCHANGED <<server, job, seen, faults>>

-----------------------------------------------------------------------------
(* The requests *)

At(n, at, id) == requests' = [requests EXCEPT ![n].at = at, ![n].id = id]
Unchanged(n, kind, at) == requests[n].kind = kind /\ requests[n].at = at

\* GET /job-offers: only a READY offer is known...
OfferLooked(n) ==
  /\ Unchanged(n, "shortcut", "asking")
  /\ At(n, IF offers[requests[n].of] = "READY" THEN "ready" ELSE "unknown", Nothing)
  /\ UNCHANGED <<server, page, job, seen, clicks, faults>>

\* ...and then GET /analyses, newest first, for a COMPLETED one.
CompletedOf(o) == {i \in DOMAIN analyses : analyses[i].of = o /\ analyses[i].status = "COMPLETED"}
AnalysesLooked(n) ==
  /\ Unchanged(n, "shortcut", "ready")
  /\ LET existing == CompletedOf(requests[n].of) IN
       IF existing = {} THEN At(n, "done", Nothing) ELSE At(n, "existing", Max(existing))
  /\ UNCHANGED <<server, page, job, seen, clicks, faults>>

\* POST /ingestion-jobs: the row and its message.
CreateServed(n) ==
  /\ Unchanged(n, "create", "asking")
  /\ Len(jobs) < MaxJobs
  /\ jobs' = Append(jobs, [mode |-> IF requests[n].of = None THEN "SITE_SEARCH" ELSE "SINGLE_URL",
                           url |-> requests[n].of, linked |-> {}, status |-> "PENDING",
                           listing |-> FALSE, skipped |-> 0])
  /\ intake' = Append(intake, Len(jobs'))
  /\ At(n, "done", Len(jobs'))
  /\ UNCHANGED <<offers, analyses, worker, page, job, seen, clicks, faults>>

\* POST /analyses counts the day's Analyses...
QuotaLeft == IF Len(analyses) < Quota THEN Quota - Len(analyses) ELSE 0
DirectCounted(n) ==
  /\ Unchanged(n, "direct", "asking")
  /\ At(n, IF QuotaLeft = 0 THEN "capped" ELSE "ready", Nothing)
  /\ UNCHANGED <<server, page, job, seen, clicks, faults>>

\* ...and then inserts one and sends it.
NewAnalysis(o, j) == [of |-> o, job |-> j, status |-> "PENDING", sent |-> j = Nothing]
DirectServed(n) ==
  /\ Unchanged(n, "direct", "ready")
  /\ analyses' = Append(analyses, NewAnalysis(requests[n].of, Nothing))
  /\ At(n, "done", Len(analyses'))
  /\ UNCHANGED <<offers, jobs, intake, worker, page, job, seen, clicks, faults>>

\* A request that fails on the way, or whose answer does.
Lose(n) ==
  /\ requests[n].at # "failed"
  /\ Fault
  /\ At(n, "failed", Nothing)
  /\ UNCHANGED <<server, page, job, seen, clicks>>

-----------------------------------------------------------------------------
(* The answers *)

Mounted(n) == requests[n].here
Answered(n) == requests' = RemoveAt(requests, n)

\* The handler goes on from the shortcut whether or not its page is still there.
GoesOn(n, kind) ==
  requests' = Append(RemoveAt(requests, n), New(kind, requests[n].here, requests[n].of))

ShortcutAnswered(n) ==
  /\ requests[n].kind = "shortcut"
  /\ \/ /\ requests[n].at = "unknown"
        /\ GoesOn(n, "create")
        /\ page' = IF Mounted(n) THEN [page EXCEPT !.submitted = requests[n].of] ELSE page
     \/ /\ requests[n].at = "done"
        /\ GoesOn(n, "direct")
        /\ UNCHANGED page
     \/ /\ requests[n].at = "existing"
        /\ Answered(n)
        /\ page' = IF Mounted(n) THEN [page EXCEPT !.known = requests[n].id] ELSE page
     \/ /\ requests[n].at = "failed"
        /\ Answered(n)
        /\ page' = IF Mounted(n) THEN [page EXCEPT !.error = TRUE] ELSE page
  /\ UNCHANGED <<server, job, seen, clicks, faults>>

\* The page is only told while it is mounted; a new job is a new key, with
\* nothing cached.
CreateAnswered(n) ==
  /\ requests[n].kind = "create"
  /\ requests[n].at \in {"done", "failed"}
  /\ Answered(n)
  /\ IF Mounted(n) /\ requests[n].at = "done"
     THEN /\ page' = [page EXCEPT !.job = requests[n].id]
          /\ job' = NotRead
          /\ seen' = NothingSeen
     ELSE /\ page' = IF Mounted(n) THEN [page EXCEPT !.error = TRUE] ELSE page
          /\ UNCHANGED <<job, seen>>
  /\ UNCHANGED <<server, clicks, faults>>

\* router.replace is of the application, not of the page that awaited.
DirectAnswered(n) ==
  /\ requests[n].kind = "direct"
  /\ requests[n].at \in {"done", "capped", "failed"}
  /\ IF requests[n].at = "done"
     THEN /\ requests' = Left(RemoveAt(requests, n))
          /\ page' = [Fresh("analysis") EXCEPT !.opened = requests[n].id]
          /\ job' = NotRead
          /\ seen' = NothingSeen
     ELSE /\ Answered(n)
          /\ page' = IF Mounted(n) THEN [page EXCEPT !.capped = requests[n].at = "capped",
                                                     !.error = requests[n].at = "failed"]
                     ELSE page
          /\ UNCHANGED <<job, seen>>
  /\ UNCHANGED <<server, clicks, faults>>

-----------------------------------------------------------------------------
(* The polls.  A poll that fails is sent again: it changes nothing. *)

\* Mutant: the Analyses are not filtered by their job.
OfAnyJob(j) == DOMAIN analyses

OfJob(j) == {i \in DOMAIN analyses : analyses[i].job = j}

PollJob ==
  /\ JobPolled
  /\ LET j == jobs[page.job] IN
       job' = [status |-> j.status, listing |-> j.listing, skipped |-> j.skipped]
  /\ UNCHANGED <<server, requests, page, seen, clicks, faults>>

PollAnalyses ==
  /\ AnalysesPolled
  /\ LET batch == OfJob(page.job)
         read == [i \in batch |-> analyses[i].status]
     IN
     IF Waiting /\ batch # {}
     THEN /\ page' = [Fresh("analysis") EXCEPT !.opened = Max(batch)]
          /\ job' = NotRead
          /\ seen' = NothingSeen
          /\ requests' = Left(requests)
     ELSE seen' = read /\ UNCHANGED <<page, job, requests>>
  /\ UNCHANGED <<server, clicks, faults>>

-----------------------------------------------------------------------------
(* The ingestion worker *)

Current == jobs[worker.job]
SetJob(j) == jobs' = [jobs EXCEPT ![worker.job] = j]
Step(stage, unsent) == worker' = [worker EXCEPT !.stage = stage, !.unsent = unsent]

\* dispatch_ingestion_job marks it RUNNING, whatever it was.
TakeJob ==
  /\ worker = Idle
  /\ intake # <<>>
  /\ intake' = Tail(intake)
  /\ jobs' = [jobs EXCEPT ![Head(intake)].status = "RUNNING"]
  /\ worker' = [job |-> Head(intake), stage |-> "finding", unsent |-> {}]
  /\ UNCHANGED <<offers, analyses, browser, faults>>

\* SINGLE_URL links its offer, a FAILED one to be tried again; a search links
\* what it finds, or fails without an offer.
FindOffers ==
  /\ worker.stage = "finding"
  /\ \/ /\ Current.mode = "SINGLE_URL"
        /\ SetJob([Current EXCEPT !.linked = {Current.url}])
        /\ offers' = [offers EXCEPT ![Current.url] = IF @ = "FAILED" THEN "none" ELSE @]
        /\ Step("extracting", {})
     \/ /\ Current.mode = "SITE_SEARCH"
        /\ \E found \in SUBSET Offers \ {{}} : SetJob([Current EXCEPT !.linked = @ \cup found])
        /\ Step("extracting", {})
        /\ UNCHANGED offers
     \/ /\ Current.mode = "SITE_SEARCH"
        /\ SetJob([Current EXCEPT !.status = "FAILED"])
        /\ Step("creating", {})
        /\ UNCHANGED offers
  /\ UNCHANGED <<analyses, intake, browser, faults>>

Unread == {o \in Current.linked : offers[o] = "none"}

ExtractOffer ==
  /\ worker.stage = "extracting"
  /\ \E o \in Unread, status \in {"READY", "FAILED"} :
       /\ offers' = [offers EXCEPT ![o] = status]
       /\ \/ UNCHANGED worker
          \* looks_like_listing
          \/ Current.mode = "SINGLE_URL" /\ status = "FAILED" /\ Step("listing", {})
  /\ UNCHANGED <<jobs, analyses, intake, browser, faults>>

\* update_ingestion_job_aggregate commits the terminal status and its own message...
Aggregate ==
  /\ worker.stage \in {"extracting", "listing"}
  /\ Unread = {}
  /\ LET failed == Cardinality({o \in Current.linked : offers[o] = "FAILED"}) IN
       SetJob([Current EXCEPT
                 !.listing = FALSE,
                 !.status = IF failed = 0 THEN "COMPLETED"
                            ELSE IF failed = Cardinality(Current.linked) THEN "FAILED"
                            ELSE "PARTIALLY_COMPLETED"])
  /\ Step(IF worker.stage = "listing" THEN "telling" ELSE "creating", {})
  /\ UNCHANGED <<offers, analyses, intake, browser, faults>>

\* ...which a listing is only told apart from by a commit of its own...
TellListing ==
  /\ worker.stage = "telling"
  /\ SetJob([Current EXCEPT !.listing = TRUE, !.status = "FAILED"])
  /\ Step("creating", {})
  /\ UNCHANGED <<offers, analyses, intake, browser, faults>>

\* Mutant: those it has made are made again.
UnanalysedAgain == {o \in Current.linked : offers[o] = "READY"}

\* ...before create_analyses_for_ready_offers commits the Analyses: those the
\* job has not made already, up to what is left of the quota.
Unanalysed == {o \in Current.linked : offers[o] = "READY"} \ {analyses[i].of : i \in OfJob(worker.job)}
CreateAnalyses ==
  /\ worker.stage = "creating"
  /\ \E chosen \in SUBSET Unanalysed :
       /\ Cardinality(chosen) = Min({QuotaLeft, Cardinality(Unanalysed)})
       /\ LET order == SetToSeq(chosen)
              skipped == Cardinality(Unanalysed) - Cardinality(chosen)
          IN
          /\ analyses' = analyses \o [k \in DOMAIN order |-> NewAnalysis(order[k], worker.job)]
          /\ SetJob(IF skipped = 0 THEN Current ELSE [Current EXCEPT !.skipped = skipped])
  /\ Step("sending", DOMAIN analyses' \ DOMAIN analyses)
  /\ UNCHANGED <<offers, intake, browser, faults>>

\* Sent to analysis-intake one by one, and then the message is deleted.
SendAnalysis ==
  /\ worker.stage = "sending"
  /\ worker.unsent # {}
  /\ LET next == Min(worker.unsent) IN
       /\ analyses' = [analyses EXCEPT ![next].sent = TRUE]
       /\ Step("sending", worker.unsent \ {next})
  /\ UNCHANGED <<offers, jobs, intake, browser, faults>>

Finish ==
  /\ worker.stage = "sending"
  /\ worker.unsent = {}
  /\ worker' = Idle
  /\ UNCHANGED <<offers, jobs, analyses, intake, browser, faults>>

\* Something raises: _fail_open_job, and the message is deleted all the same.
WorkerRaises ==
  /\ worker # Idle
  /\ Fault
  /\ worker' = Idle
  /\ \/ Current.status \in TerminalJob /\ UNCHANGED jobs
     \/ /\ Current.status \notin TerminalJob
        /\ SetJob([Current EXCEPT !.listing = FALSE, !.status = "FAILED"])
  /\ UNCHANGED <<offers, analyses, intake, browser>>

\* It dies, or runs past the visibility timeout: the message is back.
WorkerDies ==
  /\ worker # Idle
  /\ Fault
  /\ intake' = Append(intake, worker.job)
  /\ worker' \in {worker, Idle}
  /\ UNCHANGED <<offers, jobs, analyses, browser>>

\* The analysis pipeline, which only gets what was sent.
AnalysisEnds ==
  /\ \E i \in DOMAIN analyses, status \in TerminalAnalysis :
       /\ analyses[i].sent /\ analyses[i].status = "PENDING"
       /\ analyses' = [analyses EXCEPT ![i].status = status]
  /\ UNCHANGED <<offers, jobs, intake, worker, browser, faults>>

-----------------------------------------------------------------------------

Candidate ==
  \/ \E o \in Offers : SubmitOffer(o)
  \/ \E i \in DOMAIN analyses : OpenRow(i)
  \/ Rerun \/ Retry \/ SubmitSeveral \/ Leave \/ OpenDetail
Serve(n) == OfferLooked(n) \/ AnalysesLooked(n) \/ CreateServed(n) \/ DirectCounted(n) \/ DirectServed(n)
Answer(n) == ShortcutAnswered(n) \/ CreateAnswered(n) \/ DirectAnswered(n)
Work ==
  \/ TakeJob \/ FindOffers \/ ExtractOffer \/ Aggregate \/ TellListing
  \/ CreateAnalyses \/ SendAnalysis \/ Finish

Next ==
  \/ Candidate
  \/ \E n \in DOMAIN requests : Serve(n) \/ Answer(n) \/ Lose(n)
  \/ PollJob \/ PollAnalyses
  \/ Work \/ WorkerRaises \/ WorkerDies
  \/ AnalysisEnds

Spec == Init /\ [][Next]_vars

\* The pages poll on a timer, the worker in a loop.
FairSpec == Spec /\ WF_vars(PollJob) /\ WF_vars(PollAnalyses) /\ WF_vars(Work)

-----------------------------------------------------------------------------
(* Properties *)

TypeOK ==
  /\ offers \in [Offers -> {"none", "READY", "FAILED"}]
  /\ jobs \in Seq(Job)
  /\ analyses \in Seq(Analysis)
  /\ intake \in Seq(DOMAIN jobs)
  /\ worker \in [job : DOMAIN jobs \cup {Nothing}, unsent : SUBSET DOMAIN analyses,
                 stage : {"idle", "finding", "extracting", "listing", "telling", "creating", "sending"}]
  /\ requests \in Seq(Request)
  /\ page \in Page
  /\ job.status \in {"unread", "PENDING", "RUNNING"} \cup TerminalJob
  /\ DOMAIN seen \subseteq DOMAIN analyses
  /\ clicks \in 0..MaxClicks /\ faults \in 0..MaxFaults

\* "Idempotent: ... so an SQS redelivery does not double-create": whatever is
\* redelivered, a job makes one Analysis of an offer.
OneAnalysisPerOffer ==
  \A i, j \in DOMAIN analyses :
    analyses[i].job = analyses[j].job /\ analyses[i].of = analyses[j].of =>
      i = j \/ analyses[i].job = Nothing

\* What opens an Analysis without a click: a waiting page, that of the offer submitted last,
\* however many jobs it took and whatever their order; or an answer to "run it directly",
\* that of the offer it was asked for.  A waiting page has nothing of its own to be answered:
\* only what a page that was left had asked for moves it (router.replace).
OpenedOffer == analyses[page'.opened].of
OpenedByWaiting == Waiting /\ OpenedOffer = page.submitted
OpenedByAnswer(n) ==
  /\ requests[n].kind = "direct" /\ requests[n].at = "done"
  /\ requests[n].id = page'.opened /\ requests[n].of = OpenedOffer
  /\ requests[n].here => ~Waiting
OpensWhatWasAsked ==
  [][clicks' = clicks /\ page' # page /\ page'.at = "analysis" =>
       OpenedByWaiting \/ \E n \in DOMAIN requests : OpenedByAnswer(n)]_vars

\* "routes straight to its detail view": a page that waits for an offer is never taken to
\* another's.  It is, by the direct run of a page that was left.
WaitingOpensItsOffer ==
  [][Waiting /\ page'.at = "analysis" => analyses[page'.opened].of = page.submitted]_vars

\* An Analysis that nothing was sent for is one the worker left on its way: it
\* died, or is still sending.  No other step of these pages strands one.
UnsentAccounted ==
  \A i \in DOMAIN analyses : ~analyses[i].sent => i \in worker.unsent \/ faults > 0

\* The page stops waiting: it opens the Analysis, shows the failure, or the job
\* ended with no Analysis to open (the quota, or an error of the fan-out).
OverWithNothing ==
  /\ page.job # Nothing
  /\ jobs[page.job].status \in TerminalJob \ {"FAILED"} /\ OfJob(page.job) = {}
WaitingEnds == Spinning ~> (~Spinning \/ OverWithNothing)

\* "Polls the IngestionJob and its Analysis batch, stopping once the job is
\* terminal and every Analysis in it is too."
BatchFollowedToItsEnd ==
  Batch /\ ~JobPolled /\ ~AnalysesPolled =>
    /\ \A i \in OfJob(page.job) : analyses[i].status \in TerminalAnalysis
    /\ QuotaSkippedRows = jobs[page.job].skipped

\* "Stops once the owner's effective daily or monthly Analysis quota is reached".
QuotaHeld == Len(analyses) <= Quota
============================================================================
