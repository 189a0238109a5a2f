# Job Hunt Crew: TLA+ models and proofs

Job Hunt Crew finds job offers, compares them with a candidate's CV by means of
LLM crews and generates application documents.  What is hard in it is not any
single computation but the way long-running work is driven and followed.  Rows
in Postgres carry a status, messages on queues carry ids of rows, workers are
killed and restarted, messages are delivered twice or lost, and several parties
write the same row through copies they read earlier.  In front of that stands a
web application whose pages show cached copies, hold one mutation for whichever
record is open, poll for as long as they believe something is going, and move
under the candidate while requests are on their way.  This directory models
both.

An LLM, a site that is scraped and the look of a page appear only as the
outcomes the surrounding code distinguishes.

## 1. The system

### Services

| Part | State it keeps | Operations | Talks to |
|---|---|---|---|
| API (`services/api/src/api/v1.py`) | none of its own; rows in Postgres | create / requeue an Analysis, convert, replace and delete a CV, create, pause and run a Scout, track Applications, generate documents, quotas | commits a row, **then** sends its id on a queue |
| Queue worker (`services/ingestion/.../local_worker.py`) | the batch in hand | `poll_once`: receive a batch, hand it to the queue's handler, delete it; `run_forever`: sweep the queues, then the scheduler tick | every queue, every handler |
| Analysis pipeline (`services/analysis/.../local_pipeline.py`, `handlers.py`, `crew_task.py`, `persist_result_lambda.py`) | `Analysis.status`, `resultS3Key`, `errorMessage`, the result; the object in S3 | convert CV, extract offer, run the crews, persist, mark failed | CV, JobOffer, ScoutRun rows; S3; the LLM |
| CV conversion (`cv_conversion.py`) | `CVVersion.conversionStatus` | `convert_cv`, from its queue or from the pipeline | S3, LLM |
| Offer extraction (`job_offer_extraction_agent.py`) | `JobOffer.extractionStatus` | `extract_job_offer` | S3, LLM |
| Scouts (`services/scout`) | `Scout.status`, `lastRunAt`; `ScoutRun.status` | daily tick, dispatch of a run, closing abandoned runs | scout-intake and ingestion-intake queues |
| Ingestion (`services/ingestion`) | `IngestionJob`, links to offers, aggregate counts | fan out, scrape, create Analyses, ceilings and quotas | sites, queues |
| Roll-ups and derived states (`packages/py-db`) | counts of a ScoutRun; nothing for the predicates | `roll_up_scout_run`, `is_analysis_stuck`, `is_analysis_blocked`, `is_scout_run_stale`, `derive_scout_run_state` | read by all of the above |
| Quotas and alerts (`packages/py-db/quota*.py`) | `QuotaAlert` | count, compare with the plan, record an alert | API, ingestion |
| Administration (`services/api/src/api/admin.py`, `admin_llm_provider_settings.py`) | `User`, `Subscription`, `QuotaOverride`, `LLMProviderSetting`, `AdminAuditEvent` | block, change the role, the name, the plan or a limit; activate a provider, save its parameters | the admin pages |
| Step Functions workflow (`services/analysis/state_machine`) | the execution, its task token | the same steps as the pipeline, with retries and a callback | the handlers |

### Web application (`apps/web`)

| Part | State it keeps | Operations | What is hard |
|---|---|---|---|
| Import screen (`cv-versions/new/page.tsx`) | the row it created, the three mutations, the polled rendition, `?cvVersionId=` | upload, convert, retry, replace, come back by the link | an answer lost after its effect; a closed tab whose requests go on; a status that may be of the previous attempt |
| CV library (`cv-versions/page.tsx`, `cv-version-panel.tsx`, `cv-versions/[id]/edit/page.tsx`) | the cached list and renditions, the panel's CV, form and confirmation, the edit page's draft | set default, replace, convert again, delete, edit | the panel moves to the new version when a replace is answered; another tab writes the same rows |
| Analyses page (`analyses/page.tsx`, `analysis-quick-view.tsx`, `generated-documents-panel.tsx`) | the cached list, the table in the URL, the selection, the Quick view and its anchor, the ids of documents being made | filter, sort, select, bulk status, bulk relaunch, bulk and single documents, Previous and Next | rows leave the filter under the arrows; one mutation serves two runs; a panel opened on the next Analysis |
| Applications page (`applications/page.tsx`, `application-quick-view.tsx`) | the same for Applications | record an event, bulk changes, walk the list | get-or-create from several places; events out of order |
| Scouts page and form (`scouts/page.tsx`, `scout-panel.tsx`, `scout-form.tsx`) | the cached list and histories, the panel's mutations | run now, pause, archive, repair, edit | one set of mutations for every Scout; the hourly limit seen through a cache |
| Analyse offers (`analyses/new/page.tsx`, `.../several/page.tsx`, `batch-result-view.tsx`, `ingestion-jobs/[id]/page.tsx`) | the job and the Analyses as polled, the submitted URL | submit, retry, rerun, leave | two polls that stop on their own; answers after the page moved on |
| Administration: Users (`admin/users/page.tsx`) | table and panel in two caches, the URL | block, role, name, plan, limits, history | a second Administrator; two caches of one User |
| Administration: LLM providers (`admin/llm-providers/page.tsx`) | the cached list, two radio mutations, the form | activate, back to the environment, save | a second Administrator; two mutations that exclude each other |
| Session (`auth.ts`, `proxy.ts`, `lib/bff-client.ts`, layouts) | the cookie, the JWT's Role, `isRedirectingToLogin` | sign in, sign out, expire, be blocked | a sign-out is two steps and two may be under way |
| Landing page, layout, settings, read-only admin lists, dashboards | -- | -- | nothing that interacts |

What each part needs to be correct:

* **Pipeline.**  The row is read once and decided on from a copy
  (`expire_on_commit=False`); messages are duplicated by redelivery, by expired
  visibility timeouts and by requeues; the process dies between two commits; any
  step may raise.  Needed: a COMPLETED row has its result, no unfinished row is
  left without anybody to drive it, a duplicate is harmless, every Analysis ends.
* **Requeue.**  Check and write are apart.  Needed: it never loses a result.
* **Scouts.**  The tick, "Run now" and redelivery all start runs; the overlap
  guard is check-then-set; an abandoned run must not silence its Scout.
* **Ingestion.**  A job delivered twice makes no second Analysis of an offer.
* **Pages that wait.**  No spinner for ever, and what is shown at the end is of
  what was asked.
* **Pages that edit.**  With nothing left to fetch, no page is behind what it
  was told; a form or an error stands under the record it is of; handlers that
  overlap leave whole chains, a true audit, one active provider.
* **Lists that are walked.**  The arrows skip nothing and the list follows.
* **Session.**  Whoever was sent to sign in comes back to where they were.

The hazards, each at its line, are listed in `PROJECT.json` with the properties
that cover them.

## 2. Modules

| Module | What it is |
|---|---|
| `AnalysisPipeline` | the life of Analyses in local mode: API requests, the two queues, the worker and every step of `run_analysis_pipeline` |
| `AnalysisLifecycle` | the abstract specification of an Analysis as the candidate sees it; `AnalysisPipeline` implements it |
| `ScoutRuns` | Scouts and their runs: the tick, "Run now", the dispatch, the closing of abandoned runs, the scout-intake queue |
| `ScoutPage` | the Scouts page, its panel and form over `derive_scout_run_state` |
| `AnalyseOffers` | "Analyse one offer", "Analyse several offers" and the scraping detail, with the ingestion worker that serves them |
| `CvImport` | the Import screen, the CVVersion endpoints and the conversion worker |
| `CvLibrary` | the CV list, its panel, the edit page and the CVVersion endpoints, with a second tab |
| `AnalysesTable` | the Analyses page's table, bulk status, relaunch and Quick view |
| `AnalysisPanel` | asking for documents from the Quick view and from the bulk bar |
| `ApplicationTracking` | Applications and their events, and the page that lists and walks them |
| `TablePages` | the paging both tables share |
| `AdminUsers` | the Users page and its endpoints, two Administrators |
| `LlmProviders` | the LLM providers page and its endpoints, two Administrators |
| `WebSession` | cookie, Role gates, BFF answers, sign-in and sign-out of one tab |
| `AnalysisPipelineProofs`, `ScoutRunsProofs`, `AnalyseOffersProofs`, `WaitingScreensProofs`, `CvLibraryProofs`, `AnalysesScreensProofs`, `LlmProvidersProofs`, `EditedRecordsProofs` | the proofs (section 5) |
| `MCAnalysisPipeline`, `MCScoutRuns`, `MCScoutPage`, `MCAnalysesTable`, `MCApplicationTracking` | instances for TLC of one module: definitions for constants, symmetry sets |
| `MCWaitingScreens`, `MCEditedRecords`, `MCAnalysesScreens` | instances for TLC of several modules side by side |

Inside a module the operators marked *Mutant* are not part of the model.  Each is
a plausible bug, used in place of the definition that follows it to see that a
property notices.  Bounds are named in the constants and appear in guards only
(`MaxLosses`, `MaxClicks`, `MaxRuns`, `MaxAsks`, `MaxWorkers`, ...), as do the
finite sets of message slots and runs.  The two constants called `Quota` are no
bounds but limits of the code.

**Composites.**  The pages of `MCWaitingScreens` (ScoutPage, CvImport),
`MCEditedRecords` (CvLibrary, AdminUsers, LlmProviders, WebSession) and
`MCAnalysesScreens` (ApplicationTracking, AnalysesTable, AnalysisPanel) share no
state.  A behaviour of a composite is of one part, chosen at the start by
`part`; the others stand still.  One run so explores the state spaces of its
parts side by side and not their product, which would show nothing more.

**How the parts meet.**  `AnalysisPipeline` writes what the web modules see as
an outcome: an Analysis that ends.  `ScoutRuns` dispatches in detail the runs
that `ScoutPage` moves through the stages `derive_scout_run_state` tells apart.
`AnalyseOffers` holds the worker's job from its creation to the sending of its
Analyses, where `AnalysisPipeline` takes over.  `AnalysisPipeline` and
`ScoutRuns` share the worker's batch discipline (receive, handle record by
record, delete), written in each for its own queues, because a worker handles
one queue after another and the two touch no common row but the counts of a
ScoutRun.

### AnalysisPipeline

State and code:

| Variable | Code |
|---|---|
| `row` | the `Analysis` table: `status`, whether `resultS3Key` is set, `errorMessage` by its author, whether `result` is set |
| `aged` | is `max(requestedAt, requeuedAt, startedAt)` past the stuck threshold |
| `cv`, `offer` | `CVVersion.conversionStatus`, `JobOffer.extractionStatus` |
| `stored` | Analyses whose result object is in S3 |
| `queue` | message slots of the analysis-intake and cv-conversion queues |
| `worker` | each worker: where it is (`pc`), its batch, the records left, the row in hand and the copy (`seen`) its session holds |
| `request` | each API request between its read, its commit and its send |
| `run` | the counts of the owning ScoutRun as the last roll-up wrote them |
| `losses` | crashes, restarts and failed sends so far (bounded) |

There is one action per commit.  A worker record goes
`LoadAnalysis` → `EnsureCv` (→ `Convert`) → `EnsureOffer` (→ `Extract`) →
`SkipCrew` or `StartCrew` → `ReadInputs` → `RunCrew` → `AwaitResult` →
`Persist` → `RollUp`, and any step that raises goes to `MarkFailed`.

*Stale copies.*  `make_session_factory` sets `expire_on_commit=False`, so the
`session.get` calls of the later steps return the object loaded by the first.
The model keeps that copy in `worker[w].seen` and decides on it; `Flush` is what
an UPDATE does: it writes the columns whose value differs from the copy and
leaves the others as the row has them.  The counterexample to `FailedHasReason`
(section 6) rests on both.

*Queue.*  A message is a slot: free, visible or in flight.  A slot becomes
visible again when no worker holds it (its worker died or abandoned the batch)
or, with the `expiry` fault, while one still does.

*Faults* are switched per run by the constant `Faults`: `worker_crash`,
`broker_restart` (ElasticMQ keeps its queues in memory), `send_failure`,
`expiry`, `s3` (an object that cannot be read or written), `provider` (an LLM
error outside those the code handles) and `reconvert` (the candidate converts
the CV again).

`AnalysisLifecycle` is the abstract specification: the life cycle a candidate is
shown, with its own fairness.  `AnalysisPipeline` implements it by reading the
status and the presence of a result out of `row`.

### ScoutRuns

State and code:

| Variable | Code |
|---|---|
| `scout` | the `Scout` rows: `status`, and `lastRunAt` as the last day whose scheduled hour it is past |
| `run` | the `ScoutRun` rows: `status`, owner; `old` = past the stuck threshold of `is_scout_run_stale`; `recent` = inside the hour that limits "Run now"; `day` = the day the schedule created it for, 0 for a manual one |
| `made`, `sent` | how many IngestionJobs were created for a run and a site, and how many of them were sent |
| `message` | the scout-intake message of each run: none, visible or in flight |
| `worker` | each worker: `pc`, its batch and the records left (`todo`), the run in hand with the copies `seen` and `active`, the sites, and in a tick the due Scouts and the runs created |
| `request` | a "Run now" request between its checks, its commit and its send |
| `clock` | the days whose hour has come, and whether the last one is still running |
| `losses` | crashes, restarts and failed sends so far (bounded) |

A worker sweeps (`Receive` ... `DeleteBatch`, or `PollEmpty`) and then ticks
(`TickRead` → `TickCommit` → `TickSend`) or does not (`NoTick`).  A record goes
`Load` → `Check` → `Start` → `FanOut` → `SendJob`... → `Finish`, one action per
commit or send.  `Check` is the overlap guard, apart from `Start`, which is
where two consumers meet (`scouts_overlap.cfg`).  `Start` writes through the
copy the record was loaded with, so a status equal to the copy's is not written,
as with the pipeline's `Flush`.

Time is reduced to what the code compares: a day's scheduled hour comes
(`HourComes`) and midnight ends it (`Midnight`), a run passes the stuck
threshold (`Age`), an hour passes since its creation (`RateLimitPasses`).  Any
of these may happen between any two steps.

*Faults*: `worker_crash`, `broker_restart`, `send_failure`.

### AnalyseOffers

| Variable | Code |
|---|---|
| `offers` | `JobOffer.extractionStatus`, by URL |
| `jobs` | `IngestionJob`: mode, URL, linked offers, status, whether the listing is known, the count skipped for the quota |
| `analyses` | the Analyses: offer, job, status, whether a message was sent |
| `intake` | the ingestion-intake queue |
| `worker` | the job in hand and its stage; Analyses committed and not yet sent |
| `requests` | `existing-analysis`, create-job and create-Analysis requests on their way |
| `page`, `job`, `seen` | the page, its `useState` values, and what the two polls last read |

The worker goes through a job by commits: the offers found, each extracted, the
aggregate (terminal) status, the Analyses, then their messages one by one; a
death between any two gives the job's message back.  A URL that turns out to be
a listing fails in two commits, first as any failure (`ExtractOffer`) and then
told apart (`TellListing`, `single_url_pipeline.py:267-268`).  The page polls job
and Analyses independently, with the stop conditions of `useIngestionJob` and
`useAnalyses`.

`Leave` is a click to anywhere, back to the same screen included.  The callbacks
given to `mutate()` die with the page that is left, and its request then has
`here` FALSE; the direct run is awaited inside a mutation function, so its
`router.replace` happens whatever page is open (`DirectAnswered`).

### The other pages

They follow one pattern.  *Rows* hold the database as the endpoints write it
(`row`, `cvs`, `rows`, `docs`, `people`, `active` and `stored`).  *Caches* hold
what TanStack Query last read, with a flag or set (`stale`, `listDue`,
`textsDue`, `tablesDue`, ...) that says an invalidation is not yet answered.
*Requests* carry the stage they are in: sent, read (a handler that decides on
what it read and commits later has a step in between), served, answered or lost;
a request outlives the component that made it, and its callbacks do not.
*Page state* is the page's `useState` and URL.  *Told* variables (`told`,
`untold`, `unheard`, `written`, `refused`) are history: what this tab was
answered, which is what a cache may be required to catch up with.

| Module | Peculiar to it |
|---|---|
| `CvImport` | `screen`, `create`, `convert`, `replace` are the component's values and its three mutations; `behind` what a closed visit left in flight; the conversions of a row are numbered as they are accepted, `queued` and `working` hold those under way, and `by` and `at` say which of them wrote a terminal status and how many had been accepted by then; `Close` discards the row of a failed upload, `LeaveByLink` does not; a return decides on the list in the cache, if there is one; `loose` the rows nobody can name |
| `CvLibrary` | `asks` are the requests of both tabs; `panel.replacing` and `.confirming` remember the CV the form and the confirmation were opened on; `edition` numbers renditions; a delete reads the chain and commits it later |
| `AnalysesTable` | `url` is the table; `anchor` and `shown` the Quick view's place; `slate` the list when the anchor was written; `relaunch` the one relaunch the Quick view waits for and the number of those it was reset from |
| `AnalysisPanel` | `slot` is `idByType`, `runs` the bulk runs of the one mutation, `watched` the ids the bar polls, `late` and `again` creates and regenerates nobody listens to; from `Quota` rows on a request may be refused or served, since the endpoint counts first and inserts later, and the day it counts in passes |
| `ApplicationTracking` | `rows` with their events; an event is recorded in two steps, `ReadRow` and `AppendEvent`, the second of which writes the columns that differ from the copy the first took; `now` moves with every stamp; `Contested` Analyses another tab works on |
| `ScoutPage` | `runs[i].work` is the stage `derive_scout_run_state` reads; `known` the cached history at hand when "Run now" is clicked; `requeue` a repair, one request per row, the refused and the lost counted alike (`Promise.allSettled`); `undone` what the latest repair of each Scout was not answered for; `behind` the requests of a page that was left: they are served, and only the hooks' own callbacks hear them |
| `AdminUsers` | `audit` in commit order, each event with the `start` of its transaction, which is what `createdAt` shows |
| `LlmProviders` | `ActiveConflict` and `SaveConflict` are the unique indexes; `stored[p][name].row` tells one parameter row from its successor |
| `WebSession` | `signOuts`: `signOut()` clears the cookie, then loads its `callbackUrl` |

## 3. Runs

| Run | Instance | States | What it shows |
|---|---|---|---|
| `pipeline_redelivery` | two Analyses, one worker, one crash | 221 374 | no unfinished row loses its message; a COMPLETED row shows no error; a duplicate does not take a row out of COMPLETED while its CV stays converted |
| `pipeline_two_workers` | one Analysis, two workers with a batch of one, visibility expiry, reconversion | 2 269 028 | COMPLETED always has its result, key and object; `CompletedInv` is an invariant |
| `pipeline_recovers` | one Analysis, crashes, broker restarts, failed sends (two losses), unreadable objects, provider errors; the candidate requeues | 264 219 | every Analysis ends |
| `pipeline_implements` | one Analysis, one crash, provider errors, requeues; no help from the candidate assumed | 41 252 | the pipeline implements `AnalysisLifecycle`, its fairness included |
| `scouts_one_worker` | one Scout, two runs, "Run now", every status, one loss of any kind | 700 668 | at most one run of a Scout is RUNNING; a COMPLETED run is covered |
| `scouts_daily` | one Scout, three runs, two days, pauses, "Run now" | 790 688 | the schedule makes one run a day that does not fail |
| `scouts_schedule` | one Scout, two sites, three runs, one loss of any kind, archiving | 506 792 | a due Scout runs that day: no abandoned run, lost message or failed send silences it |
| `waiting_screens` | Scouts page: two Scouts, two runs, two clicks, one fault. Import screen: two rows, two conversions of each, two visits, one fault | 470 014 | each refusal and each count of failures on screen is of what it stands under, and an outcome is later than the attempt it answers; no row without a file is forgotten, none is converted; neither page shows work for ever |
| `edited_records` | CV library: three versions, two requests, two clicks. Users: two people, two edits, a second Administrator. Providers: two, two requests. Session: two requests, two moves | 1 352 193 | overlapping handlers leave whole chains, a true audit and one active provider; each cache catches up; sign-in returns where it was asked |
| `analyses_screens` | Applications: three Analyses, one of them worked on elsewhere, four clicks. Table: three Analyses and a relaunched one, four clicks. Documents: two Analyses, two types, three documents, two bulk runs, four clicks | 570 232 | one Application per Analysis; bulk failures are told; the arrows walk the list that changes; lists and cards catch up |
| `analyse_offers` | two offers, two jobs, a quota of two, three clicks, one fault | 956 259 | a redelivered job makes no second Analysis; a page that waits opens what was asked last, an answer opens what it was asked for, and the wait ends |
| `offers_batch_followed` | the same | violated | the finding below |

Deadlock is not checked: every one of these systems does stop, when the rows
have ended and nobody asks for anything, or when a bound is reached.  Symmetry
is used in runs without liveness properties only.

**Why these bounds are enough.**  In the pipeline two slots are enough for a
duplicate or for two rows in one batch; a third message changes neither, since a
record is handled without looking at the others.  An overlap, a pile-up or a
second job needs two runs of one Scout; a third run lets a scheduled run be
abandoned, closed and replaced while a manual one is waiting, or a second day
follow a first.  Two Scouts matter to the batch only (a run reads and writes no
other Scout's rows).  One loss is enough for every property that a loss at a bad
moment would break; `pipeline_recovers` takes two, so that the repair can be lost
as well.  In `scouts_schedule` `Requests` is empty: a manual run that is RUNNING
when the tick looks delays the schedule, and `scouts_one_worker` has it.  The
bound on runs cannot hide an answer there: with one loss the day needs at most
two runs, and a third is available.

On the pages an anomaly takes two requests that overlap, or a request and a
change behind the page, and one more click that meets its result: hence two
requests and two to four clicks, and one loss.  There is always one row to
spare beyond those of the opening (a relaunched Analysis, a replaced CV), so
that reaching the bound is not what saves a property.  Page sizes of one and
two stand for 25 and 50: three rows then make two or three pages, with a last
page that can empty.  Two conversions of a row are a first and a retry, or a
resume on the way back, which is what overtaking takes (`cv_import.cfg` has
three), and one worker handles them, as `local_worker.py` runs one batch after
another.  A quota of two with three documents lets a request meet it and
another pass it.  The Import screen is visited twice, to find what the first
visit left behind.

Every property of a passing run has a mutant in `PROJECT.json`: a definition
that models code, replaced by a plausible bug, under which the run fails.

### Finding

`offers_batch_followed`.  `batch-result-view.tsx:74` says that the view "Polls
the IngestionJob and its Analysis batch, stopping once the job is terminal and
every Analysis in it is too".  `update_ingestion_job_aggregate` commits the
terminal status (`fanout.py:429`) before `create_analyses_for_ready_offers`
commits the Analyses and the count skipped for the quota
(`analysis_fanout.py:262`).  A poll of both that falls between the two finds a
terminal job with no Analysis; both polls stop (line 92), and the page shows an
empty batch until it is reloaded.  "Analyse one offer" escapes it: its page keeps
polling until an Analysis of its job is there (`WaitingEnds`).

### Fairness

* *Pipeline.*  A worker that can take a step of the record in hand takes it
  (weak fairness): the code has no wait other than the calls it makes, and those
  return or raise.  A visible message is received, strongly fair, because
  `run_forever` polls the queues in turn and the broker hands out each visible
  message at some poll.  A visibility timeout expires (weak).  A request that
  has committed goes on to send, or fails as `send_failure` says.
* `RequeueingSpec` adds the candidate: a row shown as stuck is requeued at last.
  This is an assumption about a person, used by `pipeline_recovers` only, and it
  is what the product relies on when a message is lost: no sweeper re-drives
  rows (docs/adr/0032).
* *Scouts.*  The worker takes its steps (weak), `TickRead` strongly fair: the
  interval passes again and again, and `NoTick` stands for the sweeps in
  between.  `Age` and `BecomeVisible` are weakly fair.  Days, candidates and
  faults are not forced: `ScheduleHonoured` holds of a day that lasts.
* *Import screen* (`SpinnerEnds`).  A request is answered or fails, a resume
  looks its row up or fails to, and the page's own wait cap runs
  (`WaitCapReached`, a timer).  The worker, the polls and the candidate owe
  nothing: the spinner ends although a conversion never does.
* *Scouts page* (`WorkShownEnds`).  The list is fetched again and again while it
  shows work, which is what its `refetchInterval` does; no mutation and no
  worker is assumed to end.
* *Documents* (`EndIsShown`).  A document that a card polls is polled again
  (`Polled(i)`, weak, for each).
* *Analyse offers* (`WaitingEnds`).  Both polls go on while their stop condition
  does not hold, and the worker goes on with its job (`Work`); the candidate and
  the faults are free, and the faults are bounded.
* *Session* (`web_session.cfg` only).  A request is answered, and `signOut()`
  ends both of its steps.

`WaitingEnds` excepts `OverWithNothing`: a job that ends COMPLETED or
PARTIALLY_COMPLETED with no Analysis, because the quota is reached or the
fan-out raised, leaves the page of "Analyse one offer" waiting.  The page keeps
polling, so the exception is a state of the server and not a lost poll.

## 4. What the properties are about

| Property | Hazard |
|---|---|
| `CompletedHasResult`, `CompletedInv`, `CompletedHasNoError`, `CompletedIsKept` | duplicates and stale copies of the pipeline's session |
| `NothingStranded`, `EventuallyTerminal`, `ImplementsLifecycle` | a death or a lost message between two commits |
| `NoOverlap`, `OneRunPerDay`, `CompletedRunIsCovered`, `ScheduleHonoured` | check-then-set in the dispatch, late `lastRunAt`, abandoned runs, failed sends |
| `RepairFailureIsOwn` | one repair mutation for every Scout, whose requests are refused or lost one by one while panels and pages change: the alert counts the rows of the Scout under which it stands, and of its latest repair |
| `RefusedOnlyWhenStale` | "Run now" counts down by a cached history; the 429 answers only a click whose history missed a run |
| `WorkShownEnds` | a Scout shown as working when it no longer is |
| `ConversionHasItsFile`, `OrphansAccounted`, `OutcomeIsAfterStart`, `SpinnerEnds` | upload, conversion, retry, replacement and return with lost answers and closed tabs |
| `ChainsWhole` | a delete that read its chain before a replace added to it |
| `FormIsOfItsCv`, `EditShowsSaved` | a panel moved by a late answer; a rendition cached before a save |
| `AuditTellsState`, `RowsAndPanelAgree` | two Administrators on one User; two caches of one User |
| `OneActive`, `FailureIsOfLast`, `TableSettles` | activations that overlap; two mutations that exclude each other; a list refetched after either outcome |
| `ReturnsWhereAsked` | two sign-outs with different `callbackUrl`s |
| `OneApplication`, `AppliedDated`, `BulkTellsFailures`, `CachesCatchUp` | get-or-create from three places, events out of order and written from copies, some of a bulk failing |
| `StepShowsItsRow`, `SuivantSkipsNothing` | the row under the arrows leaving its page, its filter or the list |
| `ListKnowsDocuments`, `EndIsShown` | a second click that would pay again; a card that misses the end |
| `OneAnalysisPerOffer`, `OpensWhatWasAsked`, `WaitingEnds` | a redelivered job; an answer after the page moved on; a wait without end |

`OpensWhatWasAsked` speaks of every step that opens an Analysis without a click,
the late answers included: a page that waits opens the offer it was last asked
for, and a direct run opens the offer of its own request.  It does not say that
the two never meet: a direct run that was left behind does take the page away
from what it waits for (`WaitingOpensItsOffer`, section 6).  `OutcomeIsAfterStart`
says that no outcome older than the attempt is shown, and `AppliedDated` that the
date of an Application moves only by requests that overlap; the stronger
readings, `OutcomeIsOfThisAttempt` and `AppliedOnce`, do not hold (section 6).

`CachesCatchUp` is `ListCatchesUp` of both lists, the Applications' and the
Analyses'.

## 5. Proofs

TLAPS proves every safety property that a passing run checks, invariants and
action properties alike, for every value of the constants that satisfies the
assumptions named in the modules (types, finiteness, ids distinct from the
marker for "none", and an opening state a database can be in).  Where a theorem
assumes more, its third column says so.

| Module | Theorem | States |
|---|---|---|
| `AnalysisPipelineProofs` | `TypeCorrect` | `Spec => []TypeOK` |
| | `CompletedInvariant` | `Spec => []CompletedInv` |
| | `CompletedCorrect` | `Spec => []CompletedHasResult` |
| | `NoneStranded` | `Quiet` implies `Spec => []NothingStranded` |
| | `NoErrorOnceCompleted` | `OneWorker` implies `Spec => []CompletedHasNoError` |
| | `CompletedStays` | `Undisturbed` implies `Spec => CompletedIsKept` |
| | `StepsImplementLifecycle` | `Undisturbed` implies `Spec => LifecycleSafety` |
| `ScoutRunsProofs` | `ScoutTypeCorrect` | `Spec => []TypeOK` |
| | `CompletedRunCovered` | `Spec => []CompletedRunIsCovered` |
| | `OneRunAtATime` | `Workers = {w}` implies `Spec => []NoOverlap` |
| | `OneSearchADay` | `Workers = {w}` and `Faults = {}` imply `Spec /\ []FitsOneBatch => []OneRunPerDay` |
| `AnalyseOffersProofs` | `OneAnalysisPerJobAndOffer` | `Spec => []OneAnalysisPerOffer` |
| | `OpensTheOfferAsked` | `Spec => OpensWhatWasAsked` |
| `WaitingScreensProofs` | `CountdownOfInstance` | `SpecParts => RefusedOnlyWhenStale` |
| | `RepairOfInstance` | `SpecParts => []RepairFailureIsOwn` |
| | `ConversionAfterFile` | `Spec => []ConversionHasItsFile` |
| | `OrphansAreAccounted` | `Spec => []OrphansAccounted` |
| | `OutcomeAfterStart` | `Spec => []OutcomeIsAfterStart` |
| `CvLibraryProofs` | `FormOfItsCv` | `Spec => []FormIsOfItsCv` |
| | `EditPageShowsSaved` | `Spec => []EditShowsSaved` |
| | `DeletedWhole` | `Spec => []ChainsWhole` |
| `EditedRecordsProofs` | `OneProviderOfInstance` | `SpecParts => []OneActive` |
| | `FailureOfInstance` | `SpecParts => []FailureIsOfLast` |
| | `TableOfInstance` | `SpecParts => []TableSettles` |
| | `AuditOfInstance` | `SpecParts => []AuditTellsState` |
| | `AgreementOfInstance` | `SpecParts => []RowsAndPanelAgree` |
| | `ReturnOfInstance` | `SpecParts => ReturnsWhereAsked` |
| `AnalysesScreensProofs` | `OneApplicationEach` | `Spec => []OneApplication` |
| | `AppliedIsDated` | `Spec => []AppliedDated` |
| | `BulkIsTrue` | `Spec => BulkTellsFailures` |
| | `CachesOfInstance` | `SpecParts => []CachesCatchUp` |
| | `DocumentsOfInstance` | `SpecParts => []ListKnowsDocuments` |
| | `StepOfInstance` | `SpecParts => StepShowsItsRow` |
| | `NextOfInstance` | `SpecParts => SuivantSkipsNothing` |

The constants of the run that checks a property meet the hypotheses of its
theorem.  None of them can be dropped: what follows says what TLC finds without
them.  The larger invariants were checked with TLC before they were proved.  In
the composites each theorem of a part follows from its part alone: the others'
steps leave it where it was.

### The pipeline

*CompletedHasResult* is not inductive: `Persist` sets COMPLETED from a copy and
may write only the columns that differ from it.  `CompletedInv` adds
`WorkerBacked` for each worker: its copy claims no result, key or object that
the row lacks.  That is kept by every other actor because results, keys and
objects are never taken away (a requeue changes status and error only), so what
was true when a copy was read still is.

*NothingStranded* is proved under `Quiet`: no message is dropped by the broker,
handed out while it is held, or left unsent.  Workers may die, restart, be any
number, and reconvert.  `DrivenInv` says of each unfinished Analysis that a
request promises a message, or that some message still has it ahead: it waits,
or its receiver has not come to it, or is inside the pipeline for it with a copy
that is not COMPLETED.  `BatchOwned` keeps receivers apart.  A broker restart or a
failed send strands the row at once, an expired visibility as soon as there are
two workers; `pipeline_recovers` has the first two, and shows that the row is
requeued and ends, which is liveness.

*CompletedHasNoError* is proved for one worker under every fault.  `ErrorInv`
says the error of the row in hand is the one in the copy or was cleared, by the
only other writer there is, a requeue.  With two workers and an expired
visibility TLC finds an error that the other wrote since: the commit, which
writes only what differs from the copy, does not clear it.

*CompletedIsKept* and the refinement are proved under `Undisturbed`: one worker,
no reconversion and a readable store; crashes, restarts, expired visibility,
failed sends and provider errors included.  `SteadyInv` says where the row is
at each point of the worker: the status its copy has, or PENDING again after a
requeue; what a COMPLETED row was made of is still ready, so a duplicate of it
passes the prerequisites and stops at the guard.  Each commit is then a step of
`AnalysisLifecycle` (`WorkerMove`), and each other step one of the candidate or
a stutter.  Section 6 shows what reconversion does; an object that cannot be
read, and a second worker that is handed the same message, take a COMPLETED row
to another status too.

### The Scouts

*CompletedRunIsCovered* needs what a dispatch has done so far: `SendingIsBacked`
says that the enabled sites a worker no longer has to send to have been sent to,
and `HasRun` that it has a run in hand.  Nothing un-sends a job, and only
`Finish` completes a run, with nothing left to send and all sites enabled.
Workers do not disturb one another, hence any number of them.

*NoOverlap* needs two strengthenings.  `StartIsAlone`: between `Check` and
`Start` no other run of the Scout is RUNNING.  It is kept because nothing but
another worker's `Start` makes a run RUNNING, and there is no other worker: this
is where the assumption is used, and `scouts_overlap.cfg` shows it is needed.
`ReferencedExist`: messages, workers and requests refer to inserted rows, so an
insertion (`RunNowCommit`, `TickCommit`) changes no run that somebody has in
hand.  Both inductive invariants of the Scouts are stated in `ScoutRuns`
(`CoveredInv`, `OverlapInv`).

*OneRunPerDay* needs to know, of each run of the schedule, where it is: `DayInv`
says that it is announced, waits on the queue, is ahead in the worker's batch or
in its hands, that a tick finds the worker with nothing of it left, and that a
run that is done has stamped `lastRunAt` of its Scout.  Three conditions are
assumed and each is needed.  A second worker ticks while the first dispatches; a
failed or repeated message leaves a run PENDING over a tick; and so does a queue
longer than a poll takes (`FitsOneBatch`: the poll asks for ten messages), since
the worker ticks again before it receives the rest.  TLC finds two runs of a day
as soon as one of the three is dropped (two workers; one crash or one failed
send; `BatchSize = 1` with three runs).  In `scouts_daily`
`BatchSize` is the number of runs there may be, so `FitsOneBatch` always holds
there.

### Offers

*OneAnalysisPerOffer* rests on `JobsInv`: the queue and the worker name jobs that
exist, each with finitely many linked offers, so that the order in which they
are turned into Analyses (`SetToSeq`) is one without repetition.  A redelivered
job creates only for the offers that have no Analysis of that job.

*OpensWhatWasAsked* needs `LinkInv`, of the database: a job of one offer links
that offer only, and what is made of it is of that offer.  And `PageInv`, of the
page and of every request, those of pages that were left included: what a
request was answered (`Knows`) is a job or an Analysis of the offer it was asked
for; one request at most is of the page that is open (`Alone`), that page is the
one it was asked on (`Awaited`), and the job a page waits for is of the offer
submitted last (`WaitsForAsked`).  `RowsMove` sums up what a step may do to jobs
and Analyses, which is to add some and to keep what each is of; so what a request
knows stays true while it is on its way.

### Screens that wait

*RefusedOnlyWhenStale* needs `RunNowInv`: no run is of an hour that has not come,
the latest run a history knows is one there is, and the one known at a click that
is still unanswered is of an earlier hour, since the button is dead within its
own.  The run for which the endpoint refuses is then one the history missed.

*RepairFailureIsOwn* needs `Repairing`: the failures a repair under way has
collected, and those an alert counts, are the ones its Scout's latest repair left
undone, and there is no alert while a repair is under way, since asking for one
clears it.  Leaving the page drops both, and what its requests are answered
afterwards touches neither.

*ConversionHasItsFile* is strengthened to `FileInv`, which says it of every row,
discarded ones included, with the types its fields need.  It needs nothing of
what the page believes: the conversion endpoint looks for the object in the step
that queues, and a file that is stored is not taken away.

*OrphansAccounted* and *OutcomeIsAfterStart* are of the page, and share
`ImportInv`, eleven conjuncts: what the screen's creation, conversion and replacement may hold in
each of its stages; that a closed screen, and one that looks up the row of its
URL, has nothing under way; that an upload found unfinished is of the row on
screen; that a convert request is of that row, which is not polled before the
answer and whose rendition was forgotten; that an accepted attempt is counted in
its row; that a rendition other than PENDING was read of a row with its file;
and that a row with no file behind it is in the screen's hands, being discarded
or nobody's.  `ShownSettled` is the one that is easy to miss: which mutations
may be under way while the row on screen still needs a hand.  `OutcomeIsLast` is what
makes an outcome recent: whoever accepts a conversion takes the terminal status
away, so that a row that has one got it after its last conversion was accepted,
by whichever conversion it was.

### The CV library

*FormIsOfItsCv* is strengthened to `PanelInv`: the panel remembers a form for the
CV it shows or for none, since a panel that moves drops it.  *EditShowsSaved* needs
`LibraryInv`: rows are never lost and do not come back, the text of a row never
gets an older edition, a request is honest about the rows it read, and what this
tab was told of is in the row, and in the cache unless that is due; the summary
`RowsMove` of what a step may do to the rows serves all actions.

*ChainsWhole*: `Chain(i)` is the least set of rows that holds `i` and is closed
under the links of the live rows, which is what the breadth-first search of
`_cv_chain` returns; being closed is all that the proof needs.  `ChainInv` says
that a set of rows that was read for a delete is still closed: a replace adds a
link to a new row only, and refuses a row that has one or is deleted.

### Records with several editors

*OneActive* is inductive by itself, because the partial unique index is checked
in the step that writes.  `FailureIsOfLast` needs `RadioInv`: at most one request
of the two radios is on its way, for the mutation that is pending, and the other
radio is idle.  `TableSettles` needs `TableInv`: the audit only grows, and an
answer to a choice always leaves the list to be fetched again.  These are proved
of `LlmProviders` (`OneProviderActive`, `FailureOfLastChoice`, `TableIsSettled`),
and `EditedRecordsProofs` carries them to `MCEditedRecords`: every step of the
composite is one of the providers' part or leaves it alone.  Two instances of a
module are different operators to the provers, which is why that module first
shows them equal, action by action.

*AuditTellsState* needs `AuditInv`: of the events of a column there is a newest,
and it holds the value the column has, because the event is appended in the
commit that writes the value.  *RowsAndPanelAgree*
needs `CacheInv`: a page of the table or a detail that is not due is no older than
any edit this tab was told of, which is never ahead of the audit.

*ReturnsWhereAsked* needs `SessionInv`: the `callbackUrl` of the sign-in page on
screen, and of every sign-out under way, was wanted by somebody, or is one of the
two fixed pages; the exception of the Admin layout, which sends to sign in
without one, is part of it.

### Lists that are walked

*OneApplication* is strengthened to `RowsInv`; the insertion is guarded by the
unique `analysisId` and not by the look-up that precedes it.  *AppliedDated* and
*BulkTellsFailures* share `TrackInv`: a row's date is that of an application among
its events whose request had read no earlier one; a row has only grown since a
request took its copy, and the applications a dateless copy lacks came after it
(`Outgrown`); a request that has added its event has it in the row of its Analysis, where no other takes it away;
the list is of rows of an earlier time.  That the selection of a bulk change is
asked for one by one, and each of its members once, is what `SetToSeq` gives.

*CachesCatchUp* adds the two lists: the Applications list misses only what was
done elsewhere, and the table shows each row nobody changed behind its back
(`Told`).  *ListKnowsDocuments* is inductive once documents and runs have their
shape (`KnownDocs`).

*StepShowsItsRow* and *SuivantSkipsNothing* need `TableInv`, which has no need of
the bound on the number of rows.  Its last conjunct,
`Anchored`, says that the slot the arrows go on from is the number of rows that
came before the row shown, in the list of the time.  The rest is counting: the
order of the rows is strict and total on a finite set, so ranks tell rows apart,
the row at slot `k` has `k` rows before it, and taking the row of slot `k` out
moves its follower there.

### Instead of induction over data

The least element of a non-empty set of naturals (`LeastOf`, from the
well-foundedness of `<`) stands in for induction where one is needed: the first
event that records an application, the oldest run that counts, the first
Analysis a poll finds.  `Chain` is a least closed set for the same reason.

## 6. What the code says and does not hold

Formulas that state what a comment or a document says, and that the models
violate, are kept beside the properties under "What the code says and does not
hold".  They belong to no run listed above; `tlc -config <name>.cfg <module>`
gives the counterexample of the one that is switched on, and of the ones that
are commented out when they are checked alone, with the constants given beside
them in the file.

| Configuration | Module | Violated |
|---|---|---|
| `pipeline_claims` | `MCAnalysisPipeline` | `CompletedIsKept` with a reconversion; commented out `FailedIsKept`, `FailedCountIsCurrent`, `FailedHasReason` |
| `pipeline_requeue_window` | `MCAnalysisPipeline` | `RequeueOncePerWindow` |
| `scouts_jobs_once` | `MCScoutRuns` | `OneJobPerSite` |
| `scouts_pile_up` | `MCScoutRuns` | `NoPileUp` |
| `scouts_overlap` | `MCScoutRuns` | `NoOverlap`, with two workers |

* `CompletedIsKept`.  A duplicate message of a COMPLETED Analysis runs the
  prerequisites before the guard; if the CV has been reconverted meanwhile,
  unsuccessfully, the finished Analysis becomes FAILED.
* `FailedIsKept`.  The guard against duplicates covers COMPLETED only: the second
  message of a requeue runs a FAILED row again.
* `FailedCountIsCurrent`.  A failure that the crew task records is not rolled up:
  `mark_analysis_failed` finds the row FAILED and returns before the roll-up.
* `FailedHasReason`.  A retry that fails for the same reason as before a requeue
  leaves FAILED without its `errorMessage`, which the ORM does not consider
  changed.
* `RequeueOncePerWindow`.  Two concurrent requeues pass in one stuck window.
* `OneJobPerSite`.  A worker that dies after the fan-out was committed gets its
  message again, and the dispatch creates a second IngestionJob per site: the
  guard excludes the run itself and nothing looks at its status or jobs.
* `NoPileUp`.  With more due Scouts than one receive takes (ten, scaled down to
  one), the next tick finds the Scouts whose run is still queued due again, since
  `lastRunAt` is stamped by the dispatch and only RUNNING runs are looked at.
* `NoOverlap`.  Two consumers of scout-intake, each with a run of one Scout, both
  pass the guard and both start.

Each page has a configuration of its own, which passes as it stands, checks the
page's type invariant and a few more of its properties, and lists what does not
hold.

| Configuration | Module | Passes besides | Violated alone |
|---|---|---|---|
| `cv_import` | `CvImport` | | `FailureMeansStored`, `FollowedConversionExists`, `OutcomeIsOfThisAttempt` |
| `cv_library` | `CvLibrary` | | `OneDefault`, `DefaultIsCurrent`, `ConfirmIsOfItsCv`, `NoRenditionLost` |
| `analyses_table` | `MCAnalysesTable` | `PageHasRows`, `ListCatchesUp`, `ReloadKeepsTable` | `PanelOnItsPage` |
| `analysis_panel` | `AnalysisPanel` | `OtherSlotKept`, `ConfirmNotSnatched` | `OnePerType`, `OwnDocument`, `EveryRunIsWatched` |
| `application_tracking` | `MCApplicationTracking` | `ListCatchesUp` | `AppliedOnce`, `StatusIsLatestEvent`, `StepsThroughList` |
| `scout_page` | `MCScoutPage` | | `NoIdleGap`, `OncePerHour` |
| `admin_users` | `AdminUsers` | `SelfKept` | `AuditChains`, `ConfirmDoesAsAsked`, `HistoryKnowsOwn`, `OnePlan`, `AdministratorRemains`, `PageHasPager`, `HistoryTellsState`, `OverrideAudited` |
| `llm_providers` | `LlmProviders` | | `OnlyWhatChanged`, `ActiveRuns` |
| `web_session` | `WebSession` | `NavRowsLead`, `SignedOutLeaves` | `ExpiredReachesSignIn` |
| `analyse_offers` (module `AnalyseOffers`) | | `UnsentAccounted` holds there too | `QuotaHeld`, `WaitingOpensItsOffer`, which `offers_batch_followed.cfg` names |

What the less obvious ones show:

* `FailureMeansStored`, `FollowedConversionExists`: a return by the link to a row
  whose upload never ended is refused for want of the file, and the failure stays
  on screen over that row while the upload is tried again; a conversion request
  that fails before its effect is followed as if there were a conversion.
* `OutcomeIsOfThisAttempt`: "A retry must not read the previous attempt's terminal
  status" (`cv-versions/new/page.tsx:532`).  The rendition in the cache is
  forgotten, but the row does not say whose status it is: when the 202 of an
  attempt is lost and the candidate retries, the worker converts twice, and the
  poll stops at the outcome of whichever message it handles first.
* `OneDefault`, `DefaultIsCurrent`: two requests read the rows to clear before
  either commits; a list older than a replace still offers "Set default" on the
  superseded version.
* `ConfirmIsOfItsCv`: the delete confirmation stays open over the new version
  when the answer of a replace moves the panel.
* `NoRenditionLost`: a draft taken from one rendition is saved over a later one.
* `PanelOnItsPage`: a relaunched Analysis that comes first pushes the row in the
  Quick view to another page; the next arrow brings the page along.
  `StepsThroughList`: an Application whose status changes moves in a list sorted
  by its last update, and the arrows go on from the place it had.
* `OnePerType`, `OwnDocument`: a document asked for again because the answer was
  lost is a second of its type; a create answered after the panel moved on gives
  its id to the Analysis shown by then.
* `EveryRunIsWatched`: the second bulk run takes over the mutation's callbacks, so
  the documents of the first are not polled.
* `AppliedOnce`: `appliedAt` is "kept in sync on every append" (`v1.py:2767-2768`).
  `add_status_event` reads the row without a lock and commits after further
  awaits: of two applications that overlap both read no date, and the one
  committed last leaves its own.
* `StatusIsLatestEvent`: the status is that of the event committed last; the
  timeline is in the order of the dates the clients gave.
* `NoIdleGap`: a run's IngestionJobs end before its Analyses are created; in
  between the Scout reads as idle.  `OncePerHour`: the hourly limit is read and the
  run inserted later.
* `HistoryTellsState`, `OverrideAudited`, `AuditChains`, `OnePlan`,
  `AdministratorRemains`: two Administrators whose handlers overlap.
* `ActiveRuns`: a save that read its provider inactive clears the key of one that
  was activated meanwhile.  `OnlyWhatChanged`: a draft is compared with a list
  newer than the one it started from.
* `ExpiredReachesSignIn`: on a page that `proxy.ts` does not match, the sign-out
  that a 401 starts leads back to the same page.
* `QuotaHeld`: count-then-insert in the endpoint and in the fan-out.
* `WaitingOpensItsOffer`: the page of one offer "routes straight to its detail
  view".  A direct run whose page was left, and which is answered while the
  candidate waits for another offer, opens its own Analysis over that wait
  (`new/page.tsx:236`).

Two comments are inexact in ways that no formula here turns into a violation.  A
repair's failed ids do not all mean that "the server judged the row alive after
all" (`use-analyses.ts:277-279`; `scout-panel.tsx:177-179`: "only a stale screen can
see a refusal"): a request that is lost is rejected and counted like one that is
refused.  And between the two commits of a listing (`single_url_pipeline.py:267-268`)
a poll finds a job that failed as any other does, and stops: the page then offers
a retry in place of the way to "Analyse several offers" that a listing is shown
(`new/page.tsx:85`).

## 7. Only model-checked

Liveness under fairness is out of the prover's reach, and only that is left to
TLC among the properties of the runs: `EventuallyTerminal`, `WorkShownEnds`,
`SpinnerEnds`, `EndIsShown`, `WaitingEnds` and `ScheduleHonoured`; and of
`ImplementsLifecycle` the fairness of the abstract specification, its initial
states and steps being proved.  `BatchFollowedToItsEnd` is liveness too, and does
not hold (section 6).

## 8. Limits of the models

* A read and the write that follows it without an `await` in between is one
  step; every commit is a step of its own.
* All Analyses of a pipeline instance belong to one ScoutRun, and share their CV
  and their offer, which is where they interfere.
* The database does not fail and commits are atomic.  S3 objects, once put,
  stay.
* Each record of a batch starts with a fresh read of its row: the session is
  shared by the batch, but its identity map is weak and nothing keeps the row of
  a record that has ended.
* A FAILED offer may or may not have scraped content, so both ways of
  `ensure_offer_extracted` are open for it.
* docs/adr/0032 names the rows other than Analyses that a restart strands
  (CONVERTING, RUNNING, GENERATING); they are not presented as findings.
* Scouts: selecting and closing the stale runs is one step (one transaction, no
  `await`); the site configuration is read in one step as any subset of the
  targeted sites; a Scout's target sites do not change; the quota of active
  Scouts would only narrow `UpdateStatus`; creating a Scout is `Init`.
* Scouts: a message does not become visible under a live dispatch, which takes
  seconds where the timeout takes minutes; a worker that dies gives it back.
* The ScoutRun counts and the FAILED that a roll-up may later put on a run belong
  to the roll-up, modelled in `AnalysisPipeline` for the counts only.
* Offers: one worker; a site's listing and an offer's extraction are outcomes, so
  the ceilings of a Scout and the deduplication across its runs are left out.
* Pages: a candidate is one person with one tab that is followed closely; the
  second tab, and the second Administrator, are seen by their requests.  A cache
  is refetched as a whole, at any time after its invalidation.  A failed refetch
  keeps the old data, as TanStack Query does.
* Pages: columns, CSV files, texts, focus and animation are left out; of a filter
  the dimensions that rows move along are kept.

## 9. Not modelled, and why

* The Step Functions workflow: the local runner is the default deployment, and
  runs the same handlers; the callback token is planned.
* The worker that writes generated documents: `AnalysisPanel` has the endpoints
  and the pages, and the worker as the outcome READY or FAILED.
* Read-only admin lists and dashboards: one query each, filtered by their URL in
  the way `AdminUsers` models.
* Landing page, layout, settings: presentation, and preferences in the browser.
* The remaining endpoints: reads, and writes of one row that nothing races with.
* Site adapters, the fetch ladder and scraping: network and parsing; the fan-out
  sees their outcome.
* Rendering and style profiles: formatting.  Setup scripts; the exchange with
  Google at sign-in.

## 10. Plan

1. `IngestionFanout`: the ceilings and the cross-run deduplication of a Scout's
   jobs, and the roll-up of a run, under redelivery and crashes; it refines the
   worker of `AnalyseOffers`.
2. `StepFunctions`: the state machine, its retries, the callback token and
   `analysis_intake`'s QUEUED after `start_execution`; implements
   `AnalysisLifecycle` too, or shows where it does not.
3. `GeneratedDocuments`: the generation worker under duplicate messages.
4. `RunState`: `is_analysis_stuck` and `is_analysis_blocked` over arbitrary
   timestamps; theorem: blocked implies stuck for every pair of thresholds.
5. Theorems for those modules: at-most-once of each generated document's paid
   call, and the refinements of 1 and 2.
