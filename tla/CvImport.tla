----------------------------- MODULE CvImport -----------------------------
(***************************************************************************)
(* The Import screen (app/(app)/cv-versions/new/page.tsx) and the hooks it *)
(* drives (hooks/use-cv-versions.ts), against the CVVersion endpoints of   *)
(* services/api and the cv-conversion worker.                              *)
(*                                                                         *)
(* One candidate, one tab.  A request is answered in one step of the model *)
(* or its answer is lost; a request whose screen was closed goes on in     *)
(* `behind`: TanStack Query still runs the mutation, but the callbacks     *)
(* given to mutate() die with the component.                               *)
(***************************************************************************)
EXTENDS Naturals, FiniteSets

CONSTANTS
  MaxRows,     \* CVVersion rows ever created
  MaxRuns,     \* conversions asked for, per row
  MaxWorkers,  \* conversions under way at a time, of one row
  MaxFaults,   \* lost answers, failed requests and expiries
  MaxVisits    \* times the Import screen is opened, reloads included

BoundsAssumption == /\ MaxRows \in Nat \ {0} /\ MaxRuns \in Nat \ {0}
                    /\ MaxWorkers \in Nat \ {0} /\ MaxFaults \in Nat /\ MaxVisits \in Nat \ {0}

VARIABLES
  row,       \* [Rows -> CVVersion]: the table and its objects in storage
  discards,  \* rows whose best-effort DELETE is on its way
  url,       \* ?cvVersionId= of the Import screen
  screen,    \* the page component's useState values
  create,    \* the useCreateCvVersion mutation of this visit
  convert,   \* the useConvertCvVersion mutation of this visit
  replace,   \* the useReplaceCvVersion mutation of this visit
  behind,    \* requests a closed visit left in flight
  seen,      \* [Rows -> the cached rendition query of the row]
  loose,     \* rows nobody can know of: POST answer lost, DELETE lost, left behind
  faults,
  visits

vars == <<row, discards, url, screen, create, convert, replace, behind, seen, loose,
          faults, visits>>
server == <<row, discards>>
client == <<url, screen, create, convert, replace, behind, seen>>

Rows == 1..MaxRows
None == 0
RowOrNone == 0..MaxRows
Statuses == {"PENDING", "CONVERTING", "CONVERTED", "FAILED"}
Terminal == {"CONVERTED", "FAILED"}

\* `runs`: the conversions accepted, numbered from 1; `queued` have their message
\* waiting, `working` a worker.  `by` and `at` are the history of a terminal status:
\* which conversion wrote it, and how many were accepted by then.
CVVersion == [state : {"free", "live", "gone"}, file : BOOLEAN, status : Statuses,
              queued : SUBSET (1..MaxRuns), working : SUBSET (1..MaxRuns),
              next : RowOrNone, runs : 0..MaxRuns, by : 0..MaxRuns, at : 0..MaxRuns]
FreeRow == [state |-> "free", file |-> FALSE, status |-> "PENDING", queued |-> {},
            working |-> {}, next |-> None, runs |-> 0, by |-> 0, at |-> 0]

\* `cached`: the CV list was read earlier in this tab, so it may lack a new row.
Screen == [open : BOOLEAN, cached : BOOLEAN, resume : RowOrNone, id : RowOrNone,
           following : BOOLEAN, unfinished : RowOrNone, stalled : BOOLEAN]
BlankScreen == [open |-> TRUE, cached |-> TRUE, resume |-> None, id |-> None,
                following |-> FALSE, unfinished |-> None, stalled |-> FALSE]

\* `fresh`: the presigned URL is younger than CV_UPLOAD_URL_TTL_MS.
Storing == [at : {"idle", "posting", "putting", "failed"}, row : RowOrNone,
            fresh : BOOLEAN]
IdleStoring == [at |-> "idle", row |-> None, fresh |-> FALSE]

\* `run`: which accepted conversion of the row the answer stands for.
Converting == [at : {"idle", "pending", "failed", "done"}, row : RowOrNone,
               resume : BOOLEAN, run : 0..MaxRuns]
IdleConverting == [at |-> "idle", row |-> None, resume |-> FALSE, run |-> 0]

Replacing == [at : {"idle", "posting", "putting"}, row : RowOrNone]
IdleReplacing == [at |-> "idle", row |-> None]

Behind == [kind : {"posting", "putting", "replacing", "reputting", "convert"}, row : RowOrNone]

\* The history of the outcome goes with the status it is the history of.
Seen == [status : Statuses \cup {"nothing"}, by : 0..MaxRuns, at : 0..MaxRuns]
Unseen == [status |-> "nothing", by |-> 0, at |-> 0]

Init ==
  /\ row = [r \in Rows |-> FreeRow]
  /\ discards = {}
  /\ url = None
  /\ screen = BlankScreen
  /\ create = IdleStoring
  /\ convert = IdleConverting
  /\ replace = IdleReplacing
  /\ behind = {}
  /\ seen = [r \in Rows |-> Unseen]
  /\ loose = {}
  /\ faults = 0
  /\ visits = 1

-----------------------------------------------------------------------------
(* What is on screen *)

Live(r) == r # None /\ row[r].state = "live"

\* storeError: a resumed row that never got its bytes, else the create error.
StoreFailed == screen.unfinished # None \/ create.at = "failed"

\* Mutant: a resumed row is forgotten.
FailedRowOfCreate == create.row

\* storeError?.created: the row a retry re-sends to and a close discards.
FailedRow == IF screen.unfinished # None THEN screen.unfinished ELSE create.row

Importing == screen.resume # None \/ create.at \in {"posting", "putting"} \/ screen.id # None

FormShown == screen.open /\ ~StoreFailed /\ ~Importing
RetryShown == screen.open /\ StoreFailed
ProgressShown == screen.open /\ ~StoreFailed /\ Importing

\* What useCvVersionConversion answers: nothing while the query is disabled.
SeenStatus == IF screen.following /\ screen.id # None THEN seen[screen.id].status ELSE "nothing"

FailureShown == ProgressShown /\ (convert.at = "failed" \/ SeenStatus = "FAILED")
SuccessShown == ProgressShown /\ ~FailureShown /\ SeenStatus = "CONVERTED"
StalledShown == ProgressShown /\ ~FailureShown /\ ~SuccessShown /\ screen.stalled

Busy == convert.at = "pending" \/ replace.at \in {"posting", "putting"}

-----------------------------------------------------------------------------
(* services/api and the conversion worker *)

Fault == faults < MaxFaults /\ faults' = faults + 1
NoFault == UNCHANGED faults

NewRow(r) == row[r].state = "free" /\ \A q \in Rows : q < r => row[q].state # "free"

\* create_cv_version: the row is committed before its URL is signed.
Inserted(r) == [row EXCEPT ![r] = [FreeRow EXCEPT !.state = "live"]]

\* replace_cv_version: a new row, and the old one points at it.
Superseded(old, r) == [row EXCEPT ![r] = [FreeRow EXCEPT !.state = "live"], ![old].next = r]

\* Mutant: the file is not asked for.
ConvertAnswerUnchecked(r) ==
  IF row[r].state # "live" THEN "NOT_FOUND"
  ELSE IF row[r].status = "CONVERTING" THEN "CONVERSION_RUNNING"
  ELSE "accepted"

\* convert_cv_version: 404, 409 CONVERSION_RUNNING, 409 FILE_NOT_UPLOADED, or 202.
ConvertAnswer(r) ==
  IF row[r].state # "live" THEN "NOT_FOUND"
  ELSE IF row[r].status = "CONVERTING" THEN "CONVERSION_RUNNING"
  ELSE IF ~row[r].file THEN "FILE_NOT_UPLOADED"
  ELSE "accepted"

\* Mutant: the row keeps the status of the conversion before.
AcceptedAsItIs(r) == [row EXCEPT ![r].queued = @ \cup {row[r].runs + 1}, ![r].runs = @ + 1]

Accepted(r) ==
  [row EXCEPT ![r].status = "PENDING", ![r].queued = @ \cup {row[r].runs + 1},
              ![r].runs = @ + 1, ![r].by = 0, ![r].at = 0]

\* _cv_chain: what the row superseded and what superseded it, both ways.
Linked(S) == \A q \in Rows : row[q].next # None => (q \in S <=> row[q].next \in S)
Chain(r) == {q \in Rows : \A S \in SUBSET Rows : r \in S /\ Linked(S) => q \in S}

\* Its links, and the messages that will find it gone, stay.
Deleted(q) == [FreeRow EXCEPT !.state = "gone", !.queued = row[q].queued,
                              !.next = row[q].next, !.runs = row[q].runs]

\* delete_cv_version removes the whole chain and its objects.
DiscardArrives(r) ==
  /\ r \in discards
  /\ discards' = discards \ {r}
  /\ row' = [q \in Rows |-> IF Live(r) /\ q \in Chain(r) THEN Deleted(q) ELSE row[q]]
  /\ UNCHANGED <<client, loose, faults, visits>>

\* discardCvVersion swallows every failure.
DiscardLost(r) ==
  /\ r \in discards
  /\ Fault
  /\ discards' = discards \ {r}
  /\ loose' = loose \cup {r}
  /\ UNCHANGED <<row, client, visits>>

\* convert_cv runs on every message, whatever the status; messages have no order.
WorkerStarts(r) ==
  /\ Live(r)
  /\ Cardinality(row[r].working) < MaxWorkers
  /\ \E k \in row[r].queued :
       row' = [row EXCEPT ![r].queued = @ \ {k}, ![r].working = @ \cup {k},
                          ![r].status = "CONVERTING", ![r].by = 0, ![r].at = 0]
  /\ UNCHANGED <<discards, client, loose, faults, visits>>

\* It writes its outcome over whatever the row says by then.
WorkerEnds(r) ==
  /\ Live(r)
  /\ \E k \in row[r].working, status \in Terminal :
       row' = [row EXCEPT ![r].working = @ \ {k}, ![r].status = status,
                          ![r].by = k, ![r].at = row[r].runs]
  /\ UNCHANGED <<discards, client, loose, faults, visits>>

-----------------------------------------------------------------------------
(* Storing the CV *)

\* store(): re-send to the previous row's URL while it is valid, else discard
\* that row and start over.
Store(previous, fresh) ==
  /\ screen' = [screen EXCEPT !.unfinished = None]
  /\ IF previous # None /\ fresh
     THEN /\ create' = [at |-> "putting", row |-> previous, fresh |-> TRUE]
          /\ url' = previous
          /\ UNCHANGED discards
     ELSE /\ create' = [at |-> "posting", row |-> None, fresh |-> FALSE]
          /\ discards' = discards \cup ({previous} \ {None})
          /\ UNCHANGED url
  /\ UNCHANGED <<row, convert, replace, behind, seen, loose, faults, visits>>

\* The bound on rows stands in for the candidate's patience.
RowsLeft ==
  Cardinality({r \in Rows : row[r].state = "free"})
    > Cardinality({t \in behind : t.kind \in {"posting", "replacing"}})
      + (IF create.at = "posting" THEN 1 ELSE 0) + (IF replace.at = "posting" THEN 1 ELSE 0)

Submit == FormShown /\ RowsLeft /\ Store(None, FALSE)

\* A resumed row's URL went with the reload: always expired.
RetryStore ==
  /\ RetryShown
  /\ RowsLeft
  /\ Store(FailedRow, screen.unfinished = None /\ create.fresh)

UrlExpires ==
  /\ create.at = "failed"
  /\ create.fresh
  /\ create' = [create EXCEPT !.fresh = FALSE]
  /\ UNCHANGED <<server, url, screen, convert, replace, behind, seen, loose, faults, visits>>

\* Answered: the row's id goes into the URL before its bytes are sent.
PostAnswered ==
  /\ create.at = "posting"
  /\ \E r \in Rows :
       /\ NewRow(r)
       /\ row' = Inserted(r)
       /\ create' = [at |-> "putting", row |-> r, fresh |-> TRUE]
       /\ url' = r
  /\ UNCHANGED <<discards, screen, convert, replace, behind, seen, loose, faults, visits>>

\* The request, or only its answer, is lost.
PostFails ==
  /\ create.at = "posting"
  /\ Fault
  /\ create' = [IdleStoring EXCEPT !.at = "failed"]
  /\ \/ UNCHANGED <<row, loose>>
     \/ \E r \in Rows : NewRow(r) /\ row' = Inserted(r) /\ loose' = loose \cup {r}
  /\ UNCHANGED <<discards, url, screen, convert, replace, behind, seen, visits>>

FileStored(r) == [row EXCEPT ![r].file = TRUE]

\* A pending convert of this visit that a new mutate() replaces runs on unheard.
Unheard == IF convert.at = "pending" THEN {[kind |-> "convert", row |-> convert.row]} ELSE {}

\* Mutant: the previous rendition stays in the cache.
StartConversionKeeping(r) ==
  /\ UNCHANGED seen
  /\ screen' = [screen EXCEPT !.id = r, !.following = FALSE, !.stalled = FALSE]
  /\ convert' = [at |-> "pending", row |-> r, resume |-> FALSE, run |-> 0]
  /\ behind' = behind \cup Unheard

\* startConversion(): forget the previous attempt's rendition, then convert.
StartConversion(r) ==
  /\ seen' = [seen EXCEPT ![r] = Unseen]
  /\ screen' = [screen EXCEPT !.id = r, !.following = FALSE, !.stalled = FALSE]
  /\ convert' = [at |-> "pending", row |-> r, resume |-> FALSE, run |-> 0]
  /\ behind' = behind \cup Unheard

PutAnswered ==
  /\ create.at = "putting"
  /\ row' = FileStored(create.row)
  /\ create' = IdleStoring
  /\ StartConversion(create.row)
  /\ UNCHANGED <<discards, url, replace, loose, faults, visits>>

PutFails ==
  /\ create.at = "putting"
  /\ Fault
  /\ row' \in {row, FileStored(create.row)}
  /\ create' = [create EXCEPT !.at = "failed"]
  /\ UNCHANGED <<discards, url, screen, convert, replace, behind, seen, loose, visits>>

-----------------------------------------------------------------------------
(* Starting and following the Conversion *)

Follow == screen' = [screen EXCEPT !.following = TRUE]

\* FILE_NOT_UPLOADED answered to a resume: the upload never finished.  The
\* convert mutation keeps its error.
Unfinished ==
  /\ screen' = [screen EXCEPT !.unfinished = convert.row]
  /\ convert' = [convert EXCEPT !.at = "failed"]

\* Any other answer to a resume counts as a Conversion to follow.
Resumes == Follow /\ convert' = IdleConverting

\* Mutant: a refusal is not told.
RefusedSilently == convert' = IdleConverting /\ UNCHANGED screen

Refused == convert' = [convert EXCEPT !.at = "failed"] /\ UNCHANGED screen

ConvertAnswered ==
  /\ convert.at = "pending"
  /\ LET answer == ConvertAnswer(convert.row) IN
       IF answer = "accepted"
       THEN /\ row' = Accepted(convert.row)
            /\ \/ convert.resume /\ Resumes
               \/ /\ ~convert.resume
                  /\ Follow
                  /\ convert' = [convert EXCEPT !.at = "done", !.run = row[convert.row].runs + 1]
       ELSE /\ UNCHANGED row
            /\ \/ convert.resume /\ answer = "FILE_NOT_UPLOADED" /\ Unfinished
               \/ convert.resume /\ answer # "FILE_NOT_UPLOADED" /\ Resumes
               \/ ~convert.resume /\ Refused
  /\ UNCHANGED <<discards, url, create, replace, behind, seen, loose, faults, visits>>

\* The row is committed, the message is not sent.
Unsent(r) == [row EXCEPT ![r].status = "PENDING", ![r].by = 0, ![r].at = 0]

\* The convert request, its message, or only its 202, is lost.
ConvertFails ==
  /\ convert.at = "pending"
  /\ Fault
  /\ \/ UNCHANGED row
     \/ /\ ConvertAnswer(convert.row) = "accepted"
        /\ row' \in {Accepted(convert.row), Unsent(convert.row)}
  /\ IF convert.resume THEN Resumes ELSE Refused
  /\ UNCHANGED <<discards, url, create, replace, behind, seen, loose, visits>>

Read(r) ==
  [seen EXCEPT ![r] = [status |-> row[r].status, by |-> row[r].by, at |-> row[r].at]]

\* The rendition query polls until a terminal status or the 3-minute cap.
Poll ==
  /\ ProgressShown
  /\ screen.following
  /\ Live(screen.id)
  /\ ~screen.stalled
  /\ SeenStatus \notin Terminal
  /\ seen' = Read(screen.id)
  /\ UNCHANGED <<server, url, screen, create, convert, replace, behind, loose, faults, visits>>

\* useConversionWait: 3 minutes of following.  The soft line at 45 s is left out.
WaitCapReached ==
  /\ ProgressShown
  /\ screen.following
  /\ ~screen.stalled
  /\ screen' = [screen EXCEPT !.stalled = TRUE]
  /\ UNCHANGED <<server, url, create, convert, replace, behind, seen, loose, faults, visits>>

\* A new round of the clock, and a read at once.
KeepWaiting ==
  /\ StalledShown
  /\ screen' = [screen EXCEPT !.stalled = FALSE]
  /\ seen' = IF Live(screen.id) THEN Read(screen.id) ELSE seen
  /\ UNCHANGED <<server, url, create, convert, replace, behind, loose, faults, visits>>

\* The bound on runs stands in for the candidate's patience, here and on the way back.
Asked(r) ==
  row[r].runs + Cardinality({t \in behind : t.kind = "convert" /\ t.row = r})
    + (IF convert.at = "pending" /\ convert.row = r THEN 1 ELSE 0)
RunsLeft(r) == r # None => Asked(r) < MaxRuns

RetryConversion ==
  /\ FailureShown
  /\ ~Busy
  /\ screen.id # None
  /\ RunsLeft(screen.id)
  /\ StartConversion(screen.id)
  /\ UNCHANGED <<server, url, create, replace, loose, faults, visits>>

-----------------------------------------------------------------------------
(* Replacing the file of a CV whose Conversion failed *)

ReplaceFile ==
  /\ FailureShown
  /\ RowsLeft
  /\ ~Busy
  /\ screen.id # None
  /\ replace' = [at |-> "posting", row |-> screen.id]
  /\ UNCHANGED <<server, url, screen, create, convert, behind, seen, loose, faults, visits>>

Replaceable(r) == Live(r) /\ row[r].next = None

ReplaceAnswered ==
  /\ replace.at = "posting"
  /\ IF Replaceable(replace.row)
     THEN \E r \in Rows :
            /\ NewRow(r)
            /\ row' = Superseded(replace.row, r)
            /\ replace' = [at |-> "putting", row |-> r]
     ELSE replace' = IdleReplacing /\ UNCHANGED row
  /\ UNCHANGED <<discards, url, screen, create, convert, behind, seen, loose, faults, visits>>

ReplaceStored ==
  /\ replace.at = "putting"
  /\ row' = FileStored(replace.row)
  /\ replace' = IdleReplacing
  /\ url' = replace.row
  /\ StartConversion(replace.row)
  /\ UNCHANGED <<discards, create, loose, faults, visits>>

\* Either half fails.  The new row, if there is one, stays the current version;
\* the screen still follows the old one.
ReplaceFails ==
  /\ Fault
  /\ \/ /\ replace.at = "posting"
        /\ \/ UNCHANGED <<row, loose>>
           \/ \E r \in Rows : /\ Replaceable(replace.row) /\ NewRow(r)
                              /\ row' = Superseded(replace.row, r)
                              /\ loose' = loose \cup {r}
     \/ /\ replace.at = "putting"
        /\ row' \in {row, FileStored(replace.row)}
        /\ loose' = loose \cup {replace.row}
  /\ replace' = IdleReplacing
  /\ UNCHANGED <<discards, url, screen, create, convert, behind, seen, visits>>

-----------------------------------------------------------------------------
(* Leaving, coming back, reloading *)

InFlight ==
  Unheard
  \cup (IF create.at \in {"posting", "putting"}
        THEN {[kind |-> create.at, row |-> create.row]} ELSE {})
  \cup (IF replace.at = "posting" THEN {[kind |-> "replacing", row |-> replace.row]} ELSE {})
  \cup (IF replace.at = "putting" THEN {[kind |-> "reputting", row |-> replace.row]} ELSE {})

\* The rows this visit can still name.
InHand == {create.row, replace.row, screen.id, screen.unfinished, screen.resume, url} \ {None}

Fresh(opened) ==
  /\ screen' = opened
  /\ create' = IdleStoring
  /\ convert' = IdleConverting
  /\ replace' = IdleReplacing

\* The page goes; what it had in flight goes on.
Unmount ==
  /\ screen.open
  /\ behind' = behind \cup InFlight
  /\ Fresh([BlankScreen EXCEPT !.open = FALSE])
  /\ UNCHANGED <<row, url, seen, faults, visits>>

FailedRows == IF StoreFailed THEN {FailedRow} \ {None} ELSE {}

\* Mutant: the close discards nothing.
CloseKeeping ==
  /\ UNCHANGED discards
  /\ loose' = loose \cup (InHand \ FailedRows)
  /\ Unmount

\* onClose discards the row of a storing failure, and only that one.
Close ==
  /\ discards' = discards \cup FailedRows
  /\ loose' = loose \cup (InHand \ FailedRows)
  /\ Unmount

\* Any other link, or Back: no onClose, so nothing is discarded.
LeaveByLink ==
  /\ UNCHANGED discards
  /\ loose' = loose \cup InHand
  /\ Unmount

Visit == visits < MaxVisits /\ visits' = visits + 1

\* From the CV list: a blank form, or Back in history to the followed row.
Open ==
  /\ ~screen.open
  /\ Visit
  /\ url' \in {None, url} /\ RunsLeft(url')
  /\ Fresh([BlankScreen EXCEPT !.resume = url'])
  /\ UNCHANGED <<server, behind, seen, loose, faults>>

\* The browser drops the tab's requests and memory, and keeps the URL.
Reload ==
  /\ screen.open
  /\ RunsLeft(url)
  /\ Visit
  /\ Fresh([BlankScreen EXCEPT !.resume = url, !.cached = FALSE])
  /\ behind' = {}
  /\ seen' = [r \in Rows |-> Unseen]
  /\ loose' = loose \cup (InHand \ {url}) \cup {t.row : t \in {b \in behind : b.row # None}}
  /\ UNCHANGED <<server, url, faults>>

\* What the list says of the row of the URL decides: `usable`, there and not
\* superseded, and `pending`, not converted yet.
Resumed(usable, pending) ==
  LET r == screen.resume IN
  IF ~usable
  THEN /\ screen' = [screen EXCEPT !.resume = None]
       /\ url' = None
       /\ loose' = loose \cup {r}
       /\ UNCHANGED convert
  ELSE /\ screen' = [screen EXCEPT !.resume = None, !.id = r, !.following = ~pending]
       /\ convert' = IF pending
                     THEN [at |-> "pending", row |-> r, resume |-> TRUE, run |-> 0]
                     ELSE convert
       /\ UNCHANGED <<url, loose>>

\* A conversion of the row was started once, so that some list says more than PENDING.
OnceStarted(r) == row[r].status # "PENDING" \/ Cardinality(row[r].queued) < row[r].runs

\* The row of the URL is looked up once in the CV list: an unknown or superseded
\* one gives a blank form.  A cached list may be of any moment: before the row
\* existed, while it was PENDING, or before it was superseded or deleted.
Resume ==
  /\ screen.open
  /\ screen.resume # None
  /\ LET r == screen.resume IN
       \/ Resumed(Replaceable(r), row[r].status = "PENDING")
       \/ screen.cached /\ \/ Resumed(FALSE, FALSE)
                           \/ Resumed(TRUE, TRUE)
                           \/ OnceStarted(r) /\ Resumed(TRUE, FALSE)
  /\ UNCHANGED <<server, create, replace, behind, seen, faults, visits>>

\* The list itself cannot be read: the row is unknown.
ListFails ==
  /\ screen.open
  /\ screen.resume # None
  /\ Fault
  /\ Resumed(FALSE, FALSE)
  /\ UNCHANGED <<server, create, replace, behind, seen, visits>>

-----------------------------------------------------------------------------
(* What a closed visit left in flight *)

Handled(t, more) == behind' = (behind \ {t}) \cup more

\* onCreated belongs to the mutation, not to the component: it still moves the
\* browser to the Import screen of the new row.
BehindPosted(t) ==
  /\ t.kind = "posting"
  /\ \E r \in Rows :
       /\ NewRow(r)
       /\ row' = Inserted(r)
       /\ url' = r
       /\ Handled(t, {[kind |-> "putting", row |-> r]})
       /\ loose' = loose \cup (IF screen.open THEN {url, r} \ {None} ELSE {r})
       /\ screen' = IF screen.open THEN screen ELSE [BlankScreen EXCEPT !.resume = r]
  /\ UNCHANGED <<discards, create, convert, replace, seen, faults, visits>>

BehindPut(t) ==
  /\ t.kind \in {"putting", "reputting"}
  /\ row' = FileStored(t.row)
  /\ Handled(t, {})
  /\ UNCHANGED <<discards, url, screen, create, convert, replace, seen, loose, faults, visits>>

BehindReplaced(t) ==
  /\ t.kind = "replacing"
  /\ IF Replaceable(t.row)
     THEN \E r \in Rows :
            /\ NewRow(r)
            /\ row' = Superseded(t.row, r)
            /\ Handled(t, {[kind |-> "reputting", row |-> r]})
            /\ loose' = loose \cup {r}
     ELSE Handled(t, {}) /\ UNCHANGED <<row, loose>>
  /\ UNCHANGED <<discards, url, screen, create, convert, replace, seen, faults, visits>>

BehindConverted(t) ==
  /\ t.kind = "convert"
  /\ row' = IF ConvertAnswer(t.row) = "accepted" THEN Accepted(t.row) ELSE row
  /\ Handled(t, {})
  /\ UNCHANGED <<discards, url, screen, create, convert, replace, seen, loose, faults, visits>>

BehindFails(t) ==
  /\ Fault
  /\ Handled(t, {})
  /\ UNCHANGED <<server, url, screen, create, convert, replace, seen, loose, visits>>

BehindStep(t) == BehindPosted(t) \/ BehindPut(t) \/ BehindReplaced(t) \/ BehindConverted(t)

-----------------------------------------------------------------------------

Answer == PostAnswered \/ PutAnswered \/ ConvertAnswered \/ ReplaceAnswered \/ ReplaceStored

Candidate == Submit \/ RetryStore \/ RetryConversion \/ ReplaceFile \/ KeepWaiting
             \/ Close \/ LeaveByLink \/ Open \/ Reload

Failure == PostFails \/ PutFails \/ ConvertFails \/ ReplaceFails \/ ListFails

Next ==
  \/ Answer
  \/ Candidate
  \/ Failure
  \/ UrlExpires \/ Resume \/ Poll \/ WaitCapReached
  \/ \E r \in Rows : DiscardArrives(r) \/ DiscardLost(r) \/ WorkerStarts(r) \/ WorkerEnds(r)
  \/ \E t \in behind : BehindStep(t) \/ BehindFails(t)

Spec == Init /\ [][Next]_vars

\* Requests are answered or fail, the resume looks its list up, and the page's clock
\* runs: as long as one of them can, one of them does, and all but the clock are few.
\* The worker, the polls and the candidate owe nothing.
Due == Answer \/ Failure \/ Resume \/ WaitCapReached

Fairness == WF_vars(Due)

FairSpec == Spec /\ Fairness

-----------------------------------------------------------------------------
(* Properties *)

TypeOK ==
  /\ row \in [Rows -> CVVersion]
  /\ discards \in SUBSET Rows
  /\ url \in RowOrNone
  /\ screen \in Screen
  /\ create \in Storing
  /\ convert \in Converting
  /\ replace \in Replacing
  /\ behind \in SUBSET Behind
  /\ seen \in [Rows -> Seen]
  /\ loose \in SUBSET Rows
  /\ faults \in 0..MaxFaults
  /\ visits \in 1..MaxVisits

\* The file first, the Conversion second: no conversion is queued, running or
\* ended for a CVVersion whose bytes are not in storage.
ConversionHasItsFile ==
  \A r \in Rows :
    Live(r) /\ (row[r].queued # {} \/ row[r].working # {} \/ row[r].status # "PENDING")
      => row[r].file

\* While the screen is open, a row with no file behind it is one the screen can
\* still name or is discarding; the only others were lost to a failed request
\* or to a visit left before its upload ended.
OrphansAccounted ==
  screen.open =>
    \A r \in Rows : Live(r) /\ ~row[r].file => r \in InHand \cup discards \cup loose

\* The outcome on screen was written after the attempt the candidate started was
\* accepted: neither the cache nor the row shows what ended before.
OutcomeIsAfterStart ==
  SeenStatus \in Terminal /\ convert.at = "done" => seen[screen.id].at >= convert.run

\* The spinner does not spin for ever: a progress display gives way to the CV, to
\* a failure with its retry, or to "this goes on in the background".
SpinnerEnds ==
  ProgressShown ~> (SuccessShown \/ FailureShown \/ StalledShown \/ StoreFailed
                    \/ FormShown \/ ~screen.open)

\* "Converting it failed means the file is stored": the conversion failure, and
\* its two buttons, are only shown for a CVVersion whose bytes are in storage.
FailureMeansStored == FailureShown => screen.id # None /\ row[screen.id].file

\* "A retry must not read the previous attempt's terminal status": the outcome is the
\* one of the attempt the candidate started.
OutcomeIsOfThisAttempt ==
  SeenStatus \in Terminal /\ convert.at = "done" => seen[screen.id].by = convert.run

\* "Anything but FILE_NOT_UPLOADED means there is a Conversion to follow."
FollowedConversionExists ==
  screen.following /\ Live(screen.id) =>
    row[screen.id].queued # {} \/ row[screen.id].status # "PENDING"
===========================================================================
