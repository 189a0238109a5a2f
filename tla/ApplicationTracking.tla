------------------------ MODULE ApplicationTracking ------------------------
(***************************************************************************)
(* The Applications page (app/(app)/applications/page.tsx and its Quick    *)
(* view) over the Application rows of services/api/src/api/v1.py.          *)
(*                                                                         *)
(* A row is made by the first request that needs it, and moves by events   *)
(* that are only appended.  The requests of this page, those of the        *)
(* Analyses page in another tab and the generation of documents are served *)
(* in any order, and an event is written from the row as it was read.      *)
(***************************************************************************)
EXTENDS Naturals, Sequences, SequencesExt, FiniteSets, FiniteSetsExt, TablePages

CONSTANTS
  Analyses,    \* all there are
  Contested,   \* those another tab, or a generation, works on
  Opening,     \* the Applications when the page opens, oldest update first
  PageSizes,   \* stands in for 25 and 50
  MaxClicks,   \* what the candidate does, here or in another tab
  MaxElsewhere,\* requests of another tab, and generations of documents
  MaxLosses    \* requests that fail or whose answer is lost

VARIABLES
  rows,      \* the Application rows, in the order they were inserted
  requests,  \* the status changes under way
  list,      \* the cached list: the rows as last fetched
  stale,     \* it is being fetched again
  url,       \* the table's state
  selected,  \* selectedIds
  bulkError,
  shown,     \* quickViewId
  anchor,    \* quickViewAnchor
  now,       \* a clock that every stamp and every commit moves
  elsewhere, \* requests of another tab so far
  untold,    \* rows changed without this page being told
  clicks,
  losses

vars == <<rows, requests, list, stale, url, selected, bulkError, shown, anchor, now, elsewhere,
          untold, clicks, losses>>

Nobody == 0
Never == 0
Statuses == {"DRAFT", "APPLIED", "REJECTED"}
\* TRACKING_STATUS_TRANSITIONS: no button leads back to DRAFT.
Transitions == Statuses \ {"DRAFT"}
Filters == {{}} \cup {{s} : s \in Statuses}

\* read: how many events the row had when the request of this one read it.
Event == [status : Transitions, date : Nat, read : Nat]
Row == [of : Analyses, status : Statuses, applied : Nat, updated : Nat, events : Seq(Event)]
Request == [via : {"panel", "bulk", "elsewhere", "documents"}, of : Analyses, to : Statuses,
            stage : {"asking", "inserting", "found", "adding", "writing", "added", "failed"},
            date : Nat,
            copy : [status : Statuses, applied : Nat, events : Nat]]
\* No request has read the row it writes before it is "writing".
Unread == [status |-> "DRAFT", applied |-> Never, events |-> 0]

\* appliedAt: the date of an application whose request had seen none before it.
Applications(r) == {k \in DOMAIN r.events : r.events[k].status = "APPLIED"}
SawNone(r, k) == \A m \in Applications(r) : m < k => r.events[k].read < m
DatedUnseen(r) ==
  IF Applications(r) = {} THEN r.applied = Never
  ELSE \E k \in Applications(r) : SawNone(r, k) /\ r.applied = r.events[k].date
DatedByFirst(r) ==
  r.applied = IF Applications(r) = {} THEN Never ELSE r.events[Min(Applications(r))].date

ASSUME TrackingAssumption ==
  /\ MaxClicks \in Nat /\ MaxElsewhere \in Nat /\ MaxLosses \in Nat
  /\ Contested \subseteq Analyses
  /\ PageSizes # {} /\ PageSizes \subseteq Nat \ {0}
  /\ Opening \in Seq(Row)
  /\ \A i, j \in DOMAIN Opening : Opening[i].of = Opening[j].of => i = j
  /\ \A i \in DOMAIN Opening :
       DatedUnseen(Opening[i]) /\ \A k \in DOMAIN Opening[i].events : Opening[i].events[k].date > Never

-----------------------------------------------------------------------------
(* What the table shows *)

Listed == DOMAIN list
Filtered == {i \in Listed : url.status = {} \/ list[i].status \in url.status}

\* sortApplications: by appliedAt, a row never applied to last whichever the
\* direction; equal rows keep the server's order, latest update first.
Before(i, j) ==
  LET a == list[i].applied
      b == list[j].applied
  IN
  IF a = b THEN list[i].updated > list[j].updated
  ELSE IF a = Never \/ b = Never THEN b = Never
  ELSE IF url.direction = "asc" THEN a < b
  ELSE a > b

Index(i) == Rank(i, Filtered, Before)
At(k) == {i \in Filtered : Index(i) = k}
Page == ShownPage(url.page, Cardinality(Filtered), url.size)
TotalPages == PageCount(Cardinality(Filtered), url.size)
Rows == {i \in Filtered : PageAt(Index(i), url.size) = Page}

\* allPageSelected, allFilteredSelected.
AllSelected(S) == S # {} /\ S \subseteq selected

Pending(via) == {n \in DOMAIN requests : requests[n].via = via}

\* The list endpoint sends no events.
Summary(row) == [k \in DOMAIN row \ {"events"} |-> row[k]]
Summaries(s) == [i \in DOMAIN s |-> Summary(s[i])]

-----------------------------------------------------------------------------

Init ==
  /\ rows = Opening
  /\ requests = <<>>
  /\ list = Summaries(Opening)
  /\ stale = FALSE
  /\ url = [status |-> {}, direction |-> "desc", page |-> 1, size |-> Min(PageSizes)]
  /\ selected = {}
  /\ bulkError = FALSE
  /\ shown = Nobody
  /\ anchor = 0
  /\ now = Max({Opening[i].updated : i \in DOMAIN Opening} \cup {0}) + 1
  /\ elsewhere = 0
  /\ untold = {}
  /\ clicks = 0
  /\ losses = 0

server == <<rows, now, elsewhere, untold, losses>>
quickView == <<shown, anchor>>
screen == <<list, stale, url, selected, bulkError, shown, anchor, clicks>>

Click == clicks < MaxClicks /\ clicks' = clicks + 1
Loss == losses < MaxLosses /\ losses' = losses + 1
OnTable == Click /\ shown = Nobody /\ UNCHANGED <<server, list, quickView>>

\* updateState: page 1, unless the patch names a page.
Patched(patch) ==
  [k \in DOMAIN url |-> IF k \in DOMAIN patch THEN patch[k]
                        ELSE IF k = "page" THEN 1 ELSE url[k]]

\* No filter, sort or page of this table drops the selection.
Shows(patch) == OnTable /\ url' = Patched(patch) /\ UNCHANGED <<requests, stale, selected, bulkError>>

FilterByStatus(filter) == filter # url.status /\ Shows([status |-> filter])
SortAgain == Shows([direction |-> IF url.direction = "asc" THEN "desc" ELSE "asc"])
Resize(size) == size # url.size /\ Shows([size |-> size])
TurnPage ==
  /\ Filtered # {}
  /\ \E page \in {Page - 1, Page + 1} \cap (1..TotalPages) : Shows([page |-> page])

Selects(ids) == OnTable /\ selected' = ids /\ UNCHANGED <<requests, stale, url, bulkError>>

Toggle(i) == i \in Rows /\ Selects((selected \ {i}) \cup ({i} \ selected))
TogglePage ==
  /\ Rows # {}
  /\ Selects(IF AllSelected(Rows) THEN selected \ Rows ELSE selected \cup Rows)

\* The bulk bar's link, other pages included.
SelectAllFiltered == selected # {} /\ ~AllSelected(Filtered) /\ Selects(Filtered)

ClearSelection ==
  /\ OnTable
  /\ selected # {}
  /\ selected' = {}
  /\ bulkError' = FALSE
  /\ UNCHANGED <<requests, stale, url>>

Refresh ==
  /\ OnTable
  /\ ~stale
  /\ stale' = TRUE
  /\ UNCHANGED <<requests, url, selected, bulkError>>

Asked(via, a, to) ==
  [via |-> via, of |-> a, to |-> to, stage |-> "asking", date |-> Never, copy |-> Unread]

\* One request per selected row, named by its Analysis.
BulkStatus(to) ==
  /\ OnTable
  /\ selected # {}
  /\ Pending("bulk") = {}
  /\ LET chosen == SetToSeq(selected) IN
       requests' = requests \o [k \in DOMAIN chosen |-> Asked("bulk", list[chosen[k]].of, to)]
  /\ bulkError' = FALSE
  /\ UNCHANGED <<stale, url, selected>>

-----------------------------------------------------------------------------
(* The Quick view *)

\* openQuickViewAt.
Opened(i, k) == shown' = i /\ anchor' = k

Open(i) ==
  /\ Click
  /\ shown = Nobody
  /\ i \in Rows
  /\ Opened(i, Index(i))
  /\ UNCHANGED <<server, requests, list, stale, url, selected, bulkError>>

\* A row: its checkbox selects it, a click anywhere else opens it.
OnRow(i) == Toggle(i) \/ Open(i)

Close ==
  /\ Click
  /\ shown # Nobody
  /\ shown' = Nobody
  /\ UNCHANGED <<server, requests, list, stale, url, selected, bulkError, anchor>>

NextIndex == IF shown \in Filtered THEN Index(shown) + 1 ELSE anchor
PreviousIndex == IF shown \in Filtered THEN Index(shown) - 1 ELSE anchor - 1

\* goToApplicationAt: flips the page behind the panel when it has to.
GoTo(k) ==
  /\ Click
  /\ shown # Nobody
  /\ \E i \in At(k) : Opened(i, k)
  /\ url' = IF PageAt(k, url.size) = Page THEN url
            ELSE Patched([page |-> PageAt(k, url.size)])
  /\ UNCHANGED <<server, requests, list, stale, selected, bulkError>>

Suivant == GoTo(NextIndex)
Precedent == PreviousIndex >= 0 /\ GoTo(PreviousIndex)

\* The panel knows its row: it appends to it, and only a status it is not in.
PanelStatus(to) ==
  /\ Click
  /\ shown # Nobody
  /\ list[shown].status # to
  /\ Pending("panel") = {}
  /\ requests' = Append(requests, [Asked("panel", list[shown].of, to) EXCEPT
                                     !.stage = "adding", !.date = now])
  /\ now' = now + 1
  /\ UNCHANGED <<rows, elsewhere, untold, losses, list, stale, url, selected, bulkError,
                 quickView>>

-----------------------------------------------------------------------------
(* Another tab, and the generation of documents *)

Elsewhere ==
  /\ Click
  /\ elsewhere < MaxElsewhere
  /\ elsewhere' = elsewhere + 1
  /\ \E a \in Contested :
       \/ requests' = Append(requests, Asked("documents", a, "DRAFT"))
       \/ \E to \in Transitions : requests' = Append(requests, Asked("elsewhere", a, to))
  /\ UNCHANGED <<rows, now, untold, losses, list, stale, url, selected, bulkError, quickView>>

-----------------------------------------------------------------------------
(* The endpoints *)

Move(n, stage) == requests' = [requests EXCEPT ![n].stage = stage, ![n].copy = Unread]
Done(n) == requests' = RemoveAt(requests, n)
\* Whether this page waits for the answer.
Ours(n) == requests[n].via \in {"panel", "bulk"}
RowOf(a) == {i \in DOMAIN rows : rows[i].of = a}

\* _get_or_create_application looks for the row...
Ask(n) ==
  /\ requests[n].stage = "asking"
  /\ Move(n, IF RowOf(requests[n].of) = {} THEN "inserting" ELSE "found")
  /\ UNCHANGED <<server, screen>>

\* Mutant: there is no such key.
TakenByNobody(a) == FALSE

\* Application_analysisId_key.
Taken(a) == RowOf(a) # {}

\* ...and inserts it: the key refuses a second one.
Insert(n) ==
  /\ requests[n].stage = "inserting"
  /\ IF ~Taken(requests[n].of)
     THEN /\ rows' = Append(rows, [of |-> requests[n].of, status |-> "DRAFT", applied |-> Never,
                                   updated |-> now, events |-> <<>>])
          /\ now' = now + 1
          /\ untold' = untold \cup {requests[n].of}
          /\ Move(n, "found")
     ELSE (IF Ours(n) THEN Move(n, "failed") ELSE Done(n)) /\ UNCHANGED <<rows, now, untold>>
  /\ UNCHANGED <<elsewhere, losses, screen>>

\* The browser sends the event with its own date; a generation stops here.
Stamp(n) ==
  /\ requests[n].stage = "found"
  /\ IF requests[n].via = "documents" THEN Done(n) /\ UNCHANGED now
     ELSE /\ requests' = [requests EXCEPT ![n].stage = "adding", ![n].date = now]
          /\ now' = now + 1
  /\ UNCHANGED <<rows, elsewhere, untold, losses, screen>>

\* add_status_event reads the row...
ReadRow(n) ==
  /\ requests[n].stage = "adding"
  /\ \E i \in RowOf(requests[n].of) :
       requests' = [requests EXCEPT ![n].stage = "writing",
                                    ![n].copy = [status |-> rows[i].status,
                                                 applied |-> rows[i].applied,
                                                 events |-> Len(rows[i].events)]]
  /\ UNCHANGED <<server, screen>>

Appended(row, q) == Append(row.events, [status |-> q.to, date |-> q.date, read |-> q.copy.events])

\* Mutant: every application moves the date.
AddedAnew(row, q) ==
  [row EXCEPT !.status = IF q.to = q.copy.status THEN @ ELSE q.to,
              !.applied = IF q.to = "APPLIED" THEN q.date ELSE @,
              !.updated = now,
              !.events = Appended(row, q)]

\* ...and writes, over whatever was committed since, the columns that differ
\* from what it read: the date when it read none.
Added(row, q) ==
  [row EXCEPT !.status = IF q.to = q.copy.status THEN @ ELSE q.to,
              !.applied = IF q.to = "APPLIED" /\ q.copy.applied = Never THEN q.date ELSE @,
              !.updated = now,
              !.events = Appended(row, q)]

AppendEvent(n) ==
  /\ requests[n].stage = "writing"
  /\ rows' = [i \in DOMAIN rows |->
                IF rows[i].of = requests[n].of THEN Added(rows[i], requests[n]) ELSE rows[i]]
  /\ now' = now + 1
  /\ untold' = untold \cup {requests[n].of}
  /\ IF Ours(n) THEN Move(n, "added") ELSE Done(n)
  /\ UNCHANGED <<elsewhere, losses, screen>>

\* A request that fails on the way, or whose answer does.
Lose(n) ==
  /\ Ours(n)
  /\ requests[n].stage \in {"asking", "found", "adding", "writing", "added"}
  /\ Loss
  /\ Move(n, "failed")
  /\ UNCHANGED <<rows, now, elsewhere, untold, screen>>

-----------------------------------------------------------------------------
(* The answers *)

\* useAddStatusEvent refetches on success only.
PanelAnswered(n) ==
  /\ requests[n].via = "panel"
  /\ requests[n].stage \in {"added", "failed"}
  /\ stale' = (stale \/ requests[n].stage = "added")
  /\ untold' = IF requests[n].stage = "added" THEN untold \ {requests[n].of} ELSE untold
  /\ Done(n)
  /\ UNCHANGED <<rows, now, elsewhere, losses, list, url, selected, bulkError, quickView, clicks>>

\* Mutant: an error only when nothing went through.
NoneAdded(S) == \A n \in S : requests[n].stage = "failed"

SomeFailed(S) == \E n \in S : requests[n].stage = "failed"

\* allSettled: waits for them all, and counts those that failed.
BulkSettled ==
  /\ Pending("bulk") # {}
  /\ \A n \in Pending("bulk") : requests[n].stage \in {"added", "failed"}
  /\ bulkError' = SomeFailed(Pending("bulk"))
  /\ stale' = TRUE
  /\ untold' = untold \ {requests[n].of : n \in Pending("bulk")}
  /\ LET others == SetToSeq(DOMAIN requests \ Pending("bulk")) IN
       requests' = [k \in DOMAIN others |-> requests[others[k]]]
  /\ UNCHANGED <<rows, now, elsewhere, losses, list, url, selected, quickView, clicks>>

Refetched ==
  /\ stale
  /\ list' = Summaries(rows)
  /\ stale' = FALSE
  /\ untold' = {}
  /\ UNCHANGED <<rows, now, elsewhere, losses, requests, url, selected, bulkError, quickView, clicks>>

Next ==
  \/ \E filter \in Filters : FilterByStatus(filter)
  \/ \E size \in PageSizes : Resize(size)
  \/ SortAgain \/ TurnPage
  \/ TogglePage \/ SelectAllFiltered \/ ClearSelection \/ Refresh
  \/ \E to \in Transitions : BulkStatus(to) \/ PanelStatus(to)
  \/ \E i \in Listed : OnRow(i)
  \/ Close \/ Suivant \/ Precedent
  \/ Elsewhere
  \/ \E n \in DOMAIN requests : \/ Ask(n) \/ Insert(n) \/ Stamp(n) \/ ReadRow(n) \/ AppendEvent(n)
                                \/ Lose(n) \/ PanelAnswered(n)
  \/ BulkSettled \/ Refetched

Spec == Init /\ [][Next]_vars

-----------------------------------------------------------------------------
(* Properties *)

TypeOK ==
  /\ rows \in Seq(Row)
  /\ requests \in Seq(Request)
  /\ list \in Seq([of : Analyses, status : Statuses, applied : Nat, updated : Nat])
  /\ stale \in BOOLEAN
  /\ url \in [status : Filters, direction : {"asc", "desc"}, page : Nat \ {0}, size : PageSizes]
  /\ selected \in SUBSET DOMAIN list
  /\ bulkError \in BOOLEAN
  /\ shown \in DOMAIN list \cup {Nobody}
  /\ anchor \in Nat
  /\ now \in Nat
  /\ elsewhere \in 0..MaxElsewhere
  /\ untold \in SUBSET Analyses
  /\ clicks \in 0..MaxClicks
  /\ losses \in 0..MaxLosses

\* However the requests that need it meet, an Analysis gets one Application:
\* "neither path can create a duplicate row for the same analysisId".
OneApplication == \A i, j \in DOMAIN rows : rows[i].of = rows[j].of => i = j

\* appliedAt is the date of an application that is recorded, and one whose
\* request had seen no earlier one: it moves only by requests that overlap.
AppliedDated == \A i \in DOMAIN rows : DatedUnseen(rows[i])

\* A bulk change that shows no error has appended its event to every row: it
\* reports "which analysisIds (if any) failed rather than failing silently".
BulkTellsFailures ==
  [][BulkSettled /\ ~bulkError' =>
       \A n \in Pending("bulk") : \E i \in RowOf(requests[n].of) :
         \E k \in DOMAIN rows[i].events :
           /\ rows[i].events[k].status = requests[n].to
           /\ rows[i].events[k].date = requests[n].date]_vars

\* What this page was told of is what it shows once nothing is being fetched.
ListCatchesUp ==
  ~stale => \A i \in DOMAIN rows : rows[i].of \notin untold => i \in Listed /\ list[i] = Summary(rows[i])

\* appliedAt is the date of the first application to be recorded, whatever is
\* recorded after it: "denormalised onto the row and kept in sync on every append".
AppliedOnce == \A i \in DOMAIN rows : DatedByFirst(rows[i])

\* "The Application's current status is always the latest event's status", the
\* events being those of the timeline, which is in the order of their dates.
StatusIsLatestEvent ==
  \A i \in DOMAIN rows :
    rows[i].events # <<>> =>
      \E k \in DOMAIN rows[i].events :
        /\ \A m \in DOMAIN rows[i].events : rows[i].events[m].date <= rows[i].events[k].date
        /\ rows[i].status = rows[i].events[k].status

\* "Step through the whole filtered, sorted list": after the panel changed the
\* row it shows and nothing else happened, Next shows the row that followed it.
StepsThroughList ==
  [][Suivant /\ shown \in Filtered => Index(shown) = anchor]_vars
============================================================================
