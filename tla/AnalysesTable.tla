--------------------------- MODULE AnalysesTable ---------------------------
(***************************************************************************)
(* The Analyses page (app/(app)/analyses/page.tsx): the filtered, sorted,  *)
(* paginated table kept in the URL, the multi-selection and its bulk       *)
(* Tracking status, and the Quick view that walks the whole list with      *)
(* Previous and Next.                                                      *)
(*                                                                         *)
(* The table shows a cached list; rows change behind it when an Analysis   *)
(* ends and when the requests of this tab are served.                      *)
(***************************************************************************)
EXTENDS Naturals, FiniteSets, FiniteSetsExt, TablePages

CONSTANTS
  Initial,     \* how many Analyses there are when the page opens
  MaxAnalyses, \* Analyses, relaunched ones included
  PostedAt,    \* [Ids -> date of the offer, or 0 when it has none]
  CvLabel,     \* [Ids -> label of its CVVersion]
  PageSizes,   \* stands in for 25 and 50
  MaxClicks,   \* what the candidate does in one visit
  MaxLosses    \* requests that fail or whose answer is lost

Ids == 1..MaxAnalyses
None == 0

TableAssumption ==
  /\ Initial \in Nat /\ MaxAnalyses \in Nat /\ Initial < MaxAnalyses
  /\ PostedAt \in [Ids -> Nat]
  /\ PageSizes # {} /\ PageSizes \subseteq Nat \ {0}
  /\ MaxClicks \in Nat /\ MaxLosses \in Nat

VARIABLES
  row,        \* [Ids -> the Analysis and its Application, in the database]
  list,       \* [Ids -> the same, in the cached list]
  stale,      \* the list is being fetched again
  url,        \* the table's state
  selected,   \* selectedIds
  bulk,       \* the bulk Tracking status request under way
  bulkError,
  shown,      \* quickViewId
  anchor,     \* quickViewAnchor
  panel,      \* the Quick view's Tracking status request under way
  relaunch,   \* the Quick view's relaunches under way: the one it waits for, and the others
  slate,      \* the rows of the list when the anchor was last written
  unheard,    \* rows changed without this tab being told
  clicks,
  losses

vars == <<row, list, stale, url, selected, bulk, bulkError, shown, anchor, panel, relaunch,
          slate, unheard, clicks, losses>>

Tracking == {"TO_APPLY", "IN_PROGRESS", "REJECTED"}
\* TRACKING_STATUS_TRANSITIONS: no button leads back to TO_APPLY.
Transitions == Tracking \ {"TO_APPLY"}
Filters == {{}} \cup {{b} : b \in Tracking}
Labels == {CvLabel[a] : a \in Ids}

Row == [status : {"ABSENT", "RUNNING", "COMPLETED"}, application : {"none"} \cup Transitions]
Absent == [status |-> "ABSENT", application |-> "none"]
Table == [status : Filters, cv : {"all"} \cup Labels, direction : {"asc", "desc"},
          page : Nat \ {0}, size : PageSizes]
Change == [ids : SUBSET Ids, to : Transitions]
NoChange == [ids |-> {}, to |-> "REJECTED"]
NoRelaunch == [pending |-> FALSE, unheard |-> 0]

-----------------------------------------------------------------------------
(* What the table shows *)

\* trackingStatusOf: only a COMPLETED Analysis has a Tracking status.
TrackingOf(a) ==
  IF a.status # "COMPLETED" THEN "none"
  ELSE IF a.application = "none" THEN "TO_APPLY"
  ELSE a.application

Listed == {a \in Ids : list[a].status # "ABSENT"}

\* filterAnalyses: values of a filter are OR-ed, filters AND-ed.
Matches(a) ==
  /\ url.status = {} \/ TrackingOf(list[a]) \in url.status
  /\ url.cv = "all" \/ CvLabel[a] = url.cv

Filtered == {a \in Listed : Matches(a)}

\* hasActiveFilters.
Filtering == url.status # {} \/ url.cv # "all"

\* sortAnalyses: a row without a date comes last in both directions, and equal
\* rows keep the server's order, latest request first.
Before(a, b) ==
  LET va == PostedAt[a]
      vb == PostedAt[b]
  IN
  IF va = vb THEN a > b
  ELSE IF va = 0 \/ vb = 0 THEN vb = 0
  ELSE IF url.direction = "asc" THEN va < vb
  ELSE va > vb

\* Its rank in the sorted list, from 0.
Index(a) == Rank(a, Filtered, Before)
At(i) == {a \in Filtered : Index(a) = i}

TotalPages == PageCount(Cardinality(Filtered), url.size)
Page == ShownPage(url.page, Cardinality(Filtered), url.size)
Rows == {a \in Filtered : PageAt(Index(a), url.size) = Page}

\* allPageSelected, allFilteredSelected.
AllSelected(S) == S # {} /\ S \subseteq selected

-----------------------------------------------------------------------------
(* The table's state in the URL *)

\* analysesTableStateToParams: a filter that filters nothing is not written.
ToParams(state) ==
  [k \in ({"status"} \ (IF state.status = {} THEN {"status"} ELSE {}))
         \cup ({"cv"} \ (IF state.cv = "all" THEN {"cv"} ELSE {}))
         \cup {"direction", "page", "size"} |-> state[k]]

DefaultTable ==
  [status |-> {}, cv |-> "all", direction |-> "desc", page |-> 1, size |-> Min(PageSizes)]

\* parseAnalysesTableState: anything missing or unknown falls back.
Parse(params) ==
  [k \in DOMAIN DefaultTable |->
     IF k \notin DOMAIN params THEN DefaultTable[k]
     ELSE IF k = "status" THEN params[k] \cap Tracking
     ELSE IF k = "size" /\ params[k] \notin PageSizes THEN DefaultTable[k]
     ELSE params[k]]

-----------------------------------------------------------------------------

Init ==
  /\ row \in [Ids -> Row]
  /\ \A a \in Ids :
       IF a > Initial THEN row[a] = Absent
       ELSE row[a] \in [status : {"RUNNING", "COMPLETED"}, application : {"none"}]
  /\ Cardinality({a \in Ids : row[a].status = "RUNNING"}) <= 1
  /\ list = row
  /\ stale = FALSE
  /\ url = DefaultTable
  /\ selected = {}
  /\ bulk = NoChange
  /\ bulkError = FALSE
  /\ shown = None
  /\ anchor = 0
  /\ panel = NoChange
  /\ relaunch = NoRelaunch
  /\ slate = {}
  /\ unheard = {}
  /\ clicks = 0
  /\ losses = 0

requests == <<bulk, panel, relaunch>>
panelState == <<shown, anchor, slate>>
data == <<row, list, unheard>>

Click == clicks < MaxClicks /\ clicks' = clicks + 1
Loss == losses < MaxLosses /\ losses' = losses + 1

\* The Quick view is modal: the table is out of reach behind it.
OnTable == Click /\ shown = None /\ UNCHANGED <<row, list, losses, panelState>>

\* updateState: page 1, unless the patch names a page.
Patched(patch) ==
  [k \in DOMAIN url |-> IF k \in DOMAIN patch THEN patch[k]
                        ELSE IF k = "page" THEN 1 ELSE url[k]]

\* A new search, status filter or sort drops the selection...
DropsSelection == selected' = {} /\ bulkError' = FALSE /\ UNCHANGED <<requests, stale, unheard>>

FilterByStatus(filter) ==
  /\ OnTable
  /\ filter # url.status
  /\ url' = Patched([status |-> filter])
  /\ DropsSelection

\* toggleSort.
Flipped == IF url.direction = "asc" THEN "desc" ELSE "asc"

SortAgain ==
  /\ OnTable
  /\ url' = Patched([direction |-> Flipped])
  /\ DropsSelection

\* ...a new CV filter or page size does not.
KeepsSelection == UNCHANGED <<requests, stale, selected, bulkError, unheard>>

FilterByCv(cv) ==
  /\ OnTable
  /\ cv # url.cv
  /\ url' = Patched([cv |-> cv])
  /\ KeepsSelection

Resize(size) ==
  /\ OnTable
  /\ size # url.size
  /\ url' = Patched([size |-> size])
  /\ KeepsSelection

\* "Effacer les filtres" is a change of every filter.
ClearFilters ==
  /\ OnTable
  /\ Filtering
  /\ url' = Patched([status |-> {}, cv |-> "all"])
  /\ DropsSelection

TurnPage ==
  /\ OnTable
  /\ Filtered # {}
  /\ \E page \in {Page - 1, Page + 1} \cap (1..TotalPages) : url' = Patched([page |-> page])
  /\ KeepsSelection

Selects(ids) == selected' = ids /\ UNCHANGED <<requests, stale, url, bulkError, unheard>>

Toggle(a) == OnTable /\ a \in Rows /\ Selects((selected \ {a}) \cup ({a} \ selected))

TogglePage ==
  /\ OnTable
  /\ Rows # {}
  /\ Selects(IF AllSelected(Rows) THEN selected \ Rows ELSE selected \cup Rows)

\* The bulk bar's link, other pages included.
SelectAllFiltered ==
  /\ OnTable
  /\ selected # {} /\ ~AllSelected(Filtered)
  /\ Selects(Filtered)

ClearSelection ==
  /\ OnTable
  /\ selected # {}
  /\ selected' = {}
  /\ bulkError' = FALSE
  /\ UNCHANGED <<requests, stale, url, unheard>>

Refresh ==
  /\ OnTable
  /\ ~stale
  /\ stale' = TRUE
  /\ UNCHANGED <<requests, url, selected, bulkError, unheard>>

\* A relaunch nobody waits for any more goes on, and its answer is not heard.
RelaunchLeft ==
  relaunch' = [pending |-> FALSE,
               unheard |-> relaunch.unheard + (IF relaunch.pending THEN 1 ELSE 0)]

\* The URL is all a reload keeps.  What was under way goes on unheard.
Reload ==
  /\ Click
  /\ url' = Parse(ToParams(url))
  /\ list' = row
  /\ stale' = (bulk.ids \cup panel.ids # {})
  /\ bulk' = NoChange
  /\ panel' = NoChange
  /\ RelaunchLeft
  /\ selected' = {}
  /\ bulkError' = FALSE
  /\ shown' = None
  /\ anchor' = 0
  /\ slate' = {}
  /\ unheard' = {}
  /\ UNCHANGED <<row, losses>>

-----------------------------------------------------------------------------
(* Changing the Tracking status of the selection *)

\* Every selected id, on the page or not, in the filter or not.
BulkStatus(to) ==
  /\ OnTable
  /\ selected # {}
  /\ bulk = NoChange
  /\ bulk' = [ids |-> selected, to |-> to]
  /\ bulkError' = FALSE
  /\ UNCHANGED <<panel, relaunch, stale, url, selected, unheard>>

Applied(ids, to) == [a \in Ids |-> IF a \in ids THEN [row[a] EXCEPT !.application = to]
                                        ELSE row[a]]

\* allSettled: one request per id, whatever becomes of the others.
BulkAnswered ==
  /\ bulk # NoChange
  /\ \E failed \in SUBSET bulk.ids :
       /\ IF failed = {} THEN UNCHANGED losses ELSE Loss
       /\ \E lost \in SUBSET failed : row' = Applied((bulk.ids \ failed) \cup lost, bulk.to)
       /\ bulkError' = (bulkError \/ failed # {})
  /\ bulk' = NoChange
  /\ stale' = TRUE
  /\ UNCHANGED <<list, url, selected, panelState, panel, relaunch, unheard, clicks>>

-----------------------------------------------------------------------------
(* The Quick view *)

\* openQuickViewAt.
Opened(a, i) == shown' = a /\ anchor' = i /\ slate' = Filtered

Open(a) ==
  /\ Click
  /\ shown = None
  /\ a \in Rows
  /\ Opened(a, Index(a))
  /\ UNCHANGED <<data, stale, url, selected, bulkError, requests, losses>>

\* A row: its checkbox selects it, a click anywhere else opens it.
OnRow(a) == Toggle(a) \/ Open(a)

\* A pending relaunch is reset.
Close ==
  /\ Click
  /\ shown # None
  /\ shown' = None
  /\ RelaunchLeft
  /\ UNCHANGED <<data, stale, url, selected, bulkError, anchor, slate, bulk, panel, losses>>

InList == shown \in Filtered

\* Mutant: the row after the slot.
NextIndexPast == IF InList THEN Index(shown) + 1 ELSE anchor + 1

\* The slot a dropped Analysis left is where the arrows go on from.
NextIndex == IF InList THEN Index(shown) + 1 ELSE anchor
PreviousIndex == IF InList THEN Index(shown) - 1 ELSE anchor - 1

\* Mutant: the page stays.
TurnedNowhere(i) == url

TurnedTo(i) ==
  IF PageAt(i, url.size) = Page THEN url ELSE Patched([page |-> PageAt(i, url.size)])

\* goToAnalysisAt: flips the page behind the panel when it has to.
GoTo(i) ==
  /\ Click
  /\ shown # None
  /\ \E a \in At(i) : Opened(a, i)
  /\ url' = TurnedTo(i)
  /\ UNCHANGED <<data, stale, selected, bulkError, requests, losses>>

Suivant == GoTo(NextIndex)
Precedent == PreviousIndex >= 0 /\ GoTo(PreviousIndex)

\* Only the statuses the row is not already in.
PanelStatus(to) ==
  /\ Click
  /\ shown \in Listed
  /\ TrackingOf(list[shown]) \notin {"none", to}
  /\ panel = NoChange
  /\ panel' = [ids |-> {shown}, to |-> to]
  /\ UNCHANGED <<data, stale, url, selected, bulkError, panelState, bulk, relaunch, losses>>

\* Mutant: the list is left as it is.
PanelAnsweredQuietly ==
  /\ panel # NoChange
  /\ row' = Applied(panel.ids, panel.to)
  /\ panel' = NoChange
  /\ UNCHANGED <<list, stale, url, selected, bulkError, panelState, bulk, relaunch, unheard, clicks,
                 losses>>

PanelAnswered ==
  /\ panel # NoChange
  /\ row' = Applied(panel.ids, panel.to)
  /\ panel' = NoChange
  /\ stale' = TRUE
  /\ UNCHANGED <<list, url, selected, bulkError, panelState, bulk, relaunch, unheard, clicks,
                 losses>>

\* An error refreshes nothing, even when the change went through.
PanelFails ==
  /\ panel # NoChange
  /\ Loss
  /\ \/ row' = Applied(panel.ids, panel.to) /\ unheard' = unheard \cup panel.ids
     \/ UNCHANGED <<row, unheard>>
  /\ panel' = NoChange
  /\ UNCHANGED <<list, stale, url, selected, bulkError, panelState, bulk, relaunch, clicks>>

NewRows == {a \in Ids : row[a].status = "ABSENT"}

Relaunch ==
  /\ Click
  /\ shown \in Listed
  /\ list[shown].status = "COMPLETED"
  /\ ~relaunch.pending
  /\ NewRows # {}
  /\ relaunch' = [relaunch EXCEPT !.pending = TRUE]
  /\ UNCHANGED <<data, stale, url, selected, bulkError, panelState, bulk, panel, losses>>

\* onRelaunched: the panel shows the new Analysis, wherever the arrows went.
RelaunchAnswered ==
  /\ NewRows # {}
  /\ LET new == Min(NewRows) IN
       /\ row' = [row EXCEPT ![new].status = "RUNNING"]
       /\ \/ /\ relaunch.pending
             /\ relaunch' = [relaunch EXCEPT !.pending = FALSE]
             /\ shown' = new /\ stale' = TRUE
             /\ UNCHANGED unheard
          \/ /\ relaunch.unheard > 0
             /\ relaunch' = [relaunch EXCEPT !.unheard = @ - 1]
             /\ unheard' = unheard \cup {new}
             /\ UNCHANGED <<shown, stale>>
  /\ UNCHANGED <<list, url, selected, bulkError, anchor, slate, bulk, panel, clicks, losses>>

-----------------------------------------------------------------------------
(* The list and the pipeline *)

Refetched ==
  /\ stale
  /\ list' = row
  /\ stale' = FALSE
  /\ unheard' = {}
  /\ UNCHANGED <<row, url, selected, bulkError, panelState, requests, clicks, losses>>

AnalysisEnds(a) ==
  /\ row[a].status = "RUNNING"
  /\ row' = [row EXCEPT ![a].status = "COMPLETED"]
  /\ unheard' = unheard \cup {a}
  /\ UNCHANGED <<list, stale, url, selected, bulkError, panelState, requests, clicks, losses>>

Next ==
  \/ \E filter \in Filters : FilterByStatus(filter)
  \/ \E cv \in {"all"} \cup Labels : FilterByCv(cv)
  \/ \E size \in PageSizes : Resize(size)
  \/ SortAgain \/ ClearFilters \/ TurnPage
  \/ TogglePage \/ SelectAllFiltered \/ ClearSelection \/ Refresh \/ Reload
  \/ \E to \in Transitions : BulkStatus(to) \/ PanelStatus(to)
  \/ \E a \in Ids : OnRow(a) \/ AnalysisEnds(a)
  \/ Close \/ Suivant \/ Precedent
  \/ Relaunch \/ RelaunchAnswered
  \/ BulkAnswered \/ PanelAnswered \/ PanelFails
  \/ Refetched

Spec == Init /\ [][Next]_vars

-----------------------------------------------------------------------------
(* Properties *)

TypeOK ==
  /\ row \in [Ids -> Row]
  /\ list \in [Ids -> Row]
  /\ stale \in BOOLEAN
  /\ url \in Table
  /\ selected \in SUBSET Ids
  /\ bulk \in Change
  /\ bulkError \in BOOLEAN
  /\ shown \in Ids \cup {None}
  /\ anchor \in Nat
  /\ panel \in Change
  /\ relaunch \in [pending : BOOLEAN, unheard : Nat]
  /\ slate \in SUBSET Ids
  /\ unheard \in SUBSET Ids
  /\ clicks \in 0..MaxClicks
  /\ losses \in 0..MaxLosses

\* Rows that leave the list under the candidate never leave an empty page while
\* others match: the page number in the URL is clamped.
PageHasRows == Filtered # {} => Rows # {}

\* "The list and the panel never disagree": after a step of the arrows the
\* Analysis in the panel is on the page behind it.
StepShowsItsRow ==
  [][shown # None /\ shown' # None /\ anchor' # anchor => shown' \in Rows']_vars

\* When the panel's own change is all that happened to the list, Next shows the
\* Analysis that followed the one that dropped out: none is skipped.
SuivantSkipsNothing ==
  [][/\ Suivant
     /\ Filtered = slate \ {shown}
     /\ shown \in slate
     => \A b \in Filtered : Before(shown, b) => b = shown' \/ Before(shown', b)]_vars

\* Whatever this tab changed and was told of is on screen once nothing is under
\* way, interleaved requests and refetches included.
ListCatchesUp ==
  ~stale /\ bulk = NoChange /\ panel = NoChange /\ ~relaunch.pending =>
    \A a \in Ids \ unheard : list[a] = row[a]

\* A reload, or a shared link, shows the same table.
ReloadKeepsTable == [][Reload => url' = url]_vars

\* "The list and the panel never disagree about where the candidate is".
PanelOnItsPage == shown \in Filtered => shown \in Rows
============================================================================
