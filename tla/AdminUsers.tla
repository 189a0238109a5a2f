----------------------------- MODULE AdminUsers -----------------------------
(***************************************************************************)
(* The Administrators' Users table and User panel                          *)
(* (app/(app)/admin/users/page.tsx), with the state its URL carries        *)
(* (lib/admin-users-filters.ts), the hooks both share (hooks/use-admin.ts) *)
(* and the endpoints of services/api/src/api/admin.py.                     *)
(*                                                                         *)
(* Two Administrators: the one of this tab, and another who calls the same *)
(* endpoints.  The table and the panel read the same User through two      *)
(* caches and each has its own Block button.  A handler reads the User,    *)
(* then writes what is different and its AdminAuditEvent in one commit.    *)
(***************************************************************************)
EXTENDS Naturals, Sequences, FiniteSets, FiniteSetsExt, SequencesExt

CONSTANTS
  Me, Peer,      \* the Administrators, of People
  MaxPeople,     \* Users
  Fields,        \* what the Administrator of this tab edits
  PeerFields,    \* what the other one does
  Filters,       \* filters of the table
  PageSize,      \* rows of a page
  MaxEdits,      \* requests
  MaxGestures,   \* what the Administrator of this tab does besides
  MaxLosses      \* requests and answers lost

VARIABLES
  people,      \* [People -> the User row, and its QuotaOverride]
  subs,        \* [People -> the Subscriptions in force]
  audit,       \* the AdminAuditEvents, in the order they were committed
  starts,      \* transactions begun
  loaded,      \* the page knows whose session it is
  view,        \* the URL: the filter, the page, the open User; and the panel's tab
  tables,      \* [query key -> the cached page of Users]
  tablesDue,   \* keys fetched again when they are shown
  details,     \* [People -> the cached answer of GET quotas]
  detailsDue,
  history,     \* [People -> how much of the audit the cached history holds]
  historyDue,
  confirms,    \* inline confirmations that are open, of the rows and of the panel
  edits,       \* the requests under way
  sent,        \* how many were made
  told,        \* [People -> how much was committed when this tab was last told of its own edit]
  gestures,
  losses

database == <<people, subs, audit, starts>>
caches == <<tables, tablesDue, details, detailsDue, history, historyDue>>
vars == <<database, loaded, view, caches, confirms, edits, sent, told, gestures, losses>>

People == 1..MaxPeople
None == 0
Pages == 1..MaxPeople
Keys == Filters \X Pages
Marks == 0..MaxEdits

Values ==
  [blocked |-> {"no", "yes"}, role |-> {"ADMINISTRATOR", "EXTERNAL"}, name |-> {"old", "new"},
   plan |-> {"FREE", "PREMIUM"}, limit |-> {"none", "low"}]
\* What is a column of the User; the override is a row of its own, known by its id.
Columns == {"blocked", "role", "name"}

UsersAssumption ==
  /\ MaxPeople \in Nat /\ Me \in People /\ Peer \in People /\ Me # Peer /\ PageSize \in Nat \ {0}
  /\ Fields \cup PeerFields \subseteq DOMAIN Values /\ Filters \subseteq {"all", "blocked", "external", "over"}
  /\ "all" \in Filters
  /\ MaxEdits \in Nat /\ MaxGestures \in Nat /\ MaxLosses \in Nat

-----------------------------------------------------------------------------
(* The endpoints that read *)

\* effective_plan: the Subscription that started last.
Latest(S) == CHOOSE s \in S : \A r \in S : r.start <= s.start
Plan(u) == Latest(subs[u]).plan

\* list_users: at or over the limit is a matter of the override's low ceiling.
Matches(f, u) ==
  CASE f = "blocked" -> people[u].blocked = "yes"
    [] f = "external" -> people[u].role = "EXTERNAL"
    [] f = "over" -> people[u].limit # None
    [] OTHER -> TRUE
Matching(f) == {u \in People : Matches(f, u)}
Rank(u, f) == Cardinality({v \in Matching(f) : v < u})
OnPage(k) == {u \in Matching(k[1]) : Rank(u, k[1]) \div PageSize = k[2] - 1}
Page(k) ==
  [rows |-> [u \in OnPage(k) |-> people[u]], total |-> Cardinality(Matching(k[1])),
   at |-> Len(audit), known |-> TRUE]
NoPage == [rows |-> <<>>, total |-> 0, at |-> 0, known |-> FALSE]

\* get_user_quotas.
Detail(u) == [user |-> people[u], at |-> Len(audit), known |-> TRUE]

\* get_audit_events orders by createdAt, the start of the transaction.
EventsOf(u, f) == {e \in DOMAIN audit : audit[e].of = u /\ audit[e].field = f}
NewestShown(u, f) == CHOOSE e \in EventsOf(u, f) : \A d \in EventsOf(u, f) : audit[d].start <= audit[e].start

-----------------------------------------------------------------------------

Init ==
  /\ people = [u \in People |-> [blocked |-> "no", name |-> "old", limit |-> None,
                                 role |-> IF u \in {Me, Peer} THEN "ADMINISTRATOR" ELSE "EXTERNAL"]]
  /\ subs = [u \in People |-> {[plan |-> "FREE", start |-> 0]}]
  /\ audit = <<>> /\ starts = 0
  /\ loaded = FALSE
  \* A page of the table, or the panel by a ?user= link.
  /\ view \in [filter : {"all"}, page : {1, 2}, open : {None}, tab : {"details"}]
              \cup [filter : {"all"}, page : {1}, open : {Peer}, tab : {"details"}]
  /\ tables = [k \in Keys |-> NoPage] /\ tablesDue = Keys
  /\ details = [u \in People |-> [user |-> people[u], at |-> 0, known |-> FALSE]]
  /\ detailsDue = People
  /\ history = [u \in People |-> 0] /\ historyDue = People
  /\ confirms = {}
  /\ edits = <<>> /\ sent = 0
  /\ told = [u \in People |-> 0]
  /\ gestures = 0 /\ losses = 0

Gesture == gestures < MaxGestures /\ gestures' = gestures + 1
Loss == losses < MaxLosses /\ losses' = losses + 1

-----------------------------------------------------------------------------
(* What the page shows *)

Key(v) == <<v.filter, v.page>>
Table == tables[Key(view)]
RowsShown == DOMAIN Table.rows
TotalPages == IF Table.total = 0 THEN 1 ELSE (Table.total + PageSize - 1) \div PageSize

\* The panel, once the open User's quotas are there.
PanelShown == view.open # None /\ details[view.open].known
OnDetails == PanelShown /\ view.tab = "details"

\* A row's Block button is within reach while the modal panel is closed.
Places(u) == (IF view.open = None /\ u \in RowsShown THEN {"row"} ELSE {})
             \cup (IF OnDetails /\ view.open = u THEN {"panel"} ELSE {})
ShownUser(u, place) == IF place = "row" THEN Table.rows[u] ELSE details[u].user

IsSelf(u) == loaded /\ u = Me

Pending(u, field, place) ==
  \E n \in DOMAIN edits : edits[n].own /\ edits[n].tracked /\ edits[n].of = u
                          /\ edits[n].field = field /\ edits[n].place = place

-----------------------------------------------------------------------------
(* Moving about *)

SessionLoads ==
  /\ ~loaded /\ loaded' = TRUE
  /\ UNCHANGED <<database, view, caches, confirms, edits, sent, told, gestures, losses>>

\* What was open of a component that is no longer there is dropped, and the answer it
\* waits for closes nothing.
Mounted(v, t, c) ==
  IF c.place = "row" THEN c.of \in DOMAIN t[Key(v)].rows
                     ELSE v.open = c.of /\ v.tab = "details"
Keep(v, t) ==
  /\ confirms' = {c \in confirms : Mounted(v, t, c)}
  /\ edits' = [n \in DOMAIN edits |->
                 [edits[n] EXCEPT !.tracked = edits[n].tracked /\ Mounted(v, t, edits[n])]]

\* updateState, openUser, closeUser: a key's rows, and a User's quotas, are fetched again
\* when they are older than staleTime.
Goes(v) ==
  /\ Gesture
  /\ view' = v
  /\ Keep(v, tables)
  /\ tablesDue' \in {tablesDue, tablesDue \cup {Key(v)}}
  /\ UNCHANGED <<database, loaded, tables, details, detailsDue, history, historyDue, sent, told, losses>>

SetFilter(f) ==
  view.open = None /\ f # view.filter /\ Goes([view EXCEPT !.filter = f, !.page = 1])
\* The pager is there when the page has rows.
GoToPage(p) ==
  /\ view.open = None /\ RowsShown # {}
  /\ \/ p = view.page - 1
     \/ p = view.page + 1 /\ view.page < TotalPages
  /\ p \in Pages
  /\ Goes([view EXCEPT !.page = p])
OpenUser(u) ==
  view.open = None /\ u \in RowsShown /\ Goes([view EXCEPT !.open = u, !.tab = "details"])
CloseUser == view.open # None /\ Goes([view EXCEPT !.open = None, !.tab = "details"])
SetTab(tab) == PanelShown /\ tab # view.tab /\ Goes([view EXCEPT !.tab = tab])

TableFetched ==
  LET k == Key(view)
      fetched == [tables EXCEPT ![k] = Page(k)] IN
  /\ k \in tablesDue
  /\ tables' = fetched /\ tablesDue' = tablesDue \ {k}
  /\ Keep(view, fetched)
  /\ UNCHANGED <<database, loaded, view, details, detailsDue, history, historyDue, sent, told,
                 gestures, losses>>

DetailFetched ==
  /\ view.open # None /\ view.open \in detailsDue
  /\ details' = [details EXCEPT ![view.open] = Detail(view.open)]
  /\ detailsDue' = detailsDue \ {view.open}
  /\ UNCHANGED <<database, loaded, view, tables, tablesDue, history, historyDue, confirms, edits,
                 sent, told, gestures, losses>>

\* No mutation invalidates it.
HistoryFetched ==
  /\ PanelShown /\ view.tab = "history" /\ view.open \in historyDue
  /\ history' = [history EXCEPT ![view.open] = Len(audit)]
  /\ historyDue' = historyDue \ {view.open}
  /\ UNCHANGED <<database, loaded, view, tables, tablesDue, details, detailsDue, confirms, edits,
                 sent, told, gestures, losses>>

-----------------------------------------------------------------------------
(* Editing *)

Confirming(cs) ==
  /\ Gesture
  /\ confirms' = cs
  /\ UNCHANGED <<database, loaded, view, caches, edits, sent, told, losses>>

Opposite(blocked) == IF blocked = "yes" THEN "no" ELSE "yes"

\* BlockUnblockAction, of a row or of the panel.
AskBlock(u, place) ==
  /\ "blocked" \in Fields /\ place \in Places(u) /\ ~IsSelf(u)
  /\ \A c \in confirms : ~(c.of = u /\ c.place = place /\ c.field = "blocked")
  /\ Confirming(confirms \cup {[of |-> u, place |-> place, field |-> "blocked",
                                to |-> Opposite(ShownUser(u, place).blocked)]})
\* RoleEditor.
PickRole(to) ==
  /\ "role" \in Fields /\ OnDetails /\ ~IsSelf(view.open) /\ to # details[view.open].user.role
  /\ \A c \in confirms : ~(c.of = view.open /\ c.field = "role")
  /\ Confirming(confirms \cup {[of |-> view.open, place |-> "panel", field |-> "role", to |-> to]})
Cancel(c) == c.place \in Places(c.of) /\ ~Pending(c.of, c.field, c.place) /\ Confirming(confirms \ {c})

Request(u, field, to, place, own) ==
  /\ sent < MaxEdits /\ sent' = sent + 1
  /\ edits' = Append(edits, [of |-> u, field |-> field, to |-> to, place |-> place, own |-> own,
                             tracked |-> own, stage |-> "sent", old |-> "unread", start |-> 0,
                             row |-> None, ok |-> FALSE])
  /\ UNCHANGED <<database, loaded, view, caches, confirms, told, gestures, losses>>

\* The value is the opposite of what is shown now, not of what was asked about.
Confirm(c) ==
  /\ c.place \in Places(c.of) /\ ~Pending(c.of, c.field, c.place)
  /\ Request(c.of, c.field,
             IF c.field = "blocked" THEN Opposite(ShownUser(c.of, c.place).blocked) ELSE c.to,
             c.place, TRUE)

\* NameEditor, PlanEditor and OverrideEditor send what was typed or chosen.
Submit(field, to) ==
  /\ field \in Fields /\ OnDetails /\ ~Pending(view.open, field, "panel")
  /\ Request(view.open, field, to, "panel", TRUE)
EditName(to) == Submit("name", to)
EditPlan(to) == Submit("plan", to)
\* "Clear" is offered when the User has an override.
EditLimit(to) ==
  /\ OnDetails
  /\ to = "none" => details[view.open].user.limit # None
  /\ Submit("limit", to)

\* The other Administrator: its JWT keeps saying so, whatever became of its Role.
PeerSends(u, field, to) == Request(u, field, to, "row", FALSE)

-----------------------------------------------------------------------------
(* The endpoints that write *)

\* set_user_blocked and set_user_role refuse their own caller.
Actor(e) == IF e.own THEN Me ELSE Peer
Self(e) == /\ e.of = Actor(e)
           /\ e.field = "blocked" \/ (e.field = "role" /\ e.to # "ADMINISTRATOR")

Current(u, field) ==
  CASE field = "plan" -> Plan(u)
    [] field = "limit" -> IF people[u].limit = None THEN "none" ELSE "low"
    [] OTHER -> people[u][field]

\* What the other Administrator is answered is not followed.
Served(n, ok) ==
  edits' = IF edits[n].own THEN [edits EXCEPT ![n].stage = "answering", ![n].ok = ok]
           ELSE RemoveAt(edits, n)

Read(n) ==
  /\ edits[n].stage = "sent"
  /\ IF Self(edits[n]) THEN Served(n, FALSE) /\ UNCHANGED starts
     ELSE /\ starts' = starts + 1
          /\ edits' = [edits EXCEPT ![n].stage = "read", ![n].start = starts + 1,
                                    ![n].old = Current(edits[n].of, edits[n].field),
                                    ![n].row = people[edits[n].of].limit]
  /\ UNCHANGED <<people, subs, audit, loaded, view, caches, confirms, sent, told, gestures, losses>>

\* A value that is there already is not written; an override that is set is, every time.
Unchanged(e) == e.to = e.old /\ ~(e.field = "limit" /\ e.to = "low")

\* An override inserted beside another, or one that is gone and updated, fails the flush;
\* the delete of one that is gone only warns.
Conflict(e) == e.field = "limit" /\ e.to = "low" /\ people[e.of].limit # e.row
OverrideAfter(e) ==
  CASE e.to = "low" -> IF e.row = None THEN e.start ELSE e.row
    [] people[e.of].limit = e.row -> None
    [] OTHER -> people[e.of].limit

\* set_user_plan ends the Subscription it read and inserts another.
Ended(e) == {s \in subs[e.of] : s.plan = e.old}
Written(e) ==
  IF e.field = "plan"
  THEN /\ subs' = [subs EXCEPT ![e.of] = (@ \ Ended(e)) \cup {[plan |-> e.to, start |-> e.start]}]
       /\ UNCHANGED people
  ELSE /\ people' = [people EXCEPT ![e.of][e.field] = IF e.field = "limit" THEN OverrideAfter(e) ELSE e.to]
       /\ UNCHANGED subs

\* Mutant: unblocking is not recorded.
AuditedButUnblock(e) ==
  audit' = IF e.to = "no" THEN audit
           ELSE Append(audit, [of |-> e.of, by |-> Actor(e), field |-> e.field, old |-> e.old,
                               to |-> e.to, start |-> e.start])

\* record_admin_audit_event: in the commit of the change.
Audited(e) ==
  audit' = Append(audit, [of |-> e.of, by |-> Actor(e), field |-> e.field, old |-> e.old, to |-> e.to,
                          start |-> e.start])

Write(n) ==
  LET e == edits[n] IN
  /\ e.stage = "read"
  /\ IF Unchanged(e) \/ Conflict(e)
     THEN UNCHANGED <<people, subs, audit>>
     ELSE Written(e) /\ Audited(e)
  /\ Served(n, ~Conflict(e))
  /\ UNCHANGED <<starts, loaded, view, caches, confirms, sent, told, gestures, losses>>

-----------------------------------------------------------------------------
(* Answers *)

\* Mutant: the table is left to its staleTime.
InvalidatedDetail(e) == detailsDue' = detailsDue \cup {e.of} /\ UNCHANGED tablesDue

\* The hooks' onSuccess; an override leaves the table alone.
Invalidated(e) ==
  /\ detailsDue' = detailsDue \cup {e.of}
  /\ tablesDue' = IF e.field = "limit" THEN tablesDue ELSE Keys

Answered(n) ==
  LET e == edits[n] IN
  /\ e.stage = "answering"
  /\ edits' = RemoveAt(edits, n)
  /\ IF e.ok
     THEN /\ Invalidated(e)
          /\ confirms' = {c \in confirms : ~(e.tracked /\ c.of = e.of /\ c.place = e.place /\ c.field = e.field)}
          /\ told' = IF e.field = "limit" THEN told ELSE [told EXCEPT ![e.of] = Len(audit)]
     ELSE UNCHANGED <<detailsDue, tablesDue, confirms, told>>
  /\ UNCHANGED <<database, loaded, view, tables, details, history, historyDue, sent, gestures, losses>>

Lost(n) ==
  /\ edits[n].stage \in {"sent", "answering"} /\ Loss
  /\ edits' = RemoveAt(edits, n)
  /\ UNCHANGED <<database, loaded, view, caches, confirms, sent, told, gestures>>

-----------------------------------------------------------------------------

Next ==
  \/ SessionLoads \/ CloseUser \/ TableFetched \/ DetailFetched \/ HistoryFetched
  \/ \E f \in Filters : SetFilter(f)
  \/ \E p \in Pages : GoToPage(p)
  \/ \E tab \in {"details", "history"} : SetTab(tab)
  \/ \E to \in Values.role : PickRole(to)
  \/ \E c \in confirms : Cancel(c) \/ Confirm(c)
  \/ \E u \in People : OpenUser(u) \/ \E place \in {"row", "panel"} : AskBlock(u, place)
  \/ \E to \in Values.name : EditName(to)
  \/ \E to \in Values.plan : EditPlan(to)
  \/ \E to \in Values.limit : EditLimit(to)
  \/ \E u \in People, field \in PeerFields : \E to \in Values[field] : PeerSends(u, field, to)
  \/ \E n \in DOMAIN edits : Read(n) \/ Write(n) \/ Answered(n) \/ Lost(n)

Spec == Init /\ [][Next]_vars

-----------------------------------------------------------------------------
(* Properties *)

TypeOK ==
  /\ \A u \in People : people[u].limit \in Marks /\ \A f \in Columns : people[u][f] \in Values[f]
  /\ \A u \in People : subs[u] # {} /\ subs[u] \subseteq [plan : Values.plan, start : Marks]
  /\ Len(audit) <= MaxEdits /\ starts \in Marks /\ loaded \in BOOLEAN
  /\ view \in [filter : Filters, page : Pages, open : {None} \cup People, tab : {"details", "history"}]
  /\ tablesDue \subseteq Keys /\ detailsDue \subseteq People /\ historyDue \subseteq People
  /\ \A k \in Keys : DOMAIN tables[k].rows \subseteq People /\ tables[k].total \in 0..MaxPeople
  /\ history \in [People -> Marks] /\ told \in [People -> Marks]
  /\ sent \in Marks /\ Len(edits) <= sent
  /\ gestures \in 0..MaxGestures /\ losses \in 0..MaxLosses

\* Whatever two Administrators write over each other, the audit tells the state: the event
\* committed last of a column holds the value the User has.
AuditTellsState ==
  \A u \in People : \A f \in Columns :
    EventsOf(u, f) # {} => audit[Max(EventsOf(u, f))].to = people[u][f]

\* The table and the panel agree on a User this tab edited: with nothing left to fetch for
\* the one or the other, each is no older than the edit it was last told of.
RowsAndPanelAgree ==
  /\ Key(view) \notin tablesDue => \A u \in RowsShown : Table.at >= told[u]
  /\ PanelShown /\ view.open \notin detailsDue => details[view.open].at >= told[view.open]

\* admin.py: an Administrator "can never block themselves", nor give up the Role, whatever
\* the page offers before it knows whose session it is.
SelfKept ==
  \A e \in DOMAIN audit :
    audit[e].by = audit[e].of => audit[e].field # "blocked" /\ audit[e].to # "EXTERNAL"

-----------------------------------------------------------------------------
(* What the code says and does not hold *)

\* admin.py: "newest first".  The events are ordered by the start of their transactions:
\* of two that overlap, the one shown first may not be the one that was written last.
HistoryTellsState ==
  \A u \in People : \A f \in Columns :
    EventsOf(u, f) # {} => audit[NewestShown(u, f)].to = people[u][f]

\* An override is deleted by the id that was read: the delete of one that was replaced
\* meanwhile is audited and does nothing.  It takes four edits.
OverrideAudited ==
  \A u \in People :
    EventsOf(u, "limit") # {} => audit[Max(EventsOf(u, "limit"))].to = Current(u, "limit")

\* An event's old value is the value that the change replaced.
AuditChains ==
  [][\A e \in DOMAIN audit' \ DOMAIN audit :
       audit'[e].old = Current(audit'[e].of, audit'[e].field)]_vars

\* admin.py: "ending whichever one they currently hold so a User is never on two Plans at
\* once".  Two assignments read the same Subscription.
OnePlan == \A u \in People : Cardinality(subs[u]) = 1

\* Nobody is left to administer: each demotes the other.
AdministratorRemains == \E u \in People : people[u].role = "ADMINISTRATOR" /\ people[u].blocked = "no"

\* A page past the last one, reached by a link or when its rows are gone, has no pager.
PageHasPager == Table.known /\ Table.total > 0 => RowsShown # {}

\* The confirmation does what it asked when it was opened.
ConfirmDoesAsAsked ==
  [][\A c \in confirms : Confirm(c) => edits'[Len(edits')].to = c.to]_vars

\* The audit history of the panel knows the edits this tab was told of.
HistoryKnowsOwn ==
  PanelShown /\ view.tab = "history" /\ view.open \notin historyDue => history[view.open] >= told[view.open]

=============================================================================
