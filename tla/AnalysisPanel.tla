--------------------------- MODULE AnalysisPanel ---------------------------
(***************************************************************************)
(* Asking for the documents of completed Analyses, from the two places of  *)
(* the Analyses page that can: the Quick view's panel                      *)
(* (components/generated-documents-panel.tsx), one slot per type, and the  *)
(* bulk bar (app/(app)/analyses/page.tsx), one run per type over the       *)
(* selection, next to the bulk relaunch.  The endpoints are those of       *)
(* services/api/src/api/v1.py.                                             *)
(***************************************************************************)
EXTENDS Naturals, Sequences, FiniteSets, FiniteSetsExt

CONSTANTS
  Analyses, \* COMPLETED ones, all of them selected
  Types,    \* GeneratedDocumentType
  Quota,    \* DOCUMENTS_DAILY: from this many rows on the endpoints may refuse
  MaxDocs,  \* rows
  MaxRuns,  \* bulk runs
  MaxClicks,\* what the candidate does in one visit
  MaxLosses \* requests that fail or whose answer is lost

PanelAssumption ==
  /\ MaxDocs \in Nat /\ Quota \in 0..MaxDocs /\ MaxRuns \in Nat /\ MaxClicks \in Nat /\ MaxLosses \in Nat
  /\ Analyses # {} /\ IsFiniteSet(Analyses) /\ "nothing" \notin Analyses
  /\ Types # {} /\ "nothing" \notin Types /\ "relaunch" \notin Types

VARIABLES
  docs,       \* the GeneratedDocument rows, in the order they were created
  list,       \* [Analyses -> [Types -> tailoredCvStatus, coverLetterStatus of the cached row]]
  stale,      \* the list of Analyses is being fetched again
  shown,      \* the Analysis in the Quick view
  existing,   \* [Analyses -> [Types -> what its cached generated-documents list finds]]
  due,        \* Analyses whose cached list is fetched when a panel shows them
  slot,       \* idByType
  create,     \* [Types -> the Analysis the slot's create request is for]
  regenerate, \* [Types -> the document the slot's regenerate request is for]
  seen,       \* the documents a poll has shown ended
  confirming, \* the confirm step that is open in the bulk bar
  runs,       \* the bulk runs sent, the last one being the one the page listens to
  watched,    \* bulkGenerationDocumentIds
  relaunch,   \* the bulk relaunch under way
  late,       \* [Analyses -> [Types -> create requests nobody listens to any more]]
  again,      \* [Ids -> regenerate requests for it nobody listens to any more]
  untold,     \* documents created without the table being told
  clicks,
  losses

vars == <<docs, list, stale, shown, existing, due, slot, create, regenerate, seen, confirming,
          runs, watched, relaunch, late, again, untold, clicks, losses>>

Nothing == "nothing"
NoDoc == 0
Ids == 1..MaxDocs
Status == {"PENDING", "READY", "FAILED"}
Ended == {"READY", "FAILED"}
\* All that matters of a status in the table: a FAILED document may be asked for again.
Summary == {Nothing, "FAILED", "made"}
Doc == [of : Analyses, type : Types, status : Status, by : Ids \cup {NoDoc}]
Run == [type : Types, targets : SUBSET Analyses, open : BOOLEAN]

-----------------------------------------------------------------------------
(* The endpoints *)

\* The rows list_generated_documents and the Analyses list read.
Current(a, t) == {i \in DOMAIN docs : docs[i].of = a /\ docs[i].type = t /\ docs[i].by = NoDoc}

\* list_generated_documents orders by createdAt, and the panel's find takes the first.
FoundFirst(a, t) == IF Current(a, t) = {} THEN NoDoc ELSE Min(Current(a, t))

\* Mutant: a document counts once it has ended.
SummariesOfEnded ==
  LET Over(a, t) == {i \in Current(a, t) : docs[i].status \in Ended} IN
  {s \in [Analyses -> [Types -> Summary]] :
     \A a \in Analyses, t \in Types :
       IF Over(a, t) = {} THEN s[a][t] = Nothing
       ELSE \E i \in Over(a, t) : s[a][t] = IF docs[i].status = "FAILED" THEN "FAILED" ELSE "made"}

\* _current_generated_document takes any: the relationship has no order.
Summaries ==
  {s \in [Analyses -> [Types -> Summary]] :
     \A a \in Analyses, t \in Types :
       IF Current(a, t) = {} THEN s[a][t] = Nothing
       ELSE \E i \in Current(a, t) :
              s[a][t] = IF docs[i].status = "FAILED" THEN "FAILED" ELSE "made"}

NewDoc(a, t) == [of |-> a, type |-> t, status |-> "PENDING", by |-> NoDoc]

\* create_generated_documents: the quota is its one refusal.  It is counted before the
\* row is made, and a day is all it counts: past it a request that was counted together
\* with another, or on the next day, still makes its row.
CanCreate == Len(docs) < MaxDocs
AtQuota == Len(docs) >= Quota

\* regenerate_generated_document: 409 while it runs; a row superseded already is
\* superseded again.
CanRegenerate(i) == CanCreate /\ docs[i].status \in Ended
RefusesRegenerate(i) == AtQuota \/ docs[i].status \notin Ended
Regenerated(i) ==
  Append([docs EXCEPT ![i].by = Len(docs) + 1], NewDoc(docs[i].of, docs[i].type))

-----------------------------------------------------------------------------
(* What is shown *)

\* activeId: this session's row, else what the cached list finds.
Active(t) ==
  IF shown = Nothing THEN NoDoc
  ELSE IF slot[t] # NoDoc THEN slot[t]
  ELSE existing[shown][t]

\* The card of a type: a "Generate" button, also while the list is loading, a
\* spinner, or a document that has ended.
Card(t) ==
  CASE Active(t) = NoDoc -> "generate"
    [] Active(t) \in seen -> "ended"
    [] OTHER -> "pending"

\* needsGeneratedDocument, over the selection.
Targets(t) == {a \in Analyses : list[a][t] \in {Nothing, "FAILED"}}

\* One mutation serves both buttons: the last run sent is the one in flight.
Listening == runs # <<>> /\ runs[Len(runs)].open
InFlight(t) == Listening /\ runs[Len(runs)].type = t

-----------------------------------------------------------------------------

NoSlots == [t \in Types |-> NoDoc]
NoCreates == [t \in Types |-> Nothing]

Init ==
  /\ docs = <<>>
  /\ list = [a \in Analyses |-> [t \in Types |-> Nothing]]
  /\ stale = FALSE
  /\ shown = Nothing
  /\ existing = [a \in Analyses |-> NoSlots]
  /\ due = Analyses
  /\ slot = NoSlots
  /\ create = NoCreates
  /\ regenerate = NoSlots
  /\ seen = {}
  /\ confirming = Nothing
  /\ runs = <<>>
  /\ watched = {}
  /\ relaunch = FALSE
  /\ late = [a \in Analyses |-> [t \in Types |-> 0]]
  /\ again = [i \in Ids |-> 0]
  /\ untold = {}
  /\ clicks = 0
  /\ losses = 0

table == <<list, stale, untold>>
panel == <<shown, existing, due, slot, create, regenerate>>
bulk == <<confirming, runs, watched, relaunch>>
left == <<late, again>>

Click == clicks < MaxClicks /\ clicks' = clicks + 1
Loss == losses < MaxLosses /\ losses' = losses + 1

-----------------------------------------------------------------------------
(* The Quick view *)

\* A list fetched less than 30 s ago is not fetched again.
Mounts(a) == \E old \in SUBSET {a} : due' = due \cup old

Open(a) ==
  /\ Click
  /\ shown = Nothing
  /\ shown' = a
  /\ Mounts(a)
  /\ UNCHANGED <<docs, existing, slot, create, regenerate, seen, bulk, left, table, losses>>

\* Previous and Next keep the panel mounted: its slots and requests stay.
Step(a) ==
  /\ Click
  /\ shown \notin {Nothing, a}
  /\ shown' = a
  /\ Mounts(a)
  /\ UNCHANGED <<docs, existing, slot, create, regenerate, seen, bulk, left, table, losses>>

\* Closing forgets them; a create request goes on, and so does a regenerate one.
Close ==
  /\ Click
  /\ shown # Nothing
  /\ shown' = Nothing
  /\ slot' = NoSlots
  /\ create' = NoCreates
  /\ regenerate' = NoSlots
  /\ late' = [a \in Analyses |-> [t \in Types |->
                late[a][t] + (IF create[t] = a THEN 1 ELSE 0)]]
  /\ again' = [i \in Ids |-> again[i] + Cardinality({t \in Types : regenerate[t] = i})]
  /\ UNCHANGED <<docs, existing, due, seen, bulk, table, losses>>

ExistingFetched ==
  /\ shown \in due
  /\ existing' = [existing EXCEPT ![shown] = [t \in Types |-> FoundFirst(shown, t)]]
  /\ due' = due \ {shown}
  /\ UNCHANGED <<docs, shown, slot, create, regenerate, seen, bulk, left, table, clicks, losses>>

Generate(t) ==
  /\ Click
  /\ shown # Nothing
  /\ Card(t) = "generate"
  /\ create[t] = Nothing
  /\ create' = [create EXCEPT ![t] = shown]
  /\ UNCHANGED <<docs, shown, existing, due, slot, regenerate, seen, bulk, left, table, losses>>

\* onIdChange: the other type's slot stays as it is.
ShowIn(t, i) == slot' = [slot EXCEPT ![t] = i]

CreateAnswered(t) ==
  /\ create[t] # Nothing
  /\ \/ /\ CanCreate
        /\ docs' = Append(docs, NewDoc(create[t], t))
        /\ ShowIn(t, Len(docs'))
        /\ untold' = untold \cup {Len(docs')}
     \/ AtQuota /\ UNCHANGED <<docs, slot, untold>>
  /\ create' = [create EXCEPT ![t] = Nothing]
  /\ UNCHANGED <<list, stale, shown, existing, due, regenerate, seen, bulk, left, clicks, losses>>

\* The row may be there all the same: the button comes back.
CreateFails(t) ==
  /\ create[t] # Nothing
  /\ Loss
  /\ \/ CanCreate /\ docs' = Append(docs, NewDoc(create[t], t))
        /\ untold' = untold \cup {Len(docs')}
     \/ UNCHANGED <<docs, untold>>
  /\ create' = [create EXCEPT ![t] = Nothing]
  /\ UNCHANGED <<list, stale, shown, existing, due, slot, regenerate, seen, bulk, left, clicks>>

LateServed(a, t) ==
  /\ late[a][t] > 0
  /\ late' = [late EXCEPT ![a][t] = @ - 1]
  /\ \/ /\ CanCreate
        /\ docs' = Append(docs, NewDoc(a, t)) /\ untold' = untold \cup {Len(docs')}
     \/ AtQuota /\ UNCHANGED <<docs, untold>>
  /\ UNCHANGED <<list, stale, panel, seen, bulk, again, clicks, losses>>

Regenerate(t) ==
  /\ Click
  /\ Card(t) = "ended"
  /\ regenerate[t] = NoDoc
  /\ regenerate' = [regenerate EXCEPT ![t] = Active(t)]
  /\ UNCHANGED <<docs, shown, existing, due, slot, create, seen, bulk, left, table, losses>>

RegenerateAnswered(t) ==
  /\ regenerate[t] # NoDoc
  /\ \/ /\ CanRegenerate(regenerate[t])
        /\ docs' = Regenerated(regenerate[t])
        /\ ShowIn(t, Len(docs'))
        /\ untold' = untold \cup {Len(docs')}
     \/ RefusesRegenerate(regenerate[t]) /\ UNCHANGED <<docs, slot, untold>>
  /\ regenerate' = [regenerate EXCEPT ![t] = NoDoc]
  /\ UNCHANGED <<list, stale, shown, existing, due, create, seen, bulk, left, clicks, losses>>

LateRegenerated(i) ==
  /\ again[i] > 0
  /\ again' = [again EXCEPT ![i] = @ - 1]
  /\ \/ /\ CanRegenerate(i)
        /\ docs' = Regenerated(i) /\ untold' = untold \cup {Len(docs')}
     \/ RefusesRegenerate(i) /\ UNCHANGED <<docs, untold>>
  /\ UNCHANGED <<list, stale, panel, seen, bulk, late, clicks, losses>>

-----------------------------------------------------------------------------
(* The bulk bar *)

\* One confirm step at a time: opening one closes the other.
Confirm(c) ==
  /\ Click
  /\ shown = Nothing
  /\ IF c \in Types THEN ~InFlight(c) ELSE ~relaunch
  /\ confirming # c
  /\ confirming' = c
  /\ UNCHANGED <<docs, panel, seen, runs, watched, relaunch, left, table, losses>>

Cancel ==
  /\ Click
  /\ shown = Nothing
  /\ confirming # Nothing
  /\ confirming' = Nothing
  /\ UNCHANGED <<docs, panel, seen, runs, watched, relaunch, left, table, losses>>

\* A new run takes the mutation over: the page stops listening to the one before.
BulkRun ==
  /\ Click
  /\ shown = Nothing
  /\ confirming \in Types
  /\ ~InFlight(confirming)
  /\ Targets(confirming) # {}
  /\ Len(runs) < MaxRuns
  /\ runs' = Append(runs, [type |-> confirming, targets |-> Targets(confirming), open |-> TRUE])
  /\ UNCHANGED <<docs, panel, seen, confirming, watched, relaunch, left, table, losses>>

\* Promise.allSettled: some of the requests may fail, or be refused.
BulkAnswered(n) ==
  /\ runs[n].open
  /\ \E made \in SUBSET runs[n].targets :
       /\ Len(docs) + Cardinality(made) <= MaxDocs
       /\ IF made = runs[n].targets \/ Len(docs) + Cardinality(made) >= Quota
          THEN UNCHANGED losses ELSE Loss
       /\ \E order \in [1..Cardinality(made) -> made] :
            /\ \A a \in made : \E k \in DOMAIN order : order[k] = a
            /\ docs' = docs \o [k \in DOMAIN order |-> NewDoc(order[k], runs[n].type)]
  /\ runs' = [runs EXCEPT ![n].open = FALSE]
  /\ LET new == DOMAIN docs' \ DOMAIN docs IN
       IF n = Len(runs)
       THEN /\ confirming' = IF confirming = runs[n].type THEN Nothing ELSE confirming
            /\ watched' = watched \cup new
            /\ stale' = TRUE
            /\ UNCHANGED untold
       ELSE untold' = untold \cup new /\ UNCHANGED <<confirming, watched, stale>>
  /\ UNCHANGED <<list, panel, seen, relaunch, left, clicks>>

\* Only the terminal rows of the selection, all of them here.
BulkRelaunch ==
  /\ Click
  /\ shown = Nothing
  /\ confirming = "relaunch"
  /\ ~relaunch
  /\ relaunch' = TRUE
  /\ UNCHANGED <<docs, panel, seen, confirming, runs, watched, left, table, losses>>

\* Closes its own confirm step, and no other.
BulkRelaunched ==
  /\ relaunch
  /\ relaunch' = FALSE
  /\ confirming' = IF confirming = "relaunch" THEN Nothing ELSE confirming
  /\ stale' = TRUE
  /\ UNCHANGED <<docs, panel, seen, runs, watched, left, list, untold, clicks, losses>>

-----------------------------------------------------------------------------
(* The list, the polls and the generation pipeline *)

Refetched ==
  /\ stale
  /\ list' \in Summaries
  /\ stale' = FALSE
  /\ untold' = {}
  /\ UNCHANGED <<docs, panel, seen, bulk, left, clicks, losses>>

\* Mutant: a failure is polled on.
PolledReady(i) ==
  /\ i \in watched \/ \E t \in Types : Active(t) = i
  /\ i \notin seen
  /\ docs[i].status = "READY"
  /\ seen' = seen \cup {i}
  /\ UNCHANGED <<docs, panel, bulk, left, table, clicks, losses>>

Polled(i) ==
  /\ i \in watched \/ \E t \in Types : Active(t) = i
  /\ i \notin seen
  /\ docs[i].status \in Ended
  /\ seen' = seen \cup {i}
  /\ UNCHANGED <<docs, panel, bulk, left, table, clicks, losses>>

\* External: a generation worker ends the document.
DocumentEnds(i) ==
  /\ docs[i].status = "PENDING"
  /\ \E end \in Ended : docs' = [docs EXCEPT ![i].status = end]
  /\ UNCHANGED <<panel, seen, bulk, left, table, clicks, losses>>

Next ==
  \/ \E a \in Analyses : Open(a) \/ Step(a)
  \/ \E a \in Analyses, t \in Types : LateServed(a, t)
  \/ \E i \in Ids : LateRegenerated(i)
  \/ Close \/ ExistingFetched
  \/ \E t \in Types : \/ Generate(t) \/ CreateAnswered(t) \/ CreateFails(t)
                      \/ Regenerate(t) \/ RegenerateAnswered(t)
  \/ \E c \in Types \cup {"relaunch"} : Confirm(c)
  \/ Cancel \/ BulkRun \/ BulkRelaunch \/ BulkRelaunched
  \/ \E n \in DOMAIN runs : BulkAnswered(n)
  \/ Refetched
  \/ \E i \in DOMAIN docs : Polled(i) \/ DocumentEnds(i)

Spec == Init /\ [][Next]_vars

\* A poll is a timer of the browser, and an answer comes or fails.
FairSpec == Spec /\ \A i \in Ids : WF_vars(i \in DOMAIN docs /\ Polled(i))

-----------------------------------------------------------------------------
(* Properties *)

TypeOK ==
  /\ docs \in Seq(Doc) /\ Len(docs) <= MaxDocs
  /\ list \in [Analyses -> [Types -> Summary]]
  /\ stale \in BOOLEAN
  /\ shown \in Analyses \cup {Nothing}
  /\ existing \in [Analyses -> [Types -> Ids \cup {NoDoc}]]
  /\ due \in SUBSET Analyses
  /\ slot \in [Types -> Ids \cup {NoDoc}]
  /\ create \in [Types -> Analyses \cup {Nothing}]
  /\ regenerate \in [Types -> Ids \cup {NoDoc}]
  /\ seen \in SUBSET Ids
  /\ confirming \in Types \cup {Nothing, "relaunch"}
  /\ runs \in Seq(Run) /\ Len(runs) <= MaxRuns
  /\ watched \in SUBSET Ids
  /\ relaunch \in BOOLEAN
  /\ late \in [Analyses -> [Types -> Nat]]
  /\ again \in [Ids -> Nat]
  /\ untold \in SUBSET Ids
  /\ clicks \in 0..MaxClicks
  /\ losses \in 0..MaxLosses

\* "Generating the tailored CV must not drop the cover letter this panel is
\* already showing": an answer for one type leaves the other slot's document.
OtherSlotKept ==
  [][\A t \in Types : CreateAnswered(t) \/ RegenerateAnswered(t) =>
       \A u \in Types \ {t} : Active(u)' = Active(u)]_vars

\* A confirm step the candidate has open for something else is not "snatched
\* away" by the answer of a run, nor by that of a relaunch.
ConfirmNotSnatched ==
  [][confirming # Nothing /\ confirming' = Nothing =>
       \/ Cancel
       \/ confirming = "relaunch" /\ relaunch
       \/ InFlight(confirming)]_vars

\* The rows' document columns catch up with what this page was told of, so that
\* a second click does not offer to pay for the rows just queued.
ListKnowsDocuments ==
  ~stale => \A a \in Analyses, t \in Types :
              list[a][t] = Nothing => Current(a, t) \subseteq untold

\* The card of a document that has ended shows that it has.
Behind(t) == Active(t) # NoDoc /\ docs[Active(t)].status \in Ended /\ Active(t) \notin seen
EndIsShown == []<>(\A t \in Types : ~Behind(t))

\* "The Analysis's current (non-superseded) GeneratedDocuments, at most one per type".
OnePerType == \A a \in Analyses, t \in Types : Cardinality(Current(a, t)) <= 1

\* The panel of an Analysis shows documents of that Analysis.
OwnDocument ==
  \A t \in Types : Active(t) # NoDoc => docs[Active(t)].of = shown

\* "The ids of every GeneratedDocument row the bar's runs have created".
EveryRunIsWatched ==
  [][\A n \in DOMAIN runs : BulkAnswered(n) => DOMAIN docs' \ DOMAIN docs \subseteq watched']_vars
============================================================================
