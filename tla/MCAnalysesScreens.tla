------------------------- MODULE MCAnalysesScreens -------------------------
(* One instance of three parts that share no state: the Applications page, the *)
(* Analyses page's table, and its documents.  A behaviour is of one of them,   *)
(* chosen at the start.                                                        *)
EXTENDS MCApplicationTracking

CONSTANTS Initial, MaxAnalyses, PostedAt, CvLabel, PanelAnalyses, Types, Quota, MaxDocs, MaxRuns

VARIABLES
  part, \* the part this behaviour is of
  \* the table's
  row, tList, tStale, tUrl, tSelected, bulk, tBulkError, tShown, tAnchor, panel, tRelaunch,
  slate, unheard, tClicks, tLosses,
  \* the panel's
  docs, pList, pStale, pShown, existing, due, slot, create, regenerate, seen, confirming, runs,
  watched, pRelaunch, late, again, pUntold, pClicks, pLosses

\* A tie, a missing date and two CVs.
MCPostedAt == <<2, 0, 2, 1>>
MCCvLabel == <<"dev", "dev", "lead", "lead">>

Table == INSTANCE AnalysesTable
  WITH list <- tList, stale <- tStale, url <- tUrl, selected <- tSelected,
       bulkError <- tBulkError, shown <- tShown, anchor <- tAnchor, relaunch <- tRelaunch,
       clicks <- tClicks, losses <- tLosses

Panel == INSTANCE AnalysisPanel
  WITH Analyses <- PanelAnalyses,
       list <- pList, stale <- pStale, shown <- pShown, relaunch <- pRelaunch,
       untold <- pUntold, clicks <- pClicks, losses <- pLosses

ASSUME PartsAssumption == Table!TableAssumption /\ Panel!PanelAssumption

table == <<row, tList, tStale, tUrl, tSelected, bulk, tBulkError, tShown, tAnchor, panel,
           tRelaunch, slate, unheard, tClicks, tLosses>>
documents == <<docs, pList, pStale, pShown, existing, due, slot, create, regenerate, seen,
               confirming, runs, watched, pRelaunch, late, again, pUntold, pClicks, pLosses>>
parts == <<part, vars, table, documents>>

InitParts ==
  /\ part \in {"tracking", "table", "documents"}
  /\ Init /\ Table!Init /\ Panel!Init
  \* The other parts have one initial state.
  /\ part # "table" => \A a \in 1..Initial : row[a].status = "COMPLETED"

OfTracking == part = "tracking" /\ UNCHANGED <<part, table, documents>>
OfTable == part = "table" /\ UNCHANGED <<part, vars, documents>>
OfDocuments == part = "documents" /\ UNCHANGED <<part, vars, table>>

NextParts ==
  \/ OfTracking /\ Next
  \/ OfTable /\ Table!Next
  \/ OfDocuments /\ Panel!Next

\* The condition of Panel!FairSpec.
SpecParts ==
  /\ InitParts /\ [][NextParts]_parts
  /\ \A i \in 1..MaxDocs : WF_documents(OfDocuments /\ i \in DOMAIN docs /\ Panel!Polled(i))

\* What the Applications page, and the Analyses table, were told of is on screen.
CachesCatchUp == ListCatchesUp /\ Table!ListCatchesUp

\* After an arrow of the Quick view, its Analysis is on the page behind it.
StepShowsItsRow == Table!StepShowsItsRow

\* Next skips no Analysis when the panel's own change took its row away.
SuivantSkipsNothing == Table!SuivantSkipsNothing

\* The document columns know the documents this page asked for.
ListKnowsDocuments == Panel!ListKnowsDocuments

\* The end of a document is shown on its card.
EndIsShown == Panel!EndIsShown
=============================================================================
