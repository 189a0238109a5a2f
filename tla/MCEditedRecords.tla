--------------------------- MODULE MCEditedRecords ---------------------------
(* One instance of four parts that share no state and in which a record        *)
(* changes behind a page that shows it: the CV library, the Administrators'    *)
(* Users page, their LLM providers, and the session.  A behaviour is of one of *)
(* them, chosen at the start.                                                  *)
EXTENDS CvLibrary

CONSTANTS
  Me, Peer, MaxPeople, Fields, PeerFields, Filters, PageSize, MaxEdits, MaxGestures, MaxLosses,
  Providers, KeysAtFirst, ActiveAtFirst, Keyed, InEnvironment, Environment, Texts, MaxRequests, MaxChanges, MaxMoves

VARIABLES
  part, \* the part this behaviour is of
  \* the Users page's
  people, subs, audit, starts, loaded, view, tables, tablesDue, details, detailsDue, history,
  historyDue, confirms, edits, uSent, told, gestures, losses,
  \* the LLM providers'
  exists, active, stored, pAudit, pList, pListDue, form, activation, deactivation, pRequests, pSent,
  pTold, pGestures, pLosses,
  \* the session's
  account, cookie, token, page, callback, requests, leaving, signOuts, wanted, changes, moves

Users == INSTANCE AdminUsers WITH sent <- uSent
Llm == INSTANCE LlmProviders
  WITH None <- Environment, audit <- pAudit, list <- pList, listDue <- pListDue,
       requests <- pRequests, sent <- pSent, told <- pTold, gestures <- pGestures, losses <- pLosses
Session == INSTANCE WebSession

ASSUME PartsAssumption ==
  Users!UsersAssumption /\ Llm!ProvidersAssumption /\ Session!SessionAssumption

users == <<people, subs, audit, starts, loaded, view, tables, tablesDue, details, detailsDue, history,
           historyDue, confirms, edits, uSent, told, gestures, losses>>
llm == <<exists, active, stored, pAudit, pList, pListDue, form, activation, deactivation, pRequests,
         pSent, pTold, pGestures, pLosses>>
session == <<account, cookie, token, page, callback, requests, leaving, signOuts, wanted, changes,
             moves>>
parts == <<part, vars, users, llm, session>>

InitParts ==
  /\ part \in {"library", "users", "providers", "session"}
  /\ Init /\ Users!Init /\ Llm!Init /\ Session!Init
  \* The other parts have one initial state.
  /\ part # "library" => place = "list" /\ panel.cv = 1
  /\ part # "users" => view.page = 1 /\ view.open = None
  /\ part # "providers" => active = {}
  /\ part # "session" => account.role = "EXTERNAL"

OfLibrary == part = "library" /\ UNCHANGED <<part, users, llm, session>>
OfUsers == part = "users" /\ UNCHANGED <<part, vars, llm, session>>
OfProviders == part = "providers" /\ UNCHANGED <<part, vars, users, session>>
OfSession == part = "session" /\ UNCHANGED <<part, vars, users, llm>>

NextParts ==
  \/ OfLibrary /\ Next
  \/ OfUsers /\ Users!Next
  \/ OfProviders /\ Llm!Next
  \/ OfSession /\ Session!Next

SpecParts == InitParts /\ [][NextParts]_parts

\* The audit tells what two Administrators wrote.
AuditTellsState == Users!AuditTellsState

\* The Users table and the User panel agree on what this tab edited.
RowsAndPanelAgree == Users!RowsAndPanelAgree

\* One LLM provider is active at most.
OneActive == Llm!OneActive

\* The activation failure on screen is of the last choice made.
FailureIsOfLast == Llm!FailureIsOfLast

\* The LLM providers' table settles on what is active.
TableSettles == Llm!TableSettles

\* Signing in comes back to a page the visitor was on or asked for.
ReturnsWhereAsked == Session!ReturnsWhereAsked
=============================================================================
