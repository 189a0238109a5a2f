------------------------ MODULE EditedRecordsProofs ------------------------
(***************************************************************************)
(* Proofs about MCEditedRecords, of the three parts that are instances in   *)
(* it: the LLM providers, the Users page and the session.                   *)
(*                                                                         *)
(* What LlmProvidersProofs establishes holds of the instance TLC runs,      *)
(* whatever the other parts' constants are.  An instance of a module is not *)
(* its other instance to the provers, so the two are first shown to be the  *)
(* same: Theorems' is Llm's.  The other two are proved about where they are.*)
(***************************************************************************)
EXTENDS MCEditedRecords, SequenceTheorems, TLAPS

Theorems == INSTANCE LlmProvidersProofs
  WITH None <- Environment, audit <- pAudit, list <- pList, listDue <- pListDue,
       requests <- pRequests, sent <- pSent, told <- pTold, gestures <- pGestures, losses <- pLosses

-----------------------------------------------------------------------------
(* Two instances of LlmProviders *)

\* They start alike.
LEMMA SameInit == Llm!Init => Theorems!Init
BY DEF
  Llm!Init, Theorems!Init, Llm!Parameters, Theorems!Parameters, Llm!Blank, Theorems!Blank,
  Llm!Absent, Theorems!Absent, Llm!NoRows, Theorems!NoRows, Llm!KeyRow, Theorems!KeyRow,
  Llm!NoForm, Theorems!NoForm, Llm!Text, Theorems!Text, Llm!Active, Theorems!Active,
  Llm!Listing, Theorems!Listing

\* A save writes the same rows and events.
LEMMA SameSaved == ASSUME NEW n, Llm!Saved(n) PROVE Theorems!Saved(n)
<1>1. \A r : Llm!Changed(r) = Theorems!Changed(r)
  BY DEF
    Llm!Changed, Theorems!Changed, Llm!Parameters, Theorems!Parameters, Llm!Blank,
    Theorems!Blank, Llm!Keep, Theorems!Keep, Llm!Absent, Theorems!Absent
<1>2. \A r, name : Llm!RowAfter(r, name) = Theorems!RowAfter(r, name)
  BY <1>1 DEF Llm!RowAfter, Theorems!RowAfter, Llm!Absent, Theorems!Absent, Llm!Blank, Theorems!Blank
<1>3. \A r : Llm!SaveConflict(r) <=> Theorems!SaveConflict(r)
  BY <1>1 DEF Llm!SaveConflict, Theorems!SaveConflict, Llm!Blank, Theorems!Blank
<1>4. \A ok : Llm!Served(n, ok) => Theorems!Served(n, ok)
  BY DEF Llm!Served, Theorems!Served, Llm!Without, Theorems!Without
<1>5. \A of, field, to : Llm!Event(of, field, to) = Theorems!Event(of, field, to)
  BY DEF Llm!Event, Theorems!Event
<1>10. \A S : Llm!SetToSeq(S) = Theorems!SetToSeq(S)
  BY DEF Llm!SetToSeq, Theorems!SetToSeq, Llm!IsInjective, Theorems!IsInjective,
         Llm!Cardinality, Theorems!Cardinality
<1> DEFINE r == pRequests[n]
<1>6. CASE Llm!Changed(r) = {}
  BY <1>1, <1>4, <1>6 DEF Llm!Saved, Theorems!Saved, Llm!settings, Theorems!settings
<1>7. CASE Llm!Changed(r) # {} /\ Llm!SaveConflict(r)
  BY <1>1, <1>3, <1>4, <1>7 DEF Llm!Saved, Theorems!Saved, Llm!settings, Theorems!settings
<1>8. CASE Llm!Changed(r) # {} /\ ~Llm!SaveConflict(r)
  <2>1. {Llm!Event(r.of, name, r.changes[name]) : name \in Llm!Changed(r)}
        = {Theorems!Event(r.of, name, r.changes[name]) : name \in Theorems!Changed(r)}
    BY <1>1, <1>5
  <2>2. [name \in Llm!Parameters |-> Llm!RowAfter(r, name)]
        = [name \in Theorems!Parameters |-> Theorems!RowAfter(r, name)]
    BY <1>2 DEF Llm!Parameters, Theorems!Parameters
  <2>3. Theorems!Changed(r) # {} /\ ~Theorems!SaveConflict(r)
    BY <1>1, <1>3, <1>8
  <2>4. /\ exists' = exists \cup {r.of}
        /\ stored' = [stored EXCEPT ![r.of] = [name \in Llm!Parameters |-> Llm!RowAfter(r, name)]]
        /\ pAudit' = pAudit \o Llm!SetToSeq({Llm!Event(r.of, name, r.changes[name]) : name \in Llm!Changed(r)})
        /\ UNCHANGED active
        /\ Llm!Served(n, TRUE)
    BY <1>8 DEF Llm!Saved
  <2> HIDE DEF r
  <2>5. /\ stored' = [stored EXCEPT ![r.of] = [name \in Theorems!Parameters |-> Theorems!RowAfter(r, name)]]
        /\ pAudit' = pAudit \o Theorems!SetToSeq({Theorems!Event(r.of, name, r.changes[name]) : name \in Theorems!Changed(r)})
        /\ Theorems!Served(n, TRUE)
    BY <1>4, <1>10, <2>1, <2>2, <2>4
  <2>6. QED
    BY <2>3, <2>4, <2>5, Zenon DEF Theorems!Saved, r
<1>9. QED
  BY <1>6, <1>7, <1>8

\* Every action of one is the action of the other.
LEMMA SameNext == [Llm!Next]_Llm!vars => [Theorems!Next]_Theorems!vars
<1> USE DEF
  Llm!Parameters, Theorems!Parameters, Llm!Blank, Theorems!Blank, Llm!Keep, Theorems!Keep,
  Llm!Absent, Theorems!Absent, Llm!NoRows, Theorems!NoRows, Llm!KeyRow, Theorems!KeyRow,
  Llm!NoForm, Theorems!NoForm, Llm!Unresolved, Theorems!Unresolved, Llm!Text, Theorems!Text,
  Llm!Active, Theorems!Active, Llm!Listing, Theorems!Listing, Llm!Gesture, Theorems!Gesture,
  Llm!Drafted, Theorems!Drafted, Llm!Changes, Theorems!Changes, Llm!NewRequest,
  Theorems!NewRequest, Llm!Request, Theorems!Request, Llm!NoChanges, Theorems!NoChanges,
  Llm!ChangingActive, Theorems!ChangingActive, Llm!Without, Theorems!Without, Llm!Served,
  Theorems!Served, Llm!KeyAfter, Theorems!KeyAfter, Llm!Refused, Theorems!Refused, Llm!Changed,
  Theorems!Changed, Llm!SaveConflict, Theorems!SaveConflict, Llm!RowAfter, Theorems!RowAfter,
  Llm!ActiveAfter, Theorems!ActiveAfter, Llm!ActiveConflict, Theorems!ActiveConflict,
  Llm!Event, Theorems!Event, Llm!Outcome, Theorems!Outcome, Llm!Refreshes, Theorems!Refreshes,
  Llm!PeerChanges, Theorems!PeerChanges, Llm!settings, Theorems!settings, Llm!radios,
  Theorems!radios
<1>1. Llm!ListFetched => Theorems!ListFetched
  BY DEF Llm!ListFetched, Theorems!ListFetched
<1>2. Llm!CloseForm => Theorems!CloseForm
  BY DEF Llm!CloseForm, Theorems!CloseForm
<1>3. Llm!ToggleCleared => Theorems!ToggleCleared
  BY DEF Llm!ToggleCleared, Theorems!ToggleCleared
<1>4. Llm!Save => Theorems!Save
  BY DEF Llm!Save, Theorems!Save
<1>5. Llm!SelectEnvironment => Theorems!SelectEnvironment
  BY DEF Llm!SelectEnvironment, Theorems!SelectEnvironment
<1>6. ASSUME NEW p PROVE Llm!OpenForm(p) => Theorems!OpenForm(p)
  BY DEF Llm!OpenForm, Theorems!OpenForm
<1>7. ASSUME NEW p PROVE Llm!SelectProvider(p) => Theorems!SelectProvider(p)
  BY DEF Llm!SelectProvider, Theorems!SelectProvider
<1>8. ASSUME NEW text PROVE Llm!TypeModel(text) => Theorems!TypeModel(text)
  BY DEF Llm!TypeModel, Theorems!TypeModel
<1>9. ASSUME NEW text PROVE Llm!TypeSecret(text) => Theorems!TypeSecret(text)
  BY DEF Llm!TypeSecret, Theorems!TypeSecret
<1>10. ASSUME NEW kind, NEW p, NEW entries PROVE Llm!PeerSends(kind, p, entries) => Theorems!PeerSends(kind, p, entries)
  BY DEF Llm!PeerSends, Theorems!PeerSends
<1>11. ASSUME NEW n, NEW ok PROVE Llm!Settled(n, ok) => Theorems!Settled(n, ok)
  BY DEF Llm!Settled, Theorems!Settled
<1>12. ASSUME NEW n PROVE Llm!Switched(n) => Theorems!Switched(n)
  BY DEF Llm!Switched, Theorems!Switched
<1>13. ASSUME NEW n PROVE Llm!Read(n) => Theorems!Read(n)
  BY DEF Llm!Read, Theorems!Read
<1>14. ASSUME NEW n PROVE Llm!Write(n) => Theorems!Write(n)
  BY SameSaved, <1>12 DEF Llm!Write, Theorems!Write
<1>15. ASSUME NEW n PROVE Llm!Answered(n) => Theorems!Answered(n)
  BY <1>11 DEF Llm!Answered, Theorems!Answered
<1>16. ASSUME NEW n PROVE Llm!Lost(n) => Theorems!Lost(n)
  BY <1>11 DEF Llm!Lost, Theorems!Lost
<1>17. QED
  BY <1>1, <1>2, <1>3, <1>4, <1>5, <1>6, <1>7, <1>8, <1>9, <1>10, <1>13, <1>14, <1>15, <1>16
  DEF Llm!Next, Theorems!Next, Llm!vars, Theorems!vars

-----------------------------------------------------------------------------
(* The providers' part of the instance *)

\* A behaviour of the instance is one of LlmProviders: another part's steps leave it alone.
LEMMA ProvidersPart == SpecParts => Theorems!Spec
<1>1. InitParts => Theorems!Init
  BY SameInit DEF InitParts
<1>2. [NextParts]_parts => [Llm!Next]_Llm!vars
  BY DEF NextParts, parts, OfLibrary, OfUsers, OfProviders, OfSession, llm, Llm!vars, Llm!settings,
         Llm!radios
<1>3. QED
  BY <1>1, <1>2, SameNext, PTL DEF SpecParts, Theorems!Spec

\* However the activations, deactivations and saves of two Administrators overlap, one provider
\* is active at most (set_active_provider and the partial unique index it relies on).
THEOREM OneProviderOfInstance == SpecParts => []OneActive
<1>1. Theorems!OneActive => OneActive
  BY DEF Theorems!OneActive, OneActive, Llm!OneActive
<1>2. QED
  BY <1>1, ProvidersPart, Theorems!OneProviderActive, PTL

\* The activation failure on screen is of the last choice made (selectProvider and
\* selectEnvironment drop the outcome of the other radio).
THEOREM FailureOfInstance == SpecParts => []FailureIsOfLast
<1>1. Theorems!FailureIsOfLast => FailureIsOfLast
  BY DEF Theorems!FailureIsOfLast, FailureIsOfLast, Llm!FailureIsOfLast
<1>2. QED
  BY <1>1, ProvidersPart, Theorems!FailureOfLastChoice, PTL

\* Once there is nothing to fetch, the table is no older than the last answer to a choice
\* (onSettled of useActivateLlmProvider and useDeactivateLlmProvider).
THEOREM TableOfInstance == SpecParts => []TableSettles
<1>1. Theorems!TableSettles => TableSettles
  BY DEF Theorems!TableSettles, TableSettles, Llm!TableSettles
<1>2. QED
  BY <1>1, ProvidersPart, Theorems!TableIsSettled, PTL

-----------------------------------------------------------------------------
(* The Users page's part *)


\* Another part's steps leave the Users page alone.
LEMMA UsersPart == [NextParts]_parts => [Users!Next]_(Users!vars)
BY DEF NextParts, parts, OfLibrary, OfUsers, OfProviders, OfSession, users, Users!vars,
       Users!database, Users!caches

\* What changes the Users and the audit is the one commit of a handler.
LEMMA WriteOnly ==
  [Users!Next]_(Users!vars) =>
    UNCHANGED <<people, audit>> \/ \E n \in DOMAIN edits : Users!Written(edits[n]) /\ Users!Audited(edits[n])
<1> USE DEF Users!database
<1>1. ASSUME NEW n \in DOMAIN edits, Users!Write(n)
      PROVE UNCHANGED <<people, audit>> \/ (Users!Written(edits[n]) /\ Users!Audited(edits[n]))
  BY <1>1 DEF Users!Write
<1>2. ASSUME NEW v, Users!Goes(v) PROVE UNCHANGED <<people, audit>>
  BY <1>2 DEF Users!Goes
<1>3. ASSUME NEW cs, Users!Confirming(cs) PROVE UNCHANGED <<people, audit>>
  BY <1>3 DEF Users!Confirming
<1>4. ASSUME NEW u, NEW field, NEW to, NEW spot, NEW own, Users!Request(u, field, to, spot, own)
      PROVE UNCHANGED <<people, audit>>
  BY <1>4 DEF Users!Request
<1>5. Users!SessionLoads => UNCHANGED <<people, audit>>
  BY DEF Users!SessionLoads
<1>6. Users!CloseUser => UNCHANGED <<people, audit>>
  BY <1>2 DEF Users!CloseUser
<1>7. Users!TableFetched => UNCHANGED <<people, audit>>
  BY DEF Users!TableFetched
<1>8. Users!DetailFetched \/ Users!HistoryFetched => UNCHANGED <<people, audit>>
  BY DEF Users!DetailFetched, Users!HistoryFetched
<1>9. ASSUME NEW a
      PROVE Users!SetFilter(a) \/ Users!GoToPage(a) \/ Users!SetTab(a) \/ Users!OpenUser(a)
            => UNCHANGED <<people, audit>>
  BY <1>2 DEF Users!SetFilter, Users!GoToPage, Users!SetTab, Users!OpenUser
<1>10. ASSUME NEW a, NEW b PROVE Users!PickRole(a) \/ Users!Cancel(a) \/ Users!AskBlock(a, b) => UNCHANGED <<people, audit>>
  BY <1>3 DEF Users!PickRole, Users!Cancel, Users!AskBlock
<1>11. ASSUME NEW a
       PROVE Users!Confirm(a) \/ Users!EditName(a) \/ Users!EditPlan(a) \/ Users!EditLimit(a)
               => UNCHANGED <<people, audit>>
  BY <1>4 DEF Users!Confirm, Users!EditName, Users!EditPlan, Users!EditLimit, Users!Submit
<1>12. ASSUME NEW a, NEW b, NEW c PROVE Users!PeerSends(a, b, c) => UNCHANGED <<people, audit>>
  BY <1>4 DEF Users!PeerSends
<1>13. ASSUME NEW n PROVE Users!Read(n) \/ Users!Answered(n) \/ Users!Lost(n) => UNCHANGED <<people, audit>>
  <2>1. Users!Read(n) => UNCHANGED <<people, audit>>
    BY DEF Users!Read
  <2>2. Users!Answered(n) => UNCHANGED <<people, audit>>
    BY DEF Users!Answered
  <2>3. Users!Lost(n) => UNCHANGED <<people, audit>>
    BY DEF Users!Lost
  <2>4. QED
    BY <2>1, <2>2, <2>3
<1>14. UNCHANGED Users!vars => UNCHANGED <<people, audit>>
  BY DEF Users!vars
<1>15. QED
  BY <1>1, <1>5, <1>6, <1>7, <1>8, <1>9, <1>10, <1>11, <1>12, <1>13, <1>14 DEF Users!Next

-----------------------------------------------------------------------------
(* The audit and the Users *)

\* The audit is a sequence, and every User has every column.
Recorded ==
  /\ \E A : audit \in Seq(A)
  /\ DOMAIN people = Users!People
  /\ \A u \in Users!People : DOMAIN people[u] = Users!Columns \cup {"limit"}

\* The last event there is of a column holds its value.  That there is a last one is kept with
\* it: of the events of a column, the newest is the one whose commit came last.
LastTells ==
  \A u \in Users!People : \A f \in Users!Columns :
    Users!EventsOf(u, f) # {} =>
      \E e \in Users!EventsOf(u, f) :
        (\A d \in Users!EventsOf(u, f) : d <= e) /\ audit[e].to = people[u][f]

AuditInv == Recorded /\ LastTells

\* An event appended is the last one.
LEMMA EventAppended ==
  ASSUME NEW A, NEW s \in Seq(A), NEW x
  PROVE /\ \E B : Append(s, x) \in Seq(B)
        /\ Len(s) \in Nat /\ DOMAIN s = 1..Len(s)
        /\ DOMAIN Append(s, x) = 1..(Len(s) + 1)
        /\ \A i \in 1..Len(s) : Append(s, x)[i] = s[i]
        /\ Append(s, x)[Len(s) + 1] = x
<1>1. s \in Seq(A \cup {x}) /\ x \in A \cup {x}
  BY SeqMonotonic
<1>2. Append(s, x) \in Seq(A \cup {x})
  BY <1>1
<1>3. QED
  BY <1>1, <1>2

LEMMA AuditInit == Users!Init => AuditInv
<1> SUFFICES ASSUME Users!Init PROVE AuditInv
  OBVIOUS
<1>1. audit = <<>>
  BY DEF Users!Init
<1>2. audit \in Seq({})
  BY <1>1
<1>3. DOMAIN people = Users!People
      /\ \A u \in Users!People : DOMAIN people[u] = Users!Columns \cup {"limit"}
  BY DEF Users!Init, Users!Columns
<1>4. \A u, f : Users!EventsOf(u, f) = {}
  BY <1>1, <1>2 DEF Users!EventsOf
<1>5. QED
  BY <1>2, <1>3, <1>4 DEF AuditInv, Recorded, LastTells

\* The commit of one handler: its value and its event.
LEMMA AuditWritten ==
  ASSUME AuditInv, NEW w, Users!Written(w), Users!Audited(w)
  PROVE AuditInv'
<1> DEFINE x == [of |-> w.of, by |-> Users!Actor(w), field |-> w.field, old |-> w.old, to |-> w.to,
                 start |-> w.start]
           last == Len(audit) + 1
<1>1. PICK A : audit \in Seq(A)
  BY DEF AuditInv, Recorded
<1>2. audit' = Append(audit, x) /\ x.of = w.of /\ x.field = w.field /\ x.to = w.to
  BY DEF Users!Audited
<1> HIDE DEF x
<1>3. /\ \E B : audit' \in Seq(B)
      /\ Len(audit) \in Nat /\ DOMAIN audit = 1..Len(audit) /\ DOMAIN audit' = 1..last
      /\ \A i \in 1..Len(audit) : audit'[i] = audit[i]
      /\ audit'[last] = x
  <2> DEFINE after == Append(audit, x)
  <2>1. audit' = after
    BY <1>2
  <2>2. /\ \E B : after \in Seq(B)
        /\ Len(audit) \in Nat /\ DOMAIN audit = 1..Len(audit) /\ DOMAIN after = 1..last
        /\ \A i \in 1..Len(audit) : after[i] = audit[i]
        /\ after[last] = x
    BY <1>1, EventAppended
  <2> HIDE DEF after, last
  <2>3. QED
    BY <2>1, <2>2
<1>4. /\ DOMAIN people' = Users!People
      /\ \A u \in Users!People : DOMAIN people'[u] = Users!Columns \cup {"limit"}
  BY DEF Users!Written, AuditInv, Recorded
<1>5. ASSUME NEW u \in Users!People, NEW f \in Users!Columns
      PROVE people'[u][f] = IF u = w.of /\ f = w.field THEN w.to ELSE people[u][f]
  <2>1. f # "limit" /\ f # "plan" /\ f \in DOMAIN people[u] /\ u \in DOMAIN people
    BY DEF Users!Columns, AuditInv, Recorded
  <2>2. QED
    BY <2>1 DEF Users!Written
<1>6. ASSUME NEW u \in Users!People, NEW f \in Users!Columns, Users!EventsOf(u, f)' # {}
      PROVE \E e \in Users!EventsOf(u, f)' :
              (\A d \in Users!EventsOf(u, f)' : d <= e) /\ audit'[e].to = people'[u][f]
  <2>0. Users!EventsOf(u, f)' = {e \in DOMAIN audit' : audit'[e].of = u /\ audit'[e].field = f}
    BY DEF Users!EventsOf
  <2>1. CASE u = w.of /\ f = w.field
    <3>1. last \in Users!EventsOf(u, f)' /\ \A d \in Users!EventsOf(u, f)' : d <= last
      BY <1>2, <1>3, <2>0, <2>1
    <3>2. audit'[last].to = people'[u][f]
      BY <1>2, <1>3, <1>5, <2>1
    <3>3. QED
      BY <3>1, <3>2
  <2>2. CASE ~(u = w.of /\ f = w.field)
    <3>1. Users!EventsOf(u, f)' = Users!EventsOf(u, f)
      BY <1>2, <1>3, <2>0, <2>2 DEF Users!EventsOf
    <3>2. PICK e \in Users!EventsOf(u, f) :
            (\A d \in Users!EventsOf(u, f) : d <= e) /\ audit[e].to = people[u][f]
      BY <1>6, <3>1 DEF AuditInv, LastTells
    <3>3. audit'[e] = audit[e]
      BY <1>3 DEF Users!EventsOf
    <3>4. people'[u][f] = people[u][f]
      BY <1>5, <2>2
    <3>5. QED
      BY <3>1, <3>2, <3>3, <3>4
  <2>3. QED
    BY <2>1, <2>2
<1>7. LastTells'
  BY <1>6 DEF LastTells, Users!People, Users!Columns
<1>8. QED
  BY <1>3, <1>4, <1>7 DEF AuditInv, Recorded, Users!People, Users!Columns

\* Whatever two Administrators write over each other, the event committed last of a column
\* holds the value the User has (the handlers of services/api/src/api/admin.py and
\* record_admin_audit_event, in one commit).
THEOREM AuditOfInstance == SpecParts => []AuditTellsState
<1>1. InitParts => AuditInv
  BY AuditInit DEF InitParts
<1>2. AuditInv /\ [NextParts]_parts => AuditInv'
  <2> SUFFICES ASSUME AuditInv, [NextParts]_parts PROVE AuditInv'
    OBVIOUS
  <2>1. CASE UNCHANGED <<people, audit>>
    BY <2>1 DEF AuditInv, Recorded, LastTells, Users!People, Users!Columns, Users!EventsOf
  <2>2. CASE \E n \in DOMAIN edits : Users!Written(edits[n]) /\ Users!Audited(edits[n])
    BY <2>2, AuditWritten
  <2>3. QED
    BY <2>1, <2>2, UsersPart, WriteOnly
<1>3. AuditInv => AuditTellsState
  <2> SUFFICES ASSUME AuditInv, NEW u \in Users!People, NEW f \in Users!Columns,
                      Users!EventsOf(u, f) # {}
               PROVE audit[Users!Max(Users!EventsOf(u, f))].to = people[u][f]
    BY DEF AuditTellsState, Users!AuditTellsState
  <2> DEFINE S == Users!EventsOf(u, f)
  <2>1. PICK e \in S : (\A d \in S : d <= e) /\ audit[e].to = people[u][f]
    BY DEF AuditInv, LastTells
  <2>2. \A d \in S : d \in Int
    BY DEF AuditInv, Recorded, Users!EventsOf
  <2> HIDE DEF S
  <2>3. Users!Max(S) = e
    BY <2>1, <2>2 DEF Users!Max
  <2>4. QED
    BY <2>1, <2>3 DEF S
<1>4. QED
  BY <1>1, <1>2, <1>3, PTL DEF SpecParts

-----------------------------------------------------------------------------
(* The Users table and the User panel *)

Seen == <<audit, view, tables, tablesDue, details, detailsDue, told>>

Views ==
  [filter : Filters, page : Users!Pages, open : {Users!None} \cup Users!People, tab : {"details", "history"}]

\* The URL is of a page there is, and each cache has its keys.
Shown ==
  /\ view \in Views
  /\ DOMAIN tables = Users!Keys /\ DOMAIN details = Users!People /\ DOMAIN told = Users!People
  /\ \A k \in Users!Keys : DOMAIN tables[k].rows \subseteq Users!People
  /\ \E A : audit \in Seq(A)

\* What is not to be fetched again, whether it is on screen or not, is no older than the edits
\* this tab was told of, and of those none is ahead of the database.
CachesFollow ==
  /\ \A u \in Users!People : told[u] \in Nat /\ told[u] <= Len(audit)
  /\ \A k \in Users!Keys : k \notin tablesDue => \A u \in Users!People : tables[k].at >= told[u]
  /\ \A u \in Users!People : u \notin detailsDue => details[u].at >= told[u]

CacheInv == Shown /\ CachesFollow

LEMMA CacheInit == Users!UsersAssumption /\ Users!Init => CacheInv
<1> SUFFICES ASSUME Users!UsersAssumption, Users!Init PROVE CacheInv
  OBVIOUS
<1>1. "all" \in Filters /\ 1 \in Users!Pages /\ 2 \in Users!Pages /\ Peer \in Users!People
  <2>1. MaxPeople \in Nat /\ Me \in 1..MaxPeople /\ Peer \in 1..MaxPeople /\ Me # Peer /\ "all" \in Filters
    BY DEF Users!UsersAssumption, Users!People
  <2>2. QED
    BY <2>1 DEF Users!Pages, Users!People
<1>2. view \in Views
  BY <1>1 DEF Users!Init, Views
<1>3. /\ tables = [k \in Users!Keys |-> Users!NoPage] /\ tablesDue = Users!Keys
      /\ DOMAIN details = Users!People /\ detailsDue = Users!People
      /\ told = [u \in Users!People |-> 0] /\ audit = <<>>
  BY DEF Users!Init
<1>4. audit \in Seq({}) /\ Len(audit) = 0
  BY <1>3
<1>5. DOMAIN Users!NoPage.rows = {}
  BY DEF Users!NoPage
<1>6. QED
  BY <1>2, <1>3, <1>4, <1>5 DEF CacheInv, Shown, CachesFollow

\* Moving about asks for rows again at most.
LEMMA CacheGoes ==
  ASSUME CacheInv, NEW v, Users!Goes(v),
         v \in Views
  PROVE CacheInv'
<1>1. /\ view' = v /\ audit' = audit /\ tables' = tables /\ details' = details /\ told' = told
      /\ tablesDue \subseteq tablesDue' /\ detailsDue' = detailsDue
  BY DEF Users!Goes, Users!database
<1>2. QED
  BY <1>1 DEF CacheInv, Shown, CachesFollow, Users!Keys, Users!Pages, Users!People, Users!None, Views

\* The rows fetched are those of the moment.
LEMMA CacheTable == ASSUME CacheInv, Users!TableFetched PROVE CacheInv'
<1> DEFINE key == Users!Key(view)
<1>1. /\ key \in Users!Keys
      /\ tables' = [tables EXCEPT ![key] = Users!Page(key)] /\ tablesDue' = tablesDue \ {key}
      /\ audit' = audit /\ view' = view /\ details' = details /\ detailsDue' = detailsDue /\ told' = told
  BY DEF Users!TableFetched, Users!database, CacheInv, Shown, Users!Keys, Users!Key, Views
<1>2. Users!Page(key).at = Len(audit) /\ DOMAIN Users!Page(key).rows \subseteq Users!People
  BY DEF Users!Page, Users!OnPage, Users!Matching
<1> DEFINE fetched == Users!Page(key)
<1> HIDE DEF key, fetched
<1>3. /\ DOMAIN tables' = Users!Keys
      /\ \A k \in Users!Keys : tables'[k] = IF k = key THEN fetched ELSE tables[k]
  BY <1>1 DEF CacheInv, Shown, fetched
<1>4. fetched.at = Len(audit) /\ DOMAIN fetched.rows \subseteq Users!People
  BY <1>2 DEF fetched
<1>5. Len(audit) \in Nat
  BY DEF CacheInv, Shown
<1>6. \A k \in Users!Keys : k \notin tablesDue' => \A u \in Users!People : tables'[k].at >= told[u]
  BY <1>1, <1>3, <1>4, <1>5 DEF CacheInv, CachesFollow
<1>7. \A k \in Users!Keys : DOMAIN tables'[k].rows \subseteq Users!People
  BY <1>3, <1>4 DEF CacheInv, Shown
<1>8. QED
  BY <1>1, <1>3, <1>6, <1>7 DEF CacheInv, Shown, CachesFollow, Users!Keys, Users!Pages, Users!People, Users!None, Views

\* So is the User fetched.
LEMMA CacheDetail == ASSUME CacheInv, Users!DetailFetched PROVE CacheInv'
<1> DEFINE got == Users!Detail(view.open)
<1>1. /\ view.open \in Users!People
      /\ details' = [details EXCEPT ![view.open] = got] /\ detailsDue' = detailsDue \ {view.open}
      /\ audit' = audit /\ view' = view /\ tables' = tables /\ tablesDue' = tablesDue /\ told' = told
  BY DEF Users!DetailFetched, Users!database, CacheInv, Shown, Users!None, Views
<1>2. got.at = Len(audit)
  BY DEF Users!Detail
<1> HIDE DEF got
<1>3. \A u \in Users!People : u \notin detailsDue' => details'[u].at >= told[u]
  BY <1>1, <1>2 DEF CacheInv, Shown, CachesFollow
<1>4. QED
  BY <1>1, <1>3 DEF CacheInv, Shown, CachesFollow, Users!Keys, Users!Pages, Users!People, Users!None, Views

\* An edit told is an edit whose User is fetched again, and every page of rows with it unless
\* it is of the override, which no row shows.
LEMMA CacheAnswered == ASSUME CacheInv, NEW n, Users!Answered(n) PROVE CacheInv'
<1> DEFINE e == edits[n]
<1>1. audit' = audit /\ view' = view /\ tables' = tables /\ details' = details
  BY DEF Users!Answered, Users!database
<1>2. CASE detailsDue' = detailsDue /\ tablesDue' = tablesDue /\ told' = told
  BY <1>1, <1>2 DEF CacheInv, Shown, CachesFollow, Users!Keys, Users!Pages, Users!People, Users!None, Views
<1>3. CASE /\ detailsDue' = detailsDue \cup {e.of}
           /\ tablesDue' = IF e.field = "limit" THEN tablesDue ELSE Users!Keys
           /\ told' = IF e.field = "limit" THEN told ELSE [told EXCEPT ![e.of] = Len(audit)]
  <2> HIDE DEF e
  <2>1. Len(audit) \in Nat
    BY DEF CacheInv, Shown
  <2>2. CASE e.field = "limit"
    BY <1>1, <1>3, <2>2 DEF CacheInv, Shown, CachesFollow, Users!Keys, Users!Pages, Users!People, Users!None, Views
  <2>3. CASE e.field # "limit"
    <3>1. told' = [told EXCEPT ![e.of] = Len(audit)] /\ tablesDue' = Users!Keys /\ detailsDue' = detailsDue \cup {e.of}
      BY <1>3, <2>3
    <3>2. /\ DOMAIN told' = Users!People
          /\ \A u \in Users!People : told'[u] = IF u = e.of THEN Len(audit) ELSE told[u]
      BY <3>1 DEF CacheInv, Shown
    <3>3. \A u \in Users!People : told'[u] \in Nat /\ told'[u] <= Len(audit)
      BY <2>1, <3>2 DEF CacheInv, CachesFollow
    <3>4. \A u \in Users!People : u \notin detailsDue' => details[u].at >= told'[u]
      BY <3>1, <3>2 DEF CacheInv, CachesFollow
    <3>5. QED
      BY <1>1, <3>1, <3>2, <3>3, <3>4
      DEF CacheInv, Shown, CachesFollow, Users!Keys, Users!Pages, Users!People, Users!None, Views
  <2>4. QED
    BY <2>2, <2>3
<1>4. QED
  BY <1>2, <1>3, Zenon DEF Users!Answered, Users!Invalidated

\* A commit takes the audit further.
LEMMA CacheWrite == ASSUME CacheInv, NEW n, Users!Write(n) PROVE CacheInv'
<1>1. UNCHANGED <<view, tables, tablesDue, details, detailsDue, told>>
  BY DEF Users!Write, Users!caches
<1>2. PICK A : audit \in Seq(A)
  BY DEF CacheInv, Shown
<1>3. (\E B : audit' \in Seq(B)) /\ Len(audit') \in Nat /\ Len(audit) \in Nat /\ Len(audit') >= Len(audit)
  <2>1. CASE audit' = audit
    BY <1>2, <2>1
  <2>2. CASE Users!Audited(edits[n])
    <3>1. PICK x : audit' = Append(audit, x)
      BY <2>2 DEF Users!Audited
    <3>2. audit \in Seq(A \cup {x}) /\ x \in A \cup {x}
      BY <1>2, SeqMonotonic
    <3>3. QED
      BY <3>1, <3>2
  <2>3. QED
    BY <2>1, <2>2, Zenon DEF Users!Write
<1>4. QED
  BY <1>1, <1>3 DEF CacheInv, Shown, CachesFollow, Users!Keys, Users!Pages, Users!People, Users!None, Views

LEMMA CacheNext == CacheInv /\ [Users!Next]_(Users!vars) => CacheInv'
<1> SUFFICES ASSUME CacheInv, [Users!Next]_(Users!vars) PROVE CacheInv'
  OBVIOUS
<1> DEFINE Stays == UNCHANGED Seen
           Fits(v) == v \in Views
<1>0. Stays => CacheInv'
  BY DEF Seen, CacheInv, Shown, CachesFollow, Users!Keys, Users!Pages, Users!People, Users!None, Views
<1>1. ASSUME NEW v, Users!Goes(v), Fits(v) PROVE CacheInv'
  BY <1>1, CacheGoes
<1>2. Fits(view)
  BY DEF CacheInv, Shown
<1>3. ASSUME NEW cs, Users!Confirming(cs) PROVE Stays
  BY <1>3 DEF Users!Confirming, Seen, Users!database, Users!caches
<1>4. ASSUME NEW u, NEW field, NEW to, NEW at, NEW own, Users!Request(u, field, to, at, own) PROVE Stays
  BY <1>4 DEF Users!Request, Seen, Users!database, Users!caches
<1>5. Users!SessionLoads \/ Users!HistoryFetched \/ UNCHANGED Users!vars => Stays
  BY DEF Users!SessionLoads, Users!HistoryFetched, Users!vars, Seen, Users!database, Users!caches
<1>6. ASSUME NEW n PROVE Users!Read(n) => Stays
  BY DEF Users!Read, Seen, Users!caches
<1>7. ASSUME NEW n PROVE Users!Lost(n) => Stays
  BY DEF Users!Lost, Seen, Users!database, Users!caches
<1>8. ASSUME NEW a, NEW b PROVE Users!PickRole(a) \/ Users!Cancel(a) \/ Users!AskBlock(a, b) => Stays
  BY <1>3 DEF Users!PickRole, Users!Cancel, Users!AskBlock
<1>9. ASSUME NEW a
      PROVE Users!Confirm(a) \/ Users!EditName(a) \/ Users!EditPlan(a) \/ Users!EditLimit(a) => Stays
  BY <1>4 DEF Users!Confirm, Users!EditName, Users!EditPlan, Users!EditLimit, Users!Submit
<1>10. ASSUME NEW a, NEW b, NEW c PROVE Users!PeerSends(a, b, c) => Stays
  BY <1>4 DEF Users!PeerSends
<1>11. ASSUME NEW f \in Filters, Users!SetFilter(f) PROVE CacheInv'
  <2>1. Users!Goes([view EXCEPT !.filter = f, !.page = 1])
    BY <1>11 DEF Users!SetFilter
  <2>2. view.page \in 1..MaxPeople
    BY <1>2 DEF Users!Pages, Views
  <2>5. 1 \in Users!Pages
    BY <2>2, PartsAssumption DEF Users!Pages, Users!UsersAssumption
  <2>3. Fits([view EXCEPT !.filter = f, !.page = 1])
    BY <1>2, <2>5 DEF Views
  <2>4. QED
    BY <1>1, <2>1, <2>3
<1>12. ASSUME NEW p \in Users!Pages, Users!GoToPage(p) PROVE CacheInv'
  <2>1. Users!Goes([view EXCEPT !.page = p])
    BY <1>12 DEF Users!GoToPage
  <2>2. Fits([view EXCEPT !.page = p])
    BY <1>2 DEF Views
  <2>3. QED
    BY <1>1, <2>1, <2>2
<1>13. ASSUME NEW tab \in {"details", "history"}, Users!SetTab(tab) PROVE CacheInv'
  <2>1. Users!Goes([view EXCEPT !.tab = tab])
    BY <1>13 DEF Users!SetTab
  <2>2. Fits([view EXCEPT !.tab = tab])
    BY <1>2 DEF Views
  <2>3. QED
    BY <1>1, <2>1, <2>2
<1>14. ASSUME NEW u \in Users!People, Users!OpenUser(u) PROVE CacheInv'
  <2>1. Users!Goes([view EXCEPT !.open = u, !.tab = "details"])
    BY <1>14 DEF Users!OpenUser
  <2>2. Fits([view EXCEPT !.open = u, !.tab = "details"])
    BY <1>2 DEF Views
  <2>3. QED
    BY <1>1, <2>1, <2>2
<1>15. ASSUME Users!CloseUser PROVE CacheInv'
  <2>1. Users!Goes([view EXCEPT !.open = Users!None, !.tab = "details"])
    BY <1>15 DEF Users!CloseUser
  <2>2. Fits([view EXCEPT !.open = Users!None, !.tab = "details"])
    BY <1>2 DEF Views
  <2>3. QED
    BY <1>1, <2>1, <2>2
<1> HIDE DEF Stays, Fits
<1>16. QED
  BY <1>0, <1>5, <1>6, <1>7, <1>8, <1>9, <1>10, <1>11, <1>12, <1>13, <1>14, <1>15,
     CacheTable, CacheDetail, CacheAnswered, CacheWrite
  DEF Users!Next

\* With nothing left to fetch, the Users table and the User panel are each no older than the
\* edits this tab was told of (the invalidations of hooks/use-admin.ts, which know the query
\* keys both read).
THEOREM AgreementOfInstance == SpecParts => []RowsAndPanelAgree
<1>1. InitParts => CacheInv
  BY CacheInit, PartsAssumption DEF InitParts
<1>2. CacheInv /\ [NextParts]_parts => CacheInv'
  BY UsersPart, CacheNext
<1>3. CacheInv => RowsAndPanelAgree
  <2> SUFFICES ASSUME CacheInv PROVE RowsAndPanelAgree
    OBVIOUS
  <2>1. Users!Key(view) \in Users!Keys
    BY DEF CacheInv, Shown, Users!Key, Users!Keys, Views
  <2>2. Users!Key(view) \notin tablesDue => \A u \in Users!RowsShown : Users!Table.at >= told[u]
    BY <2>1 DEF CacheInv, Shown, CachesFollow, Users!RowsShown, Users!Table
  <2>3. Users!PanelShown => view.open \in Users!People
    BY DEF CacheInv, Shown, Users!PanelShown, Views
  <2>4. QED
    BY <2>2, <2>3 DEF CacheInv, CachesFollow, RowsAndPanelAgree, Users!RowsAndPanelAgree
<1>4. QED
  BY <1>1, <1>2, <1>3, PTL DEF SpecParts

-----------------------------------------------------------------------------
(* The session's part *)

\* Another part's steps leave the session alone.
LEMMA SessionPart == [NextParts]_parts => [Session!Next]_(Session!vars)
BY DEF NextParts, parts, OfLibrary, OfUsers, OfProviders, OfSession, session, Session!vars

\* A sign-in page carries a page that was wanted, or an Admin page was; every sign-out under way
\* goes to the home page, to the blocked page, or to a page that is wanted.
CallbackWanted ==
  page = "/sign-in" /\ wanted # {} => callback \in wanted \/ wanted \cap Session!AdminNavItems # {}
SignOutsWanted == \A s \in signOuts : s.to \in wanted \cup {"/", "/account-blocked"}
SessionInv == CallbackWanted /\ SignOutsWanted /\ "/sign-in" \notin wanted

\* A layout sends to sign in from an Admin page only; the proxy carries the page along.
LEMMA SentToSignIn ==
  ASSUME NEW p, p # "/sign-in", NEW held, NEW role, Session!Route(p, held, role).page = "/sign-in"
  PROVE Session!Route(p, held, role).callback = p \/ p \in Session!AdminNavItems
<1>1. CASE Session!Bounced(p, held)
  BY <1>1 DEF Session!Route, Session!ToSignIn
<1>2. CASE ~Session!Bounced(p, held)
  <2>1. Session!Gated(p, held, role).page = "/sign-in"
    BY <1>2 DEF Session!Route
  <2>2. \A q : Session!At(q).page = q
    BY DEF Session!At
  <2>3. Session!HomeGate(held, role).page # "/sign-in"
    BY <2>2 DEF Session!HomeGate
  <2>4. ASSUME NEW q \in DOMAIN Session!AdminTwin PROVE Session!AdminTwin[q] # "/sign-in"
    BY DEF Session!AdminTwin
  <2>5. QED
    BY <2>1, <2>2, <2>3, <2>4 DEF Session!Gated
<1>3. QED
  BY <1>1, <1>2

\* The home page is not one to sign in from.
LEMMA HomeNeedsNone == ASSUME NEW held, NEW role PROVE Session!Route("/", held, role).page # "/sign-in"
<1>1. "/" \notin Session!Matched /\ "/" \notin Session!AdminNavItems /\ "/" \notin DOMAIN Session!AdminTwin
  BY DEF Session!Matched, Session!AdminNavItems, Session!AdminTwin
<1>2. Session!Gated("/", held, role) = Session!HomeGate(held, role)
  BY <1>1 DEF Session!Gated
<1>3. Session!Route("/", held, role) = Session!HomeGate(held, role)
  BY <1>1, <1>2 DEF Session!Route, Session!Bounced
<1>4. QED
  BY <1>3 DEF Session!HomeGate, Session!At

\* A page loaded, or shown by the router, with what was wanted kept or that page added.
LEMMA Arrived ==
  ASSUME SessionInv, NEW p, p # "/sign-in", NEW to, to = Session!Route(p, cookie, token),
         page' = to.page, callback' = to.callback, signOuts' \subseteq signOuts, wanted \subseteq wanted',
         wanted' \subseteq wanted \cup {p}, p \in wanted' \/ to.page # "/sign-in"
  PROVE SessionInv'
<1>1. SignOutsWanted' /\ "/sign-in" \notin wanted'
  BY DEF SessionInv, SignOutsWanted
<1>2. ASSUME page' = "/sign-in" PROVE callback' \in wanted' \/ wanted' \cap Session!AdminNavItems # {}
  <2>1. p \in wanted' /\ to.page = "/sign-in"
    BY <1>2
  <2>2. to.callback = p \/ p \in Session!AdminNavItems
    BY <2>1, SentToSignIn
  <2>3. QED
    BY <2>1, <2>2
<1>4. CallbackWanted'
  BY <1>2 DEF CallbackWanted, Session!AdminNavItems
<1>3. QED
  BY <1>1, <1>4 DEF SessionInv

LEMMA SessionNext == SessionInv /\ [Session!Next]_(Session!vars) => SessionInv'
<1> SUFFICES ASSUME SessionInv, [Session!Next]_(Session!vars) PROVE SessionInv'
  OBVIOUS
<1> USE DEF Session!Load
<1>0. "/sign-in" \notin Session!Asked /\ "/sign-in" \notin Session!Shell
  BY DEF Session!Asked, Session!Shell, Session!NavItems, Session!AdminNavItems, Session!AdminTwin
<1>1. ASSUME NEW p \in Session!Asked, Session!Visit(p) PROVE SessionInv'
  <2> DEFINE to == Session!Route(p, cookie, token)
  <2>1. /\ page' = to.page /\ callback' = to.callback /\ signOuts' = {}
        /\ wanted' = IF to.page = "/sign-in" THEN wanted \cup {p} ELSE wanted
    BY <1>1 DEF Session!Visit
  <2> HIDE DEF to
  <2>2. QED
    BY <1>0, <2>1, Arrived DEF to
<1>2. ASSUME NEW p \in Session!Asked, Session!Follow(p) PROVE SessionInv'
  <2> DEFINE to == Session!Route(p, cookie, token)
  <2>1. /\ page' = to.page /\ callback' = to.callback /\ signOuts' = signOuts
        /\ wanted' = IF to.page = "/sign-in" THEN wanted \cup {p} ELSE wanted
    BY <1>2 DEF Session!Follow
  <2> HIDE DEF to
  <2>2. QED
    BY <1>0, <2>1, Arrived DEF to
<1>3. ASSUME Session!SignIn \/ Session!OpenSignIn PROVE SessionInv'
  <2>1. wanted' = {} /\ signOuts' = {}
    BY <1>3 DEF Session!SignIn, Session!OpenSignIn
  <2>2. QED
    BY <2>1 DEF SessionInv, CallbackWanted, SignOutsWanted
<1>4. ASSUME UNCHANGED <<page, callback, wanted, signOuts>> PROVE SessionInv'
  BY <1>4 DEF SessionInv, CallbackWanted, SignOutsWanted, Session!AdminNavItems
<1>5. Session!SessionExpires \/ Session!AccountChanges \/ Session!Request \/ UNCHANGED Session!vars
        => UNCHANGED <<page, callback, wanted, signOuts>>
  BY DEF Session!SessionExpires, Session!AccountChanges, Session!Request, Session!vars
<1>6. ASSUME NEW here, here # "/sign-in", page # "/sign-in", wanted' \in {wanted, wanted \cup {here}},
             here \in wanted' \cup {"/", "/account-blocked"}, UNCHANGED <<page, callback>>,
             signOuts' \in {signOuts, signOuts \cup {[to |-> here, cleared |-> FALSE]}}
      PROVE SessionInv'
  <2>1. SignOutsWanted' /\ "/sign-in" \notin wanted'
    BY <1>6 DEF SessionInv, SignOutsWanted
  <2>2. CallbackWanted'
    BY <1>6 DEF CallbackWanted
  <2>3. QED
    BY <2>1, <2>2 DEF SessionInv
<1>7. ASSUME Session!AskSignOut PROVE SessionInv'
  BY <1>0, <1>6, <1>7 DEF Session!AskSignOut, Session!SignOut
<1>8. ASSUME Session!Answer PROVE SessionInv'
  <2>1. UNCHANGED <<page, callback>>
    BY <1>8 DEF Session!Answer
  <2>2. CASE Session!Served
    BY <1>4, <2>1, <2>2 DEF Session!Served
  <2>3. CASE page \in Session!Shell /\ Session!BlockedSignsOut
    BY <1>0, <1>6, <2>1, <2>3 DEF Session!BlockedSignsOut, Session!SignOut
  <2>4. CASE page \in Session!Shell /\ Session!RedirectToSignIn
    <3> DEFINE here == IF page = "dashboard" THEN "/" ELSE page
    <3>1. here # "/sign-in" /\ page # "/sign-in"
      BY <1>0, <2>4
    <3>2. CASE leaving
      BY <1>4, <2>1, <2>4, <3>2 DEF Session!RedirectToSignIn
    <3>3. CASE ~leaving
      <4>1. wanted' = wanted \cup {here} /\ signOuts' = signOuts \cup {[to |-> here, cleared |-> FALSE]}
        BY <2>4, <3>3 DEF Session!RedirectToSignIn, Session!SignOut
      <4> HIDE DEF here
      <4>2. QED
        BY <1>6, <2>1, <3>1, <4>1
    <3>4. QED
      BY <3>2, <3>3
  <2>5. QED
    BY <1>8, <2>2, <2>3, <2>4 DEF Session!Answer
<1>9. ASSUME NEW s \in signOuts, Session!CookieCleared(s) PROVE SessionInv'
  <2>1. UNCHANGED <<page, callback, wanted>> /\ signOuts' = (signOuts \ {s}) \cup {[s EXCEPT !.cleared = TRUE]}
    BY <1>9 DEF Session!CookieCleared
  <2>2. [s EXCEPT !.cleared = TRUE].to = s.to
    OBVIOUS
  <2>3. QED
    BY <2>1, <2>2 DEF SessionInv, CallbackWanted, SignOutsWanted, Session!AdminNavItems
<1>10. ASSUME NEW s \in signOuts, Session!SignedOut(s) PROVE SessionInv'
  <2>1. wanted' = wanted /\ signOuts' = {}
    BY <1>10 DEF Session!SignedOut
  <2>2. CASE s.to = "/account-blocked"
    <3>1. page' = "/account-blocked"
      BY <1>10, <2>2 DEF Session!SignedOut, Session!At
    <3>2. QED
      BY <2>1, <3>1 DEF SessionInv, CallbackWanted, SignOutsWanted
  <2>3. CASE s.to # "/account-blocked"
    <3> DEFINE to == Session!Route(s.to, cookie, token)
    <3>1. page' = to.page /\ callback' = to.callback
      BY <1>10, <2>3 DEF Session!SignedOut
    <3>2. s.to \in wanted \/ s.to = "/"
      BY <2>3 DEF SessionInv, SignOutsWanted
    <3>3. s.to # "/sign-in" /\ (s.to = "/" => to.page # "/sign-in")
      BY <3>2, HomeNeedsNone DEF SessionInv
    <3> HIDE DEF to
    <3>4. QED
      BY <2>1, <3>1, <3>2, <3>3, Arrived DEF to
  <2>4. QED
    BY <2>2, <2>3
<1>11. QED
  BY <1>1, <1>2, <1>3, <1>4, <1>5, <1>7, <1>8, <1>9, <1>10 DEF Session!Next

\* Whoever was sent to sign in, by the proxy or by the first 401 of lib/bff-client.ts, comes back
\* to a page they were on or asked for, whatever else the tab and an Administrator do meanwhile.
THEOREM ReturnOfInstance == SpecParts => ReturnsWhereAsked
<1>1. InitParts => SessionInv
  BY DEF InitParts, Session!Init, SessionInv, CallbackWanted, SignOutsWanted
<1>2. SessionInv /\ [NextParts]_parts => SessionInv'
  BY SessionPart, SessionNext
<1>3. SessionInv /\ [NextParts]_parts
        => [Session!SignIn /\ wanted # {} /\ wanted \cap Session!AdminNavItems = {} =>
              \E p \in wanted : page' = Session!Route(p, "valid", token').page]_(Session!vars)
  <2> SUFFICES ASSUME SessionInv, Session!SignIn, wanted # {}, wanted \cap Session!AdminNavItems = {}
               PROVE \E p \in wanted : page' = Session!Route(p, "valid", token').page
    OBVIOUS
  <2>1. page = "/sign-in" /\ token' = account.role /\ page' = Session!Route(callback, "valid", account.role).page
    BY DEF Session!SignIn, Session!Load
  <2>2. callback \in wanted
    BY <2>1 DEF SessionInv, CallbackWanted
  <2>3. QED
    BY <2>1, <2>2
<1>4. QED
  BY <1>1, <1>2, <1>3, PTL DEF SpecParts, ReturnsWhereAsked, Session!ReturnsWhereAsked
=============================================================================
