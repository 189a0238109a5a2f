----------------------------- MODULE LlmProviders -----------------------------
(***************************************************************************)
(* The Administrators' LLM providers screen                                *)
(* (app/(app)/admin/llm-providers/page.tsx, hooks/use-admin.ts) and its    *)
(* endpoints (services/api/src/api/admin_llm_provider_settings.py).        *)
(*                                                                         *)
(* A provider is activated, or control goes back to the environment, by    *)
(* the radios; its parameters are saved from a form.  Two Administrators   *)
(* do it: the one of this tab, and another who calls the same endpoints.   *)
(* A handler reads the settings, decides on what it read, and writes in    *)
(* one commit, against the unique indexes of the tables.                   *)
(***************************************************************************)
EXTENDS Naturals, Sequences, SequencesExt

CONSTANTS
  Providers,      \* of the catalogue
  KeysAtFirst,    \* those with a stored API key when the screen opens
  ActiveAtFirst,  \* what may be active then
  Keyed,          \* those that require an API key
  InEnvironment,  \* those whose API key is in the environment
  None,           \* no provider: the environment decides
  Texts,          \* what is typed in a field
  MaxRequests, MaxGestures, MaxLosses

VARIABLES
  exists,        \* providers that have a setting
  active,        \* providers whose setting is active
  stored,        \* [Providers -> [Parameters -> the stored row]]
  audit,         \* the AdminAuditEvents, in the order they were committed
  list,          \* the cached answer of the list
  listDue,       \* it is fetched again
  form,          \* the slide-over
  activation, deactivation,   \* the outcomes of the radios' two mutations
  requests,      \* [numbers -> the requests under way]
  sent,          \* how many were made
  told,          \* how much was committed when this tab was last answered, refused saves apart
  gestures, losses

settings == <<exists, active, stored, audit>>
radios == <<activation, deactivation>>
vars == <<settings, list, listDue, form, radios, requests, sent, told, gestures, losses>>

Parameters == {"apiKey", "model"}
Blank == "blank"
Keep == "keep"
Absent == [row |-> 0, text |-> Blank]
Statuses == {"idle", "pending", "error", "success"}

ProvidersAssumption ==
  /\ Keyed \subseteq Providers /\ InEnvironment \subseteq Providers /\ None \notin Providers
  /\ KeysAtFirst \subseteq Keyed /\ ActiveAtFirst \subseteq Providers \cup {None}
  /\ Texts # {} /\ Blank \notin Texts /\ Keep \notin Texts
  /\ MaxRequests \in Nat /\ MaxGestures \in Nat /\ MaxLosses \in Nat

NoRows == [name \in Parameters |-> Absent]
KeyRow == [NoRows EXCEPT !.apiKey = [row |-> 1, text |-> CHOOSE text \in Texts : TRUE]]
NoForm ==
  [of |-> None, model |-> Blank, typed |-> FALSE, secret |-> Blank, cleared |-> FALSE, status |-> "idle"]

\* "model" has a default; an API key is stored, or in the environment, or nowhere.
Unresolved(p, key) == p \in Keyed \ InEnvironment /\ key = Blank
Text(p) == [name \in Parameters |-> stored[p][name].text]

Active == IF active = {} THEN None ELSE CHOOSE p \in active : TRUE
Listing == [active |-> Active, texts |-> [p \in Providers |-> Text(p)], at |-> Len(audit), known |-> TRUE]

Init ==
  /\ active \in {{p} \ {None} : p \in ActiveAtFirst} /\ exists = active \cup KeysAtFirst
  /\ stored = [p \in Providers |-> IF p \in KeysAtFirst THEN KeyRow ELSE NoRows]
  /\ audit = <<>>
  /\ list = [Listing EXCEPT !.known = FALSE] /\ listDue = TRUE
  /\ form = NoForm
  /\ activation = "idle" /\ deactivation = "idle"
  /\ requests = <<>> /\ sent = 0 /\ told = 0
  /\ gestures = 0 /\ losses = 0

-----------------------------------------------------------------------------
(* The screen *)

ListFetched ==
  /\ listDue
  /\ list' = Listing /\ listDue' = FALSE
  /\ UNCHANGED <<settings, form, radios, requests, sent, told, gestures, losses>>

Gesture == list.known /\ gestures < MaxGestures /\ gestures' = gestures + 1

\* The drafts start from the list at hand; the secret's is empty.
OpenForm(p) ==
  /\ form.of = None /\ Gesture
  /\ form' = [NoForm EXCEPT !.of = p, !.model = list.texts[p].model]
  /\ UNCHANGED <<settings, list, listDue, radios, requests, sent, told, losses>>

\* What the form waits for no longer closes it.
CloseForm ==
  /\ form.of # None /\ Gesture
  /\ form' = NoForm
  /\ requests' = [n \in DOMAIN requests |-> [requests[n] EXCEPT !.tracked = FALSE]]
  /\ UNCHANGED <<settings, list, listDue, radios, sent, told, losses>>

Drafted(draft) ==
  /\ form.of # None /\ draft # form /\ Gesture
  /\ form' = draft
  /\ UNCHANGED <<settings, list, listDue, radios, requests, sent, told, losses>>
TypeModel(text) == text # form.model /\ Drafted([form EXCEPT !.model = text, !.typed = TRUE])
TypeSecret(text) == form.of \in Keyed /\ ~form.cleared /\ Drafted([form EXCEPT !.secret = text])
\* "Clear" and "Keep" are there for a stored key.
ToggleCleared ==
  /\ form.of \in Keyed /\ list.texts[form.of].apiKey # Blank
  /\ Drafted([form EXCEPT !.secret = Blank, !.cleared = ~form.cleared])

\* changes(): a field whose draft is not what the list says now.
Changes ==
  [model |-> IF form.model # list.texts[form.of].model THEN form.model ELSE Keep,
   apiKey |-> IF form.cleared THEN Blank ELSE IF form.secret # Blank THEN form.secret ELSE Keep]

NewRequest(kind, p, changes, own) ==
  [kind |-> kind, of |-> p, changes |-> changes, own |-> own, tracked |-> own, stage |-> "sent",
   was |-> None, there |-> FALSE, rows |-> NoRows, ok |-> FALSE]
Request(kind, p, changes, own) ==
  /\ sent < MaxRequests /\ sent' = sent + 1
  /\ requests' = [n \in DOMAIN requests \cup {sent + 1} |->
                    IF n = sent + 1 THEN NewRequest(kind, p, changes, own) ELSE requests[n]]
  /\ UNCHANGED <<settings, list, listDue, told, gestures, losses>>
NoChanges == [name \in Parameters |-> Keep]

Save ==
  /\ form.of # None /\ form.status # "pending"
  /\ form' = [form EXCEPT !.status = "pending"]
  /\ Request("save", form.of, Changes, TRUE)
  /\ UNCHANGED radios

ChangingActive == "pending" \in {activation, deactivation}

\* Mutant: the outcome of the other radio is left.
SelectProviderAlone(p) ==
  /\ list.known /\ form.of = None /\ ~ChangingActive /\ p # list.active
  /\ activation' = "pending"
  /\ Request("activate", p, NoChanges, TRUE)
  /\ UNCHANGED <<form, deactivation>>

\* selectProvider and selectEnvironment: each drops the outcome of the other.
SelectProvider(p) ==
  /\ list.known /\ form.of = None /\ ~ChangingActive /\ p # list.active
  /\ activation' = "pending" /\ deactivation' = "idle"
  /\ Request("activate", p, NoChanges, TRUE)
  /\ UNCHANGED form
SelectEnvironment ==
  /\ list.known /\ form.of = None /\ ~ChangingActive /\ list.active # None
  /\ deactivation' = "pending" /\ activation' = "idle"
  /\ Request("deactivate", None, NoChanges, TRUE)
  /\ UNCHANGED form

PeerSends(kind, p, changes) ==
  /\ Request(kind, p, changes, FALSE)
  /\ UNCHANGED <<form, radios>>

-----------------------------------------------------------------------------
(* The endpoints *)

Without(n) == [k \in DOMAIN requests \ {n} |-> requests[k]]
\* What the other Administrator is answered is not followed.
Served(n, ok) ==
  requests' = IF requests[n].own
              THEN [requests EXCEPT ![n].stage = "answering", ![n].ok = ok]
              ELSE Without(n)

\* The key a save would leave, from what it read.
KeyAfter(r) == IF r.changes.apiKey = Keep THEN stored[r.of].apiKey.text ELSE r.changes.apiKey
Refused(r) ==
  \/ r.kind = "save" /\ r.of \in active /\ Unresolved(r.of, KeyAfter(r))
  \/ r.kind = "activate" /\ r.of \notin active /\ Unresolved(r.of, stored[r.of].apiKey.text)

Read(n) ==
  LET r == requests[n] IN
  /\ r.stage = "sent"
  /\ IF Refused(r) THEN Served(n, FALSE)
     ELSE requests' = [requests EXCEPT ![n].stage = "read", ![n].was = Active,
                         ![n].there = r.of \in exists,
                         ![n].rows = IF r.of = None THEN @ ELSE stored[r.of]]
  /\ UNCHANGED <<settings, list, listDue, form, radios, sent, told, gestures, losses>>

\* Any submitted secret is a change; a text that is there already is none.
Changed(r) ==
  {name \in Parameters :
     /\ r.changes[name] # Keep
     /\ r.changes[name] = Blank => r.rows[name] # Absent
     /\ name = "model" => r.changes[name] # r.rows[name].text}

\* The unique indexes, and an update of a row that is gone; its delete only warns.
SaveConflict(r) ==
  \/ ~r.there /\ r.of \in exists
  \/ \E name \in Changed(r) : r.changes[name] # Blank /\ stored[r.of][name].row # r.rows[name].row
RowAfter(r, name) ==
  CASE name \notin Changed(r) -> stored[r.of][name]
    [] r.changes[name] # Blank ->
         [row |-> IF r.rows[name] = Absent THEN Len(audit) + 2 ELSE r.rows[name].row,
          text |-> r.changes[name]]
    [] stored[r.of][name].row = r.rows[name].row -> Absent
    [] OTHER -> stored[r.of][name]

ActiveAfter(r) == (active \ {r.was}) \cup (IF r.kind = "activate" THEN {r.of} ELSE {})

\* Mutant: the table has no index over the active row.
ActiveConflictOnKey(r) == r.kind = "activate" /\ ~r.there /\ r.of \in exists

\* LLMProviderSetting_single_active_key, and the unique providerKey.
ActiveConflict(r) ==
  \/ \E p, q \in ActiveAfter(r) : p # q
  \/ r.kind = "activate" /\ ~r.there /\ r.of \in exists

Event(of, field, to) == [of |-> of, field |-> field, to |-> to]

Saved(n) ==
  LET r == requests[n] IN
  IF Changed(r) = {} THEN UNCHANGED settings /\ Served(n, TRUE)
  ELSE IF SaveConflict(r) THEN UNCHANGED settings /\ Served(n, FALSE)
  ELSE /\ exists' = exists \cup {r.of}
       /\ stored' = [stored EXCEPT ![r.of] = [name \in Parameters |-> RowAfter(r, name)]]
       /\ audit' = audit \o SetToSeq({Event(r.of, name, r.changes[name]) : name \in Changed(r)})
       /\ UNCHANGED active
       /\ Served(n, TRUE)

Switched(n) ==
  LET r == requests[n]
      idle == r.was = (IF r.kind = "activate" THEN r.of ELSE None) IN
  IF idle THEN UNCHANGED settings /\ Served(n, TRUE)
  ELSE IF ActiveConflict(r) THEN UNCHANGED settings /\ Served(n, FALSE)
  ELSE /\ active' = ActiveAfter(r)
       /\ exists' = exists \cup active'
       /\ audit' = Append(audit, Event(None, "active", r.of))
       /\ UNCHANGED stored
       /\ Served(n, TRUE)

Write(n) ==
  /\ requests[n].stage = "read"
  /\ IF requests[n].kind = "save" THEN Saved(n) ELSE Switched(n)
  /\ UNCHANGED <<list, listDue, form, radios, sent, told, gestures, losses>>

-----------------------------------------------------------------------------
(* Answers *)

Outcome(r, ok) == IF ok THEN "success" ELSE "error"

\* Mutant: onSuccess for all.
RefreshesOnSuccess(r, ok) == ok

\* onSettled of the radios' mutations, onSuccess of the form's.
Refreshes(r, ok) == r.kind # "save" \/ ok
Settled(n, ok) ==
  LET r == requests[n] IN
  /\ requests' = Without(n)
  /\ activation' = IF r.kind = "activate" THEN Outcome(r, ok) ELSE activation
  /\ deactivation' = IF r.kind = "deactivate" THEN Outcome(r, ok) ELSE deactivation
  /\ form' = IF r.kind # "save" \/ ~r.tracked THEN form
             ELSE IF ok THEN NoForm ELSE [form EXCEPT !.status = "error"]
  /\ listDue' = (listDue \/ Refreshes(r, ok))
  /\ UNCHANGED <<settings, list, sent, gestures>>

Answered(n) ==
  /\ requests[n].stage = "answering"
  /\ Settled(n, requests[n].ok)
  /\ told' = IF requests[n].kind # "save" \/ requests[n].ok THEN Len(audit) ELSE told
  /\ UNCHANGED losses

\* The request, or its answer, is lost: the mutation fails.
Lost(n) ==
  /\ requests[n].own /\ requests[n].stage \in {"sent", "answering"}
  /\ losses < MaxLosses /\ losses' = losses + 1
  /\ Settled(n, FALSE)
  /\ UNCHANGED told

-----------------------------------------------------------------------------

PeerChanges ==
  {[NoChanges EXCEPT ![name] = text] : name \in Parameters, text \in Texts \cup {Blank}}

Next ==
  \/ ListFetched \/ CloseForm \/ ToggleCleared \/ Save \/ SelectEnvironment
  \/ \E p \in Providers : OpenForm(p) \/ SelectProvider(p) \/ PeerSends("activate", p, NoChanges)
  \/ \E text \in Texts \cup {Blank} : TypeModel(text) \/ TypeSecret(text)
  \/ \E p \in Providers, changes \in PeerChanges : PeerSends("save", p, changes)
  \/ PeerSends("deactivate", None, NoChanges)
  \/ \E n \in DOMAIN requests : Read(n) \/ Write(n) \/ Answered(n) \/ Lost(n)

Spec == Init /\ [][Next]_vars

-----------------------------------------------------------------------------
(* Properties *)

TypeOK ==
  /\ active \subseteq exists /\ exists \subseteq Providers
  /\ \A p \in Providers : \A name \in Parameters :
       stored[p][name] # Absent => p \in exists /\ stored[p][name].text \in Texts
  /\ Len(audit) <= 2 * MaxRequests /\ listDue \in BOOLEAN
  /\ list.active \in Providers \cup {None} /\ list.at <= Len(audit)
  /\ form.of \in Providers \cup {None} /\ form.status \in Statuses
  /\ activation \in Statuses /\ deactivation \in Statuses
  /\ sent \in 0..MaxRequests /\ DOMAIN requests \subseteq 1..sent /\ told <= Len(audit)
  /\ gestures \in 0..MaxGestures /\ losses \in 0..MaxLosses

\* However activations, deactivations and saves of two Administrators overlap, one provider
\* is active at most: a pipeline step finds the one it runs on.
OneActive == \A p, q \in active : p = q

\* The failure above the table is of the last choice made: when one radio's mutation failed,
\* the other has not been used since.
FailureIsOfLast == activation = "idle" \/ deactivation = "idle"

\* "the refetch settles it on what is really active": once there is nothing to fetch, the
\* table is no older than the last answer to a choice, taken or refused.
TableSettles == ~listDue => list.at >= told

-----------------------------------------------------------------------------
(* What the code says and does not hold *)

\* admin_llm_provider_settings.py: "the provider that runs must keep every required
\* parameter resolved".  A save that read it inactive clears the key of a provider that was
\* activated meanwhile.
ActiveRuns == \A p \in active : ~Unresolved(p, stored[p].apiKey.text)

\* page.tsx: "Only what the Administrator changed".  The draft starts from one list and is
\* compared with the next.
OnlyWhatChanged == form.of # None /\ ~form.typed => Changes.model = Keep

=============================================================================
