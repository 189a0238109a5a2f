-------------------------- MODULE LlmProvidersProofs --------------------------
(***************************************************************************)
(* Proofs about LlmProviders, for every catalogue of providers and texts,   *)
(* every number of requests of the two Administrators and every loss.       *)
(***************************************************************************)
EXTENDS LlmProviders, FiniteSetTheorems, TLAPS

-----------------------------------------------------------------------------
(* One active provider *)

\* The first state has one active provider, or none.
LEMMA InitOneActive == Init => OneActive
BY DEF Init, OneActive

\* The index refuses a switch that would leave two: no other step writes the active rows.
LEMMA NextOneActive == OneActive /\ [Next]_vars => OneActive'
<1> SUFFICES ASSUME OneActive, [Next]_vars PROVE OneActive'
  OBVIOUS
<1>1. CASE UNCHANGED active
  BY <1>1 DEF OneActive
<1>2. ASSUME NEW n \in DOMAIN requests, Write(n) PROVE OneActive'
  <2>1. CASE Saved(n)
    BY <2>1, <1>1 DEF Saved, settings
  <2>2. CASE Switched(n)
    <3>1. CASE active' = active
      BY <3>1, <1>1
    <3>2. CASE active' = ActiveAfter(requests[n]) /\ ~ActiveConflict(requests[n])
      BY <3>2 DEF ActiveConflict, OneActive
    <3>3. QED
      BY <2>2, <3>1, <3>2 DEF Switched, settings
  <2>3. QED
    BY <1>2, <2>1, <2>2 DEF Write
<1>3. CASE \E n \in DOMAIN requests : Read(n) \/ Answered(n) \/ Lost(n)
  BY <1>1, <1>3 DEF Read, Answered, Lost, Settled, settings
<1>4. CASE ListFetched \/ CloseForm \/ \E p \in Providers : OpenForm(p)
  BY <1>1, <1>4 DEF ListFetched, CloseForm, OpenForm, settings
<1>5. CASE ToggleCleared \/ \E text \in Texts \cup {Blank} : TypeModel(text) \/ TypeSecret(text)
  BY <1>1, <1>5 DEF ToggleCleared, TypeModel, TypeSecret, Drafted, settings
<1>6. CASE \/ Save \/ SelectEnvironment
           \/ \E p \in Providers : SelectProvider(p) \/ PeerSends("activate", p, NoChanges)
           \/ \E p \in Providers, changes \in PeerChanges : PeerSends("save", p, changes)
           \/ PeerSends("deactivate", None, NoChanges)
  BY <1>1, <1>6 DEF Save, SelectEnvironment, SelectProvider, PeerSends, Request, settings
<1>7. CASE UNCHANGED vars
  BY <1>1, <1>7 DEF vars, settings
<1>8. QED
  BY <1>2, <1>3, <1>4, <1>5, <1>6, <1>7 DEF Next

\* However activations, deactivations and saves overlap, one provider is active at most
\* (set_active_provider and the partial unique index it relies on).
THEOREM OneProviderActive == Spec => []OneActive
BY InitOneActive, NextOneActive, PTL DEF Spec

-----------------------------------------------------------------------------
(* The radios and their failures *)

\* The requests have the fields whose updates are followed below.
IsRequest(r) == {"own", "kind", "stage"} \subseteq DOMAIN r
RequestsAre ==
  /\ sent \in Nat /\ DOMAIN requests \subseteq 1..sent
  /\ \A n \in DOMAIN requests : IsRequest(requests[n])

\* A radio of this tab is waiting for its request.
OfRadio(r) == r.own /\ r.kind # "save"
RadioWaits(r) ==
  IF r.kind = "activate" THEN activation = "pending" /\ deactivation = "idle"
  ELSE deactivation = "pending" /\ activation = "idle"

\* The inductive invariant: only this tab's requests are answered, and the one of its radios
\* under way, if any, is what the outcomes show.
RadioInv ==
  /\ RequestsAre
  /\ FailureIsOfLast
  /\ \A n \in DOMAIN requests : requests[n].stage = "answering" => requests[n].own
  /\ \A n \in DOMAIN requests : requests[n].kind \in {"save", "activate", "deactivate"}
  /\ \A n \in DOMAIN requests : OfRadio(requests[n]) => RadioWaits(requests[n])
  /\ \A m, n \in DOMAIN requests : OfRadio(requests[m]) /\ OfRadio(requests[n]) => m = n

\* Nothing is under way when the screen opens.
LEMMA InitRadio == Init => RadioInv
BY DEF Init, RadioInv, RequestsAre, FailureIsOfLast

\* Requests that keep their owner and kind, or go, keep the invariant while the radios do not
\* change.
LEMMA RadioKept ==
  ASSUME RadioInv, UNCHANGED <<radios, sent>>, DOMAIN requests' \subseteq DOMAIN requests,
         \A n \in DOMAIN requests' :
            /\ IsRequest(requests'[n])
            /\ requests'[n].own = requests[n].own /\ requests'[n].kind = requests[n].kind
            /\ requests'[n].stage = "answering" => requests[n].own
  PROVE  RadioInv'
<1>1. RequestsAre'
  BY DEF RadioInv, RequestsAre
<1>2. QED
  BY <1>1 DEF RadioInv, OfRadio, RadioWaits, FailureIsOfLast, radios

\* A request joins those under way, and it is not of a radio, or its radio has just been used.
LEMMA RadioAsked ==
  ASSUME RadioInv, NEW kind \in {"save", "activate", "deactivate"}, NEW p, NEW changes, NEW own \in BOOLEAN,
         Request(kind, p, changes, own),
         \/ ~(own /\ kind # "save") /\ UNCHANGED radios
         \/ /\ own /\ kind = "activate" /\ ~ChangingActive
            /\ activation' = "pending" /\ deactivation' = "idle"
         \/ /\ own /\ kind = "deactivate" /\ ~ChangingActive
            /\ deactivation' = "pending" /\ activation' = "idle"
  PROVE  RadioInv'
<1> DEFINE new == NewRequest(kind, p, changes, own)
<1>0. /\ sent + 1 \notin DOMAIN requests /\ sent' \in Nat
      /\ DOMAIN requests \cup {sent + 1} \subseteq 1..sent'
  BY DEF RadioInv, RequestsAre, Request
<1>1. /\ new.own = own /\ new.kind = kind /\ new.stage = "sent" /\ IsRequest(new)
  BY DEF NewRequest, IsRequest
<1> HIDE DEF new
<1>2. /\ DOMAIN requests' = DOMAIN requests \cup {sent + 1}
      /\ requests'[sent + 1] = new
      /\ \A n \in DOMAIN requests : requests'[n] = requests[n]
  BY <1>0 DEF Request, new
<1>3. RequestsAre'
  BY <1>0, <1>1, <1>2 DEF RadioInv, RequestsAre
<1>4. CASE ~(own /\ kind # "save") /\ UNCHANGED radios
  <2>1. ~OfRadio(new)
    BY <1>1, <1>4 DEF OfRadio
  <2>2. QED
    BY <1>0, <1>1, <1>2, <1>3, <1>4, <2>1 DEF RadioInv, OfRadio, RadioWaits, FailureIsOfLast, radios
<1>5. CASE ~ChangingActive
  <2>1. \A n \in DOMAIN requests : ~OfRadio(requests[n])
    BY <1>5 DEF RadioInv, RadioWaits, ChangingActive
  <2>2. QED
    BY <1>0, <1>1, <1>2, <1>3, <1>4, <2>1 DEF RadioInv, OfRadio, RadioWaits, FailureIsOfLast
<1>6. QED
  BY <1>4, <1>5

\* What the endpoints do with a request.
LEMMA ServedRadio ==
  ASSUME RadioInv, NEW n \in DOMAIN requests, NEW ok, Served(n, ok), UNCHANGED <<radios, sent>>
  PROVE  RadioInv'
<1>1. IsRequest(requests[n])
  BY DEF RadioInv, RequestsAre
<1>2. CASE requests[n].own
  <2>1. /\ DOMAIN requests' = DOMAIN requests
        /\ requests'[n] = [requests[n] EXCEPT !.stage = "answering", !.ok = ok]
        /\ \A m \in DOMAIN requests : m # n => requests'[m] = requests[m]
    BY <1>2 DEF Served
  <2>2. \A m \in DOMAIN requests :
          /\ IsRequest(requests'[m])
          /\ requests'[m].own = requests[m].own /\ requests'[m].kind = requests[m].kind
          /\ requests'[m].stage = "answering" => requests[m].own
    <3>1. \A m \in DOMAIN requests : m # n => IsRequest(requests[m]) /\ (requests[m].stage = "answering" => requests[m].own)
      BY DEF RadioInv, RequestsAre
    <3>2. /\ IsRequest(requests'[n])
          /\ requests'[n].own = requests[n].own /\ requests'[n].kind = requests[n].kind
      BY <1>1, <2>1 DEF IsRequest
    <3>3. QED
      BY <1>2, <2>1, <3>1, <3>2
  <2>3. QED
    BY <2>1, <2>2, RadioKept
<1>3. CASE ~requests[n].own
  BY <1>3, RadioKept DEF Served, Without, RadioInv, RequestsAre
<1>4. QED
  BY <1>2, <1>3

LEMMA EndpointRadio ==
  ASSUME RadioInv, NEW n \in DOMAIN requests, Read(n) \/ Write(n)
  PROVE  RadioInv'
<1>1. UNCHANGED <<radios, sent>>
  BY DEF Read, Write
<1>2. CASE \E ok : Served(n, ok)
  BY <1>1, <1>2, ServedRadio
<1>3. CASE Read(n) /\ ~Refused(requests[n])
  <2>1. /\ DOMAIN requests' = DOMAIN requests
        /\ \A m \in DOMAIN requests : m # n => requests'[m] = requests[m]
    BY <1>3 DEF Read
  <2>2. IsRequest(requests[n])
    BY DEF RadioInv, RequestsAre
  <2>3. /\ IsRequest(requests'[n]) /\ requests'[n].stage = "read"
        /\ requests'[n].own = requests[n].own /\ requests'[n].kind = requests[n].kind
    BY <1>3, <2>2 DEF Read, IsRequest
  <2>4. QED
    BY <1>1, <2>1, <2>3, RadioKept DEF RadioInv, RequestsAre
<1>4. QED
  BY <1>2, <1>3 DEF Read, Write, Saved, Switched

\* An answer takes the request away and, of a radio, is the outcome shown.
LEMMA SettledRadio ==
  ASSUME RadioInv, NEW n \in DOMAIN requests, NEW ok, requests[n].own, Settled(n, ok)
  PROVE  RadioInv'
<1>1. /\ DOMAIN requests' = DOMAIN requests \ {n}
      /\ \A m \in DOMAIN requests' : requests'[m] = requests[m]
      /\ UNCHANGED sent
  BY DEF Settled, Without
<1>2. RequestsAre'
  BY <1>1 DEF RadioInv, RequestsAre
<1>3. CASE requests[n].kind = "save"
  BY <1>1, <1>2, <1>3, RadioKept DEF Settled, radios, RadioInv, RequestsAre
<1>4. CASE OfRadio(requests[n])
  <2>1. \A m \in DOMAIN requests' : ~OfRadio(requests[m])
    BY <1>1, <1>4 DEF RadioInv
  <2>2. FailureIsOfLast'
    BY <1>4 DEF Settled, RadioInv, OfRadio, RadioWaits, FailureIsOfLast
  <2>3. QED
    BY <1>1, <1>2, <2>1, <2>2 DEF RadioInv, OfRadio
<1>5. QED
  BY <1>3, <1>4 DEF OfRadio

\* Every step keeps the invariant.
LEMMA NextRadio == RadioInv /\ [Next]_vars => RadioInv'
<1> SUFFICES ASSUME RadioInv, [Next]_vars PROVE RadioInv'
  OBVIOUS
<1>1. CASE UNCHANGED <<radios, requests, sent>>
  BY <1>1, RadioKept DEF RadioInv, RequestsAre
<1>2. CASE ListFetched \/ \E p \in Providers : OpenForm(p)
  BY <1>1, <1>2 DEF ListFetched, OpenForm
<1>3. CASE ToggleCleared \/ \E text \in Texts \cup {Blank} : TypeModel(text) \/ TypeSecret(text)
  BY <1>1, <1>3 DEF ToggleCleared, TypeModel, TypeSecret, Drafted
<1>4. CASE CloseForm
  <2>1. /\ DOMAIN requests' = DOMAIN requests
        /\ \A n \in DOMAIN requests : requests'[n] = [requests[n] EXCEPT !.tracked = FALSE]
    BY <1>4 DEF CloseForm
  <2>2. \A n \in DOMAIN requests :
          /\ IsRequest(requests'[n])
          /\ requests'[n].own = requests[n].own /\ requests'[n].kind = requests[n].kind
          /\ requests'[n].stage = requests[n].stage
    BY <2>1 DEF RadioInv, RequestsAre, IsRequest
  <2>3. QED
    BY <1>4, <2>1, <2>2, RadioKept DEF CloseForm, RadioInv
<1>5. ASSUME NEW kind \in {"save", "activate", "deactivate"}, NEW p, NEW changes,
             PeerSends(kind, p, changes)
      PROVE  RadioInv'
  BY <1>5, RadioAsked DEF PeerSends
<1>6. CASE Save
  BY <1>6, RadioAsked DEF Save
<1>7. ASSUME NEW p \in Providers, SelectProvider(p) PROVE RadioInv'
  BY <1>7, RadioAsked DEF SelectProvider
<1>8. CASE SelectEnvironment
  BY <1>8, RadioAsked DEF SelectEnvironment
<1>9. ASSUME NEW n \in DOMAIN requests, Read(n) \/ Write(n) PROVE RadioInv'
  BY <1>9, EndpointRadio
<1>10. ASSUME NEW n \in DOMAIN requests, Answered(n) \/ Lost(n) PROVE RadioInv'
  BY <1>10, SettledRadio DEF Answered, Lost, RadioInv
<1>11. CASE UNCHANGED vars
  BY <1>1, <1>11 DEF vars
<1>12. QED
  BY <1>2, <1>3, <1>4, <1>5, <1>6, <1>7, <1>8, <1>9, <1>10, <1>11 DEF Next

\* The failure above the table is of the last choice made, whatever is lost, refused or
\* overtaken by the other Administrator (selectProvider and selectEnvironment).
THEOREM FailureOfLastChoice == Spec => []FailureIsOfLast
<1>1. Spec => []RadioInv
  BY InitRadio, NextRadio, PTL DEF Spec
<1>2. RadioInv => FailureIsOfLast
  BY DEF RadioInv
<1>3. QED
  BY <1>1, <1>2, PTL

-----------------------------------------------------------------------------
(* What the table settles on *)

\* The inductive invariant: the audit only grows, and this tab is told of a part of it.
TableInv ==
  /\ \E S : audit \in Seq(S)
  /\ told \in Nat /\ told <= Len(audit) /\ listDue \in BOOLEAN
  /\ TableSettles

\* The events of a save are in some order: SetToSeq gives a sequence of a finite set.
LEMMA SetToSeqIsSeq == ASSUME NEW S, IsFiniteSet(S) PROVE SetToSeq(S) \in Seq(S)
<1>1. Cardinality(S) \in Nat /\ ExistsBijection(1..Cardinality(S), S)
  BY FS_CardinalityType
<1>2. \E f \in [1..Cardinality(S) -> S] : IsInjective(f)
  BY <1>1 DEF ExistsBijection, Bijection, Injection, IsInjective
<1>3. SetToSeq(S) \in [1..Cardinality(S) -> S]
  BY <1>2 DEF SetToSeq
<1>4. QED
  BY <1>1, <1>3

\* A longer audit is an audit.
LEMMA AuditGrows ==
  ASSUME NEW S, NEW T, NEW s \in Seq(S), NEW t \in Seq(T)
  PROVE  s \o t \in Seq(S \cup T) /\ Len(s) <= Len(s \o t)
<1>1. s \in Seq(S \cup T) /\ t \in Seq(S \cup T)
  OBVIOUS
<1>2. QED
  BY <1>1

\* What a save changes is finite.
LEMMA ChangedFinite ==
  ASSUME NEW r PROVE IsFiniteSet({Event(r.of, name, r.changes[name]) : name \in Changed(r)})
<1> DEFINE E(name) == Event(r.of, name, r.changes[name])
<1> HIDE DEF E
<1>1. IsFiniteSet({E("apiKey")} \cup {E("model")})
  BY FS_Singleton, FS_AddElement
<1>2. Changed(r) \subseteq {"apiKey", "model"}
  BY DEF Changed, Parameters
<1>3. {E(name) : name \in Changed(r)} \subseteq {E("apiKey")} \cup {E("model")}
  BY <1>2
<1>4. QED
  BY <1>1, <1>3, FS_Subset DEF E

LEMMA InitTable == Init => TableInv
BY DEF Init, TableInv, TableSettles

\* A commit makes the audit longer, if anything.
LEMMA WriteGrows ==
  ASSUME \E S : audit \in Seq(S), NEW n \in DOMAIN requests, Write(n)
  PROVE  (\E S : audit' \in Seq(S)) /\ Len(audit) <= Len(audit')
<1> PICK S : audit \in Seq(S)
  OBVIOUS
<1>1. CASE UNCHANGED audit
  BY <1>1
<1>2. CASE \E of : audit' = Append(audit, Event(None, "active", of))
  <2>1. PICK of : audit' = Append(audit, Event(None, "active", of))
    BY <1>2
  <2>2. audit' = audit \o <<Event(None, "active", of)>>
    BY <2>1
  <2>3. <<Event(None, "active", of)>> \in Seq({Event(None, "active", of)})
    OBVIOUS
  <2>4. QED
    BY <2>2, <2>3, AuditGrows
<1>3. CASE audit' = audit \o SetToSeq({Event(requests[n].of, name, requests[n].changes[name]) :
                                          name \in Changed(requests[n])})
  BY <1>3, ChangedFinite, SetToSeqIsSeq, AuditGrows
<1>4. QED
  BY <1>1, <1>2, <1>3 DEF Write, Saved, Switched, settings

\* Every step keeps it: what is told is in the audit, and then the list is fetched again.
LEMMA NextTable == TableInv /\ [Next]_vars => TableInv'
<1> SUFFICES ASSUME TableInv, [Next]_vars PROVE TableInv'
  OBVIOUS
<1>1. CASE UNCHANGED <<audit, told, list, listDue>>
  BY <1>1 DEF TableInv, TableSettles
<1>2. CASE ListFetched
  BY <1>2 DEF ListFetched, Listing, TableInv, TableSettles, settings
<1>3. CASE CloseForm \/ \E p \in Providers : OpenForm(p)
  BY <1>1, <1>3 DEF CloseForm, OpenForm, settings
<1>4. CASE ToggleCleared \/ \E text \in Texts \cup {Blank} : TypeModel(text) \/ TypeSecret(text)
  BY <1>1, <1>4 DEF ToggleCleared, TypeModel, TypeSecret, Drafted, settings
<1>5. CASE \/ Save \/ SelectEnvironment
           \/ \E p \in Providers : SelectProvider(p) \/ PeerSends("activate", p, NoChanges)
           \/ \E p \in Providers, changes \in PeerChanges : PeerSends("save", p, changes)
           \/ PeerSends("deactivate", None, NoChanges)
  BY <1>1, <1>5 DEF Save, SelectEnvironment, SelectProvider, PeerSends, Request, settings
<1>6. ASSUME NEW n \in DOMAIN requests, Read(n) PROVE TableInv'
  BY <1>1, <1>6 DEF Read, settings
<1>7. ASSUME NEW n \in DOMAIN requests, Write(n) PROVE TableInv'
  <2>1. (\E S : audit' \in Seq(S)) /\ Len(audit) <= Len(audit')
    BY <1>7, WriteGrows DEF TableInv
  <2>2. Len(audit) \in Nat /\ Len(audit') \in Nat
    BY <2>1 DEF TableInv
  <2>3. UNCHANGED <<told, list, listDue>>
    BY <1>7 DEF Write
  <2>4. QED
    BY <2>1, <2>2, <2>3 DEF TableInv, TableSettles
<1>8. ASSUME NEW n \in DOMAIN requests, Answered(n) PROVE TableInv'
  <2> DEFINE again == Refreshes(requests[n], requests[n].ok)
  <2>1. UNCHANGED <<audit, list>> /\ listDue' = (listDue \/ again)
    BY <1>8 DEF Answered, Settled, settings
  <2>2. told' = IF again THEN Len(audit) ELSE told
    BY <1>8 DEF Answered, Refreshes
  <2>3. again \in BOOLEAN
    BY DEF Refreshes
  <2> HIDE DEF again
  <2>4. CASE again
    <3>1. told' = Len(audit) /\ listDue' = TRUE
      BY <2>1, <2>2, <2>3, <2>4
    <3>2. Len(audit) \in Nat
      BY DEF TableInv
    <3>3. QED
      BY <2>1, <3>1, <3>2 DEF TableInv, TableSettles
  <2>5. CASE ~again
    BY <2>1, <2>2, <2>3, <2>5 DEF TableInv, TableSettles
  <2>6. QED
    BY <2>4, <2>5
<1>9. ASSUME NEW n \in DOMAIN requests, Lost(n) PROVE TableInv'
  <2>1. /\ UNCHANGED <<audit, told, list>>
        /\ listDue' = (listDue \/ Refreshes(requests[n], FALSE))
    BY <1>9 DEF Lost, Settled, settings
  <2>2. Refreshes(requests[n], FALSE) \in BOOLEAN
    BY DEF Refreshes
  <2>3. QED
    BY <2>1, <2>2 DEF TableInv, TableSettles
<1>10. CASE UNCHANGED vars
  BY <1>1, <1>10 DEF vars, settings
<1>11. QED
  BY <1>2, <1>3, <1>4, <1>5, <1>6, <1>7, <1>8, <1>9, <1>10 DEF Next

\* Once there is nothing to fetch, the table is no older than the last answer to a choice
\* (onSettled of useActivateLlmProvider and useDeactivateLlmProvider).
THEOREM TableIsSettled == Spec => []TableSettles
<1>1. Spec => []TableInv
  BY InitTable, NextTable, PTL DEF Spec
<1>2. TableInv => TableSettles
  BY DEF TableInv
<1>3. QED
  BY <1>1, <1>2, PTL
=============================================================================
