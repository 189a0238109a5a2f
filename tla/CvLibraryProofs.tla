--------------------------- MODULE CvLibraryProofs ---------------------------
(***************************************************************************)
(* Proofs about CvLibrary, for every number of CVs, editions, requests,    *)
(* clicks and lapses, whatever the other tab is let to do.                 *)
(***************************************************************************)
EXTENDS CvLibrary, SequenceTheorems, TLAPS

-----------------------------------------------------------------------------
(* The Replace form *)

\* The inductive invariant: the form was opened on the CV of the panel, or is not open.
PanelInv ==
  /\ {"cv", "replacing", "confirming"} \subseteq DOMAIN panel
  /\ panel.replacing \in {None, panel.cv}

LEMMA InitPanel == Init => PanelInv
<1> SUFFICES ASSUME Init PROVE PanelInv
  OBVIOUS
<1>1. {"cv", "replacing", "confirming"} \subseteq DOMAIN Closed /\ Closed.replacing = None
  BY DEF Closed
<1>2. panel = Closed \/ \E i \in DOMAIN cvs : panel = [Closed EXCEPT !.cv = i]
  BY DEF Init
<1>3. QED
  BY <1>1, <1>2 DEF PanelInv

\* The panel shows another CV only when it opens, closed before, or when the answer of a
\* replace moves it, which closes the form.
LEMMA NextPanel == PanelInv /\ [Next]_vars => PanelInv'
<1> SUFFICES ASSUME PanelInv, [Next]_vars PROVE PanelInv'
  OBVIOUS
<1>1. CASE UNCHANGED panel
  BY <1>1 DEF PanelInv
<1>2. CASE panel' = Closed
  BY <1>2 DEF PanelInv, Closed
<1>3. CASE OpenList \/ Leave \/ FollowWarning \/ \E i \in Ids : OpenEditor(i)
  BY <1>2, <1>3 DEF OpenList, Leave, FollowWarning, OpenEditor, Mounts
<1>4. CASE InThePanel
  BY <1>2, <1>4 DEF InThePanel, ClosePanel, OpenReplace, CancelReplace, AskConfirm, CancelDelete,
                    InPanel, PanelInv
<1>5. ASSUME NEW i \in Ids, OpenPanel(i) PROVE PanelInv'
  BY <1>5 DEF OpenPanel, TableShown, InPanel, PanelInv
<1>6. CASE InTheEditor
  BY <1>1, <1>6 DEF InTheEditor, StartEditing, Type, CancelEditing, Save, CancelSave, InEditor
<1>7. CASE Refresh \/ ListFetched \/ \E i \in Ids : TextFetched(i) \/ Conversion(i)
  BY <1>1, <1>7 DEF Refresh, ListFetched, TextFetched, Conversion, ui
<1>8. CASE \/ SubmitReplace \/ ConfirmDelete \/ ConfirmSave
           \/ \E i \in Ids : Convert(i) \/ SetDefault(i) \/ \E k \in Kinds : OtherSends(k, i)
  BY <1>1, <1>8 DEF SubmitReplace, ConfirmDelete, ConfirmSave, Convert, SetDefault, OtherSends, Sends,
                    ui
<1>9. ASSUME NEW n \in DOMAIN asks,
             \/ ServerReads(n) \/ ServerWrites(n) \/ ConvertServed(n) \/ SaveServed(n)
             \/ FileStored(n) \/ ReplaceConverted(n) \/ Fails(n)
      PROVE  PanelInv'
  BY <1>1, <1>9 DEF ServerReads, ServerWrites, ConvertServed, SaveServed, FileStored,
                    ReplaceConverted, Fails, ui
<1>10. ASSUME NEW n \in DOMAIN asks, Answered(n) PROVE PanelInv'
  <2>1. panel' \in {panel, Closed, MovedTo(asks[n].new)}
    BY <1>10 DEF Answered, Callback
  <2>2. CASE panel' = MovedTo(asks[n].new)
    BY <2>2 DEF MovedTo, PanelInv
  <2>3. QED
    BY <1>1, <1>2, <2>1, <2>2
<1>11. CASE UNCHANGED vars
  BY <1>1, <1>11 DEF vars, ui
<1>12. QED
  BY <1>3, <1>4, <1>5, <1>6, <1>7, <1>8, <1>9, <1>10, <1>11 DEF Next

\* Whenever the answer of a replace moves the panel, the label filled in for one CV is never
\* sent for another (CvReplaceForm in cv-version-panel.tsx).
THEOREM FormOfItsCv == Spec => []FormIsOfItsCv
<1>1. Spec => []PanelInv
  BY InitPanel, NextPanel, PTL DEF Spec
<1>2. PanelInv => FormIsOfItsCv
  BY DEF PanelInv, FormIsOfItsCv, FormShown
<1>3. QED
  BY <1>1, <1>2, PTL

-----------------------------------------------------------------------------
(* What the edit page shows of a save *)

\* The rows, and that no text is newer than the last edition.
RowsInv ==
  /\ cvs \in Seq(CvVersion) /\ Len(cvs) <= MaxCvs
  /\ edition \in Editions
  /\ \A i \in DOMAIN cvs : cvs[i].text <= edition

\* A save that was served wrote a text that the row has, or one that came before it; only a
\* replace uploads.
Honest(a, versions) ==
  /\ {"kind", "cv", "own", "tracked", "stage", "ok", "read", "new", "base"} \subseteq DOMAIN a
  /\ a.ok \in BOOLEAN
  /\ a.stage \in {"uploading", "converting"} => a.kind = "replace"
  /\ a.ok /\ a.kind = "save" => a.cv \in DOMAIN versions /\ a.base \in Editions /\ a.base <= versions[a.cv].text

AsksInv == (\E S : asks \in Seq(S)) /\ \A n \in DOMAIN asks : Honest(asks[n], cvs)

\* What this tab was told it saved is in the row, and in a rendition that is not due.
WrittenInv ==
  /\ texts \in [Ids -> Editions] /\ written \in [Ids -> Editions] /\ textsDue \subseteq Ids
  /\ \A i \in Ids : IF i \in DOMAIN cvs THEN written[i] <= cvs[i].text ELSE written[i] = 0
  /\ \A i \in Ids \ textsDue : i \in DOMAIN cvs /\ cvs[i].live => written[i] <= texts[i]

LibraryInv == RowsInv /\ AsksInv /\ WrittenInv

\* What any step does to the rows: none is lost or comes back, and no text gets older.
RowsMove ==
  /\ DOMAIN cvs \subseteq DOMAIN cvs'
  /\ \A i \in DOMAIN cvs : /\ cvs[i].text <= cvs'[i].text
                           /\ cvs'[i].live => cvs[i].live

\* The two rows to start with.
LEMMA Pair ==
  ASSUME NEW S, NEW p \in S, NEW q \in S
  PROVE  /\ <<p, q>> \in Seq(S) /\ Len(<<p, q>>) = 2 /\ DOMAIN <<p, q>> = 1..2
         /\ <<p, q>>[1] = p /\ <<p, q>>[2] = q
OBVIOUS

LEMMA InitLibrary == Init => LibraryInv
<1> SUFFICES ASSUME Init PROVE LibraryInv
  OBVIOUS
<1>1. MaxCvs \in Nat /\ MaxCvs >= 2 /\ MaxEditions \in Nat /\ MaxEditions >= 2
  BY LibraryAssumption
<1>2. Row(TRUE, 1) \in CvVersion /\ Row(FALSE, 2) \in CvVersion
  BY <1>1 DEF Row, CvVersion, Statuses, Editions, Ids, None
<1>3. cvs = <<Row(TRUE, 1), Row(FALSE, 2)>> /\ edition = 2
  BY DEF Init
<1>4. Row(TRUE, 1).text = 1 /\ Row(FALSE, 2).text = 2
  BY DEF Row
<1> HIDE DEF Row
<1>5. cvs \in Seq(CvVersion) /\ Len(cvs) = 2 /\ DOMAIN cvs = 1..2 /\ cvs[1].text = 1 /\ cvs[2].text = 2
  <2> DEFINE p == Row(TRUE, 1)
             q == Row(FALSE, 2)
  <2>1. p \in CvVersion /\ q \in CvVersion /\ p.text = 1 /\ q.text = 2 /\ cvs = <<p, q>>
    BY <1>2, <1>3, <1>4
  <2> HIDE DEF p, q
  <2>2. QED
    BY <2>1, Pair
<1>6. \A i \in DOMAIN cvs : cvs[i].text <= 2
  <2>1. \A i \in 1..2 : i = 1 \/ i = 2
    OBVIOUS
  <2>2. QED
    BY <1>5, <2>1
<1>7. \A i \in 1..2 : i = 1 \/ i = 2
  OBVIOUS
<1> USE DEF Editions
<1>8. RowsInv
  <2>1. Len(cvs) <= MaxCvs
    BY <1>1, <1>5
  <2>2. edition \in Editions
    BY <1>1, <1>3
  <2>3. \A i \in DOMAIN cvs : cvs[i].text <= edition
    BY <1>3, <1>6
  <2>4. QED
    BY <1>5, <2>1, <2>2, <2>3 DEF RowsInv
<1>9. AsksInv
  BY DEF Init, AsksInv
<1>10. texts = [i \in Ids |-> IF i \in DOMAIN cvs THEN cvs[i].text ELSE 0] /\ textsDue = Ids \ DOMAIN cvs
       /\ written = [i \in Ids |-> 0]
  BY DEF Init
<1>11. texts \in [Ids -> Editions] /\ written \in [Ids -> Editions]
  BY <1>1, <1>5, <1>7, <1>10
<1>12. \A i \in Ids : IF i \in DOMAIN cvs THEN written[i] <= cvs[i].text ELSE written[i] = 0
  BY <1>5, <1>7, <1>10
<1>13. \A i \in Ids : written[i] <= texts[i]
  BY <1>1, <1>10, <1>11
<1>14. WrittenInv
  BY <1>10, <1>11, <1>12, <1>13 DEF WrittenInv
<1>15. QED
  BY <1>8, <1>9, <1>14 DEF LibraryInv

\* Removing a request leaves requests there were.
LEMMA RemovedAsk ==
  ASSUME NEW S, NEW s \in Seq(S), NEW n \in DOMAIN s
  PROVE  RemoveAt(s, n) \in Seq({s[m] : m \in DOMAIN s})
<1> DEFINE R == {s[m] : m \in DOMAIN s}
<1>1. Len(s) \in Nat /\ n \in 1..Len(s) /\ DOMAIN s = 1..Len(s)
  OBVIOUS
<1>2. \A m \in 1..Len(s) : s[m] \in R
  BY <1>1
<1> HIDE DEF R
<1>3. SubSeq(s, 1, n - 1) \in Seq(R)
  BY <1>1, <1>2, SubSeqProperties
<1>4. SubSeq(s, n + 1, Len(s)) \in Seq(R)
  BY <1>1, <1>2, SubSeqProperties
<1>5. RemoveAt(s, n) \in Seq(R)
  BY <1>3, <1>4, ConcatProperties DEF RemoveAt
<1>6. QED
  BY <1>5 DEF R

\* Requests stay honest while the rows only move on.
LEMMA HonestStays ==
  ASSUME RowsInv, RowsInv', RowsMove, NEW a, Honest(a, cvs)
  PROVE  Honest(a, cvs')
<1>1. a.ok /\ a.kind = "save" => a.cv \in DOMAIN cvs /\ a.base <= cvs[a.cv].text
  BY DEF Honest
<1>2. \A i \in DOMAIN cvs : cvs[i].text \in Nat
  <2>1. \A v \in CvVersion : v.text \in Nat
    BY LibraryAssumption DEF CvVersion, Editions
  <2>2. QED
    BY <2>1 DEF RowsInv
<1>3. \A i \in DOMAIN cvs' : cvs'[i].text \in Nat
  <2>1. \A v \in CvVersion : v.text \in Nat
    BY LibraryAssumption DEF CvVersion, Editions
  <2>2. QED
    BY <2>1 DEF RowsInv
<1>4. a.ok /\ a.kind = "save" => a.base \in Nat
  BY LibraryAssumption DEF Honest, Editions
<1>5. a.ok /\ a.kind = "save" => a.cv \in DOMAIN cvs' /\ a.base <= cvs'[a.cv].text
  BY <1>1, <1>2, <1>3, <1>4 DEF RowsMove
<1>6. QED
  BY <1>5 DEF Honest

\* A step that leaves the requests, or takes one away.
LEMMA AsksStay ==
  ASSUME RowsInv, RowsInv', RowsMove, AsksInv,
         asks' = asks \/ \E n \in DOMAIN asks : asks' = RemoveAt(asks, n)
  PROVE  AsksInv'
<1> PICK S : asks \in Seq(S)
  BY DEF AsksInv
<1>1. \A m \in DOMAIN asks : Honest(asks[m], cvs')
  BY HonestStays DEF AsksInv
<1>2. CASE asks' = asks
  BY <1>1, <1>2 DEF AsksInv
<1>3. ASSUME NEW n \in DOMAIN asks, asks' = RemoveAt(asks, n) PROVE AsksInv'
  <2>1. asks' \in Seq({asks[m] : m \in DOMAIN asks})
    BY <1>3, RemovedAsk
  <2>2. \A k \in DOMAIN asks' : asks'[k] \in {asks[m] : m \in DOMAIN asks}
    BY <2>1
  <2>3. \A k \in DOMAIN asks' : Honest(asks'[k], cvs')
    BY <1>1, <2>2
  <2>4. QED
    BY <2>1, <2>3 DEF AsksInv
<1>4. QED
  BY <1>2, <1>3

\* A request written over by an honest one.
LEMMA AskWritten ==
  ASSUME RowsInv, RowsInv', RowsMove, AsksInv, NEW n \in DOMAIN asks, NEW b, Honest(b, cvs'),
         asks' = [asks EXCEPT ![n] = b]
  PROVE  AsksInv'
<1> PICK S : asks \in Seq(S)
  BY DEF AsksInv
<1>1. asks' \in [DOMAIN asks -> S \cup {b}] /\ DOMAIN asks = 1..Len(asks) /\ Len(asks) \in Nat
  OBVIOUS
<1>2. asks' \in Seq(S \cup {b})
  BY <1>1
<1>3. \A m \in DOMAIN asks : Honest(asks[m], cvs')
  BY HonestStays DEF AsksInv
<1>4. \A m \in DOMAIN asks' : asks'[m] = asks[m] \/ asks'[m] = b
  OBVIOUS
<1>5. DOMAIN asks' = DOMAIN asks
  OBVIOUS
<1>6. QED
  BY <1>2, <1>3, <1>4, <1>5 DEF AsksInv

\* An answer: that of a save is of a text the row has.
LEMMA ServedAsks ==
  ASSUME RowsInv, RowsInv', RowsMove, AsksInv, NEW n \in DOMAIN asks, NEW ok \in BOOLEAN,
         NEW base \in Editions, Served(n, ok, base),
         ok /\ asks[n].kind = "save" =>
           asks[n].cv \in DOMAIN cvs' /\ base <= cvs'[asks[n].cv].text
  PROVE  AsksInv'
<1>1. CASE asks' = RemoveAt(asks, n)
  BY <1>1, AsksStay
<1>2. CASE asks' = [asks EXCEPT ![n].stage = "answering", ![n].ok = ok, ![n].base = base, ![n].read = {}]
  <2> DEFINE b == [asks[n] EXCEPT !.stage = "answering", !.ok = ok, !.base = base, !.read = {}]
  <2>1. asks' = [asks EXCEPT ![n] = b]
    BY <1>2
  <2>2. Honest(asks[n], cvs)
    BY DEF AsksInv
  <2>3. /\ DOMAIN b = DOMAIN asks[n] /\ b.ok = ok /\ b.base = base /\ b.stage = "answering"
        /\ b.kind = asks[n].kind /\ b.cv = asks[n].cv
    BY <2>2 DEF Honest
  <2> HIDE DEF b
  <2>4. Honest(b, cvs')
    BY <2>2, <2>3 DEF Honest
  <2>5. QED
    BY <2>1, <2>4, AskWritten
<1>3. QED
  BY <1>1, <1>2 DEF Served

\* What was told and shown stays so while the rows only move on.
LEMMA WrittenStays ==
  ASSUME RowsInv, RowsInv', RowsMove, WrittenInv, UNCHANGED <<texts, textsDue, written>>
  PROVE  WrittenInv'
<1>1. \A v \in CvVersion : v.text \in Nat
  BY LibraryAssumption DEF CvVersion, Editions
<1>2. \A i \in DOMAIN cvs : cvs[i].text \in Nat
  BY <1>1 DEF RowsInv
<1>3. \A i \in DOMAIN cvs' : cvs'[i].text \in Nat
  BY <1>1 DEF RowsInv
<1>4. \A i \in Ids : written[i] \in Nat /\ texts[i] \in Nat
  BY LibraryAssumption DEF WrittenInv, Editions
<1>5. \A i \in Ids : IF i \in DOMAIN cvs' THEN written[i] <= cvs'[i].text ELSE written[i] = 0
  BY <1>2, <1>3, <1>4 DEF WrittenInv, RowsMove
<1>6. \A i \in Ids \ textsDue : i \in DOMAIN cvs' /\ cvs'[i].live => written[i] <= texts[i]
  <2> SUFFICES ASSUME NEW i \in Ids \ textsDue, i \in DOMAIN cvs', cvs'[i].live
               PROVE  written[i] <= texts[i]
    OBVIOUS
  <2>1. CASE i \in DOMAIN cvs
    BY <2>1 DEF WrittenInv, RowsMove
  <2>2. CASE i \notin DOMAIN cvs
    BY <1>4, <2>2 DEF WrittenInv
  <2>3. QED
    BY <2>1, <2>2
<1>7. QED
  BY <1>5, <1>6 DEF WrittenInv

\* Rows written over in place.
LEMMA Rewritten ==
  ASSUME RowsInv, edition' \in Editions, edition <= edition',
         cvs' = [i \in DOMAIN cvs |-> cvs'[i]],
         \A i \in DOMAIN cvs : /\ cvs'[i] \in CvVersion
                               /\ cvs[i].text <= cvs'[i].text /\ cvs'[i].text <= edition'
                               /\ cvs'[i].live => cvs[i].live
  PROVE  RowsInv' /\ RowsMove
<1>1. Len(cvs) \in Nat /\ DOMAIN cvs = 1..Len(cvs) /\ DOMAIN cvs' = DOMAIN cvs
  BY DEF RowsInv
<1>2. cvs' \in [1..Len(cvs) -> CvVersion]
  BY <1>1
<1>3. cvs' \in Seq(CvVersion) /\ Len(cvs') = Len(cvs)
  BY <1>1, <1>2
<1>4. QED
  BY <1>1, <1>3 DEF RowsInv, RowsMove

\* One row written over.
LEMMA OneWritten ==
  ASSUME RowsInv, edition' \in Editions, edition <= edition', NEW i \in DOMAIN cvs,
         NEW v \in CvVersion, cvs' = [cvs EXCEPT ![i] = v],
         cvs[i].text <= v.text, v.text <= edition', v.live => cvs[i].live
  PROVE  RowsInv' /\ RowsMove
<1>1. \A u \in CvVersion : u.text \in Nat
  BY LibraryAssumption DEF CvVersion, Editions
<1>2. \A j \in DOMAIN cvs : cvs[j] \in CvVersion /\ cvs[j].text \in Nat /\ cvs[j].text <= edition
  BY <1>1 DEF RowsInv
<1>3. edition \in Nat /\ edition' \in Nat
  BY LibraryAssumption DEF RowsInv, Editions
<1>4. \A j \in DOMAIN cvs : cvs'[j] = IF j = i THEN v ELSE cvs[j]
  OBVIOUS
<1>5. cvs' = [j \in DOMAIN cvs |-> cvs'[j]]
  OBVIOUS
<1>6. \A j \in DOMAIN cvs : /\ cvs'[j] \in CvVersion
                            /\ cvs[j].text <= cvs'[j].text /\ cvs'[j].text <= edition'
                            /\ cvs'[j].live => cvs[j].live
  BY <1>1, <1>2, <1>3, <1>4
<1>7. QED
  BY <1>5, <1>6, Rewritten

\* A row has a text, which may be none.
LEMMA TextIsNat == \A v \in CvVersion : v.text \in Nat
BY LibraryAssumption DEF CvVersion, Editions

\* The rows, when neither they nor the edition change.
LEMMA RowsSame == RowsInv /\ UNCHANGED <<cvs, edition>> => RowsInv' /\ RowsMove
<1> SUFFICES ASSUME RowsInv, UNCHANGED <<cvs, edition>> PROVE RowsInv' /\ RowsMove
  OBVIOUS
<1>1. \A i \in DOMAIN cvs : cvs[i].text \in Nat
  BY TextIsNat DEF RowsInv
<1>2. QED
  BY <1>1 DEF RowsInv, RowsMove

\* A row written over without a new edition.
LEMMA FlagWritten ==
  ASSUME RowsInv, UNCHANGED edition, NEW i \in DOMAIN cvs, NEW v \in CvVersion,
         cvs' = [cvs EXCEPT ![i] = v], v.text = cvs[i].text, v.live => cvs[i].live
  PROVE  RowsInv' /\ RowsMove
<1>1. /\ edition \in Nat /\ edition' \in Editions /\ edition <= edition'
      /\ cvs[i].text <= edition'
  BY LibraryAssumption DEF RowsInv, Editions
<1>2. v.text \in Nat /\ cvs[i].text <= v.text /\ v.text <= edition'
  BY <1>1, TextIsNat
<1>3. QED
  BY <1>1, <1>2, OneWritten

\* The conversions, and the upload of a replace.
LEMMA StatusRows ==
  ASSUME RowsInv, UNCHANGED edition,
         \/ UNCHANGED cvs
         \/ \E i \in DOMAIN cvs : \/ \E st \in Statuses : cvs' = [cvs EXCEPT ![i].status = st]
                                  \/ cvs' = [cvs EXCEPT ![i].file = TRUE]
  PROVE  RowsInv' /\ RowsMove
<1>1. CASE UNCHANGED cvs
  BY <1>1, RowsSame
<1>2. \A i \in DOMAIN cvs : cvs[i] \in CvVersion
  BY DEF RowsInv
<1>3. ASSUME NEW i \in DOMAIN cvs, NEW st \in Statuses, cvs' = [cvs EXCEPT ![i].status = st]
      PROVE  RowsInv' /\ RowsMove
  <2> DEFINE v == [cvs[i] EXCEPT !.status = st]
  <2>1. cvs' = [cvs EXCEPT ![i] = v]
    BY <1>3
  <2>2. v \in CvVersion /\ v.text = cvs[i].text /\ v.live = cvs[i].live
    BY <1>2 DEF CvVersion
  <2> HIDE DEF v
  <2>3. QED
    BY <2>1, <2>2, FlagWritten
<1>4. ASSUME NEW i \in DOMAIN cvs, cvs' = [cvs EXCEPT ![i].file = TRUE]
      PROVE  RowsInv' /\ RowsMove
  <2> DEFINE v == [cvs[i] EXCEPT !.file = TRUE]
  <2>1. cvs' = [cvs EXCEPT ![i] = v]
    BY <1>4
  <2>2. v \in CvVersion /\ v.text = cvs[i].text /\ v.live = cvs[i].live
    BY <1>2 DEF CvVersion
  <2> HIDE DEF v
  <2>3. QED
    BY <2>1, <2>2, FlagWritten
<1>5. QED
  BY <1>1, <1>3, <1>4

\* A new edition of a text.
LEMMA NewEdition ==
  ASSUME RowsInv, NEW i \in DOMAIN cvs, edition < MaxEditions, edition' = edition + 1,
         NEW v, v \in CvVersion \/ edition + 1 \notin Editions, v.text = edition + 1,
         v.live = cvs[i].live, cvs' = [cvs EXCEPT ![i] = v]
  PROVE  RowsInv' /\ RowsMove /\ cvs'[i].text = edition + 1 /\ edition + 1 \in Editions
<1>1. edition \in Nat /\ MaxEditions \in Nat /\ edition + 1 \in Editions /\ edition <= edition'
  BY LibraryAssumption DEF RowsInv, Editions
<1>2. cvs[i].text <= edition /\ cvs[i].text \in Nat
  BY TextIsNat DEF RowsInv
<1>3. v \in CvVersion /\ cvs[i].text <= v.text /\ v.text <= edition'
  BY <1>1, <1>2
<1>4. RowsInv' /\ RowsMove
  BY <1>1, <1>3, OneWritten
<1>5. QED
  BY <1>1, <1>4

-----------------------------------------------------------------------------
(* The steps *)

\* A step of the server: the rows move, the requests stay honest, the caches wait.
LEMMA ServerStep ==
  ASSUME LibraryInv, RowsInv', RowsMove, AsksInv', UNCHANGED <<texts, textsDue, written>>
  PROVE  LibraryInv'
BY WrittenStays DEF LibraryInv

\* The request an answer is to keeps its kind, its CV and what it was answered.
LEMMA StageMoves ==
  ASSUME RowsInv, RowsInv', RowsMove, AsksInv, NEW n \in DOMAIN asks, NEW b,
         asks' = [asks EXCEPT ![n] = b], DOMAIN b = DOMAIN asks[n],
         b.ok = asks[n].ok, b.kind = asks[n].kind, b.cv = asks[n].cv, b.base = asks[n].base,
         b.stage \in {"uploading", "converting"} => b.kind = "replace"
  PROVE  AsksInv'
<1>1. Honest(asks[n], cvs')
  BY HonestStays DEF AsksInv
<1>2. Honest(b, cvs')
  BY <1>1 DEF Honest
<1>3. QED
  BY <1>2, AskWritten

LEMMA DefaultStep ==
  ASSUME LibraryInv, NEW n \in DOMAIN asks, DefaultWritten(n), UNCHANGED <<texts, textsDue, written>>
  PROVE  LibraryInv'
<1>1. /\ RowsInv /\ AsksInv /\ 0 \in Editions
      /\ edition \in Nat /\ edition' \in Editions /\ edition <= edition'
  BY LibraryAssumption DEF LibraryInv, RowsInv, Editions, DefaultWritten
<1>2. cvs' = [i \in DOMAIN cvs |-> cvs'[i]] /\ edition' = edition
  BY DEF DefaultWritten
<1>3. ASSUME NEW i \in DOMAIN cvs
      PROVE  /\ cvs'[i] \in CvVersion
             /\ cvs[i].text <= cvs'[i].text /\ cvs'[i].text <= edition'
             /\ cvs'[i].live => cvs[i].live
  <2>1. cvs[i] \in CvVersion /\ cvs[i].text \in Nat /\ cvs[i].text <= edition
    BY <1>1, TextIsNat DEF RowsInv
  <2>2. CASE cvs'[i] = cvs[i]
    BY <1>2, <2>1, <2>2
  <2>3. CASE cvs'[i] = [cvs[i] EXCEPT !.default = FALSE]
    <3>1. [cvs[i] EXCEPT !.default = FALSE] \in CvVersion /\ [cvs[i] EXCEPT !.default = FALSE].text = cvs[i].text
          /\ [cvs[i] EXCEPT !.default = FALSE].live = cvs[i].live
      BY <2>1 DEF CvVersion
    <3>2. QED
      BY <1>1, <1>2, <2>1, <2>3, <3>1
  <2>4. CASE cvs'[i] = [cvs[i] EXCEPT !.default = TRUE]
    <3>1. [cvs[i] EXCEPT !.default = TRUE] \in CvVersion /\ [cvs[i] EXCEPT !.default = TRUE].text = cvs[i].text
          /\ [cvs[i] EXCEPT !.default = TRUE].live = cvs[i].live
      BY <2>1 DEF CvVersion
    <3>2. QED
      BY <1>1, <1>2, <2>1, <2>4, <3>1
  <2>5. QED
    BY <2>2, <2>3, <2>4 DEF DefaultWritten
<1>4. RowsInv' /\ RowsMove
  BY <1>1, <1>2, <1>3, Rewritten
<1>5. AsksInv'
  BY <1>1, <1>4, ServedAsks DEF DefaultWritten
<1>6. QED
  BY <1>4, <1>5, ServerStep

LEMMA DeleteStep ==
  ASSUME LibraryInv, NEW n \in DOMAIN asks, DeleteWritten(n), UNCHANGED <<texts, textsDue, written>>
  PROVE  LibraryInv'
<1>1. /\ RowsInv /\ AsksInv /\ 0 \in Editions
      /\ edition \in Nat /\ edition' \in Editions /\ edition <= edition'
  BY LibraryAssumption DEF LibraryInv, RowsInv, Editions, DeleteWritten
<1>2. cvs' = [i \in DOMAIN cvs |-> cvs'[i]] /\ edition' = edition
  BY DEF DeleteWritten, Deleted
<1>3. ASSUME NEW i \in DOMAIN cvs
      PROVE  /\ cvs'[i] \in CvVersion
             /\ cvs[i].text <= cvs'[i].text /\ cvs'[i].text <= edition'
             /\ cvs'[i].live => cvs[i].live
  <2>1. cvs[i] \in CvVersion /\ cvs[i].text \in Nat /\ cvs[i].text <= edition
    BY <1>1, TextIsNat DEF RowsInv
  <2>2. CASE cvs'[i] = cvs[i]
    BY <1>2, <2>1, <2>2
  <2>3. CASE cvs'[i] = [cvs[i] EXCEPT !.live = FALSE]
    <3>1. [cvs[i] EXCEPT !.live = FALSE] \in CvVersion /\ [cvs[i] EXCEPT !.live = FALSE].text = cvs[i].text
          /\ ~[cvs[i] EXCEPT !.live = FALSE].live
      BY <2>1 DEF CvVersion
    <3>2. QED
      BY <1>1, <1>2, <2>1, <2>3, <3>1
  <2>4. QED
    BY <2>2, <2>3 DEF DeleteWritten, Deleted
<1>4. RowsInv' /\ RowsMove
  BY <1>1, <1>2, <1>3, Rewritten
<1>5. AsksInv'
  BY <1>1, <1>4, ServedAsks DEF DeleteWritten
<1>6. QED
  BY <1>4, <1>5, ServerStep

LEMMA ReplaceStep ==
  ASSUME LibraryInv, NEW n \in DOMAIN asks, ReplaceWritten(n), UNCHANGED <<texts, textsDue, written>>
  PROVE  LibraryInv'
<1> DEFINE i == asks[n].cv
           new == Len(cvs) + 1
           kept == cvs[i].default /\ i \notin asks[n].read
           v == [cvs[i] EXCEPT !.by = new, !.default = kept]
           w == NewRow(i \in asks[n].read)
<1>1. RowsInv /\ AsksInv /\ cvs \in Seq(CvVersion) /\ Len(cvs) \in Nat /\ new \in Ids
      /\ i \in DOMAIN cvs /\ new <= MaxCvs
  BY LibraryAssumption DEF ReplaceWritten, Live, LibraryInv, RowsInv, Ids
<1>2. cvs[i] \in CvVersion
  BY <1>1
<1>3. v \in CvVersion /\ v.text = cvs[i].text /\ v.live = cvs[i].live
  BY <1>1, <1>2 DEF CvVersion
<1>4. w \in CvVersion /\ w.text = 0
  BY <1>2, LibraryAssumption DEF NewRow, CvVersion, Statuses, Editions
<1>5. cvs' = Append([cvs EXCEPT ![i] = v], w) /\ edition' = edition
  BY DEF ReplaceWritten
<1>6. asks' = [asks EXCEPT ![n] = [asks[n] EXCEPT !.stage = "uploading", !.new = new]]
  BY DEF ReplaceWritten
<1>7. edition \in Editions /\ edition \in Nat /\ \A j \in DOMAIN cvs : cvs[j].text \in Nat /\ cvs[j].text <= edition
  BY <1>1, TextIsNat, LibraryAssumption DEF RowsInv, Editions
<1> HIDE DEF v, w
<1>8. [cvs EXCEPT ![i] = v] \in Seq(CvVersion) /\ Len([cvs EXCEPT ![i] = v]) = Len(cvs)
  BY <1>1, <1>3
<1>9. cvs' \in Seq(CvVersion) /\ Len(cvs') = new /\ DOMAIN cvs' = 1..new /\ cvs'[new] = w
      /\ \A j \in DOMAIN cvs : cvs'[j] = IF j = i THEN v ELSE cvs[j]
  BY <1>1, <1>4, <1>5, <1>8
<1> HIDE DEF i
<1>10. RowsMove
  BY <1>1, <1>3, <1>7, <1>9 DEF RowsMove
<1>11. \A j \in DOMAIN cvs' : cvs'[j].text <= edition
  BY <1>1, <1>3, <1>4, <1>7, <1>9
<1>12. RowsInv'
  BY <1>1, <1>5, <1>7, <1>9, <1>11 DEF RowsInv
<1>13. AsksInv'
  <2> DEFINE b == [asks[n] EXCEPT !.stage = "uploading", !.new = new]
  <2>1. DOMAIN b = DOMAIN asks[n] /\ b.ok = asks[n].ok /\ b.kind = asks[n].kind /\ b.cv = asks[n].cv
        /\ b.base = asks[n].base /\ b.kind = "replace"
    BY <1>1 DEF AsksInv, Honest, ReplaceWritten
  <2> HIDE DEF b
  <2>2. asks' = [asks EXCEPT ![n] = b]
    BY <1>6 DEF b
  <2>3. QED
    BY <1>1, <1>10, <1>12, <2>1, <2>2, StageMoves
<1>14. QED
  BY <1>10, <1>12, <1>13, ServerStep

LEMMA WritesStep ==
  ASSUME LibraryInv, NEW n \in DOMAIN asks, ServerWrites(n)
  PROVE  LibraryInv'
<1>1. UNCHANGED <<texts, textsDue, written>>
  BY DEF ServerWrites, cache
<1>2. CASE RowGone(n)
  <2>1. RowsInv /\ AsksInv /\ 0 \in Editions
    BY LibraryAssumption DEF LibraryInv, Editions
  <2>2. RowsInv' /\ RowsMove
    BY <1>2, <2>1, RowsSame DEF RowGone, Refuses
  <2>3. AsksInv'
    BY <1>2, <2>1, <2>2, ServedAsks DEF RowGone, Refuses
  <2>4. QED
    BY <1>1, <2>2, <2>3, ServerStep
<1>3. QED
  BY <1>1, <1>2, DefaultStep, DeleteStep, ReplaceStep DEF ServerWrites

LEMMA ReadsStep ==
  ASSUME LibraryInv, NEW n \in DOMAIN asks, ServerReads(n)
  PROVE  LibraryInv'
<1>1. RowsInv /\ AsksInv /\ 0 \in Editions
  BY LibraryAssumption DEF LibraryInv, Editions
<1>2. UNCHANGED <<cvs, edition>> /\ UNCHANGED <<texts, textsDue, written>>
  BY DEF ServerReads, cache, Refuses
<1>3. RowsInv' /\ RowsMove
  BY <1>1, <1>2, RowsSame
<1>4. ASSUME Refuses(n) PROVE AsksInv'
  BY <1>1, <1>3, <1>4, ServedAsks DEF Refuses
<1>5. ASSUME asks' = [asks EXCEPT ![n].stage = "read", ![n].read = Rows(n)] PROVE AsksInv'
  <2> DEFINE b == [asks[n] EXCEPT !.stage = "read", !.read = Rows(n)]
  <2>1. DOMAIN b = DOMAIN asks[n] /\ b.ok = asks[n].ok /\ b.kind = asks[n].kind /\ b.cv = asks[n].cv
        /\ b.base = asks[n].base /\ b.stage = "read"
    BY <1>1 DEF AsksInv, Honest
  <2>2. asks' = [asks EXCEPT ![n] = b]
    BY <1>5
  <2> HIDE DEF b
  <2>3. QED
    BY <1>1, <1>3, <2>1, <2>2, StageMoves
<1>6. AsksInv'
  BY <1>4, <1>5 DEF ServerReads
<1>7. QED
  BY <1>2, <1>3, <1>6, ServerStep

LEMMA ConvertStep ==
  ASSUME LibraryInv, NEW n \in DOMAIN asks, ConvertServed(n)
  PROVE  LibraryInv'
<1>1. RowsInv /\ AsksInv /\ 0 \in Editions /\ "PENDING" \in Statuses
  BY LibraryAssumption DEF LibraryInv, Editions, Statuses
<1>2. UNCHANGED edition /\ UNCHANGED <<texts, textsDue, written>>
  BY DEF ConvertServed, cache, Refuses
<1>3. \/ UNCHANGED cvs
      \/ asks[n].cv \in DOMAIN cvs /\ cvs' = [cvs EXCEPT ![asks[n].cv].status = "PENDING"]
  BY DEF ConvertServed, Refuses, Startable, Live, Started
<1>4. RowsInv' /\ RowsMove
  BY <1>1, <1>2, <1>3, StatusRows
<1>5. AsksInv'
  BY <1>1, <1>4, ServedAsks DEF ConvertServed, Refuses
<1>6. QED
  BY <1>2, <1>4, <1>5, ServerStep

\* The save is answered with the edition it made.
LEMMA SaveStep ==
  ASSUME LibraryInv, NEW n \in DOMAIN asks, SaveServed(n)
  PROVE  LibraryInv'
<1> DEFINE i == asks[n].cv
           v == [cvs[i] EXCEPT !.text = edition + 1]
<1>1. RowsInv /\ AsksInv /\ 0 \in Editions /\ UNCHANGED <<texts, textsDue, written>>
  BY LibraryAssumption DEF LibraryInv, Editions, SaveServed, cache
<1>2. CASE Refuses(n)
  <2>1. RowsInv' /\ RowsMove
    BY <1>1, <1>2, RowsSame DEF Refuses
  <2>2. AsksInv'
    BY <1>1, <1>2, <2>1, ServedAsks DEF Refuses
  <2>3. QED
    BY <1>1, <2>1, <2>2, ServerStep
<1>3. CASE /\ Live(i) /\ cvs' = [cvs EXCEPT ![i].text = edition + 1] /\ edition' = edition + 1
           /\ Served(n, TRUE, edition + 1)
  <2>1. i \in DOMAIN cvs /\ cvs' = [cvs EXCEPT ![i] = v] /\ edition < MaxEditions
    BY <1>3 DEF Live, SaveServed
  <2>2. cvs[i] \in CvVersion
    BY <1>1, <2>1 DEF RowsInv
  <2>3. (v \in CvVersion \/ edition + 1 \notin Editions) /\ v.text = edition + 1 /\ v.live = cvs[i].live
    BY <2>2 DEF CvVersion
  <2> HIDE DEF v
  <2>4. RowsInv' /\ RowsMove /\ cvs'[i].text = edition + 1 /\ edition + 1 \in Editions
    BY <1>1, <1>3, <2>1, <2>3, NewEdition
  <2>5. i \in DOMAIN cvs' /\ edition + 1 <= cvs'[i].text
    BY <2>1, <2>4 DEF RowsMove, Editions
  <2>6. AsksInv'
    BY <1>1, <1>3, <2>4, <2>5, ServedAsks
  <2>7. QED
    BY <1>1, <2>4, <2>6, ServerStep
<1>4. QED
  BY <1>2, <1>3 DEF SaveServed

LEMMA FileStep ==
  ASSUME LibraryInv, NEW n \in DOMAIN asks, FileStored(n)
  PROVE  LibraryInv'
<1> DEFINE b == [asks[n] EXCEPT !.stage = "converting"]
<1>1. RowsInv /\ AsksInv /\ UNCHANGED <<edition, texts, textsDue, written>>
  BY DEF LibraryInv, FileStored, cache
<1>2. asks[n].new \notin DOMAIN cvs => UNCHANGED cvs
  BY <1>1 DEF FileStored, RowsInv
<1>4. RowsInv' /\ RowsMove
  <2>1. CASE asks[n].new \in DOMAIN cvs
    BY <1>1, <2>1, StatusRows DEF FileStored
  <2>2. CASE asks[n].new \notin DOMAIN cvs
    BY <1>1, <1>2, <2>2, StatusRows
  <2>3. QED
    BY <2>1, <2>2
<1>5. DOMAIN b = DOMAIN asks[n] /\ b.ok = asks[n].ok /\ b.kind = asks[n].kind /\ b.cv = asks[n].cv
      /\ b.base = asks[n].base /\ b.kind = "replace"
  BY <1>1 DEF AsksInv, Honest, FileStored
<1>6. asks' = [asks EXCEPT ![n] = b]
  BY DEF FileStored, Moves
<1> HIDE DEF b
<1>7. AsksInv'
  BY <1>1, <1>4, <1>5, <1>6, StageMoves
<1>8. QED
  BY <1>1, <1>4, <1>7, ServerStep

\* Only a replace converts after its upload: its answer is not of a save.
LEMMA ReplaceConvertedStep ==
  ASSUME LibraryInv, NEW n \in DOMAIN asks, ReplaceConverted(n)
  PROVE  LibraryInv'
<1>1. RowsInv /\ AsksInv /\ 0 \in Editions /\ UNCHANGED <<edition, texts, textsDue, written>>
  BY LibraryAssumption DEF LibraryInv, Editions, ReplaceConverted, cache
<1>2. \/ UNCHANGED cvs
      \/ asks[n].new \in DOMAIN cvs /\ cvs' = [cvs EXCEPT ![asks[n].new].status = "PENDING"]
  BY DEF ReplaceConverted, Startable, Live, Started
<1>3. "PENDING" \in Statuses
  BY DEF Statuses
<1>4. RowsInv' /\ RowsMove
  BY <1>1, <1>2, <1>3, StatusRows
<1>5. AsksInv'
  BY <1>1, <1>4, ServedAsks DEF ReplaceConverted, AsksInv, Honest
<1>6. QED
  BY <1>1, <1>4, <1>5, ServerStep

LEMMA ConversionStep ==
  ASSUME LibraryInv, NEW i \in Ids, Conversion(i)
  PROVE  LibraryInv'
<1>1. RowsInv /\ AsksInv /\ UNCHANGED <<asks, texts, textsDue, written>> /\ i \in DOMAIN cvs
  BY DEF LibraryInv, Conversion, cache, Live
<1>2. ASSUME RowsInv', RowsMove PROVE LibraryInv'
  BY <1>1, <1>2, AsksStay, ServerStep
<1>3. CASE cvs' = [cvs EXCEPT ![i].status = "CONVERTING"] /\ UNCHANGED edition
  BY <1>1, <1>2, <1>3, StatusRows DEF Statuses
<1>4. CASE cvs' = [cvs EXCEPT ![i].status = "FAILED"] /\ UNCHANGED edition
  BY <1>1, <1>2, <1>4, StatusRows DEF Statuses
<1>5. CASE /\ edition < MaxEditions /\ edition' = edition + 1
           /\ cvs' = [cvs EXCEPT ![i].status = "CONVERTED", ![i].text = edition + 1]
  <2> DEFINE v == [cvs[i] EXCEPT !.status = "CONVERTED", !.text = edition + 1]
  <2>1. cvs' = [cvs EXCEPT ![i] = v]
    BY <1>5
  <2>2. cvs[i] \in CvVersion
    BY <1>1 DEF RowsInv
  <2>3. (v \in CvVersion \/ edition + 1 \notin Editions) /\ v.text = edition + 1 /\ v.live = cvs[i].live
    BY <2>2 DEF CvVersion, Statuses
  <2> HIDE DEF v
  <2>4. QED
    BY <1>1, <1>2, <1>5, <2>1, <2>3, NewEdition
<1>6. QED
  BY <1>3, <1>4, <1>5 DEF Conversion

\* The clicks that leave the rows, the requests and the renditions.
LEMMA QuietStep ==
  ASSUME LibraryInv, UNCHANGED <<cvs, edition, asks, texts, textsDue, written>>
  PROVE  LibraryInv'
<1>1. RowsInv' /\ RowsMove
  BY RowsSame DEF LibraryInv
<1>2. AsksInv'
  BY <1>1, AsksStay DEF LibraryInv
<1>3. QED
  BY <1>1, <1>2, ServerStep

-----------------------------------------------------------------------------
(* The requests that are sent, dropped and answered *)

\* A new request is answered nothing yet; an older one of its kind may lose its page.
LEMMA SendsStep ==
  ASSUME LibraryInv, NEW k, NEW i, NEW own, NEW base, Sends(k, i, own, base)
  PROVE  LibraryInv'
<1> DEFINE a == [kind |-> k, cv |-> i, own |-> own, tracked |-> own, stage |-> "sent",
                 ok |-> FALSE, read |-> {}, new |-> None, base |-> base]
           F(m) == IF own /\ asks[m].kind = k THEN [asks[m] EXCEPT !.tracked = FALSE] ELSE asks[m]
           kept == [m \in DOMAIN asks |-> F(m)]
<1>1. RowsInv /\ AsksInv /\ UNCHANGED <<cvs, edition, texts, textsDue, written>>
  BY DEF LibraryInv, Sends, cache
<1>2. RowsInv' /\ RowsMove
  BY <1>1, RowsSame
<1>3. asks' = Append(kept, a)
  BY DEF Sends
<1>4. Honest(a, cvs')
  BY DEF Honest
<1>5. \A m \in DOMAIN asks : Honest(F(m), cvs')
  BY <1>1 DEF AsksInv, Honest
<1> HIDE DEF F, a
<1>6. kept \in Seq({F(m) : m \in DOMAIN asks}) /\ DOMAIN kept = DOMAIN asks
  <2> PICK S : asks \in Seq(S)
    BY <1>1 DEF AsksInv
  <2>1. Len(asks) \in Nat /\ DOMAIN asks = 1..Len(asks)
    OBVIOUS
  <2>2. kept \in [1..Len(asks) -> {F(m) : m \in DOMAIN asks}]
    BY <2>1
  <2>3. QED
    BY <2>1, <2>2
<1>7. \A m \in DOMAIN kept : Honest(kept[m], cvs')
  BY <1>5
<1> HIDE DEF kept
<1>8. asks' \in Seq({F(m) : m \in DOMAIN asks} \cup {a})
      /\ \A m \in DOMAIN asks' : asks'[m] = a \/ (m \in DOMAIN kept /\ asks'[m] = kept[m])
  BY <1>3, <1>6
<1>9. AsksInv'
  BY <1>4, <1>7, <1>8 DEF AsksInv
<1>10. QED
  BY <1>1, <1>2, <1>9, ServerStep

\* A page that unmounts loses its callbacks only.
LEMMA MountsStep ==
  ASSUME LibraryInv, NEW where, NEW i, Mounts(where, i)
  PROVE  LibraryInv'
<1> DEFINE F(m) == [asks[m] EXCEPT !.tracked = FALSE]
<1>1. RowsInv /\ AsksInv /\ UNCHANGED <<cvs, edition, texts, textsDue, written>>
  BY DEF LibraryInv, Mounts
<1>2. RowsInv' /\ RowsMove
  BY <1>1, RowsSame
<1>3. asks' = [m \in DOMAIN asks |-> F(m)]
  BY DEF Mounts, Unmounted
<1>4. \A m \in DOMAIN asks : Honest(F(m), cvs')
  BY <1>1 DEF AsksInv, Honest
<1> HIDE DEF F
<1>5. asks' \in Seq({F(m) : m \in DOMAIN asks})
  <2> PICK S : asks \in Seq(S)
    BY <1>1 DEF AsksInv
  <2>1. Len(asks) \in Nat /\ DOMAIN asks = 1..Len(asks)
    OBVIOUS
  <2>2. asks' \in [1..Len(asks) -> {F(m) : m \in DOMAIN asks}]
    BY <1>3, <2>1
  <2>3. QED
    BY <2>1, <2>2
<1>6. AsksInv'
  BY <1>3, <1>4, <1>5 DEF AsksInv
<1>7. QED
  BY <1>1, <1>2, <1>6, ServerStep

LEMMA FailsStep ==
  ASSUME LibraryInv, NEW n \in DOMAIN asks, Fails(n)
  PROVE  LibraryInv'
<1>1. RowsInv /\ AsksInv /\ UNCHANGED <<cvs, edition, texts, textsDue, written>>
  BY DEF LibraryInv, Fails, cache
<1>2. RowsInv' /\ RowsMove
  BY <1>1, RowsSame
<1>3. AsksInv'
  BY <1>1, <1>2, AsksStay DEF Fails
<1>4. QED
  BY <1>1, <1>2, <1>3, ServerStep

\* The save that this tab is told of makes every rendition due.
LEMMA AnsweredStep ==
  ASSUME LibraryInv, NEW n \in DOMAIN asks, Answered(n)
  PROVE  LibraryInv'
<1>1. RowsInv /\ AsksInv /\ WrittenInv /\ UNCHANGED <<cvs, edition, texts>>
  BY DEF LibraryInv, Answered
<1>2. RowsInv' /\ RowsMove
  BY <1>1, RowsSame
<1>3. AsksInv'
  BY <1>1, <1>2, AsksStay DEF Answered
<1>4. CASE UNCHANGED <<textsDue, written>>
  BY <1>1, <1>2, <1>3, <1>4, ServerStep
<1>5. CASE textsDue' = Ids /\ asks[n].ok /\ Saved(asks[n])
  <2>1. Honest(asks[n], cvs)
    BY <1>1 DEF AsksInv
  <2>2. written' = written \/ /\ asks[n].cv \in DOMAIN cvs /\ asks[n].base <= cvs[asks[n].cv].text
                              /\ asks[n].base \in Editions
                              /\ written' = [written EXCEPT ![asks[n].cv] = asks[n].base]
    BY <1>5, <2>1 DEF Saved, Honest
  <2>3. written' \in [Ids -> Editions]
    BY <1>1, <2>2 DEF WrittenInv
  <2>4. \A i \in Ids : IF i \in DOMAIN cvs' THEN written'[i] <= cvs'[i].text ELSE written'[i] = 0
    BY <1>1, <2>2 DEF WrittenInv
  <2>5. WrittenInv'
    BY <1>1, <1>5, <2>3, <2>4 DEF WrittenInv
  <2>6. QED
    BY <1>2, <1>3, <2>5 DEF LibraryInv
<1>6. QED
  BY <1>4, <1>5 DEF Answered, Invalidated

\* A rendition is fetched as the row has it; of a deleted row it stays as it was.
LEMMA FetchStep ==
  ASSUME LibraryInv, NEW i \in Ids, TextFetched(i)
  PROVE  LibraryInv'
<1>1. /\ RowsInv /\ AsksInv /\ WrittenInv /\ UNCHANGED <<cvs, edition, asks, written>>
      /\ textsDue' = textsDue \ {i}
  BY DEF LibraryInv, TextFetched
<1>2. RowsInv' /\ RowsMove
  BY <1>1, RowsSame
<1>3. AsksInv'
  BY <1>1, <1>2, AsksStay
<1>4. \A j \in DOMAIN cvs : cvs[j].text \in Editions
  <2>1. \A v \in CvVersion : v.text \in Editions
    BY DEF CvVersion
  <2>2. QED
    BY <1>1, <2>1 DEF RowsInv
<1>5. texts' \in [Ids -> Editions]
  BY <1>1, <1>4 DEF TextFetched, Live, WrittenInv
<1>6. \A j \in Ids \ textsDue' : j \in DOMAIN cvs' /\ cvs'[j].live => written'[j] <= texts'[j]
  BY <1>1 DEF TextFetched, Live, WrittenInv
<1>7. WrittenInv'
  BY <1>1, <1>5, <1>6 DEF WrittenInv
<1>8. QED
  BY <1>2, <1>3, <1>7 DEF LibraryInv

LEMMA NextLibrary == LibraryInv /\ [Next]_vars => LibraryInv'
<1> SUFFICES ASSUME LibraryInv, [Next]_vars PROVE LibraryInv'
  OBVIOUS
<1>1. CASE OpenList \/ Leave \/ FollowWarning \/ \E i \in Ids : OpenEditor(i)
  BY <1>1, MountsStep DEF OpenList, Leave, FollowWarning, OpenEditor
<1>2. CASE InThePanel \/ \E i \in Ids : OpenPanel(i)
  BY <1>2, QuietStep DEF InThePanel, ClosePanel, OpenReplace, CancelReplace, AskConfirm, CancelDelete,
                         OpenPanel, InPanel, cache
<1>3. CASE InTheEditor
  BY <1>3, QuietStep DEF InTheEditor, StartEditing, Type, CancelEditing, Save, CancelSave, InEditor,
                         cache
<1>4. CASE Refresh \/ ListFetched
  BY <1>4, QuietStep DEF Refresh, ListFetched
<1>5. CASE \/ SubmitReplace \/ ConfirmDelete \/ ConfirmSave
           \/ \E i \in Ids : Convert(i) \/ SetDefault(i) \/ \E k \in Kinds : OtherSends(k, i)
  BY <1>5, SendsStep DEF SubmitReplace, ConfirmDelete, ConfirmSave, Convert, SetDefault, OtherSends
<1>6. ASSUME NEW n \in DOMAIN asks,
             \/ ServerReads(n) \/ ServerWrites(n) \/ ConvertServed(n) \/ SaveServed(n)
             \/ FileStored(n) \/ ReplaceConverted(n) \/ Answered(n) \/ Fails(n)
      PROVE  LibraryInv'
  BY <1>6, ReadsStep, WritesStep, ConvertStep, SaveStep, FileStep, ReplaceConvertedStep, AnsweredStep,
     FailsStep
<1>7. ASSUME NEW i \in Ids, Conversion(i) \/ TextFetched(i) PROVE LibraryInv'
  BY <1>7, ConversionStep, FetchStep
<1>8. CASE UNCHANGED vars
  BY <1>8, QuietStep DEF vars, cache
<1>9. QED
  BY <1>1, <1>2, <1>3, <1>4, <1>5, <1>6, <1>7, <1>8 DEF Next

\* The edit page never goes back behind a save this tab was told of (update_cv_version_markdown
\* and the invalidation in use-cv-versions.ts).
THEOREM EditPageShowsSaved == Spec => []EditShowsSaved
<1>1. Spec => []LibraryInv
  BY InitLibrary, NextLibrary, PTL DEF Spec
<1>2. LibraryInv => EditShowsSaved
  <2> SUFFICES ASSUME LibraryInv, Live(editor.cv), editor.cv \notin textsDue
               PROVE  texts[editor.cv] >= written[editor.cv]
    BY DEF EditShowsSaved
  <2>1. editor.cv \in Ids
    BY LibraryAssumption DEF Live, LibraryInv, RowsInv, Ids
  <2>2. written[editor.cv] \in Nat /\ texts[editor.cv] \in Nat
    BY <2>1, LibraryAssumption DEF LibraryInv, WrittenInv, Editions
  <2>3. QED
    BY <2>1, <2>2 DEF Live, LibraryInv, WrittenInv
<1>3. QED
  BY <1>1, <1>2, PTL

-----------------------------------------------------------------------------
(* The chain a delete takes *)

\* A set of rows that no row outside says it was replaced by.
Entire(R, versions) ==
  /\ R \subseteq DOMAIN versions
  /\ \A j \in DOMAIN versions : versions[j].live /\ versions[j].by \in R => j \in R

\* A delete that has read its chain still has all of it.
Reads(a, versions) == a.stage = "read" /\ a.kind = "delete" => Entire(a.read, versions)

\* What a row says it was replaced by is there.
LinksInv == \A i \in DOMAIN cvs : cvs[i].by # None => cvs[i].by \in DOMAIN cvs

ChainInv == LinksInv /\ ChainsWhole /\ \A n \in DOMAIN asks : Reads(asks[n], cvs)

\* What any step does to the links: a row is replaced by a new one or not at all.
LinksMove ==
  /\ DOMAIN cvs \subseteq DOMAIN cvs'
  /\ \A j \in DOMAIN cvs' : cvs'[j].live /\ cvs'[j].by \in DOMAIN cvs =>
       j \in DOMAIN cvs /\ cvs[j].live /\ cvs[j].by = cvs'[j].by

\* What any step but a reading does to the requests: a delete keeps what it read.
AsksKeep ==
  \A m \in DOMAIN asks' : asks'[m].stage = "read" /\ asks'[m].kind = "delete" =>
    \E k \in DOMAIN asks : /\ asks[k].stage = "read" /\ asks[k].kind = "delete"
                           /\ asks[k].read = asks'[m].read

LEMMA ReadsStay ==
  ASSUME ChainInv, LinksMove, AsksKeep
  PROVE  \A m \in DOMAIN asks' : Reads(asks'[m], cvs')
<1> SUFFICES ASSUME NEW m \in DOMAIN asks', asks'[m].stage = "read", asks'[m].kind = "delete"
             PROVE  Entire(asks'[m].read, cvs')
  BY DEF Reads
<1>1. PICK k \in DOMAIN asks : /\ asks[k].stage = "read" /\ asks[k].kind = "delete"
                               /\ asks[k].read = asks'[m].read
  BY DEF AsksKeep
<1>2. Entire(asks[k].read, cvs)
  BY <1>1 DEF ChainInv, Reads
<1>3. QED
  BY <1>1, <1>2 DEF Entire, LinksMove

\* The walk leaves no row behind that was replaced by one it found.
LEMMA ChainIsEntire == ASSUME NEW i \in DOMAIN cvs PROVE Entire(Chain(i), cvs)
<1>1. ASSUME NEW j \in DOMAIN cvs, cvs[j].live, cvs[j].by \in Chain(i),
             NEW S \in SUBSET DOMAIN cvs, i \in S, Whole(S) \subseteq S
      PROVE  j \in S
  <2>1. cvs[j].by \in S
    BY <1>1 DEF Chain
  <2>2. S \subseteq After(S)
    BY DEF After
  <2>3. j \in Before(After(S))
    BY <1>1, <2>1, <2>2 DEF Before
  <2>4. QED
    BY <1>1, <2>3 DEF Whole
<1>2. ASSUME NEW j \in DOMAIN cvs, cvs[j].live, cvs[j].by \in Chain(i) PROVE j \in Chain(i)
  BY <1>1, <1>2 DEF Chain
<1>3. Chain(i) \subseteq DOMAIN cvs
  BY DEF Chain
<1>4. QED
  BY <1>2, <1>3 DEF Entire

\* The steps that change no link and no row's being there.
LEMMA SameLinks ==
  ASSUME ChainInv, AsksKeep, DOMAIN cvs' = DOMAIN cvs,
         \A i \in DOMAIN cvs : cvs'[i].by = cvs[i].by /\ cvs'[i].live = cvs[i].live
  PROVE  ChainInv'
<1>1. LinksMove
  BY DEF LinksMove
<1>2. LinksInv'
  BY DEF ChainInv, LinksInv
<1>3. ChainsWhole'
  BY DEF ChainInv, ChainsWhole, LinksInv
<1>4. QED
  BY <1>1, <1>2, <1>3, ReadsStay DEF ChainInv

LEMMA ReplaceChains ==
  ASSUME LibraryInv, ChainInv, AsksKeep, NEW n \in DOMAIN asks, ReplaceWritten(n)
  PROVE  ChainInv'
<1> DEFINE i == asks[n].cv
           new == Len(cvs) + 1
           kept == cvs[i].default /\ i \notin asks[n].read
           v == [cvs[i] EXCEPT !.by = new, !.default = kept]
           w == NewRow(i \in asks[n].read)
<1>1. cvs \in Seq(CvVersion) /\ Len(cvs) \in Nat /\ i \in DOMAIN cvs /\ cvs[i].live
      /\ DOMAIN cvs = 1..Len(cvs)
  BY DEF ReplaceWritten, Live, LibraryInv, RowsInv
<1>2. cvs[i] \in CvVersion
  BY <1>1
<1>3. v.by = new /\ v.live = cvs[i].live
  BY <1>2 DEF CvVersion
<1>4. w.live = TRUE /\ w.by = None
  BY DEF NewRow
<1>5. cvs' = Append([cvs EXCEPT ![i] = v], w)
  BY DEF ReplaceWritten
<1> HIDE DEF v, w
<1>6. /\ DOMAIN cvs' = 1..new /\ cvs'[new] = w /\ new \notin DOMAIN cvs /\ None \notin DOMAIN cvs
      /\ \A j \in DOMAIN cvs : cvs'[j] = IF j = i THEN v ELSE cvs[j]
      /\ DOMAIN cvs' = DOMAIN cvs \cup {new}
  <2> DEFINE u == [cvs EXCEPT ![i] = v]
  <2>1. u \in Seq(CvVersion \cup {v}) /\ Len(u) = Len(cvs) /\ \A j \in DOMAIN cvs : u[j] = IF j = i THEN v ELSE cvs[j]
    BY <1>1
  <2> HIDE DEF u
  <2>2. cvs' = Append(u, w)
    BY <1>5 DEF u
  <2>3. QED
    BY <1>1, <2>1, <2>2 DEF None
<1> HIDE DEF i, new
<1>7. LinksMove
  BY <1>3, <1>4, <1>6 DEF LinksMove
<1>8. LinksInv'
  BY <1>3, <1>4, <1>6 DEF ChainInv, LinksInv
<1>9. ChainsWhole'
  BY <1>1, <1>3, <1>4, <1>6 DEF ChainInv, ChainsWhole, LinksInv
<1>10. QED
  BY <1>7, <1>8, <1>9, ReadsStay DEF ChainInv

LEMMA DeleteChains ==
  ASSUME LibraryInv, ChainInv, AsksKeep, NEW n \in DOMAIN asks, DeleteWritten(n),
         asks[n].stage = "read"
  PROVE  ChainInv'
<1> DEFINE R == asks[n].read
<1>1. Entire(R, cvs)
  BY DEF ChainInv, Reads, DeleteWritten
<1>2. cvs' = [i \in DOMAIN cvs |-> IF i \in R THEN [cvs[i] EXCEPT !.live = FALSE] ELSE cvs[i]]
  BY DEF DeleteWritten, Deleted
<1>3. \A i \in DOMAIN cvs : cvs[i] \in CvVersion
  BY DEF LibraryInv, RowsInv
<1>4. \A u \in CvVersion : [u EXCEPT !.live = FALSE].by = u.by /\ ~[u EXCEPT !.live = FALSE].live
  BY DEF CvVersion
<1> HIDE DEF R
<1>5. DOMAIN cvs' = DOMAIN cvs /\ \A i \in DOMAIN cvs : /\ cvs'[i].by = cvs[i].by
                                                        /\ i \in R => ~cvs'[i].live
                                                        /\ i \notin R => cvs'[i] = cvs[i]
  BY <1>2, <1>3, <1>4
<1>6. LinksMove
  BY <1>5 DEF LinksMove
<1>7. LinksInv'
  BY <1>5 DEF ChainInv, LinksInv
<1>8. ChainsWhole'
  BY <1>1, <1>5 DEF ChainInv, ChainsWhole, LinksInv, Entire
<1>9. QED
  BY <1>6, <1>7, <1>8, ReadsStay DEF ChainInv

\* The three things that happen to the requests, besides a reading.
LEMMA TakenAsks ==
  ASSUME AsksInv, asks' = asks \/ \E n \in DOMAIN asks : asks' = RemoveAt(asks, n)
  PROVE  AsksKeep
<1> PICK S : asks \in Seq(S)
  BY DEF AsksInv
<1>1. CASE asks' = asks
  BY <1>1 DEF AsksKeep
<1>2. ASSUME NEW n \in DOMAIN asks, asks' = RemoveAt(asks, n) PROVE AsksKeep
  <2>1. asks' \in Seq({asks[m] : m \in DOMAIN asks})
    BY <1>2, RemovedAsk
  <2>2. \A k \in DOMAIN asks' : asks'[k] \in {asks[m] : m \in DOMAIN asks}
    BY <2>1
  <2>3. QED
    BY <2>2 DEF AsksKeep
<1>3. QED
  BY <1>1, <1>2

LEMMA MovedAsks ==
  ASSUME NEW n \in DOMAIN asks, NEW b, asks' = [asks EXCEPT ![n] = b], b.stage # "read"
  PROVE  AsksKeep
<1>1. DOMAIN asks' = DOMAIN asks /\ \A m \in DOMAIN asks : asks'[m] = IF m = n THEN b ELSE asks[m]
  OBVIOUS
<1>2. QED
  BY <1>1 DEF AsksKeep

LEMMA ServedChain ==
  ASSUME AsksInv, NEW n \in DOMAIN asks, NEW ok, NEW base, Served(n, ok, base)
  PROVE  AsksKeep
<1>1. CASE asks' = RemoveAt(asks, n)
  BY <1>1, TakenAsks
<1>2. CASE asks' = [asks EXCEPT ![n].stage = "answering", ![n].ok = ok, ![n].base = base, ![n].read = {}]
  <2> DEFINE b == [asks[n] EXCEPT !.stage = "answering", !.ok = ok, !.base = base, !.read = {}]
  <2>1. asks' = [asks EXCEPT ![n] = b]
    BY <1>2
  <2>2. b.stage = "answering"
    BY DEF AsksInv, Honest
  <2> HIDE DEF b
  <2>3. QED
    BY <2>1, <2>2, MovedAsks
<1>3. QED
  BY <1>1, <1>2 DEF Served

\* A request keeps what it read when its page goes.
LEMMA UntrackedAsk ==
  ASSUME NEW a, {"kind", "tracked", "stage", "read"} \subseteq DOMAIN a
  PROVE  LET b == [a EXCEPT !.tracked = FALSE]
         IN  b.kind = a.kind /\ b.stage = a.stage /\ b.read = a.read
OBVIOUS

LEMMA SendsChain ==
  ASSUME AsksInv, NEW k, NEW i, NEW own, NEW base, Sends(k, i, own, base)
  PROVE  AsksKeep
<1> DEFINE a == [kind |-> k, cv |-> i, own |-> own, tracked |-> own, stage |-> "sent",
                 ok |-> FALSE, read |-> {}, new |-> None, base |-> base]
           F(m) == IF own /\ asks[m].kind = k THEN [asks[m] EXCEPT !.tracked = FALSE] ELSE asks[m]
           kept == [m \in DOMAIN asks |-> F(m)]
<1>1. asks' = Append(kept, a)
  BY DEF Sends
<1>2. a.stage = "sent"
  OBVIOUS
<1>3. \A m \in DOMAIN asks : /\ F(m).kind = asks[m].kind /\ F(m).stage = asks[m].stage
                             /\ F(m).read = asks[m].read
  BY UntrackedAsk DEF AsksInv, Honest
<1> HIDE DEF F, a
<1>4. kept \in Seq({F(m) : m \in DOMAIN asks}) /\ DOMAIN kept = DOMAIN asks
  <2> PICK S : asks \in Seq(S)
    BY DEF AsksInv
  <2>1. Len(asks) \in Nat /\ DOMAIN asks = 1..Len(asks)
    OBVIOUS
  <2>2. kept \in [1..Len(asks) -> {F(m) : m \in DOMAIN asks}]
    BY <2>1
  <2>3. QED
    BY <2>1, <2>2
<1>5. \A m \in DOMAIN asks : kept[m] = F(m)
  OBVIOUS
<1> HIDE DEF kept
<1>6. \A m \in DOMAIN asks' : asks'[m] = a \/ (m \in DOMAIN asks /\ asks'[m] = F(m))
  BY <1>1, <1>4, <1>5
<1>7. QED
  BY <1>2, <1>3, <1>6 DEF AsksKeep

LEMMA MountsChain ==
  ASSUME AsksInv, Unmounted
  PROVE  AsksKeep
<1> DEFINE F(m) == [asks[m] EXCEPT !.tracked = FALSE]
<1>1. asks' = [m \in DOMAIN asks |-> F(m)]
  BY DEF Unmounted
<1>2. \A m \in DOMAIN asks : /\ F(m).kind = asks[m].kind /\ F(m).stage = asks[m].stage
                             /\ F(m).read = asks[m].read
  BY UntrackedAsk DEF AsksInv, Honest
<1> HIDE DEF F
<1>3. QED
  BY <1>1, <1>2 DEF AsksKeep

\* A field of a row that is neither its link nor its being there.
LEMMA FieldWritten ==
  ASSUME LibraryInv, ChainInv, AsksKeep,
         NEW i \in DOMAIN cvs, NEW v, cvs' = [cvs EXCEPT ![i] = v],
         v.by = cvs[i].by, v.live = cvs[i].live
  PROVE  ChainInv'
<1>1. DOMAIN cvs' = DOMAIN cvs /\ \A j \in DOMAIN cvs : cvs'[j] = IF j = i THEN v ELSE cvs[j]
  OBVIOUS
<1>2. QED
  BY <1>1, SameLinks

LEMMA RowsAsTheyWere == ASSUME ChainInv, AsksKeep, UNCHANGED cvs PROVE ChainInv'
BY SameLinks

\* What may be written over in a row.
LEMMA Fields ==
  ASSUME NEW u \in CvVersion, NEW x
  PROVE  /\ [u EXCEPT !.status = x].by = u.by /\ [u EXCEPT !.status = x].live = u.live
         /\ [u EXCEPT !.file = x].by = u.by /\ [u EXCEPT !.file = x].live = u.live
         /\ [u EXCEPT !.text = x].by = u.by /\ [u EXCEPT !.text = x].live = u.live
         /\ [u EXCEPT !.default = x].by = u.by /\ [u EXCEPT !.default = x].live = u.live
BY DEF CvVersion

LEMMA ReadsChain ==
  ASSUME LibraryInv, ChainInv, NEW n \in DOMAIN asks, ServerReads(n)
  PROVE  ChainInv'
<1>1. AsksInv /\ UNCHANGED cvs
  BY DEF LibraryInv, ServerReads, Refuses
<1>2. CASE Refuses(n)
  <2>1. AsksKeep
    BY <1>1, <1>2, ServedChain DEF Refuses
  <2>2. QED
    BY <1>1, <2>1, RowsAsTheyWere
<1>3. CASE Accepted(n) /\ asks' = [asks EXCEPT ![n].stage = "read", ![n].read = Rows(n)]
  <2> DEFINE b == [asks[n] EXCEPT !.stage = "read", !.read = Rows(n)]
  <2>1. asks' = [asks EXCEPT ![n] = b]
    BY <1>3
  <2>2. b.kind = asks[n].kind /\ b.read = Rows(n)
    BY <1>1 DEF AsksInv, Honest
  <2>3. asks[n].kind = "delete" => Entire(Rows(n), cvs)
    BY <1>3, ChainIsEntire DEF Accepted, Live, Rows
  <2> HIDE DEF b
  <2>4. DOMAIN asks' = DOMAIN asks /\ \A m \in DOMAIN asks : asks'[m] = IF m = n THEN b ELSE asks[m]
    BY <2>1
  <2>5. \A m \in DOMAIN asks' : Reads(asks'[m], cvs)
    BY <2>2, <2>3, <2>4 DEF ChainInv, Reads
  <2>6. \A m \in DOMAIN asks' : Reads(asks'[m], cvs')
    BY <1>1, <2>5
  <2>7. LinksInv' /\ ChainsWhole'
    BY <1>1 DEF ChainInv, LinksInv, ChainsWhole
  <2>8. QED
    BY <2>6, <2>7 DEF ChainInv
<1>4. QED
  BY <1>2, <1>3 DEF ServerReads

LEMMA WritesChain ==
  ASSUME LibraryInv, ChainInv, NEW n \in DOMAIN asks, ServerWrites(n)
  PROVE  ChainInv'
<1>1. AsksInv /\ asks[n].stage = "read"
  BY DEF LibraryInv, ServerWrites
<1>2. CASE DefaultWritten(n)
  <2>1. AsksKeep
    BY <1>1, <1>2, ServedChain DEF DefaultWritten
  <2>2. \A i \in DOMAIN cvs : cvs[i] \in CvVersion
    BY DEF LibraryInv, RowsInv
  <2>3. \A i \in DOMAIN cvs : cvs'[i].by = cvs[i].by /\ cvs'[i].live = cvs[i].live
    BY <1>2, <2>2, Fields DEF DefaultWritten
  <2>4. DOMAIN cvs' = DOMAIN cvs
    BY <1>2 DEF DefaultWritten
  <2>5. QED
    BY <2>1, <2>3, <2>4, SameLinks
<1>3. CASE ReplaceWritten(n)
  <2> DEFINE b == [asks[n] EXCEPT !.stage = "uploading", !.new = Len(cvs) + 1]
  <2>1. asks' = [asks EXCEPT ![n] = b]
    BY <1>3 DEF ReplaceWritten
  <2>2. b.stage = "uploading"
    BY <1>1 DEF AsksInv, Honest
  <2> HIDE DEF b
  <2>3. AsksKeep
    BY <2>1, <2>2, MovedAsks
  <2>4. QED
    BY <1>3, <2>3, ReplaceChains
<1>4. CASE DeleteWritten(n)
  <2>1. AsksKeep
    BY <1>1, <1>4, ServedChain DEF DeleteWritten
  <2>2. QED
    BY <1>1, <1>4, <2>1, DeleteChains
<1>5. CASE RowGone(n)
  <2>1. AsksKeep /\ UNCHANGED cvs
    BY <1>1, <1>5, ServedChain DEF RowGone, Refuses
  <2>2. QED
    BY <2>1, RowsAsTheyWere
<1>6. QED
  BY <1>2, <1>3, <1>4, <1>5 DEF ServerWrites

\* The other steps of the server write no link.
LEMMA ServesChain ==
  ASSUME LibraryInv, ChainInv, NEW n \in DOMAIN asks,
         ConvertServed(n) \/ SaveServed(n) \/ FileStored(n) \/ ReplaceConverted(n)
  PROVE  ChainInv'
<1>1. AsksInv /\ \A i \in DOMAIN cvs : cvs[i] \in CvVersion
  BY DEF LibraryInv, RowsInv
<1>2. AsksKeep
  <2>1. CASE ConvertServed(n) \/ SaveServed(n) \/ ReplaceConverted(n)
    BY <1>1, <2>1, ServedChain DEF ConvertServed, SaveServed, ReplaceConverted, Refuses
  <2>2. CASE FileStored(n)
    <3> DEFINE b == [asks[n] EXCEPT !.stage = "converting"]
    <3>1. asks' = [asks EXCEPT ![n] = b]
      BY <2>2 DEF FileStored, Moves
    <3>2. b.stage = "converting"
      BY <1>1 DEF AsksInv, Honest
    <3> HIDE DEF b
    <3>3. QED
      BY <3>1, <3>2, MovedAsks
  <2>3. QED
    BY <2>1, <2>2
<1>3. ASSUME NEW i \in DOMAIN cvs, NEW x,
             \/ cvs' = [cvs EXCEPT ![i].status = x]
             \/ cvs' = [cvs EXCEPT ![i].text = x]
             \/ cvs' = [cvs EXCEPT ![i].file = x]
      PROVE  ChainInv'
  <2>1. PICK v \in {[cvs[i] EXCEPT !.status = x], [cvs[i] EXCEPT !.text = x], [cvs[i] EXCEPT !.file = x]} :
          cvs' = [cvs EXCEPT ![i] = v]
    BY <1>3
  <2>2. v.by = cvs[i].by /\ v.live = cvs[i].live
    BY <1>1 DEF CvVersion
  <2>3. QED
    BY <1>2, <2>1, <2>2, FieldWritten
<1>4. CASE UNCHANGED cvs
  BY <1>2, <1>4, RowsAsTheyWere
<1>5. CASE ConvertServed(n) \/ ReplaceConverted(n)
  BY <1>3, <1>4, <1>5 DEF ConvertServed, ReplaceConverted, Startable, Live, Started, Refuses
<1>6. CASE SaveServed(n)
  BY <1>3, <1>4, <1>6 DEF SaveServed, Live, Refuses
<1>7. CASE FileStored(n)
  <2>1. asks[n].new \notin DOMAIN cvs => UNCHANGED cvs
    BY <1>7 DEF FileStored, LibraryInv, RowsInv
  <2>2. QED
    BY <1>3, <1>4, <1>7, <2>1 DEF FileStored
<1>8. QED
  BY <1>5, <1>6, <1>7

LEMMA ConversionChain ==
  ASSUME LibraryInv, ChainInv, NEW i \in Ids, Conversion(i)
  PROVE  ChainInv'
<1>1. AsksInv /\ i \in DOMAIN cvs /\ UNCHANGED asks /\ cvs[i] \in CvVersion
  BY DEF LibraryInv, RowsInv, Conversion, Live
<1>2. AsksKeep
  BY <1>1, TakenAsks
<1>3. PICK v \in {[cvs[i] EXCEPT !.status = "CONVERTING"], [cvs[i] EXCEPT !.status = "FAILED"],
                  [cvs[i] EXCEPT !.status = "CONVERTED", !.text = edition + 1]} :
        cvs' = [cvs EXCEPT ![i] = v]
  BY DEF Conversion
<1>4. v.by = cvs[i].by /\ v.live = cvs[i].live
  BY <1>1 DEF CvVersion
<1>5. QED
  BY <1>1, <1>2, <1>3, <1>4, FieldWritten

LEMMA NextChain == LibraryInv /\ ChainInv /\ [Next]_vars => ChainInv'
<1> SUFFICES ASSUME LibraryInv, ChainInv, [Next]_vars PROVE ChainInv'
  OBVIOUS
<1>1. AsksInv
  BY DEF LibraryInv
<1>2. ASSUME UNCHANGED <<cvs, asks>> PROVE ChainInv'
  BY <1>1, <1>2, TakenAsks, RowsAsTheyWere
<1>3. ASSUME AsksKeep, UNCHANGED cvs PROVE ChainInv'
  BY <1>3, RowsAsTheyWere
<1>4. CASE OpenList \/ Leave \/ FollowWarning \/ \E i \in Ids : OpenEditor(i)
  BY <1>1, <1>3, <1>4, MountsChain DEF OpenList, Leave, FollowWarning, OpenEditor, Mounts
<1>5. CASE InThePanel \/ \E i \in Ids : OpenPanel(i)
  BY <1>2, <1>5 DEF InThePanel, ClosePanel, OpenReplace, CancelReplace, AskConfirm, CancelDelete,
                    OpenPanel, InPanel
<1>6. CASE InTheEditor
  BY <1>2, <1>6 DEF InTheEditor, StartEditing, Type, CancelEditing, Save, CancelSave, InEditor
<1>7. CASE Refresh \/ ListFetched \/ \E i \in Ids : TextFetched(i)
  BY <1>2, <1>7 DEF Refresh, ListFetched, TextFetched
<1>8. CASE \/ SubmitReplace \/ ConfirmDelete \/ ConfirmSave
           \/ \E i \in Ids : Convert(i) \/ SetDefault(i) \/ \E k \in Kinds : OtherSends(k, i)
  <2>1. ASSUME NEW k, NEW i, NEW own, NEW base, Sends(k, i, own, base) PROVE ChainInv'
    BY <1>1, <1>3, <2>1, SendsChain DEF Sends
  <2>2. QED
    BY <1>8, <2>1 DEF SubmitReplace, ConfirmDelete, ConfirmSave, Convert, SetDefault, OtherSends
<1>9. ASSUME NEW n \in DOMAIN asks, Answered(n) \/ Fails(n) PROVE ChainInv'
  BY <1>1, <1>3, <1>9, TakenAsks DEF Answered, Fails
<1>10. ASSUME NEW n \in DOMAIN asks,
              \/ ServerReads(n) \/ ServerWrites(n) \/ ConvertServed(n) \/ SaveServed(n)
              \/ FileStored(n) \/ ReplaceConverted(n)
       PROVE  ChainInv'
  BY <1>10, ReadsChain, WritesChain, ServesChain
<1>11. ASSUME NEW i \in Ids, Conversion(i) PROVE ChainInv'
  BY <1>11, ConversionChain
<1>12. CASE UNCHANGED vars
  BY <1>2, <1>12 DEF vars
<1>13. QED
  BY <1>4, <1>5, <1>6, <1>7, <1>8, <1>9, <1>10, <1>11, <1>12 DEF Next

LEMMA InitChain == Init => ChainInv
<1> SUFFICES ASSUME Init PROVE ChainInv
  OBVIOUS
<1>1. cvs = <<Row(TRUE, 1), Row(FALSE, 2)>> /\ asks = <<>>
  BY DEF Init
<1>2. Row(TRUE, 1).by = None /\ Row(FALSE, 2).by = None
  BY DEF Row
<1> HIDE DEF Row
<1>3. \A i \in DOMAIN cvs : cvs[i].by = None
  <2>1. \A i \in 1..2 : i = 1 \/ i = 2
    OBVIOUS
  <2> DEFINE p == Row(TRUE, 1)
             q == Row(FALSE, 2)
  <2>2. cvs = <<p, q>> /\ p.by = None /\ q.by = None /\ p \in {p, q} /\ q \in {p, q}
    BY <1>1, <1>2
  <2> HIDE DEF p, q
  <2>3. QED
    BY <2>1, <2>2, Pair
<1>4. DOMAIN asks = {}
  BY <1>1
<1>5. QED
  BY <1>3, <1>4 DEF ChainInv, LinksInv, ChainsWhole

\* A CV is deleted whole, whatever is replaced between the reading of its chain and the
\* commit (_cv_chain and delete_cv_version in v1.py): no version is left pointing at a
\* deleted one.
THEOREM DeletedWhole == Spec => []ChainsWhole
<1>1. Spec => []LibraryInv
  BY InitLibrary, NextLibrary, PTL DEF Spec
<1>2. Spec => []ChainInv
  BY <1>1, InitChain, NextChain, PTL DEF Spec
<1>3. ChainInv => ChainsWhole
  BY DEF ChainInv
<1>4. QED
  BY <1>2, <1>3, PTL
=============================================================================
