----------------------------- MODULE CvLibrary -----------------------------
(***************************************************************************)
(* The CV list (app/(app)/cv-versions/page.tsx), its panel                 *)
(* (components/cv-version-panel.tsx) and the edit page of one CV, with the *)
(* hooks they share (hooks/use-cv-versions.ts) and the CVVersion endpoints *)
(* of services/api behind them.                                            *)
(*                                                                         *)
(* One Candidate, with this tab and another one that calls the same        *)
(* endpoints.  The page holds one mutation of each kind for whichever CV   *)
(* is open, the panel keeps its form and its confirmation apart from the   *)
(* CV it shows, and a cached list and cached renditions stand between both *)
(* and the rows.  A row is read and written in separate steps where the    *)
(* handler decides from what it read.                                      *)
(***************************************************************************)
EXTENDS Naturals, Sequences, FiniteSets, FiniteSetsExt, SequencesExt

CONSTANTS
  Used,        \* CVs a Scout points at
  Elsewhere,   \* kinds of requests the other tab makes
  MaxCvs,      \* CVVersion rows
  MaxEditions, \* renditions ever written, by a conversion or by hand
  MaxAsks,     \* requests that change a row
  MaxClicks,   \* what the Candidate does in this tab, besides
  MaxLapses    \* lost requests and answers, failed uploads and conversions

ASSUME LibraryAssumption ==
  /\ MaxCvs \in Nat /\ MaxCvs >= 2 /\ Used \subseteq 1..MaxCvs
  /\ MaxEditions \in Nat /\ MaxEditions >= 2
  /\ MaxAsks \in Nat /\ MaxClicks \in Nat /\ MaxLapses \in Nat

VARIABLES
  cvs,       \* the CVVersion rows, in the order they were created
  edition,   \* how many renditions were ever written
  list,      \* the cached answer of GET /cv-versions
  listDue,   \* it is fetched again when a page shows it
  texts,     \* [row -> the cached rendition]
  textsDue,  \* rows whose rendition is fetched again when it is shown
  place,     \* the list, the edit page, or another page
  panel,     \* the panel: its CV, what its form and its confirmation were opened for
  swapped,   \* justReplacedId
  editor,    \* the edit page's state
  asks,      \* the requests under way, in the order they were sent
  sent,      \* how many were
  written,   \* [row -> the newest rendition this tab saved and was told so]
  clicks,
  lapses

cache == <<list, listDue, texts, textsDue>>
ui == <<place, panel, swapped, editor>>
vars == <<cvs, edition, cache, ui, asks, sent, written, clicks, lapses>>

Ids == 1..MaxCvs
None == 0
Editions == 0..MaxEditions
Statuses == {"PENDING", "CONVERTING", "CONVERTED", "FAILED"}
Kinds == {"convert", "default", "replace", "delete", "save"}
Stages == {"sent", "read", "uploading", "converting", "answering"}

\* supersededById carries no foreign key: `by` may outlive its row.
CvVersion == [live : BOOLEAN, default : BOOLEAN, by : {None} \cup Ids, file : BOOLEAN,
              status : Statuses, text : Editions]
\* `tracked`: the newest of its kind on a page still mounted, whose mutation it is.
\* `read`: the rows the handler read.  `new`: the row a replace created.
IsAsk(a) ==
  /\ a.kind \in Kinds /\ a.cv \in Ids /\ a.stage \in Stages
  /\ a.own \in BOOLEAN /\ a.tracked \in BOOLEAN /\ a.ok \in BOOLEAN
  /\ a.read \subseteq Ids /\ a.new \in {None} \cup Ids /\ a.base \in Editions

Closed == [cv |-> None, replacing |-> None, confirming |-> None]
Viewing(i) == [cv |-> i, editing |-> FALSE, draft |-> 0, confirming |-> FALSE]

Row(default, text) ==
  [live |-> TRUE, default |-> default, by |-> None, file |-> TRUE, status |-> "CONVERTED",
   text |-> text]

Init ==
  /\ cvs = <<Row(TRUE, 1), Row(FALSE, 2)>>
  /\ edition = 2
  /\ list = cvs /\ listDue = FALSE
  /\ texts = [i \in Ids |-> IF i \in DOMAIN cvs THEN cvs[i].text ELSE 0] \* both were looked at
  /\ textsDue = Ids \ DOMAIN cvs
  /\ \/ /\ place = "list" /\ editor = Viewing(None)   \* with the panel open on a CV
        /\ panel \in {[Closed EXCEPT !.cv = i] : i \in DOMAIN cvs}
     \/ /\ place = "edit" /\ panel = Closed           \* or on the way to edit one
        /\ editor = [Viewing(2) EXCEPT !.editing = TRUE, !.draft = 2]
  /\ swapped = None
  /\ asks = <<>> /\ sent = 0
  /\ written = [i \in Ids |-> 0]
  /\ clicks = 0 /\ lapses = 0

-----------------------------------------------------------------------------
(* What the pages show *)

Live(i) == i \in DOMAIN cvs /\ cvs[i].live
Listed(i) == i \in DOMAIN list /\ list[i].live

\* isPending of the mutation of a kind, and what it was given.
Underway(k) == {n \in DOMAIN asks : asks[n].tracked /\ asks[n].kind = k}
Pending(k, i) == \E n \in Underway(k) : asks[n].cv = i
Deleting == Underway("delete") # {}

Busy(i) == list[i].status = "CONVERTING" \/ Pending("convert", i)

\* The panel shows its CV as the list has it; until the list has it, only that it is
\* loading.
PanelShows(i) == place = "list" /\ panel.cv = i /\ Listed(i)

\* The panel is modal: the table is within reach when it is closed.
TableShown == place = "list" /\ panel.cv = None

\* The actions of a row and of the panel: the panel's wait for a delete.
Actionable(i) == (TableShown /\ Listed(i)) \/ (PanelShows(i) /\ ~Deleting)
CanConvert(i) == Actionable(i) /\ ~Busy(i)
CanSetDefault(i) ==
  Actionable(i) /\ ~list[i].default /\ list[i].by = None /\ ~Pending("default", i)
Current(i) == PanelShows(i) /\ list[i].by = None /\ ~Deleting
CanEdit(i) == Current(i) /\ list[i].status = "CONVERTED" /\ ~Busy(i)

FormShown == \E i \in Ids : PanelShows(i) /\ panel.replacing # None
ConfirmShown == \E i \in Ids : PanelShows(i) /\ panel.confirming # None

AffectedScouts == {swapped} \cap Used

\* The edit page shows a CV the list has as current and converted.
Eligible == /\ place = "edit" /\ Listed(editor.cv)
            /\ list[editor.cv].by = None /\ list[editor.cv].status = "CONVERTED"
TextLoaded == Eligible /\ texts[editor.cv] # 0
RenditionShown(i) == PanelShows(i) \/ (Eligible /\ editor.cv = i)

-----------------------------------------------------------------------------
(* Moving about *)

Click == clicks < MaxClicks /\ clicks' = clicks + 1
Lapse == lapses < MaxLapses /\ lapses' = lapses + 1

\* Callbacks given to mutate() die with the page.
Unmounted == asks' = [n \in DOMAIN asks |-> [asks[n] EXCEPT !.tracked = FALSE]]

\* A page mounts with fresh state; a list older than staleTime is fetched again, which
\* makes a difference when it is no longer what the rows are.
Mounts(where, i) ==
  /\ place' = where /\ editor' = Viewing(i)
  /\ panel' = Closed /\ swapped' = None
  /\ listDue' \in {listDue, listDue \/ list # cvs}
  /\ Unmounted
  /\ UNCHANGED <<cvs, edition, list, texts, textsDue, sent, written, lapses>>

OpenList == place # "list" /\ Click /\ Mounts("list", None)
\* The panel's Modify, or a link to the edit page of any CV.
OpenEditor(i) ==
  /\ Click /\ (CanEdit(i) \/ (place = "away" /\ Live(i)))
  /\ Mounts("edit", i)
\* Another page: the Import screen, or a Scout the warning names.
Leave == place # "away" /\ Click /\ Mounts("away", None)
FollowWarning == TableShown /\ AffectedScouts # {} /\ Mounts("away", None) /\ UNCHANGED clicks

InPanel(p) ==
  /\ panel' = p
  /\ UNCHANGED <<cvs, edition, cache, place, swapped, editor, asks, sent, written, lapses>>

\* A row, superseded ones too once they are shown.
OpenPanel(i) ==
  /\ TableShown /\ Listed(i) /\ Click
  /\ InPanel([panel EXCEPT !.cv = i])
\* handleOpenChange.
ClosePanel == place = "list" /\ panel.cv # None /\ Click /\ InPanel(Closed)
OpenReplace ==
  /\ Current(panel.cv) /\ panel.replacing = None /\ Click
  /\ InPanel([panel EXCEPT !.replacing = panel.cv])
CancelReplace == FormShown /\ ~Deleting /\ Click /\ InPanel([panel EXCEPT !.replacing = None])
AskConfirm ==
  /\ Current(panel.cv) /\ panel.confirming = None /\ Click
  /\ InPanel([panel EXCEPT !.confirming = panel.cv])
CancelDelete == ConfirmShown /\ ~Deleting /\ Click /\ InPanel([panel EXCEPT !.confirming = None])

\* The Refresh button, in the banner too, pressed when there is something to find.
Refresh ==
  /\ TableShown /\ ~listDue /\ list # cvs /\ Click
  /\ listDue' = TRUE
  /\ UNCHANGED <<cvs, edition, list, texts, textsDue, ui, asks, sent, written, lapses>>

InEditor(e) ==
  /\ Click /\ editor' = e
  /\ UNCHANGED <<cvs, edition, cache, place, panel, swapped, asks, sent, written, lapses>>

StartEditing ==
  /\ TextLoaded /\ ~editor.editing
  /\ InEditor([editor EXCEPT !.editing = TRUE, !.draft = texts[editor.cv], !.confirming = FALSE])
\* The text is cleared, or typed again.
Type ==
  /\ Eligible /\ editor.editing
  /\ \E draft \in {0, texts[editor.cv]} \ {editor.draft} : InEditor([editor EXCEPT !.draft = draft])
CancelEditing ==
  /\ Eligible /\ editor.editing /\ ~editor.confirming /\ InEditor(Viewing(editor.cv))
Save ==
  /\ Eligible /\ editor.editing /\ editor.draft # 0 /\ ~editor.confirming
  /\ InEditor([editor EXCEPT !.confirming = TRUE])
CancelSave ==
  /\ Eligible /\ editor.confirming /\ Underway("save") = {}
  /\ InEditor([editor EXCEPT !.confirming = FALSE])

-----------------------------------------------------------------------------
(* Requests *)

Sends(k, i, own, base) ==
  /\ sent < MaxAsks /\ sent' = sent + 1
  /\ asks' = Append([n \in DOMAIN asks |-> IF own /\ asks[n].kind = k
                                           THEN [asks[n] EXCEPT !.tracked = FALSE] ELSE asks[n]],
                    [kind |-> k, cv |-> i, own |-> own, tracked |-> own, stage |-> "sent",
                     ok |-> FALSE, read |-> {}, new |-> None, base |-> base])
  /\ UNCHANGED <<cvs, edition, cache, ui, written, clicks, lapses>>

Convert(i) == CanConvert(i) /\ Sends("convert", i, TRUE, 0)
SetDefault(i) == CanSetDefault(i) /\ Sends("default", i, TRUE, 0)
\* CvReplaceForm's onSubmit, with the CV the panel shows.
SubmitReplace ==
  FormShown /\ ~Deleting /\ Underway("replace") = {} /\ Sends("replace", panel.cv, TRUE, 0)
ConfirmDelete == ConfirmShown /\ ~Deleting /\ Sends("delete", panel.cv, TRUE, 0)
ConfirmSave ==
  /\ Eligible /\ editor.confirming /\ Underway("save") = {}
  /\ Sends("save", editor.cv, TRUE, editor.draft)

\* The other tab.
OtherSends(k, i) == k \in Elsewhere /\ Live(i) /\ Sends(k, i, FALSE, cvs[i].text)

-----------------------------------------------------------------------------
(* The API *)

\* Mutant: only what came after.
WholeFrom(S) == S \cup {cvs[j].by : j \in {k \in S : cvs[k].by # None}}

\* A row and every row it superseded, however long ago: _cv_chain from its last member.
Before(S) == S \cup {j \in DOMAIN cvs : cvs[j].live /\ cvs[j].by \in S}
After(S) == S \cup {cvs[j].by : j \in {k \in S : cvs[k].by # None}}
Whole(S) == Before(After(S))
\* The walk stops where it finds no more: the least set of rows it does not leave.
Chain(i) ==
  {j \in DOMAIN cvs : \A S \in SUBSET DOMAIN cvs : i \in S /\ Whole(S) \subseteq S => j \in S}

Moves(n, stage) == asks' = [asks EXCEPT ![n].stage = stage]
\* What the other tab is answered is not followed.
Served(n, ok, base) ==
  asks' = IF asks[n].own
          THEN [asks EXCEPT ![n].stage = "answering", ![n].ok = ok, ![n].base = base, ![n].read = {}]
          ELSE RemoveAt(asks, n)
Refuses(n) == Served(n, FALSE, 0) /\ UNCHANGED <<cvs, edition>>

DefaultsBut(i) == {j \in DOMAIN cvs : cvs[j].live /\ cvs[j].default /\ j # i}

\* What the handler looks at first, and what it keeps of it.
Accepted(n) ==
  LET a == asks[n] IN
  /\ Live(a.cv)
  /\ a.kind = "replace" => cvs[a.cv].by = None
  /\ a.kind = "delete" => Chain(a.cv) \cap Used = {}
Rows(n) ==
  LET a == asks[n] IN
  CASE a.kind = "default" -> DefaultsBut(a.cv)
    [] a.kind = "replace" -> {i \in {a.cv} : cvs[i].default}
    [] a.kind = "delete" -> Chain(a.cv)
    [] OTHER -> {}

ServerReads(n) ==
  /\ asks[n].stage = "sent" /\ asks[n].kind \in {"default", "replace", "delete"}
  /\ IF Accepted(n)
     THEN asks' = [asks EXCEPT ![n].stage = "read", ![n].read = Rows(n)] /\ UNCHANGED <<cvs, edition>>
     ELSE Refuses(n)
  /\ UNCHANGED <<cache, ui, sent, written, clicks, lapses>>

\* update_cv_version: the rows its UPDATE matched lose the flag, the row gets it.  A row
\* deleted meanwhile fails the flush.
DefaultWritten(n) ==
  LET a == asks[n] IN
  /\ a.kind = "default" /\ Live(a.cv)
  /\ cvs' = [i \in DOMAIN cvs |-> IF i \in a.read THEN [cvs[i] EXCEPT !.default = FALSE]
                                  ELSE IF i = a.cv THEN [cvs[i] EXCEPT !.default = TRUE] ELSE cvs[i]]
  /\ Served(n, TRUE, 0) /\ UNCHANGED edition

NewRow(default) ==
  [live |-> TRUE, default |-> default, by |-> None, file |-> FALSE, status |-> "PENDING", text |-> 0]

\* replace_cv_version: `was_default` is what was read, and only a flag it found is cleared.
ReplaceWritten(n) ==
  LET a == asks[n]
      new == Len(cvs) + 1 IN
  /\ a.kind = "replace" /\ Live(a.cv) /\ new <= MaxCvs
  /\ cvs' = Append([cvs EXCEPT ![a.cv].by = new, ![a.cv].default = @ /\ a.cv \notin a.read],
                   NewRow(a.cv \in a.read))
  /\ asks' = [asks EXCEPT ![n].stage = "uploading", ![n].new = new]
  /\ UNCHANGED edition

\* delete_cv_version: every row of the chain that was read, in one commit.  One that
\* another delete took meanwhile is no error.
Deleted(S) == [i \in DOMAIN cvs |-> IF i \in S THEN [cvs[i] EXCEPT !.live = FALSE] ELSE cvs[i]]
DeleteWritten(n) ==
  /\ asks[n].kind = "delete"
  /\ cvs' = Deleted(asks[n].read)
  /\ Served(n, TRUE, 0) /\ UNCHANGED edition

\* An UPDATE that finds no row fails the flush.
RowGone(n) == asks[n].kind \in {"default", "replace"} /\ ~Live(asks[n].cv) /\ Refuses(n)

ServerWrites(n) ==
  /\ asks[n].stage = "read"
  /\ DefaultWritten(n) \/ ReplaceWritten(n) \/ DeleteWritten(n) \/ RowGone(n)
  /\ UNCHANGED <<cache, ui, sent, written, clicks, lapses>>

\* convert_cv_version, for its own request and for the one a replace makes.
Startable(i) == Live(i) /\ cvs[i].status # "CONVERTING" /\ cvs[i].file
Started(i) == [cvs EXCEPT ![i].status = "PENDING"]
ConvertServed(n) ==
  /\ asks[n].kind = "convert" /\ asks[n].stage = "sent"
  /\ IF Startable(asks[n].cv)
     THEN cvs' = Started(asks[n].cv) /\ Served(n, TRUE, 0) /\ UNCHANGED edition
     ELSE Refuses(n)
  /\ UNCHANGED <<cache, ui, sent, written, clicks, lapses>>

\* update_cv_version_markdown.  A blank text is refused: one cleared under the open
\* confirmation gets as far as this.
SaveServed(n) ==
  LET i == asks[n].cv IN
  /\ asks[n].kind = "save" /\ asks[n].stage = "sent" /\ edition < MaxEditions
  /\ IF Live(i) /\ cvs[i].by = None /\ cvs[i].status = "CONVERTED" /\ asks[n].base # 0
     THEN /\ cvs' = [cvs EXCEPT ![i].text = edition + 1]
          /\ edition' = edition + 1
          /\ Served(n, TRUE, edition + 1)
     ELSE Refuses(n)
  /\ UNCHANGED <<cache, ui, sent, written, clicks, lapses>>

\* putCvFile.
FileStored(n) ==
  /\ asks[n].stage = "uploading"
  /\ cvs' = [cvs EXCEPT ![asks[n].new].file = TRUE]
  /\ Moves(n, "converting")
  /\ UNCHANGED <<edition, cache, ui, sent, written, clicks, lapses>>

\* The convert of a replace, whose failure is swallowed.
ReplaceConverted(n) ==
  /\ asks[n].stage = "converting"
  /\ \/ cvs' = (IF Startable(asks[n].new) THEN Started(asks[n].new) ELSE cvs) /\ UNCHANGED lapses
     \/ Lapse /\ UNCHANGED cvs
  /\ Served(n, TRUE, 0)
  /\ UNCHANGED <<edition, cache, ui, sent, written, clicks>>

\* services/analysis's handle_cv_conversion.
Conversion(i) ==
  /\ Live(i) /\ cvs[i].file
  /\ \/ /\ cvs[i].status = "PENDING"
        /\ cvs' = [cvs EXCEPT ![i].status = "CONVERTING"] /\ UNCHANGED <<edition, lapses>>
     \/ /\ cvs[i].status = "CONVERTING" /\ edition < MaxEditions
        /\ cvs' = [cvs EXCEPT ![i].status = "CONVERTED", ![i].text = edition + 1]
        /\ edition' = edition + 1 /\ UNCHANGED lapses
     \/ /\ cvs[i].status = "CONVERTING" /\ Lapse
        /\ cvs' = [cvs EXCEPT ![i].status = "FAILED"] /\ UNCHANGED edition
  /\ UNCHANGED <<cache, ui, asks, sent, written, clicks>>

-----------------------------------------------------------------------------
(* Answers *)

\* Mutant: the renditions have a key of their own.
InvalidatedList == listDue' = TRUE /\ UNCHANGED textsDue

\* invalidateQueries(["cv-versions"]): the renditions are under the same key.
Invalidated == listDue' = TRUE /\ textsDue' = Ids

\* Mutant: the form stays open.
MovedWithForm(i) == [panel EXCEPT !.cv = i]

\* A replace moves the panel to the new row.
MovedTo(i) == [panel EXCEPT !.cv = i, !.replacing = None]

\* The callbacks of a mutation still shown: a replace moves the panel to the new row, a
\* delete closes it, a save leaves the editing.
Callback(a) ==
  /\ panel' = CASE a.tracked /\ a.kind = "replace" -> MovedTo(a.new)
                [] a.tracked /\ a.kind = "delete" -> Closed
                [] OTHER -> panel
  /\ swapped' = IF a.tracked /\ a.kind = "replace" THEN a.cv ELSE swapped
  /\ editor' = IF a.tracked /\ a.kind = "save" THEN Viewing(editor.cv) ELSE editor

Saved(a) ==
  written' = IF a.own /\ a.kind = "save" THEN [written EXCEPT ![a.cv] = a.base] ELSE written

Answered(n) ==
  LET a == asks[n] IN
  /\ a.stage = "answering"
  /\ asks' = RemoveAt(asks, n)
  /\ IF a.own /\ a.ok THEN Invalidated /\ Callback(a) /\ Saved(a)
                      ELSE UNCHANGED <<listDue, textsDue, panel, swapped, editor, written>>
  /\ UNCHANGED <<cvs, edition, list, texts, place, sent, clicks, lapses>>

\* Lost on its way, or answered to nobody; an upload may fail with its row created.
Fails(n) ==
  /\ asks[n].stage \in {"sent", "uploading", "answering"} /\ Lapse
  /\ asks' = RemoveAt(asks, n)
  /\ UNCHANGED <<cvs, edition, cache, ui, sent, written, clicks>>

\* A fetch is answered in one step: an invalidation cancels the one in flight.
ListFetched ==
  /\ place # "away" /\ listDue
  /\ list' = cvs /\ listDue' = FALSE
  /\ UNCHANGED <<cvs, edition, texts, textsDue, ui, asks, sent, written, clicks, lapses>>

\* Of a deleted row an error is shown, beside the text that was there.
TextFetched(i) ==
  /\ RenditionShown(i) /\ i \in textsDue
  /\ texts' = IF Live(i) THEN [texts EXCEPT ![i] = cvs[i].text] ELSE texts
  /\ textsDue' = textsDue \ {i}
  /\ UNCHANGED <<cvs, edition, list, listDue, ui, asks, sent, written, clicks, lapses>>

-----------------------------------------------------------------------------

InThePanel == ClosePanel \/ OpenReplace \/ CancelReplace \/ AskConfirm \/ CancelDelete
InTheEditor ==
  StartEditing \/ Type \/ CancelEditing \/ Save \/ CancelSave

Next ==
  \/ OpenList \/ Leave \/ FollowWarning \/ Refresh \/ InThePanel \/ InTheEditor
  \/ SubmitReplace \/ ConfirmDelete \/ ConfirmSave \/ ListFetched
  \/ \E i \in Ids :
       \/ OpenEditor(i) \/ OpenPanel(i) \/ Convert(i) \/ SetDefault(i) \/ Conversion(i)
       \/ TextFetched(i) \/ \E k \in Kinds : OtherSends(k, i)
  \/ \E n \in DOMAIN asks :
       \/ ServerReads(n) \/ ServerWrites(n) \/ ConvertServed(n) \/ SaveServed(n)
       \/ FileStored(n) \/ ReplaceConverted(n) \/ Answered(n) \/ Fails(n)

Spec == Init /\ [][Next]_vars

-----------------------------------------------------------------------------
(* Properties *)

TypeOK ==
  /\ cvs \in Seq(CvVersion) /\ Len(cvs) <= MaxCvs /\ edition \in Editions
  /\ list \in Seq(CvVersion) /\ Len(list) <= MaxCvs /\ listDue \in BOOLEAN
  /\ texts \in [Ids -> Editions] /\ textsDue \subseteq Ids
  /\ place \in {"list", "edit", "away"}
  /\ panel \in [cv : {None} \cup Ids, replacing : {None} \cup Ids, confirming : {None} \cup Ids]
  /\ swapped \in {None} \cup Ids
  /\ editor \in [cv : {None} \cup Ids, editing : BOOLEAN, draft : Editions, confirming : BOOLEAN]
  /\ sent \in 0..MaxAsks /\ Len(asks) <= sent /\ \A n \in DOMAIN asks : IsAsk(asks[n])
  /\ written \in [Ids -> Editions]
  /\ clicks \in 0..MaxClicks /\ lapses \in 0..MaxLapses

\* A delete takes a CV whole: whatever is replaced between the reading of the chain and
\* its commit, no version is left that says it was replaced by a deleted one.
ChainsWhole == \A i \in DOMAIN cvs : cvs[i].live /\ cvs[i].by # None => cvs[cvs[i].by].live

\* The Replace form, its label filled in for the CV it was opened on, is never shown over
\* another one, whenever the answer of an earlier replace moves the panel.
FormIsOfItsCv == FormShown => panel.replacing = panel.cv

\* use-cv-versions.ts: the save invalidates "so the edit page's read-only view reflects
\* the save without a manual refetch".  With nothing left to fetch of a CV that is there,
\* the view is no older than the last save this tab was told of.
EditShowsSaved ==
  TextLoaded /\ ~editor.editing /\ editor.cv \notin textsDue /\ Live(editor.cv)
    => texts[editor.cv] >= written[editor.cv]

-----------------------------------------------------------------------------
(* What the code says and does not hold *)

\* use-cv-versions.ts: "services/api clears the previous default".  Two requests read the
\* rows to clear before either commits; a replace hands on a flag cleared meanwhile.
OneDefault == Cardinality({i \in DOMAIN cvs : Live(i) /\ cvs[i].default}) <= 1

\* The default is a current version: not when the list that offered "Set default" is
\* older than a replace.
DefaultIsCurrent == \A i \in DOMAIN cvs : Live(i) /\ cvs[i].default => cvs[i].by = None

\* The confirmation of a delete is for the CV it was asked on.  It stays open over the new
\* version when the answer of a replace moves the panel.
ConfirmIsOfItsCv == ConfirmShown => panel.confirming = panel.cv

\* A save writes over the rendition its draft was taken from, and no other.
NoRenditionLost ==
  [][\A n \in DOMAIN asks : SaveServed(n) /\ edition' > edition => cvs[asks[n].cv].text = asks[n].base]_vars

=============================================================================
