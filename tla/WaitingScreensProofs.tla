------------------------ MODULE WaitingScreensProofs ------------------------
(***************************************************************************)
(* Proofs about MCWaitingScreens: about its Import screen, which it        *)
(* extends, and its Scouts page, which is an instance in it.                *)
(***************************************************************************)
EXTENDS MCWaitingScreens, SequenceTheorems, WellFoundedInduction, TLAPS

-----------------------------------------------------------------------------
(* The largest of a set *)

\* A set of natural numbers has a least element: the library's minimum of a well-founded relation.
LEMMA LeastOf == ASSUME NEW T, T \subseteq Nat, T # {} PROVE \E x \in T : \A y \in T : x <= y
<1> DEFINE R == OpToRel(<, Nat)
<1>1. IsWellFoundedOn(R, Nat)
  BY NatLessThanWellFounded
<1>2. \A a, b \in Nat : a < b => <<a, b>> \in R
  BY DEF OpToRel
<1> HIDE DEF R
<1>3. PICK x \in T : \A y \in T : ~(<<y, x>> \in R)
  BY <1>1, WFMin
<1>4. x \in Nat /\ \A y \in T : y \in Nat
  OBVIOUS
<1>5. \A y \in T : ~(y < x)
  BY <1>2, <1>3, <1>4, Zenon
<1>6. \A y \in T : x <= y
  BY <1>4, <1>5
<1>7. QED
  BY <1>6

\* Max, of a set of indices, is one of them.
LEMMA MaxIsOne ==
  ASSUME NEW n \in Nat, NEW S, S \subseteq 1..n, S # {}
  PROVE ScoutsPage!Max(S) \in S
<1> DEFINE T == {k \in Nat : \E x \in S : k = n - x}
<1>0. \A x \in S : n - x \in Nat
  OBVIOUS
<1>1. T \subseteq Nat /\ T # {}
  BY <1>0
<1>2. PICK k \in T : \A l \in T : k <= l
  <2> HIDE DEF T
  <2>1. QED
    BY <1>1, LeastOf
<1>3. PICK x \in S : k = n - x
  BY <1>2
<1>4. ASSUME NEW y \in S PROVE x >= y
  <2>1. n - y \in T
    OBVIOUS
  <2>2. k <= n - y
    BY <1>2, <2>1
  <2>3. QED
    BY <1>3, <2>2
<1>5. \E z \in S : \A y \in S : z >= y
  BY <1>4
<1>6. QED
  BY <1>5 DEF ScoutsPage!Max

-----------------------------------------------------------------------------
(* The Scouts page's part *)

\* Another part's steps leave the Scouts page alone.
LEMMA ScoutsPart == [NextParts]_parts => [ScoutsPage!Next]_(ScoutsPage!vars)
BY DEF NextParts, parts, OfScouts, OfImport, scouts, ScoutsPage!vars, ScoutsPage!server, ScoutsPage!cache,
       ScoutsPage!mutations

\* The rows of the runs, whatever the hours that pass.
Ran ==
  [of : Scouts, hour : Nat, status : ScoutsPage!RunStatus, queued : BOOLEAN, work : ScoutsPage!Work,
   failed : BOOLEAN]

\* What is going to be answered of a click on "Run now".
Runs ==
  [of : Scouts \cup {ScoutsPage!Nothing},
   step : {"idle", "sent", "checked", "catching", "error", "too soon"}, seen : Nat]

\* The rows of the runs, and whose the page can be about.
Rowed ==
  /\ runs \in Seq(Ran) /\ hour \in Nat
  /\ shown \in Scouts \cup {ScoutsPage!Nothing}
  /\ DOMAIN known = Scouts
  /\ run \in Runs /\ (run.step \in {"sent", "checked"} => run.of \in Scouts)

\* No run is of an hour that has not come; the history knows runs there are; and the run known
\* at a click that is still unanswered is of an earlier hour, the button being dead within its own.
Dated ==
  /\ \A i \in DOMAIN runs : runs[i].hour <= hour
  /\ \A s \in Scouts : known[s].latest # ScoutsPage!NoRun => known[s].latest \in DOMAIN runs
  /\ run.step = "sent" /\ run.seen # ScoutsPage!NoRun =>
       run.seen \in DOMAIN runs /\ runs[run.seen].hour < hour

\* What pages that were left asked for is still of a Scout.
Posted ==
  \A b \in sBehind :
    /\ {"what", "of"} \subseteq DOMAIN b
    /\ b.what \in {"sent", "checked"} => b.of \in Scouts

RunNowInv == Rowed /\ Dated /\ Posted

\* As many rows, of the same hours, and perhaps one more of this hour.
Extends(rs) ==
  /\ rs \in Seq(Ran)
  /\ DOMAIN runs \subseteq DOMAIN rs
  /\ \A i \in DOMAIN rs : rs[i].hour = IF i \in DOMAIN runs THEN runs[i].hour ELSE hour

\* A click that was answered one way or another, or one that goes on.
Answering == run' = run \/ (run' \in Runs /\ run'.step \notin {"sent", "checked"})

\* Each row is one.
LEMMA RunRows ==
  ASSUME RunNowInv
  PROVE /\ DOMAIN runs = 1..Len(runs) /\ Len(runs) \in Nat
        /\ \A i \in DOMAIN runs : runs[i] \in Ran /\ runs[i].hour \in Nat
<1>1. runs \in Seq(Ran)
  BY DEF RunNowInv, Rowed
<1> DEFINE R == Ran
<1>2. DOMAIN runs = 1..Len(runs) /\ Len(runs) \in Nat /\ \A i \in 1..Len(runs) : runs[i] \in R
  <2> HIDE DEF R
  <2>1. runs \in Seq(R)
    BY <1>1 DEF R
  <2>2. QED
    BY <2>1, ElementOfSeq
<1>3. \A x \in R : x.hour \in Nat
  BY DEF Ran
<1> HIDE DEF R
<1>4. QED
  BY <1>2, <1>3 DEF R

\* What a step may do besides "Run now" and the reads.
LEMMA RunNowKept ==
  ASSUME RunNowInv, Extends(runs'), hour' = hour,
         shown' \in Scouts \cup {ScoutsPage!Nothing}, known' = known, Answering, Posted'
  PROVE RunNowInv'
<1>1. Rowed'
  BY DEF RunNowInv, Rowed, Extends, Answering, Runs, Ran, ScoutsPage!RunStatus, ScoutsPage!Work,
         ScoutsPage!Nothing
<1>2. hour \in Int
  BY DEF RunNowInv, Rowed
<1>3. (\A i \in DOMAIN runs : runs[i].hour <= hour)'
  BY <1>2 DEF RunNowInv, Dated, Extends
<1>4. (\A s \in Scouts : known[s].latest # ScoutsPage!NoRun => known[s].latest \in DOMAIN runs)'
  BY DEF RunNowInv, Dated, Extends, ScoutsPage!NoRun
<1>5. (run.step = "sent" /\ run.seen # ScoutsPage!NoRun =>
         run.seen \in DOMAIN runs /\ runs[run.seen].hour < hour)'
  BY DEF RunNowInv, Dated, Extends, Answering, ScoutsPage!NoRun
<1>6. QED
  BY <1>1, <1>3, <1>4, <1>5 DEF RunNowInv, Dated

\* A request that was left is served, refused or lost, or none is.
LEMMA FewerPosted == ASSUME RunNowInv, sBehind' \subseteq sBehind PROVE Posted'
BY DEF RunNowInv, Posted

\* The page unmounts.
LEMMA MorePosted == ASSUME RunNowInv, ScoutsPage!Unmounted PROVE Posted'
<1> USE DEF RunNowInv, Rowed, Posted
<1>1. ASSUME NEW b \in sBehind', b \notin sBehind
      PROVE  /\ {"what", "of"} \subseteq DOMAIN b
             /\ \/ b.what = run.step /\ run.step \in {"sent", "checked"} /\ b.of = run.of
                \/ b.what = "update" \/ b.what = "requeue"
  <2>1. \/ b \in {[what |-> run.step, of |-> run.of, to |-> "none", row |-> ScoutsPage!NoRun,
                   since |-> clicks] : x \in {run.step} \cap {"sent", "checked"}}
        \/ b \in {[what |-> "update", of |-> update.of, to |-> update.to, row |-> ScoutsPage!NoRun,
                   since |-> clicks] : x \in {update.of} \ {ScoutsPage!Nothing}}
        \/ b \in {[what |-> "requeue", of |-> requeue.of, to |-> "none", row |-> i,
                   since |-> clicks] : i \in requeue.waiting}
    BY <1>1, Zenon DEF ScoutsPage!Unmounted
  <2>2. QED
    BY <2>1
<1>2. run.step \in {"sent", "checked"} => run.of \in Scouts
  OBVIOUS
<1>3. QED
  BY <1>1, <1>2

LEMMA ExtendsSame == ASSUME RunNowInv, runs' = runs PROVE Extends(runs')
BY DEF RunNowInv, Rowed, Extends

\* A run is inserted.
LEMMA ExtendsNew ==
  ASSUME RunNowInv, NEW s \in Scouts, NEW queued \in BOOLEAN,
         runs' = Append(runs, ScoutsPage!NewRun(s, queued))
  PROVE Extends(runs')
<1> DEFINE new == ScoutsPage!NewRun(s, queued)
<1>1. new \in Ran /\ new.hour = hour
  BY DEF RunNowInv, Rowed, ScoutsPage!NewRun, Ran, ScoutsPage!RunStatus, ScoutsPage!Work
<1> HIDE DEF new
<1>2. runs \in Seq(Ran) /\ runs' = Append(runs, new)
  BY DEF RunNowInv, Rowed, new
<1>3. /\ runs' \in Seq(Ran) /\ DOMAIN runs' = 1..(Len(runs) + 1) /\ DOMAIN runs = 1..Len(runs)
      /\ Len(runs) \in Nat
      /\ \A i \in 1..Len(runs) : runs'[i] = runs[i]
      /\ runs'[Len(runs) + 1] = new
  BY <1>1, <1>2
<1>4. QED
  BY <1>1, <1>3 DEF Extends

\* Rows rewritten in place keep their hour.
LEMMA ExtendsRewritten ==
  ASSUME RunNowInv, DOMAIN runs' = DOMAIN runs, runs' = [i \in DOMAIN runs |-> runs'[i]],
         \A i \in DOMAIN runs : runs'[i] \in Ran /\ runs'[i].hour = runs[i].hour
  PROVE Extends(runs')
<1>1. runs \in Seq(Ran) /\ DOMAIN runs = 1..Len(runs) /\ Len(runs) \in Nat
  BY DEF RunNowInv, Rowed
<1>2. runs' \in [1..Len(runs) -> Ran]
  BY <1>1
<1>3. runs' \in Seq(Ran)
  BY <1>1, <1>2, SeqDef
<1>4. QED
  BY <1>3 DEF Extends

LEMMA RunNowInit == ScoutsPage!PageAssumption /\ ScoutsPage!Init => RunNowInv
<1> SUFFICES ASSUME ScoutsPage!PageAssumption, ScoutsPage!Init PROVE RunNowInv
  OBVIOUS
<1>1. PICK o \in Openings :
        /\ status = o.status
        /\ runs = IF o.blocked = ScoutsPage!Nothing THEN <<>>
                  ELSE <<[of |-> o.blocked, hour |-> 0, status |-> "COMPLETED", queued |-> FALSE,
                          work |-> "blocked", failed |-> FALSE]>>
        /\ shown = o.open
  BY DEF ScoutsPage!Init
<1>2. /\ MaxHours \in Nat /\ o.status \in [Scouts -> ScoutsPage!ScoutStatus]
      /\ o.blocked \in Scouts \cup {ScoutsPage!Nothing} /\ o.open \in Scouts \cup {ScoutsPage!Nothing}
  BY DEF ScoutsPage!PageAssumption
<1>3. hour = 0 /\ known = [s \in Scouts |-> ScoutsPage!NoHistory] /\ run = ScoutsPage!IdleRun /\ sBehind = {}
  BY DEF ScoutsPage!Init
<1>4. runs \in Seq(Ran) /\ \A i \in DOMAIN runs : runs[i].hour <= hour
  <2>1. CASE runs = <<>>
    BY <2>1
  <2>2. CASE o.blocked # ScoutsPage!Nothing
    <3> DEFINE one == [of |-> o.blocked, hour |-> 0, status |-> "COMPLETED", queued |-> FALSE,
                       work |-> "blocked", failed |-> FALSE]
    <3>1. one \in Ran /\ one.hour = 0
      BY <1>2, <2>2 DEF Ran, ScoutsPage!RunStatus, ScoutsPage!Work
    <3>2. runs = <<one>>
      BY <1>1, <2>2
    <3> HIDE DEF one
    <3>3. QED
      BY <1>3, <3>1, <3>2
  <2>3. QED
    BY <1>1, <2>1, <2>2
<1>5. QED
  BY <1>1, <1>2, <1>3, <1>4
  DEF RunNowInv, Rowed, Dated, Posted, Runs, ScoutsPage!IdleRun, ScoutsPage!NoHistory, ScoutsPage!NoRun, ScoutsPage!Nothing

\* The button is live outside the hour of the run the panel knows.
LEMMA Clicked == ASSUME RunNowInv, ScoutsPage!RunNow PROVE RunNowInv'
<1> USE DEF ScoutsPage!NoRun
<1>1. /\ run' = [of |-> shown, step |-> "sent", seen |-> known[shown].latest]
      /\ shown # ScoutsPage!Nothing /\ ~ScoutsPage!CoolingDown(shown)
      /\ UNCHANGED <<runs, hour, known, shown, sBehind>>
  BY DEF ScoutsPage!RunNow, ScoutsPage!CanRun, ScoutsPage!Open, ScoutsPage!server, ScoutsPage!cache
<1>2. shown \in Scouts
  BY <1>1 DEF RunNowInv, Rowed
<1> DEFINE k == known[shown].latest
<1>3. k = 0 \/ (k \in DOMAIN runs /\ runs[k].hour # hour)
  BY <1>1, <1>2 DEF RunNowInv, Dated, ScoutsPage!CoolingDown
<1>4. /\ DOMAIN runs \subseteq Nat /\ hour \in Int
      /\ \A i \in DOMAIN runs : runs[i].hour \in Int /\ runs[i].hour <= hour
  BY RunRows DEF RunNowInv, Rowed, Dated
<1>5. k \in Nat /\ (k = 0 \/ (k \in DOMAIN runs /\ runs[k].hour < hour))
  BY <1>3, <1>4
<1>6. run'.step = "sent" /\ run'.of = shown /\ run'.seen = k /\ run' \in Runs
  BY <1>1, <1>2, <1>5 DEF Runs
<1> HIDE DEF k
<1>7. Rowed'
  BY <1>1, <1>2, <1>6 DEF RunNowInv, Rowed, Runs, Ran, ScoutsPage!RunStatus, ScoutsPage!Work,
     ScoutsPage!Nothing
<1>8. Dated'
  BY <1>1, <1>5, <1>6 DEF RunNowInv, Dated
<1>9. QED
  BY <1>1, <1>7, <1>8, FewerPosted DEF RunNowInv

\* The history fetched names a run there is.
LEMMA HistoryRead == ASSUME RunNowInv, ScoutsPage!HistoryFetched PROVE RunNowInv'
<1> USE DEF ScoutsPage!NoRun
<1> DEFINE got == ScoutsPage!History(shown)
<1>1. /\ known' = [known EXCEPT ![shown] = got]
      /\ shown # ScoutsPage!Nothing /\ UNCHANGED <<runs, hour, shown, run, sBehind>>
  BY DEF ScoutsPage!HistoryFetched, ScoutsPage!Open, ScoutsPage!server, ScoutsPage!mutations
<1>2. got.latest # 0 => got.latest \in DOMAIN runs
  <2>1. DOMAIN runs = 1..Len(runs) /\ Len(runs) \in Nat
    BY DEF RunNowInv, Rowed
  <2>2. ScoutsPage!RunsOf(shown) \subseteq 1..Len(runs)
    BY <2>1 DEF ScoutsPage!RunsOf
  <2>3. ScoutsPage!Latest(shown) # 0 => ScoutsPage!Latest(shown) \in 1..Len(runs)
    BY <2>1, <2>2, MaxIsOne DEF ScoutsPage!Latest
  <2>4. QED
    BY <2>1, <2>3 DEF ScoutsPage!History
<1> HIDE DEF got
<1>3. DOMAIN known' = Scouts /\ \A s \in Scouts : known'[s] = known[s] \/ known'[s] = got
  BY <1>1 DEF RunNowInv, Rowed
<1>4. Rowed'
  BY <1>1, <1>3 DEF RunNowInv, Rowed, Runs, Ran, ScoutsPage!RunStatus, ScoutsPage!Work,
     ScoutsPage!Nothing
<1>5. Dated'
  BY <1>1, <1>2, <1>3 DEF RunNowInv, Dated
<1>6. QED
  BY <1>1, <1>4, <1>5, FewerPosted DEF RunNowInv

\* An hour passes.
LEMMA HourPasses == ASSUME RunNowInv, ScoutsPage!Tick PROVE RunNowInv'
<1>1. hour' = hour + 1 /\ UNCHANGED <<runs, known, shown, run, sBehind>>
  BY DEF ScoutsPage!Tick, ScoutsPage!cache, ScoutsPage!mutations
<1>2. hour \in Nat /\ \A i \in DOMAIN runs : runs[i].hour \in Nat
  BY RunRows DEF RunNowInv, Rowed
<1>3. Rowed'
  <2>1. hour' \in Nat /\ UNCHANGED <<runs, known, shown, run>>
    BY <1>1, <1>2
  <2>2. QED
    BY <2>1 DEF RunNowInv, Rowed, Runs, Ran, ScoutsPage!RunStatus, ScoutsPage!Work, ScoutsPage!Nothing
<1>4. Dated'
  BY <1>1, <1>2 DEF RunNowInv, Dated, ScoutsPage!NoRun
<1>5. QED
  BY <1>1, <1>3, <1>4, FewerPosted DEF RunNowInv

\* The first half of run_scout: its refusals.
LEMMA Checked == ASSUME RunNowInv, ScoutsPage!RunChecked PROVE RunNowInv'
<1>1. UNCHANGED <<runs, hour, known, shown, sBehind>>
  BY DEF ScoutsPage!RunChecked, ScoutsPage!server, ScoutsPage!cache
<1>2. run \in Runs /\ run.step = "sent" /\ run.of \in Scouts
  BY DEF ScoutsPage!RunChecked, RunNowInv, Rowed
<1>3. run' \in {ScoutsPage!RunError, [ScoutsPage!IdleRun EXCEPT !.step = "too soon"], [run EXCEPT !.step = "checked"]}
  BY Zenon DEF ScoutsPage!RunChecked
<1>4. run' \in Runs /\ run'.step # "sent" /\ (run'.step = "checked" => run'.of \in Scouts)
  <2> DEFINE Fits(r) == r \in Runs /\ r.step # "sent" /\ (r.step = "checked" => r.of \in Scouts)
  <2>1. Fits(ScoutsPage!RunError)
    BY DEF Runs, ScoutsPage!RunError, ScoutsPage!IdleRun, ScoutsPage!NoRun
  <2>2. Fits([ScoutsPage!IdleRun EXCEPT !.step = "too soon"])
    BY DEF Runs, ScoutsPage!IdleRun, ScoutsPage!NoRun
  <2>3. Fits([run EXCEPT !.step = "checked"])
    BY <1>2 DEF Runs
  <2> HIDE DEF Fits
  <2>4. Fits(run')
    BY <1>3, <2>1, <2>2, <2>3
  <2>5. QED
    BY <2>4 DEF Fits
<1>5. Rowed'
  BY <1>1, <1>4 DEF RunNowInv, Rowed, Runs, Ran, ScoutsPage!RunStatus, ScoutsPage!Work,
     ScoutsPage!Nothing
<1>6. Dated'
  BY <1>1, <1>4 DEF RunNowInv, Dated, ScoutsPage!NoRun
<1>7. QED
  BY <1>1, <1>5, <1>6, FewerPosted DEF RunNowInv

\* The runs' rows move, and the other tab's.
LEMMA PipelineMoves == ASSUME RunNowInv, NEW i \in DOMAIN runs, ScoutsPage!Pipeline(i) PROVE RunNowInv'
<1> DEFINE Moved(r) == r \in Ran /\ r.hour = runs[i].hour
<1>1. \A j \in DOMAIN runs : runs[j] \in Ran
  BY RunRows
<1>2. ASSUME NEW r, Moved(r), ScoutsPage!Change(i, r) PROVE RunNowInv'
  <2>1. /\ runs' = [runs EXCEPT ![i] = r]
        /\ UNCHANGED <<hour, shown, known, run, sBehind>>
    BY <1>2 DEF ScoutsPage!Change, ScoutsPage!cache, ScoutsPage!mutations
  <2>2. Extends(runs')
    <3>1. DOMAIN runs' = DOMAIN runs /\ runs' = [j \in DOMAIN runs |-> runs'[j]]
      BY <2>1
    <3>2. \A j \in DOMAIN runs : runs'[j] = IF j = i THEN r ELSE runs[j]
      BY <2>1
    <3>3. \A j \in DOMAIN runs : runs'[j] \in Ran /\ runs'[j].hour = runs[j].hour
      BY <1>1, <1>2, <3>2
    <3>4. QED
      BY <3>1, <3>3, ExtendsRewritten
  <2>3. QED
    BY <2>1, <2>2, RunNowKept, FewerPosted DEF Answering, RunNowInv, Rowed
<1>3. \A st \in ScoutsPage!RunStatus : Moved([runs[i] EXCEPT !.status = st])
  BY <1>1 DEF Ran
<1>4. \A w \in ScoutsPage!Work : Moved([runs[i] EXCEPT !.work = w])
  BY <1>1 DEF Ran
<1>5. \A st \in ScoutsPage!RunStatus : Moved([runs[i] EXCEPT !.status = st, !.work = "jobs"])
  BY <1>1 DEF Ran, ScoutsPage!Work
<1> HIDE DEF Moved
<1>6. CASE ScoutsPage!Dispatched(i)
  <2>1. \A st \in {"COMPLETED", "PARTIALLY_COMPLETED", "FAILED"} : st \in ScoutsPage!RunStatus
    BY DEF ScoutsPage!RunStatus
  <2>2. QED
    BY <1>2, <1>3, <1>5, <1>6, <2>1 DEF ScoutsPage!Dispatched
<1>7. CASE ScoutsPage!DispatchDies(i)
  <2>1. "STALE" \in ScoutsPage!RunStatus
    BY DEF ScoutsPage!RunStatus
  <2>2. QED
    BY <1>2, <1>3, <1>7, <2>1 DEF ScoutsPage!DispatchDies
<1>8. ASSUME NEW from, NEW to \in ScoutsPage!Work, ScoutsPage!Moves(i, from, to) PROVE RunNowInv'
  BY <1>2, <1>4, <1>8 DEF ScoutsPage!Moves
<1>12. ASSUME NEW from, NEW to \in ScoutsPage!Work, ScoutsPage!Ends(i, from, to) PROVE RunNowInv'
  <2>1. PICK failed \in {runs[i].failed, TRUE} :
          ScoutsPage!Change(i, [runs[i] EXCEPT !.work = to, !.failed = failed])
    BY <1>12 DEF ScoutsPage!Ends
  <2>2. Moved([runs[i] EXCEPT !.work = to, !.failed = failed])
    BY <1>1 DEF Ran, Moved
  <2>3. QED
    BY <1>2, <2>1, <2>2
<1>9. CASE ScoutsPage!JobsEnd(i) \/ ScoutsPage!AnalysesCreated(i) \/ ScoutsPage!AnalysesEnd(i) \/ ScoutsPage!WorkStops(i)
  <2>1. \A w \in {"ready", "analyses", "over", "abandoned", "blocked"} : w \in ScoutsPage!Work
    BY DEF ScoutsPage!Work
  <2>2. QED
    BY <1>8, <1>9, <1>12, <2>1
    DEF ScoutsPage!JobsEnd, ScoutsPage!AnalysesCreated, ScoutsPage!AnalysesEnd, ScoutsPage!WorkStops
<1>10. CASE ScoutsPage!Dispatch(i)
  <2> DEFINE closed == ScoutsPage!Closed(runs[i].of)
  <2>1. PICK st \in ScoutsPage!RunStatus : runs' = [closed EXCEPT ![i].queued = FALSE, ![i].status = st]
    BY <1>10 DEF ScoutsPage!Dispatch, ScoutsPage!RunStatus
  <2>2. UNCHANGED <<hour, shown, known, run, sBehind>>
    BY <1>10 DEF ScoutsPage!Dispatch, ScoutsPage!cache, ScoutsPage!mutations
  <2>3. /\ DOMAIN closed = DOMAIN runs
        /\ \A j \in DOMAIN runs : closed[j] \in Ran /\ closed[j].hour = runs[j].hour
    <3>1. \A j \in DOMAIN runs :
            [runs[j] EXCEPT !.status = "FAILED"] \in Ran /\ [runs[j] EXCEPT !.status = "FAILED"].hour = runs[j].hour
      BY <1>1 DEF Ran, ScoutsPage!RunStatus
    <3>2. QED
      BY <1>1, <3>1 DEF ScoutsPage!Closed
  <2> HIDE DEF closed
  <2>4. DOMAIN runs' = DOMAIN runs /\ runs' = [j \in DOMAIN runs |-> runs'[j]]
    BY <2>1, <2>3
  <2>5. \A j \in DOMAIN runs : j # i => runs'[j] = closed[j]
    BY <2>1, <2>3
  <2>6. runs'[i] = [closed[i] EXCEPT !.queued = FALSE, !.status = st]
    BY <2>1, <2>3
  <2>7. runs'[i] \in Ran /\ runs'[i].hour = runs[i].hour
    BY <2>3, <2>6 DEF Ran
  <2>8. \A j \in DOMAIN runs : runs'[j] \in Ran /\ runs'[j].hour = runs[j].hour
    BY <2>3, <2>5, <2>7
  <2>9. Extends(runs')
    BY <2>4, <2>8, ExtendsRewritten
  <2>10. QED
    BY <2>2, <2>9, RunNowKept, FewerPosted DEF Answering, RunNowInv, Rowed
<1>11. QED
  BY <1>6, <1>7, <1>9, <1>10 DEF ScoutsPage!Pipeline

\* bulk_requeue puts blocked work back.
LEMMA ExtendsRequeued ==
  ASSUME RunNowInv, NEW ids, runs' = ScoutsPage!Requeued(ids)
  PROVE Extends(runs')
<1>1. \A j \in DOMAIN runs : runs[j] \in Ran
  BY RunRows
<1>2. \A j \in DOMAIN runs :
        [runs[j] EXCEPT !.work = "analyses"] \in Ran /\ [runs[j] EXCEPT !.work = "analyses"].hour = runs[j].hour
  BY <1>1 DEF Ran, ScoutsPage!Work
<1>3. DOMAIN runs' = DOMAIN runs /\ runs' = [j \in DOMAIN runs |-> runs'[j]]
  BY DEF ScoutsPage!Requeued
<1>4. \A j \in DOMAIN runs : runs'[j] \in Ran /\ runs'[j].hour = runs[j].hour
  BY <1>1, <1>2 DEF ScoutsPage!Requeued
<1>5. QED
  BY <1>3, <1>4, ExtendsRewritten

LEMMA RunNowNext == RunNowInv /\ [ScoutsPage!Next]_(ScoutsPage!vars) => RunNowInv'
<1> SUFFICES ASSUME RunNowInv, [ScoutsPage!Next]_(ScoutsPage!vars) PROVE RunNowInv'
  OBVIOUS
<1> USE DEF ScoutsPage!server, ScoutsPage!cache, ScoutsPage!mutations
<1>1. shown \in Scouts \cup {ScoutsPage!Nothing} /\ run \in Runs /\ (run.step \in {"sent", "checked"} => run.of \in Scouts)
  BY DEF RunNowInv, Rowed
<1>2. /\ ScoutsPage!IdleRun \in Runs /\ ScoutsPage!IdleRun.step = "idle"
      /\ ScoutsPage!RunError \in Runs /\ ScoutsPage!RunError.step = "error"
  BY DEF Runs, ScoutsPage!IdleRun, ScoutsPage!RunError, ScoutsPage!NoRun
<1>3. [run EXCEPT !.step = "catching"] \in Runs /\ [run EXCEPT !.step = "catching"].step = "catching"
  BY <1>1 DEF Runs
\* A step that touches neither the rows nor the clock, and sends no click.
<1>4. ASSUME UNCHANGED <<runs, hour, known>>, shown' \in Scouts \cup {ScoutsPage!Nothing},
             run' \in {run, ScoutsPage!IdleRun, ScoutsPage!RunError},
             sBehind' = sBehind \/ ScoutsPage!Unmounted
      PROVE RunNowInv'
  BY <1>2, <1>4, ExtendsSame, RunNowKept, FewerPosted, MorePosted DEF Answering
<1>5. ASSUME NEW s \in Scouts, ScoutsPage!OpenPanel(s) PROVE RunNowInv'
  BY <1>4, <1>5 DEF ScoutsPage!OpenPanel
<1>6. ASSUME NEW s \in Scouts, ScoutsPage!OpenForm(s) PROVE RunNowInv'
  BY <1>4, <1>6 DEF ScoutsPage!OpenForm, ScoutsPage!Unmounted
<1>7. ASSUME NEW s \in Scouts, ScoutsPage!Return(s) PROVE RunNowInv'
  BY <1>4, <1>7 DEF ScoutsPage!Return, ScoutsPage!Unmounted
<1>8. ASSUME NEW s \in Scouts, ScoutsPage!Elsewhere(s) PROVE RunNowInv'
  <2>1. UNCHANGED <<hour, known, shown, run, sBehind>>
    BY <1>8 DEF ScoutsPage!Elsewhere
  <2>2. \/ runs' = Append(runs, ScoutsPage!NewRun(s, TRUE))
        \/ runs' = runs
        \/ runs' = ScoutsPage!Requeued(ScoutsPage!Blocked(s))
    BY <1>8 DEF ScoutsPage!Elsewhere
  <2>3. Extends(runs')
    BY <2>2, ExtendsNew, ExtendsSame, ExtendsRequeued
  <2>4. QED
    BY <1>1, <2>1, <2>3, RunNowKept, FewerPosted DEF Answering
<1>9. CASE ScoutsPage!ClosePanel \/ ScoutsPage!Refresh \/ ScoutsPage!Leave \/ ScoutsPage!CaughtUp
  BY <1>1, <1>4, <1>9 DEF ScoutsPage!ClosePanel, ScoutsPage!Refresh, ScoutsPage!Leave, ScoutsPage!CaughtUp,
     ScoutsPage!Unmounted
<1>10. CASE ScoutsPage!RunLost
  BY <1>1, <1>4, <1>10 DEF ScoutsPage!RunLost, ScoutsPage!Answered
<1>11. CASE ScoutsPage!RunInserted
  <2>1. /\ UNCHANGED <<hour, known, shown, sBehind>> /\ run' = [run EXCEPT !.step = "catching"]
        /\ runs' = Append(runs, ScoutsPage!NewRun(run.of, TRUE)) /\ run.step = "checked"
    BY <1>11 DEF ScoutsPage!RunInserted, ScoutsPage!Answered
  <2>2. Extends(runs')
    BY <1>1, <2>1, ExtendsNew
  <2>3. QED
    BY <1>1, <1>3, <2>1, <2>2, RunNowKept, FewerPosted DEF Answering
<1>12. CASE ScoutsPage!RunInsertedUnanswered
  <2>1. /\ UNCHANGED <<hour, known, shown, sBehind>> /\ run' = ScoutsPage!RunError /\ run.step = "checked"
        /\ \E queued \in BOOLEAN : runs' = Append(runs, ScoutsPage!NewRun(run.of, queued))
    BY <1>12 DEF ScoutsPage!RunInsertedUnanswered, ScoutsPage!Answered
  <2>2. Extends(runs')
    BY <1>1, <2>1, ExtendsNew
  <2>3. QED
    BY <1>1, <1>2, <2>1, <2>2, RunNowKept, FewerPosted DEF Answering
<1>13. ASSUME NEW to, ScoutsPage!SetStatus(to) PROVE RunNowInv'
  BY <1>1, <1>4, <1>13 DEF ScoutsPage!SetStatus, ScoutsPage!Sent
<1>14. CASE ScoutsPage!Submit
  BY <1>1, <1>4, <1>14 DEF ScoutsPage!Submit, ScoutsPage!Sent
<1>15. CASE ScoutsPage!UpdateAnswered \/ ScoutsPage!UpdateFails
  <2>1. UNCHANGED <<runs, hour, known, run, sBehind>> /\ shown' \in {shown, ScoutsPage!Nothing}
    BY <1>15 DEF ScoutsPage!UpdateAnswered, ScoutsPage!UpdateFails
  <2>2. QED
    BY <1>1, <1>4, <2>1
<1>16. CASE ScoutsPage!Repair \/ ScoutsPage!Repaired
  BY <1>1, <1>4, <1>16 DEF ScoutsPage!Repair, ScoutsPage!Repaired
<1>17. ASSUME NEW i \in requeue.waiting,
              ScoutsPage!RowRequeued(i) \/ ScoutsPage!RowRefused(i) \/ ScoutsPage!RowLost(i)
       PROVE  RunNowInv'
  <2>1. UNCHANGED <<hour, known, shown, run, sBehind>> /\ (runs' = runs \/ runs' = ScoutsPage!Requeued({i}))
    BY <1>17 DEF ScoutsPage!RowRequeued, ScoutsPage!RowRefused, ScoutsPage!RowLost, ScoutsPage!RowAnswered
  <2>2. QED
    BY <1>1, <2>1, ExtendsSame, ExtendsRequeued, RunNowKept, FewerPosted DEF Answering
<1>21. ASSUME NEW b \in sBehind, ScoutsPage!BehindServed(b) \/ ScoutsPage!BehindChecked(b)
                                 \/ ScoutsPage!BehindRefused(b) \/ ScoutsPage!BehindLost(b)
       PROVE  RunNowInv'
  <2>1. UNCHANGED <<hour, known, shown, run>>
    BY <1>21 DEF ScoutsPage!BehindServed, ScoutsPage!BehindChecked, ScoutsPage!BehindRefused,
                 ScoutsPage!BehindLost, ScoutsPage!Behind
  <2>2. Extends(runs')
    <3>1. ASSUME NEW queued \in BOOLEAN, ScoutsPage!Serves(b, queued) PROVE Extends(runs')
      <4>1. b.what = "checked" => b.of \in Scouts
        BY DEF RunNowInv, Posted
      <4>2. QED
        BY <3>1, <4>1, ExtendsNew, ExtendsSame, ExtendsRequeued DEF ScoutsPage!Serves
    <3>2. QED
      BY <1>21, <3>1, ExtendsSame
      DEF ScoutsPage!BehindServed, ScoutsPage!BehindChecked, ScoutsPage!BehindRefused, ScoutsPage!BehindLost
  <2>3. Posted'
    <3>1. CASE sBehind' = sBehind \ {b}
      BY <3>1, FewerPosted
    <3>2. CASE sBehind' = (sBehind \ {b}) \cup {[b EXCEPT !.what = "checked"]} /\ b.what = "sent"
      <4>1. {"what", "of"} \subseteq DOMAIN b /\ b.of \in Scouts
        BY <3>2 DEF RunNowInv, Posted
      <4>2. [b EXCEPT !.what = "checked"].of = b.of /\ DOMAIN [b EXCEPT !.what = "checked"] = DOMAIN b
        BY <4>1
      <4>3. QED
        BY <3>2, <4>1, <4>2 DEF RunNowInv, Posted
    <3>3. QED
      BY <1>21, <3>1, <3>2
      DEF ScoutsPage!BehindServed, ScoutsPage!BehindChecked, ScoutsPage!BehindRefused,
          ScoutsPage!BehindLost, ScoutsPage!Gone
  <2>4. QED
    BY <1>1, <2>1, <2>2, <2>3, RunNowKept DEF Answering
<1>18. CASE ScoutsPage!ListFetched \/ ScoutsPage!ListFails
  BY <1>1, <1>4, <1>18 DEF ScoutsPage!ListFetched, ScoutsPage!ListFails
<1>19. CASE UNCHANGED ScoutsPage!vars
  BY <1>1, <1>4, <1>19 DEF ScoutsPage!vars
<1>20. QED
  BY <1>5, <1>6, <1>7, <1>8, <1>9, <1>10, <1>11, <1>12, <1>13, <1>14, <1>15, <1>16, <1>17, <1>18, <1>19, <1>21,
     Clicked, Checked, HistoryRead, HourPasses, PipelineMoves
  DEF ScoutsPage!Next

\* Only the limit of run_scout is answered so.
LEMMA TooSoonIsChecked ==
  ASSUME RunNowInv, [ScoutsPage!Next]_(ScoutsPage!vars), run.step = "sent", run'.step = "too soon"
  PROVE ScoutsPage!TooSoon(run.of)
<1> USE DEF ScoutsPage!mutations
<1>1. run' # run /\ run' # ScoutsPage!IdleRun /\ run' # ScoutsPage!RunError
  <2>1. ScoutsPage!IdleRun.step = "idle" /\ ScoutsPage!RunError.step = "error"
    BY DEF ScoutsPage!IdleRun, ScoutsPage!RunError
  <2>2. QED
    BY <2>1
<1>2. CASE ScoutsPage!RunChecked
  <2>1. \/ run' = ScoutsPage!RunError
        \/ ScoutsPage!TooSoon(run.of)
        \/ run' = [run EXCEPT !.step = "checked"]
    BY <1>2, Zenon DEF ScoutsPage!RunChecked
  <2>2. run' # [run EXCEPT !.step = "checked"]
    <3>1. run \in Runs
      BY DEF RunNowInv, Rowed
    <3>2. [run EXCEPT !.step = "checked"].step = "checked"
      BY <3>1 DEF Runs
    <3>3. QED
      BY <3>2
  <2>3. QED
    BY <1>1, <2>1, <2>2
<1>3. CASE ScoutsPage!RunNow
  BY <1>3 DEF ScoutsPage!RunNow
<1>4. ASSUME NEW s PROVE ~ScoutsPage!OpenPanel(s) /\ ~ScoutsPage!OpenForm(s) /\ ~ScoutsPage!Return(s) /\ ~ScoutsPage!Elsewhere(s)
  <2>1. ~ScoutsPage!OpenPanel(s) /\ ~ScoutsPage!OpenForm(s) /\ ~ScoutsPage!Return(s)
    BY <1>1 DEF ScoutsPage!OpenPanel, ScoutsPage!OpenForm, ScoutsPage!Return, ScoutsPage!Unmounted
  <2>2. ~ScoutsPage!Elsewhere(s)
    BY <1>1 DEF ScoutsPage!Elsewhere
  <2>3. QED
    BY <2>1, <2>2
<1>5. ~ScoutsPage!ClosePanel /\ ~ScoutsPage!Refresh /\ ~ScoutsPage!Leave /\ ~ScoutsPage!CaughtUp
  BY <1>1 DEF ScoutsPage!ClosePanel, ScoutsPage!Refresh, ScoutsPage!Leave, ScoutsPage!CaughtUp,
              ScoutsPage!Unmounted
<1>6. ~ScoutsPage!RunInserted /\ ~ScoutsPage!RunInsertedUnanswered /\ ~ScoutsPage!RunLost
  BY <1>1 DEF ScoutsPage!RunInserted, ScoutsPage!RunInsertedUnanswered, ScoutsPage!RunLost, ScoutsPage!Answered
<1>7. ASSUME NEW to PROVE ~ScoutsPage!SetStatus(to) /\ ~ScoutsPage!Submit
  BY <1>1 DEF ScoutsPage!SetStatus, ScoutsPage!Submit, ScoutsPage!Sent
<1>8. ~ScoutsPage!UpdateAnswered /\ ~ScoutsPage!UpdateFails
  BY <1>1 DEF ScoutsPage!UpdateAnswered, ScoutsPage!UpdateFails
<1>9. ~ScoutsPage!Repair /\ ~ScoutsPage!Repaired
  BY <1>1 DEF ScoutsPage!Repair, ScoutsPage!Repaired
<1>14. ASSUME NEW i PROVE ~ScoutsPage!RowRequeued(i) /\ ~ScoutsPage!RowRefused(i) /\ ~ScoutsPage!RowLost(i)
  BY <1>1 DEF ScoutsPage!RowRequeued, ScoutsPage!RowRefused, ScoutsPage!RowLost, ScoutsPage!RowAnswered
<1>15. ASSUME NEW b
       PROVE  /\ ~ScoutsPage!BehindServed(b) /\ ~ScoutsPage!BehindChecked(b)
              /\ ~ScoutsPage!BehindRefused(b) /\ ~ScoutsPage!BehindLost(b)
  BY <1>1 DEF ScoutsPage!BehindServed, ScoutsPage!BehindChecked, ScoutsPage!BehindRefused,
              ScoutsPage!BehindLost, ScoutsPage!Behind
<1>10. ~ScoutsPage!ListFetched /\ ~ScoutsPage!ListFails /\ ~ScoutsPage!HistoryFetched /\ ~ScoutsPage!Tick
  BY <1>1 DEF ScoutsPage!ListFetched, ScoutsPage!ListFails, ScoutsPage!HistoryFetched, ScoutsPage!Tick
<1>11. ASSUME NEW i PROVE ~ScoutsPage!Pipeline(i)
  <2>1. \A r : ~ScoutsPage!Change(i, r)
    BY <1>1 DEF ScoutsPage!Change
  <2>2. \A from, to : ~ScoutsPage!Moves(i, from, to)
    BY <2>1 DEF ScoutsPage!Moves
  <2>3. ~ScoutsPage!Dispatch(i)
    BY <1>1 DEF ScoutsPage!Dispatch
  <2>4. QED
    BY <2>1, <2>2, <2>3
    DEF ScoutsPage!Pipeline, ScoutsPage!Dispatched, ScoutsPage!DispatchDies, ScoutsPage!JobsEnd,
        ScoutsPage!AnalysesCreated, ScoutsPage!AnalysesEnd, ScoutsPage!WorkStops, ScoutsPage!Ends
<1>12. ~UNCHANGED ScoutsPage!vars
  BY <1>1 DEF ScoutsPage!vars
<1>13. QED
  BY <1>2, <1>3, <1>4, <1>5, <1>6, <1>7, <1>8, <1>9, <1>10, <1>11, <1>12, <1>14, <1>15
  DEF ScoutsPage!Next

\* A run of this hour is not the one that was known at a click that is still unanswered.
LEMMA OlderOrUnknown ==
  ASSUME RunNowInv, NEW k, k # ScoutsPage!NoRun, runs[k].hour = hour
  PROVE ~(run.step = "sent" /\ run.seen = k)
<1>1. hour \in Nat
  BY DEF RunNowInv, Rowed
<1>2. run.step = "sent" /\ run.seen = k => runs[k].hour < hour
  BY DEF RunNowInv, Dated
<1>3. ~(hour < hour)
  BY <1>1
<1>4. QED
  BY <1>2, <1>3, Zenon

\* "Run now" is answered 429 only where the history missed a run at the click: the countdown of
\* useCooldownClock and the hourly limit of run_scout look at the same run, or at an older one.
THEOREM CountdownOfInstance == SpecParts => RefusedOnlyWhenStale
<1>1. InitParts => RunNowInv
  BY RunNowInit, PartsAssumption DEF InitParts
<1>2. RunNowInv /\ [NextParts]_parts => RunNowInv'
  BY ScoutsPart, RunNowNext
<1>3. ASSUME RunNowInv, [NextParts]_parts, run.step = "sent" /\ run'.step = "too soon"
      PROVE run.seen # ScoutsPage!Latest(run.of)
  <2> DEFINE k == ScoutsPage!Latest(run.of)
  <2>1. k # ScoutsPage!NoRun /\ runs[k].hour = hour
    BY <1>3, ScoutsPart, TooSoonIsChecked DEF ScoutsPage!TooSoon
  <2> HIDE DEF k
  <2>2. ~(run.step = "sent" /\ run.seen = k)
    BY <1>3, <2>1, OlderOrUnknown
  <2>3. QED
    BY <1>3, <2>2 DEF k
<1>4. QED
  BY <1>1, <1>2, <1>3, PTL DEF SpecParts, RefusedOnlyWhenStale, ScoutsPage!RefusedOnlyWhenStale

\* What a repair under way, and the alert that one left, say of the Scout they are of: the rows that
\* it was refused or heard nothing of; and there is no alert while a repair is under way.
Repairing ==
  /\ DOMAIN undone = Scouts /\ DOMAIN requeue = {"of", "waiting", "failed"}
  /\ requeue.of \in Scouts \cup {ScoutsPage!Nothing}
  /\ requeue.of = ScoutsPage!Nothing => requeue.waiting = {}
  /\ requeue.of # ScoutsPage!Nothing =>
       requeue.failed = undone[requeue.of] /\ repairFailure.of = ScoutsPage!Nothing
  /\ repairFailure.of # ScoutsPage!Nothing =>
       repairFailure.failed # {} /\ repairFailure.failed = undone[repairFailure.of]

\* A step that writes none of the three, and the page's unmounting.
LEMMA RepairingStays == ASSUME Repairing, UNCHANGED <<requeue, repairFailure, undone>> PROVE Repairing'
BY DEF Repairing

LEMMA RepairingLeft == ASSUME Repairing, ScoutsPage!Unmounted, undone' = undone PROVE Repairing'
<1>1. requeue' = ScoutsPage!IdleRequeue /\ repairFailure' = ScoutsPage!NoFailure
  BY DEF ScoutsPage!Unmounted
<1>2. QED
  BY <1>1 DEF Repairing, ScoutsPage!IdleRequeue, ScoutsPage!NoFailure

\* The repair's own steps.
LEMMA RepairAsked == ASSUME Repairing, RunNowInv, ScoutsPage!Repair PROVE Repairing'
<1>1. shown \in Scouts
  BY DEF RunNowInv, Rowed, ScoutsPage!Repair, ScoutsPage!Open
<1> DEFINE q == [ScoutsPage!IdleRequeue EXCEPT !.of = shown, !.waiting = list[shown].blocked]
<1>2. DOMAIN q = {"of", "waiting", "failed"} /\ q.of = shown /\ q.failed = {}
  BY DEF ScoutsPage!IdleRequeue
<1>3. requeue' = q /\ repairFailure' = ScoutsPage!NoFailure /\ undone' = [undone EXCEPT ![shown] = {}]
  BY DEF ScoutsPage!Repair
<1> HIDE DEF q
<1>4. DOMAIN undone' = Scouts /\ undone'[shown] = {}
  BY <1>1, <1>3 DEF Repairing
<1>5. shown # ScoutsPage!Nothing
  BY DEF ScoutsPage!Repair, ScoutsPage!Open
<1>6. QED
  BY <1>1, <1>2, <1>3, <1>4, <1>5 DEF Repairing, ScoutsPage!NoFailure

LEMMA RowAnsweredKeeps ==
  ASSUME Repairing, NEW i \in requeue.waiting, NEW failed, ScoutsPage!RowAnswered(i, failed)
  PROVE  Repairing'
<1> DEFINE s == requeue.of
<1>1. s \in Scouts /\ s # ScoutsPage!Nothing /\ repairFailure.of = ScoutsPage!Nothing
  BY DEF Repairing
<1>2. /\ requeue' = [requeue EXCEPT !.waiting = @ \ {i}, !.failed = @ \cup failed]
      /\ undone' = [undone EXCEPT ![s] = @ \cup failed] /\ repairFailure' = repairFailure
  BY DEF ScoutsPage!RowAnswered
<1>3. /\ DOMAIN requeue' = DOMAIN requeue /\ requeue'.of = s
      /\ requeue'.failed = requeue.failed \cup failed
  BY <1>2 DEF Repairing
<1>4. DOMAIN undone' = Scouts /\ undone'[s] = undone[s] \cup failed
  BY <1>1, <1>2 DEF Repairing
<1>5. QED
  BY <1>1, <1>2, <1>3, <1>4 DEF Repairing

LEMMA RepairedKeeps == ASSUME Repairing, ScoutsPage!Repaired PROVE Repairing'
<1>1. /\ requeue.of # ScoutsPage!Nothing /\ requeue' = ScoutsPage!IdleRequeue /\ undone' = undone
      /\ repairFailure' = IF requeue.failed = {} THEN repairFailure
                          ELSE [of |-> requeue.of, failed |-> requeue.failed]
  BY DEF ScoutsPage!Repaired
<1>2. repairFailure.of = ScoutsPage!Nothing /\ requeue.failed = undone[requeue.of]
  BY <1>1 DEF Repairing
<1>3. /\ DOMAIN requeue' = {"of", "waiting", "failed"} /\ requeue'.of = ScoutsPage!Nothing
      /\ requeue'.waiting = {}
  BY <1>1 DEF ScoutsPage!IdleRequeue
<1>4. QED
  BY <1>1, <1>2, <1>3 DEF Repairing

LEMMA RepairingNext ==
  ASSUME Repairing, RunNowInv, [ScoutsPage!Next]_(ScoutsPage!vars)
  PROVE  Repairing'
<1> USE DEF ScoutsPage!mutations
<1>1. ASSUME UNCHANGED <<requeue, repairFailure, undone>> PROVE Repairing'
  BY <1>1, RepairingStays
<1>2. ASSUME NEW s
      PROVE ScoutsPage!OpenPanel(s) \/ ScoutsPage!OpenForm(s) \/ ScoutsPage!Return(s) \/ ScoutsPage!Elsewhere(s) => Repairing'
  BY <1>1, RepairingLeft DEF ScoutsPage!OpenPanel, ScoutsPage!OpenForm, ScoutsPage!Return, ScoutsPage!Elsewhere
<1>3. ScoutsPage!ClosePanel \/ ScoutsPage!Refresh \/ ScoutsPage!Leave \/ ScoutsPage!CaughtUp \/ ScoutsPage!RunNow
        \/ ScoutsPage!RunChecked => Repairing'
  BY <1>1, RepairingLeft DEF ScoutsPage!ClosePanel, ScoutsPage!Refresh, ScoutsPage!Leave, ScoutsPage!CaughtUp,
              ScoutsPage!RunNow, ScoutsPage!RunChecked
<1>4. ScoutsPage!RunInserted \/ ScoutsPage!RunInsertedUnanswered \/ ScoutsPage!RunLost => Repairing'
  BY <1>1 DEF ScoutsPage!RunInserted, ScoutsPage!RunInsertedUnanswered, ScoutsPage!RunLost, ScoutsPage!Answered
<1>5. ASSUME NEW to PROVE ScoutsPage!SetStatus(to) \/ ScoutsPage!Submit => Repairing'
  BY <1>1 DEF ScoutsPage!SetStatus, ScoutsPage!Submit, ScoutsPage!Sent
<1>6. ScoutsPage!UpdateAnswered \/ ScoutsPage!UpdateFails => Repairing'
  BY <1>1 DEF ScoutsPage!UpdateAnswered, ScoutsPage!UpdateFails
<1>7. ASSUME NEW i \in requeue.waiting
      PROVE  ScoutsPage!RowRequeued(i) \/ ScoutsPage!RowRefused(i) \/ ScoutsPage!RowLost(i) => Repairing'
  BY RowAnsweredKeeps DEF ScoutsPage!RowRequeued, ScoutsPage!RowRefused, ScoutsPage!RowLost
<1>8. ScoutsPage!ListFetched \/ ScoutsPage!ListFails \/ ScoutsPage!HistoryFetched \/ ScoutsPage!Tick => Repairing'
  BY <1>1 DEF ScoutsPage!ListFetched, ScoutsPage!ListFails, ScoutsPage!HistoryFetched, ScoutsPage!Tick
<1>9. ASSUME NEW i PROVE ScoutsPage!Pipeline(i) => Repairing'
  <2>1. \A r : ScoutsPage!Change(i, r) => Repairing'
    BY <1>1 DEF ScoutsPage!Change
  <2>2. \A from, to : ScoutsPage!Moves(i, from, to) \/ ScoutsPage!Ends(i, from, to) => Repairing'
    BY <2>1 DEF ScoutsPage!Moves, ScoutsPage!Ends
  <2>3. ScoutsPage!Dispatch(i) => Repairing'
    BY <1>1 DEF ScoutsPage!Dispatch
  <2>4. QED
    BY <2>1, <2>2, <2>3
    DEF ScoutsPage!Pipeline, ScoutsPage!Dispatched, ScoutsPage!DispatchDies, ScoutsPage!JobsEnd,
        ScoutsPage!AnalysesCreated, ScoutsPage!AnalysesEnd, ScoutsPage!WorkStops
<1>10. ASSUME NEW b
       PROVE ScoutsPage!BehindServed(b) \/ ScoutsPage!BehindChecked(b) \/ ScoutsPage!BehindRefused(b)
               \/ ScoutsPage!BehindLost(b) => Repairing'
  BY <1>1 DEF ScoutsPage!BehindServed, ScoutsPage!BehindChecked, ScoutsPage!BehindRefused,
              ScoutsPage!BehindLost, ScoutsPage!Behind
<1>11. UNCHANGED ScoutsPage!vars => Repairing'
  BY <1>1 DEF ScoutsPage!vars
<1>12. QED
  BY <1>2, <1>3, <1>4, <1>5, <1>6, <1>7, <1>8, <1>9, <1>10, <1>11, RepairAsked, RepairedKeeps DEF ScoutsPage!Next

\* The alert of a partial repair counts the rows that the latest repair of the Scout under which it
\* stands was refused or heard nothing of, whatever panel was open as each of the requests was
\* answered and whatever page was left in between (repair of components/scout-panel.tsx over the
\* allSettled of useBulkRequeueAnalyses).
THEOREM RepairOfInstance == SpecParts => []RepairFailureIsOwn
<1>1. InitParts => RunNowInv /\ Repairing
  <2>1. InitParts => RunNowInv
    BY RunNowInit, PartsAssumption DEF InitParts
  <2>2. InitParts => Repairing
    BY DEF InitParts, ScoutsPage!Init, Repairing, ScoutsPage!IdleRequeue, ScoutsPage!NoFailure
  <2>3. QED
    BY <2>1, <2>2
<1>2. RunNowInv /\ Repairing /\ [NextParts]_parts => (RunNowInv /\ Repairing)'
  BY ScoutsPart, RunNowNext, RepairingNext
<1>3. Repairing => RepairFailureIsOwn
  BY DEF Repairing, RepairFailureIsOwn, ScoutsPage!RepairFailureIsOwn, ScoutsPage!RepairFailureShown,
         ScoutsPage!Open
<1>4. QED
  BY <1>1, <1>2, <1>3, PTL DEF SpecParts

-----------------------------------------------------------------------------
(* The Import screen: the rows *)

\* The fields of a CVVersion, whatever they hold.
IsRow(x) == {"state", "file", "status", "queued", "working", "next", "runs", "by", "at"} \subseteq DOMAIN x
HasItsFile(x) ==
  x.state = "live" /\ (x.queued # {} \/ x.working # {} \/ x.status # "PENDING") => x.file

\* The inductive invariant.
FileInv == DOMAIN row = Rows /\ \A r \in Rows : IsRow(row[r]) /\ HasItsFile(row[r])

\* Rows each of which is as before, or has its file, keep it.
LEMMA RowsKept ==
  ASSUME FileInv, DOMAIN row' = Rows,
         \A r \in Rows : row'[r] = row[r] \/ (IsRow(row'[r]) /\ HasItsFile(row'[r]))
  PROVE  FileInv'
BY DEF FileInv

\* A new CVVersion, one that stores its file, one whose successor is known.
LEMMA InsertKept == ASSUME FileInv, NEW r, row' = Inserted(r) PROVE FileInv'
BY RowsKept DEF FileInv, Inserted, FreeRow, IsRow, HasItsFile

LEMMA SupersedeKept == ASSUME FileInv, NEW old, NEW r, row' = Superseded(old, r) PROVE FileInv'
BY RowsKept DEF FileInv, Superseded, FreeRow, IsRow, HasItsFile

LEMMA StoreKept == ASSUME FileInv, NEW r, row' = FileStored(r) PROVE FileInv'
BY RowsKept DEF FileInv, FileStored, IsRow, HasItsFile

\* A conversion is accepted for a CVVersion that has its file, its message sent or not.
LEMMA AcceptKept ==
  ASSUME FileInv, NEW r, ConvertAnswer(r) = "accepted", row' \in {Accepted(r), Unsent(r)}
  PROVE  FileInv'
BY RowsKept DEF FileInv, ConvertAnswer, Accepted, Unsent, IsRow, HasItsFile

LEMMA SameKept == FileInv /\ row' = row => FileInv'
BY DEF FileInv

-----------------------------------------------------------------------------
(* The steps *)

LEMMA InitFile == Init => FileInv
BY DEF Init, FileInv, FreeRow, IsRow, HasItsFile

LEMMA AnswerFile == FileInv /\ Answer => FileInv'
<1> SUFFICES ASSUME FileInv, Answer PROVE FileInv'
  OBVIOUS
<1>1. CASE PostAnswered
  BY <1>1, InsertKept DEF PostAnswered
<1>2. CASE PutAnswered
  BY <1>2, StoreKept DEF PutAnswered
<1>3. CASE ConvertAnswered
  BY <1>3, AcceptKept, SameKept DEF ConvertAnswered
<1>4. CASE ReplaceAnswered
  BY <1>4, SupersedeKept, SameKept DEF ReplaceAnswered
<1>5. CASE ReplaceStored
  BY <1>5, StoreKept DEF ReplaceStored
<1>6. QED
  BY <1>1, <1>2, <1>3, <1>4, <1>5 DEF Answer

\* What the candidate does reaches no row before a request is answered.
LEMMA CandidateFile == FileInv /\ Candidate => FileInv'
BY SameKept DEF Candidate, Submit, RetryStore, Store, RetryConversion, ReplaceFile, KeepWaiting,
                Close, LeaveByLink, Unmount, Open, Reload, server

LEMMA FailureFile == FileInv /\ Failure => FileInv'
<1> SUFFICES ASSUME FileInv, Failure PROVE FileInv'
  OBVIOUS
<1>1. CASE PostFails
  BY <1>1, InsertKept, SameKept DEF PostFails
<1>2. CASE PutFails
  BY <1>2, StoreKept, SameKept DEF PutFails
<1>3. CASE ConvertFails
  BY <1>3, AcceptKept, SameKept DEF ConvertFails
<1>4. CASE ReplaceFails
  BY <1>4, SupersedeKept, StoreKept, SameKept DEF ReplaceFails
<1>5. CASE ListFails
  BY <1>5, SameKept DEF ListFails, server
<1>6. QED
  BY <1>1, <1>2, <1>3, <1>4, <1>5 DEF Failure

\* A discard takes the file and the row; the worker touches rows that have their file.
LEMMA ServerFile ==
  ASSUME FileInv, NEW r \in Rows, DiscardArrives(r) \/ DiscardLost(r) \/ WorkerStarts(r) \/ WorkerEnds(r)
  PROVE  FileInv'
<1>1. CASE DiscardArrives(r)
  BY <1>1, RowsKept DEF DiscardArrives, Deleted, FreeRow, FileInv, IsRow, HasItsFile
<1>2. CASE DiscardLost(r)
  BY <1>2, SameKept DEF DiscardLost
<1>3. CASE WorkerStarts(r)
  <2>1. PICK k \in row[r].queued :
          row' = [row EXCEPT ![r].queued = @ \ {k}, ![r].working = @ \cup {k},
                             ![r].status = "CONVERTING", ![r].by = 0, ![r].at = 0]
    BY <1>3 DEF WorkerStarts
  <2>2. row[r].file
    BY <1>3, <2>1 DEF WorkerStarts, Live, FileInv, HasItsFile
  <2>3. IsRow(row'[r]) /\ row'[r].file
    BY <2>1, <2>2 DEF FileInv, IsRow
  <2>4. QED
    BY <2>1, <2>3, RowsKept DEF FileInv, HasItsFile
<1>4. CASE WorkerEnds(r)
  <2>1. PICK k \in row[r].working, outcome \in Terminal :
          row' = [row EXCEPT ![r].working = @ \ {k}, ![r].status = outcome,
                             ![r].by = k, ![r].at = row[r].runs]
    BY <1>4 DEF WorkerEnds
  <2>2. row[r].file
    BY <1>4, <2>1 DEF WorkerEnds, Live, FileInv, HasItsFile
  <2>3. IsRow(row'[r]) /\ row'[r].file
    BY <2>1, <2>2 DEF FileInv, IsRow
  <2>4. QED
    BY <2>1, <2>3, RowsKept DEF FileInv, HasItsFile
<1>5. QED
  BY <1>1, <1>2, <1>3, <1>4

\* The requests of a closed visit are served as those of an open one.
LEMMA BehindFile ==
  ASSUME FileInv, NEW t \in behind, BehindStep(t) \/ BehindFails(t)
  PROVE  FileInv'
<1>1. CASE BehindPosted(t)
  BY <1>1, InsertKept DEF BehindPosted
<1>2. CASE BehindPut(t)
  BY <1>2, StoreKept DEF BehindPut
<1>3. CASE BehindReplaced(t)
  BY <1>3, SupersedeKept, SameKept DEF BehindReplaced
<1>4. CASE BehindConverted(t)
  BY <1>4, AcceptKept, SameKept DEF BehindConverted
<1>5. CASE BehindFails(t)
  BY <1>5, SameKept DEF BehindFails, server
<1>6. QED
  BY <1>1, <1>2, <1>3, <1>4, <1>5 DEF BehindStep

LEMMA NextFile == FileInv /\ [Next]_vars => FileInv'
<1> SUFFICES ASSUME FileInv, [Next]_vars PROVE FileInv'
  OBVIOUS
<1>1. CASE UrlExpires \/ Resume \/ Poll \/ WaitCapReached \/ UNCHANGED vars
  BY <1>1, SameKept DEF UrlExpires, Resume, Poll, WaitCapReached, server, vars
<1>2. QED
  BY <1>1, AnswerFile, CandidateFile, FailureFile, ServerFile, BehindFile DEF Next

\* No conversion is queued, running or ended for a CVVersion whose bytes are not in storage,
\* whatever is lost, retried, replaced or left behind (convert_cv_version).
THEOREM ConversionAfterFile == Spec => []ConversionHasItsFile
<1>1. Spec => []FileInv
  BY InitFile, NextFile, PTL DEF Spec
<1>2. FileInv => ConversionHasItsFile
  BY DEF FileInv, HasItsFile, ConversionHasItsFile, Live
<1>3. QED
  BY <1>1, <1>2, PTL

-----------------------------------------------------------------------------
(* The Import screen: the invariant *)

\* The shapes, without the bounds on what is counted.
Row == [state : {"free", "live", "gone"}, file : BOOLEAN, status : Statuses,
        queued : SUBSET Nat, working : SUBSET Nat, next : RowOrNone, runs : Nat, by : Nat, at : Nat]
Conversion == [at : {"idle", "pending", "failed", "done"}, row : RowOrNone, resume : BOOLEAN,
               run : Nat]
Rendition == [status : Statuses \cup {"nothing"}, by : Nat, at : Nat]
Shapes ==
  /\ row \in [Rows -> Row] /\ seen \in [Rows -> Rendition]
  /\ screen \in Screen /\ create \in Storing /\ convert \in Conversion /\ replace \in Replacing
  /\ url \in RowOrNone

\* A row that was inserted, and is not to be inserted again.
Known(r) == r # None => row[r].state # "free"
Named == {screen.id, screen.resume, create.row, replace.row, url}
AllKnown == \A r \in Named : Known(r)

\* A closed screen, and one that looks its row up, has nothing under way.
NothingUnderWay ==
  /\ create.at = "idle" /\ convert.at = "idle" /\ replace.at = "idle"
  /\ screen.id = None /\ screen.unfinished = None /\ ~screen.following /\ ~screen.stalled
QuietScreen ==
  /\ ~screen.open => NothingUnderWay /\ screen.resume = None
  /\ screen.resume # None => NothingUnderWay

\* An upload found unfinished is the one of the row on screen, and nothing else is under way.
UnfinishedIsShown ==
  screen.unfinished # None =>
    screen.unfinished = screen.id /\ create.at = "idle" /\ replace.at = "idle" /\ convert.at = "failed"

StoringRow ==
  /\ create.at \in {"idle", "posting"} => create.row = None
  /\ create.at = "putting" => create.row # None
  /\ replace.at = "idle" => replace.row = None
  /\ replace.at # "idle" => replace.row # None

\* A convert request is of the row on screen, which is not followed before the answer; one
\* the candidate started has forgotten what was read, and a resumed one is alone.
PendingIsShown ==
  convert.at = "pending" =>
    /\ convert.row = screen.id /\ screen.id # None /\ ~screen.following /\ ~screen.stalled
    /\ convert.resume => create.at = "idle" /\ replace.at = "idle" /\ screen.unfinished = None
    /\ ~convert.resume => seen[screen.id].status = "nothing"

\* An attempt accepted is counted in its row, and an outcome read after it was written after it.
DoneIsOfRow ==
  convert.at = "done" =>
    /\ convert.row = screen.id /\ screen.id # None /\ convert.run <= row[screen.id].runs
    /\ seen[screen.id].status \in Terminal => seen[screen.id].at >= convert.run

\* The outcome a row has was written after the last conversion accepted for it: each of them
\* takes the outcome before it away.
OutcomeIsLast == \A r \in Rows : row[r].status \in Terminal => row[r].at = row[r].runs

\* A row with no file behind it, and one that needs no hand: it has its file, or is gone, or is
\* being discarded, or nobody can know of it.
Bare(r) == row[r].state = "live" /\ ~row[r].file
Settled(r) == r # None /\ Bare(r) => r \in discards \cup loose

\* The row on screen needs none once something else than a resume is under way, or has failed.
ShownSettled ==
  /\ create.at # "idle" \/ replace.at # "idle" => Settled(screen.id)
  /\ convert.at = "done" \/ (convert.at = "pending" /\ ~convert.resume) => Settled(screen.id)
  /\ convert.at = "failed" /\ screen.unfinished = None => Settled(screen.id)
  /\ replace.at = "posting" => Settled(replace.row)

\* A conversion that was read is one of a file.
ReadHasFile ==
  \A r \in Rows :
    seen[r].status \notin {"nothing", "PENDING"} => row[r].state # "free" /\ ~Bare(r)

\* The others are in the hands of the screen.
Hands == {create.row, replace.row, screen.id, screen.resume}
InHands == \A r \in Rows : Bare(r) => r \in Hands \cup discards \cup loose

ImportInv ==
  /\ Shapes /\ AllKnown /\ QuietScreen /\ UnfinishedIsShown /\ StoringRow /\ PendingIsShown
  /\ DoneIsOfRow /\ ShownSettled /\ ReadHasFile /\ InHands /\ OutcomeIsLast

-----------------------------------------------------------------------------
(* The Import screen: what a step does to the rows *)

\* An outcome is the one the row had, or is written after the last conversion accepted.
OutcomeStep(x, y) ==
  y.status \in Terminal =>
    y.at = y.runs \/ (x.status \in Terminal /\ y.at = x.at /\ y.runs = x.runs)

\* No row is forgotten, no run uncounted; only the `new` rows are bare that were not.
RowsStep(new) ==
  /\ row' \in [Rows -> Row]
  /\ \A r \in new : r \in Rows /\ row[r].state = "free" /\ row'[r].state # "free"
  /\ \A r \in Rows :
       /\ row[r].state # "free" => row'[r].state # "free" /\ row[r].runs <= row'[r].runs
       /\ row'[r].state = "live" /\ ~row'[r].file => Bare(r) \/ r \in new
       /\ OutcomeStep(row[r], row'[r])

LEMMA RowFields ==
  ASSUME Shapes, NEW r \in Rows
  PROVE  /\ row[r] \in Row /\ row[r].state \in {"free", "live", "gone"} /\ row[r].file \in BOOLEAN
         /\ row[r].status \in Statuses /\ row[r].next \in RowOrNone /\ row[r].runs \in Nat
         /\ row[r].queued \in SUBSET Nat /\ row[r].working \in SUBSET Nat
         /\ row[r].by \in Nat /\ row[r].at \in Nat
<1>1. row[r] \in Row
  BY DEF Shapes
<1>2. QED
  BY <1>1 DEF Row

LEMMA BlankRow == FreeRow \in Row /\ [FreeRow EXCEPT !.state = "live"] \in Row
                  /\ [FreeRow EXCEPT !.state = "live"].state = "live"
                  /\ [FreeRow EXCEPT !.state = "live"].status \notin Terminal
<1>1. 0 \in 0..MaxRows
  BY PartsAssumption DEF BoundsAssumption
<1>2. FreeRow \in Row
  BY <1>1 DEF FreeRow, Row, RowOrNone, Statuses, None
<1>3. \A x \in Row : /\ [x EXCEPT !.state = "live"] \in Row /\ [x EXCEPT !.state = "live"].state = "live"
                     /\ [x EXCEPT !.state = "live"].status = x.status
  BY DEF Row
<1>4. FreeRow.status \notin Terminal
  BY DEF FreeRow, Terminal
<1>5. QED
  BY <1>2, <1>3, <1>4

LEMMA SameRows == ASSUME Shapes, row' = row PROVE RowsStep({})
BY RowFields DEF RowsStep, OutcomeStep, Bare, Shapes

LEMMA InsertedRow == ASSUME Shapes, NEW r \in Rows, NewRow(r), row' = Inserted(r) PROVE RowsStep({r})
<1>1. \A q \in Rows : q # r => row'[q] = row[q]
  BY DEF Inserted, Shapes
<1>2. row' \in [Rows -> Row]
  BY BlankRow DEF Inserted, Shapes
<1>3. row[r].state = "free" /\ row'[r].state = "live" /\ row'[r].status \notin Terminal
  <2>1. row'[r] = [FreeRow EXCEPT !.state = "live"]
    BY DEF Inserted, Shapes
  <2>2. QED
    BY <2>1, BlankRow DEF NewRow
<1>4. QED
  BY <1>1, <1>2, <1>3, RowFields DEF RowsStep, OutcomeStep, Bare

LEMMA SupersededRow ==
  ASSUME Shapes, NEW o, row[o].state = "live", NEW r \in Rows, NewRow(r), row' = Superseded(o, r)
  PROVE  RowsStep({r})
<1>0. row[r].state = "free" /\ o # r
  BY DEF NewRow
<1>1. DOMAIN row = Rows /\ \A q \in Rows : row[q] \in Row
  BY DEF Shapes
<1>2. \A q \in Rows : q # r /\ q # o => row'[q] = row[q]
  BY <1>1 DEF Superseded
<1>3. row'[r] = [FreeRow EXCEPT !.state = "live"]
  BY <1>0, <1>1 DEF Superseded
<1>4. o \in Rows => row'[o] = [row[o] EXCEPT !.next = r]
  BY <1>0, <1>1 DEF Superseded
<1>5. o \in Rows => /\ row'[o] \in Row /\ row'[o].state = row[o].state /\ row'[o].file = row[o].file
                    /\ row'[o].runs = row[o].runs /\ row'[o].status = row[o].status /\ row'[o].at = row[o].at
  BY <1>1, <1>4, RowFields DEF Row, RowOrNone, Rows
<1>6. row' \in [Rows -> Row]
  <2>1. \A q \in Rows : row'[q] \in Row
    BY <1>1, <1>2, <1>3, <1>5, BlankRow
  <2>2. row' = [q \in Rows |-> row'[q]]
    BY <1>1 DEF Superseded
  <2>3. QED
    BY <2>1, <2>2
<1>7. row'[r].state # "free" /\ OutcomeStep(row[r], row'[r])
  BY <1>3, BlankRow DEF OutcomeStep
<1>8. ASSUME NEW q \in Rows, q # r
      PROVE  /\ row'[q].state = row[q].state /\ row'[q].file = row[q].file
             /\ row[q].runs <= row'[q].runs /\ OutcomeStep(row[q], row'[q])
  BY <1>2, <1>5, <1>8, RowFields DEF OutcomeStep
<1>9. QED
  BY <1>0, <1>6, <1>7, <1>8 DEF RowsStep, Bare

LEMMA StoredRow == ASSUME Shapes, NEW r, row' = FileStored(r) PROVE RowsStep({})
<1>1. DOMAIN row = Rows /\ \A q \in Rows : row[q] \in Row
  BY DEF Shapes
<1>2. \A q \in Rows : q # r => row'[q] = row[q]
  BY <1>1 DEF FileStored
<1>3. r \in Rows => row'[r] = [row[r] EXCEPT !.file = TRUE]
  BY <1>1 DEF FileStored
<1>4. r \in Rows => /\ row'[r] \in Row /\ row'[r].state = row[r].state /\ row'[r].file = TRUE
                    /\ row'[r].runs = row[r].runs /\ row'[r].status = row[r].status /\ row'[r].at = row[r].at
  BY <1>1, <1>3, RowFields DEF Row
<1>5. row' \in [Rows -> Row]
  <2>1. \A q \in Rows : row'[q] \in Row
    BY <1>1, <1>2, <1>4
  <2>2. row' = [q \in Rows |-> row'[q]]
    BY <1>1 DEF FileStored
  <2>3. QED
    BY <2>1, <2>2
<1>6. QED
  BY <1>2, <1>4, <1>5, RowFields DEF RowsStep, OutcomeStep, Bare

\* A row with other fields, whatever is queued and whatever its status.
LEMMA RewrittenRow ==
  ASSUME Shapes, NEW r, DOMAIN row' = Rows, row' = [q \in Rows |-> row'[q]],
         \A q \in Rows : q # r => row'[q] = row[q],
         r \in Rows => /\ row'[r] \in Row /\ row'[r].state = row[r].state /\ row'[r].file = row[r].file
                       /\ row'[r].runs >= row[r].runs /\ OutcomeStep(row[r], row'[r])
  PROVE  RowsStep({})
<1>1. \A q \in Rows : row[q] \in Row
  BY DEF Shapes
<1>2. \A q \in Rows : row'[q] \in Row
  BY <1>1
<1>3. row' \in [Rows -> Row]
  BY <1>2
<1>4. \A q \in Rows : q # r => OutcomeStep(row[q], row'[q])
  BY DEF OutcomeStep
<1>5. QED
  BY <1>3, <1>4, RowFields DEF RowsStep, Bare

LEMMA AcceptedRow ==
  ASSUME Shapes, NEW r, row' \in {Accepted(r), Unsent(r)} PROVE RowsStep({})
<1>1. DOMAIN row = Rows /\ \A q \in Rows : row[q] \in Row
  BY DEF Shapes
<1>2. DOMAIN row' = Rows /\ row' = [q \in Rows |-> row'[q]] /\ \A q \in Rows : q # r => row'[q] = row[q]
  <2>1. CASE row' = Accepted(r)
    BY <1>1, <2>1 DEF Accepted
  <2>2. CASE row' = Unsent(r)
    BY <1>1, <2>2 DEF Unsent
  <2>3. QED
    BY <2>1, <2>2
<1>3. 0 \in Nat /\ "PENDING" \in Statuses
  BY DEF Statuses
<1>4. r \in Rows => /\ row'[r] \in Row /\ row'[r].state = row[r].state /\ row'[r].file = row[r].file
                    /\ row'[r].runs >= row[r].runs /\ OutcomeStep(row[r], row'[r])
  <2> SUFFICES ASSUME r \in Rows
               PROVE  /\ row'[r] \in Row /\ row'[r].state = row[r].state /\ row'[r].file = row[r].file
                      /\ row'[r].runs >= row[r].runs /\ OutcomeStep(row[r], row'[r])
    OBVIOUS
  <2>1. CASE row' = Accepted(r)
    <3>1. row[r].runs + 1 \in Nat /\ row[r].queued \cup {row[r].runs + 1} \in SUBSET Nat
      BY RowFields
    <3>2. row'[r] = [row[r] EXCEPT !.status = "PENDING", !.queued = row[r].queued \cup {row[r].runs + 1},
                                   !.runs = row[r].runs + 1, !.by = 0, !.at = 0]
      BY <1>1, <2>1 DEF Accepted
    <3>3. /\ row'[r] \in Row /\ row'[r].state = row[r].state /\ row'[r].file = row[r].file
          /\ row'[r].runs = row[r].runs + 1 /\ row'[r].status = "PENDING"
      BY <1>1, <1>3, <3>1, <3>2 DEF Row
    <3>4. QED
      BY <3>3, RowFields DEF OutcomeStep, Terminal
  <2>2. CASE row' = Unsent(r)
    <3>1. row'[r] = [row[r] EXCEPT !.status = "PENDING", !.by = 0, !.at = 0]
      BY <1>1, <2>2 DEF Unsent
    <3>2. /\ row'[r] \in Row /\ row'[r].state = row[r].state /\ row'[r].file = row[r].file
          /\ row'[r].runs = row[r].runs /\ row'[r].status = "PENDING"
      BY <1>1, <1>3, <3>1 DEF Row
    <3>3. QED
      BY <3>2, RowFields DEF OutcomeStep, Terminal
  <2>3. QED
    BY <2>1, <2>2
<1>5. QED
  BY <1>2, <1>4, RewrittenRow

LEMMA WorkedRow ==
  ASSUME Shapes, NEW r \in Rows, WorkerStarts(r) \/ WorkerEnds(r) PROVE RowsStep({})
<1>1. DOMAIN row = Rows /\ \A q \in Rows : row[q] \in Row
  BY DEF Shapes
<1>2. CASE WorkerStarts(r)
  <2>1. PICK k \in row[r].queued :
          row' = [row EXCEPT ![r].queued = @ \ {k}, ![r].working = @ \cup {k},
                             ![r].status = "CONVERTING", ![r].by = 0, ![r].at = 0]
    BY <1>2 DEF WorkerStarts
  <2>2. DOMAIN row' = Rows /\ row' = [q \in Rows |-> row'[q]] /\ \A q \in Rows : q # r => row'[q] = row[q]
    BY <1>1, <2>1
  <2>3. /\ row[r].queued \ {k} \in SUBSET Nat /\ row[r].working \cup {k} \in SUBSET Nat
        /\ 0 \in Nat /\ "CONVERTING" \in Statuses
    BY RowFields DEF Statuses
  <2>4. row'[r] = [row[r] EXCEPT !.queued = row[r].queued \ {k}, !.working = row[r].working \cup {k},
                                 !.status = "CONVERTING", !.by = 0, !.at = 0]
    BY <1>1, <2>1
  <2>5. /\ row'[r] \in Row /\ row'[r].state = row[r].state /\ row'[r].file = row[r].file
        /\ row'[r].runs = row[r].runs /\ row'[r].status = "CONVERTING"
    BY <1>1, <2>3, <2>4 DEF Row
  <2>6. row'[r].runs >= row[r].runs /\ OutcomeStep(row[r], row'[r])
    BY <2>5, RowFields DEF OutcomeStep, Terminal
  <2>7. QED
    BY <2>2, <2>5, <2>6, RewrittenRow
<1>3. CASE WorkerEnds(r)
  <2>1. PICK k \in row[r].working, s \in Terminal :
          row' = [row EXCEPT ![r].working = @ \ {k}, ![r].status = s,
                             ![r].by = k, ![r].at = row[r].runs]
    BY <1>3 DEF WorkerEnds
  <2>2. DOMAIN row' = Rows /\ row' = [q \in Rows |-> row'[q]] /\ \A q \in Rows : q # r => row'[q] = row[q]
    BY <1>1, <2>1
  <2>3. row[r].working \ {k} \in SUBSET Nat /\ k \in Nat /\ s \in Statuses /\ row[r].runs \in Nat
    BY RowFields DEF Terminal, Statuses
  <2>4. row'[r] = [row[r] EXCEPT !.working = row[r].working \ {k}, !.status = s,
                                 !.by = k, !.at = row[r].runs]
    BY <1>1, <2>1
  <2>5. /\ row'[r] \in Row /\ row'[r].state = row[r].state /\ row'[r].file = row[r].file
        /\ row'[r].runs = row[r].runs /\ row'[r].at = row[r].runs
    BY <1>1, <2>3, <2>4 DEF Row
  <2>6. row'[r].runs >= row[r].runs /\ OutcomeStep(row[r], row'[r])
    BY <2>3, <2>5 DEF OutcomeStep
  <2>7. QED
    BY <2>2, <2>5, <2>6, RewrittenRow
<1>4. QED
  BY <1>2, <1>3

-----------------------------------------------------------------------------
(* The Import screen: what every step keeps *)

\* A bare row that was being discarded, or that nobody knew of, is so still.
ToldKept ==
  \A q \in Rows :
    q \in discards \cup loose /\ row'[q].state = "live" /\ ~row'[q].file => q \in discards' \cup loose'

LEMMA NoneIsNoRow == None \notin Rows /\ RowOrNone = Rows \cup {None}
BY PartsAssumption DEF BoundsAssumption, None, Rows, RowOrNone

LEMMA SettledKept ==
  ASSUME NEW new, RowsStep(new), ToldKept, NEW r \in RowOrNone, Known(r), Settled(r)
  PROVE  Settled(r)'
BY NoneIsNoRow DEF RowsStep, ToldKept, Known, Settled, Bare

LEMMA CountedKept ==
  ASSUME NEW new, RowsStep(new), NEW r \in Rows, Known(r)
  PROVE  row[r].runs <= row'[r].runs
BY NoneIsNoRow DEF RowsStep, Known

LEMMA NamedRows == ASSUME Shapes PROVE Named \subseteq RowOrNone /\ Hands \subseteq RowOrNone
BY DEF Shapes, Named, Hands, Screen, Storing, Replacing

\* Rows named before, or new, are known; and what is read or left out of hand is settled.
LEMMA RestKept ==
  ASSUME ImportInv, NEW new, RowsStep(new), ToldKept,
         screen' \in Screen, create' \in Storing, convert' \in Conversion, replace' \in Replacing,
         url' \in RowOrNone, seen' \in [Rows -> Rendition],
         Named' \subseteq Named \cup new \cup {None},
         new \subseteq Hands' \cup discards' \cup loose',
         \A r \in Hands : r \in Hands' \cup discards' \cup loose' \/ Settled(r),
         \A r \in Rows : \/ seen'[r] = seen[r]
                         \/ seen'[r].status \in {"nothing", "PENDING"}
                         \/ row'[r].state # "free" /\ (row'[r].state = "live" => row'[r].file)
  PROVE  Shapes' /\ AllKnown' /\ ReadHasFile' /\ InHands' /\ OutcomeIsLast'
<1>0. Shapes /\ AllKnown /\ ReadHasFile /\ InHands /\ OutcomeIsLast
  BY DEF ImportInv
<1>1. Shapes'
  BY DEF Shapes, RowsStep
<1>2. AllKnown'
  <2>1. ASSUME NEW r \in RowOrNone, Known(r) PROVE Known(r)'
    BY <2>1, NoneIsNoRow DEF Known, RowsStep
  <2>2. ASSUME NEW r \in new PROVE Known(r)'
    BY <2>2 DEF Known, RowsStep
  <2>3. Known(None)'
    BY DEF Known
  <2>4. \A r \in Named' : Known(r)'
    BY <1>0, <2>1, <2>2, <2>3, NamedRows DEF AllKnown
  <2>5. QED
    BY <2>4 DEF AllKnown
<1>3. ReadHasFile'
  BY <1>0, RowFields DEF ReadHasFile, RowsStep, Bare
<1>4. InHands'
  <2> SUFFICES ASSUME NEW r \in Rows, row'[r].state = "live", ~row'[r].file
               PROVE  r \in Hands' \cup discards' \cup loose'
    BY DEF InHands, Bare
  <2>1. r \in new \/ (Bare(r) /\ row[r].state # "free")
    BY RowFields, <1>0 DEF RowsStep, Bare
  <2>2. r \in discards \cup loose => r \in discards' \cup loose'
    BY DEF ToldKept
  <2>3. r \notin new /\ r \notin Hands => r \in discards \cup loose
    BY <1>0, <2>1 DEF InHands
  <2>4. Settled(r) /\ Bare(r) => r \in discards \cup loose
    BY NoneIsNoRow DEF Settled
  <2>5. QED
    BY <2>1, <2>2, <2>3, <2>4
<1>5. OutcomeIsLast'
  BY <1>0 DEF OutcomeIsLast, RowsStep, OutcomeStep
<1>6. QED
  BY <1>1, <1>2, <1>3, <1>4, <1>5

\* The conjuncts left are about what is under way on the screen.
LEMMA UnderWayKept ==
  ASSUME ImportInv, NEW new, RowsStep(new), ToldKept,
         UNCHANGED <<screen, create, convert, replace, seen>>
  PROVE  /\ QuietScreen' /\ UnfinishedIsShown' /\ StoringRow' /\ PendingIsShown'
         /\ DoneIsOfRow' /\ ShownSettled'
<1>0. /\ Shapes /\ AllKnown /\ QuietScreen /\ UnfinishedIsShown /\ StoringRow /\ PendingIsShown
      /\ DoneIsOfRow /\ ShownSettled
  BY DEF ImportInv
<1>1. QuietScreen' /\ UnfinishedIsShown' /\ StoringRow' /\ PendingIsShown'
  BY <1>0 DEF QuietScreen, NothingUnderWay, UnfinishedIsShown, StoringRow, PendingIsShown
<1>2. screen.id \in RowOrNone /\ Known(screen.id) /\ replace.row \in RowOrNone /\ Known(replace.row)
  BY <1>0, NamedRows DEF AllKnown, Named
<1>3. DoneIsOfRow'
  <2>1. screen.id # None => row[screen.id].runs <= row'[screen.id].runs
    BY <1>2, CountedKept, NoneIsNoRow
  <2>2. screen.id # None => row[screen.id].runs \in Nat /\ row'[screen.id].runs \in Nat
    BY <1>0, <1>2, NoneIsNoRow DEF Shapes, RowsStep, Row
  <2>3. convert.run \in Nat
    BY <1>0 DEF Shapes, Conversion
  <2>4. QED
    BY <1>0, <2>1, <2>2, <2>3 DEF DoneIsOfRow
<1>4. ShownSettled'
  <2>1. Settled(screen.id) => Settled(screen.id)'
    BY <1>2, SettledKept DEF Settled, Bare
  <2>2. Settled(replace.row) => Settled(replace.row)'
    BY <1>2, SettledKept DEF Settled, Bare
  <2>3. QED
    BY <1>0, <2>1, <2>2 DEF ShownSettled
<1>5. QED
  BY <1>1, <1>3, <1>4

\* A step that does nothing on screen.
LEMMA ScreenUntouched ==
  ASSUME ImportInv, NEW new, RowsStep(new), ToldKept, new \subseteq discards' \cup loose',
         UNCHANGED <<screen, create, convert, replace, seen, url>>
  PROVE  ImportInv'
<1>1. Shapes' /\ AllKnown' /\ ReadHasFile' /\ InHands' /\ OutcomeIsLast'
  <2>1. Shapes
    BY DEF ImportInv
  <2>2. /\ screen' \in Screen /\ create' \in Storing /\ convert' \in Conversion
        /\ replace' \in Replacing /\ url' \in RowOrNone /\ seen' \in [Rows -> Rendition]
    BY <2>1 DEF Shapes
  <2>3. Named' = Named /\ Hands' = Hands
    BY DEF Named, Hands
  <2>4. QED
    BY <2>2, <2>3, RestKept
<1>2. QED
  BY <1>1, UnderWayKept DEF ImportInv

-----------------------------------------------------------------------------
(* The Import screen: the server's steps and the requests left behind *)

LEMMA DiscardKept == ASSUME ImportInv, NEW r \in Rows, DiscardArrives(r) PROVE ImportInv'
<1>0. Shapes /\ DOMAIN row = Rows /\ \A q \in Rows : row[q] \in Row
  BY DEF ImportInv, Shapes
<1>1. r \in Chain(r)
  BY DEF Chain
<1> DEFINE Goes(q) == Live(r) /\ q \in Chain(r)
<1>2. row' = [q \in Rows |-> IF Goes(q) THEN Deleted(q) ELSE row[q]]
  BY DEF DiscardArrives
<1>3. Live(r) => Goes(r)
  BY <1>1
<1> HIDE DEF Goes
<1>4. ASSUME NEW q \in Rows
      PROVE  /\ row'[q] \in Row /\ row[q].runs <= row'[q].runs /\ OutcomeStep(row[q], row'[q])
             /\ Goes(q) => row'[q].state = "gone"
             /\ ~Goes(q) => row'[q].state = row[q].state /\ row'[q].file = row[q].file
  <2>1. CASE Goes(q)
    <3>1. row'[q] = [FreeRow EXCEPT !.state = "gone", !.queued = row[q].queued,
                                    !.next = row[q].next, !.runs = row[q].runs]
      BY <1>2, <2>1 DEF Deleted
    <3>2. row[q].queued \in SUBSET Nat /\ row[q].next \in RowOrNone /\ row[q].runs \in Nat
      BY <1>0, RowFields
    <3>3. FreeRow \in Row /\ FreeRow.status \notin Terminal
      BY BlankRow DEF FreeRow, Terminal
    <3>4. /\ row'[q] \in Row /\ row'[q].state = "gone" /\ row'[q].runs = row[q].runs
          /\ row'[q].status = FreeRow.status
      BY <3>1, <3>2, <3>3 DEF Row
    <3>5. QED
      BY <2>1, <3>2, <3>3, <3>4 DEF OutcomeStep
  <2>2. CASE ~Goes(q)
    <3>1. row'[q] = row[q]
      BY <1>2, <2>2
    <3>2. row[q] \in Row /\ row[q].runs \in Nat
      BY <1>0, RowFields
    <3>3. QED
      BY <2>2, <3>1, <3>2 DEF OutcomeStep
  <2>3. QED
    BY <2>1, <2>2
<1>5. row' \in [Rows -> Row]
  BY <1>2, <1>4
<1>6. RowsStep({})
  BY <1>4, <1>5 DEF RowsStep, Bare
<1>7. ~Live(r) => row[r].state # "live"
  BY NoneIsNoRow DEF Live
<1>8. row'[r].state # "live"
  <2>1. CASE Goes(r)
    BY <1>4, <2>1
  <2>2. CASE ~Goes(r)
    BY <1>3, <1>4, <1>7, <2>2
  <2>3. QED
    BY <2>1, <2>2
<1>9. ToldKept
  BY <1>8 DEF ToldKept, DiscardArrives
<1>10. QED
  BY <1>6, <1>9, ScreenUntouched DEF DiscardArrives, client

LEMMA DiscardLostKept == ASSUME ImportInv, NEW r \in Rows, DiscardLost(r) PROVE ImportInv'
<1>1. RowsStep({}) /\ ToldKept
  BY SameRows DEF ImportInv, DiscardLost, ToldKept
<1>2. QED
  BY <1>1, ScreenUntouched DEF DiscardLost, client

LEMMA WorkerKept ==
  ASSUME ImportInv, NEW r \in Rows, WorkerStarts(r) \/ WorkerEnds(r) PROVE ImportInv'
<1>1. RowsStep({})
  BY WorkedRow DEF ImportInv
<1>2. UNCHANGED <<discards, client, loose>>
  BY DEF WorkerStarts, WorkerEnds
<1>3. QED
  BY <1>1, <1>2, ScreenUntouched DEF ToldKept, client

LEMMA BehindKept ==
  ASSUME ImportInv, NEW t \in behind, BehindPut(t) \/ BehindReplaced(t) \/ BehindConverted(t) \/ BehindFails(t)
  PROVE  ImportInv'
<1>0. Shapes
  BY DEF ImportInv
<1>1. UNCHANGED <<screen, create, convert, replace, seen, url, discards>>
  BY DEF BehindPut, BehindReplaced, BehindConverted, BehindFails, server
<1>2. CASE BehindPut(t)
  <2>1. RowsStep({}) /\ ToldKept
    BY <1>0, <1>2, StoredRow DEF BehindPut, ToldKept
  <2>2. QED
    BY <1>1, <2>1, ScreenUntouched
<1>3. CASE BehindReplaced(t)
  <2>1. CASE Replaceable(t.row)
    <3>1. PICK r \in Rows : NewRow(r) /\ row' = Superseded(t.row, r) /\ loose' = loose \cup {r}
      BY <1>3, <2>1 DEF BehindReplaced
    <3>2. row[t.row].state = "live"
      BY <2>1 DEF Replaceable, Live
    <3>3. RowsStep({r})
      BY <1>0, <3>1, <3>2, SupersededRow
    <3>4. ToldKept
      BY <1>1, <3>1 DEF ToldKept
    <3>5. QED
      BY <1>1, <3>1, <3>3, <3>4, ScreenUntouched
  <2>2. CASE ~Replaceable(t.row)
    <3>1. RowsStep({}) /\ ToldKept
      BY <1>0, <1>1, <1>3, <2>2, SameRows DEF BehindReplaced, ToldKept
    <3>2. QED
      BY <1>1, <3>1, ScreenUntouched
  <2>3. QED
    BY <2>1, <2>2
<1>4. CASE BehindConverted(t)
  <2>1. row' = row \/ row' = Accepted(t.row)
    BY <1>4 DEF BehindConverted
  <2>2. RowsStep({})
    BY <1>0, <2>1, SameRows, AcceptedRow
  <2>3. QED
    BY <1>1, <1>4, <2>2, ScreenUntouched DEF ToldKept, BehindConverted
<1>5. CASE BehindFails(t)
  <2>1. RowsStep({}) /\ ToldKept
    BY <1>0, <1>5, SameRows DEF BehindFails, ToldKept, server
  <2>2. QED
    BY <1>1, <2>1, ScreenUntouched
<1>6. QED
  BY <1>2, <1>3, <1>4, <1>5

LEMMA NothingKept == ASSUME ImportInv, UNCHANGED vars PROVE ImportInv'
<1>1. RowsStep({}) /\ ToldKept
  BY SameRows DEF ImportInv, ToldKept, vars
<1>2. QED
  BY <1>1, ScreenUntouched DEF vars

\* A row inserted for a visit that is over opens a screen, or is left to nobody.
LEMMA BehindPostedKept == ASSUME ImportInv, NEW t \in behind, BehindPosted(t) PROVE ImportInv'
<1>0. Shapes /\ QuietScreen /\ StoringRow
  BY DEF ImportInv
<1>1. PICK r \in Rows :
        /\ NewRow(r) /\ row' = Inserted(r) /\ url' = r
        /\ loose' = loose \cup (IF screen.open THEN {url, r} \ {None} ELSE {r})
        /\ screen' = IF screen.open THEN screen ELSE [BlankScreen EXCEPT !.resume = r]
  BY DEF BehindPosted
<1>2. UNCHANGED <<discards, create, convert, replace, seen>>
  BY DEF BehindPosted
<1>3. RowsStep({r})
  BY <1>0, <1>1, InsertedRow
<1>4. r \in loose' /\ ToldKept
  BY <1>1, <1>2, NoneIsNoRow DEF ToldKept
<1>5. CASE screen.open
  <2>1. screen' = screen
    BY <1>1, <1>5
  <2>2. Named' \subseteq Named \cup {r} /\ Hands' = Hands
    BY <1>1, <1>2, <2>1 DEF Named, Hands
  <2>3. Shapes' /\ AllKnown' /\ ReadHasFile' /\ InHands' /\ OutcomeIsLast'
    BY <1>0, <1>1, <1>2, <1>3, <1>4, <2>1, <2>2, NoneIsNoRow, RestKept DEF Shapes
  <2>4. QED
    BY <1>2, <1>3, <1>4, <2>1, <2>3, UnderWayKept DEF ImportInv
<1>6. CASE ~screen.open
  <2>1. screen' = [BlankScreen EXCEPT !.resume = r]
    BY <1>1, <1>6
  <2>2. /\ screen' \in Screen /\ screen'.id = None /\ screen'.unfinished = None /\ screen'.open
        /\ ~screen'.following /\ ~screen'.stalled /\ screen'.resume = r
    BY <2>1, NoneIsNoRow DEF BlankScreen, Screen
  <2>3. /\ create.at = "idle" /\ convert.at = "idle" /\ replace.at = "idle" /\ screen.id = None
        /\ screen.resume = None /\ create.row = None /\ replace.row = None
    BY <1>0, <1>6 DEF QuietScreen, NothingUnderWay, StoringRow
  <2>4. Named' \subseteq {None, r} /\ \A q \in Hands : q = None
    BY <1>1, <1>2, <2>2, <2>3 DEF Named, Hands
  <2>5. Shapes' /\ AllKnown' /\ ReadHasFile' /\ InHands' /\ OutcomeIsLast'
    <3>1. \A q \in Hands : Settled(q)
      BY <2>4 DEF Settled
    <3>2. QED
      BY <1>0, <1>1, <1>2, <1>3, <1>4, <2>2, <2>4, <3>1, NoneIsNoRow, RestKept DEF Shapes
  <2>6. QuietScreen' /\ UnfinishedIsShown' /\ StoringRow' /\ PendingIsShown' /\ DoneIsOfRow' /\ ShownSettled'
    BY <1>0, <1>2, <2>2, <2>3
    DEF QuietScreen, NothingUnderWay, UnfinishedIsShown, StoringRow, PendingIsShown, DoneIsOfRow, ShownSettled
  <2>7. QED
    BY <2>5, <2>6 DEF ImportInv
<1>7. QED
  BY <1>5, <1>6

-----------------------------------------------------------------------------
(* The Import screen: a Conversion is started *)

LEMMA Idles ==
  /\ IdleStoring \in Storing /\ IdleStoring.at = "idle" /\ IdleStoring.row = None
  /\ IdleReplacing \in Replacing /\ IdleReplacing.at = "idle" /\ IdleReplacing.row = None
  /\ IdleConverting \in Conversion /\ IdleConverting.at = "idle"
  /\ Unseen \in Rendition /\ Unseen.status = "nothing"
BY NoneIsNoRow
DEF IdleStoring, Storing, IdleReplacing, Replacing, IdleConverting, Conversion, Unseen, Rendition

LEMMA StartKept ==
  ASSUME ImportInv, NEW r \in Rows, Known(r), RowsStep({}), StartConversion(r),
         row'[r].state = "live" => row'[r].file \/ r \in discards \cup loose,
         UNCHANGED <<discards, loose>>, url' \in {url, r},
         create' = create \/ (create' = IdleStoring /\ create.row = r),
         replace' = replace \/ (replace' = IdleReplacing /\ replace.row = r),
         Settled(screen.id), screen.unfinished = None, screen.resume = None, screen.open
  PROVE  ImportInv'
<1>0. Shapes /\ AllKnown /\ StoringRow /\ ShownSettled
  BY DEF ImportInv
<1>1. seen' = [seen EXCEPT ![r] = Unseen] /\ screen' = [screen EXCEPT !.id = r, !.following = FALSE, !.stalled = FALSE]
  BY DEF StartConversion
<1>2. /\ screen' \in Screen /\ screen'.id = r /\ screen'.open /\ screen'.resume = None
      /\ screen'.unfinished = None /\ ~screen'.following /\ ~screen'.stalled
  BY <1>0, <1>1, NoneIsNoRow DEF Shapes, Screen
<1>3. /\ convert' \in Conversion /\ convert'.at = "pending" /\ convert'.row = r /\ convert'.resume = FALSE
  BY NoneIsNoRow DEF StartConversion, Conversion
<1>4. /\ seen' \in [Rows -> Rendition] /\ seen'[r].status = "nothing"
      /\ \A q \in Rows : seen'[q] = seen[q] \/ seen'[q].status = "nothing"
  BY <1>0, <1>1, Idles DEF Shapes
<1>5. /\ create' \in Storing /\ create'.row \in {create.row, None}
      /\ create.row \in {create'.row, r} /\ (create' = create \/ create'.at = "idle")
  BY <1>0, Idles DEF Shapes
<1>6. /\ replace' \in Replacing /\ replace'.row \in {replace.row, None}
      /\ replace.row \in {replace'.row, r} /\ (replace' = replace \/ replace'.at = "idle")
  BY <1>0, Idles DEF Shapes
<1>7. ToldKept
  BY DEF ToldKept
<1>8. Shapes' /\ AllKnown' /\ ReadHasFile' /\ InHands' /\ OutcomeIsLast'
  <2>1. Hands' = {create'.row, replace'.row, r, None}
    BY <1>2 DEF Hands
  <2>2. \A q \in Hands : q \in Hands' \/ Settled(q)
    BY <1>5, <1>6, <2>1 DEF Hands
  <2>3. ASSUME NEW q \in Named' PROVE Known(q) /\ q \in RowOrNone
    <3>1. q \in {r, None, create.row, replace.row, url}
      BY <1>2, <1>5, <1>6 DEF Named
    <3>2. Known(None)
      BY DEF Known
    <3>3. QED
      BY <1>0, <3>1, <3>2, NoneIsNoRow, NamedRows DEF AllKnown, Named
  <2>4. Shapes'
    BY <1>0, <1>2, <1>3, <1>4, <1>5, <1>6, NoneIsNoRow DEF Shapes, RowsStep
  <2>5. AllKnown'
    <3>1. \A q \in Named' : Known(q)'
      BY <2>3, NoneIsNoRow DEF Known, RowsStep
    <3>2. QED
      BY <3>1 DEF AllKnown
  <2>6. ReadHasFile' /\ InHands'
    <3>1. ReadHasFile'
      BY <1>0, <1>4, RowFields DEF ImportInv, ReadHasFile, RowsStep, Bare
    <3>2. ASSUME NEW q \in Rows, Bare(q)' PROVE q \in Hands' \cup discards' \cup loose'
      <4>1. Bare(q)
        BY <3>2 DEF RowsStep, Bare
      <4>2. q \in Hands \/ q \in discards \cup loose
        BY <4>1 DEF ImportInv, InHands
      <4>3. Settled(q) => q \in discards \cup loose
        BY <4>1, NoneIsNoRow DEF Settled
      <4>4. QED
        BY <2>2, <4>2, <4>3
    <3>3. QED
      BY <3>1, <3>2 DEF InHands
  <2>7. OutcomeIsLast'
    BY DEF ImportInv, OutcomeIsLast, RowsStep, OutcomeStep
  <2>8. QED
    BY <2>4, <2>5, <2>6, <2>7
<1>9. QuietScreen' /\ UnfinishedIsShown' /\ PendingIsShown' /\ DoneIsOfRow'
  BY <1>2, <1>3, <1>4, NoneIsNoRow DEF QuietScreen, UnfinishedIsShown, PendingIsShown, DoneIsOfRow, Terminal
<1>10. StoringRow'
  BY <1>0, Idles DEF StoringRow
<1>11. ShownSettled'
  <2>1. Settled(r)'
    BY DEF Settled, Bare
  <2>2. replace.at = "posting" => Settled(replace.row)'
    <3>1. replace.row \in RowOrNone /\ Known(replace.row)
      BY <1>0, NamedRows DEF AllKnown, Named
    <3>2. Settled(replace.row) => (\A q : q = replace.row => Settled(q)')
      BY <1>7, <3>1, SettledKept
    <3>3. QED
      BY <1>0, <1>6, <3>2, Idles DEF ShownSettled, Settled, Bare
  <2>3. QED
    BY <1>2, <1>6, <2>1, <2>2 DEF ShownSettled
<1>12. QED
  BY <1>8, <1>9, <1>10, <1>11 DEF ImportInv

LEMMA PutAnsweredKept == ASSUME ImportInv, PutAnswered PROVE ImportInv'
<1>0. Shapes /\ AllKnown /\ QuietScreen /\ UnfinishedIsShown /\ StoringRow /\ ShownSettled
  BY DEF ImportInv
<1>1. create.at = "putting" /\ create.row \in Rows /\ Known(create.row)
  BY <1>0, NoneIsNoRow, NamedRows DEF PutAnswered, StoringRow, AllKnown, Named
<1>2. RowsStep({})
  BY <1>0, StoredRow DEF PutAnswered
<1>3. row'[create.row].file
  BY <1>0, <1>1 DEF PutAnswered, FileStored, Shapes, Row
<1>4. Settled(screen.id) /\ screen.unfinished = None /\ screen.resume = None /\ screen.open
  BY <1>0, <1>1 DEF ShownSettled, UnfinishedIsShown, QuietScreen, NothingUnderWay
<1>5. QED
  BY <1>1, <1>2, <1>3, <1>4, StartKept DEF PutAnswered

LEMMA ReplaceStoredKept == ASSUME ImportInv, ReplaceStored PROVE ImportInv'
<1>0. Shapes /\ AllKnown /\ QuietScreen /\ UnfinishedIsShown /\ StoringRow /\ ShownSettled
  BY DEF ImportInv
<1>1. replace.at = "putting" /\ replace.row \in Rows /\ Known(replace.row)
  BY <1>0, NoneIsNoRow, NamedRows DEF ReplaceStored, StoringRow, AllKnown, Named
<1>2. RowsStep({})
  BY <1>0, StoredRow DEF ReplaceStored
<1>3. row'[replace.row].file
  BY <1>0, <1>1 DEF ReplaceStored, FileStored, Shapes, Row
<1>4. Settled(screen.id) /\ screen.unfinished = None /\ screen.resume = None /\ screen.open
  BY <1>0, <1>1 DEF ShownSettled, UnfinishedIsShown, QuietScreen, NothingUnderWay
<1>5. QED
  BY <1>1, <1>2, <1>3, <1>4, StartKept DEF ReplaceStored

\* The failure of a Conversion stands for a row that needs no hand.
LEMMA FailureIsSettled ==
  ASSUME ImportInv, FailureShown, screen.id # None, ~Busy
  PROVE  /\ Settled(screen.id) /\ screen.id \in Rows /\ Known(screen.id) /\ screen.unfinished = None
         /\ screen.resume = None /\ screen.open /\ convert.at # "pending" /\ replace.at = "idle"
<1>0. /\ Shapes /\ AllKnown /\ QuietScreen /\ ShownSettled /\ ReadHasFile
  BY DEF ImportInv
<1>1. screen.unfinished = None /\ screen.open /\ create.at # "failed"
  BY DEF FailureShown, ProgressShown, StoreFailed
<1>2. screen.resume = None
  BY <1>0 DEF QuietScreen, NothingUnderWay
<1>3. screen.id \in Rows /\ Known(screen.id)
  BY <1>0, NoneIsNoRow, NamedRows DEF AllKnown, Named
<1>4. Settled(screen.id)
  <2>1. CASE convert.at = "failed"
    BY <1>0, <1>1, <2>1 DEF ShownSettled
  <2>2. CASE SeenStatus = "FAILED"
    BY <1>0, <1>3, <2>2 DEF SeenStatus, ReadHasFile, Settled
  <2>3. QED
    BY <2>1, <2>2 DEF FailureShown
<1>5. convert.at # "pending" /\ replace.at = "idle"
  BY <1>0 DEF Busy, Shapes, Replacing
<1>6. QED
  BY <1>1, <1>2, <1>3, <1>4, <1>5

LEMMA RetryConversionKept == ASSUME ImportInv, RetryConversion PROVE ImportInv'
<1>1. RowsStep({}) /\ row' = row
  BY SameRows DEF ImportInv, RetryConversion, server
<1>2. /\ Settled(screen.id) /\ screen.id \in Rows /\ Known(screen.id) /\ screen.unfinished = None
      /\ screen.resume = None /\ screen.open
  BY FailureIsSettled DEF RetryConversion
<1>3. row'[screen.id].state = "live" => row'[screen.id].file \/ screen.id \in discards \cup loose
  BY <1>1, <1>2, NoneIsNoRow DEF Settled, Bare
<1>4. QED
  BY <1>1, <1>2, <1>3, StartKept DEF RetryConversion, server

-----------------------------------------------------------------------------
(* The Import screen: the CV is stored *)

\* A step of the create mutation, and of the row on screen's unfinished mark.
LEMMA StoringKept ==
  ASSUME ImportInv, NEW new, RowsStep(new), ToldKept,
         create' \in Storing, screen' \in Screen, url' \in RowOrNone,
         screen'.id = screen.id, screen'.resume = screen.resume, screen'.open = screen.open,
         screen'.following = screen.following, screen'.stalled = screen.stalled,
         screen'.unfinished = None,
         screen.open, screen.resume = None, Settled(screen.id), screen.unfinished = None \/ convert.at = "failed",
         UNCHANGED <<convert, replace, seen>>,
         convert.at = "pending" => ~convert.resume,
         create'.at \in {"idle", "posting"} => create'.row = None,
         create'.at = "putting" => create'.row # None,
         {create'.row, url'} \subseteq Named \cup new \cup {None},
         new \subseteq {create'.row} \cup discards' \cup loose',
         create.row \in {create'.row, None} \cup discards' \cup loose'
  PROVE  ImportInv'
<1>0. /\ Shapes /\ AllKnown /\ QuietScreen /\ UnfinishedIsShown /\ StoringRow /\ PendingIsShown
      /\ DoneIsOfRow /\ ShownSettled
  BY DEF ImportInv
<1>1. Shapes' /\ AllKnown' /\ ReadHasFile' /\ InHands' /\ OutcomeIsLast'
  <2>1. Named' \subseteq Named \cup new \cup {None}
    BY DEF Named
  <2>2. \A q \in Hands : q \in Hands' \cup discards' \cup loose' \/ Settled(q)
    BY DEF Hands, Settled
  <2>3. new \subseteq Hands' \cup discards' \cup loose'
    BY DEF Hands
  <2>4. convert' \in Conversion /\ replace' \in Replacing /\ seen' \in [Rows -> Rendition]
    BY <1>0 DEF Shapes
  <2>5. QED
    BY <2>1, <2>2, <2>3, <2>4, RestKept
<1>2. screen.id \in RowOrNone /\ Known(screen.id) /\ replace.row \in RowOrNone /\ Known(replace.row)
  BY <1>0, NamedRows DEF AllKnown, Named
<1>3. Settled(screen.id)'
  BY <1>2, SettledKept DEF Settled, Bare
<1>4. Settled(replace.row) => Settled(replace.row)'
  BY <1>2, SettledKept DEF Settled, Bare
<1>5. ShownSettled'
  BY <1>0, <1>3, <1>4 DEF ShownSettled
<1>6. DoneIsOfRow'
  <2>1. screen.id # None => row[screen.id].runs <= row'[screen.id].runs
    BY <1>2, CountedKept, NoneIsNoRow
  <2>2. screen.id # None => row[screen.id].runs \in Nat /\ row'[screen.id].runs \in Nat
    BY <1>0, <1>2, NoneIsNoRow DEF Shapes, RowsStep, Row
  <2>3. convert.run \in Nat
    BY <1>0 DEF Shapes, Conversion
  <2>4. QED
    BY <1>0, <2>1, <2>2, <2>3 DEF DoneIsOfRow
<1>7. QuietScreen' /\ UnfinishedIsShown' /\ StoringRow' /\ PendingIsShown'
  BY <1>0 DEF QuietScreen, UnfinishedIsShown, StoringRow, PendingIsShown
<1>8. QED
  BY <1>1, <1>5, <1>6, <1>7 DEF ImportInv

LEMMA SubmitKept == ASSUME ImportInv, Submit PROVE ImportInv'
<1>0. Shapes /\ StoringRow /\ PendingIsShown
  BY DEF ImportInv
<1>1. /\ screen.open /\ screen.resume = None /\ screen.id = None /\ screen.unfinished = None
      /\ create.row = None /\ convert.at # "pending"
  BY <1>0 DEF Submit, FormShown, StoreFailed, Importing, StoringRow, Shapes, Storing, PendingIsShown
<1>2. /\ screen' = [screen EXCEPT !.unfinished = None] /\ UNCHANGED <<row, convert, replace, seen, loose, url>>
      /\ create' = [at |-> "posting", row |-> None, fresh |-> FALSE]
      /\ discards \subseteq discards'
  BY DEF Submit, Store
<1>3. screen' = screen
  BY <1>0, <1>1, <1>2 DEF Shapes, Screen
<1>4. create' \in Storing /\ create'.at = "posting" /\ create'.row = None
  BY <1>2, NoneIsNoRow DEF Storing
<1>5. RowsStep({}) /\ ToldKept
  BY <1>0, <1>2, SameRows DEF ToldKept
<1>6. url \in Named /\ url \in RowOrNone /\ screen \in Screen /\ Settled(screen.id)
  BY <1>0, <1>1 DEF Named, Shapes, Settled
<1>7. QED
  BY <1>1, <1>2, <1>3, <1>4, <1>5, <1>6, StoringKept

LEMMA RetryStoreKept == ASSUME ImportInv, RetryStore PROVE ImportInv'
<1>0. Shapes /\ StoringRow /\ PendingIsShown /\ UnfinishedIsShown /\ QuietScreen /\ ShownSettled
  BY DEF ImportInv
<1>1. screen.open /\ (screen.unfinished # None \/ create.at = "failed") /\ screen.resume = None
  BY <1>0 DEF RetryStore, RetryShown, StoreFailed, QuietScreen, NothingUnderWay
<1>2. /\ screen' = [screen EXCEPT !.unfinished = None] /\ UNCHANGED <<row, convert, replace, seen, loose>>
  BY DEF RetryStore, Store
<1>3. /\ screen' \in Screen /\ screen'.id = screen.id /\ screen'.resume = screen.resume
      /\ screen'.open = screen.open /\ screen'.following = screen.following
      /\ screen'.stalled = screen.stalled /\ screen'.unfinished = None
  BY <1>0, <1>2, NoneIsNoRow DEF Shapes, Screen
<1>4. convert.at = "pending" => ~convert.resume
  BY <1>0, <1>1 DEF PendingIsShown
<1>5. create.row \in RowOrNone /\ screen.unfinished \in RowOrNone /\ url \in RowOrNone
  BY <1>0 DEF Shapes, Storing, Screen
<1>6. CASE screen.unfinished # None
  <2>1. FailedRow = screen.unfinished /\ screen.unfinished = screen.id /\ convert.at = "failed" /\ create.row = None
    BY <1>0, <1>6 DEF FailedRow, UnfinishedIsShown, StoringRow
  <2>2. /\ create' = [at |-> "posting", row |-> None, fresh |-> FALSE]
        /\ discards' = discards \cup {screen.id} /\ url' = url
    BY <1>6, <2>1 DEF RetryStore, Store
  <2>3. create' \in Storing /\ create'.at = "posting" /\ create'.row = None
    BY <2>2, NoneIsNoRow DEF Storing
  <2>4. RowsStep({}) /\ ToldKept
    BY <1>0, <1>2, <2>2, SameRows DEF ToldKept
  <2>5. url \in Named
    BY DEF Named
  \* The row is discarded by this step: what the lemma asks before it, only after it.
  <2>6. Shapes' /\ AllKnown' /\ ReadHasFile' /\ InHands' /\ OutcomeIsLast'
    <3>1. Named' \subseteq Named \cup {None} /\ Hands \subseteq Hands' \cup {None}
      BY <1>2, <1>3, <2>1, <2>2, <2>3 DEF Named, Hands
    <3>2. Settled(None)
      BY DEF Settled
    <3>3. /\ convert' \in Conversion /\ replace' \in Replacing /\ url' \in RowOrNone /\ seen' \in [Rows -> Rendition]
          /\ seen' = seen
      BY <1>0, <1>2, <2>2 DEF Shapes
    <3>4. QED
      BY <1>3, <2>3, <2>4, <3>1, <3>2, <3>3, RestKept
  <2>7. Settled(screen.id)' /\ replace' = replace /\ replace.at = "idle"
    BY <1>0, <1>2, <1>3, <1>6, <2>2 DEF Settled, UnfinishedIsShown
  <2>8. ShownSettled' /\ QuietScreen' /\ UnfinishedIsShown' /\ StoringRow' /\ PendingIsShown' /\ DoneIsOfRow'
    BY <1>0, <1>1, <1>2, <1>3, <2>1, <2>3, <2>7
    DEF ShownSettled, QuietScreen, UnfinishedIsShown, StoringRow, PendingIsShown, DoneIsOfRow
  <2>9. QED
    BY <2>6, <2>8 DEF ImportInv
<1>7. CASE screen.unfinished = None
  <2>1. create.at = "failed" /\ FailedRow = create.row /\ Settled(screen.id)
    BY <1>0, <1>1, <1>7 DEF FailedRow, ShownSettled
  <2>2. CASE create.row # None /\ create.fresh
    <3>1. create' = [at |-> "putting", row |-> create.row, fresh |-> TRUE] /\ url' = create.row /\ discards' = discards
      BY <1>7, <2>1, <2>2 DEF RetryStore, Store
    <3>2. create' \in Storing /\ create'.at = "putting" /\ create'.row = create.row
      BY <3>1, <1>5 DEF Storing
    <3>3. RowsStep({}) /\ ToldKept
      BY <1>0, <1>2, <3>1, SameRows DEF ToldKept
    <3>4. {create'.row, url'} \subseteq Named /\ url' \in RowOrNone
      BY <1>5, <3>1, <3>2 DEF Named
    <3>5. QED
      BY <1>1, <1>2, <1>3, <1>4, <1>7, <2>1, <2>2, <3>2, <3>3, <3>4, StoringKept
  <2>3. CASE ~(create.row # None /\ create.fresh)
    <3>1. /\ create' = [at |-> "posting", row |-> None, fresh |-> FALSE] /\ url' = url
          /\ discards' = discards \cup ({create.row} \ {None})
      BY <1>7, <2>1, <2>3 DEF RetryStore, Store
    <3>2. create' \in Storing /\ create'.at = "posting" /\ create'.row = None
      BY <3>1, NoneIsNoRow DEF Storing
    <3>3. RowsStep({}) /\ ToldKept
      BY <1>0, <1>2, <3>1, SameRows DEF ToldKept
    <3>4. {create'.row, url'} \subseteq Named \cup {None} /\ url' \in RowOrNone
      BY <1>5, <3>1, <3>2 DEF Named
    <3>5. create.row \in {None} \cup discards'
      BY <3>1
    <3>6. QED
      BY <1>1, <1>2, <1>3, <1>4, <1>7, <2>1, <3>2, <3>3, <3>4, <3>5, StoringKept
  <2>4. QED
    BY <2>2, <2>3
<1>8. QED
  BY <1>6, <1>7

\* While the mutation is not idle, the screen shows it alone.
LEMMA WhileStoring ==
  ASSUME ImportInv, create.at # "idle"
  PROVE  /\ screen.open /\ screen.resume = None /\ screen.unfinished = None /\ Settled(screen.id)
         /\ screen \in Screen /\ (convert.at = "pending" => ~convert.resume)
BY DEF ImportInv, Shapes, QuietScreen, NothingUnderWay, UnfinishedIsShown, PendingIsShown, ShownSettled

LEMMA PostAnsweredKept == ASSUME ImportInv, PostAnswered PROVE ImportInv'
<1>0. Shapes /\ StoringRow /\ create.at = "posting" /\ create.row = None
  BY DEF ImportInv, PostAnswered, StoringRow
<1>1. PICK r \in Rows :
        /\ NewRow(r) /\ row' = Inserted(r) /\ create' = [at |-> "putting", row |-> r, fresh |-> TRUE] /\ url' = r
  BY DEF PostAnswered
<1>2. UNCHANGED <<discards, loose, screen, convert, replace, seen>>
  BY DEF PostAnswered
<1>3. RowsStep({r}) /\ ToldKept
  BY <1>0, <1>1, <1>2, InsertedRow DEF ToldKept
<1>4. create' \in Storing /\ create'.at = "putting" /\ create'.row = r /\ r # None /\ url' \in RowOrNone
  BY <1>1, NoneIsNoRow DEF Storing
<1>5. QED
  BY <1>0, <1>1, <1>2, <1>3, <1>4, WhileStoring, StoringKept

LEMMA PostFailsKept == ASSUME ImportInv, PostFails PROVE ImportInv'
<1>0. Shapes /\ StoringRow /\ create.at = "posting" /\ create.row = None
  BY DEF ImportInv, PostFails, StoringRow
<1>1. UNCHANGED <<discards, url, screen, convert, replace, seen>> /\ create' = [IdleStoring EXCEPT !.at = "failed"]
  BY DEF PostFails
<1>2. create' \in Storing /\ create'.at = "failed" /\ create'.row = None /\ url' \in RowOrNone /\ url' \in Named
  BY <1>0, <1>1, Idles DEF Storing, IdleStoring, Shapes, Named
<1>3. CASE row' = row /\ loose' = loose
  <2>1. RowsStep({}) /\ ToldKept
    BY <1>0, <1>1, <1>3, SameRows DEF ToldKept
  <2>2. QED
    BY <1>0, <1>1, <1>2, <2>1, WhileStoring, StoringKept
<1>4. ASSUME NEW r \in Rows, NewRow(r), row' = Inserted(r), loose' = loose \cup {r} PROVE ImportInv'
  <2>1. RowsStep({r}) /\ ToldKept
    BY <1>0, <1>1, <1>4, InsertedRow DEF ToldKept
  <2>2. QED
    BY <1>0, <1>1, <1>2, <1>4, <2>1, WhileStoring, StoringKept
<1>5. QED
  BY <1>3, <1>4 DEF PostFails

LEMMA PutFailsKept == ASSUME ImportInv, PutFails \/ UrlExpires PROVE ImportInv'
<1>0. Shapes /\ StoringRow /\ create.at # "idle"
  BY DEF ImportInv, PutFails, UrlExpires
<1>1. UNCHANGED <<discards, loose, url, screen, convert, replace, seen>>
  BY DEF PutFails, UrlExpires, server
<1>2. create' \in Storing /\ create'.at = "failed" /\ create'.row = create.row
  BY <1>0 DEF PutFails, UrlExpires, Storing, Shapes
<1>3. RowsStep({})
  BY <1>0, StoredRow, SameRows DEF PutFails, UrlExpires, server
<1>4. ToldKept /\ {create'.row, url'} \subseteq Named /\ url' \in RowOrNone
  BY <1>0, <1>1, <1>2 DEF ToldKept, Named, Shapes
<1>5. QED
  BY <1>0, <1>1, <1>2, <1>3, <1>4, WhileStoring, StoringKept

-----------------------------------------------------------------------------
(* The Import screen: a Conversion is answered, followed, retried *)

LEMMA ConvertKept ==
  ASSUME ImportInv, RowsStep({}), convert.at = "pending",
         UNCHANGED <<discards, loose, url, create, replace, seen>>,
         screen' \in Screen, screen'.id = screen.id, screen'.resume = screen.resume,
         screen'.open = screen.open, screen'.stalled = screen.stalled,
         convert' \in Conversion, convert'.at # "pending",
         screen'.unfinished # None => screen'.unfinished = screen.id /\ convert.resume /\ convert'.at = "failed",
         convert'.at = "failed" /\ screen'.unfinished = None => ~convert.resume,
         convert'.at = "done" => /\ convert'.row = screen.id /\ convert'.run <= row'[screen.id].runs
                                 /\ ~convert.resume
  PROVE  ImportInv'
<1>0. /\ Shapes /\ AllKnown /\ QuietScreen /\ UnfinishedIsShown /\ StoringRow /\ PendingIsShown
      /\ DoneIsOfRow /\ ShownSettled
  BY DEF ImportInv
<1>1. Shapes' /\ AllKnown' /\ ReadHasFile' /\ InHands' /\ OutcomeIsLast'
  <2>1. Named' = Named /\ Hands' = Hands /\ ToldKept
    BY DEF Named, Hands, ToldKept
  <2>2. create' \in Storing /\ replace' \in Replacing /\ seen' \in [Rows -> Rendition] /\ url' \in RowOrNone
    BY <1>0 DEF Shapes
  <2>3. QED
    BY <2>1, <2>2, RestKept
<1>2. screen.id \in RowOrNone /\ Known(screen.id) /\ replace.row \in RowOrNone /\ Known(replace.row)
  BY <1>0, NamedRows DEF AllKnown, Named
<1>3. Settled(screen.id) => Settled(screen.id)'
  BY <1>2, SettledKept DEF Settled, Bare, ToldKept
<1>4. Settled(replace.row) => Settled(replace.row)'
  BY <1>2, SettledKept DEF Settled, Bare, ToldKept
<1>5. /\ screen.id # None /\ screen.open /\ screen.resume = None
      /\ (convert.resume => create.at = "idle" /\ replace.at = "idle")
      /\ (~convert.resume => Settled(screen.id) /\ seen[screen.id].status = "nothing")
  BY <1>0 DEF PendingIsShown, QuietScreen, NothingUnderWay, ShownSettled
<1>6. ShownSettled'
  BY <1>0, <1>3, <1>4, <1>5 DEF ShownSettled
<1>7. QuietScreen' /\ UnfinishedIsShown' /\ StoringRow' /\ PendingIsShown' /\ DoneIsOfRow'
  BY <1>0, <1>5 DEF QuietScreen, UnfinishedIsShown, StoringRow, PendingIsShown, DoneIsOfRow, Terminal
<1>8. QED
  BY <1>1, <1>6, <1>7 DEF ImportInv

LEMMA ConvertAnsweredKept == ASSUME ImportInv, ConvertAnswered \/ ConvertFails PROVE ImportInv'
<1>0. Shapes /\ PendingIsShown /\ UnfinishedIsShown /\ convert.at = "pending"
  BY DEF ImportInv, ConvertAnswered, ConvertFails
<1>1. /\ convert.row = screen.id /\ screen.id \in Rows /\ screen.unfinished = None
      /\ screen \in Screen /\ convert \in Conversion
  BY <1>0, NoneIsNoRow DEF PendingIsShown, UnfinishedIsShown, Shapes, Screen
<1>2. UNCHANGED <<discards, loose, url, create, replace, seen>>
  BY DEF ConvertAnswered, ConvertFails
<1>3. row' = row \/ row' \in {Accepted(screen.id), Unsent(screen.id)}
  BY <1>1 DEF ConvertAnswered, ConvertFails
<1>4. RowsStep({})
  BY <1>0, <1>3, SameRows, AcceptedRow
<1>5. ASSUME Resumes PROVE ImportInv'
  <2>1. screen' = [screen EXCEPT !.following = TRUE] /\ convert' = IdleConverting
    BY <1>5 DEF Resumes, Follow
  <2>2. /\ screen' \in Screen /\ screen'.id = screen.id /\ screen'.resume = screen.resume
        /\ screen'.open = screen.open /\ screen'.stalled = screen.stalled /\ screen'.unfinished = None
    BY <1>1, <2>1 DEF Screen
  <2>3. convert' \in Conversion /\ convert'.at = "idle"
    BY <2>1, Idles
  <2>4. QED
    BY <1>0, <1>2, <1>4, <2>2, <2>3, ConvertKept
<1>6. ASSUME Unfinished, convert.resume PROVE ImportInv'
  <2>1. screen' = [screen EXCEPT !.unfinished = screen.id] /\ convert' = [convert EXCEPT !.at = "failed"]
    BY <1>1, <1>6 DEF Unfinished
  <2>2. /\ screen' \in Screen /\ screen'.id = screen.id /\ screen'.resume = screen.resume
        /\ screen'.open = screen.open /\ screen'.stalled = screen.stalled /\ screen'.unfinished = screen.id
    BY <1>1, <2>1, NoneIsNoRow DEF Screen
  <2>3. convert' \in Conversion /\ convert'.at = "failed"
    BY <1>1, <2>1 DEF Conversion
  <2>4. QED
    BY <1>0, <1>1, <1>2, <1>4, <1>6, <2>2, <2>3, NoneIsNoRow, ConvertKept
<1>7. ASSUME Refused, ~convert.resume PROVE ImportInv'
  <2>1. screen' = screen /\ convert' = [convert EXCEPT !.at = "failed"]
    BY <1>7 DEF Refused
  <2>2. convert' \in Conversion /\ convert'.at = "failed"
    BY <1>1, <2>1 DEF Conversion
  <2>3. QED
    BY <1>0, <1>1, <1>2, <1>4, <1>7, <2>1, <2>2, ConvertKept
<1>8. ASSUME row' = Accepted(screen.id), ~convert.resume, Follow,
             convert' = [convert EXCEPT !.at = "done", !.run = row[convert.row].runs + 1]
      PROVE  ImportInv'
  <2>1. /\ screen' \in Screen /\ screen'.id = screen.id /\ screen'.resume = screen.resume
        /\ screen'.open = screen.open /\ screen'.stalled = screen.stalled /\ screen'.unfinished = None
    BY <1>1, <1>8 DEF Screen, Follow
  <2>2. row[screen.id].runs \in Nat /\ row[screen.id] \in Row
    BY <1>0, <1>1, RowFields
  <2>3. row[screen.id].runs + 1 \in Nat
    BY <2>2
  <2>4. convert' = [convert EXCEPT !.at = "done", !.run = row[screen.id].runs + 1]
    BY <1>1, <1>8
  <2>5. /\ convert' \in Conversion /\ convert'.at = "done" /\ convert'.row = screen.id
        /\ convert'.run = row[screen.id].runs + 1
    BY <1>1, <2>3, <2>4 DEF Conversion
  <2>6. row'[screen.id].runs = row[screen.id].runs + 1
    BY <1>0, <1>1, <1>8, <2>2 DEF Accepted, Shapes, Row
  <2>7. convert'.run <= row'[screen.id].runs
    BY <2>3, <2>5, <2>6
  <2>8. QED
    BY <1>0, <1>1, <1>2, <1>4, <1>8, <2>1, <2>5, <2>7, ConvertKept
<1>9. CASE ConvertAnswered
  <2>1. Resumes \/ (convert.resume /\ Unfinished) \/ (~convert.resume /\ Refused)
        \/ (/\ row' = Accepted(screen.id) /\ ~convert.resume /\ Follow
            /\ convert' = [convert EXCEPT !.at = "done", !.run = row[convert.row].runs + 1])
    BY <1>1, <1>9 DEF ConvertAnswered
  <2>2. QED
    BY <1>5, <1>6, <1>7, <1>8, <2>1
<1>10. CASE ConvertFails
  <2>1. Resumes \/ (~convert.resume /\ Refused)
    BY <1>10 DEF ConvertFails
  <2>2. QED
    BY <1>5, <1>7, <2>1
<1>11. QED
  BY <1>9, <1>10

\* The outcome read of a live row was written after the last conversion accepted for it, and is
\* one of a file.
LEMMA ReadKept ==
  ASSUME ImportInv, FileInv, UNCHANGED <<row, discards, loose, url, create, convert, replace>>,
         screen' \in Screen, screen'.id = screen.id, screen'.resume = screen.resume,
         screen'.open = screen.open, screen'.following = screen.following,
         screen'.unfinished = screen.unfinished,
         screen.open, screen.resume = None, convert.at # "pending",
         seen' = seen \/ (Live(screen.id) /\ seen' = Read(screen.id))
  PROVE  ImportInv'
<1>0. /\ Shapes /\ AllKnown /\ QuietScreen /\ UnfinishedIsShown /\ StoringRow /\ PendingIsShown
      /\ DoneIsOfRow /\ ShownSettled
  BY DEF ImportInv
<1>1. RowsStep({}) /\ ToldKept
  BY <1>0, SameRows DEF ToldKept
<1> DEFINE k == screen.id
<1>2. k \in RowOrNone
  BY <1>0 DEF Shapes, Screen
<1>3. ASSUME seen' # seen
      PROVE  /\ k \in Rows /\ row[k].state = "live" /\ seen' \in [Rows -> Rendition]
             /\ seen'[k].status = row[k].status /\ seen'[k].at = row[k].at
             /\ \A q \in Rows : q # k => seen'[q] = seen[q]
             /\ row[k].status # "PENDING" => row[k].file
  <2>1. k \in Rows /\ row[k].state = "live" /\ seen' = Read(k)
    BY <1>2, <1>3, NoneIsNoRow DEF Live
  <2> HIDE DEF k
  <2>2. row[k].status \in Statuses /\ row[k].by \in Nat /\ row[k].at \in Nat
    BY <1>0, <2>1, RowFields
  <2>3. [status |-> row[k].status, by |-> row[k].by, at |-> row[k].at] \in Rendition
    BY <2>2 DEF Rendition
  <2>4. seen' = [seen EXCEPT ![k] = [status |-> row[k].status, by |-> row[k].by, at |-> row[k].at]]
    BY <2>1 DEF Read
  <2>5. seen' \in [Rows -> Rendition] /\ \A q \in Rows : q # k => seen'[q] = seen[q]
    BY <1>0, <2>3, <2>4 DEF Shapes
  <2>6. seen'[k] = [status |-> row[k].status, by |-> row[k].by, at |-> row[k].at]
    BY <1>0, <2>1, <2>4 DEF Shapes
  <2>7. row[k].status # "PENDING" => row[k].file
    BY <2>1 DEF FileInv, HasItsFile
  <2>8. QED
    BY <2>1, <2>5, <2>6, <2>7
<1>4. Shapes' /\ AllKnown' /\ ReadHasFile' /\ InHands' /\ OutcomeIsLast'
  <2>1. Named' = Named /\ Hands' = Hands
    BY DEF Named, Hands
  <2>2. create' \in Storing /\ convert' \in Conversion /\ replace' \in Replacing /\ url' \in RowOrNone
        /\ seen' \in [Rows -> Rendition]
    BY <1>0, <1>3 DEF Shapes
  <2>3. \A q \in Rows : \/ seen'[q] = seen[q]
                        \/ seen'[q].status \in {"nothing", "PENDING"}
                        \/ row'[q].state # "free" /\ (row'[q].state = "live" => row'[q].file)
    BY <1>3
  <2>4. QED
    BY <1>1, <2>1, <2>2, <2>3, RestKept
<1>5. ShownSettled'
  BY <1>0 DEF ShownSettled, Settled, Bare
<1>6. DoneIsOfRow'
  BY <1>0, <1>3 DEF DoneIsOfRow, ImportInv, OutcomeIsLast
<1>7. QuietScreen' /\ UnfinishedIsShown' /\ StoringRow' /\ PendingIsShown'
  BY <1>0 DEF QuietScreen, UnfinishedIsShown, StoringRow, PendingIsShown
<1>8. QED
  BY <1>4, <1>5, <1>6, <1>7 DEF ImportInv

LEMMA FollowKept == ASSUME ImportInv, FileInv, Poll \/ WaitCapReached \/ KeepWaiting PROVE ImportInv'
<1>0. Shapes /\ QuietScreen /\ PendingIsShown /\ screen \in Screen
  BY DEF ImportInv, Shapes
<1>1. screen.open /\ (screen.following \/ screen.stalled)
  BY DEF Poll, WaitCapReached, KeepWaiting, StalledShown, ProgressShown
<1>2. screen.resume = None /\ convert.at # "pending"
  BY <1>0, <1>1 DEF QuietScreen, NothingUnderWay, PendingIsShown
<1>3. UNCHANGED <<row, discards, loose, url, create, convert, replace>>
  BY DEF Poll, WaitCapReached, KeepWaiting, server
<1>4. screen' = screen \/ screen' = [screen EXCEPT !.stalled = TRUE] \/ screen' = [screen EXCEPT !.stalled = FALSE]
  BY DEF Poll, WaitCapReached, KeepWaiting
<1>5. /\ screen' \in Screen /\ screen'.id = screen.id /\ screen'.resume = screen.resume
      /\ screen'.open = screen.open /\ screen'.following = screen.following
      /\ screen'.unfinished = screen.unfinished
  BY <1>0, <1>4 DEF Screen
<1>6. seen' = seen \/ (Live(screen.id) /\ seen' = Read(screen.id))
  BY DEF Poll, WaitCapReached, KeepWaiting
<1>7. QED
  BY <1>1, <1>2, <1>3, <1>5, <1>6, ReadKept

-----------------------------------------------------------------------------
(* The Import screen: a file is replaced *)

\* A step of the replace mutation.
LEMMA ReplacingKept ==
  ASSUME ImportInv, NEW new, RowsStep(new), ToldKept,
         UNCHANGED <<screen, create, convert, seen, url>>,
         screen.open, screen.resume = None, screen.unfinished = None, Settled(screen.id),
         convert.at = "pending" => ~convert.resume,
         replace' \in Replacing, replace'.row \in Named \cup new \cup {None},
         replace'.at = "idle" => replace'.row = None, replace'.at # "idle" => replace'.row # None,
         replace'.at = "posting" => replace'.row = screen.id,
         new \subseteq {replace'.row} \cup discards' \cup loose',
         replace.row \in {replace'.row, None} \cup discards' \cup loose' \/ Settled(replace.row)
  PROVE  ImportInv'
<1>0. /\ Shapes /\ AllKnown /\ QuietScreen /\ UnfinishedIsShown /\ StoringRow /\ PendingIsShown
      /\ DoneIsOfRow /\ ShownSettled
  BY DEF ImportInv
<1>1. Shapes' /\ AllKnown' /\ ReadHasFile' /\ InHands' /\ OutcomeIsLast'
  <2>1. Named' \subseteq Named \cup new \cup {None}
    BY DEF Named
  <2>2. \A q \in Hands : q \in Hands' \cup discards' \cup loose' \/ Settled(q)
    BY DEF Hands, Settled
  <2>3. new \subseteq Hands' \cup discards' \cup loose'
    BY DEF Hands
  <2>4. /\ convert' \in Conversion /\ create' \in Storing /\ seen' \in [Rows -> Rendition]
        /\ screen' \in Screen /\ url' \in RowOrNone
    BY <1>0 DEF Shapes
  <2>5. QED
    BY <2>1, <2>2, <2>3, <2>4, RestKept
<1>2. screen.id \in RowOrNone /\ Known(screen.id)
  BY <1>0, NamedRows DEF AllKnown, Named
<1>3. Settled(screen.id)'
  BY <1>2, SettledKept DEF Settled, Bare
<1>4. ShownSettled'
  BY <1>0, <1>3 DEF ShownSettled, Settled, Bare
<1>5. DoneIsOfRow'
  <2>1. screen.id # None => row[screen.id].runs <= row'[screen.id].runs
    BY <1>2, CountedKept, NoneIsNoRow
  <2>2. screen.id # None => row[screen.id].runs \in Nat /\ row'[screen.id].runs \in Nat
    BY <1>0, <1>2, NoneIsNoRow DEF Shapes, RowsStep, Row
  <2>3. convert.run \in Nat
    BY <1>0 DEF Shapes, Conversion
  <2>4. QED
    BY <1>0, <2>1, <2>2, <2>3 DEF DoneIsOfRow
<1>6. QuietScreen' /\ UnfinishedIsShown' /\ StoringRow' /\ PendingIsShown'
  BY <1>0 DEF QuietScreen, UnfinishedIsShown, StoringRow, PendingIsShown
<1>7. QED
  BY <1>1, <1>4, <1>5, <1>6 DEF ImportInv

LEMMA ReplaceFileKept == ASSUME ImportInv, ReplaceFile PROVE ImportInv'
<1>1. RowsStep({}) /\ ToldKept
  BY SameRows DEF ImportInv, ReplaceFile, server, ToldKept
<1>2. /\ Settled(screen.id) /\ screen.id \in Rows /\ screen.unfinished = None
      /\ screen.resume = None /\ screen.open /\ convert.at # "pending" /\ replace.at = "idle"
  BY FailureIsSettled DEF ReplaceFile
<1>3. replace' = [at |-> "posting", row |-> screen.id]
  BY DEF ReplaceFile
<1>4. replace' \in Replacing /\ replace'.at = "posting" /\ replace'.row = screen.id /\ screen.id # None
  BY <1>2, <1>3, NoneIsNoRow DEF Replacing
<1>5. replace.row = None /\ screen.id \in Named
  BY <1>2 DEF ImportInv, StoringRow, Named
<1>6. QED
  BY <1>1, <1>2, <1>4, <1>5, ReplacingKept DEF ReplaceFile

\* While the mutation is not idle, the screen shows it alone.
LEMMA WhileReplacing ==
  ASSUME ImportInv, replace.at # "idle"
  PROVE  /\ screen.open /\ screen.resume = None /\ screen.unfinished = None /\ Settled(screen.id)
         /\ (convert.at = "pending" => ~convert.resume)
BY DEF ImportInv, QuietScreen, NothingUnderWay, UnfinishedIsShown, PendingIsShown, ShownSettled

LEMMA ReplaceAnsweredKept == ASSUME ImportInv, ReplaceAnswered PROVE ImportInv'
<1>0. Shapes /\ replace.at = "posting" /\ Settled(replace.row)
  BY DEF ImportInv, ReplaceAnswered, ShownSettled
<1>1. UNCHANGED <<discards, url, screen, create, convert, seen, loose>> /\ ToldKept
  BY DEF ReplaceAnswered, ToldKept
<1>2. CASE Replaceable(replace.row)
  <2>1. PICK r \in Rows :
          NewRow(r) /\ row' = Superseded(replace.row, r) /\ replace' = [at |-> "putting", row |-> r]
    BY <1>2 DEF ReplaceAnswered
  <2>2. RowsStep({r})
    BY <1>0, <1>2, <2>1, SupersededRow DEF Replaceable, Live
  <2>3. replace' \in Replacing /\ replace'.at = "putting" /\ replace'.row = r /\ r # None
    BY <2>1, NoneIsNoRow DEF Replacing
  <2>4. QED
    BY <1>0, <1>1, <2>2, <2>3, WhileReplacing, ReplacingKept
<1>3. CASE ~Replaceable(replace.row)
  <2>1. row' = row /\ replace' = IdleReplacing
    BY <1>3 DEF ReplaceAnswered
  <2>2. RowsStep({})
    BY <1>0, <2>1, SameRows
  <2>3. replace' \in Replacing /\ replace'.at = "idle" /\ replace'.row = None
    BY <2>1, Idles
  <2>4. QED
    BY <1>0, <1>1, <2>2, <2>3, WhileReplacing, ReplacingKept
<1>4. QED
  BY <1>2, <1>3

LEMMA ReplaceFailsKept == ASSUME ImportInv, ReplaceFails PROVE ImportInv'
<1>0. Shapes /\ replace.at # "idle" /\ (replace.at = "posting" => Settled(replace.row)) /\ replace.row \in RowOrNone
  BY DEF ImportInv, ReplaceFails, ShownSettled, Shapes, Replacing
<1>1. UNCHANGED <<discards, url, screen, create, convert, seen>> /\ loose \subseteq loose' /\ ToldKept
  BY DEF ReplaceFails, ToldKept
<1>2. replace' \in Replacing /\ replace'.at = "idle" /\ replace'.row = None
  BY Idles DEF ReplaceFails
<1>3. ASSUME NEW new, RowsStep(new), new \subseteq loose', replace.row \in loose' \/ Settled(replace.row) PROVE ImportInv'
  BY <1>0, <1>1, <1>2, <1>3, WhileReplacing, ReplacingKept
<1>4. CASE replace.at = "posting" /\ row' = row
  BY <1>0, <1>3, <1>4, SameRows
<1>5. ASSUME replace.at = "posting", NEW r \in Rows, Replaceable(replace.row), NewRow(r),
             row' = Superseded(replace.row, r), loose' = loose \cup {r}
      PROVE  ImportInv'
  <2>1. RowsStep({r})
    BY <1>0, <1>5, SupersededRow DEF Replaceable, Live
  <2>2. QED
    BY <1>0, <1>3, <1>5, <2>1
<1>6. CASE row' \in {row, FileStored(replace.row)} /\ loose' = loose \cup {replace.row}
  <2>1. RowsStep({})
    BY <1>0, <1>6, SameRows, StoredRow
  <2>2. QED
    BY <1>3, <1>6, <2>1
<1>7. QED
  BY <1>4, <1>5, <1>6 DEF ReplaceFails

-----------------------------------------------------------------------------
(* The Import screen: it is left, opened, reloaded, resumed *)

\* A blank screen has nothing under way; whatever was in hand is settled, or looked up.
LEMMA BlankKept ==
  ASSUME ImportInv, NEW opened \in Screen, Fresh(opened), row' = row,
         opened.id = None, opened.unfinished = None, ~opened.following, ~opened.stalled,
         ~opened.open => opened.resume = None,
         opened.resume \in {None, url}, url' \in {None, url},
         seen' = seen \/ seen' = [r \in Rows |-> Unseen],
         discards \subseteq discards', loose \subseteq loose',
         Hands \subseteq {opened.resume, None} \cup discards' \cup loose'
  PROVE  ImportInv'
<1>0. Shapes
  BY DEF ImportInv
<1>1. /\ screen' = opened /\ create' \in Storing /\ create'.at = "idle" /\ create'.row = None
      /\ convert' \in Conversion /\ convert'.at = "idle"
      /\ replace' \in Replacing /\ replace'.at = "idle" /\ replace'.row = None
  BY Idles DEF Fresh
<1>2. RowsStep({}) /\ ToldKept
  BY <1>0, SameRows DEF ToldKept
<1>3. Shapes' /\ AllKnown' /\ ReadHasFile' /\ InHands' /\ OutcomeIsLast'
  <2>1. Named' \subseteq Named \cup {None}
    BY <1>1 DEF Named
  <2>2. \A q \in Hands : q \in Hands' \cup discards' \cup loose' \/ Settled(q)
    BY <1>1 DEF Hands, Settled
  <2>3. seen' \in [Rows -> Rendition] /\ \A q \in Rows : seen'[q] = seen[q] \/ seen'[q].status \in {"nothing", "PENDING"}
    BY <1>0, Idles DEF Shapes
  <2>4. url' \in RowOrNone
    BY <1>0, NoneIsNoRow DEF Shapes
  <2>5. QED
    BY <1>1, <1>2, <2>1, <2>2, <2>3, <2>4, RestKept
<1>4. QuietScreen' /\ UnfinishedIsShown' /\ StoringRow' /\ PendingIsShown' /\ DoneIsOfRow' /\ ShownSettled'
  BY <1>1
  DEF QuietScreen, NothingUnderWay, UnfinishedIsShown, StoringRow, PendingIsShown, DoneIsOfRow, ShownSettled, Settled
<1>5. QED
  BY <1>3, <1>4 DEF ImportInv

LEMMA CloseKept == ASSUME ImportInv, Close \/ LeaveByLink PROVE ImportInv'
<1> DEFINE opened == [BlankScreen EXCEPT !.open = FALSE]
<1>1. /\ opened \in Screen /\ opened.id = None /\ opened.unfinished = None /\ opened.resume = None
      /\ ~opened.following /\ ~opened.stalled
  BY NoneIsNoRow DEF BlankScreen, Screen
<1> HIDE DEF opened
<1>2. Fresh(opened) /\ row' = row /\ url' = url /\ seen' = seen
  BY DEF Close, LeaveByLink, Unmount, opened
<1>3. discards \subseteq discards' /\ loose \subseteq loose' /\ InHand \subseteq discards' \cup loose'
  BY DEF Close, LeaveByLink
<1>4. Hands \subseteq InHand \cup {None}
  BY DEF Hands, InHand
<1>5. QED
  BY <1>1, <1>2, <1>3, <1>4, BlankKept

LEMMA OpenKept == ASSUME ImportInv, Open PROVE ImportInv'
<1>0. Shapes /\ QuietScreen /\ StoringRow /\ ~screen.open
  BY DEF ImportInv, Open
<1> DEFINE opened == [BlankScreen EXCEPT !.resume = url']
<1>1. url' \in RowOrNone /\ url' \in {None, url}
  BY <1>0, NoneIsNoRow DEF Open, Shapes
<1>2. /\ opened \in Screen /\ opened.id = None /\ opened.unfinished = None /\ opened.resume = url'
      /\ ~opened.following /\ ~opened.stalled /\ opened.open
  BY <1>1, NoneIsNoRow DEF BlankScreen, Screen
<1> HIDE DEF opened
<1>3. Fresh(opened) /\ UNCHANGED <<row, seen, discards, loose>>
  BY DEF Open, opened, server
<1>4. Hands \subseteq {None}
  BY <1>0 DEF Hands, QuietScreen, NothingUnderWay, StoringRow
<1>5. QED
  BY <1>1, <1>2, <1>3, <1>4, BlankKept

LEMMA ReloadKept == ASSUME ImportInv, Reload PROVE ImportInv'
<1>0. Shapes
  BY DEF ImportInv
<1> DEFINE opened == [BlankScreen EXCEPT !.resume = url, !.cached = FALSE]
<1>1. /\ opened \in Screen /\ opened.id = None /\ opened.unfinished = None /\ opened.resume = url
      /\ ~opened.following /\ ~opened.stalled /\ opened.open
  BY <1>0, NoneIsNoRow DEF BlankScreen, Screen, Shapes
<1> HIDE DEF opened
<1>2. Fresh(opened) /\ UNCHANGED <<row, discards, url>> /\ seen' = [r \in Rows |-> Unseen]
  BY DEF Reload, opened, server
<1>3. loose \cup (InHand \ {url}) \subseteq loose'
  BY DEF Reload
<1>4. Hands \subseteq InHand \cup {None}
  BY DEF Hands, InHand
<1>5. QED
  BY <1>1, <1>2, <1>3, <1>4, BlankKept

\* The row of the URL is found and followed, or converted; or it is known to nobody.
LEMMA ResumedKept == ASSUME ImportInv, Resume \/ ListFails PROVE ImportInv'
<1>0. Shapes /\ AllKnown /\ QuietScreen /\ StoringRow
  BY DEF ImportInv
<1> DEFINE k == screen.resume
<1>1. k \in Rows /\ Known(k) /\ screen.open /\ screen \in Screen
  BY <1>0, NoneIsNoRow, NamedRows DEF Resume, ListFails, AllKnown, Named, Shapes
<1>2. /\ create.at = "idle" /\ convert.at = "idle" /\ replace.at = "idle" /\ screen.id = None
      /\ screen.unfinished = None /\ ~screen.following /\ ~screen.stalled /\ create.row = None
      /\ replace.row = None
  BY <1>0, <1>1, NoneIsNoRow DEF QuietScreen, NothingUnderWay, StoringRow
<1>3. UNCHANGED <<row, discards, create, replace, seen>>
  BY DEF Resume, ListFails, server
<1>4. PICK usable \in BOOLEAN, pending \in BOOLEAN : Resumed(usable, pending)
  BY DEF Resume, ListFails, Replaceable, Live
<1>5. RowsStep({})
  BY <1>0, <1>3, SameRows
<1>6. Hands = {k, None}
  BY <1>2 DEF Hands
<1>7. Settled(None)
  BY DEF Settled
<1>8. CASE ~usable
  <2>1. screen' = [screen EXCEPT !.resume = None] /\ url' = None /\ loose' = loose \cup {k} /\ convert' = convert
    BY <1>4, <1>8 DEF Resumed
  <2>2. /\ screen' \in Screen /\ screen'.id = None /\ screen'.resume = None /\ screen'.unfinished = None
        /\ ~screen'.following /\ ~screen'.stalled /\ screen'.open
    BY <1>1, <1>2, <2>1, NoneIsNoRow DEF Screen
  <2>3. Named' \subseteq {None} /\ ToldKept
    BY <1>2, <1>3, <2>1, <2>2 DEF Named, ToldKept
  <2>4. Shapes' /\ AllKnown' /\ ReadHasFile' /\ InHands' /\ OutcomeIsLast'
    BY <1>0, <1>3, <1>5, <1>6, <1>7, <2>1, <2>2, <2>3, NoneIsNoRow, RestKept DEF Shapes
  <2>5. QuietScreen' /\ UnfinishedIsShown' /\ StoringRow' /\ PendingIsShown' /\ DoneIsOfRow' /\ ShownSettled'
    BY <1>2, <1>3, <2>1, <2>2
    DEF QuietScreen, NothingUnderWay, UnfinishedIsShown, StoringRow, PendingIsShown, DoneIsOfRow, ShownSettled, Settled
  <2>6. QED
    BY <2>4, <2>5 DEF ImportInv
<1>9. CASE usable
  <2>1. screen' = [screen EXCEPT !.resume = None, !.id = k, !.following = ~pending]
    BY <1>4, <1>9 DEF Resumed
  <2>2. convert' = IF pending THEN [at |-> "pending", row |-> k, resume |-> TRUE, run |-> 0] ELSE convert
    BY <1>4, <1>9 DEF Resumed
  <2>3. url' = url /\ loose' = loose
    BY <1>4, <1>9 DEF Resumed
  <2> HIDE DEF k
  <2>4. /\ screen' \in Screen /\ screen'.id = k /\ screen'.resume = None /\ screen'.unfinished = None
        /\ screen'.following = ~pending /\ ~screen'.stalled /\ screen'.open
    BY <1>1, <1>2, <2>1, NoneIsNoRow DEF Screen
  <2>5. /\ convert' \in Conversion /\ convert'.at \in {"idle", "pending"}
        /\ convert'.at = "pending" => pending /\ convert'.row = k /\ convert'.resume = TRUE
    BY <1>0, <1>1, <1>2, <2>2, NoneIsNoRow DEF Shapes, Conversion
  <2>6. Hands' = {k, None} /\ Named' \subseteq Named \cup {None} /\ ToldKept
    BY <1>2, <1>3, <2>3, <2>4 DEF Hands, Named, ToldKept, k
  <2>7. Shapes' /\ AllKnown' /\ ReadHasFile' /\ InHands' /\ OutcomeIsLast'
    BY <1>0, <1>3, <1>5, <1>6, <2>3, <2>4, <2>5, <2>6, RestKept DEF Shapes
  <2>8. QuietScreen' /\ UnfinishedIsShown' /\ StoringRow' /\ PendingIsShown' /\ DoneIsOfRow' /\ ShownSettled'
    BY <1>1, <1>2, <1>3, <2>4, <2>5, NoneIsNoRow
    DEF QuietScreen, UnfinishedIsShown, StoringRow, PendingIsShown, DoneIsOfRow, ShownSettled
  <2>9. QED
    BY <2>7, <2>8 DEF ImportInv
<1>10. QED
  BY <1>8, <1>9

-----------------------------------------------------------------------------
(* The Import screen: the theorems *)

LEMMA ImportInit == Init => ImportInv
<1> SUFFICES ASSUME Init PROVE ImportInv
  OBVIOUS
<1>1. /\ BlankScreen \in Screen /\ BlankScreen.open /\ BlankScreen.resume = None /\ BlankScreen.id = None
      /\ BlankScreen.unfinished = None
  BY NoneIsNoRow DEF BlankScreen, Screen
<1>2. FreeRow.state = "free"
  BY DEF FreeRow
<1>3. Shapes
  BY <1>1, NoneIsNoRow, BlankRow, Idles DEF Init, Shapes
<1>4. \A r \in Rows : row[r].state = "free" /\ row[r].status \notin Terminal /\ seen[r].status = "nothing"
  BY <1>2, Idles DEF Init, FreeRow, Terminal
<1>5. \A r \in Named : r = None
  BY <1>1, Idles DEF Init, Named
<1>6. QED
  BY <1>1, <1>3, <1>4, <1>5, Idles
  DEF Init, ImportInv, AllKnown, Known, QuietScreen, UnfinishedIsShown, StoringRow, PendingIsShown,
      DoneIsOfRow, ShownSettled, Settled, ReadHasFile, InHands, Bare, OutcomeIsLast

LEMMA ImportNext == ImportInv /\ FileInv /\ [Next]_vars => ImportInv'
<1> SUFFICES ASSUME ImportInv, FileInv, [Next]_vars PROVE ImportInv'
  OBVIOUS
<1>1. CASE Answer
  BY <1>1, PostAnsweredKept, PutAnsweredKept, ConvertAnsweredKept, ReplaceAnsweredKept, ReplaceStoredKept DEF Answer
<1>2. CASE Candidate
  BY <1>2, SubmitKept, RetryStoreKept, RetryConversionKept, ReplaceFileKept, FollowKept, CloseKept, OpenKept, ReloadKept
  DEF Candidate
<1>3. CASE Failure
  BY <1>3, PostFailsKept, PutFailsKept, ConvertAnsweredKept, ReplaceFailsKept, ResumedKept DEF Failure
<1>4. CASE UrlExpires \/ Resume \/ Poll \/ WaitCapReached \/ UNCHANGED vars
  BY <1>4, PutFailsKept, ResumedKept, FollowKept, NothingKept
<1>5. ASSUME NEW r \in Rows, DiscardArrives(r) \/ DiscardLost(r) \/ WorkerStarts(r) \/ WorkerEnds(r) PROVE ImportInv'
  BY <1>5, DiscardKept, DiscardLostKept, WorkerKept
<1>6. ASSUME NEW t \in behind, BehindStep(t) \/ BehindFails(t) PROVE ImportInv'
  BY <1>6, BehindPostedKept, BehindKept DEF BehindStep
<1>7. QED
  BY <1>1, <1>2, <1>3, <1>4, <1>5, <1>6 DEF Next

LEMMA ImportAlways == Spec => [](ImportInv /\ FileInv)
<1>1. Init => ImportInv /\ FileInv
  BY ImportInit, InitFile
<1>2. (ImportInv /\ FileInv) /\ [Next]_vars => (ImportInv /\ FileInv)'
  BY ImportNext, NextFile
<1>3. QED
  BY <1>1, <1>2, PTL DEF Spec

\* While the screen is open, a row whose bytes are not in storage is one the screen can still name,
\* or is being discarded, or was lost to a failed request or to a visit left before its upload ended
\* (onCreated, onClose and discardCvVersion).
THEOREM OrphansAreAccounted == Spec => []OrphansAccounted
<1>1. ImportInv => OrphansAccounted
  <2> SUFFICES ASSUME ImportInv, NEW r \in Rows, Live(r), ~row[r].file PROVE r \in InHand \cup discards \cup loose
    BY DEF OrphansAccounted
  <2>1. Bare(r)
    BY DEF Live, Bare
  <2>2. r \in Hands \cup discards \cup loose
    BY <2>1 DEF ImportInv, InHands
  <2>3. r # None
    BY NoneIsNoRow
  <2>4. QED
    BY <2>2, <2>3 DEF Hands, InHand
<1>2. QED
  BY <1>1, ImportAlways, PTL

\* The outcome on screen was written after the attempt the candidate started was accepted:
\* startConversion forgets the rendition read before, nothing is read until the answer, and
\* convert_cv_version takes the row's own outcome away.
THEOREM OutcomeAfterStart == Spec => []OutcomeIsAfterStart
<1>1. ImportInv => OutcomeIsAfterStart
  BY DEF ImportInv, DoneIsOfRow, OutcomeIsAfterStart, SeenStatus, Terminal
<1>2. QED
  BY <1>1, ImportAlways, PTL
=============================================================================
