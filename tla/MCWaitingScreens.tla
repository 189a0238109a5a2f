-------------------------- MODULE MCWaitingScreens --------------------------
(* One instance of two parts that share no state and in which something is     *)
(* waited for: the Import screen, and the Scouts page.  A behaviour is of one  *)
(* of them, chosen at the start.                                               *)
EXTENDS CvImport, TLC

CONSTANTS s1, s2, Scouts, Openings, ActiveCap, MaxScoutRuns, MaxHours, MaxClicks, MaxScoutFaults

VARIABLES
  part, \* the part this behaviour is of
  \* the Scouts page's
  status, runs, hour, list, stale, known, due, shown, sScreen, run, update, requeue, repairFailure,
  undone, sBehind, clicks, sFaults

MCScouts == {s1, s2}
MCOpenings == {[status |-> s1 :> "ACTIVE" @@ s2 :> "PAUSED", blocked |-> s1, open |-> s1]}

ScoutsPage == INSTANCE ScoutPage
  WITH MaxRuns <- MaxScoutRuns, MaxFaults <- MaxScoutFaults, screen <- sScreen, faults <- sFaults,
       behind <- sBehind

ASSUME PartsAssumption == BoundsAssumption /\ ScoutsPage!PageAssumption

scouts == <<status, runs, hour, list, stale, known, due, shown, sScreen, run, update, requeue,
            repairFailure, undone, sBehind, clicks, sFaults>>
parts == <<part, vars, scouts>>

InitParts ==
  /\ part \in {"scouts", "import"}
  /\ Init /\ ScoutsPage!Init

OfScouts == part = "scouts" /\ UNCHANGED <<part, vars>>
OfImport == part = "import" /\ UNCHANGED <<part, scouts>>

NextParts ==
  \/ OfScouts /\ ScoutsPage!Next
  \/ OfImport /\ Next

\* The conditions of ScoutPage's and CvImport's FairSpec: only one part can take a step.
SpecParts ==
  /\ InitParts /\ [][NextParts]_parts
  /\ WF_parts((OfScouts /\ ScoutsPage!ListFetched) \/ (OfImport /\ Due))

\* A partial repair's alert counts what the Scout under which it stands was not repaired of.
RepairFailureIsOwn == ScoutsPage!RepairFailureIsOwn

\* "Run now" is answered "too soon" only where the history missed a run at the click.
RefusedOnlyWhenStale == ScoutsPage!RefusedOnlyWhenStale

\* The Scouts page does not show work for ever.
WorkShownEnds == ScoutsPage!WorkShownEnds
=============================================================================
