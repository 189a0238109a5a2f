---------------------------- MODULE MCScoutPage ----------------------------
(* The Scouts page on two Scouts. *)
EXTENDS ScoutPage, TLC

CONSTANTS s1, s2

MCScouts == {s1, s2}
MCOpenings ==
  {[status |-> s1 :> "ACTIVE" @@ s2 :> "PAUSED", blocked |-> s1, open |-> Nothing],
   [status |-> s1 :> "ACTIVE" @@ s2 :> "ABSENT", blocked |-> s1, open |-> Nothing]}
=============================================================================
