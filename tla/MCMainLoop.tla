----------------------------- MODULE MCMainLoop -----------------------------
(* Small instances of MainLoop for TLC.  One unit of time is about two and  *)
(* a half seconds; a pulse, a gap and every timed state last one unit, the  *)
(* ceiling of the starter is two.                                           *)
EXTENDS MainLoop

MCTimings == [chokePrep |-> 1, crank |-> 1, unchokeDelay |-> 1]

MCRequested == {MCTimings}

MCOperations == Commands

=============================================================================
