-------------------------- MODULE MCPumpController --------------------------
(* Small instances of PumpController for TLC.  One unit of time is one     *)
(* second and the durations are those of config.h, the ones below a second *)
(* rounded up.                                                             *)
EXTENDS PumpController

MCDefaultTimings == [chokePrep |-> 1, crank |-> 2, unchokeDelay |-> 1]

(* The defaults, and the longest choke and unchoke that may be requested.  *)
MCRequestedTimings ==
    {MCDefaultTimings, [chokePrep |-> 15, crank |-> 4, unchokeDelay |-> 5]}

(* A coarser scale, one unit for about two and a half seconds, for the runs *)
(* with maintenance and overrides, whose commands multiply the states.  One *)
(* second of choke before the crank is less than half a unit.              *)
MCCoarseTimings == [chokePrep |-> 0, crank |-> 1, unchokeDelay |-> 1]

MCCoarseRequests == {MCCoarseTimings}

MCAllOperations == Commands

=============================================================================
