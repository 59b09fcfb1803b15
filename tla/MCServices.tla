----------------------------- MODULE MCServices -----------------------------
(* The services that loop() runs after the pump and its interfaces: the    *)
(* network manager, the battery and the tank monitor, and the record of    *)
(* setup() about the last reset.  They share no state with one another, so *)
(* every interleaving of them is a product of the behaviours of each; the  *)
(* instance therefore watches one of them at a time, chosen at the start,  *)
(* and leaves what the pump and the radio show them to the environment.    *)
EXTENDS NetManager, BatteryMonitor, TankLevel, ResetRecord

VARIABLE watched

MCVars == <<netVars, batteryVars, tankVars, resetVars, watched>>

MCInit ==
    /\ NetInit /\ BatteryInit /\ TankInit /\ ResetInit
    /\ watched \in {"net", "battery", "tank", "reset"}

MCNetStep(A) ==
    /\ watched = "net" /\ A
    /\ UNCHANGED <<batteryVars, tankVars, resetVars, watched>>

MCNext ==
    \/ MCNetStep(NetNext)
    \/ /\ watched = "battery" /\ BatteryNext
       /\ UNCHANGED <<netVars, tankVars, resetVars, watched>>
    \/ /\ watched = "tank" /\ TankNext
       /\ UNCHANGED <<netVars, batteryVars, resetVars, watched>>
    \/ /\ watched = "reset" /\ ResetNext
       /\ UNCHANGED <<netVars, batteryVars, tankVars, watched>>

(* The loop passes, its clock moves, and passes in which the controller is *)
(* quiescent do not die out.                                               *)
MCSpec == MCInit /\ [][MCNext]_MCVars /\ WF_MCVars(MCNetStep(QuietPass))

(* With good radio the device reaches its network for good.                *)
NetIsReached == watched = "net" => ReachesNetwork

=============================================================================
