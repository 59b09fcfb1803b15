---------------------------- MODULE ResetRecord -----------------------------
(***************************************************************************)
(* Why did the device reset?  (fault_handler.cpp)  The answer is put       *)
(* together in setup() from a record in RAM, which may or may not survive  *)
(* the reset, and from the hardware's sticky reset flags.  A CPU fault can *)
(* come at any step, also between the steps of setup().                    *)
(***************************************************************************)
EXTENDS Naturals

CONSTANT MaxResets   \* bound: how many faults and boots are counted

VARIABLES
    record,           \* g_record
    flags,            \* the RSTSR registers
    boot,             \* g_bootReason, g_faultCount, g_bootCount
    stage,            \* how far setup() has come
    causes,           \* history: what reset the device since the last report
    faultsKept        \* history: the faults since the RAM was last lost

resetVars == <<record, flags, boot, stage, causes, faultsKept>>

CpuFaults == {"HARD_FAULT", "MEM_MANAGE", "BUS_FAULT", "USAGE_FAULT"}

Reasons == CpuFaults \cup {"POWER_ON", "WATCHDOG"}

(* The record after the RAM was zeroed or lost.                            *)
NoRecord == [magic |-> FALSE, reason |-> "POWER_ON", faults |-> 0, boots |-> 0]

Nothing == [reason |-> "POWER_ON", faults |-> 0, boots |-> 0]

-----------------------------------------------------------------------------
(* A reset: the RAM keeps the record or loses it, the hardware raises its  *)
(* flag, and the program starts over.                                      *)
Reset(rec, raised, cause, kept) ==
    /\ record' = IF kept THEN rec ELSE NoRecord
    /\ flags' = raised
    /\ boot' = Nothing
    /\ stage' = "down"
    /\ causes' = causes \cup {cause}

(* recordAndReset().  Before the traps are enabled every fault arrives as  *)
(* a hard fault.                                                           *)
Fault(kind, kept) ==
    LET counted == IF record.magic THEN record ELSE [NoRecord EXCEPT !.magic = TRUE]
    IN  /\ kind = "HARD_FAULT" \/ stage = "up"
        /\ counted.faults < MaxResets
        /\ Reset([counted EXCEPT !.reason = kind, !.faults = @ + 1],
                 flags \cup {"SOFTWARE"}, kind, kept)
        /\ faultsKept' = IF kept THEN faultsKept + 1 ELSE 0

(* The watchdog is armed at the end of setup().                            *)
WatchdogExpires(kept) ==
    /\ stage = "up"
    /\ Reset(record, flags \cup {"WATCHDOG"}, "WATCHDOG", kept)
    /\ faultsKept' = IF kept THEN faultsKept ELSE 0

(* A short loss of power may leave the RAM as it was.                      *)
PowerCut(kept) ==
    /\ Reset(record, {"POWER_ON"}, "POWER_ON", kept)
    /\ faultsKept' = IF kept THEN faultsKept ELSE 0

(* readHardwareResetReason().                                              *)
HardwareReason ==
    IF "WATCHDOG" \in flags THEN "WATCHDOG"
    ELSE IF "SOFTWARE" \in flags THEN "HARD_FAULT"
    ELSE "POWER_ON"

(* Mutant: the reason stays in the record.                                 *)
ConsumeResetReasonKeeping ==
    LET rec == IF record.magic THEN record ELSE [NoRecord EXCEPT !.magic = TRUE]
    IN  /\ stage = "down" /\ stage' = "consumed"
        /\ boot' = [reason |-> IF rec.reason = "POWER_ON" THEN HardwareReason ELSE rec.reason,
                    faults |-> rec.faults, boots |-> rec.boots]
        /\ record' = rec
        /\ flags' = {} /\ causes' = {}
        /\ UNCHANGED faultsKept

(* consumeResetReason(): the record names the fault when it survived, the  *)
(* flags speak when it says nothing; both are cleared, the counters kept.  *)
ConsumeResetReason ==
    LET rec == IF record.magic THEN record ELSE [NoRecord EXCEPT !.magic = TRUE]
    IN  /\ stage = "down" /\ stage' = "consumed"
        /\ boot' = [reason |-> IF rec.reason = "POWER_ON" THEN HardwareReason ELSE rec.reason,
                    faults |-> rec.faults, boots |-> rec.boots]
        /\ record' = [rec EXCEPT !.reason = "POWER_ON"]
        /\ flags' = {} /\ causes' = {}
        /\ UNCHANGED faultsKept

(* noteBoot() and enableDivideByZeroTrap().                                *)
NoteBoot ==
    /\ stage = "consumed" /\ stage' = "up"
    /\ record.boots < MaxResets
    /\ record' = [record EXCEPT !.boots = @ + 1]
    /\ boot' = [boot EXCEPT !.boots = record.boots + 1]
    /\ UNCHANGED <<flags, causes, faultsKept>>

(* The first power-on.                                                     *)
ResetInit ==
    /\ record = NoRecord /\ flags = {"POWER_ON"} /\ boot = Nothing
    /\ stage = "down" /\ causes = {"POWER_ON"} /\ faultsKept = 0

ResetNext ==
    \/ \E kept \in BOOLEAN :
         \/ \E kind \in CpuFaults : Fault(kind, kept)
         \/ WatchdogExpires(kept)
         \/ PowerCut(kept)
    \/ ConsumeResetReason
    \/ NoteBoot

ResetSpec == ResetInit /\ [][ResetNext]_resetVars

-----------------------------------------------------------------------------
(* Properties.                                                             *)

(* The reason setup() reports is a reset that happened since the last      *)
(* report, never one of an earlier boot, whatever became of the RAM; a     *)
(* fault whose kind was lost is reported as a hard fault.  The faults it   *)
(* counts are those since the RAM was lost.                                *)
ReportIsTrue ==
    [][stage = "down" /\ stage' = "consumed" =>
         /\ boot'.faults = faultsKept
         /\ \/ boot'.reason \in causes
            \/ boot'.reason = "HARD_FAULT" /\ causes \cap CpuFaults # {}]_resetVars

=============================================================================
