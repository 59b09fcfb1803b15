--------------------------- MODULE PumpController ---------------------------
(***************************************************************************)
(* The relay state machine of the fire-pump firmware: class PumpController *)
(* (pump_controller.h, pump_controller.cpp) with the durations and build   *)
(* switches of config.h.                                                   *)
(*                                                                         *)
(* The C++ methods change the object's members one after another, and a    *)
(* refused relay call may enter FAULT in the middle of a handler.  The     *)
(* methods are therefore operators from one controller value to the next,  *)
(* composed in the order of the calls, and an action applies the whole     *)
(* composition of one handler to the variable `pump'.                      *)
(*                                                                         *)
(* Time: the code keeps `millis()' timestamps and compares differences     *)
(* with constants.  The model keeps the differences, as stopwatches, and   *)
(* lets a stopwatch stop at the longest duration it is compared with.      *)
(* Counter wrap-around is not modelled here.                               *)
(***************************************************************************)
EXTENDS Naturals, Sequences

CONSTANTS
    ValvePrime,        \* VALVE_PRIME_MS
    ValveCloseDelay,   \* VALVE_CLOSE_DELAY_MS
    KillHold,          \* KILL_HOLD_MS
    MaxCrank,          \* MAX_CRANK_MS, ceiling on one starter engagement
    MaxChoke,          \* MAX_CHOKE_MS, ceiling on the choke
    MaxChokePrep,      \* MAX_CHOKE_PREP_OVERRIDE_MS
    MaxUnchokeDelay,   \* MAX_UNCHOKE_DELAY_OVERRIDE_MS
    RecrankGap,        \* MIN_RECRANK_GAP_MS
    WaterDebounce,     \* WATER_DEBOUNCE_MS
    WaterGrace,        \* WATER_STARTUP_GRACE_MS
    DefaultTimings,    \* StartTimings() : the config.h defaults

    IntakeValveEnabled,      \* ENABLE_INTAKE_VALVE
    WaterInterlockRequired,  \* REQUIRE_WATER_INTERLOCK

    Operations,        \* the commands this build's interfaces can deliver
    Overrides,         \* values of the danger-override flag that callers send
    RequestedTimings,  \* the timings callers send with a START
    RequestIds,        \* the request ids callers send
    NoRequestId,       \* the empty request id
    IdempotencySlots,  \* IDEMPOTENCY_SLOTS
    Steps,             \* by how much the clock may move between two passes
    StateHorizon       \* bound: where the stopwatch of the state stops

Timings == [chokePrep : Nat, crank : Nat, unchokeDelay : Nat]

Maintenance ==
    {"MAINT_CHOKE_ON", "MAINT_CHOKE_OFF", "MAINT_STARTER_ON", "MAINT_STARTER_OFF",
     "MAINT_KILL_ON", "MAINT_KILL_OFF", "MAINT_VALVE_ON", "MAINT_VALVE_OFF"}

Commands == {"START", "STOP", "START_FAILED", "RESET_IDLE"} \cup Maintenance

Sequence == {"PRIMING", "CHOKING", "CRANKING", "UNCHOKING", "RUNNING_ASSUMED"}

(* The states advance() leaves when they have lasted long enough.          *)
Timed == {"PRIMING", "CHOKING", "CRANKING", "UNCHOKING", "STOPPING", "VALVE_CLOSING"}

States == Sequence \cup {"UNKNOWN", "IDLE", "STOPPING", "VALVE_CLOSING", "RETRY_WAIT", "FAULT"}

Faults == {"NONE", "STARTER_KILL_CONFLICT", "STARTER_OVERRUN", "CHOKE_OVERRUN",
           "VALVE_CLOSED_WHILE_RUNNING", "WATER_LOST"}

(* The static_asserts of config.h, and the shape of the callers' inputs.   *)
ASSUME DurationAssumption ==
    /\ {ValvePrime, ValveCloseDelay, KillHold, MaxCrank, MaxChoke, MaxChokePrep,
        MaxUnchokeDelay, RecrankGap, WaterDebounce, WaterGrace} \subseteq Nat
    /\ ValvePrime > 0 /\ ValveCloseDelay > 0 /\ RecrankGap > 0 /\ MaxCrank > 0
    /\ MaxChokePrep + MaxCrank + MaxUnchokeDelay < MaxChoke
    /\ DefaultTimings \in Timings
    /\ DefaultTimings.crank <= MaxCrank
    /\ DefaultTimings.chokePrep <= MaxChokePrep
    /\ DefaultTimings.unchokeDelay <= MaxUnchokeDelay
    /\ StateHorizon \in Nat
    /\ StateHorizon >= ValvePrime /\ StateHorizon >= ValveCloseDelay
    /\ StateHorizon >= KillHold /\ StateHorizon >= MaxCrank
    /\ StateHorizon >= MaxChokePrep /\ StateHorizon >= MaxUnchokeDelay

ASSUME InputAssumption ==
    /\ IntakeValveEnabled \in BOOLEAN
    /\ WaterInterlockRequired \in BOOLEAN
    /\ Operations \subseteq Commands
    /\ Overrides \subseteq BOOLEAN
    /\ RequestedTimings \subseteq Timings
    /\ IdempotencySlots \in Nat \ {0}
    /\ Steps \subseteq Nat

VARIABLES
    pump,     \* the members of PumpController that its control reads
    records   \* records_ : the accepted commands still remembered, oldest first

vars == <<pump, records>>

Pump ==
    [state : States,
     fault : Faults,
     stateElapsed : Nat,        \* since stateEnteredAt_
     overrideActive : BOOLEAN,
     starterActive : BOOLEAN,
     starterOnFor : Nat,        \* since starterOnAt_, while the starter is on
     starterEverReleased : BOOLEAN,
     sinceRelease : Nat,        \* since lastStarterReleaseAt_, once there was one
     chokeActive : BOOLEAN,
     chokeOnFor : Nat,          \* since chokeOnAt_, while the choke is on
     killActive : BOOLEAN,      \* the ignition-kill wire is grounded
     valveActive : BOOLEAN,     \* the intake valve is commanded open
     valveOpenFor : Nat,        \* since valveOpenedAt_, while the valve is open
     waterOk : BOOLEAN,
     waterRawLast : BOOLEAN,
     waterStableFor : Nat,      \* since waterStableSince_
     faultKillActive : BOOLEAN,
     faultKillFor : Nat,        \* since faultKillStartedAt_, while it is active
     timings : Timings]

Least(a, b) == IF a < b THEN a ELSE b

(* The longest duration the last release is compared with.                 *)
ReleaseHorizon == IF RecrankGap > WaterGrace THEN RecrankGap ELSE WaterGrace

-----------------------------------------------------------------------------
(* Predicates on the state.                                                *)

(* Mutant: CRANKING forgotten.                                             *)
EngineMayBeRunningOnceCranked(p) ==
    p.state \in {"UNCHOKING", "RUNNING_ASSUMED", "STOPPING"}

EngineMayBeRunning(p) == p.state \in {"CRANKING", "UNCHOKING", "RUNNING_ASSUMED", "STOPPING"}

EngineWasStarted(p) == p.state \in {"CRANKING", "UNCHOKING", "RUNNING_ASSUMED"}

(* Mutant: the dwell is left to the PRIMING state.                         *)
PrimeCompleteAnyDwell(p) ==
    /\ p.waterOk \/ p.overrideActive
    /\ ~IntakeValveEnabled \/ p.valveActive

PrimeComplete(p) ==
    /\ p.waterOk \/ p.overrideActive
    /\ \/ ~IntakeValveEnabled
       \/ p.valveActive /\ (p.overrideActive \/ p.valveOpenFor >= ValvePrime)

(* Mutant: the grace never runs out.                                       *)
WaterGraceForever(p) == p.starterEverReleased

WaterStartupGraceActive(p) == p.starterEverReleased /\ p.sinceRelease < WaterGrace

(* Mutants: the gap is forgotten; a starter never released cools for ever. *)
NoCooldown(p) == ~p.starterActive

CooldownNeedsRelease(p) ==
    p.starterEverReleased /\ ~p.starterActive /\ p.sinceRelease >= RecrankGap

(* cooldownRemainingMs() is 0.                                             *)
CooldownOver(p) ==
    p.starterEverReleased => ~p.starterActive /\ p.sinceRelease >= RecrankGap

IsQuiescent(p) ==
    /\ ~p.starterActive /\ ~p.chokeActive
    /\ p.state \notin Timed

-----------------------------------------------------------------------------
(* The relay layer.  ShutValve and EngageStarter are the two that refuse.  *)

(* Mutant: the override is cleared on the way to IDLE only.                *)
EnterStateKeepingOverride(p, next) ==
    IF next = p.state
    THEN p
    ELSE [p EXCEPT !.state = next,
                   !.stateElapsed = 0,
                   !.overrideActive = p.overrideActive /\ next # "IDLE"]

EnterState(p, next) ==
    IF next = p.state
    THEN p
    ELSE [p EXCEPT !.state = next,
                   !.stateElapsed = 0,
                   !.overrideActive = p.overrideActive /\ next \in Sequence]

OpenValve(p) ==
    IF p.valveActive THEN p ELSE [p EXCEPT !.valveActive = TRUE, !.valveOpenFor = 0]

ShutValve(p) ==
    IF EngineMayBeRunning(p) THEN p ELSE [p EXCEPT !.valveActive = FALSE]

EngageChoke(p) ==
    IF p.chokeActive THEN p ELSE [p EXCEPT !.chokeActive = TRUE, !.chokeOnFor = 0]

ReleaseChoke(p) == [p EXCEPT !.chokeActive = FALSE]

ReleaseStarter(p) ==
    IF p.starterActive
    THEN [p EXCEPT !.starterActive = FALSE,
                   !.starterEverReleased = TRUE,
                   !.sinceRelease = 0]
    ELSE p

(* Mutant: the starter is left to the caller.                              *)
AssertKillAlone(p) == [p EXCEPT !.killActive = TRUE]

(* Grounding the kill wire releases the starter first.                     *)
AssertKill(p) == [ReleaseStarter(p) EXCEPT !.killActive = TRUE]

ReleaseKill(p) == [p EXCEPT !.killActive = FALSE]

(* The engine might be turning: a fault entered from here holds the kill.  *)
MightBeRunning(p) ==
    p.state \in {"CRANKING", "UNCHOKING", "RUNNING_ASSUMED", "STOPPING", "UNKNOWN"}

(* Sheds starter and choke, grounds the kill wire, leaves the valve alone. *)
EnterFault(p, code) ==
    LET shed == AssertKill(ReleaseChoke(ReleaseStarter([p EXCEPT !.fault = code])))
    IN  EnterState([shed EXCEPT !.faultKillActive = MightBeRunning(p),
                                !.faultKillFor = 0],
                   "FAULT")

EngageStarter(p) ==
    IF p.killActive THEN EnterFault(p, "STARTER_KILL_CONFLICT")
    ELSE IF ~PrimeComplete(p) THEN EnterFault(p, "VALVE_CLOSED_WHILE_RUNNING")
    ELSE IF p.starterActive THEN p
    ELSE [p EXCEPT !.starterActive = TRUE, !.starterOnFor = 0]

ToSafeState(p) == ShutValve(AssertKill(ReleaseChoke(ReleaseStarter(p))))

-----------------------------------------------------------------------------
(* The safety limits, re-evaluated before every step and every command.    *)

(* `raw' is what the water input reads.  A reading is believed once it has *)
(* held for the debounce time.                                             *)
UpdateWaterInterlock(p, raw) ==
    IF ~WaterInterlockRequired THEN [p EXCEPT !.waterOk = TRUE]
    ELSE IF raw # p.waterRawLast THEN [p EXCEPT !.waterRawLast = raw, !.waterStableFor = 0]
    ELSE IF p.waterStableFor >= WaterDebounce THEN [p EXCEPT !.waterOk = raw]
    ELSE p

(* Rules 1, 2 and 2b do not re-enter a fault that is already recorded.     *)
EnterFaultOnce(p, code) == IF p.fault = code THEN p ELSE EnterFault(p, code)

(* Mutant: only an engine that is said to run is watched.                  *)
AssumedRunningDry(p) ==
    p.state = "RUNNING_ASSUMED" /\ ~p.waterOk /\ p.fault # "WATER_LOST"

RunningDry(p) ==
    /\ EngineWasStarted(p)
    /\ ~p.waterOk
    /\ ~WaterStartupGraceActive(p)
    /\ p.fault # "WATER_LOST"

(* Mutant: a starter engaged by hand is not looked at.                     *)
SequenceStarterOverShutIntake(p) ==
    p.starterActive /\ ~p.valveActive /\ EngineWasStarted(p)

StarterOverShutIntake(p) == p.starterActive /\ ~p.valveActive

(* Mutant: one pass later.                                                 *)
StarterOverrunLate(p) == p.starterActive /\ p.starterOnFor > MaxCrank

StarterOverrun(p) == p.starterActive /\ p.starterOnFor >= MaxCrank

(* Mutant: a choke engaged by hand is not looked at.                       *)
SequenceChokeOverrun(p) ==
    p.chokeActive /\ p.chokeOnFor >= MaxChoke /\ p.state \in {"CRANKING", "UNCHOKING"}

(* Mutant: one pass later.                                                 *)
ChokeOverrunLate(p) == p.chokeActive /\ p.chokeOnFor > MaxChoke

ChokeOverrun(p) == p.chokeActive /\ p.chokeOnFor >= MaxChoke

(* At most one rule fires: each returns.                                   *)
EnforceLimits(p) ==
    IF RunningDry(p)
      THEN EnterFault(p, "WATER_LOST")
    ELSE IF p.starterActive /\ p.killActive
      THEN EnterFaultOnce(ReleaseStarter(p), "STARTER_KILL_CONFLICT")
    ELSE IF StarterOverShutIntake(p)
      THEN EnterFaultOnce(ReleaseStarter(p), "VALVE_CLOSED_WHILE_RUNNING")
    ELSE IF EngineWasStarted(p) /\ ~p.valveActive
      THEN EnterFaultOnce(OpenValve(p), "VALVE_CLOSED_WHILE_RUNNING")
    ELSE IF StarterOverrun(p)
      THEN EnterFault(ReleaseStarter(p), "STARTER_OVERRUN")
    ELSE IF ChokeOverrun(p)
      THEN EnterFault(ReleaseChoke(p), "CHOKE_OVERRUN")
    ELSE p

EnforceSafety(p, raw) == EnforceLimits(UpdateWaterInterlock(p, raw))

-----------------------------------------------------------------------------
(* The state machine: at most one transition per pass.                     *)

(* How long the present state is held before advance() leaves it.          *)
Dwell(p) ==
    CASE p.state = "PRIMING" -> ValvePrime
      [] p.state = "CHOKING" -> p.timings.chokePrep
      [] p.state = "CRANKING" -> p.timings.crank
      [] p.state = "UNCHOKING" -> p.timings.unchokeDelay
      [] p.state = "STOPPING" -> KillHold
      [] p.state = "VALVE_CLOSING" -> ValveCloseDelay
      [] OTHER -> 0

DwellOver(p) == p.stateElapsed >= Dwell(p)

BeginCrank(p) ==
    LET q == EngageStarter(ReleaseKill(p))
    IN  IF q.starterActive THEN EnterState(q, "CRANKING") ELSE q

Advance(p) ==
    CASE p.state = "PRIMING" /\ (p.overrideActive \/ DwellOver(p)) ->
           EnterState(EngageChoke(p), "CHOKING")
      [] p.state = "CHOKING" /\ DwellOver(p) -> BeginCrank(p)
      [] p.state = "CRANKING" /\ DwellOver(p) -> EnterState(ReleaseStarter(p), "UNCHOKING")
      [] p.state = "UNCHOKING" /\ DwellOver(p) -> EnterState(ReleaseChoke(p), "RUNNING_ASSUMED")
      [] p.state = "STOPPING" /\ DwellOver(p) -> EnterState(p, "VALVE_CLOSING")
      [] p.state = "VALVE_CLOSING" /\ DwellOver(p) -> EnterState(ShutValve(p), "IDLE")
      [] p.state = "RETRY_WAIT" /\ CooldownOver(p) -> EnterState(p, "IDLE")
      [] p.state = "FAULT" /\ p.faultKillActive /\ p.faultKillFor >= KillHold ->
           [ReleaseKill(p) EXCEPT !.faultKillActive = FALSE]
      [] OTHER -> p

-----------------------------------------------------------------------------
(* Commands.  An outcome is the controller after the command and whether   *)
(* the command was accepted (202) or refused (409).                        *)

Accepted(p) == [pump |-> p, accepted |-> TRUE]

Refused(p) == [pump |-> p, accepted |-> FALSE]

(* Mutant: the fault stays recorded.                                       *)
BeginStopSequenceFaultKept(p) ==
    [EnterState([AssertKill(ReleaseChoke(ReleaseStarter(p))) EXCEPT !.faultKillActive = FALSE],
                "STOPPING") EXCEPT !.stateElapsed = 0]

(* A STOP restarts the hold even when the state was STOPPING already.      *)
BeginStopSequence(p) ==
    LET shed == AssertKill(ReleaseChoke(ReleaseStarter(p)))
        quiet == [shed EXCEPT !.faultKillActive = FALSE, !.fault = "NONE"]
    IN  [EnterState(quiet, "STOPPING") EXCEPT !.stateElapsed = 0]

StartPermitted(p, override) ==
    \/ override
    \/ /\ p.state = "IDLE" /\ CooldownOver(p)
       /\ p.waterOk
       /\ ~p.starterActive /\ ~p.chokeActive /\ p.killActive
       /\ ~(IntakeValveEnabled /\ p.valveActive)

Clamp(t) == [chokePrep |-> Least(t.chokePrep, MaxChokePrep),
             crank |-> Least(t.crank, MaxCrank),
             unchokeDelay |-> Least(t.unchokeDelay, MaxUnchokeDelay)]

(* Mutant: the kill wire is opened at once.                                *)
BeginStartSequenceKillOpen(p, override, timings) ==
    EnterState(OpenValve(ReleaseKill([p EXCEPT !.overrideActive = override,
                                               !.timings = Clamp(timings)])), "PRIMING")

(* The override is latched for the sequence; the fault is left as it was.  *)
BeginStartSequence(p, override, timings) ==
    LET q == ReleaseStarter([p EXCEPT !.overrideActive = override,
                                      !.timings = Clamp(timings)])
    IN  IF IntakeValveEnabled
        THEN EnterState(OpenValve(q), "PRIMING")
        ELSE EnterState(EngageChoke(q), "CHOKING")

StartOutcome(p, override, timings) ==
    IF StartPermitted(p, override)
    THEN Accepted(BeginStartSequence(p, override, timings))
    ELSE Refused(p)

StartFailedAllowed == {"RUNNING_ASSUMED", "RETRY_WAIT", "IDLE", "UNKNOWN"}

(* Mutants: the kill is not asserted; the intake is shut before the state  *)
(* changes, and the relay layer refuses.                                   *)
StartFailedIgnitionLive(p) ==
    IF p.state \in StartFailedAllowed
    THEN Accepted(ShutValve(EnterState(ReleaseChoke(ReleaseStarter(p)), "RETRY_WAIT")))
    ELSE Refused(p)

StartFailedShutFirst(p) ==
    IF p.state \in StartFailedAllowed
    THEN Accepted(EnterState(ShutValve(AssertKill(ReleaseChoke(ReleaseStarter(p)))),
                             "RETRY_WAIT"))
    ELSE Refused(p)

(* The state changes first, so that ShutValve is no longer refused.        *)
StartFailedOutcome(p) ==
    IF p.state \in StartFailedAllowed
    THEN Accepted(ShutValve(EnterState(AssertKill(ReleaseChoke(ReleaseStarter(p))),
                                       "RETRY_WAIT")))
    ELSE Refused(p)

ResetIdleOutcome(p) ==
    LET cleared == [p EXCEPT !.fault = "NONE", !.faultKillActive = FALSE]
        rest == IF CooldownOver(p) THEN "IDLE" ELSE "RETRY_WAIT"
    IN  IF p.state \in {"UNKNOWN", "IDLE", "RETRY_WAIT", "FAULT"}
        THEN Accepted(ToSafeState(EnterState(cleared, rest)))
        ELSE Refused(p)

MaintenancePermitted(p, override) == override \/ p.state \in {"IDLE", "UNKNOWN"}

(* Only an engage, or shutting the valve, can be refused by an interlock.  *)
ApplyMaintenance(p, type) ==
    CASE type = "MAINT_CHOKE_ON" -> Accepted(EngageChoke(p))
      [] type = "MAINT_CHOKE_OFF" -> Accepted(ReleaseChoke(p))
      [] type = "MAINT_STARTER_ON" ->
           LET q == IF p.killActive THEN p ELSE EngageStarter(p)
           IN  [pump |-> q, accepted |-> ~p.killActive /\ q.starterActive]
      [] type = "MAINT_STARTER_OFF" -> Accepted(ReleaseStarter(p))
      [] type = "MAINT_KILL_ON" -> Accepted(AssertKill(p))
      [] type = "MAINT_KILL_OFF" -> Accepted(ReleaseKill(p))
      [] type = "MAINT_VALVE_ON" -> Accepted(OpenValve(p))
      [] type = "MAINT_VALVE_OFF" ->
           LET q == ShutValve(p) IN [pump |-> q, accepted |-> ~q.valveActive]

MaintenanceOutcome(p, type, override) ==
    IF MaintenancePermitted(p, override) THEN ApplyMaintenance(p, type) ELSE Refused(p)

-----------------------------------------------------------------------------
(* Idempotency: the ring of accepted commands.                             *)

Seen(type, id) ==
    \E i \in DOMAIN records : records[i] = [type |-> type, id |-> id]

(* Mutant: nothing is overwritten.                                         *)
RememberedForEver(type, id) == Append(records, [type |-> type, id |-> id])

Remembered(type, id) ==
    Append(IF Len(records) = IdempotencySlots THEN Tail(records) ELSE records,
           [type |-> type, id |-> id])

(* The end of handleCommand: a duplicate changes nothing after the safety  *)
(* check, except that a duplicate STOP is executed; only an accepted       *)
(* command that is not a duplicate and has an id is remembered.            *)
Conclude(type, id, checked, outcome) ==
    /\ pump' = IF Seen(type, id) /\ type # "STOP" THEN checked ELSE outcome.pump
    /\ records' = IF outcome.accepted /\ id # NoRequestId /\ ~Seen(type, id)
                  THEN Remembered(type, id)
                  ELSE records

-----------------------------------------------------------------------------
(* Actions.                                                                *)

(* What the water input can read; without a sensor it is not read.         *)
Readings == IF WaterInterlockRequired THEN BOOLEAN ELSE {FALSE}

Callers == RequestIds \cup {NoRequestId}

Start(id, override, timings, raw) ==
    /\ "START" \in Operations
    /\ LET p == EnforceSafety(pump, raw)
       IN  Conclude("START", id, p, StartOutcome(p, override, timings))

Stop(id, raw) ==
    /\ "STOP" \in Operations
    /\ LET p == EnforceSafety(pump, raw)
       IN  Conclude("STOP", id, p, Accepted(BeginStopSequence(p)))

StartFailed(id, raw) ==
    /\ "START_FAILED" \in Operations
    /\ LET p == EnforceSafety(pump, raw)
       IN  Conclude("START_FAILED", id, p, StartFailedOutcome(p))

ResetIdle(id, raw) ==
    /\ "RESET_IDLE" \in Operations
    /\ LET p == EnforceSafety(pump, raw)
       IN  Conclude("RESET_IDLE", id, p, ResetIdleOutcome(p))

Maintain(type, id, override, raw) ==
    /\ type \in Operations
    /\ LET p == EnforceSafety(pump, raw)
       IN  Conclude(type, id, p, MaintenanceOutcome(p, type, override))

(* The clock moves by d.  A stopwatch nothing reads stands still.          *)
Elapse(p, d) ==
    [p EXCEPT
      !.stateElapsed = IF p.state \in Timed THEN Least(@ + d, StateHorizon) ELSE @,
      !.starterOnFor = IF p.starterActive THEN Least(@ + d, MaxCrank) ELSE 0,
      !.sinceRelease = IF p.starterEverReleased THEN Least(@ + d, ReleaseHorizon) ELSE @,
      !.chokeOnFor = IF p.chokeActive THEN Least(@ + d, MaxChoke) ELSE 0,
      !.valveOpenFor = IF p.valveActive THEN Least(@ + d, ValvePrime) ELSE 0,
      !.waterStableFor = Least(@ + d, WaterDebounce),
      !.faultKillFor = IF p.faultKillActive THEN Least(@ + d, KillHold) ELSE 0]

(* One pass of the main loop, d after the previous one: tick().            *)
Tick(d, raw) ==
    /\ pump' = Advance(EnforceSafety(Elapse(pump, d), raw))
    /\ UNCHANGED records

(* begin(): every output at its inactive level, nothing remembered.        *)
PowerUp ==
    [state |-> "UNKNOWN", fault |-> "NONE", stateElapsed |-> 0,
     overrideActive |-> FALSE,
     starterActive |-> FALSE, starterOnFor |-> 0,
     starterEverReleased |-> FALSE, sinceRelease |-> 0,
     chokeActive |-> FALSE, chokeOnFor |-> 0,
     killActive |-> TRUE,
     valveActive |-> FALSE, valveOpenFor |-> 0,
     waterOk |-> FALSE, waterRawLast |-> FALSE, waterStableFor |-> 0,
     faultKillActive |-> FALSE, faultKillFor |-> 0,
     timings |-> DefaultTimings]

(* A power cut or a watchdog reset, at any moment.                         *)
Reboot ==
    /\ pump' = PowerUp
    /\ records' = << >>

Init ==
    /\ pump = PowerUp
    /\ records = << >>

Next ==
    \/ \E d \in Steps, raw \in Readings : Tick(d, raw)
    \/ \E id \in Callers, override \in Overrides, timings \in RequestedTimings, raw \in Readings :
         Start(id, override, timings, raw)
    \/ \E id \in Callers, raw \in Readings : Stop(id, raw)
    \/ \E id \in Callers, raw \in Readings : StartFailed(id, raw)
    \/ \E id \in Callers, raw \in Readings : ResetIdle(id, raw)
    \/ \E type \in Maintenance, id \in Callers, override \in Overrides, raw \in Readings :
         Maintain(type, id, override, raw)
    \/ Reboot

(* The main loop runs for ever and the clock does not stand still.         *)
Passes == \E d \in Steps \ {0}, raw \in Readings : Tick(d, raw)

Fairness == WF_vars(Passes)

Spec == Init /\ [][Next]_vars

FairSpec == Spec /\ Fairness

-----------------------------------------------------------------------------
(* Properties.                                                             *)

(* The controller value keeps its shape; the ring never outgrows its slots *)
(* and holds no command twice.                                             *)
TypeOK ==
    /\ pump \in Pump
    /\ records \in Seq([type : Commands, id : RequestIds])
    /\ Len(records) <= IdempotencySlots
    /\ \A i, j \in DOMAIN records : records[i] = records[j] => i = j

(* The starter never turns an engine whose ignition is grounded, whatever  *)
(* mix of start sequence, fault, maintenance and override got there.       *)
StarterExcludesKill == pump.starterActive => ~pump.killActive

(* Whatever path engaged the starter, and however long the loop stalled,   *)
(* the starter has been on for less than MAX_CRANK_MS when a pass or a     *)
(* command has completed.                                                  *)
CrankCeiling == pump.starterActive => pump.starterOnFor < MaxCrank

(* The same for the choke and MAX_CHOKE_MS, as long as no fault is         *)
(* recorded: whoever engaged it, and in whatever state it was forgotten.   *)
ChokeCeiling ==
    pump.chokeActive /\ pump.fault = "NONE" => pump.chokeOnFor < MaxChoke

(* A fault that an override left recorded can make the safety check return *)
(* before it looks at the choke: the ceiling then slips by one step, never *)
(* by two, in a build with the electric intake valve.  Without one, the    *)
(* pseudo-valve can be found shut again and again, and this fails.         *)
ChokeSlipsOnce ==
    [][pump.chokeActive /\ pump.chokeOnFor >= MaxChoke
        => (pump'.chokeActive => pump'.chokeOnFor < MaxChoke)]_vars

(* An engine that was started has its intake open: no handler, and no      *)
(* maintenance command in any state, shuts it under a turning engine.      *)
StartedEngineHasIntake ==
    IntakeValveEnabled /\ EngineWasStarted(pump) => pump.valveActive

(* The engine is only ever cranked with the intake open, and open for the  *)
(* full prime dwell unless this very sequence carries an override.         *)
CrankIsPrimed ==
    IntakeValveEnabled /\ pump.state = "CRANKING" =>
        pump.valveActive /\ (pump.overrideActive \/ pump.valveOpenFor >= ValvePrime)

(* An override dies with the sequence it authorised, so no later START     *)
(* inherits it.                                                            *)
OverrideDiesWithSequence == pump.overrideActive => pump.state \in Sequence

(* The kill wire is open only for an engine that was cranked, or in FAULT  *)
(* once its hold has been served: no refusal, fault or stop in the middle  *)
(* of a sequence leaves the ignition live.  The `kill' table of            *)
(* docs/PI_INTEGRATION.md has the first case only; in plain use every      *)
(* fault that is left alone comes to the second.                           *)
IgnitionOnlyWhenCranked ==
    ~pump.killActive =>
        EngineWasStarted(pump) \/ (pump.state = "FAULT" /\ ~pump.faultKillActive)

(* Where the controller rests nothing is energised and the intake is shut, *)
(* however the state was reached: a next START primes from scratch.        *)
RestIsDry ==
    pump.state \in {"UNKNOWN", "IDLE", "RETRY_WAIT"} =>
        ~pump.valveActive /\ ~pump.starterActive /\ ~pump.chokeActive

(* docs/PI_INTEGRATION.md, "Faults": a fault is recorded exactly in FAULT. *)
(* Every way into FAULT has to record one, and every way out to clear it.  *)
(* True without overrides, not with them.                                  *)
FaultMeansFault == pump.fault # "NONE" <=> pump.state = "FAULT"

(* docs/PI_INTEGRATION.md, the `kill' table, and pump_controller.cpp: the  *)
(* kill stays asserted throughout priming and the choke lead.  True        *)
(* without overrides.                                                      *)
PrimingIsInhibited == pump.state \in {"PRIMING", "CHOKING"} => pump.killActive

(* Once the grace after the crank is over, an engine that was started does *)
(* not go on running on a debounced "no water".                            *)
NoSilentDryRun ==
    EngineWasStarted(pump) /\ ~pump.waterOk => WaterStartupGraceActive(pump)

(* The engine is only ever cranked with the water there.  The relay layer  *)
(* asks for it at the moment of the crank, and the loss of water is acted  *)
(* on during the crank; but right after an earlier release of the starter  *)
(* it is not, for the grace.  That a second attempt cannot fall into the   *)
(* grace of the first rests on the recrank gap and the prime dwell being   *)
(* as long as the grace together, which no static_assert of config.h says. *)
(* True without overrides, with the intake valve.                          *)
CrankHasWater == pump.state = "CRANKING" => pump.waterOk

(* The starter is not engaged again before MIN_RECRANK_GAP_MS has passed   *)
(* since it was last released.                                             *)
RecrankGapHonoured ==
    [][~pump.starterActive /\ pump'.starterActive /\ pump'.starterEverReleased
        => pump'.sinceRelease >= RecrankGap]_vars

(* A starter found over a shut intake is off after the very next pass or   *)
(* command, and that step does not engage it again.                        *)
DryStarterIsShed ==
    [][IntakeValveEnabled /\ pump.starterActive /\ ~pump.valveActive
        => ~pump'.starterActive]_vars

(* From some time on the loop passes and nobody sends anything.            *)
LeftAlone == <>[][\E d \in Steps, raw \in Readings : Tick(d, raw)]_vars

(* No relay timing is pending any more, nor the kill hold of a fault.      *)
Settled ==
    /\ IsQuiescent(pump) /\ pump.state # "RETRY_WAIT"
    /\ pump.state = "FAULT" => ~pump.faultKillActive

(* Left alone, every sequence, stop, cooldown and fault runs to its end,   *)
(* whatever state the commands left behind.                                *)
SettlesWhenLeftAlone == LeftAlone => <>[]Settled

(* An engine whose water is gone for good, by the debounced reading or by  *)
(* the input itself, is stopped for good, whatever plain commands keep     *)
(* arriving.  An overridden START can outlast it: a WATER_LOST that is     *)
(* already recorded (FaultMeansFault) is not acted on again.               *)
DryEngineStops ==
    <>[](~pump.waterOk) \/ <>[](~pump.waterRawLast) => <>[](~EngineWasStarted(pump))

-----------------------------------------------------------------------------
(* What the documentation says and the code does not do.                   *)

(* tests/test_invariants.cpp, 2a: the starter is never engaged with the    *)
(* intake shut.                                                            *)
StarterHasIntake == IntakeValveEnabled /\ pump.starterActive => pump.valveActive

(* README.md, "Option A": a build without the electric valve can be used.  *)
(* Nothing shuts an intake that is not there.                              *)
NoValveNoValveFault ==
    ~IntakeValveEnabled => pump.fault # "VALVE_CLOSED_WHILE_RUNNING"

(* config.h and pump_controller.h: an override does not relax "the engine  *)
(* being shut down if the intake is commanded shut", and enforceSafety():  *)
(* "both directions of the deadhead interlock are re-checked every tick".  *)
(* In a start sequence with the ignition live and the intake shut, the     *)
(* pass that follows grounds the kill wire.                                *)
ShutIntakeIsActedOn ==
    [][/\ IntakeValveEnabled /\ pump.state \in Sequence
       /\ ~pump.killActive /\ ~pump.valveActive
       /\ Passes
       => pump'.killActive]_vars

=============================================================================
