--------------------------- MODULE BatteryMonitor ---------------------------
(***************************************************************************)
(* The battery monitor (battery.cpp): a sampler that looks at the          *)
(* controller once per interval, faster while it cranks.  A voltage is one *)
(* of a few levels; the smoothed live figure controls nothing and is left  *)
(* out.  The monitor's members are one value, changed by one tick.         *)
(***************************************************************************)
EXTENDS Naturals, FiniteSets

CONSTANTS
    SampleInterval,   \* BATTERY_SAMPLE_INTERVAL_MS
    CrankSample,      \* BATTERY_CRANK_SAMPLE_MS
    Settle,           \* BATTERY_REST_SETTLE_MS
    Voltages,         \* what the battery can read, as numbers above 0
    BatterySteps      \* by how much the clock may move between two passes

VARIABLES
    battery,          \* the members of BatteryMonitor
    inCrank,          \* the controller is CRANKING, in the last tick
    busyFor,          \* history: one more than the age of the present activity, or 0
    sinceLoad,        \* history: since an activity that outlasted the interval
    sag               \* history: the readings of the last crank that was sampled

batteryVars == <<battery, inCrank, busyFor, sinceLoad, sag>>

ASSUME BatteryAssumption ==
    /\ {SampleInterval, CrankSample, Settle} \subseteq Nat \ {0}
    /\ CrankSample < SampleInterval /\ SampleInterval < Settle
    /\ Voltages \subseteq Nat \ {0} /\ IsFiniteSet(Voltages)
    /\ BatterySteps \subseteq Nat

AtMost(limit, t) == IF t < limit THEN t ELSE limit

(* Nothing known, and activity assumed at the start.                       *)
BatteryBegin ==
    [sinceSample |-> 0, sinceActivity |-> 0, restingValid |-> FALSE,
     cranking |-> FALSE, crankMin |-> 0, crankAccum |-> 0]

Aged(b, d) == [b EXCEPT !.sinceSample = AtMost(SampleInterval, @ + d),
                        !.sinceActivity = AtMost(Settle, @ + d)]

(* The minimum of a crank is published in the pass that leaves it.         *)
LatchCrankMin(b, cranks) ==
    IF b.cranking /\ ~cranks THEN [b EXCEPT !.cranking = FALSE, !.crankMin = b.crankAccum]
    ELSE b

SampleDue(b, cranks) == b.sinceSample >= IF cranks THEN CrankSample ELSE SampleInterval

TakeCrankSample(b, volts) ==
    [b EXCEPT !.cranking = TRUE,
              !.crankAccum = IF b.cranking /\ @ < volts THEN @ ELSE volts]

(* Mutant: the settling time runs from the last reading that was valid.    *)
JudgeRestFromStart(b, quiet) ==
    IF ~quiet THEN [b EXCEPT !.restingValid = FALSE]
    ELSE IF b.sinceActivity >= Settle THEN [b EXCEPT !.restingValid = TRUE]
    ELSE b

JudgeRest(b, quiet) ==
    IF ~quiet THEN [b EXCEPT !.sinceActivity = 0, !.restingValid = FALSE]
    ELSE IF b.sinceActivity >= Settle THEN [b EXCEPT !.restingValid = TRUE]
    ELSE b

Sample(b, cranks, quiet, volts) ==
    LET s == [b EXCEPT !.sinceSample = 0]
    IN  JudgeRest(IF cranks THEN TakeCrankSample(s, volts) ELSE s, quiet)

(* Mutant: the minimum waits for the next sample.                          *)
MonitoredWhenDue(b, cranks, quiet, volts) ==
    IF SampleDue(b, cranks) THEN Sample(LatchCrankMin(b, cranks), cranks, quiet, volts) ELSE b

Monitored(b, cranks, quiet, volts) ==
    LET p == LatchCrankMin(b, cranks)
    IN  IF SampleDue(p, cranks) THEN Sample(p, cranks, quiet, volts) ELSE p

-----------------------------------------------------------------------------
(* battery().tick() at the end of a pass: `cranks' is the state CRANKING,  *)
(* `quiet' is IDLE or UNKNOWN with isQuiescent().                          *)
BatteryTick(d, cranks, quiet, volts) ==
    LET aged == Aged(battery, d)
        sampled == SampleDue(aged, cranks)
        busy == IF quiet THEN 0 ELSE IF busyFor = 0 THEN 1 ELSE AtMost(SampleInterval + 1, busyFor + d)
    IN  /\ cranks => ~quiet
        /\ battery' = Monitored(aged, cranks, quiet, volts)
        /\ inCrank' = cranks
        /\ busyFor' = busy
        /\ sinceLoad' = IF busy > SampleInterval THEN 0 ELSE AtMost(Settle, sinceLoad + d)
        /\ sag' = IF cranks /\ sampled
                  THEN (IF inCrank /\ battery.cranking THEN sag ELSE {}) \cup {volts}
                  ELSE sag

BatteryInit ==
    /\ battery = BatteryBegin
    /\ inCrank = FALSE /\ busyFor = 0 /\ sinceLoad = 0 /\ sag = {}

BatteryNext ==
    \E d \in BatterySteps, cranks, quiet \in BOOLEAN, volts \in Voltages :
      BatteryTick(d, cranks, quiet, volts)

BatterySpec == BatteryInit /\ [][BatteryNext]_batteryVars

-----------------------------------------------------------------------------
(* Properties.                                                             *)

(* A published resting voltage was taken on a rested battery: no activity  *)
(* as long as the sampling interval falls into the settling time before    *)
(* it, but for the one interval by which sampling may miss its end.        *)
RestingMeansRested ==
    battery.restingValid => sinceLoad + SampleInterval > Settle

(* Outside CRANKING the published minimum is that of the last crank, from  *)
(* the very pass that left it.                                             *)
CrankMinIsPublished ==
    ~inCrank /\ sag # {} =>
        battery.crankMin \in sag /\ \A v \in sag : battery.crankMin <= v

=============================================================================
