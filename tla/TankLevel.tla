----------------------------- MODULE TankLevel ------------------------------
(***************************************************************************)
(* The tank level monitor (tank_level.cpp): a window of samples, discarded *)
(* when the sensor is unhealthy, and a trend from a least-squares fit with *)
(* a t-test.  The code computes in floats; here the same comparisons are   *)
(* made in whole numbers, multiplied out.  Rounding is left out, and the   *)
(* volume and flow, which are products of the level and of the slope.      *)
(***************************************************************************)
EXTENDS Integers, Sequences

CONSTANTS
    TankInterval,     \* TANK_SAMPLE_INTERVAL_MS
    SampleCount,      \* TANK_SAMPLE_COUNT
    MinSamples,       \* TANK_MIN_SAMPLES_FOR_TREND
    Significance,     \* TANK_TREND_T_STATISTIC
    SlopeFloor,       \* TANK_MIN_SLOPE_MM_PER_S, in levels for a hundred units of time
    Volts,            \* what the analog input can read
    MinValid,         \* TANK_V_MIN_VALID
    MaxValid,         \* TANK_V_MAX_VALID
    Zero,             \* TANK_V_ZERO
    FullScale,        \* TANK_V_FULL_SCALE
    TankSteps         \* by how much the clock may move between two passes

VARIABLES
    tank,             \* the members of TankLevel, the ring read from its oldest sample
    healthyRun        \* history: samples since the sensor was last unhealthy

tankVars == <<tank, healthyRun>>

ASSUME TankAssumption ==
    /\ {TankInterval, SampleCount, MinSamples, Significance, SlopeFloor} \subseteq Nat \ {0}
    /\ MinSamples > 2 /\ MinSamples <= SampleCount
    /\ Volts \subseteq Nat /\ TankSteps \subseteq Nat
    /\ {MinValid, MaxValid, Zero, FullScale} \subseteq Nat
    /\ MinValid < Zero /\ Zero < FullScale /\ FullScale < MaxValid

TankBegin == [window |-> << >>, sinceSample |-> 0, status |-> "WARMING_UP", trend |-> "UNKNOWN"]

-----------------------------------------------------------------------------
(* The regression.  A sample keeps the time since the one before it.       *)

Total(f) ==
    LET sum[i \in 0..Len(f)] == IF i = 0 THEN 0 ELSE sum[i - 1] + f[i]
    IN  sum[Len(f)]

(* The time of each sample, from that of the oldest.                       *)
Times(w) == [i \in DOMAIN w |-> Total([j \in 1..i |-> IF j = 1 THEN 0 ELSE w[j].gap])]

(* n times the sum of products of the deviations of f and g.               *)
Deviation(f, g) ==
    Len(f) * Total([i \in DOMAIN f |-> f[i] * g[i]]) - Total(f) * Total(g)

Fit(w) ==
    LET t == Times(w)
        y == [i \in DOMAIN w |-> w[i].level]
    IN  [tt |-> Deviation(t, t), ty |-> Deviation(t, y), yy |-> Deviation(y, y)]

Size(x) == IF x < 0 THEN -x ELSE x

(* Steep enough for the sensor, and against its own standard error.        *)
Significant(f, n) ==
    /\ 100 * Size(f.ty) >= SlopeFloor * f.tt
    /\ (n - 2) * f.ty * f.ty >= Significance * Significance * (f.yy * f.tt - f.ty * f.ty)

TrendOf(w) ==
    LET f == Fit(w)
    IN  CASE Len(w) < MinSamples \/ f.tt <= 0 -> "UNKNOWN"
          [] Len(w) >= MinSamples /\ f.tt > 0 /\ ~Significant(f, Len(w)) -> "STEADY"
          [] OTHER -> IF f.ty < 0 THEN "FALLING" ELSE "RISING"

-----------------------------------------------------------------------------
(* One tick.                                                               *)

(* Mutant: a cut wire is reported, and its history kept.                   *)
UnhealthyKeepingHistory(t, status) ==
    [t EXCEPT !.status = status, !.trend = "UNKNOWN", !.sinceSample = 0]

Unhealthy(t, status) ==
    [t EXCEPT !.status = status, !.trend = "UNKNOWN", !.window = << >>, !.sinceSample = 0]

Healthy(t, level) ==
    LET kept == IF Len(t.window) = SampleCount THEN Tail(t.window) ELSE t.window
        w == Append(kept, [level |-> level, gap |-> t.sinceSample])
    IN  [window |-> w, sinceSample |-> 0, status |-> "OK", trend |-> TrendOf(w)]

(* The level a valid voltage stands for, clamped to the sensor's span.     *)
LevelOf(volts) ==
    IF volts < Zero THEN 0 ELSE IF volts > FullScale THEN FullScale - Zero ELSE volts - Zero

TankTick(d, volts) ==
    LET aged == [tank EXCEPT !.sinceSample = @ + d]
    IN  IF aged.sinceSample < TankInterval
        THEN tank' = aged /\ UNCHANGED healthyRun
        ELSE IF volts < MinValid
        THEN tank' = Unhealthy(aged, "OPEN_LOOP") /\ healthyRun' = 0
        ELSE IF volts > MaxValid
        THEN tank' = Unhealthy(aged, "OVER_RANGE") /\ healthyRun' = 0
        ELSE /\ tank' = Healthy(aged, LevelOf(volts))
             /\ healthyRun' = IF healthyRun < MinSamples THEN healthyRun + 1 ELSE MinSamples

TankInit == tank = TankBegin /\ healthyRun = 0

TankNext == \E d \in TankSteps, volts \in Volts : TankTick(d, volts)

TankSpec == TankInit /\ [][TankNext]_tankVars

-----------------------------------------------------------------------------
(* Properties.                                                             *)

(* A trend is earned: by enough samples since the sensor was last          *)
(* unhealthy, and by a level that did not only move the other way.  A cut  *)
(* wire, a long pass or the first samples never look like a draining tank. *)
TrendIsEarned ==
    LET w == tank.window
    IN  /\ tank.trend # "UNKNOWN" => tank.status = "OK" /\ healthyRun >= MinSamples
        /\ tank.trend = "FALLING" => \E i \in 2..Len(w) : w[i].level < w[i - 1].level
        /\ tank.trend = "RISING" => \E i \in 2..Len(w) : w[i].level > w[i - 1].level

=============================================================================
