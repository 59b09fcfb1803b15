--------------------------- MODULE ServicesProofs ---------------------------
(***************************************************************************)
(* Proofs about the services of the loop.                                  *)
(*                                                                         *)
(* NetManager: after a scan, whatever it took and whatever the clock did,  *)
(* the retry is due in the very next pass.                                 *)
(*                                                                         *)
(* BatteryMonitor: what it publishes is what the battery did, for every    *)
(* interval, every dwell and every pattern of passes.  The code sees       *)
(* activity only when it samples; the argument compares the last sample    *)
(* with the activity the history has seen: an activity older than the last *)
(* sample was seen by it, and no activity outlasts a sample.               *)
(*                                                                         *)
(* TankLevel: the trend is the one of the window, and the window is of the *)
(* healthy samples only.  That a trend is backed by two samples that moved *)
(* that way is an inequality of Chebyshev: two sequences that rise do not  *)
(* deviate in opposite ways, which the sums show point by point.           *)
(*                                                                         *)
(* ResetRecord: whatever resets the device, wherever it was in setup(),    *)
(* and whatever becomes of its RAM, the report is true.                    *)
(***************************************************************************)
EXTENDS NetManager, BatteryMonitor, TankLevel, ResetRecord, NatSets, TLAPS

-----------------------------------------------------------------------------
(* The network manager.                                                    *)

Phases == {"CONNECTING", "AWAIT_IP", "CONNECTED", "BACKOFF"}

ConnOK(c) ==
    c \in [phase : Phases, phaseFor : Nat, sincePoll : Nat, address : BOOLEAN]

(* What is missing to a full interval is exactly what the clock of the     *)
(* pass is behind.                                                         *)
ScanRepaid == phase = "BACKOFF" /\ lag > 0 => phaseFor + lag = RetryInterval

NetInv == ConnOK(Conn) /\ lag \in Nat /\ ScanRepaid

-----------------------------------------------------------------------------
(* The stopwatch of the phase does not stop before the retry is due.       *)
LEMMA LongestIsEnough == Longest \in Nat /\ RetryInterval <= Longest
<1> DEFINE S == {ConnectTimeout, DhcpTimeout, RetryInterval}
<1>1. S \subseteq Nat
  BY NetAssumption
<1>2. \E x \in S : \A y \in S : y <= x
  BY <1>1
<1>3. Longest \in S /\ \A y \in S : y <= Longest
  BY <1>2 DEF Longest, Max
<1> QED
  BY <1>1, <1>3

(* Time passes without changing the phase, and a due retry stays due.      *)
LEMMA LaterKeeps ==
  ASSUME NEW c, ConnOK(c), NEW d \in Nat
  PROVE  /\ ConnOK(Later(c, d)) /\ Later(c, d).phase = c.phase
         /\ c.phaseFor + d >= RetryInterval => Later(c, d).phaseFor >= RetryInterval
<1> DEFINE n == UpTo(Longest, c.phaseFor + d)
           m == UpTo(PollInterval, c.sincePoll + d)
<1>1. n \in Nat /\ m \in Nat /\ (c.phaseFor + d >= RetryInterval => n >= RetryInterval)
  BY LongestIsEnough, NetAssumption DEF ConnOK, UpTo
<1>2. Later(c, d) = [c EXCEPT !.phaseFor = n, !.sincePoll = m]
  BY DEF Later
<1> HIDE DEF n, m
<1> QED
  BY <1>1, <1>2 DEF ConnOK

(* One tick of the manager keeps its times in order, and a back-off that   *)
(* is over ends in an attempt.                                             *)
LEMMA TickKeeps ==
  ASSUME NEW c, ConnOK(c), NEW ok, NEW joined,
         NEW bound \in BOOLEAN
  PROVE  /\ ConnOK(NetTick(c, ok, joined, bound))
         /\ c.phase = "BACKOFF" /\ ok /\ c.phaseFor >= RetryInterval
              => NetTick(c, ok, joined, bound).phase = "CONNECTING"
<1>1. ConnOK(StartAttempt(c)) /\ StartAttempt(c).phase = "CONNECTING"
  BY DEF ConnOK, StartAttempt, EnterPhase, Phases
<1>2. ASSUME c.phase # "BACKOFF" PROVE ConnOK(Poll(c, joined, bound))
  BY <1>2 DEF ConnOK, Poll, EnterPhase, Lost, Phases
<1> QED
  BY <1>1, <1>2 DEF NetTick

(* The tick of a pass with a scan: the retry may be due at once, or is due *)
(* after what the scan took.                                               *)
LEMMA ScanTick ==
  ASSUME NEW c, ConnOK(c), NEW blocked \in ScanTimes, NEW ok, NEW joined,
         NEW bound \in BOOLEAN
  PROVE  LET q == NetTick(Resumed(c, blocked), ok, joined, bound)
         IN  /\ ConnOK(q)
             /\ blocked > 0 => q.phase = "BACKOFF" /\ q.phaseFor + blocked = RetryInterval
             /\ blocked = 0 /\ ok => q.phase = "CONNECTING"
<1>1. blocked \in Nat /\ blocked < RetryInterval /\ RetryInterval \in Nat
  BY NetAssumption
<1> DEFINE r == Resumed(c, blocked)
<1>2. ConnOK(r) /\ r.phase = "BACKOFF" /\ r.phaseFor = RetryInterval - blocked
  <2> DEFINE n == RetryInterval - blocked
  <2>1. n \in Nat /\ r = [EnterPhase(c, "BACKOFF") EXCEPT !.phaseFor = n]
    BY <1>1 DEF Resumed
  <2>2. n = RetryInterval - blocked
    OBVIOUS
  <2> HIDE DEF n, r
  <2> QED
    BY <2>1, <2>2 DEF ConnOK, EnterPhase, Phases
<1> HIDE DEF r
<1>3. blocked > 0 => NetTick(r, ok, joined, bound) = r
  BY <1>1, <1>2 DEF NetTick
<1> QED
  BY <1>1, <1>2, <1>3, TickKeeps DEF r

(* The variables after a step are the value it computed.                   *)
LEMMA BecomesConn ==
  ASSUME NEW c, ConnOK(c), Becomes(c)
  PROVE  Conn' = c
  BY DEF ConnOK, Becomes, Conn

-----------------------------------------------------------------------------
(* The invariant holds at the start.                                       *)
THEOREM InitNetInv == NetInit => NetInv
<1> SUFFICES ASSUME NetInit
             PROVE  NetInv
  OBVIOUS
<1>1. ConnOK(Conn)
  BY DEF NetInit, ConnOK, Conn, Phases
<1>2. lag \in Nat /\ ScanRepaid
  BY DEF NetInit, ScanRepaid
<1> QED
  BY <1>1, <1>2 DEF NetInv

(* Only a scan leaves the clock ahead, and it says by how much.            *)
THEOREM NextNetInv == NetInv /\ [NetNext]_netVars => NetInv'
<1> SUFFICES ASSUME NetInv, [NetNext]_netVars
             PROVE  NetInv'
  OBVIOUS
<1>1. ASSUME NEW d \in NetSteps, NEW ok \in BOOLEAN, NEW joined \in BOOLEAN,
             NEW bound \in BOOLEAN, Pass(d, ok, joined, bound)
      PROVE  NetInv'
  <2> DEFINE c == NetTick(Later(Conn, d + lag), ok, joined, bound)
  <2>1. d + lag \in Nat
    BY NetAssumption DEF NetInv
  <2>2. ConnOK(c)
    BY <2>1, LaterKeeps, TickKeeps DEF NetInv
  <2>3. Becomes(c) /\ lag' = 0
    BY <1>1 DEF Pass
  <2> HIDE DEF c
  <2>4. Conn' = c
    BY <2>2, <2>3, BecomesConn
  <2> QED
    BY <2>2, <2>3, <2>4 DEF NetInv, ConnOK, ScanRepaid, Conn
<1>2. ASSUME NEW d \in NetSteps, NEW ok \in BOOLEAN, NEW joined \in BOOLEAN,
             NEW bound \in BOOLEAN, NEW blocked \in ScanTimes,
             ScanPass(d, blocked, ok, joined, bound)
      PROVE  NetInv'
  <2> DEFINE c == NetTick(Resumed(Later(Conn, d + lag), blocked), ok, joined, bound)
  <2>1. d + lag \in Nat /\ blocked \in Nat
    BY NetAssumption DEF NetInv
  <2>2. ConnOK(c) /\ (blocked > 0 => c.phase = "BACKOFF" /\ c.phaseFor + blocked = RetryInterval)
    <3>1. ConnOK(Later(Conn, d + lag))
      BY <2>1, LaterKeeps DEF NetInv
    <3> QED
      BY <3>1, ScanTick
  <2>3. Becomes(c) /\ lag' = blocked
    BY <1>2 DEF ScanPass
  <2> HIDE DEF c
  <2>4. Conn' = c
    BY <2>2, <2>3, BecomesConn
  <2> QED
    BY <2>1, <2>2, <2>3, <2>4 DEF NetInv, ConnOK, ScanRepaid, Conn
<1>3. CASE NetReboot
  BY <1>3, NetAssumption DEF NetReboot, NetInv, ConnOK, Conn, ScanRepaid, Phases
<1>4. CASE UNCHANGED netVars
  BY <1>4 DEF netVars, NetInv, ConnOK, Conn, ScanRepaid
<1> QED
  BY <1>1, <1>2, <1>3, <1>4 DEF NetNext

(* The pass after a scan begins the attempt, if it is allowed the radio:   *)
(* the wrapped difference of the scan's own pass is never waited out.      *)
THEOREM OnePassAfterScan == NetSpec => ScanCostsOnePass
<1> DEFINE A == phase = "BACKOFF" /\ lag > 0 /\ lag' = 0 /\ allowed' => phase' = "CONNECTING"
<1>1. ASSUME NetInv, NetNext, phase = "BACKOFF", lag > 0, lag' = 0, allowed'
      PROVE  phase' = "CONNECTING"
  <2>1. ASSUME NEW d \in NetSteps, NEW ok \in BOOLEAN, NEW joined \in BOOLEAN,
               NEW bound \in BOOLEAN, Pass(d, ok, joined, bound)
        PROVE  phase' = "CONNECTING"
    <3> DEFINE e == Later(Conn, d + lag)
    <3>1. d \in Nat /\ lag \in Nat /\ phaseFor + lag = RetryInterval /\ phaseFor \in Nat
      BY <1>1, NetAssumption DEF NetInv, ScanRepaid, ConnOK, Conn
    <3>2. Conn.phaseFor = phaseFor /\ Conn.phase = "BACKOFF" /\ ConnOK(Conn)
      BY <1>1 DEF Conn, NetInv
    <3>3. Conn.phaseFor + (d + lag) >= RetryInterval /\ d + lag \in Nat
      BY <3>1, <3>2, NetAssumption
    <3>4. ConnOK(e) /\ e.phase = "BACKOFF" /\ e.phaseFor >= RetryInterval
      BY <3>2, <3>3, LaterKeeps
    <3>5. ok /\ Becomes(NetTick(e, ok, joined, bound))
      BY <1>1, <2>1 DEF Pass
    <3> QED
      BY <3>4, <3>5, TickKeeps DEF Becomes
  <2>2. ASSUME NEW d \in NetSteps, NEW ok \in BOOLEAN, NEW joined \in BOOLEAN,
               NEW bound \in BOOLEAN, NEW blocked \in ScanTimes,
               ScanPass(d, blocked, ok, joined, bound)
        PROVE  phase' = "CONNECTING"
    <3>1. d + lag \in Nat /\ blocked = 0 /\ ok
      BY <1>1, <2>2, NetAssumption DEF NetInv, ScanPass
    <3> DEFINE e == Later(Conn, d + lag)
    <3>2. ConnOK(e)
      BY <3>1, <1>1, LaterKeeps DEF NetInv
    <3>3. Becomes(NetTick(Resumed(e, blocked), ok, joined, bound))
      BY <2>2 DEF ScanPass
    <3> HIDE DEF e
    <3>4. NetTick(Resumed(e, blocked), ok, joined, bound).phase = "CONNECTING"
      BY <3>1, <3>2, ScanTick
    <3> QED
      BY <3>3, <3>4 DEF Becomes
  <2>3. ~NetReboot
    BY <1>1 DEF NetReboot
  <2> QED
    BY <1>1, <2>1, <2>2, <2>3 DEF NetNext
<1>2. NetInv /\ [NetNext]_netVars => [A]_netVars
  BY <1>1
<1> QED
  BY <1>2, InitNetInv, NextNetInv, PTL DEF NetSpec, ScanCostsOnePass

-----------------------------------------------------------------------------
(* The battery monitor.                                                    *)

Monitor ==
    [sinceSample : Nat, sinceActivity : Nat, restingValid : BOOLEAN,
     cranking : BOOLEAN, crankMin : Nat, crankAccum : Nat]

Least(v, readings) == v \in readings /\ \A r \in readings : v <= r

(* An activity that began before the last sample was noticed by it.        *)
SampleSaw ==
    busyFor > 0 /\ battery.sinceSample < busyFor - 1 =>
        battery.sinceActivity <= battery.sinceSample /\ ~battery.restingValid

(* The monitor may be late by an interval, and is never later.             *)
RestIsEarned ==
    /\ battery.sinceSample < SampleInterval
    /\ battery.sinceActivity < sinceLoad + SampleInterval
    /\ battery.restingValid => sinceLoad + SampleInterval > Settle
    /\ SampleSaw

(* What is accumulated, and then published, is the minimum of the readings.*)
SagIsKept ==
    IF battery.cranking THEN inCrank /\ Least(battery.crankAccum, sag)
    ELSE sag # {} => Least(battery.crankMin, sag)

BatteryInv ==
    /\ battery \in Monitor /\ inCrank \in BOOLEAN
    /\ busyFor \in Nat /\ sinceLoad \in Nat /\ sag \subseteq Voltages
    /\ RestIsEarned /\ SagIsKept

-----------------------------------------------------------------------------
(* The intervals are times, in this order.                                 *)
LEMMA Intervals ==
  /\ SampleInterval \in Nat /\ CrankSample \in Nat /\ Settle \in Nat
  /\ 0 < SampleInterval /\ CrankSample < SampleInterval /\ SampleInterval < Settle
  BY BatteryAssumption

(* What a tick makes of a monitor that has aged, field by field.           *)
LEMMA TickFields ==
  ASSUME NEW b \in Monitor, NEW cranks \in BOOLEAN, NEW quiet \in BOOLEAN,
         NEW volts \in Voltages
  PROVE  LET m == Monitored(b, cranks, quiet, volts)
             due == b.sinceSample >= IF cranks THEN CrankSample ELSE SampleInterval
         IN  /\ m \in Monitor
             /\ m.sinceSample = IF due THEN 0 ELSE b.sinceSample
             /\ m.sinceActivity = IF due /\ ~quiet THEN 0 ELSE b.sinceActivity
             /\ m.restingValid = IF due
                                 THEN quiet /\ (b.restingValid \/ b.sinceActivity >= Settle)
                                 ELSE b.restingValid
             /\ m.cranking = (cranks /\ (due \/ b.cranking))
             /\ m.crankAccum = IF due /\ cranks
                               THEN (IF b.cranking /\ b.crankAccum < volts
                                     THEN b.crankAccum ELSE volts)
                               ELSE b.crankAccum
             /\ m.crankMin = IF b.cranking /\ ~cranks THEN b.crankAccum ELSE b.crankMin
<1> DEFINE p == LatchCrankMin(b, cranks)
           due == b.sinceSample >= IF cranks THEN CrankSample ELSE SampleInterval
           s == [p EXCEPT !.sinceSample = 0]
           t == IF cranks THEN TakeCrankSample(s, volts) ELSE s
           j == JudgeRest(t, quiet)
           m == Monitored(b, cranks, quiet, volts)
<1>1. /\ p \in Monitor /\ p.sinceSample = b.sinceSample /\ p.sinceActivity = b.sinceActivity
      /\ p.restingValid = b.restingValid /\ p.cranking = (b.cranking /\ cranks)
      /\ p.crankAccum = b.crankAccum
      /\ p.crankMin = IF b.cranking /\ ~cranks THEN b.crankAccum ELSE b.crankMin
  BY DEF Monitor, LatchCrankMin
<1>2. m = IF due THEN j ELSE p
  BY <1>1 DEF Monitored, SampleDue, Sample
<1> HIDE DEF p
<1>3. /\ s \in Monitor /\ s.sinceSample = 0 /\ s.sinceActivity = b.sinceActivity
      /\ s.restingValid = b.restingValid /\ s.cranking = (b.cranking /\ cranks)
      /\ s.crankAccum = b.crankAccum /\ s.crankMin = p.crankMin
  BY <1>1 DEF Monitor
<1> HIDE DEF s
<1>4. volts \in Nat
  BY BatteryAssumption
<1>5. /\ t \in Monitor /\ t.sinceSample = 0 /\ t.sinceActivity = b.sinceActivity
      /\ t.restingValid = b.restingValid /\ t.cranking = cranks
      /\ t.crankMin = p.crankMin
      /\ t.crankAccum = IF cranks
                        THEN (IF b.cranking /\ b.crankAccum < volts
                              THEN b.crankAccum ELSE volts)
                        ELSE b.crankAccum
  BY <1>3, <1>4 DEF Monitor, TakeCrankSample
<1> HIDE DEF t
<1>6. /\ j \in Monitor /\ j.sinceSample = 0
      /\ j.sinceActivity = IF quiet THEN b.sinceActivity ELSE 0
      /\ j.restingValid = (quiet /\ (b.restingValid \/ b.sinceActivity >= Settle))
      /\ j.cranking = cranks /\ j.crankMin = p.crankMin /\ j.crankAccum = t.crankAccum
  BY <1>5 DEF Monitor, JudgeRest
<1> HIDE DEF j, m, due
<1>7. CASE due
  BY <1>1, <1>2, <1>5, <1>6, <1>7 DEF due, m
<1>8. CASE ~due
  BY <1>1, <1>2, <1>8 DEF due, m, Monitor
<1> QED
  BY <1>7, <1>8

(* Time makes both readings of the clock older by the same amount.         *)
LEMMA AgedFields ==
  ASSUME NEW b \in Monitor, NEW d \in Nat
  PROVE  /\ Aged(b, d) \in Monitor
         /\ Aged(b, d).sinceSample = AtMost(SampleInterval, b.sinceSample + d)
         /\ Aged(b, d).sinceActivity = AtMost(Settle, b.sinceActivity + d)
         /\ Aged(b, d).restingValid = b.restingValid /\ Aged(b, d).cranking = b.cranking
         /\ Aged(b, d).crankAccum = b.crankAccum /\ Aged(b, d).crankMin = b.crankMin
<1> DEFINE x == AtMost(SampleInterval, b.sinceSample + d)
           y == AtMost(Settle, b.sinceActivity + d)
<1>1. x \in Nat /\ y \in Nat
  BY Intervals DEF AtMost, Monitor
<1>2. Aged(b, d) = [b EXCEPT !.sinceSample = x, !.sinceActivity = y]
  BY DEF Aged
<1> HIDE DEF x, y
<1>3. /\ Aged(b, d) \in Monitor
      /\ Aged(b, d).sinceSample = x /\ Aged(b, d).sinceActivity = y
      /\ Aged(b, d).restingValid = b.restingValid /\ Aged(b, d).cranking = b.cranking
      /\ Aged(b, d).crankAccum = b.crankAccum /\ Aged(b, d).crankMin = b.crankMin
  BY <1>1, <1>2 DEF Monitor
<1> QED
  BY <1>3 DEF x, y

-----------------------------------------------------------------------------
(* The invariant.                                                          *)

(* It holds after begin().                                                 *)
THEOREM InitBatteryInv == BatteryInit => BatteryInv
<1> SUFFICES ASSUME BatteryInit
             PROVE  BatteryInv
  OBVIOUS
<1>1. battery \in Monitor /\ battery.sinceSample = 0 /\ battery.sinceActivity = 0
      /\ battery.restingValid = FALSE /\ battery.cranking = FALSE
  BY DEF BatteryInit, BatteryBegin, Monitor
<1>2. inCrank = FALSE /\ busyFor = 0 /\ sinceLoad = 0 /\ sag = {}
  BY DEF BatteryInit
<1>3. RestIsEarned
  BY <1>1, <1>2, Intervals DEF RestIsEarned, SampleSaw
<1> QED
  BY <1>1, <1>2, <1>3 DEF BatteryInv, SagIsKept

(* Every tick keeps it.                                                    *)
THEOREM NextBatteryInv == BatteryInv /\ [BatteryNext]_batteryVars => BatteryInv'
<1> SUFFICES ASSUME BatteryInv, [BatteryNext]_batteryVars
             PROVE  BatteryInv'
  OBVIOUS
<1>1. CASE UNCHANGED batteryVars
  BY <1>1 DEF batteryVars, BatteryInv, RestIsEarned, SampleSaw, SagIsKept, Least
<1>2. ASSUME NEW d \in BatterySteps, NEW cranks \in BOOLEAN, NEW quiet \in BOOLEAN,
             NEW volts \in Voltages, BatteryTick(d, cranks, quiet, volts)
      PROVE  BatteryInv'
  <2> DEFINE a == Aged(battery, d)
             due == a.sinceSample >= IF cranks THEN CrankSample ELSE SampleInterval
             age == battery.sinceSample + d
             busy == IF quiet THEN 0
                     ELSE IF busyFor = 0 THEN 1 ELSE AtMost(SampleInterval + 1, busyFor + d)
             load == IF busy > SampleInterval THEN 0 ELSE AtMost(Settle, sinceLoad + d)
             m == Monitored(a, cranks, quiet, volts)
  <2>1. d \in Nat /\ volts \in Nat /\ battery \in Monitor
    BY BatteryAssumption DEF BatteryInv
  <2>2. /\ a \in Monitor
        /\ a.sinceSample = AtMost(SampleInterval, battery.sinceSample + d)
        /\ a.sinceActivity = AtMost(Settle, battery.sinceActivity + d)
        /\ a.restingValid = battery.restingValid /\ a.cranking = battery.cranking
        /\ a.crankAccum = battery.crankAccum /\ a.crankMin = battery.crankMin
    BY <2>1, AgedFields
  <2>3. /\ battery' = m /\ inCrank' = cranks /\ busyFor' = busy /\ sinceLoad' = load
        /\ cranks => ~quiet
        /\ sag' = IF cranks /\ due
                  THEN (IF inCrank /\ battery.cranking THEN sag ELSE {}) \cup {volts}
                  ELSE sag
    BY <1>2 DEF BatteryTick, SampleDue
  <2> HIDE DEF a
  <2>4. /\ m \in Monitor
        /\ m.sinceSample = IF due THEN 0 ELSE a.sinceSample
        /\ m.sinceActivity = IF due /\ ~quiet THEN 0 ELSE a.sinceActivity
        /\ m.restingValid = IF due
                            THEN quiet /\ (a.restingValid \/ a.sinceActivity >= Settle)
                            ELSE a.restingValid
        /\ m.cranking = (cranks /\ (due \/ a.cranking))
        /\ m.crankAccum = IF due /\ cranks
                          THEN (IF a.cranking /\ a.crankAccum < volts
                                THEN a.crankAccum ELSE volts)
                          ELSE a.crankAccum
        /\ m.crankMin = IF a.cranking /\ ~cranks THEN a.crankAccum ELSE a.crankMin
    BY <2>2, TickFields
  <2> HIDE DEF m
  <2>5. busy \in Nat /\ load \in Nat /\ sag' \subseteq Voltages
    BY <2>1, <2>3, Intervals DEF AtMost, BatteryInv
  <2>6. RestIsEarned'
    <3>1. /\ battery.sinceSample \in Nat /\ battery.sinceActivity \in Nat
          /\ battery.restingValid \in BOOLEAN /\ busyFor \in Nat /\ sinceLoad \in Nat
          /\ battery.sinceSample < SampleInterval
          /\ battery.sinceActivity < sinceLoad + SampleInterval
          /\ battery.restingValid => sinceLoad + SampleInterval > Settle
          /\ busyFor > 0 /\ battery.sinceSample < busyFor - 1 =>
               battery.sinceActivity <= battery.sinceSample /\ ~battery.restingValid
      BY <2>1 DEF BatteryInv, RestIsEarned, SampleSaw, Monitor
    <3>2. m.sinceSample < SampleInterval
      BY <2>1, <2>2, <2>4, <3>1, Intervals DEF AtMost
    <3>3. busy > 0 /\ m.sinceSample < busy - 1 =>
            m.sinceActivity <= m.sinceSample /\ ~m.restingValid
      BY <2>1, <2>2, <2>4, <3>1, <3>2, Intervals DEF AtMost
    <3>4. CASE busy > SampleInterval
      <4>1. m.sinceSample < busy - 1 /\ load = 0 /\ busy > 0
        BY <2>2, <2>4, <2>5, <3>2, <3>4, Intervals DEF Monitor
      <4>2. m.sinceActivity <= m.sinceSample /\ ~m.restingValid
        BY <3>3, <4>1
      <4> QED
        BY <2>3, <2>4, <3>2, <3>3, <4>1, <4>2, Intervals DEF RestIsEarned, SampleSaw, Monitor
    <3>5. CASE ~(busy > SampleInterval)
      <4>1. load = AtMost(Settle, sinceLoad + d)
        BY <3>5
      <4>2. a.sinceActivity < load + SampleInterval
        BY <2>1, <2>2, <3>1, <4>1, Intervals DEF AtMost
      <4>3. m.sinceActivity < load + SampleInterval
        BY <2>4, <2>5, <4>2, Intervals
      <4>4. m.restingValid => load + SampleInterval > Settle
        BY <2>1, <2>2, <2>4, <2>5, <3>1, <4>1, <4>2, Intervals DEF AtMost, Monitor
      <4> QED
        BY <2>3, <3>2, <3>3, <4>3, <4>4 DEF RestIsEarned, SampleSaw
    <3> QED
      BY <3>4, <3>5
  <2>7. SagIsKept'
    <3>1. /\ battery.cranking => inCrank /\ Least(battery.crankAccum, sag)
          /\ ~battery.cranking /\ sag # {} => Least(battery.crankMin, sag)
          /\ sag \subseteq Nat /\ battery.crankAccum \in Nat /\ volts \in Nat
          /\ battery.cranking \in BOOLEAN
      BY <2>1, BatteryAssumption DEF BatteryInv, SagIsKept, Monitor
    <3>2. CASE cranks /\ due
      <4>1. m.cranking
        BY <2>4, <3>2
      <4>2. Least(m.crankAccum, sag')
        BY <2>2, <2>3, <2>4, <3>1, <3>2 DEF Least
      <4> QED
        BY <2>3, <3>2, <4>1, <4>2 DEF SagIsKept, Least
    <3>3. CASE ~(cranks /\ due)
      <4>1. sag' = sag /\ m.crankAccum = battery.crankAccum
        BY <2>2, <2>3, <2>4, <3>3
      <4>2. m.cranking => cranks /\ battery.cranking
        BY <2>2, <2>4, <3>3
      <4>3. ~m.cranking /\ sag # {} => Least(m.crankMin, sag)
        BY <2>2, <2>4, <3>1, <3>3
      <4> QED
        BY <2>3, <3>1, <4>1, <4>2, <4>3 DEF SagIsKept, Least
    <3> QED
      BY <3>2, <3>3
  <2> QED
    BY <2>3, <2>4, <2>5, <2>6, <2>7 DEF BatteryInv
<1> QED
  BY <1>1, <1>2 DEF BatteryNext

(* So it holds in every reachable state.                                   *)
LEMMA BatteryInvariance == BatterySpec => []BatteryInv
  BY InitBatteryInv, NextBatteryInv, PTL DEF BatterySpec

-----------------------------------------------------------------------------
(* The results.                                                            *)

(* A resting voltage is published only after the battery has rested, but   *)
(* for the one sampling interval by which the end of a load may be missed. *)
THEOREM RestIsTrue == BatterySpec => []RestingMeansRested
<1>1. BatteryInv => RestingMeansRested
  BY DEF BatteryInv, RestIsEarned, RestingMeansRested
<1> QED
  BY <1>1, BatteryInvariance, PTL

(* After a crank the published minimum is the lowest of its readings, from *)
(* the pass that left CRANKING on.                                         *)
THEOREM MinimumIsTrue == BatterySpec => []CrankMinIsPublished
<1>1. BatteryInv => CrankMinIsPublished
  BY DEF BatteryInv, SagIsKept, Least, CrankMinIsPublished
<1> QED
  BY <1>1, BatteryInvariance, PTL

-----------------------------------------------------------------------------
(* The tank level: sums.                                                   *)

(* The running sums of a sequence of integers: one more term each time.    *)
IsSum(f, n, s) == s[0] = 0 /\ \A i \in 1..n : s[i] = s[i - 1] + f[i]

(* The loops of recomputeTrend() compute a running sum.                    *)
LEMMA RunningSum ==
  ASSUME NEW n \in Nat, NEW f \in [1..n -> Int]
  PROVE  \E s \in [0..n -> Int] : IsSum(f, n, s) /\ Total(f) = s[n]
<1> DEFINE Solves(g) == g = [i \in 0..n |-> IF i = 0 THEN 0 ELSE g[i - 1] + f[i]]
           step == [i \in 1..n |-> [x \in Int |-> x + f[i]]]
<1>1. step \in [1..n -> [Int -> Int]] /\ \A x \in Int, i \in 1..n : step[i][x] = x + f[i]
  OBVIOUS
<1> HIDE DEF step
<1>2. PICK s \in [0..n -> Int] : IsRun(s, n, 0, step)
  <2>1. 0 \in Int
    OBVIOUS
  <2> QED
    BY <1>1, <2>1, RunExists, Zenon
<1>3. IsSum(f, n, s)
  <2>1. ASSUME NEW i \in 1..n
        PROVE  s[i] = s[i - 1] + f[i]
    <3>1. s[i - 1] \in Int
      OBVIOUS
    <3> QED
      BY <1>1, <1>2, <3>1 DEF IsRun
  <2> QED
    BY <1>2, <2>1 DEF IsRun, IsSum
<1>4. Solves(s)
  <2>1. \A i \in 0..n : s[i] = IF i = 0 THEN 0 ELSE s[i - 1] + f[i]
    BY <1>3 DEF IsSum
  <2> QED
    BY <2>1
<1>5. Len(f) = n
  OBVIOUS
<1>6. Total(f) = (CHOOSE g : Solves(g))[n]
  BY <1>5 DEF Total
<1>7. PICK v : Solves(v) /\ Total(f) = v[n]
  <2>1. Solves(CHOOSE g : Solves(g))
    BY <1>4
  <2> HIDE DEF Solves
  <2> QED
    BY <1>6, <2>1
<1>8. v[0] = 0 /\ \A i \in 1..n : v[i] = v[i - 1] + f[i]
  BY <1>7
<1>9. \A i \in 0..n : v[i] = s[i]
  <2>1. StayAlike(v, s, n)
    BY <1>3, <1>8 DEF StayAlike, IsSum
  <2> QED
    BY <2>1, RunUnique
<1> QED
  BY <1>3, <1>7, <1>9

(* A sum is the one of its running sums.                                   *)
LEMMA TotalIs ==
  ASSUME NEW n \in Nat, NEW f \in [1..n -> Int], NEW s, IsSum(f, n, s)
  PROVE  Total(f) = s[n]
<1>1. PICK r \in [0..n -> Int] : IsSum(f, n, r) /\ Total(f) = r[n]
  BY RunningSum
<1>2. StayAlike(r, s, n)
  BY <1>1 DEF StayAlike, IsSum
<1> QED
  BY <1>1, <1>2, RunUnique

(* One more term is added to the sum of the others.                        *)
LEMMA TotalOfPrefix ==
  ASSUME NEW n \in Nat, NEW f \in [1..n + 1 -> Int], NEW g \in [1..n -> Int],
         \A i \in 1..n : g[i] = f[i]
  PROVE  Total(f) = Total(g) + f[n + 1]
<1>1. n + 1 \in Nat /\ (n + 1) - 1 = n /\ n + 1 \in 1..n + 1
  OBVIOUS
<1>2. PICK s \in [0..n + 1 -> Int] : IsSum(f, n + 1, s) /\ Total(f) = s[n + 1]
  BY <1>1, RunningSum
<1>3. IsSum(g, n, s)
  BY <1>2 DEF IsSum
<1>4. Total(g) = s[n]
  BY <1>3, TotalIs
<1> QED
  BY <1>1, <1>2, <1>4 DEF IsSum

(* The sum of the negated terms is the negated sum.                        *)
LEMMA TotalNegated ==
  ASSUME NEW n \in Nat, NEW f \in [1..n -> Int], NEW g \in [1..n -> Int],
         \A i \in 1..n : g[i] = -f[i]
  PROVE  Total(g) = -Total(f) /\ Total(f) \in Int
<1>1. PICK s \in [0..n -> Int] : IsSum(f, n, s) /\ Total(f) = s[n]
  BY RunningSum
<1> DEFINE r == [i \in 0..n |-> -s[i]]
<1>2. IsSum(g, n, r)
  <2>1. r[0] = 0
    BY <1>1 DEF IsSum
  <2>2. ASSUME NEW i \in 1..n
        PROVE  r[i] = r[i - 1] + g[i]
    <3>1. /\ i \in 0..n /\ i - 1 \in 0..n /\ f[i] \in Int
          /\ r[i] = -s[i] /\ r[i - 1] = -s[i - 1]
      OBVIOUS
    <3> HIDE DEF r
    <3>2. s[i] = s[i - 1] + f[i] /\ g[i] = -f[i] /\ s[i - 1] \in Int
      BY <1>1, <3>1 DEF IsSum
    <3> QED
      BY <3>1, <3>2
  <2> QED
    BY <2>1, <2>2 DEF IsSum
<1>3. Total(g) = r[n]
  <2> HIDE DEF r
  <2> QED
    BY <1>2, TotalIs
<1> QED
  BY <1>1, <1>3

-----------------------------------------------------------------------------
(* Chebyshev's inequality, for sequences that rise together.               *)

Rises(f, n) == \A i, j \in 1..n : i <= j => f[i] <= f[j]

(* One more point that is above all others, in both coordinates.           *)
LEMMA OneMorePoint ==
  ASSUME NEW k \in Int, NEW p \in Int, NEW t \in Int, NEW y \in Int, NEW a \in Int, NEW b \in Int
  PROVE  (k + 1) * (p + a * b) - (t + a) * (y + b)
           = (k * p - t * y) + (p - a * y - b * t + k * (a * b))
<1>1. (k + 1) * (p + a * b) = k * p + k * (a * b) + p + a * b
  BY Z3
<1>2. (t + a) * (y + b) = t * y + b * t + a * y + a * b
  BY Z3
<1> QED
  BY <1>1, <1>2

(* What it adds grows with each point, by a product of two distances.      *)
LEMMA OneMoreDistance ==
  ASSUME NEW k \in Int, NEW p \in Int, NEW t \in Int, NEW y \in Int, NEW a \in Int, NEW b \in Int,
         NEW c \in Int, NEW d \in Int, c <= a, d <= b
  PROVE  p - a * y - b * t + k * (a * b)
           <= (p + c * d) - a * (y + d) - b * (t + c) + (k + 1) * (a * b)
<1>1. a * (y + d) = a * y + a * d /\ b * (t + c) = b * t + b * c
  BY Z3
<1>2. (k + 1) * (a * b) = k * (a * b) + a * b
  BY Z3
<1>3. (a - c) * (b - d) = a * b - a * d - b * c + c * d
  BY Z3
<1>4. (a - c) * (b - d) >= 0
  BY Z3
<1>5. /\ c * d \in Int /\ a * d \in Int /\ b * c \in Int /\ a * y \in Int /\ b * t \in Int
      /\ k * (a * b) \in Int /\ a * b \in Int
  OBVIOUS
<1> QED
  BY <1>1, <1>2, <1>3, <1>4, <1>5

(* The sums over three sequences, the third of the products of the others. *)
Sums(n, t, y, a, b, p) ==
    /\ t \in [1..n -> Int] /\ y \in [1..n -> Int]
    /\ a \in [0..n -> Int] /\ b \in [0..n -> Int] /\ p \in [0..n -> Int]
    /\ IsSum(t, n, a) /\ IsSum(y, n, b) /\ IsSum([i \in 1..n |-> t[i] * y[i]], n, p)

LEMMA SumsGrow ==
  ASSUME NEW n \in Nat, NEW t, NEW y, NEW a, NEW b, NEW p, Sums(n, t, y, a, b, p),
         NEW k \in 0..n
  PROVE  /\ a[k] \in Int /\ b[k] \in Int /\ p[k] \in Int
         /\ k < n => /\ k + 1 \in 1..n /\ t[k + 1] \in Int /\ y[k + 1] \in Int
                     /\ a[k + 1] = a[k] + t[k + 1] /\ b[k + 1] = b[k] + y[k + 1]
                     /\ p[k + 1] = p[k] + t[k + 1] * y[k + 1]
<1>1. a[k] \in Int /\ b[k] \in Int /\ p[k] \in Int
  BY DEF Sums
<1>2. ASSUME k < n
      PROVE  /\ k + 1 \in 1..n /\ t[k + 1] \in Int /\ y[k + 1] \in Int
             /\ a[k + 1] = a[k] + t[k + 1] /\ b[k + 1] = b[k] + y[k + 1]
             /\ p[k + 1] = p[k] + t[k + 1] * y[k + 1]
  <2>1. k + 1 \in 1..n /\ (k + 1) - 1 = k
    BY <1>2
  <2>2. t[k + 1] \in Int /\ y[k + 1] \in Int
    BY <2>1 DEF Sums
  <2>3. a[k + 1] = a[k] + t[k + 1] /\ b[k + 1] = b[k] + y[k + 1]
    BY <2>1 DEF Sums, IsSum
  <2> DEFINE q == [i \in 1..n |-> t[i] * y[i]]
  <2>4. IsSum(q, n, p) /\ q[k + 1] = t[k + 1] * y[k + 1]
    BY <2>1 DEF Sums
  <2> HIDE DEF q
  <2>5. p[k + 1] = p[k] + q[k + 1]
    BY <2>1, <2>4 DEF IsSum
  <2> QED
    BY <2>1, <2>2, <2>3, <2>4, <2>5
<1> QED
  BY <1>1, <1>2

(* A point above m others adds no negative amount.                         *)
LEMMA PointAboveAdds ==
  ASSUME NEW n \in Nat, NEW t, NEW y, NEW a, NEW b, NEW p, Sums(n, t, y, a, b, p),
         NEW m \in 0..n, NEW u \in Int, NEW v \in Int,
         \A i \in 1..m : t[i] <= u /\ y[i] <= v
  PROVE  p[m] - u * b[m] - v * a[m] + m * (u * v) >= 0
<1> DEFINE Added(k) == p[k] - u * b[k] - v * a[k] + k * (u * v)
           Fine == {k \in Nat : k <= m => Added(k) >= 0}
<1>1. 0 \in Fine
  <2>1. p[0] = 0 /\ b[0] = 0 /\ a[0] = 0
    BY DEF Sums, IsSum
  <2>2. u * 0 = 0 /\ v * 0 = 0 /\ 0 * (u * v) = 0
    BY Z3
  <2> QED
    BY <2>1, <2>2
<1>2. ASSUME NEW k \in Nat, k \in Fine
      PROVE  k + 1 \in Fine
  <2> SUFFICES ASSUME k + 1 <= m
               PROVE  Added(k + 1) >= 0
    OBVIOUS
  <2>1. k \in 0..n /\ k < n /\ k <= m /\ k + 1 \in 1..m /\ k \in Int
    OBVIOUS
  <2>2. /\ a[k] \in Int /\ b[k] \in Int /\ p[k] \in Int
        /\ t[k + 1] \in Int /\ y[k + 1] \in Int
        /\ a[k + 1] = a[k] + t[k + 1] /\ b[k + 1] = b[k] + y[k + 1]
        /\ p[k + 1] = p[k] + t[k + 1] * y[k + 1]
    BY <2>1, SumsGrow
  <2>3. t[k + 1] <= u /\ y[k + 1] <= v
    BY <2>1
  <2>4. Added(k) >= 0
    BY <1>2, <2>1
  <2>5. Added(k) <= Added(k + 1)
    <3>1. p[k] - u * b[k] - v * a[k] + k * (u * v)
            <= (p[k] + t[k + 1] * y[k + 1]) - u * (b[k] + y[k + 1]) - v * (a[k] + t[k + 1])
                 + (k + 1) * (u * v)
      BY <2>1, <2>2, <2>3, OneMoreDistance
    <3> QED
      BY <2>2, <3>1
  <2>6. Added(k) \in Int /\ Added(k + 1) \in Int
    BY <2>1, <2>2
  <2> HIDE DEF Added
  <2> QED
    BY <2>4, <2>5, <2>6
<1>3. Nat \subseteq Fine
  <2> HIDE DEF Fine
  <2> QED
    BY <1>1, <1>2, SetInduction
<1> QED
  BY <1>3

(* The deviations of two sequences that rise together do not cancel.       *)
LEMMA RiseTogether ==
  ASSUME NEW n \in Nat, NEW t, NEW y, NEW a, NEW b, NEW p, Sums(n, t, y, a, b, p),
         Rises(t, n), Rises(y, n)
  PROVE  n * p[n] - a[n] * b[n] >= 0
<1> DEFINE Upto(k) == k * p[k] - a[k] * b[k]
           Fine == {k \in Nat : k <= n => Upto(k) >= 0}
<1>1. 0 \in Fine
  <2>1. p[0] = 0 /\ b[0] = 0 /\ a[0] = 0
    BY DEF Sums, IsSum
  <2> QED
    BY <2>1
<1>2. ASSUME NEW k \in Nat, k \in Fine
      PROVE  k + 1 \in Fine
  <2> SUFFICES ASSUME k + 1 <= n
               PROVE  Upto(k + 1) >= 0
    OBVIOUS
  <2>1. k \in 0..n /\ k < n /\ k \in Int
    OBVIOUS
  <2>2. /\ a[k] \in Int /\ b[k] \in Int /\ p[k] \in Int
        /\ k + 1 \in 1..n /\ t[k + 1] \in Int /\ y[k + 1] \in Int
        /\ a[k + 1] = a[k] + t[k + 1] /\ b[k + 1] = b[k] + y[k + 1]
        /\ p[k + 1] = p[k] + t[k + 1] * y[k + 1]
    BY <2>1, SumsGrow
  <2> DEFINE more == p[k] - t[k + 1] * b[k] - y[k + 1] * a[k] + k * (t[k + 1] * y[k + 1])
  <2>3. more >= 0
    <3>1. \A i \in 1..k : t[i] <= t[k + 1] /\ y[i] <= y[k + 1]
      BY <2>1, <2>2 DEF Rises
    <3> QED
      BY <2>1, <2>2, <3>1, PointAboveAdds
  <2>4. Upto(k + 1) = Upto(k) + more
    <3>1. (k + 1) * (p[k] + t[k + 1] * y[k + 1]) - (a[k] + t[k + 1]) * (b[k] + y[k + 1])
            = (k * p[k] - a[k] * b[k])
                + (p[k] - t[k + 1] * b[k] - y[k + 1] * a[k] + k * (t[k + 1] * y[k + 1]))
      <4> DEFINE pk == p[k]
                 ak == a[k]
                 bk == b[k]
                 tk == t[k + 1]
                 yk == y[k + 1]
      <4>1. k \in Int /\ pk \in Int /\ ak \in Int /\ bk \in Int /\ tk \in Int /\ yk \in Int
        BY <2>1, <2>2
      <4> HIDE DEF pk, ak, bk, tk, yk
      <4>2. (k + 1) * (pk + tk * yk) - (ak + tk) * (bk + yk)
              = (k * pk - ak * bk) + (pk - tk * bk - yk * ak + k * (tk * yk))
        BY <4>1, OneMorePoint
      <4> QED
        BY <4>2 DEF pk, ak, bk, tk, yk
    <3> QED
      BY <2>2, <3>1
  <2>5. Upto(k) >= 0
    BY <1>2, <2>1
  <2>6. Upto(k) \in Int /\ more \in Int
    BY <2>1, <2>2
  <2> HIDE DEF Upto, more
  <2> QED
    BY <2>3, <2>4, <2>5, <2>6
<1>3. Nat \subseteq Fine
  <2> HIDE DEF Fine
  <2> QED
    BY <1>1, <1>2, SetInduction
<1> QED
  BY <1>3

(* So does Deviation() of two sequences that rise together.                *)
LEMMA DeviationOfRising ==
  ASSUME NEW n \in Nat, NEW t \in [1..n -> Int], NEW y \in [1..n -> Int],
         Rises(t, n), Rises(y, n)
  PROVE  Deviation(t, y) >= 0
<1> DEFINE q == [i \in 1..n |-> t[i] * y[i]]
<1>1. q \in [1..n -> Int]
  OBVIOUS
<1>2. Deviation(t, y) = n * Total(q) - Total(t) * Total(y)
  <2>1. Len(t) = n /\ DOMAIN t = 1..n
    OBVIOUS
  <2> QED
    BY <2>1 DEF Deviation
<1>3. PICK a \in [0..n -> Int] : IsSum(t, n, a) /\ Total(t) = a[n]
  BY RunningSum
<1>4. PICK b \in [0..n -> Int] : IsSum(y, n, b) /\ Total(y) = b[n]
  BY RunningSum
<1>5. PICK p \in [0..n -> Int] : IsSum(q, n, p) /\ Total(q) = p[n]
  <2> HIDE DEF q
  <2> QED
    BY <1>1, RunningSum
<1>6. Sums(n, t, y, a, b, p)
  BY <1>3, <1>4, <1>5 DEF Sums
<1>7. n * p[n] - a[n] * b[n] >= 0
  BY <1>6, RiseTogether
<1> QED
  BY <1>2, <1>3, <1>4, <1>5, <1>7

(* And a sequence that does not rise deviates the other way.               *)
LEMMA DeviationOfFalling ==
  ASSUME NEW n \in Nat, NEW t \in [1..n -> Int], NEW y \in [1..n -> Int],
         Rises(t, n), \A i, j \in 1..n : i <= j => y[j] <= y[i]
  PROVE  Deviation(t, y) <= 0
<1> DEFINE z == [i \in 1..n |-> -y[i]]
           q == [i \in 1..n |-> t[i] * y[i]]
           r == [i \in 1..n |-> t[i] * z[i]]
<1>1. z \in [1..n -> Int] /\ \A i \in 1..n : z[i] = -y[i] /\ y[i] \in Int
  OBVIOUS
<1> HIDE DEF z
<1>10. Rises(z, n)
  BY <1>1 DEF Rises
<1>2. q \in [1..n -> Int] /\ r \in [1..n -> Int]
  BY <1>1
<1>3. \A i \in 1..n : r[i] = -q[i]
  <2> SUFFICES ASSUME NEW i \in 1..n
               PROVE  t[i] * z[i] = -(t[i] * y[i])
    OBVIOUS
  <2>1. t[i] \in Int /\ y[i] \in Int /\ z[i] = -y[i]
    BY <1>1
  <2> DEFINE c == t[i]
             d == y[i]
  <2>2. c \in Int /\ d \in Int
    BY <2>1
  <2> HIDE DEF c, d
  <2>3. c * (-d) = -(c * d)
    BY <2>2, Z3
  <2> QED
    BY <2>1, <2>3 DEF c, d
<1>4. /\ Deviation(t, y) = n * Total(q) - Total(t) * Total(y)
      /\ Deviation(t, z) = n * Total(r) - Total(t) * Total(z)
  <2>1. Len(t) = n /\ DOMAIN t = 1..n
    OBVIOUS
  <2> QED
    BY <2>1 DEF Deviation
<1> HIDE DEF q, r
<1>5. /\ Total(z) = -Total(y) /\ Total(y) \in Int
      /\ Total(r) = -Total(q) /\ Total(q) \in Int
  BY <1>1, <1>2, <1>3, TotalNegated
<1>6. Total(t) \in Int
  <2>1. PICK a \in [0..n -> Int] : IsSum(t, n, a) /\ Total(t) = a[n]
    BY RunningSum
  <2> QED
    BY <2>1
<1>7. Deviation(t, z) >= 0
  BY <1>1, <1>10, DeviationOfRising
<1> DEFINE c == Total(t)
           d == Total(y)
           e == Total(q)
<1>8. n * (-e) - c * (-d) = -(n * e - c * d)
  <2>1. c \in Int /\ d \in Int /\ e \in Int /\ n \in Int
    BY <1>5, <1>6
  <2> HIDE DEF c, d, e
  <2> QED
    BY <2>1, Z3
<1>9. n * e - c * d \in Int
  BY <1>5, <1>6
<1> QED
  BY <1>4, <1>5, <1>7, <1>8, <1>9

(* A deviation is a number.                                                *)
LEMMA DeviationIsInt ==
  ASSUME NEW n \in Nat, NEW t \in [1..n -> Int], NEW y \in [1..n -> Int]
  PROVE  Deviation(t, y) \in Int
<1> DEFINE q == [i \in 1..n |-> t[i] * y[i]]
<1>1. q \in [1..n -> Int]
  OBVIOUS
<1>2. Deviation(t, y) = n * Total(q) - Total(t) * Total(y)
  <2>1. Len(t) = n /\ DOMAIN t = 1..n
    OBVIOUS
  <2> QED
    BY <2>1 DEF Deviation
<1>3. \A f \in [1..n -> Int] : Total(f) \in Int
  <2> TAKE f \in [1..n -> Int]
  <2>1. PICK s \in [0..n -> Int] : IsSum(f, n, s) /\ Total(f) = s[n]
    BY RunningSum
  <2> QED
    BY <2>1
<1>4. n * Total(q) \in Int /\ Total(t) * Total(y) \in Int
  <2> HIDE DEF q
  <2>1. Total(q) \in Int /\ Total(t) \in Int /\ Total(y) \in Int
    BY <1>1, <1>3
  <2> QED
    BY <2>1
<1> HIDE DEF q
<1> QED
  BY <1>2, <1>4

-----------------------------------------------------------------------------
(* The trend.                                                              *)

Reading == [level : Nat, gap : Nat]

(* A sequence that never steps down rises.                                 *)
LEMMA NeverDownRises ==
  ASSUME NEW n \in Nat, NEW f \in [1..n -> Int], \A i \in 2..n : f[i - 1] <= f[i]
  PROVE  Rises(f, n)
<1> DEFINE Fine == {j \in Nat : j <= n => \A i \in 1..j : f[i] <= f[j]}
<1>1. 0 \in Fine
  OBVIOUS
<1>2. ASSUME NEW j \in Nat, j \in Fine
      PROVE  j + 1 \in Fine
  <2> SUFFICES ASSUME j + 1 <= n, NEW i \in 1..j + 1
               PROVE  f[i] <= f[j + 1]
    OBVIOUS
  <2>1. CASE i = j + 1
    <3>1. f[i] \in Int
      OBVIOUS
    <3> QED
      BY <2>1, <3>1
  <2>2. CASE i \in 1..j
    <3>1. f[i] <= f[j]
      BY <1>2, <2>2
    <3>2. j + 1 \in 2..n /\ (j + 1) - 1 = j
      BY <2>2
    <3>3. f[j] <= f[j + 1]
      BY <3>2
    <3>4. f[i] \in Int /\ f[j] \in Int /\ f[j + 1] \in Int
      BY <2>2
    <3> QED
      BY <3>1, <3>3, <3>4
  <2> QED
    BY <2>1, <2>2
<1>3. Nat \subseteq Fine
  <2> HIDE DEF Fine
  <2> QED
    BY <1>1, <1>2, SetInduction
<1> QED
  BY <1>3 DEF Rises

(* The times of the samples are in order.                                  *)
LEMMA TimesRise ==
  ASSUME NEW w \in Seq(Reading)
  PROVE  Times(w) \in [1..Len(w) -> Int] /\ Rises(Times(w), Len(w))
<1> DEFINE n == Len(w)
           gaps == [j \in 1..n |-> IF j = 1 THEN 0 ELSE w[j].gap]
<1>1. n \in Nat /\ DOMAIN w = 1..n /\ \A j \in 1..n : w[j].gap \in Nat
  <2>1. n \in Nat /\ DOMAIN w = 1..n /\ \A j \in 1..n : w[j] \in Reading
    OBVIOUS
  <2> QED
    BY <2>1 DEF Reading
<1>2. gaps \in [1..n -> Nat] /\ gaps \in [1..n -> Int]
  BY <1>1
<1>3. PICK s \in [0..n -> Int] : IsSum(gaps, n, s)
  <2> HIDE DEF gaps, n
  <2> QED
    BY <1>1, <1>2, RunningSum
<1>4. ASSUME NEW i \in 1..n
      PROVE  Times(w)[i] = s[i]
  <2> DEFINE first == [j \in 1..i |-> IF j = 1 THEN 0 ELSE w[j].gap]
  <2>1. first \in [1..i -> Int] /\ \A j \in 1..i : first[j] = gaps[j]
    BY <1>1
  <2>2. Times(w)[i] = Total(first)
    BY <1>1 DEF Times
  <2> HIDE DEF first, gaps
  <2>3. IsSum(first, i, s)
    BY <1>1, <1>3, <2>1 DEF IsSum
  <2>4. Total(first) = s[i]
    BY <1>1, <2>1, <2>3, TotalIs
  <2> QED
    BY <2>2, <2>4
<1>5. Times(w) \in [1..n -> Int]
  <2>1. Times(w) = [i \in 1..n |-> Times(w)[i]]
    BY <1>1 DEF Times
  <2>2. \A i \in 1..n : Times(w)[i] \in Int
    BY <1>3, <1>4
  <2> HIDE DEF n
  <2> QED
    BY <2>1, <2>2
<1>6. ASSUME NEW i \in 2..n
      PROVE  Times(w)[i - 1] <= Times(w)[i]
  <2>1. i \in 1..n /\ i - 1 \in 1..n /\ i - 1 \in 0..n
    BY <1>1
  <2>2. s[i] = s[i - 1] + gaps[i] /\ gaps[i] \in Nat /\ s[i - 1] \in Int
    <3> HIDE DEF gaps, n
    <3> QED
      BY <1>2, <1>3, <2>1 DEF IsSum
  <2> HIDE DEF gaps, n
  <2> QED
    BY <1>4, <2>1, <2>2
<1> HIDE DEF n
<1>7. Rises(Times(w), n)
  BY <1>1, <1>5, <1>6, NeverDownRises
<1> QED
  BY <1>5, <1>7 DEF n

(* A slope that the t-test believes is not flat.                           *)
LEMMA SignificantIsNotFlat ==
  ASSUME NEW f, NEW n, Significant(f, n), f.tt \in Int, f.ty \in Int, f.tt > 0
  PROVE  f.ty # 0
<1>1. SlopeFloor \in Nat \ {0}
  BY TankAssumption
<1>2. 100 * Size(f.ty) >= SlopeFloor * f.tt
  BY DEF Significant
<1>3. SlopeFloor * f.tt > 0
  BY <1>1
<1> SUFFICES ASSUME f.ty = 0
             PROVE  FALSE
  OBVIOUS
<1>4. Size(f.ty) = 0
  BY DEF Size
<1> QED
  BY <1>1, <1>2, <1>3, <1>4

(* The trend of a window is backed by the window: it has enough samples,   *)
(* and two neighbours that moved that way.                                 *)
LEMMA TrendIsBacked ==
  ASSUME NEW w \in Seq(Reading)
  PROVE  /\ TrendOf(w) # "UNKNOWN" => Len(w) >= MinSamples
         /\ TrendOf(w) = "FALLING" => \E i \in 2..Len(w) : w[i].level < w[i - 1].level
         /\ TrendOf(w) = "RISING" => \E i \in 2..Len(w) : w[i].level > w[i - 1].level
<1> DEFINE n == Len(w)
           t == Times(w)
           y == [i \in DOMAIN w |-> w[i].level]
<1>1. n \in Nat /\ DOMAIN w = 1..n /\ MinSamples \in Nat
  BY TankAssumption
<1>2. y \in [1..n -> Int] /\ \A i \in 1..n : y[i] = w[i].level /\ y[i] \in Int
  <2>1. \A i \in 1..n : w[i] \in Reading
    OBVIOUS
  <2>2. \A i \in 1..n : w[i].level \in Int
    BY <2>1 DEF Reading
  <2> QED
    BY <1>1, <2>2
<1>3. t \in [1..n -> Int] /\ Rises(t, n)
  BY TimesRise
<1>4. Fit(w).tt = Deviation(t, t) /\ Fit(w).ty = Deviation(t, y)
  BY DEF Fit
<1> HIDE DEF t, y
<1>5. Deviation(t, t) \in Int /\ Deviation(t, y) \in Int
  BY <1>1, <1>2, <1>3, DeviationIsInt
<1>6. (\A i \in 2..n : w[i - 1].level <= w[i].level) => Deviation(t, y) >= 0
  <2> SUFFICES ASSUME \A i \in 2..n : w[i - 1].level <= w[i].level
               PROVE  Deviation(t, y) >= 0
    OBVIOUS
  <2>1. \A i \in 2..n : y[i - 1] <= y[i]
    <3> TAKE i \in 2..n
    <3>1. i \in 1..n /\ i - 1 \in 1..n
      BY <1>1
    <3> QED
      BY <1>2, <3>1
  <2> HIDE DEF n
  <2>2. Rises(y, n)
    BY <1>1, <1>2, <2>1, NeverDownRises
  <2> QED
    BY <1>1, <1>2, <1>3, <2>2, DeviationOfRising
<1>7. (\A i \in 2..n : w[i].level <= w[i - 1].level) => Deviation(t, y) <= 0
  <2> SUFFICES ASSUME \A i \in 2..n : w[i].level <= w[i - 1].level
               PROVE  Deviation(t, y) <= 0
    OBVIOUS
  <2> DEFINE z == [i \in 1..n |-> -y[i]]
  <2>1. z \in [1..n -> Int] /\ \A i \in 1..n : z[i] = -y[i] /\ y[i] \in Int
    BY <1>1, <1>2
  <2>2. \A i \in 2..n : z[i - 1] <= z[i]
    <3> HIDE DEF z
    <3> TAKE i \in 2..n
    <3>1. i \in 1..n /\ i - 1 \in 1..n
      BY <1>1
    <3>2. y[i] <= y[i - 1] /\ y[i] \in Int /\ y[i - 1] \in Int
      BY <1>2, <3>1
    <3>3. z[i] = -y[i] /\ z[i - 1] = -y[i - 1]
      BY <2>1, <3>1
    <3> QED
      BY <3>2, <3>3
  <2> HIDE DEF n, z
  <2>3. Rises(z, n)
    BY <1>1, <2>1, <2>2, NeverDownRises
  <2>4. \A i, j \in 1..n : i <= j => y[j] <= y[i]
    <3> SUFFICES ASSUME NEW i \in 1..n, NEW j \in 1..n, i <= j
                 PROVE  y[j] <= y[i]
      OBVIOUS
    <3>1. z[i] <= z[j]
      BY <2>3 DEF Rises
    <3>2. z[i] = -y[i] /\ z[j] = -y[j] /\ y[i] \in Int /\ y[j] \in Int
      BY <2>1
    <3> QED
      BY <3>1, <3>2
  <2> QED
    BY <1>1, <1>2, <1>3, <2>4, DeviationOfFalling
<1>8. Len(w) < MinSamples => TrendOf(w) = "UNKNOWN"
  BY <1>1 DEF TrendOf
<1>9. TrendOf(w) = "FALLING" => Fit(w).ty < 0
  BY <1>1 DEF TrendOf
<1>10. TrendOf(w) = "RISING" => Fit(w).ty > 0
  <2> SUFFICES ASSUME TrendOf(w) = "RISING"
               PROVE  Fit(w).ty > 0
    OBVIOUS
  <2> DEFINE f == Fit(w)
  <2>1. f.tt \in Int /\ f.ty \in Int
    BY <1>4, <1>5
  <2>2. TrendOf(w) = CASE Len(w) < MinSamples \/ f.tt <= 0 -> "UNKNOWN"
                       [] Len(w) >= MinSamples /\ f.tt > 0 /\ ~Significant(f, Len(w)) -> "STEADY"
                       [] OTHER -> IF f.ty < 0 THEN "FALLING" ELSE "RISING"
    BY DEF TrendOf
  <2> HIDE DEF f
  <2>3. ~(Len(w) < MinSamples \/ f.tt <= 0) /\ Significant(f, Len(w)) /\ ~(f.ty < 0)
    BY <1>1, <2>1, <2>2
  <2>4. f.ty # 0
    BY <2>1, <2>3, SignificantIsNotFlat
  <2> QED
    BY <2>1, <2>3, <2>4 DEF f
<1>11. \A i \in 2..n : w[i].level \in Int /\ w[i - 1].level \in Int
  <2> TAKE i \in 2..n
  <2>1. i \in 1..n /\ i - 1 \in 1..n
    BY <1>1
  <2> QED
    BY <1>2, <2>1
<1>12. TrendOf(w) # "UNKNOWN" => Len(w) >= MinSamples
  BY <1>1, <1>8
<1>13. TrendOf(w) = "FALLING" => \E i \in 2..n : w[i].level < w[i - 1].level
  BY <1>4, <1>5, <1>6, <1>9, <1>11
<1>14. TrendOf(w) = "RISING" => \E i \in 2..n : w[i].level > w[i - 1].level
  <2> SUFFICES ASSUME TrendOf(w) = "RISING", \A i \in 2..n : ~(w[i].level > w[i - 1].level)
               PROVE  FALSE
    OBVIOUS
  <2> HIDE DEF n
  <2>1. \A i \in 2..n : w[i].level <= w[i - 1].level
    BY <1>11
  <2>2. Deviation(t, y) <= 0 /\ Deviation(t, y) > 0
    BY <1>4, <1>7, <1>10, <2>1
  <2> QED
    BY <1>5, <2>2
<1> QED
  BY <1>12, <1>13, <1>14

-----------------------------------------------------------------------------
(* The monitor publishes the trend of the window it holds, and the window  *)
(* holds no sample from before the sensor was last unhealthy.              *)
TankInv ==
    /\ tank.window \in Seq(Reading) /\ Len(tank.window) <= SampleCount
    /\ tank.sinceSample \in Nat
    /\ tank = [window |-> tank.window, sinceSample |-> tank.sinceSample,
               status |-> tank.status, trend |-> tank.trend]
    /\ healthyRun \in 0..MinSamples
    /\ Len(tank.window) <= healthyRun \/ healthyRun = MinSamples
    /\ tank.trend # "UNKNOWN" => tank.status = "OK" /\ tank.trend = TrendOf(tank.window)

(* The limits are numbers.                                                 *)
LEMMA TankNumbers ==
  /\ SampleCount \in Nat /\ MinSamples \in Nat
  /\ 2 < MinSamples /\ MinSamples <= SampleCount
  /\ \A volts \in Volts : LevelOf(volts) \in Nat
<1>1. /\ SampleCount \in Nat /\ MinSamples \in Nat /\ 2 < MinSamples /\ MinSamples <= SampleCount
      /\ Volts \subseteq Nat /\ Zero \in Nat /\ FullScale \in Nat /\ Zero < FullScale
  BY TankAssumption
<1> QED
  BY <1>1 DEF LevelOf

(* A tank that has not been sampled has no trend.                          *)
LEMMA InitTankInv == TankInit => TankInv
<1> SUFFICES ASSUME TankInit
             PROVE  TankInv
  OBVIOUS
<1>1. /\ tank.window = << >> /\ tank.sinceSample = 0 /\ tank.trend = "UNKNOWN"
      /\ healthyRun = 0
      /\ tank = [window |-> tank.window, sinceSample |-> tank.sinceSample,
                 status |-> tank.status, trend |-> tank.trend]
  BY DEF TankInit, TankBegin
<1>2. << >> \in Seq(Reading) /\ Len(<< >>) = 0
  OBVIOUS
<1> QED
  BY <1>1, <1>2, TankNumbers DEF TankInv

(* A sample more, or one for another: the window stays within its bound    *)
(* and is no longer than the healthy run.                                  *)
LEMMA WindowKept ==
  ASSUME NEW w \in Seq(Reading), Len(w) <= SampleCount, NEW x \in Reading
  PROVE  LET kept == IF Len(w) = SampleCount THEN Tail(w) ELSE w
             v == Append(kept, x)
         IN  /\ v \in Seq(Reading) /\ Len(v) <= SampleCount
             /\ Len(v) = IF Len(w) = SampleCount THEN SampleCount ELSE Len(w) + 1
<1>1. CASE Len(w) = SampleCount
  <2>1. w # << >> /\ SampleCount \in Nat
    BY <1>1, TankNumbers
  <2>2. Tail(w) \in Seq(Reading) /\ Len(Tail(w)) = SampleCount - 1
    BY <1>1, <2>1
  <2> QED
    BY <1>1, <2>1, <2>2
<1>2. CASE Len(w) # SampleCount
  <2>1. Len(w) + 1 <= SampleCount
    BY <1>2, TankNumbers
  <2> QED
    BY <1>2, <2>1
<1> QED
  BY <1>1, <1>2

(* One tick keeps the invariant.                                           *)
LEMMA TickTankInv ==
  ASSUME TankInv, NEW d \in TankSteps, NEW volts \in Volts, TankTick(d, volts)
  PROVE  TankInv'
<1> DEFINE since == tank.sinceSample + d
           aged == [tank EXCEPT !.sinceSample = @ + d]
           level == LevelOf(volts)
<1>1. d \in Nat /\ since \in Nat /\ level \in Nat
  <2>1. d \in Nat
    BY TankAssumption
  <2>2. level \in Nat
    BY TankNumbers
  <2>3. since \in Nat
    BY <2>1 DEF TankInv
  <2> QED
    BY <2>1, <2>2, <2>3
<1>2. aged = [window |-> tank.window, sinceSample |-> since,
              status |-> tank.status, trend |-> tank.trend]
  BY DEF TankInv
<1> HIDE DEF aged, since, level
<1>3. CASE tank' = aged /\ UNCHANGED healthyRun
  BY <1>1, <1>2, <1>3 DEF TankInv
<1>4. ASSUME NEW s, tank' = Unhealthy(aged, s), healthyRun' = 0
      PROVE  TankInv'
  <2>1. tank' = [window |-> << >>, sinceSample |-> 0, status |-> s, trend |-> "UNKNOWN"]
    BY <1>2, <1>4 DEF Unhealthy
  <2>2. << >> \in Seq(Reading) /\ Len(<< >>) = 0
    OBVIOUS
  <2> QED
    BY <1>4, <2>1, <2>2, TankNumbers DEF TankInv
<1>5. ASSUME tank' = Healthy(aged, level),
             healthyRun' = IF healthyRun < MinSamples THEN healthyRun + 1 ELSE MinSamples
      PROVE  TankInv'
  <2> DEFINE kept == IF Len(tank.window) = SampleCount THEN Tail(tank.window) ELSE tank.window
             w == Append(kept, [level |-> level, gap |-> since])
  <2>1. aged.window = tank.window /\ aged.sinceSample = since
    BY <1>2
  <2>2. tank' = [window |-> w, sinceSample |-> 0, status |-> "OK", trend |-> TrendOf(w)]
    BY <1>5, <2>1 DEF Healthy
  <2>3. [level |-> level, gap |-> since] \in Reading
    BY <1>1 DEF Reading
  <2>4. /\ w \in Seq(Reading) /\ Len(w) <= SampleCount
        /\ Len(w) = IF Len(tank.window) = SampleCount THEN SampleCount ELSE Len(tank.window) + 1
    BY <2>3, WindowKept DEF TankInv
  <2> HIDE DEF w
  <2>5. healthyRun' \in 0..MinSamples
    BY <1>5, TankNumbers DEF TankInv
  <2>6. Len(w) <= healthyRun' \/ healthyRun' = MinSamples
    <3>1. Len(tank.window) \in Nat
      BY DEF TankInv
    <3> QED
      BY <1>5, <2>4, <3>1, TankNumbers DEF TankInv
  <2>7. tank'.window = w /\ tank'.sinceSample = 0 /\ tank'.status = "OK" /\ tank'.trend = TrendOf(w)
    BY <2>2
  <2>8. tank' = [window |-> tank'.window, sinceSample |-> tank'.sinceSample,
                 status |-> tank'.status, trend |-> tank'.trend]
    BY <2>2
  <2> QED
    BY <2>4, <2>5, <2>6, <2>7, <2>8 DEF TankInv
<1> QED
  BY <1>3, <1>4, <1>5 DEF TankTick, aged, level

(* Every step of the monitor keeps it.                                     *)
THEOREM NextTankInv == TankInv /\ [TankNext]_tankVars => TankInv'
<1> SUFFICES ASSUME TankInv, [TankNext]_tankVars
             PROVE  TankInv'
  OBVIOUS
<1>1. CASE TankNext
  BY <1>1, TickTankInv DEF TankNext
<1>2. CASE UNCHANGED tankVars
  BY <1>2 DEF TankInv, tankVars
<1> QED
  BY <1>1, <1>2

(* A trend that the monitor publishes was earned by enough samples since   *)
(* the sensor was last unhealthy, and by a level that moved that way: for  *)
(* every window, every interval and every sequence of readings.            *)
THEOREM TrendEarned == TankSpec => []TrendIsEarned
<1>1. TankInv => TrendIsEarned
  <2> SUFFICES ASSUME TankInv
               PROVE  TrendIsEarned
    OBVIOUS
  <2> DEFINE w == tank.window
  <2>1. w \in Seq(Reading)
    BY DEF TankInv
  <2>2. /\ TrendOf(w) # "UNKNOWN" => Len(w) >= MinSamples
        /\ TrendOf(w) = "FALLING" => \E i \in 2..Len(w) : w[i].level < w[i - 1].level
        /\ TrendOf(w) = "RISING" => \E i \in 2..Len(w) : w[i].level > w[i - 1].level
    <3> HIDE DEF w
    <3> QED
      BY <2>1, TrendIsBacked
  <2>3. tank.trend # "UNKNOWN" => tank.status = "OK" /\ tank.trend = TrendOf(w)
    BY DEF TankInv
  <2>4. tank.trend # "UNKNOWN" => healthyRun >= MinSamples
    <3>1. Len(w) \in Nat
      BY <2>1
    <3> QED
      BY <2>2, <2>3, <3>1, TankNumbers DEF TankInv
  <2> QED
    BY <2>2, <2>3, <2>4 DEF TrendIsEarned
<1> QED
  BY <1>1, InitTankInv, NextTankInv, PTL DEF TankSpec

-----------------------------------------------------------------------------
(* The record of the last reset.                                           *)

(* A record whose magic is gone says nothing; once reported, it has one.   *)
RecordOK ==
    /\ record \in [magic : BOOLEAN, reason : CpuFaults \cup {"POWER_ON"}, faults : Nat,
                   boots : Nat]
    /\ ~record.magic => record = NoRecord
    /\ stage # "down" => record.magic

(* What the record and the flags say is backed by a cause that has not yet *)
(* been reported, and while the device is down one of the two says         *)
(* something.                                                              *)
Backed ==
    /\ record.reason # "POWER_ON" => record.reason \in causes
    /\ flags \subseteq {"POWER_ON", "WATCHDOG", "SOFTWARE"}
    /\ "WATCHDOG" \in flags => "WATCHDOG" \in causes
    /\ "SOFTWARE" \in flags => causes \cap CpuFaults # {}
    /\ "POWER_ON" \in flags => "POWER_ON" \in causes
    /\ stage = "down" => flags # {}

ResetInv ==
    /\ RecordOK /\ Backed
    /\ faultsKept = record.faults

-----------------------------------------------------------------------------
(* A power-on begins with nothing recorded and its flag raised.            *)
THEOREM InitResetInv == ResetInit => ResetInv
  BY DEF ResetInit, ResetInv, RecordOK, Backed, NoRecord, CpuFaults

(* Every reset raises a flag for its cause; a report clears both sides.    *)
THEOREM NextResetInv == ResetInv /\ [ResetNext]_resetVars => ResetInv'
<1> SUFFICES ASSUME ResetInv, [ResetNext]_resetVars
             PROVE  ResetInv'
  OBVIOUS
<1>1. ASSUME NEW kept \in BOOLEAN, NEW kind \in CpuFaults, Fault(kind, kept)
      PROVE  ResetInv'
  <2> DEFINE counted == IF record.magic THEN record ELSE [NoRecord EXCEPT !.magic = TRUE]
             noted == [counted EXCEPT !.reason = kind, !.faults = @ + 1]
  <2>1. /\ counted \in [magic : BOOLEAN, reason : CpuFaults \cup {"POWER_ON"}, faults : Nat,
                        boots : Nat]
        /\ counted.magic /\ counted.faults = record.faults
    BY DEF ResetInv, RecordOK, NoRecord
  <2>2. Reset(noted, flags \cup {"SOFTWARE"}, kind, kept)
    BY <1>1 DEF Fault
  <2>3. faultsKept' = IF kept THEN faultsKept + 1 ELSE 0
    BY <1>1 DEF Fault
  <2> HIDE DEF counted
  <2>4. /\ noted \in [magic : BOOLEAN, reason : CpuFaults \cup {"POWER_ON"}, faults : Nat,
                      boots : Nat]
        /\ noted.magic /\ noted.reason = kind /\ noted.faults = record.faults + 1
    <3> DEFINE n == counted.faults + 1
    <3>1. n \in Nat /\ n = record.faults + 1 /\ noted = [counted EXCEPT !.reason = kind, !.faults = n]
      BY <2>1
    <3> HIDE DEF n, noted
    <3> QED
      BY <2>1, <3>1
  <2> HIDE DEF noted
  <2>5. RecordOK'
    <3>1. (record' = noted \/ record' = NoRecord) /\ stage' = "down"
      BY <2>2 DEF Reset
    <3>2. CASE record' = noted
      BY <2>4, <3>1, <3>2 DEF RecordOK
    <3>3. CASE record' = NoRecord
      BY <3>1, <3>3 DEF RecordOK, NoRecord
    <3> QED
      BY <3>1, <3>2, <3>3
  <2>6. Backed'
    BY <2>2, <2>4 DEF Reset, Backed, ResetInv, NoRecord, CpuFaults
  <2>7. (faultsKept = record.faults)'
    BY <2>2, <2>3, <2>4 DEF Reset, ResetInv, NoRecord
  <2> QED
    BY <2>5, <2>6, <2>7 DEF ResetInv
<1>2. ASSUME NEW kept \in BOOLEAN, WatchdogExpires(kept)
      PROVE  ResetInv'
  BY <1>2 DEF WatchdogExpires, Reset, ResetInv, RecordOK, Backed, NoRecord, CpuFaults
<1>3. ASSUME NEW kept \in BOOLEAN, PowerCut(kept)
      PROVE  ResetInv'
  BY <1>3 DEF PowerCut, Reset, ResetInv, RecordOK, Backed, NoRecord, CpuFaults
<1>4. CASE ConsumeResetReason
  <2> DEFINE rec == IF record.magic THEN record ELSE [NoRecord EXCEPT !.magic = TRUE]
  <2>1. /\ rec \in [magic : BOOLEAN, reason : CpuFaults \cup {"POWER_ON"}, faults : Nat,
                    boots : Nat]
        /\ rec.magic /\ rec.faults = record.faults
    BY DEF ResetInv, RecordOK, NoRecord
  <2>2. /\ record' = [rec EXCEPT !.reason = "POWER_ON"]
        /\ flags' = {} /\ causes' = {} /\ stage' = "consumed" /\ faultsKept' = faultsKept
    BY <1>4 DEF ConsumeResetReason
  <2> HIDE DEF rec
  <2> QED
    BY <2>1, <2>2 DEF ResetInv, RecordOK, Backed
<1>5. CASE NoteBoot
  BY <1>5 DEF NoteBoot, ResetInv, RecordOK, Backed, NoRecord
<1>6. CASE UNCHANGED resetVars
  BY <1>6 DEF resetVars, ResetInv, RecordOK, Backed
<1> QED
  BY <1>1, <1>2, <1>3, <1>4, <1>5, <1>6 DEF ResetNext

-----------------------------------------------------------------------------
(* The reason that consumeResetReason() reports is a reset since the last  *)
(* report, and its count of faults is theirs: for every order of faults,   *)
(* watchdog resets and power cuts, with or without the RAM.                *)
THEOREM ReportTrue == ResetSpec => ReportIsTrue
<1>1. ResetInv /\ ConsumeResetReason
        => /\ boot'.faults = faultsKept
           /\ \/ boot'.reason \in causes
              \/ boot'.reason = "HARD_FAULT" /\ causes \cap CpuFaults # {}
  BY DEF ConsumeResetReason, ResetInv, RecordOK, Backed, HardwareReason, NoRecord, CpuFaults
<1>2. ResetNext /\ stage = "down" /\ stage' = "consumed" => ConsumeResetReason
  BY DEF ResetNext, Fault, WatchdogExpires, PowerCut, Reset, NoteBoot
<1>3. ResetInv /\ [ResetNext]_resetVars
        => [stage = "down" /\ stage' = "consumed" =>
              /\ boot'.faults = faultsKept
              /\ \/ boot'.reason \in causes
                 \/ boot'.reason = "HARD_FAULT" /\ causes \cap CpuFaults # {}]_resetVars
  BY <1>1, <1>2 DEF resetVars
<1> QED
  BY <1>3, InitResetInv, NextResetInv, PTL DEF ResetSpec, ReportIsTrue

=============================================================================
