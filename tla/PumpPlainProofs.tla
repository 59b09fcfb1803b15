--------------------------- MODULE PumpPlainProofs ---------------------------
(***************************************************************************)
(* Proofs about PumpController as it is used from the field: no danger     *)
(* override and no maintenance commands.  Then more holds than in general, *)
(* and the theorems say so for every choice of the other constants.        *)
(*                                                                         *)
(* Plain relates each relay to the states that own it; it is kept by every *)
(* handler as a whole, but not by each call in it, so the lemmas are about *)
(* whole handlers and say which members the relay layer sets.              *)
(***************************************************************************)
EXTENDS PumpControllerProofs

Plain(p) ==
    /\ p \in Pump /\ ~p.overrideActive
    /\ p.fault # "NONE" <=> p.state = "FAULT"
    /\ p.starterActive => p.state = "CRANKING"
    /\ p.chokeActive => p.state \in {"CHOKING", "CRANKING", "UNCHOKING"}
    /\ p.valveActive => p.state \in Sequence \cup {"STOPPING", "VALVE_CLOSING", "FAULT"}
    /\ ~p.killActive => EngineWasStarted(p) \/ (p.state = "FAULT" /\ ~p.faultKillActive)

(* The water rule of enforceSafety() as a promise.                         *)
Watered(p) == EngineWasStarted(p) /\ ~p.waterOk => WaterStartupGraceActive(p)

PlainInv == Plain(pump) /\ Watered(pump)

PlainUse == Overrides \subseteq {FALSE} /\ Operations \cap Maintenance = {}

-----------------------------------------------------------------------------
(* The relay layer.                                                        *)

(* toSafeState() without the valve, as every way out of a sequence begins. *)
Shed(p) == AssertKill(ReleaseChoke(ReleaseStarter(p)))

(* What is off after the shedding, and what it leaves alone.               *)
LEMMA ShedFields ==
  ASSUME NEW p \in Pump
  PROVE  /\ Shed(p) \in Pump /\ ~Shed(p).starterActive /\ ~Shed(p).chokeActive
         /\ Shed(p).killActive
         /\ Shed(p).state = p.state /\ Shed(p).fault = p.fault
         /\ Shed(p).valveActive = p.valveActive /\ Shed(p).waterOk = p.waterOk
         /\ Shed(p).overrideActive = p.overrideActive
<1> DEFINE a == ReleaseStarter(p)
           b == ReleaseChoke(a)
<1>1. /\ a \in Pump /\ ~a.starterActive /\ a.state = p.state /\ a.fault = p.fault
      /\ a.valveActive = p.valveActive /\ a.overrideActive = p.overrideActive
      /\ a.waterOk = p.waterOk
  BY DEF ReleaseStarter, Pump
<1> HIDE DEF a
<1>2. /\ b \in Pump /\ ~b.starterActive /\ ~b.chokeActive /\ b.state = p.state
      /\ b.fault = p.fault /\ b.waterOk = p.waterOk
      /\ b.valveActive = p.valveActive /\ b.overrideActive = p.overrideActive
  BY <1>1 DEF ReleaseChoke, Pump
<1>3. Shed(p) = AssertKill(b)
  BY DEF Shed, a
<1> HIDE DEF b
<1> DEFINE c == [b EXCEPT !.killActive = TRUE]
<1>4. Shed(p) = c
  BY <1>2, <1>3 DEF AssertKill, ReleaseStarter
<1>5. /\ c \in Pump /\ ~c.starterActive /\ ~c.chokeActive /\ c.killActive
      /\ c.state = p.state /\ c.fault = p.fault /\ c.valveActive = p.valveActive
      /\ c.waterOk = p.waterOk /\ c.overrideActive = p.overrideActive
  BY <1>2 DEF Pump
<1> HIDE DEF c
<1> QED
  BY <1>4, <1>5

(* What a transition leaves alone when no override is on.                  *)
LEMMA EnterStateFields ==
  ASSUME NEW p \in Pump, ~p.overrideActive, NEW s \in States
  PROVE  LET q == EnterState(p, s)
         IN  /\ q \in Pump /\ q.state = s /\ ~q.overrideActive /\ q.fault = p.fault
             /\ q.starterActive = p.starterActive /\ q.chokeActive = p.chokeActive
             /\ q.killActive = p.killActive /\ q.valveActive = p.valveActive
             /\ q.faultKillActive = p.faultKillActive /\ q.waterOk = p.waterOk
             /\ q.starterEverReleased = p.starterEverReleased
             /\ q.sinceRelease = p.sinceRelease
  BY DEF EnterState, Pump

(* A transition arrives.                                                   *)
LEMMA EnterStateArrives ==
  ASSUME NEW p \in Pump, NEW s \in States
  PROVE  EnterState(p, s).state = s
<1>1. CASE s = p.state
  BY <1>1 DEF EnterState
<1>2. CASE s # p.state
  BY <1>2 DEF EnterState, Pump
<1> QED
  BY <1>1, <1>2

(* enterFault() sheds everything but the intake, whatever it was called on.*)
LEMMA FaultIsPlain ==
  ASSUME NEW p \in Pump, ~p.overrideActive, NEW code \in Faults \ {"NONE"}
  PROVE  /\ Plain(EnterFault(p, code)) /\ Watered(EnterFault(p, code))
         /\ EnterFault(p, code).state = "FAULT"
<1> DEFINE a == [p EXCEPT !.fault = code]
           b == Shed(a)
           c == [b EXCEPT !.faultKillActive = MightBeRunning(p), !.faultKillFor = 0]
<1>1. a \in Pump /\ ~a.overrideActive /\ a.fault = code
  BY DEF Pump
<1> HIDE DEF a
<1>2. /\ b \in Pump /\ ~b.starterActive /\ ~b.chokeActive /\ b.killActive /\ ~b.overrideActive
      /\ b.fault = code
  BY <1>1, ShedFields
<1> HIDE DEF b
<1>3. /\ c \in Pump /\ ~c.starterActive /\ ~c.chokeActive /\ c.killActive /\ ~c.overrideActive
      /\ c.fault = code
  <2>1. MightBeRunning(p) \in BOOLEAN
    BY DEF MightBeRunning
  <2> QED
    BY <1>2, <2>1 DEF Pump
<1>4. EnterFault(p, code) = EnterState(c, "FAULT")
  BY DEF EnterFault, a, b, Shed
<1> HIDE DEF c
<1>5. "FAULT" \in States
  BY DEF States
<1> DEFINE e == EnterState(c, "FAULT")
<1>6. /\ e \in Pump /\ e.state = "FAULT" /\ ~e.overrideActive /\ ~e.starterActive
      /\ ~e.chokeActive /\ e.killActive /\ e.fault = code
  BY <1>3, <1>5, EnterStateFields
<1> HIDE DEF e
<1>7. Plain(e) /\ Watered(e)
  BY <1>6 DEF Plain, Watered, EngineWasStarted
<1> QED
  BY <1>4, <1>6, <1>7 DEF e

-----------------------------------------------------------------------------
(* The safety check.                                                       *)

SameRelays(p, q) ==
    /\ q.state = p.state /\ q.fault = p.fault /\ q.overrideActive = p.overrideActive
    /\ q.starterActive = p.starterActive /\ q.chokeActive = p.chokeActive
    /\ q.valveActive = p.valveActive /\ q.killActive = p.killActive
    /\ q.faultKillActive = p.faultKillActive

(* Time alone changes no relay.                                            *)
LEMMA ElapseLeavesRelays ==
  ASSUME NEW p, Interlocked(p), NEW d \in Nat
  PROVE  Elapse(p, d) \in Pump /\ SameRelays(p, Elapse(p, d))
<1>1. Elapse(p, d) \in Pump
  BY ElapseKeeps DEF Interlocked
<1>2. SameRelays(p, Elapse(p, d))
  BY DEF Interlocked, Elapse, Pump, SameRelays
<1> QED
  BY <1>1, <1>2

(* Nor does the water reading.                                             *)
LEMMA WaterReadingLeavesRelays ==
  ASSUME NEW p \in Pump, NEW raw \in BOOLEAN
  PROVE  UpdateWaterInterlock(p, raw) \in Pump /\ SameRelays(p, UpdateWaterInterlock(p, raw))
<1>1. /\ [p EXCEPT !.waterOk = TRUE] \in Pump /\ [p EXCEPT !.waterOk = raw] \in Pump
      /\ [p EXCEPT !.waterRawLast = raw, !.waterStableFor = 0] \in Pump
  BY DEF Pump
<1>2. UpdateWaterInterlock(p, raw) \in Pump
  BY <1>1 DEF UpdateWaterInterlock
<1>3. SameRelays(p, UpdateWaterInterlock(p, raw))
  BY DEF UpdateWaterInterlock, Pump, SameRelays
<1> QED
  BY <1>2, <1>3

(* So both keep a plain value plain.                                       *)
LEMMA SameRelaysArePlain ==
  ASSUME NEW p, Plain(p), NEW q \in Pump, SameRelays(p, q)
  PROVE  Plain(q)
  BY DEF Plain, SameRelays, EngineWasStarted

(* Every rule that fires ends in a fault of its own; none is skipped for a *)
(* fault recorded earlier.                                                 *)
LEMMA LimitsFaultOrPass ==
  ASSUME NEW p \in Pump, ~p.overrideActive, EnforceLimits(p) # p,
         p.starterActive \/ EngineWasStarted(p) => p.fault = "NONE"
  PROVE  \E q \in Pump, code \in Faults \ {"NONE"} :
           ~q.overrideActive /\ EnforceLimits(p) = EnterFault(q, code)
<1>1. p \in Pump /\ ~p.overrideActive
  OBVIOUS
<1>2. /\ ReleaseStarter(p) \in Pump /\ ~ReleaseStarter(p).overrideActive
      /\ ReleaseStarter(p).fault = p.fault
  BY <1>1 DEF ReleaseStarter, Pump
<1>3. /\ ReleaseChoke(p) \in Pump /\ ~ReleaseChoke(p).overrideActive
      /\ OpenValve(p) \in Pump /\ ~OpenValve(p).overrideActive /\ OpenValve(p).fault = p.fault
  BY <1>1 DEF ReleaseChoke, OpenValve, Pump
<1>4. p.starterActive \/ EngineWasStarted(p) => p.fault = "NONE"
  OBVIOUS
<1>5. CASE RunningDry(p)
  BY <1>1, <1>5 DEF EnforceLimits, Faults
<1>6. CASE ~RunningDry(p)
  <2>1. \E q \in {p, ReleaseStarter(p), ReleaseChoke(p), OpenValve(p)},
             code \in Faults \ {"NONE"} :
          EnforceLimits(p) = EnterFault(q, code)
    <3>1. p.starterActive /\ p.killActive =>
            EnforceLimits(p) = EnterFault(ReleaseStarter(p), "STARTER_KILL_CONFLICT")
      BY <1>2, <1>4, <1>6 DEF EnforceLimits, EnterFaultOnce
    <3>2. ~(p.starterActive /\ p.killActive) /\ StarterOverShutIntake(p) =>
            EnforceLimits(p) = EnterFault(ReleaseStarter(p), "VALVE_CLOSED_WHILE_RUNNING")
      BY <1>2, <1>4, <1>6 DEF EnforceLimits, EnterFaultOnce, StarterOverShutIntake
    <3>3. ~(p.starterActive /\ p.killActive) /\ ~StarterOverShutIntake(p)
          /\ EngineWasStarted(p) /\ ~p.valveActive =>
            EnforceLimits(p) = EnterFault(OpenValve(p), "VALVE_CLOSED_WHILE_RUNNING")
      BY <1>3, <1>4, <1>6 DEF EnforceLimits, EnterFaultOnce
    <3>4. ~(p.starterActive /\ p.killActive) /\ ~StarterOverShutIntake(p)
          /\ ~(EngineWasStarted(p) /\ ~p.valveActive) =>
            \/ EnforceLimits(p) = EnterFault(ReleaseStarter(p), "STARTER_OVERRUN")
            \/ EnforceLimits(p) = EnterFault(ReleaseChoke(p), "CHOKE_OVERRUN")
      BY <1>6 DEF EnforceLimits
    <3>5. {"STARTER_KILL_CONFLICT", "VALVE_CLOSED_WHILE_RUNNING", "STARTER_OVERRUN",
           "CHOKE_OVERRUN"} \subseteq Faults \ {"NONE"}
      BY DEF Faults
    <3> QED
      BY <3>1, <3>2, <3>3, <3>4, <3>5
  <2> QED
    BY <1>1, <1>2, <1>3, <2>1
<1> QED
  BY <1>5, <1>6

(* So an engine that none of the rules stops has water or its grace.       *)
LEMMA LimitsArePlain ==
  ASSUME NEW p, Plain(p)
  PROVE  Plain(EnforceLimits(p)) /\ Watered(EnforceLimits(p))
<1>1. CASE EnforceLimits(p) # p
  BY <1>1, LimitsFaultOrPass, FaultIsPlain DEF Plain, EngineWasStarted
<1>2. CASE EnforceLimits(p) = p
  <2>1. ~RunningDry(p)
    BY <1>2, FaultIsPlain DEF EnforceLimits, RunningDry, Plain, EngineWasStarted, Faults
  <2>2. EngineWasStarted(p) => p.fault = "NONE"
    BY DEF Plain, EngineWasStarted
  <2> QED
    BY <1>2, <2>1, <2>2 DEF RunningDry, Watered
<1> QED
  BY <1>1, <1>2

(* The whole safety check leaves a plain value, and no started engine      *)
(* beyond its grace without water.                                         *)
LEMMA CheckIsPlain ==
  ASSUME NEW p, Plain(p), NEW raw \in BOOLEAN
  PROVE  Plain(EnforceSafety(p, raw)) /\ Watered(EnforceSafety(p, raw))
  BY WaterReadingLeavesRelays, SameRelaysArePlain, LimitsArePlain DEF EnforceSafety, Plain

-----------------------------------------------------------------------------
(* The state machine.                                                      *)

(* The starter engages only with water at the sensor, so a crank begins    *)
(* without using up a grace; refused, it leaves a fault.                   *)
LEMMA BeginCrankIsPlain ==
  ASSUME NEW p, Plain(p), p.state = "CHOKING"
  PROVE  Plain(BeginCrank(p)) /\ Watered(BeginCrank(p))
<1> DEFINE q == ReleaseKill(p)
           e == [q EXCEPT !.starterActive = TRUE, !.starterOnFor = 0]
           c == EnterState(e, "CRANKING")
<1>1. /\ q \in Pump /\ ~q.overrideActive /\ ~q.killActive /\ ~q.starterActive
      /\ q.state = "CHOKING" /\ q.fault = "NONE" /\ q.waterOk = p.waterOk
  BY DEF Plain, ReleaseKill, Pump
<1> HIDE DEF q
<1>2. /\ e \in Pump /\ ~e.overrideActive /\ e.starterActive /\ e.fault = "NONE"
      /\ e.waterOk = q.waterOk
  BY <1>1 DEF Pump
<1>3. CASE ~PrimeComplete(q)
  <2>1. EngageStarter(q) = EnterFault(q, "VALVE_CLOSED_WHILE_RUNNING")
    BY <1>1, <1>3 DEF EngageStarter
  <2>2. "VALVE_CLOSED_WHILE_RUNNING" \in Faults \ {"NONE"}
    BY DEF Faults
  <2> DEFINE f == EnterFault(q, "VALVE_CLOSED_WHILE_RUNNING")
  <2>3. Plain(f) /\ Watered(f) /\ f.state = "FAULT"
    BY <1>1, <2>2, FaultIsPlain
  <2> HIDE DEF f
  <2>4. ~f.starterActive
    BY <2>3 DEF Plain
  <2> QED
    BY <2>1, <2>3, <2>4 DEF BeginCrank, q, f
<1>4. CASE PrimeComplete(q)
  <2>1. EngageStarter(q) = e
    BY <1>1, <1>4 DEF EngageStarter
  <2>2. q.waterOk
    BY <1>1, <1>4 DEF PrimeComplete
  <2> HIDE DEF e
  <2>3. BeginCrank(p) = c
    BY <1>2, <2>1 DEF BeginCrank, q
  <2>4. "CRANKING" \in States
    BY DEF States, Sequence
  <2>5. /\ c \in Pump /\ c.state = "CRANKING" /\ ~c.overrideActive /\ c.fault = "NONE"
        /\ c.waterOk
    BY <1>2, <2>2, <2>4, EnterStateFields
  <2> HIDE DEF c
  <2> QED
    BY <2>3, <2>5 DEF Plain, Watered, EngineWasStarted, Sequence
<1> QED
  BY <1>3, <1>4

(* Every transition of advance() keeps both.                               *)
LEMMA AdvanceIsPlain ==
  ASSUME NEW p, Plain(p), Watered(p)
  PROVE  Plain(Advance(p)) /\ Watered(Advance(p))
<1>0. p \in Pump /\ ~p.overrideActive /\ Sequence \subseteq States
      /\ {"IDLE", "VALVE_CLOSING", "FAULT"} \subseteq States
  BY DEF Plain, States
<1>1. CASE p.state = "PRIMING" /\ DwellOver(p)
  <2> DEFINE q == EngageChoke(p)
             r == EnterState(q, "CHOKING")
  <2>1. /\ q \in Pump /\ ~q.overrideActive /\ q.fault = p.fault /\ q.killActive = p.killActive
        /\ q.starterActive = p.starterActive /\ q.valveActive = p.valveActive
    BY <1>0 DEF EngageChoke, Pump
  <2>2. Advance(p) = r
    BY <1>1 DEF Advance
  <2> HIDE DEF q
  <2>3. /\ r \in Pump /\ r.state = "CHOKING" /\ ~r.overrideActive /\ r.fault = p.fault
        /\ r.killActive = p.killActive /\ r.starterActive = p.starterActive
        /\ r.valveActive = p.valveActive
    <3>1. "CHOKING" \in States
      BY <1>0 DEF Sequence
    <3> QED
      BY <2>1, <3>1, EnterStateFields
  <2> HIDE DEF r
  <2> QED
    BY <1>1, <2>2, <2>3 DEF Plain, Watered, EngineWasStarted, Sequence
<1>2. CASE p.state = "CHOKING" /\ DwellOver(p)
  BY <1>2, BeginCrankIsPlain DEF Advance
<1>3. CASE p.state = "CRANKING" /\ DwellOver(p)
  <2> DEFINE q == ReleaseStarter(p)
             r == EnterState(q, "UNCHOKING")
  <2>1. /\ q \in Pump /\ ~q.overrideActive /\ q.fault = p.fault /\ q.killActive = p.killActive
        /\ ~q.starterActive /\ q.valveActive = p.valveActive /\ q.waterOk = p.waterOk
    BY <1>0 DEF ReleaseStarter, Pump
  <2>2. WaterStartupGraceActive(p) => WaterStartupGraceActive(q)
    BY <1>0, DurationsAreNat DEF ReleaseStarter, WaterStartupGraceActive, Pump
  <2>3. Advance(p) = r
    BY <1>3 DEF Advance
  <2> HIDE DEF q
  <2>4. /\ r \in Pump /\ r.state = "UNCHOKING" /\ ~r.overrideActive /\ r.fault = p.fault
        /\ ~r.starterActive /\ r.waterOk = p.waterOk
        /\ r.starterEverReleased = q.starterEverReleased /\ r.sinceRelease = q.sinceRelease
    <3>1. "UNCHOKING" \in States
      BY DEF States, Sequence
    <3> QED
      BY <2>1, <3>1, EnterStateFields
  <2> HIDE DEF r
  <2> QED
    BY <1>3, <2>2, <2>3, <2>4
       DEF Plain, Watered, EngineWasStarted, WaterStartupGraceActive, Sequence
<1>4. CASE p.state = "UNCHOKING" /\ DwellOver(p)
  <2> DEFINE q == ReleaseChoke(p)
             r == EnterState(q, "RUNNING_ASSUMED")
  <2>1. /\ q \in Pump /\ ~q.overrideActive /\ q.fault = p.fault /\ ~q.chokeActive
        /\ q.starterActive = p.starterActive /\ q.waterOk = p.waterOk
        /\ q.starterEverReleased = p.starterEverReleased /\ q.sinceRelease = p.sinceRelease
    BY <1>0 DEF ReleaseChoke, Pump
  <2>2. Advance(p) = r
    BY <1>4 DEF Advance
  <2> HIDE DEF q
  <2>3. /\ r \in Pump /\ r.state = "RUNNING_ASSUMED" /\ ~r.overrideActive /\ r.fault = p.fault
        /\ ~r.chokeActive /\ r.starterActive = p.starterActive /\ r.waterOk = p.waterOk
        /\ r.starterEverReleased = p.starterEverReleased /\ r.sinceRelease = p.sinceRelease
    <3>1. "RUNNING_ASSUMED" \in States
      BY DEF States, Sequence
    <3> QED
      BY <2>1, <3>1, EnterStateFields
  <2> HIDE DEF r
  <2> QED
    BY <1>4, <2>2, <2>3 DEF Plain, Watered, EngineWasStarted, WaterStartupGraceActive, Sequence
<1>5. CASE p.state = "STOPPING" /\ DwellOver(p)
  <2> DEFINE r == EnterState(p, "VALVE_CLOSING")
  <2>1. /\ r \in Pump /\ r.state = "VALVE_CLOSING" /\ ~r.overrideActive /\ r.fault = p.fault
        /\ r.starterActive = p.starterActive /\ r.chokeActive = p.chokeActive
        /\ r.killActive = p.killActive
    BY <1>0, EnterStateFields
  <2>2. Advance(p) = r
    BY <1>5 DEF Advance
  <2> HIDE DEF r
  <2> QED
    BY <1>5, <2>1, <2>2 DEF Plain, Watered, EngineWasStarted
<1>6. CASE p.state = "VALVE_CLOSING" /\ DwellOver(p)
  <2> DEFINE q == ShutValve(p)
             r == EnterState(q, "IDLE")
  <2>1. /\ q \in Pump /\ ~q.overrideActive /\ q.fault = p.fault /\ ~q.valveActive
        /\ q.starterActive = p.starterActive /\ q.chokeActive = p.chokeActive
        /\ q.killActive = p.killActive
    BY <1>0, <1>6 DEF ShutValve, EngineMayBeRunning, Pump
  <2>2. Advance(p) = r
    BY <1>6 DEF Advance
  <2> HIDE DEF q
  <2>3. "IDLE" \in States
    BY <1>0
  <2>4. /\ r \in Pump /\ r.state = "IDLE" /\ ~r.overrideActive /\ r.fault = q.fault
        /\ r.valveActive = q.valveActive /\ r.starterActive = q.starterActive
        /\ r.chokeActive = q.chokeActive /\ r.killActive = q.killActive
    BY <2>1, <2>3, EnterStateFields
  <2>5. /\ r \in Pump /\ r.state = "IDLE" /\ ~r.overrideActive /\ r.fault = p.fault
        /\ ~r.valveActive /\ r.starterActive = p.starterActive /\ r.chokeActive = p.chokeActive
        /\ r.killActive = p.killActive
    BY <2>1, <2>4
  <2> HIDE DEF r
  <2> QED
    BY <1>6, <2>2, <2>5 DEF Plain, Watered, EngineWasStarted
<1>7. CASE p.state = "RETRY_WAIT" /\ CooldownOver(p)
  <2> DEFINE r == EnterState(p, "IDLE")
  <2>1. /\ r \in Pump /\ r.state = "IDLE" /\ ~r.overrideActive /\ r.fault = p.fault
        /\ r.starterActive = p.starterActive /\ r.chokeActive = p.chokeActive
        /\ r.killActive = p.killActive /\ r.valveActive = p.valveActive
    BY <1>0, EnterStateFields
  <2>2. Advance(p) = r
    BY <1>7 DEF Advance
  <2> HIDE DEF r
  <2> QED
    BY <1>7, <2>1, <2>2 DEF Plain, Watered, EngineWasStarted, Sequence
<1>8. CASE p.state = "FAULT" /\ p.faultKillActive /\ p.faultKillFor >= KillHold
  <2> DEFINE q == [ReleaseKill(p) EXCEPT !.faultKillActive = FALSE]
  <2>1. /\ q \in Pump /\ q.state = "FAULT" /\ ~q.overrideActive /\ ~q.faultKillActive
        /\ q.fault = p.fault
        /\ q.starterActive = p.starterActive /\ q.chokeActive = p.chokeActive
    BY <1>0, <1>8 DEF ReleaseKill, Pump
  <2>2. Advance(p) = q
    BY <1>8 DEF Advance
  <2> HIDE DEF q
  <2> QED
    BY <1>8, <2>1, <2>2 DEF Plain, Watered, EngineWasStarted
<1>9. CASE Advance(p) = p
  BY <1>9
<1> QED
  BY <1>0, <1>1, <1>2, <1>3, <1>4, <1>5, <1>6, <1>7, <1>8, <1>9 DEF Advance

-----------------------------------------------------------------------------
(* The commands.                                                           *)

(* STOP grounds the ignition and clears the fault before the state leaves  *)
(* FAULT.                                                                  *)
LEMMA StopIsPlain ==
  ASSUME NEW p \in Pump, ~p.overrideActive
  PROVE  /\ Plain(BeginStopSequence(p)) /\ Watered(BeginStopSequence(p))
         /\ BeginStopSequence(p).state = "STOPPING"
<1> DEFINE a == Shed(p)
           b == [a EXCEPT !.faultKillActive = FALSE, !.fault = "NONE"]
           c == EnterState(b, "STOPPING")
           d == [c EXCEPT !.stateElapsed = 0]
<1>1. BeginStopSequence(p) = d
  BY DEF BeginStopSequence, Shed
<1>2. a \in Pump /\ ~a.starterActive /\ ~a.chokeActive /\ a.killActive /\ ~a.overrideActive
  BY ShedFields
<1> HIDE DEF a
<1>3. /\ b \in Pump /\ ~b.starterActive /\ ~b.chokeActive /\ b.killActive
      /\ ~b.overrideActive /\ b.fault = "NONE"
  BY <1>2 DEF Pump, Faults
<1> HIDE DEF b
<1>4. "STOPPING" \in States
  BY DEF States
<1>5. /\ c \in Pump /\ ~c.starterActive /\ ~c.chokeActive /\ c.killActive
      /\ ~c.overrideActive /\ c.fault = "NONE" /\ c.state = "STOPPING"
  BY <1>3, <1>4, EnterStateFields
<1> HIDE DEF c
<1>6. /\ d \in Pump /\ ~d.starterActive /\ ~d.chokeActive /\ d.killActive
      /\ ~d.overrideActive /\ d.fault = "NONE" /\ d.state = "STOPPING"
  BY <1>5 DEF Pump
<1> HIDE DEF d
<1> QED
  BY <1>1, <1>6 DEF Plain, Watered, EngineWasStarted

(* A START without override begins from an IDLE that is dry and inhibited. *)
LEMMA StartIsPlain ==
  ASSUME NEW p, Plain(p), Watered(p), NEW t \in Timings
  PROVE  Plain(StartOutcome(p, FALSE, t).pump) /\ Watered(StartOutcome(p, FALSE, t).pump)
<1>1. CASE ~StartPermitted(p, FALSE)
  BY <1>1 DEF StartOutcome, Refused
<1>2. CASE StartPermitted(p, FALSE)
  <2> DEFINE a == [p EXCEPT !.overrideActive = FALSE, !.timings = Clamp(t)]
             open == OpenValve(a)
             choked == EngageChoke(a)
             primes == EnterState(open, "PRIMING")
             chokes == EnterState(choked, "CHOKING")
  <2>1. p.state = "IDLE" /\ p.killActive /\ ~p.starterActive /\ ~p.chokeActive
        /\ p.fault = "NONE" /\ p \in Pump
    BY <1>2 DEF StartPermitted, Plain
  <2>2. /\ a \in Pump /\ ~a.overrideActive /\ a.killActive /\ ~a.starterActive
        /\ ~a.chokeActive /\ a.fault = "NONE"
    BY <2>1, ClampIsTimings DEF Pump
  <2>3. StartOutcome(p, FALSE, t).pump = IF IntakeValveEnabled THEN primes ELSE chokes
    BY <1>2, <2>2 DEF StartOutcome, Accepted, BeginStartSequence, ReleaseStarter
  <2> HIDE DEF a
  <2>5. /\ open \in Pump /\ ~open.overrideActive /\ open.killActive /\ ~open.starterActive
        /\ ~open.chokeActive /\ open.fault = "NONE"
    BY <2>2 DEF OpenValve, Pump
  <2>6. /\ choked \in Pump /\ ~choked.overrideActive /\ choked.killActive
        /\ ~choked.starterActive /\ choked.fault = "NONE"
    BY <2>2 DEF EngageChoke, Pump
  <2> HIDE DEF open, choked
  <2>7. "PRIMING" \in States /\ "CHOKING" \in States
    BY DEF States, Sequence
  <2>8. /\ primes \in Pump /\ primes.state = "PRIMING" /\ ~primes.overrideActive
        /\ primes.killActive /\ ~primes.starterActive /\ ~primes.chokeActive
        /\ primes.fault = "NONE"
    BY <2>5, <2>7, EnterStateFields
  <2>9. /\ chokes \in Pump /\ chokes.state = "CHOKING" /\ ~chokes.overrideActive
        /\ chokes.killActive /\ ~chokes.starterActive /\ chokes.fault = "NONE"
    BY <2>6, <2>7, EnterStateFields
  <2> HIDE DEF primes, chokes
  <2> QED
    BY <2>3, <2>8, <2>9 DEF Plain, Watered, EngineWasStarted, Sequence
<1> QED
  BY <1>1, <1>2

(* START_FAILED changes the state before it shuts the intake, so that the  *)
(* relay layer does not refuse.                                            *)
LEMMA StartFailedSheds ==
  ASSUME NEW p \in Pump, ~p.overrideActive, p.fault = "NONE", p.state \in StartFailedAllowed
  PROVE  LET q == StartFailedOutcome(p).pump
         IN  Plain(q) /\ Watered(q) /\ q.state = "RETRY_WAIT"
<1> DEFINE a == Shed(p)
           b == EnterState(a, "RETRY_WAIT")
           c == ShutValve(b)
<1>1. StartFailedOutcome(p).pump = c
  BY DEF StartFailedOutcome, Accepted, Shed
<1>2. /\ a \in Pump /\ ~a.starterActive /\ ~a.chokeActive /\ a.killActive /\ ~a.overrideActive
      /\ a.fault = "NONE"
  BY ShedFields
<1> HIDE DEF a
<1>3. "RETRY_WAIT" \in States
  BY DEF States
<1>4. /\ b \in Pump /\ ~b.starterActive /\ ~b.chokeActive /\ b.killActive
      /\ ~b.overrideActive /\ b.fault = "NONE" /\ b.state = "RETRY_WAIT"
  BY <1>2, <1>3, EnterStateFields
<1> HIDE DEF b
<1>5. /\ c \in Pump /\ ~c.starterActive /\ ~c.chokeActive /\ c.killActive
      /\ ~c.overrideActive /\ c.fault = "NONE" /\ c.state = "RETRY_WAIT" /\ ~c.valveActive
  BY <1>4 DEF ShutValve, EngineMayBeRunning, Pump
<1> HIDE DEF c
<1> QED
  BY <1>1, <1>5 DEF Plain, Watered, EngineWasStarted

(* Refused, it changes nothing.                                            *)
LEMMA StartFailedIsPlain ==
  ASSUME NEW p, Plain(p), Watered(p)
  PROVE  LET q == StartFailedOutcome(p).pump
         IN  Plain(q) /\ Watered(q) /\ (q = p \/ q.state = "RETRY_WAIT")
<1>1. CASE p.state \notin StartFailedAllowed
  BY <1>1 DEF StartFailedOutcome, Refused
<1>2. CASE p.state \in StartFailedAllowed
  <2>1. p.fault = "NONE" /\ p \in Pump /\ ~p.overrideActive
    BY <1>2 DEF StartFailedAllowed, Plain
  <2> QED
    BY <1>2, <2>1, StartFailedSheds
<1> QED
  BY <1>1, <1>2

(* RESET_IDLE clears the fault, leaves FAULT, and sheds everything.        *)
LEMMA ResetIdleSheds ==
  ASSUME NEW p \in Pump, ~p.overrideActive,
         p.state \in {"UNKNOWN", "IDLE", "RETRY_WAIT", "FAULT"}
  PROVE  LET q == ResetIdleOutcome(p).pump
         IN  Plain(q) /\ Watered(q) /\ q.state \in {"IDLE", "RETRY_WAIT"}
<1> DEFINE cleared == [p EXCEPT !.fault = "NONE", !.faultKillActive = FALSE]
           rest == IF CooldownOver(p) THEN "IDLE" ELSE "RETRY_WAIT"
           a == EnterState(cleared, rest)
           b == Shed(a)
           c == ShutValve(b)
<1>1. ResetIdleOutcome(p).pump = c
  BY DEF ResetIdleOutcome, Accepted, ToSafeState, Shed
<1>2. cleared \in Pump /\ ~cleared.overrideActive /\ cleared.fault = "NONE"
  BY DEF Pump, Faults
<1>3. rest \in {"IDLE", "RETRY_WAIT"} /\ rest \in States
  BY DEF States
<1> HIDE DEF cleared, rest
<1>4. a \in Pump /\ ~a.overrideActive /\ a.fault = "NONE" /\ a.state = rest
  BY <1>2, <1>3, EnterStateFields
<1> HIDE DEF a
<1>5. /\ b \in Pump /\ ~b.starterActive /\ ~b.chokeActive /\ b.killActive
      /\ ~b.overrideActive /\ b.fault = "NONE" /\ b.state = rest
  BY <1>4, ShedFields
<1> HIDE DEF b
<1>6. /\ c \in Pump /\ ~c.starterActive /\ ~c.chokeActive /\ c.killActive
      /\ ~c.overrideActive /\ c.fault = "NONE" /\ c.state = rest /\ ~c.valveActive
  BY <1>3, <1>5 DEF ShutValve, EngineMayBeRunning, Pump
<1> HIDE DEF c
<1> QED
  BY <1>1, <1>3, <1>6 DEF Plain, Watered, EngineWasStarted

(* Refused, it changes nothing.                                            *)
LEMMA ResetIdleIsPlain ==
  ASSUME NEW p, Plain(p), Watered(p)
  PROVE  LET q == ResetIdleOutcome(p).pump
         IN  Plain(q) /\ Watered(q) /\ (q = p \/ q.state \in {"IDLE", "RETRY_WAIT"})
<1>1. CASE p.state \notin {"UNKNOWN", "IDLE", "RETRY_WAIT", "FAULT"}
  BY <1>1 DEF ResetIdleOutcome, Refused
<1>2. CASE p.state \in {"UNKNOWN", "IDLE", "RETRY_WAIT", "FAULT"}
  <2>1. p \in Pump /\ ~p.overrideActive
    BY DEF Plain
  <2> QED
    BY <1>2, <2>1, ResetIdleSheds
<1> QED
  BY <1>1, <1>2

(* The end of handleCommand(): a duplicate is checked and nothing more.    *)
LEMMA ConcludeIsPlain ==
  ASSUME NEW type, NEW id, NEW checked, Plain(checked), Watered(checked), NEW outcome,
         Plain(outcome.pump), Watered(outcome.pump), Conclude(type, id, checked, outcome)
  PROVE  PlainInv'
  BY DEF Conclude, PlainInv

-----------------------------------------------------------------------------
(* The invariant of plain use.                                             *)

(* The invariant of plain use holds after begin().                         *)
THEOREM InitPlainInv == Init => PlainInv
  BY PowerUpIsSound
     DEF Init, PlainInv, Plain, Watered, PowerUp, EngineWasStarted, Sound, Interlocked

(* Every step of plain use keeps it: the safety check comes first, then    *)
(* the pass or the command.                                                *)
THEOREM NextPlainInv ==
  ASSUME PlainUse, IInv, PlainInv, [Next]_vars
  PROVE  PlainInv'
<1>1. ASSUME NEW raw \in Readings
      PROVE  Plain(EnforceSafety(pump, raw)) /\ Watered(EnforceSafety(pump, raw))
  BY CheckIsPlain DEF PlainInv, Readings
<1>2. ASSUME NEW d \in Steps, NEW raw \in Readings, Tick(d, raw)
      PROVE  PlainInv'
  <2>1. Plain(Elapse(pump, d))
    BY ElapseLeavesRelays, SameRelaysArePlain, InputAssumption DEF PlainInv, IInv, Sound
  <2> DEFINE q == EnforceSafety(Elapse(pump, d), raw)
  <2>2. Plain(q) /\ Watered(q)
    BY <2>1, CheckIsPlain DEF Readings
  <2>3. pump' = Advance(q)
    BY <1>2 DEF Tick
  <2> HIDE DEF q
  <2> QED
    BY <2>2, <2>3, AdvanceIsPlain DEF PlainInv
<1>3. ASSUME NEW id \in Callers, NEW override \in Overrides, NEW timings \in RequestedTimings,
             NEW raw \in Readings, Start(id, override, timings, raw)
      PROVE  PlainInv'
  <2> DEFINE p == EnforceSafety(pump, raw)
  <2>1. override = FALSE /\ timings \in Timings
    BY InputAssumption DEF PlainUse
  <2>2. /\ Plain(StartOutcome(p, override, timings).pump)
        /\ Watered(StartOutcome(p, override, timings).pump)
    BY <1>1, <2>1, StartIsPlain
  <2> QED
    BY <1>1, <1>3, <2>2, ConcludeIsPlain DEF Start
<1>4. ASSUME NEW id \in Callers, NEW raw \in Readings, Stop(id, raw)
      PROVE  PlainInv'
  <2> DEFINE p == EnforceSafety(pump, raw)
  <2>1. Plain(Accepted(BeginStopSequence(p)).pump) /\ Watered(Accepted(BeginStopSequence(p)).pump)
    BY <1>1, StopIsPlain DEF Accepted, Plain
  <2> QED
    BY <1>1, <1>4, <2>1, ConcludeIsPlain DEF Stop
<1>5. ASSUME NEW id \in Callers, NEW raw \in Readings, StartFailed(id, raw)
      PROVE  PlainInv'
  BY <1>1, <1>5, StartFailedIsPlain, ConcludeIsPlain DEF StartFailed
<1>6. ASSUME NEW id \in Callers, NEW raw \in Readings, ResetIdle(id, raw)
      PROVE  PlainInv'
  BY <1>1, <1>6, ResetIdleIsPlain, ConcludeIsPlain DEF ResetIdle
<1>7. ASSUME NEW type \in Maintenance, NEW id \in Callers, NEW override \in Overrides,
             NEW raw \in Readings, Maintain(type, id, override, raw)
      PROVE  FALSE
  BY <1>7 DEF Maintain, PlainUse
<1>8. CASE Reboot
  <2>1. Plain(PowerUp) /\ Watered(PowerUp)
    BY PowerUpIsSound DEF Plain, Watered, PowerUp, EngineWasStarted, Sound, Interlocked
  <2> QED
    BY <1>8, <2>1 DEF Reboot, PlainInv
<1>9. CASE UNCHANGED vars
  BY <1>9 DEF vars, PlainInv, Plain, Watered
<1> QED
  BY <1>2, <1>3, <1>4, <1>5, <1>6, <1>7, <1>8, <1>9 DEF Next

(* So in plain use it always holds.                                        *)
LEMMA PlainInvariance ==
  ASSUME PlainUse
  PROVE  Spec => []PlainInv
<1>1. IInv /\ PlainInv /\ [Next]_vars => PlainInv'
  BY NextPlainInv
<1> QED
  BY <1>1, InitPlainInv, Invariance, PTL DEF Spec

-----------------------------------------------------------------------------
(* The gap between two cranks.  Only CHOKING engages the starter, and the  *)
(* gap was over when START let the sequence begin.                         *)

(* The gap and the prime dwell together outlast the grace of the previous  *)
(* crank, as they do with the durations of config.h.                       *)
GraceEndsInPriming == IntakeValveEnabled /\ WaterGrace <= RecrankGap + ValvePrime

Gapped(p) ==
    /\ p.state \in {"PRIMING", "CHOKING"} /\ p.starterEverReleased => p.sinceRelease >= RecrankGap
    /\ GraceEndsInPriming /\ p.starterEverReleased =>
         /\ p.state = "PRIMING" =>
              p.sinceRelease >= WaterGrace \/ p.sinceRelease >= RecrankGap + p.stateElapsed
         /\ p.state \in {"CHOKING", "CRANKING"} => p.sinceRelease >= WaterGrace

(* The step from p to q keeps that and honours the gap.                    *)
GapKept(p, q) ==
    /\ Gapped(q)
    /\ ~p.starterActive /\ q.starterActive /\ q.starterEverReleased => q.sinceRelease >= RecrankGap

(* A value with the starter off, outside a start sequence, keeps it.       *)
LEMMA OffKeepsGap ==
  ASSUME NEW p, NEW q, ~q.starterActive, q.state \notin {"PRIMING", "CHOKING", "CRANKING"}
  PROVE  GapKept(p, q)
BY DEF GapKept, Gapped

(* Time lets the clock of the release run, up to the gap and the grace at  *)
(* least, and not slower than the clock of the state.                      *)
LEMMA ElapseKeepsGap ==
  ASSUME NEW p, Plain(p), Gapped(p), NEW d \in Nat
  PROVE  GapKept(p, Elapse(p, d)) /\ Elapse(p, d).starterActive = p.starterActive
<1> DEFINE e == Elapse(p, d)
           since == Least(p.sinceRelease + d, ReleaseHorizon)
<1>1. /\ e.state = p.state /\ e.starterActive = p.starterActive
      /\ e.starterEverReleased = p.starterEverReleased
      /\ p.starterEverReleased => e.sinceRelease = since
      /\ e.stateElapsed \in {p.stateElapsed, Least(p.stateElapsed + d, StateHorizon)}
  BY DEF Plain, Elapse, Pump
<1> HIDE DEF e
<1>2. p.sinceRelease \in Nat /\ p.stateElapsed \in Nat
  BY DEF Plain, Pump
<1>3. e.stateElapsed \in Nat /\ e.stateElapsed <= p.stateElapsed + d
  BY <1>1, <1>2, DurationAssumption DEF Least
<1>4. /\ p.sinceRelease >= RecrankGap => since >= RecrankGap
      /\ p.sinceRelease >= WaterGrace => since >= WaterGrace
      /\ p.sinceRelease >= RecrankGap + p.stateElapsed =>
           since >= WaterGrace \/ since >= RecrankGap + e.stateElapsed
  BY <1>2, <1>3, DurationsAreNat DEF Least, ReleaseHorizon
<1> HIDE DEF since
<1> QED
  BY <1>1, <1>4 DEF GapKept, Gapped, e

(* The safety check engages nothing.                                       *)
LEMMA CheckKeepsGap ==
  ASSUME NEW p, Plain(p), Gapped(p), NEW raw \in BOOLEAN
  PROVE  LET q == EnforceSafety(p, raw)
         IN  Gapped(q) /\ (q.starterActive => p.starterActive)
<1> DEFINE e == UpdateWaterInterlock(p, raw)
           q == EnforceLimits(e)
<1>1. /\ e.state = p.state /\ e.starterActive = p.starterActive
      /\ e.starterEverReleased = p.starterEverReleased /\ e.sinceRelease = p.sinceRelease
      /\ e.stateElapsed = p.stateElapsed
  BY DEF Plain, UpdateWaterInterlock, Pump
<1>2. Plain(e)
  BY WaterReadingLeavesRelays, SameRelaysArePlain DEF Plain
<1> HIDE DEF e
<1>3. CASE q = e
  BY <1>1, <1>3 DEF EnforceSafety, Gapped, e
<1>4. CASE q # e
  <2>1. q.state = "FAULT" /\ Plain(q)
    <3>1. /\ e \in Pump /\ ~e.overrideActive
          /\ e.starterActive \/ EngineWasStarted(e) => e.fault = "NONE"
      BY <1>2 DEF Plain, EngineWasStarted
    <3> QED
      BY <1>4, <3>1, LimitsFaultOrPass, FaultIsPlain
  <2> HIDE DEF q
  <2> QED
    BY <2>1 DEF Plain, Gapped, EnforceSafety, e, q
<1> QED
  BY <1>3, <1>4

(* advance() leaves CHOKING with the starter on or in FAULT, and engages   *)
(* it from no other state.                                                 *)
LEMMA AdvanceKeepsGap ==
  ASSUME NEW p, Plain(p), Watered(p), Gapped(p)
  PROVE  GapKept(p, Advance(p))
<1>1. CASE Advance(p) = p
  BY <1>1 DEF GapKept
<1>2. CASE p.state = "PRIMING" /\ DwellOver(p)
  <2> DEFINE q == EngageChoke(p)
             r == EnterState(q, "CHOKING")
  <2>1. /\ q \in Pump /\ ~q.overrideActive /\ q.starterActive = p.starterActive
        /\ q.starterEverReleased = p.starterEverReleased /\ q.sinceRelease = p.sinceRelease
    BY DEF Plain, EngageChoke, Pump
  <2>2. Advance(p) = r
    BY <1>2 DEF Advance
  <2>3. "CHOKING" \in States
    BY DEF States, Sequence
  <2> HIDE DEF q
  <2>4. /\ r.starterActive = p.starterActive /\ r.starterEverReleased = p.starterEverReleased
        /\ r.sinceRelease = p.sinceRelease /\ r.state = "CHOKING"
    BY <2>1, <2>3, EnterStateFields
  <2> HIDE DEF r
  <2>5. GraceEndsInPriming /\ p.starterEverReleased => p.sinceRelease >= WaterGrace
    <3>1. p.stateElapsed >= ValvePrime /\ p.stateElapsed \in Nat /\ p.sinceRelease \in Nat
      BY <1>2 DEF DwellOver, Dwell, Plain, Pump
    <3>2. GraceEndsInPriming /\ p.starterEverReleased =>
            p.sinceRelease >= WaterGrace \/ p.sinceRelease >= RecrankGap + p.stateElapsed
      BY <1>2 DEF Gapped
    <3> QED
      BY <3>1, <3>2, DurationsAreNat DEF GraceEndsInPriming
  <2> QED
    BY <1>2, <2>2, <2>4, <2>5 DEF GapKept, Gapped
<1>3. CASE p.state = "CHOKING" /\ DwellOver(p)
  <2> DEFINE q == ReleaseKill(p)
             e == [q EXCEPT !.starterActive = TRUE, !.starterOnFor = 0]
             r == EnterState(e, "CRANKING")
  <2>1. /\ q \in Pump /\ ~q.overrideActive /\ ~q.killActive /\ ~q.starterActive
        /\ q.starterEverReleased = p.starterEverReleased /\ q.sinceRelease = p.sinceRelease
    BY <1>3 DEF Plain, ReleaseKill, Pump
  <2>2. Advance(p) = BeginCrank(p)
    BY <1>3 DEF Advance
  <2> HIDE DEF q
  <2>3. CASE ~PrimeComplete(q)
    <3> DEFINE f == EnterFault(q, "VALVE_CLOSED_WHILE_RUNNING")
    <3>1. EngageStarter(q) = f
      BY <2>1, <2>3 DEF EngageStarter
    <3>2. f.state = "FAULT" /\ Plain(f)
      BY <2>1, FaultIsPlain DEF Faults
    <3> HIDE DEF f
    <3>3. ~f.starterActive
      BY <3>2 DEF Plain
    <3>4. BeginCrank(p) = f
      BY <3>1, <3>3 DEF BeginCrank, q
    <3> QED
      BY <2>2, <3>2, <3>3, <3>4, OffKeepsGap
  <2>4. CASE PrimeComplete(q)
    <3>1. EngageStarter(q) = e
      BY <2>1, <2>4 DEF EngageStarter
    <3>2. /\ e \in Pump /\ e.starterActive /\ ~e.overrideActive
          /\ e.starterEverReleased = q.starterEverReleased /\ e.sinceRelease = q.sinceRelease
      BY <2>1 DEF Pump
    <3> HIDE DEF e
    <3>3. BeginCrank(p) = r
      BY <3>1, <3>2 DEF BeginCrank, q
    <3>4. "CRANKING" \in States
      BY DEF States, Sequence
    <3>5. /\ r.state = "CRANKING" /\ r.starterEverReleased = p.starterEverReleased
          /\ r.sinceRelease = p.sinceRelease
      BY <2>1, <3>2, <3>4, EnterStateFields
    <3> HIDE DEF r
    <3> QED
      BY <1>3, <2>2, <3>3, <3>5 DEF GapKept, Gapped
  <2> QED
    BY <2>3, <2>4
<1>4. CASE Advance(p) # p /\ p.state \notin {"PRIMING", "CHOKING"}
  <2>1. Advance(p).state \in {"UNCHOKING", "RUNNING_ASSUMED", "VALVE_CLOSING", "IDLE", "FAULT"}
    <3>1. p \in Pump
      BY DEF Plain
    <3>2. /\ p \in Pump /\ ReleaseStarter(p) \in Pump /\ ReleaseChoke(p) \in Pump
          /\ ShutValve(p) \in Pump
      BY <3>1, RelaysKeepChoke DEF ChokeKept
    <3>3. {"UNCHOKING", "RUNNING_ASSUMED", "VALVE_CLOSING", "IDLE"} \subseteq States
      BY DEF States, Sequence
    <3>4. \A q \in {p, ReleaseStarter(p), ReleaseChoke(p), ShutValve(p)},
            s \in {"UNCHOKING", "RUNNING_ASSUMED", "VALVE_CLOSING", "IDLE"} :
              EnterState(q, s).state = s
      BY <3>2, <3>3, EnterStateArrives
    <3>5. [ReleaseKill(p) EXCEPT !.faultKillActive = FALSE].state = p.state
      BY <3>1 DEF ReleaseKill, Pump
    <3> QED
      BY <1>4, <3>4, <3>5 DEF Advance
  <2>2. Plain(Advance(p))
    BY AdvanceIsPlain
  <2> QED
    BY <2>1, <2>2, OffKeepsGap DEF Plain
<1> QED
  BY <1>1, <1>2, <1>3, <1>4 DEF Advance, Plain

(* START lets a sequence begin only when the cooldown is over.             *)
LEMMA StartKeepsGap ==
  ASSUME NEW p, Plain(p), Gapped(p), NEW t \in Timings
  PROVE  LET q == StartOutcome(p, FALSE, t).pump
         IN  Gapped(q) /\ (q.starterActive => q = p)
<1>1. CASE ~StartPermitted(p, FALSE)
  BY <1>1 DEF StartOutcome, Refused
<1>2. CASE StartPermitted(p, FALSE)
  <2> DEFINE a == [p EXCEPT !.overrideActive = FALSE, !.timings = Clamp(t)]
             open == OpenValve(a)
             choked == EngageChoke(a)
             primes == EnterState(open, "PRIMING")
             chokes == EnterState(choked, "CHOKING")
             Rested(q) == /\ q \in Pump /\ ~q.overrideActive /\ ~q.starterActive
                          /\ q.starterEverReleased => q.sinceRelease >= RecrankGap
  <2>1. p \in Pump /\ ~p.starterActive /\ CooldownOver(p) /\ p.state = "IDLE"
    BY <1>2 DEF StartPermitted, Plain
  <2>1a. a.state = "IDLE" /\ open.state = "IDLE"
    BY <2>1 DEF OpenValve, Pump
  <2>2. Rested(a)
    BY <2>1, ClampIsTimings DEF Pump, CooldownOver
  <2>3. StartOutcome(p, FALSE, t).pump = IF IntakeValveEnabled THEN primes ELSE chokes
    BY <1>2, <2>2 DEF StartOutcome, Accepted, BeginStartSequence, ReleaseStarter
  <2> HIDE DEF a
  <2>4. Rested(open) /\ open.state = "IDLE"
    BY <2>1a, <2>2 DEF OpenValve, Pump
  <2>5. Rested(choked)
    BY <2>2 DEF EngageChoke, Pump
  <2>6. "PRIMING" \in States /\ "CHOKING" \in States
    BY DEF States, Sequence
  <2> HIDE DEF open, choked
  <2>7. Rested(primes) /\ primes.state = "PRIMING"
    BY <2>4, <2>6, EnterStateFields
  <2>7a. primes.stateElapsed = 0
    BY <2>4 DEF EnterState, Pump
  <2>8. Rested(chokes)
    BY <2>5, <2>6, EnterStateFields
  <2> HIDE DEF primes, chokes
  <2>9. RecrankGap + 0 = RecrankGap
    BY DurationsAreNat
  <2>10. Gapped(primes)
    BY <2>7, <2>7a, <2>9 DEF Gapped
  <2>11. ~IntakeValveEnabled => Gapped(chokes)
    BY <2>8 DEF Gapped, GraceEndsInPriming
  <2> QED
    BY <2>3, <2>7, <2>8, <2>10, <2>11
<1> QED
  BY <1>1, <1>2

(* A command engages no starter, and leaves the gap as it should be.       *)
LEMMA ConcludeKeepsGap ==
  ASSUME NEW type, NEW id, NEW q, Gapped(q), q.starterActive => pump.starterActive,
         NEW outcome, Gapped(outcome.pump), outcome.pump.starterActive => outcome.pump = q,
         Conclude(type, id, q, outcome)
  PROVE  GapKept(pump, pump')
BY DEF Conclude, GapKept

(* Every step of plain use honours the gap.                                *)
LEMMA NextKeepsGap ==
  ASSUME PlainUse, IInv, PlainInv, Gapped(pump), Next
  PROVE  GapKept(pump, pump')
<1>1. ASSUME NEW raw \in Readings
      PROVE  LET q == EnforceSafety(pump, raw)
             IN  /\ Plain(q) /\ Watered(q) /\ Gapped(q)
                 /\ q.starterActive => pump.starterActive
  BY CheckIsPlain, CheckKeepsGap DEF PlainInv, Readings
<1>2. ASSUME NEW d \in Steps, NEW raw \in Readings, Tick(d, raw)
      PROVE  GapKept(pump, pump')
  <2> DEFINE e == Elapse(pump, d)
             q == EnforceSafety(e, raw)
  <2>1. Plain(e) /\ Gapped(e) /\ e.starterActive = pump.starterActive
    BY ElapseLeavesRelays, SameRelaysArePlain, ElapseKeepsGap, InputAssumption
       DEF PlainInv, IInv, Sound, GapKept
  <2> HIDE DEF e
  <2>2. Plain(q) /\ Watered(q) /\ Gapped(q) /\ (q.starterActive => e.starterActive)
    BY <2>1, CheckIsPlain, CheckKeepsGap DEF Readings
  <2>3. pump' = Advance(q)
    BY <1>2 DEF Tick, e
  <2> HIDE DEF q
  <2>4. GapKept(q, pump')
    BY <2>2, <2>3, AdvanceKeepsGap
  <2> QED
    BY <2>1, <2>2, <2>4 DEF GapKept
<1>3. ASSUME NEW id \in Callers, NEW override \in Overrides, NEW timings \in RequestedTimings,
             NEW raw \in Readings, Start(id, override, timings, raw)
      PROVE  GapKept(pump, pump')
  <2> DEFINE q == EnforceSafety(pump, raw)
  <2>1. override = FALSE /\ timings \in Timings
    BY InputAssumption DEF PlainUse
  <2> QED
    BY <1>1, <1>3, <2>1, StartKeepsGap, ConcludeKeepsGap DEF Start
<1>4. ASSUME NEW id \in Callers, NEW raw \in Readings, Stop(id, raw)
      PROVE  GapKept(pump, pump')
  <2> DEFINE q == EnforceSafety(pump, raw)
             r == BeginStopSequence(q)
  <2>1. Plain(r) /\ r.state = "STOPPING"
    BY <1>1, StopIsPlain DEF Plain
  <2>2. Gapped(r) /\ ~r.starterActive
    BY <2>1 DEF Plain, Gapped
  <2> QED
    BY <1>1, <1>4, <2>2, ConcludeKeepsGap DEF Stop, Accepted
<1>5. ASSUME NEW id \in Callers, NEW raw \in Readings, StartFailed(id, raw)
      PROVE  GapKept(pump, pump')
  <2> DEFINE q == EnforceSafety(pump, raw)
             r == StartFailedOutcome(q).pump
  <2>1. Plain(r) /\ (r = q \/ r.state = "RETRY_WAIT")
    BY <1>1, StartFailedIsPlain
  <2>2. Gapped(r) /\ (r.starterActive => r = q)
    BY <1>1, <2>1 DEF Plain, Gapped
  <2> QED
    BY <1>1, <1>5, <2>2, ConcludeKeepsGap DEF StartFailed
<1>6. ASSUME NEW id \in Callers, NEW raw \in Readings, ResetIdle(id, raw)
      PROVE  GapKept(pump, pump')
  <2> DEFINE q == EnforceSafety(pump, raw)
             r == ResetIdleOutcome(q).pump
  <2>1. Plain(r) /\ (r = q \/ r.state \in {"IDLE", "RETRY_WAIT"})
    BY <1>1, ResetIdleIsPlain
  <2>2. Gapped(r) /\ (r.starterActive => r = q)
    BY <1>1, <2>1 DEF Plain, Gapped
  <2> QED
    BY <1>1, <1>6, <2>2, ConcludeKeepsGap DEF ResetIdle
<1>7. ASSUME NEW type \in Maintenance, NEW id \in Callers, NEW override \in Overrides,
             NEW raw \in Readings, Maintain(type, id, override, raw)
      PROVE  FALSE
  BY <1>7 DEF Maintain, PlainUse
<1>8. CASE Reboot
  BY <1>8 DEF Reboot, PowerUp, GapKept, Gapped
<1> QED
  BY <1>2, <1>3, <1>4, <1>5, <1>6, <1>7, <1>8 DEF Next

(* A start sequence under way always began after the gap.                  *)
GappedInv == Gapped(pump)

(* No reachable state of plain use primes or chokes within the gap.        *)
THEOREM GapInvariance ==
  ASSUME PlainUse
  PROVE  Spec => []GappedInv
<1>1. Init => GappedInv
  BY DEF Init, PowerUp, GappedInv, Gapped
<1>2. IInv /\ PlainInv /\ GappedInv /\ [Next]_vars => GappedInv'
  BY NextKeepsGap DEF GappedInv, Gapped, GapKept, vars
<1> QED
  BY <1>1, <1>2, Invariance, PlainInvariance, PTL DEF Spec

-----------------------------------------------------------------------------
(* The results.                                                            *)

(* The ignition is live only for an engine that was cranked, or in FAULT   *)
(* when the hold has been served.                                          *)
THEOREM IgnitionEarned ==
  ASSUME PlainUse
  PROVE  Spec => []IgnitionOnlyWhenCranked
<1>1. PlainInv => IgnitionOnlyWhenCranked
  BY DEF PlainInv, Plain, IgnitionOnlyWhenCranked
<1> QED
  BY <1>1, PlainInvariance, PTL

(* At rest everything is off and the intake is shut.                       *)
THEOREM DryRest ==
  ASSUME PlainUse
  PROVE  Spec => []RestIsDry
<1>1. PlainInv => RestIsDry
  BY DEF PlainInv, Plain, RestIsDry, Sequence
<1> QED
  BY <1>1, PlainInvariance, PTL

(* A fault is recorded in FAULT, always, and nowhere else.                 *)
THEOREM NoStaleFault ==
  ASSUME PlainUse
  PROVE  Spec => []FaultMeansFault
<1>1. PlainInv => FaultMeansFault
  BY DEF PlainInv, Plain, FaultMeansFault
<1> QED
  BY <1>1, PlainInvariance, PTL

(* Priming and the choke lead happen with the ignition grounded.           *)
THEOREM PrimingInhibited ==
  ASSUME PlainUse
  PROVE  Spec => []PrimingIsInhibited
<1>1. PlainInv => PrimingIsInhibited
  BY DEF PlainInv, Plain, PrimingIsInhibited, EngineWasStarted
<1> QED
  BY <1>1, PlainInvariance, PTL

(* A started engine does not run on without water beyond its grace.        *)
THEOREM NeverSilentlyDry ==
  ASSUME PlainUse
  PROVE  Spec => []NoSilentDryRun
<1>1. PlainInv => NoSilentDryRun
  BY DEF PlainInv, Watered, NoSilentDryRun
<1> QED
  BY <1>1, PlainInvariance, PTL

(* Where the gap and the prime dwell outlast the grace, the grace of one   *)
(* crank never covers the next: no engine is cranked without water         *)
(* (waterStartupGraceActive(), against engageStarter() and beginStart-     *)
(* Sequence()).                                                            *)
THEOREM CrankedOnWater ==
  ASSUME PlainUse, IntakeValveEnabled, WaterGrace <= RecrankGap + ValvePrime
  PROVE  Spec => []CrankHasWater
<1>1. PlainInv /\ GappedInv => CrankHasWater
  <2> SUFFICES ASSUME Watered(pump), Gapped(pump), pump \in Pump, pump.state = "CRANKING",
                      ~pump.waterOk
               PROVE  FALSE
    BY DEF PlainInv, GappedInv, Plain, CrankHasWater
  <2>1. pump.starterEverReleased /\ pump.sinceRelease < WaterGrace
    BY DEF Watered, EngineWasStarted, WaterStartupGraceActive
  <2>2. pump.sinceRelease >= WaterGrace
    BY <2>1 DEF Gapped, GraceEndsInPriming
  <2> QED
    BY <2>1, <2>2, DurationsAreNat DEF Pump
<1> QED
  BY <1>1, PlainInvariance, GapInvariance, PTL

(* The starter is not engaged again within the gap after its release.      *)
THEOREM RecrankGapKept ==
  ASSUME PlainUse
  PROVE  Spec => RecrankGapHonoured
<1>1. IInv /\ PlainInv /\ GappedInv /\ [Next]_vars
        => [~pump.starterActive /\ pump'.starterActive /\ pump'.starterEverReleased
              => pump'.sinceRelease >= RecrankGap]_vars
  BY NextKeepsGap DEF GappedInv, GapKept, vars
<1> QED
  BY <1>1, Invariance, PlainInvariance, GapInvariance, PTL DEF Spec, RecrankGapHonoured

==============================================================================
