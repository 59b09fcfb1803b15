------------------------ MODULE PumpControllerProofs ------------------------
(***************************************************************************)
(* Proofs about PumpController, for every value of its constants that      *)
(* satisfies DurationAssumption and InputAssumption.                       *)
(*                                                                         *)
(* The shape of the argument.  Sound is what holds of the controller       *)
(* between two handlers.  The ceilings on starter and choke do not survive *)
(* the passage of time, so Sound is split: Interlocked survives everything,*)
(* WithinCeiling is restored by EnforceSafety, with which every handler    *)
(* begins, and kept by whatever comes after it.  One lemma per method says *)
(* that the method keeps both; NextIInv puts them together, one step per   *)
(* action.                                                                 *)
(***************************************************************************)
EXTENDS PumpController, TLAPS

-----------------------------------------------------------------------------
(* The inductive invariant.                                                *)

WithinCeiling(p) ==
    /\ p.starterActive => p.starterOnFor < MaxCrank
    /\ p.chokeActive /\ p.fault = "NONE" => p.chokeOnFor < MaxChoke

IntakeServesEngine(p) ==
    IntakeValveEnabled =>
        /\ EngineWasStarted(p) => p.valveActive
        /\ p.state = "CRANKING" => p.overrideActive \/ p.valveOpenFor >= ValvePrime

Interlocked(p) ==
    /\ p \in Pump
    /\ p.starterActive => ~p.killActive
    /\ p.overrideActive => p.state \in Sequence
    /\ IntakeServesEngine(p)

Sound(p) == Interlocked(p) /\ WithinCeiling(p)

Keeps(p, q) == Interlocked(q) /\ (WithinCeiling(p) => WithinCeiling(q))

RingOK(r) ==
    /\ r \in Seq([type : Commands, id : RequestIds])
    /\ Len(r) <= IdempotencySlots
    /\ \A i, j \in DOMAIN r : r[i] = r[j] => i = j

IInv == Sound(pump) /\ RingOK(records)

-----------------------------------------------------------------------------
(* Arithmetic.                                                             *)

(* The durations, one by one, are natural numbers.                         *)
LEMMA DurationsAreNat ==
    /\ ValvePrime \in Nat /\ ValveCloseDelay \in Nat /\ KillHold \in Nat
    /\ MaxCrank \in Nat /\ MaxChoke \in Nat /\ MaxChokePrep \in Nat
    /\ MaxUnchokeDelay \in Nat /\ RecrankGap \in Nat /\ WaterDebounce \in Nat
    /\ WaterGrace \in Nat /\ StateHorizon \in Nat /\ ReleaseHorizon \in Nat
  BY DurationAssumption DEF ReleaseHorizon

(* The ceilings leave room for an engagement.                              *)
LEMMA CeilingsArePositive == 0 < MaxCrank /\ 0 < MaxChoke
<1>1. MaxChokePrep + MaxCrank + MaxUnchokeDelay < MaxChoke /\ MaxCrank > 0
  BY DurationAssumption
<1> QED
  BY <1>1, DurationsAreNat

(* The passage of time keeps the interlocks and touches no relay.          *)
LEMMA ElapseKeeps ==
  ASSUME NEW p, Interlocked(p), NEW d \in Nat
  PROVE  /\ Interlocked(Elapse(p, d))
         /\ Elapse(p, d).starterActive = p.starterActive
         /\ Elapse(p, d).valveActive = p.valveActive
<1>1. p \in Pump
  BY DEF Interlocked
<1>2. \A x \in Nat :
        /\ Least(x + d, StateHorizon) \in Nat
        /\ Least(x + d, MaxCrank) \in Nat
        /\ Least(x + d, ReleaseHorizon) \in Nat
        /\ Least(x + d, MaxChoke) \in Nat
        /\ Least(x + d, ValvePrime) \in Nat
        /\ Least(x + d, WaterDebounce) \in Nat
        /\ Least(x + d, KillHold) \in Nat
  BY DurationsAreNat DEF Least
<1>3. Elapse(p, d) \in Pump
  <2> DEFINE q == Elapse(p, d)
  <2>1. /\ q.stateElapsed \in Nat /\ q.starterOnFor \in Nat /\ q.sinceRelease \in Nat
        /\ q.chokeOnFor \in Nat /\ q.valveOpenFor \in Nat /\ q.waterStableFor \in Nat
        /\ q.faultKillFor \in Nat
    BY <1>1, <1>2 DEF Elapse, Pump
  <2>2. q = [p EXCEPT !.stateElapsed = q.stateElapsed, !.starterOnFor = q.starterOnFor,
                      !.sinceRelease = q.sinceRelease, !.chokeOnFor = q.chokeOnFor,
                      !.valveOpenFor = q.valveOpenFor, !.waterStableFor = q.waterStableFor,
                      !.faultKillFor = q.faultKillFor]
    BY <1>1 DEF Elapse, Pump
  <2> HIDE DEF q
  <2>3. q \in Pump
    BY <1>1, <2>1, <2>2 DEF Pump
  <2> QED BY <2>3 DEF q
<1> DEFINE r == Elapse(p, d)
<1>4. /\ r.state = p.state /\ r.valveActive = p.valveActive
      /\ r.starterActive = p.starterActive /\ r.killActive = p.killActive
      /\ r.overrideActive = p.overrideActive
  BY <1>1 DEF Elapse, Pump
<1>5. p.valveActive => r.valveOpenFor = Least(p.valveOpenFor + d, ValvePrime)
  BY <1>1 DEF Elapse, Pump
<1>6. p.valveActive /\ p.valveOpenFor >= ValvePrime => r.valveOpenFor >= ValvePrime
  BY <1>1, <1>5, DurationsAreNat DEF Least, Pump
<1> HIDE DEF r
<1>7. IntakeServesEngine(r)
  BY <1>4, <1>6 DEF Interlocked, IntakeServesEngine, EngineWasStarted
<1>8. Interlocked(r)
  BY <1>3, <1>4, <1>7 DEF Interlocked, r
<1> QED
  BY <1>4, <1>8 DEF r

-----------------------------------------------------------------------------
(* The relay layer.                                                        *)

(* Calls that keep the invariant can be made one after another.            *)
LEMMA KeepsComposes ==
  ASSUME NEW p, NEW q, NEW r, Keeps(p, q), Keeps(q, r)
  PROVE  Keeps(p, r)
BY DEF Keeps

(* setStarterRelay(false) keeps the invariant and releases the starter.    *)
LEMMA ReleaseStarterKeeps ==
  ASSUME NEW p, Interlocked(p)
  PROVE  /\ Keeps(p, ReleaseStarter(p))
         /\ ~ReleaseStarter(p).starterActive
         /\ ReleaseStarter(p).chokeActive = p.chokeActive
         /\ ReleaseStarter(p).state = p.state
         /\ ReleaseStarter(p).valveActive = p.valveActive
BY DEF Keeps, Interlocked, ReleaseStarter, Pump, IntakeServesEngine, EngineWasStarted,
       WithinCeiling

(* setChokeRelay(false) keeps the invariant.                               *)
LEMMA ReleaseChokeKeeps ==
  ASSUME NEW p, Interlocked(p)
  PROVE  /\ Keeps(p, ReleaseChoke(p))
         /\ ReleaseChoke(p).starterActive = p.starterActive
         /\ ~ReleaseChoke(p).chokeActive
         /\ ReleaseChoke(p).state = p.state
         /\ ReleaseChoke(p).valveActive = p.valveActive
BY DEF Keeps, Interlocked, ReleaseChoke, Pump, IntakeServesEngine, EngineWasStarted,
       WithinCeiling

(* setChokeRelay(true) keeps the invariant.                                *)
LEMMA EngageChokeKeeps ==
  ASSUME NEW p, Interlocked(p)
  PROVE  /\ Keeps(p, EngageChoke(p))
         /\ EngageChoke(p).starterActive = p.starterActive
         /\ EngageChoke(p).state = p.state
         /\ EngageChoke(p).valveActive = p.valveActive
<1>1. CASE p.chokeActive
  BY <1>1 DEF EngageChoke, Keeps
<1>2. CASE ~p.chokeActive
  <2> DEFINE q == [p EXCEPT !.chokeActive = TRUE, !.chokeOnFor = 0]
  <2>1. q \in Pump
    BY DEF Interlocked, Pump
  <2>2. /\ q.chokeOnFor = 0 /\ q.state = p.state /\ q.valveActive = p.valveActive
        /\ q.valveOpenFor = p.valveOpenFor /\ q.starterActive = p.starterActive
        /\ q.starterOnFor = p.starterOnFor /\ q.killActive = p.killActive
        /\ q.overrideActive = p.overrideActive
    BY DEF Interlocked, Pump
  <2> HIDE DEF q
  <2>3. Keeps(p, q)
    BY <2>1, <2>2, CeilingsArePositive
       DEF Keeps, Interlocked, IntakeServesEngine, EngineWasStarted, WithinCeiling
  <2> QED
    BY <1>2, <2>2, <2>3 DEF EngageChoke, q
<1> QED
  BY <1>1, <1>2

(* setKillRelay(true) keeps the invariant and leaves the starter off.      *)
LEMMA AssertKillKeeps ==
  ASSUME NEW p, Interlocked(p)
  PROVE  /\ Keeps(p, AssertKill(p))
         /\ ~AssertKill(p).starterActive
         /\ AssertKill(p).chokeActive = p.chokeActive
         /\ AssertKill(p).state = p.state
         /\ AssertKill(p).valveActive = p.valveActive
<1> DEFINE q == ReleaseStarter(p)
<1>1. /\ Keeps(p, q) /\ ~q.starterActive /\ q.state = p.state
      /\ q.chokeActive = p.chokeActive /\ q.valveActive = p.valveActive
  BY ReleaseStarterKeeps
<1>2. AssertKill(p) = [q EXCEPT !.killActive = TRUE]
  BY DEF AssertKill
<1> HIDE DEF q
<1> QED
  BY <1>1, <1>2 DEF Keeps, Interlocked, Pump, IntakeServesEngine, EngineWasStarted,
                    WithinCeiling

(* setKillRelay(false) keeps the invariant: it engages nothing.            *)
LEMMA ReleaseKillKeeps ==
  ASSUME NEW p, Interlocked(p)
  PROVE  /\ Keeps(p, ReleaseKill(p))
         /\ ReleaseKill(p).state = p.state
         /\ ReleaseKill(p).valveActive = p.valveActive
         /\ ReleaseKill(p).starterActive = p.starterActive
         /\ ~ReleaseKill(p).killActive
BY DEF Keeps, Interlocked, ReleaseKill, Pump, IntakeServesEngine, EngineWasStarted,
       WithinCeiling

(* setValveRelay(true) keeps the invariant.                                *)
LEMMA OpenValveKeeps ==
  ASSUME NEW p, Interlocked(p)
  PROVE  /\ Interlocked(OpenValve(p))
         /\ WithinCeiling(p) => WithinCeiling(OpenValve(p))
         /\ OpenValve(p).state = p.state
         /\ OpenValve(p).valveActive
         /\ OpenValve(p).starterActive = p.starterActive
<1>1. CASE p.valveActive
  BY <1>1 DEF OpenValve
<1>2. CASE ~p.valveActive
  <2> DEFINE q == [p EXCEPT !.valveActive = TRUE, !.valveOpenFor = 0]
  <2>1. q \in Pump
    BY DEF Interlocked, Pump
  <2>2. /\ q.valveActive /\ q.state = p.state /\ q.starterActive = p.starterActive
        /\ q.starterOnFor = p.starterOnFor /\ q.killActive = p.killActive
        /\ q.chokeActive = p.chokeActive /\ q.chokeOnFor = p.chokeOnFor
        /\ q.fault = p.fault /\ q.overrideActive = p.overrideActive
    BY DEF Interlocked, Pump
  <2> HIDE DEF q
  <2>3. Interlocked(q) /\ (WithinCeiling(p) => WithinCeiling(q))
    BY <1>2, <2>1, <2>2
       DEF Interlocked, IntakeServesEngine, EngineWasStarted, WithinCeiling
  <2> QED
    BY <1>2, <2>2, <2>3 DEF OpenValve, q
<1> QED
  BY <1>1, <1>2

(* setValveRelay(false) keeps the invariant: it is refused whenever the    *)
(* state says that the engine may turn.                                    *)
LEMMA ShutValveKeeps ==
  ASSUME NEW p, Interlocked(p)
  PROVE  /\ Keeps(p, ShutValve(p))
         /\ ShutValve(p).state = p.state
         /\ ShutValve(p).starterActive = p.starterActive
         /\ ShutValve(p).chokeActive = p.chokeActive
BY DEF Keeps, Interlocked, ShutValve, Pump, IntakeServesEngine, EngineWasStarted,
       EngineMayBeRunning, WithinCeiling

(* enterState() keeps the invariant, provided that the intake is open on   *)
(* entry to a state of a started engine, and primed on entry to CRANKING.  *)
LEMMA EnterStateKeeps ==
  ASSUME NEW p, Interlocked(p), NEW s \in States,
         IntakeValveEnabled /\ s \in {"CRANKING", "UNCHOKING", "RUNNING_ASSUMED"}
           => p.valveActive,
         IntakeValveEnabled /\ s = "CRANKING"
           => p.overrideActive \/ p.valveOpenFor >= ValvePrime
  PROVE  /\ Keeps(p, EnterState(p, s))
         /\ EnterState(p, s).starterActive = p.starterActive
         /\ EnterState(p, s).chokeActive = p.chokeActive
         /\ EnterState(p, s).valveActive = p.valveActive
<1>1. CASE s = p.state
  BY <1>1 DEF Keeps, EnterState
<1>2. CASE s # p.state
  <2> DEFINE q == EnterState(p, s)
  <2>1. q \in Pump
    BY <1>2 DEF Interlocked, EnterState, Pump
  <2>2. /\ q.state = s /\ q.valveActive = p.valveActive
        /\ q.valveOpenFor = p.valveOpenFor /\ q.starterActive = p.starterActive
        /\ q.starterOnFor = p.starterOnFor /\ q.killActive = p.killActive
        /\ q.chokeActive = p.chokeActive /\ q.chokeOnFor = p.chokeOnFor
        /\ q.fault = p.fault
        /\ q.overrideActive = (p.overrideActive /\ s \in Sequence)
    BY <1>2 DEF Interlocked, EnterState, Pump
  <2> HIDE DEF q
  <2>3. s = "CRANKING" => s \in Sequence
    BY DEF Sequence
  <2>4. Keeps(p, q)
    BY <2>1, <2>2, <2>3
       DEF Keeps, Interlocked, IntakeServesEngine, EngineWasStarted, WithinCeiling
  <2> QED
    BY <2>2, <2>4 DEF q
<1> QED
  BY <1>1, <1>2

(* enterFault() keeps the interlocks, from any state, leaves the valve     *)
(* alone, and needs no ceiling: starter and choke are off.                 *)
LEMMA EnterFaultKeeps ==
  ASSUME NEW p, Interlocked(p), NEW code \in Faults
  PROVE  /\ Interlocked(EnterFault(p, code))
         /\ WithinCeiling(EnterFault(p, code))
         /\ ~EnterFault(p, code).starterActive
         /\ EnterFault(p, code).valveActive = p.valveActive
<1> DEFINE a == [p EXCEPT !.fault = code]
           b == ReleaseStarter(a)
           c == ReleaseChoke(b)
           d == AssertKill(c)
<1>1. Interlocked(a) /\ a.valveActive = p.valveActive
  BY DEF Interlocked, Pump, IntakeServesEngine, EngineWasStarted
<1>2. Interlocked(b) /\ b.valveActive = p.valveActive
  BY <1>1, ReleaseStarterKeeps DEF Keeps
<1>3. Interlocked(c) /\ ~c.chokeActive /\ c.valveActive = p.valveActive
  BY <1>2, ReleaseChokeKeeps DEF Keeps
<1>4. /\ Interlocked(d) /\ ~d.starterActive /\ ~d.chokeActive
      /\ d.valveActive = p.valveActive
  BY <1>3, AssertKillKeeps DEF Keeps
<1> DEFINE e == [d EXCEPT !.faultKillActive = MightBeRunning(p), !.faultKillFor = 0]
<1>5. /\ Interlocked(e) /\ ~e.starterActive /\ ~e.chokeActive
      /\ e.valveActive = p.valveActive
  <2> HIDE DEF d
  <2>1. MightBeRunning(p) \in BOOLEAN
    BY DEF MightBeRunning
  <2> QED BY <1>4, <2>1 DEF Interlocked, Pump, IntakeServesEngine, EngineWasStarted
<1>6. EnterFault(p, code) = EnterState(e, "FAULT")
  BY DEF EnterFault
<1>7. "FAULT" \in States
  BY DEF States
<1> HIDE DEF e
<1> QED
  BY <1>5, <1>6, <1>7, EnterStateKeeps DEF Keeps, WithinCeiling

(* setStarterRelay(true) keeps the invariant; when it does leave the       *)
(* starter on, the intake is open and primed.                              *)
LEMMA EngageStarterKeeps ==
  ASSUME NEW p, Interlocked(p)
  PROVE  /\ Keeps(p, EngageStarter(p))
         /\ EngageStarter(p).starterActive =>
              /\ EngageStarter(p).state = p.state
              /\ IntakeValveEnabled =>
                   /\ EngageStarter(p).valveActive
                   /\ \/ EngageStarter(p).overrideActive
                      \/ EngageStarter(p).valveOpenFor >= ValvePrime
<1>1. CASE p.killActive
  BY <1>1, EnterFaultKeeps DEF EngageStarter, Faults, Keeps
<1>2. CASE ~p.killActive /\ ~PrimeComplete(p)
  BY <1>2, EnterFaultKeeps DEF EngageStarter, Faults, Keeps
<1>3. CASE ~p.killActive /\ PrimeComplete(p)
  <2>1. EngageStarter(p) = IF p.starterActive THEN p
                           ELSE [p EXCEPT !.starterActive = TRUE, !.starterOnFor = 0]
    BY <1>3 DEF EngageStarter
  <2>2. 0 < MaxCrank
    BY CeilingsArePositive
  <2>3. IntakeValveEnabled =>
          p.valveActive /\ (p.overrideActive \/ p.valveOpenFor >= ValvePrime)
    BY <1>3 DEF PrimeComplete
  <2>4. CASE p.starterActive
    BY <2>1, <2>3, <2>4 DEF Keeps
  <2>5. CASE ~p.starterActive
    <3> DEFINE q == [p EXCEPT !.starterActive = TRUE, !.starterOnFor = 0]
    <3>1. q \in Pump
      BY DEF Interlocked, Pump
    <3>2. /\ q.starterActive /\ q.starterOnFor = 0 /\ ~q.killActive
          /\ q.state = p.state /\ q.valveActive = p.valveActive
          /\ q.chokeActive = p.chokeActive /\ q.chokeOnFor = p.chokeOnFor
          /\ q.fault = p.fault /\ q.overrideActive = p.overrideActive
          /\ q.valveOpenFor = p.valveOpenFor
      BY <1>3 DEF Interlocked, Pump
    <3> HIDE DEF q
    <3>3. Keeps(p, q)
      BY <2>2, <2>3, <3>1, <3>2
         DEF Keeps, Interlocked, IntakeServesEngine, EngineWasStarted, WithinCeiling
    <3>4. EngageStarter(p) = q
      BY <2>1, <2>5 DEF q
    <3> QED
      BY <2>3, <3>2, <3>3, <3>4
  <2> QED
    BY <2>4, <2>5
<1> QED
  BY <1>1, <1>2, <1>3

(* toSafeState() keeps the interlocks and leaves starter and choke off.    *)
LEMMA ToSafeStateKeeps ==
  ASSUME NEW p, Interlocked(p)
  PROVE  /\ Interlocked(ToSafeState(p))
         /\ WithinCeiling(ToSafeState(p))
         /\ ~ToSafeState(p).starterActive
BY ReleaseStarterKeeps, ReleaseChokeKeeps, AssertKillKeeps, ShutValveKeeps
   DEF ToSafeState, Keeps, WithinCeiling

-----------------------------------------------------------------------------
(* The safety limits and the state machine.                                *)

(* A rule of enforceSafety() that is already recorded as a fault keeps the *)
(* interlocks as well.                                                     *)
LEMMA EnterFaultOnceKeeps ==
  ASSUME NEW p, Interlocked(p), ~p.starterActive, NEW code \in Faults \ {"NONE"}
  PROVE  /\ Interlocked(EnterFaultOnce(p, code))
         /\ WithinCeiling(EnterFaultOnce(p, code))
         /\ ~EnterFaultOnce(p, code).starterActive
         /\ EnterFaultOnce(p, code).valveActive = p.valveActive
BY EnterFaultKeeps DEF EnterFaultOnce, WithinCeiling

(* Reading the water input keeps the interlocks and touches no relay.      *)
LEMMA UpdateWaterInterlockKeeps ==
  ASSUME NEW p, Interlocked(p), NEW raw \in BOOLEAN
  PROVE  /\ Interlocked(UpdateWaterInterlock(p, raw))
         /\ UpdateWaterInterlock(p, raw).starterActive = p.starterActive
         /\ UpdateWaterInterlock(p, raw).valveActive = p.valveActive
<1> DEFINE q == UpdateWaterInterlock(p, raw)
<1>1. q \in Pump
  BY DEF Interlocked, UpdateWaterInterlock, Pump
<1>2. /\ q.state = p.state /\ q.valveActive = p.valveActive
      /\ q.valveOpenFor = p.valveOpenFor /\ q.starterActive = p.starterActive
      /\ q.killActive = p.killActive /\ q.overrideActive = p.overrideActive
  BY DEF Interlocked, UpdateWaterInterlock, Pump
<1> HIDE DEF q
<1>3. Interlocked(q)
  BY <1>1, <1>2 DEF Interlocked, IntakeServesEngine, EngineWasStarted
<1> QED
  BY <1>2, <1>3 DEF q

(* Whichever rule of enforceSafety() fires, or none, the interlocks hold   *)
(* and starter and choke are off or below their ceilings.                  *)
LEMMA EnforceLimitsKeeps ==
  ASSUME NEW p, Interlocked(p)
  PROVE  Interlocked(EnforceLimits(p)) /\ WithinCeiling(EnforceLimits(p))
<1>1. CASE RunningDry(p)
  BY <1>1, EnterFaultKeeps DEF EnforceLimits, Faults
<1> DEFINE released == ReleaseStarter(p)
<1>2. Interlocked(released) /\ ~released.starterActive
  BY ReleaseStarterKeeps DEF Keeps
<1>3. CASE ~RunningDry(p) /\ p.starterActive /\ p.killActive
  BY <1>3 DEF Interlocked
<1>4. CASE ~RunningDry(p) /\ ~(p.starterActive /\ p.killActive) /\ StarterOverShutIntake(p)
  BY <1>2, <1>4, EnterFaultOnceKeeps DEF EnforceLimits, Faults
<1>5. CASE EngineWasStarted(p) /\ ~p.valveActive /\ ~StarterOverShutIntake(p)
            /\ ~RunningDry(p)
  <2>1. ~p.starterActive
    BY <1>5 DEF StarterOverShutIntake
  <2>2. Interlocked(OpenValve(p)) /\ ~OpenValve(p).starterActive
    BY <2>1, OpenValveKeeps DEF Interlocked
  <2>3. EnforceLimits(p) = EnterFaultOnce(OpenValve(p), "VALVE_CLOSED_WHILE_RUNNING")
    BY <1>5, <2>1 DEF EnforceLimits
  <2> QED
    BY <2>2, <2>3, EnterFaultOnceKeeps DEF Faults
<1>6. CASE /\ ~RunningDry(p)
           /\ ~(p.starterActive /\ p.killActive)
           /\ ~StarterOverShutIntake(p)
           /\ ~(EngineWasStarted(p) /\ ~p.valveActive)
  <2>1. CASE StarterOverrun(p)
    BY <1>2, <1>6, <2>1, EnterFaultKeeps DEF EnforceLimits, Faults
  <2>2. CASE ~StarterOverrun(p) /\ ChokeOverrun(p)
    BY <1>6, <2>2, ReleaseChokeKeeps, EnterFaultKeeps
       DEF EnforceLimits, Faults, Keeps
  <2>3. CASE ~StarterOverrun(p) /\ ~ChokeOverrun(p)
    <3>1. EnforceLimits(p) = p
      BY <1>6, <2>3 DEF EnforceLimits
    <3>2. p.starterActive => p.starterOnFor < MaxCrank
      BY <2>3, DurationsAreNat DEF StarterOverrun, Interlocked, Pump
    <3>3. p.chokeActive => p.chokeOnFor < MaxChoke
      BY <2>3, DurationsAreNat DEF ChokeOverrun, Interlocked, Pump
    <3> QED
      BY <3>1, <3>2, <3>3 DEF WithinCeiling
  <2> QED
    BY <2>1, <2>2, <2>3
<1> QED
  BY <1>1, <1>3, <1>4, <1>5, <1>6

(* enforceSafety() turns the interlocks into the whole invariant.          *)
LEMMA EnforceSafetyKeeps ==
  ASSUME NEW p, Interlocked(p), NEW raw \in BOOLEAN
  PROVE  Interlocked(EnforceSafety(p, raw)) /\ WithinCeiling(EnforceSafety(p, raw))
BY UpdateWaterInterlockKeeps, EnforceLimitsKeeps DEF EnforceSafety

(* advance() keeps the invariant in every state it may leave.              *)
LEMMA AdvanceKeeps ==
  ASSUME NEW p, Sound(p)
  PROVE  Sound(Advance(p))
<1> SUFFICES Keeps(p, Advance(p))
  BY DEF Sound, Keeps
<1> USE DEF Sound
<1>0. p.state \in States
  BY DEF Interlocked, Pump
<1>1. CASE p.state = "PRIMING" /\ (p.overrideActive \/ DwellOver(p))
  <2>1. Advance(p) = EnterState(EngageChoke(p), "CHOKING")
    BY <1>1 DEF Advance
  <2>2. Keeps(p, EngageChoke(p))
    BY EngageChokeKeeps
  <2>3. Keeps(EngageChoke(p), EnterState(EngageChoke(p), "CHOKING"))
    BY <2>2, EnterStateKeeps DEF Keeps, States, Sequence
  <2> QED
    BY <2>1, <2>2, <2>3, KeepsComposes
<1>2. CASE p.state = "CHOKING" /\ DwellOver(p)
  <2> DEFINE q == EngageStarter(ReleaseKill(p))
  <2>1. /\ Keeps(p, q)
        /\ q.starterActive /\ IntakeValveEnabled =>
             q.valveActive /\ (q.overrideActive \/ q.valveOpenFor >= ValvePrime)
    BY ReleaseKillKeeps, EngageStarterKeeps, KeepsComposes DEF Keeps
  <2>2. Advance(p) = IF q.starterActive THEN EnterState(q, "CRANKING") ELSE q
    BY <1>2 DEF Advance, BeginCrank
  <2> HIDE DEF q
  <2>3. CASE q.starterActive
    <3>1. Keeps(q, EnterState(q, "CRANKING"))
      BY <2>1, <2>3, EnterStateKeeps DEF Keeps, States, Sequence
    <3> QED BY <2>1, <2>2, <2>3, <3>1, KeepsComposes
  <2> QED BY <2>1, <2>2, <2>3
<1>3. CASE p.state = "CRANKING" /\ DwellOver(p)
  <2>1. Advance(p) = EnterState(ReleaseStarter(p), "UNCHOKING")
    BY <1>3 DEF Advance
  <2>2. Keeps(p, ReleaseStarter(p)) /\ ReleaseStarter(p).state = "CRANKING"
    BY <1>3, ReleaseStarterKeeps
  <2>3. Keeps(ReleaseStarter(p), Advance(p))
    BY <2>1, <2>2, EnterStateKeeps
       DEF Keeps, Interlocked, IntakeServesEngine, EngineWasStarted, States, Sequence
  <2> QED
    BY <2>2, <2>3, KeepsComposes
<1>4. CASE p.state = "UNCHOKING" /\ DwellOver(p)
  <2>1. Advance(p) = EnterState(ReleaseChoke(p), "RUNNING_ASSUMED")
    BY <1>4 DEF Advance
  <2>2. Keeps(p, ReleaseChoke(p)) /\ ReleaseChoke(p).state = "UNCHOKING"
    BY <1>4, ReleaseChokeKeeps
  <2>3. Keeps(ReleaseChoke(p), Advance(p))
    BY <2>1, <2>2, EnterStateKeeps
       DEF Keeps, Interlocked, IntakeServesEngine, EngineWasStarted, States, Sequence
  <2> QED
    BY <2>2, <2>3, KeepsComposes
<1>5. CASE p.state = "STOPPING" /\ DwellOver(p)
  BY <1>5, EnterStateKeeps DEF Advance, States
<1>6. CASE p.state = "VALVE_CLOSING" /\ DwellOver(p)
  <2>1. Advance(p) = EnterState(ShutValve(p), "IDLE")
    BY <1>6 DEF Advance
  <2>2. Keeps(ShutValve(p), Advance(p))
    BY <2>1, ShutValveKeeps, EnterStateKeeps DEF Keeps, States
  <2> QED
    BY <2>2, ShutValveKeeps, KeepsComposes
<1>7. CASE p.state = "RETRY_WAIT" /\ CooldownOver(p)
  BY <1>7, EnterStateKeeps DEF Advance, States
<1>8. CASE p.state = "FAULT" /\ p.faultKillActive /\ p.faultKillFor >= KillHold
  <2>1. Advance(p) = [ReleaseKill(p) EXCEPT !.faultKillActive = FALSE]
    BY <1>8 DEF Advance
  <2> DEFINE q == ReleaseKill(p)
  <2>2. Keeps(p, q)
    BY ReleaseKillKeeps
  <2> HIDE DEF q
  <2>3. Keeps(q, [q EXCEPT !.faultKillActive = FALSE])
    BY <2>2 DEF Keeps, Interlocked, Pump, IntakeServesEngine, EngineWasStarted, WithinCeiling
  <2> QED
    BY <2>1, <2>2, <2>3, KeepsComposes DEF q
<1>9. CASE Advance(p) = p
  BY <1>9 DEF Keeps
<1> QED
  BY <1>1, <1>2, <1>3, <1>4, <1>5, <1>6, <1>7, <1>8, <1>9 DEF Advance

-----------------------------------------------------------------------------
(* The commands.                                                           *)

(* A STOP keeps the invariant, in every state, and leaves the starter off. *)
LEMMA BeginStopSequenceKeeps ==
  ASSUME NEW p, Sound(p)
  PROVE  Sound(BeginStopSequence(p)) /\ ~BeginStopSequence(p).starterActive
<1> DEFINE shed == AssertKill(ReleaseChoke(ReleaseStarter(p)))
           quiet == [shed EXCEPT !.faultKillActive = FALSE, !.fault = "NONE"]
<1>1. Interlocked(shed) /\ ~shed.starterActive /\ ~shed.chokeActive
  BY ReleaseStarterKeeps, ReleaseChokeKeeps, AssertKillKeeps DEF Sound, Keeps
<1>2. Interlocked(quiet) /\ ~quiet.starterActive /\ ~quiet.chokeActive
  <2> HIDE DEF shed
  <2> QED
    BY <1>1 DEF Interlocked, Pump, Faults, IntakeServesEngine, EngineWasStarted
<1>3. BeginStopSequence(p) = [EnterState(quiet, "STOPPING") EXCEPT !.stateElapsed = 0]
  BY DEF BeginStopSequence
<1> HIDE DEF quiet
<1> DEFINE stopping == EnterState(quiet, "STOPPING")
<1>4. Interlocked(stopping) /\ ~stopping.starterActive /\ ~stopping.chokeActive
  BY <1>2, EnterStateKeeps DEF Keeps, States
<1> HIDE DEF stopping
<1>5. /\ Sound([stopping EXCEPT !.stateElapsed = 0])
      /\ ~[stopping EXCEPT !.stateElapsed = 0].starterActive
  BY <1>4 DEF Sound, Interlocked, WithinCeiling, Pump, IntakeServesEngine, EngineWasStarted
<1> QED
  BY <1>3, <1>5 DEF stopping

(* StartTimings::clamp() yields timings.                                   *)
LEMMA ClampIsTimings ==
  ASSUME NEW t \in Timings
  PROVE  Clamp(t) \in Timings
BY DurationsAreNat DEF Clamp, Least, Timings

(* Entering PRIMING or CHOKING is sound when the starter is off, even for  *)
(* a controller whose override flag was just set outside a sequence.       *)
LEMMA BeginsInSequence ==
  ASSUME NEW p, p \in Pump, ~p.starterActive, WithinCeiling(p),
         IntakeValveEnabled => p.valveActive,
         NEW s \in {"PRIMING", "CHOKING"}
  PROVE  Sound(EnterState(p, s)) /\ ~EnterState(p, s).starterActive
<1>1. s \in States /\ s \in Sequence
  BY DEF States, Sequence
<1>2. CASE s = p.state
  BY <1>1, <1>2
     DEF EnterState, Sound, Interlocked, WithinCeiling, IntakeServesEngine, EngineWasStarted
<1>3. CASE s # p.state
  <2> DEFINE q == EnterState(p, s)
  <2>1. q \in Pump
    BY <1>1, <1>3 DEF EnterState, Pump
  <2>2. /\ q.state = s /\ ~q.starterActive /\ q.fault = p.fault
        /\ q.chokeActive = p.chokeActive /\ q.chokeOnFor = p.chokeOnFor
    BY <1>3 DEF EnterState, Pump
  <2> HIDE DEF q
  <2>3. Sound(q)
    BY <1>1, <2>1, <2>2
       DEF Sound, Interlocked, WithinCeiling, IntakeServesEngine, EngineWasStarted
  <2> QED
    BY <2>2, <2>3 DEF q
<1> QED
  BY <1>2, <1>3

(* An accepted START keeps the invariant, in every state an override may   *)
(* send it from.                                                           *)
LEMMA BeginStartSequenceKeeps ==
  ASSUME NEW p, Sound(p), NEW override \in BOOLEAN, NEW t \in Timings
  PROVE  /\ Sound(BeginStartSequence(p, override, t))
         /\ ~BeginStartSequence(p, override, t).starterActive
<1> DEFINE latched == [p EXCEPT !.overrideActive = override, !.timings = Clamp(t)]
           q == ReleaseStarter(latched)
<1>1. q \in Pump /\ ~q.starterActive
  BY ClampIsTimings DEF Sound, Interlocked, Pump, ReleaseStarter
<1>1b. WithinCeiling(q)
  BY ClampIsTimings DEF Sound, Interlocked, Pump, ReleaseStarter, WithinCeiling
<1> HIDE DEF q
<1>2. CASE IntakeValveEnabled
  <2>1. BeginStartSequence(p, override, t) = EnterState(OpenValve(q), "PRIMING")
    BY <1>2 DEF BeginStartSequence, q
  <2> DEFINE r == OpenValve(q)
  <2>2. r \in Pump /\ ~r.starterActive /\ r.valveActive /\ WithinCeiling(r)
    BY <1>1, <1>1b DEF OpenValve, Pump, WithinCeiling
  <2> HIDE DEF r
  <2>3. Sound(EnterState(r, "PRIMING")) /\ ~EnterState(r, "PRIMING").starterActive
    BY <2>2, BeginsInSequence
  <2> QED
    BY <2>1, <2>3 DEF r
<1>3. CASE ~IntakeValveEnabled
  <2>1. BeginStartSequence(p, override, t) = EnterState(EngageChoke(q), "CHOKING")
    BY <1>3 DEF BeginStartSequence, q
  <2> DEFINE r == EngageChoke(q)
  <2>2. r \in Pump /\ ~r.starterActive /\ WithinCeiling(r)
    BY <1>1, <1>1b, CeilingsArePositive DEF EngageChoke, Pump, WithinCeiling
  <2> HIDE DEF r
  <2>3. Sound(EnterState(r, "CHOKING")) /\ ~EnterState(r, "CHOKING").starterActive
    BY <1>3, <2>2, BeginsInSequence DEF Sequence
  <2> QED
    BY <2>1, <2>3 DEF r
<1> QED
  BY <1>2, <1>3

(* START_FAILED keeps the invariant and engages no starter.                *)
LEMMA StartFailedKeeps ==
  ASSUME NEW p, Sound(p)
  PROVE  /\ Sound(StartFailedOutcome(p).pump)
         /\ ~p.starterActive => ~StartFailedOutcome(p).pump.starterActive
<1> DEFINE shed == AssertKill(ReleaseChoke(ReleaseStarter(p)))
<1>1. Interlocked(shed) /\ ~shed.starterActive /\ ~shed.chokeActive
  BY ReleaseStarterKeeps, ReleaseChokeKeeps, AssertKillKeeps DEF Sound, Keeps
<1> HIDE DEF shed
<1> DEFINE waiting == EnterState(shed, "RETRY_WAIT")
<1>2. Interlocked(waiting) /\ ~waiting.starterActive /\ ~waiting.chokeActive
  BY <1>1, EnterStateKeeps DEF Keeps, States
<1>3. /\ Sound(ShutValve(EnterState(shed, "RETRY_WAIT")))
      /\ ~ShutValve(EnterState(shed, "RETRY_WAIT")).starterActive
  BY <1>2, ShutValveKeeps DEF Keeps, Sound, WithinCeiling
<1>4. \/ StartFailedOutcome(p).pump = ShutValve(EnterState(shed, "RETRY_WAIT"))
      \/ StartFailedOutcome(p).pump = p
  BY DEF StartFailedOutcome, Accepted, Refused, shed
<1> QED
  BY <1>3, <1>4

(* RESET_IDLE keeps the invariant and engages no starter.                  *)
LEMMA ResetIdleKeeps ==
  ASSUME NEW p, Sound(p)
  PROVE  /\ Sound(ResetIdleOutcome(p).pump)
         /\ ~p.starterActive => ~ResetIdleOutcome(p).pump.starterActive
<1> DEFINE cleared == [p EXCEPT !.fault = "NONE", !.faultKillActive = FALSE]
           rest == IF CooldownOver(p) THEN "IDLE" ELSE "RETRY_WAIT"
<1>1. Interlocked(cleared)
  BY DEF Sound, Interlocked, Pump, Faults, IntakeServesEngine, EngineWasStarted
<1> HIDE DEF cleared
<1>2. Interlocked(EnterState(cleared, rest))
  BY <1>1, EnterStateKeeps DEF Keeps, States
<1>3. /\ Sound(ToSafeState(EnterState(cleared, rest)))
      /\ ~ToSafeState(EnterState(cleared, rest)).starterActive
  BY <1>2, ToSafeStateKeeps DEF Sound
<1>4. \/ ResetIdleOutcome(p).pump = ToSafeState(EnterState(cleared, rest))
      \/ ResetIdleOutcome(p).pump = p
  BY DEF ResetIdleOutcome, Accepted, Refused, cleared
<1> QED
  BY <1>3, <1>4

(* A maintenance command keeps the invariant, in every state an override   *)
(* may send it in.                                                         *)
LEMMA MaintenanceKeeps ==
  ASSUME NEW p, Sound(p), NEW type \in Maintenance, NEW override \in BOOLEAN
  PROVE  Sound(MaintenanceOutcome(p, type, override).pump)
<1>1. Sound(ApplyMaintenance(p, type).pump)
  BY EngageChokeKeeps, ReleaseChokeKeeps, EngageStarterKeeps, ReleaseStarterKeeps,
     AssertKillKeeps, ReleaseKillKeeps, OpenValveKeeps, ShutValveKeeps
     DEF ApplyMaintenance, Maintenance, Accepted, Sound, Keeps, Interlocked
<1> QED
  BY <1>1 DEF MaintenanceOutcome, Refused

-----------------------------------------------------------------------------
(* The ring of records, and the invariant of the specification.            *)

(* Writing a new command to a ring with a free slot.                       *)
LEMMA AppendKeepsRing ==
  ASSUME NEW r \in Seq([type : Commands, id : RequestIds]),
         NEW c \in [type : Commands, id : RequestIds],
         \A i, j \in DOMAIN r : r[i] = r[j] => i = j,
         \A i \in DOMAIN r : r[i] # c,
         Len(r) < IdempotencySlots
  PROVE  RingOK(Append(r, c))
<1>1. Len(Append(r, c)) = Len(r) + 1 /\ Len(r) \in Nat
  OBVIOUS
<1>2. \A i \in DOMAIN Append(r, c) :
         /\ i \in 1 .. Len(r) + 1
         /\ Append(r, c)[i] = IF i = Len(r) + 1 THEN c ELSE r[i]
  OBVIOUS
<1>3. \A i, j \in DOMAIN Append(r, c) : Append(r, c)[i] = Append(r, c)[j] => i = j
  BY <1>2
<1>4. Len(r) + 1 <= IdempotencySlots
  BY <1>1, InputAssumption
<1> QED
  BY <1>1, <1>3, <1>4 DEF RingOK

(* recordCommand() overwrites the oldest record when the ring is full, so  *)
(* the ring stays within its slots and without a repetition.               *)
LEMMA RememberedKeepsRing ==
  ASSUME RingOK(records), NEW type \in Commands, NEW id \in RequestIds, ~Seen(type, id)
  PROVE  RingOK(Remembered(type, id))
<1> DEFINE c == [type |-> type, id |-> id]
           R == [type : Commands, id : RequestIds]
<1>1. c \in R /\ records \in Seq(R) /\ \A i \in DOMAIN records : records[i] # c
  BY DEF Seen, RingOK
<1>2. CASE Len(records) = IdempotencySlots
  <2>1. /\ Tail(records) \in Seq(R) /\ Len(Tail(records)) < IdempotencySlots
        /\ \A i \in DOMAIN Tail(records) :
              i + 1 \in DOMAIN records /\ Tail(records)[i] = records[i + 1]
    BY <1>1, <1>2, InputAssumption
  <2>2. \A i, j \in DOMAIN Tail(records) : Tail(records)[i] = Tail(records)[j] => i = j
    BY <2>1 DEF RingOK
  <2> QED
    BY <1>1, <1>2, <2>1, <2>2, AppendKeepsRing DEF Remembered
<1>3. CASE Len(records) # IdempotencySlots
  <2>1. Len(records) < IdempotencySlots
    BY <1>1, <1>3, InputAssumption DEF RingOK
  <2> QED
    BY <1>1, <1>3, <2>1, AppendKeepsRing DEF Remembered, RingOK
<1> QED
  BY <1>2, <1>3

(* The end of handleCommand() keeps the invariant, for a duplicate and for *)
(* a command that is carried out.                                          *)
LEMMA ConcludeKeeps ==
  ASSUME IInv, NEW type \in Commands, NEW id \in Callers, NEW checked, Sound(checked),
         NEW outcome, Sound(outcome.pump), Conclude(type, id, checked, outcome)
  PROVE  IInv'
<1>1. Sound(pump')
  BY DEF Conclude
<1>2. RingOK(records')
  <2>1. CASE outcome.accepted /\ id # NoRequestId /\ ~Seen(type, id)
    BY <2>1, RememberedKeepsRing DEF Conclude, IInv, Callers
  <2>2. CASE ~(outcome.accepted /\ id # NoRequestId /\ ~Seen(type, id))
    BY <2>2 DEF Conclude, IInv
  <2> QED
    BY <2>1, <2>2
<1> QED
  BY <1>1, <1>2 DEF IInv

(* begin() establishes the invariant.                                      *)
LEMMA PowerUpIsSound == Sound(PowerUp) /\ RingOK(<< >>)
BY DurationAssumption, InputAssumption
   DEF PowerUp, Sound, Interlocked, WithinCeiling, Pump, RingOK, States, Sequence, Faults,
       IntakeServesEngine, EngineWasStarted

(* A command acts on a controller that satisfies the invariant.            *)
LEMMA CheckedIsSound ==
  ASSUME IInv, NEW raw \in Readings
  PROVE  Sound(EnforceSafety(pump, raw))
BY EnforceSafetyKeeps DEF IInv, Sound, Readings

(* The invariant holds after power-up.                                     *)
THEOREM InitIInv == Init => IInv
BY PowerUpIsSound DEF Init, IInv

(* Every pass, command and reboot keeps the invariant.                     *)
THEOREM NextIInv == IInv /\ [Next]_vars => IInv'
<1> SUFFICES ASSUME IInv, [Next]_vars
             PROVE  IInv'
  OBVIOUS
<1>1. ASSUME NEW d \in Steps, NEW raw \in Readings, Tick(d, raw)
      PROVE  IInv'
  <2>1. Interlocked(Elapse(pump, d))
    BY ElapseKeeps, InputAssumption DEF IInv, Sound
  <2>2. Sound(EnforceSafety(Elapse(pump, d), raw))
    BY <2>1, EnforceSafetyKeeps DEF Sound, Readings
  <2> QED
    BY <1>1, <2>2, AdvanceKeeps DEF Tick, IInv
<1>2. ASSUME NEW id \in Callers, NEW override \in Overrides, NEW timings \in RequestedTimings,
             NEW raw \in Readings, Start(id, override, timings, raw)
      PROVE  IInv'
  <2> DEFINE p == EnforceSafety(pump, raw)
  <2>1. Sound(p)
    BY CheckedIsSound
  <2>2. override \in BOOLEAN /\ timings \in Timings
    BY InputAssumption
  <2>3. Sound(StartOutcome(p, override, timings).pump)
    BY <2>1, <2>2, BeginStartSequenceKeeps DEF StartOutcome, Accepted, Refused
  <2> QED
    BY <1>2, <2>1, <2>3, ConcludeKeeps DEF Start, Commands
<1>3. ASSUME NEW id \in Callers, NEW raw \in Readings, Stop(id, raw)
      PROVE  IInv'
  <2> DEFINE p == EnforceSafety(pump, raw)
  <2>1. Sound(p)
    BY CheckedIsSound
  <2>2. Sound(Accepted(BeginStopSequence(p)).pump)
    BY <2>1, BeginStopSequenceKeeps DEF Accepted
  <2> QED
    BY <1>3, <2>1, <2>2, ConcludeKeeps DEF Stop, Commands
<1>4. ASSUME NEW id \in Callers, NEW raw \in Readings, StartFailed(id, raw)
      PROVE  IInv'
  BY <1>4, CheckedIsSound, StartFailedKeeps, ConcludeKeeps DEF StartFailed, Commands
<1>5. ASSUME NEW id \in Callers, NEW raw \in Readings, ResetIdle(id, raw)
      PROVE  IInv'
  BY <1>5, CheckedIsSound, ResetIdleKeeps, ConcludeKeeps DEF ResetIdle, Commands
<1>6. ASSUME NEW type \in Maintenance, NEW id \in Callers, NEW override \in Overrides,
             NEW raw \in Readings, Maintain(type, id, override, raw)
      PROVE  IInv'
  <2> DEFINE p == EnforceSafety(pump, raw)
  <2>1. Sound(p)
    BY CheckedIsSound
  <2>2. Sound(MaintenanceOutcome(p, type, override).pump)
    BY <2>1, InputAssumption, MaintenanceKeeps
  <2> QED
    BY <1>6, <2>1, <2>2, ConcludeKeeps DEF Maintain, Commands
<1>7. CASE Reboot
  BY <1>7, PowerUpIsSound DEF Reboot, IInv
<1>8. CASE UNCHANGED vars
  BY <1>8 DEF vars, IInv
<1> QED
  BY <1>1, <1>2, <1>3, <1>4, <1>5, <1>6, <1>7, <1>8 DEF Next

(* The invariant holds in every reachable state.                           *)
THEOREM Invariance == Spec => []IInv
BY InitIInv, NextIInv, PTL DEF Spec

(* The controller keeps its shape, and the ring of records its bound and   *)
(* its freedom from repetitions.                                           *)
THEOREM TypeCorrect == Spec => []TypeOK
<1>1. IInv => TypeOK
  BY DEF IInv, Sound, Interlocked, RingOK, TypeOK
<1> QED
  BY <1>1, Invariance, PTL

-----------------------------------------------------------------------------
(* Shedding a starter that is found over a shut intake.                    *)

ShutAndOff(p) == ~p.starterActive /\ ~p.valveActive

(* enforceSafety() releases a starter found over a shut intake, whatever   *)
(* else it has to do first, and does not open the intake.                  *)
LEMMA DryStarterShedByCheck ==
  ASSUME NEW p, Interlocked(p), p.starterActive, ~p.valveActive, NEW raw \in BOOLEAN
  PROVE  ShutAndOff(EnforceSafety(p, raw))
<1> DEFINE q == UpdateWaterInterlock(p, raw)
<1>1. Interlocked(q) /\ q.starterActive /\ ~q.valveActive
  BY UpdateWaterInterlockKeeps
<1> SUFFICES ShutAndOff(EnforceLimits(q))
  BY DEF EnforceSafety
<1> HIDE DEF q
<1>2. CASE RunningDry(q)
  BY <1>1, <1>2, EnterFaultKeeps DEF EnforceLimits, Faults, ShutAndOff
<1>3. CASE ~RunningDry(q)
  <2> DEFINE r == ReleaseStarter(q)
  <2>1. Interlocked(r) /\ ~r.starterActive /\ ~r.valveActive
    BY <1>1, ReleaseStarterKeeps DEF Keeps
  <2>2. EnforceLimits(q) = EnterFaultOnce(r, "VALVE_CLOSED_WHILE_RUNNING")
    BY <1>1, <1>3 DEF EnforceLimits, StarterOverShutIntake, Interlocked
  <2> QED
    BY <2>1, <2>2, EnterFaultOnceKeeps DEF Faults, ShutAndOff
<1> QED
  BY <1>2, <1>3

(* setStarterRelay(true) does not engage the starter over a shut intake.   *)
LEMMA NoCrankOverShutIntake ==
  ASSUME NEW p, Interlocked(p), ShutAndOff(p), IntakeValveEnabled
  PROVE  ~EngageStarter(p).starterActive
BY EnterFaultKeeps DEF EngageStarter, PrimeComplete, Faults, ShutAndOff

(* advance() engages no starter over a shut intake, a fault in the way or  *)
(* not.                                                                    *)
LEMMA AdvanceOverShutIntake ==
  ASSUME NEW p, Sound(p), ShutAndOff(p), IntakeValveEnabled
  PROVE  ~Advance(p).starterActive
<1> USE DEF Sound
<1>1. CASE p.state = "CHOKING"
  <2> DEFINE q == ReleaseKill(p)
  <2>1. Interlocked(q) /\ ShutAndOff(q)
    BY ReleaseKillKeeps DEF Keeps, ShutAndOff
  <2>2. ~EngageStarter(q).starterActive
    BY <2>1, NoCrankOverShutIntake
  <2> QED
    BY <1>1, <2>2 DEF Advance, BeginCrank, ShutAndOff
<1>2. CASE p.state = "PRIMING"
  BY <1>2, EngageChokeKeeps, EnterStateKeeps
     DEF Advance, Keeps, ShutAndOff, States, Sequence
<1>3. CASE p.state \in {"CRANKING", "UNCHOKING"}
  BY <1>3 DEF Interlocked, IntakeServesEngine, EngineWasStarted, ShutAndOff
<1>4. CASE p.state \in {"STOPPING", "RETRY_WAIT"}
  BY <1>4, EnterStateKeeps DEF Advance, ShutAndOff, States
<1>5. CASE p.state = "VALVE_CLOSING"
  BY <1>5, ShutValveKeeps, EnterStateKeeps DEF Advance, Keeps, ShutAndOff, States
<1>6. CASE p.state = "FAULT"
  <2>1. Advance(p) = p \/ Advance(p) = [ReleaseKill(p) EXCEPT !.faultKillActive = FALSE]
    BY <1>6 DEF Advance
  <2> QED
    BY <2>1 DEF ReleaseKill, ShutAndOff, Interlocked, Pump
<1>7. CASE p.state \in {"UNKNOWN", "IDLE", "RUNNING_ASSUMED"}
  BY <1>7 DEF Advance, ShutAndOff
<1> QED
  BY <1>1, <1>2, <1>3, <1>4, <1>5, <1>6, <1>7 DEF Interlocked, Pump, States, Sequence

(* No maintenance command engages the starter over a shut intake.          *)
LEMMA MaintenanceOverShutIntake ==
  ASSUME NEW p, Sound(p), ShutAndOff(p), IntakeValveEnabled,
         NEW type \in Maintenance, NEW override \in BOOLEAN
  PROVE  ~MaintenanceOutcome(p, type, override).pump.starterActive
<1>1. ~ApplyMaintenance(p, type).pump.starterActive
  BY EngageChokeKeeps, ReleaseChokeKeeps, NoCrankOverShutIntake, ReleaseStarterKeeps,
     AssertKillKeeps, ReleaseKillKeeps, OpenValveKeeps, ShutValveKeeps
     DEF ApplyMaintenance, Maintenance, Accepted, Sound, ShutAndOff
<1> QED
  BY <1>1 DEF MaintenanceOutcome, Refused, ShutAndOff

(* After any pass, command or reboot, a starter that was on over a shut    *)
(* intake is off.                                                          *)
THEOREM DryStarterStep ==
  ASSUME IInv, Next, IntakeValveEnabled, pump.starterActive, ~pump.valveActive
  PROVE  ~pump'.starterActive
<1>1. ASSUME NEW d \in Steps, NEW raw \in Readings, Tick(d, raw)
      PROVE  ~pump'.starterActive
  <2> DEFINE e == Elapse(pump, d)
             q == EnforceSafety(e, raw)
  <2>1. Interlocked(e) /\ e.starterActive /\ ~e.valveActive
    BY ElapseKeeps, InputAssumption DEF IInv, Sound
  <2> HIDE DEF e
  <2>2. Sound(q) /\ ShutAndOff(q)
    BY <2>1, EnforceSafetyKeeps, DryStarterShedByCheck DEF Sound, Readings
  <2>3. pump' = Advance(q)
    BY <1>1 DEF Tick, e
  <2> QED
    BY <2>2, <2>3, AdvanceOverShutIntake
<1>2. ASSUME NEW raw \in Readings
      PROVE  LET q == EnforceSafety(pump, raw) IN Sound(q) /\ ShutAndOff(q)
  BY CheckedIsSound, DryStarterShedByCheck DEF IInv, Sound, Readings
<1>3. ASSUME NEW id \in Callers, NEW override \in Overrides, NEW timings \in RequestedTimings,
             NEW raw \in Readings, Start(id, override, timings, raw)
      PROVE  ~pump'.starterActive
  <2> DEFINE q == EnforceSafety(pump, raw)
  <2>1. Sound(q) /\ ShutAndOff(q)
    BY <1>2
  <2>2. ~StartOutcome(q, override, timings).pump.starterActive
    BY <2>1, InputAssumption, BeginStartSequenceKeeps
       DEF StartOutcome, Accepted, Refused, ShutAndOff
  <2> QED
    BY <1>3, <2>1, <2>2 DEF Start, Conclude, ShutAndOff
<1>4. ASSUME NEW id \in Callers, NEW raw \in Readings, Stop(id, raw)
      PROVE  ~pump'.starterActive
  BY <1>2, <1>4, BeginStopSequenceKeeps DEF Stop, Conclude, Accepted
<1>5. ASSUME NEW id \in Callers, NEW raw \in Readings, StartFailed(id, raw)
      PROVE  ~pump'.starterActive
  BY <1>2, <1>5, StartFailedKeeps DEF StartFailed, Conclude, ShutAndOff
<1>6. ASSUME NEW id \in Callers, NEW raw \in Readings, ResetIdle(id, raw)
      PROVE  ~pump'.starterActive
  BY <1>2, <1>6, ResetIdleKeeps DEF ResetIdle, Conclude, ShutAndOff
<1>7. ASSUME NEW type \in Maintenance, NEW id \in Callers, NEW override \in Overrides,
             NEW raw \in Readings, Maintain(type, id, override, raw)
      PROVE  ~pump'.starterActive
  BY <1>2, <1>7, MaintenanceOverShutIntake, InputAssumption
     DEF Maintain, Conclude, ShutAndOff
<1>8. CASE Reboot
  BY <1>8 DEF Reboot, PowerUp
<1> QED
  BY <1>1, <1>3, <1>4, <1>5, <1>6, <1>7, <1>8 DEF Next

-----------------------------------------------------------------------------
(* A choke above its ceiling.  With a fault recorded, the check may return *)
(* before it looks at the choke, but only on account of a starter found    *)
(* over a shut intake, and it sheds that starter.                          *)

ChokeOver(p) == p.chokeActive /\ p.chokeOnFor >= MaxChoke

(* The step from p to q engages the choke anew or leaves its clock alone.  *)
ChokeKept(p, q) ==
    /\ q \in Pump
    /\ q.chokeActive => q.chokeOnFor = 0 \/ (p.chokeActive /\ q.chokeOnFor = p.chokeOnFor)

(* What keeps the choke's clock keeps it below the ceiling.                *)
LEMMA ChokeKeptBelow ==
  ASSUME NEW p, NEW q, ChokeKept(p, q), ~ChokeOver(p)
  PROVE  ~ChokeOver(q)
BY CeilingsArePositive, DurationsAreNat DEF ChokeKept, ChokeOver

(* One call after another.                                                 *)
LEMMA ChokeKeptComposes ==
  ASSUME NEW p, NEW q, NEW r, ChokeKept(p, q), ChokeKept(q, r)
  PROVE  ChokeKept(p, r)
BY DEF ChokeKept

(* No call of the relay layer moves the choke's clock on.                  *)
LEMMA RelaysKeepChoke ==
  ASSUME NEW p \in Pump
  PROVE  /\ ChokeKept(p, p)
         /\ ChokeKept(p, ReleaseStarter(p)) /\ ChokeKept(p, ReleaseChoke(p))
         /\ ChokeKept(p, EngageChoke(p)) /\ ChokeKept(p, AssertKill(p))
         /\ ChokeKept(p, ReleaseKill(p)) /\ ChokeKept(p, OpenValve(p))
         /\ ChokeKept(p, ShutValve(p))
         /\ \A s \in States :
              /\ ChokeKept(p, EnterState(p, s)) /\ EnterState(p, s) \in Pump
              /\ EnterState(p, s).chokeActive = p.chokeActive
         /\ ~p.chokeActive => ~AssertKill(p).chokeActive
<1>1. ChokeKept(p, p) /\ ChokeKept(p, ReleaseChoke(p)) /\ ChokeKept(p, EngageChoke(p))
  <2>1. ReleaseChoke(p) \in Pump /\ ~ReleaseChoke(p).chokeActive
    BY DEF ReleaseChoke, Pump
  <2>2. EngageChoke(p) \in Pump /\ (EngageChoke(p) = p \/ EngageChoke(p).chokeOnFor = 0)
    BY DEF EngageChoke, Pump
  <2> QED
    BY <2>1, <2>2 DEF ChokeKept
<1>2. ChokeKept(p, ReleaseStarter(p)) /\ ChokeKept(p, ReleaseKill(p))
  <2>1. /\ ReleaseStarter(p) \in Pump
        /\ ReleaseStarter(p).chokeActive = p.chokeActive
        /\ ReleaseStarter(p).chokeOnFor = p.chokeOnFor
    BY DEF ReleaseStarter, Pump
  <2>2. /\ ReleaseKill(p) \in Pump
        /\ ReleaseKill(p).chokeActive = p.chokeActive
        /\ ReleaseKill(p).chokeOnFor = p.chokeOnFor
    BY DEF ReleaseKill, Pump
  <2> QED
    BY <2>1, <2>2 DEF ChokeKept
<1>3. ChokeKept(p, OpenValve(p)) /\ ChokeKept(p, ShutValve(p))
  <2>1. /\ OpenValve(p) \in Pump /\ OpenValve(p).chokeActive = p.chokeActive
        /\ OpenValve(p).chokeOnFor = p.chokeOnFor
    BY DEF OpenValve, Pump
  <2>2. /\ ShutValve(p) \in Pump /\ ShutValve(p).chokeActive = p.chokeActive
        /\ ShutValve(p).chokeOnFor = p.chokeOnFor
    BY DEF ShutValve, Pump
  <2> QED
    BY <2>1, <2>2 DEF ChokeKept
<1>4. ChokeKept(p, AssertKill(p)) /\ (~p.chokeActive => ~AssertKill(p).chokeActive)
  <2> DEFINE q == ReleaseStarter(p)
             r == [q EXCEPT !.killActive = TRUE]
  <2>1. q \in Pump /\ q.chokeActive = p.chokeActive /\ q.chokeOnFor = p.chokeOnFor
    BY DEF ReleaseStarter, Pump
  <2>2. AssertKill(p) = r
    BY DEF AssertKill
  <2> HIDE DEF q
  <2>3. r \in Pump /\ r.chokeActive = q.chokeActive /\ r.chokeOnFor = q.chokeOnFor
    BY <2>1 DEF Pump
  <2> HIDE DEF r
  <2> QED
    BY <2>1, <2>2, <2>3 DEF ChokeKept
<1>5. ASSUME NEW s \in States
      PROVE  /\ ChokeKept(p, EnterState(p, s)) /\ EnterState(p, s) \in Pump
             /\ EnterState(p, s).chokeActive = p.chokeActive
  <2> DEFINE q == EnterState(p, s)
  <2>1. q \in Pump /\ q.chokeActive = p.chokeActive /\ q.chokeOnFor = p.chokeOnFor
    <3>1. CASE s = p.state
      BY <3>1 DEF EnterState
    <3>2. CASE s # p.state
      <4>1. q \in Pump
        BY <3>2 DEF EnterState, Pump
      <4>2. q.chokeActive = p.chokeActive /\ q.chokeOnFor = p.chokeOnFor
        BY <3>2 DEF EnterState, Pump
      <4> QED
        BY <4>1, <4>2
    <3> QED
      BY <3>1, <3>2
  <2> HIDE DEF q
  <2> QED
    BY <2>1 DEF ChokeKept, q
<1> QED
  BY <1>1, <1>2, <1>3, <1>4, <1>5

(* enterFault() releases the choke.                                        *)
LEMMA FaultShedsChoke ==
  ASSUME NEW p \in Pump, NEW code \in Faults
  PROVE  EnterFault(p, code) \in Pump /\ ~EnterFault(p, code).chokeActive
<1> DEFINE a == [p EXCEPT !.fault = code]
           b == ReleaseStarter(a)
           c == ReleaseChoke(b)
           d == AssertKill(c)
           e == [d EXCEPT !.faultKillActive = MightBeRunning(p), !.faultKillFor = 0]
<1>1. a \in Pump
  BY DEF Pump
<1> HIDE DEF a
<1>2. b \in Pump
  BY <1>1, RelaysKeepChoke DEF ChokeKept
<1> HIDE DEF b
<1>3. c \in Pump /\ ~c.chokeActive
  BY <1>2 DEF ReleaseChoke, Pump
<1> HIDE DEF c
<1>4. d \in Pump /\ ~d.chokeActive
  BY <1>3, RelaysKeepChoke DEF ChokeKept
<1> HIDE DEF d
<1>5. e \in Pump /\ ~e.chokeActive
  <2>1. MightBeRunning(p) \in BOOLEAN
    BY DEF MightBeRunning
  <2> QED
    BY <1>4, <2>1 DEF Pump
<1>6. EnterFault(p, code) = EnterState(e, "FAULT")
  BY DEF EnterFault, a, b, c, d
<1>7. "FAULT" \in States
  BY DEF States
<1> HIDE DEF e
<1> QED
  BY <1>5, <1>6, <1>7, RelaysKeepChoke

(* Nor does a starter call, refused or not.                                *)
LEMMA EngageStarterKeepsChoke ==
  ASSUME NEW p \in Pump
  PROVE  ChokeKept(p, EngageStarter(p))
<1>1. {"STARTER_KILL_CONFLICT", "VALVE_CLOSED_WHILE_RUNNING"} \subseteq Faults
  BY DEF Faults
<1>2. ChokeKept(p, [p EXCEPT !.starterActive = TRUE, !.starterOnFor = 0])
  BY DEF ChokeKept, Pump
<1> QED
  BY <1>1, <1>2, RelaysKeepChoke, FaultShedsChoke DEF EngageStarter, ChokeKept

(* No transition of advance() moves the choke's clock on.                  *)
LEMMA AdvanceKeepsChoke ==
  ASSUME NEW p \in Pump
  PROVE  ChokeKept(p, Advance(p))
<1>0. Sequence \subseteq States /\ {"IDLE", "VALVE_CLOSING"} \subseteq States
  BY DEF States
<1>1. \A s \in {"CHOKING", "CRANKING", "UNCHOKING", "RUNNING_ASSUMED", "IDLE", "VALVE_CLOSING"} :
        \A q \in Pump : ChokeKept(p, q) => ChokeKept(p, EnterState(q, s))
  BY <1>0, RelaysKeepChoke, ChokeKeptComposes DEF Sequence
<1>2. \A q \in {p, EngageChoke(p), ReleaseStarter(p), ReleaseChoke(p), ShutValve(p)} :
        q \in Pump /\ ChokeKept(p, q)
  BY RelaysKeepChoke DEF ChokeKept
<1>3. ChokeKept(p, BeginCrank(p))
  <2> DEFINE q == EngageStarter(ReleaseKill(p))
  <2>1. q \in Pump /\ ChokeKept(p, q)
    BY RelaysKeepChoke, EngageStarterKeepsChoke, ChokeKeptComposes DEF ChokeKept
  <2> QED
    BY <1>1, <2>1 DEF BeginCrank
<1>4. ChokeKept(p, [ReleaseKill(p) EXCEPT !.faultKillActive = FALSE])
  BY DEF ReleaseKill, ChokeKept, Pump
<1> QED
  BY <1>1, <1>2, <1>3, <1>4 DEF Advance

(* No command moves the choke's clock on.                                  *)
LEMMA CommandsKeepChoke ==
  ASSUME NEW p \in Pump, NEW override \in BOOLEAN
  PROVE  /\ ChokeKept(p, BeginStopSequence(p))
         /\ \A t \in Timings : ChokeKept(p, StartOutcome(p, override, t).pump)
         /\ ChokeKept(p, StartFailedOutcome(p).pump)
         /\ ChokeKept(p, ResetIdleOutcome(p).pump)
         /\ \A type \in Maintenance : ChokeKept(p, MaintenanceOutcome(p, type, override).pump)
<1>0. Sequence \cup {"IDLE", "RETRY_WAIT", "STOPPING"} \subseteq States
  BY DEF States
<1>1. \A q \in Pump :
        LET shed == AssertKill(ReleaseChoke(ReleaseStarter(q)))
        IN  shed \in Pump /\ ChokeKept(q, shed)
  BY RelaysKeepChoke, ChokeKeptComposes DEF ChokeKept
<1>2. ChokeKept(p, BeginStopSequence(p))
  <2> DEFINE a == AssertKill(ReleaseChoke(ReleaseStarter(p)))
             b == [a EXCEPT !.faultKillActive = FALSE, !.fault = "NONE"]
             c == EnterState(b, "STOPPING")
  <2>1. a \in Pump /\ ChokeKept(p, a)
    BY <1>1
  <2>2. BeginStopSequence(p) = [c EXCEPT !.stateElapsed = 0]
    BY DEF BeginStopSequence
  <2> HIDE DEF a
  <2>3. b \in Pump /\ ChokeKept(a, b)
    BY <2>1 DEF ChokeKept, Pump, Faults
  <2> HIDE DEF b
  <2>4. c \in Pump /\ ChokeKept(b, c)
    BY <1>0, <2>3, RelaysKeepChoke DEF ChokeKept
  <2> HIDE DEF c
  <2>5. ChokeKept(c, [c EXCEPT !.stateElapsed = 0])
    BY <2>4 DEF ChokeKept, Pump
  <2> QED
    BY <2>1, <2>2, <2>3, <2>4, <2>5, ChokeKeptComposes
<1>3. ASSUME NEW t \in Timings
      PROVE  ChokeKept(p, StartOutcome(p, override, t).pump)
  <2> DEFINE a == [p EXCEPT !.overrideActive = override, !.timings = Clamp(t)]
             b == ReleaseStarter(a)
  <2>1. a \in Pump /\ ChokeKept(p, a)
    BY ClampIsTimings DEF ChokeKept, Pump
  <2>2. StartOutcome(p, override, t).pump
          \in {p, EnterState(OpenValve(b), "PRIMING"), EnterState(EngageChoke(b), "CHOKING")}
    BY DEF StartOutcome, Accepted, Refused, BeginStartSequence
  <2> HIDE DEF a
  <2>3. b \in Pump /\ ChokeKept(p, b)
    BY <2>1, RelaysKeepChoke, ChokeKeptComposes DEF ChokeKept
  <2> HIDE DEF b
  <2>4. \A q \in {OpenValve(b), EngageChoke(b)} : q \in Pump /\ ChokeKept(p, q)
    BY <2>3, RelaysKeepChoke, ChokeKeptComposes DEF ChokeKept
  <2>5. \A q \in Pump, s \in {"PRIMING", "CHOKING"} :
          ChokeKept(p, q) => ChokeKept(p, EnterState(q, s))
    BY <1>0, RelaysKeepChoke, ChokeKeptComposes DEF Sequence
  <2> QED
    BY <2>2, <2>4, <2>5, RelaysKeepChoke
<1>4. ChokeKept(p, StartFailedOutcome(p).pump)
  <2> DEFINE a == AssertKill(ReleaseChoke(ReleaseStarter(p)))
             b == EnterState(a, "RETRY_WAIT")
  <2>1. StartFailedOutcome(p).pump \in {p, ShutValve(b)}
    BY DEF StartFailedOutcome, Accepted, Refused
  <2>2. a \in Pump /\ ChokeKept(p, a)
    BY <1>1
  <2> HIDE DEF a
  <2>3. b \in Pump /\ ChokeKept(p, b)
    BY <1>0, <2>2, RelaysKeepChoke, ChokeKeptComposes DEF ChokeKept
  <2> HIDE DEF b
  <2> QED
    BY <2>1, <2>3, RelaysKeepChoke, ChokeKeptComposes
<1>5. ChokeKept(p, ResetIdleOutcome(p).pump)
  <2> DEFINE cleared == [p EXCEPT !.fault = "NONE", !.faultKillActive = FALSE]
             rest == IF CooldownOver(p) THEN "IDLE" ELSE "RETRY_WAIT"
             a == EnterState(cleared, rest)
             b == AssertKill(ReleaseChoke(ReleaseStarter(a)))
  <2>1. ResetIdleOutcome(p).pump \in {p, ShutValve(b)}
    BY DEF ResetIdleOutcome, Accepted, Refused, ToSafeState
  <2>2. cleared \in Pump /\ ChokeKept(p, cleared)
    BY DEF ChokeKept, Pump, Faults
  <2>3. rest \in States
    BY <1>0
  <2> HIDE DEF cleared, rest
  <2>4. a \in Pump /\ ChokeKept(p, a)
    BY <2>2, <2>3, RelaysKeepChoke, ChokeKeptComposes DEF ChokeKept
  <2> HIDE DEF a
  <2>5. b \in Pump /\ ChokeKept(p, b)
    BY <1>1, <2>4, ChokeKeptComposes
  <2> HIDE DEF b
  <2> QED
    BY <2>1, <2>5, RelaysKeepChoke, ChokeKeptComposes
<1>6. ASSUME NEW type \in Maintenance
      PROVE  ChokeKept(p, MaintenanceOutcome(p, type, override).pump)
  BY RelaysKeepChoke, EngageStarterKeepsChoke
     DEF MaintenanceOutcome, ApplyMaintenance, Accepted, Refused, Maintenance
<1> QED
  BY <1>2, <1>3, <1>4, <1>5, <1>6

(* Time and the water reading touch neither starter nor intake; unless a   *)
(* starter is found over a shut intake, the check leaves no choke above    *)
(* its ceiling, whatever fault is recorded.                                *)
LEMMA CheckEndsChokeOver ==
  ASSUME NEW p, Interlocked(p), IntakeValveEnabled, ~(p.starterActive /\ ~p.valveActive),
         NEW raw \in BOOLEAN
  PROVE  ~ChokeOver(EnforceSafety(p, raw))
<1> DEFINE q == UpdateWaterInterlock(p, raw)
<1>1. Interlocked(q) /\ ~(q.starterActive /\ ~q.valveActive)
  BY UpdateWaterInterlockKeeps
<1> SUFFICES ~ChokeOver(EnforceLimits(q))
  BY DEF EnforceSafety
<1> HIDE DEF q
<1>2. q \in Pump /\ ReleaseStarter(q) \in Pump /\ ReleaseChoke(q) \in Pump
  BY <1>1, RelaysKeepChoke DEF Interlocked, ChokeKept
<1>3. /\ ~(q.starterActive /\ q.killActive) /\ ~StarterOverShutIntake(q)
      /\ ~(EngineWasStarted(q) /\ ~q.valveActive)
  BY <1>1 DEF Interlocked, IntakeServesEngine, StarterOverShutIntake
<1>4. \/ EnforceLimits(q) = EnterFault(q, "WATER_LOST")
      \/ EnforceLimits(q) = EnterFault(ReleaseStarter(q), "STARTER_OVERRUN")
      \/ EnforceLimits(q) = EnterFault(ReleaseChoke(q), "CHOKE_OVERRUN")
      \/ EnforceLimits(q) = q /\ ~ChokeOver(q)
  BY <1>3 DEF EnforceLimits, ChokeOverrun, ChokeOver
<1>5. {"WATER_LOST", "STARTER_OVERRUN", "CHOKE_OVERRUN"} \subseteq Faults
  BY DEF Faults
<1> QED
  BY <1>2, <1>4, <1>5, FaultShedsChoke DEF ChokeOver

(* So a step that does not begin with a starter over a shut intake ends    *)
(* with no choke above its ceiling.                                        *)
LEMMA StepEndsChokeOver ==
  ASSUME IInv, Next, IntakeValveEnabled, ~(pump.starterActive /\ ~pump.valveActive)
  PROVE  ~ChokeOver(pump')
<1>1. ASSUME NEW d \in Steps, NEW raw \in Readings, Tick(d, raw)
      PROVE  ~ChokeOver(pump')
  <2> DEFINE e == Elapse(pump, d)
             q == EnforceSafety(e, raw)
  <2>1. Interlocked(e) /\ ~(e.starterActive /\ ~e.valveActive)
    BY ElapseKeeps, InputAssumption DEF IInv, Sound
  <2> HIDE DEF e
  <2>2. q \in Pump /\ ~ChokeOver(q)
    BY <2>1, EnforceSafetyKeeps, CheckEndsChokeOver DEF Interlocked, Readings
  <2>3. pump' = Advance(q)
    BY <1>1 DEF Tick, e
  <2> QED
    BY <2>2, <2>3, AdvanceKeepsChoke, ChokeKeptBelow
<1>2. ASSUME NEW raw \in Readings
      PROVE  LET q == EnforceSafety(pump, raw) IN q \in Pump /\ ~ChokeOver(q)
  BY CheckedIsSound, CheckEndsChokeOver DEF IInv, Sound, Interlocked, Readings
<1>3. ASSUME NEW id \in Callers, NEW override \in Overrides, NEW timings \in RequestedTimings,
             NEW raw \in Readings, Start(id, override, timings, raw)
      PROVE  ~ChokeOver(pump')
  <2>1. override \in BOOLEAN /\ timings \in Timings
    BY InputAssumption
  <2> QED
    BY <1>2, <1>3, <2>1, CommandsKeepChoke, ChokeKeptBelow DEF Start, Conclude
<1>4. ASSUME NEW id \in Callers, NEW raw \in Readings, Stop(id, raw)
      PROVE  ~ChokeOver(pump')
  BY <1>2, <1>4, CommandsKeepChoke, ChokeKeptBelow DEF Stop, Conclude, Accepted
<1>5. ASSUME NEW id \in Callers, NEW raw \in Readings, StartFailed(id, raw)
      PROVE  ~ChokeOver(pump')
  BY <1>2, <1>5, CommandsKeepChoke, ChokeKeptBelow DEF StartFailed, Conclude
<1>6. ASSUME NEW id \in Callers, NEW raw \in Readings, ResetIdle(id, raw)
      PROVE  ~ChokeOver(pump')
  BY <1>2, <1>6, CommandsKeepChoke, ChokeKeptBelow DEF ResetIdle, Conclude
<1>7. ASSUME NEW type \in Maintenance, NEW id \in Callers, NEW override \in Overrides,
             NEW raw \in Readings, Maintain(type, id, override, raw)
      PROVE  ~ChokeOver(pump')
  <2>1. override \in BOOLEAN
    BY InputAssumption
  <2> QED
    BY <1>2, <1>7, <2>1, CommandsKeepChoke, ChokeKeptBelow DEF Maintain, Conclude
<1>8. CASE Reboot
  BY <1>8 DEF Reboot, PowerUp, ChokeOver
<1> QED
  BY <1>1, <1>3, <1>4, <1>5, <1>6, <1>7, <1>8 DEF Next

(* When the choke is above its ceiling, no starter is over a shut intake.  *)
SlipSheds == ChokeOver(pump) => ~(pump.starterActive /\ ~pump.valveActive)

(* A choke can slip only past a check that has just shed the starter, and  *)
(* no handler re-engages it over the shut intake.                          *)
THEOREM SlipInvariance ==
  ASSUME IntakeValveEnabled
  PROVE  Spec => []SlipSheds
<1>1. Init => SlipSheds
  BY DEF Init, PowerUp, SlipSheds
<1>2. IInv /\ SlipSheds /\ [Next]_vars => SlipSheds'
  BY DryStarterStep, StepEndsChokeOver DEF SlipSheds, vars, ChokeOver
<1> QED
  BY <1>1, <1>2, Invariance, PTL DEF Spec

-----------------------------------------------------------------------------
(* What the invariant implies.                                             *)

(* Starter and kill are never commanded together:                          *)
(* tests/test_invariants.cpp, 1, for every mix of commands, overrides,     *)
(* timings and readings.                                                   *)
THEOREM StarterExclusion == Spec => []StarterExcludesKill
<1>1. IInv => StarterExcludesKill
  BY DEF IInv, Sound, Interlocked, StarterExcludesKill
<1> QED
  BY <1>1, Invariance, PTL

(* The starter has been on for less than MAX_CRANK_MS whenever a handler   *)
(* has completed, however long the loop stalled:                           *)
(* tests/test_invariants.cpp, 3.                                           *)
THEOREM CrankBelowCeiling == Spec => []CrankCeiling
<1>1. IInv => CrankCeiling
  BY DEF IInv, Sound, Interlocked, WithinCeiling, IntakeServesEngine, CrankCeiling
<1> QED
  BY <1>1, Invariance, PTL

(* The same for the choke and MAX_CHOKE_MS, as long as no fault is         *)
(* recorded, whatever command engaged it.                                  *)
THEOREM ChokeBelowCeiling == Spec => []ChokeCeiling
<1>1. IInv => ChokeCeiling
  BY DEF IInv, Sound, WithinCeiling, ChokeCeiling
<1> QED
  BY <1>1, Invariance, PTL

(* A started engine has its intake open: tests/test_invariants.cpp, 2b,    *)
(* with maintenance commands and overrides as well.                        *)
THEOREM IntakeUnderEngine == Spec => []StartedEngineHasIntake
<1>1. IInv => StartedEngineHasIntake
  BY DEF IInv, Sound, Interlocked, WithinCeiling, IntakeServesEngine, StartedEngineHasIntake
<1> QED
  BY <1>1, Invariance, PTL

(* The engine is cranked with the intake open for the whole dwell, or      *)
(* under an override of this very sequence.                                *)
THEOREM CrankPrimed == Spec => []CrankIsPrimed
<1>1. IInv => CrankIsPrimed
  BY DEF IInv, Sound, Interlocked, WithinCeiling, IntakeServesEngine,
         EngineWasStarted, CrankIsPrimed
<1> QED
  BY <1>1, Invariance, PTL

(* An override never outlives the sequence it authorised.                  *)
THEOREM OverrideMortal == Spec => []OverrideDiesWithSequence
<1>1. IInv => OverrideDiesWithSequence
  BY DEF IInv, Sound, Interlocked, WithinCeiling, IntakeServesEngine, OverrideDiesWithSequence
<1> QED
  BY <1>1, Invariance, PTL

(* DryStarterIsShed: enforceSafety() comes first in every handler, and     *)
(* what follows engages no starter over a shut intake.                     *)
THEOREM DryStarter == Spec => DryStarterIsShed
<1>1. IInv /\ [Next]_vars
        => [IntakeValveEnabled /\ pump.starterActive /\ ~pump.valveActive
              => ~pump'.starterActive]_vars
  BY DryStarterStep DEF vars
<1> QED
  BY <1>1, Invariance, PTL DEF Spec, DryStarterIsShed

(* With an electric intake valve, a choke that slipped past its ceiling    *)
(* behind a recorded fault is off or begun anew after the very next step.  *)
THEOREM ChokeSlips ==
  ASSUME IntakeValveEnabled
  PROVE  Spec => ChokeSlipsOnce
<1>1. IInv /\ SlipSheds /\ [Next]_vars
        => [pump.chokeActive /\ pump.chokeOnFor >= MaxChoke
              => (pump'.chokeActive => pump'.chokeOnFor < MaxChoke)]_vars
  <2> SUFFICES ASSUME IInv, SlipSheds, Next, ChokeOver(pump), pump'.chokeActive
               PROVE  pump'.chokeOnFor < MaxChoke
    BY DEF vars, ChokeOver
  <2>1. ~ChokeOver(pump')
    BY StepEndsChokeOver DEF SlipSheds
  <2>2. pump'.chokeOnFor \in Nat
    BY NextIInv DEF IInv, Sound, Interlocked, Pump
  <2> QED
    BY <2>1, <2>2, DurationsAreNat DEF ChokeOver
<1> QED
  BY <1>1, Invariance, SlipInvariance, PTL DEF Spec, ChokeSlipsOnce

=============================================================================
