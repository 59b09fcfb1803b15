--------------------------- MODULE MainLoopProofs ---------------------------
(***************************************************************************)
(* Proofs about MainLoop, for every value of its constants.                *)
(*                                                                         *)
(* What a handler does to the controller is settled in                     *)
(* PumpControllerProofs; here its lemmas are used for the commands in the  *)
(* order the loop gives them, with stalls of any length between two passes.*)
(***************************************************************************)
EXTENDS MainLoop, PumpPlainProofs

LoopTyped ==
    /\ pc \in {"pump", "http", "console", "lamp", "scan", "net", "hung"}
    /\ lamp \in LampPhases /\ lampFor \in 0..LampHorizon
    /\ scanRequested \in BOOLEAN /\ linesLeft \in 0..LinesPerPass
    /\ radio \in {"free", "scan", "join"} /\ stall \in Nat

LoopInv == Sound(pump) /\ LoopTyped

-----------------------------------------------------------------------------
(* The commands.                                                           *)

(* The longest dwell of the lamp test is a time, and not below 0.          *)
LEMMA HorizonIsNat == LampHorizon \in Nat
  BY LoopAssumption, DurationAssumption DEF LampHorizon

(* A console line names a command, and its timings are the default ones.   *)
LEMMA ConsoleIsTyped ==
  /\ \A line \in DOMAIN ConsoleCommand : ConsoleCommand[line] \in Commands
  /\ DefaultTimings \in Timings
<1>1. \A line \in DOMAIN ConsoleCommand : ConsoleCommand[line] \in Commands
  BY DEF ConsoleCommand, Commands, Maintenance
<1>2. DefaultTimings \in Timings
  BY DurationAssumption
<1> QED
  BY <1>1, <1>2

(* Whoever sends a command, the controller that ran it is sound.           *)
LEMMA CommandKeeps ==
  ASSUME Sound(pump), NEW type, NEW id, NEW override \in BOOLEAN, NEW timings \in Timings,
         NEW raw \in Readings, Command(type, id, override, timings, raw)
  PROVE  Sound(pump')
<1> DEFINE p == EnforceSafety(pump, raw)
<1>1. Sound(p)
  BY EnforceSafetyKeeps DEF Sound, Readings
<1>2. CASE Start(id, override, timings, raw)
  <2>1. Sound(StartOutcome(p, override, timings).pump)
    BY <1>1, BeginStartSequenceKeeps DEF StartOutcome, Accepted, Refused
  <2> QED
    BY <1>1, <1>2, <2>1 DEF Start, Conclude
<1>3. CASE Stop(id, raw)
  <2>1. Sound(Accepted(BeginStopSequence(p)).pump)
    BY <1>1, BeginStopSequenceKeeps DEF Accepted
  <2> QED
    BY <1>1, <1>3, <2>1 DEF Stop, Conclude
<1>4. CASE StartFailed(id, raw)
  <2>1. Sound(StartFailedOutcome(p).pump)
    BY <1>1, StartFailedKeeps
  <2> QED
    BY <1>1, <1>4, <2>1 DEF StartFailed, Conclude
<1>5. CASE ResetIdle(id, raw)
  <2>1. Sound(ResetIdleOutcome(p).pump)
    BY <1>1, ResetIdleKeeps
  <2> QED
    BY <1>1, <1>5, <2>1 DEF ResetIdle, Conclude
<1>6. CASE type \in Maintenance /\ Maintain(type, id, override, raw)
  <2>1. Sound(MaintenanceOutcome(p, type, override).pump)
    BY <1>1, <1>6, MaintenanceKeeps
  <2> QED
    BY <1>1, <1>6, <2>1 DEF Maintain, Conclude
<1> QED
  BY <1>2, <1>3, <1>4, <1>5, <1>6 DEF Command

(* Nor does a pulse of the lamp test harm it.                              *)
LEMMA PulseKeeps ==
  ASSUME Sound(pump), NEW type \in Maintenance, NEW raw \in Readings, FireLamp(type, raw)
  PROVE  Sound(pump')
<1> DEFINE p == EnforceSafety(pump, raw)
<1>1. Sound(p)
  BY EnforceSafetyKeeps DEF Sound, Readings
<1>2. Sound(MaintenanceOutcome(p, type, FALSE).pump)
  BY <1>1, MaintenanceKeeps
<1> QED
  BY <1>1, <1>2 DEF FireLamp, Maintain, Conclude

(* Every phase that has a pulse has a maintenance command; the choke's     *)
(* first pulse is the one that begins the test.                            *)
LEMMA PulseIsTyped ==
  \A phase \in DOMAIN Pulse : Pulse[phase] \in Maintenance \ {"MAINT_CHOKE_ON"}
  BY DEF Pulse, Maintenance

(* Each phase is followed by a phase.                                      *)
LEMMA NextPhaseIsTyped ==
  ASSUME NEW phase \in LampPhases, phase # "OFF"
  PROVE  LampNext(phase) \in LampPhases
  BY DEF LampNext, LampPhases

-----------------------------------------------------------------------------
(* The invariant.                                                          *)

(* It holds after setup().                                                 *)
THEOREM InitLoopInv == LoopInit => LoopInv
<1> SUFFICES ASSUME LoopInit
             PROVE  LoopInv
  OBVIOUS
<1>1. Sound(pump)
  BY PowerUpIsSound DEF LoopInit, Init
<1>2. 0 \in 0..LampHorizon /\ LinesPerPass \in 0..LinesPerPass /\ "OFF" \in LampPhases
  BY HorizonIsNat, LoopAssumption DEF LampPhases
<1> QED
  BY <1>1, <1>2 DEF LoopInit, LoopInv, LoopTyped

(* Every part of a pass, typed line and reset keeps it.                    *)
THEOREM NextLoopInv == LoopInv /\ [LoopNext]_allVars => LoopInv'
<1> SUFFICES ASSUME LoopInv, [LoopNext]_allVars
             PROVE  LoopInv'
  OBVIOUS
<1> USE LoopAssumption, HorizonIsNat
<1>1. ASSUME NEW d \in Steps, NEW raw \in Readings, PumpTick(d, raw)
      PROVE  LoopInv'
  <2> DEFINE e == d + stall
             p == EnforceSafety(Elapse(pump, e), raw)
  <2>1. e \in Nat
    BY InputAssumption DEF LoopInv, LoopTyped
  <2>2. pump' = Advance(p)
    BY <1>1 DEF PumpTick
  <2> HIDE DEF e
  <2>3. Sound(p)
    BY <2>1, ElapseKeeps, EnforceSafetyKeeps DEF Sound, Readings, LoopInv
  <2>4. Sound(pump')
    BY <2>2, <2>3, AdvanceKeeps
  <2>5. lampFor' \in 0..LampHorizon
    <3>1. lampFor \in Nat /\ lampFor + d + stall = lampFor + e /\ lampFor + e \in Nat
      BY <2>1, InputAssumption DEF LoopInv, LoopTyped, e
    <3>2. lampFor' = IF lamp = "OFF" THEN 0 ELSE Least(lampFor + e, LampHorizon)
      BY <1>1, <3>1 DEF PumpTick
    <3> QED
      BY <3>1, <3>2 DEF Least
  <2>6. /\ pc' = "http" /\ radio' = "free" /\ stall' = 0 /\ linesLeft' = LinesPerPass
        /\ lamp' = lamp /\ scanRequested' = scanRequested
    BY <1>1 DEF PumpTick
  <2>7. LinesPerPass \in 0..LinesPerPass
    BY LoopAssumption
  <2> QED
    BY <2>4, <2>5, <2>6, <2>7 DEF LoopInv, LoopTyped
<1>2. ASSUME NEW raw \in Readings, Http(raw)
      PROVE  LoopInv'
  <2>1. Sound(pump')
    BY <1>2, CommandKeeps, InputAssumption DEF Http, LoopInv, vars
  <2> QED
    BY <1>2, <2>1 DEF Http, LoopInv, LoopTyped
<1>3. ASSUME NEW line \in Lines, NEW raw \in Readings, ConsoleLine(line, raw)
      PROVE  LoopInv'
  <2>1. Sound(pump')
    <3>1. CASE TypeCommand(line, raw)
      BY <3>1, ConsoleIsTyped, CommandKeeps DEF TypeCommand, LoopInv
    <3>2. CASE TypeTest(line, raw)
      BY <3>2, PulseKeeps DEF TypeTest, LoopInv, Maintenance
    <3>3. CASE TypeScan(line) \/ TypeHang(line)
      BY <3>3 DEF TypeScan, TypeHang, vars, LoopInv
    <3> QED
      BY <1>3, <3>1, <3>2, <3>3 DEF ConsoleLine
  <2>2. linesLeft' \in 0..LinesPerPass
    BY <1>3 DEF ConsoleLine, LoopInv, LoopTyped
  <2>2a. pc' \in {"console", "hung"} /\ radio' = radio /\ stall' = stall
    BY <1>3 DEF ConsoleLine, TypeCommand, TypeTest, TypeScan, TypeHang
  <2>3. lamp' \in {lamp, "OFF", "CHOKE_ON"} /\ lampFor' \in {lampFor, 0}
        /\ scanRequested' \in {scanRequested, TRUE}
    <3>1. CASE TypeCommand(line, raw)
      BY <3>1 DEF TypeCommand
    <3>2. CASE TypeTest(line, raw)
      BY <3>2 DEF TypeTest
    <3>3. CASE TypeScan(line) \/ TypeHang(line)
      BY <3>3 DEF TypeScan, TypeHang
    <3> QED
      BY <1>3, <3>1, <3>2, <3>3 DEF ConsoleLine
  <2>3a. lamp' \in LampPhases /\ lampFor' \in 0..LampHorizon /\ scanRequested' \in BOOLEAN
    <3>1. {"OFF", "CHOKE_ON"} \subseteq LampPhases /\ 0 \in 0..LampHorizon
      BY DEF LampPhases
    <3>2. lamp \in LampPhases /\ lampFor \in 0..LampHorizon /\ scanRequested \in BOOLEAN
      BY DEF LoopInv, LoopTyped
    <3> QED
      BY <2>3, <3>1, <3>2
  <2> QED
    BY <2>1, <2>2, <2>2a, <2>3a DEF LoopInv, LoopTyped
<1>4. CASE ConsoleDone \/ NoScan \/ NetDone
  BY <1>4 DEF ConsoleDone, NoScan, NetDone, vars, LoopInv, LoopTyped
<1>5. ASSUME NEW raw \in Readings, LampTest(raw)
      PROVE  LoopInv'
  <2>1. Sound(pump') /\ lamp' \in LampPhases /\ lampFor' \in 0..LampHorizon
    <3>1. CASE LampAdvance(raw)
      <4>1. lamp' \in LampPhases /\ lampFor' \in 0..LampHorizon
        BY <3>1, NextPhaseIsTyped DEF LampAdvance, LoopInv, LoopTyped
      <4>2. Sound(pump')
        BY <3>1, PulseIsTyped, PulseKeeps DEF LampAdvance, LoopInv, vars
      <4> QED
        BY <4>1, <4>2
    <3>2. CASE LampAbort(raw)
      <4> DEFINE sent(p, type) == MaintenanceOutcome(EnforceSafety(p, raw), type, FALSE).pump
                 a == sent(pump, "MAINT_CHOKE_OFF")
                 b == sent(a, "MAINT_STARTER_OFF")
                 c == sent(b, "MAINT_VALVE_OFF")
      <4>1. ASSUME NEW p, Sound(p), NEW type \in Maintenance
            PROVE  Sound(sent(p, type))
        <5>1. Sound(EnforceSafety(p, raw))
          BY <4>1, EnforceSafetyKeeps DEF Sound, Readings
        <5> QED
          BY <5>1, MaintenanceKeeps
      <4>2. pump' = c /\ lamp' = "OFF" /\ lampFor' = 0
        BY <3>2 DEF LampAbort
      <4>3. {"MAINT_CHOKE_OFF", "MAINT_STARTER_OFF", "MAINT_VALVE_OFF"} \subseteq Maintenance
        BY DEF Maintenance
      <4> HIDE DEF sent
      <4>4. Sound(a)
        BY <4>1, <4>3 DEF LoopInv
      <4>5. Sound(b)
        <5> HIDE DEF a
        <5> QED  BY <4>1, <4>3, <4>4
      <4>6. Sound(c)
        <5> HIDE DEF b
        <5> QED  BY <4>1, <4>3, <4>5
      <4> HIDE DEF c
      <4> QED
        BY <4>2, <4>6 DEF LampPhases
    <3>3. CASE LampWait
      BY <3>3 DEF LampWait, LoopInv, LoopTyped, vars
    <3> QED
      BY <1>5, <3>1, <3>2, <3>3 DEF LampTest
  <2> QED
    BY <1>5, <2>1 DEF LampTest, LoopInv, LoopTyped
<1>6. ASSUME NEW t \in RadioTimes, Scan(t) \/ Associate(t)
      PROVE  LoopInv'
  <2>1. stall + t \in Nat /\ t \in Nat
    BY DEF LoopInv, LoopTyped
  <2>2. pump' = pump /\ lamp' = lamp /\ lampFor' = lampFor /\ linesLeft' = linesLeft
    BY <1>6 DEF Scan, Associate, vars
  <2>3. CASE Scan(t)
    BY <2>1, <2>2, <2>3 DEF Scan, LoopInv, LoopTyped
  <2>4. CASE Associate(t)
    <3>1. pc' = "pump"
      BY <2>4 DEF Associate
    <3>2. stall' \in Nat /\ radio' = "join" /\ scanRequested' = scanRequested
      BY <2>1, <2>4 DEF Associate
    <3> QED
      BY <2>2, <3>1, <3>2 DEF LoopInv, LoopTyped
  <2> QED
    BY <1>6, <2>3, <2>4
<1>7. CASE Boot
  <2>1. Sound(pump')
    BY <1>7, PowerUpIsSound DEF Boot, Reboot
  <2>2. 0 \in 0..LampHorizon /\ LinesPerPass \in 0..LinesPerPass /\ "OFF" \in LampPhases
    BY DEF LampPhases
  <2> QED
    BY <1>7, <2>1, <2>2 DEF Boot, LoopInv, LoopTyped
<1>8. CASE UNCHANGED allVars
  BY <1>8 DEF allVars, vars, loopVars, LoopInv, LoopTyped
<1> QED
  BY <1>1, <1>2, <1>3, <1>4, <1>5, <1>6, <1>7, <1>8 DEF LoopNext, Part

(* So it holds in every reachable state.                                   *)
LEMMA LoopInvariance == LoopSpec => []LoopInv
  BY InitLoopInv, NextLoopInv, PTL DEF LoopSpec

-----------------------------------------------------------------------------
(* The results.                                                            *)

(* Every variable of the loop keeps its type.                              *)
THEOREM LoopTypeCorrect == FairLoopSpec => []LoopTypeOK
<1>1. LoopInv => LoopTypeOK
  BY DEF LoopInv, LoopTyped, LoopTypeOK, Sound, Interlocked
<1> QED
  BY <1>1, LoopInvariance, PTL DEF FairLoopSpec

-----------------------------------------------------------------------------
(* Who owns an energised relay, while nobody engages one by hand.          *)

AtBench(p) == p.state \in {"IDLE", "UNKNOWN"}

(* A sequence or the phase of the lamp test owns what is energised; at     *)
(* rest only the lamp test does.                                           *)
StarterOwned(p, phase) ==
    p.starterActive => p.state = "CRANKING" \/ (AtBench(p) /\ phase = "STARTER_ON")

ChokeOwned(p, phase) ==
    p.chokeActive =>
      \/ p.state \in {"CHOKING", "CRANKING", "UNCHOKING"}
      \/ p.overrideActive /\ p.state = "PRIMING"
      \/ AtBench(p) /\ phase = "CHOKE_ON"

IgnitionOwned(p, phase) ==
    ~p.killActive =>
      \/ EngineWasStarted(p)
      \/ p.overrideActive /\ p.state \in {"PRIMING", "CHOKING"}
      \/ p.state = "FAULT" /\ ~p.faultKillActive
      \/ AtBench(p) /\ phase \in {"KILL_RELEASE", "STARTER_ON", "STARTER_OFF"}

IntakeOwned(p, phase) ==
    p.valveActive =>
      \/ p.state \in Sequence \cup {"STOPPING", "VALVE_CLOSING", "FAULT"}
      \/ /\ AtBench(p) /\ IntakeValveEnabled
         /\ phase \in {"VALVE_ON", "PRIME_WAIT", "KILL_RELEASE", "STARTER_ON", "STARTER_OFF",
                       "KILL_ASSERT"}

Owned(p, phase) ==
    /\ p \in Pump /\ (p.overrideActive => p.state \in Sequence)
    /\ StarterOwned(p, phase) /\ ChokeOwned(p, phase)
    /\ IgnitionOwned(p, phase) /\ IntakeOwned(p, phase)

(* In a pass the lamp test finds its own next pulse not yet remembered, so *)
(* that it is not taken for a duplicate.                                   *)
RingOfPass ==
    /\ records \in Seq([type : Commands, id : {"console", "lamp"}])
    /\ pc \in {"http", "console", "lamp"} =>
         \A i \in DOMAIN records :
           records[i].id = "lamp" => records[i].type = "MAINT_CHOKE_ON"

OwnInv == Owned(pump, lamp) /\ RingOfPass

(* No command engages a relay or opens the ignition by hand, over HTTP or  *)
(* at the console; any command may release one, and any may carry an       *)
(* override.                                                               *)
Engaging == {"MAINT_CHOKE_ON", "MAINT_STARTER_ON", "MAINT_KILL_OFF", "MAINT_VALVE_ON"}

Releasing == Maintenance \ Engaging

NothingByHand ==
    /\ HttpOperations \cap Engaging = {}
    /\ \A line \in Lines \cap DOMAIN ConsoleCommand : ConsoleCommand[line] \notin Engaging

(* Away from the bench the phase of the lamp test does not matter.         *)
LEMMA AnyPhaseAway ==
  ASSUME NEW p, NEW phase, NEW other, Owned(p, phase), ~AtBench(p)
  PROVE  Owned(p, other)
  BY DEF Owned, StarterOwned, ChokeOwned, IgnitionOwned, IntakeOwned

-----------------------------------------------------------------------------
(* What the relay layer does, call by call.                                *)

Relays(p, q, starter, choke, kill, valve) ==
    /\ q \in Pump /\ (q.overrideActive <=> p.overrideActive) /\ q.state = p.state
    /\ q.faultKillActive <=> p.faultKillActive
    /\ q.starterActive <=> starter
    /\ q.chokeActive <=> choke
    /\ q.killActive <=> kill
    /\ q.valveActive <=> valve

(* Every call sets its relay and no other, but for the starter that the    *)
(* kill wire takes with it.                                                *)
LEMMA CallSetsRelay ==
  ASSUME NEW p \in Pump
  PROVE  /\ Relays(p, EngageChoke(p), p.starterActive, TRUE, p.killActive, p.valveActive)
         /\ Relays(p, ReleaseChoke(p), p.starterActive, FALSE, p.killActive, p.valveActive)
         /\ Relays(p, ReleaseStarter(p), FALSE, p.chokeActive, p.killActive, p.valveActive)
         /\ Relays(p, ReleaseKill(p), p.starterActive, p.chokeActive, FALSE, p.valveActive)
         /\ Relays(p, AssertKill(p), FALSE, p.chokeActive, TRUE, p.valveActive)
         /\ Relays(p, OpenValve(p), p.starterActive, p.chokeActive, p.killActive, TRUE)
         /\ Relays(p, ShutValve(p), p.starterActive, p.chokeActive, p.killActive,
                   p.valveActive /\ EngineMayBeRunning(p))
<1>1. Relays(p, EngageChoke(p), p.starterActive, TRUE, p.killActive, p.valveActive)
  BY DEF Relays, EngageChoke, Pump
<1>2. Relays(p, ReleaseChoke(p), p.starterActive, FALSE, p.killActive, p.valveActive)
  BY DEF Relays, ReleaseChoke, Pump
<1>3. Relays(p, ReleaseStarter(p), FALSE, p.chokeActive, p.killActive, p.valveActive)
  BY DEF Relays, ReleaseStarter, Pump
<1>4. Relays(p, ReleaseKill(p), p.starterActive, p.chokeActive, FALSE, p.valveActive)
  BY DEF Relays, ReleaseKill, Pump
<1>5. Relays(p, AssertKill(p), FALSE, p.chokeActive, TRUE, p.valveActive)
  BY DEF Relays, AssertKill, ReleaseStarter, Pump
<1>6. Relays(p, OpenValve(p), p.starterActive, p.chokeActive, p.killActive, TRUE)
  BY DEF Relays, OpenValve, Pump
<1>7. Relays(p, ShutValve(p), p.starterActive, p.chokeActive, p.killActive,
             p.valveActive /\ EngineMayBeRunning(p))
  BY DEF Relays, ShutValve, EngineMayBeRunning, Pump
<1> QED
  BY <1>1, <1>2, <1>3, <1>4, <1>5, <1>6, <1>7

(* What has the same state with relays released, or with its intake open   *)
(* in a sequence.                                                          *)
Fewer(p, q) ==
    /\ q \in Pump /\ (q.overrideActive <=> p.overrideActive) /\ q.state = p.state
    /\ q.faultKillActive <=> p.faultKillActive
    /\ q.starterActive => p.starterActive
    /\ q.chokeActive => p.chokeActive
    /\ p.killActive => q.killActive
    /\ q.valveActive => p.valveActive \/ p.state \in Sequence

(* Neither ever costs a relay its owner.                                   *)
LEMMA FewerAreOwned ==
  ASSUME NEW p, NEW phase, Owned(p, phase), NEW q, Fewer(p, q)
  PROVE  Owned(q, phase)
<1>1. StarterOwned(q, phase)
  BY DEF Owned, Fewer, StarterOwned, AtBench
<1>2. ChokeOwned(q, phase)
  BY DEF Owned, Fewer, ChokeOwned, AtBench
<1>3. IgnitionOwned(q, phase)
  BY DEF Owned, Fewer, IgnitionOwned, AtBench, EngineWasStarted
<1>4. IntakeOwned(q, phase)
  BY DEF Owned, Fewer, IntakeOwned, AtBench
<1> QED
  BY <1>1, <1>2, <1>3, <1>4 DEF Owned, Fewer

(* A transition moves no relay, and keeps the override within a sequence.  *)
LEMMA TransitionMovesNoRelay ==
  ASSUME NEW p \in Pump, NEW s \in States
  PROVE  LET q == EnterState(p, s)
         IN  /\ q \in Pump /\ q.state = s
             /\ q.overrideActive => p.overrideActive /\ (s = p.state \/ s \in Sequence)
             /\ s \in Sequence => q.overrideActive = p.overrideActive
             /\ q.starterActive = p.starterActive /\ q.chokeActive = p.chokeActive
             /\ q.killActive = p.killActive /\ q.valveActive = p.valveActive
<1>1. CASE s = p.state
  BY <1>1 DEF EnterState, Pump
<1>2. CASE s # p.state
  BY <1>2 DEF EnterState, Pump
<1> QED
  BY <1>1, <1>2

(* enterFault() sheds everything but the intake, whatever it was called on.*)
LEMMA FaultIsOwned ==
  ASSUME NEW p \in Pump, p.overrideActive => p.state \in Sequence, NEW code \in Faults, NEW phase
  PROVE  Owned(EnterFault(p, code), phase) /\ EnterFault(p, code).state = "FAULT"
<1> DEFINE a == [p EXCEPT !.fault = code]
           b == Shed(a)
           c == [b EXCEPT !.faultKillActive = MightBeRunning(p), !.faultKillFor = 0]
           e == EnterState(c, "FAULT")
<1>1. a \in Pump /\ a.overrideActive = p.overrideActive /\ a.state = p.state
  BY DEF Pump
<1> HIDE DEF a
<1>2. /\ b \in Pump /\ ~b.starterActive /\ ~b.chokeActive /\ b.killActive
      /\ b.overrideActive = p.overrideActive /\ b.state = p.state
  BY <1>1, ShedFields
<1> HIDE DEF b
<1>3. MightBeRunning(p) \in BOOLEAN
  BY DEF MightBeRunning
<1>4. /\ c \in Pump /\ ~c.starterActive /\ ~c.chokeActive /\ c.killActive
      /\ c.overrideActive = p.overrideActive /\ c.state = p.state
  BY <1>2, <1>3 DEF Pump
<1>5. EnterFault(p, code) = e
  BY DEF EnterFault, a, b, Shed
<1> HIDE DEF c
<1>6. "FAULT" \in States /\ "FAULT" \notin Sequence
  BY DEF States, Sequence
<1>7. /\ e \in Pump /\ e.state = "FAULT" /\ ~e.overrideActive /\ ~e.starterActive
      /\ ~e.chokeActive /\ e.killActive
  BY <1>4, <1>6, TransitionMovesNoRelay
<1> HIDE DEF e
<1>8. Owned(e, phase)
  BY <1>7 DEF Owned, StarterOwned, ChokeOwned, IgnitionOwned, IntakeOwned
<1> QED
  BY <1>5, <1>7, <1>8

-----------------------------------------------------------------------------
(* The safety check and the pass.                                          *)

(* What leaves relays, state and override alone leaves the owners alone.   *)
LEMMA SameRelaysAreOwned ==
  ASSUME NEW p, NEW phase, Owned(p, phase), NEW q \in Pump, SameRelays(p, q)
  PROVE  Owned(q, phase)
<1>1. Fewer(p, q)
  BY DEF Fewer, SameRelays
<1> QED
  BY <1>1, FewerAreOwned

(* Every rule ends in FAULT, releases the starter, or opens the intake of  *)
(* a started engine: also the rules that an old fault cuts short.          *)
LEMMA LimitsAreOwned ==
  ASSUME NEW p, NEW phase, Owned(p, phase)
  PROVE  /\ Owned(EnforceLimits(p), phase)
         /\ EnforceLimits(p).state \in {p.state, "FAULT"}
<1> DEFINE A == ReleaseStarter(p)
           B == ReleaseChoke(p)
           C == OpenValve(p)
<1>1. p \in Pump /\ (p.overrideActive => p.state \in Sequence)
  BY DEF Owned
<1>2. /\ Relays(p, A, FALSE, p.chokeActive, p.killActive, p.valveActive)
      /\ Relays(p, B, p.starterActive, FALSE, p.killActive, p.valveActive)
      /\ Relays(p, C, p.starterActive, p.chokeActive, p.killActive, TRUE)
  BY <1>1, CallSetsRelay
<1>3. /\ Owned(A, phase)
      /\ EngineWasStarted(p) => Owned(C, phase)
  <2>1. Fewer(p, A) /\ (EngineWasStarted(p) => Fewer(p, C))
    <3> HIDE DEF A, C
    <3> QED  BY <1>2 DEF Relays, Fewer, EngineWasStarted, Sequence
  <2> QED
    BY <2>1, FewerAreOwned
<1>4. \A q \in {p, A, B, C} : /\ q \in Pump /\ (q.overrideActive => q.state \in Sequence)
                              /\ q.state = p.state
  BY <1>1, <1>2 DEF Relays
<1>5. \A q \in {p, A, B, C}, code \in Faults :
        Owned(EnterFault(q, code), phase) /\ EnterFault(q, code).state = "FAULT"
  BY <1>4, FaultIsOwned
<1>6. {"WATER_LOST", "STARTER_KILL_CONFLICT", "VALVE_CLOSED_WHILE_RUNNING",
       "STARTER_OVERRUN", "CHOKE_OVERRUN"} \subseteq Faults
  BY DEF Faults
<1> DEFINE Fine(q) == Owned(q, phase) /\ q.state \in {p.state, "FAULT"}
<1>7. Fine(p) /\ Fine(A) /\ (EngineWasStarted(p) => Fine(C))
  BY <1>3, <1>4
<1>8. \A q \in {p, A, B, C}, code \in {"WATER_LOST", "STARTER_KILL_CONFLICT",
            "VALVE_CLOSED_WHILE_RUNNING", "STARTER_OVERRUN", "CHOKE_OVERRUN"} :
        Fine(EnterFault(q, code))
  BY <1>5, <1>6
<1>9. EnforceLimits(p) =
        IF RunningDry(p) THEN EnterFault(p, "WATER_LOST")
        ELSE IF p.starterActive /\ p.killActive THEN EnterFaultOnce(A, "STARTER_KILL_CONFLICT")
        ELSE IF StarterOverShutIntake(p) THEN EnterFaultOnce(A, "VALVE_CLOSED_WHILE_RUNNING")
        ELSE IF EngineWasStarted(p) /\ ~p.valveActive
          THEN EnterFaultOnce(C, "VALVE_CLOSED_WHILE_RUNNING")
        ELSE IF StarterOverrun(p) THEN EnterFault(A, "STARTER_OVERRUN")
        ELSE IF ChokeOverrun(p) THEN EnterFault(B, "CHOKE_OVERRUN")
        ELSE p
  BY DEF EnforceLimits
<1> HIDE DEF A, B, C, Fine
<1>10. Fine(EnforceLimits(p))
  BY <1>7, <1>8, <1>9 DEF EnterFaultOnce
<1> QED
  BY <1>10 DEF Fine

(* So the check keeps every owner, and never takes the controller anywhere *)
(* but to FAULT.                                                           *)
LEMMA CheckKeepsOwners ==
  ASSUME NEW p, NEW phase, Owned(p, phase), NEW raw \in BOOLEAN
  PROVE  /\ Owned(EnforceSafety(p, raw), phase)
         /\ EnforceSafety(p, raw).state \in {p.state, "FAULT"}
<1> DEFINE e == UpdateWaterInterlock(p, raw)
<1>1. e \in Pump /\ SameRelays(p, e)
  BY WaterReadingLeavesRelays DEF Owned
<1> HIDE DEF e
<1>2. Owned(e, phase) /\ e.state = p.state
  BY <1>1, SameRelaysAreOwned DEF SameRelays
<1> QED
  BY <1>2, LimitsAreOwned DEF EnforceSafety, e

(* CHOKING is left with the starter engaged, for CRANKING, or for FAULT.   *)
LEMMA CrankIsOwned ==
  ASSUME NEW p, NEW phase, Owned(p, phase), p.state = "CHOKING"
  PROVE  Owned(BeginCrank(p), phase)
<1> DEFINE q == ReleaseKill(p)
           e == [q EXCEPT !.starterActive = TRUE, !.starterOnFor = 0]
           c == EnterState(e, "CRANKING")
           f == EnterFault(q, "VALVE_CLOSED_WHILE_RUNNING")
<1>0. p \in Pump /\ ~p.starterActive
  BY DEF Owned, StarterOwned, AtBench
<1>1. Relays(p, q, p.starterActive, p.chokeActive, FALSE, p.valveActive)
  BY <1>0, CallSetsRelay
<1> HIDE DEF q
<1>2. /\ q \in Pump /\ ~q.killActive /\ ~q.starterActive /\ q.state = "CHOKING"
  BY <1>0, <1>1 DEF Relays
<1>3. CASE ~PrimeComplete(q)
  <2>1. EngageStarter(q) = f
    BY <1>2, <1>3 DEF EngageStarter
  <2>2. "VALVE_CLOSED_WHILE_RUNNING" \in Faults /\ "CHOKING" \in Sequence
    BY DEF Faults, Sequence
  <2>3. Owned(f, phase) /\ f.state = "FAULT"
    BY <1>2, <2>2, FaultIsOwned
  <2> HIDE DEF f
  <2>4. ~f.starterActive
    BY <2>3 DEF Owned, StarterOwned, AtBench
  <2> QED
    BY <2>1, <2>3, <2>4 DEF BeginCrank, q
<1>4. CASE PrimeComplete(q)
  <2>1. EngageStarter(q) = e
    BY <1>2, <1>4 DEF EngageStarter
  <2>2. e \in Pump /\ e.starterActive
    BY <1>2 DEF Pump
  <2> HIDE DEF e
  <2>3. BeginCrank(p) = c
    BY <2>1, <2>2 DEF BeginCrank, q
  <2>4. "CRANKING" \in States /\ "CRANKING" \in Sequence
    BY DEF States, Sequence
  <2>5. c \in Pump /\ c.state = "CRANKING"
    BY <2>2, <2>4, TransitionMovesNoRelay
  <2> HIDE DEF c
  <2>6. Owned(c, phase)
    BY <2>4, <2>5
       DEF Owned, StarterOwned, ChokeOwned, IgnitionOwned, IntakeOwned, EngineWasStarted
  <2> QED
    BY <2>3, <2>6
<1> QED
  BY <1>3, <1>4

(* Every transition of advance() hands each relay on or finds it released. *)
LEMMA AdvanceIsOwned ==
  ASSUME NEW p, NEW phase, Owned(p, phase)
  PROVE  Owned(Advance(p), phase)
<1>0. p \in Pump /\ (p.overrideActive => p.state \in Sequence)
      /\ Sequence \subseteq States /\ {"IDLE", "VALVE_CLOSING"} \subseteq States
  BY DEF Owned, States
<1>1. CASE p.state = "PRIMING"
  <2> DEFINE q == EngageChoke(p)
             r == EnterState(q, "CHOKING")
  <2>1. Relays(p, q, p.starterActive, TRUE, p.killActive, p.valveActive)
    BY <1>0, CallSetsRelay
  <2>2. Advance(p) \in {p, r}
    BY <1>1 DEF Advance
  <2> HIDE DEF q
  <2>3. "CHOKING" \in States /\ "CHOKING" \in Sequence
    BY DEF States, Sequence
  <2>4. /\ r \in Pump /\ r.state = "CHOKING" /\ (r.overrideActive <=> p.overrideActive)
        /\ r.starterActive <=> p.starterActive
        /\ r.killActive <=> p.killActive
    BY <2>1, <2>3, TransitionMovesNoRelay DEF Relays
  <2> HIDE DEF r
  <2>5. Owned(r, phase)
    BY <1>1, <2>3, <2>4
       DEF Owned, StarterOwned, ChokeOwned, IgnitionOwned, IntakeOwned, EngineWasStarted, AtBench
  <2> QED
    BY <2>2, <2>5
<1>2. CASE p.state = "CHOKING"
  <2>1. Advance(p) \in {p, BeginCrank(p)}
    BY <1>2 DEF Advance
  <2> QED
    BY <1>2, <2>1, CrankIsOwned
<1>3. CASE p.state = "CRANKING"
  <2> DEFINE q == ReleaseStarter(p)
             r == EnterState(q, "UNCHOKING")
  <2>1. Relays(p, q, FALSE, p.chokeActive, p.killActive, p.valveActive)
    BY <1>0, CallSetsRelay
  <2>2. Advance(p) \in {p, r}
    BY <1>3 DEF Advance
  <2> HIDE DEF q
  <2>3. "UNCHOKING" \in States /\ "UNCHOKING" \in Sequence
    BY DEF States, Sequence
  <2>4. r \in Pump /\ r.state = "UNCHOKING" /\ ~r.starterActive
    BY <2>1, <2>3, TransitionMovesNoRelay DEF Relays
  <2> HIDE DEF r
  <2>5. Owned(r, phase)
    BY <2>3, <2>4
       DEF Owned, StarterOwned, ChokeOwned, IgnitionOwned, IntakeOwned, EngineWasStarted
  <2> QED
    BY <2>2, <2>5
<1>4. CASE p.state = "UNCHOKING"
  <2> DEFINE q == ReleaseChoke(p)
             r == EnterState(q, "RUNNING_ASSUMED")
  <2>1. Relays(p, q, p.starterActive, FALSE, p.killActive, p.valveActive)
    BY <1>0, CallSetsRelay
  <2>2. Advance(p) \in {p, r}
    BY <1>4 DEF Advance
  <2> HIDE DEF q
  <2>3. "RUNNING_ASSUMED" \in States /\ "RUNNING_ASSUMED" \in Sequence
    BY DEF States, Sequence
  <2>4. /\ r \in Pump /\ r.state = "RUNNING_ASSUMED" /\ ~r.chokeActive
        /\ r.starterActive <=> p.starterActive
    BY <2>1, <2>3, TransitionMovesNoRelay DEF Relays
  <2> HIDE DEF r
  <2>5. Owned(r, phase)
    BY <1>4, <2>3, <2>4
       DEF Owned, StarterOwned, ChokeOwned, IgnitionOwned, IntakeOwned, EngineWasStarted, AtBench
  <2> QED
    BY <2>2, <2>5
<1>5. CASE p.state \in {"STOPPING", "VALVE_CLOSING", "RETRY_WAIT", "IDLE", "UNKNOWN",
                        "RUNNING_ASSUMED"}
  <2> DEFINE q == ShutValve(p)
             t == EnterState(p, "VALVE_CLOSING")
             r == EnterState(q, "IDLE")
             w == EnterState(p, "IDLE")
  <2>1. Relays(p, q, p.starterActive, p.chokeActive, p.killActive,
               p.valveActive /\ EngineMayBeRunning(p))
    BY <1>0, CallSetsRelay
  <2>2. /\ Advance(p) # p => p.state \in {"STOPPING", "VALVE_CLOSING", "RETRY_WAIT"}
        /\ p.state = "STOPPING" => Advance(p) \in {p, t}
        /\ p.state = "VALVE_CLOSING" => Advance(p) \in {p, r}
        /\ p.state = "RETRY_WAIT" => Advance(p) \in {p, w}
    BY <1>5 DEF Advance
  <2> HIDE DEF q
  <2>3. /\ t \in Pump /\ t.state = "VALVE_CLOSING"
        /\ t.overrideActive => p.overrideActive /\ p.state = "VALVE_CLOSING"
        /\ t.starterActive = p.starterActive /\ t.chokeActive = p.chokeActive
        /\ t.killActive = p.killActive
    BY <1>0, TransitionMovesNoRelay DEF Sequence
  <2>4. /\ r \in Pump /\ r.state = "IDLE"
        /\ r.overrideActive => p.overrideActive /\ p.state = "IDLE"
        /\ r.starterActive <=> p.starterActive
        /\ r.chokeActive <=> p.chokeActive
        /\ r.killActive <=> p.killActive
        /\ r.valveActive <=> p.valveActive /\ EngineMayBeRunning(p)
    <3>1. /\ q \in Pump /\ q.state = p.state /\ (q.overrideActive <=> p.overrideActive)
          /\ q.starterActive <=> p.starterActive
          /\ q.chokeActive <=> p.chokeActive
          /\ q.killActive <=> p.killActive
          /\ q.valveActive <=> p.valveActive /\ EngineMayBeRunning(p)
      <4> HIDE DEF q
      <4> QED  BY <2>1 DEF Relays
    <3>2. q \in Pump
      BY <3>1
    <3>3. /\ r \in Pump /\ r.state = "IDLE"
          /\ r.overrideActive => q.overrideActive /\ q.state = "IDLE"
          /\ r.starterActive = q.starterActive /\ r.chokeActive = q.chokeActive
          /\ r.killActive = q.killActive /\ r.valveActive = q.valveActive
      BY <1>0, <3>2, TransitionMovesNoRelay DEF Sequence
    <3> HIDE DEF r
    <3> QED
      BY <3>1, <3>3
  <2>5. /\ w \in Pump /\ w.state = "IDLE"
        /\ w.overrideActive => p.overrideActive /\ p.state = "IDLE"
        /\ w.starterActive = p.starterActive /\ w.chokeActive = p.chokeActive
        /\ w.killActive = p.killActive /\ w.valveActive = p.valveActive
    BY <1>0, TransitionMovesNoRelay DEF Sequence
  <2> HIDE DEF t, r, w
  <2>6. p.state \in {"STOPPING", "VALVE_CLOSING", "RETRY_WAIT"} =>
          /\ ~p.overrideActive /\ ~p.starterActive /\ ~p.chokeActive /\ p.killActive
          /\ p.state = "RETRY_WAIT" => ~p.valveActive
    BY DEF Owned, StarterOwned, ChokeOwned, IgnitionOwned, IntakeOwned, EngineWasStarted, AtBench,
           Sequence
  <2>7. p.state = "STOPPING" => Owned(t, phase)
    BY <2>3, <2>6 DEF Owned, StarterOwned, ChokeOwned, IgnitionOwned, IntakeOwned
  <2>8. p.state = "VALVE_CLOSING" => Owned(r, phase)
    BY <2>4, <2>6
       DEF Owned, StarterOwned, ChokeOwned, IgnitionOwned, IntakeOwned, EngineMayBeRunning
  <2>9. p.state = "RETRY_WAIT" => Owned(w, phase)
    BY <2>5, <2>6 DEF Owned, StarterOwned, ChokeOwned, IgnitionOwned, IntakeOwned
  <2> QED
    BY <1>5, <2>2, <2>7, <2>8, <2>9
<1>6. CASE p.state = "FAULT"
  <2> DEFINE q == [ReleaseKill(p) EXCEPT !.faultKillActive = FALSE]
  <2>1. /\ q \in Pump /\ q.state = "FAULT" /\ q.overrideActive = p.overrideActive
        /\ ~q.faultKillActive
        /\ q.starterActive = p.starterActive /\ q.chokeActive = p.chokeActive
    BY <1>0, <1>6 DEF ReleaseKill, Pump
  <2>2. Advance(p) \in {p, q}
    BY <1>6 DEF Advance
  <2> HIDE DEF q
  <2>3. Owned(q, phase)
    BY <1>6, <2>1
       DEF Owned, StarterOwned, ChokeOwned, IgnitionOwned, IntakeOwned, AtBench, EngineWasStarted,
           Sequence
  <2> QED
    BY <2>2, <2>3
<1> QED
  BY <1>0, <1>1, <1>2, <1>3, <1>4, <1>5, <1>6 DEF Pump, States, Sequence

(* One pass of the pump keeps the owners.                                  *)
LEMMA PassKeepsOwners ==
  ASSUME NEW p, NEW phase, Owned(p, phase), Interlocked(p), NEW d \in Nat, NEW raw \in BOOLEAN
  PROVE  Owned(Advance(EnforceSafety(Elapse(p, d), raw)), phase)
<1>1. Elapse(p, d) \in Pump /\ SameRelays(p, Elapse(p, d))
  BY ElapseLeavesRelays
<1>2. Owned(Elapse(p, d), phase)
  BY <1>1, SameRelaysAreOwned
<1> QED
  BY <1>2, CheckKeepsOwners, AdvanceIsOwned

-----------------------------------------------------------------------------
(* The commands.                                                           *)

(* A START without override begins only where nothing is energised; with   *)
(* one it begins anywhere, and takes the choke and the ignition it finds.  *)
LEMMA StartIsOwned ==
  ASSUME NEW p, NEW phase, Owned(p, phase), NEW override \in BOOLEAN, NEW t \in Timings
  PROVE  Owned(StartOutcome(p, override, t).pump, phase)
<1>1. CASE ~StartPermitted(p, override)
  BY <1>1 DEF StartOutcome, Refused
<1>2. CASE StartPermitted(p, override)
  <2> DEFINE a == [p EXCEPT !.overrideActive = override, !.timings = Clamp(t)]
             b == ReleaseStarter(a)
             open == OpenValve(b)
             choked == EngageChoke(b)
             primes == EnterState(open, "PRIMING")
             chokes == EnterState(choked, "CHOKING")
  <2>1. p \in Pump /\ (override \/ (~p.chokeActive /\ p.killActive))
    BY <1>2 DEF StartPermitted, Owned
  <2>2. /\ a \in Pump /\ a.overrideActive = override
        /\ a.chokeActive = p.chokeActive /\ a.killActive = p.killActive
    BY <2>1, ClampIsTimings DEF Pump
  <2>3. StartOutcome(p, override, t).pump = IF IntakeValveEnabled THEN primes ELSE chokes
    BY <1>2 DEF StartOutcome, Accepted, BeginStartSequence
  <2> HIDE DEF a
  <2>4. /\ b \in Pump /\ (b.overrideActive <=> override) /\ ~b.starterActive
        /\ b.chokeActive <=> p.chokeActive
        /\ b.killActive <=> p.killActive
    BY <2>2, CallSetsRelay DEF Relays
  <2> HIDE DEF b
  <2>5. /\ open \in Pump /\ (open.overrideActive <=> override) /\ ~open.starterActive
        /\ open.chokeActive <=> p.chokeActive
        /\ open.killActive <=> p.killActive
    BY <2>4, CallSetsRelay DEF Relays
  <2>6. /\ choked \in Pump /\ (choked.overrideActive <=> override) /\ ~choked.starterActive
        /\ choked.killActive <=> p.killActive
    BY <2>4, CallSetsRelay DEF Relays
  <2> HIDE DEF open, choked
  <2>7. {"PRIMING", "CHOKING"} \subseteq States /\ {"PRIMING", "CHOKING"} \subseteq Sequence
    BY DEF States, Sequence
  <2>8. /\ primes \in Pump /\ primes.state = "PRIMING" /\ (primes.overrideActive <=> override)
        /\ ~primes.starterActive
        /\ primes.chokeActive <=> p.chokeActive
        /\ primes.killActive <=> p.killActive
    BY <2>5, <2>7, TransitionMovesNoRelay
  <2>9. /\ chokes \in Pump /\ chokes.state = "CHOKING" /\ (chokes.overrideActive <=> override)
        /\ ~chokes.starterActive
        /\ chokes.killActive <=> p.killActive
    BY <2>6, <2>7, TransitionMovesNoRelay
  <2> HIDE DEF primes, chokes
  <2>10. Owned(primes, phase)
    BY <2>1, <2>7, <2>8 DEF Owned, StarterOwned, ChokeOwned, IgnitionOwned, IntakeOwned
  <2>11. Owned(chokes, phase)
    BY <2>1, <2>7, <2>9 DEF Owned, StarterOwned, ChokeOwned, IgnitionOwned, IntakeOwned
  <2> QED
    BY <2>3, <2>10, <2>11
<1> QED
  BY <1>1, <1>2

(* STOP sheds everything but the intake, from any state.                   *)
LEMMA StopIsOwned ==
  ASSUME NEW p, NEW phase, Owned(p, phase), NEW other
  PROVE  Owned(BeginStopSequence(p), other)
<1> DEFINE a == Shed(p)
           b == [a EXCEPT !.faultKillActive = FALSE, !.fault = "NONE"]
           c == EnterState(b, "STOPPING")
           d == [c EXCEPT !.stateElapsed = 0]
<1>0. p \in Pump /\ (p.overrideActive => p.state \in Sequence)
  BY DEF Owned
<1>1. BeginStopSequence(p) = d
  BY DEF BeginStopSequence, Shed
<1>2. /\ a \in Pump /\ ~a.starterActive /\ ~a.chokeActive /\ a.killActive
      /\ a.overrideActive = p.overrideActive /\ a.state = p.state
  BY <1>0, ShedFields
<1> HIDE DEF a
<1>3. /\ b \in Pump /\ ~b.starterActive /\ ~b.chokeActive /\ b.killActive
      /\ b.overrideActive = p.overrideActive /\ b.state = p.state
  BY <1>2 DEF Pump, Faults
<1> HIDE DEF b
<1>4. "STOPPING" \in States /\ "STOPPING" \notin Sequence
  BY DEF States, Sequence
<1>5. /\ c \in Pump /\ ~c.starterActive /\ ~c.chokeActive /\ c.killActive
      /\ ~c.overrideActive /\ c.state = "STOPPING"
  BY <1>0, <1>3, <1>4, TransitionMovesNoRelay
<1> HIDE DEF c
<1>6. /\ d \in Pump /\ ~d.starterActive /\ ~d.chokeActive /\ d.killActive
      /\ ~d.overrideActive /\ d.state = "STOPPING"
  BY <1>5 DEF Pump
<1> HIDE DEF d
<1> QED
  BY <1>1, <1>6 DEF Owned, StarterOwned, ChokeOwned, IgnitionOwned, IntakeOwned

(* START_FAILED changes the state before it shuts the intake, so that the  *)
(* relay layer does not refuse.                                            *)
LEMMA StartFailedIsOwned ==
  ASSUME NEW p, NEW phase, Owned(p, phase)
  PROVE  Owned(StartFailedOutcome(p).pump, phase)
<1>1. CASE p.state \notin StartFailedAllowed
  BY <1>1 DEF StartFailedOutcome, Refused
<1>2. CASE p.state \in StartFailedAllowed
  <2> DEFINE a == Shed(p)
             b == EnterState(a, "RETRY_WAIT")
             c == ShutValve(b)
  <2>0. p \in Pump /\ (p.overrideActive => p.state \in Sequence)
    BY DEF Owned
  <2>1. StartFailedOutcome(p).pump = c
    BY <1>2 DEF StartFailedOutcome, Accepted, Shed
  <2>2. /\ a \in Pump /\ ~a.starterActive /\ ~a.chokeActive /\ a.killActive
        /\ a.overrideActive = p.overrideActive /\ a.state = p.state
    BY <2>0, ShedFields
  <2> HIDE DEF a
  <2>3. "RETRY_WAIT" \in States /\ "RETRY_WAIT" \notin Sequence
    BY DEF States, Sequence
  <2>4. /\ b \in Pump /\ ~b.starterActive /\ ~b.chokeActive /\ b.killActive
        /\ ~b.overrideActive /\ b.state = "RETRY_WAIT"
    BY <2>0, <2>2, <2>3, TransitionMovesNoRelay
  <2> HIDE DEF b
  <2>5. ~EngineMayBeRunning(b)
    BY <2>4 DEF EngineMayBeRunning
  <2>6. Relays(b, c, b.starterActive, b.chokeActive, b.killActive,
               b.valveActive /\ EngineMayBeRunning(b))
    BY <2>4, CallSetsRelay
  <2> HIDE DEF c
  <2>7. /\ c \in Pump /\ ~c.starterActive /\ ~c.chokeActive /\ c.killActive /\ ~c.valveActive
        /\ ~c.overrideActive
    BY <2>4, <2>5, <2>6 DEF Relays
  <2> QED
    BY <2>1, <2>7 DEF Owned, StarterOwned, ChokeOwned, IgnitionOwned, IntakeOwned
<1> QED
  BY <1>1, <1>2

(* RESET_IDLE leaves FAULT and sheds everything.                           *)
LEMMA ResetIdleIsOwned ==
  ASSUME NEW p, NEW phase, Owned(p, phase)
  PROVE  Owned(ResetIdleOutcome(p).pump, phase)
<1>1. CASE p.state \notin {"UNKNOWN", "IDLE", "RETRY_WAIT", "FAULT"}
  BY <1>1 DEF ResetIdleOutcome, Refused
<1>2. CASE p.state \in {"UNKNOWN", "IDLE", "RETRY_WAIT", "FAULT"}
  <2> DEFINE cleared == [p EXCEPT !.fault = "NONE", !.faultKillActive = FALSE]
             rest == IF CooldownOver(p) THEN "IDLE" ELSE "RETRY_WAIT"
             a == EnterState(cleared, rest)
             b == Shed(a)
             c == ShutValve(b)
  <2>0. p \in Pump /\ ~p.overrideActive
    BY <1>2 DEF Owned, Sequence
  <2>1. ResetIdleOutcome(p).pump = c
    BY <1>2 DEF ResetIdleOutcome, Accepted, ToSafeState, Shed
  <2>2. cleared \in Pump /\ ~cleared.overrideActive
    BY <2>0 DEF Pump, Faults
  <2>3. rest \in {"IDLE", "RETRY_WAIT"} /\ rest \in States
    BY DEF States
  <2> HIDE DEF cleared, rest
  <2>4. a \in Pump /\ ~a.overrideActive /\ a.state = rest
    BY <2>2, <2>3, TransitionMovesNoRelay
  <2> HIDE DEF a
  <2>5. /\ b \in Pump /\ ~b.starterActive /\ ~b.chokeActive /\ b.killActive
        /\ ~b.overrideActive /\ b.state = rest
    BY <2>4, ShedFields
  <2> HIDE DEF b
  <2>6. ~EngineMayBeRunning(b)
    BY <2>3, <2>5 DEF EngineMayBeRunning
  <2>7. Relays(b, c, b.starterActive, b.chokeActive, b.killActive,
               b.valveActive /\ EngineMayBeRunning(b))
    BY <2>5, CallSetsRelay
  <2> HIDE DEF c
  <2>8. /\ c \in Pump /\ ~c.starterActive /\ ~c.chokeActive /\ c.killActive /\ ~c.valveActive
        /\ ~c.overrideActive
    BY <2>5, <2>6, <2>7 DEF Relays
  <2> QED
    BY <2>1, <2>8 DEF Owned, StarterOwned, ChokeOwned, IgnitionOwned, IntakeOwned
<1> QED
  BY <1>1, <1>2

(* A command that only releases never costs a relay its owner.             *)
LEMMA ReleaseIsOwned ==
  ASSUME NEW p, NEW phase, Owned(p, phase), NEW type \in Releasing, NEW override \in BOOLEAN
  PROVE  Owned(MaintenanceOutcome(p, type, override).pump, phase)
<1> DEFINE q == ApplyMaintenance(p, type).pump
<1>1. type \in {"MAINT_CHOKE_OFF", "MAINT_STARTER_OFF", "MAINT_KILL_ON", "MAINT_VALVE_OFF"}
  BY DEF Releasing, Engaging, Maintenance
<1>2. /\ type = "MAINT_CHOKE_OFF" => q = ReleaseChoke(p)
      /\ type = "MAINT_STARTER_OFF" => q = ReleaseStarter(p)
      /\ type = "MAINT_KILL_ON" => q = AssertKill(p)
      /\ type = "MAINT_VALVE_OFF" => q = ShutValve(p)
  BY DEF ApplyMaintenance, Accepted
<1> HIDE DEF q
<1>3. p \in Pump
  BY DEF Owned
<1>4. Fewer(p, q)
  <2>1. CASE type = "MAINT_CHOKE_OFF"
    BY <1>2, <1>3, <2>1, CallSetsRelay DEF Relays, Fewer
  <2>2. CASE type = "MAINT_STARTER_OFF"
    BY <1>2, <1>3, <2>2, CallSetsRelay DEF Relays, Fewer
  <2>3. CASE type = "MAINT_KILL_ON"
    BY <1>2, <1>3, <2>3, CallSetsRelay DEF Relays, Fewer
  <2>4. CASE type = "MAINT_VALVE_OFF"
    BY <1>2, <1>3, <2>4, CallSetsRelay DEF Relays, Fewer
  <2> QED
    BY <1>1, <2>1, <2>2, <2>3, <2>4
<1>5. Owned(q, phase)
  BY <1>4, FewerAreOwned
<1>6. MaintenanceOutcome(p, type, override).pump \in {p, q}
  BY DEF MaintenanceOutcome, Refused, q
<1> QED
  BY <1>5, <1>6

(* So every command of the field keeps the owners; the phase of the lamp   *)
(* test may end with a STOP.                                               *)
LEMMA CommandKeepsOwners ==
  ASSUME NEW phase, Owned(pump, phase), NEW type \in Commands \ Engaging, NEW id,
         NEW override \in BOOLEAN, NEW timings \in Timings, NEW raw \in Readings,
         Command(type, id, override, timings, raw)
  PROVE  /\ Owned(pump', phase)
         /\ type = "STOP" => \A other : Owned(pump', other)
         /\ \E checked, outcome : Conclude(type, id, checked, outcome)
<1> DEFINE p == EnforceSafety(pump, raw)
<1>1. Owned(p, phase)
  BY CheckKeepsOwners DEF Readings
<1> HIDE DEF p
<1>2. CASE type = "START" /\ Start(id, override, timings, raw)
  <2>1. Conclude(type, id, p, StartOutcome(p, override, timings))
    BY <1>2 DEF Start, p
  <2>2. Owned(StartOutcome(p, override, timings).pump, phase)
    BY <1>1, StartIsOwned
  <2>3. Owned(pump', phase)
    BY <1>1, <2>1, <2>2 DEF Conclude
  <2> QED
    BY <1>2, <2>1, <2>3
<1>3. CASE type = "STOP" /\ Stop(id, raw)
  <2> DEFINE r == BeginStopSequence(p)
  <2>1. Conclude(type, id, p, Accepted(r))
    BY <1>3 DEF Stop, p
  <2>2. \A other : Owned(r, other)
    BY <1>1, StopIsOwned
  <2> HIDE DEF r
  <2>3. pump' = r
    BY <1>3, <2>1 DEF Conclude, Accepted
  <2> QED
    BY <2>1, <2>2, <2>3
<1>4. CASE type = "START_FAILED" /\ StartFailed(id, raw)
  <2>1. Conclude(type, id, p, StartFailedOutcome(p))
    BY <1>4 DEF StartFailed, p
  <2>2. Owned(StartFailedOutcome(p).pump, phase)
    BY <1>1, StartFailedIsOwned
  <2>3. Owned(pump', phase)
    BY <1>1, <2>1, <2>2 DEF Conclude
  <2> QED
    BY <1>4, <2>1, <2>3
<1>5. CASE type = "RESET_IDLE" /\ ResetIdle(id, raw)
  <2>1. Conclude(type, id, p, ResetIdleOutcome(p))
    BY <1>5 DEF ResetIdle, p
  <2>2. Owned(ResetIdleOutcome(p).pump, phase)
    BY <1>1, ResetIdleIsOwned
  <2>3. Owned(pump', phase)
    BY <1>1, <2>1, <2>2 DEF Conclude
  <2> QED
    BY <1>5, <2>1, <2>3
<1>6. CASE type \in Maintenance /\ Maintain(type, id, override, raw)
  <2>0. type \in Releasing /\ type # "STOP"
    BY <1>6 DEF Releasing, Maintenance
  <2>1. Conclude(type, id, p, MaintenanceOutcome(p, type, override))
    BY <1>6 DEF Maintain, p
  <2>2. Owned(MaintenanceOutcome(p, type, override).pump, phase)
    BY <1>1, <2>0, ReleaseIsOwned
  <2>3. Owned(pump', phase)
    BY <1>1, <2>1, <2>2 DEF Conclude
  <2> QED
    BY <2>0, <2>1, <2>3
<1> QED
  BY <1>2, <1>3, <1>4, <1>5, <1>6 DEF Command

-----------------------------------------------------------------------------
(* The lamp test.                                                          *)

(* The lamp test goes from phase to phase with the pulse that hands every  *)
(* relay over, or with none where nothing is to be handed over.            *)
LEMMA PhaseHandsOver ==
  ASSUME NEW p, NEW phase \in LampPhases \ {"OFF"}, Owned(p, phase), AtBench(p)
  PROVE  LET next == LampNext(phase)
         IN  IF next \in DOMAIN Pulse
             THEN Owned(ApplyMaintenance(p, Pulse[next]).pump, next)
             ELSE Owned(p, next)
<1> DEFINE next == LampNext(phase)
           q == ApplyMaintenance(p, Pulse[next]).pump
<1>0. p \in Pump /\ ~p.overrideActive /\ p.state \in {"IDLE", "UNKNOWN"}
  BY DEF Owned, AtBench, Sequence
<1> DEFINE Held(r, f) ==
             /\ r.starterActive => f = "STARTER_ON"
             /\ r.chokeActive => f = "CHOKE_ON"
             /\ ~r.killActive => f \in {"KILL_RELEASE", "STARTER_ON", "STARTER_OFF"}
             /\ r.valveActive => /\ IntakeValveEnabled
                                 /\ f \in {"VALVE_ON", "PRIME_WAIT", "KILL_RELEASE", "STARTER_ON",
                                           "STARTER_OFF", "KILL_ASSERT"}
<1>a. Held(p, phase)
  BY <1>0 DEF Owned, StarterOwned, ChokeOwned, IgnitionOwned, IntakeOwned, AtBench, Sequence,
              EngineWasStarted
<1>b. ASSUME NEW r \in Pump, ~r.overrideActive, r.state = p.state, NEW f, Held(r, f)
      PROVE  Owned(r, f)
  BY <1>0, <1>b DEF Owned, StarterOwned, ChokeOwned, IgnitionOwned, IntakeOwned, AtBench
<1>1. CASE phase = "CHOKE_ON"
  <2>1. next = "CHOKE_OFF" /\ next \in DOMAIN Pulse /\ q = ReleaseChoke(p)
    BY <1>1 DEF LampNext, Pulse, ApplyMaintenance, Accepted
  <2> HIDE DEF next, q
  <2>2. Owned(q, next)
    BY <1>0, <1>a, <1>b, <1>1, <2>1, CallSetsRelay DEF Relays
  <2> QED
    BY <2>1, <2>2 DEF next, q
<1>2. CASE phase = "CHOKE_OFF" /\ IntakeValveEnabled
  <2>1. next = "VALVE_ON" /\ next \in DOMAIN Pulse /\ q = OpenValve(p)
    BY <1>2 DEF LampNext, Pulse, ApplyMaintenance, Accepted
  <2> HIDE DEF next, q
  <2>2. Owned(q, next)
    BY <1>0, <1>a, <1>b, <1>2, <2>1, CallSetsRelay DEF Relays
  <2> QED
    BY <2>1, <2>2 DEF next, q
<1>3. CASE (phase = "CHOKE_OFF" /\ ~IntakeValveEnabled) \/ phase = "VALVE_ON"
  <2>1. next = "PRIME_WAIT"
    BY <1>3 DEF LampNext
  <2>2. "PRIME_WAIT" \notin DOMAIN Pulse
    BY DEF Pulse
  <2> HIDE DEF next
  <2>3. Owned(p, next)
    BY <1>0, <1>a, <1>b, <1>3, <2>1
  <2> QED
    BY <2>1, <2>2, <2>3 DEF next
<1>4. CASE phase = "PRIME_WAIT"
  <2>1. next = "KILL_RELEASE" /\ next \in DOMAIN Pulse /\ q = ReleaseKill(p)
    BY <1>4 DEF LampNext, Pulse, ApplyMaintenance, Accepted
  <2> HIDE DEF next, q
  <2>2. Owned(q, next)
    BY <1>0, <1>a, <1>b, <1>4, <2>1, CallSetsRelay DEF Relays
  <2> QED
    BY <2>1, <2>2 DEF next, q
<1>5. CASE phase = "KILL_RELEASE"
  <2>1. /\ next = "STARTER_ON" /\ next \in DOMAIN Pulse
        /\ q = IF p.killActive THEN p ELSE EngageStarter(p)
    BY <1>5 DEF LampNext, Pulse, ApplyMaintenance
  <2> HIDE DEF next, q
  <2>2. Owned(p, next)
    BY <1>0, <1>a, <1>b, <1>5, <2>1
  <2>3. CASE q = p
    BY <2>1, <2>2, <2>3 DEF next, q
  <2>4. CASE q = EnterFault(p, "VALVE_CLOSED_WHILE_RUNNING")
    <3>1. "VALVE_CLOSED_WHILE_RUNNING" \in Faults
      BY DEF Faults
    <3>2. Owned(q, next)
      BY <1>0, <2>4, <3>1, FaultIsOwned
    <3> QED
      BY <2>1, <3>2 DEF next, q
  <2>5. CASE q = [p EXCEPT !.starterActive = TRUE, !.starterOnFor = 0]
    <3>0. Relays(p, q, TRUE, p.chokeActive, p.killActive, p.valveActive)
      BY <1>0, <2>5 DEF Relays, Pump
    <3>1. Owned(q, next)
      BY <1>0, <1>a, <1>b, <1>5, <2>1, <3>0 DEF Relays
    <3> QED
      BY <2>1, <3>1 DEF next, q
  <2> QED
    BY <2>1, <2>3, <2>4, <2>5 DEF EngageStarter
<1>6. CASE phase = "STARTER_ON"
  <2>1. next = "STARTER_OFF" /\ next \in DOMAIN Pulse /\ q = ReleaseStarter(p)
    BY <1>6 DEF LampNext, Pulse, ApplyMaintenance, Accepted
  <2> HIDE DEF next, q
  <2>2. Owned(q, next)
    BY <1>0, <1>a, <1>b, <1>6, <2>1, CallSetsRelay DEF Relays
  <2> QED
    BY <2>1, <2>2 DEF next, q
<1>7. CASE phase = "STARTER_OFF"
  <2>1. next = "KILL_ASSERT" /\ next \in DOMAIN Pulse /\ q = AssertKill(p)
    BY <1>7 DEF LampNext, Pulse, ApplyMaintenance, Accepted
  <2> HIDE DEF next, q
  <2>2. Owned(q, next)
    BY <1>0, <1>a, <1>b, <1>7, <2>1, CallSetsRelay DEF Relays
  <2> QED
    BY <2>1, <2>2 DEF next, q
<1>8. CASE phase = "KILL_ASSERT" /\ IntakeValveEnabled
  <2>1. next = "VALVE_OFF" /\ next \in DOMAIN Pulse /\ q = ShutValve(p)
    BY <1>8 DEF LampNext, Pulse, ApplyMaintenance
  <2> HIDE DEF next, q
  <2>2. Owned(q, next)
    <3>1. ~EngineMayBeRunning(p)
      BY <1>0 DEF EngineMayBeRunning
    <3>2. Relays(p, q, p.starterActive, p.chokeActive, p.killActive,
                 p.valveActive /\ EngineMayBeRunning(p))
      BY <1>0, <2>1, CallSetsRelay
    <3>3. /\ q \in Pump /\ ~q.overrideActive /\ q.state = p.state /\ ~q.valveActive
          /\ q.starterActive <=> p.starterActive
          /\ q.chokeActive <=> p.chokeActive
          /\ q.killActive <=> p.killActive
      BY <1>0, <3>1, <3>2 DEF Relays
    <3>4. Held(q, next)
      BY <1>a, <1>8, <2>1, <3>3
    <3> QED
      BY <1>b, <3>3, <3>4
  <2> QED
    BY <2>1, <2>2 DEF next, q
<1>9. CASE (phase = "KILL_ASSERT" /\ ~IntakeValveEnabled) \/ phase = "VALVE_OFF"
  <2>1. next = IF phase = "VALVE_OFF" THEN "OFF" ELSE "VALVE_OFF"
    BY <1>9 DEF LampNext
  <2>2. next \notin DOMAIN Pulse
    BY <1>9, <2>1 DEF Pulse
  <2> HIDE DEF next
  <2>3. Owned(p, next)
    BY <1>0, <1>a, <1>b, <1>9, <2>1
  <2> QED
    BY <2>2, <2>3 DEF next
<1> QED
  BY <1>1, <1>2, <1>3, <1>4, <1>5, <1>6, <1>7, <1>8, <1>9 DEF LampPhases

(* A ring with one more command of an interface is still such a ring.      *)
LEMMA RingGrows ==
  ASSUME RingOfPass, NEW type \in Commands, NEW id \in {"console", "lamp"}
  PROVE  /\ Remembered(type, id) \in Seq([type : Commands, id : {"console", "lamp"}])
         /\ \A i \in DOMAIN Remembered(type, id) :
              \/ Remembered(type, id)[i] = [type |-> type, id |-> id]
              \/ \E j \in DOMAIN records : Remembered(type, id)[i] = records[j]
<1> DEFINE S == [type : Commands, id : {"console", "lamp"}]
           x == [type |-> type, id |-> id]
           old == IF Len(records) = IdempotencySlots THEN Tail(records) ELSE records
<1>1. x \in S /\ records \in Seq(S)
  BY DEF RingOfPass
<1>2. Remembered(type, id) = Append(old, x)
  BY DEF Remembered
<1> HIDE DEF S, x
<1>3. old \in Seq(S) /\ \A i \in DOMAIN old : \E j \in DOMAIN records : old[i] = records[j]
  <2>1. CASE Len(records) = IdempotencySlots
    <3>1. records # << >>
      BY <2>1, InputAssumption
    <3>2. old = Tail(records) /\ Len(old) = Len(records) - 1 /\ old \in Seq(S)
      BY <1>1, <2>1, <3>1
    <3>3. ASSUME NEW i \in 1..(Len(records) - 1)
          PROVE  old[i] = records[i + 1] /\ i + 1 \in 1..Len(records)
      <4>1. Tail(records)[i] = records[i + 1]
        BY <1>1, <3>1
      <4>2. i + 1 \in 1..Len(records)
        BY <1>1
      <4> QED
        BY <3>2, <4>1, <4>2
    <3>4. DOMAIN old = 1..(Len(records) - 1) /\ DOMAIN records = 1..Len(records)
      BY <1>1, <3>2
    <3>5. ASSUME NEW i \in DOMAIN old
          PROVE  \E j \in DOMAIN records : old[i] = records[j]
      <4>1. i + 1 \in DOMAIN records /\ old[i] = records[i + 1]
        BY <3>3, <3>4
      <4> QED
        BY <4>1
    <3> QED
      BY <3>2, <3>5
  <2>2. CASE Len(records) # IdempotencySlots
    BY <1>1, <2>2
  <2> QED
    BY <2>1, <2>2
<1> HIDE DEF old
<1>4. Append(old, x) \in Seq(S)
  BY <1>1, <1>3
<1>5. ASSUME NEW i \in DOMAIN Append(old, x)
      PROVE  Append(old, x)[i] = x \/ (i \in DOMAIN old /\ Append(old, x)[i] = old[i])
  BY <1>1, <1>3
<1> QED
  BY <1>2, <1>3, <1>4, <1>5 DEF S, x

(* The end of handleCommand(): of the lamp test's pulses only the first is *)
(* remembered before the test has had its turn.                            *)
LEMMA ConcludeKeepsRing ==
  ASSUME RingOfPass, NEW type \in Commands, NEW id \in {"console", "lamp", NoRequestId},
         NEW checked, NEW outcome, Conclude(type, id, checked, outcome)
  PROVE  /\ records' \in Seq([type : Commands, id : {"console", "lamp"}])
         /\ \A i \in DOMAIN records' :
              \/ records'[i] = [type |-> type, id |-> id] /\ id # NoRequestId
              \/ \E j \in DOMAIN records : records'[i] = records[j]
<1>1. CASE outcome.accepted /\ id # NoRequestId /\ ~Seen(type, id)
  <2>1. records' = Remembered(type, id) /\ id \in {"console", "lamp"} /\ id # NoRequestId
    BY <1>1 DEF Conclude
  <2> QED
    BY <2>1, RingGrows
<1>2. CASE ~(outcome.accepted /\ id # NoRequestId /\ ~Seen(type, id))
  BY <1>2 DEF Conclude, RingOfPass
<1> QED
  BY <1>1, <1>2

(* A command over HTTP keeps every owner, and remembers nothing.           *)
LEMMA HttpKeepsOwners ==
  ASSUME NothingByHand, OwnInv, NEW type \in HttpOperations, NEW override \in BOOLEAN,
         NEW timings \in Timings, NEW raw \in Readings,
         Command(type, NoRequestId, override, timings, raw)
  PROVE  Owned(pump', lamp) /\ records' = records
<1>1. type \in Commands \ Engaging
  BY LoopAssumption, InputAssumption DEF NothingByHand
<1>2. Owned(pump', lamp)
  BY <1>1, CommandKeepsOwners DEF OwnInv
<1>3. PICK checked, outcome : Conclude(type, NoRequestId, checked, outcome)
  BY <1>1, CommandKeepsOwners DEF OwnInv
<1> QED
  BY <1>2, <1>3 DEF Conclude

(* So does one that the operator types; STOP, which ends the lamp test,    *)
(* leaves nothing that the test would have owned.                          *)
LEMMA TypedKeepsOwners ==
  ASSUME NothingByHand, OwnInv, NEW line \in Lines, NEW raw \in Readings,
         TypeCommand(line, raw)
  PROVE  /\ Owned(pump', lamp')
         /\ records' \in Seq([type : Commands, id : {"console", "lamp"}])
         /\ \A i \in DOMAIN records' :
              \/ records'[i].id = "console"
              \/ \E j \in DOMAIN records : records'[i] = records[j]
<1> DEFINE type == ConsoleCommand[line]
<1>1. line \in DOMAIN ConsoleCommand /\ type \in Commands
  BY ConsoleIsTyped DEF TypeCommand
<1>2. /\ type \notin Engaging
      /\ line = "stop" => type = "STOP"
  <2>1. ConsoleCommand["stop"] = "STOP"
    BY Zenon DEF ConsoleCommand
  <2> QED
    BY <1>1, <2>1 DEF NothingByHand
<1>3. /\ Command(type, "console", FALSE, DefaultTimings, raw)
      /\ lamp' = IF line = "stop" THEN "OFF" ELSE lamp
  BY DEF TypeCommand
<1> HIDE DEF type
<1>4. /\ Owned(pump', lamp)
      /\ type = "STOP" => \A other : Owned(pump', other)
      /\ \E checked, outcome : Conclude(type, "console", checked, outcome)
  BY <1>1, <1>2, <1>3, ConsoleIsTyped, CommandKeepsOwners DEF OwnInv
<1>5. Owned(pump', lamp')
  BY <1>2, <1>3, <1>4
<1>6. PICK checked, outcome : Conclude(type, "console", checked, outcome)
  BY <1>4
<1>7. /\ records' \in Seq([type : Commands, id : {"console", "lamp"}])
      /\ \A i \in DOMAIN records' :
           \/ records'[i] = [type |-> type, id |-> "console"]
           \/ \E j \in DOMAIN records : records'[i] = records[j]
  BY <1>1, <1>6, ConcludeKeepsRing DEF OwnInv
<1> QED
  BY <1>5, <1>7

(* A pulse that is no duplicate does what it says to a controller at rest, *)
(* and nothing to one that the safety check has just taken to FAULT.       *)
LEMMA PulseHandsOver ==
  ASSUME OwnInv, AtRest, NEW type \in Maintenance, NEW raw \in Readings, FireLamp(type, raw),
         ~Seen(type, "lamp"), NEW next,
         \A p : Owned(p, lamp) /\ AtBench(p) => Owned(ApplyMaintenance(p, type).pump, next)
  PROVE  Owned(pump', next)
<1> DEFINE p == EnforceSafety(pump, raw)
<1>1. Owned(p, lamp) /\ p.state \in {"IDLE", "UNKNOWN", "FAULT"}
  BY CheckKeepsOwners DEF OwnInv, AtRest, Readings
<1>2. pump' = MaintenanceOutcome(p, type, FALSE).pump
  BY DEF FireLamp, Maintain, Conclude
<1> HIDE DEF p
<1>3. CASE AtBench(p)
  <2>1. MaintenanceOutcome(p, type, FALSE) = ApplyMaintenance(p, type)
    BY <1>3 DEF MaintenanceOutcome, MaintenancePermitted, AtBench
  <2> QED
    BY <1>1, <1>2, <1>3, <2>1
<1>4. CASE p.state = "FAULT"
  <2>1. MaintenanceOutcome(p, type, FALSE).pump = p
    BY <1>4 DEF MaintenanceOutcome, MaintenancePermitted, Refused
  <2>2. Owned(p, next)
    BY <1>1, <1>4, AnyPhaseAway DEF AtBench
  <2> QED
    BY <1>2, <2>1, <2>2
<1> QED
  BY <1>1, <1>3, <1>4 DEF AtBench

(* The first pulse of a lamp test is the choke's.  A duplicate of it, of a *)
(* test that was ended in the same pass, is checked and nothing more.      *)
LEMMA TestKeepsOwners ==
  ASSUME OwnInv, NEW line, NEW raw \in Readings, TypeTest(line, raw)
  PROVE  /\ Owned(pump', lamp')
         /\ records' \in Seq([type : Commands, id : {"console", "lamp"}])
         /\ \A i \in DOMAIN records' :
              \/ records'[i] = [type |-> "MAINT_CHOKE_ON", id |-> "lamp"]
              \/ \E j \in DOMAIN records : records'[i] = records[j]
<1>1. /\ AtRest /\ FireLamp("MAINT_CHOKE_ON", raw) /\ lamp = "OFF" /\ lamp' = "CHOKE_ON"
      /\ "MAINT_CHOKE_ON" \in Maintenance /\ "MAINT_CHOKE_ON" \in Commands
  BY DEF TypeTest, Maintenance, Commands
<1>2. ASSUME NEW p, Owned(p, "OFF")
      PROVE  Owned(p, "CHOKE_ON")
  BY <1>2 DEF Owned, StarterOwned, ChokeOwned, IgnitionOwned, IntakeOwned
<1>3. ASSUME NEW p, Owned(p, "OFF"), AtBench(p)
      PROVE  Owned(ApplyMaintenance(p, "MAINT_CHOKE_ON").pump, "CHOKE_ON")
  <2> DEFINE q == ApplyMaintenance(p, "MAINT_CHOKE_ON").pump
  <2>1. q = EngageChoke(p)
    BY DEF ApplyMaintenance, Accepted
  <2> HIDE DEF q
  <2>2. Owned(p, "CHOKE_ON") /\ p \in Pump
    BY <1>2, <1>3 DEF Owned
  <2>3. Relays(p, q, p.starterActive, TRUE, p.killActive, p.valveActive)
    BY <2>1, <2>2, CallSetsRelay
  <2>4. Owned(q, "CHOKE_ON")
    BY <1>3, <2>2, <2>3
       DEF Relays, Owned, StarterOwned, ChokeOwned, IgnitionOwned, IntakeOwned, AtBench,
           EngineWasStarted
  <2> QED
    BY <2>4 DEF q
<1>4. CASE ~Seen("MAINT_CHOKE_ON", "lamp")
  <2>1. Owned(pump', lamp')
    BY <1>1, <1>3, <1>4, PulseHandsOver
  <2> QED
    BY <1>1, <2>1, ConcludeKeepsRing DEF FireLamp, Maintain, OwnInv
<1>5. CASE Seen("MAINT_CHOKE_ON", "lamp")
  <2> DEFINE p == EnforceSafety(pump, raw)
  <2>1. Owned(p, "OFF")
    BY <1>1, CheckKeepsOwners DEF OwnInv, Readings
  <2>2. pump' = p
    BY <1>1, <1>5 DEF FireLamp, Maintain, Conclude
  <2> HIDE DEF p
  <2>3. Owned(pump', lamp')
    BY <1>1, <1>2, <2>1, <2>2
  <2> QED
    BY <1>1, <2>3, ConcludeKeepsRing DEF FireLamp, Maintain, OwnInv
<1> QED
  BY <1>4, <1>5

(* The turn of the lamp test: it goes on, ends for a controller that was   *)
(* taken elsewhere, or waits.                                              *)
LEMMA LampKeepsOwners ==
  ASSUME LoopInv, OwnInv, NEW raw \in Readings, LampTest(raw)
  PROVE  /\ Owned(pump', lamp')
         /\ records' \in Seq([type : Commands, id : {"console", "lamp"}])
<1>1. CASE LampAdvance(raw)
  <2>1. /\ lamp \in LampPhases \ {"OFF"} /\ AtRest /\ lamp' = LampNext(lamp)
        /\ IF lamp' \in DOMAIN Pulse THEN FireLamp(Pulse[lamp'], raw) ELSE UNCHANGED vars
    BY <1>1 DEF LampAdvance, LoopInv, LoopTyped
  <2>2. CASE lamp' \in DOMAIN Pulse
    <3> DEFINE type == Pulse[lamp']
    <3>1. type \in Maintenance /\ type # "MAINT_CHOKE_ON" /\ type \in Commands
      BY <2>2, PulseIsTyped DEF Commands
    <3>2. ~Seen(type, "lamp")
      <4>1. pc = "lamp"
        BY DEF LampTest
      <4>2. \A i \in DOMAIN records :
              records[i].id = "lamp" => records[i].type = "MAINT_CHOKE_ON"
        BY <4>1 DEF OwnInv, RingOfPass
      <4> HIDE DEF type
      <4> QED
        BY <3>1, <4>2 DEF Seen
    <3>3. ASSUME NEW p, Owned(p, lamp), AtBench(p)
          PROVE  Owned(ApplyMaintenance(p, type).pump, lamp')
      BY <2>1, <2>2, <3>3, PhaseHandsOver
    <3>4. FireLamp(type, raw)
      BY <2>1, <2>2
    <3> HIDE DEF type
    <3>5. Owned(pump', lamp')
      BY <2>1, <3>1, <3>2, <3>3, <3>4, PulseHandsOver
    <3>6. records' \in Seq([type : Commands, id : {"console", "lamp"}])
      BY <3>1, <3>4, ConcludeKeepsRing DEF FireLamp, Maintain, OwnInv
    <3> QED
      BY <3>5, <3>6
  <2>3. CASE lamp' \notin DOMAIN Pulse
    <3>1. Owned(pump, lamp) /\ AtBench(pump)
      BY <2>1 DEF OwnInv, AtRest, AtBench
    <3>2. Owned(pump, LampNext(lamp))
      BY <2>1, <2>3, <3>1, PhaseHandsOver
    <3> QED
      BY <2>1, <2>3, <3>2 DEF OwnInv, RingOfPass, vars
  <2> QED
    BY <2>2, <2>3
<1>2. CASE LampAbort(raw)
  <2> DEFINE sent(p, type) == MaintenanceOutcome(EnforceSafety(p, raw), type, FALSE).pump
             Away(p) == Owned(p, lamp) /\ ~AtBench(p)
             a == sent(pump, "MAINT_CHOKE_OFF")
             b == sent(a, "MAINT_STARTER_OFF")
             c == sent(b, "MAINT_VALVE_OFF")
  <2>1. ASSUME NEW p, Away(p), NEW type
        PROVE  Away(sent(p, type))
    <3> DEFINE q == EnforceSafety(p, raw)
    <3>1. Away(q)
      BY <2>1, CheckKeepsOwners DEF Readings, AtBench
    <3> HIDE DEF q
    <3>2. MaintenanceOutcome(q, type, FALSE).pump = q
      BY <3>1 DEF MaintenanceOutcome, MaintenancePermitted, Refused, AtBench
    <3> QED
      BY <3>1, <3>2 DEF q
  <2>2. Away(pump)
    BY <1>2 DEF LampAbort, AtRest, OwnInv, AtBench
  <2>3. pump' = c /\ records' = records
    BY <1>2 DEF LampAbort
  <2> HIDE DEF sent, Away
  <2>4. Away(a)
    BY <2>1, <2>2
  <2>5. Away(b)
    <3> HIDE DEF a
    <3> QED  BY <2>1, <2>4
  <2>6. Away(c)
    <3> HIDE DEF b
    <3> QED  BY <2>1, <2>5
  <2> HIDE DEF c
  <2> QED
    BY <2>3, <2>6, AnyPhaseAway DEF Away, OwnInv, RingOfPass
<1>3. CASE LampWait
  BY <1>3 DEF LampWait, OwnInv, RingOfPass, vars
<1> QED
  BY <1>1, <1>2, <1>3 DEF LampTest

(* The owners after setup().                                               *)
LEMMA PowerUpIsOwned ==
  ASSUME NEW phase
  PROVE  Owned(PowerUp, phase) /\ << >> \in Seq([type : Commands, id : {"console", "lamp"}])
  BY PowerUpIsSound
     DEF Owned, StarterOwned, ChokeOwned, IgnitionOwned, IntakeOwned, PowerUp, Sound, Interlocked

(* Every part of a pass, typed line and reset keeps every owner.           *)
THEOREM NextOwnInv ==
  ASSUME NothingByHand, LoopInv, OwnInv, [LoopNext]_allVars
  PROVE  OwnInv'
<1>1. ASSUME NEW d \in Steps, NEW raw \in Readings, PumpTick(d, raw)
      PROVE  OwnInv'
  <2> DEFINE e == d + stall
  <2>1. e \in Nat
    BY InputAssumption DEF LoopInv, LoopTyped
  <2>2. raw \in BOOLEAN
    BY DEF Readings
  <2>3. pump' = Advance(EnforceSafety(Elapse(pump, e), raw)) /\ records' = << >> /\ lamp' = lamp
    BY <1>1 DEF PumpTick
  <2> HIDE DEF e
  <2>4. Owned(pump', lamp')
    BY <2>1, <2>2, <2>3, PassKeepsOwners DEF OwnInv, LoopInv, Sound
  <2>5. << >> \in Seq([type : Commands, id : {"console", "lamp"}]) /\ DOMAIN << >> = {}
    OBVIOUS
  <2> QED
    BY <2>3, <2>4, <2>5 DEF OwnInv, RingOfPass
<1>2. ASSUME NEW raw \in Readings, Http(raw)
      PROVE  OwnInv'
  <2>1. Owned(pump', lamp) /\ records' = records
    BY <1>2, HttpKeepsOwners, InputAssumption DEF Http, OwnInv, vars
  <2> QED
    BY <1>2, <2>1 DEF Http, OwnInv, RingOfPass
<1>3. ASSUME NEW line \in Lines, NEW raw \in Readings, ConsoleLine(line, raw)
      PROVE  OwnInv'
  <2>1. /\ Owned(pump', lamp')
        /\ records' \in Seq([type : Commands, id : {"console", "lamp"}])
        /\ \A i \in DOMAIN records' :
             \/ records'[i].id = "console" \/ records'[i].type = "MAINT_CHOKE_ON"
             \/ \E j \in DOMAIN records : records'[i] = records[j]
    <3>1. CASE TypeCommand(line, raw)
      BY <3>1, TypedKeepsOwners
    <3>2. CASE TypeTest(line, raw)
      <4>1. \A i \in DOMAIN records' :
              \/ records'[i] = [type |-> "MAINT_CHOKE_ON", id |-> "lamp"]
              \/ \E j \in DOMAIN records : records'[i] = records[j]
        BY <3>2, TestKeepsOwners
      <4>2. [type |-> "MAINT_CHOKE_ON", id |-> "lamp"].type = "MAINT_CHOKE_ON"
        OBVIOUS
      <4>3. \A i \in DOMAIN records' :
              \/ records'[i].type = "MAINT_CHOKE_ON"
              \/ \E j \in DOMAIN records : records'[i] = records[j]
        BY <4>1, <4>2
      <4>4. Owned(pump', lamp') /\ records' \in Seq([type : Commands, id : {"console", "lamp"}])
        BY <3>2, TestKeepsOwners
      <4> QED
        BY <4>3, <4>4
    <3>3. CASE TypeScan(line) \/ TypeHang(line)
      BY <3>3 DEF TypeScan, TypeHang, vars, OwnInv, RingOfPass
    <3> QED
      BY <1>3, <3>1, <3>2, <3>3 DEF ConsoleLine
  <2>2. \A i \in DOMAIN records :
          records[i].id = "lamp" => records[i].type = "MAINT_CHOKE_ON"
    BY <1>3 DEF ConsoleLine, OwnInv, RingOfPass
  <2> QED
    BY <2>1, <2>2 DEF OwnInv, RingOfPass
<1>4. CASE ConsoleDone \/ NoScan \/ NetDone
  BY <1>4 DEF ConsoleDone, NoScan, NetDone, vars, OwnInv, RingOfPass
<1>5. ASSUME NEW raw \in Readings, LampTest(raw)
      PROVE  OwnInv'
  <2>1. pc' = "scan"
    BY <1>5 DEF LampTest
  <2> QED
    BY <1>5, <2>1, LampKeepsOwners DEF OwnInv, RingOfPass
<1>6. ASSUME NEW t \in RadioTimes, Scan(t) \/ Associate(t)
      PROVE  OwnInv'
  BY <1>6 DEF Scan, Associate, vars, OwnInv, RingOfPass
<1>7. CASE Boot
  BY <1>7, PowerUpIsOwned DEF Boot, Reboot, OwnInv, RingOfPass
<1>8. CASE UNCHANGED allVars
  BY <1>8 DEF allVars, vars, loopVars, OwnInv, RingOfPass
<1> QED
  BY <1>1, <1>2, <1>3, <1>4, <1>5, <1>6, <1>7, <1>8 DEF LoopNext, Part

(* Unless somebody engages a relay by hand, every energised relay belongs  *)
(* to a sequence or to a phase of the lamp test, whatever is sent, with or *)
(* without an override, and typed while the test runs, wherever a fault    *)
(* stops it, and however long the radio blocks (handleCommand() and        *)
(* advanceLampTest()).                                                     *)
THEOREM RelaysHaveOwners ==
  ASSUME NothingByHand
  PROVE  FairLoopSpec => []EveryRelayHasAnOwner
<1>1. LoopInit => OwnInv
  BY PowerUpIsOwned DEF LoopInit, Init, OwnInv, RingOfPass
<1>2. LoopInv /\ OwnInv /\ [LoopNext]_allVars => OwnInv'
  BY NextOwnInv
<1>3. LoopInv /\ OwnInv => EveryRelayHasAnOwner
  <2> SUFFICES ASSUME Owned(pump, lamp), lamp \in LampPhases
               PROVE  EveryRelayHasAnOwner
    BY DEF LoopInv, LoopTyped, OwnInv
  <2> QED
    BY DEF Owned, StarterOwned, ChokeOwned, IgnitionOwned, IntakeOwned, AtBench,
           EveryRelayHasAnOwner, LampPhases
<1> QED
  BY <1>1, <1>2, <1>3, LoopInvariance, PTL DEF FairLoopSpec, LoopSpec

=============================================================================
