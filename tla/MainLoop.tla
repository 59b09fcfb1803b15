------------------------------ MODULE MainLoop ------------------------------
(***************************************************************************)
(* The main loop (fire_pump_controller.ino) with the bench console and its *)
(* lamp test (serial_console.cpp), around the relay state machine of       *)
(* PumpController.                                                         *)
(*                                                                         *)
(* One pass of loop() takes `now' once and then runs its parts in a fixed  *)
(* order: the pump, the HTTP server, the console, a requested scan, the    *)
(* network.  `pc' says which part is next, so that a command of one part   *)
(* falls between the steps of the others.  The calls that block are the    *)
(* radio's; what they take is added to the clock of the next pass.         *)
(***************************************************************************)
EXTENDS PumpController

CONSTANTS
    HttpOperations,   \* the commands that arrive over HTTP
    Lines,            \* the lines the operator types
    LinesPerPass,     \* how many lines SERIAL_BYTES_PER_PASS bytes can end
    LampPulse,        \* LAMP_TEST_PULSE_MS
    LampGap,          \* LAMP_TEST_GAP_MS
    RadioTimes        \* how long a scan or an association may block

VARIABLES
    pc,               \* the part of the pass that is next
    lamp,             \* lamp_
    lampFor,          \* since lampPhaseAt_
    scanRequested,    \* scanRequested_
    linesLeft,        \* what is left of this pass's console budget
    radio,            \* what the radio was used for at the end of the pass
    stall             \* how long it blocked

loopVars == <<pc, lamp, lampFor, scanRequested, linesLeft, radio, stall>>

allVars == <<vars, loopVars>>

LampPhases == {"OFF", "CHOKE_ON", "CHOKE_OFF", "VALVE_ON", "PRIME_WAIT", "KILL_RELEASE",
               "STARTER_ON", "STARTER_OFF", "KILL_ASSERT", "VALVE_OFF"}

ConsoleCommand ==
    [line \in {"start", "stop", "failed", "reset", "choke on", "choke off", "starter on",
               "starter off", "kill on", "kill off", "valve on", "valve off"} |->
        CASE line = "start" -> "START"
          [] line = "stop" -> "STOP"
          [] line = "failed" -> "START_FAILED"
          [] line = "reset" -> "RESET_IDLE"
          [] line = "choke on" -> "MAINT_CHOKE_ON"
          [] line = "choke off" -> "MAINT_CHOKE_OFF"
          [] line = "starter on" -> "MAINT_STARTER_ON"
          [] line = "starter off" -> "MAINT_STARTER_OFF"
          [] line = "kill on" -> "MAINT_KILL_ON"
          [] line = "kill off" -> "MAINT_KILL_OFF"
          [] line = "valve on" -> "MAINT_VALVE_ON"
          [] line = "valve off" -> "MAINT_VALVE_OFF"]

ASSUME LoopAssumption ==
    /\ HttpOperations \subseteq Operations
    /\ Lines \subseteq DOMAIN ConsoleCommand \cup {"test", "scan", "hang"}
    /\ LinesPerPass \in Nat /\ LinesPerPass < IdempotencySlots
    /\ LampPulse \in Nat \ {0} /\ LampGap \in Nat \ {0}
    /\ RadioTimes \subseteq Nat

(* The longest time a phase of the lamp test is compared with.             *)
LampHorizon ==
    LET longest == IF LampPulse > LampGap THEN LampPulse ELSE LampGap
    IN  IF ValvePrime > longest THEN ValvePrime ELSE longest

AtRest == pump.state \in {"IDLE", "UNKNOWN"}

-----------------------------------------------------------------------------
(* The parts of a pass.                                                    *)

(* g_pump.tick(now).  The ids of the console hold the millisecond in which *)
(* they were made, so those of an earlier pass can never match again: the  *)
(* ring is forgotten when the clock moves.                                 *)
PumpTick(d, raw) ==
    /\ pc = "pump"
    /\ pump' = Advance(EnforceSafety(Elapse(pump, d + stall), raw))
    /\ records' = << >>
    /\ lampFor' = IF lamp = "OFF" THEN 0 ELSE Least(lampFor + d + stall, LampHorizon)
    /\ pc' = "http" /\ radio' = "free" /\ stall' = 0
    /\ linesLeft' = LinesPerPass
    /\ UNCHANGED <<lamp, scanRequested>>

(* A command of either interface: the whole of handleCommand().            *)
Command(type, id, override, timings, raw) ==
    \/ type = "START" /\ Start(id, override, timings, raw)
    \/ type = "STOP" /\ Stop(id, raw)
    \/ type = "START_FAILED" /\ StartFailed(id, raw)
    \/ type = "RESET_IDLE" /\ ResetIdle(id, raw)
    \/ type \in Maintenance /\ Maintain(type, id, override, raw)

(* g_http.service(): at most one request is answered in a pass.  It may    *)
(* carry the danger override, whatever the command.                        *)
Http(raw) ==
    /\ pc = "http" /\ pc' = "console"
    /\ \/ \E type \in HttpOperations, override \in Overrides, timings \in RequestedTimings :
             Command(type, NoRequestId, override, timings, raw)
       \/ UNCHANGED vars
    /\ UNCHANGED <<lamp, lampFor, scanRequested, linesLeft, radio, stall>>

(* A line that runs a command: a fresh id, no override, default timings.   *)
(* STOP ends a lamp test.                                                  *)
TypeCommand(line, raw) ==
    /\ line \in DOMAIN ConsoleCommand
    /\ Command(ConsoleCommand[line], "console", FALSE, DefaultTimings, raw)
    /\ lamp' = IF line = "stop" THEN "OFF" ELSE lamp
    /\ UNCHANGED <<pc, lampFor, scanRequested>>

(* One pulse of the lamp test, a command with an id of its own.            *)
FireLamp(type, raw) == Maintain(type, "lamp", FALSE, raw)

TypeTest(line, raw) ==
    /\ line = "test" /\ lamp = "OFF" /\ AtRest
    /\ FireLamp("MAINT_CHOKE_ON", raw)
    /\ lamp' = "CHOKE_ON" /\ lampFor' = 0
    /\ UNCHANGED <<pc, scanRequested>>

(* A scan is accepted while the relays are idle, and done later.           *)
TypeScan(line) ==
    /\ line = "scan" /\ IsQuiescent(pump)
    /\ scanRequested' = TRUE
    /\ UNCHANGED <<vars, pc, lamp, lampFor>>

(* An injected hang: nothing feeds the watchdog any more.                  *)
TypeHang(line) ==
    /\ line = "hang" /\ pc' = "hung"
    /\ UNCHANGED <<vars, lamp, lampFor, scanRequested>>

(* Mutant: a pasted text is read to its end.                               *)
ConsoleLineUnbudgeted(line, raw) ==
    /\ pc = "console"
    /\ linesLeft' = linesLeft - 1
    /\ TypeCommand(line, raw) \/ TypeTest(line, raw) \/ TypeScan(line) \/ TypeHang(line)
    /\ UNCHANGED <<radio, stall>>

ConsoleLine(line, raw) ==
    /\ pc = "console" /\ linesLeft > 0
    /\ linesLeft' = linesLeft - 1
    /\ TypeCommand(line, raw) \/ TypeTest(line, raw) \/ TypeScan(line) \/ TypeHang(line)
    /\ UNCHANGED <<radio, stall>>

ConsoleDone ==
    /\ pc = "console" /\ pc' = "lamp"
    /\ UNCHANGED <<vars, lamp, lampFor, scanRequested, linesLeft, radio, stall>>

(* The lamp test: each phase lasts its time, fires its pulse, and the next *)
(* phase begins whether the pulse was accepted or refused.                 *)
LampDwell(phase) ==
    CASE phase \in {"CHOKE_ON", "VALVE_ON", "STARTER_ON"} -> LampPulse
      [] phase = "PRIME_WAIT" -> IF IntakeValveEnabled THEN ValvePrime ELSE 0
      [] OTHER -> LampGap

(* Mutant: the test ends without shutting the intake it opened.            *)
LampNextValveLeftOpen(phase) ==
    CASE phase = "CHOKE_ON" -> "CHOKE_OFF"
      [] phase = "CHOKE_OFF" -> IF IntakeValveEnabled THEN "VALVE_ON" ELSE "PRIME_WAIT"
      [] phase = "VALVE_ON" -> "PRIME_WAIT"
      [] phase = "PRIME_WAIT" -> "KILL_RELEASE"
      [] phase = "KILL_RELEASE" -> "STARTER_ON"
      [] phase = "STARTER_ON" -> "STARTER_OFF"
      [] phase = "STARTER_OFF" -> "KILL_ASSERT"
      [] OTHER -> "OFF"

LampNext(phase) ==
    CASE phase = "CHOKE_ON" -> "CHOKE_OFF"
      [] phase = "CHOKE_OFF" -> IF IntakeValveEnabled THEN "VALVE_ON" ELSE "PRIME_WAIT"
      [] phase = "VALVE_ON" -> "PRIME_WAIT"
      [] phase = "PRIME_WAIT" -> "KILL_RELEASE"
      [] phase = "KILL_RELEASE" -> "STARTER_ON"
      [] phase = "STARTER_ON" -> "STARTER_OFF"
      [] phase = "STARTER_OFF" -> "KILL_ASSERT"
      [] phase = "KILL_ASSERT" -> "VALVE_OFF"
      [] phase = "VALVE_OFF" -> "OFF"

(* The pulse fired on the way to a phase, where there is one.              *)
Pulse ==
    [phase \in {"CHOKE_OFF", "VALVE_ON", "KILL_RELEASE", "STARTER_ON", "STARTER_OFF",
                "KILL_ASSERT"} \cup (IF IntakeValveEnabled THEN {"VALVE_OFF"} ELSE {}) |->
        CASE phase = "CHOKE_OFF" -> "MAINT_CHOKE_OFF"
          [] phase = "VALVE_ON" -> "MAINT_VALVE_ON"
          [] phase = "KILL_RELEASE" -> "MAINT_KILL_OFF"
          [] phase = "STARTER_ON" -> "MAINT_STARTER_ON"
          [] phase = "STARTER_OFF" -> "MAINT_STARTER_OFF"
          [] phase = "KILL_ASSERT" -> "MAINT_KILL_ON"
          [] phase = "VALVE_OFF" -> "MAINT_VALVE_OFF"]

(* Mutant: a phase ends only when its pulse was accepted.                  *)
LampAdvanceIfObeyed(raw) ==
    /\ lamp # "OFF" /\ AtRest
    /\ lampFor >= LampDwell(lamp)
    /\ IF LampNext(lamp) \in DOMAIN Pulse
       THEN /\ FireLamp(Pulse[LampNext(lamp)], raw)
            /\ lamp' = IF MaintenanceOutcome(EnforceSafety(pump, raw), Pulse[LampNext(lamp)],
                                             FALSE).accepted
                       THEN LampNext(lamp) ELSE lamp
       ELSE lamp' = LampNext(lamp) /\ UNCHANGED vars
    /\ lampFor' = 0

LampAdvance(raw) ==
    /\ lamp # "OFF" /\ AtRest
    /\ lampFor >= LampDwell(lamp)
    /\ lamp' = LampNext(lamp) /\ lampFor' = 0
    /\ IF lamp' \in DOMAIN Pulse THEN FireLamp(Pulse[lamp'], raw) ELSE UNCHANGED vars

(* The controller was taken elsewhere: three releases, and the test ends.  *)
LampAbort(raw) ==
    LET sent(p, type) == MaintenanceOutcome(EnforceSafety(p, raw), type, FALSE).pump
    IN  /\ lamp # "OFF" /\ ~AtRest
        /\ pump' = sent(sent(sent(pump, "MAINT_CHOKE_OFF"), "MAINT_STARTER_OFF"),
                        "MAINT_VALVE_OFF")
        /\ lamp' = "OFF" /\ lampFor' = 0
        /\ UNCHANGED records

LampWait ==
    /\ lamp = "OFF" \/ (AtRest /\ lampFor < LampDwell(lamp))
    /\ UNCHANGED <<vars, lamp, lampFor>>

(* advanceLampTest(), at the end of console.tick().                        *)
LampTest(raw) ==
    /\ pc = "lamp" /\ pc' = "scan"
    /\ LampAdvance(raw) \/ LampAbort(raw) \/ LampWait
    /\ UNCHANGED <<scanRequested, linesLeft, radio, stall>>

(* A requested scan blocks, whatever the relays do by now.                 *)
Scan(t) ==
    /\ pc = "scan" /\ scanRequested
    /\ scanRequested' = FALSE
    /\ radio' = "scan" /\ stall' = t
    /\ pc' = "net"
    /\ UNCHANGED <<vars, lamp, lampFor, linesLeft>>

NoScan ==
    /\ pc = "scan" /\ ~scanRequested
    /\ pc' = "net"
    /\ UNCHANGED <<vars, lamp, lampFor, scanRequested, linesLeft, radio, stall>>

(* Mutant: only a lamp test counts as busy.                                *)
AssociationAllowedInSequence == lamp = "OFF"

AssociationAllowed == IsQuiescent(pump) /\ lamp = "OFF"

(* g_net.tick(): the only calls that block begin an association.           *)
Associate(t) ==
    /\ pc = "net" /\ AssociationAllowed
    /\ radio' = "join" /\ stall' = stall + t
    /\ pc' = "pump"
    /\ UNCHANGED <<vars, lamp, lampFor, scanRequested, linesLeft>>

NetDone ==
    /\ pc = "net" /\ pc' = "pump"
    /\ UNCHANGED <<vars, lamp, lampFor, scanRequested, linesLeft, radio, stall>>

(* setup() after a reset: by the watchdog, by an injected CPU fault, or by *)
(* a power cut at any moment.                                              *)
Boot ==
    /\ Reboot
    /\ pc' = "pump" /\ lamp' = "OFF" /\ lampFor' = 0 /\ scanRequested' = FALSE
    /\ linesLeft' = LinesPerPass /\ radio' = "free" /\ stall' = 0

LoopInit ==
    /\ Init
    /\ pc = "pump" /\ lamp = "OFF" /\ lampFor = 0 /\ scanRequested = FALSE
    /\ linesLeft = LinesPerPass /\ radio = "free" /\ stall = 0

(* A pass that finds the clock moved.                                      *)
ClockMoves == \E d \in Steps \ {0}, raw \in Readings : PumpTick(d, raw)

(* The parts of a pass that run by themselves.                             *)
Part ==
    \E raw \in Readings :
      \/ \E d \in Steps : PumpTick(d, raw)
      \/ Http(raw)
      \/ ConsoleDone
      \/ LampTest(raw)
      \/ \E t \in RadioTimes : Scan(t) \/ Associate(t)
      \/ NoScan
      \/ NetDone

LoopNext ==
    \/ Part
    \/ \E line \in Lines, raw \in Readings : ConsoleLine(line, raw)
    \/ Boot

LoopSpec == LoopInit /\ [][LoopNext]_allVars

(* The parts of a pass follow one another, the console's budget being      *)
(* finite; many passes may fall into one millisecond, but not all of them; *)
(* a hung loop is reset by the watchdog.                                   *)
LoopFairness ==
    /\ WF_allVars(Part)
    /\ SF_allVars(ClockMoves)
    /\ WF_allVars(pc = "hung" /\ Boot)

FairLoopSpec == LoopSpec /\ LoopFairness

-----------------------------------------------------------------------------
(* Properties.                                                             *)

(* The loop's own variables keep their types.                              *)
LoopTypeOK ==
    /\ pump \in Pump
    /\ pc \in {"pump", "http", "console", "lamp", "scan", "net", "hung"}
    /\ lamp \in LampPhases /\ lampFor \in 0..LampHorizon
    /\ scanRequested \in BOOLEAN /\ linesLeft \in 0..LinesPerPass
    /\ radio \in {"free", "scan", "join"} /\ stall \in Nat

(* Every energised relay belongs to a sequence or to the phase of the lamp *)
(* test that energised it: no interleaving of HTTP commands, console       *)
(* lines, faults and a running lamp test leaves one behind.  An overridden *)
(* START takes the choke and the live ignition as it finds them, from the  *)
(* lamp test or from the sequence it interrupts; they are then its own,    *)
(* and gone when it ends.                                                  *)
EveryRelayHasAnOwner ==
    /\ pump.starterActive => pump.state = "CRANKING" \/ lamp = "STARTER_ON"
    /\ pump.chokeActive =>
         \/ pump.state \in {"CHOKING", "CRANKING", "UNCHOKING"}
         \/ pump.overrideActive /\ pump.state = "PRIMING"
         \/ lamp = "CHOKE_ON"
    /\ ~pump.killActive =>
         \/ EngineWasStarted(pump)
         \/ pump.overrideActive /\ pump.state \in {"PRIMING", "CHOKING"}
         \/ pump.state = "FAULT" /\ ~pump.faultKillActive
         \/ lamp \in {"KILL_RELEASE", "STARTER_ON", "STARTER_OFF"}
    /\ pump.valveActive =>
         \/ pump.state \in Sequence \cup {"STOPPING", "VALVE_CLOSING", "FAULT"}
         \/ lamp \in LampPhases \ {"OFF", "CHOKE_ON", "CHOKE_OFF", "VALVE_OFF"}

(* An association may block for as long as a crank may last, and for much  *)
(* longer than a pulse of the lamp test, and no engaged starter ever pays  *)
(* for it: only the blocking scan can make one overrun its ceiling.        *)
OverrunNeedsScan ==
    [][pump.fault # "STARTER_OVERRUN" /\ pump'.fault = "STARTER_OVERRUN"
        => radio = "scan"]_allVars

(* A lamp test ends, whatever is typed or sent while it runs, and whatever *)
(* its pulses are refused for.                                             *)
LampTestEnds == lamp # "OFF" ~> lamp = "OFF"

-----------------------------------------------------------------------------
(* What the documentation says and the code does not do.                   *)

(* fire_pump_controller.ino, "4c": a scan happens while the relays are     *)
(* idle.                                                                   *)
ScanIsQuiet == radio = "scan" => IsQuiescent(pump)

=============================================================================
