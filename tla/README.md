# Remote fire pump: specification and verification

TLA+ models of the firmware that starts, runs and stops a petrol fire pump
(`src/src/arduino/fire_pump_controller/`) and of the client that talks to it
(`src/docs/examples/pump_client.py`), with TLC model checking of small
instances and TLAPS proofs for all values of the constants. Paths below are
relative to `src/`; file names without a directory are in
`src/arduino/fire_pump_controller/`.

| file | what it is |
|---|---|
| `PumpController.tla` | the relay state machine, its safety limits, commands and idempotency ring |
| `MainLoop.tla` | one pass of `loop()` around it: HTTP command, console, lamp test, scan, association, watchdog |
| `Delivery.tla` | a command on its way: client with lock and retries, wire, the single server slot, the ring, reboots |
| `HttpRequest.tla` | the incremental parser, fed byte by byte, and the decision what to run and answer |
| `EventLog.tla`, `BoundedLog.tla` | the event ring and the client that drains it; what such a log promises |
| `NetManager.tla` | the Wi-Fi association state machine, and the scan that moves the clock inside a pass |
| `BatteryMonitor.tla`, `TankLevel.tla` | the two samplers: crank minimum and resting voltage; health, window and trend |
| `ResetRecord.tla` | the record in RAM and the sticky flags that explain a reset |
| `MC*.tla`, `MC*.cfg` | the instances TLC checks |
| `*Proofs.tla` | the theorems and their proofs: `PumpControllerProofs`, `PumpPlainProofs` (plain use), `MainLoopProofs`, `DeliveryProofs`, `HttpRequestProofs`, `EventLogProofs`, `ServicesProofs` |
| `NatSets.tla` | induction over the natural numbers in a form the provers can use, and recursion along a sequence |
| `PROJECT.json` | runs, mutants, the map from definitions to source lines, hazards, findings, theorems |

## 1. The system

| component | state it keeps | operations | modelled |
|---|---|---|---|
| Pump controller (`pump_controller.*`, `config.h`) | state, fault, four relays and since when, override latch, water debounce, timings of the sequence, last starter release, ring of remembered commands | `begin`, `tick`, `handleCommand` (START, STOP, START_FAILED, RESET_IDLE, eight maintenance commands) | `PumpController` |
| Main loop (`fire_pump_controller.ino`) | the pass: `now`, what blocked | `setup`, `loop` | `MainLoop`; the monitors at the end of a pass in `MCServices` |
| Serial console and lamp test (`serial_console.*`) | scan request, phase of the lamp test | `tick`, `handleLine`, lamp test | `MainLoop` |
| HTTP parser and router (`http_protocol.*`) | phase, limits, the request being built | `reset`, `feed`, `parseUint32Strict`, `resolveRoute` | `HttpRequest` |
| API handler (`api_handler.*`) | none | `planResponse` | `HttpRequest` (decision), `Delivery` (command against the ring), `EventLog` (log page) |
| HTTP server (`http_server.*`) | one client slot and its deadline | `service` | `Delivery` |
| Pi client (`docs/examples/pump_client.py`) | lock, attempts, request id, cursor | `_request`, `fetch_log`, `drain_log` | `Delivery`, `EventLog`; not the `StatusPoller` |
| Event log (`event_log.*`) | ring of entries, head, count, next number, dropped | `clear`, `add`, `drain` | `EventLog`, `BoundedLog` |
| Network manager (`net_manager.*`) | phase, timestamps, address | `begin`, `tick`, `suspend`, `resume` | `NetManager` |
| Battery monitor (`battery.*`) | sampling and activity times, crank minimum, resting voltage | `tick` | `BatteryMonitor` |
| Tank level (`tank_level.*`) | window of samples, status, trend | `tick` | `TankLevel`, without volume and flow |
| Fault handler (`fault_handler.*`) | RAM record, hardware flags | `recordAndReset`, `consumeResetReason`, `noteBoot` | `ResetRecord` |
| LED matrix; Go gateway packages; stub server | | | no: see section 12 |

How they interact. One thread runs `loop()`: take `now = millis()`, call
`pump.tick(now)`, service one HTTP client, read some console bytes and move the
lamp test on, do a requested Wi-Fi scan, run the network manager, sample the
battery and the tank, feed the watchdog. HTTP and console both end in
`pump.handleCommand(...)` in the same pass. Nothing runs concurrently on the
device, but the time between two passes is unbounded in practice (a radio call
can block for seconds, up to the watchdog), commands arrive in any order and any
number of times from retries, several operators and the console, the water input
chatters, and a reset may come between any two steps and forgets everything but
a record in RAM.

What is hard, and where it is written down: `PROJECT.json`, `hazards`. The ones
that shape this project are stalls of the loop against the relay ceilings; a
relay call that is refused in the middle of a handler; the danger override,
which lets every command through in every state; relays that several parties may
energise and one has to release; a retry that arrives after its call was given
up, or after a reboot; a parser that must carry nothing from one request to the
next; a ring that wraps and a device that reboots while a client pages through
it; and values that were sampled, timed or recorded before something else
happened.

What makes each component correct:

* controller: starter and kill never together; bounded starter and choke; no
  cranking unprimed, no started engine over a shut intake; no dry running;
  ignition live only for a cranked engine; rest means shed and shut; gap between
  cranks; whatever happens, the sequence ends. Section 2.
* loop: every energised relay belongs to a sequence or to the lamp test; no
  association stalls an engaged starter; every lamp test ends. Section 3.
* delivery: a command other than STOP is executed at most once for one request id; what was
  answered as accepted was done; no START by itself after a reboot; every call
  returns and the server's slot is freed again. Section 4.
* request: exactly what was written is run, and without the secret nothing is
  learnt. Section 5.
* log: the last entries in order, each loss counted, no gap unnoticed, the
  client catches up. Section 6.
* services: what is published was earned; the reset report is true; the network is
  reached. Section 7.

## 2. `PumpController`: how the model reads the code

*State.* `pump` is a record with the members of the class that its control
reads, `records` the idempotency ring, oldest first. The C++ methods mutate one
member after another, and a refused relay call (`setStarterRelay`) may enter
FAULT in the middle of a handler. Every method is therefore an operator from one
controller value to the next, and operators are composed in the order of the
calls: `toSafeState()` is `ShutValve(AssertKill(ReleaseChoke(ReleaseStarter(p))))`.
An action applies a complete handler.

*Actions.* `Tick(d, raw)` is one pass: the clock moves by `d`, then
`enforceSafety()` with the water input reading `raw`, then at most one
transition of `advance()`. `Start`, `Stop`, `StartFailed`, `ResetIdle` and
`Maintain` are `handleCommand()`: the safety check first (it may already fault
the machine the command then finds), the duplicate check, the command, the
record. `Reboot` is `begin()`, at any moment.

*Time.* The code compares differences of `millis()` with constants. The model
keeps the differences as stopwatches that stop at the longest constant they are
compared with. Where the code compares only under a condition (the choke's time
only while the choke is on), the stopwatch is 0 or stands still without it. A
command executes at the same `now` as the pass it belongs to, so commands do not
move the clock. Wrap-around of `millis()` is not modelled.

*Left out.* Messages and log calls, `last_command` and `override_count`,
`ILLEGAL_TRANSITION` (no reachable code sets it), and the HTTP status beyond
accepted or refused. The engine itself is not modelled: properties speak of what
the controller commands and believes, like the code.

*Environment.* The constants `Operations`, `Overrides`, `RequestedTimings` and
`RequestIds` say what the callers send. Whether the maintenance API, the console
or the override are compiled in is thus a choice of the instance.

| property | kind | run | proved | says |
|---|---|---|---|---|
| `TypeOK` | invariant | `pump_full` | yes | types; the ring never outgrows its slots and holds no command twice |
| `StarterExcludesKill` | invariant | `pump_full` | yes | the starter is never engaged over a grounded ignition |
| `CrankCeiling` | invariant | `pump_full` | yes | after each step the starter is below its ceiling, whatever the stall was |
| `ChokeCeiling` | invariant | `pump_full` | yes | the same for the choke, unless a fault is recorded |
| `CrankIsPrimed` | invariant | `pump_full` | yes | CRANKING has the intake open, for the prime dwell unless overridden |
| `StartedEngineHasIntake` | invariant | `pump_full` | yes | no path shuts the intake under a started engine |
| `OverrideDiesWithSequence` | invariant | `pump_full` | yes | no later START inherits an override |
| `DryStarterIsShed` | action | `pump_full` | yes | a starter over a shut intake is off one step later |
| `ChokeSlipsOnce` | action | `pump_full` | yes | under a fault that an override left recorded, the choke ceiling can slip by one step, not by two |
| `IgnitionOnlyWhenCranked` | invariant | `pump_normal` | yes | the ignition is live only for a cranked engine, or in a FAULT whose hold is over (section 9) |
| `RestIsDry` | invariant | `pump_normal` | yes | UNKNOWN, IDLE, RETRY_WAIT: nothing energised, intake shut |
| `NoSilentDryRun` | invariant | `pump_normal` | yes | no started engine on a debounced "no water" beyond the grace |
| `FaultMeansFault` | invariant | `pump_normal` | yes | a fault is recorded in FAULT, always, and nowhere else, so the status reports no stale one |
| `PrimingIsInhibited` | invariant | `pump_normal` | yes | in PRIMING and CHOKING the ignition is grounded |
| `CrankHasWater` | invariant | `pump_normal` | yes | the engine is cranked only with water, a second attempt too: the grace of the first is over by then |
| `RecrankGapHonoured` | action | `pump_normal` | yes | the starter is not engaged again before the gap is over |
| `SettlesWhenLeftAlone` | liveness | `pump_normal` | no | if commands stop, every sequence, hold and cooldown ends |
| `DryEngineStops` | liveness | `pump_normal` | no | if the water stays away, the engine is stopped for good, whatever plain commands keep arriving |

Those of `pump_full` hold for every command and override. Those of `pump_normal`
are promises of plain use, without override and maintenance: an operator who
asks for `kill off` in IDLE gets a live ignition at rest, by design. Some of them
the documentation states without that restriction, see sections 8 and 9.

Bounds. `pump_normal` has the durations of `config.h` in seconds (those below a
second rounded up), a water sensor, default and longest choke timings, no request ids,
clock steps 0, 1 and 5 s, and fairness: 7 797 states. `pump_full` has all twelve
commands, override or not, one request id or none, one slot, a coarser scale (1 unit is
about 2.5 s), clock steps 1 and 2, no water sensor: 283 176 states.

Why these are enough. A stall of 5 s is as long as `MAX_CRANK_MS` and
`VALVE_PRIME_MS`, longer than the kill hold and half of the recrank gap, and
longer stalls are compositions of what a stopwatch can tell apart: a stopwatch
that has passed its constant looks the same afterwards. A step of 0 is two passes
in one millisecond. One slot is the smallest ring that evicts. On the coarse
scale the order of the durations is kept (close and hold below prime, the crank below
its ceiling, choke above a whole sequence) but for the recrank gap and the grace, which
are one unit: no property of that run speaks of the cooldown, a short one lets more
STARTs through, and the water sensor is off there because `pump_normal` has it.
A command under an id that was seen is a safety check and nothing else, or a STOP
like any other; `pump_full` has it in every state. The sensor reads anything
at any step. `StateHorizon` is where the stopwatch of the state stops and lies
at the longest dwell.

Fairness. `FairSpec` has weak fairness of `Passes`, a tick with a clock step that
is not 0: `loop()` never returns and `millis()` runs on. Commands, reboots and
the water are not fair. `SettlesWhenLeftAlone` assumes that from some time on
only ticks happen. `DryEngineStops` lets START, STOP, START_FAILED and RESET_IDLE
go on for ever; with the danger override it is not true, since a WATER_LOST that an
overridden START left recorded is not acted on again (section 9).

## 3. `MainLoop`: the pass around the controller

`MainLoop` extends `PumpController`. `pc` is the part of the pass that is next, so
a command of one part falls between the steps of the others, as it does in
`loop()`: `PumpTick`, `Http` (at most one request), `ConsoleLine` (lines as long as
the byte budget lasts) and `ConsoleDone`, `LampTest`, `Scan` or `NoScan`,
`Associate` or `NetDone`. What blocks (`Scan`, `Associate`) adds to `stall`, and the
next `PumpTick` sees the clock that much later. `Boot` is `setup()`, from any point,
also out of a loop that an injected `hang` has stopped. The lamp test has its nine
phases, its pulses are maintenance commands with ids of their own, a pulse may
be refused and the test goes on; leaving IDLE or UNKNOWN aborts it with three
releases.

The ids of console commands are made from the millisecond of the pass. Two equal
commands in one pass therefore share an id (see section 9); ids of an earlier pass
never match, so the ring is emptied when the clock moves, and `LinesPerPass` is
below the number of slots (`LoopAssumption`).

| property | kind | proved | says |
|---|---|---|---|
| `LoopTypeOK` | invariant | yes | types, and the console's budget is never overdrawn |
| `EveryRelayHasAnOwner` | invariant | yes | starter, choke, released kill and open intake belong to a state of the sequence or to the phase of the lamp test that energised them |
| `OverrunNeedsScan` | action | no | nothing but the pass after a scan enters STARTER_OVERRUN: no association ever stalls an engaged starter, be it of a sequence or of the lamp test |
| `LampTestEnds` | liveness | no | a lamp test ends, whatever is typed or sent, and whatever its pulses are refused for |

Run `main_loop`: typed lines `start`, `stop`, `failed`, `reset`, `kill on`,
`starter off`, `test`, `scan` and `hang`, two lines a pass, the four field commands over
HTTP with and without the danger override, radio calls of one or two units with a
starter ceiling of two: 162 996 states. Two lines are the least that lets one line
undo what another has checked; a radio call as long as the ceiling is the stall that
matters. `Http` passes the override to every command, as `api_handler.cpp:262-263` does.
An overridden START may come in the middle of the lamp test or over a running engine:
it begins its sequence with the live ignition and the choke that it finds, and
`EveryRelayHasAnOwner` counts them as its own as long as the override lasts. The crank
asked for leaves one step of the clock below the ceiling, since one that does not ends in
STARTER_OVERRUN without any stall (section 9). The lines
and commands that energise a relay by hand (`kill off`, `starter on`, ...) are not among
those of the run, since they leave a relay without an owner by design; `pump_full` has
them. Those that release one by hand are in the theorem and, typed, in the run.

Fairness (`LoopFairness`): the parts of a pass follow one another (weak fairness of
`Part`; nothing else is enabled forever, since a pass reads finitely many lines);
the clock moves again and again (strong fairness, since many passes may fall into
one millisecond); a hung loop is reset by the watchdog.

## 4. `Delivery`: a command on its way

The client is `_request()`: a call waits for the lock, makes up to `Retries`
attempts on connections of their own under one request id, and returns with the
first answer or without one. `NoAnswer` may come at any moment of an attempt and
stands for a timeout, a reset, a refused connection and a lost answer. A
connection that was given up stays in the `queue` or in the server's slot: its
request may be read and executed long after the call has returned. The server is
`service()`: the slot is drained by one piece a pass, answered when the request is
whole, given up when the peer is seen to have hung up, or when its time is over,
in the order of the code (a complete request wins over the deadline); then a free
slot takes a waiting client. The controller is what a caller can tell apart: a
state, which commands it may accept there (cooldown, water and relays decide, so
a START may always be refused), and the ring with its two rules, the duplicate
check and the STOP that always runs. `Type` is a command of the console, `Reboot`
forgets all of this but not the client.

| property | kind | proved | says |
|---|---|---|---|
| `AtMostOnce` | invariant | yes | in one boot a request id executes its command again only if it is a STOP, or after `Slots` different commands were executed in between |
| `AnsweredMeansDone` | invariant | yes | an answer 202 means that an attempt of this call has run; for a STOP, the very attempt that is answered |
| `StartAwaitsOperator` | invariant | yes | in a boot no START runs before another command has, so no START retried from before the reboot starts the engine by itself |
| `NobodyWaitsForEver` | liveness | no | again and again all calls have returned and the slot is free |

`ran` of the device is a history of every execution, also of one that the ring does
not record: a START that slips past the duplicate check is counted. In
`StartAwaitsOperator` the other command need not be a new one; a STOP that the client
itself retries from before the reboot takes the device out of UNKNOWN too (and leaves it
IDLE, where a START of the same age may then run, see section 9).

Run `delivery`: a START and a STOP of two threads, two attempts each, a ring of two,
requests of two pieces, up to two typed START_FAILED or RESET_IDLE and one
reboot: 224 091 states. Two slots and up to six accepted commands make the ring
evict; two pieces let a deadline, a hang-up or a reboot fall into a request; the
typed commands are what brings a rebooted device out of UNKNOWN. Fairness: threads
run and their timeouts fire (weak fairness of the client steps), the loop passes
(weak fairness of `Service(Silence)`: passes to which the wire shows nothing are the
only ones that are sure to come), the deadline passes (`Overdue`). Nothing is asked
of the wire.

The maintenance commands and the override are not in `Delivery`: they go the same
way, and what they change in the controller is in `PumpController`.

## 5. `HttpRequest`: parser and decision

One action per byte: `CarriageReturn`, `Character`, and the LF that ends a request
line (`RequestLine`), a header (`HeaderLine`) or the section (`BlankLine`), each
against the limit of the section (`TooManyBytes`) and of the line. Which words the
characters of a line spelt is chosen when its LF arrives, from the constants
`RequestLines` and `HeaderLines`; digits of numbers are kept, since their width
decides. `Respond` is `planResponse()`: the early returns are a sequence of rules in
the order of the code, and the first that applies answers. `Reset` may come at any
byte (a client that hung up), and the next request finds the same parser.

| property | kind | proved | says |
|---|---|---|---|
| `RequestTypeOK` | invariant | yes | no byte past the line buffer or the section; a verdict has its error |
| `ExecutedAsWritten` | invariant | yes | a command runs if and only if the request as a whole asked for it, with exactly its timings, override and id; compared with a reading of all lines at once |
| `SecretBeforeRoute` | invariant | yes | a complete request without the secret is answered 401, whatever its path |

Run `http_request`: lines of at most two bytes, a section of nine, 42 as the largest
32-bit number: 312 271 states. A section of nine bytes holds a request line and up
to three headers, so a header can be repeated with another between; the numbers
have the largest value, one above it, too many digits, leading zeros and none. The
maintenance path is answered as in the default build, which does not know it.

## 6. `EventLog` and `BoundedLog`

`EventLog` has the ring of `event_log.cpp` (slots, head, count, next number,
dropped) and the client of `pump_client.py` as an actor: `BeginDrain`, `Page` (one
answered `fetch_log`, with the stop conditions of `drain_log`), `Abandon` (retries
used up, or the client dies before it has stored the batch). `Add` and `Reboot`
may come between any two of them. `seen` is a history variable: the numbers of
this boot that the client has kept; of a batch under way, entries of an earlier
boot do not count. `BoundedLog` is the promise: a window of the last entries, the
next number, the number of lost ones, and `Read`, defined by arithmetic on the
numbers.

| property | kind | proved | says |
|---|---|---|---|
| `TypeOK` | invariant | yes | types; the client keeps only numbers that this boot has made |
| `KeepsTheLastEntries` | refinement | yes | the ring, read from its oldest slot, implements `BoundedLog` |
| `DrainIsRead` | invariant | yes | the scan of `drain()` agrees with `Read` for every cursor, also one from another boot |
| `GapIsReportedWithinABoot` | action | yes | when a drain ends, the client was told of at least as many losses as it has missed |
| `CatchesUp` | liveness | no | left to drain a quiet log, the client reaches its end, also after a reboot |

Run `event_log`: a ring of 3, pages of 1, drains of at most 3 pages, two events,
up to 7 entries in a boot and one reboot, 13 422 states. Seven entries wrap the
ring twice, so that every slot is overwritten with the head at every place; a
drain of three pages can be overtaken by the writer, abandoned, or cut by the
page limit. `FairSpec` assumes that the client goes on draining and that a page it
asks for is answered in the end; `CatchesUp` further assumes that nothing else
happens any more.

## 7. The services: `NetManager`, `BatteryMonitor`, `TankLevel`, `ResetRecord`

They run at the end of a pass or in `setup()` and share no state, so an
interleaving of them says nothing that each alone does not. Run `services`
(`MCServices`) composes them and watches one at a time: 5 454 states.

`NetManager`: the phases of an association, polled at an interval, with the
back-off and its permission from the controller. A scan of the console is
`suspend`, a blocking call and `resume` inside a pass; `resume()` backdates its
timer from a fresh `millis()` while the tick of this pass still has the older
`now`. `lag` is that difference. A scan is shorter than the retry interval
(`NetAssumption`), otherwise the watchdog ends it. `BatteryMonitor`: the sampler, faster while
cranking, with the minimum of a crank and the voltage at rest; what activity
there really was is a history variable, since the code only sees it when it
samples. `TankLevel`: health, window and trend. The code computes the fit in
floats; the same comparisons are made in whole numbers, multiplied out, so
rounding is outside the model. `ResetRecord`: a fault may come at any step of
`setup()`, the RAM may or may not survive any reset, the hardware flags are
sticky until they are read.

| property | kind | proved | says |
|---|---|---|---|
| `ScanCostsOnePass` | action | yes | the attempt a scan postponed begins in the very next pass, if that pass is allowed the radio |
| `NetIsReached` | liveness | no | once the access point answers, the device is on the network for good |
| `RestingMeansRested` | invariant | yes | a resting voltage is published only after the settling time, but for one sampling interval |
| `CrankMinIsPublished` | invariant | yes | outside CRANKING the published minimum is that of the last crank |
| `TrendIsEarned` | invariant | yes | a trend has enough samples since the sensor was last unhealthy, and two neighbouring samples that moved that way |
| `ReportIsTrue` | action | yes | the reported reason is a reset that happened since the last report; the faults counted are those since the RAM was lost |

Bounds. Steps of the clock are 0, one sampling or polling interval, and longer than
one; scans are as long as the back-off allows within the step set; three voltages
order three ways; a window of four samples with a trend from three fills and slides;
with three faults and three boots a reset follows a reset at every stage of `setup()`.
The history of a battery stops at the settling time. Fairness: passes with a
moving clock in which the controller lets the radio work do not die out
(`QuietPass`; every state that is not quiescent ends, by `SettlesWhenLeftAlone`,
unless somebody commands the pump for ever).

## 8. Findings

Five runs expect a violation. Each shows that the code does something a document,
comment or test of the repository says it does not; `PROJECT.json`, `findings`,
quotes both sides.

| run | what it shows |
|---|---|
| `pump_no_valve` | a build with `ENABLE_INTAKE_VALVE 0` faults at its first crank, because the safety rules ask for an open valve that is never commanded |
| `pump_dry_starter` | `valve off` in maintenance shuts the intake under a starter engaged by hand, for one step |
| `pump_override_intake` | an overridden START over a running engine is in PRIMING with the ignition live; there an overridden `valve off` shuts the intake, and no safety rule acts on it |
| `log_reboot` | after a reboot a client may skip entries of the new boot and `dropped` says 0 |
| `loop_scan` | a scan accepted at rest is done after a later line of the same paste has begun a sequence |

## 9. Smaller disagreements met on the way

No run is spent on these; they follow from the models by inspection.

* The `kill` table of `PI_INTEGRATION.md:203-204` gives a released kill in CRANKING,
  UNCHOKING and RUNNING_ASSUMED only. In plain use every fault that is left alone
  releases it too: `advance()` ends the kill hold of FAULT with `setKillRelay(false)` and
  stays in FAULT (`pump_controller.cpp:664-668`). The table has FAULT in neither row.
  `IgnitionOnlyWhenCranked` states what the code does; without its second case TLC
  finds it violated in `pump_normal`, in nine states.
* With the danger override, `FaultMeansFault` does not hold. A START is accepted in
  FAULT and leaves the code recorded while its sequence runs
  (`PI_INTEGRATION.md:402`: "When `fault` is non-null the device is in `FAULT` and will
  refuse `START`."). It is more than a label: rule 0 acts only if the recorded fault is not
  WATER_LOST (`pump_controller.cpp:507-508`), so after an overridden START out of WATER_LOST
  the next loss of water stops nothing, and neither `NoSilentDryRun` nor `DryEngineStops`
  holds. With overrides in the instance of `pump_normal` TLC shows it.
* With the danger override `PrimingIsInhibited` does not hold either: a START over a
  running engine, or in a phase of the lamp test with the kill released, is in PRIMING
  with the ignition live (`PI_INTEGRATION.md:203-204`, and the comment at
  `pump_controller.cpp:988`). `pump_override_intake` begins like that.
* `config.h` checks many relations of its durations by `static_assert`, but not the one
  that `CrankHasWater` needs: that the water grace is no longer than recrank gap and prime
  dwell together. The two are equal as configured.
* A crank of exactly `MAX_CRANK_MS`, the longest that the limits allow, always ends
  in STARTER_OVERRUN, because the ceiling is compared before the transition of the
  same pass (`README.md:1000` and `PI_INTEGRATION.md:408` give a stalled loop as the cause).
* Equal console commands in one millisecond share a request id, so a third line of
  a paste like `choke on`, `choke off`, `choke on` answers without acting; the comment at
  `serial_console.cpp:174-175` says that console commands are never deduplicated.
* Malformed timing headers are rejected for commands, and ignored by `GET` requests;
  `http_protocol.h:62-63` says "regardless of endpoint".
* `PI_INTEGRATION.md:465-467` concludes that a START replayed from before a reboot cannot
  crank anything. It cannot by itself (`StartAwaitsOperator`, and `README.md:844-846` says no
  more); once somebody has brought the device out of UNKNOWN, such a retry does run,
  because the ring that knew it is gone.
* A request of more than 128 bytes that is already complete in the socket is given up
  when a stall of three seconds lies between accepting it and the first pass that
  reads it: a pass drains 128 bytes, and then the deadline counts.

## 10. What is proved

Every invariant, action property and refinement of the passing runs but
`OverrunNeedsScan` is also a theorem. All theorems hold for every value of the constants that satisfies the named
assumptions of the modules (`DurationAssumption`, the `static_assert`s of `config.h`;
`InputAssumption`, the shape of the inputs; and their like in the other modules). TLC
evaluates each of these assumptions in a run. For each module: an invariant,
stronger than the property, that the initial states have and every step keeps.
Some theorems have a further hypothesis, since the property is false without it:

| hypothesis | theorems | without it |
|---|---|---|
| `PlainUse`: no override, no maintenance commands | those of `PumpPlainProofs` | an operator may ask for a live ignition at rest, or crank by hand within the gap; section 9 |
| `NothingByHand`: no maintenance command over HTTP and no typed line that energises a relay or opens the ignition; releasing ones are allowed, and so is the danger override | `RelaysHaveOwners` | a relay engaged by hand has no owner by design |
| `IntakeValveEnabled`, and `WaterGrace <= RecrankGap + ValvePrime` (equal in `config.h`), besides `PlainUse` | `CrankedOnWater` | a second crank may fall into the water grace of the first |
| `IntakeValveEnabled` | `ChokeSlips` | without the valve a started engine counts as one over a shut intake (`pump_no_valve`); under an override, with that fault already recorded, the rule for it may return before the choke is looked at in two passes in a row |

**`PumpControllerProofs`**: `Spec => []IInv`, where `IInv` is

* `Sound(pump)`: the record is typed; starter excludes kill; the override is on
  only in a sequence state; an engine that was started has its intake open and,
  in CRANKING, was primed (`IntakeServesEngine`); starter below its ceiling, and
  choke below its own unless a fault is recorded (`WithinCeiling`);
* `RingOK(records)`: at most `IdempotencySlots` records, none twice.

The argument follows the code. `Interlocked` is what every relay operator
preserves: one lemma per operator (`ReleaseStarter`, `AssertKill`, `EnterFault`,
`EngageStarter`, ...) says so, and handlers are compositions of them. The ceilings
are different: time alone breaks them. So a tick first weakens `Sound` to
`Interlocked` (`Elapse`), `EnforceLimits` restores them, and the transition that
follows may rely on it. A command runs at the time of its pass and starts with
the same safety check. From the invariant follow the seven invariants of the
controller that no override may break, and `DryStarterIsShed`.

`ChokeSlipsOnce` needs one thing more. A safety check misses a choke above its
ceiling only if it sheds a starter over a shut intake and returns early, so two
misses in a row need that starter twice. `SlipSheds` says that when the choke is
above its ceiling there is none: the check that let the choke slip has shed it, and
no handler engages it again over a shut intake (`StepEndsChokeOver`).

**`PumpPlainProofs`**: under `PlainUse`, `Spec => []PlainInv`, with which
`IgnitionOnlyWhenCranked`, `RestIsDry`, `FaultMeansFault`, `PrimingIsInhibited` and
`NoSilentDryRun` follow. `Plain` relates each
relay to the states that own it, and says that a fault is recorded in FAULT and nowhere
else; `Watered` is the dry-run rule. Neither is kept by every call inside a handler (a kill is released before
the starter engages), so the lemmas are about whole handlers, and use `Sound` for
what the relay layer refuses. `RecrankGapHonoured` follows from `Gapped`: in PRIMING and
CHOKING the gap is over. It was when START let the sequence begin, time does not
undo it, and nothing releases a starter there, since none is engaged (`Plain`).
`Gapped` also follows the release through PRIMING: the time since it is the gap and what
has passed of the prime dwell, so in CHOKING and CRANKING it is the grace
(`GraceEndsInPriming`). With the rule for a lost water that gives `CrankHasWater`.

**`MainLoopProofs`**: `LoopInv` is `Sound(pump)` and the types of the loop's variables. The
lemmas about handlers are those of `PumpControllerProofs`; here a stall of any length is
added to the clock, and a lamp test may fire or abort in any state.
`EveryRelayHasAnOwner` has the invariant `OwnInv`: for each relay the states and phases
of the lamp test that own it (`Owned`), those of an overridden sequence too. Under an
override little is known of the state a command finds, so the lemmas say of each call
and handler which relays it may energise and which it can only release (`Relays`,
`Fewer`); that is enough, since what is only released stays owned as long as the state
stays, and each handler that leaves a state sheds what that state owned. A plain START is refused while the test
has anything energised, the other commands shed it, and each pulse hands the relay
over to the next phase (`PhaseHandsOver`). A pulse that was taken for a duplicate would
hand nothing over, so the invariant also says that within a pass the ring
holds none of the test's commands but its first (`RingOfPass`).

**`DeliveryProofs`**: `DeliveryInv` says that no command is in the ring twice
(`RingDistinct`); that every command of the history that is not a STOP is still in the
ring, with nothing behind it that did not run later, or has `Slots` different ones after
it in the history (`Traced`: when the oldest of a full ring is pushed out, the `Slots`
commands then in the ring are such); that hence none was executed again before that (`AtMost`);
that nothing but a command other than START
leaves UNKNOWN; that what the ring remembers of a call was run by an attempt of that
call; and that an answer belongs to the attempt under way. A pass is a composition
(slot, then accept), so `PassOK` is the invariant of a value in the middle of one.
Any number of calls, attempts, slots, pieces and reboots.

**`HttpRequestProofs`**: headers of every kind, order and number, and every width of the
integers. The parser keeps no lines, only flags and last values; `RequestInv` relates
them to the lines received so far (`Understood`): each flag is an existential over the
lines, each value that of the last line of its name. Each header handler keeps it; a
reset starts it anew. `ParseAgrees` shows that the overflow check that
`parseUint32Strict()` makes before each multiplication refuses no number that fits and
lets none through that does not. The rest is the order of the early returns in
`planResponse()`: with the rules before it not applying, each rule is compared with
the reading of all lines at once (`CommandsAsWritten`), and the rule for the secret is the first that can
tell a path (`SecretFirst`).

**`EventLogProofs`**: rings of any size, pages and drains of any length. Until the ring
is full its head is at its count (`RingInv`); hence the oldest slot is 0 and later
the head (`OldestSlot`), and `add()` appends to the window and drops its first entry
(`AddIsRecord`): the refinement `KeepsTheLastEntries`. The ring holds the numbers from
`dropped` to `nextSeq` without a hole (`Numbered`), so what the loop of `drain()` has written after any
number of entries is one stretch of the window (`WrittenIsWindow`), and the page is
what the contract reads (`DrainIsRead`). What the client has moved past without
keeping was pushed out of the ring, in the middle of a drain too and while entries
come in (`GapInv`); hence `GapIsReportedWithinABoot`.

**`ServicesProofs`**, network: after a scan, the time the back-off still lacks is exactly
what the clock is ahead of the pass (`ScanRepaid`). Reset record: what the record
and the flags say is backed by a cause not yet reported, and while the device is
down a flag is raised (`Backed`). Battery: an activity that began
before the last sample was seen by it (`SampleSaw`), so the time since activity that
the code knows is late by less than an interval (`RestIsEarned`); the accumulated or
published value is the minimum of the readings (`SagIsKept`). Tank: the published trend
is that of the window, and the window is no longer than the healthy run (`TankInv`). That a
trend is backed by two neighbours which moved that way (`TrendIsBacked`) is Chebyshev's
inequality: if no neighbour falls, level and time rise together, and the sum of the
products of their deviations is not negative (`RiseTogether`, point by point along the
running sums). The arithmetic is that of the model, in whole numbers; rounding of floats is outside.

**`NatSets`**: induction and recursion, for which the theorems with an
operator parameter cannot be used. A set of numbers that is not empty has a least
member (from the well-foundedness of the order), so a set that holds 0 and each
successor holds all (`SetInduction`). A recursive function along `1..n` exists and is
unique (`RunExists`, `RunUnique`), so what it computes can be proved: the digits
of a number, the loop of `drain()`, the sums of the regression.

Only model-checked: `OverrunNeedsScan`, whose proof would need that a crank and one more
clock step stay below the ceiling, a relation of the durations with `Steps` that the code
does not promise (a loop may stall for any other reason); and the liveness properties (`SettlesWhenLeftAlone`, `DryEngineStops`,
`LampTestEnds`, `NobodyWaitsForEver`, `CatchesUp`, `NetIsReached`). Liveness under fairness
needs ENABLED, which is out of the prover's reach.

## 11. Mutants

Every property of a passing run has a mutant in `PROJECT.json`: a definition of the
model with a plausible bug (an interlock left to the caller, a ceiling checked one
pass late, a count started too late, a flag that outlives its request), defined
beside the original and marked `Mutant`. With the mutant in place of the original
TLC finds the property violated in the same instance. They are not part of the
model.

## 12. Not modelled, and why

* The LED matrix draws the state and changes nothing. The Go packages parse headers
  and read a file for a program that is not in the repository yet. The stub server
  is a stand-in for the device.
* `StatusPoller` of the client is a loop over `status()`, which is a call of
  `Delivery`; the exception classes and the answers of class 5xx end a call like no
  answer does.
* A record in RAM with a valid magic and a corrupted reason; the wrap-around of
  `millis()` after 49.7 days (a hazard no property covers); rounding of floats in the
  tank's regression; volume and flow; the smoothed battery figure; wording, JSON,
  help texts and logs.
* The hardwired water interlock, the relay hardware and the watchdog are outside the
  source; their effect is the water reading and `Reboot`.

## 13. Plan

1. The safety half of the liveness properties as theorems: that each state that must
   be left has a running clock or an enabled step (the bounds on dwell, hold, lamp
   phase and slot that `SettlesWhenLeftAlone`, `LampTestEnds` and `NobodyWaitsForEver` rest on).
2. The comparisons of 32-bit times at a small width, for the wrap-around.
3. `Plant`: engine, intake and operator around the controller: what START_FAILED,
   RESET_IDLE and a reboot rely on the operator for.
