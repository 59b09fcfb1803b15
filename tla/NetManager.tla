----------------------------- MODULE NetManager -----------------------------
(***************************************************************************)
(* The Wi-Fi association state machine (net_manager.cpp) as the main loop  *)
(* drives it.  Timestamps are stopwatches, as in PumpController.  A scan   *)
(* of the console blocks inside a pass: resume() then takes a fresh        *)
(* millis(), while the tick of the same pass still has the older `now'.    *)
(***************************************************************************)
EXTENDS Naturals, FiniteSetsExt

CONSTANTS
    PollInterval,     \* WIFI_POLL_INTERVAL_MS
    ConnectTimeout,   \* WIFI_CONNECT_TIMEOUT_MS
    DhcpTimeout,      \* DHCP_TIMEOUT_MS
    RetryInterval,    \* WIFI_RETRY_INTERVAL_MS
    NetSteps,         \* by how much the clock may move between two passes
    ScanTimes         \* how long a scan may block

VARIABLES
    phase,            \* phase_
    phaseFor,         \* since phaseStartedAt_
    sincePoll,        \* since lastPollAt_
    address,          \* ip_ is an address, not empty or 0.0.0.0
    lag,              \* how far the clock was ahead of `now' when the pass ended
    allowed           \* what the tick of this pass was told about the radio

netVars == <<phase, phaseFor, sincePoll, address, lag, allowed>>

(* A scan that takes longer is ended by the watchdog.                      *)
ASSUME NetAssumption ==
    /\ {PollInterval, ConnectTimeout, DhcpTimeout, RetryInterval} \subseteq Nat \ {0}
    /\ NetSteps \subseteq Nat
    /\ ScanTimes \subseteq 0..(RetryInterval - 1)

Longest == Max({ConnectTimeout, DhcpTimeout, RetryInterval})

UpTo(limit, t) == IF t < limit THEN t ELSE limit

-----------------------------------------------------------------------------
(* The connection as one value, so that a pass can elapse, scan and tick.  *)

Conn == [phase |-> phase, phaseFor |-> phaseFor, sincePoll |-> sincePoll,
         address |-> address]

Later(c, d) == [c EXCEPT !.phaseFor = UpTo(Longest, @ + d),
                         !.sincePoll = UpTo(PollInterval, @ + d)]

EnterPhase(c, next) == [c EXCEPT !.phase = next, !.phaseFor = 0]

StartAttempt(c) ==
    [EnterPhase(c, "CONNECTING") EXCEPT !.sincePoll = 0]

Lost(c) == EnterPhase(c, "BACKOFF")

(* Mutant: a full interval is waited out after a scan.                     *)
ResumedLater(c, blocked) == EnterPhase(c, "BACKOFF")

(* resume(): the timer is backdated from a clock `blocked' ahead of now.   *)
Resumed(c, blocked) ==
    [EnterPhase(c, "BACKOFF") EXCEPT !.phaseFor = RetryInterval - blocked]

(* A poll reads whether the radio is associated, and whether DHCP has      *)
(* bound an address.                                                       *)
Poll(c, joined, bound) ==
    LET p == [c EXCEPT !.sincePoll = 0]
    IN  CASE c.phase = "CONNECTING" ->
               IF joined THEN EnterPhase(p, "AWAIT_IP")
               ELSE IF c.phaseFor >= ConnectTimeout THEN Lost(p)
               ELSE p
          [] c.phase = "AWAIT_IP" ->
               IF ~joined THEN Lost(p)
               ELSE LET q == [p EXCEPT !.address = bound]
                    IN  IF bound THEN EnterPhase(q, "CONNECTED")
                        ELSE IF c.phaseFor >= DhcpTimeout THEN Lost(q)
                        ELSE q
          [] c.phase = "CONNECTED" ->
               IF joined THEN p ELSE Lost([p EXCEPT !.address = FALSE])

(* Mutant: an attempt that is due and not allowed is waited for anew.      *)
TickRestartsRefused(c, ok, joined, bound) ==
    IF c.phase = "BACKOFF"
    THEN IF c.phaseFor < RetryInterval THEN c
         ELSE IF ok THEN StartAttempt(c) ELSE EnterPhase(c, "BACKOFF")
    ELSE IF c.sincePoll >= PollInterval THEN Poll(c, joined, bound) ELSE c

NetTick(c, ok, joined, bound) ==
    IF c.phase = "BACKOFF"
    THEN IF c.phaseFor >= RetryInterval /\ ok THEN StartAttempt(c) ELSE c
    ELSE IF c.sincePoll >= PollInterval THEN Poll(c, joined, bound) ELSE c

Becomes(c) ==
    /\ phase' = c.phase /\ phaseFor' = c.phaseFor /\ sincePoll' = c.sincePoll
    /\ address' = c.address

-----------------------------------------------------------------------------
(* One pass of the main loop, as far as the radio goes.                    *)
Pass(d, ok, joined, bound) ==
    /\ Becomes(NetTick(Later(Conn, d + lag), ok, joined, bound))
    /\ lag' = 0 /\ allowed' = ok

(* A pass with a scan in it: suspend(), the scan, resume(), then the tick. *)
ScanPass(d, blocked, ok, joined, bound) ==
    /\ Becomes(NetTick(Resumed(Later(Conn, d + lag), blocked), ok, joined, bound))
    /\ lag' = blocked /\ allowed' = ok

(* begin(), in setup().                                                    *)
NetInit ==
    /\ phase = "CONNECTING" /\ phaseFor = 0 /\ sincePoll = 0
    /\ address = FALSE /\ lag = 0 /\ allowed = FALSE

NetReboot ==
    /\ phase' = "CONNECTING" /\ phaseFor' = 0 /\ sincePoll' = 0
    /\ address' = FALSE /\ lag' = 0 /\ allowed' = FALSE

NetNext ==
    \/ \E d \in NetSteps, ok, joined, bound \in BOOLEAN :
         \/ Pass(d, ok, joined, bound)
         \/ \E blocked \in ScanTimes : ScanPass(d, blocked, ok, joined, bound)
    \/ NetReboot

NetSpec == NetInit /\ [][NetNext]_netVars

(* The loop passes, the clock moves, and passes in which the controller is *)
(* quiescent do not die out: every state that is not ends by itself, and   *)
(* an engine left running is at rest for the radio too.                    *)
QuietPass ==
    \E d \in NetSteps \ {0}, joined, bound \in BOOLEAN : Pass(d, TRUE, joined, bound)

GoodPass == \E d \in NetSteps, ok \in BOOLEAN : Pass(d, ok, TRUE, TRUE)

-----------------------------------------------------------------------------
(* Properties.                                                             *)

(* Once the access point answers every poll, and nobody scans or resets,   *)
(* the device is on the network for good, wherever its retries were.       *)
ReachesNetwork == <>[][GoodPass]_netVars => <>[](phase = "CONNECTED" /\ address)

(* The stale `now' of the pass with the scan costs one pass, not an        *)
(* interval: the very next pass begins the attempt, if it is allowed the   *)
(* radio.                                                                  *)
ScanCostsOnePass ==
    [][phase = "BACKOFF" /\ lag > 0 /\ lag' = 0 /\ allowed' => phase' = "CONNECTING"]_netVars

=============================================================================
