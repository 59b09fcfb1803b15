------------------------------ MODULE Delivery ------------------------------
(***************************************************************************)
(* A command on its way: the calls of pump_client.py, which retry under    *)
(* one lock and one request id, the connections between, the single client *)
(* slot of http_server.cpp, and the ring of the controller that remembers  *)
(* the last commands it accepted.  The device reboots, the console types   *)
(* commands, and anything on the wire may be late or lost.                 *)
(*                                                                         *)
(* A connection is named <<c, n>>: the n-th attempt of call c.  A request  *)
(* is Pieces pieces long, a piece being what one pass of the loop drains.  *)
(***************************************************************************)
EXTENDS Naturals, Sequences, SequencesExt

CONSTANTS
    Ops,        \* the calls made, and the operation of each
    Retries,    \* PumpClient.retries
    Slots,      \* IDEMPOTENCY_SLOTS
    Pieces,     \* passes it takes to drain one request
    TypedOps,   \* the commands typed at the console
    MaxTyped,   \* bound: how many of them
    MaxReboots  \* bound

VARIABLES
    call,    \* call |-> where _request() is, its attempt, answer and result
    lock,    \* the call that holds PumpClient._lock, or NoCall
    queue,   \* the connections the radio has and the server has not taken
    dev,     \* the device: controller, slot, and the history of this boot
    typed,   \* commands typed so far
    reboots  \* reboots so far

deliveryVars == <<call, lock, queue, dev, typed, reboots>>

Calls == 1..Len(Ops)
NoCall == 0

ASSUME DeliveryAssumption ==
    /\ Ops \in Seq({"START", "STOP", "START_FAILED", "RESET_IDLE", "STATUS"})
    /\ TypedOps \subseteq {"START", "STOP", "START_FAILED", "RESET_IDLE"}
    /\ {Retries, Slots, Pieces} \subseteq Nat \ {0}
    /\ {MaxTyped, MaxReboots} \subseteq Nat

(* ran: history, the attempts of the call that ran its command.            *)
NewCall == [at |-> "waiting", try |-> 0, answer |-> 0, ran |-> {}]

NoClient == [key |-> <<NoCall, 0>>, read |-> 0, timedOut |-> FALSE]

(* Mutant: the device comes up ready to start.                             *)
PowerUpIdle == [state |-> "IDLE", ring |-> <<>>, slot |-> NoClient, ran |-> <<>>]

(* ran: history, every command this boot executed, in order.               *)
PowerUp == [state |-> "UNKNOWN", ring |-> <<>>, slot |-> NoClient, ran |-> <<>>]

(* The peer of a connection is there as long as its attempt lasts.         *)
HungUp(calls, k) == calls[k[1]].at # "trying" \/ calls[k[1]].try # k[2]

-----------------------------------------------------------------------------
(* The controller, as far as a caller can tell its states apart.           *)

SettlesTo(state) ==
    CASE state = "STARTING" -> {"RUNNING", "FAULT"}
      [] state = "RUNNING" -> {"FAULT"}
      [] state \in {"STOPPING", "RETRY_WAIT"} -> {"IDLE"}
      [] OTHER -> {}

(* The states a command may lead to; none when it is refused.  Cooldown,   *)
(* water and relays decide a START from IDLE, and a RESET_IDLE.            *)
Leads(op, state) ==
    CASE op = "STOP" -> {"STOPPING"}
      [] op = "START" /\ state = "IDLE" -> {"STARTING"}
      [] op = "START_FAILED" /\ state \in {"RUNNING", "RETRY_WAIT", "IDLE", "UNKNOWN"} ->
             {"RETRY_WAIT"}
      [] op = "RESET_IDLE" /\ state \in {"UNKNOWN", "IDLE", "RETRY_WAIT", "FAULT"} ->
             {"IDLE", "RETRY_WAIT"}
      [] OTHER -> {}

MayRefuse(op, state) == op = "START" \/ Leads(op, state) = {}

Seen(d, cmd) == Contains(d.ring, cmd)

Remember(d, cmd) == Append(IF Len(d.ring) = Slots THEN Tail(d.ring) ELSE d.ring, cmd)

(* Mutant: a STOP that was seen is a duplicate like any other.             *)
DuplicateAlways(d, cmd) == Seen(d, cmd)

(* Mutant: START and RESET_IDLE are not looked up before they run.         *)
DuplicateNever(d, cmd) == FALSE

(* A command seen before is not run again, unless it is a STOP.            *)
Duplicate(d, cmd) == Seen(d, cmd) /\ cmd.op # "STOP"

Accepted(d, cmd) ==
    {[d EXCEPT !.state = s,
               !.ring = IF Seen(d, cmd) THEN @ ELSE Remember(d, cmd),
               !.ran = Append(@, cmd)] :
        s \in Leads(cmd.op, d.state)}

(* handleCommand(): the device after it, and what it answers.              *)
Handle(d, cmd) ==
    CASE cmd.op = "STATUS" -> {[dev |-> d, status |-> 200, ran |-> FALSE]}
      [] Duplicate(d, cmd) -> {[dev |-> d, status |-> 202, ran |-> FALSE]}
      [] OTHER ->
            {[dev |-> e, status |-> 202, ran |-> TRUE] : e \in Accepted(d, cmd)}
            \union (IF MayRefuse(cmd.op, d.state)
                    THEN {[dev |-> d, status |-> 409, ran |-> FALSE]} ELSE {})

-----------------------------------------------------------------------------
(* The server: one pass serves the slot, then fills it.                    *)

Occupied(d) == d.slot # NoClient

(* closeClient()                                                           *)
Close(p) == [p EXCEPT !.dev.slot = NoClient]

(* The request is whole: decide, answer if there is still a peer, close.   *)
Answer(p) ==
    LET key == p.dev.slot.key
        answered(h) ==
            [p.call EXCEPT
                ![key[1]].answer = IF HungUp(p.call, key) THEN @ ELSE h.status,
                ![key[1]].ran = IF h.ran /\ p.call[key[1]].at # "returned"
                                THEN @ \union {key[2]} ELSE @]
    IN {Close([p EXCEPT !.dev = h.dev, !.call = answered(h)]) :
           h \in Handle(p.dev, [op |-> Ops[key[1]], id |-> key[1]])}

(* With nothing to read, the slot is given up when the peer is seen to     *)
(* have hung up, or its time is over.                                      *)
(* Mutant: the deadline is looked at only after reading.                   *)
StarvedUntilHungUp(p, hangup) ==
    IF hangup /\ HungUp(p.call, p.dev.slot.key) THEN Close(p) ELSE p

Starved(p, hangup) ==
    IF (hangup /\ HungUp(p.call, p.dev.slot.key)) \/ p.dev.slot.timedOut
    THEN Close(p) ELSE p

(* A pass reads one piece; a request that is still not whole when its time *)
(* is over is given up, even if the rest has already arrived.              *)
Drain(p) ==
    LET q == [p EXCEPT !.dev.slot.read = @ + 1]
    IN IF q.dev.slot.read = Pieces THEN Answer(q)
       ELSE {IF q.dev.slot.timedOut THEN Close(q) ELSE q}

ServiceExisting(p, wire) ==
    IF ~Occupied(p.dev) THEN {p}
    ELSE IF wire.piece THEN Drain(p) ELSE {Starved(p, wire.hangup)}

AcceptNew(p, wire) ==
    IF Occupied(p.dev) \/ ~wire.client THEN {p}
    ELSE {[p EXCEPT !.dev.slot = [NoClient EXCEPT !.key = k], !.queue = @ \ {k}] :
             k \in p.queue}

(* What the radio shows one pass: another piece of the request, be its     *)
(* sender still there or not; that the peer has hung up; a client to       *)
(* accept, any of those that wait.                                         *)
Wires == [piece : BOOLEAN, hangup : BOOLEAN, client : BOOLEAN]

Silence == [piece |-> FALSE, hangup |-> FALSE, client |-> FALSE]

Service(wire) ==
    \E p \in ServiceExisting([dev |-> dev, call |-> call, queue |-> queue], wire) :
        \E q \in AcceptNew(p, wire) :
            /\ dev' = q.dev /\ call' = q.call /\ queue' = q.queue
            /\ UNCHANGED <<lock, typed, reboots>>

(* HTTP_CLIENT_TIMEOUT_MS has gone by since the client was accepted.       *)
Overdue ==
    /\ Occupied(dev) /\ ~dev.slot.timedOut
    /\ dev' = [dev EXCEPT !.slot.timedOut = TRUE]
    /\ UNCHANGED <<call, lock, queue, typed, reboots>>

(* The controller moves on by itself.                                      *)
Settle ==
    /\ \E s \in SettlesTo(dev.state) : dev' = [dev EXCEPT !.state = s]
    /\ UNCHANGED <<call, lock, queue, typed, reboots>>

(* runCommand(): a command of the console, under an id of its own.         *)
Type(op) ==
    /\ typed < MaxTyped
    /\ typed' = typed + 1
    /\ \E h \in Handle(dev, [op |-> op, id |-> Len(Ops) + typed']) : dev' = h.dev
    /\ UNCHANGED <<call, lock, queue, reboots>>

(* Power comes back: the controller, the ring, the slot and whatever the   *)
(* radio had queued are gone.                                              *)
Reboot ==
    /\ reboots < MaxReboots
    /\ reboots' = reboots + 1
    /\ dev' = PowerUp
    /\ queue' = {}
    /\ UNCHANGED <<call, lock, typed>>

-----------------------------------------------------------------------------
(* The client.                                                             *)

(* _once(): a connection of its own for every attempt.                     *)
Attempt(c) ==
    /\ call' = [call EXCEPT ![c].at = "trying", ![c].try = @ + 1]
    /\ queue' = queue \union {<<c, call[c].try + 1>>}
    /\ UNCHANGED <<dev, typed, reboots>>

(* The threads that make a call wait for the lock; one may get it late.   *)
Acquire(c) ==
    /\ call[c].at = "waiting" /\ lock = NoCall
    /\ lock' = c
    /\ Attempt(c)

Retry(c) ==
    /\ call[c].at = "pausing"
    /\ Attempt(c)
    /\ UNCHANGED lock

Return(c) ==
    /\ call' = [call EXCEPT ![c] = [NewCall EXCEPT !.at = "returned"]]
    /\ lock' = NoCall

(* An answer is final: 200 and 202 are returned, 409 is raised.            *)
GetAnswer(c) ==
    /\ call[c].at = "trying" /\ call[c].answer # 0
    /\ Return(c)
    /\ UNCHANGED <<queue, dev, typed, reboots>>

(* No response: a timeout, a reset, a refused connection, an answer lost.  *)
(* The socket is closed; what it sent may still arrive.                    *)
NoAnswer(c) ==
    /\ call[c].at = "trying"
    /\ IF call[c].try < Retries
       THEN /\ call' = [call EXCEPT ![c].at = "pausing", ![c].answer = 0]
            /\ UNCHANGED lock
       ELSE Return(c)
    /\ UNCHANGED <<queue, dev, typed, reboots>>

-----------------------------------------------------------------------------
DeliveryInit ==
    /\ call = [c \in Calls |-> NewCall]
    /\ lock = NoCall
    /\ queue = {}
    /\ dev = PowerUp
    /\ typed = 0
    /\ reboots = 0

ClientStep(c) == Acquire(c) \/ Retry(c) \/ GetAnswer(c) \/ NoAnswer(c)

DeliveryNext ==
    \/ \E c \in Calls : ClientStep(c)
    \/ \E wire \in Wires : Service(wire)
    \/ Overdue \/ Settle \/ Reboot
    \/ \E op \in TypedOps : Type(op)

(* Threads run and their timeouts fire; the loop passes and its clock      *)
(* moves.  Nothing is asked of the wire: only the passes to which it shows *)
(* nothing are sure to come.                                               *)
DeliverySpec ==
    /\ DeliveryInit /\ [][DeliveryNext]_deliveryVars
    /\ WF_deliveryVars(\E c \in Calls : ClientStep(c))
    /\ WF_deliveryVars(Service(Silence)) /\ WF_deliveryVars(Overdue)

-----------------------------------------------------------------------------
(* Within a boot, one request id executes one command once: a command that *)
(* is executed again has had Slots different ones run in between, and only *)
(* a STOP is executed every time it arrives.  This is the duplicate check  *)
(* of handleCommand(), on the ring of findRecord() and recordCommand(),    *)
(* against the retries of _request() and whatever of them arrives late.    *)
AtMostOnce ==
    \A i, j \in 1..Len(dev.ran) :
        i < j /\ dev.ran[i] = dev.ran[j] /\ dev.ran[i].op # "STOP" =>
            Cardinality({dev.ran[k] : k \in (i + 1)..(j - 1)} \ {dev.ran[i]}) >= Slots

(* What is answered 202 was done: a STOP by the very request that is       *)
(* answered, duplicate or not, any other command by some attempt of the    *)
(* same call.  A command refused once is not answered later as if it had   *)
(* been accepted.                                                          *)
AnsweredMeansDone ==
    \A c \in Calls : call[c].answer = 202 =>
        IF Ops[c] = "STOP" THEN call[c].try \in call[c].ran ELSE call[c].ran # {}

(* README.md: after a reboot START is forbidden until somebody at a device *)
(* that has come up since commands it out of UNKNOWN.  The retries of a    *)
(* START from before the reboot cannot do it by themselves; any other      *)
(* command counts, a STOP retried from before the reboot too.              *)
StartAwaitsOperator ==
    \A j \in 1..Len(dev.ran) : dev.ran[j].op = "START" =>
        \E i \in 1..(j - 1) : dev.ran[i].op # "START"

(* Every call returns, whatever the wire does and whoever had the lock     *)
(* before it, and no peer keeps the only slot: again and again it is free. *)
NobodyWaitsForEver ==
    []<>(~Occupied(dev) /\ \A c \in Calls : call[c].at = "returned")

=============================================================================
