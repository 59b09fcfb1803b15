------------------------------ MODULE EventLog ------------------------------
(***************************************************************************)
(* The event ring of the firmware, class EventLog (event_log.cpp), served  *)
(* by GET /v1/log (api_handler.cpp) and drained over an unreliable network *)
(* by the pump client of the Raspberry Pi (docs/examples/pump_client.py,   *)
(* fetch_log and drain_log).                                               *)
(*                                                                         *)
(* An entry is its number and its event; uptime, state and relay bits ride *)
(* along.  Numbers are 32 bits wide and start from 0 at each boot; the     *)
(* model stops at MaxSeq, far from the width.                              *)
(***************************************************************************)
EXTENDS Integers, Sequences, FiniteSets

CONSTANTS
    RingEntries,     \* LOG_RING_ENTRIES
    MaxPerResponse,  \* LOG_MAX_PER_RESPONSE
    MaxPages,        \* max_pages of drain_log
    Events,          \* what happens on the device
    MaxSeq,          \* bound: entries made in one boot
    MaxReboots       \* bound: reboots of the device

ASSUME LogAssumption ==
    /\ {RingEntries, MaxPerResponse, MaxPages} \subseteq Nat \ {0}
    /\ MaxSeq \in Nat /\ MaxReboots \in Nat

Slots == 0 .. RingEntries - 1

Entry == [seq : 0 .. MaxSeq, event : Events]

VARIABLES
    \* the device
    entries,    \* entries_
    head,       \* head_ : the slot written next
    count,      \* count_
    nextSeq,    \* nextSeq_
    dropped,    \* dropped_
    \* the client
    cursor,     \* where the client's next drain starts
    paging,     \* a drain under way : {} or one [at, pages, got], where got
                \* holds the numbers of this boot's entries collected so far
    told,       \* `dropped' as last reported to the client
    \* history
    seen,       \* the numbers of this boot's entries the client has kept
    reboots

device == <<entries, head, count, nextSeq, dropped>>
client == <<cursor, paging, told, seen>>
vars == <<device, client, reboots>>

-----------------------------------------------------------------------------
(* The ring.                                                               *)

Oldest == (head + RingEntries - count) % RingEntries

(* The i-th entry, counted from the oldest.                                *)
Held(i) == entries[(Oldest + i - 1) % RingEntries]

OldestSeq == IF count = 0 THEN nextSeq ELSE entries[Oldest].seq

(* The loop of drain(): what is written after i entries of the ring.       *)
Written(since, max) ==
    LET out[i \in 0 .. count] ==
          IF i = 0 THEN << >>
          ELSE IF Len(out[i - 1]) < max /\ Held(i).seq >= since
               THEN Append(out[i - 1], Held(i))
               ELSE out[i - 1]
    IN  out

(* Mutant: the page is cut at its old end.                                 *)
DrainNewest(since, max) ==
    LET due == Written(since, RingEntries)[count]
        out == SubSeq(due, IF Len(due) < max THEN 1 ELSE Len(due) - max + 1, Len(due))
    IN  [out |-> out, next |-> IF out = << >> THEN nextSeq ELSE out[Len(out)].seq + 1]

(* Mutant: a page that is cut short points at the end of the log.          *)
DrainPastRest(since, max) == [out |-> Written(since, max)[count], next |-> nextSeq]

(* Mutant: an empty page leaves the reader where it was.                   *)
DrainStaysPut(since, max) ==
    LET out == Written(since, max)[count]
    IN  [out |-> out, next |-> IF out = << >> THEN since ELSE out[Len(out)].seq + 1]

(* drain(): entries from `since' on, oldest first, and the number to ask   *)
(* for next time.  With nothing to give it points at the end of the log.   *)
Drain(since, max) ==
    LET out == Written(since, max)[count]
    IN  [out |-> out, next |-> IF out = << >> THEN nextSeq ELSE out[Len(out)].seq + 1]

(* Mutant: the loss is counted one entry too late.                         *)
CountedWhenWrapped(e) ==
    /\ nextSeq < MaxSeq
    /\ entries' = [entries EXCEPT ![head] = [seq |-> nextSeq, event |-> e]]
    /\ nextSeq' = nextSeq + 1
    /\ head' = (head + 1) % RingEntries
    /\ count' = IF count < RingEntries THEN count + 1 ELSE count
    /\ dropped' = IF count = RingEntries /\ head = 0 THEN dropped + 1 ELSE dropped
    /\ UNCHANGED <<client, reboots>>

(* Mutant: the count runs on when the ring is full.                        *)
AddUncapped(e) ==
    /\ nextSeq < MaxSeq
    /\ entries' = [entries EXCEPT ![head] = [seq |-> nextSeq, event |-> e]]
    /\ nextSeq' = nextSeq + 1
    /\ head' = (head + 1) % RingEntries
    /\ count' = count + 1
    /\ dropped' = IF count < RingEntries THEN dropped ELSE dropped + 1
    /\ UNCHANGED <<client, reboots>>

Add(e) ==
    /\ nextSeq < MaxSeq
    /\ entries' = [entries EXCEPT ![head] = [seq |-> nextSeq, event |-> e]]
    /\ nextSeq' = nextSeq + 1
    /\ head' = (head + 1) % RingEntries
    /\ IF count < RingEntries
       THEN count' = count + 1 /\ UNCHANGED dropped
       ELSE dropped' = dropped + 1 /\ UNCHANGED count
    /\ UNCHANGED <<client, reboots>>

(* clear(): every slot zeroed; the client, elsewhere, knows nothing of it. *)
Reboot ==
    /\ reboots < MaxReboots
    /\ reboots' = reboots + 1
    /\ \E blank \in Events : entries' = [s \in Slots |-> [seq |-> 0, event |-> blank]]
    /\ head' = 0
    /\ count' = 0
    /\ nextSeq' = 0
    /\ dropped' = 0
    /\ seen' = {}
    /\ paging' = {[p EXCEPT !.got = {}] : p \in paging}
    /\ UNCHANGED <<cursor, told>>

-----------------------------------------------------------------------------
(* The client.                                                             *)

BeginDrain ==
    /\ paging = {}
    /\ paging' = {[at |-> cursor, pages |-> 0, got |-> {}]}
    /\ UNCHANGED <<device, cursor, told, seen, reboots>>

(* One fetch_log that succeeds; the drain ends when nothing is left, when  *)
(* the cursor does not move, or at max_pages.                              *)
Page ==
    \E p \in paging :
      LET reply == Drain(p.at, MaxPerResponse)
          truncated == reply.next # nextSeq
          got == p.got \cup {reply.out[i].seq : i \in DOMAIN reply.out}
          done == ~truncated \/ reply.next = p.at \/ p.pages + 1 = MaxPages
      IN  /\ IF done
             THEN /\ paging' = {}
                  /\ cursor' = reply.next
                  /\ told' = dropped
                  /\ seen' = seen \cup got
             ELSE /\ paging' = {[at |-> reply.next, pages |-> p.pages + 1, got |-> got]}
                  /\ UNCHANGED <<cursor, told, seen>>
          /\ UNCHANGED <<device, reboots>>

(* The retries of a fetch are used up, or the client stops before it has   *)
(* stored the batch: what was collected is lost, the cursor stays.         *)
Abandon ==
    /\ paging # {}
    /\ paging' = {}
    /\ UNCHANGED <<device, cursor, told, seen, reboots>>

Init ==
    /\ \E blank \in Events : entries = [s \in Slots |-> [seq |-> 0, event |-> blank]]
    /\ head = 0 /\ count = 0 /\ nextSeq = 0 /\ dropped = 0
    /\ cursor = 0 /\ paging = {} /\ told = 0
    /\ seen = {} /\ reboots = 0

Next ==
    \/ \E e \in Events : Add(e)
    \/ Reboot
    \/ BeginDrain
    \/ Page
    \/ Abandon

(* The client keeps draining and a page that is asked for is answered.     *)
Fairness == WF_vars(BeginDrain) /\ WF_vars(Page)

Spec == Init /\ [][Next]_vars

FairSpec == Spec /\ Fairness

-----------------------------------------------------------------------------
(* Properties.                                                             *)

(* The variables keep their types; the client has kept only entries that   *)
(* this boot has made.                                                     *)
TypeOK ==
    /\ entries \in [Slots -> Entry] /\ head \in Slots
    /\ count \in 0 .. RingEntries
    /\ nextSeq \in 0 .. MaxSeq /\ dropped \in 0 .. MaxSeq
    /\ cursor \in 0 .. MaxSeq /\ told \in 0 .. MaxSeq
    /\ paging \subseteq [at : 0 .. MaxSeq, pages : 0 .. MaxPages - 1,
                         got : SUBSET (0 .. nextSeq - 1)]
    /\ Cardinality(paging) <= 1
    /\ seen \subseteq 0 .. nextSeq - 1
    /\ reboots \in 0 .. MaxReboots

(* The ring keeps the last RingEntries entries of the boot, in order, and  *)
(* counts every one it pushed out (event_log.h).                           *)
Log == INSTANCE BoundedLog WITH
    Capacity <- RingEntries, Event <- Events,
    window <- [i \in 1 .. count |-> Held(i)], next <- nextSeq, lost <- dropped

KeepsTheLastEntries == Log!Spec

(* Whatever number a client asks from, even one of an earlier boot, drain() *)
(* gives the oldest entries it still owes, without a hole, and the number  *)
(* that follows them: the scan of the ring agrees with the contract.       *)
DrainIsRead ==
    \A since \in 0 .. MaxSeq, max \in 1 .. MaxPerResponse :
        Drain(since, max) = Log!Read(since, max)

(* Entries the client has moved past without keeping them.                 *)
Missed == {n \in 0 .. nextSeq - 1 : n < cursor} \ seen

(* When a drain ends the client has moved past no more entries than the   *)
(* count of lost ones it is told: `it never lies about a gap'              *)
(* (pump_client.py), across lost answers, half-finished drains and a ring  *)
(* that wraps while a drain is under way.                                  *)
GapIsReported ==
    [][Page /\ paging' = {} => Cardinality(Missed') <= told']_vars

(* The same as long as the device has not rebooted.                        *)
GapIsReportedWithinABoot ==
    [][Page /\ paging' = {} /\ reboots = 0 => Cardinality(Missed') <= told']_vars

(* A client that is left to drain a quiet log reaches its end, also when   *)
(* its cursor comes from before a reboot.                                  *)
CatchesUp == <>[][BeginDrain \/ Page]_vars => <>[](cursor = nextSeq)

=============================================================================
