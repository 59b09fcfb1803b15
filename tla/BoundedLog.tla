----------------------------- MODULE BoundedLog -----------------------------
(***************************************************************************)
(* What the event log promises its readers (event_log.h): the last Capacity *)
(* entries in the order they were made, numbered without a gap from the    *)
(* start of the boot, with a count of the ones that were pushed out.       *)
(***************************************************************************)
EXTENDS Integers, Sequences

CONSTANTS
    Capacity,   \* how many entries are kept, one at least
    Event,      \* what an entry can say
    MaxSeq      \* bound: entries made in one boot

VARIABLES
    window,     \* the entries kept, oldest first
    next,       \* the number of the next entry
    lost        \* how many entries were pushed out

Record(e) ==
    /\ next < MaxSeq
    /\ window' = Append(IF Len(window) = Capacity THEN Tail(window) ELSE window,
                        [seq |-> next, event |-> e])
    /\ next' = next + 1
    /\ lost' = IF Len(window) = Capacity THEN lost + 1 ELSE lost

Restart ==
    /\ window' = << >>
    /\ next' = 0
    /\ lost' = 0

Init == window = << >> /\ next = 0 /\ lost = 0

Next == Restart \/ \E e \in Event : Record(e)

Spec == Init /\ [][Next]_<<window, next, lost>>

(* The entries from number `since' on, `max' of them at most, and the      *)
(* number that follows the last one given.                                 *)
Read(since, max) ==
    LET oldest == next - Len(window)
        from == IF since > oldest THEN since ELSE oldest
        upTo == IF from + max < next THEN from + max ELSE next
    IN  [out |-> SubSeq(window, from - oldest + 1, upTo - oldest), next |-> upTo]

=============================================================================
