--------------------------- MODULE EventLogProofs ---------------------------
(***************************************************************************)
(* The ring of EventLog implements BoundedLog, for rings of every size,    *)
(* and what its client is told of the entries that are gone is true as     *)
(* long as the device has not rebooted.                                    *)
(*                                                                         *)
(* Until the ring is full its oldest entry is in slot 0 and the head is at *)
(* the count; from then on the oldest entry is the one at the head.  Both  *)
(* follow from one equation between head and count, and the rest is        *)
(* arithmetic modulo the size of the ring.                                 *)
(*                                                                         *)
(* The ring holds the numbers from `dropped' to `nextSeq', without a hole  *)
(* (Numbered), so the loop of drain() writes one stretch of the ring: what *)
(* it has written after i entries is known for every i by induction        *)
(* (WrittenIsWindow).  A page then brings every held entry it moves past,  *)
(* and what the client has moved past without keeping was pushed out of    *)
(* the ring, all along a drain and while entries come in (GapInv).         *)
(***************************************************************************)
EXTENDS EventLog, SequenceTheorems, FiniteSetTheorems, NatSets, TLAPS

RingInv ==
    /\ entries \in [Slots -> Entry] /\ head \in Slots /\ count \in 0 .. RingEntries
    /\ nextSeq \in 0 .. MaxSeq
    /\ count < RingEntries => head = count

(* The entries, oldest first.                                              *)
Window == [i \in 1 .. count |-> Held(i)]

-----------------------------------------------------------------------------
(* Arithmetic modulo the size of the ring.                                 *)

(* Sizes are positive.                                                     *)
LEMMA RingSize == RingEntries \in Nat \ {0}
  BY LogAssumption

(* A slot number is its own remainder, and one turn is taken off.          *)
LEMMA Turns ==
  /\ \A a \in 0 .. RingEntries - 1 : a % RingEntries = a
  /\ \A a \in RingEntries .. 2 * RingEntries - 1 : a % RingEntries = a - RingEntries
  BY RingSize, Z3

(* The oldest entry is in slot 0 until the ring is full, and at the head   *)
(* from then on.                                                           *)
LEMMA OldestSlot ==
  RingInv => Oldest = IF count < RingEntries THEN 0 ELSE head
<1> SUFFICES ASSUME RingInv
             PROVE  Oldest = IF count < RingEntries THEN 0 ELSE head
  OBVIOUS
<1>1. CASE count < RingEntries
  <2>1. head + RingEntries - count = RingEntries
    BY <1>1, RingSize DEF RingInv, Slots
  <2> QED
    BY <1>1, <2>1, Turns, RingSize DEF Oldest
<1>2. CASE ~(count < RingEntries)
  <2>1. head + RingEntries - count = head /\ head \in 0 .. RingEntries - 1
    BY <1>2, RingSize DEF RingInv, Slots
  <2> QED
    BY <1>2, <2>1, Turns DEF Oldest
<1> QED
  BY <1>1, <1>2

(* The window is a sequence of entries.                                    *)
LEMMA WindowIsSeq ==
  RingInv => /\ Window \in Seq(Entry) /\ Len(Window) = count
             /\ \A i \in 1 .. count : Window[i] = Held(i)
<1> SUFFICES ASSUME RingInv
             PROVE  /\ Window \in Seq(Entry) /\ Len(Window) = count
                    /\ \A i \in 1 .. count : Window[i] = Held(i)
  OBVIOUS
<1>1. ASSUME NEW i \in 1 .. count
      PROVE  Held(i) \in Entry
  <2>1. Oldest \in 0 .. RingEntries - 1
    BY OldestSlot, RingSize DEF RingInv, Slots
  <2>2. Oldest + i - 1 \in 0 .. 2 * RingEntries - 1
    BY <1>1, <2>1, RingSize DEF RingInv
  <2>3. (Oldest + i - 1) % RingEntries \in Slots
    BY <2>1, <2>2, Turns, RingSize DEF Slots
  <2> QED
    BY <2>3 DEF Held, RingInv
<1>2. count \in Nat
  BY RingSize DEF RingInv
<1> QED
  BY <1>1, <1>2 DEF Window

-----------------------------------------------------------------------------
(* The invariant.                                                          *)

(* It holds when the device starts.                                        *)
THEOREM InitRingInv == Init => RingInv
  BY RingSize, LogAssumption DEF Init, RingInv, Slots, Entry

(* The ring changes only by add() and clear(), and both keep it.           *)
THEOREM NextRingInv == RingInv /\ [Next]_vars => RingInv'
<1> SUFFICES ASSUME RingInv, [Next]_vars
             PROVE  RingInv'
  OBVIOUS
<1>1. ASSUME NEW e \in Events, Add(e)
      PROVE  RingInv'
  <2>1. entries' \in [Slots -> Entry] /\ nextSeq' \in 0 .. MaxSeq
    BY <1>1, LogAssumption DEF Add, RingInv, Entry
  <2>2. head' = IF head + 1 < RingEntries THEN head + 1 ELSE 0
    <3>1. head + 1 \in 1 .. RingEntries /\ head' = (head + 1) % RingEntries
      BY <1>1, RingSize DEF Add, RingInv, Slots
    <3> QED
      BY <3>1, Turns, RingSize
  <2>3. count' = IF count < RingEntries THEN count + 1 ELSE count
    BY <1>1 DEF Add
  <2> QED
    BY <2>1, <2>2, <2>3, RingSize DEF RingInv, Slots
<1>2. CASE Reboot
  BY <1>2, RingSize, LogAssumption DEF Reboot, RingInv, Slots, Entry
<1>3. CASE UNCHANGED device
  BY <1>3 DEF device, RingInv
<1> QED
  BY <1>1, <1>2, <1>3 DEF Next, BeginDrain, Page, Abandon, vars

(* So it holds in every reachable state.                                   *)
LEMMA RingInvariance == Spec => []RingInv
  BY InitRingInv, NextRingInv, PTL DEF Spec

-----------------------------------------------------------------------------
(* The steps of the ring, as steps of the bounded log.                     *)

(* add() appends to the window, and pushes its first entry out when full.  *)
LEMMA AddIsRecord ==
  ASSUME RingInv, RingInv', NEW e \in Events, Add(e)
  PROVE  Window' = Append(IF count = RingEntries THEN Tail(Window) ELSE Window,
                          [seq |-> nextSeq, event |-> e])
<1> DEFINE new == [seq |-> nextSeq, event |-> e]
           kept == IF count = RingEntries THEN Tail(Window) ELSE Window
<1>1. /\ Window \in Seq(Entry) /\ Len(Window) = count
      /\ \A i \in 1 .. count : Window[i] = Held(i)
  BY WindowIsSeq
<1>2. /\ Window' \in Seq(Entry) /\ Len(Window') = count'
      /\ \A i \in 1 .. count' : Window'[i] = Held(i)'
  <2>1. (/\ Window \in Seq(Entry) /\ Len(Window) = count
         /\ \A i \in 1 .. count : Window[i] = Held(i))'
    BY WindowIsSeq, PTL
  <2> QED
    BY <2>1
<1>3. new \in Entry
  BY DEF RingInv, Entry
<1>4. /\ entries' = [entries EXCEPT ![head] = new] /\ head' = (head + 1) % RingEntries
      /\ entries \in [Slots -> Entry] /\ head \in 0 .. RingEntries - 1
      /\ count \in 0 .. RingEntries
      /\ count < RingEntries => count' = count + 1 /\ head = count
      /\ count = RingEntries => count' = count
  BY DEF Add, RingInv, Slots
<1>5. Oldest = IF count < RingEntries THEN 0 ELSE head
  BY OldestSlot
<1>6. Oldest' = IF count' < RingEntries THEN 0 ELSE head'
  <2>1. (Oldest = IF count < RingEntries THEN 0 ELSE head)'
    BY OldestSlot, PTL
  <2> QED
    BY <2>1
<1>7. CASE count < RingEntries
  <2>1. kept = Window /\ count' = count + 1
    BY <1>4, <1>7
  <2>2. Oldest' = 0
    <3>1. CASE count' < RingEntries
      BY <1>6, <3>1
    <3>2. CASE ~(count' < RingEntries)
      <4>1. head + 1 = RingEntries
        BY <1>4, <1>7, <3>2, RingSize
      <4> QED
        BY <1>4, <1>6, <3>2, <4>1, Turns, RingSize
    <3> QED
      BY <3>1, <3>2
  <2>3. \A i \in 1 .. count + 1 : Held(i)' = entries'[i - 1]
    <3> TAKE i \in 1 .. count + 1
    <3>1. Oldest' + i - 1 = i - 1 /\ i - 1 \in 0 .. RingEntries - 1
      BY <1>4, <1>7, <2>2, RingSize
    <3>2. Held(i)' = entries'[(Oldest' + i - 1) % RingEntries]
      BY DEF Held
    <3> QED
      BY <3>1, <3>2, Turns
  <2>4. \A i \in 1 .. count : Held(i) = entries[i - 1]
    <3> TAKE i \in 1 .. count
    <3>1. Oldest + i - 1 = i - 1 /\ i - 1 \in 0 .. RingEntries - 1
      BY <1>4, <1>5, <1>7, RingSize
    <3>2. Held(i) = entries[(Oldest + i - 1) % RingEntries]
      BY DEF Held
    <3> QED
      BY <3>1, <3>2, Turns
  <2>5. \A i \in 1 .. count : Window'[i] = Window[i]
    <3> TAKE i \in 1 .. count
    <3>1. i - 1 \in Slots /\ i - 1 # head
      BY <1>4, <1>7, RingSize DEF Slots
    <3> QED
      BY <1>1, <1>2, <1>4, <2>1, <2>3, <2>4, <3>1
  <2>6. Window'[count + 1] = new
    <3>1. count + 1 \in 1 .. count + 1 /\ (count + 1) - 1 = head /\ head \in Slots
      BY <1>4, <1>7, RingSize DEF Slots
    <3> QED
      BY <1>2, <1>4, <2>1, <2>3, <3>1
  <2>7. /\ Append(Window, new) \in Seq(Entry) /\ Len(Append(Window, new)) = count + 1
        /\ \A i \in 1 .. count : Append(Window, new)[i] = Window[i]
        /\ Append(Window, new)[count + 1] = new
    BY <1>1, <1>3, AppendProperties
  <2>8. \A i \in 1 .. count + 1 : Window'[i] = Append(Window, new)[i]
    BY <1>4, <2>5, <2>6, <2>7
  <2>9. Window' = Append(Window, new)
    BY <1>2, <2>1, <2>7, <2>8, SeqEqual
  <2> QED
    BY <2>1, <2>9
<1>8. CASE count = RingEntries
  <2>1. kept = Tail(Window) /\ count' = count /\ Oldest = head /\ Oldest' = head'
    BY <1>4, <1>5, <1>6, <1>8
  <2>2. Window # << >>
    BY <1>1, <1>8, RingSize
  <2>3. /\ kept \in Seq(Entry) /\ Len(kept) = count - 1
        /\ \A i \in 1 .. count - 1 : kept[i] = Window[i + 1]
    BY <1>1, <2>1, <2>2, HeadTailProperties
  <2>4. head' = IF head + 1 < RingEntries THEN head + 1 ELSE 0
    BY <1>4, Turns, RingSize
  <2>5. \A i \in 1 .. count - 1 : Window'[i] = Window[i + 1]
    <3> TAKE i \in 1 .. count - 1
    <3> DEFINE slot == IF head + i < RingEntries THEN head + i ELSE head + i - RingEntries
    <3>1. slot \in Slots /\ slot # head
      BY <1>4, <1>8, RingSize DEF Slots
    <3>2. (head + i) % RingEntries = slot
      BY <1>4, <1>8, Turns, RingSize
    <3>3. (head' + i - 1) % RingEntries = slot
      BY <1>4, <1>8, <2>4, Turns, RingSize
    <3>4. Held(i + 1) = entries[slot]
      <4>1. Oldest + (i + 1) - 1 = head + i
        BY <1>4, <2>1
      <4> QED
        BY <3>2, <4>1 DEF Held
    <3>5. Held(i)' = entries'[slot]
      BY <2>1, <3>3 DEF Held
    <3>6. i \in 1 .. count' /\ i + 1 \in 1 .. count
      BY <1>4, <1>8, RingSize
    <3> QED
      BY <1>1, <1>2, <1>4, <3>1, <3>4, <3>5, <3>6
  <2>6. Window'[count] = new
    <3>1. (head' + count - 1) % RingEntries = head
      BY <1>4, <1>8, <2>4, Turns, RingSize
    <3>2. Held(count)' = entries'[head]
      BY <2>1, <3>1 DEF Held
    <3>3. count \in 1 .. count' /\ head \in Slots
      BY <1>4, <1>8, RingSize DEF Slots
    <3>4. entries'[head] = new
      BY <1>4, <3>3
    <3>5. Window'[count] = Held(count)'
      BY <1>2, <2>1, <3>3
    <3> QED
      BY <3>2, <3>4, <3>5
  <2>7. /\ Append(kept, new) \in Seq(Entry) /\ Len(Append(kept, new)) = count
        /\ \A i \in 1 .. count - 1 : Append(kept, new)[i] = kept[i]
        /\ Append(kept, new)[count] = new
    BY <1>3, <1>4, <2>3, AppendProperties
  <2>8. \A i \in 1 .. count : Window'[i] = Append(kept, new)[i]
    BY <1>4, <2>3, <2>5, <2>6, <2>7
  <2>9. Window' = Append(kept, new)
    BY <1>2, <2>1, <2>7, <2>8, SeqEqual
  <2> QED
    BY <2>9
<1> QED
  BY <1>4, <1>7, <1>8, RingSize

(* clear() empties the window.                                             *)
LEMMA NothingHeld ==
  ASSUME count = 0
  PROVE  Window = << >>
  BY DEF Window

-----------------------------------------------------------------------------
(* The numbers in the ring.                                                *)

(* The ring holds the last count numbers made, without a hole, and counts  *)
(* the earlier ones as dropped.                                            *)
Numbered ==
    /\ count <= nextSeq /\ dropped = nextSeq - count
    /\ \A i \in 1 .. count : Held(i).seq = dropped + i - 1

(* It holds when the device starts.                                        *)
LEMMA InitNumbered == Init => Numbered
  BY DEF Init, Numbered

(* Every step keeps it.                                                    *)
LEMMA NextNumbered == RingInv /\ RingInv' /\ Numbered /\ [Next]_vars => Numbered'
<1> SUFFICES ASSUME RingInv, RingInv', Numbered, [Next]_vars
             PROVE  Numbered'
  OBVIOUS
<1>1. ASSUME NEW e \in Events, Add(e)
      PROVE  Numbered'
  <2> DEFINE new == [seq |-> nextSeq, event |-> e]
             kept == IF count = RingEntries THEN Tail(Window) ELSE Window
  <2>1. /\ Window \in Seq(Entry) /\ Len(Window) = count
        /\ \A i \in 1 .. count : Window[i] = Held(i)
    BY WindowIsSeq
  <2>2. \A i \in 1 .. count' : Window'[i] = Held(i)'
    <3>1. (\A i \in 1 .. count : Window[i] = Held(i))'
      BY WindowIsSeq, PTL
    <3> QED
      BY <3>1
  <2>3. Window' = Append(kept, new)
    BY <1>1, AddIsRecord
  <2>4. /\ nextSeq' = nextSeq + 1 /\ nextSeq \in Nat /\ count \in 0 .. RingEntries
        /\ count' = (IF count < RingEntries THEN count + 1 ELSE count)
        /\ dropped' = (IF count < RingEntries THEN dropped ELSE dropped + 1)
        /\ new \in Entry /\ new.seq = nextSeq
    BY <1>1, LogAssumption DEF Add, RingInv, Entry
  <2>5. count' <= nextSeq' /\ dropped' = nextSeq' - count'
    BY <2>4, RingSize DEF Numbered
  <2>6. /\ kept \in Seq(Entry) /\ Len(kept) = count' - 1
        /\ \A i \in 1 .. count' - 1 : kept[i].seq = dropped' + i - 1
    <3>1. CASE count < RingEntries
      BY <2>1, <2>4, <3>1, RingSize DEF Numbered
    <3>2. CASE count = RingEntries
      <4>1. Window # << >>
        BY <2>1, <3>2, RingSize
      <4>2. /\ kept \in Seq(Entry) /\ Len(kept) = count - 1
            /\ \A i \in 1 .. count - 1 : kept[i] = Window[i + 1]
        BY <2>1, <3>2, <4>1, HeadTailProperties
      <4>3. count' = count /\ dropped' = dropped + 1 /\ count \in Nat /\ dropped \in Nat
        BY <2>4, <3>2, RingSize DEF Numbered
      <4> HIDE DEF kept
      <4>4. ASSUME NEW i \in 1 .. count - 1
            PROVE  kept[i].seq = dropped' + i - 1
        <5>1. i + 1 \in 1 .. count
          BY <4>3
        <5>2. kept[i].seq = dropped + (i + 1) - 1
          BY <2>1, <4>2, <5>1 DEF Numbered
        <5> QED
          BY <4>3, <5>2
      <4> QED
        BY <4>2, <4>3, <4>4
    <3> QED
      BY <2>4, <3>1, <3>2, RingSize
  <2>7. /\ \A i \in 1 .. count' - 1 : Append(kept, new)[i] = kept[i]
        /\ Append(kept, new)[count'] = new
    <3> HIDE DEF kept, new
    <3>1. Len(kept) + 1 = count'
      BY <2>4, <2>6, RingSize
    <3> QED
      BY <2>4, <2>6, <3>1, AppendProperties
  <2>8. \A i \in 1 .. count' : Held(i)'.seq = dropped' + i - 1
    <3> HIDE DEF kept, new
    <3> TAKE i \in 1 .. count'
    <3>1. CASE i = count'
      <4>1. Held(i)' = new
        BY <2>2, <2>3, <2>7, <3>1
      <4>2. count' \in Nat /\ dropped' + count' - 1 = nextSeq
        BY <2>4, <2>5, RingSize
      <4> QED
        BY <2>4, <3>1, <4>1, <4>2
    <3>2. CASE i # count'
      <4>1. i \in 1 .. count' - 1
        BY <2>4, <3>2, RingSize
      <4> QED
        BY <2>2, <2>3, <2>6, <2>7, <4>1
    <3> QED
      BY <3>1, <3>2
  <2> QED
    BY <2>5, <2>8 DEF Numbered
<1>2. CASE Reboot
  BY <1>2 DEF Reboot, Numbered
<1>3. CASE UNCHANGED device
  BY <1>3 DEF device, Numbered, Held, Oldest
<1> QED
  BY <1>1, <1>2, <1>3 DEF Next, BeginDrain, Page, Abandon, vars

(* So it holds in every reachable state.                                   *)
LEMMA NumberedInvariance == Spec => []Numbered
  BY InitNumbered, NextNumbered, RingInvariance, PTL DEF Spec

-----------------------------------------------------------------------------
(* The loop of drain(), whose result is found by induction over the ring.  *)

(* How many entries the loop skips, and where it ends.                     *)
Skipped(since) == IF since > dropped THEN since - dropped ELSE 0

Cut(since, max) == IF Skipped(since) + max < count THEN Skipped(since) + max ELSE count

(* What has been written after i entries: those behind the skipped ones,   *)
(* up to the cut.                                                          *)
LEMMA WrittenIsWindow ==
  ASSUME RingInv, Numbered, NEW since \in Nat, NEW max \in Nat \ {0}
  PROVE  \A i \in 0 .. count :
           Written(since, max)[i] =
             SubSeq(Window, Skipped(since) + 1, IF i < Cut(since, max) THEN i ELSE Cut(since, max))
<1> DEFINE lo == Skipped(since)
           hi == Cut(since, max)
           End(i) == IF i < hi THEN i ELSE hi
           Seg(n) == SubSeq(Window, lo + 1, n)
           Step(out, i) == IF Len(out) < max /\ Held(i).seq >= since THEN Append(out, Held(i)) ELSE out
           IsScan(f) == f = [i \in 0 .. count |-> IF i = 0 THEN << >> ELSE Step(f[i - 1], i)]
           W == [i \in 0 .. count |-> Seg(End(i))]
<1>1. Written(since, max) = CHOOSE f : IsScan(f)
  BY DEF Written
<1>2. /\ count \in Nat /\ dropped \in Nat /\ lo \in Nat /\ hi \in Nat /\ hi <= count
      /\ lo = IF since > dropped THEN since - dropped ELSE 0
      /\ hi = IF lo + max < count THEN lo + max ELSE count
  BY RingSize DEF RingInv, Numbered, Skipped, Cut
<1>3. /\ Window \in Seq(Entry) /\ Len(Window) = count
      /\ \A i \in 1 .. count : Window[i] = Held(i) /\ Window[i] \in Entry
  BY WindowIsSeq
<1> HIDE DEF lo, hi
<1>4. \A n \in Nat : n <= lo => Seg(n) = << >>
  BY <1>2, SubSeqEmpty
<1>5. ASSUME NEW n \in lo .. count
      PROVE  Seg(n) \in Seq(Entry) /\ Len(Seg(n)) = n - lo
  <2>1. \A j \in lo + 1 .. n : Window[j] \in Entry
    BY <1>2, <1>3
  <2>2. Seg(n) \in Seq(Entry) /\ Len(Seg(n)) = IF lo + 1 <= n THEN n - (lo + 1) + 1 ELSE 0
    BY <1>2, <2>1, SubSeqProperties
  <2> HIDE DEF Seg
  <2> QED
    BY <1>2, <2>2
<1>6. ASSUME NEW n \in lo + 1 .. count
      PROVE  Seg(n) = Append(Seg(n - 1), Held(n))
  <2>1. Seg(n) = Seg(n - 1) \o << Window[n] >>
    <3>1. lo + 1 \in 1 .. Len(Window) /\ n \in lo + 1 .. Len(Window)
      BY <1>2, <1>3
    <3> QED
      BY <1>3, <3>1, SubSeqRecursiveSecond
  <2>2. Seg(n - 1) \in Seq(Entry)
    <3>1. n - 1 \in lo .. count
      BY <1>2
    <3> HIDE DEF Seg
    <3> QED
      BY <1>5, <3>1
  <2>3. Window[n] = Held(n) /\ Window[n] \in Entry
    BY <1>2, <1>3
  <2> HIDE DEF Seg
  <2> QED
    BY <2>1, <2>2, <2>3, AppendIsConcat
<1> HIDE DEF Seg
<1>7. W[0] = << >>
  BY <1>2, <1>4
<1>8. ASSUME NEW i \in 1 .. count
      PROVE  W[i] = Step(W[i - 1], i)
  <2>1. W[i] = Seg(End(i)) /\ W[i - 1] = Seg(End(i - 1))
    BY <1>2
  <2>2. Held(i).seq >= since <=> i > lo
    BY <1>2 DEF Numbered
  <2> HIDE DEF W
  <2>3. CASE i <= lo
    <3>1. W[i] = << >> /\ W[i - 1] = << >>
      BY <1>2, <1>4, <2>1, <2>3
    <3> QED
      BY <1>2, <2>2, <2>3, <3>1
  <2>4. CASE lo < i /\ i <= hi
    <3>1. End(i) = i /\ End(i - 1) = i - 1 /\ i \in lo + 1 .. count /\ i - 1 \in lo .. count
      BY <1>2, <2>4
    <3>2. Len(W[i - 1]) < max
      BY <1>2, <1>5, <2>1, <2>4, <3>1
    <3> QED
      BY <1>6, <2>1, <2>2, <2>4, <3>1, <3>2
  <2>5. CASE lo < i /\ hi < i
    <3>1. End(i) = hi /\ End(i - 1) = hi /\ hi = lo + max /\ hi \in lo .. count
      BY <1>2, <2>5
    <3>2. ~(Len(W[i - 1]) < max)
      <4>1. Len(Seg(hi)) = hi - lo
        BY <1>5, <3>1
      <4>2. W[i - 1] = Seg(hi) /\ hi - lo = max
        BY <1>2, <2>1, <3>1
      <4> QED
        BY <4>1, <4>2
    <3> QED
      BY <2>1, <3>1, <3>2
  <2> QED
    BY <1>2, <2>3, <2>4, <2>5
<1>9. IsScan(W)
  <2> DEFINE V == [i \in 0 .. count |-> IF i = 0 THEN << >> ELSE Step(W[i - 1], i)]
  <2> HIDE DEF Step
  <2>1. \A i \in 0 .. count : W[i] = V[i]
    <3> HIDE DEF W
    <3> QED
      BY <1>2, <1>7, <1>8
  <2>2. W = V
    BY <2>1
  <2> HIDE DEF W
  <2> QED
    BY <2>2
<1> HIDE DEF W
<1>10. IsScan(Written(since, max))
  <2> HIDE DEF IsScan
  <2> QED
    BY <1>1, <1>9
<1>11. ASSUME NEW f, IsScan(f)
      PROVE  \A i \in 0 .. count : f[i] = W[i]
  <2> DEFINE T == {i \in Nat : i <= count => f[i] = W[i]}
  <2>1. 0 \in T
    BY <1>2, <1>7, <1>11
  <2>2. ASSUME NEW i \in Nat, i \in T
        PROVE  i + 1 \in T
    <3>1. CASE i + 1 <= count
      <4>1. i + 1 \in 1 .. count /\ (i + 1) - 1 = i /\ i <= count
        BY <1>2, <3>1
      <4>2. W[i + 1] = Step(W[i], i + 1)
        BY <1>8, <4>1
      <4>3. f[i + 1] = Step(f[i], i + 1)
        <5> HIDE DEF Step
        <5> QED
          BY <1>2, <1>11, <4>1
      <4>4. f[i] = W[i]
        BY <2>2, <4>1
      <4> HIDE DEF Step
      <4> QED
        BY <4>2, <4>3, <4>4
    <3>2. CASE ~(i + 1 <= count)
      BY <3>2
    <3> QED
      BY <3>1, <3>2
  <2>3. Nat \subseteq T
    <3> HIDE DEF T
    <3> QED
      BY <2>1, <2>2, SetInduction
  <2> QED
    BY <1>2, <2>3
<1>12. \A i \in 0 .. count : Written(since, max)[i] = W[i]
  <2> HIDE DEF IsScan
  <2> QED
    BY <1>10, <1>11
<1> QED
  BY <1>12 DEF W, Seg, lo, hi

(* So drain() is the read of the bounded log, whatever number it is asked  *)
(* from.                                                                   *)
LEMMA DrainIsLogRead ==
  ASSUME RingInv, Numbered, NEW since \in Nat, NEW max \in Nat \ {0}
  PROVE  Drain(since, max) = Log!Read(since, max)
<1> DEFINE lo == Skipped(since)
           hi == Cut(since, max)
           out == Written(since, max)[count]
           next == IF out = << >> THEN nextSeq ELSE out[Len(out)].seq + 1
           from == IF since > nextSeq - count THEN since ELSE nextSeq - count
           upTo == IF from + max < nextSeq THEN from + max ELSE nextSeq
<1>1. /\ count \in Nat /\ dropped \in Nat /\ nextSeq \in Nat /\ dropped = nextSeq - count
      /\ lo \in Nat /\ hi \in Nat /\ hi <= count
      /\ lo = IF since > dropped THEN since - dropped ELSE 0
      /\ hi = IF lo + max < count THEN lo + max ELSE count
  BY RingSize, LogAssumption DEF RingInv, Numbered, Skipped, Cut
<1>2. /\ Window \in Seq(Entry) /\ Len(Window) = count
      /\ \A i \in 1 .. count : Window[i] = Held(i) /\ Window[i] \in Entry
  BY WindowIsSeq
<1>3. out = SubSeq(Window, lo + 1, hi)
  <2>1. count \in 0 .. count /\ (IF count < hi THEN count ELSE hi) = hi
    BY <1>1
  <2> QED
    BY <2>1, WrittenIsWindow
<1>4. Log!Read(since, max) = [out |-> SubSeq(Window, from - (nextSeq - count) + 1,
                                             upTo - (nextSeq - count)),
                              next |-> upTo]
  <2>1. Log!Read(since, max) =
          LET oldest == nextSeq - Len(Window)
              start == IF since > oldest THEN since ELSE oldest
              end == IF start + max < nextSeq THEN start + max ELSE nextSeq
          IN  [out |-> SubSeq(Window, start - oldest + 1, end - oldest), next |-> end]
    BY DEF Log!Read, Window
  <2> HIDE DEF Window
  <2> QED
    BY <1>2, <2>1
<1>5. /\ from - (nextSeq - count) + 1 = lo + 1
      /\ upTo - (nextSeq - count) = hi \/ (hi <= lo /\ upTo - (nextSeq - count) <= lo)
  BY <1>1
<1>6. SubSeq(Window, from - (nextSeq - count) + 1, upTo - (nextSeq - count)) = out
  <2>1. upTo \in Int
    BY <1>1
  <2>2. CASE hi <= lo /\ upTo - (nextSeq - count) <= lo
    BY <1>1, <1>3, <1>5, <2>1, <2>2, SubSeqEmpty
  <2> QED
    BY <1>3, <1>5, <2>2
<1> HIDE DEF lo, hi, out
<1>7. next = upTo
  <2>1. CASE hi <= lo
    <3>1. out = << >>
      BY <1>1, <1>3, <2>1, SubSeqEmpty
    <3>2. count <= lo
      BY <1>1, <2>1
    <3> QED
      BY <1>1, <3>1, <3>2
  <2>2. CASE lo < hi
    <3>1. \A j \in lo + 1 .. hi : Window[j] \in Entry
      BY <1>1, <1>2
    <3>2. Len(out) = hi - lo /\ \A j \in 1 .. hi - lo : out[j] = Window[lo + j]
      <4>1. /\ Len(out) = IF lo + 1 <= hi THEN hi - (lo + 1) + 1 ELSE 0
            /\ \A j \in 1 .. hi - (lo + 1) + 1 : out[j] = Window[(lo + 1) + j - 1]
        BY <1>1, <1>3, <3>1, SubSeqProperties
      <4>2. \A j \in 1 .. hi - lo : (lo + 1) + j - 1 = lo + j
        BY <1>1
      <4> QED
        BY <1>1, <2>2, <4>1, <4>2
    <3>3. out # << >> /\ out[Len(out)] = Window[hi]
      <4>1. hi - lo \in 1 .. hi - lo /\ lo + (hi - lo) = hi /\ hi - lo > 0
        BY <1>1, <2>2
      <4>2. Len(<< >>) = 0
        OBVIOUS
      <4> QED
        BY <3>2, <4>1, <4>2
    <3>4. Window[hi].seq = dropped + hi - 1
      <4>1. hi \in 1 .. count
        BY <1>1, <2>2
      <4> QED
        BY <1>2, <4>1 DEF Numbered
    <3> QED
      BY <1>1, <2>2, <3>3, <3>4
  <2> QED
    BY <1>1, <2>1, <2>2
<1>8. Drain(since, max) = [out |-> out, next |-> next]
  BY DEF Drain, out
<1> QED
  BY <1>4, <1>6, <1>7, <1>8

(* What a client reads from the bounded log: numbers from the one it asks  *)
(* for, or the oldest, up to the one it is told to ask for next.           *)
LEMMA DrainGives ==
  ASSUME RingInv, Numbered, NEW since \in Nat, NEW max \in Nat \ {0}
  PROVE  LET d == Drain(since, max)
         IN  /\ d.next \in 0 .. nextSeq
             /\ {d.out[i].seq : i \in DOMAIN d.out} =
                  {n \in 0 .. nextSeq - 1 : since <= n /\ dropped <= n /\ n < d.next}
<1> DEFINE oldest == nextSeq - count
           from == IF since > oldest THEN since ELSE oldest
           upTo == IF from + max < nextSeq THEN from + max ELSE nextSeq
           out == SubSeq(Window, from - oldest + 1, upTo - oldest)
           Numbers == {out[i].seq : i \in DOMAIN out}
           Given == {n \in 0 .. nextSeq - 1 : since <= n /\ dropped <= n /\ n < upTo}
<1>1. /\ count \in Nat /\ dropped \in Nat /\ nextSeq \in Nat /\ dropped = oldest
      /\ from \in Nat /\ upTo \in 0 .. nextSeq /\ from >= since /\ from >= oldest
      /\ upTo <= nextSeq
  BY RingSize, LogAssumption DEF RingInv, Numbered
<1>2. /\ Window \in Seq(Entry) /\ Len(Window) = count
      /\ \A i \in 1 .. count : Window[i] = Held(i) /\ Window[i] \in Entry
  BY WindowIsSeq
<1>3. Drain(since, max) = [out |-> out, next |-> upTo]
  <2>1. Log!Read(since, max) =
          LET first == nextSeq - Len(Window)
              start == IF since > first THEN since ELSE first
              end == IF start + max < nextSeq THEN start + max ELSE nextSeq
          IN  [out |-> SubSeq(Window, start - first + 1, end - first), next |-> end]
    BY DEF Log!Read, Window
  <2> HIDE DEF Window
  <2> QED
    BY <1>2, <2>1, DrainIsLogRead
<1>4. Numbers = Given
  <2>1. \A n \in 0 .. nextSeq - 1 : since <= n /\ dropped <= n <=> from <= n
    BY <1>1
  <2>2. CASE upTo <= from
    <3>1. out = << >>
      BY <1>1, <2>2, SubSeqEmpty
    <3>2. Given = {}
      BY <1>1, <2>1, <2>2
    <3> HIDE DEF out
    <3> QED
      BY <3>1, <3>2
  <2>3. CASE from < upTo
    <3>1. \A j \in from - oldest + 1 .. upTo - oldest : Window[j] \in Entry
      BY <1>1, <1>2
    <3>2. /\ out \in Seq(Entry)
          /\ Len(out) = IF from - oldest + 1 <= upTo - oldest
                        THEN upTo - oldest - (from - oldest + 1) + 1 ELSE 0
          /\ \A j \in 1 .. upTo - oldest - (from - oldest + 1) + 1 :
               out[j] = Window[from - oldest + 1 + j - 1]
      BY <1>1, <3>1, SubSeqProperties
    <3>3. upTo - oldest - (from - oldest + 1) + 1 = upTo - from
      BY <1>1
    <3> HIDE DEF out
    <3>4. DOMAIN out = 1 .. upTo - from
      BY <1>1, <2>3, <3>2, <3>3
    <3>5. ASSUME NEW j \in 1 .. upTo - from
          PROVE  out[j].seq = from + j - 1
      <4>1. from - oldest + 1 + j - 1 \in 1 .. count
        BY <1>1, <2>3
      <4>2. Window[from - oldest + 1 + j - 1].seq = dropped + (from - oldest + 1 + j - 1) - 1
        BY <1>2, <4>1 DEF Numbered
      <4>3. dropped + (from - oldest + 1 + j - 1) - 1 = from + j - 1
        BY <1>1
      <4> QED
        BY <3>2, <3>3, <4>2, <4>3
    <3>6. Numbers = {from + j - 1 : j \in 1 .. upTo - from}
      BY <3>4, <3>5
    <3>7. {from + j - 1 : j \in 1 .. upTo - from} = {n \in 0 .. nextSeq - 1 : from <= n /\ n < upTo}
      <4>1. ASSUME NEW n \in 0 .. nextSeq - 1, from <= n, n < upTo
            PROVE  \E j \in 1 .. upTo - from : n = from + j - 1
        <5>1. n - from + 1 \in 1 .. upTo - from /\ n = from + (n - from + 1) - 1
          BY <1>1, <4>1
        <5> QED
          BY <5>1
      <4>2. ASSUME NEW j \in 1 .. upTo - from
            PROVE  from + j - 1 \in 0 .. nextSeq - 1 /\ from <= from + j - 1 /\ from + j - 1 < upTo
        BY <1>1, <2>3
      <4> QED
        BY <4>1, <4>2
    <3> QED
      BY <2>1, <3>6, <3>7
  <2> QED
    BY <1>1, <2>2, <2>3
<1> HIDE DEF out, upTo
<1> QED
  BY <1>1, <1>3, <1>4

-----------------------------------------------------------------------------
(* The client.                                                             *)

(* The types of the client, without the counting of drains.                *)
ClientInv ==
    /\ cursor \in 0 .. MaxSeq /\ told \in 0 .. MaxSeq
    /\ \A p \in paging :
         /\ p \in [at : 0 .. MaxSeq, pages : 0 .. MaxPages - 1, got : SUBSET Nat]
         /\ p.got \subseteq 0 .. nextSeq - 1
    /\ \A p, q \in paging : p = q
    /\ seen \subseteq 0 .. nextSeq - 1
    /\ reboots \in 0 .. MaxReboots

(* They hold at the start.                                                 *)
LEMMA InitClientInv == Init => ClientInv
  BY LogAssumption DEF Init, ClientInv

(* Every step keeps them: what a page adds was made in this boot.          *)
LEMMA NextClientInv == RingInv /\ Numbered /\ ClientInv /\ [Next]_vars => ClientInv'
<1> SUFFICES ASSUME RingInv, Numbered, ClientInv, [Next]_vars
             PROVE  ClientInv'
  OBVIOUS
<1>0. /\ nextSeq \in 0 .. MaxSeq /\ MaxSeq \in Nat /\ dropped \in 0 .. MaxSeq
      /\ MaxPages \in Nat \ {0} /\ MaxReboots \in Nat
  BY RingSize, LogAssumption DEF RingInv, Numbered
<1>1. ASSUME NEW e \in Events, Add(e)
      PROVE  ClientInv'
  <2>1. nextSeq' = nextSeq + 1 /\ UNCHANGED <<cursor, paging, told, seen, reboots>>
    BY <1>1 DEF Add, client
  <2>2. 0 .. nextSeq - 1 \subseteq 0 .. nextSeq' - 1
    BY <1>0, <2>1
  <2> QED
    BY <2>1, <2>2 DEF ClientInv
<1>2. CASE Reboot
  <2>1. /\ paging' = {[p EXCEPT !.got = {}] : p \in paging} /\ seen' = {}
        /\ reboots' = reboots + 1 /\ reboots < MaxReboots /\ UNCHANGED <<cursor, told>>
    BY <1>2 DEF Reboot
  <2>2. ASSUME NEW q \in paging'
        PROVE  /\ q \in [at : 0 .. MaxSeq, pages : 0 .. MaxPages - 1, got : SUBSET Nat]
               /\ q.got \subseteq 0 .. nextSeq' - 1
    BY <2>1 DEF ClientInv
  <2>3. \A p, q \in paging' : p = q
    BY <2>1 DEF ClientInv
  <2> QED
    BY <1>0, <2>1, <2>2, <2>3 DEF ClientInv
<1>3. CASE BeginDrain
  BY <1>0, <1>3 DEF BeginDrain, ClientInv, device
<1>4. CASE Page
  <2>1. PICK p \in paging :
          LET reply == Drain(p.at, MaxPerResponse)
              got == p.got \cup {reply.out[i].seq : i \in DOMAIN reply.out}
              done == reply.next = nextSeq \/ reply.next = p.at \/ p.pages + 1 = MaxPages
          IN  /\ IF done
                 THEN /\ paging' = {} /\ cursor' = reply.next /\ told' = dropped
                      /\ seen' = seen \cup got
                 ELSE /\ paging' = {[at |-> reply.next, pages |-> p.pages + 1, got |-> got]}
                      /\ UNCHANGED <<cursor, told, seen>>
              /\ UNCHANGED <<device, reboots>>
    BY <1>4 DEF Page
  <2> DEFINE reply == Drain(p.at, MaxPerResponse)
             got == p.got \cup {reply.out[i].seq : i \in DOMAIN reply.out}
             done == reply.next = nextSeq \/ reply.next = p.at \/ p.pages + 1 = MaxPages
             page == [at |-> reply.next, pages |-> p.pages + 1, got |-> got]
  <2>2. p.at \in Nat /\ MaxPerResponse \in Nat \ {0} /\ p.got \subseteq 0 .. nextSeq - 1
    BY LogAssumption DEF ClientInv
  <2>3. reply.next \in 0 .. MaxSeq /\ got \subseteq 0 .. nextSeq - 1
    <3>1. /\ reply.next \in 0 .. nextSeq
          /\ {reply.out[i].seq : i \in DOMAIN reply.out} \subseteq 0 .. nextSeq - 1
      BY <2>2, DrainGives
    <3> QED
      BY <1>0, <2>2, <3>1
  <2> HIDE DEF reply, got
  <2>4. CASE done
    <3>1. paging' = {} /\ cursor' = reply.next /\ told' = dropped /\ seen' = seen \cup got
          /\ UNCHANGED <<nextSeq, reboots>>
      BY <2>1, <2>4 DEF reply, got, device
    <3> QED
      BY <1>0, <2>3, <3>1 DEF ClientInv
  <2>5. CASE ~done
    <3>1. paging' = {page} /\ UNCHANGED <<cursor, told, seen, nextSeq, reboots>>
      BY <2>1, <2>5 DEF reply, got, device
    <3>2. p.pages + 1 \in 0 .. MaxPages - 1
      BY <1>0, <2>5 DEF ClientInv
    <3>3. page \in [at : 0 .. MaxSeq, pages : 0 .. MaxPages - 1, got : SUBSET Nat]
      BY <2>3, <3>2
    <3>4. page.got \subseteq 0 .. nextSeq - 1
      BY <2>3
    <3> HIDE DEF page
    <3> QED
      BY <3>1, <3>3, <3>4 DEF ClientInv
  <2> QED
    BY <2>4, <2>5
<1>5. CASE Abandon
  BY <1>5 DEF Abandon, ClientInv, device
<1>6. CASE UNCHANGED vars
  BY <1>6 DEF vars, device, client, ClientInv
<1> QED
  BY <1>1, <1>2, <1>3, <1>4, <1>5, <1>6 DEF Next

(* So they hold in every reachable state.                                  *)
LEMMA ClientInvariance == Spec => []ClientInv
  BY InitClientInv, NextClientInv, RingInvariance, NumberedInvariance, PTL DEF Spec

(* As long as the device has not rebooted, whatever the client has moved   *)
(* past without keeping it is among the dropped.                           *)
Owed(at, kept) == (0 .. at - 1) \ kept \subseteq 0 .. dropped - 1

GapInv ==
    reboots = 0 => /\ Owed(cursor, seen)
                   /\ \A p \in paging : Owed(p.at, seen \cup p.got)

(* A page closes its part of the gap: what it skips has been dropped.      *)
LEMMA PageOwesNoMore ==
  ASSUME RingInv, Numbered, NEW at \in Nat, NEW kept, Owed(at, kept)
  PROVE  LET d == Drain(at, MaxPerResponse)
         IN  Owed(d.next, kept \cup {d.out[i].seq : i \in DOMAIN d.out})
<1> DEFINE d == Drain(at, MaxPerResponse)
           new == {d.out[i].seq : i \in DOMAIN d.out}
<1>1. /\ d.next \in 0 .. nextSeq
      /\ new = {n \in 0 .. nextSeq - 1 : at <= n /\ dropped <= n /\ n < d.next}
  BY LogAssumption, DrainGives
<1>2. dropped \in Nat /\ nextSeq \in Nat
  BY RingSize, LogAssumption DEF RingInv, Numbered
<1> HIDE DEF d, new
<1>3. ASSUME NEW n \in 0 .. d.next - 1, n \notin kept, n \notin new
      PROVE  n \in 0 .. dropped - 1
  <2>1. n \in 0 .. nextSeq - 1 /\ n < d.next
    BY <1>1, <1>2
  <2>2. CASE n < at
    <3>1. n \in 0 .. at - 1
      BY <2>1, <2>2
    <3> QED
      BY <1>3, <3>1 DEF Owed
  <2>3. CASE ~(n < at)
    BY <1>1, <1>2, <1>3, <2>1, <2>3
  <2> QED
    BY <2>2, <2>3
<1> QED
  BY <1>3 DEF Owed, d, new

(* The gap is covered at the start.                                        *)
LEMMA InitGapInv == Init => GapInv
  BY DEF Init, GapInv, Owed

(* Every step keeps it covered.                                            *)
LEMMA NextGapInv == RingInv /\ Numbered /\ ClientInv /\ GapInv /\ [Next]_vars => GapInv'
<1> SUFFICES ASSUME RingInv, Numbered, ClientInv, GapInv, [Next]_vars, reboots' = 0
             PROVE  /\ Owed(cursor, seen)'
                    /\ \A p \in paging' : Owed(p.at, seen \cup p.got)'
  BY DEF GapInv
<1>0. dropped \in Nat /\ reboots \in Nat
  BY RingSize, LogAssumption DEF RingInv, Numbered, ClientInv
<1>1. ASSUME NEW e \in Events, Add(e)
      PROVE  GapInv'
  <2>1. /\ dropped' \in {dropped, dropped + 1}
        /\ UNCHANGED <<cursor, paging, told, seen, reboots>>
    BY <1>1 DEF Add, client
  <2>2. 0 .. dropped - 1 \subseteq 0 .. dropped' - 1
    <3>1. CASE dropped' = dropped
      BY <3>1
    <3>2. CASE dropped' = dropped + 1
      BY <1>0, <3>2
    <3> QED
      BY <2>1, <3>1, <3>2
  <2> QED
    BY <2>1, <2>2 DEF GapInv, Owed
<1>2. CASE Reboot
  BY <1>0, <1>2 DEF Reboot
<1>3. CASE BeginDrain
  <2>1. /\ paging' = {[at |-> cursor, pages |-> 0, got |-> {}]}
        /\ UNCHANGED <<cursor, seen, dropped, reboots>>
    BY <1>3 DEF BeginDrain, device
  <2> QED
    BY <2>1 DEF GapInv, Owed
<1>4. CASE Page
  <2>1. PICK p \in paging :
          LET reply == Drain(p.at, MaxPerResponse)
              got == p.got \cup {reply.out[i].seq : i \in DOMAIN reply.out}
          IN  /\ \/ /\ paging' = {} /\ cursor' = reply.next
                    /\ seen' = seen \cup got
                 \/ /\ paging' = {[at |-> reply.next, pages |-> p.pages + 1, got |-> got]}
                    /\ UNCHANGED <<cursor, seen>>
              /\ UNCHANGED <<dropped, reboots>>
    BY <1>4 DEF Page, device
  <2> DEFINE reply == Drain(p.at, MaxPerResponse)
             new == {reply.out[i].seq : i \in DOMAIN reply.out}
  <2>2. p.at \in Nat
    BY DEF ClientInv
  <2>3. Owed(cursor, seen) /\ Owed(p.at, seen \cup p.got)
    BY <2>1 DEF GapInv
  <2>4. Owed(reply.next, (seen \cup p.got) \cup new)
    BY <2>2, <2>3, PageOwesNoMore
  <2>5. (seen \cup p.got) \cup new = seen \cup (p.got \cup new)
    OBVIOUS
  <2> HIDE DEF reply, new
  <2>6. /\ \/ /\ paging' = {} /\ cursor' = reply.next
              /\ seen' = seen \cup (p.got \cup new)
           \/ /\ paging' = {[at |-> reply.next, pages |-> p.pages + 1, got |-> p.got \cup new]}
              /\ UNCHANGED <<cursor, seen>>
        /\ UNCHANGED <<dropped, reboots>>
    BY <2>1 DEF reply, new
  <2> QED
    BY <2>3, <2>4, <2>5, <2>6 DEF Owed
<1>5. CASE Abandon
  BY <1>5 DEF Abandon, GapInv, Owed, device
<1>6. CASE UNCHANGED vars
  BY <1>6 DEF vars, device, client, GapInv, Owed
<1> QED
  BY <1>1, <1>2, <1>3, <1>4, <1>5, <1>6 DEF Next, GapInv

(* So it is covered in every reachable state.                              *)
LEMMA GapInvariance == Spec => []GapInv
  BY InitGapInv, NextGapInv, RingInvariance, NumberedInvariance, ClientInvariance, PTL DEF Spec

-----------------------------------------------------------------------------
(* The results.                                                            *)

(* Every step of the ring and its readers is a step of the bounded log or  *)
(* leaves it alone: the ring holds the last RingEntries entries of the     *)
(* boot, in order, and counts what it pushed out.                          *)
THEOREM RingKeepsTheLastEntries == FairSpec => KeepsTheLastEntries
<1>1. Init => Log!Init
  BY NothingHeld DEF Init, Log!Init, Window
<1>2. RingInv /\ RingInv' /\ [Next]_vars => [Log!Next]_<<Window, nextSeq, dropped>>
  <2> SUFFICES ASSUME RingInv, RingInv', [Next]_vars
               PROVE  [Log!Next]_<<Window, nextSeq, dropped>>
    OBVIOUS
  <2>1. ASSUME NEW e \in Events, Add(e)
        PROVE  Log!Record(e)
    <3>1. Len(Window) = count
      BY WindowIsSeq
    <3>2. count \in 0 .. RingEntries /\ RingEntries \in Nat
      BY RingSize DEF RingInv
    <3>3. Window' = Append(IF Len(Window) = RingEntries THEN Tail(Window) ELSE Window,
                           [seq |-> nextSeq, event |-> e])
      BY <2>1, <3>1, AddIsRecord
    <3>4. /\ nextSeq < MaxSeq /\ nextSeq' = nextSeq + 1
          /\ dropped' = IF Len(Window) = RingEntries THEN dropped + 1 ELSE dropped
      BY <2>1, <3>1, <3>2 DEF Add
    <3> HIDE DEF Window
    <3> QED
      BY <2>1, <3>1, <3>2, <3>3, <3>4 DEF Log!Record, Window
  <2>2. CASE Reboot
    <3>1. count' = 0 /\ nextSeq' = 0 /\ dropped' = 0
      BY <2>2 DEF Reboot
    <3>2. Window' = << >>
      BY <3>1 DEF Window
    <3> QED
      BY <3>1, <3>2 DEF Log!Next, Log!Restart, Window
  <2>3. CASE UNCHANGED device
    BY <2>3 DEF device, Window, Held, Oldest
  <2> QED
    BY <2>1, <2>2, <2>3 DEF Next, Log!Next, BeginDrain, Page, Abandon, vars
<1> QED
  BY <1>1, <1>2, RingInvariance, PTL
     DEF FairSpec, Spec, KeepsTheLastEntries, Log!Spec, Window

(* Whatever number a client asks from, also one of an earlier boot, the    *)
(* loop of drain() over the wrapped ring gives what the contract says.     *)
THEOREM DrainIsAlwaysRead == FairSpec => []DrainIsRead
<1>1. RingInv /\ Numbered => DrainIsRead
  <2> SUFFICES ASSUME RingInv, Numbered, NEW since \in 0 .. MaxSeq,
                      NEW max \in 1 .. MaxPerResponse
               PROVE  Drain(since, max) = Log!Read(since, max)
    BY DEF DrainIsRead
  <2>1. since \in Nat /\ max \in Nat \ {0}
    BY LogAssumption
  <2> QED
    BY <2>1, DrainIsLogRead
<1> QED
  BY <1>1, RingInvariance, NumberedInvariance, PTL DEF FairSpec

(* The variables keep their types, and the client keeps only entries that  *)
(* this boot has made.                                                     *)
THEOREM LogTypeCorrect == FairSpec => []TypeOK
<1>1. RingInv /\ Numbered /\ ClientInv => TypeOK
  <2> SUFFICES ASSUME RingInv, Numbered, ClientInv
               PROVE  TypeOK
    OBVIOUS
  <2>1. dropped \in 0 .. MaxSeq
    BY RingSize, LogAssumption DEF RingInv, Numbered
  <2>2. Cardinality(paging) <= 1
    <3>1. CASE paging = {}
      BY <3>1, FS_EmptySet
    <3>2. CASE paging # {}
      <4>1. PICK p \in paging : paging = {p}
        BY <3>2 DEF ClientInv
      <4> QED
        BY <4>1, FS_Singleton
    <3> QED
      BY <3>1, <3>2
  <2>3. paging \subseteq [at : 0 .. MaxSeq, pages : 0 .. MaxPages - 1,
                          got : SUBSET (0 .. nextSeq - 1)]
    BY DEF ClientInv
  <2> QED
    BY <2>1, <2>2, <2>3 DEF RingInv, ClientInv, TypeOK
<1> QED
  BY <1>1, RingInvariance, NumberedInvariance, ClientInvariance, PTL DEF FairSpec

(* In its first boot the client has moved past no more entries than were   *)
(* pushed out of the ring.                                                 *)
LEMMA MissedWereDropped ==
  RingInv /\ Numbered /\ ClientInv /\ GapInv => (reboots = 0 => Cardinality(Missed) <= dropped)
<1> SUFFICES ASSUME RingInv, Numbered, ClientInv, GapInv, reboots = 0
             PROVE  Cardinality(Missed) <= dropped
  OBVIOUS
<1>1. dropped \in Nat /\ nextSeq \in Nat /\ cursor \in Nat
  BY RingSize, LogAssumption DEF RingInv, Numbered, ClientInv
<1>2. Missed \subseteq 0 .. dropped - 1
  <2>1. (0 .. cursor - 1) \ seen \subseteq 0 .. dropped - 1
    BY DEF GapInv, Owed
  <2>2. Missed \subseteq (0 .. cursor - 1) \ seen
    BY <1>1 DEF Missed
  <2> QED
    BY <2>1, <2>2
<1>3. IsFiniteSet(0 .. dropped - 1) /\ Cardinality(0 .. dropped - 1) = dropped
  BY <1>1, FS_Interval
<1>4. Cardinality(Missed) <= Cardinality(0 .. dropped - 1)
  BY <1>2, <1>3, FS_Subset
<1> QED
  BY <1>3, <1>4

(* When a drain ends in a boot that is the client's first, the client has  *)
(* missed no more entries than it is told were dropped.                    *)
THEOREM GapReported == FairSpec => GapIsReportedWithinABoot
<1>1. [Next]_vars /\ (reboots = 0 => Cardinality(Missed) <= dropped)'
        => [Page /\ paging' = {} /\ reboots = 0 => Cardinality(Missed') <= told']_vars
  <2> SUFFICES ASSUME (reboots = 0 => Cardinality(Missed) <= dropped)',
                      Page, paging' = {}, reboots = 0
               PROVE  Cardinality(Missed') <= told'
    OBVIOUS
  <2>1. told' = dropped' /\ reboots' = 0
    BY DEF Page, device
  <2> QED
    BY <2>1
<1> QED
  BY <1>1, MissedWereDropped, RingInvariance, NumberedInvariance, ClientInvariance,
     GapInvariance, PTL
     DEF FairSpec, Spec, GapIsReportedWithinABoot

=============================================================================
