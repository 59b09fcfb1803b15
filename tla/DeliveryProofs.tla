--------------------------- MODULE DeliveryProofs ---------------------------
(***************************************************************************)
(* Proofs about Delivery, for every list of calls, number of retries and   *)
(* size of the ring, and whatever the wire, the console and the power do.  *)
(***************************************************************************)
EXTENDS Delivery, FiniteSetTheorems, TLAPS

OpNames == {"START", "STOP", "START_FAILED", "RESET_IDLE", "STATUS"}

Cmd == [op : OpNames, id : Nat]

States == {"UNKNOWN", "IDLE", "STARTING", "RUNNING", "STOPPING", "RETRY_WAIT", "FAULT"}

Keys == Calls \X Nat

DevType ==
    [state : States, ring : Seq(Cmd), ran : Seq(Cmd),
     slot : [key : (Calls \union {NoCall}) \X Nat, read : Nat, timedOut : BOOLEAN]]

CallType ==
    [Calls -> [at : {"waiting", "trying", "pausing", "returned"}, try : Nat,
               answer : Nat, ran : SUBSET Nat]]

-----------------------------------------------------------------------------
(* The invariant.                                                          *)

(* The commands run after the i-th and up to the n-th, and those that are  *)
(* not the i-th again.                                                     *)
Since(ran, i, n) == {ran[k] : k \in (i + 1)..n}

OthersSince(ran, i, n) == Since(ran, i, n) \ {ran[i]}

(* What ran again, without being a STOP, had Slots others in between.      *)
AtMost(ran) ==
    \A i, j \in 1..Len(ran) : i < j /\ ran[i] = ran[j] /\ ran[i].op # "STOP" =>
        Cardinality(OthersSince(ran, i, j - 1)) >= Slots

(* No command is in the ring twice.                                        *)
RingDistinct(d) ==
    /\ Len(d.ring) <= Slots
    /\ \A p, q \in 1..Len(d.ring) : d.ring[p] = d.ring[q] => p = q

(* The ring still holds the i-th command, and behind it only commands that *)
(* ran later.                                                              *)
InRing(d, i) ==
    \E p \in 1..Len(d.ring) :
        /\ d.ring[p] = d.ran[i]
        /\ \A q \in (p + 1)..Len(d.ring) : d.ring[q] \in Since(d.ran, i, Len(d.ran))

(* Whatever ran is in the ring until Slots others have run after it.       *)
Traced(d) ==
    \A i \in 1..Len(d.ran) : d.ran[i].op # "STOP" =>
        InRing(d, i) \/ Cardinality(OthersSince(d.ran, i, Len(d.ran))) >= Slots

OperatorFirst(ran) ==
    \A j \in 1..Len(ran) : ran[j].op = "START" =>
        \E i \in 1..(j - 1) : ran[i].op # "START"

(* Nothing but a command other than START leaves UNKNOWN.                  *)
Commanded(d) ==
    d.state # "UNKNOWN" => \E i \in 1..Len(d.ran) : d.ran[i].op # "START"

DevOK(d) ==
    /\ d \in DevType
    /\ RingDistinct(d) /\ Traced(d)
    /\ AtMost(d.ran) /\ OperatorFirst(d.ran) /\ Commanded(d)

(* What the ring remembers of a call was run by an attempt of that call.   *)
Told(d, calls) ==
    \A i \in 1..Len(d.ring) : \A c \in Calls : d.ring[i].id = c =>
        calls[c].ran # {} \/ calls[c].at = "returned"

(* An answer belongs to the attempt under way, and is a true one.          *)
AnswerOK(c, r) ==
    /\ r.answer # 0 => r.at = "trying"
    /\ r.answer = 202 => IF Ops[c] = "STOP" THEN r.try \in r.ran ELSE r.ran # {}

CallsOK(calls) == calls \in CallType /\ \A c \in Calls : AnswerOK(c, calls[c])

(* The device, the calls and the connections, in the middle of a pass too. *)
PassOK(p) ==
    /\ p \in [dev : DevType, call : CallType, queue : SUBSET Keys]
    /\ DevOK(p.dev) /\ CallsOK(p.call) /\ Told(p.dev, p.call)
    /\ Occupied(p.dev) => p.dev.slot.key \in Keys

DeliveryInv ==
    /\ PassOK([dev |-> dev, call |-> call, queue |-> queue])
    /\ typed \in Nat

-----------------------------------------------------------------------------
(* The controller.                                                         *)

(* What the constants are: commands of calls, lines of the console, slots. *)
LEMMA OpsTyped ==
    /\ Len(Ops) \in Nat /\ Calls \subseteq Nat \ {0}
    /\ \A c \in Calls : Ops[c] \in OpNames
    /\ TypedOps \subseteq OpNames /\ Slots \in Nat \ {0}
  BY DeliveryAssumption DEF OpNames, Calls

(* A command leads to a state, and a START from nowhere but IDLE.          *)
LEMMA LeadsFacts ==
  ASSUME NEW op \in OpNames, NEW state
  PROVE  /\ Leads(op, state) \subseteq States
         /\ op = "START" /\ state # "IDLE" => Leads(op, state) = {}
<1>1. op = "STOP" => Leads(op, state) = {"STOPPING"}
  BY DEF Leads
<1>2. op = "START" /\ state = "IDLE" => Leads(op, state) = {"STARTING"}
  BY DEF Leads
<1>3. op = "START" /\ state # "IDLE" => Leads(op, state) = {}
  BY DEF Leads
<1>4. op = "START_FAILED" => Leads(op, state) \in {{"RETRY_WAIT"}, {}}
  BY DEF Leads
<1>5. op = "RESET_IDLE" => Leads(op, state) \in {{"IDLE", "RETRY_WAIT"}, {}}
  BY DEF Leads
<1>6. op = "STATUS" => Leads(op, state) = {}
  BY DEF Leads
<1> QED
  BY <1>1, <1>2, <1>3, <1>4, <1>5, <1>6 DEF OpNames, States

(* What ran after a command is a finite set.                               *)
LEMMA OthersFinite ==
  ASSUME NEW ran, NEW i \in Nat, NEW n \in Nat
  PROVE  IsFiniteSet(Since(ran, i, n)) /\ IsFiniteSet(OthersSince(ran, i, n))
<1> DEFINE f == [k \in (i + 1)..n |-> ran[k]]
<1>1. f \in Surjection((i + 1)..n, Since(ran, i, n))
  BY DEF Surjection, Since
<1>2. IsFiniteSet((i + 1)..n)
  BY FS_Interval
<1> HIDE DEF f
<1>3. IsFiniteSet(Since(ran, i, n))
  BY <1>1, <1>2, FS_Surjection
<1>4. OthersSince(ran, i, n) \in SUBSET Since(ran, i, n)
  BY DEF OthersSince
<1> QED
  BY <1>3, <1>4, FS_Subset

(* One more command leaves what ran before it, and adds to what ran since. *)
LEMMA HistoryGrows ==
  ASSUME NEW ran \in Seq(Cmd), NEW cmd \in Cmd, NEW i \in 1..Len(ran)
  PROVE  /\ \A n \in 0..Len(ran) :
              OthersSince(Append(ran, cmd), i, n) = OthersSince(ran, i, n)
         /\ Since(Append(ran, cmd), i, Len(ran) + 1) = Since(ran, i, Len(ran)) \union {cmd}
         /\ Cardinality(OthersSince(ran, i, Len(ran))) >= Slots =>
              Cardinality(OthersSince(Append(ran, cmd), i, Len(ran) + 1)) >= Slots
<1> DEFINE n == Len(ran)
           w == Append(ran, cmd)
<1>1. /\ n \in Nat /\ i \in 1..n /\ Len(w) = n + 1 /\ w[n + 1] = cmd
      /\ \A k \in 1..n : w[k] = ran[k]
  OBVIOUS
<1> HIDE DEF n, w
<1>2. ASSUME NEW x \in 0..n
      PROVE  Since(w, i, x) = Since(ran, i, x)
  <2>1. \A k \in (i + 1)..x : k \in 1..n
    BY <1>1
  <2> QED
    BY <1>1, <2>1 DEF Since
<1>3. Since(w, i, n + 1) = Since(ran, i, n) \union {cmd}
  <2>1. \A k \in (i + 1)..(n + 1) : k = n + 1 \/ k \in (i + 1)..n
    BY <1>1
  <2>2. n + 1 \in (i + 1)..(n + 1) /\ \A k \in (i + 1)..n : k \in (i + 1)..(n + 1)
    BY <1>1
  <2>3. Since(w, i, n + 1) = Since(w, i, n) \union {cmd}
    BY <1>1, <2>1, <2>2 DEF Since
  <2>4. n \in 0..n
    BY <1>1
  <2> QED
    BY <1>2, <2>3, <2>4
<1>4. \A x \in 0..n : OthersSince(w, i, x) = OthersSince(ran, i, x)
  BY <1>1, <1>2 DEF OthersSince
<1>5. ASSUME Cardinality(OthersSince(ran, i, n)) >= Slots
      PROVE  Cardinality(OthersSince(w, i, n + 1)) >= Slots
  <2>1. OthersSince(ran, i, n) \in SUBSET OthersSince(w, i, n + 1)
    BY <1>1, <1>3 DEF OthersSince
  <2>2. i \in Nat /\ n \in Nat /\ n + 1 \in Nat
    BY <1>1
  <2>3. IsFiniteSet(OthersSince(ran, i, n)) /\ IsFiniteSet(OthersSince(w, i, n + 1))
    BY <2>2, OthersFinite
  <2> DEFINE a == Cardinality(OthersSince(ran, i, n))
             b == Cardinality(OthersSince(w, i, n + 1))
  <2>4. a \in Nat /\ b \in Nat /\ a <= b
    BY <2>1, <2>3, FS_Subset, FS_CardinalityType
  <2>5. a >= Slots /\ Slots \in Nat
    BY <1>5, OpsTyped
  <2> HIDE DEF a, b
  <2>6. b >= Slots
    BY <2>4, <2>5
  <2> QED
    BY <2>6 DEF b
<1> QED
  BY <1>3, <1>4, <1>5 DEF n, w

(* A command may run if it is a STOP, or if it has not run for Slots       *)
(* others.                                                                 *)
LEMMA AtMostGrows ==
  ASSUME NEW ran \in Seq(Cmd), NEW cmd \in Cmd, AtMost(ran),
         \A i \in 1..Len(ran) : ran[i] = cmd /\ cmd.op # "STOP" =>
             Cardinality(OthersSince(ran, i, Len(ran))) >= Slots
  PROVE  AtMost(Append(ran, cmd))
<1> DEFINE n == Len(ran)
           w == Append(ran, cmd)
<1>1. /\ n \in Nat /\ Len(w) = n + 1 /\ w[n + 1] = cmd
      /\ \A k \in 1..n : w[k] = ran[k]
  OBVIOUS
<1> SUFFICES ASSUME NEW i \in 1..Len(w), NEW j \in 1..Len(w), i < j, w[i] = w[j],
                    w[i].op # "STOP"
             PROVE  Cardinality(OthersSince(w, i, j - 1)) >= Slots
  BY DEF AtMost
<1> HIDE DEF w, n
<1>2. i \in 1..n /\ j - 1 \in 0..n /\ w[i] = ran[i]
  BY <1>1
<1>3. OthersSince(w, i, j - 1) = OthersSince(ran, i, j - 1)
  BY <1>2, HistoryGrows DEF n, w
<1>4. CASE j \in 1..n
  <2>1. ran[i] = ran[j] /\ ran[i].op # "STOP"
    BY <1>1, <1>2, <1>4
  <2>2. Cardinality(OthersSince(ran, i, j - 1)) >= Slots
    BY <1>2, <1>4, <2>1 DEF AtMost, n
  <2> QED
    BY <1>3, <2>2
<1>5. CASE j = n + 1
  <2>1. ran[i] = cmd /\ cmd.op # "STOP" /\ j - 1 = n
    <3>1. j - 1 = n
      BY <1>1, <1>5
    <3>2. w[j] = cmd
      BY <1>1, <1>5
    <3> QED
      BY <1>2, <3>1, <3>2
  <2>2. Cardinality(OthersSince(ran, i, Len(ran))) >= Slots
    BY <1>2, <2>1 DEF n
  <2> QED
    BY <1>3, <2>1, <2>2 DEF n
<1> QED
  BY <1>1, <1>4, <1>5

(* Some command other than START comes before every START.                 *)
LEMMA OperatorStays ==
  ASSUME NEW d, DevOK(d), NEW cmd \in Cmd, cmd.op = "START" => d.state # "UNKNOWN"
  PROVE  /\ OperatorFirst(Append(d.ran, cmd))
         /\ \E i \in 1..Len(Append(d.ran, cmd)) : Append(d.ran, cmd)[i].op # "START"
<1> DEFINE w == Append(d.ran, cmd)
           n == Len(d.ran)
<1>1. d.ran \in Seq(Cmd)
  BY DEF DevOK, DevType
<1>2. /\ n \in Nat /\ Len(w) = n + 1 /\ w[n + 1] = cmd
      /\ \A i \in 1..n : w[i] = d.ran[i]
  BY <1>1
<1>3. \E i \in 1..Len(w) : w[i].op # "START" /\ (i <= n \/ cmd.op # "START")
  <2>1. CASE cmd.op # "START"
    <3>1. n + 1 \in 1..Len(w)
      BY <1>2
    <3> QED
      BY <2>1, <3>1, <1>2
  <2>2. CASE cmd.op = "START"
    <3>1. PICK i \in 1..n : d.ran[i].op # "START"
      BY <2>2 DEF DevOK, Commanded
    <3>2. i \in 1..Len(w) /\ i <= n /\ w[i] = d.ran[i]
      BY <1>2, <3>1
    <3> QED
      BY <3>1, <3>2
  <2> QED
    BY <2>1, <2>2
<1>4. OperatorFirst(w)
  <2> SUFFICES ASSUME NEW j \in 1..Len(w), w[j].op = "START"
               PROVE  \E i \in 1..(j - 1) : w[i].op # "START"
    BY DEF OperatorFirst
  <2> HIDE DEF w, n
  <2>1. CASE j \in 1..n
    <3>1. PICK i \in 1..(j - 1) : d.ran[i].op # "START"
      BY <1>2, <2>1 DEF DevOK, OperatorFirst, n
    <3>2. i \in 1..n
      BY <1>2, <2>1
    <3>3. w[i] = d.ran[i]
      BY <1>2, <3>2
    <3> QED
      BY <3>1, <3>3
  <2>2. CASE j = n + 1
    BY <1>2, <1>3, <2>2
  <2> QED
    BY <1>2, <2>1, <2>2
<1> QED
  BY <1>3, <1>4

(* A set that holds all of a full ring has Slots members.                  *)
LEMMA FullRing ==
  ASSUME NEW ring \in Seq(Cmd), Len(ring) = Slots, NEW S, IsFiniteSet(S),
         \A q \in 1..Slots : ring[q] \in S,
         \A p, q \in 1..Slots : ring[p] = ring[q] => p = q
  PROVE  Cardinality(S) >= Slots
<1> DEFINE f == [q \in 1..Slots |-> ring[q]]
<1>1. f \in Injection(1..Slots, S)
  BY DEF Injection, IsInjective
<1>2. Slots \in Nat \ {0}
  BY OpsTyped
<1>3. Cardinality(1..Slots) = Slots
  BY <1>2, FS_Interval
<1> HIDE DEF f
<1>4. Cardinality(1..Slots) <= Cardinality(S) /\ Cardinality(S) \in Nat
  BY <1>1, FS_Injection, FS_CardinalityType
<1> QED
  BY <1>2, <1>3, <1>4

(* A command that the ring does not hold is run and remembered: if it ran  *)
(* before in this boot, Slots others have pushed it out since.             *)
LEMMA RememberKeeps ==
  ASSUME NEW d, DevOK(d), NEW cmd \in Cmd, ~Seen(d, cmd), NEW s \in States,
         cmd.op = "START" => d.state = "IDLE",
         NEW e, e = [d EXCEPT !.state = s, !.ring = Remember(d, cmd),
                              !.ran = Append(d.ran, cmd)]
  PROVE  /\ DevOK(e) /\ e.slot = d.slot
         /\ \A i \in 1..Len(e.ring) : e.ring[i] = cmd \/ Contains(d.ring, e.ring[i])
<1> DEFINE r == Remember(d, cmd)
           w == Append(d.ran, cmd)
           n == Len(d.ran)
           m == Len(d.ring)
           shift == IF m = Slots THEN 1 ELSE 0
           l == m + 1 - shift
<1>1. /\ d.ring \in Seq(Cmd) /\ d.ran \in Seq(Cmd) /\ Slots \in Nat \ {0}
      /\ n \in Nat /\ m \in Nat /\ m <= Slots
  BY OpsTyped DEF DevOK, DevType, RingDistinct
<1>2. /\ w \in Seq(Cmd) /\ Len(w) = n + 1 /\ w[n + 1] = cmd
      /\ \A i \in 1..n : w[i] = d.ran[i]
  BY <1>1
<1>3. /\ \A i \in 1..m : d.ring[i] # cmd
      /\ \A p, q \in 1..m : d.ring[p] = d.ring[q] => p = q
  BY DEF DevOK, RingDistinct, Seen, Contains
<1>4. /\ r \in Seq(Cmd) /\ Len(r) = l /\ r[l] = cmd /\ l \in 1..Slots
      /\ \A q \in 1..(l - 1) : r[q] = d.ring[q + shift] /\ q + shift \in 1..m
  <2>1. CASE m = Slots
    BY <1>1, <2>1 DEF Remember
  <2>2. CASE m # Slots
    BY <1>1, <2>2 DEF Remember
  <2> QED
    BY <2>1, <2>2
<1>5. shift \in {0, 1} /\ (shift = 1 => l = Slots) /\ l = m + 1 - shift /\ l \in Nat
  <2> HIDE DEF m
  <2>1. CASE m = Slots
    BY <1>1, <2>1
  <2>2. CASE m # Slots
    BY <1>1, <2>2
  <2> QED
    BY <2>1, <2>2
<1>6. e \in DevType /\ e.ring = r /\ e.ran = w /\ e.slot = d.slot /\ e.state = s
  <2> HIDE DEF r, w, n, m, shift, l
  <2>1. e = [d EXCEPT !.state = s, !.ring = r, !.ran = w]
    BY DEF r, w
  <2> QED
    BY <1>2, <1>4, <2>1 DEF DevOK, DevType
<1> HIDE DEF r, w, n, m, shift, l
<1>7. \A q \in 1..l : q = l \/ q \in 1..(l - 1)
  BY <1>5
<1>8. \A p, q \in 1..l : r[p] = r[q] => p = q
  <2> SUFFICES ASSUME NEW p \in 1..l, NEW q \in 1..l, r[p] = r[q]
               PROVE  p = q
    OBVIOUS
  <2>1. CASE p \in 1..(l - 1) /\ q \in 1..(l - 1)
    <3>1. p + shift = q + shift
      BY <1>3, <1>4, <2>1
    <3> QED
      BY <1>5, <3>1
  <2>2. ASSUME NEW x \in 1..(l - 1) PROVE r[x] # cmd
    BY <1>3, <1>4
  <2> QED
    BY <1>4, <1>7, <2>1, <2>2
<1>9. RingDistinct(e)
  <2>1. l <= Slots
    BY <1>1, <1>4
  <2> QED
    BY <1>4, <1>6, <1>8, <2>1 DEF RingDistinct
<1>10. \A i \in 1..Len(r) : r[i] = cmd \/ Contains(d.ring, r[i])
  <2> SUFFICES ASSUME NEW i \in 1..(l - 1) PROVE Contains(d.ring, r[i])
    BY <1>4, <1>7
  <2> QED
    BY <1>4 DEF Contains, m
<1>11. AtMost(w)
  <2>1. \A i \in 1..n : d.ran[i] = cmd => ~InRing(d, i)
    BY <1>3 DEF InRing, m
  <2>2. AtMost(d.ran) /\ Traced(d)
    BY DEF DevOK
  <2>3. \A i \in 1..n : d.ran[i] = cmd /\ cmd.op # "STOP" =>
          Cardinality(OthersSince(d.ran, i, n)) >= Slots
    BY <2>1, <2>2 DEF Traced, n
  <2> QED
    BY <1>1, <2>2, <2>3, AtMostGrows DEF w, n
<1>12. Traced(e)
  <2> SUFFICES ASSUME NEW i \in 1..(n + 1), w[i].op # "STOP"
               PROVE  InRing(e, i) \/ Cardinality(OthersSince(w, i, n + 1)) >= Slots
    BY <1>2, <1>6 DEF Traced
  <2>1. CASE i = n + 1
    <3>1. \A q \in (l + 1)..l : FALSE
      BY <1>5
    <3>2. l \in 1..l
      BY <1>4
    <3>3. InRing(e, i)
      BY <1>2, <1>4, <1>6, <2>1, <3>1, <3>2 DEF InRing
    <3> QED
      BY <3>3
  <2>2. CASE i \in 1..n
    <3>1. /\ Since(w, i, n + 1) = Since(d.ran, i, n) \union {cmd}
          /\ Cardinality(OthersSince(d.ran, i, n)) >= Slots =>
               Cardinality(OthersSince(w, i, n + 1)) >= Slots
      BY <1>1, <2>2, HistoryGrows DEF w, n
    <3>2. w[i] = d.ran[i]
      BY <1>2, <2>2
    <3>3. CASE ~InRing(d, i)
      <4>1. Cardinality(OthersSince(d.ran, i, n)) >= Slots
        BY <2>2, <3>2, <3>3 DEF DevOK, Traced, n
      <4> QED
        BY <3>1, <4>1
    <3>4. ASSUME InRing(d, i)
          PROVE  InRing(e, i) \/ Cardinality(OthersSince(w, i, n + 1)) >= Slots
      <4>1. PICK p \in 1..m : /\ d.ring[p] = w[i]
                              /\ \A q \in (p + 1)..m : d.ring[q] \in Since(d.ran, i, n)
        BY <3>2, <3>4 DEF InRing, m, n
      <4>2. ASSUME NEW q \in 1..l, q + shift > p
            PROVE  r[q] \in Since(w, i, n + 1)
        <5>1. CASE q = l
          BY <1>4, <3>1, <5>1
        <5>2. CASE q \in 1..(l - 1)
          <6>1. q + shift \in (p + 1)..m
            BY <1>1, <1>4, <4>2, <5>2
          <6> QED
            BY <1>4, <3>1, <4>1, <5>2, <6>1
        <5> QED
          BY <1>7, <5>1, <5>2
      <4>3. CASE p > shift
        <5>1. p - shift \in 1..(l - 1) /\ p - shift + shift = p
          BY <1>1, <1>5, <4>3
        <5>2. r[p - shift] = w[i]
          BY <1>4, <4>1, <5>1
        <5>3. \A q \in (p - shift + 1)..l : q \in 1..l /\ q + shift > p
          BY <1>1, <1>5, <4>3
        <5>4. p - shift \in 1..l
          BY <1>5, <5>1
        <5>5. InRing(e, i)
          BY <1>2, <1>4, <1>6, <4>2, <5>2, <5>3, <5>4 DEF InRing
        <5> QED
          BY <5>5
      <4>4. CASE ~(p > shift)
        <5>1. p = 1 /\ shift = 1 /\ l = Slots
          BY <1>5, <4>4
        <5>2. ASSUME NEW q \in 1..l
              PROVE  r[q] \in OthersSince(w, i, n + 1)
          <6>1. r[q] \in Since(w, i, n + 1)
            BY <4>2, <5>1
          <6>2. r[q] # w[i]
            <7>1. CASE q = l
              BY <1>3, <1>4, <4>1, <7>1
            <7>2. CASE q \in 1..(l - 1)
              <8>1. q + shift # p
                BY <5>1
              <8> QED
                BY <1>3, <1>4, <4>1, <7>2, <8>1
            <7> QED
              BY <1>7, <7>1, <7>2
          <6> QED
            BY <6>1, <6>2 DEF OthersSince
        <5>3. IsFiniteSet(OthersSince(w, i, n + 1))
          <6>1. i \in Nat /\ n + 1 \in Nat
            BY <1>1
          <6> QED
            BY <6>1, OthersFinite
        <5> QED
          BY <1>4, <1>8, <5>1, <5>2, <5>3, FullRing
      <4> QED
        BY <4>3, <4>4
    <3> QED
      BY <3>3, <3>4
  <2> QED
    BY <1>1, <2>1, <2>2
<1>13. OperatorFirst(w) /\ Commanded(e)
  <2>1. OperatorFirst(w) /\ \E i \in 1..Len(w) : w[i].op # "START"
    BY OperatorStays DEF w
  <2> QED
    BY <1>6, <2>1 DEF Commanded
<1> QED
  BY <1>6, <1>9, <1>10, <1>11, <1>12, <1>13 DEF DevOK

(* A STOP that the ring holds is run again and not remembered again.       *)
LEMMA RunAgainKeeps ==
  ASSUME NEW d, DevOK(d), NEW cmd \in Cmd, cmd.op = "STOP", NEW s \in States,
         NEW e, e = [d EXCEPT !.state = s, !.ran = Append(d.ran, cmd)]
  PROVE  DevOK(e) /\ e.slot = d.slot /\ e.ring = d.ring
<1> DEFINE w == Append(d.ran, cmd)
           n == Len(d.ran)
<1>1. d.ran \in Seq(Cmd) /\ n \in Nat
  BY DEF DevOK, DevType
<1>2. /\ w \in Seq(Cmd) /\ Len(w) = n + 1 /\ w[n + 1] = cmd
      /\ \A i \in 1..n : w[i] = d.ran[i]
  BY <1>1
<1>3. e \in DevType /\ e.ring = d.ring /\ e.ran = w /\ e.slot = d.slot
  <2> HIDE DEF w, n
  <2>1. e = [d EXCEPT !.state = s, !.ran = w]
    BY DEF w
  <2> QED
    BY <1>2, <2>1 DEF DevOK, DevType
<1> HIDE DEF w, n
<1>4. RingDistinct(e)
  BY <1>3 DEF DevOK, RingDistinct
<1>5. AtMost(w)
  BY <1>1, AtMostGrows DEF DevOK, w
<1>6. Traced(e)
  <2> SUFFICES ASSUME NEW i \in 1..(n + 1), w[i].op # "STOP"
               PROVE  InRing(e, i) \/ Cardinality(OthersSince(w, i, n + 1)) >= Slots
    BY <1>2, <1>3 DEF Traced
  <2>1. i \in 1..n /\ w[i] = d.ran[i]
    BY <1>1, <1>2
  <2>2. /\ Since(w, i, n + 1) = Since(d.ran, i, n) \union {cmd}
        /\ Cardinality(OthersSince(d.ran, i, n)) >= Slots =>
             Cardinality(OthersSince(w, i, n + 1)) >= Slots
    BY <1>1, <2>1, HistoryGrows DEF w, n
  <2>3. InRing(d, i) \/ Cardinality(OthersSince(d.ran, i, n)) >= Slots
    BY <2>1 DEF DevOK, Traced, n
  <2>4. InRing(d, i) => InRing(e, i)
    BY <1>2, <1>3, <2>1, <2>2 DEF InRing, n
  <2> QED
    BY <2>2, <2>3, <2>4
<1>7. OperatorFirst(w) /\ Commanded(e)
  <2>1. OperatorFirst(w) /\ \E i \in 1..Len(w) : w[i].op # "START"
    BY OperatorStays DEF w
  <2> QED
    BY <1>3, <2>1 DEF Commanded
<1> QED
  BY <1>3, <1>4, <1>5, <1>6, <1>7 DEF DevOK

(* What an accepted command leaves behind.                                 *)
LEMMA AcceptedKeeps ==
  ASSUME NEW d, DevOK(d), NEW cmd \in Cmd, ~Duplicate(d, cmd), NEW e \in Accepted(d, cmd)
  PROVE  /\ DevOK(e) /\ e.slot = d.slot
         /\ \A i \in 1..Len(e.ring) : e.ring[i] = cmd \/ Contains(d.ring, e.ring[i])
<1>1. cmd.op \in OpNames /\ d.state \in States
  BY DEF Cmd, DevOK, DevType
<1>2. PICK s \in Leads(cmd.op, d.state) :
        e = [d EXCEPT !.state = s,
                      !.ring = IF Seen(d, cmd) THEN d.ring ELSE Remember(d, cmd),
                      !.ran = Append(d.ran, cmd)]
  BY DEF Accepted
<1>3. s \in States /\ (cmd.op = "START" => d.state = "IDLE")
  BY <1>1, LeadsFacts
<1>4. CASE ~Seen(d, cmd)
  <2>1. e = [d EXCEPT !.state = s, !.ring = Remember(d, cmd), !.ran = Append(d.ran, cmd)]
    BY <1>2, <1>4
  <2> QED
    BY <1>3, <1>4, <2>1, RememberKeeps
<1>5. CASE Seen(d, cmd)
  <2>1. e = [d EXCEPT !.state = s, !.ring = d.ring, !.ran = Append(d.ran, cmd)]
    BY <1>2, <1>5
  <2>2. e = [d EXCEPT !.state = s, !.ran = Append(d.ran, cmd)]
    BY <2>1 DEF DevOK, DevType
  <2>3. cmd.op = "STOP"
    BY <1>5 DEF Duplicate
  <2>4. DevOK(e) /\ e.slot = d.slot /\ e.ring = d.ring
    BY <1>3, <2>2, <2>3, RunAgainKeeps
  <2> QED
    BY <2>4 DEF Contains
<1> QED
  BY <1>4, <1>5

(* The whole of handleCommand(): an acceptance says that the command was   *)
(* run, now or by somebody whom the ring remembers.                        *)
LEMMA HandleKeeps ==
  ASSUME NEW d, DevOK(d), NEW cmd \in Cmd, NEW h \in Handle(d, cmd)
  PROVE  /\ DevOK(h.dev) /\ h.dev.slot = d.slot /\ h.ran \in BOOLEAN /\ h.status \in Nat
         /\ \A i \in 1..Len(h.dev.ring) :
              Contains(d.ring, h.dev.ring[i]) \/ (h.ran /\ h.dev.ring[i] = cmd)
         /\ h.status = 202 => h.ran \/ (Contains(d.ring, cmd) /\ cmd.op # "STOP")
<1> DEFINE Goal == /\ DevOK(h.dev) /\ h.dev.slot = d.slot /\ h.ran \in BOOLEAN /\ h.status \in Nat
                   /\ \A i \in 1..Len(h.dev.ring) :
                        Contains(d.ring, h.dev.ring[i]) \/ (h.ran /\ h.dev.ring[i] = cmd)
                   /\ h.status = 202 => h.ran \/ (Contains(d.ring, cmd) /\ cmd.op # "STOP")
           Kept == \/ h = [dev |-> d, status |-> 200, ran |-> FALSE]
                   \/ h = [dev |-> d, status |-> 409, ran |-> FALSE]
           Known == h = [dev |-> d, status |-> 202, ran |-> FALSE] /\ Duplicate(d, cmd)
           Done == ~Duplicate(d, cmd)
                   /\ \E e \in Accepted(d, cmd) : h = [dev |-> e, status |-> 202, ran |-> TRUE]
<1>1. Kept \/ Known \/ Done
  <2>1. CASE cmd.op = "STATUS"
    BY <2>1 DEF Handle
  <2>2. CASE cmd.op # "STATUS" /\ Duplicate(d, cmd)
    BY <2>2 DEF Handle
  <2>3. CASE cmd.op # "STATUS" /\ ~Duplicate(d, cmd)
    BY <2>3 DEF Handle
  <2> QED
    BY <2>1, <2>2, <2>3
<1>2. \A i \in 1..Len(d.ring) : Contains(d.ring, d.ring[i])
  BY DEF Contains
<1>3. Kept => Goal
  <2>1. CASE h = [dev |-> d, status |-> 200, ran |-> FALSE]
    BY <1>2, <2>1
  <2>2. CASE h = [dev |-> d, status |-> 409, ran |-> FALSE]
    BY <1>2, <2>2
  <2> QED
    BY <2>1, <2>2
<1>4. Known => Goal
  BY <1>2 DEF Duplicate, Seen
<1>5. Done => Goal
  <2> SUFFICES ASSUME ~Duplicate(d, cmd), NEW e \in Accepted(d, cmd),
                      h = [dev |-> e, status |-> 202, ran |-> TRUE]
               PROVE  Goal
    OBVIOUS
  <2>1. /\ DevOK(e) /\ e.slot = d.slot
        /\ \A i \in 1..Len(e.ring) : e.ring[i] = cmd \/ Contains(d.ring, e.ring[i])
    BY AcceptedKeeps
  <2>2. h.dev = e /\ h.ran \in BOOLEAN /\ h.ran /\ h.status \in Nat
    OBVIOUS
  <2>3. DevOK(h.dev) /\ h.dev.slot = d.slot
    BY <2>1, <2>2, Zenon
  <2>4. \A i \in 1..Len(h.dev.ring) : h.dev.ring[i] = cmd \/ Contains(d.ring, h.dev.ring[i])
    BY <2>1, <2>2, Zenon
  <2> QED
    BY <2>2, <2>3, <2>4, Zenon
<1> QED
  <2> HIDE DEF Goal, Kept, Known, Done
  <2>1. Goal
    BY <1>1, <1>3, <1>4, <1>5
  <2> QED
    BY <2>1 DEF Goal

-----------------------------------------------------------------------------
(* The server.                                                             *)

SlotType == [key : (Calls \union {NoCall}) \X Nat, read : Nat, timedOut : BOOLEAN]

(* The empty slot is typed.                                                *)
LEMMA NoClientTyped == NoClient \in SlotType
  BY DEF NoClient, SlotType

(* The slot is nobody's business but the server's.                         *)
LEMMA SlotIsFree ==
  ASSUME NEW d, DevOK(d), NEW slot \in SlotType
  PROVE  /\ DevOK([d EXCEPT !.slot = slot])
         /\ [d EXCEPT !.slot = slot].ring = d.ring /\ [d EXCEPT !.slot = slot].slot = slot
<1> DEFINE e == [d EXCEPT !.slot = slot]
<1>1. e \in DevType /\ e.ring = d.ring /\ e.ran = d.ran /\ e.state = d.state /\ e.slot = slot
  BY DEF DevOK, DevType, SlotType
<1> HIDE DEF e
<1>2. DevOK(e)
  BY <1>1 DEF DevOK, RingDistinct, Traced, InRing, Commanded
<1> QED
  BY <1>1, <1>2 DEF e

(* Reading on in the slot disturbs nothing.                                *)
LEMMA SlotKeeps ==
  ASSUME NEW p, PassOK(p), NEW slot \in SlotType, slot = NoClient \/ slot.key \in Keys
  PROVE  PassOK([p EXCEPT !.dev.slot = slot])
<1> DEFINE e == [p.dev EXCEPT !.slot = slot]
           q == [p EXCEPT !.dev = e]
<1>1. DevOK(e) /\ e.ring = p.dev.ring /\ e.slot = slot /\ e \in DevType
  BY SlotIsFree DEF PassOK, DevOK
<1>2. q = [p EXCEPT !.dev.slot = slot]
  OBVIOUS
<1> HIDE DEF e
<1>3. q \in [dev : DevType, call : CallType, queue : SUBSET Keys] /\ q.dev = e /\ q.call = p.call
  BY <1>1 DEF PassOK
<1> HIDE DEF q
<1>4. Told(q.dev, q.call) /\ CallsOK(q.call)
  BY <1>1, <1>3 DEF PassOK, Told
<1>5. PassOK(q)
  BY <1>1, <1>3, <1>4 DEF PassOK, Occupied
<1> QED
  BY <1>2, <1>5

(* Closing the connection disturbs nothing.                                *)
LEMMA CloseKeeps ==
  ASSUME NEW p, PassOK(p)
  PROVE  PassOK(Close(p))
  BY SlotKeeps, NoClientTyped DEF Close

(* The answer goes to the attempt that asked; what an attempt has run is   *)
(* noted with its call.                                                    *)
LEMMA AnswerKeeps ==
  ASSUME NEW p, PassOK(p), Occupied(p.dev), NEW q \in Answer(p)
  PROVE  PassOK(q)
<1> DEFINE c == p.dev.slot.key[1]
           n == p.dev.slot.key[2]
           cmd == [op |-> Ops[c], id |-> c]
           old == p.call[c]
<1>1. c \in Calls /\ n \in Nat /\ p.dev.slot.key = <<c, n>>
  BY DEF PassOK, Keys
<1>2. cmd \in Cmd /\ cmd.op = Ops[c] /\ cmd.id = c
  BY <1>1, OpsTyped DEF Cmd
<1>3. PICK h \in Handle(p.dev, cmd) :
        q = Close([p EXCEPT !.dev = h.dev,
                            !.call = [p.call EXCEPT
                              ![c].answer = IF HungUp(p.call, <<c, n>>) THEN @ ELSE h.status,
                              ![c].ran = IF h.ran /\ p.call[c].at # "returned"
                                         THEN @ \union {n} ELSE @]])
  BY <1>1 DEF Answer
<1> DEFINE a == IF HungUp(p.call, <<c, n>>) THEN old.answer ELSE h.status
           R == IF h.ran /\ old.at # "returned" THEN old.ran \union {n} ELSE old.ran
           new == [old EXCEPT !.answer = a, !.ran = R]
           calls == [p.call EXCEPT ![c] = new]
           r == [p EXCEPT !.dev = h.dev, !.call = calls]
<1>4. q = Close(r)
  BY <1>3
<1>5. /\ DevOK(h.dev) /\ h.dev.slot = p.dev.slot /\ h.ran \in BOOLEAN /\ h.status \in Nat
      /\ \A i \in 1..Len(h.dev.ring) :
           Contains(p.dev.ring, h.dev.ring[i]) \/ (h.ran /\ h.dev.ring[i] = cmd)
      /\ h.status = 202 => h.ran \/ (Contains(p.dev.ring, cmd) /\ cmd.op # "STOP")
  BY <1>2, HandleKeeps DEF PassOK
<1> HIDE DEF c, n, cmd
<1>6. old \in [at : {"waiting", "trying", "pausing", "returned"}, try : Nat,
               answer : Nat, ran : SUBSET Nat]
  BY <1>1 DEF PassOK, CallType
<1>7. a \in Nat /\ R \in SUBSET Nat /\ old.ran \subseteq R
  BY <1>1, <1>5, <1>6
<1>8. /\ new \in [at : {"waiting", "trying", "pausing", "returned"}, try : Nat,
                  answer : Nat, ran : SUBSET Nat]
      /\ new.at = old.at /\ new.try = old.try /\ new.answer = a /\ new.ran = R
  <2> HIDE DEF a, R, old
  <2> QED
    BY <1>6, <1>7
<1>9. /\ calls \in CallType /\ calls[c] = new
      /\ \A x \in Calls : x # c => calls[x] = p.call[x]
  <2> HIDE DEF new
  <2> QED
    BY <1>1, <1>8 DEF PassOK, CallType
<1>10. HungUp(p.call, <<c, n>>) <=> old.at # "trying" \/ old.try # n
  BY DEF HungUp
<1>11. \A i \in 1..Len(p.dev.ring) : \A x \in Calls : p.dev.ring[i].id = x =>
         p.call[x].ran # {} \/ p.call[x].at = "returned"
  BY DEF PassOK, Told
<1>12. AnswerOK(c, old)
  BY <1>1 DEF PassOK, CallsOK
<1>13. AnswerOK(c, new)
  <2>1. a # 0 => new.at = "trying"
    BY <1>8, <1>10, <1>12 DEF AnswerOK
  <2>2. ASSUME a = 202, HungUp(p.call, <<c, n>>)
        PROVE  IF Ops[c] = "STOP" THEN old.try \in R ELSE R # {}
    <3>1. IF Ops[c] = "STOP" THEN old.try \in old.ran ELSE old.ran # {}
      BY <2>2, <1>12 DEF AnswerOK
    <3> QED
      BY <3>1, <1>7
  <2>3. ASSUME a = 202, ~HungUp(p.call, <<c, n>>)
        PROVE  IF Ops[c] = "STOP" THEN old.try \in R ELSE R # {}
    <3>1. h.status = 202 /\ old.at = "trying" /\ old.try = n
      BY <2>3, <1>10
    <3>2. CASE h.ran
      BY <3>1, <3>2
    <3>3. CASE Contains(p.dev.ring, cmd) /\ cmd.op # "STOP"
      <4>1. PICK i \in 1..Len(p.dev.ring) : p.dev.ring[i] = cmd
        BY <3>3 DEF Contains
      <4>2. old.ran # {}
        BY <1>1, <1>2, <1>11, <3>1, <4>1
      <4> QED
        BY <1>2, <1>7, <3>3, <4>2
    <3> QED
      BY <1>5, <3>1, <3>2, <3>3
  <2> QED
    BY <1>8, <2>1, <2>2, <2>3 DEF AnswerOK
<1>14. ASSUME NEW i \in 1..Len(h.dev.ring), NEW x \in Calls, h.dev.ring[i].id = x
       PROVE  calls[x].ran # {} \/ calls[x].at = "returned"
  <2>1. CASE Contains(p.dev.ring, h.dev.ring[i])
    <3>1. PICK j \in 1..Len(p.dev.ring) : p.dev.ring[j] = h.dev.ring[i]
      BY <2>1 DEF Contains
    <3>2. p.call[x].ran # {} \/ p.call[x].at = "returned"
      BY <1>11, <1>14, <3>1
    <3> QED
      BY <1>7, <1>8, <1>9, <3>2
  <2>2. CASE h.ran /\ h.dev.ring[i] = cmd
    <3>1. x = c
      BY <1>2, <1>14, <2>2
    <3>2. R # {} \/ old.at = "returned"
      BY <2>2
    <3> QED
      BY <1>8, <1>9, <3>1, <3>2
  <2> QED
    BY <1>5, <2>1, <2>2
<1>15. PassOK(r)
  <2> HIDE DEF calls, new, old
  <2>1. r \in [dev : DevType, call : CallType, queue : SUBSET Keys] /\ r.dev = h.dev /\ r.call = calls
    BY <1>5, <1>9 DEF PassOK, DevOK
  <2> HIDE DEF r
  <2>2. CallsOK(r.call)
    BY <1>9, <1>13, <2>1 DEF PassOK, CallsOK
  <2>3. Told(r.dev, r.call)
    BY <1>14, <2>1 DEF Told
  <2>4. Occupied(r.dev) => r.dev.slot.key \in Keys
    BY <1>5, <2>1 DEF PassOK, Occupied
  <2> QED
    BY <1>5, <2>1, <2>2, <2>3, <2>4 DEF PassOK
<1> QED
  BY <1>4, <1>15, CloseKeeps

(* Reading a request, to its end or not, keeps what a pass keeps: a        *)
(* complete one is run and answered once.                                  *)
LEMMA DrainKeeps ==
  ASSUME NEW p, PassOK(p), Occupied(p.dev), NEW q \in Drain(p)
  PROVE  PassOK(q)
<1> DEFINE m == p.dev.slot.read + 1
           slot == [p.dev.slot EXCEPT !.read = m]
           r == [p EXCEPT !.dev.slot.read = m]
<1>1. p.dev.slot \in SlotType /\ p.dev.slot.key \in Keys /\ m \in Nat
  BY DEF PassOK, DevType, SlotType
<1>2. slot \in SlotType /\ slot.key = p.dev.slot.key
  <2> HIDE DEF m
  <2> QED
    BY <1>1 DEF SlotType
<1>3. r = [p EXCEPT !.dev.slot = slot]
  OBVIOUS
<1>4. PassOK(r)
  BY <1>1, <1>2, <1>3, SlotKeeps
<1>5. r.dev.slot = slot
  <2> HIDE DEF slot, r
  <2> QED
    BY <1>3 DEF PassOK, DevType
<1>6. Occupied(r.dev)
  <2>1. slot.key # NoClient.key
    BY <1>1, <1>2, OpsTyped DEF Keys, NoClient, NoCall
  <2> HIDE DEF slot, r
  <2> QED
    BY <1>5, <2>1 DEF Occupied
<1>7. \/ q \in Answer(r)
      \/ q = Close(r)
      \/ q = r
  BY DEF Drain
<1> HIDE DEF r
<1> QED
  BY <1>4, <1>6, <1>7, AnswerKeeps, CloseKeeps

(* Nor does a whole service(): the client of the slot, then a waiting one. *)
LEMMA ServiceKeeps ==
  ASSUME NEW p, PassOK(p), NEW wire, NEW q \in ServiceExisting(p, wire), NEW r \in AcceptNew(q, wire)
  PROVE  PassOK(r)
<1>1. PassOK(q)
  <2>1. q = p \/ q = Close(p) \/ (Occupied(p.dev) /\ q \in Drain(p))
    BY DEF ServiceExisting, Starved
  <2> QED
    BY <2>1, CloseKeeps, DrainKeeps
<1>2. CASE r = q
  BY <1>1, <1>2
<1>3. CASE r # q
  <2>1. PICK k \in q.queue :
          r = [q EXCEPT !.dev.slot = [NoClient EXCEPT !.key = k], !.queue = @ \ {k}]
    BY <1>3 DEF AcceptNew
  <2> DEFINE slot == [NoClient EXCEPT !.key = k]
             e == [q EXCEPT !.dev.slot = slot]
             rest == q.queue \ {k}
  <2>2. k \in Keys /\ q.queue \subseteq Keys
    BY <1>1 DEF PassOK
  <2>3. slot \in SlotType /\ slot.key = k
    BY <2>2, NoClientTyped DEF SlotType, Keys
  <2> HIDE DEF slot
  <2>4. PassOK(e)
    BY <1>1, <2>2, <2>3, SlotKeeps
  <2>5. r = [e EXCEPT !.queue = rest]
    BY <1>1, <2>1 DEF PassOK, slot
  <2> HIDE DEF e
  <2>6. rest \subseteq Keys
    BY <2>2
  <2> HIDE DEF rest
  <2>7. r \in [dev : DevType, call : CallType, queue : SUBSET Keys] /\ r.dev = e.dev /\ r.call = e.call
    BY <2>4, <2>5, <2>6 DEF PassOK
  <2> QED
    BY <2>4, <2>7 DEF PassOK
<1> QED
  BY <1>2, <1>3

-----------------------------------------------------------------------------
(* The invariant holds.                                                    *)

(* The invariant in terms of the variables.                                *)
LEMMA Pieced ==
  ASSUME NEW d, NEW calls, NEW keys
  PROVE  PassOK([dev |-> d, call |-> calls, queue |-> keys]) <=>
           /\ DevOK(d) /\ CallsOK(calls) /\ Told(d, calls) /\ keys \subseteq Keys
           /\ Occupied(d) => d.slot.key \in Keys
  BY DEF PassOK, DevOK, CallsOK

(* A device that has just booted is in order: nothing ran, nothing is      *)
(* remembered.                                                             *)
LEMMA PowerUpOK == DevOK(PowerUp) /\ ~Occupied(PowerUp) /\ PowerUp.ring = <<>>
<1> DEFINE none == NoClient
<1>1. none \in SlotType
  BY NoClientTyped
<1>2. PowerUp = [state |-> "UNKNOWN", ring |-> <<>>, slot |-> none, ran |-> <<>>]
  BY DEF PowerUp
<1>3. Occupied(PowerUp) <=> PowerUp.slot # none
  BY DEF Occupied
<1> HIDE DEF none
<1>4. PowerUp \in DevType /\ PowerUp.ring = <<>> /\ PowerUp.ran = <<>> /\ PowerUp.state = "UNKNOWN"
      /\ PowerUp.slot = none
  BY <1>1, <1>2 DEF DevType, States, SlotType
<1> QED
  BY <1>3, <1>4, OpsTyped DEF DevOK, RingDistinct, Traced, AtMost, OperatorFirst, Commanded

(* The invariant holds at power up.                                        *)
THEOREM InitDeliveryInv == DeliveryInit => DeliveryInv
<1> SUFFICES ASSUME DeliveryInit
             PROVE  DeliveryInv
  OBVIOUS
<1>1. CallsOK(call)
  BY DEF DeliveryInit, CallsOK, CallType, AnswerOK, NewCall
<1>2. Told(dev, call)
  BY PowerUpOK DEF DeliveryInit, Told
<1> QED
  BY <1>1, <1>2, PowerUpOK, Pieced DEF DeliveryInit, DeliveryInv

(* A client step replaces the record of one call by an honest one.         *)
LEMMA CallKeeps ==
  ASSUME NEW c \in Calls, NEW r, CallsOK(call), Told(dev, call),
         r \in [at : {"waiting", "trying", "pausing", "returned"}, try : Nat,
                answer : Nat, ran : SUBSET Nat],
         AnswerOK(c, r), r.ran = call[c].ran \/ r.at = "returned",
         call[c].at = "returned" => r.at = "returned"
  PROVE  CallsOK([call EXCEPT ![c] = r]) /\ Told(dev, [call EXCEPT ![c] = r])
<1> DEFINE calls == [call EXCEPT ![c] = r]
<1>1. calls \in CallType /\ calls[c] = r /\ \A x \in Calls : x # c => calls[x] = call[x]
  BY DEF CallsOK, CallType
<1> HIDE DEF calls
<1>2. CallsOK(calls)
  BY <1>1 DEF CallsOK
<1>3. Told(dev, calls)
  <2> SUFFICES ASSUME NEW i \in 1..Len(dev.ring), NEW x \in Calls, dev.ring[i].id = x
               PROVE  calls[x].ran # {} \/ calls[x].at = "returned"
    BY DEF Told
  <2>1. call[x].ran # {} \/ call[x].at = "returned"
    BY DEF Told
  <2> QED
    BY <1>1, <2>1
<1> QED
  BY <1>2, <1>3 DEF calls

(* No step of a client breaks the invariant: trying, giving up an attempt, *)
(* being answered, or returning.                                           *)
LEMMA ClientKeeps ==
  ASSUME NEW c \in Calls, DeliveryInv, ClientStep(c)
  PROVE  DeliveryInv'
<1> DEFINE CallRecord == [at : {"waiting", "trying", "pausing", "returned"}, try : Nat,
                          answer : Nat, ran : SUBSET Nat]
<1>1. /\ DevOK(dev) /\ CallsOK(call) /\ Told(dev, call) /\ queue \subseteq Keys
      /\ Occupied(dev) => dev.slot.key \in Keys
      /\ typed \in Nat
  BY Pieced DEF DeliveryInv
<1>2. call[c] \in CallRecord /\ AnswerOK(c, call[c]) /\ call \in CallType
  BY <1>1 DEF CallsOK, CallType
<1>3. /\ call' = [call EXCEPT ![c] = call'[c]] /\ call'[c] \in CallRecord
      /\ AnswerOK(c, call'[c]) /\ (call'[c].ran = call[c].ran \/ call'[c].at = "returned")
      /\ call[c].at # "returned"
      /\ queue' \subseteq Keys /\ UNCHANGED <<dev, typed>>
  <2>1. ASSUME Attempt(c), call[c].at \in {"waiting", "pausing"}
        PROVE  <1>3
    <3> DEFINE n == call[c].try + 1
               r == [call[c] EXCEPT !.at = "trying", !.try = n]
    <3>1. call' = [call EXCEPT ![c].at = "trying", ![c].try = n]
      BY <2>1, Zenon DEF Attempt
    <3>2. n \in Nat /\ UNCHANGED <<dev, typed>> /\ queue' = queue \union {<<c, n>>}
      BY <1>2, <2>1 DEF Attempt
    <3> HIDE DEF n
    <3>3. call' = [call EXCEPT ![c] = r]
      BY <1>2, <3>1 DEF CallType
    <3>4. r \in CallRecord /\ r.at = "trying" /\ r.ran = call[c].ran /\ r.answer = call[c].answer
      BY <1>2, <3>2
    <3>5. call[c].answer = 0
      BY <1>2, <2>1 DEF AnswerOK
    <3> HIDE DEF r
    <3>6. call'[c] = r
      BY <1>2, <3>3 DEF CallType
    <3>7. AnswerOK(c, r)
      BY <3>4, <3>5 DEF AnswerOK
    <3>8. <<c, n>> \in Keys
      BY <3>2 DEF Keys
    <3> QED
      BY <1>1, <2>1, <3>2, <3>4, <3>6, <3>7, <3>8, <3>3
  <2>2. ASSUME Return(c), call[c].at = "trying", UNCHANGED <<queue, dev, typed>>
        PROVE  <1>3
    <3> DEFINE r == [NewCall EXCEPT !.at = "returned"]
    <3>1. r \in CallRecord /\ r.at = "returned" /\ r.answer = 0
      BY DEF NewCall
    <3>2. call' = [call EXCEPT ![c] = r]
      BY <2>2 DEF Return
    <3> HIDE DEF r
    <3>3. call'[c] = r
      BY <1>2, <3>2 DEF CallType
    <3>4. AnswerOK(c, r)
      BY <3>1 DEF AnswerOK
    <3> QED
      BY <1>1, <2>2, <3>1, <3>2, <3>3, <3>4
  <2>3. ASSUME call[c].at = "trying", UNCHANGED <<queue, dev, typed>>,
               call' = [call EXCEPT ![c].at = "pausing", ![c].answer = 0]
        PROVE  <1>3
    <3> DEFINE r == [call[c] EXCEPT !.at = "pausing", !.answer = 0]
    <3>1. r \in CallRecord /\ r.at = "pausing" /\ r.answer = 0 /\ r.ran = call[c].ran
      BY <1>2
    <3>2. call' = [call EXCEPT ![c] = r]
      BY <1>2, <2>3 DEF CallType
    <3> HIDE DEF r
    <3>3. call'[c] = r
      BY <1>2, <3>2 DEF CallType
    <3>4. AnswerOK(c, r)
      BY <3>1 DEF AnswerOK
    <3> QED
      BY <1>1, <2>3, <3>1, <3>2, <3>3, <3>4
  <2>4. CASE Acquire(c)
    BY <2>1, <2>4 DEF Acquire
  <2>5. CASE Retry(c)
    BY <2>1, <2>5 DEF Retry
  <2>6. CASE GetAnswer(c)
    BY <2>2, <2>6 DEF GetAnswer
  <2>7. CASE NoAnswer(c)
    BY <2>2, <2>3, <2>7 DEF NoAnswer
  <2> QED
    BY <2>4, <2>5, <2>6, <2>7 DEF ClientStep
<1>4. CallsOK(call') /\ Told(dev, call')
  BY <1>1, <1>3, CallKeeps
<1> QED
  BY <1>1, <1>3, <1>4, Pieced DEF DeliveryInv

(* A command of the console has an id of no call, and answers nobody.      *)
LEMMA TypeKeeps ==
  ASSUME NEW op \in TypedOps, DeliveryInv, Type(op)
  PROVE  DeliveryInv'
<1> DEFINE n == Len(Ops) + typed'
           cmd == [op |-> op, id |-> n]
<1>1. /\ DevOK(dev) /\ CallsOK(call) /\ Told(dev, call) /\ queue \subseteq Keys
      /\ Occupied(dev) => dev.slot.key \in Keys
      /\ typed \in Nat
  BY Pieced DEF DeliveryInv
<1>2. typed' \in Nat /\ n \in Nat /\ n \notin Calls /\ UNCHANGED <<call, queue>>
  BY <1>1, OpsTyped DEF Type, Calls
<1>3. PICK h \in Handle(dev, cmd) : dev' = h.dev
  BY DEF Type
<1>4. cmd \in Cmd /\ cmd.id = n
  BY <1>2, OpsTyped DEF Cmd
<1> HIDE DEF n, cmd
<1>5. /\ DevOK(dev') /\ dev'.slot = dev.slot
      /\ \A i \in 1..Len(dev'.ring) : Contains(dev.ring, dev'.ring[i]) \/ dev'.ring[i] = cmd
  BY <1>1, <1>3, <1>4, HandleKeeps
<1>6. Told(dev', call)
  <2> SUFFICES ASSUME NEW i \in 1..Len(dev'.ring), NEW x \in Calls, dev'.ring[i].id = x
               PROVE  call[x].ran # {} \/ call[x].at = "returned"
    BY DEF Told
  <2>1. PICK j \in 1..Len(dev.ring) : dev.ring[j] = dev'.ring[i]
    BY <1>2, <1>4, <1>5 DEF Contains
  <2> QED
    BY <1>1, <2>1 DEF Told
<1> QED
  BY <1>1, <1>2, <1>5, <1>6, Pieced DEF DeliveryInv, Occupied

(* A controller that moves on by itself does not leave or enter UNKNOWN.   *)
LEMMA SettleKeeps ==
  ASSUME DeliveryInv, Settle
  PROVE  DeliveryInv'
<1>1. /\ DevOK(dev) /\ CallsOK(call) /\ Told(dev, call) /\ queue \subseteq Keys
      /\ Occupied(dev) => dev.slot.key \in Keys
      /\ typed \in Nat
  BY Pieced DEF DeliveryInv
<1>2. PICK s \in SettlesTo(dev.state) : dev' = [dev EXCEPT !.state = s]
  BY DEF Settle
<1>3. s \in States /\ dev.state # "UNKNOWN"
  <2>1. dev.state \in States
    BY <1>1 DEF DevOK, DevType
  <2>2. SettlesTo(dev.state) \in {{"RUNNING", "FAULT"}, {"FAULT"}, {"IDLE"}, {}}
        /\ (dev.state = "UNKNOWN" => SettlesTo(dev.state) = {})
    BY <2>1 DEF SettlesTo, States
  <2> QED
    BY <2>2 DEF States
<1>4. /\ dev' \in DevType /\ dev'.ring = dev.ring /\ dev'.ran = dev.ran /\ dev'.slot = dev.slot
  BY <1>1, <1>2, <1>3 DEF DevOK, DevType
<1>5. DevOK(dev')
  BY <1>1, <1>3, <1>4 DEF DevOK, RingDistinct, Traced, InRing, Commanded
<1>6. Told(dev', call)
  BY <1>1, <1>4 DEF Told
<1> QED
  BY <1>1, <1>4, <1>5, <1>6, Pieced DEF DeliveryInv, Settle, Occupied

(* A slot may run out of time at any moment, and power may fail.           *)
LEMMA OverdueKeeps ==
  ASSUME DeliveryInv, Overdue
  PROVE  DeliveryInv'
<1> DEFINE p == [dev |-> dev, call |-> call, queue |-> queue]
           slot == [dev.slot EXCEPT !.timedOut = TRUE]
<1>1. /\ PassOK(p) /\ DevOK(dev) /\ dev.slot.key \in Keys /\ typed \in Nat
  BY Pieced DEF DeliveryInv, Overdue
<1>2. slot \in SlotType /\ slot.key \in Keys
  BY <1>1 DEF DevOK, DevType, SlotType
<1>3. dev' = [dev EXCEPT !.slot = slot] /\ UNCHANGED <<call, queue, typed>>
  BY DEF Overdue
<1> HIDE DEF slot
<1>4. PassOK([p EXCEPT !.dev.slot = slot])
  BY <1>1, <1>2, SlotKeeps
<1>5. [p EXCEPT !.dev.slot = slot] = [dev |-> dev', call |-> call', queue |-> queue']
  BY <1>3
<1> QED
  BY <1>1, <1>3, <1>4, <1>5 DEF DeliveryInv

(* After a reboot the ring and the slot are empty, and so is the history   *)
(* of this boot.                                                           *)
LEMMA RebootKeeps ==
  ASSUME DeliveryInv, Reboot
  PROVE  DeliveryInv'
<1>1. CallsOK(call) /\ typed \in Nat
  BY Pieced DEF DeliveryInv
<1>2. dev' = PowerUp /\ queue' = {} /\ UNCHANGED <<call, typed>>
  BY DEF Reboot
<1>3. Told(PowerUp, call)
  BY PowerUpOK DEF Told
<1> QED
  BY <1>1, <1>2, <1>3, PowerUpOK, Pieced DEF DeliveryInv

(* Every step keeps the invariant.                                         *)
THEOREM NextDeliveryInv == DeliveryInv /\ [DeliveryNext]_deliveryVars => DeliveryInv'
<1> SUFFICES ASSUME DeliveryInv, [DeliveryNext]_deliveryVars
             PROVE  DeliveryInv'
  OBVIOUS
<1>1. ASSUME NEW wire \in Wires, Service(wire)
      PROVE  DeliveryInv'
  <2> DEFINE here == [dev |-> dev, call |-> call, queue |-> queue]
  <2>1. PICK p \in ServiceExisting(here, wire) : \E q \in AcceptNew(p, wire) :
          dev' = q.dev /\ call' = q.call /\ queue' = q.queue
    BY <1>1 DEF Service
  <2>2. PICK q \in AcceptNew(p, wire) : dev' = q.dev /\ call' = q.call /\ queue' = q.queue
    BY <2>1
  <2>3. PassOK(q)
    BY ServiceKeeps DEF DeliveryInv
  <2>4. q = [dev |-> dev', call |-> call', queue |-> queue']
    BY <2>2, <2>3 DEF PassOK
  <2>5. typed' \in Nat
    BY <1>1 DEF Service, DeliveryInv
  <2> QED
    BY <2>3, <2>4, <2>5 DEF DeliveryInv
<1>2. CASE UNCHANGED deliveryVars
  BY <1>2 DEF deliveryVars, DeliveryInv
<1> QED
  BY <1>1, <1>2, ClientKeeps, TypeKeeps, SettleKeeps, OverdueKeeps, RebootKeeps DEF DeliveryNext

-----------------------------------------------------------------------------
(* The results.                                                            *)

(* So it always holds.                                                     *)
LEMMA InvInvariant == DeliverySpec => []DeliveryInv
  BY InitDeliveryInv, NextDeliveryInv, PTL DEF DeliverySpec

(* However often a request is retried, and however late a retry arrives,   *)
(* a boot executes it once, unless it is a STOP or Slots different         *)
(* commands have been executed in between.                                 *)
THEOREM RunsAtMostOnce == DeliverySpec => []AtMostOnce
<1>1. DeliveryInv => AtMostOnce
  BY Pieced DEF DeliveryInv, DevOK, AtMost, OthersSince, Since, AtMostOnce
<1> QED
  BY <1>1, InvInvariant, PTL

(* An accepted request was done by the attempt answered, or an earlier one *)
(* of the same call.                                                       *)
THEOREM AcceptanceIsTrue == DeliverySpec => []AnsweredMeansDone
<1>1. DeliveryInv => AnsweredMeansDone
  BY Pieced DEF DeliveryInv, CallsOK, AnswerOK, AnsweredMeansDone
<1> QED
  BY <1>1, InvInvariant, PTL

(* A START from before a reboot does not crank by itself.                  *)
THEOREM OperatorComesFirst == DeliverySpec => []StartAwaitsOperator
<1>1. DeliveryInv => StartAwaitsOperator
  BY Pieced DEF DeliveryInv, DevOK, OperatorFirst, StartAwaitsOperator
<1> QED
  BY <1>1, InvInvariant, PTL

=============================================================================
