-------------------------- MODULE HttpRequestProofs --------------------------
(***************************************************************************)
(* Proofs about HttpRequest: for every header that callers may send, in    *)
(* any order and repetition, and for every width of the integers, exactly  *)
(* what a request says is run.                                             *)
(*                                                                         *)
(* The parser keeps no lines, only flags and last values.  The argument    *)
(* relates the parsed request to the lines received so far (Understood):   *)
(* each flag is an existential over the lines, each value the one of the   *)
(* last line of its name.  The rest is planResponse(), which reads the     *)
(* flags in the order of its early returns.                                *)
(***************************************************************************)
EXTENDS HttpRequest, NatSets, TLAPS

-----------------------------------------------------------------------------
(* Numbers.                                                                *)

Parsed == [ok : BOOLEAN, value : Nat]

(* The number that digits stand for is built from the left.                *)
LEMMA NumberRun ==
  ASSUME NEW s \in Seq(Nat)
  PROVE  \E v \in [0..Len(s) -> Nat] :
           /\ v[0] = 0
           /\ \A i \in 1..Len(s) : v[i] = v[i - 1] * 10 + s[i]
           /\ NumberOf(s) = v[Len(s)]
<1> DEFINE n == Len(s)
           Solves(f) == f = [i \in 0..n |-> IF i = 0 THEN 0 ELSE f[i - 1] * 10 + s[i]]
           step == [i \in 1..n |-> [x \in Nat |-> x * 10 + s[i]]]
<1>1. n \in Nat /\ \A i \in 1..n : s[i] \in Nat
  OBVIOUS
<1> HIDE DEF n
<1>2. step \in [1..n -> [Nat -> Nat]]
  BY <1>1
<1>3. \A x \in Nat, i \in 1..n : step[i][x] = x * 10 + s[i]
  OBVIOUS
<1> HIDE DEF step
<1>4. PICK f \in [0..n -> Nat] : IsRun(f, n, 0, step)
  <2>1. 0 \in Nat
    OBVIOUS
  <2> QED
    BY <1>1, <1>2, <2>1, RunExists, Zenon
<1>5. ASSUME NEW i \in 1..n
      PROVE  f[i] = f[i - 1] * 10 + s[i]
  <2>1. f[i - 1] \in Nat
    BY <1>1
  <2> QED
    BY <1>3, <1>4, <2>1 DEF IsRun
<1>6. Solves(f)
  <2>1. \A i \in 0..n : f[i] = IF i = 0 THEN 0 ELSE f[i - 1] * 10 + s[i]
    BY <1>1, <1>4, <1>5 DEF IsRun
  <2> QED
    BY <2>1
<1>7. NumberOf(s) = (CHOOSE g : Solves(g))[n]
  BY DEF NumberOf, n
<1>8. PICK v : Solves(v) /\ NumberOf(s) = v[n]
  <2>1. Solves(CHOOSE g : Solves(g))
    BY <1>6
  <2> HIDE DEF Solves
  <2> QED
    BY <1>7, <2>1
<1>9. v[0] = 0 /\ \A i \in 1..n : v[i] = v[i - 1] * 10 + s[i]
  BY <1>1, <1>8
<1>10. \A i \in 0..n : v[i] = f[i]
  <2>1. StayAlike(v, f, n)
    BY <1>4, <1>5, <1>9 DEF StayAlike, IsRun
  <2> QED
    BY <1>1, <2>1, RunUnique
<1>11. NumberOf(s) = f[n]
  BY <1>1, <1>8, <1>10
<1> QED
  BY <1>4, <1>5, <1>11 DEF n, IsRun

(* The limits are numbers.                                                 *)
LEMMA Widths ==
  /\ UintMax \in Nat /\ UintDigits \in Nat
  /\ MaxHeaderBytes \in Nat \ {0} /\ MaxLineBytes \in Nat \ {0}
  BY RequestAssumption

(* A digit more never makes a number smaller, and the check against        *)
(* overflow, made before the multiplication, is exact.                     *)
LEMMA OverflowCheck ==
  ASSUME NEW x \in Nat, NEW d \in Digit, NEW y, y = x * 10 + d
  PROVE  /\ x <= (UintMax - d) \div 10 <=> y <= UintMax
         /\ y <= UintMax => x <= UintMax
<1>1. UintMax \in Nat /\ d \in 0..9
  BY Widths DEF Digit
<1> QED
  BY <1>1, Z3

(* parseUint32() takes exactly the numbers that fit, at their value: the   *)
(* check for overflow that it makes at each digit refuses no number that   *)
(* fits and lets none through that does not.                               *)
LEMMA ParseAgrees ==
  ASSUME NEW s \in Seq(Nat)
  PROVE  ParseUint32(s) = IF IsNumber(s) THEN [ok |-> TRUE, value |-> NumberOf(s)]
                          ELSE [ok |-> FALSE, value |-> 0]
<1> DEFINE n == Len(s)
           Start == [ok |-> TRUE, value |-> 0]
           Wrong == [ok |-> FALSE, value |-> 0]
           Solves(f) == f = [i \in 0..n |-> IF i = 0 THEN Start ELSE Accumulated(f[i - 1], s[i])]
<1>1. PICK v \in [0..n -> Nat] :
        /\ v[0] = 0
        /\ \A i \in 1..n : v[i] = v[i - 1] * 10 + s[i]
        /\ NumberOf(s) = v[n]
  BY NumberRun
<1>2. n \in Nat /\ UintMax \in Nat /\ \A i \in 1..n : s[i] \in Nat
  BY Widths
<1>3. s = << >> <=> n = 0
  OBVIOUS
<1>4. DOMAIN s = 1..n
  OBVIOUS
<1>5. ParseUint32(s) = IF s = << >> \/ n > UintDigits THEN Wrong ELSE (CHOOSE f : Solves(f))[n]
  BY DEF ParseUint32
<1> DEFINE Good(i) == (\A j \in 1..i : s[j] \in Digit) /\ v[i] <= UintMax
           W == [i \in 0..n |-> IF Good(i) THEN [ok |-> TRUE, value |-> v[i]] ELSE Wrong]
<1> HIDE DEF n
<1>6. W[0] = Start
  <2>1. 0 \in 0..n /\ v[0] = 0 /\ 0 <= UintMax /\ 1..0 = {}
    BY <1>1, <1>2
  <2>2. Good(0)
    BY <2>1
  <2> HIDE DEF Good
  <2> QED
    BY <2>1, <2>2
<1>7. ASSUME NEW i \in 1..n
      PROVE  W[i] = Accumulated(W[i - 1], s[i])
  <2>1. /\ i - 1 \in 0..n /\ i \in 0..n /\ s[i] \in Nat
        /\ v[i - 1] \in Nat /\ v[i] = v[i - 1] * 10 + s[i]
    BY <1>1, <1>2
  <2>2. /\ W[i] = IF Good(i) THEN [ok |-> TRUE, value |-> v[i]] ELSE Wrong
        /\ W[i - 1] = IF Good(i - 1) THEN [ok |-> TRUE, value |-> v[i - 1]] ELSE Wrong
    BY <2>1
  <2>3. Good(i) <=> Good(i - 1) /\ s[i] \in Digit /\ v[i - 1] <= (UintMax - s[i]) \div 10
    <3>1. (\A j \in 1..i : s[j] \in Digit) <=> (\A j \in 1..i - 1 : s[j] \in Digit) /\ s[i] \in Digit
      BY <1>2
    <3>2. s[i] \in Digit =>
            /\ v[i - 1] <= (UintMax - s[i]) \div 10 <=> v[i] <= UintMax
            /\ v[i] <= UintMax => v[i - 1] <= UintMax
      <4> SUFFICES ASSUME s[i] \in Digit
                   PROVE  /\ v[i - 1] <= (UintMax - s[i]) \div 10 <=> v[i] <= UintMax
                          /\ v[i] <= UintMax => v[i - 1] <= UintMax
        OBVIOUS
      <4>1. v[i - 1] \in Nat /\ v[i] = v[i - 1] * 10 + s[i]
        BY <2>1
      <4> QED
        BY <4>1, OverflowCheck, Zenon
    <3> QED
      BY <3>1, <3>2
  <2> HIDE DEF W, Good
  <2>4. CASE Good(i - 1)
    BY <2>1, <2>2, <2>3, <2>4 DEF Accumulated
  <2>5. CASE ~Good(i - 1)
    BY <2>2, <2>3, <2>5 DEF Accumulated
  <2> QED
    BY <2>4, <2>5
<1>8. Solves(W)
  <2>1. \A i \in 0..n : W[i] = IF i = 0 THEN Start ELSE Accumulated(W[i - 1], s[i])
    <3>1. \A i \in 0..n : i = 0 \/ i \in 1..n
      BY <1>2
    <3> HIDE DEF W
    <3> QED
      BY <1>6, <1>7, <3>1
  <2>2. W = [i \in 0..n |-> W[i]]
    OBVIOUS
  <2> HIDE DEF W
  <2> QED
    BY <2>1, <2>2
<1>9. PICK acc : Solves(acc) /\ acc = (CHOOSE f : Solves(f))
  <2> HIDE DEF Solves
  <2> QED
    BY <1>8
<1>10. acc[0] = Start /\ \A i \in 1..n : acc[i] = Accumulated(acc[i - 1], s[i])
  <2>1. \A i \in 0..n : acc[i] = IF i = 0 THEN Start ELSE Accumulated(acc[i - 1], s[i])
    BY <1>9
  <2>2. 0 \in 0..n /\ \A i \in 1..n : i \in 0..n /\ i # 0
    BY <1>2
  <2> QED
    BY <2>1, <2>2
<1>11. acc[n] = W[n]
  <2>1. StayAlike(acc, W, n)
    <3> HIDE DEF W
    <3> QED
      BY <1>6, <1>7, <1>10 DEF StayAlike
  <2> HIDE DEF W
  <2> QED
    BY <1>2, <2>1, RunUnique
<1>12. IsNumber(s) <=> s # << >> /\ n <= UintDigits /\ Good(n)
  BY <1>1, <1>4 DEF IsNumber, n
<1>13. W[n] = IF Good(n) THEN [ok |-> TRUE, value |-> NumberOf(s)] ELSE Wrong
  BY <1>1, <1>2
<1>14. ParseUint32(s) = IF s = << >> \/ n > UintDigits THEN Wrong ELSE W[n]
  <2> HIDE DEF W, Solves, Wrong
  <2> QED
    BY <1>5, <1>9, <1>11
<1>15. n > UintDigits <=> ~(n <= UintDigits)
  BY <1>2, Widths
<1> HIDE DEF W, Good
<1> QED
  BY <1>12, <1>13, <1>14, <1>15

(* What parseUint32() returns fits its type.                               *)
LEMMA ParseType ==
  ASSUME NEW s \in Seq(Nat)
  PROVE  /\ ParseUint32(s).ok \in BOOLEAN
         /\ ParseUint32(s).ok <=> IsNumber(s)
         /\ IsNumber(s) => ParseUint32(s).value = NumberOf(s)
         /\ IsNumber(s) => NumberOf(s) \in 0..UintMax
<1>1. NumberOf(s) \in Nat
  <2>1. PICK v \in [0..Len(s) -> Nat] : NumberOf(s) = v[Len(s)]
    BY NumberRun
  <2>2. Len(s) \in 0..Len(s)
    OBVIOUS
  <2> QED
    BY <2>1, <2>2
<1>2. IsNumber(s) => NumberOf(s) \in 0..UintMax
  BY <1>1, Widths DEF IsNumber
<1>3. IsNumber(s) \in BOOLEAN
  BY DEF IsNumber
<1>4. CASE IsNumber(s)
  <2>1. ParseUint32(s) = [ok |-> TRUE, value |-> NumberOf(s)]
    BY <1>4, ParseAgrees
  <2>2. ParseUint32(s).ok = TRUE /\ ParseUint32(s).value = NumberOf(s)
    BY <2>1
  <2> QED
    BY <1>2, <1>4, <2>2
<1>5. CASE ~IsNumber(s)
  <2>1. ParseUint32(s) = [ok |-> FALSE, value |-> 0]
    BY <1>5, ParseAgrees
  <2>2. ParseUint32(s).ok = FALSE
    BY <2>1
  <2> QED
    BY <1>5, <2>2
<1> QED
  BY <1>4, <1>5

-----------------------------------------------------------------------------
(* The parser.                                                             *)

RequestOK(r) ==
    /\ r = [method |-> r.method, path |-> r.path,
            sincePresent |-> r.sincePresent, sinceMalformed |-> r.sinceMalformed,
            secretPresent |-> r.secretPresent, secret |-> r.secret,
            timingPresent |-> r.timingPresent, timingMalformed |-> r.timingMalformed,
            timing |-> r.timing,
            override |-> r.override, overrideMalformed |-> r.overrideMalformed,
            idPresent |-> r.idPresent, idValid |-> r.idValid, id |-> r.id]
    /\ r.sinceMalformed \in BOOLEAN /\ r.secretPresent \in BOOLEAN
    /\ r.timingPresent \in SUBSET TimingHeaders /\ r.timingMalformed \in BOOLEAN
    /\ r.timing \in [TimingHeaders -> 0..UintMax]
    /\ r.override \in BOOLEAN /\ r.overrideMalformed \in BOOLEAN
    /\ r.idPresent \in BOOLEAN /\ r.idValid \in BOOLEAN

(* The lines begin with a request line, without which nothing is parsed.   *)
LinesOK ==
    /\ lines \in Seq(RequestLines \cup HeaderLines)
    /\ lines # << >> => lines[1] \in RequestLines
    /\ \A i \in 2..Len(lines) : lines[i] \in HeaderLines
    /\ inHeaders \in BOOLEAN
    /\ inHeaders => lines # << >>
    /\ ~inHeaders /\ status = "INCOMPLETE" => lines = << >>
    /\ status = "COMPLETE" => inHeaders
    /\ lines = << >> => req = EmptyRequest

-----------------------------------------------------------------------------
(* What the parsed request says of the lines.                              *)

TargetUnderstood == lines # << >> => req.method = lines[1].method /\ req.path = lines[1].path

SecretUnderstood ==
    /\ req.secretPresent <=> Sent("x-pump-secret") # {}
    /\ req.secretPresent =>
         (req.secret = "right" <=> LastSent("x-pump-secret").text = "right")

TimingUnderstood ==
    /\ \A h \in TimingHeaders : h \in req.timingPresent <=> Sent(h) # {}
    /\ req.timingMalformed <=>
         \E h \in TimingHeaders : \E i \in Sent(h) : ~IsNumber(lines[i].digits)
    /\ ~req.timingMalformed => \A h \in req.timingPresent : req.timing[h] = ValueOf(h)

OverrideUnderstood ==
    /\ req.override <=> \E i \in Sent("x-danger-override") : lines[i].text = "phrase"
    /\ req.overrideMalformed <=> \E i \in Sent("x-danger-override") : lines[i].text # "phrase"

IdUnderstood ==
    /\ req.idPresent <=> Sent("x-request-id") # {}
    /\ req.idPresent =>
         /\ req.idValid <=> LastSent("x-request-id").text \notin {"none", "not_an_id"}
         /\ req.idValid => req.id = LastSent("x-request-id").text
    /\ ~req.idPresent => req.id = "none"

Understood ==
    TargetUnderstood /\ SecretUnderstood /\ TimingUnderstood /\ OverrideUnderstood /\ IdUnderstood

(* A header that comes is the last of its name, and of no other.           *)
LEMMA SentGrows ==
  ASSUME LinesOK, lines # << >>, NEW h \in HeaderLines, lines' = Append(lines, h)
  PROVE  /\ lines'[1] = lines[1]
         /\ \A name :
              /\ \A i \in Sent(name) : lines'[i] = lines[i]
              /\ h.name = name => /\ Sent(name)' = Sent(name) \cup {Len(lines) + 1}
                                  /\ lines'[Len(lines) + 1] = h
                                  /\ LastSent(name)' = h
              /\ h.name # name => /\ Sent(name)' = Sent(name)
                                  /\ Sent(name) # {} => LastSent(name)' = LastSent(name)
<1> DEFINE n == Len(lines)
<1>1. /\ n \in Nat \ {0} /\ Len(lines') = n + 1 /\ lines'[n + 1] = h
      /\ \A i \in 1..n : lines'[i] = lines[i]
  BY DEF LinesOK
<1> HIDE DEF n
<1>2. lines'[1] = lines[1]
  BY <1>1
<1>3. ASSUME NEW name
      PROVE  /\ \A i \in Sent(name) : lines'[i] = lines[i]
             /\ h.name = name => /\ Sent(name)' = Sent(name) \cup {n + 1}
                                 /\ LastSent(name)' = h
             /\ h.name # name => /\ Sent(name)' = Sent(name)
                                 /\ Sent(name) # {} => LastSent(name)' = LastSent(name)
  <2>1. Sent(name) \subseteq 2..n /\ Sent(name) = {i \in 2..n : lines[i].name = name}
    BY DEF Sent, n
  <2>2. Sent(name)' = {i \in 2..n + 1 : lines'[i].name = name}
    BY <1>1 DEF Sent
  <2>3. \A i \in Sent(name) : lines'[i] = lines[i]
    BY <1>1, <2>1
  <2>4. ASSUME h.name = name
        PROVE  Sent(name)' = Sent(name) \cup {n + 1} /\ LastSent(name)' = h
    <3>1. Sent(name)' = Sent(name) \cup {n + 1}
      BY <1>1, <2>1, <2>2, <2>4
    <3>2. \A i \in Sent(name)' : (\A j \in Sent(name)' : j <= i) <=> i = n + 1
      BY <1>1, <2>1, <3>1
    <3>3. (CHOOSE i \in Sent(name)' : \A j \in Sent(name)' : j <= i) = n + 1
      BY <3>1, <3>2
    <3>4. LastSent(name)' = lines'[n + 1]
      BY <3>3 DEF LastSent
    <3> QED
      BY <1>1, <3>1, <3>4
  <2>5. ASSUME h.name # name
        PROVE  /\ Sent(name)' = Sent(name)
               /\ Sent(name) # {} => LastSent(name)' = LastSent(name)
    <3>1. Sent(name)' = Sent(name)
      BY <1>1, <2>1, <2>2, <2>5
    <3>2. ASSUME Sent(name) # {}
          PROVE  LastSent(name)' = LastSent(name)
      <4>1. \E i \in Sent(name) : \A j \in Sent(name) : j <= i
        <5>1. n \in Nat /\ Sent(name) \in SUBSET (0..n)
          BY <1>1, <2>1
        <5> QED
          BY <3>2, <5>1, GreatestMember
      <4> DEFINE last == CHOOSE i \in Sent(name) : \A j \in Sent(name) : j <= i
      <4>2. last \in Sent(name)
        BY <4>1
      <4>3. LastSent(name) = lines[last] /\ LastSent(name)' = lines'[last]
        BY <3>1 DEF LastSent
      <4> HIDE DEF last
      <4> QED
        BY <2>3, <4>2, <4>3
    <3> QED
      BY <3>1, <3>2
  <2> QED
    BY <2>3, <2>4, <2>5
<1> QED
  BY <1>1, <1>2, <1>3 DEF n

(* The headers, field by field: first the secret.                          *)
LEMMA SecretFields ==
  ASSUME NEW r, RequestOK(r), NEW h \in HeaderLines, NEW q, q = WithSecret(r, h)
  PROVE  /\ RequestOK(q) /\ q.method = r.method /\ q.path = r.path
         /\ q.timing = r.timing /\ q.timingPresent = r.timingPresent
         /\ q.timingMalformed = r.timingMalformed
         /\ q.override = r.override /\ q.overrideMalformed = r.overrideMalformed
         /\ q.idPresent = r.idPresent /\ q.idValid = r.idValid /\ q.id = r.id
         /\ q.secretPresent /\ (q.secret = "right" <=> h.text = "right")
<1>1. h.text \in STRING
  BY RequestAssumption
<1>2. q = [r EXCEPT !.secretPresent = TRUE,
                    !.secret = IF h.text = "too_long" THEN "none" ELSE h.text]
  BY DEF WithSecret
<1>3. /\ q.method = r.method /\ q.path = r.path
      /\ q.secretPresent = TRUE /\ q.secret = IF h.text = "too_long" THEN "none" ELSE h.text
      /\ q.timing = r.timing /\ q.timingPresent = r.timingPresent
      /\ q.timingMalformed = r.timingMalformed
      /\ q.override = r.override /\ q.overrideMalformed = r.overrideMalformed
      /\ q.idPresent = r.idPresent /\ q.idValid = r.idValid /\ q.id = r.id
  BY <1>2 DEF RequestOK
<1>4. RequestOK(q)
  BY <1>1, <1>2, <1>3 DEF RequestOK
<1> QED
  BY <1>3, <1>4

(* The timings.                                                            *)
LEMMA TimingFields ==
  ASSUME NEW r, RequestOK(r), NEW h \in HeaderLines, h.name \in TimingHeaders,
         NEW q, q = WithTiming(r, h)
  PROVE  /\ RequestOK(q) /\ q.method = r.method /\ q.path = r.path
         /\ q.secretPresent = r.secretPresent /\ q.secret = r.secret
         /\ q.override = r.override /\ q.overrideMalformed = r.overrideMalformed
         /\ q.idPresent = r.idPresent /\ q.idValid = r.idValid /\ q.id = r.id
         /\ q.timingPresent = r.timingPresent \cup {h.name}
         /\ q.timingMalformed <=> r.timingMalformed \/ ~IsNumber(h.digits)
         /\ IsNumber(h.digits) =>
              \A t \in TimingHeaders :
                q.timing[t] = IF t = h.name THEN NumberOf(h.digits) ELSE r.timing[t]
<1>1. h.digits \in Seq(Nat)
  BY RequestAssumption
<1>2. CASE IsNumber(h.digits)
  <2>1. ParseUint32(h.digits) = [ok |-> TRUE, value |-> NumberOf(h.digits)]
    BY <1>1, <1>2, ParseAgrees
  <2>2. NumberOf(h.digits) \in 0..UintMax
    BY <1>1, <1>2, ParseType
  <2> DEFINE now == [r.timing EXCEPT ![h.name] = NumberOf(h.digits)]
  <2>3. q = [r EXCEPT !.timingPresent = r.timingPresent \cup {h.name}, !.timing = now]
    BY <2>1 DEF WithTiming, RequestOK
  <2>4. now \in [TimingHeaders -> 0..UintMax]
    BY <2>2 DEF RequestOK
  <2> HIDE DEF now
  <2>5. /\ q.method = r.method /\ q.path = r.path
        /\ q.secretPresent = r.secretPresent /\ q.secret = r.secret
        /\ q.timingPresent = r.timingPresent \cup {h.name}
        /\ q.timingMalformed = r.timingMalformed /\ q.timing = now
        /\ q.override = r.override /\ q.overrideMalformed = r.overrideMalformed
        /\ q.idPresent = r.idPresent /\ q.idValid = r.idValid /\ q.id = r.id
    BY <2>3 DEF RequestOK
  <2>6. RequestOK(q)
    BY <2>3, <2>4, <2>5 DEF RequestOK
  <2> QED
    BY <1>2, <2>5, <2>6 DEF now, RequestOK
<1>3. CASE ~IsNumber(h.digits)
  <2>1. ParseUint32(h.digits) = [ok |-> FALSE, value |-> 0]
    BY <1>1, <1>3, ParseAgrees
  <2>2. q = [r EXCEPT !.timingPresent = @ \cup {h.name}, !.timingMalformed = TRUE]
    BY <2>1 DEF WithTiming, RequestOK
  <2>5. /\ q.method = r.method /\ q.path = r.path
        /\ q.secretPresent = r.secretPresent /\ q.secret = r.secret
        /\ q.timingPresent = r.timingPresent \cup {h.name}
        /\ q.timingMalformed = TRUE /\ q.timing = r.timing
        /\ q.override = r.override /\ q.overrideMalformed = r.overrideMalformed
        /\ q.idPresent = r.idPresent /\ q.idValid = r.idValid /\ q.id = r.id
    BY <2>2 DEF RequestOK
  <2>6. RequestOK(q)
    BY <2>2, <2>5 DEF RequestOK
  <2> QED
    BY <1>3, <2>5, <2>6
<1> QED
  BY <1>2, <1>3

(* The override.                                                           *)
LEMMA OverrideFields ==
  ASSUME NEW r, RequestOK(r), NEW h \in HeaderLines, NEW q, q = WithOverride(r, h)
  PROVE  /\ RequestOK(q) /\ q.method = r.method /\ q.path = r.path
         /\ q.secretPresent = r.secretPresent /\ q.secret = r.secret
         /\ q.timing = r.timing /\ q.timingPresent = r.timingPresent
         /\ q.timingMalformed = r.timingMalformed
         /\ q.idPresent = r.idPresent /\ q.idValid = r.idValid /\ q.id = r.id
         /\ q.override <=> r.override \/ h.text = "phrase"
         /\ q.overrideMalformed <=> r.overrideMalformed \/ h.text # "phrase"
<1>1. CASE h.text = "phrase"
  <2>1. q = [r EXCEPT !.override = TRUE]
    BY <1>1 DEF WithOverride
  <2> QED
    BY <1>1, <2>1 DEF RequestOK
<1>2. CASE h.text # "phrase"
  <2>1. q = [r EXCEPT !.overrideMalformed = TRUE]
    BY <1>2 DEF WithOverride
  <2> QED
    BY <1>2, <2>1 DEF RequestOK
<1> QED
  BY <1>1, <1>2

(* The request id.                                                         *)
LEMMA IdFields ==
  ASSUME NEW r, RequestOK(r), NEW h \in HeaderLines, NEW q, q = WithRequestId(r, h)
  PROVE  /\ RequestOK(q) /\ q.method = r.method /\ q.path = r.path
         /\ q.secretPresent = r.secretPresent /\ q.secret = r.secret
         /\ q.timing = r.timing /\ q.timingPresent = r.timingPresent
         /\ q.timingMalformed = r.timingMalformed
         /\ q.override = r.override /\ q.overrideMalformed = r.overrideMalformed
         /\ q.idPresent
         /\ q.idValid <=> h.text \notin {"none", "not_an_id"}
         /\ q.idValid => q.id = h.text
<1>1. h.text \in STRING
  BY RequestAssumption
<1>2. CASE h.text \in {"none", "not_an_id"}
  <2>1. q = [r EXCEPT !.idPresent = TRUE, !.idValid = FALSE, !.id = "none"]
    BY <1>2 DEF WithRequestId
  <2>5. /\ q.method = r.method /\ q.path = r.path
        /\ q.secretPresent = r.secretPresent /\ q.secret = r.secret
        /\ q.timing = r.timing /\ q.timingPresent = r.timingPresent
        /\ q.timingMalformed = r.timingMalformed
        /\ q.override = r.override /\ q.overrideMalformed = r.overrideMalformed
        /\ q.idPresent = TRUE /\ q.idValid = FALSE /\ q.id = "none"
    BY <2>1 DEF RequestOK
  <2>6. RequestOK(q)
    BY <2>1, <2>5 DEF RequestOK
  <2> QED
    BY <1>2, <2>5, <2>6
<1>3. CASE h.text \notin {"none", "not_an_id"}
  <2>1. q = [r EXCEPT !.idPresent = TRUE, !.idValid = TRUE, !.id = h.text]
    BY <1>3 DEF WithRequestId
  <2>5. /\ q.method = r.method /\ q.path = r.path
        /\ q.secretPresent = r.secretPresent /\ q.secret = r.secret
        /\ q.timing = r.timing /\ q.timingPresent = r.timingPresent
        /\ q.timingMalformed = r.timingMalformed
        /\ q.override = r.override /\ q.overrideMalformed = r.overrideMalformed
        /\ q.idPresent = TRUE /\ q.idValid = TRUE /\ q.id = h.text
    BY <2>1 DEF RequestOK
  <2>6. RequestOK(q)
    BY <1>1, <2>1, <2>5 DEF RequestOK
  <2> QED
    BY <1>3, <2>5, <2>6
<1> QED
  BY <1>2, <1>3

(* One more header leaves the parsed request in agreement with the lines.  *)
LEMMA HeaderUnderstood ==
  ASSUME RequestOK(req), LinesOK, Understood, lines # << >>,
         NEW h \in HeaderLines, HeaderLine(h)
  PROVE  RequestOK(req') /\ Understood'
<1> DEFINE n == Len(lines)
<1>1. lines' = Append(lines, h)
  BY DEF HeaderLine
<1>2. /\ lines'[1] = lines[1] /\ lines' # << >> /\ h.digits \in Seq(Nat)
      /\ n \in Nat /\ Len(lines') = n + 1
  BY <1>1, RequestAssumption, SentGrows DEF LinesOK
<1>3. ASSUME NEW name
      PROVE  /\ \A i \in Sent(name) : lines'[i] = lines[i]
             /\ h.name = name => /\ Sent(name)' = Sent(name) \cup {n + 1}
                                 /\ lines'[n + 1] = h
                                 /\ LastSent(name)' = h
             /\ h.name # name => /\ Sent(name)' = Sent(name)
                                 /\ Sent(name) # {} => LastSent(name)' = LastSent(name)
  BY <1>1, SentGrows
<1> HIDE DEF n
<1>4. req'.method = req.method /\ req'.path = req.path => TargetUnderstood'
  BY <1>2 DEF Understood, TargetUnderstood
<1>5. ASSUME h.name # "x-pump-secret",
             req'.secretPresent = req.secretPresent, req'.secret = req.secret
      PROVE  SecretUnderstood'
  BY <1>3, <1>5 DEF Understood, SecretUnderstood, RequestOK
<1>6. ASSUME h.name \notin TimingHeaders, req'.timing = req.timing,
             req'.timingPresent = req.timingPresent,
             req'.timingMalformed = req.timingMalformed
      PROVE  TimingUnderstood'
  <2>1. ASSUME NEW t \in TimingHeaders
        PROVE  /\ Sent(t)' = Sent(t) /\ \A i \in Sent(t) : lines'[i] = lines[i]
               /\ Sent(t) # {} => ValueOf(t)' = ValueOf(t)
    <3>1. h.name # t
      BY <1>6
    <3> QED
      BY <1>3, <3>1 DEF ValueOf
  <2> QED
    BY <1>6, <2>1 DEF Understood, TimingUnderstood, RequestOK
<1>7. ASSUME h.name # "x-danger-override", req'.override = req.override,
             req'.overrideMalformed = req.overrideMalformed
      PROVE  OverrideUnderstood'
  BY <1>3, <1>7 DEF Understood, OverrideUnderstood, RequestOK
<1>8. ASSUME h.name # "x-request-id", req'.idPresent = req.idPresent,
             req'.idValid = req.idValid, req'.id = req.id
      PROVE  IdUnderstood'
  BY <1>3, <1>8 DEF Understood, IdUnderstood, RequestOK
<1>9. CASE h.name = "x-pump-secret"
  <2>1. req' = WithSecret(req, h)
    BY <1>9 DEF HeaderLine, TimingHeaders
  <2>2. SecretUnderstood'
    BY <1>3, <1>9, <2>1, SecretFields DEF SecretUnderstood
  <2> QED
    BY <1>4, <1>6, <1>7, <1>8, <1>9, <2>1, <2>2, SecretFields DEF Understood, TimingHeaders
<1>10. CASE h.name \in TimingHeaders
  <2>1. req' = WithTiming(req, h) /\ h.name # "x-pump-secret"
    BY <1>10 DEF HeaderLine, TimingHeaders
  <2>2. h.name # "x-danger-override" /\ h.name # "x-request-id"
    BY <1>10 DEF TimingHeaders
  <2>3. /\ RequestOK(req') /\ req'.method = req.method /\ req'.path = req.path
        /\ req'.secretPresent = req.secretPresent /\ req'.secret = req.secret
        /\ req'.override = req.override /\ req'.overrideMalformed = req.overrideMalformed
        /\ req'.idPresent = req.idPresent /\ req'.idValid = req.idValid /\ req'.id = req.id
    BY <1>10, <2>1, TimingFields
  <2>4. /\ req'.timingPresent = req.timingPresent \cup {h.name}
        /\ req'.timingMalformed <=> req.timingMalformed \/ ~IsNumber(h.digits)
        /\ IsNumber(h.digits) =>
             \A t \in TimingHeaders :
               req'.timing[t] = IF t = h.name THEN NumberOf(h.digits) ELSE req.timing[t]
    BY <1>10, <2>1, TimingFields
  <2>5. /\ Sent(h.name)' = Sent(h.name) \cup {n + 1} /\ lines'[n + 1] = h
        /\ \A i \in Sent(h.name) : lines'[i] = lines[i]
        /\ ValueOf(h.name)' = NumberOf(h.digits)
    BY <1>3 DEF ValueOf
  <2>6. ASSUME NEW t \in TimingHeaders, t # h.name
        PROVE  /\ Sent(t)' = Sent(t) /\ \A i \in Sent(t) : lines'[i] = lines[i]
               /\ Sent(t) # {} => ValueOf(t)' = ValueOf(t)
    BY <1>3, <2>6 DEF ValueOf
  <2>7. \A t \in TimingHeaders : t \in req'.timingPresent <=> Sent(t)' # {}
    BY <1>10, <2>4, <2>5, <2>6 DEF Understood, TimingUnderstood
  <2>8. ASSUME NEW t \in TimingHeaders
        PROVE  (\E i \in Sent(t)' : ~IsNumber(lines'[i].digits)) <=>
                 \/ \E i \in Sent(t) : ~IsNumber(lines[i].digits)
                 \/ t = h.name /\ ~IsNumber(h.digits)
    BY <2>5, <2>6
  <2>9. req'.timingMalformed <=>
          \E t \in TimingHeaders : \E i \in Sent(t)' : ~IsNumber(lines'[i].digits)
    BY <1>10, <2>4, <2>8 DEF Understood, TimingUnderstood
  <2>10. ASSUME ~req'.timingMalformed, NEW t \in req'.timingPresent
         PROVE  req'.timing[t] = ValueOf(t)'
    <3>1. ~req.timingMalformed /\ IsNumber(h.digits)
      BY <2>4, <2>10
    <3>2. t \in TimingHeaders
      BY <2>3 DEF RequestOK
    <3>3. req'.timing[t] = IF t = h.name THEN NumberOf(h.digits) ELSE req.timing[t]
      BY <2>4, <3>1, <3>2
    <3>4. CASE t = h.name
      BY <2>5, <3>3, <3>4
    <3>5. CASE t # h.name
      <4>1. t \in req.timingPresent /\ req'.timing[t] = req.timing[t]
        BY <2>4, <3>3, <3>5
      <4>2. req.timing[t] = ValueOf(t) /\ Sent(t) # {}
        BY <3>1, <3>2, <4>1 DEF Understood, TimingUnderstood
      <4> QED
        BY <2>6, <3>2, <3>5, <4>1, <4>2
    <3> QED
      BY <3>4, <3>5
  <2>11. TimingUnderstood'
    BY <2>7, <2>9, <2>10 DEF TimingUnderstood
  <2> QED
    BY <1>4, <1>5, <1>7, <1>8, <2>1, <2>2, <2>3, <2>11 DEF Understood
<1>11. CASE h.name = "x-danger-override"
  <2>1. req' = WithOverride(req, h)
    BY <1>11 DEF HeaderLine, TimingHeaders
  <2>2. OverrideUnderstood'
    BY <1>3, <1>11, <2>1, OverrideFields DEF OverrideUnderstood, Understood
  <2> QED
    BY <1>4, <1>5, <1>6, <1>8, <1>11, <2>1, <2>2, OverrideFields DEF Understood, TimingHeaders
<1>12. CASE h.name = "x-request-id"
  <2>1. req' = WithRequestId(req, h)
    BY <1>12 DEF HeaderLine, TimingHeaders
  <2>2. IdUnderstood'
    BY <1>3, <1>12, <2>1, IdFields DEF IdUnderstood
  <2> QED
    BY <1>4, <1>5, <1>6, <1>7, <1>12, <2>1, <2>2, IdFields DEF Understood, TimingHeaders
<1>13. CASE h.name \notin TimingHeaders \cup {"x-pump-secret", "x-danger-override", "x-request-id"}
  <2>1. req' = req
    BY <1>13 DEF HeaderLine
  <2> QED
    BY <1>4, <1>5, <1>6, <1>7, <1>8, <1>13, <2>1 DEF Understood
<1> QED
  BY <1>9, <1>10, <1>11, <1>12, <1>13

-----------------------------------------------------------------------------
(* The inductive invariant.                                                *)

ParserOK ==
    /\ lineLen \in 0..MaxLineBytes /\ total \in 0..(MaxHeaderBytes + 1)
    /\ status \in {"INCOMPLETE", "COMPLETE", "FAILED"}
    /\ status = "FAILED" <=> error # NoError

(* A verdict comes before its answer, and the answer is that of the plan.  *)
Answered ==
    answer # Unanswered =>
      /\ status # "INCOMPLETE"
      /\ status = "FAILED" => answer.run = NoRun
      /\ status = "COMPLETE" => \E accepts \in BOOLEAN : answer = Plan(req, accepts)

RequestInv == ParserOK /\ RequestOK(req) /\ LinesOK /\ Understood /\ Answered

(* Without headers nothing is known but the request line.                  *)
LEMMA NoHeaders ==
  ASSUME lines \in Seq(RequestLines \cup HeaderLines), Len(lines) <= 1, TargetUnderstood,
         RequestOK(req),
         ~req.secretPresent, req.timingPresent = {}, ~req.timingMalformed,
         ~req.override, ~req.overrideMalformed, ~req.idPresent, req.id = "none"
  PROVE  Understood
<1>1. \A name : Sent(name) = {}
  <2>1. Len(lines) \in Nat
    OBVIOUS
  <2> QED
    BY <2>1 DEF Sent
<1> QED
  BY <1>1 DEF Understood, SecretUnderstood, TimingUnderstood, OverrideUnderstood, IdUnderstood

(* A fresh parser.                                                         *)
LEMMA FreshParser == RequestInit => RequestInv
<1> SUFFICES ASSUME RequestInit
             PROVE  RequestInv
  OBVIOUS
<1>1. RequestOK(req)
  <2>1. 0 \in 0..UintMax
    BY Widths
  <2> QED
    BY <2>1 DEF RequestInit, EmptyRequest, RequestOK
<1>2. lines \in Seq(RequestLines \cup HeaderLines) /\ Len(lines) = 0
  BY DEF RequestInit
<1>3. Understood
  BY <1>1, <1>2, NoHeaders DEF RequestInit, EmptyRequest, TargetUnderstood
<1>4. LinesOK
  <2>1. lines = << >> /\ req = EmptyRequest /\ inHeaders = FALSE /\ status = "INCOMPLETE"
    BY DEF RequestInit
  <2>2. \A i \in 2..Len(lines) : lines[i] \in HeaderLines
    BY <1>2
  <2> QED
    BY <1>2, <2>1, <2>2 DEF LinesOK
<1> QED
  BY <1>1, <1>3, <1>4, Widths DEF RequestInit, RequestInv, ParserOK, Answered

(* The request line is the first of the lines.                             *)
LEMMA RequestLineKeeps ==
  ASSUME RequestInv, NEW l \in RequestLines, RequestLine(l)
  PROVE  RequestInv'
<1>1. lines = << >> /\ req = EmptyRequest /\ answer = Unanswered /\ status = "INCOMPLETE"
  BY DEF RequestInv, LinesOK, Answered, RequestLine, Receive
<1>2. /\ lines' = << l >>
      /\ req' = [EmptyRequest EXCEPT !.method = l.method, !.path = l.path,
                                     !.sincePresent = l.sinceGiven,
                                     !.sinceMalformed = l.sinceGiven /\ ~ParseUint32(l.since).ok]
  BY <1>1 DEF RequestLine
<1>3. /\ req'.method = l.method /\ req'.path = l.path
      /\ ~req'.secretPresent /\ req'.timingPresent = {} /\ ~req'.timingMalformed
      /\ ~req'.override /\ ~req'.overrideMalformed /\ ~req'.idPresent /\ req'.id = "none"
  BY <1>2 DEF EmptyRequest
<1>4. RequestOK(req')
  <2>1. 0 \in 0..UintMax
    BY Widths
  <2>2. PICK b \in BOOLEAN : b = (l.sinceGiven /\ ~ParseUint32(l.since).ok)
    OBVIOUS
  <2>3. req' = [EmptyRequest EXCEPT !.method = l.method, !.path = l.path,
                                    !.sincePresent = l.sinceGiven, !.sinceMalformed = b]
    BY <1>2, <2>2
  <2> QED
    BY <2>1, <2>3 DEF EmptyRequest, RequestOK
<1>5. /\ lines' \in Seq(RequestLines \cup HeaderLines) /\ Len(lines') = 1 /\ lines'[1] = l
      /\ lines' # << >>
  BY <1>2
<1>6. TargetUnderstood'
  BY <1>3, <1>5 DEF TargetUnderstood
<1>7. Understood'
  <2>1. \A name : Sent(name)' = {}
    BY <1>5 DEF Sent
  <2> QED
    BY <1>3, <1>6, <2>1
       DEF Understood, SecretUnderstood, TimingUnderstood, OverrideUnderstood, IdUnderstood
<1>8. ParserOK' /\ inHeaders' \in BOOLEAN /\ status' \in {"INCOMPLETE", "FAILED"}
      /\ (~inHeaders' => status' = "FAILED")
  <2>1. inHeaders = FALSE /\ error = NoError
    BY <1>1 DEF RequestInv, LinesOK, ParserOK, RequestLine
  <2>2. lineLen' \in 0..MaxLineBytes /\ total' \in 0..(MaxHeaderBytes + 1)
    BY Widths DEF RequestLine, Receive, RequestInv, ParserOK
  <2>3. \/ \E why : Fail(400, why) /\ UNCHANGED inHeaders
        \/ Continue /\ inHeaders' = TRUE
    BY DEF RequestLine
  <2>4. CASE \E why : Fail(400, why) /\ UNCHANGED inHeaders
    <3>1. PICK why : error' = [status |-> 400, code |-> why]
      BY <2>4 DEF Fail
    <3>2. error'.status = 400 /\ NoError.status = 0
      BY <3>1 DEF NoError
    <3>3. error' # NoError /\ status' = "FAILED" /\ inHeaders' = FALSE
      BY <2>1, <2>4, <3>2 DEF Fail
    <3> QED
      BY <2>2, <3>3 DEF ParserOK
  <2>5. CASE Continue /\ inHeaders' = TRUE
    BY <1>1, <2>1, <2>2, <2>5 DEF Continue, ParserOK
  <2> QED
    BY <2>3, <2>4, <2>5
<1>9. LinesOK'
  BY <1>5, <1>8 DEF LinesOK
<1>10. Answered'
  BY <1>1 DEF Answered, RequestLine
<1> QED
  BY <1>4, <1>7, <1>8, <1>9, <1>10 DEF RequestInv

(* A header is one more line.                                              *)
LEMMA HeaderLineKeeps ==
  ASSUME RequestInv, NEW h \in HeaderLines, HeaderLine(h)
  PROVE  RequestInv'
<1>1. /\ lines # << >> /\ answer = Unanswered /\ inHeaders = TRUE
      /\ status = "INCOMPLETE" /\ error = NoError
  BY DEF RequestInv, ParserOK, LinesOK, Answered, HeaderLine, Receive
<1>2. RequestOK(req') /\ Understood'
  BY <1>1, HeaderUnderstood DEF RequestInv
<1>3. /\ lines' \in Seq(RequestLines \cup HeaderLines) /\ lines' # << >>
      /\ lines'[1] \in RequestLines
      /\ \A i \in 2..Len(lines') : lines'[i] \in HeaderLines
  <2>1. lines' = Append(lines, h)
    BY DEF HeaderLine
  <2>2. /\ Len(lines) \in Nat \ {0} /\ Len(lines') = Len(lines) + 1
        /\ lines' \in Seq(RequestLines \cup HeaderLines)
        /\ \A i \in 1..Len(lines) : lines'[i] = lines[i]
        /\ lines'[Len(lines) + 1] = h
    BY <1>1, <2>1 DEF RequestInv, LinesOK
  <2> QED
    BY <1>1, <2>2 DEF RequestInv, LinesOK
<1>4. ParserOK' /\ inHeaders' = TRUE /\ status' \in {"INCOMPLETE", "FAILED"}
  <2>1. lineLen' \in 0..MaxLineBytes /\ total' \in 0..(MaxHeaderBytes + 1) /\ inHeaders' = TRUE
    BY <1>1, Widths DEF HeaderLine, Receive, RequestInv, ParserOK
  <2>2. Fail(400, "malformed_header") \/ Continue
    BY DEF HeaderLine
  <2> QED
    BY <1>1, <2>1, <2>2 DEF Fail, Continue, NoError, ParserOK
<1>5. LinesOK'
  BY <1>3, <1>4 DEF LinesOK
<1>6. Answered'
  BY <1>1 DEF Answered, HeaderLine
<1> QED
  BY <1>2, <1>4, <1>5, <1>6 DEF RequestInv

(* Steps that leave the lines and the request alone.                       *)
LEMMA NoLineKeeps ==
  ASSUME RequestInv, UNCHANGED <<req, lines, inHeaders>>, ParserOK', Answered',
         status' = "COMPLETE" => inHeaders,
         status = "INCOMPLETE" \/ status' # "INCOMPLETE"
  PROVE  RequestInv'
<1>1. LinesOK'
  BY DEF RequestInv, LinesOK
<1>2. \A name : Sent(name)' = Sent(name) /\ LastSent(name)' = LastSent(name)
  BY DEF Sent, LastSent
<1>3. Understood'
  BY <1>2 DEF RequestInv, Understood, TargetUnderstood, SecretUnderstood, TimingUnderstood,
              OverrideUnderstood, IdUnderstood, ValueOf
<1> QED
  BY <1>1, <1>3 DEF RequestInv

(* Every step keeps the invariant.                                         *)
LEMMA NextRequestInv == RequestInv /\ [RequestNext]_requestVars => RequestInv'
<1> SUFFICES ASSUME RequestInv, [RequestNext]_requestVars
             PROVE  RequestInv'
  OBVIOUS
<1>0. ASSUME status = "INCOMPLETE"
      PROVE  answer = Unanswered /\ error = NoError
  BY <1>0 DEF RequestInv, Answered, ParserOK
<1>1. CASE TooManyBytes
  <2>1. ParserOK'
    BY <1>1, Widths DEF RequestInv, ParserOK, TooManyBytes, Fail, NoError
  <2>2. Answered'
    BY <1>0, <1>1 DEF TooManyBytes, Answered
  <2> QED
    BY <1>1, <2>1, <2>2, NoLineKeeps DEF TooManyBytes, Fail
<1>2. CASE CarriageReturn
  <2>1. ParserOK'
    BY <1>2, Widths DEF RequestInv, ParserOK, CarriageReturn, Receive, Continue
  <2>2. Answered'
    BY <1>0, <1>2 DEF CarriageReturn, Receive, Answered
  <2> QED
    BY <1>2, <2>1, <2>2, NoLineKeeps DEF CarriageReturn, Receive, Continue
<1>3. CASE Character
  <2>1. ParserOK' /\ status' # "COMPLETE"
    <3>1. total' \in 0..(MaxHeaderBytes + 1) /\ status = "INCOMPLETE" /\ error = NoError
      BY <1>0, <1>3, Widths DEF RequestInv, ParserOK, Character, Receive
    <3>2. CASE lineLen < MaxLineBytes
      BY <1>3, <3>1, <3>2, Widths DEF RequestInv, ParserOK, Character, Continue
    <3>3. CASE ~(lineLen < MaxLineBytes)
      BY <1>3, <3>1, <3>3, Widths DEF RequestInv, ParserOK, Character, Fail, NoError
    <3> QED
      BY <3>2, <3>3
  <2>2. Answered' /\ status = "INCOMPLETE"
    BY <1>0, <1>3 DEF Character, Receive, Answered
  <2> QED
    BY <1>3, <2>1, <2>2, NoLineKeeps DEF Character
<1>4. ASSUME NEW l \in RequestLines, RequestLine(l)
      PROVE  RequestInv'
  BY <1>4, RequestLineKeeps
<1>5. CASE BlankLine
  <2>1. ParserOK'
    BY <1>5, Widths DEF RequestInv, ParserOK, BlankLine, Receive
  <2>2. Answered'
    BY <1>0, <1>5 DEF BlankLine, Receive, Answered
  <2> QED
    BY <1>5, <2>1, <2>2, NoLineKeeps DEF BlankLine, Receive
<1>6. ASSUME NEW h \in HeaderLines, HeaderLine(h)
      PROVE  RequestInv'
  BY <1>6, HeaderLineKeeps
<1>7. ASSUME NEW accepts \in BOOLEAN, Respond(accepts)
      PROVE  RequestInv'
  <2>1. ParserOK' /\ status' = status /\ status # "INCOMPLETE"
    BY <1>7 DEF RequestInv, ParserOK, Respond
  <2>2. Answered'
    <3>1. CASE status = "FAILED"
      BY <1>7, <2>1, <3>1 DEF Respond, Answered
    <3>2. CASE status # "FAILED"
      <4>1. answer' = Plan(req, accepts) /\ req' = req
        BY <1>7, <3>2 DEF Respond
      <4>2. \E a \in BOOLEAN : answer' = Plan(req', a)
        BY <4>1
      <4> QED
        BY <2>1, <3>2, <4>2 DEF Answered
    <3> QED
      BY <3>1, <3>2
  <2>3. status = "COMPLETE" => inHeaders
    BY DEF RequestInv, LinesOK
  <2> QED
    BY <1>7, <2>1, <2>2, <2>3, NoLineKeeps DEF Respond
<1>8. CASE Reset
  <2>1. RequestInit'
    BY <1>8 DEF Reset, RequestInit
  <2> QED
    BY <2>1, FreshParser, PTL
<1>9. CASE UNCHANGED requestVars
  <2>1. ParserOK' /\ status' = status
    BY <1>9 DEF RequestInv, ParserOK, requestVars
  <2>2. Answered'
    BY <1>9 DEF RequestInv, Answered, requestVars
  <2>3. status = "COMPLETE" => inHeaders
    BY DEF RequestInv, LinesOK
  <2> QED
    BY <1>9, <2>1, <2>2, <2>3, NoLineKeeps DEF requestVars
<1> QED
  BY <1>1, <1>2, <1>3, <1>4, <1>5, <1>6, <1>7, <1>8, <1>9 DEF RequestNext

(* So it holds in every reachable state.                                   *)
LEMMA RequestInvariance == RequestSpec => []RequestInv
  BY FreshParser, NextRequestInv, PTL DEF RequestSpec

-----------------------------------------------------------------------------
(* planResponse().                                                         *)

Commands == {"START", "STOP", "START_FAILED", "RESET_IDLE", "MAINT_STARTER_ON"}

(* No two entries of the route table share path and method.                *)
LEMMA RoutesDiffer ==
  ASSUME NEW e \in RouteTable, NEW f \in RouteTable, e[1] = f[1], e[2] = f[2]
  PROVE  e = f
  BY DEF RouteTable

(* A path and a method resolve to what the table says of them.             *)
LEMMA Resolved ==
  ASSUME NEW r, NEW c \in Commands
  PROVE  ResolveRoute(r) = c <=>
           \E e \in RouteTable : e[1] = r.path /\ e[2] = r.method /\ e[3] = c
<1>1. CASE \E e \in RouteTable : e[1] = r.path /\ e[2] = r.method
  <2>1. PICK e \in RouteTable : e[1] = r.path /\ e[2] = r.method
    BY <1>1
  <2>2. \A f \in RouteTable : f[1] = r.path /\ f[2] = r.method <=> f = e
    BY <2>1, RoutesDiffer
  <2>3. (CHOOSE f \in RouteTable : f[1] = r.path /\ f[2] = r.method) = e
    BY <2>1, <2>2
  <2>4. ResolveRoute(r) = e[3]
    BY <1>1, <2>3 DEF ResolveRoute
  <2> QED
    BY <2>1, <2>2, <2>4
<1>2. CASE ~\E e \in RouteTable : e[1] = r.path /\ e[2] = r.method
  <2>1. ResolveRoute(r) \in {"404", "405"}
    BY <1>2 DEF ResolveRoute
  <2> QED
    BY <1>2, <2>1 DEF Commands
<1> QED
  BY <1>1, <1>2

(* What resolves to nothing else is refused.                               *)
LEMMA RouteType ==
  ASSUME NEW r
  PROVE  ResolveRoute(r) \in Commands \cup {"STATUS", "LOG", "404", "405"}
<1>1. \A e \in RouteTable : e[3] \in Commands \cup {"STATUS", "LOG"}
  BY DEF RouteTable, Commands
<1> QED
  BY <1>1 DEF ResolveRoute

(* What a command has to satisfy to be run.                                *)
Admitted(r, route) ==
    /\ AuthOk(r) /\ route \in Commands
    /\ r.idPresent => r.idValid
    /\ RequireRequestId => r.idPresent
    /\ ~r.overrideMalformed
    /\ r.timingPresent # {} => route = "START" /\ ~r.timingMalformed
    /\ \A h \in TimingHeaders : ~OutOfRange(r, h)

(* The three lists of rules.                                               *)
LEMMA RuleLists ==
  ASSUME NEW r, NEW route
  PROVE  /\ Len(GeneralRefusals(r, route)) = 3
         /\ Len(LogRefusals(r)) = 1
         /\ Len(CommandRefusals(r, route)) = 8
         /\ \E S : /\ GeneralRefusals(r, route) \in Seq(S)
                   /\ LogRefusals(r) \in Seq(S)
                   /\ CommandRefusals(r, route) \in Seq(S)
<1> DEFINE S == {GeneralRefusals(r, route)[i] : i \in 1..3}
                  \cup {LogRefusals(r)[i] : i \in 1..1}
                  \cup {CommandRefusals(r, route)[i] : i \in 1..8}
<1>1. /\ \A i \in 1..3 : GeneralRefusals(r, route)[i] \in S
      /\ \A i \in 1..1 : LogRefusals(r)[i] \in S
      /\ \A i \in 1..8 : CommandRefusals(r, route)[i] \in S
  OBVIOUS
<1> HIDE DEF S
<1>2. GeneralRefusals(r, route) \in Seq(S) /\ Len(GeneralRefusals(r, route)) = 3
  BY <1>1 DEF GeneralRefusals
<1>3. LogRefusals(r) \in Seq(S) /\ Len(LogRefusals(r)) = 1
  BY <1>1 DEF LogRefusals
<1>4. CommandRefusals(r, route) \in Seq(S) /\ Len(CommandRefusals(r, route)) = 8
  BY <1>1 DEF CommandRefusals
<1> QED
  BY <1>2, <1>3, <1>4

(* Indices in a concatenation.                                             *)
LEMMA Concatenated ==
  ASSUME NEW S, NEW s \in Seq(S), NEW t \in Seq(S)
  PROVE  /\ DOMAIN (s \o t) = 1..(Len(s) + Len(t))
         /\ \A i \in 1..Len(s) : (s \o t)[i] = s[i]
         /\ \A i \in 1..Len(t) : (s \o t)[Len(s) + i] = t[i]
<1>1. DOMAIN (s \o t) = 1..(Len(s) + Len(t))
  OBVIOUS
<1>2. \A i \in 1..Len(s) : (s \o t)[i] = s[i]
  OBVIOUS
<1>3. \A i \in 1..Len(t) : (s \o t)[Len(s) + i] = t[i]
  OBVIOUS
<1> QED
  BY <1>1, <1>2, <1>3

(* The rules in their order.                                               *)
LEMMA RulesInOrder ==
  ASSUME NEW r, NEW route
  PROVE  /\ DOMAIN Refusals(r, route) \in {1..3, 1..4, 1..11}
         /\ route \notin {"LOG", "STATUS"} => DOMAIN Refusals(r, route) = 1..11
         /\ \A i \in 1..3 : Refusals(r, route)[i] = GeneralRefusals(r, route)[i]
         /\ route \notin {"LOG", "STATUS"} =>
              \A i \in 1..8 : Refusals(r, route)[3 + i] = CommandRefusals(r, route)[i]
<1> DEFINE rules == Refusals(r, route)
           G == GeneralRefusals(r, route)
           L == LogRefusals(r)
           C == CommandRefusals(r, route)
<1>1. rules = G \o (CASE route = "LOG" -> L [] route = "STATUS" -> << >> [] OTHER -> C)
  BY DEF Refusals
<1>2. Len(G) = 3 /\ Len(L) = 1 /\ Len(C) = 8
  BY RuleLists
<1>3. PICK S : G \in Seq(S) /\ L \in Seq(S) /\ C \in Seq(S)
  BY RuleLists
<1> HIDE DEF rules, G, L, C
<1>4. CASE route = "LOG"
  <2>0. /\ DOMAIN (G \o L) = 1..(Len(G) + Len(L))
        /\ \A i \in 1..Len(G) : (G \o L)[i] = G[i]
        /\ \A i \in 1..Len(L) : (G \o L)[Len(G) + i] = L[i]
    BY <1>3, Concatenated
  <2>1. rules = G \o L
    BY <1>1, <1>4
  <2>2. DOMAIN rules = 1..4 /\ \A i \in 1..3 : rules[i] = G[i]
    BY <1>2, <2>0, <2>1
  <2> QED
    BY <1>4, <2>2 DEF rules, G
<1>5. CASE route = "STATUS"
  <2>1. rules = G
    BY <1>1, <1>3, <1>5
  <2>2. DOMAIN rules = 1..3 /\ \A i \in 1..3 : rules[i] = G[i]
    BY <1>2, <1>3, <2>1
  <2> QED
    BY <1>5, <2>2 DEF rules, G
<1>6. CASE route \notin {"LOG", "STATUS"}
  <2>0. /\ DOMAIN (G \o C) = 1..(Len(G) + Len(C))
        /\ \A i \in 1..Len(G) : (G \o C)[i] = G[i]
        /\ \A i \in 1..Len(C) : (G \o C)[Len(G) + i] = C[i]
    BY <1>3, Concatenated
  <2>1. rules = G \o C
    BY <1>1, <1>6
  <2>2. /\ DOMAIN rules = 1..11
        /\ \A i \in 1..3 : rules[i] = G[i]
        /\ \A i \in 1..8 : rules[3 + i] = C[i]
    <3>1. DOMAIN rules = 1..11
      BY <1>2, <2>0, <2>1
    <3>2. \A i \in 1..3 : rules[i] = G[i]
      BY <1>2, <2>0, <2>1
    <3>3. \A i \in 1..8 : rules[3 + i] = C[i]
      BY <1>2, <2>0, <2>1
    <3> QED
      BY <3>1, <3>2, <3>3
  <2> QED
    BY <1>6, <2>2 DEF rules, G, C
<1> QED
  BY <1>4, <1>5, <1>6

(* What the rules that hold for every request ask.                         *)
LEMMA GeneralRules ==
  ASSUME NEW r, NEW route
  PROVE  /\ GeneralRefusals(r, route)[1][1] <=> ~AuthOk(r)
         /\ GeneralRefusals(r, route)[1][2] = 401
         /\ GeneralRefusals(r, route)[2][1] <=> route = "404"
         /\ GeneralRefusals(r, route)[3][1] <=> route = "405"
<1>1. AuthOk(r) \in BOOLEAN
  BY DEF AuthOk
<1> QED
  BY <1>1 DEF GeneralRefusals

(* What the rules for a command ask.                                       *)
LEMMA CommandRules ==
  ASSUME NEW r, RequestOK(r), NEW route
  PROVE  LET C == CommandRefusals(r, route)
         IN  /\ C[1][1] <=> r.idPresent /\ ~r.idValid
             /\ C[2][1] <=> RequireRequestId /\ ~r.idPresent
             /\ C[3][1] <=> r.overrideMalformed
             /\ C[4][1] <=> r.timingPresent # {} /\ route # "START"
             /\ C[5][1] <=> r.timingPresent # {} /\ r.timingMalformed
             /\ C[6][1] <=> OutOfRange(r, "x-choke-ms")
             /\ C[7][1] <=> OutOfRange(r, "x-crank-ms")
             /\ C[8][1] <=> OutOfRange(r, "x-unchoke-ms")
<1>1. \A h : OutOfRange(r, h) \in BOOLEAN
  BY DEF OutOfRange
<1>2. /\ r.idPresent \in BOOLEAN /\ r.idValid \in BOOLEAN
      /\ r.overrideMalformed \in BOOLEAN /\ r.timingMalformed \in BOOLEAN
  BY DEF RequestOK
<1>3. RequireRequestId \in BOOLEAN
  BY RequestAssumption
<1> QED
  BY <1>1, <1>2, <1>3 DEF CommandRefusals

(* No rule applies to a command exactly when it is admitted.               *)
LEMMA NothingRefused ==
  ASSUME NEW r, RequestOK(r), NEW route \in Commands
  PROVE  (\A i \in DOMAIN Refusals(r, route) : ~Refusals(r, route)[i][1])
            <=> Admitted(r, route)
<1> DEFINE R == Refusals(r, route)
           G == GeneralRefusals(r, route)
           C == CommandRefusals(r, route)
<1>1. route \notin {"LOG", "STATUS", "404", "405"}
  BY DEF Commands
<1>2. /\ DOMAIN R = 1..11
      /\ \A i \in 1..3 : R[i] = G[i]
      /\ \A i \in 1..8 : R[3 + i] = C[i]
  <2>1. DOMAIN R = 1..11
    BY <1>1, RulesInOrder
  <2>2. \A i \in 1..3 : R[i] = G[i]
    BY RulesInOrder
  <2>3. \A i \in 1..8 : R[3 + i] = C[i]
    BY <1>1, RulesInOrder
  <2> QED
    BY <2>1, <2>2, <2>3
<1>3. (\A h \in TimingHeaders : ~OutOfRange(r, h))
        <=> /\ ~OutOfRange(r, "x-choke-ms")
            /\ ~OutOfRange(r, "x-crank-ms")
            /\ ~OutOfRange(r, "x-unchoke-ms")
  BY DEF TimingHeaders
<1>4. (\A i \in 1..3 : ~G[i][1]) <=> AuthOk(r)
  <2>1. (\A i \in 1..3 : ~G[i][1]) <=> ~G[1][1] /\ ~G[2][1] /\ ~G[3][1]
    OBVIOUS
  <2> QED
    BY <1>1, <2>1, GeneralRules
<1>5. (\A i \in 1..8 : ~C[i][1]) <=>
        /\ ~C[1][1] /\ ~C[2][1] /\ ~C[3][1] /\ ~C[4][1]
        /\ ~C[5][1] /\ ~C[6][1] /\ ~C[7][1] /\ ~C[8][1]
  OBVIOUS
<1>6. /\ C[1][1] <=> r.idPresent /\ ~r.idValid
      /\ C[2][1] <=> RequireRequestId /\ ~r.idPresent
      /\ C[3][1] <=> r.overrideMalformed
      /\ C[4][1] <=> r.timingPresent # {} /\ route # "START"
      /\ C[5][1] <=> r.timingPresent # {} /\ r.timingMalformed
      /\ C[6][1] <=> OutOfRange(r, "x-choke-ms")
      /\ C[7][1] <=> OutOfRange(r, "x-crank-ms")
      /\ C[8][1] <=> OutOfRange(r, "x-unchoke-ms")
  BY CommandRules
<1> HIDE DEF R, G, C
<1>7. (\A i \in 1..11 : ~R[i][1]) <=> (\A i \in 1..3 : ~G[i][1]) /\ (\A i \in 1..8 : ~C[i][1])
  <2>1. \A i \in 1..11 : i \in 1..3 \/ \E j \in 1..8 : i = 3 + j
    <3> TAKE i \in 1..11
    <3>1. CASE i > 3
      <4>1. i - 3 \in 1..8 /\ i = 3 + (i - 3)
        BY <3>1
      <4> QED
        BY <4>1
    <3> QED
      BY <3>1
  <2>2. (\A i \in 1..3 : i \in 1..11) /\ (\A i \in 1..8 : 3 + i \in 1..11)
    OBVIOUS
  <2> QED
    BY <1>2, <2>1, <2>2
<1>8. (\A i \in 1..8 : ~C[i][1]) <=>
        /\ r.idPresent => r.idValid
        /\ RequireRequestId => r.idPresent
        /\ ~r.overrideMalformed
        /\ r.timingPresent # {} => route = "START" /\ ~r.timingMalformed
        /\ \A h \in TimingHeaders : ~OutOfRange(r, h)
  BY <1>3, <1>5, <1>6
<1> QED
  BY <1>2, <1>4, <1>7, <1>8 DEF Admitted, R

(* The first rule that applies, in words: without the secret the answer is *)
(* 401, and only what is admitted is run, as it was parsed.                *)
LEMMA Planned ==
  ASSUME NEW r, RequestOK(r), NEW accepts \in BOOLEAN
  PROVE  /\ ~AuthOk(r) => Plan(r, accepts).status = 401
         /\ Plan(r, accepts).run =
              IF Admitted(r, ResolveRoute(r)) THEN RunOf(r, ResolveRoute(r)) ELSE NoRun
<1> DEFINE route == ResolveRoute(r)
           rules == Refusals(r, route)
           refused == {i \in DOMAIN rules : rules[i][1]}
           first == CHOOSE i \in refused : \A j \in refused : i <= j
<1>1. /\ rules[1] = GeneralRefusals(r, route)[1]
      /\ rules[2] = GeneralRefusals(r, route)[2]
      /\ rules[3] = GeneralRefusals(r, route)[3]
  BY RulesInOrder
<1>2. /\ rules[1][1] <=> ~AuthOk(r)
      /\ rules[1][2] = 401
      /\ rules[2][1] <=> route = "404"
      /\ rules[3][1] <=> route = "405"
  <2> HIDE DEF route, rules
  <2> QED
    BY <1>1, GeneralRules
<1>3. /\ 1 \in DOMAIN rules /\ 2 \in DOMAIN rules /\ 3 \in DOMAIN rules
      /\ \A i \in DOMAIN rules : i \in Nat /\ 1 <= i
  <2> HIDE DEF route
  <2>1. DOMAIN rules \in {1..3, 1..4, 1..11}
    BY RulesInOrder
  <2> HIDE DEF rules
  <2> QED
    BY <2>1
<1>4. Plan(r, accepts) =
        IF refused # {} THEN [status |-> rules[first][2], code |-> rules[first][3], run |-> NoRun]
        ELSE IF route \in {"STATUS", "LOG"} THEN [status |-> 200, code |-> "none", run |-> NoRun]
        ELSE [status |-> IF accepts THEN 202 ELSE 409,
              code |-> IF accepts THEN "none" ELSE "invalid_state_for_command",
              run |-> RunOf(r, route)]
  BY DEF Plan
<1>5. route \in Commands \cup {"STATUS", "LOG", "404", "405"}
  BY RouteType
<1>6. ASSUME route \in Commands
      PROVE  refused = {} <=> Admitted(r, route)
  BY <1>6, NothingRefused
<1> HIDE DEF route, rules, refused
<1>7. ASSUME ~AuthOk(r)
      PROVE  Plan(r, accepts).status = 401
  <2>1. 1 \in refused /\ \A j \in refused : j \in Nat /\ 1 <= j
    BY <1>2, <1>3, <1>7 DEF refused
  <2>2. \A i \in refused : (\A j \in refused : i <= j) => i = 1
    BY <2>1
  <2>3. first = 1
    BY <2>1, <2>2
  <2> HIDE DEF first
  <2> QED
    BY <1>2, <1>4, <2>1, <2>3
<1> HIDE DEF first
<1>8. CASE Admitted(r, route)
  <2>1. route \in Commands
    BY <1>8 DEF Admitted
  <2>2. refused = {} /\ route \notin {"STATUS", "LOG"}
    BY <1>6, <1>8, <2>1 DEF Commands
  <2> QED
    BY <1>4, <1>7, <1>8, <2>2 DEF route
<1>9. CASE ~Admitted(r, route)
  <2>1. refused # {} \/ route \in {"STATUS", "LOG"}
    <3>1. CASE route \in Commands
      BY <1>6, <1>9, <3>1
    <3>2. CASE route \in {"404", "405"}
      BY <1>2, <1>3, <3>2 DEF refused
    <3> QED
      BY <1>5, <3>1, <3>2
  <2> QED
    BY <1>4, <1>7, <1>9, <2>1 DEF route
<1> QED
  BY <1>7, <1>8, <1>9

-----------------------------------------------------------------------------
(* The theorems.                                                           *)

(* The parser stays within its line buffer and its limit of bytes, and it  *)
(* fails with an error and with one only (feed() and fail()).              *)
THEOREM RequestTypeCorrect == RequestSpec => []RequestTypeOK
<1>1. RequestInv => RequestTypeOK
  BY DEF RequestInv, ParserOK, RequestOK, Answered, RequestTypeOK
<1> QED
  BY <1>1, RequestInvariance, PTL

(* Authentication, as the parser recorded it, is what the lines say.       *)
LEMMA AuthenticOk ==
  ASSUME RequestInv
  PROVE  AuthOk(req) <=> Authentic
  BY DEF RequestInv, Understood, SecretUnderstood, AuthOk, Authentic

(* Whatever was asked for, a caller that does not send the secret last is  *)
(* answered 401: planResponse() checks it before it looks at the route.    *)
THEOREM SecretFirst == RequestSpec => []SecretBeforeRoute
<1>1. RequestInv => SecretBeforeRoute
  <2> SUFFICES ASSUME RequestInv, answer # Unanswered, status = "COMPLETE", ~Authentic
               PROVE  answer.status = 401
    BY DEF SecretBeforeRoute
  <2>1. PICK accepts \in BOOLEAN : answer = Plan(req, accepts)
    BY DEF RequestInv, Answered
  <2> QED
    BY <2>1, AuthenticOk, Planned DEF RequestInv
<1> QED
  BY <1>1, RequestInvariance, PTL

(* What planResponse() admits is what the lines ask for without ambiguity. *)
LEMMA AdmittedMeant ==
  ASSUME RequestInv, status = "COMPLETE", NEW c \in Commands
  PROVE  (ResolveRoute(req) = c /\ Admitted(req, c))
            <=> Authentic /\ AsksFor(c) /\ Unambiguous(c)
<1>1. ResolveRoute(req) = c <=> AsksFor(c)
  <2>1. req.path = lines[1].path /\ req.method = lines[1].method
    BY DEF RequestInv, Understood, TargetUnderstood, LinesOK
  <2> QED
    BY <2>1, Resolved DEF AsksFor
<1>2. AuthOk(req) <=> Authentic
  BY AuthenticOk
<1>3. ~req.overrideMalformed <=> \A i \in Sent("x-danger-override") : lines[i].text = "phrase"
  BY DEF RequestInv, Understood, OverrideUnderstood
<1>4. (req.idPresent => req.idValid) <=>
        (Sent("x-request-id") # {} =>
           LastSent("x-request-id").text \notin {"none", "not_an_id"})
  BY DEF RequestInv, Understood, IdUnderstood
<1>5. (RequireRequestId => req.idPresent) <=> (Sent("x-request-id") = {} => ~RequireRequestId)
  BY DEF RequestInv, Understood, IdUnderstood
<1>6. (req.timingPresent # {} => c = "START" /\ ~req.timingMalformed) <=>
        \A h \in TimingHeaders : \A i \in Sent(h) : c = "START" /\ IsNumber(lines[i].digits)
  <2>1. req.timingPresent \subseteq TimingHeaders
    BY DEF RequestInv, RequestOK
  <2>2. \A h \in TimingHeaders : h \in req.timingPresent <=> Sent(h) # {}
    BY DEF RequestInv, Understood, TimingUnderstood
  <2>3. req.timingMalformed <=>
          \E h \in TimingHeaders : \E i \in Sent(h) : ~IsNumber(lines[i].digits)
    BY DEF RequestInv, Understood, TimingUnderstood
  <2> QED
    BY <2>1, <2>2, <2>3, Zenon
<1>7. ASSUME ~req.timingMalformed
      PROVE  (\A h \in TimingHeaders : ~OutOfRange(req, h)) <=>
               \A h \in TimingHeaders : Sent(h) # {} => ValueOf(h) <= MaxTiming[h]
  <2>1. \A h \in TimingHeaders : h \in req.timingPresent <=> Sent(h) # {}
    BY DEF RequestInv, Understood, TimingUnderstood
  <2>2. \A h \in req.timingPresent : req.timing[h] = ValueOf(h)
    BY <1>7 DEF RequestInv, Understood, TimingUnderstood
  <2>3. \A h \in TimingHeaders : req.timing[h] \in Int /\ MaxTiming[h] \in Int
    BY RequestAssumption, Widths DEF RequestInv, RequestOK
  <2>4. \A h \in TimingHeaders : OutOfRange(req, h) <=>
          Sent(h) # {} /\ ~(ValueOf(h) <= MaxTiming[h])
    BY <2>1, <2>2, <2>3 DEF OutOfRange
  <2> QED
    BY <2>4
<1>8. req.timingMalformed => req.timingPresent # {}
  <2>1. req.timingMalformed => \E h \in TimingHeaders : Sent(h) # {}
    BY DEF RequestInv, Understood, TimingUnderstood
  <2> QED
    BY <2>1 DEF RequestInv, Understood, TimingUnderstood
<1> QED
  BY <1>1, <1>2, <1>3, <1>4, <1>5, <1>6, <1>7, <1>8 DEF Admitted, Unambiguous

(* A command that is run is run with what was sent.                        *)
LEMMA RunAsSent ==
  ASSUME RequestInv, status = "COMPLETE", NEW c \in Commands,
         Admitted(req, c), Unambiguous(c), NEW run, run = RunOf(req, c)
  PROVE  /\ run.command = c
         /\ run.override = (Sent("x-danger-override") # {})
         /\ \A h \in TimingHeaders :
              run.timings[h] = IF Sent(h) # {} THEN ValueOf(h) ELSE DefaultTiming[h]
         /\ run.id = IF Sent("x-request-id") = {} THEN "none" ELSE LastSent("x-request-id").text
<1>1. /\ run.command = c /\ run.id = req.id /\ run.override = req.override
      /\ \A h \in TimingHeaders :
           run.timings[h] = IF h \in req.timingPresent THEN req.timing[h] ELSE DefaultTiming[h]
  BY DEF RunOf
<1>2. run.override = (Sent("x-danger-override") # {})
  <2>1. req.override <=> \E i \in Sent("x-danger-override") : lines[i].text = "phrase"
    BY DEF RequestInv, Understood, OverrideUnderstood
  <2>2. req.override \in BOOLEAN
    BY DEF RequestInv, RequestOK
  <2>3. req.override <=> Sent("x-danger-override") # {}
    BY <2>1 DEF Unambiguous
  <2> QED
    BY <1>1, <2>2, <2>3
<1>3. ASSUME NEW h \in TimingHeaders
      PROVE  run.timings[h] = IF Sent(h) # {} THEN ValueOf(h) ELSE DefaultTiming[h]
  <2>1. h \in req.timingPresent <=> Sent(h) # {}
    BY DEF RequestInv, Understood, TimingUnderstood
  <2>2. h \in req.timingPresent => req.timing[h] = ValueOf(h)
    BY DEF RequestInv, Understood, TimingUnderstood, Admitted
  <2> QED
    BY <1>1, <2>1, <2>2
<1>4. run.id = IF Sent("x-request-id") = {} THEN "none" ELSE LastSent("x-request-id").text
  BY <1>1 DEF RequestInv, Understood, IdUnderstood, Unambiguous
<1> QED
  BY <1>1, <1>2, <1>3, <1>4

(* A command is run exactly when the whole request asked for it, and as it *)
(* was written: nothing of an earlier request or of a malformed header     *)
(* passes from HttpRequestParser through planResponse().                   *)
THEOREM CommandsAsWritten == RequestSpec => []ExecutedAsWritten
<1>1. RequestInv => ExecutedAsWritten
  <2> DEFINE run == answer.run
             meant(c) == status = "COMPLETE" /\ Authentic /\ AsksFor(c) /\ Unambiguous(c)
             AsSent == /\ run.override = (Sent("x-danger-override") # {})
                       /\ \A h \in TimingHeaders :
                            run.timings[h] = IF Sent(h) # {} THEN ValueOf(h)
                                             ELSE DefaultTiming[h]
                       /\ run.id = IF Sent("x-request-id") = {} THEN "none"
                                   ELSE LastSent("x-request-id").text
  <2> SUFFICES ASSUME RequestInv, answer # Unanswered
               PROVE  (\A c \in Commands : run.command = c <=> meant(c))
                      /\ (run # NoRun => AsSent)
    BY DEF ExecutedAsWritten, Commands
  <2>1. \A c \in Commands : NoRun.command # c
    BY DEF NoRun, Commands
  <2>2. CASE status = "FAILED"
    <3>1. run = NoRun
      BY <2>2 DEF RequestInv, Answered
    <3>2. \A c \in Commands : ~meant(c)
      BY <2>2
    <3> QED
      BY <2>1, <3>1, <3>2
  <2>3. CASE status = "COMPLETE"
    <3> DEFINE route == ResolveRoute(req)
    <3>1. PICK accepts \in BOOLEAN : answer = Plan(req, accepts)
      BY <2>3 DEF RequestInv, Answered
    <3>2. run = IF Admitted(req, route) THEN RunOf(req, route) ELSE NoRun
      BY <3>1, Planned DEF RequestInv
    <3>3. \A c \in Commands : meant(c) <=> route = c /\ Admitted(req, c)
      BY <2>3, AdmittedMeant
    <3> HIDE DEF run, meant, route
    <3>4. CASE Admitted(req, route)
      <4>1. route \in Commands
        BY <3>4 DEF Admitted
      <4>2. run = RunOf(req, route) /\ Unambiguous(route)
        BY <3>2, <3>3, <3>4, <4>1 DEF meant
      <4>3. run.command = route /\ AsSent
        BY <2>3, <3>4, <4>1, <4>2, RunAsSent
      <4> QED
        BY <3>3, <3>4, <4>3
    <3>5. CASE ~Admitted(req, route)
      BY <2>1, <3>2, <3>3, <3>5
    <3> QED
      BY <3>4, <3>5
  <2> QED
    BY <2>2, <2>3 DEF RequestInv, ParserOK, Answered
<1> QED
  BY <1>1, RequestInvariance, PTL

=============================================================================
