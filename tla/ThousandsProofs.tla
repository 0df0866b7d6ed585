--------------------------- MODULE ThousandsProofs ---------------------------
(***************************************************************************)
(* GetThousandsString stays inside its buffer and writes the number it was *)
(* given, for every width of number that the buffer has room for.          *)
(***************************************************************************)
EXTENDS Thousands, TLAPS

USE DEF Group, CommaDue, More

-----------------------------------------------------------------------------
\* A digit is removed by a division by ten, however many went before it.
LEMMA NextDigit ==
  ASSUME NEW v \in Nat, NEW q \in Nat \ {0}
  PROVE  (v \div q) \div 10 = v \div (10 * q)
<1> DEFINE a == v \div q
           r == v % q
           b == a \div 10
           d == a % 10
<1>1. a \in Nat /\ r \in 0..(q - 1) /\ v = q * a + r
  OBVIOUS
<1> HIDE DEF a, r
<1>2. b \in Nat /\ d \in 0..9 /\ a = 10 * b + d
  BY <1>1
<1> HIDE DEF b, d
<1>3. q * a = 10 * q * b + q * d
  BY <1>1, <1>2
<1>4. q * d + r \in 0..(10 * q - 1)
  <2>1. q * d \in Nat /\ q * d <= q * 9
    BY <1>2
  <2> QED
    BY <1>1, <2>1
<1>5. v = (10 * q) * b + (q * d + r)
  BY <1>1, <1>2, <1>3
<1>6. v \div (10 * q) = b
  BY <1>2, <1>4, <1>5
<1> QED
  BY <1>6 DEF a, b

\* A quotient is zero when the dividend is the smaller number, and only then.
LEMMA ZeroQuotient ==
  ASSUME NEW v \in Nat, NEW q \in Nat \ {0}
  PROVE  v \div q \in Nat /\ (v \div q = 0 <=> v < q)
  OBVIOUS

\* Where the characters of one pass go: a digit every place but the third of
\* four, which is for the comma.
LEMMA Places ==
  ASSUME NEW k \in Nat
  PROVE  /\ Spread(k) \in Nat
         /\ k > 0 /\ k % 3 = 0 => /\ Spread(k + 1) = Spread(k) + 2
                                 /\ Spread(k) % 4 = 3
         /\ k = 0 \/ k % 3 # 0 => Spread(k + 1) = Spread(k) + 1
         /\ (Spread(k + 1) - 1) % 4 # 3
         /\ (Spread(k + 1) - 1) - (Spread(k + 1) - 1) \div 4 = k
         /\ k > 0 => Spread(k) % 4 # 0 /\ Spread(k) - Spread(k) \div 4 = k
<1>1. CASE k = 0
  BY <1>1 DEF Spread
<1>2. CASE k > 0
  <2>1. PICK a \in Nat, b \in 1..3 : k = 3 * a + b
    <3>1. (k - 1) \div 3 \in Nat /\ ((k - 1) % 3) + 1 \in 1..3
          /\ k = 3 * ((k - 1) \div 3) + (((k - 1) % 3) + 1)
      BY <1>2
    <3> QED
      BY <3>1
  <2>2. Spread(k) = 4 * a + b /\ Spread(k + 1) = IF b = 3 THEN 4 * a + 5 ELSE 4 * a + b + 1
    BY <2>1 DEF Spread
  <2>3. k % 3 = IF b = 3 THEN 0 ELSE b
    BY <2>1
  <2> QED
    BY <1>2, <2>1, <2>2, <2>3
<1> QED
  BY <1>1, <1>2

\* The count of digits to the next comma.
LEMMA Counting ==
  ASSUME NEW k \in Nat
  PROVE  /\ Countdown(k) \in 0..3
         /\ Countdown(k) = 0 <=> k > 0 /\ k % 3 = 0
         /\ Countdown(k + 1) = (IF Countdown(k) = 0 THEN 3 ELSE Countdown(k)) - 1
<1>1. CASE k = 0
  BY <1>1 DEF Countdown
<1>2. CASE k > 0
  <2>1. PICK a \in Nat, b \in 0..2 : k - 1 = 3 * a + b
    <3>1. (k - 1) \div 3 \in Nat /\ (k - 1) % 3 \in 0..2
          /\ k - 1 = 3 * ((k - 1) \div 3) + ((k - 1) % 3)
      BY <1>2
    <3> QED
      BY <3>1
  <2>2. (k - 1) % 3 = b /\ k % 3 = IF b = 2 THEN 0 ELSE b + 1
    BY <2>1
  <2>3. Countdown(k) = 2 - b /\ Countdown(k + 1) = 2 - (k % 3)
    BY <1>2, <2>2 DEF Countdown
  <2> QED
    BY <1>2, <2>1, <2>2, <2>3
<1> QED
  BY <1>1, <1>2

LEMMA SpreadMonotonic ==
  ASSUME NEW j \in Nat, NEW k \in Nat, j <= k
  PROVE  Spread(j) <= Spread(k)
  BY DEF Spread

-----------------------------------------------------------------------------
LEMMA InitHolds == Init => TextInv
<1> SUFFICES ASSUME Init PROVE TextInv
  OBVIOUS
<1> USE DEF Init
<1>1. BufferSize \in Nat \ {0} /\ number \in Nat /\ number < Power[Digits]
  BY ThousandsAssumption
<1>2. TypeOK
  BY <1>1 DEF TypeOK
<1>3. Progress
  BY <1>1, ThousandsAssumption DEF Progress, Spread, Countdown
<1>4. TextSoFar
  BY <1>1 DEF TextSoFar
<1>5. Copied
  BY DEF Copied
<1> QED
  BY <1>2, <1>3, <1>4, <1>5 DEF TextInv

\* A pass happens only while there is a digit left, so there is room for it.
LEMMA RoomForPass ==
  ASSUME TextInv, Pass
  PROVE  /\ written \in Nat /\ written + 1 <= Digits
         /\ Spread(written + 1) <= BufferSize - 1
         /\ Power[written] \in Nat \ {0} /\ Power[written + 1] = 10 * Power[written]
         /\ written > 0 => number >= Power[written]
<1>1. /\ written \in Nat /\ written <= Digits /\ value = number \div Power[written]
      /\ written = 0 \/ value # 0
      /\ number \in 0..(Power[Digits] - 1)
  BY ThousandsAssumption DEF TextInv, TypeOK, Progress, Pass
<1>2. /\ Power[written] \in Nat \ {0} /\ Power[Digits] \in Nat \ {0}
      /\ Digits \in Nat \ {0}
  BY <1>1, ThousandsAssumption
<1>3. written > 0 => number >= Power[written]
  BY <1>1, <1>2, ZeroQuotient
<1>4. written # Digits
  BY <1>1, <1>2, <1>3
<1>5. written + 1 \in Nat /\ written + 1 <= Digits
  BY <1>1, <1>2, <1>4
<1>6. Spread(written + 1) <= Spread(Digits)
  BY <1>2, <1>5, SpreadMonotonic
<1>7. Spread(Digits) <= BufferSize - 1 /\ BufferSize \in Nat
  BY ThousandsAssumption DEF Spread
<1>8. Power[written + 1] = 10 * Power[written]
  <2>1. written + 1 \in 1..Digits /\ (written + 1) - 1 = written
    BY <1>1, <1>2, <1>5
  <2> QED
    BY <2>1, ThousandsAssumption
<1>9. Spread(written + 1) \in Nat /\ Spread(Digits) \in Nat
  BY <1>2, <1>5, Places
<1>10. Spread(written + 1) <= BufferSize - 1
  BY <1>6, <1>7, <1>9
<1> QED
  BY <1>1, <1>2, <1>3, <1>5, <1>8, <1>10

LEMMA PassHolds == TextInv /\ Pass => TextInv'
<1> SUFFICES ASSUME TextInv, Pass PROVE TextInv'
  OBVIOUS
<1> DEFINE at == IF n = 0 THEN p - 2 ELSE p - 1
<1>1. /\ written \in Nat /\ written + 1 <= Digits
      /\ Spread(written + 1) <= BufferSize - 1
      /\ Power[written] \in Nat \ {0} /\ Power[written + 1] = 10 * Power[written]
      /\ written > 0 => number >= Power[written]
  BY RoomForPass
<1>2. /\ number \in Nat /\ BufferSize \in Nat /\ value \in Nat /\ p \in Int
      /\ value = number \div Power[written]
      /\ p = BufferSize - 1 - Spread(written)
      /\ n = Countdown(written)
  BY ThousandsAssumption DEF TextInv, TypeOK, Progress
<1>3. /\ number' = number /\ str' = str /\ pc = "loop"
      /\ p' = at /\ written' = written + 1
      /\ value' = value \div 10
      /\ n' = (IF n = 0 THEN 3 ELSE n) - 1
      /\ pc' = IF value' # 0 THEN "loop" ELSE "copy"
      /\ tmp' = [i \in DOMAIN tmp |-> IF i = at THEN value % 10
                   ELSE IF n = 0 /\ i = p - 1 THEN Comma ELSE tmp[i]]
  BY DEF Pass
<1>4. /\ n \in 0..3 /\ (n = 0 <=> written > 0 /\ written % 3 = 0)
      /\ n' = Countdown(written + 1) /\ n' \in 0..3
  <2>1. written + 1 \in Nat
    BY <1>1
  <2>2. Countdown(written + 1) \in 0..3 /\ Countdown(written) \in 0..3
        /\ (Countdown(written) = 0 <=> written > 0 /\ written % 3 = 0)
        /\ Countdown(written + 1)
             = (IF Countdown(written) = 0 THEN 3 ELSE Countdown(written)) - 1
    BY <1>1, <2>1, Counting
  <2>3. n' = (IF n = 0 THEN 3 ELSE n) - 1 /\ n = Countdown(written)
    BY <1>2, <1>3
  <2> QED
    BY <2>2, <2>3
<1>5. /\ Spread(written) \in Nat /\ Spread(written + 1) \in Nat
      /\ Spread(written + 1) = IF n = 0 THEN Spread(written) + 2 ELSE Spread(written) + 1
      /\ n = 0 => Spread(written) % 4 = 3
      /\ (Spread(written + 1) - 1) % 4 # 3
      /\ (Spread(written + 1) - 1) - (Spread(written + 1) - 1) \div 4 = written
  <2>1. written + 1 \in Nat
    BY <1>1
  <2>2. written = 0 \/ written % 3 # 0 \/ n = 0
    BY <1>1, <1>4
  <2> QED
    BY <1>1, <1>4, <2>1, <2>2, Places
<1>6. p' = BufferSize - 1 - Spread(written + 1)
  <2>1. p' = at /\ p = BufferSize - 1 - Spread(written) /\ BufferSize \in Nat
    BY <1>2, <1>3
  <2> QED
    BY <1>5, <2>1
<1>7. value' = number \div Power[written + 1] /\ value' \in Nat
  <2>1. value' = (number \div Power[written]) \div 10
    BY <1>2, <1>3
  <2>2. (number \div Power[written]) \div 10 = number \div (10 * Power[written])
    BY <1>1, <1>2, NextDigit
  <2>3. number \div (10 * Power[written]) \in Nat
    <3>1. 10 * Power[written] \in Nat \ {0}
      BY <1>1
    <3> QED
      BY <1>2, <3>1, ZeroQuotient
  <2> QED
    BY <1>1, <2>1, <2>2, <2>3, Zenon
<1>8. TypeOK'
  <2>1. value % 10 \in 0..9
    <3>1. value \in Nat
      BY <1>2
    <3> QED
      BY <3>1
  <2>2. tmp' \in [0..(BufferSize - 1) -> (0..9) \union {Comma, Nul, Junk}]
    BY <1>3, <2>1 DEF TextInv, TypeOK
  <2>3. p' \in Int /\ written' \in Nat
    <3>1. p' = at /\ p \in Int /\ written' = written + 1 /\ written \in Nat
      BY <1>1, <1>2, <1>3
    <3> QED
      BY <3>1
  <2>4. number' \in Numbers /\ str' \in Seq((0..9) \union {Comma, Nul, Junk})
        /\ pc' \in {"loop", "copy", "done"}
    BY <1>3 DEF TextInv, TypeOK
  <2> QED
    BY <1>4, <1>7, <2>2, <2>3, <2>4 DEF TypeOK
<1>9. Progress'
  <2>1. pc' = "loop" => value' # 0
    BY <1>3
  <2>2. pc' # "loop" => value' = 0
    BY <1>3
  <2>3. /\ (Power[written])' = Power[written + 1] /\ number' = number
        /\ Spread(written)' = Spread(written + 1)
        /\ Countdown(written)' = Countdown(written + 1)
        /\ written' >= 1 /\ written' <= Digits
    BY <1>1, <1>3 DEF Spread, Countdown
  <2>4. written' > 1 => number' >= (Power[written - 1])'
    <3>1. (written + 1) - 1 = written /\ (written + 1 > 1 => written > 0)
      BY <1>1
    <3> QED
      BY <1>1, <1>3, <3>1
  <2> QED
    BY <1>4, <1>6, <1>7, <2>1, <2>2, <2>3, <2>4 DEF Progress
<1>10. TextSoFar'
  <2> SUFFICES ASSUME NEW i \in 0..(BufferSize - 1), i >= at
               PROVE  LET place == BufferSize - 2 - i IN
                      tmp'[i] = IF place = -1 THEN Nul ELSE IF place % 4 = 3 THEN Comma
                                ELSE (number \div Power[place - place \div 4]) % 10
    BY <1>3 DEF TextSoFar
  <2> DEFINE place == BufferSize - 2 - i
  <2>1. DOMAIN tmp = 0..(BufferSize - 1)
    BY DEF TextInv, TypeOK
  <2>2. i \in Int /\ BufferSize \in Nat /\ p \in Int /\ at \in Int
        /\ p = BufferSize - 1 - Spread(written)
        /\ at = BufferSize - 1 - Spread(written + 1)
    <3>1. at = BufferSize - 1 - Spread(written + 1)
      BY <1>3, <1>6
    <3>2. i \in Int /\ BufferSize \in Nat
      BY <1>2
    <3> QED
      BY <1>2, <1>5, <3>1, <3>2
  <2>3. CASE i = at
    <3>1. tmp'[i] = value % 10
      BY <1>3, <2>1, <2>3
    <3>2. place = Spread(written + 1) - 1
      BY <1>5, <2>2, <2>3
    <3>3. place >= 0 /\ place # -1
      BY <1>5, <3>2
    <3>4. place % 4 # 3 /\ place - place \div 4 = written
      BY <1>5, <3>2
    <3> QED
      BY <1>2, <3>1, <3>3, <3>4
  <2>4. CASE n = 0 /\ i = p - 1
    <3>1. tmp'[i] = Comma
      <4>1. i # at
        BY <2>2, <2>4
      <4> QED
        BY <1>3, <2>1, <2>4, <4>1
    <3>2. place = Spread(written)
      BY <1>5, <2>2, <2>4
    <3>3. place % 4 = 3 /\ place # -1
      BY <1>5, <2>4, <3>2
    <3> QED
      BY <3>1, <3>3
  <2>5. CASE i >= p
    <3>1. tmp'[i] = tmp[i]
      <4>1. i # at /\ i # p - 1
        BY <2>2, <2>5
      <4> QED
        BY <1>3, <2>1, <4>1
    <3> QED
      BY <3>1, <2>5 DEF TextInv, TextSoFar
  <2>6. i = at \/ (n = 0 /\ i = p - 1) \/ i >= p
    BY <2>2
  <2> QED
    BY <2>3, <2>4, <2>5, <2>6
<1>11. Copied'
  BY <1>3 DEF Copied
<1> QED
  BY <1>8, <1>9, <1>10, <1>11 DEF TextInv

LEMMA CopyHolds == TextInv /\ Copy => TextInv'
<1> SUFFICES ASSUME TextInv, Copy PROVE TextInv'
  OBVIOUS
<1>1. /\ pc = "copy" /\ pc' = "done"
      /\ str' = [i \in 1..(BufferSize - p) |-> tmp[p + i - 1]]
      /\ UNCHANGED <<number, value, tmp, p, n, written>>
  BY DEF Copy
<1>2. /\ written \in Nat /\ written <= Digits /\ BufferSize \in Nat /\ p \in Int
      /\ p = BufferSize - 1 - Spread(written)
      /\ tmp \in [0..(BufferSize - 1) -> (0..9) \union {Comma, Nul, Junk}]
  BY ThousandsAssumption DEF TextInv, TypeOK, Progress
<1>3. p \in 0..BufferSize /\ BufferSize - p \in Nat
  <2>1. Spread(written) <= Spread(Digits) /\ Digits \in Nat
    BY <1>2, SpreadMonotonic, ThousandsAssumption
  <2>2. Spread(Digits) <= BufferSize - 1
    BY ThousandsAssumption DEF Spread
  <2>3. Spread(written) \in Nat /\ Spread(Digits) \in Nat
    BY <1>2, <2>1, Places
  <2> QED
    BY <1>2, <2>1, <2>2, <2>3
<1>4. str' \in Seq((0..9) \union {Comma, Nul, Junk})
  <2>1. \A i \in 1..(BufferSize - p) : p + i - 1 \in 0..(BufferSize - 1)
    BY <1>2, <1>3
  <2>2. \A i \in 1..(BufferSize - p) :
          tmp[p + i - 1] \in (0..9) \union {Comma, Nul, Junk}
    BY <1>2, <2>1
  <2> QED
    BY <1>1, <1>3, <2>2
<1>5. TypeOK'
  BY <1>1, <1>4 DEF TextInv, TypeOK
<1>6. Progress'
  BY <1>1 DEF TextInv, Progress, Spread, Countdown
<1>7. TextSoFar'
  BY <1>1 DEF TextInv, TextSoFar
<1>8. Copied'
  BY <1>1 DEF Copied
<1> QED
  BY <1>5, <1>6, <1>7, <1>8 DEF TextInv

\* The text is built digit by digit from the right, inside the buffer.
THEOREM TextInvHolds == Spec => []TextInv
<1>1. TextInv /\ UNCHANGED vars => TextInv'
  BY DEF TextInv, TypeOK, Progress, Spread, Countdown, TextSoFar, Copied, vars
<1>2. TextInv /\ [Next]_vars => TextInv'
  BY <1>1, PassHolds, CopyHolds DEF Next
<1> QED
  BY <1>2, InitHolds, PTL DEF Spec

\* Every variable of the two loops keeps its type, the lengths their range.
THEOREM ThousandsTypeCorrect == Spec => []TypeOK
<1>1. TextInv => TypeOK
  BY DEF TextInv
<1> QED
  BY <1>1, TextInvHolds, PTL

\* The text never begins before tmp does: 27 characters are enough for any
\* number of 20 digits, among them 2^64 - 1.
THEOREM ThousandsFits == Spec => []InBuffer
<1>1. TextInv => InBuffer
  <2> SUFFICES ASSUME TextInv PROVE p >= 0
    BY DEF InBuffer
  <2>1. /\ written \in Nat /\ written <= Digits /\ Digits \in Nat /\ BufferSize \in Nat
        /\ p = BufferSize - 1 - Spread(written) /\ Spread(Digits) <= BufferSize - 1
    BY ThousandsAssumption DEF TextInv, TypeOK, Progress, Spread
  <2>2. Spread(written) <= Spread(Digits) /\ Spread(written) \in Nat /\ Spread(Digits) \in Nat
    BY <2>1, SpreadMonotonic, Places
  <2> QED
    BY <2>1, <2>2
<1> QED
  BY <1>1, TextInvHolds, PTL

\* What is copied is the number: its digits, no more of them, and the commas.
THEOREM ThousandsFaithful == Spec => []Faithful
<1>1. TextInv => Faithful
  <2> SUFFICES ASSUME TextInv, pc = "done" PROVE Faithful
    BY DEF Faithful
  <2> DEFINE m == Len(str) - 1
             k == m - m \div 4
  <2>1. /\ written \in Nat \ {0} /\ written <= Digits /\ Digits \in Nat /\ BufferSize \in Nat
        /\ p = BufferSize - 1 - Spread(written) /\ value = 0
        /\ value = number \div Power[written]
        /\ written > 1 => number >= Power[written - 1]
        /\ str = [i \in 1..(BufferSize - p) |-> tmp[p + i - 1]]
    BY ThousandsAssumption DEF TextInv, TypeOK, Progress, Copied
  <2>2. /\ Spread(written) \in Nat /\ Spread(written) <= BufferSize - 1
        /\ Spread(written) % 4 # 0 /\ Spread(written) - Spread(written) \div 4 = written
    <3>1. Spread(Digits) <= BufferSize - 1
      BY ThousandsAssumption DEF Spread
    <3>2. Spread(written) <= Spread(Digits) /\ Spread(Digits) \in Nat
      BY <2>1, SpreadMonotonic, Places
    <3>3. /\ Spread(written) \in Nat
          /\ Spread(written) % 4 # 0 /\ Spread(written) - Spread(written) \div 4 = written
      BY <2>1, Places
    <3> QED
      BY <2>1, <3>1, <3>2, <3>3
  <2>3. BufferSize - p = Spread(written) + 1
    BY <2>1, <2>2
  <2>4. Len(str) = Spread(written) + 1
    BY <2>1, <2>2, <2>3
  <2>5. m = Spread(written) /\ k = written
    BY <2>2, <2>4
  <2> HIDE DEF m, k
  <2>6. number < Power[k] /\ (k > 1 => number >= Power[k - 1]) /\ k \in 1..Digits
    <3>1. Power[written] \in Nat \ {0} /\ number \in Nat
      BY <2>1, ThousandsAssumption DEF TextInv, TypeOK
    <3>2. number < Power[written]
      BY <2>1, <3>1, ZeroQuotient
    <3>3. written \in 1..Digits
      BY <2>1
    <3> QED
      BY <2>1, <2>5, <3>2, <3>3
  <2>7. ASSUME NEW i \in 1..(m + 1)
        PROVE  /\ str[i] = tmp[p + i - 1] /\ p + i - 1 \in 0..(BufferSize - 1)
               /\ p + i - 1 >= p /\ BufferSize - 2 - (p + i - 1) = m - i
    <3>1. i \in 1..(BufferSize - p) /\ i \in Int
      BY <2>2, <2>3, <2>5
    <3>2. str[i] = tmp[p + i - 1]
      BY <2>1, <3>1
    <3>3. m = Spread(written) /\ i <= Spread(written) + 1 /\ i >= 1
          /\ BufferSize \in Nat /\ p = BufferSize - 1 - Spread(written)
      BY <2>1, <2>2, <2>3, <2>5, <3>1
    <3>4. /\ p + i - 1 \in 0..(BufferSize - 1)
          /\ p + i - 1 >= p /\ BufferSize - 2 - (p + i - 1) = m - i
      BY <2>2, <3>1, <3>3
    <3> QED
      BY <3>2, <3>4
  <2>8. str[m + 1] = Nul
    <3>1. m + 1 \in 1..(m + 1) /\ m - (m + 1) = -1
      BY <2>2, <2>5
    <3>2. str[m + 1] = tmp[p + (m + 1) - 1] /\ p + (m + 1) - 1 \in 0..(BufferSize - 1)
          /\ p + (m + 1) - 1 >= p /\ BufferSize - 2 - (p + (m + 1) - 1) = -1
      BY <3>1, <2>7
    <3> QED
      BY <3>2 DEF TextInv, TextSoFar
  <2>9. ASSUME NEW i \in 1..m
        PROVE  str[i] = IF (m - i) % 4 = 3 THEN Comma
                        ELSE (number \div Power[(m - i) - (m - i) \div 4]) % 10
    <3>1. i \in 1..(m + 1) /\ m - i >= 0 /\ m - i # -1
      BY <2>2, <2>5
    <3>2. str[i] = tmp[p + i - 1] /\ p + i - 1 \in 0..(BufferSize - 1)
          /\ p + i - 1 >= p /\ BufferSize - 2 - (p + i - 1) = m - i
      BY <3>1, <2>7
    <3> QED
      BY <3>1, <3>2 DEF TextInv, TextSoFar
  <2>10. m % 4 # 0
    BY <2>2, <2>5
  <2> QED
    BY <2>6, <2>8, <2>9, <2>10 DEF Faithful, m, k
<1> QED
  BY <1>1, TextInvHolds, PTL
=============================================================================
