------------------------------ MODULE Thousands ------------------------------
(***************************************************************************)
(* GetThousandsString of src/d2xx_shared/d2xx_shared.cpp: the digits of a  *)
(* number with a comma between groups of three, written from the right     *)
(* into tmp and copied to str.  Every count d2xx_send and d2xx_recv        *)
(* display is made by it.  A character is a digit, Comma, or Nul.          *)
(***************************************************************************)
EXTENDS Integers, Sequences

CONSTANTS
  Numbers,      \* the arguments considered: of a uint64_t, those below 2^64
  Digits,       \* how many digits the largest of them has: 20
  Power,        \* the powers of ten up to Digits
  BufferSize,   \* MAX_UINT64_THOUSANDS_SIZE
  Comma, Nul, Junk

ASSUME ThousandsAssumption ==
  /\ Digits \in Nat \ {0}
  /\ Power \in [0..Digits -> Nat \ {0}] /\ Power[0] = 1
  /\ \A k \in 1..Digits : Power[k] = 10 * Power[k - 1]
  /\ Numbers \subseteq 0..(Power[Digits] - 1)
  /\ BufferSize \in Nat /\ BufferSize >= Digits + (Digits - 1) \div 3 + 1
  /\ Comma \notin 0..9 /\ Nul \notin 0..9

VARIABLES
  number,   \* value, as passed
  value,    \* what is left of it
  tmp, p,   \* the buffer, and where in it the text begins
  n,        \* how many digits there are to the next comma
  str,      \* the caller's buffer
  pc,
  written   \* history: how many digits tmp holds

vars == <<number, value, tmp, p, n, str, pc, written>>

ShortGroup == 2
Group == 3

Init ==
  /\ number \in Numbers /\ value = number
  /\ p = BufferSize - 1 /\ n = 3
  /\ tmp = [i \in 0..(BufferSize - 1) |-> IF i = BufferSize - 1 THEN Nul ELSE Junk]
  /\ str = << >> /\ pc = "loop" /\ written = 0

CommaNever == FALSE
CommaEarly == n <= 1
CommaDue == n = 0

More(v) == v # 0

\* One pass of the do loop; a store outside tmp is not made here.
Pass ==
  /\ pc = "loop"
  /\ LET at == IF CommaDue THEN p - 2 ELSE p - 1 IN
       /\ tmp' = [i \in DOMAIN tmp |-> IF i = at THEN value % 10
                                       ELSE IF CommaDue /\ i = p - 1 THEN Comma
                                       ELSE tmp[i]]
       /\ p' = at
  /\ n' = (IF CommaDue THEN Group ELSE n) - 1
  /\ value' = value \div 10
  /\ pc' = IF More(value') THEN "loop" ELSE "copy"
  /\ written' = written + 1
  /\ UNCHANGED <<number, str>>

Copy ==
  /\ pc = "copy" /\ pc' = "done"
  /\ str' = [i \in 1..(BufferSize - p) |-> tmp[p + i - 1]]
  /\ UNCHANGED <<number, value, tmp, p, n, written>>

Next == Pass \/ Copy

Spec == Init /\ [][Next]_vars

-----------------------------------------------------------------------------
\* The type invariant.
TypeOK ==
  /\ number \in Numbers /\ value \in Nat
  /\ tmp \in [0..(BufferSize - 1) -> (0..9) \union {Comma, Nul, Junk}]
  /\ p \in Int /\ n \in 0..3 /\ written \in Nat
  /\ str \in Seq((0..9) \union {Comma, Nul, Junk})
  /\ pc \in {"loop", "copy", "done"}

\* The text never begins before tmp does, whatever the number, so that
\* neither tmp nor the caller's buffer of the same size is overrun.
InBuffer == p >= 0

\* What is copied is the number: its digits and no more of them, in order,
\* with a comma before every third one from the right that has a digit
\* before it, and a terminating zero.
Faithful ==
  pc = "done" =>
    LET m == Len(str) - 1
        Place(i) == m - i    \* characters between str[i] and the zero
        k == m - m \div 4    \* digits
    IN /\ str[m + 1] = Nul
       /\ \A i \in 1..m :
            str[i] = IF Place(i) % 4 = 3 THEN Comma
                     ELSE (number \div Power[Place(i) - Place(i) \div 4]) % 10
       /\ m % 4 # 0 /\ k \in 1..Digits
       /\ number < Power[k] /\ (k > 1 => number >= Power[k - 1])

-----------------------------------------------------------------------------
\* The inductive invariant behind InBuffer and Faithful, in terms of the
\* digits written so far.
Spread(k) == k + (IF k = 0 THEN 0 ELSE (k - 1) \div 3)   \* with their commas
Countdown(k) == IF k = 0 THEN 3 ELSE 2 - ((k - 1) % 3)   \* to the next comma

Progress ==
  /\ p = BufferSize - 1 - Spread(written)
  /\ n = Countdown(written)
  /\ written <= Digits
  /\ value = number \div Power[written]
  /\ pc = "loop" => written = 0 \/ value # 0
  /\ pc # "loop" => value = 0 /\ written >= 1
  /\ written > 1 => number >= Power[written - 1]

TextSoFar ==
  \A i \in 0..(BufferSize - 1) : i >= p =>
    LET place == BufferSize - 2 - i IN
    tmp[i] = IF place = -1 THEN Nul
             ELSE IF place % 4 = 3 THEN Comma
             ELSE (number \div Power[place - place \div 4]) % 10

Copied == pc = "done" => str = [i \in 1..(BufferSize - p) |-> tmp[p + i - 1]]

TextInv == TypeOK /\ Progress /\ TextSoFar /\ Copied
=============================================================================
