--------------------------- MODULE ProgressProofs ---------------------------
(***************************************************************************)
(* Theorems about the progress display, for every expected count, and      *)
(* their proofs.                                                           *)
(***************************************************************************)
EXTENDS Progress, TLAPS

USE ProgressAssumption

(***************************************************************************)
(* What is computed is at most one unit short, and exact at both ends.     *)
(***************************************************************************)
LEMMA DivisionBounds ==
  ASSUME NEW x \in Nat, NEW b \in Nat, b > 0
  PROVE  /\ x \div b \in Nat
         /\ b * (x \div b) <= x
         /\ x < b * (x \div b) + b
         /\ x % b = 0 => x = b * (x \div b)
  OBVIOUS

LEMMA TruncatedBounds ==
  ASSUME NEW a \in Nat, NEW b \in Nat, b > 0, NEW c \in Nat, c > 0,
         NEW t \in Truncated(a, b, c)
  PROVE  /\ t \in Nat
         /\ b * t <= a * c
         /\ a * c <= b * t + b
         /\ a \in {0, b} => b * t = a * c
<1> DEFINE x == a * c
           whole == x \div b
<1>1. x \in Nat /\ (a = b => x = b * c) /\ (a = 0 => x = 0) /\ (a # 0 => x > 0)
  OBVIOUS
<1>2. t = whole \/ (t = whole - 1 /\ x % b = 0 /\ a \notin {0, b})
  BY DEF Truncated
<1> HIDE DEF x
<1>3. /\ whole \in Nat /\ b * whole <= x /\ x < b * whole + b
      /\ x % b = 0 => x = b * whole
  BY <1>1, DivisionBounds
<1> HIDE DEF whole
<1>4. CASE t = whole
  <2>1. a = b => whole = c
    <3>1. ASSUME a = b, whole < c PROVE FALSE
      <4>1. b * (whole + 1) <= b * c
        BY <1>3, <3>1
      <4> QED
        BY <1>1, <1>3, <3>1, <4>1
    <3>2. ASSUME a = b, whole > c PROVE FALSE
      <4>1. b * (c + 1) <= b * whole
        BY <1>3, <3>2
      <4> QED
        BY <1>1, <1>3, <3>2, <4>1
    <3> QED
      BY <1>3, <3>1, <3>2
  <2>2. a = 0 => whole = 0
    <3>1. ASSUME a = 0, whole > 0 PROVE FALSE
      BY <1>1, <1>3, <3>1
    <3> QED
      BY <1>3, <3>1
  <2> QED
    BY <1>1, <1>3, <1>4, <2>1, <2>2 DEF x
<1>5. CASE t = whole - 1 /\ x % b = 0 /\ a \notin {0, b}
  <2>1. whole # 0
    BY <1>1, <1>3, <1>5
  <2>2. b * t = b * whole - b
    BY <1>3, <1>5
  <2> QED
    BY <1>3, <1>5, <2>1, <2>2 DEF x
<1> QED
  BY <1>2, <1>4, <1>5

LEMMA TimesMonotone ==
  ASSUME NEW a \in Nat, NEW b \in Nat, NEW c \in Nat, a <= b
  PROVE  a * c <= b * c
<1>1. PICK k \in Nat : b = a + k
  OBVIOUS
<1>2. b * c = a * c + k * c /\ k * c >= 0
  BY <1>1
<1> QED
  BY <1>2

LEMMA TimesStrict ==
  ASSUME NEW a \in Nat, NEW b \in Nat, NEW c \in Nat, a * c < b * c
  PROVE  a < b
<1> SUFFICES ASSUME b <= a PROVE FALSE
  OBVIOUS
<1> QED
  BY TimesMonotone

(***************************************************************************)
(* Until the end as many stars are drawn as tics are counted; the next tic *)
(* is due where the fiftieths of the work say, at most one unit before;    *)
(* and a fiftieth tic is due at the end and not before.                    *)
(***************************************************************************)
TicInv ==
  /\ tic \in 0 .. 50
  /\ stars = tic
  /\ lines = 0
  /\ nextTic \in Nat
  /\ 50 * nextTic <= tic * expected
  /\ tic * expected <= 50 * nextTic + 50
  /\ tic = 50 => nextTic = expected
  /\ count * 50 - expected <= tic * expected
  /\ tic * expected <= count * 50 + 2 * expected

ProgressInv ==
  /\ expected \in Nat /\ expected > 0
  /\ count \in Nat /\ tic \in Nat
  /\ count < expected => TicInv
  /\ count >= expected => stars \in Nat /\ stars >= 51 /\ lines = 1
  /\ count = expected => stars = 51

LEMMA ProgressInit ==
  ASSUME Init
  PROVE  ProgressInv
<1>1. PICK e \in 0 .. MaxExpected : expected = IF e = 0 THEN 1 ELSE e
  BY DEF Init
<1> QED
  BY <1>1 DEF Init, ProgressInv, TicInv

\* Beyond the end only stars are added.
LEMMA BeyondKeeps ==
  ASSUME ProgressInv, Quiet \/ DisplayTic, count >= expected
  PROVE  ProgressInv'
<1>1. count \in Nat /\ expected \in Nat /\ expected > 0 /\ tic \in Nat
  BY DEF ProgressInv
<1>2. count' = count + 1 /\ expected' = expected /\ count' > expected
  BY <1>1 DEF Quiet, DisplayTic
<1>3. tic' \in Nat /\ tic' >= tic /\ stars' = stars + (tic' - tic) /\ lines' = lines
  <2>1. CASE Quiet
    BY <1>1, <2>1 DEF Quiet, ProgressInv
  <2>2. CASE DisplayTic
    <3>1. PICK needed \in Truncated(count', expected, 50) :
            tic' = IF needed > tic THEN needed ELSE tic + 1
      BY <2>2 DEF DisplayTic
    <3>2. needed \in Nat
      BY <1>1, <1>2, TruncatedBounds
    <3> QED
      BY <1>1, <1>2, <2>2, <3>1, <3>2 DEF DisplayTic
  <2> QED
    BY <2>1, <2>2
<1> QED
  BY <1>1, <1>2, <1>3 DEF ProgressInv

LEMMA QuietKeeps ==
  ASSUME ProgressInv, Quiet, count < expected
  PROVE  ProgressInv'
<1>1. /\ TicInv /\ count' = count + 1 /\ count' < nextTic
      /\ UNCHANGED <<expected, nextTic, tic, stars, lines>>
  BY DEF Quiet, ProgressInv
<1> DEFINE d == tic * expected
<1>2. d \in Int /\ d' = d
  BY <1>1 DEF TicInv, ProgressInv
<1>3. nextTic <= expected
  <2>1. d <= 50 * expected
    BY <1>1, TimesMonotone DEF ProgressInv, TicInv
  <2> HIDE DEF d
  <2> QED
    BY <1>1, <1>2, <2>1 DEF ProgressInv, TicInv
<1>4. count' < expected
  BY <1>1, <1>3 DEF ProgressInv, TicInv
<1>5. count' * 50 - expected <= d /\ d <= count' * 50 + 2 * expected
  BY <1>1, <1>2 DEF ProgressInv, TicInv
<1>6. TicInv'
  BY <1>1, <1>2, <1>5 DEF TicInv
<1> QED
  BY <1>1, <1>4, <1>6 DEF ProgressInv

LEMMA DisplayKeeps ==
  ASSUME ProgressInv, DisplayTic, count < expected
  PROVE  ProgressInv'
<1>1. /\ TicInv /\ count \in Nat /\ expected \in Nat /\ expected > 0
      /\ count' = count + 1 /\ count' <= expected /\ count' >= nextTic
      /\ expected' = expected
      /\ nextTic' \in Truncated(tic', 50, expected)
  BY DEF DisplayTic, ProgressInv
<1>2. PICK needed \in Truncated(count', expected, 50) :
        tic' = IF needed > tic THEN needed ELSE tic + 1
  BY DEF DisplayTic
<1>3. /\ needed \in Nat
      /\ needed * expected <= count' * 50
      /\ count' * 50 <= needed * expected + expected
      /\ count' = expected => needed * expected = 50 * expected
  BY <1>1, TruncatedBounds
<1>4. tic' \in Nat /\ tic' >= needed /\ tic' > tic
  BY <1>1, <1>2, <1>3 DEF TicInv
<1>5. /\ nextTic' \in Nat
      /\ 50 * nextTic' <= tic' * expected
      /\ tic' * expected <= 50 * nextTic' + 50
      /\ tic' = 50 => nextTic' = expected
  BY <1>1, <1>4, TruncatedBounds
<1>6. CASE count' = expected
  <2>1. needed = 50
    <3>1. ~(needed * expected < 50 * expected) /\ ~(50 * expected < needed * expected)
      BY <1>1, <1>3, <1>6
    <3>2. ~(needed < 50)
      <4> SUFFICES ASSUME needed + 1 <= 50 PROVE FALSE
        BY <1>3
      <4>1. (needed + 1) * expected <= 50 * expected
        BY <1>1, <1>3, TimesMonotone
      <4> QED
        BY <1>1, <1>3, <1>6, <4>1
    <3>3. ~(50 < needed)
      <4> SUFFICES ASSUME 51 <= needed PROVE FALSE
        BY <1>3
      <4>1. 51 * expected <= needed * expected
        BY <1>1, <1>3, TimesMonotone
      <4> QED
        BY <1>1, <1>3, <1>6, <4>1
    <3> QED
      BY <1>3, <3>2, <3>3
  <2>2. stars' = 51 /\ lines' = 1
    BY <1>1, <1>2, <1>6, <2>1 DEF DisplayTic, TicInv
  <2> QED
    BY <1>1, <1>4, <1>6, <2>2 DEF ProgressInv
<1>7. CASE count' < expected
  <2>1. tic < 50
    BY <1>1, <1>7 DEF TicInv
  <2>2. needed < 50
    <3>1. needed * expected < 50 * expected
      BY <1>1, <1>3, <1>7
    <3> QED
      BY <1>1, <1>3, <3>1, TimesStrict
  <2>3. tic' \in 0 .. 50 /\ stars' = tic' /\ lines' = 0
    BY <1>1, <1>2, <1>3, <1>4, <1>7, <2>1, <2>2 DEF DisplayTic, TicInv
  <2>4. count' * 50 - expected <= tic' * expected
    <3>1. needed * expected <= tic' * expected
      BY <1>1, <1>3, <1>4, TimesMonotone
    <3> DEFINE n == needed * expected
               s == tic' * expected
    <3>2. n \in Int /\ s \in Int /\ count' \in Nat
      BY <1>1, <1>3, <1>4
    <3>3. n <= s
      BY <3>1
    <3>4. count' * 50 <= n + expected
      BY <1>3
    <3> HIDE DEF n, s
    <3>5. count' * 50 - expected <= s
      BY <1>1, <3>2, <3>3, <3>4
    <3> QED
      BY <3>5 DEF s
  <2>5. tic' * expected <= count' * 50 + 2 * expected
    <3>1. CASE tic' = needed
      BY <1>1, <1>3, <3>1
    <3>2. CASE tic' = tic + 1
      <4>1. tic' * expected = tic * expected + expected
        BY <1>1, <3>2 DEF TicInv
      <4>2. tic * expected <= 50 * nextTic + 50 /\ tic * expected <= count * 50 + 2 * expected
        BY <1>1 DEF TicInv
      <4>3. 50 * nextTic + 50 <= count' * 50 + 50 /\ count * 50 + 2 * expected = count' * 50 - 50 + 2 * expected
        BY <1>1 DEF TicInv
      <4> DEFINE d == tic * expected
      <4>4. d \in Int
        BY <1>1 DEF TicInv
      <4>5. d <= count' * 50 + expected
        <5> HIDE DEF d
        <5>1. d <= 50 * nextTic + 50 /\ d <= count * 50 + 2 * expected /\ nextTic \in Nat
          BY <1>1, <4>2 DEF d, TicInv
        <5> QED
          BY <1>1, <4>3, <4>4, <5>1
      <4>6. tic' * expected = d + expected /\ count' \in Nat
        BY <1>1, <4>1
      <4> HIDE DEF d
      <4> QED
        BY <1>1, <4>4, <4>5, <4>6
    <3> QED
      BY <1>2, <3>1, <3>2
  <2>6. TicInv'
    BY <1>1, <1>5, <2>3, <2>4, <2>5 DEF TicInv
  <2> QED
    BY <1>1, <1>4, <1>7, <2>6 DEF ProgressInv
<1> QED
  BY <1>1, <1>6, <1>7

LEMMA ProgressAlways == Spec => []ProgressInv
<1>1. ASSUME ProgressInv, [Next]_vars PROVE ProgressInv'
  <2>1. CASE UNCHANGED vars
    BY <1>1, <2>1 DEF vars, ProgressInv, TicInv
  <2> QED
    BY <1>1, <2>1, BeyondKeeps, QuietKeeps, DisplayKeeps DEF Next, ProgressInv
<1> QED
  BY <1>1, ProgressInit, PTL DEF Spec

(***************************************************************************)
(* The bar is complete when the last unit of work is done and not before,  *)
(* whatever the expected count and whichever way each product is rounded.  *)
(***************************************************************************)
THEOREM BarIsComplete == Spec => []CompleteAtEnd
<1>1. ASSUME ProgressInv PROVE CompleteAtEnd
  <2>1. ASSUME count < expected PROVE stars < 51 /\ lines = 0 /\ nextTic <= expected
    <3>1. TicInv /\ expected \in Nat
      BY <1>1, <2>1 DEF ProgressInv
    <3>2. tic * expected <= 50 * expected
      BY <3>1, TimesMonotone DEF TicInv
    <3>3. nextTic <= expected
      BY <3>1, <3>2 DEF TicInv
    <3> QED
      BY <3>1, <3>3 DEF TicInv
  <2> QED
    BY <1>1, <2>1 DEF ProgressInv, CompleteAtEnd
<1> QED
  BY <1>1, ProgressAlways, PTL

(***************************************************************************)
(* The stars drawn follow the work done: at most one star too few, at most *)
(* one and a rounding too many.                                            *)
(***************************************************************************)
THEOREM BarIsProportional == Spec => []Proportional
<1>1. ASSUME ProgressInv PROVE Proportional
  <2> SUFFICES ASSUME count < expected
               PROVE  /\ stars * expected >= count * 50 - expected
                      /\ stars * expected <= count * 50 + 2 * expected
    BY DEF Proportional
  <2>1. TicInv /\ count \in Nat /\ expected \in Nat
    BY <1>1 DEF ProgressInv
  <2> QED
    BY <2>1 DEF TicInv
<1> QED
  BY <1>1, ProgressAlways, PTL
=============================================================================
