------------------------------ MODULE Progress ------------------------------
(***************************************************************************)
(* progress_display (boost_progress.h): a bar of 51 stars that is drawn    *)
(* while a counter goes up to the expected count, and beyond: with         *)
(* -extract-from-allexes there may be more tasks than modules expected.    *)
(* The stars due and the count at which the next one is due are computed   *)
(* in floating point: a result that should be a whole number may come out  *)
(* just below it and be truncated to the one before.                       *)
(***************************************************************************)
EXTENDS Integers

CONSTANTS
  MaxExpected,   \* bounds the expected count of a run
  MaxBeyond      \* bounds how far a run counts beyond it

ASSUME ProgressAssumption == MaxExpected \in Nat /\ MaxBeyond \in Nat

VARIABLES
  count,      \* _count
  expected,   \* _expected_count
  nextTic,    \* _next_tic_count
  tic,        \* _tic
  stars,      \* the stars printed
  lines       \* the ends of line printed after the stars

vars == <<count, expected, nextTic, tic, stars, lines>>

(***************************************************************************)
(* restart. An expected count of 0 is taken for 1.                         *)
(***************************************************************************)
Init ==
  /\ \E e \in 0 .. MaxExpected : expected = IF e = 0 THEN 1 ELSE e
  /\ count = 0
  /\ nextTic = 0
  /\ tic = 0
  /\ stars = 0
  /\ lines = 0

(***************************************************************************)
(* a/b * c, computed as (a / b) * c and truncated. It is exact when a = b. *)
(***************************************************************************)
Truncated(a, b, c) ==
  LET whole == (a * c) \div b
  IN  IF (a * c) % b = 0 /\ a \notin {0, b} THEN {whole - 1, whole} ELSE {whole}

(***************************************************************************)
(* operator++, and display_tic when a star is due.                         *)
(***************************************************************************)
Quiet ==
  /\ count < expected + MaxBeyond
  /\ count' = count + 1
  /\ count' < nextTic
  /\ UNCHANGED <<expected, nextTic, tic, stars, lines>>

DisplayTicNoLastStar ==   \* mutant: no star is added at the end
  /\ count < expected + MaxBeyond
  /\ count' = count + 1
  /\ count' >= nextTic
  /\ \E needed \in Truncated(count', expected, 50) :
       tic' = IF needed > tic THEN needed ELSE tic + 1
  /\ nextTic' \in Truncated(tic', 50, expected)
  /\ stars' = stars + (tic' - tic)
  /\ lines' = IF count' = expected THEN lines + 1 ELSE lines
  /\ UNCHANGED expected

DisplayTicOnce ==   \* mutant: one star at a time
  /\ count < expected + MaxBeyond
  /\ count' = count + 1
  /\ count' >= nextTic
  /\ tic' = tic + 1
  /\ nextTic' \in Truncated(tic', 50, expected)
  /\ stars' = stars + 1
  /\ lines' = IF count' = expected THEN lines + 1 ELSE lines
  /\ UNCHANGED expected

DisplayTic ==
  /\ count < expected + MaxBeyond
  /\ count' = count + 1
  /\ count' >= nextTic
  /\ \E needed \in Truncated(count', expected, 50) :
       tic' = IF needed > tic THEN needed ELSE tic + 1
  /\ nextTic' \in Truncated(tic', 50, expected)
  /\ IF count' = expected
     THEN /\ stars' = stars + (tic' - tic) + (IF tic' < 51 THEN 1 ELSE 0)
          /\ lines' = lines + 1
     ELSE /\ stars' = stars + (tic' - tic)
          /\ lines' = lines
  /\ UNCHANGED expected

Next == Quiet \/ DisplayTic

Spec == Init /\ [][Next]_vars

-----------------------------------------------------------------------------
(***************************************************************************)
(* The bar is complete, 51 stars under the 51 characters of the scale and  *)
(* one end of line, when the last unit is done and not before, whatever    *)
(* the rounding; the next tic never lies beyond the end. Counting on adds  *)
(* stars but no end of line.                                               *)
(***************************************************************************)
CompleteAtEnd ==
  /\ count = expected => stars = 51 /\ lines = 1
  /\ count < expected => stars < 51 /\ lines = 0 /\ nextTic <= expected
  /\ count > expected => stars >= 51 /\ lines = 1

(***************************************************************************)
(* The bar tells the truth: it is never more than one star behind the work *)
(* done, nor more than one star and a rounding ahead of it.                *)
(***************************************************************************)
Proportional ==
  count > 0 /\ count < expected =>
    /\ stars * expected >= count * 50 - expected
    /\ stars * expected <= count * 50 + 2 * expected
=============================================================================
