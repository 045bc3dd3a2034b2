------------------------------ MODULE Circular ------------------------------
(***************************************************************************)
(* Serial number arithmetic on an unsigned counter that wraps around: the  *)
(* UCS_CIRCULAR_COMPARE macro of ucs/sys/math.h.  A counter of w bits      *)
(* takes its values in 0 .. SnMod-1 with SnMod = 2^w (the code's packet    *)
(* sequence numbers have w = 16).                                          *)
(***************************************************************************)
EXTENDS Integers

CONSTANT SnMod      \* 2^w, the number of values of the counter

ASSUME SnModAssumption == SnMod \in Nat /\ SnMod >= 4 /\ SnMod % 2 = 0

\* What is left of an integer stored in the unsigned counter.
Wrap(n) == n % SnMod

\* The cast to the signed type of the same width.
Signed(n) == IF Wrap(n) >= SnMod \div 2 THEN Wrap(n) - SnMod ELSE Wrap(n)

SnLt(a, b) == Signed(a - b) < 0
SnLe(a, b) == Signed(a - b) <= 0
SnEq(a, b) == Signed(a - b) = 0
=============================================================================
